SPECIFICATION Spec
CONSTANTS
  OtherPorts = {"9090"}
  MaxBoots = 4
  MaxFailed = 1
  MaxEdits = 1
INVARIANTS
  TypeOK
  FilesGoToTheirRoutes
  HelloIsServedFromFile
  CrashesCostOneFileEach
  RoutesHaveTheirCreator
  IInv
