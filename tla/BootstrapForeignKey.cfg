SPECIFICATION Spec
CONSTANTS
  OtherPorts = {"9090"}
  MaxBoots = 2
  MaxFailed = 0
  MaxEdits = 0
INVARIANTS
  FilesReferToRoutes
