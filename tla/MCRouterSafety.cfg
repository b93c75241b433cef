SPECIFICATION Spec
CONSTANTS
  ConfigFiles <- AllFiles
  RowSets <- AllRows
  Requests <- AllRequests
  Extension <- Suffixes
INVARIANTS
  TypeOK
  TablesFollowTheirSources
  SecureContentIsGuarded
  IInv
