SPECIFICATION Spec
CONSTANTS
  ConfigFiles <- ShippedOnly
  RowSets <- AllRows
  Requests <- AllRequests
  Extension <- Suffixes
INVARIANTS
  ConfiguredTypeIsServed
