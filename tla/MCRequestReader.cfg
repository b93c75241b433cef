SPECIFICATION FairSpec
CONSTANTS
  Messages <- AllMessages
  Buffer = 10
  MaxInt = 12
INVARIANTS
  TypeOK
  BodyIsWhatArrived
  NeverWaitsInVain
  OnlyBadLengthsThrow
  AcknowledgedSubmitsAreWhole
PROPERTIES
  CompleteRequestsAreHandled
