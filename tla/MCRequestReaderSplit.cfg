SPECIFICATION Spec
CONSTANTS
  Messages <- OnePost
  Buffer = 10
  MaxInt = 12
INVARIANTS
  BodyIsTheRequestBody
