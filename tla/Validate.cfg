SPECIFICATION Spec
CONSTANTS
  MaxUint64 = 9
  Max256 = 15
  MaxDataBytes = 2
  MaxChanges = 2
INVARIANTS
  TypeOK
  AcceptedFits
  Precedence
  BuiltForItsChain
  TxSpellsRequest
  RefusedForCause
CHECK_DEADLOCK FALSE
