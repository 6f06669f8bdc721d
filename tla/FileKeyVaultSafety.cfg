CONSTANTS
  Calls = {c1, c2, c3}
  Passwords = {right, wrong}
  RightPw = right
  Unreadable = unreadable
  Zeroed = zeroed
  Addresses = {keyAddr, otherAddr}
  KeyAddr = keyAddr
  NoAddr = noAddr
SPECIFICATION Spec
SYMMETRY CallSymmetry
INVARIANTS TypeOK OneCallInside NoSlotLost SecretsConfined RotationTakesEffect
PROPERTIES CancelWins AddressIsFinal ImplementsKeyVault
