CONSTANTS
  Calls = {c1, c2}
  Passwords = {right}
  RightPw = right
  Unreadable = unreadable
  Zeroed = zeroed
  Addresses = {keyAddr, otherAddr}
  KeyAddr = keyAddr
  NoAddr = noAddr
SPECIFICATION FairSpec
INVARIANTS TypeOK OneAddress SignaturesAreAudited
PROPERTIES KnownOnceTold EveryRequestAnswered ImplementsTools
