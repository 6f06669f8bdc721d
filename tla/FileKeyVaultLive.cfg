CONSTANTS
  Calls = {c1, c2, c3}
  Passwords = {right}
  RightPw = right
  Unreadable = unreadable
  Zeroed = zeroed
  Addresses = {keyAddr}
  KeyAddr = keyAddr
  NoAddr = noAddr
SPECIFICATION FairSpec
PROPERTIES ImplementsFairKeyVault
