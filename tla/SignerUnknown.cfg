CONSTANTS
  Calls = {c1}
  Passwords = {right}
  RightPw = right
  Unreadable = unreadable
  Zeroed = zeroed
  Addresses = {keyAddr}
  KeyAddr = keyAddr
  NoAddr = noAddr
SPECIFICATION FairSpec
PROPERTIES UnknownUntilSigned
