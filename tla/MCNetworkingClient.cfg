SPECIFICATION Spec
CONSTANTS
  u1 = u1
  a = a
  b = b
  p = p
  q = q
  junk = junk
  addr = addr
  Newline = newline
  None = none
  Missing = missing
  Users = {u1}
  Letters = {a, b}
  Chars = {a, b, p, q, junk, addr, newline}
  Passwords <- MCPasswords
  Junk <- MCJunk
  Pointers <- MCPointers
  SaltLen = 2
  Addresses = 2
  MaxStarts = 3
  Damage <- MCDamage
CHECK_DEADLOCK FALSE
INVARIANTS
  ShownIsRegistered
  KnownAgain
PROPERTY EveryStartEnds
