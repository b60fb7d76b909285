\* Every way to log in, twice; two IQs with timeouts.
SPECIFICATION Spec
CONSTANTS
  Offers = {{}, {"other"}, {"PLAIN"}, {"DIGEST-MD5", "PLAIN"}, {"ANONYMOUS", "PLAIN"}}
  Iqs = {i1, i2}
  i1 = i1
  i2 = i2
  MaxLives = 2
INVARIANTS
  OneVerdict
  LoginGoesOn
  NoTimeoutAfterReply
CHECK_DEADLOCK FALSE
