\* An IQ that times out before any body has come.
SPECIFICATION Spec
CONSTANTS
  Offers = {{}, {"other"}, {"PLAIN"}, {"DIGEST-MD5", "PLAIN"}, {"ANONYMOUS", "PLAIN"}}
  Iqs = {i1, i2}
  i1 = i1
  i2 = i2
  MaxLives = 2
INVARIANTS
  NoReplyAfterTimeout
CHECK_DEADLOCK FALSE
