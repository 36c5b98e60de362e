CONSTANTS
  Licenses = {l1}
  Devices = {d1, d2}
  Challenges = {c1, c2}
  Sources = {s1}
  SeatLimits = {1, 2}
  Requests = {r1, r2}
  MaxSecret = 2
  Nil = Nil
SPECIFICATION ServiceSpec
SYMMETRY Interchangeable
INVARIANTS SeatsHeld CertificateIsLive
PROPERTIES OneAnswer ChallengeUsedOnce
CHECK_DEADLOCK FALSE
