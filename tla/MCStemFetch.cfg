SPECIFICATION Spec
CONSTANTS
  p1 = p1
  p2 = p2
  p3 = p3
  p4 = p4
  p5 = p5
  Provider = {p1, p2, p3, p4, p5}
  Honest <- MCHonest
  Answer <- MCAnswer
  Target = "target"
  Required = 3
  Redundancy = 1
  MaxAttempts = 3
  MinRate <- MCMinRate
  StreakThreshold = 2
  MaxFetches = 2
SYMMETRY Symmetric
INVARIANTS FetchTypeOK AcceptedIsAttested HonestIsNeverBlamed HonestQuorumWins
CHECK_DEADLOCK FALSE
