SPECIFICATION WalletSpec
CONSTANTS
  g1 = g1
  g2 = g2
  g3 = g3
  Guardian = {g1, g2, g3}
  Rightful = {"alice", "bob"}
  Thief = {"eve"}
  None = None
  Timelock = 2
  Threshold = 2
  Amount = {1, 2}
  Quorums <- MCQuorums
  MaxTransfers = 2
  MaxTime = 3
  HonestName = {"h", "i"}
  LiarName = {"k", "l"}
  MaxProviders = 4
  MaxAgreement = 3
  Pair = {"wp", "wq", "vp"}
  Bond = {2, 3}
  Penalty = {1, 2}
  MaxMissed = 4
CHECK_DEADLOCK FALSE
SYMMETRY Symmetric
INVARIANTS AccountTypeOK LargeTheftIsStopped MinorityNeverOwns WrongBalanceTakesQuorum BondCoversPenalties
