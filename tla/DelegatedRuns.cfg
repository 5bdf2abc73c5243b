SPECIFICATION LiveSpec
CONSTANTS
  Delegations = {d1}
  MaxGeneration = 2
  MaxAttempts = 2
  MaxRevision = 2
CHECK_DEADLOCK FALSE
INVARIANTS TypeOK RunMatchesDelegation EarlierRunsStopped HandoverIsCurrent
PROPERTIES DelegationsMoveOn
