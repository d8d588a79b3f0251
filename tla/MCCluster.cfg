CONSTANTS
  n1 = n1
  n2 = n2
  n3 = n3
  t1 = t1
  Node <- Nodes
  Txn <- Txns
  home <- Home
  Programs <- Groups
  CC_ALGS <- CommitBuilds
  MaxAborts = 2
  MaxWaits = 1
  StepsNodeCnt = 3
  NodeCnt = 2
  g_wh_update = TRUE
  MaxItems = 4
  g_part_per_txn = 3
  DQueries <- StepQueries
  Loads <- ClientLoads
  g_inflight_max = 2
  MaxEpoch = 2
SPECIFICATION ClusterSpec
INVARIANTS
  CommitTypeOK
  CommitAtomicity
  CommitAnswerIsFinal
  CommitResponsesCounted
  CommitNoGhostManager
  CommitCleanRetry
  WorkOnce
  CalvinOrder
  RunsLocked
  AckExact
PROPERTIES
  CommitsAtomically
  EveryQueryAnswered
