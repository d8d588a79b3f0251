CONSTANTS
  n1 = n1
  n2 = n2
  n3 = n3
  t1 = t1
  Node <- Nodes
  Txn <- Txns
  home <- Home
  Programs <- Queries
  MaxAborts = 2
  MaxWaits = 1
  CC_ALGS <- TictocBuild
SPECIFICATION Spec
INVARIANT CleanRetry
