CONSTANTS
  r1 = r1
  r2 = r2
  Row <- Rows
  Txn <- Txns
  CC_ALGS <- WaitDie
  Programs <- WritePrograms
SPECIFICATION FairSpec
PROPERTY EveryTxnCommits
