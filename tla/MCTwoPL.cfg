CONSTANTS
  r1 = r1
  r2 = r2
  Row <- Rows
  Txn <- Txns
  CC_ALGS <- Both
  Programs <- PairPrograms
SYMMETRY RowSymmetry
SPECIFICATION Spec
INVARIANTS
  TypeOK
  Exclusion
  OwnerCount
  NoLostWakeup
  HeadBlocked
  
  NoDeadlock
  Strictness
