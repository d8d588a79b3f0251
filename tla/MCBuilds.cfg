CONSTANTS
  Txn = {1, 2, 3}
  Row = {1, 2}
  Programs <- Queries
  g_max_pre_req = 2
  g_his_recycle_len = 1
  UINT64_MAX = 100
  MaxAborts = 1
  g_max_num_waits = 2
SPECIFICATION Spec
INVARIANTS
  TypeOK
  Serializable
  AllOrNothing
  NoLostWakeup
  SnapshotKept
  NoDirtyRead
  
  ValidationHolds
