CONSTANTS
  src = src
  dest = dest
  other = other
  t0 = t0
  t1 = t1
  t2 = t2
  Client = client
  Node <- Servers
  Src = src
  Dest = dest
  g_part_split_cnt = 2
  g_minipart_size = 2
  Txn <- Txns
  home <- Homes
  Instances <- Config
CHECK_DEADLOCK FALSE
SPECIFICATION Spec
INVARIANT NoMissingKey
