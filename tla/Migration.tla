------------------------------ MODULE Migration ------------------------------
(***************************************************************************)
(* Live migration of one partition, mini-partition by mini-partition       *)
(* (MIGRATION_ALG == DETEST): the client starts it, the source's migration *)
(* thread locks and ships the rows of a mini-partition in RECV_MIGRATION   *)
(* chunks, the destination installs them and answers FINISH_MIGRATION, and *)
(* the source then publishes the new owner with SET_MINIPARTMAP (and, at   *)
(* the end, SET_PARTMAP) and goes on with the next mini-partition.         *)
(* Meanwhile transactions that write one row run at their home node, route *)
(* the request with the home node's minipart_map and finish with the home  *)
(* node's part_map.  Rows are locked as in the NO_WAIT build.              *)
(*                                                                         *)
(* Nothing orders two messages: a sender picks a queue at random, several  *)
(* send and receive threads serve them, and several workers take them off  *)
(* the work queue.  No two messages of this protocol are equal, so the     *)
(* network is a set.                                                       *)
(***************************************************************************)
EXTENDS Integers, Sequences, FiniteSets

CONSTANTS Node,               \* the servers
          Client,             \* the client process, which keeps maps too
          Src, Dest,          \* node_id_src, node_id_des of the migration
          g_part_split_cnt,   \* mini-partitions of the partition
          g_minipart_size,    \* rows of a mini-partition
          Txn, home,          \* transactions and where they start
          Instances           \* the values of msg_num and key to consider

MiniPart == 0 .. (g_part_split_cnt - 1)
Row == MiniPart \X (0 .. (g_minipart_size - 1))
Holder == Node \cup {Client}

ASSUME NodeAssumption == /\ Src \in Node /\ Dest \in Node /\ Src # Dest
                         /\ Client \notin Node /\ IsFiniteSet(Node)
ASSUME SizeAssumption == /\ g_part_split_cnt \in Nat \ {0}
                         /\ g_minipart_size \in Nat \ {0}
ASSUME TxnAssumption == /\ home \in [Txn -> Node]
                        /\ \A i \in Instances : /\ i = <<i[1], i[2]>>
                                                 /\ i[1] \in Nat \ {0}
                                                 /\ DOMAIN i[2] \subseteq Txn
                                                 /\ \A t \in DOMAIN i[2] : i[2][t] \in Row
                        /\ Txn \cap {"none", "hello"} = {}

VARIABLES
  msg_num,        \* rows that fit in one RECV_MIGRATION message
  key,            \* the row that a transaction writes, if it runs at all
  minipart_map,   \* [Holder -> [MiniPart -> node and status]]
  part_map,       \* [Holder -> node and status] of the migrated partition
  rows,           \* what the index of a node finds for a key, "none" if nothing
  sent,           \* history: the row_data that was shipped for a row
  mig_locks,      \* rows the migration's transaction has locked at the source
  write_locks,    \* [Node -> [Row -> the writer that holds the row, or "none"]]
  sending,        \* what the source's migration thread is in the middle of
  migmsg_queue,   \* [Node -> messages handed to the migration thread]
  net,            \* messages on their way
  state,          \* [Txn -> progress at the home node]
  touched,        \* [Txn -> query->partitions_touched, one partition per node]
  rsp_cnt,        \* [Txn -> responses the home node still waits for]
  failed          \* [Node -> the assertion that stopped it, or "none"]

migration == <<msg_num, key, minipart_map, part_map, rows, sent, mig_locks, sending, migmsg_queue>>
txns == <<write_locks, state, touched, rsp_cnt>>
vars == <<migration, txns, net, failed>>

Idle == [active |-> FALSE]
Sending == [active : {TRUE}, order : MiniPart, key_ptr : 0 .. (g_minipart_size - 1),
            chunk : SUBSET (0 .. (g_minipart_size - 1)), nested : BOOLEAN]

Message ==
       [type : {"SEND_MIGRATION", "FINISH_MIGRATION"}, to : Node, order : MiniPart]
  \cup [type : {"RECV_MIGRATION"}, to : Node, order : MiniPart,
        keys : SUBSET (0 .. (g_minipart_size - 1)), islast : BOOLEAN]
  \cup [type : {"SET_MINIPARTMAP"}, to : Holder, order : MiniPart]
  \cup [type : {"SET_PARTMAP"}, to : Holder]
  \cup [type : {"RQRY"}, to : Node, txn : Txn, return_node_id : Node]
  \cup [type : {"RQRY_RSP", "RPREPARE", "RFIN"}, to : Node, txn : Txn, rc : {"RCOK", "Abort"}]
  \cup [type : {"RACK_PREP", "RACK_FIN"}, to : Node, txn : Txn]

Migrating == {"SEND_MIGRATION", "RECV_MIGRATION", "FINISH_MIGRATION"}

(* The maps have their shape, queues and network hold messages.            *)
TypeOK ==
  /\ <<msg_num, key>> \in Instances
  /\ minipart_map \in [Holder -> [MiniPart -> [node : Node, status : 0..2]]]
  /\ part_map \in [Holder -> [node : Node, status : 0..2]]
  /\ rows \in [Node -> [Row -> {"none", "hello"} \cup Txn]]
  /\ sent \in [Row -> {"none", "hello"} \cup Txn]
  /\ mig_locks \subseteq Row
  /\ write_locks \in [Node -> [Row -> {"none"} \cup Txn]]
  /\ sending \in {Idle} \cup Sending
  /\ \A n \in Node : \A i \in DOMAIN migmsg_queue[n] :
        migmsg_queue[n][i] \in Message /\ migmsg_queue[n][i].type \in Migrating
  /\ net \subseteq Message
  /\ state \in [Txn -> {"new", "remote", "preparing", "committing", "aborting", "committed", "aborted"}]
  /\ touched \in [Txn -> SUBSET Node]
  /\ rsp_cnt \in [Txn -> 0..Cardinality(Node)]
  /\ failed \in [Node -> {"none", "the key does not exist!", "IS_LOCAL"}]

-----------------------------------------------------------------------------
(* Every map starts with the partition at its first node; the loader puts  *)
(* the constant "hello" in every row of the node that owns it.             *)
Init ==
  /\ \E i \in Instances : msg_num = i[1] /\ key = i[2]
  /\ minipart_map = [n \in Holder |-> [m \in MiniPart |-> [node |-> Src, status |-> 0]]]
  /\ part_map = [n \in Holder |-> [node |-> Src, status |-> 0]]
  /\ rows = [n \in Node |-> [r \in Row |-> IF n = Src THEN "hello" ELSE "none"]]
  /\ sent = [r \in Row |-> "none"]
  /\ mig_locks = {}
  /\ write_locks = [n \in Node |-> [r \in Row |-> "none"]]
  /\ sending = Idle
  /\ migmsg_queue = [n \in Node |-> <<>>]
  /\ net = {[type |-> "SEND_MIGRATION", to |-> Src, order |-> 0]}
  /\ state = [t \in Txn |-> "new"]
  /\ touched = [t \in Txn |-> {}]
  /\ rsp_cnt = [t \in Txn |-> 0]
  /\ failed = [n \in Node |-> "none"]

Up(n) == n \in Node => failed[n] = "none"
get_key_node_id(n, r) == minipart_map[n][r[1]].node

(* MigrateMessageQueue: the one migration thread of a node has one queue.  *)
enqueue(n, msg) == migmsg_queue' = [migmsg_queue EXCEPT ![n] = Append(@, msg)]
dequeue(n) == /\ migmsg_queue[n] # <<>>
              /\ migmsg_queue' = [migmsg_queue EXCEPT ![n] = Tail(@)]

(* A worker hands a migration message to the migration thread.             *)
WorkerEnqueue(msg) ==
  /\ msg \in net /\ msg.type \in Migrating /\ Up(msg.to)
  /\ net' = net \ {msg}
  /\ enqueue(msg.to, msg)
  /\ UNCHANGED <<msg_num, key, minipart_map, part_map, rows, sent, mig_locks, sending, txns, failed>>

Dequeues(n, type) ==
  /\ Up(n) /\ dequeue(n) /\ Head(migmsg_queue[n]).type = type

(* Mutant of MarkMigrating: every mini-partition is marked.                *)
MarkMigratingPart(n, m) ==
  /\ minipart_map' = [minipart_map EXCEPT ![n] =
                        [q \in MiniPart |-> [@[q] EXCEPT !.status = 1]]]
  /\ part_map' = [part_map EXCEPT ![n].status = 1]

(* update_minipart_map_status and update_part_map_status to 1.             *)
MarkMigrating(n, m) ==
  /\ minipart_map' = [minipart_map EXCEPT ![n][m].status = 1]
  /\ part_map' = [part_map EXCEPT ![n].status = 1]

(* process_send_migration: the metadata first, then a loop over the keys.  *)
(* nested: the call comes from process_finish_migration, which commits the *)
(* migration's transaction when the loop is over.                          *)
BeginSend(m, nested) ==
  /\ MarkMigrating(Src, m)
  /\ sending' = [active |-> TRUE, order |-> m, key_ptr |-> 0, chunk |-> {},
                 nested |-> nested]

ProcessSendMigration ==
  /\ ~sending.active
  /\ Dequeues(Src, "SEND_MIGRATION")
  /\ BeginSend(Head(migmsg_queue[Src]).order, FALSE)
  /\ UNCHANGED <<msg_num, key, rows, sent, mig_locks, txns, net, failed>>

(* commit() releases every lock the migration's transaction has taken.     *)
CommitMigration == mig_locks' = {}

(* Mutant of LastKey: one key too far.                                     *)
LastKeyPast(key_ptr) == key_ptr = g_minipart_size

(* key_ptr == key_end.                                                     *)
LastKey(key_ptr) == key_ptr = g_minipart_size - 1

(* Mutant of ChunkFull: one row too few.                                   *)
ChunkFullEarly(chunk) == Cardinality(chunk) >= msg_num - 1

(* data_size >= msg_num.                                                   *)
ChunkFull(chunk) == Cardinality(chunk) >= msg_num

(* One turn of the loop.  get_row is retried until no writer holds the     *)
(* row; a full chunk, or the last key, goes out as a RECV_MIGRATION.  When *)
(* the loop is over the metadata are set once more.                        *)
SendRow ==
  LET m == sending.order
      r == <<m, sending.key_ptr>>
      chunk == sending.chunk \cup {sending.key_ptr}
      atEnd == LastKey(sending.key_ptr)
  IN  /\ sending.active /\ Up(Src)
      /\ rows[Src][r] # "none" /\ write_locks[Src][r] = "none"
      /\ sent' = [sent EXCEPT ![r] = rows[Src][r]]
      /\ IF atEnd \/ ChunkFull(chunk)
         THEN net' = net \cup {[type |-> "RECV_MIGRATION", to |-> Dest, order |-> m,
                                keys |-> chunk, islast |-> atEnd]}
         ELSE net' = net
      /\ IF atEnd
         THEN /\ sending' = Idle
              /\ MarkMigrating(Src, m)
              /\ IF sending.nested THEN CommitMigration ELSE mig_locks' = mig_locks \cup {r}
         ELSE /\ sending' = [sending EXCEPT !.key_ptr = @ + 1,
                               !.chunk = IF ChunkFull(chunk) THEN {} ELSE chunk]
              /\ mig_locks' = mig_locks \cup {r}
              /\ UNCHANGED <<minipart_map, part_map>>
      /\ UNCHANGED <<msg_num, key, rows, migmsg_queue, txns, failed>>

(* The value a received row is built with: the loader's constant, whatever *)
(* row_data the message carries.                                           *)
ConstructRow(r) == "hello"

(* process_recv_migration: new rows for the keys of the chunk; the last    *)
(* chunk sets the destination's status and answers FINISH_MIGRATION.       *)
ProcessRecvMigration(n) ==
  LET msg == Head(migmsg_queue[n])
      m == msg.order
  IN  /\ Dequeues(n, "RECV_MIGRATION")
      /\ rows' = [rows EXCEPT ![n] = [r \in Row |->
                    IF r[1] = m /\ r[2] \in msg.keys THEN ConstructRow(r) ELSE rows[n][r]]]
      /\ IF msg.islast
         THEN /\ MarkMigrating(n, m)
              /\ net' = net \cup {[type |-> "FINISH_MIGRATION", to |-> Src, order |-> m]}
         ELSE UNCHANGED <<minipart_map, part_map, net>>
      /\ UNCHANGED <<msg_num, key, sent, mig_locks, sending, txns, failed>>

(* Mutant of SyncOthers: the source is told too.                           *)
SyncAll(n, type, m) ==
  IF type = "SET_PARTMAP" THEN {[type |-> type, to |-> i] : i \in Holder}
  ELSE {[type |-> type, to |-> i, order |-> m] : i \in Holder}

(* Mutant of SyncOthers: the clients are forgotten.                        *)
SyncServers(n, type, m) ==
  IF type = "SET_PARTMAP" THEN {[type |-> type, to |-> i] : i \in Node \ {n}}
  ELSE {[type |-> type, to |-> i, order |-> m] : i \in Node \ {n}}

(* Everybody but the source itself is told: its own update is commented    *)
(* out.                                                                    *)
SyncOthers(n, type, m) ==
  IF type = "SET_PARTMAP" THEN {[type |-> type, to |-> i] : i \in Holder \ {n}}
  ELSE {[type |-> type, to |-> i, order |-> m] : i \in Holder \ {n}}

(* Mutant of LastOrder: the last mini-partition is forgotten.              *)
LastOrderEarly(order) == order = g_part_split_cnt - 2

(* The mini-partition is the last of the partition in mig_order.           *)
LastOrder(order) == order = g_part_split_cnt - 1

(* process_finish_migration: publish the new owner, then either publish    *)
(* the partition, or go on with the next mini-partition in the same call.  *)
ProcessFinishMigration ==
  LET m == Head(migmsg_queue[Src]).order
  IN  /\ ~sending.active
      /\ Dequeues(Src, "FINISH_MIGRATION")
      /\ IF LastOrder(m)
         THEN /\ net' = net \cup SyncOthers(Src, "SET_MINIPARTMAP", m)
                            \cup SyncOthers(Src, "SET_PARTMAP", m)
              /\ CommitMigration
              /\ UNCHANGED <<minipart_map, part_map, sending>>
         ELSE /\ net' = net \cup SyncOthers(Src, "SET_MINIPARTMAP", m)
              /\ BeginSend(m + 1, TRUE)
              /\ UNCHANGED mig_locks
      /\ UNCHANGED <<msg_num, key, rows, sent, txns, failed>>

(* process_set_minipartmap, process_set_partmap, client_recv_loop.         *)
ProcessSetMinipartMap(msg) ==
  /\ msg \in net /\ msg.type = "SET_MINIPARTMAP" /\ Up(msg.to)
  /\ net' = net \ {msg}
  /\ minipart_map' = [minipart_map EXCEPT ![msg.to][msg.order] =
                        [node |-> Dest, status |-> 2]]
  /\ UNCHANGED <<msg_num, key, part_map, rows, sent, mig_locks, sending, migmsg_queue, txns, failed>>

(* What a node knows of the partition afterwards.                          *)
process_set_partmap(n) ==
  part_map' = [part_map EXCEPT ![n] = [node |-> Dest, status |-> 2]]

(* The worker of a server, or the input thread of the client.              *)
ProcessSetPartMap(msg) ==
  /\ msg \in net /\ msg.type = "SET_PARTMAP" /\ Up(msg.to)
  /\ net' = net \ {msg}
  /\ process_set_partmap(msg.to)
  /\ UNCHANGED <<msg_num, key, minipart_map, rows, sent, mig_locks, sending, migmsg_queue, txns, failed>>

-----------------------------------------------------------------------------
(* Transactions.  get_row on a locked row aborts (NO_WAIT); the migration  *)
(* reads, so it only stands in the way of writers, and all of these write. *)
Lockable(n, r) == write_locks[n][r] = "none" /\ ~(n = Src /\ r \in mig_locks)

(* index_btree::index_read asserts that the key is there.                  *)
IndexFails(n, r) == rows[n][r] = "none"

Fail(n, why) == failed' = [failed EXCEPT ![n] = why]

(* The node part_map names for the partition that stands for node p.       *)
get_part_node_id(n, p) == IF p = Src THEN part_map[n].node ELSE p

(* send_prepare_messages, send_finish_messages: rsp_cnt counts partitions, *)
(* the messages go to the nodes that part_map names for them now.          *)
SendRound(t, type, rc, old) ==
  LET h == home[t]
      targets == {get_part_node_id(h, p) : p \in touched[t]} \ {h}
  IN  /\ rsp_cnt' = [rsp_cnt EXCEPT ![t] = Cardinality(touched[t]) - 1]
      /\ net' = old \cup {[type |-> type, to |-> n, txn |-> t, rc |-> rc] : n \in targets}

(* process_rtxn: a local request runs and commits, with the row locked     *)
(* throughout; another one goes to the node the home's map names.          *)
ProcessRtxn(t) ==
  LET h == home[t]
      r == key[t]
      d == get_key_node_id(h, r)
  IN  /\ t \in DOMAIN key /\ state[t] = "new" /\ Up(h)
      /\ IF d = h
         THEN /\ touched' = [touched EXCEPT ![t] = {h}]
              /\ UNCHANGED <<net, write_locks, rsp_cnt>>
              /\ \/ /\ IndexFails(h, r) /\ Fail(h, "the key does not exist!")
                    /\ UNCHANGED <<state, rows>>
                 \/ /\ ~IndexFails(h, r) /\ Lockable(h, r)
                    /\ rows' = [rows EXCEPT ![h][r] = t]
                    /\ state' = [state EXCEPT ![t] = "committed"]
                    /\ UNCHANGED failed
                 \/ /\ ~IndexFails(h, r) /\ ~Lockable(h, r)
                    /\ state' = [state EXCEPT ![t] = "aborted"]
                    /\ UNCHANGED <<rows, failed>>
         ELSE /\ touched' = [touched EXCEPT ![t] = {h, d}]
              /\ state' = [state EXCEPT ![t] = "remote"]
              /\ net' = net \cup {[type |-> "RQRY", to |-> d, txn |-> t, return_node_id |-> h]}
              /\ UNCHANGED <<rows, write_locks, rsp_cnt, failed>>
      /\ UNCHANGED <<msg_num, key, minipart_map, part_map, sent, mig_locks, sending, migmsg_queue>>

Respond(msg, rc) == [type |-> "RQRY_RSP", to |-> msg.return_node_id,
                     txn |-> msg.txn, rc |-> rc]

(* process_rqry.  A request that is not local here either is sent on; that *)
(* returns WAIT_REM, and anything but WAIT is answered at once.  (The      *)
(* handler aborts a request that comes back to its home node; RqryNotHome  *)
(* shows that none does.)                                                  *)
ProcessRqry(msg) ==
  LET t == msg.txn
      n == msg.to
      r == key[t]
      d == get_key_node_id(n, r)
      rest == net \ {msg}
  IN  /\ msg \in net /\ msg.type = "RQRY" /\ Up(n) /\ n # home[t]
      /\ \/ /\ d # n
            /\ net' = rest \cup {[type |-> "RQRY", to |-> d, txn |-> t, return_node_id |-> n],
                                 Respond(msg, "RCOK")}
            /\ UNCHANGED <<write_locks, failed>>
         \/ /\ d = n /\ IndexFails(n, r)
            /\ Fail(n, "the key does not exist!") /\ net' = rest
            /\ UNCHANGED write_locks
         \/ /\ d = n /\ ~IndexFails(n, r) /\ Lockable(n, r)
            /\ write_locks' = [write_locks EXCEPT ![n][r] = t]
            /\ net' = rest \cup {Respond(msg, "RCOK")}
            /\ UNCHANGED failed
         \/ /\ d = n /\ ~IndexFails(n, r) /\ ~Lockable(n, r)
            /\ net' = rest \cup {Respond(msg, "Abort")}
            /\ UNCHANGED <<write_locks, failed>>
      /\ UNCHANGED <<migration, state, touched, rsp_cnt>>

(* process_rqry_rsp asserts that it runs at the home node; there it starts *)
(* the abort or, the only request being done, the commit.                  *)
ProcessRqryRsp(msg) ==
  LET t == msg.txn
  IN  /\ msg \in net /\ msg.type = "RQRY_RSP" /\ Up(msg.to)
      /\ IF msg.to = home[t]
         THEN /\ IF msg.rc = "Abort"
                 THEN /\ SendRound(t, "RFIN", "Abort", net \ {msg})
                      /\ state' = [state EXCEPT ![t] = "aborting"]
                 ELSE /\ SendRound(t, "RPREPARE", "RCOK", net \ {msg})
                      /\ state' = [state EXCEPT ![t] = "preparing"]
              /\ UNCHANGED failed
         ELSE /\ Fail(msg.to, "IS_LOCAL") /\ net' = net \ {msg}
              /\ UNCHANGED <<state, rsp_cnt>>
      /\ UNCHANGED <<migration, write_locks, touched>>

(* process_rprepare: a NO_WAIT transaction has nothing to validate.        *)
ProcessRprepare(msg) ==
  /\ msg \in net /\ msg.type = "RPREPARE" /\ Up(msg.to)
  /\ net' = (net \ {msg}) \cup {[type |-> "RACK_PREP", to |-> home[msg.txn], txn |-> msg.txn]}
  /\ UNCHANGED <<migration, txns, failed>>

(* process_rack_prep: after the last vote (there is one, from the only     *)
(* remote partition), the finish round.                                    *)
ProcessRackPrep(msg) ==
  /\ msg \in net /\ msg.type = "RACK_PREP" /\ Up(msg.to)
  /\ SendRound(msg.txn, "RFIN", "RCOK", net \ {msg})
  /\ state' = [state EXCEPT ![msg.txn] = "committing"]
  /\ UNCHANGED <<migration, write_locks, touched, failed>>

(* process_rfin: commit or abort what the transaction did here.            *)
ProcessRfin(msg) ==
  LET t == msg.txn
      n == msg.to
      r == key[t]
      holds == write_locks[n][r] = t
  IN  /\ msg \in net /\ msg.type = "RFIN" /\ Up(n)
      /\ net' = (net \ {msg}) \cup {[type |-> "RACK_FIN", to |-> home[t], txn |-> t]}
      /\ write_locks' = [write_locks EXCEPT ![n][r] = IF holds THEN "none" ELSE @]
      /\ rows' = [rows EXCEPT ![n][r] = IF holds /\ msg.rc = "RCOK" THEN t ELSE @]
      /\ UNCHANGED <<msg_num, key, minipart_map, part_map, sent, mig_locks, sending, migmsg_queue,
                     state, touched, rsp_cnt, failed>>

(* process_rack_rfin: the last response ends the transaction.              *)
ProcessRackFin(msg) ==
  LET t == msg.txn
  IN  /\ msg \in net /\ msg.type = "RACK_FIN" /\ Up(msg.to)
      /\ net' = net \ {msg}
      /\ rsp_cnt' = [rsp_cnt EXCEPT ![t] = @ - 1]
      /\ state' = [state EXCEPT ![t] = IF @ = "committing" THEN "committed" ELSE "aborted"]
      /\ UNCHANGED <<migration, write_locks, touched, failed>>

-----------------------------------------------------------------------------
MigrateThread == \/ ProcessSendMigration
                 \/ SendRow
                 \/ \E n \in Node : ProcessRecvMigration(n)
                 \/ ProcessFinishMigration

Worker == \E msg \in net : \/ WorkerEnqueue(msg)
                           \/ ProcessSetMinipartMap(msg)
                           \/ ProcessSetPartMap(msg)
                           \/ ProcessRqry(msg)
                           \/ ProcessRqryRsp(msg)
                           \/ ProcessRprepare(msg)
                           \/ ProcessRackPrep(msg)
                           \/ ProcessRfin(msg)
                           \/ ProcessRackFin(msg)

Next == MigrateThread \/ Worker \/ \E t \in Txn : ProcessRtxn(t)

Spec == Init /\ [][Next]_vars

(* The migration threads and the workers poll their queues, so as long as  *)
(* one of them has something to do, one of them does it.                   *)
FairSpec == Spec /\ WF_vars(MigrateThread \/ Worker)

-----------------------------------------------------------------------------
OneMessage == msg_num >= g_minipart_size
Arrived(m) == \A r \in Row : r[1] = m => rows[Dest][r] # "none"

(* Nobody is sent to the destination for rows it does not have yet: the    *)
(* owner in a minipart_map changes (SET_MINIPARTMAP), and the owner in a   *)
(* part_map (SET_PARTMAP), only after process_recv_migration has inserted  *)
(* every row concerned.  This needs a mini-partition to fit in one message *)
(* (see NoMissingKey).                                                     *)
RowsBeforeRoute == OneMessage => \A n \in Holder :
    /\ \A m \in MiniPart : minipart_map[n][m].node = Dest => Arrived(m)
    /\ part_map[n].node = Dest => \A m \in MiniPart : Arrived(m)

InTransit(m) ==
  \/ sending.active /\ sending.order = m
  \/ \E msg \in net : msg.type \in Migrating /\ msg.order = m
  \/ \E n \in Node : \E i \in DOMAIN migmsg_queue[n] : migmsg_queue[n][i].order = m

(* The migration is progressive: at any time one mini-partition at most is *)
(* between its SEND_MIGRATION and the end of its FINISH_MIGRATION, and     *)
(* those before it in mig_order have all arrived, if a mini-partition fits *)
(* in one message.                                                         *)
OneAtATime == \A m \in MiniPart : OneMessage /\ InTransit(m) =>
  /\ \A q \in MiniPart \ {m} : ~InTransit(q)
  /\ \A q \in MiniPart : q < m => Arrived(q)

(* A request never comes back to the node that started its transaction     *)
(* (process_rqry: M_ASSERT_V(!IS_LOCAL(...))), however the updates of the  *)
(* maps overtake each other.                                               *)
RqryNotHome == \A msg \in net : msg.type = "RQRY" => msg.to # home[msg.txn]

(* Metadata only moves forward: a mini-partition or a partition that a     *)
(* node has seen migrated (status 2) is never marked migrating or absent   *)
(* again by a late RECV_MIGRATION, and never moves back to the source.     *)
StatusAdvances ==
  [][\A n \in Holder :
       /\ part_map'[n].status >= part_map[n].status
       /\ part_map[n].node = Dest => part_map'[n].node = Dest
       /\ \A m \in MiniPart :
            /\ minipart_map'[n][m].status >= minipart_map[n][m].status
            /\ minipart_map[n][m].node = Dest => minipart_map'[n][m].node = Dest]_vars

Migrated(n) == /\ part_map[n] = [node |-> Dest, status |-> 2]
               /\ \A m \in MiniPart : minipart_map[n][m] = [node |-> Dest, status |-> 2]

(* Once started, the migration ends: unless an assertion stops a node,     *)
(* everybody but the source learns that the whole partition has moved,     *)
(* though the migration thread has to wait for the writers' locks.         *)
MigrationCompletes ==
  <>(\/ \A n \in Holder \ {Src} : Migrated(n)
     \/ \E n \in Node : failed[n] # "none")

(* index_btree::index_read: M_ASSERT(false, "the key does not exist!").    *)
NoMissingKey == \A n \in Node : failed[n] # "the key does not exist!"

(* process_rqry_rsp: assert(IS_LOCAL(msg->get_txn_id())).                  *)
RspAtHome == \A n \in Node : failed[n] # "IS_LOCAL"

(* process_recv_migration, "receive data and construct": a row that the    *)
(* source shipped with a written value does not start from the loader's    *)
(* constant at the destination.                                            *)
DataKept == \A r \in Row : rows[Dest][r] = "hello" => sent[r] = "hello"
=============================================================================
