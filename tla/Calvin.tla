------------------------------- MODULE Calvin -------------------------------
(***************************************************************************)
(* The CALVIN build: a sequencer on every node puts the queries of its     *)
(* client into batches and sends each to the nodes it concerns, the lock   *)
(* thread of a node asks for the locks in the order of the batches, the    *)
(* workers run a transaction once it has its locks on the node, exchange   *)
(* reads, and acknowledge to the sequencer, which answers the client.  A   *)
(* transaction is named by its batch and txn_id, here                      *)
(* <<batch, sequencer, place in the batch>>.                               *)
(***************************************************************************)
EXTENDS TPCC

CONSTANTS
  Loads,          \* sets of [node, q] for the clients to send
  g_inflight_max, \* queries a client has at a node at a time
  MaxEpoch        \* bound on the batches of a sequencer

NodeIds == 0..NodeCnt - 1

VARIABLES
  todo,      \* the queries not sent yet
  inflight,  \* num_inflight_txns of the client of each node
  rsps,      \* CL_RSP on their way: the nodes they come from
  seqq,      \* seq_queue: CL_QRY and CALVIN_ACK
  seq,       \* sequencers: seq_epoch, next_txn_id, the wait lists, fill_queue
  sched,     \* sched_queue: [node][sequencer], CL_QRY and RDONE
  sched_ptr, \* the queue the lock thread is at
  worker_epoch,
  lthd,      \* lock thread: the transaction and the locks it still has to ask for
  lock,      \* Row_lock of each row
  man,       \* the transaction managers of each node
  workq,     \* work queue of each node: CL_QRY, RTXN and RFWD
  exec,      \* for each row, the accesses in the order they were made
  started    \* transactions run on each node, and how often

cvars == <<todo, inflight, rsps, seqq, seq, sched, sched_ptr, worker_epoch,
           lthd, lock, man, workq, exec, started>>

----------------------------------------------------------------------------
(* YCSB in this build.  A query has requests [key, acctype] and abort, the *)
(* value of YCSB_ABORT_MODE.                                               *)

get_key_node_id(key) == key % NodeCnt

ycsb_participants(q) == {get_key_node_id(q.reqs[k].key) : k \in 1..Len(q.reqs)}

ycsb_get_participants(q) ==
  LET at(type) == {get_key_node_id(q.reqs[k].key) :
                     k \in {j \in 1..Len(q.reqs) : q.reqs[j].acctype = type}}
  IN  [participant |-> at("RD"), active |-> at("WR")]

ReqsAt(q, n) == SelectSeq(q.reqs, LAMBDA r : get_key_node_id(r.key) = n)

Request(r) == [row |-> <<"YCSB", r.key>>, type |-> r.acctype]

ycsb_acquire_locks(q, n) == [k \in 1..Len(ReqsAt(q, n)) |-> Request(ReqsAt(q, n)[k])]

run_ycsb(q, n, type) ==
  SelectSeq(ycsb_acquire_locks(q, n), LAMBDA l : l.type = type)
----------------------------------------------------------------------------
Tpc(q) == q.workload = "TPCC"

participants(q) == IF Tpc(q) THEN tpcc_participants(q) ELSE ycsb_participants(q)

get_participants(q) ==
  IF Tpc(q) THEN tpcc_get_participants(q) ELSE ycsb_get_participants(q)

acquire_locks(q, n) ==
  IF Tpc(q) THEN tpcc_acquire_locks(q, n) ELSE ycsb_acquire_locks(q, n)

phase2(q, n) == IF Tpc(q) THEN run_tpcc_phase2(q, n) ELSE run_ycsb(q, n, "RD")
phase5(q, n) == IF Tpc(q) THEN run_tpcc_phase5(q, n) ELSE run_ycsb(q, n, "WR")

\* Whether reads are sent to the other nodes and waited for.
Exchanges(q) == Tpc(q) \/ q.abort

Rows == UNION {{acquire_locks(c.q, n)[k].row : k \in 1..Len(acquire_locks(c.q, n))} :
                 c \in UNION Loads, n \in NodeIds}

NoQuery == [workload |-> "none"]

\* A manager as the pool gives it.
NewMan == [q |-> NoQuery, phase |-> "RW_ANALYSIS", rsp_cnt |-> 0, expected |-> 0,
           lock_ready_cnt |-> 0, lock_ready |-> FALSE, ready |-> TRUE,
           locked |-> <<>>, done |-> FALSE]

NoLock == [type |-> "NONE", owners |-> {}, waiters |-> <<>>]

\* The clients are to send the queries of load.
CStart(load) ==
  /\ todo = load
  /\ inflight = [n \in NodeIds |-> 0] /\ rsps = [n \in NodeIds |-> 0]
  /\ seqq = [n \in NodeIds |-> {}]
  /\ seq = [n \in NodeIds |-> [epoch |-> 0, next_txn_id |-> 0, lists |-> <<>>,
                            fill |-> [j \in NodeIds |-> <<>>]]]
  /\ sched = [n \in NodeIds |-> [j \in NodeIds |-> <<>>]]
  /\ sched_ptr = [n \in NodeIds |-> 0] /\ worker_epoch = [n \in NodeIds |-> 1]
  /\ lthd = [n \in NodeIds |-> [t |-> <<>>, locks |-> <<>>]]
  /\ lock = [r \in Rows |-> NoLock]
  /\ man = [n \in NodeIds |-> <<>>]
  /\ workq = [n \in NodeIds |-> {}]
  /\ exec = [r \in Rows |-> <<>>]
  /\ started = [n \in NodeIds |-> <<>>]

CInit == \E load \in Loads : CStart(load)
----------------------------------------------------------------------------
(* The client of node n.                                                    *)

\* A place in the window of the server, or none.
inc_inflight(n) ==
  inflight[n] < g_inflight_max /\ inflight' = [inflight EXCEPT ![n] = @ + 1]

dec_inflight(n) ==
  inflight' = [inflight EXCEPT ![n] = IF @ > 0 THEN @ - 1 ELSE @]

\* Several threads take from the sequencer's queue and several fill it, so that
\* it is a set; no two messages in it are equal.
sequencer_enqueue(n, m) == seqq' = [seqq EXCEPT ![n] = @ \cup {m}]
sequencer_dequeue(n, m) == m \in seqq[n] /\ seqq' = [seqq EXCEPT ![n] = @ \ {m}]

client_send(n) ==
  /\ inc_inflight(n)
  /\ seq[n].epoch < MaxEpoch
  /\ \E c \in todo :
       /\ c.node = n
       /\ todo' = todo \ {c}
       /\ sequencer_enqueue(n, [rtype |-> "CL_QRY", q |-> c.q])
  /\ UNCHANGED <<rsps, seq, sched, sched_ptr, worker_epoch, lthd, lock, man,
                 workq, exec, started>>

client_recv_loop(n) ==
  /\ rsps[n] > 0
  /\ rsps' = [rsps EXCEPT ![n] = @ - 1]
  /\ dec_inflight(n)
  /\ UNCHANGED <<todo, seqq, seq, sched, sched_ptr, worker_epoch, lthd, lock,
                 man, workq, exec, started>>
----------------------------------------------------------------------------
(* The sequencer of node n.                                                 *)

\* A query goes to the end of the batch being filled.
process_txn(n) ==
  \E m \in seqq[n] :
    LET s     == seq[n]
        batch == s.epoch + 1
        fresh == s.lists = <<>> \/ Last(s.lists).epoch # batch
        lists == IF fresh THEN Append(s.lists, [epoch |-> batch, size |-> 0, left |-> 0,
                                                acks |-> <<>>])
                 ELSE s.lists
        en    == Last(lists)
        t     == <<batch, n, s.next_txn_id>>
        P     == participants(m.q)
        msg   == [rtype |-> "CL_QRY", t |-> t, q |-> m.q]
    IN  /\ m.rtype = "CL_QRY"
        /\ sequencer_dequeue(n, m)
        /\ seq' = [seq EXCEPT
             ![n].next_txn_id = @ + 1,
             ![n].lists = Append(Front(lists), [en EXCEPT !.size = @ + 1, !.left = @ + 1,
                                                          !.acks = Append(@, Cardinality(P))]),
             ![n].fill = [j \in NodeIds |-> IF j \in P THEN Append(@[j], msg) ELSE @[j]]]
        /\ UNCHANGED <<todo, inflight, rsps, sched, sched_ptr, worker_epoch, lthd,
                       lock, man, workq, exec, started>>

\* One of the nodes has run a transaction; the last one's acknowledgement
\* answers the client, and the last of the batch drops its list.
process_ack(n) ==
  \E m \in seqq[n] :
    LET s    == seq[n]
        e    == CHOOSE k \in 1..Len(s.lists) : s.lists[k].epoch = m.t[1]
        id   == m.t[3] + 1
        acks == s.lists[e].acks[id] - 1
        en   == [s.lists[e] EXCEPT !.acks[id] = acks,
                                   !.left = IF acks = 0 THEN @ - 1 ELSE @]
    IN  /\ m.rtype = "CALVIN_ACK"
        /\ sequencer_dequeue(n, m)
        /\ seq' = [seq EXCEPT ![n].lists = IF en.left = 0 THEN RemoveAt(@, e)
                                           ELSE ReplaceAt(@, e, en)]
        /\ rsps' = [rsps EXCEPT ![n] = IF acks = 0 THEN @ + 1 ELSE @]
        /\ UNCHANGED <<todo, inflight, sched, sched_ptr, worker_epoch, lthd, lock,
                       man, workq, exec, started>>

\* Mutant of Sent: the txn ids go on.
SentKeep(s) == [s EXCEPT !.epoch = @ + 1, !.fill = [j \in NodeIds |-> <<>>]]

\* The sequencer after it sent its batch: txn ids start again.
Sent(s) == [s EXCEPT !.epoch = @ + 1, !.next_txn_id = 0, !.fill = [j \in NodeIds |-> <<>>]]

\* Every node has a queue for each sequencer; the RDONE of one follows its
\* batch.
sched_enqueue(n, fill, rdone) ==
  sched' = [j \in NodeIds |-> [sched[j] EXCEPT ![n] = Append(@ \o fill[j], rdone)]]

\* The timer: advance_seq_epoch, then the batch goes out.  (The last batch of
\* the bound waits for the queries that are there.)
send_next_batch(n) ==
  LET s == seq[n]
      rdone == [rtype |-> "RDONE", t |-> <<s.epoch + 1, n, 0>>]
  IN  /\ s.epoch < MaxEpoch
      /\ s.epoch + 1 = MaxEpoch => \A m \in seqq[n] : m.rtype # "CL_QRY"
      /\ sched_enqueue(n, s.fill, rdone)
      /\ seq' = [seq EXCEPT ![n] = Sent(s)]
      /\ UNCHANGED <<todo, inflight, rsps, seqq, sched_ptr, worker_epoch, lthd,
                     lock, man, workq, exec, started>>
----------------------------------------------------------------------------
(* The lock thread of node n.                                               *)

conflict_lock(a, b) == a # "NONE" /\ b # "NONE" /\ (a = "WR" \/ b = "WR")

\* sched_dequeue: the next query of the queue the thread is at, or RDONE, which
\* ends the sequencer's part of the batch.
rdone(n) ==
  LET j == sched_ptr[n] IN
  /\ lthd[n].t = <<>> /\ sched[n][j] # <<>> /\ Head(sched[n][j]).rtype = "RDONE"
  /\ sched' = [sched EXCEPT ![n][j] = Tail(@)]
  /\ worker_epoch' = [worker_epoch EXCEPT ![n] = IF j = NodeCnt - 1 THEN @ + 1 ELSE @]
  /\ sched_ptr' = [sched_ptr EXCEPT ![n] = (@ + 1) % NodeCnt]
  /\ UNCHANGED <<todo, inflight, rsps, seqq, seq, lthd, lock, man, workq, exec,
                 started>>

\* get_transaction_manager: the manager of t, or a new one.
ManOf(n, t) == IF t \in DOMAIN man[n] THEN man[n][t] ELSE NewMan

\* man with the manager of t on n set to m.
WithMan(n, t, m) ==
  [man EXCEPT ![n] = [x \in DOMAIN @ \cup {t} |-> IF x = t THEN m ELSE @[x]]]

\* Mutant of Taken: the start is not kept back.
TakenEager(m, q) == [m EXCEPT !.q = q, !.ready = FALSE]

\* The manager once the thread has the query: it may have had reads of other
\* nodes, and its start is kept back (incr_lr) until every lock was asked for.
Taken(m, q) == [m EXCEPT !.q = q, !.ready = FALSE, !.lock_ready_cnt = @ + 1]

sched_dequeue(n) ==
  LET j == sched_ptr[n]
      m == Head(sched[n][j])
  IN  /\ lthd[n].t = <<>> /\ sched[n][j] # <<>> /\ m.rtype = "CL_QRY"
      /\ ManOf(n, m.t).ready
      /\ sched' = [sched EXCEPT ![n][j] = Tail(@)]
      /\ lthd' = [lthd EXCEPT ![n] = [t |-> m.t, locks |-> acquire_locks(m.q, n)]]
      /\ man' = WithMan(n, m.t, Taken(ManOf(n, m.t), m.q))
      /\ UNCHANGED <<todo, inflight, rsps, seqq, seq, sched_ptr, worker_epoch, lock,
                     workq, exec, started>>

\* Mutant of Waits: a request that fits overtakes those that wait.
WaitsBypass(k, l) == conflict_lock(k.type, l.type)

\* A lock is waited for when it is held in conflict, or waited for already.
Waits(k, l) == conflict_lock(k.type, l.type) \/ k.waiters # <<>>

\* TxnManager::get_lock asks for a row once.
AskedFor(m, r) == \E i \in 1..Len(m.locked) : m.locked[i] = r

lock_get(n) ==
  LET t == lthd[n].t
      l == Head(lthd[n].locks)
      m == man[n][t]
      k == lock[l.row]
      wait == Waits(k, l)
  IN  /\ t # <<>> /\ lthd[n].locks # <<>>
      /\ lthd' = [lthd EXCEPT ![n].locks = Tail(@)]
      /\ IF AskedFor(m, l.row) THEN UNCHANGED <<lock, man>>
         ELSE /\ lock' = [lock EXCEPT ![l.row] =
                   IF wait THEN [k EXCEPT !.waiters = Append(@, [t |-> t, type |-> l.type])]
                   ELSE [k EXCEPT !.owners = @ \cup {t}, !.type = l.type]]
              /\ man' = [man EXCEPT ![n][t].locked = Append(@, l.row),
                                    ![n][t].lock_ready = IF wait THEN FALSE ELSE @,
                                    ![n][t].lock_ready_cnt = IF wait THEN @ + 1 ELSE @]
      /\ UNCHANGED <<todo, inflight, rsps, seqq, seq, sched, sched_ptr, worker_epoch,
                     workq, exec, started>>

\* All locks were asked for: decr_lr, and the transaction goes to the workers
\* if it has them all.
lock_done(n) ==
  LET t  == lthd[n].t
      m  == man[n][t]
      go == m.lock_ready_cnt = 1 /\ ~ m.lock_ready
  IN  /\ t # <<>> /\ lthd[n].locks = <<>>
      /\ lthd' = [lthd EXCEPT ![n].t = <<>>]
      /\ man' = [man EXCEPT ![n][t].lock_ready_cnt = @ - 1, ![n][t].ready = TRUE,
                            ![n][t].lock_ready = @ \/ go]
      /\ workq' = [workq EXCEPT ![n] =
                     IF go THEN @ \cup {[rtype |-> "CL_QRY", t |-> t, from |-> n]} ELSE @]
      /\ UNCHANGED <<todo, inflight, rsps, seqq, seq, sched, sched_ptr, worker_epoch,
                     lock, exec, started>>
----------------------------------------------------------------------------
(* The workers of node n.  run_calvin_txn is one step: what it touches is   *)
(* locked.                                                                  *)

\* exec after t made the accesses s.
Logged(e, t, s) ==
  [r \in Rows |-> e[r] \o SelectSeq([k \in 1..Len(s) |-> [t |-> t, row |-> s[k].row,
                                                           type |-> s[k].type]],
                                    LAMBDA a : a.row = r)]

\* The rest of the transaction, once the reads of the others are there.
incr_rsp(m)  == [m EXCEPT !.rsp_cnt = @ + 1]
collected(m) == m.rsp_cnt = m.expected

\* Where the reads of node n go: to the other nodes that write.
send_remote_reads(q, n) ==
  LET P == get_participants(q)
  IN  IF Exchanges(q) /\ n \in P.participant THEN P.active \ {n} ELSE {}

\* Phases 1 to 3, and 4 and 5 if nothing has to be waited for.
process_calvin_rtxn(n) ==
  \E w \in workq[n] :
    LET t    == w.t
        q    == man[n][t].q
        P    == get_participants(q)
        exp  == IF Exchanges(q) THEN Cardinality(P.participant \ {n}) ELSE 0
        m    == [man[n][t] EXCEPT !.expected = exp]
        read == Logged(exec, t, phase2(q, n))
        wr   == n \in P.active
    IN  /\ w.rtype \in {"CL_QRY", "RTXN"} /\ man[n][t].ready
        /\ started' = [started EXCEPT ![n] = Append(@, t)]
        /\ man' = [man EXCEPT ![n][t] =
             IF wr /\ ~ collected(m) THEN [m EXCEPT !.phase = "COLLECT_RD"]
             ELSE [m EXCEPT !.phase = "DONE", !.ready = FALSE, !.done = TRUE]]
        /\ exec' = IF wr /\ collected(m) THEN Logged(read, t, phase5(q, n)) ELSE read
        /\ workq' = [j \in NodeIds |->
             IF j = n THEN workq[n] \ {w}
             ELSE IF j \in send_remote_reads(q, n)
             THEN workq[j] \cup {[rtype |-> "RFWD", t |-> t, from |-> n]}
             ELSE workq[j]]
        /\ UNCHANGED <<todo, inflight, rsps, seqq, seq, sched, sched_ptr,
                       worker_epoch, lthd, lock>>

\* The reads of another node, perhaps before this node has the query itself.
process_rfwd(n) ==
  \E w \in workq[n] :
    LET t == w.t
        m == incr_rsp(ManOf(n, t))
        go == m.phase = "COLLECT_RD" /\ collected(m)
    IN  /\ w.rtype = "RFWD" /\ ManOf(n, t).ready
        /\ workq' = [workq EXCEPT ![n] = @ \ {w}]
        /\ man' = WithMan(n, t, IF go THEN [m EXCEPT !.phase = "DONE", !.ready = FALSE,
                                                     !.done = TRUE] ELSE m)
        /\ exec' = IF go THEN Logged(exec, t, phase5(m.q, n)) ELSE exec
        /\ UNCHANGED <<todo, inflight, rsps, seqq, seq, sched, sched_ptr,
                       worker_epoch, lthd, lock, started>>

\* How many of the waiters of k the release of its last conflicting owner lets
\* in: a writer alone, or all readers up to the next writer.
Admitted(type, ws) ==
  CHOOSE c \in 0..Len(ws) :
    /\ \A i \in 1..c : ~ conflict_lock(IF i = 1 THEN type ELSE ws[i - 1].type, ws[i].type)
    /\ c < Len(ws) => conflict_lock(IF c = 0 THEN type ELSE ws[c].type, ws[c + 1].type)

\* calvin_wrapup gives the locks back one after another; those let in that have
\* all their locks now are restarted.
lock_release(n, t) ==
  LET m   == man[n][t]
      r   == Head(m.locked)
      own == lock[r].owners \ {t}
      ws  == lock[r].waiters
      typ == IF own = {} THEN "NONE" ELSE lock[r].type
      c   == Admitted(typ, ws)
      In  == {ws[i].t : i \in 1..c}
      Go  == {x \in In : man[n][x].lock_ready_cnt = 1 /\ ~ man[n][x].lock_ready}
  IN  /\ m.done /\ m.locked # <<>>
      /\ lock' = [lock EXCEPT ![r] = [type |-> IF c = 0 THEN typ ELSE ws[c].type,
                                      owners |-> own \cup In,
                                      waiters |-> SubSeq(ws, c + 1, Len(ws))]]
      /\ man' = [man EXCEPT ![n] = [x \in DOMAIN @ |->
                   CASE x = t -> [m EXCEPT !.locked = Tail(@)]
                     [] x \in In -> [@[x] EXCEPT !.lock_ready_cnt = @ - 1,
                                                 !.lock_ready = @ \/ x \in Go]
                     [] OTHER -> @[x]]]
      /\ workq' = [workq EXCEPT ![n] =
                     @ \cup {[rtype |-> "RTXN", t |-> x, from |-> n] : x \in Go}]
      /\ UNCHANGED <<todo, inflight, rsps, seqq, seq, sched, sched_ptr, worker_epoch,
                     lthd, exec, started>>

\* The acknowledgement goes to the sequencer, the manager back to the pool.
calvin_wrapup(n, t) ==
  /\ man[n][t].done /\ man[n][t].locked = <<>>
  /\ seqq' = [seqq EXCEPT ![t[2]] = @ \cup {[rtype |-> "CALVIN_ACK", t |-> t, from |-> n]}]
  /\ man' = [man EXCEPT ![n] = [x \in DOMAIN @ \ {t} |-> @[x]]]
  /\ UNCHANGED <<todo, inflight, rsps, seq, sched, sched_ptr, worker_epoch, lthd,
                 lock, workq, exec, started>>

CNext ==
  \E n \in NodeIds :
    \/ client_send(n) \/ client_recv_loop(n)
    \/ process_txn(n) \/ process_ack(n) \/ send_next_batch(n)
    \/ rdone(n) \/ sched_dequeue(n) \/ lock_get(n) \/ lock_done(n)
    \/ process_calvin_rtxn(n) \/ process_rfwd(n)
    \/ \E t \in DOMAIN man[n] : lock_release(n, t)
    \/ \E t \in DOMAIN man[n] : calvin_wrapup(n, t)

\* Something waits for a thread of node n that can go on.
CBusy(n) ==
  \/ rsps[n] > 0 \/ seqq[n] # {} \/ seq[n].epoch < MaxEpoch
  \/ lthd[n].t # <<>> \/ sched[n][sched_ptr[n]] # <<>>
  \/ \E w \in workq[n] : ManOf(n, w.t).ready
  \/ \E t \in DOMAIN man[n] : man[n][t].done
-----------------------------------------------------------------------------
\* The order in which the batches name the transactions.
Before(t, u) ==
  \/ t[1] < u[1]
  \/ t[1] = u[1] /\ t[2] < u[2]
  \/ t[1] = u[1] /\ t[2] = u[2] /\ t[3] < u[3]

\* Whatever the threads and messages do, conflicting accesses of a row are made
\* in the order of the batches, the same on every node.  (Not so the copies of
\* ITEM: new_order_5 writes to one that was locked for reading.)
CalvinOrder ==
  \A r \in {x \in Rows : x[1] # "ITEM"} :
    \A j \in 1..Len(exec[r]) : \A i \in 1..j - 1 :
      \/ exec[r][i].t = exec[r][j].t
      \/ exec[r][i].type = "RD" /\ exec[r][j].type = "RD"
      \/ Before(exec[r][i].t, exec[r][j].t)

\* A transaction that was started, by the lock thread or by the one who gave it
\* its last lock, was started once, owns every lock it needs on the node, and
\* keeps each of them until it gives it back (the assertion of lock_release).
RunsLocked ==
  \A n \in NodeIds :
    /\ IsInjective(started[n])
    /\ \A t \in DOMAIN man[n] :
         LET m == man[n][t] IN
         m.phase # "RW_ANALYSIS" =>
           /\ \A k \in 1..Len(m.locked) : t \in lock[m.locked[k]].owners
           /\ m.done \/ \A k \in 1..Len(acquire_locks(m.q, n)) :
                          t \in lock[acquire_locks(m.q, n)[k].row].owners

Count(n, t) == Cardinality({m \in seqq[n] : m.rtype = "CALVIN_ACK" /\ m.t = t})

\* The assertions of the sequencer and of the scheduler: an acknowledgement
\* finds its list and is expected, the batch being filled has no answered
\* query, the batch the lock thread is at is the one its queue holds; and when
\* all clients are answered no transaction manager is left.
AckExact ==
  /\ \A n \in NodeIds : \A m \in seqq[n] : m.rtype = "CALVIN_ACK" =>
       \E k \in 1..Len(seq[n].lists) :
         LET en == seq[n].lists[k] IN
         /\ en.epoch = m.t[1] /\ m.t[3] < Len(en.acks)
         /\ en.acks[m.t[3] + 1] >= Count(n, m.t) /\ en.left > 0
  /\ \A n \in NodeIds : \A k \in 1..Len(seq[n].lists) :
       LET en == seq[n].lists[k] IN
       en.epoch > seq[n].epoch => /\ en.size = en.left
                                  /\ en.size <= g_inflight_max * NodeCnt
  /\ \A n \in NodeIds : LET s == sched[n][sched_ptr[n]] IN
       s # <<>> => Head(s).t[1] = worker_epoch[n]
  /\ (\A n \in NodeIds : inflight[n] = 0) => \A n \in NodeIds : DOMAIN man[n] = {}

\* Every client has its answers.
AllAnswered == \A n \in NodeIds : inflight[n] = 0
=============================================================================
