----------------------------- MODULE Execution -----------------------------
(***************************************************************************)
(* What the builds of the server other than 2PL and CALVIN have in common: *)
(* the transactions of one node as system/txn.cpp and worker_thread.cpp    *)
(* run them, whatever CC_ALG is.                                           *)
(*                                                                         *)
(* A build has a manager for every row (row_t::manager) and a manager for  *)
(* the node (occ_man, time_table, txn_table, ...), whose types depend on   *)
(* CC_ALG: here the variables manager and cc, whose records depend on it   *)
(* too.  The module of a build extends this one; module Builds puts them   *)
(* together.                                                               *)
(*                                                                         *)
(* A request of a YCSB query reads a row or overwrites a field of it, so   *)
(* only the RD requests count as reads.  The steps that one latch or       *)
(* critical section covers are one step.  Timestamps are distinct.         *)
(***************************************************************************)
EXTENDS Integers, Sequences, FiniteSets, FiniteSetsExt, SequencesExt, TLC

CONSTANTS Txn, Row,           \* identifiers, positive as in the code
          Programs,           \* for each build to consider, its queries: a
                              \* request list for each transaction
          g_max_pre_req,      \* prewrites a row takes
          g_his_recycle_len,  \* versions a row keeps
          UINT64_MAX,         \* later than every timestamp
          MaxAborts           \* bound: attempts that are repeated

Request == [row : Row, type : {"RD", "WR"}]

\* The keys of a query are distinct (access_keys of the query generator).
ASSUME ProgramsAssumption ==
  /\ Txn \subseteq Nat \ {0} /\ Row \subseteq Nat \ {0}
  /\ \A alg \in DOMAIN Programs : \A p \in Programs[alg] :
       /\ p \in [Txn -> Seq(Request)]
       /\ \A t \in Txn : \A i, j \in 1..Len(p[t]) :
            p[t][i].row = p[t][j].row => i = j
ASSUME BoundAssumption ==
  /\ g_max_pre_req \in Nat \ {0} /\ g_his_recycle_len \in Nat
  /\ UINT64_MAX \in Nat /\ MaxAborts \in Nat

VARIABLES
  CC_ALG,     \* the build
  prog,       \* prog[t]: the requests of t's query
  clock,      \* the next timestamp
  txn,        \* txn[t]: the TxnManager of t
  manager,    \* manager[r]: the concurrency control manager of row r
  cc,         \* that of the node
  installed,  \* installed[r]: the versions r has had, ts being their order
  reads       \* reads[t]: the versions t's attempt has read (history variables)

build == <<CC_ALG, prog>>
hist  == <<installed, reads>>
vars  == <<build, clock, txn, manager, cc, hist>>

NoTxn   == 0
Loaded  == [ts |-> 0, txn |-> NoTxn]
Version == [ts : Nat, txn : Txn \cup {NoTxn}]

\* A TxnManager as TxnManager::init leaves it.
NewTxn == [state |-> "queued", next_record_id |-> 1, accesses |-> <<>>,
           timestamp |-> UINT64_MAX, start_timestamp |-> UINT64_MAX,
           commit_timestamp |-> UINT64_MAX, abort_cnt |-> 0]

TxnState == {"queued", "stamped", "running", "prewritten", "storing", "waiting",
             "ready", "validating", "validated", "withdrawn", "finishing",
             "undoing", "committing", "aborting", "done", "gone"}

Init(alg, extra, row, node) ==
  /\ alg \in DOMAIN Programs
  /\ CC_ALG = alg /\ prog \in Programs[alg] /\ clock = 1
  /\ txn = [t \in Txn |-> NewTxn @@ extra]
  /\ manager = [r \in Row |-> row]
  /\ cc = node
  /\ installed = [r \in Row |-> {Loaded}]
  /\ reads = [t \in Txn |-> {}]

TypeOK ==
  /\ prog \in Programs[CC_ALG] /\ clock \in 1..(UINT64_MAX - 1)
  /\ \A t \in Txn :
       LET x == txn[t] IN
       /\ x.state \in TxnState /\ x.abort_cnt \in 0..(MaxAborts + 1)
       /\ x.next_record_id \in (Len(x.accesses) + 1)..(Len(prog[t]) + 1)
       /\ {x.timestamp, x.start_timestamp, x.commit_timestamp} \subseteq 0..UINT64_MAX
  /\ \A r \in Row : installed[r] \subseteq Version
  /\ \A t \in Txn : \A x \in reads[t] : x.version \in installed[x.row]

-----------------------------------------------------------------------------
Req(t)     == prog[t][txn[t].next_record_id]
is_done(t) == txn[t].next_record_id > Len(prog[t])

\* The read set and the write set of get_rw_set.
rset(t) == {txn[t].accesses[i].row : i \in
              {j \in DOMAIN txn[t].accesses : txn[t].accesses[j].type = "RD"}}
wset(t) == {txn[t].accesses[i].row : i \in
              {j \in DOMAIN txn[t].accesses : txn[t].accesses[j].type = "WR"}}

\* t runs, and its next request is of the type.
AtRequest(t, type) ==
  txn[t].state = "running" /\ ~ is_done(t) /\ Req(t).type = type

\* Mutant of GotRow: the request is repeated.
GotRowAgain(x, t, extra) ==
  [x EXCEPT !.state = "running", !.accesses = Append(@, Req(t) @@ extra)]

\* TxnManager::get_row with RCOK: x, the manager of t, gets the access, which
\* remembers in extra what the build wants remembered.
GotRow(x, t, extra) ==
  [x EXCEPT !.state = "running", !.next_record_id = @ + 1,
            !.accesses = Append(@, Req(t) @@ extra)]

\* The versions t has read, v of row r being one if the request is a read.
ReadsOf(t, r, v) ==
  IF Req(t).type = "RD"
  THEN reads[t] \cup {[row |-> r, version |-> v]} ELSE reads[t]

\* row_t::get_row_post_wait: the row is the version that was found when t was
\* woken up (WakeUp), not one of now.
get_row_post_wait(t) == txn[t].state = "ready" /\ UNCHANGED reads

\* RTXN_CONT after restart_txn: get_row_post_wait records the access.
Resume(t) ==
  /\ get_row_post_wait(t)
  /\ txn' = [txn EXCEPT ![t] = GotRow(@, t, <<>>)]
  /\ UNCHANGED <<clock, manager, cc, installed>>

\* The access that cleanup treats next: the last.
Returns(t, a) ==
  /\ txn[t].state \in {"committing", "aborting"} /\ txn[t].accesses # <<>>
  /\ a = Last(txn[t].accesses)

\* x with its last access cleaned up.
Returned(x) == [x EXCEPT !.accesses = Front(@)]

\* Version v of row r exists now.
Install(r, v) == installed' = [installed EXCEPT ![r] = @ \cup {v}]

\* What a single-version row is overwritten with: its newest version by t.
NewVersion(r, t) == [ts |-> Cardinality(installed[r]), txn |-> t]

\* The attempts that have failed.
Aborts == MapThenSumSet(LAMBDA t : txn[t].abort_cnt, Txn)

\* The abort queue keeps a transaction for a penalty, of whatever length, and
\* its thread then puts RTXN in the work queue.  After MaxAborts attempts the
\* model follows a transaction that aborts no more.
AbortQueue == IF Aborts < MaxAborts THEN "queued" ELSE "gone"

\* How an attempt ends: WorkerThread::commit answers the client and releases
\* the manager x; WorkerThread::abort resets it, extra being what the build
\* resets too, and hands it to the abort queue.
Ended(x, extra) ==
  IF x.state = "committing" THEN [x EXCEPT !.state = "done"]
  ELSE extra @@
       [x EXCEPT !.state = AbortQueue, !.abort_cnt = @ + 1,
                 !.next_record_id = 1, !.commit_timestamp = 0]

\* The end of an attempt; only the reads of a commit stay in the history.
EndAttempt(t, extra) ==
  /\ txn[t].state \in {"committing", "aborting"} /\ txn[t].accesses = <<>>
  /\ txn' = [txn EXCEPT ![t] = Ended(@, extra)]
  /\ reads' = IF txn[t].state = "committing" THEN reads
              ELSE [reads EXCEPT ![t] = {}]
  /\ UNCHANGED <<clock, manager, installed>>

\* start_commit where nothing is validated.
StartCommit(t) ==
  /\ txn[t].state = "running" /\ is_done(t)
  /\ txn' = [txn EXCEPT ![t].state = "committing"]
  /\ UNCHANGED <<clock, manager, cc, hist>>

\* WorkerThread::get_next_ts: the timestamp is clock, and not drawn again.
get_next_ts == clock' = clock + 1

\* process_rtxn where an attempt needs a timestamp and nothing else.
NewTimestamp(t, next) ==
  /\ txn[t].state = "queued"
  /\ get_next_ts
  /\ txn' = [txn EXCEPT ![t].state = next, ![t].timestamp = clock]
  /\ UNCHANGED <<manager, cc, hist>>

\* The transactions of ready, which waited for row r, have version v[u] of it
\* and restart_txn; the access of t to r is cleaned up.
WakeUp(t, r, ready, v) ==
  /\ txn' = [u \in Txn |->
               IF u = t THEN Returned(txn[t])
               ELSE IF u \in ready THEN [txn[u] EXCEPT !.state = "ready"]
               ELSE txn[u]]
  /\ reads' = [u \in Txn |-> IF u \in ready THEN ReadsOf(u, r, v[u])
                             ELSE reads[u]]

\* Every transaction has been answered or followed long enough.
AllEnded ==
  (\A t \in Txn : txn[t].state \in {"done", "gone"}) /\ UNCHANGED vars
=============================================================================
