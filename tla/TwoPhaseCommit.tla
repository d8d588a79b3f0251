--------------------------- MODULE TwoPhaseCommit ---------------------------
(***************************************************************************)
(* A transaction over several nodes: its remote requests, the two phases   *)
(* of its commitment, its aborts and its retries (system/worker_thread.cpp *)
(* and system/txn.cpp, driven by the run loop of a benchmark).             *)
(*                                                                         *)
(* Every step is the handler of one message.  A worker runs a handler only *)
(* after clearing txn_ready of the transaction's manager, so the handlers  *)
(* of a transaction on a node exclude each other; messages arrive in any   *)
(* order (the send queues are drained in random order) and are not lost.   *)
(* What the concurrency control answers to a request or to validate is any *)
(* of the codes it can return.  The map from keys to nodes does not change *)
(* (no migration).                                                         *)
(***************************************************************************)
EXTENDS Integers, Sequences, FiniteSets, FiniteSetsExt

CONSTANTS Node, Txn,
          home,       \* home[t]: the node that coordinates t
          Programs,   \* the queries: for each group of requests, its node
          CC_ALGS,    \* the builds to consider
          MaxAborts,  \* bound: attempts of a transaction that fail
          MaxWaits    \* bound: waits of a transaction for rows

Builds == {"OCC", "MAAT", "DLI_BASE", "DLI_OCC", "SILO", "BOCC", "SSI",
           "TICTOC", "NO_WAIT", "WAIT_DIE", "TIMESTAMP", "MVCC", "WSI"}

ASSUME NodeAssumption == IsFiniteSet(Node)
ASSUME HomeAssumption == home \in [Txn -> Node]
ASSUME QueryAssumption == Programs \subseteq Seq(Node) /\ CC_ALGS \subseteq Builds
ASSUME BoundAssumption == MaxAborts \in Nat /\ MaxWaits \in Nat

VARIABLES
  CC_ALG,              \* the build: chosen once and for all
  prog, readonly,      \* prog[t], readonly[t]: the query of t
  next_record_id,      \* next_record_id[t]: the request t is at, at its home
  partitions_touched,  \* partitions_touched[t]: nodes of t's attempts so far
  rsp_cnt,             \* rsp_cnt[t]: responses the home of t waits for
  rc,                  \* rc[t][n]: the result so far, in t's manager on n
  aborted,             \* aborted[t]: the nodes whose manager has aborted
  table,               \* table[t]: the nodes whose txn_table has a manager
  held,                \* held[t]: the nodes where t has accesses to rows
  abort_cnt, waits,    \* failed attempts and waits of t (bounded)
  answers,             \* answers[t]: CL_RSP messages sent for t
  outcome,             \* outcome[t][n]: how this attempt of t ended on n
                       \*   (history variable)
  net                  \* net[m]: messages m on their way or in a work queue

query == <<CC_ALG, prog, readonly>>
vars  == <<query, next_record_id, partitions_touched, rsp_cnt, rc, aborted,
           table, held, abort_cnt, waits, answers, outcome, net>>

RC      == {"RCOK", "Abort"}
MsgType == {"RTXN", "RTXN_CONT", "RQRY", "RQRY_CONT", "RQRY_RSP", "RPREPARE",
            "RACK_PREP", "RFIN", "RACK_FIN"}

\* A message of t between its home and node n, or within n.  (CL_QRY, the
\* first RTXN, and the RTXN of the abort queue have the same handler.)
Message == [type : MsgType, txn : Txn, node : Node, rc : RC]

Msg(type, t, n, code) == [type |-> type, txn |-> t, node |-> n, rc |-> code]

TypeOK ==
  /\ CC_ALG \in CC_ALGS
  /\ prog \in [Txn -> Programs] /\ readonly \in [Txn -> BOOLEAN]
  /\ next_record_id \in [Txn -> Nat \ {0}]
  /\ partitions_touched \in [Txn -> SUBSET Node]
  /\ rsp_cnt \in [Txn -> Nat]
  /\ rc \in [Txn -> [Node -> RC]]
  /\ aborted \in [Txn -> SUBSET Node]
  /\ table \in [Txn -> SUBSET Node]
  /\ held \in [Txn -> SUBSET Node]
  /\ abort_cnt \in [Txn -> 0..MaxAborts] /\ waits \in [Txn -> 0..MaxWaits]
  /\ answers \in [Txn -> Nat]
  /\ outcome \in [Txn -> [Node -> {"none", "committed", "aborted"}]]
  /\ net \in [Message -> Nat]

Init ==
  /\ CC_ALG \in CC_ALGS
  /\ prog \in [Txn -> Programs] /\ readonly \in [Txn -> BOOLEAN]
  /\ next_record_id = [t \in Txn |-> 1]
  /\ partitions_touched = [t \in Txn |-> {}]
  /\ rsp_cnt = [t \in Txn |-> 0]
  /\ rc = [t \in Txn |-> [n \in Node |-> "RCOK"]]
  /\ aborted = [t \in Txn |-> {}]
  /\ table = [t \in Txn |-> {}]
  /\ held = [t \in Txn |-> {}]
  /\ abort_cnt = [t \in Txn |-> 0] /\ waits = [t \in Txn |-> 0]
  /\ answers = [t \in Txn |-> 0]
  /\ outcome = [t \in Txn |-> [n \in Node |-> "none"]]
  /\ net = [m \in Message |->
              IF \E t \in Txn : m = Msg("RTXN", t, home[t], "RCOK")
              THEN 1 ELSE 0]
-----------------------------------------------------------------------------
\* The network once message m is consumed and the messages of S are sent.
Deliver(m, S) ==
  [x \in Message |-> net[x] - (IF x = m THEN 1 ELSE 0)
                           + (IF x \in S THEN 1 ELSE 0)]

\* The messages of send_prepare_messages and send_finish_messages, for the
\* touched nodes c: one to each node but the home.
ToOthers(type, t, c, code) == {Msg(type, t, n, code) : n \in c \ {home[t]}}

\* Mutant of FinishCount: the counter is left as the votes left it.
FinishCountStale(t, c) == rsp_cnt[t]

FinishCount(t, c) == Cardinality(c) - 1

\* Builds that vote on read-only transactions too, and that acknowledge the
\* end of those.
PreparesReadonly ==
  CC_ALG \in {"OCC", "MAAT", "DLI_BASE", "DLI_OCC", "SILO", "BOCC", "SSI"}
AcksReadonly == PreparesReadonly \/ CC_ALG = "TICTOC"

CanAbort(t) == abort_cnt[t] < MaxAborts
CanWait(t)  == waits[t] < MaxWaits

\* WorkerThread::abort: reset the manager, queue another attempt.
AbortQueue(m, t, c, hs) ==
  /\ abort_cnt' = [abort_cnt EXCEPT ![t] = @ + 1]
  /\ next_record_id' = [next_record_id EXCEPT ![t] = 1]
  /\ partitions_touched' = [partitions_touched EXCEPT ![t] = c]
  /\ rsp_cnt' = [rsp_cnt EXCEPT ![t] = 0]
  /\ rc' = [rc EXCEPT ![t][home[t]] = "RCOK"]
  /\ aborted' = [aborted EXCEPT ![t] = @ \ {home[t]}]
  /\ held' = [held EXCEPT ![t] = hs]
  /\ outcome' = [outcome EXCEPT ![t] = [n \in Node |-> "none"]]
  /\ table' = [table EXCEPT ![t] = @ \cup {home[t]}]
  /\ net' = Deliver(m, {Msg("RTXN", t, home[t], "RCOK")})
  /\ UNCHANGED <<query, waits, answers>>

\* WorkerThread::commit: answer the client, release the manager.
Answer(m, t, c, hs) ==
  /\ answers' = [answers EXCEPT ![t] = @ + 1]
  /\ table' = [table EXCEPT ![t] = @ \ {home[t]}]
  /\ held' = [held EXCEPT ![t] = hs]
  /\ outcome' = [outcome EXCEPT ![t][home[t]] =
                   IF @ = "none" THEN "committed" ELSE @]
  /\ partitions_touched' = [partitions_touched EXCEPT ![t] = c]
  /\ rsp_cnt' = [rsp_cnt EXCEPT ![t] = 0]
  /\ net' = Deliver(m, {})
  /\ UNCHANGED <<query, next_record_id, rc, aborted, abort_cnt, waits>>

\* The decision of the home, with touched nodes c and accesses on hs: finish
\* messages to the others, and TxnManager::commit or abort here.
Decide(m, t, c, hs, code) ==
  /\ rc' = [rc EXCEPT ![t][home[t]] = code]
  /\ aborted' = [aborted EXCEPT ![t] = IF code = "Abort" THEN @ \cup {home[t]}
                                       ELSE @]
  /\ held' = [held EXCEPT ![t] = hs \ {home[t]}]
  /\ outcome' = [outcome EXCEPT ![t][home[t]] =
                   IF code = "Abort" THEN "aborted" ELSE "committed"]
  /\ partitions_touched' = [partitions_touched EXCEPT ![t] = c]
  /\ rsp_cnt' = [rsp_cnt EXCEPT ![t] = FinishCount(t, c)]
  /\ table' = [table EXCEPT ![t] = @ \cup {home[t]}]
  /\ net' = Deliver(m, ToOthers("RFIN", t, c, code))
  /\ UNCHANGED <<query, next_record_id, abort_cnt, waits, answers>>

\* Mutant of StartAbort: whether other nodes were touched is not looked at.
StartAbortUnguarded(m, t, c, hs) ==
  CanAbort(t) /\ Decide(m, t, partitions_touched[t], hs, "Abort")

\* start_abort, and what check_if_done does after it.
StartAbort(m, t, c, hs) ==
  /\ CanAbort(t)
  /\ IF Cardinality(c) > 1 THEN Decide(m, t, c, hs, "Abort")
                           ELSE AbortQueue(m, t, c, hs \ {home[t]})
\* start_commit, every request done, and what check_if_done does after it.
\* TICTOC validates before it sends anything; the others when all have voted.
\* A read-only transaction of a build without votes is told to finish at
\* once: its home waits (WAIT_REM) with rsp_cnt = 0.
StartCommit(m, t, c, hs) ==
  LET multi == Cardinality(c) > 1
      votes == CC_ALG = "TICTOC" \/ ~ readonly[t] \/ PreparesReadonly
  IN
  \/ /\ multi
     /\ rsp_cnt' = [rsp_cnt EXCEPT ![t] =
                      IF votes THEN Cardinality(c) - 1 ELSE 0]
     /\ net' = Deliver(m, ToOthers(IF votes THEN "RPREPARE" ELSE "RFIN",
                                   t, c, "RCOK"))
     /\ held' = [held EXCEPT ![t] = hs]
     /\ partitions_touched' = [partitions_touched EXCEPT ![t] = c]
     /\ table' = [table EXCEPT ![t] = @ \cup {home[t]}]
     /\ UNCHANGED <<query, next_record_id, rc, aborted, abort_cnt, waits,
                    answers, outcome>>
  \/ /\ multi /\ CC_ALG = "TICTOC" /\ CanAbort(t)
     /\ AbortQueue(m, t, c, hs \ {home[t]})
  \/ ~ multi /\ Answer(m, t, c, hs \ {home[t]})
  \/ ~ multi /\ StartAbort(m, t, c, hs)

\* The first request of t from p on that is not at its home.
FirstRemote(t, p) ==
  Min({i \in p..Len(prog[t]) : prog[t][i] # home[t]} \cup {Len(prog[t]) + 1})

\* run_txn at the home from request p on, with accesses on hs: the requests
\* at the home are executed until one is remote, waits or aborts.
RunTxn(m, t, p, hs) ==
  LET q     == FirstRemote(t, p)
      c     == partitions_touched[t] \cup {home[t]}
      after(j) == IF j > p THEN hs \cup {home[t]} ELSE hs
  IN
  \/ /\ q <= Len(prog[t])
     /\ net' = Deliver(m, {Msg("RQRY", t, prog[t][q], "RCOK")})
     /\ next_record_id' = [next_record_id EXCEPT ![t] = q + 1]
     /\ partitions_touched' =
          [partitions_touched EXCEPT ![t] = c \cup {prog[t][q]}]
     /\ held' = [held EXCEPT ![t] = after(q)]
     /\ table' = [table EXCEPT ![t] = @ \cup {home[t]}]
     /\ UNCHANGED <<query, rsp_cnt, rc, aborted, abort_cnt, waits, answers,
                    outcome>>
  \/ /\ q > Len(prog[t])
     /\ StartCommit(m, t, c, after(q))
  \/ /\ CanWait(t)
     /\ \E j \in p..(q - 1) :
          /\ next_record_id' = [next_record_id EXCEPT ![t] = j]
          /\ held' = [held EXCEPT ![t] = after(j)]
     /\ waits' = [waits EXCEPT ![t] = @ + 1]
     /\ net' = Deliver(m, {Msg("RTXN_CONT", t, home[t], "RCOK")})
     /\ partitions_touched' = [partitions_touched EXCEPT ![t] = c]
     /\ table' = [table EXCEPT ![t] = @ \cup {home[t]}]
     /\ UNCHANGED <<query, rsp_cnt, rc, aborted, abort_cnt, answers, outcome>>
  \/ \E j \in p..(q - 1) : StartAbort(m, t, c, after(j))

-----------------------------------------------------------------------------
\* process_rtxn: an attempt starts.
ProcessRtxn(m) ==
  /\ m.type = "RTXN"
  /\ RunTxn(m, m.txn, 1, held[m.txn])

\* process_rtxn_cont: the row is granted; run_txn_post_wait, then go on.
ProcessRtxnCont(m) ==
  /\ m.type = "RTXN_CONT"
  /\ RunTxn(m, m.txn, next_record_id[m.txn] + 1, held[m.txn] \cup {home[m.txn]})

\* process_rqry_rsp
ProcessRqryRsp(m) ==
  LET t == m.txn
  IN  /\ m.type = "RQRY_RSP"
      /\ IF m.rc = "Abort" THEN StartAbort(m, t, partitions_touched[t], held[t])
                           ELSE RunTxn(m, t, next_record_id[t], held[t])

\* process_rqry and process_rqry_cont: a remote node runs the requests it was
\* sent until they are done, one waits, or one aborts.
ProcessRqry(m) ==
  LET t == m.txn
      n == m.node
  IN
  /\ m.type \in {"RQRY", "RQRY_CONT"}
  /\ table' = [table EXCEPT ![t] = @ \cup {n}]
  /\ \/ /\ held' = [held EXCEPT ![t] = @ \cup {n}]
        /\ net' = Deliver(m, {Msg("RQRY_RSP", t, n, rc[t][n])})
        /\ UNCHANGED <<rc, aborted, waits, outcome>>
     \/ /\ CanWait(t)
        /\ waits' = [waits EXCEPT ![t] = @ + 1]
        /\ held' = [held EXCEPT ![t] = @ \cup {n}]
        /\ net' = Deliver(m, {Msg("RQRY_CONT", t, n, "RCOK")})
        /\ UNCHANGED <<rc, aborted, outcome>>
     \/ /\ CanAbort(t)
        /\ rc' = [rc EXCEPT ![t][n] = "Abort"]
        /\ aborted' = [aborted EXCEPT ![t] = @ \cup {n}]
        /\ held' = [held EXCEPT ![t] = IF n \in aborted[t] THEN @ \cup {n}
                                       ELSE @ \ {n}]
        /\ outcome' = [outcome EXCEPT ![t][n] = "aborted"]
        /\ net' = Deliver(m, {Msg("RQRY_RSP", t, n, "Abort")})
        /\ UNCHANGED waits
  /\ UNCHANGED <<query, next_record_id, partitions_touched, rsp_cnt, abort_cnt,
                 answers>>
\* process_rprepare: the vote; an abort is cleaned up at once.
ProcessRprepare(m) ==
  LET t == m.txn
      n == m.node
  IN
  /\ m.type = "RPREPARE"
  /\ table' = [table EXCEPT ![t] = @ \cup {n}]
  /\ \E vote \in RC :
       /\ vote = "Abort" => CanAbort(t)
       /\ rc' = [rc EXCEPT ![t][n] = vote]
       /\ net' = Deliver(m, {Msg("RACK_PREP", t, n, vote)})
       /\ IF vote = "Abort" /\ n \notin aborted[t]
          THEN /\ aborted' = [aborted EXCEPT ![t] = @ \cup {n}]
               /\ held' = [held EXCEPT ![t] = @ \ {n}]
               /\ outcome' = [outcome EXCEPT ![t][n] = "aborted"]
          ELSE UNCHANGED <<aborted, held, outcome>>
  /\ UNCHANGED <<query, next_record_id, partitions_touched, rsp_cnt, abort_cnt,
                 waits, answers>>

\* Mutant of AfterFinish: the manager is released after an abort too.
AfterFinishRelease(m) == table[m.txn] \ {m.node}

\* The managers of a transaction after a finish message: commit releases the
\* one of the node, abort keeps it for the next attempt.
AfterFinish(m) == IF m.rc = "Abort" THEN table[m.txn] \cup {m.node}
                  ELSE table[m.txn] \ {m.node}

\* Mutant of ResetManager: no reset.
ResetManagerNot(m) == aborted[m.txn]

\* An abort resets the manager.
ResetManager(m) == IF m.rc = "Abort" THEN aborted[m.txn] \ {m.node}
                   ELSE aborted[m.txn]

\* Mutant of Acknowledges: no acknowledgement of an abort.
AcknowledgesCommit(m) == m.rc # "Abort"

Acknowledges(m) == m.rc = "Abort" \/ ~ readonly[m.txn] \/ AcksReadonly

\* process_rfin: TxnManager::commit or, if not done yet, TxnManager::abort.
ProcessRfin(m) ==
  LET t == m.txn
      n == m.node
      done == m.rc = "Abort" /\ n \in aborted[t]
  IN
  /\ m.type = "RFIN"
  /\ held' = [held EXCEPT ![t] = IF done THEN @ ELSE @ \ {n}]
  /\ outcome' = [outcome EXCEPT ![t][n] =
                   IF done THEN @
                   ELSE IF m.rc = "Abort" THEN "aborted" ELSE "committed"]
  /\ rc' = [rc EXCEPT ![t][n] = IF m.rc = "Abort" THEN "RCOK" ELSE @]
  /\ aborted' = [aborted EXCEPT ![t] = ResetManager(m)]
  /\ table' = [table EXCEPT ![t] = AfterFinish(m)]
  /\ net' = Deliver(m, IF Acknowledges(m)
                       THEN {Msg("RACK_FIN", t, n, rc'[t][n])} ELSE {})
  /\ UNCHANGED <<query, next_record_id, partitions_touched, rsp_cnt, abort_cnt,
                 waits, answers>>

\* Mutant of NewRc: the last response wins.
NewRcLast(m) == m.rc

\* Mutant of ResponsesLeft: one response too few is waited for.
ResponsesLeftEarly(m) == IF rsp_cnt[m.txn] > 1 THEN rsp_cnt[m.txn] - 2 ELSE 0

\* received_response: an Abort sticks; the counter stops at 0.
NewRc(m) == IF rc[m.txn][home[m.txn]] = "RCOK" THEN m.rc
            ELSE rc[m.txn][home[m.txn]]

ResponsesLeft(m) == IF rsp_cnt[m.txn] > 0 THEN rsp_cnt[m.txn] - 1 ELSE 0

\* process_rack_prep and process_rack_rfin while responses are missing.
ReceivedResponse(m) ==
  /\ m.type \in {"RACK_PREP", "RACK_FIN"} /\ ResponsesLeft(m) > 0
  /\ rc' = [rc EXCEPT ![m.txn][home[m.txn]] = NewRc(m)]
  /\ rsp_cnt' = [rsp_cnt EXCEPT ![m.txn] = ResponsesLeft(m)]
  /\ table' = [table EXCEPT ![m.txn] = @ \cup {home[m.txn]}]
  /\ net' = Deliver(m, {})
  /\ UNCHANGED <<query, next_record_id, partitions_touched, aborted, held,
                 abort_cnt, waits, answers, outcome>>

\* process_rack_prep, the last vote: validate at the home (TICTOC has), then
\* the decision.
ProcessRackPrep(m) ==
  /\ m.type = "RACK_PREP" /\ ResponsesLeft(m) = 0
  /\ \E code \in RC :
       /\ code = "RCOK" => NewRc(m) = "RCOK"
       /\ code = "Abort" /\ NewRc(m) = "RCOK" =>
            CC_ALG # "TICTOC" /\ CanAbort(m.txn)
       /\ Decide(m, m.txn, partitions_touched[m.txn], held[m.txn], code)

\* Mutant of ProcessRackFin: another attempt whatever was decided.
ProcessRackFinRetry(m) ==
  /\ m.type = "RACK_FIN" /\ ResponsesLeft(m) = 0 /\ CanAbort(m.txn)
  /\ AbortQueue(m, m.txn, partitions_touched[m.txn], held[m.txn])

\* process_rack_rfin, the last acknowledgement.
ProcessRackFin(m) ==
  /\ m.type = "RACK_FIN" /\ ResponsesLeft(m) = 0
  /\ IF NewRc(m) = "RCOK"
     THEN Answer(m, m.txn, partitions_touched[m.txn], held[m.txn])
     ELSE AbortQueue(m, m.txn, partitions_touched[m.txn], held[m.txn])

Process(m) ==
  /\ net[m] > 0
  /\ \/ ProcessRtxn(m) \/ ProcessRtxnCont(m) \/ ProcessRqryRsp(m)
     \/ ProcessRqry(m) \/ ProcessRprepare(m) \/ ProcessRfin(m)
     \/ ReceivedResponse(m) \/ ProcessRackPrep(m) \/ ProcessRackFin(m)

\* No message is left: the workers find their queues empty.
Idle == (\A m \in Message : net[m] = 0) /\ UNCHANGED vars

Next == (\E m \in Message : Process(m)) \/ Idle

Spec == Init /\ [][Next]_vars

\* Every message is delivered and every queued message dequeued.
FairSpec == Spec /\ \A m \in Message : WF_vars(Process(m))
-----------------------------------------------------------------------------
InFlight(t) == {m \in Message : m.txn = t /\ net[m] > 0}

\* No attempt commits on one node and aborts on another, whatever the order
\* in which votes, decisions and acknowledgements arrive.
Atomicity ==
  \A t \in Txn : \A j, k \in Node :
    ~ (outcome[t][j] = "committed" /\ outcome[t][k] = "aborted")

\* The client is answered once, and then every touched node has committed and
\* nothing of the transaction is left: no access, no manager, no message.
AnswerIsFinal ==
  \A t \in Txn : answers[t] > 0 =>
    /\ answers[t] = 1
    /\ \A n \in partitions_touched[t] : outcome[t][n] = "committed"
    /\ held[t] = {} /\ table[t] = {} /\ InFlight(t) = {}

\* rsp_cnt is the number of votes or acknowledgements still to come: the home
\* neither decides early nor waits for nothing.  (Not for a read-only
\* transaction whose end is not acknowledged.)
ResponsesCounted ==
  \A t \in Txn : (readonly[t] => AcksReadonly) =>
    rsp_cnt[t] =
      Cardinality({m \in InFlight(t) :
                     m.type \in {"RPREPARE", "RACK_PREP", "RFIN", "RACK_FIN"}})

\* A message finds the manager it is about: no late message creates a manager
\* that nobody will release, and none is about two things at a node at once.
NoGhostManager ==
  \A t \in Txn :
    /\ \A m \in InFlight(t) :
         /\ net[m] = 1
         /\ \A x \in InFlight(t) : x.node = m.node => x = m
         /\ m.type \notin {"RTXN", "RQRY"} =>
              (IF m.type \in {"RQRY_CONT", "RPREPARE", "RFIN"} THEN m.node
               ELSE home[t]) \in table[t]

\* An attempt starts when the last one is over on every node: nothing is held,
\* marked aborted or in flight.
CleanRetry ==
  \A t \in Txn : net[Msg("RTXN", t, home[t], "RCOK")] > 0 =>
    /\ held[t] = {} /\ aborted[t] = {} /\ rsp_cnt[t] = 0
    /\ Cardinality(InFlight(t)) = 1

\* Every transaction is answered (given that its attempts do not fail for
\* ever).
EveryTxnAnswered == <>(\A t \in Txn : answers[t] = 1)

\* What the protocol promises: the work of t on n is as AtomicCommit says,
\* where held accesses are work that is not finished.
Status ==
  [t \in Txn |-> [n \in Node |-> IF n \in held[t] THEN "active"
                                 ELSE outcome[t][n]]]

AC == INSTANCE AtomicCommit WITH status <- Status
=============================================================================
