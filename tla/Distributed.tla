---------------------------- MODULE Distributed -----------------------------
(***************************************************************************)
(* A TPC-C or PPS transaction over several nodes, up to the point where    *)
(* start_commit begins the commitment (TwoPhaseCommit): the home runs its  *)
(* states one after another and has those that belong to another node run  *)
(* there.  Every get_row may succeed, wait or abort, as the rows are       *)
(* shared with transactions that are not modelled.                         *)
(***************************************************************************)
EXTENDS PPS

CONSTANTS
  Home,       \* the node of the client's query
  DQueries,   \* the queries
  MaxAborts,  \* bound on the attempts that abort
  MaxWaits    \* bound on the waits

NodeIds == 0..NodeCnt - 1

VARIABLES
  query,      \* the query
  mgr,        \* the transaction managers: pc, state, next (next_item_id or
              \* parts_processed_count), items, part, row
  rqry,       \* the RQRY or RQRY_RSP on its way, if any
  touched,    \* partitions_touched
  work,       \* the rows this attempt got: <<node, row>>
  answer,     \* whether start_commit was called
  aborts, waits

dvars == <<query, mgr, rqry, touched, work, answer, aborts, waits>>

NoManager == [pc |-> "none", state |-> Fin, next |-> 0, items |-> <<>>,
              part |-> 0, row |-> TRUE]

\* A fresh manager of the query at its home.
reset(q) == [NoManager EXCEPT !.pc = "run", !.state = <<q.txn_type, 0>>,
                              !.items = q.items]

\* The client asks for q.
DStart(q) ==
  /\ query = q
  /\ mgr = [n \in NodeIds |-> IF n = Home THEN reset(query) ELSE NoManager]
  /\ rqry = {} /\ touched = {Home} /\ work = <<>> /\ answer = FALSE
  /\ aborts = 0 /\ waits = 0

DInit == \E q \in DQueries : DStart(q)

Tpcc == query.workload = "TPCC"

is_done(m) == IF Tpcc THEN tpcc_is_done(query, m) ELSE pps_is_done(m)

NodeFor(m, n) == IF Tpcc THEN tpcc_node(query, m, n) ELSE pps_node(query, m, n)

Gets(m, n) == {a.row : a \in IF Tpcc THEN tpcc_access(query, m, n)
                             ELSE pps_access(query, m)}

NextState(m, n) ==
  IF Tpcc THEN next_tpcc_state(query, m, n = Home)
  ELSE next_pps_state(query, pps_step(query, m), n = Home)

\* Node n is in run_txn's loop, in a state that belongs to it.
Runs(n) == mgr[n].pc = "run" /\ ~ is_done(mgr[n]) /\ NodeFor(mgr[n], n) = n

\* The rows the state of n gets are got: after the call, or after the wait.
Advance(n) ==
  /\ work' = work \o SetToSeq({<<n, r>> : r \in Gets(mgr[n], n)})
  /\ mgr' = [mgr EXCEPT ![n] = [NextState(@, n) EXCEPT !.pc = "run"]]
  /\ UNCHANGED <<query, rqry, touched, answer, aborts>>

run_txn_state(n) == Runs(n) /\ Advance(n) /\ UNCHANGED waits

\* get_row returns WAIT; the row is granted later and the transaction goes on
\* with run_txn_post_wait.
get_row_wait(n) ==
  /\ Runs(n) /\ Gets(mgr[n], n) # {} /\ waits < MaxWaits
  /\ mgr' = [mgr EXCEPT ![n].pc = "wait"]
  /\ waits' = waits + 1
  /\ UNCHANGED <<query, rqry, touched, work, answer, aborts>>

run_txn_post_wait(n) == mgr[n].pc = "wait" /\ Advance(n) /\ UNCHANGED waits

\* start_abort: the attempt ends on every node it touched, and the home
\* starts again with a manager that was reset.
start_abort ==
  /\ mgr' = [n \in NodeIds |-> IF n = Home THEN reset(query)
                            ELSE IF n \in touched THEN NoManager ELSE mgr[n]]
  /\ work' = <<>> /\ touched' = {Home} /\ rqry' = {}
  /\ aborts' = aborts + 1
  /\ UNCHANGED <<query, answer, waits>>

\* get_row returns Abort: at the home the attempt ends, elsewhere the home is
\* told.
get_row_abort(n) ==
  /\ Runs(n) /\ Gets(mgr[n], n) # {} /\ aborts < MaxAborts
  /\ IF n = Home THEN start_abort
     ELSE /\ rqry' = {[rtype |-> "RQRY_RSP", rc |-> "Abort"]}
          /\ mgr' = [mgr EXCEPT ![n].pc = "idle"]
          /\ UNCHANGED <<query, touched, work, answer, aborts, waits>>

\* The state belongs to another node, which is asked to run it.
send_remote_request ==
  LET m    == mgr[Home]
      dest == NodeFor(m, Home)
      sent == tpcc_send_remote_request(query, m, Home)
  IN  /\ m.pc = "run" /\ ~ is_done(m) /\ dest # Home
      /\ rqry' = {[rtype |-> "RQRY", dest |-> dest, state |-> m.state, part |-> m.part,
                   items |-> IF Tpcc THEN sent.items ELSE <<>>]}
      /\ mgr' = [mgr EXCEPT ![Home] =
                   [(IF Tpcc THEN sent.m ELSE pps_send_remote_request(m)) EXCEPT !.pc = "rem"]]
      /\ touched' = touched \cup {dest}
      /\ UNCHANGED <<query, work, answer, aborts, waits>>

\* Mutant of copy_to_txn: the lines are counted from the first again.
copy_to_txnReset(m, r) ==
  [m EXCEPT !.pc = "run", !.state = r.state, !.part = r.part, !.items = @ \o r.items,
            !.next = 0]

\* The lines of an RQRY are put behind those of an earlier one, and next_item_id
\* stays as it is.
copy_to_txn(m, r) ==
  [m EXCEPT !.pc = "run", !.state = r.state, !.part = r.part, !.items = @ \o r.items]

process_rqry ==
  \E r \in rqry :
    /\ r.rtype = "RQRY"
    /\ mgr' = [mgr EXCEPT ![r.dest] = copy_to_txn(@, r)]
    /\ rqry' = {}
    /\ UNCHANGED <<query, touched, work, answer, aborts, waits>>

process_rqry_rsp ==
  \E r \in rqry :
    /\ r.rtype = "RQRY_RSP"
    /\ IF r.rc = "Abort" THEN start_abort
       ELSE /\ mgr' = [mgr EXCEPT ![Home].pc = "run"]
            /\ rqry' = {}
            /\ UNCHANGED <<query, touched, work, answer, aborts, waits>>

\* run_txn leaves its loop: the home begins the commitment, another node
\* answers.
run_txn(n) ==
  /\ mgr[n].pc = "run" /\ is_done(mgr[n])
  /\ mgr' = [mgr EXCEPT ![n].pc = "idle"]
  /\ IF n = Home THEN answer' = TRUE /\ UNCHANGED rqry
     ELSE rqry' = {[rtype |-> "RQRY_RSP", rc |-> "RCOK"]} /\ UNCHANGED answer
  /\ UNCHANGED <<query, touched, work, aborts, waits>>

DNext ==
  \/ \E n \in NodeIds : run_txn_state(n)
  \/ \E n \in NodeIds : get_row_wait(n)
  \/ \E n \in NodeIds : run_txn_post_wait(n)
  \/ \E n \in NodeIds : get_row_abort(n)
  \/ send_remote_request
  \/ process_rqry
  \/ process_rqry_rsp
  \/ \E n \in NodeIds : run_txn(n)
-----------------------------------------------------------------------------
\* The nodes that hold a row.
Holders(r) ==
  CASE r[1] \in {"WAREHOUSE", "DISTRICT", "CUSTOMER"} -> {WhNode(r[2])}
    [] r[1] = "STOCK" -> {WhNode(r[3])}
    [] r[1] = "ITEM"  -> {r[3]}
    [] OTHER -> {KeyNode(r[2])}

Times(r) == Cardinality({k \in 1..Len(work) : work[k][2] = r})

\* The parts a query by product or supplier reads: up to the first that is on
\* another node, where the home stops.
PartsRead ==
  LET far == {k \in 1..Len(query.parts) : KeyNode(query.parts[k]) # Home}
  IN  {k \in 1..Len(query.parts) : \A j \in far : k <= j}

\* A row is got only at a node that holds it, one that the votes and decisions
\* will go to; and when the commitment starts every line of the order has taken
\* its stock exactly once and every part to be read was read exactly once,
\* whatever waited, aborted and was sent elsewhere on the way.
WorkOnce ==
  /\ \A k \in 1..Len(work) : work[k][1] \in Holders(work[k][2]) \cap touched
  /\ answer => \A k \in 1..Len(query.items) :
                 Times(<<"STOCK", query.items[k].i, query.items[k].supply>>) = 1
  /\ answer /\ query.txn_type \in {"GETPARTBYPRODUCT", "GETPARTBYSUPPLIER"} =>
       \A k \in 1..Len(query.parts) :
         Times(<<"PARTS", query.parts[k]>>) = IF k \in PartsRead THEN 1 ELSE 0
=============================================================================
