----------------------------- MODULE Optimistic ----------------------------
(***************************************************************************)
(* The OCC, BOCC and FOCC builds: concurrency_control/occ.cpp, bocc.cpp,   *)
(* focc.cpp and row_occ.cpp (PER_ROW_VALID is false).                      *)
(*                                                                         *)
(* All copy rows while they run, validate in critical sections of one      *)
(* semaphore, leave the critical section for good (finish), and write      *)
(* their rows only after that, one by one.                                 *)
(*                                                                         *)
(* FOCC's list of active read sets is a list of the heap: active_storage   *)
(* and central_finish read its head before they take the semaphore.  The   *)
(* entries are in ent, in the order they were made, and their index is     *)
(* their address; an unlinked entry keeps its next.                        *)
(***************************************************************************)
EXTENDS Execution

\* wts of Row_occ stays 0 without per-row validation.
RowInit == [version |-> Loaded]

OccInit  == Init("OCC", <<>>, RowInit, [active |-> {}, history |-> {}])
BoccInit == Init("BOCC", <<>>, RowInit, [history |-> {}])
FoccInit == Init("FOCC", [act |-> 0], RowInit, [active |-> 0, ent |-> <<>>])

\* process_rtxn: a new start timestamp for every attempt.
SetStartTimestamp(t) ==
  /\ txn[t].state = "queued"
  /\ get_next_ts
  /\ txn' = [txn EXCEPT ![t].state = "running", ![t].start_timestamp = clock]
  /\ UNCHANGED <<manager, cc, hist>>

\* get_row: Row_occ::access copies the row.
Copied(t) ==
  /\ txn' = [txn EXCEPT ![t] = GotRow(@, t, <<>>)]
  /\ reads' = [reads EXCEPT ![t] =
                 ReadsOf(t, Req(t).row, manager[Req(t).row].version)]
  /\ UNCHANGED <<clock, manager, installed>>

ReadRow(t) ==
  /\ CC_ALG # "FOCC" /\ txn[t].state = "running" /\ ~ is_done(t)
  /\ Copied(t)
  /\ UNCHANGED cc

AtCommit(t) == txn[t].state = "running" /\ is_done(t)

\* OptCC::test_valid: the sets of rows have nothing in common.
test_valid(set1, set2) == set1 \cap set2 = {}

\* Whether a transaction in the history since start_timestamp, and up to now,
\* wrote what t read.
HistoryValid(t) ==
  \A e \in cc.history :
    e.tn > txn[t].start_timestamp => test_valid(e.rows, rset(t))

-----------------------------------------------------------------------------
\* Mutant of ActiveValid: the write set of t is not tested.
ActiveValidReads(t) == \A e \in cc.active : test_valid(e.rows, rset(t))

\* No transaction in its validation or waiting for finish writes what t
\* accesses.
ActiveValid(t) ==
  \A e \in cc.active : test_valid(e.rows, rset(t) \cup wset(t))

\* OptCC::central_validate up to its verdict.  What it compares outside the
\* critical section was fixed inside.
OccValidate(t) ==
  LET valid == HistoryValid(t) /\ ActiveValid(t)
  IN
  /\ CC_ALG = "OCC" /\ AtCommit(t)
  /\ get_next_ts
  /\ cc' = IF wset(t) = {} THEN cc
           ELSE [cc EXCEPT !.active = @ \cup {[txn |-> t, rows |-> wset(t)]}]
  /\ txn' = [txn EXCEPT ![t].state = IF valid THEN "validated"
                                     ELSE "validating"]
  /\ UNCHANGED <<manager, hist>>

\* central_validate after it has failed: t leaves the active set.
OccWithdraw(t) ==
  /\ CC_ALG = "OCC" /\ txn[t].state = "validating"
  /\ cc' = [cc EXCEPT !.active = {e \in @ : e.txn # t}]
  /\ txn' = [txn EXCEPT ![t].state = "aborting"]
  /\ UNCHANGED <<clock, manager, hist>>

\* OptCC::central_finish.  (After an abort there is nothing left to do.)
OccFinish(t) ==
  /\ CC_ALG = "OCC" /\ txn[t].state = "validated"
  /\ txn' = [txn EXCEPT ![t].state = "committing"]
  /\ \/ /\ wset(t) # {}
        /\ get_next_ts
        /\ cc' = [active  |-> {e \in cc.active : e.txn # t},
                  history |-> cc.history \cup
                                {[tn |-> clock, txn |-> t, rows |-> wset(t)]}]
     \/ wset(t) = {} /\ UNCHANGED <<clock, cc>>
  /\ UNCHANGED <<manager, hist>>

-----------------------------------------------------------------------------
\* Bocc::central_validate: under the semaphore as a whole.
BoccValidate(t) ==
  /\ CC_ALG = "BOCC" /\ AtCommit(t)
  /\ get_next_ts
  /\ txn' = [txn EXCEPT ![t].state = IF HistoryValid(t) THEN "validated"
                                     ELSE "aborting"]
  /\ UNCHANGED <<manager, cc, hist>>

\* Bocc::central_finish.
BoccFinish(t) ==
  /\ CC_ALG = "BOCC" /\ txn[t].state = "validated"
  /\ txn' = [txn EXCEPT ![t].state = "committing"]
  /\ \/ /\ wset(t) # {}
        /\ get_next_ts
        /\ cc' = [cc EXCEPT !.history = @ \cup
                    {[tn |-> clock, txn |-> t, rows |-> wset(t)]}]
     \/ wset(t) = {} /\ UNCHANGED <<clock, cc>>
  /\ UNCHANGED <<manager, hist>>

-----------------------------------------------------------------------------
\* The entries from the one at p on.
Chain[p \in Nat] ==
  IF p = 0 THEN <<>> ELSE <<p>> \o Chain[cc.ent[p].next]

\* The position in chain c of the first entry of t; 0 if there is none.
Find(c, t) == SelectInSeq(c, LAMBDA p : cc.ent[p].txn = t)

\* get_row of FOCC: the row is copied and active_storage reads the head of the
\* list.  The access is not recorded yet, so its row is not in the read set.
FoccReadRow(t) ==
  /\ CC_ALG = "FOCC" /\ txn[t].state = "running" /\ ~ is_done(t)
  /\ txn' = [txn EXCEPT ![t].state = "storing", ![t].act = cc.active]
  /\ reads' = [reads EXCEPT ![t] =
                 ReadsOf(t, Req(t).row, manager[Req(t).row].version)]
  /\ UNCHANGED <<clock, manager, cc, installed>>

\* Focc::active_storage under the semaphore: an entry for a transaction that
\* has none; an entry that exists stays as it is (act = rset changes nothing).
\* Then the access is recorded.
ActiveStorage(t) ==
  LET e == [txn |-> t, rows |-> rset(t), next |-> cc.active]
  IN
  /\ CC_ALG = "FOCC" /\ txn[t].state = "storing"
  /\ txn' = [txn EXCEPT ![t] = GotRow(@, t, <<>>)]
  /\ cc' = IF rset(t) = {} \/ Find(Chain[txn[t].act], t) # 0 THEN cc
           ELSE [active |-> Len(cc.ent) + 1, ent |-> Append(cc.ent, e)]
  /\ UNCHANGED <<clock, manager, hist>>

\* The list without the first entry of t on the chain from p.
Unlinked(t, p) ==
  LET c == Chain[p]
      i == Find(c, t)
  IN  IF i = 0 THEN cc
      ELSE IF i = 1 THEN [cc EXCEPT !.active = cc.ent[c[1]].next]
      ELSE [cc EXCEPT !.ent[c[i - 1]].next = cc.ent[c[i]].next]

\* Focc::test_valid of an entry and the write set of t: an entry of t itself
\* is passed over.
focc_test_valid(e, t) == e.txn # t => test_valid(e.rows, wset(t))

\* Focc::central_validate: nobody else in the list has read what t writes.
FoccValidate(t) ==
  LET valid == \A i \in 1..Len(Chain[cc.active]) :
                 focc_test_valid(cc.ent[Chain[cc.active][i]], t)
  IN
  /\ CC_ALG = "FOCC" /\ AtCommit(t)
  /\ txn' = [txn EXCEPT ![t].state = IF valid THEN "validated" ELSE "withdrawn"]
  /\ cc' = IF valid THEN cc ELSE Unlinked(t, cc.active)
  /\ UNCHANGED <<clock, manager, hist>>

\* Focc::central_finish, first its read of the head of the list.
FoccReadHead(t) ==
  /\ CC_ALG = "FOCC" /\ txn[t].state \in {"validated", "withdrawn"}
  /\ txn' = [txn EXCEPT ![t].act = cc.active,
                        ![t].state = IF @ = "validated" THEN "finishing"
                                     ELSE "undoing"]
  /\ UNCHANGED <<clock, manager, cc, hist>>

\* Then the removal, under the semaphore.
FoccFinish(t) ==
  /\ CC_ALG = "FOCC" /\ txn[t].state \in {"finishing", "undoing"}
  /\ txn' = [txn EXCEPT ![t].state = IF @ = "finishing" THEN "committing"
                                     ELSE "aborting"]
  /\ cc' = Unlinked(t, txn[t].act)
  /\ UNCHANGED <<clock, manager, hist>>

-----------------------------------------------------------------------------
\* Mutant of ReturnRow: an aborted attempt writes as well.
ReturnRowAlways(t) ==
  \E a \in ToSet(txn[t].accesses) :
    LET v == NewVersion(a.row, t)
    IN
    /\ Returns(t, a)
    /\ manager' = [manager EXCEPT ![a.row].version = v] /\ Install(a.row, v)
    /\ txn' = [txn EXCEPT ![t] = Returned(@)]
    /\ UNCHANGED <<clock, cc, reads>>

\* cleanup_row and return_row: Row_occ::write for a row that was written.
ReturnRow(t) ==
  \E a \in ToSet(txn[t].accesses) :
    LET v == NewVersion(a.row, t)
    IN
    /\ Returns(t, a)
    /\ IF a.type = "WR" /\ txn[t].state = "committing"
       THEN manager' = [manager EXCEPT ![a.row].version = v] /\ Install(a.row, v)
       ELSE UNCHANGED <<manager, installed>>
    /\ txn' = [txn EXCEPT ![t] = Returned(@)]
    /\ UNCHANGED <<clock, cc, reads>>

Step(t) ==
  \/ SetStartTimestamp(t)
  \/ ReadRow(t)
  \/ OccValidate(t)
  \/ OccWithdraw(t)
  \/ OccFinish(t)
  \/ BoccValidate(t)
  \/ BoccFinish(t)
  \/ FoccReadRow(t)
  \/ ActiveStorage(t)
  \/ FoccValidate(t)
  \/ FoccReadHead(t)
  \/ FoccFinish(t)
  \/ ReturnRow(t)
  \/ EndAttempt(t, <<>>) /\ UNCHANGED cc

Next ==
  \E t \in Txn :
    CC_ALG \in {"OCC", "BOCC", "FOCC"} /\ Step(t) /\ UNCHANGED build
-----------------------------------------------------------------------------

\* Two transactions that wait for finish do not write the same row, and do not
\* each write what the other has read: the second to enter the critical
\* section of central_validate has seen the first in the active set.
ValidatedApart ==
  CC_ALG = "OCC" =>
    \A t, u \in {v \in Txn : txn[v].state = "validated"} : t # u =>
      /\ wset(t) \cap wset(u) = {}
      /\ rset(t) \cap wset(u) = {} \/ rset(u) \cap wset(t) = {}

\* Nothing of a transaction stays in the active set of OCC.
ActiveOwned ==
  CC_ALG = "OCC" =>
    {e.txn : e \in cc.active} =
      {t \in Txn : txn[t].state \in {"validating", "validated"} /\ wset(t) # {}}
=============================================================================
