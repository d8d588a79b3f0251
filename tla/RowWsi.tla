------------------------------- MODULE RowWsi ------------------------------
(***************************************************************************)
(* The WSI build: concurrency_control/wsi.cpp and row_wsi.cpp.  The rows   *)
(* keep versions as in the MVCC build; nothing waits, and a write aborts   *)
(* only when the queue of prewrites is full.                               *)
(*                                                                         *)
(* central_validate compares the lastCommit of the rows read with the      *)
(* start timestamp and overwrites the verdict with RCOK, so that           *)
(* lastCommit, which nothing else reads, has no effect and is left out.    *)
(***************************************************************************)
EXTENDS Execution

MV == INSTANCE RowMvcc

RowInit == [prereq |-> {}, readhis |-> {}, writehis |-> {}, base |-> Loaded]

WsiInit == Init("WSI", <<>>, RowInit,
                [pool_min_ts |-> UINT64_MAX, min_ts |-> 0])

\* process_rtxn: the start timestamp of the attempt; then it is registered.
SetStartTimestamp(t) ==
  /\ txn[t].state = "queued"
  /\ get_next_ts
  /\ txn' = [txn EXCEPT ![t].state = "stamped", ![t].start_timestamp = clock]
  /\ UNCHANGED <<manager, cc, hist>>

UpdateMinTs(t) ==
  /\ txn[t].state = "stamped"
  /\ txn' = [txn EXCEPT ![t].state = "running"]
  /\ cc' = [cc EXCEPT !.pool_min_ts = Min({@, txn[t].start_timestamp})]
  /\ UNCHANGED <<clock, manager, hist>>

\* access(P_REQ).
Prewrite(t) ==
  LET r == Req(t).row
      room == Cardinality(manager[r].prereq) < g_max_pre_req
  IN
  /\ AtRequest(t, "WR")
  /\ \/ /\ room
        /\ txn' = [txn EXCEPT ![t].state = "prewritten"]
        /\ MV!Recycle(r, [manager[r] EXCEPT !.prereq = @ \cup {t}])
     \/ /\ ~ room
        /\ txn' = [txn EXCEPT ![t].state = "aborting"]
        /\ UNCHANGED <<manager, cc>>
  /\ UNCHANGED <<clock, hist>>

\* access(R_REQ): the version as of the start of the attempt.
ReadRow(t) ==
  LET r == Req(t).row
      n == txn[t].start_timestamp
  IN
  /\ ~ is_done(t)
  /\ txn[t].state = IF Req(t).type = "WR" THEN "prewritten" ELSE "running"
  /\ txn' = [txn EXCEPT ![t] = GotRow(@, t, <<>>)]
  /\ reads' = [reads EXCEPT ![t] = ReadsOf(t, r, MV!VersionAt(manager[r], n))]
  /\ MV!Recycle(r, [manager[r] EXCEPT !.readhis = @ \cup {n}])
  /\ UNCHANGED <<clock, installed>>

\* start_commit: validation passes, and gene_finish_ts draws the commit
\* timestamp.
Commit(t) ==
  /\ txn[t].state = "running" /\ is_done(t)
  /\ get_next_ts
  /\ txn' = [txn EXCEPT ![t].state = "committing", ![t].commit_timestamp = clock]
  /\ UNCHANGED <<manager, cc, hist>>

\* cleanup_row and return_row: W_REQ or XP_REQ for a row that was written.
ReturnRow(t) ==
  \E a \in ToSet(txn[t].accesses) :
    LET r == a.row
        v == [ts |-> txn[t].commit_timestamp, txn |-> t]
        m == [manager[r] EXCEPT !.prereq = @ \ {t}]
    IN
    /\ Returns(t, a)
    /\ \/ /\ a.type = "WR" /\ txn[t].state = "committing"
          /\ MV!Recycle(r, [m EXCEPT !.writehis = @ \cup {v}])
          /\ Install(r, v)
       \/ /\ a.type = "WR" /\ txn[t].state = "aborting"
          /\ MV!Recycle(r, m)
          /\ UNCHANGED installed
       \/ /\ a.type = "RD"
          /\ UNCHANGED <<manager, cc, installed>>
    /\ txn' = [txn EXCEPT ![t] = Returned(@)]
    /\ UNCHANGED <<clock, reads>>

Step(t) ==
  \/ SetStartTimestamp(t)
  \/ UpdateMinTs(t)
  \/ Prewrite(t)
  \/ ReadRow(t)
  \/ Commit(t)
  \/ ReturnRow(t)
  \/ EndAttempt(t, <<>>) /\ UNCHANGED cc

Next == \E t \in Txn : CC_ALG = "WSI" /\ Step(t) /\ UNCHANGED build
-----------------------------------------------------------------------------

\* A prewrite that is buffered belongs to a transaction that will take it out.
PrewriteOwned ==
  CC_ALG = "WSI" =>
    \A r \in Row : \A t \in manager[r].prereq :
      r \in wset(t) \/ (txn[t].state = "prewritten" /\ Req(t).row = r)

\* Whatever is recycled, a transaction that runs reads of any row the newest
\* version written so far that is not newer than its start.
SnapshotKept ==
  CC_ALG = "WSI" =>
    \A t \in Txn : txn[t].state \in {"running", "prewritten"} =>
      \A r \in Row :
        MV!VersionAt(manager[r], txn[t].start_timestamp) =
          MV!Newest({v \in installed[r] : v.ts <= txn[t].start_timestamp})
=============================================================================
