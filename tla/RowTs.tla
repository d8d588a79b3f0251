------------------------------- MODULE RowTs -------------------------------
(***************************************************************************)
(* The TIMESTAMP build: concurrency_control/row_ts.cpp, basic timestamp    *)
(* ordering with buffered requests (TS_TWR is false).                      *)
(*                                                                         *)
(* A write is a P_REQ and an R_REQ, each under the latch of the row, and   *)
(* at the end a W_REQ or an XP_REQ.  min_pts, min_rts and min_wts follow   *)
(* the queues at every change of them, so they are operators here.         *)
(***************************************************************************)
EXTENDS Execution

RowInit == [wts |-> 0, rts |-> 0, prereq |-> {}, readreq |-> {},
            writereq |-> {}, version |-> Loaded]

TsInit == Init("TIMESTAMP", <<>>, RowInit, <<>>)

ts(t) == txn[t].timestamp

\* cal_min: the smallest timestamp of the buffered requests.
cal_min(queue) == Min({ts(t) : t \in queue} \cup {UINT64_MAX})

\* access(P_REQ): too late if a later transaction has read or written.
Prewrite(t) ==
  LET r == Req(t).row
      late == ts(t) < manager[r].rts \/ ts(t) < manager[r].wts
  IN
  /\ AtRequest(t, "WR")
  /\ txn' = [txn EXCEPT ![t].state = IF late THEN "aborting" ELSE "prewritten"]
  /\ manager' = IF late THEN manager
                ELSE [manager EXCEPT ![r].prereq = @ \cup {t}]
  /\ UNCHANGED <<clock, cc, hist>>

\* Whether a read must wait for the prewrite of an older transaction.
MustWait(t, r) == ts(t) > cal_min(manager[r].prereq)

\* access(R_REQ): abort, wait, or read and record the access.
ReadRow(t) ==
  LET r == Req(t).row
      m == manager[r]
  IN
  /\ ~ is_done(t)
  /\ txn[t].state = IF Req(t).type = "WR" THEN "prewritten" ELSE "running"
  /\ \/ /\ ts(t) < m.wts
        /\ txn' = [txn EXCEPT ![t].state = "aborting"]
        /\ UNCHANGED <<manager, reads>>
     \/ /\ ~ ts(t) < m.wts /\ MustWait(t, r)
        /\ txn' = [txn EXCEPT ![t].state = "waiting"]
        /\ manager' = [manager EXCEPT ![r].readreq = @ \cup {t}]
        /\ UNCHANGED reads
     \/ /\ ~ ts(t) < m.wts /\ ~ MustWait(t, r)
        /\ txn' = [txn EXCEPT ![t] = GotRow(@, t, <<>>)]
        /\ manager' = [manager EXCEPT ![r].rts = Max({@, ts(t)})]
        /\ reads' = [reads EXCEPT ![t] = ReadsOf(t, r, m.version)]
  /\ UNCHANGED <<clock, cc, installed>>

\* The reads that update_buffer lets go, the prewrites being preqs by now.
ReadyReads(m, preqs) ==
  IF cal_min(preqs) > cal_min(m.prereq)
  THEN {u \in m.readreq : ts(u) <= cal_min(preqs)} ELSE {}

\* debuffer_req(P_REQ) and update_buffer: the manager m of r without the
\* prewrite of t, the ready reads done.
Debuffered(m, t) ==
  LET preqs == m.prereq \ {t}
      ready == ReadyReads(m, preqs)
  IN  [m EXCEPT !.prereq = preqs, !.readreq = @ \ ready,
                !.rts = Max({@} \cup {ts(u) : u \in ready})]

\* ts_ready and restart_txn for the transactions that Debuffered let go.
Restart(t, r, m) ==
  LET ready == ReadyReads(m, m.prereq \ {t})
  IN  WakeUp(t, r, ready, [u \in ready |-> m.version])

\* access(W_REQ): the write waits for older prewrites and older reads; else it
\* is done.  Nothing of return_row waits for a write that waits.
Write(t, r) ==
  LET v == NewVersion(r, t)
      m == [manager[r] EXCEPT !.wts = Max({@, ts(t)}), !.version = v]
  IN
  IF \/ ts(t) > cal_min(manager[r].prereq)
     \/ ts(t) > cal_min(manager[r].readreq)
  THEN /\ manager' = [manager EXCEPT ![r].writereq = @ \cup {t}]
       /\ txn' = [txn EXCEPT ![t] = Returned(@)]
       /\ UNCHANGED hist
  ELSE /\ manager' = [manager EXCEPT ![r] = Debuffered(m, t)]
       /\ Restart(t, r, m)
       /\ Install(r, v)

\* Mutant of Discard: the readers that waited for the prewrite stay asleep.
DiscardSilently(t, r) ==
  /\ manager' = [manager EXCEPT ![r].prereq = @ \ {t}]
  /\ txn' = [txn EXCEPT ![t] = Returned(@)]
  /\ UNCHANGED hist

\* access(XP_REQ).
Discard(t, r) ==
  /\ manager' = [manager EXCEPT ![r] = Debuffered(@, t)]
  /\ Restart(t, r, manager[r])
  /\ UNCHANGED installed

\* cleanup_row and return_row: a row that was only read is left as it is.
ReturnRow(t) ==
  \E a \in ToSet(txn[t].accesses) :
    /\ Returns(t, a)
    /\ \/ a.type = "WR" /\ txn[t].state = "committing" /\ Write(t, a.row)
       \/ a.type = "WR" /\ txn[t].state = "aborting" /\ Discard(t, a.row)
       \/ /\ a.type = "RD"
          /\ txn' = [txn EXCEPT ![t] = Returned(@)]
          /\ UNCHANGED <<manager, hist>>
    /\ UNCHANGED <<clock, cc>>

Step(t) ==
  \/ NewTimestamp(t, "running")
  \/ Prewrite(t)
  \/ ReadRow(t)
  \/ Resume(t)
  \/ StartCommit(t)
  \/ ReturnRow(t)
  \/ EndAttempt(t, <<>>) /\ UNCHANGED cc

Next == \E t \in Txn : CC_ALG = "TIMESTAMP" /\ Step(t) /\ UNCHANGED build
-----------------------------------------------------------------------------

\* A transaction that waits is in the queue of the row it asked for, behind
\* the prewrite of an older transaction that will end it.
NoLostWakeup ==
  CC_ALG = "TIMESTAMP" =>
    \A t \in Txn : txn[t].state = "waiting" =>
      LET m == manager[Req(t).row]
      IN  t \in m.readreq /\ \E u \in m.prereq : ts(u) < ts(t)

\* A W_REQ is done at once, although access can buffer it: return_row does
\* not look at what access says, and the transaction ends.
WriteNeverWaits ==
  CC_ALG = "TIMESTAMP" => \A r \in Row : manager[r].writereq = {}
=============================================================================
