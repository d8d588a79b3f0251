-------------------------------- MODULE Wkdb -------------------------------
(***************************************************************************)
(* The WOOKONG build: concurrency_control/wkdb.cpp and row_wkdb.cpp.       *)
(* Versions as in MVCC, but a transaction commits at the lower end of a    *)
(* range of timestamps, which the validation of a writer cuts off from the *)
(* ranges of those that read its rows.  A row has one writer at a time,    *)
(* write_trans; the end of any writer hands the row to one that waits.     *)
(*                                                                         *)
(* cc.table is the time table, cc.semaphore the transaction that           *)
(* validates.  Commit timestamps may be equal, so the history is a         *)
(* sequence, newest first.                                                 *)
(***************************************************************************)
EXTENDS Execution

T  == INSTANCE TimeTable
MV == INSTANCE RowMvcc

RowInit == [uncommitted_reads |-> {}, write_trans |-> NoTxn, prereq |-> <<>>,
            writehis |-> <<>>, base |-> Loaded,
            timestamp_last_read |-> 0, timestamp_last_write |-> 0]

\* lower, upper and left are local to validate: the range, and the rows of the
\* write set that are still to be examined.
WkdbInit == Init("WOOKONG", [lower |-> 0, upper |-> 0, left |-> <<>>], RowInit,
                 [table |-> T!NoEntries, semaphore |-> NoTxn,
                  pool_min_ts |-> UINT64_MAX, min_ts |-> 0])

\* process_rtxn: the timestamp drawn a moment ago is registered and starts
\* the range.
Start(t) ==
  /\ txn[t].state = "stamped"
  /\ txn' = [txn EXCEPT ![t].state = "running"]
  /\ cc' = [cc EXCEPT !.pool_min_ts = Min({@, txn[t].timestamp}),
                      !.table = T!init(@, t, txn[t].timestamp)]
  /\ UNCHANGED <<clock, manager, hist>>

-----------------------------------------------------------------------------
\* The version a reader at n gets: the row itself if nothing was committed at
\* n or later, and the history as of n otherwise.
VersionFor(m, n) ==
  LET visible == SelectSeq(m.writehis, LAMBDA v : v.ts <= n)
  IN  IF m.timestamp_last_write < n \/ visible = <<>> THEN m.base
      ELSE Head(visible)

\* clear_history: the row becomes the newest of the versions that go.
Cleared(m, n) ==
  LET Stays(i) == i = 1 \/ m.writehis[i - 1].ts >= n
      len == Cardinality({i \in DOMAIN m.writehis : Stays(i)})
  IN  IF len = Len(m.writehis) THEN m
      ELSE [m EXCEPT !.writehis = SubSeq(@, 1, len),
                     !.base = m.writehis[len + 1]]

\* The end of read_and_write with RCOK: a long history is cut.
Recycle(r, m) ==
  \E look \in BOOLEAN :
    LET t_th == IF look THEN Max({cc.min_ts, cc.pool_min_ts}) ELSE cc.min_ts
    IN  IF Len(m.writehis) > g_his_recycle_len
        THEN /\ cc' = [cc EXCEPT !.min_ts = t_th]
             /\ manager' = [manager EXCEPT ![r] = Cleared(m, t_th)]
        ELSE manager' = [manager EXCEPT ![r] = m] /\ UNCHANGED cc

\* read_and_write with R_REQ or P_REQ: t is a reader of the row in any case,
\* and a write waits for the writer of the row if the queue has room.
WithReader(t, m) == [m EXCEPT !.uncommitted_reads = @ \cup {t}]
Waits(t, m) ==
  /\ Req(t).type = "WR" /\ m.write_trans \notin {NoTxn, t}
  /\ Len(m.prereq) < g_max_pre_req

\* row_t::get_row.
Access(t) ==
  LET r == Req(t).row
      m == WithReader(t, manager[r])
  IN
  /\ txn[t].state = "running" /\ ~ is_done(t)
  /\ \/ /\ Waits(t, m)
        /\ txn' = [txn EXCEPT ![t].state = "waiting"]
        /\ manager' = [manager EXCEPT ![r] = [m EXCEPT !.prereq = <<t>> \o @]]
        /\ UNCHANGED <<cc, reads>>
     \/ /\ ~ Waits(t, m)
        /\ txn' = [txn EXCEPT ![t] = GotRow(@, t, <<>>)]
        /\ reads' = [reads EXCEPT ![t] =
                       ReadsOf(t, r, VersionFor(m, txn[t].timestamp))]
        /\ Recycle(r, m)
  /\ UNCHANGED <<clock, installed>>

-----------------------------------------------------------------------------
\* The rows of the write set in the order of the accesses (get_rw_set).
WriteRows(t) ==
  LET w == SelectSeq(txn[t].accesses, LAMBDA a : a.type = "WR")
  IN  [i \in DOMAIN w |-> w[i].row]

\* Wkdb::validate takes the semaphore and reads the range.
Validate(t) ==
  /\ txn[t].state = "running" /\ is_done(t) /\ cc.semaphore = NoTxn
  /\ cc' = [cc EXCEPT !.semaphore = t]
  /\ txn' = [txn EXCEPT ![t] =
       [@ EXCEPT !.state = "validating", !.left = WriteRows(t),
                 !.lower = T!get_lower(cc.table, t),
                 !.upper = T!get_upper(cc.table, t)]]
  /\ UNCHANGED <<clock, manager, hist>>

\* The loop over the readers of a row: a.lower rises above those that have
\* validated, and those that run have to end below it.
PastReader(t, a, u) ==
  LET lo == T!get_lower(a.table, u)
      up == T!get_upper(a.table, u)
      cut == Max({a.lower, lo + 1})
  IN  IF a.lower >= txn[t].upper \/ u = t \/ lo >= up THEN a
      ELSE IF T!Fixed(a.table, u) THEN [a EXCEPT !.lower = Max({@, up})]
      ELSE IF T!Running(a.table, u) /\ cut <= up
      THEN [lower |-> cut, table |-> T!set_upper(a.table, u, cut)]
      ELSE a

\* One row of the loop over the write set, under its latch: the range moves
\* above the last read, t becomes the writer of the row unless it has one, and
\* the readers are passed.
ValidateRow(t) ==
  LET r == Head(txn[t].left)
      m == manager[r]
      l == Max({txn[t].lower, m.timestamp_last_read + 1})
      a == T!Loop(LAMBDA b, u : PastReader(t, b, u), m.uncommitted_reads,
                  [lower |-> l, table |-> cc.table])
  IN
  /\ txn[t].state = "validating" /\ txn[t].left # <<>>
  /\ \/ /\ l >= txn[t].upper
        /\ txn' = [txn EXCEPT ![t].lower = l, ![t].left = <<>>]
        /\ UNCHANGED <<manager, cc>>
     \/ /\ l < txn[t].upper /\ m.write_trans \notin {NoTxn, t}
        /\ txn' = [txn EXCEPT ![t].state = "aborting"]
        /\ cc' = [cc EXCEPT !.semaphore = NoTxn,
                            !.table = T!set_state(@, t, "ABORTED")]
        /\ UNCHANGED manager
     \/ /\ l < txn[t].upper /\ m.write_trans \in {NoTxn, t}
        /\ txn' = [txn EXCEPT ![t].lower = a.lower, ![t].left = Tail(@)]
        /\ manager' = [manager EXCEPT ![r].write_trans = t]
        /\ cc' = [cc EXCEPT !.table = a.table]
  /\ UNCHANGED <<clock, hist>>

\* VALID_END: the verdict, and the range goes back to the table.
ValidEnd(t) ==
  LET ok == txn[t].lower < txn[t].upper
  IN
  /\ txn[t].state = "validating" /\ txn[t].left = <<>>
  /\ txn' = [txn EXCEPT ![t].state = IF ok THEN "validated" ELSE "aborting"]
  /\ cc' = [cc EXCEPT
       !.semaphore = NoTxn,
       !.table = [@ EXCEPT ![t] = [lower |-> txn[t].lower, upper |-> txn[t].upper,
                                   state |-> IF ok THEN "VALIDATED"
                                             ELSE "ABORTED"]]]
  /\ UNCHANGED <<clock, manager, hist>>

\* Wkdb::find_bound.
FindBound(t) ==
  LET room == cc.table[t].lower < cc.table[t].upper
  IN
  /\ txn[t].state = "validated"
  /\ txn' = [txn EXCEPT ![t] =
       IF room THEN [@ EXCEPT !.state = "committing",
                              !.commit_timestamp = cc.table[t].lower]
       ELSE [@ EXCEPT !.state = "aborting"]]
  /\ cc' = [cc EXCEPT !.table =
              T!set_state(@, t, IF room THEN "COMMITTED" ELSE "VALIDATED")]
  /\ UNCHANGED <<clock, manager, hist>>

-----------------------------------------------------------------------------
\* insert_history.
Inserted(h, v) ==
  LET newer == Cardinality({i \in DOMAIN h : v.ts < h[i].ts})
  IN  SubSeq(h, 1, newer) \o <<v>> \o SubSeq(h, newer + 1, Len(h))

\* debuffer_req, m being the manager of the row r that t returns: the last
\* transaction that came to wait gets the row, t's commit timestamp and an
\* open range.
Debuffer(t, r, m) ==
  LET u == Head(m.prereq)
      n == txn[t].commit_timestamp
  IN
  IF m.prereq = <<>>
  THEN /\ txn' = [txn EXCEPT ![t] = Returned(@)]
       /\ manager' = [manager EXCEPT ![r] = m]
       /\ UNCHANGED cc
  ELSE /\ txn' = [txn EXCEPT ![t] = Returned(@), ![u].state = "ready",
                             ![u].timestamp = IF n # 0 THEN n ELSE @]
       /\ manager' = [manager EXCEPT ![r] =
            [m EXCEPT !.prereq = Tail(@), !.write_trans = u]]
       /\ cc' = [cc EXCEPT !.table = T!set_upper(@, u, UINT64_MAX)]

\* Row_wkdb::abort and Row_wkdb::commit up to debuffer_req: m without t, to
\* which it was returned with access a.
AbortRow(t, a, m) ==
  [m EXCEPT !.uncommitted_reads = @ \ {t},
            !.write_trans = IF a.type = "WR" /\ @ = t THEN NoTxn ELSE @]
CommitRow(t, a, m) ==
  LET n == txn[t].commit_timestamp
      x == [AbortRow(t, a, m) EXCEPT !.timestamp_last_read = Max({@, n})]
  IN  IF a.type = "RD" THEN x
      ELSE [x EXCEPT !.timestamp_last_write = Max({@, n}),
                     !.writehis = Inserted(@, [ts |-> n, txn |-> t])]

\* cleanup_row and return_row.
ReturnRow(t) ==
  \E a \in ToSet(txn[t].accesses) :
    LET r == a.row
        commits == txn[t].state = "committing"
        m == IF commits THEN CommitRow(t, a, manager[r])
             ELSE AbortRow(t, a, manager[r])
    IN
    /\ Returns(t, a)
    /\ \/ /\ a.type = "RD"
          /\ txn' = [txn EXCEPT ![t] = Returned(@)]
          /\ manager' = [manager EXCEPT ![r] = m]
          /\ UNCHANGED cc
       \/ a.type = "WR" /\ Debuffer(t, r, m)
    /\ IF a.type = "WR" /\ commits
       THEN Install(r, [ts |-> txn[t].commit_timestamp, txn |-> t])
       ELSE UNCHANGED installed
    /\ UNCHANGED <<clock, reads>>

\* The end of an attempt: the entry of the time table goes, and with a commit
\* the manager.
End(t) ==
  /\ EndAttempt(t, <<>>)
  /\ cc' = [cc EXCEPT !.table = T!release(@, t),
                      !.pool_min_ts = IF txn[t].state = "committing"
                                      THEN MV!PoolMin(t) ELSE @]

Step(t) ==
  \/ NewTimestamp(t, "stamped")
  \/ Start(t)
  \/ Access(t)
  \/ Resume(t)
  \/ Validate(t)
  \/ ValidateRow(t)
  \/ ValidEnd(t)
  \/ FindBound(t)
  \/ ReturnRow(t)
  \/ End(t)

Next == \E t \in Txn : CC_ALG = "WOOKONG" /\ Step(t) /\ UNCHANGED build
-----------------------------------------------------------------------------

\* A transaction that waits for a row is in its queue, and one that writes the
\* row has still to return it and hand it over.
NoLostWakeup ==
  CC_ALG = "WOOKONG" =>
    \A t \in Txn : txn[t].state = "waiting" =>
      LET r == Req(t).row
      IN  /\ t \in ToSet(manager[r].prereq)
          /\ \E u \in Txn : \/ r \in wset(u)
                            \/ txn[u].state = "ready" /\ Req(u).row = r

\* find_bound finds the range as validate left it: nobody cuts it meanwhile.
RangeKept ==
  CC_ALG = "WOOKONG" =>
    \A t \in Txn : txn[t].state = "validated" =>
      cc.table[t].lower < cc.table[t].upper

=============================================================================
