-------------------------------- MODULE SSI --------------------------------
(***************************************************************************)
(* The SSI build, the default CC_ALG: concurrency_control/ssi.cpp and      *)
(* row_ssi.cpp.                                                            *)
(*                                                                         *)
(* Row_ssi::access runs under the latch of the row, so each request to a   *)
(* row is one step; a write is a P_REQ and an R_REQ under separate latches *)
(* and, at the end, a W_REQ or an XP_REQ.                                  *)
(*                                                                         *)
(* Entries of the inout_table are made by InOutTable::init(thd_id, key),   *)
(* which nothing calls: find(key) never finds one.  The setters change     *)
(* nothing and the getters answer what they answer for an unknown key.     *)
(***************************************************************************)
EXTENDS Execution

\* si_read_lock and write_lock are stacks of transactions, writehis has the
\* newest version first, base is the version in _row itself.
RowInit == [si_read_lock |-> <<>>, write_lock |-> <<>>, prereq_mvcc |-> {},
            writehis |-> <<>>, base |-> Loaded]

SsiInit == Init("SSI", <<>>, RowInit,
                [pool_min_ts |-> UINT64_MAX, min_ts |-> 0])

-----------------------------------------------------------------------------
get_state(t)       == "SSI_RUNNING"
get_inConflict(t)  == FALSE
get_outConflict(t) == TRUE
get_commit_ts(t)   == 0

\* process_rtxn: the snapshot of the attempt.  (In this build the timestamp
\* registered just before is UINT64_MAX.)
SetStartTimestamp(t) ==
  /\ txn[t].state = "queued"
  /\ get_next_ts
  /\ txn' = [txn EXCEPT ![t].state = "stamped", ![t].start_timestamp = clock]
  /\ UNCHANGED <<manager, cc, hist>>

\* process_rtxn goes on: the snapshot is registered in the txn_table.
UpdateMinTs(t) ==
  /\ txn[t].state = "stamped"
  /\ txn' = [txn EXCEPT ![t].state = "running"]
  /\ cc' = [cc EXCEPT !.pool_min_ts = Min({@, txn[t].start_timestamp})]
  /\ UNCHANGED <<clock, manager, hist>>
-----------------------------------------------------------------------------
\* get_lock pushes an entry; a transaction may have several.
get_lock(stack, t) == <<t>> \o stack

\* release_lock: the loop stops at the entry it unlinks, so that one entry
\* of t goes at most.
release_lock(stack, t) == RemoveFirst(stack, t)

\* The buffered prewrites; a transaction has one of a row.
buffer_req(prereq, t)   == prereq \cup {t}
debuffer_req(prereq, t) == prereq \ {t}

\* clear_history: how many versions stay.  The first version older than the
\* bound ts does, for the transactions that read as of ts.
Kept(his, ts) ==
  LET old == {i \in 1..Len(his) : his[i].ts < ts}
  IN  IF old = {} THEN Len(his) ELSE Min(old)

\* The end of Row_ssi::access with RCOK, the manager of r being m by now: a
\* history that has become long is recycled, the last recycled version going
\* to _row.  get_min_ts looks at the txn_table if its last look is long ago.
RecycleHistory(r, m) ==
  IF Len(m.writehis) > g_his_recycle_len
  THEN \E look \in BOOLEAN :
         LET his  == m.writehis
             t_th == IF look THEN Max({cc.min_ts, cc.pool_min_ts}) ELSE cc.min_ts
             k    == IF Len(his) > 1 /\ his[Len(his) - 1].ts < t_th
                     THEN Kept(his, t_th) ELSE Len(his)
         IN  /\ cc' = [cc EXCEPT !.min_ts = t_th]
             /\ manager' = [manager EXCEPT ![r] =
                  [m EXCEPT !.writehis = SubSeq(his, 1, k),
                            !.base = IF k < Len(his) THEN his[k + 1] ELSE @]]
  ELSE manager' = [manager EXCEPT ![r] = m] /\ UNCHANGED cc

\* Whether a P_REQ of t on r finds a committed reader that t must not write
\* under.
Dangerous(t, r) ==
  \E u \in ToSet(manager[r].si_read_lock) \ {t} :
    /\ get_state(u) = "SSI_COMMITTED"
    /\ get_commit_ts(u) > txn[t].start_timestamp
    /\ get_inConflict(u)

\* Whether the row takes another prewrite.
HasRoom(r) == Cardinality(manager[r].prereq_mvcc) < g_max_pre_req

\* access(P_REQ): the write lock is taken before anything is checked.
Prewrite(t) ==
  LET r  == Req(t).row
      m  == [manager[r] EXCEPT !.write_lock = get_lock(@, t)]
      ok == ~ Dangerous(t, r) /\ HasRoom(r)
  IN
  /\ AtRequest(t, "WR")
  /\ \/ /\ ok
        /\ txn' = [txn EXCEPT ![t].state = "prewritten"]
        /\ RecycleHistory(r, [m EXCEPT !.prereq_mvcc = buffer_req(@, t)])
     \/ /\ ~ ok
        /\ txn' = [txn EXCEPT ![t].state = "aborting"]
        /\ manager' = [manager EXCEPT ![r] = m]
        /\ UNCHANGED cc
  /\ UNCHANGED <<clock, hist>>

\* Mutant of VersionAt: the newest version.
VersionAtNewest(r, ts) ==
  IF manager[r].writehis = <<>> THEN manager[r].base ELSE Head(manager[r].writehis)

\* The version of r that a reader as of ts gets: the first in the history that
\* is not newer, or _row.
VersionAt(r, ts) ==
  LET his     == manager[r].writehis
      visible == {i \in 1..Len(his) : his[i].ts <= ts}
  IN  IF visible = {} THEN manager[r].base ELSE his[Min(visible)]

\* access(R_REQ), and get_row recording the access.
ReadRow(t) ==
  LET r == Req(t).row
      v == VersionAt(r, txn[t].start_timestamp)
  IN
  /\ ~ is_done(t)
  /\ txn[t].state = IF Req(t).type = "WR" THEN "prewritten" ELSE "running"
  /\ txn' = [txn EXCEPT ![t] = GotRow(@, t, <<>>)]
  /\ reads' = [reads EXCEPT ![t] = @ \cup {[row |-> r, version |-> v]}]
  /\ RecycleHistory(r, [manager[r] EXCEPT !.si_read_lock = get_lock(@, t)])
  /\ UNCHANGED <<clock, installed>>

\* start_commit: ssi::validate, which finds no conflict, and gene_finish_ts.
Commit(t) ==
  /\ txn[t].state = "running" /\ is_done(t)
  /\ ~ (get_inConflict(t) /\ get_outConflict(t))
  /\ get_next_ts
  /\ txn' = [txn EXCEPT ![t].state = "committing", ![t].commit_timestamp = clock]
  /\ UNCHANGED <<manager, cc, hist>>

\* insert_history: before the first version that is not newer.
InsertHistory(his, v) ==
  SelectSeq(his, LAMBDA x : v.ts < x.ts) \o <<v>>
    \o SelectSeq(his, LAMBDA x : ~ (v.ts < x.ts))

\* access(W_REQ): the write of t becomes a version; the si-read lock stays.
Store(t, r) ==
  LET v == [ts |-> txn[t].commit_timestamp, txn |-> t]
  IN  /\ Install(r, v)
      /\ RecycleHistory(r, [manager[r] EXCEPT
           !.write_lock = release_lock(@, t), !.prereq_mvcc = debuffer_req(@, t),
           !.writehis = InsertHistory(@, v)])

\* access(XP_REQ).
Discard(t, r) ==
  /\ RecycleHistory(r, [manager[r] EXCEPT
       !.write_lock = release_lock(@, t), !.si_read_lock = release_lock(@, t),
       !.prereq_mvcc = debuffer_req(@, t)])
  /\ UNCHANGED installed

\* cleanup_row and return_row, from the last access to the first: a row that
\* was only read is left as it is.
ReturnRow(t) ==
  \E a \in ToSet(txn[t].accesses) :
    /\ Returns(t, a)
    /\ \/ a.type = "WR" /\ txn[t].state = "committing" /\ Store(t, a.row)
       \/ a.type = "WR" /\ txn[t].state = "aborting" /\ Discard(t, a.row)
       \/ a.type = "RD" /\ UNCHANGED <<manager, cc, installed>>
    /\ txn' = [txn EXCEPT ![t] = Returned(@)]
    /\ UNCHANGED <<clock, reads>>

\* release_transaction_manager leaves the minimum of the pool as it is in this
\* build.
Step(t) ==
  \/ SetStartTimestamp(t)
  \/ UpdateMinTs(t)
  \/ Prewrite(t)
  \/ ReadRow(t)
  \/ Commit(t)
  \/ ReturnRow(t)
  \/ EndAttempt(t, <<>>) /\ UNCHANGED cc

Next == \E t \in Txn : CC_ALG = "SSI" /\ Step(t) /\ UNCHANGED build
-----------------------------------------------------------------------------

Newest(S) == CHOOSE v \in S : \A w \in S : w.ts <= v.ts

\* The snapshot of a running transaction stays readable: whatever is recycled,
\* a read of any row gets the newest version that is not newer than the
\* snapshot (the HACK of Row_ssi::access and the txn_table's minimum).
SnapshotKept ==
  CC_ALG = "SSI" =>
    \A t \in Txn : txn[t].state \in {"stamped", "running", "prewritten"} =>
      \A r \in Row :
        VersionAt(r, txn[t].start_timestamp) =
          Newest({v \in installed[r] : v.ts <= txn[t].start_timestamp})

\* What a transaction read was written by a transaction that has passed
\* validation, as of its final commit timestamp, and is not newer than the
\* reader's snapshot: prewrites of R_REQ's row and undone writes are not seen.
NoDirtyRead ==
  CC_ALG = "SSI" =>
    \A t \in Txn : \A x \in reads[t] :
      /\ x.version.ts <= txn[t].start_timestamp
      /\ x.version # Loaded =>
           /\ txn[x.version.txn].state \in {"committing", "done"}
           /\ x.version.ts = txn[x.version.txn].commit_timestamp

\* The buffered prewrites of a row are those of the transactions that will
\* still end them: debuffer_req finds its request (assert(req != NULL)) and
\* preq_len gives back what it took.
PrewriteOwned ==
  CC_ALG = "SSI" =>
    \A r \in Row :
      /\ Cardinality(manager[r].prereq_mvcc) <= g_max_pre_req
      /\ manager[r].prereq_mvcc =
           {t \in Txn : \/ r \in wset(t)
                        \/ txn[t].state = "prewritten" /\ Req(t).row = r}

\* Releases of one transaction do not unlock another: a prewrite has its write
\* lock, and the read of an attempt that is not undone its si-read lock, also
\* after the reader has committed.
LocksHeld ==
  CC_ALG = "SSI" =>
    /\ \A r \in Row : manager[r].prereq_mvcc \subseteq ToSet(manager[r].write_lock)
    /\ \A t \in Txn : txn[t].state # "aborting" =>
         \A x \in reads[t] : t \in ToSet(manager[x.row].si_read_lock)

\* Versions are in the order of their commit timestamps although transactions
\* install them later and in any order (assert(prev->ts >= his->ts) of
\* clear_history), and the newest is never recycled.
HistoryOrdered ==
  CC_ALG = "SSI" =>
    \A r \in Row :
      LET his == manager[r].writehis \o <<manager[r].base>>
      IN  /\ \A i \in 1..(Len(his) - 1) : his[i].ts > his[i + 1].ts
          /\ his[1] = Newest(installed[r])
=============================================================================
