-------------------------------- MODULE Maat -------------------------------
(***************************************************************************)
(* The MAAT build: concurrency_control/maat.cpp and row_maat.cpp.  cc is   *)
(* the time table: the range in which each transaction may still commit.   *)
(* A transaction remembers who had read or written its rows before it, and *)
(* validation narrows its own range and the ranges of those that still     *)
(* run.                                                                    *)
(***************************************************************************)
EXTENDS Execution

T == INSTANCE TimeTable

RowInit == [version |-> Loaded, maat_avail |-> TRUE, uncommitted_reads |-> {},
            uncommitted_writes |-> {}, timestamp_last_read |-> 0,
            timestamp_last_write |-> 0]

\* What TxnManager::reset clears.
NoConflicts == [greatest_read_timestamp |-> 0, greatest_write_timestamp |-> 0,
                uncommitted_reads |-> {}, uncommitted_writes |-> {},
                uncommitted_writes_y |-> {}]

\* forward: the bounds that the commit of a row is still to adjust; setting:
\* the first of them has been read and is to be set.
MaatInit == Init("MAAT", [forward |-> <<>>, setting |-> FALSE] @@ NoConflicts,
                 RowInit, T!NoEntries)

\* process_rtxn.
Start(t) ==
  /\ txn[t].state = "queued"
  /\ cc' = T!init(cc, t, 0)
  /\ txn' = [txn EXCEPT ![t].state = "running"]
  /\ UNCHANGED <<clock, manager, hist>>

\* Row_maat::read and Row_maat::prewrite: what t has to come after or before.
Access(t) ==
  LET r  == Req(t).row
      m  == manager[r]
      wr == Req(t).type = "WR"
  IN
  /\ txn[t].state = "running" /\ ~ is_done(t) /\ m.maat_avail
  /\ txn' = [txn EXCEPT ![t] =
       [@ EXCEPT
         !.state = "storing",
         !.greatest_write_timestamp = Max({@, m.timestamp_last_write}),
         !.greatest_read_timestamp = IF wr THEN Max({@, m.timestamp_last_read})
                                     ELSE @,
         !.uncommitted_writes = IF wr THEN @ ELSE @ \cup m.uncommitted_writes,
         !.uncommitted_writes_y = IF wr THEN @ \cup m.uncommitted_writes ELSE @,
         !.uncommitted_reads = IF wr THEN @ \cup m.uncommitted_reads ELSE @]]
  /\ manager' = IF wr THEN [manager EXCEPT ![r].uncommitted_writes = @ \cup {t}]
                ELSE [manager EXCEPT ![r].uncommitted_reads = @ \cup {t}]
  /\ UNCHANGED <<clock, cc, hist>>

\* The rest of row_t::get_row: the row is copied without the latch.
CopyRow(t) ==
  LET r == Req(t).row
  IN
  /\ txn[t].state = "storing"
  /\ txn' = [txn EXCEPT ![t] = GotRow(@, t, <<>>)]
  /\ reads' = [reads EXCEPT ![t] = ReadsOf(t, r, manager[r].version)]
  /\ UNCHANGED <<clock, manager, cc, installed>>

-----------------------------------------------------------------------------
\* The range of t after the transactions that have validated, and the ones
\* that still run and must come before or after t.
RangeOf(t) ==
  LET x  == txn[t]
      l1 == Max({T!get_lower(cc, t), x.greatest_write_timestamp + 1})
      ByWrites(a, u) ==
        IF a.upper < T!get_lower(cc, u) THEN a
        ELSE IF T!Fixed(cc, u)
        THEN [a EXCEPT !.upper = T!Below(T!get_lower(cc, u))]
        ELSE IF T!Running(cc, u) THEN [a EXCEPT !.after = @ \cup {u}] ELSE a
      ByReads(a, u) ==
        IF a.lower > T!get_upper(cc, u) THEN a
        ELSE IF T!Fixed(cc, u)
        THEN [a EXCEPT !.lower = T!Above(T!get_upper(cc, u))]
        ELSE IF T!Running(cc, u) THEN [a EXCEPT !.before = @ \cup {u}] ELSE a
      ByWritesY(a, u) ==
        IF T!Fixed(cc, u) /\ a.lower <= T!get_upper(cc, u)
        THEN [a EXCEPT !.lower = T!Above(T!get_upper(cc, u))]
        ELSE IF T!Running(cc, u) THEN [a EXCEPT !.after = @ \cup {u}] ELSE a
      a1 == T!Loop(ByWrites, x.uncommitted_writes,
                   [lower |-> l1, upper |-> T!get_upper(cc, t),
                    before |-> {}, after |-> {}])
      a2 == [a1 EXCEPT !.lower = Max({@, x.greatest_read_timestamp + 1})]
      a3 == T!Loop(ByReads, x.uncommitted_reads, a2)
  IN  T!Loop(ByWritesY, x.uncommitted_writes_y, a3)

\* The lower bound above the ranges of those before, where there is room.
LowerAbove(a) ==
  T!Loop(LAMBDA l, u : IF T!get_upper(cc, u) > l /\ T!get_upper(cc, u) < a.upper - 1
                       THEN T!get_upper(cc, u) + 1 ELSE l,
         a.before, a.lower)

\* The upper bound below the ranges of those after, where there is room.
UpperBelow(a, lower) ==
  T!Loop(LAMBDA n, u :
           LET up == T!get_upper(cc, u)
               lo == T!get_lower(cc, u)
               n1 == IF up # UINT64_MAX /\ up > lower + 2 /\ up < n
                     THEN up - 2 ELSE n
           IN  IF lo < n1 /\ lo > lower + 1 THEN lo - 1 ELSE n1,
         a.after, a.upper)

\* Maat::validate, under the semaphore.
Validate(t) ==
  LET a == RangeOf(t)
      lower == LowerAbove(a)
      Earlier(S, u) == IF T!get_upper(S, u) >= lower
                       THEN T!set_upper(S, u, T!Below(lower)) ELSE S
      upper == UpperBelow(a, lower)
      Later(S, u) == IF T!get_lower(S, u) <= upper
                     THEN T!set_lower(S, u, T!Above(upper)) ELSE S
      others == T!Loop(Later, a.after, T!Loop(Earlier, a.before, cc))
  IN
  /\ txn[t].state = "running" /\ is_done(t)
  /\ \/ /\ a.lower >= a.upper
        /\ txn' = [txn EXCEPT ![t].state = "aborting"]
        /\ cc' = [cc EXCEPT ![t] = [lower |-> a.lower, upper |-> a.upper,
                                    state |-> "ABORTED"]]
     \/ /\ a.lower < a.upper
        /\ txn' = [txn EXCEPT ![t].state = "validated"]
        /\ cc' = [others EXCEPT ![t] = [lower |-> lower, upper |-> upper,
                                        state |-> "VALIDATED"]]
  /\ UNCHANGED <<clock, manager, hist>>

\* Maat::find_bound.
FindBound(t) ==
  LET room == cc[t].lower < cc[t].upper
  IN
  /\ txn[t].state = "validated"
  /\ \/ /\ room
        /\ txn' = [txn EXCEPT ![t].state = "committing",
                              ![t].commit_timestamp = cc[t].lower]
        /\ cc' = T!set_state(cc, t, "COMMITTED")
     \/ /\ ~ room
        /\ txn' = [txn EXCEPT ![t].state = "aborting"]
        /\ cc' = T!set_state(cc, t, "VALIDATED")
  /\ UNCHANGED <<clock, manager, hist>>

-----------------------------------------------------------------------------
\* What the commit of a row adjusts in the range of every transaction of S:
\* the bound, if it is not beyond limit, becomes value.
Adjust(S, bound, limit, value) ==
  LET Entry(u) == [who |-> u, bound |-> bound, limit |-> limit, value |-> value]
      s == SetToSortSeq(S, <)
  IN  [i \in DOMAIN s |-> Entry(s[i])]

\* Row_maat::commit, m being the manager of the row: writers that t did not
\* know of come after its read and before its write, and so do readers before
\* its write.
Forward(t, type, m) ==
  LET n == txn[t].commit_timestamp
      l == T!get_lower(cc, t)
      x == txn[t]
  IN  IF type = "RD"
      THEN Adjust(m.uncommitted_writes \ x.uncommitted_writes, "lower", n, n + 1)
      ELSE Adjust(m.uncommitted_writes \ x.uncommitted_writes_y, "upper", n, n - 1)
           \o Adjust(m.uncommitted_reads \ x.uncommitted_reads, "upper", l, l - 1)

\* Row_maat::abort: the soft lock of access a goes.
AbortRow(t, a, m) ==
  [m EXCEPT !.uncommitted_reads  = IF a.type = "RD" THEN @ \ {t} ELSE @,
            !.uncommitted_writes = IF a.type = "WR" THEN @ \ {t} ELSE @]

\* Row_maat::commit, which keeps the row while it makes the adjustments f.
CommitRow(t, a, m, f) ==
  LET n == txn[t].commit_timestamp
      x == [AbortRow(t, a, m) EXCEPT !.maat_avail = (f = <<>>)]
  IN  IF a.type = "RD" THEN [x EXCEPT !.timestamp_last_read = Max({@, n})]
      ELSE [x EXCEPT !.timestamp_last_write = Max({@, n}),
                     !.version = NewVersion(a.row, t)]

\* cleanup_row and return_row.
ReturnRow(t) ==
  \E a \in ToSet(txn[t].accesses) :
    LET r == a.row
        m == manager[r]
        commits == txn[t].state = "committing"
        f == IF commits THEN Forward(t, a.type, AbortRow(t, a, m)) ELSE <<>>
    IN
    /\ Returns(t, a) /\ m.maat_avail /\ txn[t].forward = <<>>
    /\ manager' = [manager EXCEPT ![r] = IF commits THEN CommitRow(t, a, m, f)
                                         ELSE AbortRow(t, a, m)]
    /\ IF commits /\ a.type = "WR" THEN Install(r, NewVersion(r, t))
       ELSE UNCHANGED installed
    /\ txn' = [txn EXCEPT ![t] = IF f = <<>> THEN Returned(@)
                                 ELSE [@ EXCEPT !.forward = f]]
    /\ UNCHANGED <<clock, cc, reads>>

\* The first adjustment of t is done; after the last the row is free again.
Adjusted(t) ==
  LET r == Last(txn[t].accesses).row
      x == [txn[t] EXCEPT !.forward = Tail(@), !.setting = FALSE]
      done == Len(txn[t].forward) = 1
  IN  /\ txn' = [txn EXCEPT ![t] = IF done THEN Returned(x) ELSE x]
      /\ manager' = IF done THEN [manager EXCEPT ![r].maat_avail = TRUE]
                    ELSE manager

\* get_lower or get_upper of the next transaction to adjust.
ForwardGet(t) ==
  LET e == Head(txn[t].forward)
      needed == IF e.bound = "lower" THEN T!get_lower(cc, e.who) <= e.limit
                ELSE T!get_upper(cc, e.who) >= e.limit
  IN
  /\ txn[t].forward # <<>> /\ ~ txn[t].setting
  /\ IF needed THEN /\ txn' = [txn EXCEPT ![t].setting = TRUE]
                    /\ UNCHANGED manager
     ELSE Adjusted(t)
  /\ UNCHANGED <<clock, cc, hist>>

\* set_lower or set_upper, whatever has happened to the range since.
ForwardSet(t) ==
  LET e == Head(txn[t].forward)
  IN
  /\ txn[t].setting
  /\ cc' = IF e.bound = "lower" THEN T!set_lower(cc, e.who, e.value)
           ELSE T!set_upper(cc, e.who, e.value)
  /\ Adjusted(t)
  /\ UNCHANGED <<clock, hist>>

\* The end of an attempt: the entry of the time table goes.
End(t) ==
  /\ EndAttempt(t, NoConflicts)
  /\ cc' = T!release(cc, t)

Step(t) ==
  \/ Start(t)
  \/ Access(t)
  \/ CopyRow(t)
  \/ Validate(t)
  \/ FindBound(t)
  \/ ReturnRow(t)
  \/ ForwardGet(t)
  \/ ForwardSet(t)
  \/ End(t)

Next == \E t \in Txn : CC_ALG = "MAAT" /\ Step(t) /\ UNCHANGED build
-----------------------------------------------------------------------------

\* The soft locks of a row are those of the transactions that have accessed it.
SoftLocksOwned ==
  CC_ALG = "MAAT" =>
    \A r \in Row : \A t \in Txn :
      LET at == txn[t].state = "storing" /\ Req(t).row = r
          going == txn[t].forward # <<>> /\ Last(txn[t].accesses).row = r
      IN  /\ t \in manager[r].uncommitted_reads <=>
               (r \in rset(t) /\ ~ going) \/ (at /\ Req(t).type = "RD")
          /\ t \in manager[r].uncommitted_writes <=>
               (r \in wset(t) /\ ~ going) \/ (at /\ Req(t).type = "WR")

\* assert(lower < upper) at the end of Maat::validate: moving the bounds away
\* from those that still run never empties the range.
RangeLeft ==
  CC_ALG = "MAAT" =>
    \A t \in Txn : txn[t].state = "running" /\ is_done(t) =>
      LET a == RangeOf(t)
      IN  a.lower < a.upper => LowerAbove(a) < UpperBelow(a, LowerAbove(a))

=============================================================================
