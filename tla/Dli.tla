-------------------------------- MODULE Dli --------------------------------
(***************************************************************************)
(* The DLI builds that copy or version rows and validate against the list  *)
(* of validated transactions: concurrency_control/dli.cpp with             *)
(* row_dli_based.cpp (DLI_BASE, DLI_OCC) or row_si.cpp (DLI_MVCC,          *)
(* DLI_MVCC_OCC, DLI_DTA, DLI_DTA2, DLI_DTA3).  A validation takes no      *)
(* latch: it owns the rows it writes through w_trans, compares itself with *)
(* those in the list, and only then enters the list.                       *)
(*                                                                         *)
(* cc.validated is the list, newest first; cc.table the time table of the  *)
(* DTA builds.  On one node a transaction that has entered the list        *)
(* commits, so is_abort never changes.                                     *)
(***************************************************************************)
EXTENDS Execution

T == INSTANCE TimeTable

Eager == {"DLI_BASE", "DLI_MVCC"}         \* validate at every access too
Ranged == {"DLI_DTA", "DLI_DTA2", "DLI_DTA3"}
Copied == {"DLI_BASE", "DLI_OCC"}         \* one version, never overwritten

RowInit == [w_trans |-> 0, versions |-> <<>>, timestamp_last_write |-> 0]

\* Local to validate: the rows to own, whether this is the last validation,
\* the sets to enter the list with and the range; and the version that the
\* access in progress has got.
NoLocals == [left |-> <<>>, final |-> FALSE, sets |-> <<>>, lower |-> 0,
             upper |-> 0, version |-> 0]

DliInit ==
  \E alg \in Eager \cup Ranged \cup {"DLI_OCC", "DLI_MVCC_OCC"} :
    Init(alg, NoLocals, RowInit, [validated |-> <<>>, table |-> T!NoEntries])

ts(t) == txn[t].start_timestamp

\* process_rtxn.
Start(t) ==
  /\ txn[t].state = "queued"
  /\ get_next_ts
  /\ txn' = [txn EXCEPT ![t].state = "running", ![t].start_timestamp = clock]
  /\ cc' = IF CC_ALG \in Ranged THEN [cc EXCEPT !.table = T!init(@, t, clock)]
           ELSE cc
  /\ UNCHANGED <<manager, hist>>

-----------------------------------------------------------------------------
\* The version a reader gets: of a list, the first committed before it began.
VersionFor(r, n) ==
  LET older == SelectSeq(manager[r].versions, LAMBDA v : v.ts < n)
  IN  IF older = <<>> THEN Loaded ELSE Head(older)

\* The rows of the write set in the order of std::map.
Writing(t) == SetToSortSeq(wset(t), <)

\* x about to validate.
Validating(x, t, final) ==
  [x EXCEPT !.state = "validating", !.final = final, !.left = Writing(t),
            !.lower = T!get_lower(cc.table, t), !.upper = T!get_upper(cc.table, t)]

\* Row_dli_base::access and Row_si::access, and in the eager builds the start
\* of a validation, in which the new access does not count.
Access(t) ==
  LET r == Req(t).row
      v == VersionFor(r, ts(t))
      x == [txn[t] EXCEPT !.version = IF CC_ALG \in Copied /\ Req(t).type = "WR"
                                      THEN UINT64_MAX ELSE v.ts]
  IN
  /\ txn[t].state = "running" /\ ~ is_done(t)
  /\ txn' = [txn EXCEPT ![t] = IF CC_ALG \in Eager THEN Validating(x, t, FALSE)
                               ELSE GotRow(x, t, [version |-> x.version])]
  /\ reads' = [reads EXCEPT ![t] = ReadsOf(t, r, v)]
  /\ UNCHANGED <<clock, manager, cc, installed>>

\* start_commit.
Validate(t) ==
  /\ txn[t].state = "running" /\ is_done(t)
  /\ txn' = [txn EXCEPT ![t] = Validating(@, t, TRUE)]
  /\ UNCHANGED <<clock, manager, cc, hist>>

\* A validation that fails.
Fails(t) ==
  /\ txn' = [txn EXCEPT ![t].state = "aborting"]
  /\ cc' = [cc EXCEPT !.table = T!set_state(@, t, "ABORTED")]

\* The next row of the write set becomes t's unless it is another's.
OwnRow(t) ==
  LET r == Head(txn[t].left)
      free == manager[r].w_trans \in {0, ts(t)}
  IN
  /\ txn[t].state = "validating" /\ txn[t].left # <<>>
  /\ \/ /\ free
        /\ txn' = [txn EXCEPT ![t].left = Tail(@)]
        /\ manager' = [manager EXCEPT ![r].w_trans = ts(t)]
        /\ UNCHANGED cc
     \/ /\ ~ free
        /\ Fails(t)
        /\ UNCHANGED manager
  /\ UNCHANGED <<clock, hist>>

-----------------------------------------------------------------------------
\* The sets with the versions they were read in; a write has the last.
ReadVersions(t) ==
  [r \in rset(t) |->
     LET i == CHOOSE j \in DOMAIN txn[t].accesses : txn[t].accesses[j].row = r
     IN  txn[t].accesses[i].version]
WriteVersions(t) == [r \in wset(t) |-> UINT64_MAX]

\* dli_compare_set: is tl, or tc, newer in a row of both?
NewerTl(tc, tl) == \E r \in DOMAIN tc \cap DOMAIN tl : tl[r] > tc[r]
NewerTc(tc, tl) == \E r \in DOMAIN tc \cap DOMAIN tl : tl[r] < tc[r]
NewerOrSame(tc, tl) == \E r \in DOMAIN tc \cap DOMAIN tl : tl[r] <= tc[r]

\* The four comparisons of a = [r, w], the transaction, with b, one of the
\* list: which of the two is found newer.
ReadsRead(a, b)   == [tc |-> NewerTc(a.r, b.r), tl |-> NewerTl(a.r, b.r)]
WritesWrite(a, b) == [tc |-> NewerTc(a.w, b.w), tl |-> NewerTl(a.w, b.w)]
ReadsWrite(a, b)  == [tc |-> NewerOrSame(a.r, b.w), tl |-> NewerTl(a.r, b.w)]
WritesRead(a, b)  == [tc |-> NewerTl(b.r, a.w), tl |-> NewerOrSame(b.r, a.w)]

\* dli_has_conflict after the comparisons C: each is newer in something.
Conflict(C) == (\E c \in C : c.tc) /\ (\E c \in C : c.tl)

\* check_conflict, and dli_merge_set in the builds that follow paths.  a.ok
\* says that no conflict has been found so far.
Compared(a, b) ==
  LET all == {ReadsRead(a, b), WritesWrite(a, b), ReadsWrite(a, b),
              WritesRead(a, b)}
      rw  == {ReadsWrite(a, b), WritesRead(a, b)}
      cut == IF \E c \in rw : c.tc THEN [a EXCEPT !.lower = Max({@, b.upper})]
             ELSE IF \E c \in rw : c.tl THEN [a EXCEPT !.upper = Min({@, b.lower})]
             ELSE a
      next == IF CC_ALG \in Ranged THEN cut ELSE a
      seen == IF CC_ALG = "DLI_DTA3" THEN all \ {WritesWrite(a, b)} ELSE all
      bad  == Conflict(seen) \/ (CC_ALG \in Ranged /\ cut.lower >= cut.upper)
  IN  IF ~ a.ok THEN a
      ELSE IF bad THEN [next EXCEPT !.ok = FALSE]
      ELSE IF CC_ALG \in {"DLI_DTA2", "DLI_DTA3"} THEN next
      ELSE [next EXCEPT !.r = @ @@ b.r, !.w = @ @@ b.w]

\* The entries that the loop of validate_main visits: up to the first that
\* does not start after t.
Visited(t) ==
  LET stop == {i \in DOMAIN cc.validated : cc.validated[i].start_ts <= ts(t)}
  IN  IF stop = {} THEN cc.validated
      ELSE SubSeq(cc.validated, 1, Min(stop) - 1)

\* validate_main once the rows are owned; a reader compares nothing.
Check(t) ==
  LET x == txn[t]
      past == {manager[r].timestamp_last_write + 1 : r \in wset(t)}
      a == [r |-> ReadVersions(t), w |-> WriteVersions(t), ok |-> TRUE,
            lower |-> Max({x.lower} \cup past), upper |-> x.upper]
      b == IF wset(t) = {} THEN a ELSE FoldLeft(Compared, a, Visited(t))
      ok == b.ok /\ (CC_ALG \in Ranged => b.lower < b.upper)
  IN
  /\ x.state = "validating" /\ x.left = <<>>
  /\ \/ ~ ok /\ Fails(t)
     \/ /\ ok /\ x.final
        /\ txn' = [txn EXCEPT ![t].state = "validated", ![t].sets = b]
        /\ UNCHANGED cc
     \/ /\ ok /\ ~ x.final
        /\ txn' = [txn EXCEPT ![t] = GotRow(@, t, [version |-> x.version])]
        /\ UNCHANGED cc
  /\ UNCHANGED <<clock, manager, hist>>

\* push_front: t enters the list, and the range is settled.
PushFront(t) ==
  LET s == txn[t].sets
      entry == [r |-> s.r, w |-> s.w, start_ts |-> ts(t), lower |-> s.lower,
                upper |-> s.upper]
  IN
  /\ txn[t].state = "validated"
  /\ txn' = [txn EXCEPT ![t].state = "finishing"]
  /\ cc' = [cc EXCEPT
       !.validated = <<entry>> \o @,
       !.table = IF CC_ALG \in Ranged
                 THEN [@ EXCEPT ![t] = [lower |-> s.lower, upper |-> s.upper,
                                        state |-> "VALIDATED"]] ELSE @]
  /\ UNCHANGED <<clock, manager, hist>>

\* The commit timestamp: Dli::find_bound or a new one.
FinishTs(t) ==
  /\ txn[t].state = "finishing"
  /\ \/ /\ CC_ALG \in Ranged
        /\ txn' = [txn EXCEPT ![t].state = "committing",
                              ![t].commit_timestamp = cc.table[t].lower]
        /\ cc' = [cc EXCEPT !.table = T!set_state(@, t, "COMMITTED")]
        /\ UNCHANGED clock
     \/ /\ CC_ALG \notin Ranged
        /\ txn' = [txn EXCEPT ![t].state = "committing",
                              ![t].commit_timestamp = clock]
        /\ get_next_ts
        /\ UNCHANGED cc
  /\ UNCHANGED <<manager, hist>>

-----------------------------------------------------------------------------
\* Row_dli_base::write gives the row back and drops the data.
dli_base_write(t, m) == [m EXCEPT !.w_trans = IF @ = ts(t) THEN 0 ELSE @]

\* Row_si::write of a commit adds version v too.
si_write(t, m, v) ==
  [dli_base_write(t, m) EXCEPT !.versions = <<v>> \o @,
                               !.timestamp_last_write = v.ts]

\* cleanup_row and return_row.
ReturnRow(t) ==
  \E a \in ToSet(txn[t].accesses) :
    LET r == a.row
        v == [ts |-> txn[t].commit_timestamp, txn |-> t]
        m == dli_base_write(t, manager[r])
        adds == /\ a.type = "WR" /\ txn[t].state = "committing"
                /\ CC_ALG \notin Copied
        returns == a.type = "WR" \/ CC_ALG \in Copied
    IN
    /\ Returns(t, a)
    /\ txn' = [txn EXCEPT ![t] = Returned(@)]
    /\ \/ /\ adds
          /\ manager' = [manager EXCEPT ![r] = si_write(t, @, v)]
          /\ Install(r, v)
       \/ /\ ~ adds
          /\ manager' = IF returns THEN [manager EXCEPT ![r] = m] ELSE manager
          /\ UNCHANGED installed
    /\ UNCHANGED <<clock, cc, reads>>

\* The end of an attempt; only an abort releases the entry of the time table.
End(t) ==
  /\ EndAttempt(t, NoLocals)
  /\ cc' = IF txn[t].state = "aborting"
           THEN [cc EXCEPT !.table = T!release(@, t)] ELSE cc

Step(t) ==
  \/ Start(t)
  \/ Access(t)
  \/ Validate(t)
  \/ OwnRow(t)
  \/ Check(t)
  \/ PushFront(t)
  \/ FinishTs(t)
  \/ ReturnRow(t)
  \/ End(t)

Next ==
  \E t \in Txn :
    /\ CC_ALG \in Eager \cup Ranged \cup {"DLI_OCC", "DLI_MVCC_OCC"}
    /\ Step(t) /\ UNCHANGED build
-----------------------------------------------------------------------------

\* The rows a transaction is to write stay its own from the moment it has
\* validated to the moment it returns them, and no row is left owned.
WriterKept ==
  CC_ALG \in Eager \cup Ranged \cup {"DLI_OCC", "DLI_MVCC_OCC"} =>
    /\ \A t \in Txn :
         txn[t].state \in {"validated", "finishing", "committing"} =>
           \A r \in wset(t) : manager[r].w_trans = ts(t)
    /\ \A r \in Row : manager[r].w_trans # 0 =>
         \E t \in Txn : manager[r].w_trans = ts(t) /\ r \in wset(t)

\* The list of a row is ordered by commit timestamp, so that the first old
\* enough is the newest that is.
VersionsOrdered ==
  CC_ALG \in Eager \cup Ranged \cup {"DLI_OCC", "DLI_MVCC_OCC"} =>
    \A r \in Row : \A i, j \in DOMAIN manager[r].versions :
      i < j => manager[r].versions[i].ts > manager[r].versions[j].ts
=============================================================================
