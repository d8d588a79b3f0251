----------------------------- MODULE TimeTable -----------------------------
(***************************************************************************)
(* The table of timestamp ranges of the MAAT, WOOKONG and DTA builds       *)
(* (TimeTable in maat.cpp, WkdbTimeTable in wkdb.cpp, DtaTimeTable in      *)
(* dta.cpp): a function from the transactions with an entry to its lower   *)
(* and upper bound and its state.                                          *)
(***************************************************************************)
EXTENDS Integers, Sequences, SequencesExt, TLC

CONSTANT UINT64_MAX

NoEntries == <<>>

\* init leaves an entry that exists as it is.
init(T, k, lower) ==
  T @@ (k :> [lower |-> lower, upper |-> UINT64_MAX, state |-> "RUNNING"])

release(T, k) == [u \in DOMAIN T \ {k} |-> T[u]]

\* What the getters return when there is no entry.
get_lower(T, k) == IF k \in DOMAIN T THEN T[k].lower ELSE 0
get_upper(T, k) == IF k \in DOMAIN T THEN T[k].upper ELSE UINT64_MAX
get_state(T, k) == IF k \in DOMAIN T THEN T[k].state ELSE "ABORTED"

\* The setters do nothing when there is no entry.
set_lower(T, k, v) ==
  IF k \in DOMAIN T THEN [T EXCEPT ![k].lower = v] ELSE T
set_upper(T, k, v) ==
  IF k \in DOMAIN T THEN [T EXCEPT ![k].upper = v] ELSE T
set_state(T, k, v) ==
  IF k \in DOMAIN T THEN [T EXCEPT ![k].state = v] ELSE T

\* VALIDATED or COMMITTED: the range is fixed.
Fixed(T, k) == get_state(T, k) \in {"VALIDATED", "COMMITTED"}
Running(T, k) == get_state(T, k) = "RUNNING"

\* n + 1 and n - 1 unless that leaves the range.
Above(n) == IF n < UINT64_MAX THEN n + 1 ELSE n
Below(n) == IF n > 0 THEN n - 1 ELSE n

\* A loop over the transactions of a std::set, which are visited in order.
Loop(op(_, _), S, base) == FoldLeft(op, base, SetToSortSeq(S, <))
=============================================================================
