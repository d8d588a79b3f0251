-------------------------- MODULE TwoPLInvariant ---------------------------
(***************************************************************************)
(* The inductive invariant of TwoPL, the facts about sequences, orders and *)
(* frames that its proof rests on, the actions that touch no lock, and     *)
(* lock_get: a request is granted, is resumed once granted, or is queued among*)
(* the waiters.                                                            *)
(***************************************************************************)
EXTENDS TwoPL, SequenceTheorems, FiniteSetTheorems, WellFoundedInduction,
        TLAPS

\* The accesses of a transaction are requests it has passed, one per row.
AccessInv ==
  \A t \in Txn :
    /\ next_record_id[t] \in 1..(Len(prog[t]) + 1)
    /\ \A a \in accesses[t] : \E i \in 1..(next_record_id[t] - 1) :
         prog[t][i].row = a.row /\ prog[t][i].type = a.type
    /\ \A a, b \in accesses[t] : a.row = b.row => a = b
    /\ state[t] \in {"queued", "done"} => accesses[t] = {}

\* An entry of a waiters list is the request its transaction waits for.
WaiterInv ==
  \A r \in Row : \A i \in 1..Len(waiters[r]) :
    LET w == waiters[r][i].txn
    IN  /\ state[w] = "waiting" /\ restarts[w] = 0
        /\ Req(w).row = r /\ Req(w).type = waiters[r][i].type

\* Nobody waits twice for a row.
DistinctInv ==
  \A r \in Row : \A i, j \in 1..Len(waiters[r]) :
    waiters[r][i].txn = waiters[r][j].txn => i = j

\* A waiting transaction is in a list with lock_ready_cnt 1, or has been
\* promoted and has one RTXN_CONT to come; no other one counts anything.
CounterInv ==
  \A t \in Txn :
    /\ state[t] # "waiting" => restarts[t] = 0 /\ lock_ready_cnt[t] = 0
    /\ state[t] = "waiting" =>
         /\ ~ is_done(t)
         /\ \/ restarts[t] = 0 /\ lock_ready_cnt[t] = 1 /\ ~ lock_ready[t]
               /\ Waits(t, Req(t).row)
            \/ restarts[t] = 1 /\ lock_ready_cnt[t] = 0

WaitInv == WaiterInv /\ DistinctInv /\ CounterInv

\* The owner lists are the holders (WAIT_DIE) or empty (NO_WAIT).
OwnerInv ==
  \A r \in Row :
    /\ CC_ALG = "NO_WAIT" => owners[r] = {} /\ waiters[r] = <<>>
    /\ CC_ALG = "WAIT_DIE" =>
         \A t \in Txn : \A m \in Mode :
           [txn |-> t, type |-> m] \in owners[r] <=> Holds(t, r, m)

\* lock_type is the mode of every holder, and a writer is alone.
ModeInv ==
  \A r \in Row :
    /\ \A t \in Txn : \A m \in Mode : Holds(t, r, m) => lock_type[r] = m
    /\ lock_type[r] = "LOCK_EX" =>
         \A t, u \in Holders(r) : t = u
    /\ Holders(r) = {} => lock_type[r] = "LOCK_NONE"

\* A writer's row has its value, and the image to roll back to is the
\* committed one.
ImageInv ==
  \A r \in Row :
    /\ \A t \in Txn : \A a \in accesses[t] :
         a.row = r /\ a.type = "LOCK_EX" =>
           a.orig_data = committed[r] /\ data[r] = t
    /\ (\A t \in Txn : \A a \in accesses[t] :
          ~ (a.row = r /\ a.type = "LOCK_EX")) => data[r] = committed[r]

IInv == /\ TypeOK /\ AccessInv /\ WaitInv /\ OwnerInv /\ ModeInv
        /\ OwnerCount /\ HeadBlocked /\ WaitDieOrder /\ ImageInv

-----------------------------------------------------------------------------
(***************************************************************************)
(* Sequences.                                                              *)
(***************************************************************************)

\* LIST_INSERT_BEFORE and LIST_PUT_TAIL: the list one longer, with e at p.
LEMMA InsertAtProps ==
  ASSUME NEW S, NEW s \in Seq(S), NEW e \in S, NEW p \in 1..(Len(s) + 1)
  PROVE  /\ InsertAt(s, p, e) \in Seq(S)
         /\ Len(InsertAt(s, p, e)) = Len(s) + 1
         /\ \A i \in 1..(Len(s) + 1) :
              InsertAt(s, p, e)[i] =
                IF i < p THEN s[i] ELSE IF i = p THEN e ELSE s[i - 1]
<1>1. Len(s) \in Nat /\ \A i \in 1..Len(s) : s[i] \in S
  BY Zenon, LenProperties
<1>2. InsertAt(s, p, e) \in [1..(Len(s) + 1) -> S]
  BY <1>1 DEF InsertAt
<1>3. InsertAt(s, p, e) \in Seq(S)
  BY <1>1, <1>2, SeqDef
<1>4. Len(InsertAt(s, p, e)) = Len(s) + 1
  BY <1>1, <1>2, <1>3, LenProperties
<1> QED  BY Zenon, <1>1, <1>3, <1>4 DEF InsertAt

\* What lock_release leaves of the list when it promotes the first k.
LEMMA RestProps ==
  ASSUME NEW S, NEW s \in Seq(S), NEW k \in 0..Len(s)
  PROVE  /\ SubSeq(s, k + 1, Len(s)) \in Seq(S)
         /\ Len(SubSeq(s, k + 1, Len(s))) = Len(s) - k
         /\ \A i \in 1..(Len(s) - k) :
              SubSeq(s, k + 1, Len(s))[i] = s[k + i]
<1>1. Len(s) \in Nat /\ \A i \in 1..Len(s) : s[i] \in S
  BY Zenon, LenProperties
<1>2. \A i \in (k + 1)..Len(s) : s[i] \in S
  BY <1>1
<1> QED  BY <1>1, <1>2, SubSeqProperties

-----------------------------------------------------------------------------
(***************************************************************************)
(* Deadlock freedom from the order of waiters and owners.                  *)
(***************************************************************************)

\* A nonempty set of transactions has an oldest one.
LEMMA OldestExists ==
  ASSUME NEW S \in SUBSET Txn, S # {}
  PROVE  \E t \in S : \A u \in S : ~ (u < t)
<1>1. S \subseteq Nat
  BY Zenon, TxnAssumption
<1> DEFINE R == OpToRel(<, Nat)
<1>2. IsWellFoundedOn(R, Nat)
  BY NatLessThanWellFounded, ZenonT(30)
<1>3. \A x, y \in Nat : x < y => <<x, y>> \in R
  BY Zenon DEF OpToRel
<1> HIDE DEF R
<1>4. \E t \in S : \A u \in S : ~ (<<u, t>> \in R)
  BY <1>1, <1>2, WFMin, ZenonT(30)
<1> QED  BY <1>1, <1>3, <1>4, ZenonT(30)

\* Every wait goes from an older to a younger transaction.
LEMMA WaitsForYounger ==
  ASSUME TypeOK, WaitDieOrder, NEW t \in Txn, NEW u \in Txn, WaitsFor(t, u)
  PROVE  t < u
<1>0. PICK r \in Row : \E i \in 1..Len(waiters[r]) :
        /\ waiters[r][i].txn = t
        /\ \/ \E o \in owners[r] : o.txn = u
           \/ \E j \in 1..(i - 1) : waiters[r][j].txn = u
  BY Zenon DEF WaitsFor
<1>1. PICK i \in 1..Len(waiters[r]) :
        /\ waiters[r][i].txn = t
        /\ \/ \E o \in owners[r] : o.txn = u
           \/ \E j \in 1..(i - 1) : waiters[r][j].txn = u
  BY Zenon, <1>0
<1>2. Len(waiters[r]) \in Nat
  BY Zenon, LenProperties DEF TypeOK, LockTypeOK
<1>3. CASE \E o \in owners[r] : o.txn = u
  BY Zenon, <1>1, <1>3 DEF WaitDieOrder
<1>4. CASE \E j \in 1..(i - 1) : waiters[r][j].txn = u
  <2>1. PICK j \in 1..(i - 1) : waiters[r][j].txn = u
    BY Zenon, <1>4
  <2>2. j \in 1..Len(waiters[r]) /\ j < i
    BY <1>2
  <2> QED  BY Zenon, <1>1, <2>1, <2>2 DEF WaitDieOrder
<1> QED  BY Zenon, <1>1, <1>3, <1>4

LEMMA OrderNoDeadlock == TypeOK /\ WaitDieOrder => NoDeadlock
<1> SUFFICES ASSUME TypeOK, WaitDieOrder, NEW S \in (SUBSET Txn) \ {{}}
             PROVE  \E t \in S : \A u \in S : ~ WaitsFor(u, t)
  BY Zenon DEF NoDeadlock
<1>1. PICK t \in S : \A u \in S : ~ (u < t)
  BY Zenon, OldestExists
<1> QED  BY Zenon, <1>1, WaitsForYounger

-----------------------------------------------------------------------------
(***************************************************************************)
(* The inductive invariant holds initially.                                *)
(***************************************************************************)

LEMMA InvInit == Init => IInv
<1> SUFFICES ASSUME Init PROVE IInv
  BY Zenon
<1> USE DEF Init, LockInit
<1>1. TypeOK
  BY DEF TypeOK, LockTypeOK, LockType, TxnState, Writer
<1>2. AccessInv
  <2>1. \A t \in Txn : Len(prog[t]) \in Nat
    BY Zenon, ProgramsAssumption, LenProperties
  <2> QED  BY <2>1 DEF AccessInv
<1>3. \A r \in Row : Len(waiters[r]) = 0
  BY Zenon
<1>4. WaitInv
  BY <1>3 DEF WaitInv, WaiterInv, DistinctInv, CounterInv
<1>5. \A t \in Txn, r \in Row, m \in Mode : ~ Holds(t, r, m)
  BY Zenon DEF Holds
<1>6. \A r \in Row : Holders(r) = {}
  BY Zenon, <1>5 DEF Holders
<1>7. OwnerInv /\ ModeInv
  BY Zenon, <1>5, <1>6 DEF OwnerInv, ModeInv
<1>8. OwnerCount
  BY <1>6, FS_EmptySet, ZenonT(30) DEF OwnerCount
<1>9. HeadBlocked /\ WaitDieOrder
  BY <1>3 DEF HeadBlocked, WaitDieOrder
<1>10. ImageInv
  BY Zenon DEF ImageInv
<1> QED  BY ZenonT(30), <1>1, <1>2, <1>4, <1>7, <1>8, <1>9, <1>10 DEF IInv

-----------------------------------------------------------------------------
(***************************************************************************)
(* What the actions have in common.                                        *)
(***************************************************************************)

\* The request of a transaction that is not done.
LEMMA ReqType ==
  ASSUME IInv, NEW t \in Txn, ~ is_done(t)
  PROVE  /\ next_record_id[t] \in 1..Len(prog[t])
         /\ Req(t) \in Request /\ Req(t).row \in Row /\ Req(t).type \in Mode
<1>1. prog[t] \in Seq(Request) /\ Len(prog[t]) \in Nat
  BY Zenon, ProgramsAssumption, LenProperties DEF IInv, TypeOK
<1>2. next_record_id[t] \in 1..Len(prog[t])
  BY <1>1 DEF IInv, AccessInv, is_done
<1>3. Req(t) \in Request
  BY Zenon, <1>1, <1>2, ElementOfSeq DEF Req
<1> QED  BY Zenon, <1>2, <1>3 DEF Request

\* A transaction that is not done has not accessed the row it is at.
LEMMA ReqNotAccessed ==
  ASSUME IInv, NEW t \in Txn, ~ is_done(t)
  PROVE  \A a \in accesses[t] : a.row # Req(t).row
<1>1. prog[t] \in Programs /\ Len(prog[t]) \in Nat
  BY Zenon, ProgramsAssumption, LenProperties DEF IInv, TypeOK
<1>2. next_record_id[t] \in 1..Len(prog[t])
  BY Zenon, ReqType
<1> SUFFICES ASSUME NEW a \in accesses[t], a.row = Req(t).row PROVE FALSE
  BY Zenon
<1>3. PICK i \in 1..(next_record_id[t] - 1) : prog[t][i].row = a.row
  BY ZenonT(30) DEF IInv, AccessInv
<1>4. i \in 1..Len(prog[t]) /\ i # next_record_id[t]
  BY <1>1, <1>2
<1> QED  BY Zenon, <1>1, <1>2, <1>3, <1>4, ProgramsAssumption DEF Req

LEMMA WaiterType ==
  ASSUME TypeOK
  PROVE  \A r \in Row :
           /\ waiters[r] \in Seq(LockEntry) /\ Len(waiters[r]) \in Nat
           /\ \A i \in 1..Len(waiters[r]) :
                /\ waiters[r][i] \in LockEntry
                /\ waiters[r][i].txn \in Txn /\ waiters[r][i].type \in Mode
<1> SUFFICES ASSUME NEW r \in Row
             PROVE  /\ waiters[r] \in Seq(LockEntry) /\ Len(waiters[r]) \in Nat
                    /\ \A i \in 1..Len(waiters[r]) :
                         /\ waiters[r][i] \in LockEntry
                         /\ waiters[r][i].txn \in Txn
                         /\ waiters[r][i].type \in Mode
  BY Zenon
<1>1. waiters[r] \in Seq(LockEntry)
  BY Zenon DEF TypeOK, LockTypeOK
<1>2. Len(waiters[r]) \in Nat /\ \A i \in 1..Len(waiters[r]) :
        waiters[r][i] \in LockEntry
  BY Zenon, <1>1, LenProperties
<1> QED  BY Zenon, <1>1, <1>2 DEF LockEntry

\* The waiters of a row still wait for what they asked: their requests do not
\* change while they wait.
LEMMA WaitersNext ==
  ASSUME \A r \in Row : \A i \in 1..Len(waiters'[r]) :
           LET w == waiters'[r][i].txn
           IN  /\ w \in Txn /\ state'[w] = "waiting" /\ restarts'[w] = 0
               /\ Req(w).row = r /\ Req(w).type = waiters'[r][i].type,
         \A u \in Txn : state'[u] = "waiting" => Req(u)' = Req(u)
  PROVE  WaiterInv'
<1>1. ASSUME NEW r \in Row, NEW i \in 1..Len(waiters'[r])
      PROVE  LET w == waiters'[r][i].txn
                 q == prog'[w][next_record_id'[w]]
             IN  /\ state'[w] = "waiting" /\ restarts'[w] = 0
                 /\ q.row = r /\ q.type = waiters'[r][i].type
  <2>1. PICK u \in Txn : u = waiters'[r][i].txn
    BY Zenon
  <2>2. /\ state'[u] = "waiting" /\ restarts'[u] = 0
        /\ Req(u).row = r /\ Req(u).type = waiters'[r][i].type
    BY ZenonT(30), <2>1
  <2>3. prog'[u][next_record_id'[u]] = Req(u)
    BY Zenon, <2>2 DEF Req
  <2> QED  BY <2>1, <2>2, <2>3
<1> QED  BY <1>1, ZenonT(30) DEF WaiterInv, Req

\* Steps that change neither the locks nor who holds what.
LEMMA LocksFrame ==
  ASSUME IInv, UNCHANGED <<CC_ALG, rowLockVars>>,
         \A u \in Txn, r \in Row, m \in Mode :
           Holds(u, r, m)' <=> Holds(u, r, m)
  PROVE  /\ OwnerInv' /\ ModeInv' /\ OwnerCount' /\ HeadBlocked'
         /\ WaitDieOrder'
<1> USE DEF IInv, rowLockVars
<1>1. \A r \in Row : Holders(r)' = Holders(r)
  BY Zenon DEF Holders
<1>2. OwnerInv'
  BY Zenon DEF OwnerInv
<1>3. ModeInv'
  BY ZenonT(30), <1>1 DEF ModeInv
<1>4. OwnerCount'
  BY Zenon, <1>1 DEF OwnerCount
<1>5. HeadBlocked' /\ WaitDieOrder'
  BY Zenon DEF HeadBlocked, WaitDieOrder
<1> QED  BY Zenon, <1>2, <1>3, <1>4, <1>5

\* Steps of t that leave its request, its accesses and the data alone, and
\* neither start nor end a wait.
LEMMA StateFrame ==
  ASSUME IInv, NEW t \in Txn, NEW s \in TxnState \ {"waiting"},
         state[t] # "waiting",
         state' = [state EXCEPT ![t] = s],
         s \in {"queued", "done"} => accesses[t] = {},
         txn_ready' \in [Txn -> BOOLEAN],
         UNCHANGED <<lockVars, prog, next_record_id, accesses, data,
                     committed>>
  PROVE  IInv'
<1> USE DEF lockVars, readyVars, rowLockVars
<1>1. TypeOK'
  BY ZenonT(30) DEF IInv, TypeOK, LockTypeOK
<1>2. \A u \in Txn : /\ state'[u] = "waiting" <=> state[u] = "waiting"
                     /\ Req(u)' = Req(u) /\ (is_done(u)' <=> is_done(u))
  BY Zenon DEF IInv, TypeOK, Req, is_done
<1>3. \A u \in Txn, r \in Row, m \in Mode :
        Holds(u, r, m)' <=> Holds(u, r, m)
  BY ZenonT(30), <1>2 DEF Holds
<1>4. AccessInv'
  <2>1. \A u \in Txn : state'[u] \in {"queued", "done"} => accesses[u] = {}
    BY ZenonT(30) DEF IInv, AccessInv, TypeOK
  <2> QED  BY <2>1 DEF IInv, AccessInv
<1>5. WaitInv'
  <2>1. \A r \in Row : \A i \in 1..Len(waiters[r]) : waiters[r][i].txn \in Txn
    BY Zenon, WaiterType DEF IInv
  <2>0. /\ WaiterInv /\ DistinctInv /\ CounterInv
        /\ waiters' = waiters /\ restarts' = restarts
        /\ lock_ready_cnt' = lock_ready_cnt /\ lock_ready' = lock_ready
    BY DEF IInv, WaitInv
  <2>2. WaiterInv'
    BY <1>2, <2>0, <2>1 DEF WaiterInv
  <2>3. DistinctInv'
    BY Zenon, <2>0 DEF DistinctInv
  <2>4. CounterInv'
    BY <1>2, <2>0 DEF CounterInv, Waits
  <2> QED  BY Zenon, <2>2, <2>3, <2>4 DEF WaitInv
<1>6. ImageInv'
  BY DEF IInv, ImageInv
<1> QED  BY ZenonT(30), <1>1, <1>3, <1>4, <1>5, <1>6, LocksFrame DEF IInv

-----------------------------------------------------------------------------
(***************************************************************************)
(* The inductive step, action by action.                                   *)
(***************************************************************************)

LEMMA StartInv == ASSUME IInv, NEW t \in Txn, Start(t) PROVE IInv'
<1>1. txn_ready' \in [Txn -> BOOLEAN]
  BY DEF IInv, TypeOK, Start
<1> QED  BY <1>1, StateFrame, ZenonT(30) DEF Start, TxnState

LEMMA GetRowAbortInv == ASSUME IInv, NEW t \in Txn, GetRowAbort(t) PROVE IInv'
<1>1. txn_ready' \in [Txn -> BOOLEAN]
  BY DEF IInv, TypeOK, GetRowAbort
<1> QED  BY <1>1, StateFrame, ZenonT(30) DEF GetRowAbort, TxnState

LEMMA CommitInv == ASSUME IInv, NEW t \in Txn, Commit(t) PROVE IInv'
<1>1. txn_ready' \in [Txn -> BOOLEAN]
  BY DEF IInv, TypeOK, Commit
<1> QED  BY <1>1, StateFrame, ZenonT(30) DEF Commit, TxnState

LEMMA FinishInv == ASSUME IInv, NEW t \in Txn, Finish(t) PROVE IInv'
<1>1. txn_ready' \in [Txn -> BOOLEAN]
  BY DEF IInv, TypeOK, Finish
<1> QED  BY <1>1, StateFrame, ZenonT(30) DEF Finish, TxnState

\* set_ready changes nothing the invariant mentions but the type.
LEMMA YieldInv == ASSUME IInv, NEW t \in Txn, Yield(t) PROVE IInv'
<1> USE DEF Yield, lockVars, rowLockVars, readyVars
<1>1. TypeOK'
  BY Zenon DEF IInv, TypeOK, LockTypeOK
<1>2. \A u \in Txn, r \in Row, m \in Mode :
        Holds(u, r, m)' <=> Holds(u, r, m)
  BY ZenonT(30) DEF Holds, Req
<1>3. AccessInv' /\ ImageInv'
  BY SMTT(30) DEF IInv, AccessInv, ImageInv
<1>4. WaitInv'
  <2>1. \A u \in Txn : /\ Req(u)' = Req(u) /\ (is_done(u)' <=> is_done(u))
                       /\ \A r \in Row : Waits(u, r)' <=> Waits(u, r)
    BY Zenon DEF Req, is_done, Waits
  <2>2. \A r \in Row : \A i \in 1..Len(waiters[r]) : waiters[r][i].txn \in Txn
    BY Zenon, WaiterType DEF IInv
  <2>3. \A u \in Txn : ~ is_done(u) => Req(u).row \in Row
    BY ReqType
  <2> QED  BY <2>1, <2>2, <2>3, SMTT(30)
              DEF IInv, WaitInv, WaiterInv, DistinctInv, CounterInv
<1> QED  BY ZenonT(30), <1>1, <1>2, <1>3, <1>4, LocksFrame DEF IInv

\* reset: the counters of the lock waits are zero already.
LEMMA AbortInv == ASSUME IInv, NEW t \in Txn, Abort(t) PROVE IInv'
<1> USE DEF Abort, rowLockVars
<1>1. TypeOK'
  BY DEF IInv, TypeOK, LockTypeOK, TxnState
<1>2. \A u \in Txn : /\ state'[u] = "waiting" <=> state[u] = "waiting"
                     /\ u # t => /\ Req(u)' = Req(u)
                                 /\ is_done(u)' <=> is_done(u)
  BY Zenon DEF IInv, TypeOK, Req, is_done
<1>3. \A u \in Txn, r \in Row, m \in Mode :
        Holds(u, r, m)' <=> Holds(u, r, m)
  BY ZenonT(30), <1>2 DEF Holds
<1>4. AccessInv'
  <2>1. \A u \in Txn : Len(prog[u]) \in Nat
    BY Zenon, ProgramsAssumption, LenProperties DEF IInv, TypeOK
  <2>2. \A u \in Txn : u # t => next_record_id'[u] = next_record_id[u]
                                /\ state'[u] = state[u]
    BY Zenon DEF IInv, TypeOK
  <2>3. next_record_id'[t] = 1 /\ accesses[t] = {}
    BY Zenon DEF IInv, TypeOK
  <2> QED  BY <2>1, <2>2, <2>3 DEF IInv, AccessInv
<1>5. WaitInv'
  <2>1. \A r \in Row : \A i \in 1..Len(waiters[r]) :
          waiters[r][i].txn \in Txn /\ waiters[r][i].txn # t
    BY WaiterType DEF IInv, WaitInv, WaiterInv
  <2>2. \A u \in Txn : u # t => /\ lock_ready'[u] = lock_ready[u]
                                /\ lock_ready_cnt'[u] = lock_ready_cnt[u]
    BY Zenon DEF IInv, TypeOK, LockTypeOK
  <2>3. lock_ready_cnt'[t] = 0 /\ state'[t] # "waiting"
    BY Zenon DEF IInv, TypeOK, LockTypeOK
  <2>4. \A r \in Row : \A i \in 1..Len(waiters[r]) :
          LET w == waiters[r][i].txn
          IN  /\ state'[w] = "waiting" /\ restarts[w] = 0
              /\ Req(w)'.row = r /\ Req(w)'.type = waiters[r][i].type
    BY <1>2, <2>1 DEF IInv, WaitInv, WaiterInv
  <2>5. \A u \in Txn :
       /\ state'[u] # "waiting" => restarts[u] = 0 /\ lock_ready_cnt'[u] = 0
       /\ state'[u] = "waiting" =>
            /\ ~ is_done(u)'
            /\ \/ restarts[u] = 0 /\ lock_ready_cnt'[u] = 1 /\ ~ lock_ready'[u]
                  /\ Waits(u, Req(u).row)'
               \/ restarts[u] = 1 /\ lock_ready_cnt'[u] = 0
    BY <1>2, <2>2, <2>3 DEF IInv, WaitInv, CounterInv, Waits
  <2>6. waiters' = waiters /\ restarts' = restarts
    BY Zenon
  <2>7. WaiterInv'
    BY <2>4, <2>6 DEF WaiterInv
  <2>8. DistinctInv'
    BY Zenon, <2>6 DEF IInv, WaitInv, DistinctInv
  <2>9. CounterInv'
    BY <2>5, <2>6 DEF CounterInv
  <2> QED  BY <2>7, <2>8, <2>9, Zenon DEF WaitInv
<1>6. ImageInv'
  BY DEF IInv, ImageInv
<1> QED  BY <1>1, <1>3, <1>4, <1>5, <1>6, LocksFrame, Zenon DEF IInv

-----------------------------------------------------------------------------
(***************************************************************************)
(* lock_get returns RCOK.                                                  *)
(***************************************************************************)

\* What recording an access does to the accesses of the transactions.
LEMMA RecordAccessProps ==
  ASSUME IInv, NEW t \in Txn, ~ is_done(t), RecordAccess(t), UNCHANGED prog
  PROVE  LET new == [row |-> Req(t).row, type |-> Req(t).type,
                     orig_data |-> data[Req(t).row]]
         IN  /\ new \in Access
             /\ accesses'[t] = accesses[t] \cup {new}
             /\ \A u \in Txn \ {t} : /\ accesses'[u] = accesses[u]
                                     /\ next_record_id'[u] = next_record_id[u]
                                     /\ Req(u)' = Req(u)
                                     /\ is_done(u)' <=> is_done(u)
             /\ next_record_id'[t] = next_record_id[t] + 1
             /\ next_record_id' \in [Txn -> Nat \ {0}]
             /\ accesses' \in [Txn -> SUBSET Access]
             /\ data' \in [Row -> Writer]
<1> DEFINE new == [row |-> Req(t).row, type |-> Req(t).type,
                   orig_data |-> data[Req(t).row]]
<1>1. new \in Access
  BY ReqType, Zenon DEF IInv, TypeOK, Access
<1>2. accesses' = [accesses EXCEPT ![t] = @ \cup {new}]
  BY Zenon DEF RecordAccess
<1>3. /\ Req(t).row \in Row /\ next_record_id[t] \in Nat
      /\ next_record_id \in [Txn -> Nat \ {0}] /\ data \in [Row -> Writer]
      /\ accesses \in [Txn -> SUBSET Access]
  BY ReqType, Zenon DEF IInv, TypeOK
<1> HIDE DEF new
<1>4. /\ next_record_id' \in [Txn -> Nat \ {0}]
      /\ next_record_id'[t] = next_record_id[t] + 1
      /\ \A u \in Txn \ {t} : next_record_id'[u] = next_record_id[u]
  BY <1>3 DEF RecordAccess
<1>5. data' \in [Row -> Writer]
  BY Zenon, <1>3 DEF RecordAccess, Writer
<1>6. /\ accesses' \in [Txn -> SUBSET Access]
      /\ accesses'[t] = accesses[t] \cup {new}
      /\ \A u \in Txn \ {t} : accesses'[u] = accesses[u]
  BY Zenon, <1>1, <1>2, <1>3
<1>7. \A u \in Txn \ {t} : Req(u)' = Req(u) /\ (is_done(u)' <=> is_done(u))
  BY Zenon, <1>4 DEF Req, is_done
<1> QED  BY ZenonT(30), <1>1, <1>4, <1>5, <1>6, <1>7 DEF new

\* The accesses are still one per row, of requests passed.
LEMMA RecordAccessInv ==
  ASSUME IInv, NEW t \in Txn, ~ is_done(t), RecordAccess(t), UNCHANGED prog,
         \A u \in Txn \ {t} : state'[u] = state[u], state'[t] = "running"
  PROVE  AccessInv'
<1> DEFINE new == [row |-> Req(t).row, type |-> Req(t).type,
                   orig_data |-> data[Req(t).row]]
<1>1. /\ new.row = Req(t).row /\ new.type = Req(t).type
      /\ accesses'[t] = accesses[t] \cup {new}
      /\ next_record_id'[t] = next_record_id[t] + 1
      /\ \A u \in Txn \ {t} : /\ accesses'[u] = accesses[u]
                              /\ next_record_id'[u] = next_record_id[u]
  BY RecordAccessProps, ZenonT(30)
<1>2. next_record_id[t] \in 1..Len(prog[t]) /\ Len(prog[t]) \in Nat
  BY ZenonT(30), ReqType, ProgramsAssumption, LenProperties DEF IInv, TypeOK
<1> HIDE DEF new
<1>3. ASSUME NEW u \in Txn \ {t}
      PROVE  /\ next_record_id'[u] \in 1..(Len(prog[u]) + 1)
             /\ \A a \in accesses'[u] : \E i \in 1..(next_record_id'[u] - 1) :
                  prog[u][i].row = a.row /\ prog[u][i].type = a.type
             /\ \A a, b \in accesses'[u] : a.row = b.row => a = b
             /\ state'[u] \in {"queued", "done"} => accesses'[u] = {}
  BY <1>1 DEF IInv, AccessInv
<1>4. next_record_id'[t] \in 1..(Len(prog[t]) + 1)
  BY <1>1, <1>2
<1>5. ASSUME NEW a \in accesses'[t]
      PROVE  \E i \in 1..(next_record_id'[t] - 1) :
               prog[t][i].row = a.row /\ prog[t][i].type = a.type
  <2>1. CASE a = new
    <3>1. next_record_id[t] \in 1..(next_record_id'[t] - 1)
      BY <1>1, <1>2
    <3> QED  BY Zenon, <1>1, <2>1, <3>1 DEF Req
  <2>2. CASE a \in accesses[t]
    <3>1. PICK i \in 1..(next_record_id[t] - 1) :
            prog[t][i].row = a.row /\ prog[t][i].type = a.type
      BY <2>2, Zenon DEF IInv, AccessInv
    <3>2. i \in 1..(next_record_id'[t] - 1)
      BY <1>1, <1>2, SMTT(30)
    <3> QED  BY <3>1, <3>2
  <2> QED  BY <1>1, <2>1, <2>2, Zenon
<1>6. \A a, b \in accesses'[t] : a.row = b.row => a = b
  BY <1>1, ReqNotAccessed DEF IInv, AccessInv
<1> QED  BY <1>3, <1>4, <1>5, <1>6, SMTT(30) DEF AccessInv

\* Holders are transactions, so they can be counted.
LEMMA HoldersFinite ==
  ASSUME NEW r
  PROVE  IsFiniteSet(Holders(r)) /\ Cardinality(Holders(r)) \in Nat
<1>1. Holders(r) \in SUBSET Txn
  BY Zenon DEF Holders
<1> QED  BY Zenon, <1>1, TxnAssumption, FS_Subset, FS_CardinalityType

LEMMA GetRowOKInv == ASSUME IInv, NEW t \in Txn, GetRowOK(t) PROVE IInv'
<1> DEFINE r0  == Req(t).row
           m0  == Req(t).type
           new == [row |-> r0, type |-> m0, orig_data |-> data[r0]]
<1>1. /\ state[t] = "running" /\ ~ is_done(t) /\ LockGranted(t, r0, m0)
      /\ RecordAccess(t) /\ UNCHANGED <<prog, state, txn_ready, committed>>
  BY Zenon DEF GetRowOK
<1>2. r0 \in Row /\ m0 \in Mode
  BY Zenon, <1>1, ReqType
<1>3. /\ ~ Conflict(t, r0, m0)
      /\ owners' = [owners EXCEPT ![r0] =
                      IF CC_ALG = "NO_WAIT" THEN @
                      ELSE @ \cup {[txn |-> t, type |-> m0]}]
      /\ owner_cnt' = [owner_cnt EXCEPT ![r0] = @ + 1]
      /\ lock_type' = [lock_type EXCEPT ![r0] = m0]
      /\ UNCHANGED <<CC_ALG, waiters, lock_ready, lock_ready_cnt, restarts>>
  BY Zenon, <1>1 DEF LockGranted, readyVars
<1>4. /\ new \in Access /\ accesses'[t] = accesses[t] \cup {new}
      /\ \A u \in Txn \ {t} : accesses'[u] = accesses[u] /\ Req(u)' = Req(u)
                              /\ (is_done(u)' <=> is_done(u))
      /\ next_record_id' \in [Txn -> Nat \ {0}]
      /\ accesses' \in [Txn -> SUBSET Access]
      /\ data' \in [Row -> Writer]
  BY Zenon, <1>1, RecordAccessProps
<1>5. /\ data' = [data EXCEPT ![r0] = IF m0 = "LOCK_EX" THEN t ELSE @]
      /\ new.row = r0 /\ new.type = m0 /\ new.orig_data = data[r0]
  BY Zenon, <1>1 DEF RecordAccess
<1>6. \A m \in Mode : ~ Holds(t, r0, m)
  BY Zenon, <1>1, ReqNotAccessed DEF Holds
<1> HIDE DEF r0, m0, new
<1>7. TypeOK'
  <2>1. lock_type' \in [Row -> LockType] /\ owner_cnt' \in [Row -> Nat]
    BY <1>2, <1>3 DEF IInv, TypeOK, LockTypeOK, LockType, Mode
  <2>2. owners' \in [Row -> SUBSET LockEntry]
    <3>1. [txn |-> t, type |-> m0] \in LockEntry
      BY Zenon, <1>2 DEF LockEntry
    <3> QED  BY ZenonT(30), <1>2, <1>3, <3>1 DEF IInv, TypeOK, LockTypeOK
  <2> QED  BY ZenonT(30), <1>1, <1>3, <1>4, <2>1, <2>2 DEF IInv, TypeOK, LockTypeOK
<1>8. AccessInv'
  BY Zenon, <1>1, RecordAccessInv
<1>9. \A u \in Txn, r \in Row, m \in Mode :
        Holds(u, r, m)' <=> Holds(u, r, m) \/ (u = t /\ r = r0 /\ m = m0)
  BY <1>1, <1>3, <1>4, <1>5 DEF Holds
<1>10. \A r \in Row : Holders(r)' = IF r = r0 THEN Holders(r) \cup {t}
                                    ELSE Holders(r)
  BY Zenon, <1>2, <1>9 DEF Holders
<1>11. t \notin Holders(r0)
  BY Zenon, <1>6 DEF Holders
\* Either nobody held the row, or only readers did and t reads.
<1>12. \/ lock_type[r0] = "LOCK_NONE" /\ Holders(r0) = {}
       \/ lock_type[r0] = "LOCK_SH" /\ m0 = "LOCK_SH"
  <2>1. ~ conflict_lock(lock_type[r0], m0) /\ lock_type[r0] \in LockType
    BY Zenon, <1>2, <1>3 DEF Conflict, IInv, TypeOK, LockTypeOK
  <2>2. lock_type[r0] = "LOCK_NONE" => Holders(r0) = {}
    BY <1>2, ZenonT(30) DEF IInv, ModeInv, Holders, Mode
  <2> QED  BY Zenon, <1>2, <2>1, <2>2 DEF conflict_lock, LockType, Mode
<1>13. WaitInv'
  <2>1. \A r \in Row : \A i \in 1..Len(waiters[r]) :
          waiters[r][i].txn \in Txn \ {t}
    BY <1>1, WaiterType, ZenonT(30) DEF IInv, WaitInv, WaiterInv
  <2>2. \A r \in Row : \A i \in 1..Len(waiters[r]) :
          LET w == waiters[r][i].txn
          IN  Req(w)'.row = r /\ Req(w)'.type = waiters[r][i].type
    BY <1>3, <1>4, <2>1, SMTT(30) DEF IInv, WaitInv, WaiterInv
  <2>3. \A u \in Txn : state[u] = "waiting" =>
          /\ ~ is_done(u)' /\ Req(u)' = Req(u)
          /\ \A r : Waits(u, r)' <=> Waits(u, r)
    BY <1>1, <1>3, <1>4 DEF IInv, WaitInv, CounterInv, Waits
  <2> QED  BY <1>1, <1>3, <2>2, <2>3, SMTT(30)
              DEF IInv, WaitInv, WaiterInv, DistinctInv, CounterInv
<1>14. OwnerInv'
  <2>1. ASSUME NEW r \in Row, CC_ALG = "WAIT_DIE", NEW u \in Txn, NEW m \in Mode
        PROVE  [txn |-> u, type |-> m] \in owners'[r] <=> Holds(u, r, m)'
    <3>1. [txn |-> u, type |-> m] = [txn |-> t, type |-> m0]
            <=> u = t /\ m = m0
      OBVIOUS
    <3> QED  BY <1>2, <1>3, <1>9, <2>1, <3>1, ZenonT(30)
             DEF IInv, OwnerInv, TypeOK, LockTypeOK
  <2>2. ASSUME NEW r \in Row, CC_ALG = "NO_WAIT"
        PROVE  owners'[r] = {} /\ waiters'[r] = <<>>
    BY <1>2, <1>3, <2>2 DEF IInv, OwnerInv, TypeOK, LockTypeOK
  <2> QED  BY <1>3, <2>1, <2>2, ZenonT(30) DEF OwnerInv
<1>15. ModeInv'
  <2>1. /\ lock_type'[r0] = m0
        /\ \A r \in Row \ {r0} : lock_type'[r] = lock_type[r]
    BY ZenonT(30), <1>2, <1>3 DEF IInv, TypeOK, LockTypeOK
  <2>2. ASSUME NEW r \in Row, NEW u \in Txn, NEW m \in Mode, Holds(u, r, m)'
        PROVE  lock_type'[r] = m
    <3>1. CASE u = t /\ r = r0 /\ m = m0
      BY ZenonT(30), <2>1, <3>1
    <3>2. CASE Holds(u, r, m)
      <4>1. lock_type[r] = m /\ u \in Holders(r)
        BY Zenon, <3>2 DEF IInv, ModeInv, Holders
      <4> QED  BY ZenonT(30), <1>12, <2>1, <4>1 DEF Mode
    <3> QED  BY ZenonT(30), <1>9, <2>2, <3>1, <3>2
  <2>3. ASSUME NEW r \in Row, lock_type'[r] = "LOCK_EX"
        PROVE  \A u, v \in Holders(r)' : u = v
    BY ZenonT(30), <1>10, <1>12, <2>1, <2>3 DEF IInv, ModeInv
  <2>4. ASSUME NEW r \in Row, Holders(r)' = {}
        PROVE  lock_type'[r] = "LOCK_NONE"
    BY <1>10, <2>1, <2>4 DEF IInv, ModeInv
  <2> QED  BY ZenonT(30), <2>2, <2>3, <2>4 DEF ModeInv
<1>16. OwnerCount'
  <2>1. Cardinality(Holders(r0) \cup {t}) = Cardinality(Holders(r0)) + 1
    BY <1>11, HoldersFinite, FS_AddElement, ZenonT(30)
  <2> QED  BY <1>2, <1>3, <1>10, <2>1, ZenonT(30)
           DEF IInv, OwnerCount, TypeOK, LockTypeOK
<1>17. HeadBlocked'
  BY <1>2, <1>3, <1>12, ZenonT(30)
     DEF IInv, HeadBlocked, TypeOK, LockTypeOK, conflict_lock
<1>18. WaitDieOrder'
  <2>1. ASSUME NEW i \in 1..Len(waiters[r0]), CC_ALG # "NO_WAIT"
        PROVE  waiters[r0][i].txn < t
    <3>1. CC_ALG = "WAIT_DIE"
      BY ZenonT(30), <2>1, TwoPLAssumption DEF IInv, TypeOK, LockTypeOK
    <3>2. /\ waiters[r0] \in Seq(LockEntry) /\ Len(waiters[r0]) \in Nat
          /\ \A j \in 1..Len(waiters[r0]) : waiters[r0][j].txn \in Txn
      BY ZenonT(30), <1>2, WaiterType DEF IInv
    <3>3. 1 \in 1..Len(waiters[r0]) /\ waiters[r0] # <<>>
          /\ Head(waiters[r0]) = waiters[r0][1]
      BY <3>2, HeadTailProperties
    <3>4. ~ (t < waiters[r0][1].txn)
      BY <1>3, <3>1, <3>3, ZenonT(30) DEF Conflict
    <3>5. waiters[r0][1].txn # t
      BY ZenonT(30), <1>1, <1>2, <3>3 DEF IInv, WaitInv, WaiterInv
    <3>6. t \in Nat /\ waiters[r0][1].txn \in Nat /\ waiters[r0][i].txn \in Nat
      BY <3>2, <3>3, TxnAssumption, ZenonT(30)
    <3>7. i = 1 \/ waiters[r0][i].txn < waiters[r0][1].txn
      BY <1>2, <3>2, <3>3 DEF IInv, WaitDieOrder
    <3> QED  BY <3>4, <3>5, <3>6, <3>7, SMTT(30)
  <2>2. ASSUME NEW r \in Row, NEW i \in 1..Len(waiters[r]), NEW o \in owners'[r]
        PROVE  waiters[r][i].txn < o.txn
    <3>1. CASE o \in owners[r]
      BY Zenon, <3>1 DEF IInv, WaitDieOrder
    <3>2. CASE o \notin owners[r]
      <4>1. r = r0 /\ CC_ALG # "NO_WAIT" /\ o = [txn |-> t, type |-> m0]
        BY ZenonT(30), <1>2, <1>3, <3>2 DEF IInv, TypeOK, LockTypeOK
      <4> QED  BY ZenonT(30), <2>1, <4>1
    <3> QED  BY ZenonT(30), <3>1, <3>2
  <2> QED  BY ZenonT(30), <1>3, <2>2 DEF IInv, WaitDieOrder
<1>19. ImageInv'
  <2>1. ASSUME m0 = "LOCK_EX"
        PROVE  \A u \in Txn : \A a \in accesses[u] : a.row # r0
    <3>1. \A u \in Txn : \A m \in Mode : ~ Holds(u, r0, m)
      BY Zenon, <1>12, <2>1 DEF Holders
    <3> QED  BY <3>1 DEF Holds, IInv, TypeOK, Access
  <2>2. \A r \in Row \ {r0} : data'[r] = data[r]
    BY <1>5, ZenonT(30) DEF IInv, TypeOK
  <2>3. CASE m0 # "LOCK_EX"
    BY <1>1, <1>4, <1>5, <2>2, <2>3, SMTT(30) DEF IInv, ImageInv, TypeOK
  <2>4. CASE m0 = "LOCK_EX"
    <3>1. data'[r0] = t /\ data[r0] = committed[r0]
      BY <1>2, <1>5, <2>1, <2>4, SMTT(30) DEF IInv, ImageInv, TypeOK
    <3> QED  BY <1>1, <1>4, <1>5, <2>1, <2>2, <2>4, <3>1, SMTT(30)
                DEF IInv, ImageInv
  <2> QED  BY <2>3, <2>4
<1> QED  BY <1>7, <1>8, <1>13, <1>14, <1>15, <1>16, <1>17, <1>18, <1>19, ZenonT(30) DEF IInv

-----------------------------------------------------------------------------
(***************************************************************************)
(* A promoted transaction is resumed: what it held it now has accessed.    *)
(***************************************************************************)

LEMMA ResumeInv == ASSUME IInv, NEW t \in Txn, Resume(t) PROVE IInv'
<1> DEFINE r0  == Req(t).row
           m0  == Req(t).type
           new == [row |-> r0, type |-> m0, orig_data |-> data[r0]]
<1>1. /\ restarts[t] > 0 /\ restarts' = [restarts EXCEPT ![t] = @ - 1]
      /\ txn_ready' = [txn_ready EXCEPT ![t] = FALSE]
      /\ state' = [state EXCEPT ![t] = "running"]
      /\ RecordAccess(t)
      /\ UNCHANGED <<CC_ALG, lock_type, owner_cnt, owners, waiters, lock_ready,
                     lock_ready_cnt, prog, committed>>
  BY Zenon DEF Resume, rowLockVars
<1>2. /\ state[t] = "waiting" /\ restarts[t] = 1 /\ lock_ready_cnt[t] = 0
      /\ ~ is_done(t)
  BY <1>1 DEF IInv, WaitInv, CounterInv, TypeOK, LockTypeOK
<1>3. r0 \in Row /\ m0 \in Mode
  BY Zenon, <1>2, ReqType
<1>4. /\ new \in Access /\ accesses'[t] = accesses[t] \cup {new}
      /\ \A u \in Txn \ {t} : accesses'[u] = accesses[u] /\ Req(u)' = Req(u)
                              /\ (is_done(u)' <=> is_done(u))
      /\ next_record_id' \in [Txn -> Nat \ {0}]
      /\ accesses' \in [Txn -> SUBSET Access]
      /\ data' \in [Row -> Writer]
  BY <1>1, <1>2, RecordAccessProps, ZenonT(30)
<1>5. /\ data' = [data EXCEPT ![r0] = IF m0 = "LOCK_EX" THEN t ELSE @]
      /\ new.row = r0 /\ new.type = m0 /\ new.orig_data = data[r0]
  BY Zenon, <1>1 DEF RecordAccess
<1>6. Holds(t, r0, m0) /\ \A a \in accesses[t] : a.row # r0
  BY <1>2, ReqNotAccessed DEF Holds
<1>7. \A r \in Row, m \in Mode :
        Holds(t, r, m) => \/ \E a \in accesses[t] : a.row = r /\ a.type = m
                          \/ r = r0 /\ m = m0
  BY Zenon DEF Holds
<1> HIDE DEF r0, m0, new
<1>8. /\ state'[t] = "running" /\ restarts'[t] = 0
      /\ \A u \in Txn \ {t} : state'[u] = state[u] /\ restarts'[u] = restarts[u]
  BY <1>1, <1>2, SMTT(30) DEF IInv, TypeOK, LockTypeOK
<1>9. TypeOK'
  <2>1. /\ restarts' \in [Txn -> Nat] /\ txn_ready' \in [Txn -> BOOLEAN]
        /\ state' \in [Txn -> TxnState]
    BY <1>1, <1>2 DEF IInv, TypeOK, LockTypeOK, TxnState
  <2> QED  BY <1>1, <1>4, <2>1, ZenonT(30) DEF IInv, TypeOK, LockTypeOK
<1>10. AccessInv'
  BY ZenonT(30), <1>1, <1>2, <1>8, RecordAccessInv
<1>11. \A u \in Txn, r \in Row, m \in Mode :
         Holds(u, r, m)' <=> Holds(u, r, m)
  <2>1. ASSUME NEW u \in Txn \ {t}, NEW r \in Row, NEW m \in Mode
        PROVE  Holds(u, r, m)' <=> Holds(u, r, m)
    BY <1>4, <1>8, ZenonT(30) DEF Holds
  <2>2. ASSUME NEW r \in Row, NEW m \in Mode
        PROVE  Holds(t, r, m)' <=> Holds(t, r, m)
    <3>1. Holds(t, r, m)' <=> \E a \in accesses'[t] : a.row = r /\ a.type = m
      BY Zenon, <1>8 DEF Holds
    <3>2. (\E a \in accesses[t] : a.row = r /\ a.type = m) => Holds(t, r, m)
      BY ZenonT(30) DEF Holds
    <3> QED  BY <1>4, <1>5, <1>6, <1>7, <3>1, <3>2, SMTT(30)
  <2> QED  BY <2>1, <2>2, ZenonT(30)
<1>12. WaitInv'
  <2>1. \A r \in Row : \A i \in 1..Len(waiters[r]) :
          waiters[r][i].txn \in Txn \ {t}
    BY <1>2, WaiterType, SMTT(30) DEF IInv, WaitInv, WaiterInv
  <2>2. \A r \in Row : \A i \in 1..Len(waiters[r]) :
          LET w == waiters[r][i].txn
          IN  /\ w \in Txn /\ state'[w] = "waiting" /\ restarts'[w] = 0
              /\ Req(w).row = r /\ Req(w).type = waiters[r][i].type
    BY <1>1, <1>4, <1>8, <2>1, SMTT(30) DEF IInv, WaitInv, WaiterInv
  <2>3. \A u \in Txn \ {t} :
          /\ state[u] = "waiting" => ~ is_done(u)' /\ Req(u)' = Req(u)
          /\ \A r : Waits(u, r)' <=> Waits(u, r)
    BY <1>1, <1>4, ZenonT(30) DEF IInv, WaitInv, CounterInv, Waits
  <2>4. \A u \in Txn :
       /\ state'[u] # "waiting" => restarts'[u] = 0 /\ lock_ready_cnt[u] = 0
       /\ state'[u] = "waiting" =>
            /\ ~ is_done(u)'
            /\ \/ restarts'[u] = 0 /\ lock_ready_cnt[u] = 1 /\ ~ lock_ready[u]
                  /\ Waits(u, Req(u).row)'
               \/ restarts'[u] = 1 /\ lock_ready_cnt[u] = 0
    BY ZenonT(30), <1>2, <1>8, <2>3 DEF IInv, WaitInv, CounterInv
  <2>5. \A r \in Row : \A i, j \in 1..Len(waiters[r]) :
          waiters[r][i].txn = waiters[r][j].txn => i = j
    BY Zenon DEF IInv, WaitInv, DistinctInv
  <2>6. WaiterInv'
    <3>1. \A u \in Txn : state'[u] = "waiting" => Req(u)' = Req(u)
      BY <1>4, <1>8, ZenonT(30)
    <3>2. waiters' = waiters
      BY <1>1, ZenonT(30)
    <3>3. \A r \in Row : \A i \in 1..Len(waiters'[r]) :
            LET w == waiters'[r][i].txn
            IN  /\ w \in Txn /\ state'[w] = "waiting" /\ restarts'[w] = 0
                /\ Req(w).row = r /\ Req(w).type = waiters'[r][i].type
      BY <2>2, <3>2, SMTT(30)
    <3> QED  BY <3>1, <3>3, WaitersNext, ZenonT(30)
  <2>7. DistinctInv'
    BY <1>1, <2>5, ZenonT(30) DEF DistinctInv
  <2>8. CounterInv'
    BY <1>1, <2>4 DEF CounterInv
  <2> QED  BY <2>6, <2>7, <2>8, ZenonT(30) DEF WaitInv
<1>13. ImageInv'
  <2>1. ASSUME m0 = "LOCK_EX"
        PROVE  \A u \in Txn : \A a \in accesses[u] : a.row # r0
    <3> SUFFICES ASSUME NEW u \in Txn, NEW a \in accesses[u], a.row = r0
                 PROVE  FALSE
      BY Zenon
    <3>1. a.type \in Mode /\ Holds(u, r0, a.type)
      BY DEF Holds, IInv, TypeOK, Access
    <3>2. lock_type[r0] = "LOCK_EX" /\ u \in Holders(r0) /\ t \in Holders(r0)
      BY <1>3, <1>6, <2>1, <3>1, ZenonT(30) DEF IInv, ModeInv, Holders
    <3>3. u = t
      BY <1>3, <3>2, ZenonT(30) DEF IInv, ModeInv
    <3> QED  BY Zenon, <1>6, <3>3
  <2>2. \A r \in Row \ {r0} : data'[r] = data[r]
    BY ZenonT(30), <1>5 DEF IInv, TypeOK
  <2>3. CASE m0 # "LOCK_EX"
    <3>1. data' = data
      BY <1>5, <2>3, ZenonT(30) DEF IInv, TypeOK
    <3> QED  BY <1>1, <1>4, <1>5, <2>3, <3>1, SMTT(30) DEF IInv, ImageInv
  <2>4. CASE m0 = "LOCK_EX"
    <3>1. data'[r0] = t /\ data[r0] = committed[r0]
      BY <1>3, <1>5, <2>1, <2>4 DEF IInv, ImageInv, TypeOK
    <3> QED  BY <1>1, <1>4, <1>5, <2>1, <2>2, <2>4, <3>1, SMTT(30)
                DEF IInv, ImageInv
  <2> QED  BY Zenon, <2>3, <2>4
<1>14. OwnerInv' /\ ModeInv' /\ OwnerCount' /\ HeadBlocked' /\ WaitDieOrder'
  BY <1>1, <1>11, LocksFrame DEF rowLockVars
<1> QED  BY <1>9, <1>10, <1>12, <1>13, <1>14, ZenonT(30) DEF IInv

-----------------------------------------------------------------------------
(***************************************************************************)
(* lock_get returns WAIT.                                                  *)
(***************************************************************************)

LEMMA GetRowWaitInv == ASSUME IInv, NEW t \in Txn, GetRowWait(t) PROVE IInv'
<1> DEFINE r0 == Req(t).row
           m0 == Req(t).type
           e  == [txn |-> t, type |-> m0]
           ws == waiters[r0]
<1>1. /\ state[t] = "running" /\ ~ is_done(t) /\ LockWait(t, r0, m0)
      /\ state' = [state EXCEPT ![t] = "waiting"]
      /\ UNCHANGED <<prog, next_record_id, txn_ready, accesses, data,
                     committed>>
  BY Zenon DEF GetRowWait
<1>2. r0 \in Row /\ m0 \in Mode /\ e \in LockEntry
  BY Zenon, <1>1, ReqType DEF LockEntry
<1>3. CC_ALG = "WAIT_DIE"
  BY <1>1, TwoPLAssumption, ZenonT(30) DEF LockWait, IInv, TypeOK, LockTypeOK
<1>4. PICK p \in 1..(Len(ws) + 1) :
        /\ InsertionPoint(t, r0, p)
        /\ waiters' = [waiters EXCEPT ![r0] = InsertAt(@, p, e)]
  BY <1>1, <1>3, ZenonT(30) DEF LockWait
<1>5. /\ Conflict(t, r0, m0) /\ CanWait(t, r0)
      /\ lock_ready' = [lock_ready EXCEPT ![t] = FALSE]
      /\ lock_ready_cnt' = [lock_ready_cnt EXCEPT ![t] = @ + 1]
      /\ UNCHANGED <<CC_ALG, lock_type, owner_cnt, owners, restarts>>
  BY <1>1, <1>3, ZenonT(30) DEF LockWait
<1>6. /\ ws \in Seq(LockEntry) /\ Len(ws) \in Nat
      /\ \A i \in 1..Len(ws) : ws[i] \in LockEntry /\ ws[i].txn \in Txn
                               /\ ws[i].type \in Mode
  BY Zenon, <1>2, WaiterType DEF IInv
<1>7. Req(t).row = r0 /\ Req(t).type = m0 /\ e.txn = t /\ e.type = m0
      /\ ws = waiters[r0]
  BY Zenon
<1>8. \A m \in Mode : ~ Holds(t, r0, m)
  BY ZenonT(30), <1>1, ReqNotAccessed DEF Holds
<1> HIDE DEF r0, m0, e, ws
<1> DEFINE nw == InsertAt(ws, p, e)
<1>9. /\ nw \in Seq(LockEntry) /\ Len(nw) = Len(ws) + 1
      /\ \A i \in 1..(Len(ws) + 1) :
           nw[i] = IF i < p THEN ws[i] ELSE IF i = p THEN e ELSE ws[i - 1]
  BY <1>2, <1>6, InsertAtProps, SMTT(30)
<1>10. waiters'[r0] = nw /\ \A r \in Row \ {r0} : waiters'[r] = waiters[r]
  BY <1>2, <1>4, <1>7, ZenonT(30) DEF IInv, TypeOK, LockTypeOK
<1>11. waiters' \in [Row -> Seq(LockEntry)]
  BY <1>2, <1>4, <1>7, <1>9, ZenonT(30) DEF IInv, TypeOK, LockTypeOK
<1> HIDE DEF nw
\* An index of the new list is p or comes from an index of the old one.
<1>12. \A i \in 1..Len(nw) :
         \/ i = p /\ nw[i] = e
         \/ i < p /\ i \in 1..Len(ws) /\ nw[i] = ws[i]
         \/ i > p /\ i - 1 \in 1..Len(ws) /\ nw[i] = ws[i - 1]
  BY <1>4, <1>6, <1>9, SMTT(30)
<1>13. restarts[t] = 0 /\ lock_ready_cnt[t] = 0
  BY <1>1, ZenonT(30) DEF IInv, WaitInv, CounterInv
<1>14. /\ state'[t] = "waiting" /\ lock_ready_cnt'[t] = 1 /\ ~ lock_ready'[t]
       /\ \A u \in Txn \ {t} : /\ state'[u] = state[u]
                               /\ lock_ready'[u] = lock_ready[u]
                               /\ lock_ready_cnt'[u] = lock_ready_cnt[u]
  BY <1>1, <1>5, <1>13, SMTT(30) DEF IInv, TypeOK, LockTypeOK
<1>15. \A u \in Txn : Req(u)' = Req(u) /\ (is_done(u)' <=> is_done(u))
  BY <1>1, ZenonT(30) DEF Req, is_done
<1>16. \A r \in Row : \A i \in 1..Len(waiters[r]) :
         waiters[r][i].txn \in Txn \ {t}
  BY <1>1, WaiterType, ZenonT(30) DEF IInv, WaitInv, WaiterInv
<1>17. TypeOK'
  <2>1. /\ state' \in [Txn -> TxnState] /\ lock_ready' \in [Txn -> BOOLEAN]
        /\ lock_ready_cnt' \in [Txn -> Nat]
    BY <1>1, <1>5, SMTT(30) DEF IInv, TypeOK, LockTypeOK, TxnState
  <2> QED  BY <1>1, <1>5, <1>11, <2>1, ZenonT(30) DEF IInv, TypeOK, LockTypeOK
<1>18. AccessInv'
  <2>1. \A u \in Txn : state'[u] \in {"queued", "done"} => accesses[u] = {}
    BY <1>1, <1>14, ZenonT(30) DEF IInv, AccessInv
  <2> QED  BY <1>1, <2>1, SMTT(30) DEF IInv, AccessInv
<1>19. ImageInv'
  BY ZenonT(30), <1>1 DEF IInv, ImageInv
<1>20. \A u \in Txn, r \in Row, m \in Mode :
         Holds(u, r, m)' <=> Holds(u, r, m)
  <2> SUFFICES ASSUME NEW u \in Txn, NEW r \in Row, NEW m \in Mode
               PROVE  Holds(u, r, m)' <=> Holds(u, r, m)
    BY Zenon
  <2>1. accesses' = accesses /\ restarts' = restarts /\ Req(u)' = Req(u)
    BY <1>1, <1>5, <1>15, ZenonT(30)
  <2>2. CASE u = t
    BY <1>13, <2>1, <2>2, SMTT(30) DEF Holds
  <2>3. CASE u # t
    BY ZenonT(30), <1>14, <2>1, <2>3 DEF Holds
  <2> QED  BY Zenon, <2>2, <2>3
<1>21. \A r \in Row : Holders(r)' = Holders(r)
  BY Zenon, <1>20 DEF Holders
<1>22. OwnerInv' /\ ModeInv' /\ OwnerCount'
  <2>1. OwnerInv'
    BY <1>3, <1>5, <1>20, ZenonT(30) DEF IInv, OwnerInv
  <2>2. ModeInv'
    BY <1>5, <1>20, <1>21 DEF IInv, ModeInv
  <2>3. OwnerCount'
    BY <1>5, <1>21, ZenonT(30) DEF IInv, OwnerCount
  <2> QED  BY <2>1, <2>2, <2>3, ZenonT(30)
<1>23. HeadBlocked'
  <2> SUFFICES ASSUME NEW r \in Row, waiters'[r] # <<>>
               PROVE  conflict_lock(lock_type[r], Head(waiters'[r]).type)
    BY Zenon, <1>5 DEF HeadBlocked
  <2>1. CASE r # r0
    BY ZenonT(30), <1>10, <2>1 DEF IInv, HeadBlocked
  <2>2. CASE r = r0
    <3>1. Head(nw) = nw[1] /\ 1 \in 1..Len(nw)
      BY <1>6, <1>9, HeadTailProperties
    <3>2. CASE p = 1
      <4>1. Head(nw) = e
        BY <1>9, <3>1, <3>2, SMTT(30)
      <4>2. CASE ws = <<>>
        BY <1>2, <1>3, <1>5, <1>7, <1>10, <2>2, <4>1, <4>2, ZenonT(30)
           DEF Conflict
      <4>3. CASE ws # <<>>
        <5>1. Head(ws) = ws[1] /\ 1 <= Len(ws)
          BY <1>6, <4>3, HeadTailProperties
        <5>2. ~ (t < Head(ws).txn)
          BY <1>4, <1>7, <3>2, <5>1, ZenonT(30) DEF InsertionPoint
        <5> QED  BY <1>3, <1>5, <1>7, <1>10, <2>2, <4>1, <5>2, ZenonT(30)
                    DEF Conflict
      <4> QED  BY Zenon, <4>2, <4>3
    <3>3. CASE p # 1
      <4>1. 1 \in 1..Len(ws) /\ nw[1] = ws[1]
        BY <1>4, <1>6, <1>12, <3>1, <3>3, SMTT(30)
      <4>2. ws # <<>> /\ Head(ws) = ws[1]
        BY <1>6, <4>1, HeadTailProperties, SMTT(30)
      <4> QED  BY <1>2, <1>7, <1>10, <2>2, <3>1, <4>1, <4>2, ZenonT(30)
               DEF IInv, HeadBlocked
    <3> QED  BY ZenonT(30), <3>2, <3>3
  <2> QED  BY Zenon, <2>1, <2>2
<1>24. WaitDieOrder'
  <2>1. t \in Nat /\ \A i \in 1..Len(ws) : ws[i].txn \in Nat /\ ws[i].txn # t
    <3>1. \A i \in 1..Len(ws) : ws[i].txn \in Txn \ {t}
      BY <1>2, <1>7, <1>16, ZenonT(30)
    <3> QED  BY <3>1, TxnAssumption, ZenonT(30)
  <2>2. \A i, j \in 1..Len(ws) : i < j => ws[j].txn < ws[i].txn
    BY <1>2, <1>7, ZenonT(30) DEF IInv, WaitDieOrder
  <2>3. \A i \in 1..Len(ws) : i < p => t < ws[i].txn
    BY <1>4, <1>6, <1>7 DEF InsertionPoint
  <2>4. \A i \in 1..Len(ws) : i >= p => ws[i].txn < t
    <3>1. ASSUME p <= Len(ws) PROVE p \in 1..Len(ws) /\ ws[p].txn < t
      BY <1>4, <1>6, <1>7, <2>1, <3>1, SMTT(30) DEF InsertionPoint
    <3> SUFFICES ASSUME NEW i \in 1..Len(ws), i >= p PROVE ws[i].txn < t
      BY ZenonT(30)
    <3>2. p \in 1..Len(ws) /\ ws[p].txn < t
      BY <1>4, <1>6, <3>1, SMTT(30)
    <3>3. i = p \/ p < i
      BY <3>2
    <3> QED  BY <2>1, <2>2, <3>2, <3>3, SMTT(30)
  <2>5. \A i, j \in 1..Len(nw) : i < j => nw[j].txn < nw[i].txn
    <3> SUFFICES ASSUME NEW i \in 1..Len(nw), NEW j \in 1..Len(nw), i < j
                 PROVE  nw[j].txn < nw[i].txn
      BY ZenonT(30)
    <3>1. CASE i = p
      <4>1. j > p /\ j - 1 \in 1..Len(ws) /\ nw[j] = ws[j - 1] /\ nw[i] = e
        BY <1>4, <1>12, <3>1, SMTT(30)
      <4> QED  BY <1>4, <1>7, <2>4, <4>1, SMTT(30)
    <3>2. CASE i < p /\ i \in 1..Len(ws) /\ nw[i] = ws[i]
      <4>1. CASE j = p /\ nw[j] = e
        BY <1>7, <2>3, <3>2, <4>1, ZenonT(30)
      <4>2. CASE j < p /\ j \in 1..Len(ws) /\ nw[j] = ws[j]
        BY <2>2, <3>2, <4>2, ZenonT(30)
      <4>3. CASE j > p /\ j - 1 \in 1..Len(ws) /\ nw[j] = ws[j - 1]
        <5>1. i < j - 1
          BY <1>4, <3>2, <4>3
        <5> QED  BY <2>2, <3>2, <4>3, <5>1, ZenonT(30)
      <4> QED  BY <1>12, <4>1, <4>2, <4>3, ZenonT(30)
    <3>3. CASE i > p /\ i - 1 \in 1..Len(ws) /\ nw[i] = ws[i - 1]
      <4>1. j - 1 \in 1..Len(ws) /\ nw[j] = ws[j - 1] /\ i - 1 < j - 1
        BY <1>4, <1>12, <3>3, SMTT(30)
      <4> QED  BY <2>2, <3>3, <4>1, ZenonT(30)
    <3> QED  BY <1>12, <3>1, <3>2, <3>3, ZenonT(30)
  <2>6. \A o \in owners[r0] : t < o.txn
    <3> SUFFICES ASSUME NEW o \in owners[r0] PROVE t < o.txn
      BY ZenonT(30)
    <3>1. o \in LockEntry /\ o = [txn |-> o.txn, type |-> o.type]
          /\ o.txn \in Txn /\ o.type \in Mode
      BY <1>2, SMTT(30) DEF IInv, TypeOK, LockTypeOK, LockEntry
    <3>2. Holds(o.txn, r0, o.type)
      BY Zenon, <1>2, <1>3, <3>1 DEF IInv, OwnerInv
    <3>3. o.txn # t /\ o.txn \in Nat /\ ~ (t > o.txn)
      BY <1>5, <1>8, <3>1, <3>2, TxnAssumption, ZenonT(30) DEF CanWait
    <3> QED  BY <2>1, <3>3
  <2>7. \A i \in 1..Len(nw) : \A o \in owners[r0] : nw[i].txn < o.txn
    BY <1>2, <1>7, <1>12, <2>6, ZenonT(30) DEF IInv, WaitDieOrder
  <2> QED  BY <1>5, <1>10, <2>5, <2>7, ZenonT(30) DEF IInv, WaitDieOrder
<1>25. WaitInv'
  <2>1. ASSUME NEW r \in Row, NEW i \in 1..Len(waiters'[r])
        PROVE  LET w == waiters'[r][i].txn
               IN  /\ state'[w] = "waiting" /\ restarts'[w] = 0
                   /\ Req(w).row = r /\ Req(w).type = waiters'[r][i].type
    <3>1. CASE r = r0 /\ nw[i] = e
      BY <1>5, <1>7, <1>10, <1>13, <1>14, <3>1, ZenonT(30)
    <3>2. CASE \E j \in 1..Len(waiters[r]) : waiters'[r][i] = waiters[r][j]
      <4>1. PICK j \in 1..Len(waiters[r]) : waiters'[r][i] = waiters[r][j]
        BY <3>2, ZenonT(30)
      <4>2. LET w == waiters[r][j].txn
            IN  /\ w \in Txn \ {t} /\ state[w] = "waiting" /\ restarts[w] = 0
                /\ Req(w).row = r /\ Req(w).type = waiters[r][j].type
        BY <1>16, <4>1, ZenonT(30) DEF IInv, WaitInv, WaiterInv
      <4> QED  BY ZenonT(30), <1>5, <1>14, <4>1, <4>2
    <3>3. CASE r # r0
      BY ZenonT(30), <1>10, <3>2, <3>3
    <3>4. CASE r = r0
      <4>1. i \in 1..Len(nw) /\ waiters'[r][i] = nw[i]
        BY ZenonT(30), <1>10, <3>4
      <4>2. nw[i] = e \/ \E j \in 1..Len(waiters[r]) : nw[i] = waiters[r][j]
        BY <1>7, <1>12, <3>4, <4>1, ZenonT(30)
      <4> QED  BY <3>1, <3>2, <3>4, <4>1, <4>2, ZenonT(30)
    <3> QED  BY <3>3, <3>4, ZenonT(30)
  <2>2. ASSUME NEW r \in Row, NEW i \in 1..Len(waiters'[r]),
               NEW j \in 1..Len(waiters'[r]),
               waiters'[r][i].txn = waiters'[r][j].txn
        PROVE  i = j
    <3>1. CASE r # r0
      BY <1>10, <2>2, <3>1, ZenonT(30) DEF IInv, WaitInv, DistinctInv
    <3>2. CASE r = r0
      \* a list in strict order has no repetition
      <4>1. /\ waiters'[r][i].txn \in Nat
            /\ i < j => waiters'[r][j].txn < waiters'[r][i].txn
            /\ j < i => waiters'[r][i].txn < waiters'[r][j].txn
        <5>1. waiters'[r] \in Seq(LockEntry) /\ waiters'[r][i] \in LockEntry
          BY <1>11, LenProperties
        <5> QED  BY <1>24, <5>1, TxnAssumption, ZenonT(30)
                    DEF WaitDieOrder, LockEntry
      <4>2. i \in Nat /\ j \in Nat
        OBVIOUS
      <4> QED  BY <2>2, <4>1, <4>2
    <3> QED  BY Zenon, <3>1, <3>2
  <2>3. \E i \in 1..Len(waiters'[r0]) : waiters'[r0][i].txn = t
    <3>1. p \in 1..Len(nw) /\ nw[p] = e
      BY <1>4, <1>6, <1>9
    <3> QED  BY <1>7, <1>10, <3>1, ZenonT(30)
  <2>4. ASSUME NEW u \in Txn, NEW r \in Row, Waits(u, r) PROVE Waits(u, r)'
    <3>1. CASE r # r0
      BY ZenonT(30), <1>10, <2>4, <3>1 DEF Waits
    <3>2. CASE r = r0
      <4>1. PICK i \in 1..Len(ws) : ws[i].txn = u
        BY <1>7, <2>4, <3>2, ZenonT(30) DEF Waits
      <4>2. /\ i < p => i \in 1..Len(nw) /\ nw[i] = ws[i]
            /\ i >= p => i + 1 \in 1..Len(nw) /\ nw[i + 1] = ws[i]
        BY <1>4, <1>6, <1>9
      <4>3. i < p \/ i >= p
        BY <1>4
      <4> QED  BY <1>10, <3>2, <4>1, <4>2, <4>3, ZenonT(30) DEF Waits
    <3> QED  BY <3>1, <3>2, ZenonT(30)
  <2>5. \A u \in Txn : ~ is_done(u) => Req(u).row \in Row
    BY ReqType, ZenonT(30)
  <2>6. \A u \in Txn :
          /\ state'[u] # "waiting" => restarts[u] = 0 /\ lock_ready_cnt'[u] = 0
          /\ state'[u] = "waiting" =>
               /\ ~ is_done(u)
               /\ \/ /\ restarts[u] = 0 /\ lock_ready_cnt'[u] = 1
                     /\ ~ lock_ready'[u] /\ Waits(u, Req(u).row)'
                  \/ restarts[u] = 1 /\ lock_ready_cnt'[u] = 0
    <3>1. Waits(t, Req(t).row)'
      BY ZenonT(30), <1>7, <1>15, <2>3 DEF Waits
    <3>2. \A u \in Txn : ~ is_done(u) /\ Waits(u, Req(u).row)
            => Waits(u, Req(u).row)'
      BY <1>15, <2>4, <2>5
    <3> QED  BY <1>1, <1>13, <1>14, <3>1, <3>2, ZenonT(30)
             DEF IInv, WaitInv, CounterInv
  <2>7. \A r \in Row : \A i \in 1..Len(waiters'[r]) : waiters'[r][i].txn \in Txn
    <3> SUFFICES ASSUME NEW r \in Row, NEW i \in 1..Len(waiters'[r])
                 PROVE  waiters'[r][i].txn \in Txn
      BY Zenon
    <3>1. waiters'[r] \in Seq(LockEntry)
      BY Zenon, <1>11
    <3>2. waiters'[r][i] \in LockEntry
      BY <3>1, ElementOfSeq, ZenonT(30)
    <3> QED  BY Zenon, <3>2 DEF LockEntry
  <2>8. WaiterInv'
    BY <1>15, <2>1, <2>7, WaitersNext, ZenonT(30)
  <2>9. DistinctInv'
    BY <2>2, ZenonT(30) DEF DistinctInv
  <2>10. CounterInv'
    BY <1>5, <1>15, <2>6 DEF CounterInv
  <2> QED  BY <2>8, <2>9, <2>10, ZenonT(30) DEF WaitInv
<1> QED  BY <1>17, <1>18, <1>19, <1>22, <1>23, <1>24, <1>25, ZenonT(30) DEF IInv
=============================================================================
