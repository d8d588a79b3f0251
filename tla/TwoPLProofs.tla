---------------------------- MODULE TwoPLProofs ----------------------------
(***************************************************************************)
(* What is proved of TwoPL for every set of transactions, rows and programs,*)
(* in the NO_WAIT and the WAIT_DIE build.                                  *)
(***************************************************************************)
EXTENDS TwoPLInvariant

(***************************************************************************)
(* lock_release: t gives r0 back and the first k waiters are promoted.     *)
(***************************************************************************)

\* Distinct entries are as many as their indices.
LEMMA CountDistinct ==
  ASSUME NEW f, NEW k \in Nat, \A i, j \in 1..k : f[i].txn = f[j].txn => i = j
  PROVE  /\ IsFiniteSet({f[i].txn : i \in 1..k})
         /\ Cardinality({f[i].txn : i \in 1..k}) = k
<1> DEFINE P == {f[i].txn : i \in 1..k}
           g == [i \in 1..k |-> f[i].txn]
<1>1. IsFiniteSet(1..k) /\ Cardinality(1..k) = k
  BY FS_Interval
<1>2. g \in [1..k -> P]
  BY Zenon
<1>3. g \in Injection(1..k, P)
  BY Zenon, <1>2 DEF Injection, IsInjective
<1>4. g \in Surjection(1..k, P)
  BY Zenon, <1>2 DEF Surjection
<1>5. ExistsBijection(1..k, P)
  BY ZenonT(30), <1>3, <1>4 DEF ExistsBijection, Bijection
<1> QED  BY ZenonT(30), <1>1, <1>5, FS_Bijection

LEMMA ReturnRowInv == ASSUME IInv, NEW t \in Txn, ReturnRow(t) PROVE IInv'
<1>1. PICK a \in accesses[t] :
        /\ LockRelease(t, a.row)
        /\ accesses' = [accesses EXCEPT ![t] = @ \ {a}]
        /\ data' = [data EXCEPT ![a.row] =
                      IF state[t] = "aborting" /\ a.type = "LOCK_EX"
                      THEN a.orig_data ELSE @]
        /\ committed' = [committed EXCEPT ![a.row] =
                           IF state[t] = "committing" /\ a.type = "LOCK_EX"
                           THEN t ELSE @]
  BY ZenonT(30) DEF ReturnRow
<1>2. /\ state[t] \in {"committing", "aborting"}
      /\ UNCHANGED <<prog, next_record_id, state, txn_ready>>
  BY Zenon DEF ReturnRow
<1> DEFINE r0  == a.row
           m0  == a.type
           ws  == waiters[r0]
           cnt == owner_cnt[r0] - 1
           lt  == IF cnt = 0 THEN "LOCK_NONE" ELSE lock_type[r0]
<1>3. r0 \in Row /\ m0 \in Mode /\ a.orig_data \in Writer
  BY DEF IInv, TypeOK, Access
<1>4. /\ ws \in Seq(LockEntry) /\ Len(ws) \in Nat
      /\ \A i \in 1..Len(ws) : ws[i] \in LockEntry /\ ws[i].txn \in Txn
                               /\ ws[i].type \in Mode
  BY Zenon, <1>3, WaiterType DEF IInv
<1>5. PICK k \in 0..Len(ws) :
        LET promoted == {ws[i] : i \in 1..k}
            last     == {u \in Txn : /\ \E e \in promoted : e.txn = u
                                     /\ lock_ready_cnt[u] = 1
                                     /\ ~ lock_ready[u]}
        IN /\ Promotes(lt, ws, k)
           /\ owner_cnt' = [owner_cnt EXCEPT ![r0] = cnt + k]
           /\ owners' = [owners EXCEPT ![r0] =
                           {o \in @ : o.txn # t} \cup promoted]
           /\ waiters' = [waiters EXCEPT ![r0] = SubSeq(@, k + 1, Len(@))]
           /\ lock_type' = [lock_type EXCEPT ![r0] =
                              IF k = 0 THEN lt ELSE ws[k].type]
           /\ lock_ready_cnt' =
                [u \in Txn |-> IF \E e \in promoted : e.txn = u
                               THEN lock_ready_cnt[u] - 1
                               ELSE lock_ready_cnt[u]]
           /\ lock_ready' = [u \in Txn |-> lock_ready[u] \/ u \in last]
           /\ restarts' = [u \in Txn |-> IF u \in last THEN restarts[u] + 1
                                         ELSE restarts[u]]
           /\ UNCHANGED CC_ALG
  BY <1>1, ZenonT(30) DEF LockRelease
<1> DEFINE rest == SubSeq(ws, k + 1, Len(ws))
           P    == {ws[i].txn : i \in 1..k}
<1>6. \A i \in 1..k : i \in 1..Len(ws)
  BY <1>4
<1>7. /\ rest \in Seq(LockEntry) /\ Len(rest) = Len(ws) - k
      /\ \A i \in 1..Len(rest) : k + i \in 1..Len(ws) /\ rest[i] = ws[k + i]
  BY <1>4, RestProps, SMTT(30)
\* A promoted transaction was waiting for this row only.
<1>8. \A i \in 1..Len(ws) :
        LET u == ws[i].txn
        IN  /\ u \in Txn \ {t} /\ state[u] = "waiting" /\ restarts[u] = 0
            /\ lock_ready_cnt[u] = 1 /\ ~ lock_ready[u] /\ ~ is_done(u)
            /\ Req(u).row = r0 /\ Req(u).type = ws[i].type
  BY <1>2, <1>3, <1>4, SMTT(30) DEF IInv, WaitInv, WaiterInv, CounterInv
<1>9. P \subseteq Txn \ {t}
  BY ZenonT(30), <1>6, <1>8
<1>10. \A u \in Txn :
         IF u \in P
         THEN /\ state[u] = "waiting" /\ restarts'[u] = 1
              /\ lock_ready_cnt'[u] = 0
         ELSE /\ restarts'[u] = restarts[u] /\ lock_ready'[u] = lock_ready[u]
              /\ lock_ready_cnt'[u] = lock_ready_cnt[u]
  <2>1. \A u \in Txn : (\E e \in {ws[i] : i \in 1..k} : e.txn = u) <=> u \in P
    BY Zenon
  <2>2. \A u \in P : /\ lock_ready_cnt[u] = 1 /\ ~ lock_ready[u]
                     /\ restarts[u] = 0 /\ state[u] = "waiting"
    BY ZenonT(30), <1>6, <1>8
  <2> HIDE DEF P, ws, cnt, lt, r0, rest
  <2>3. ASSUME NEW u \in P, u \in Txn
        PROVE  restarts'[u] = 1 /\ lock_ready_cnt'[u] = 0
    BY <1>5, <2>1, <2>2, <2>3
  <2>4. ASSUME NEW u \in Txn, u \notin P
        PROVE  /\ restarts'[u] = restarts[u]
               /\ lock_ready_cnt'[u] = lock_ready_cnt[u]
    BY Zenon, <1>5, <2>1, <2>4
  <2>5. ASSUME NEW u \in Txn, u \notin P
        PROVE  lock_ready'[u] = lock_ready[u]
    BY ZenonT(30), <1>5, <2>1, <2>5 DEF IInv, TypeOK, LockTypeOK
  <2> QED  BY ZenonT(30), <2>2, <2>3, <2>4, <2>5
\* Who holds what after the release.
<1>11. /\ accesses'[t] = accesses[t] \ {a}
       /\ \A u \in Txn \ {t} : accesses'[u] = accesses[u]
       /\ \A b \in accesses'[t] : b.row # r0
  BY ZenonT(30), <1>1 DEF IInv, TypeOK, AccessInv
<1>12. \A u \in Txn : Req(u)' = Req(u) /\ (is_done(u)' <=> is_done(u))
  BY <1>2, SMTT(30) DEF Req, is_done
<1>13. \A u \in P : \A m \in Mode : ~ Holds(u, r0, m)
  BY <1>6, <1>8, ReqNotAccessed, SMTT(30) DEF Holds
<1>14. ASSUME NEW u \in Txn, NEW r \in Row, NEW m \in Mode
       PROVE  Holds(u, r, m)' <=>
                \/ Holds(u, r, m) /\ ~ (u = t /\ r = r0)
                \/ r = r0 /\ \E i \in 1..k : ws[i].txn = u /\ ws[i].type = m
  <2>1. CASE u = t
    <3>1. Holds(t, r, m)' <=> \E b \in accesses'[t] : b.row = r /\ b.type = m
      BY Zenon, <1>2 DEF Holds
    <3>2. Holds(t, r, m) <=> \E b \in accesses[t] : b.row = r /\ b.type = m
      BY Zenon, <1>2 DEF Holds
    <3>3. t \notin P
      BY <1>9
    <3> QED  BY <1>11, <2>1, <3>1, <3>2, <3>3, SMTT(30)
  <2>2. CASE u # t /\ u \notin P
    <3>1. restarts'[u] = restarts[u] /\ accesses'[u] = accesses[u]
      BY ZenonT(30), <1>10, <1>11, <2>2
    <3>2. Holds(u, r, m)' <=> Holds(u, r, m)
      BY <1>2, <1>12, <3>1, SMTT(30) DEF Holds
    <3> QED  BY Zenon, <2>2, <3>2
  <2>3. CASE u \in P
    <3>1. PICK i \in 1..k : ws[i].txn = u
      BY <2>3, SMTT(30)
    <3>2. /\ state[u] = "waiting" /\ restarts[u] = 0 /\ restarts'[u] = 1
          /\ Req(u).row = r0 /\ Req(u).type = ws[i].type /\ u # t
          /\ accesses'[u] = accesses[u]
      BY <1>6, <1>8, <1>10, <1>11, <2>3, <3>1, SMTT(30)
    <3>3. Holds(u, r, m)' <=> \/ \E b \in accesses[u] : b.row = r /\ b.type = m
                              \/ r = r0 /\ m = ws[i].type
      BY <1>2, <1>12, <3>2, SMTT(30) DEF Holds
    <3>4. Holds(u, r, m) <=> \E b \in accesses[u] : b.row = r /\ b.type = m
      BY <3>2 DEF Holds
    <3>5. \A j \in 1..k : ws[j].txn = u => j = i
      BY <1>3, <1>6, <3>1, SMTT(30) DEF IInv, WaitInv, DistinctInv
    <3> QED  BY <3>1, <3>2, <3>3, <3>4, <3>5, SMTT(30)
  <2> QED  BY <2>1, <2>2, <2>3, SMTT(30)
<1>15. Holders(r0)' = (Holders(r0) \ {t}) \cup P
  <2>1. \A i \in 1..k : ws[i].txn \in Txn /\ ws[i].type \in Mode
    BY <1>4, <1>6, SMTT(30)
  <2> QED  BY <1>3, <1>9, <1>14, <2>1, SMTT(30) DEF Holders
<1>16. \A r \in Row \ {r0} : Holders(r)' = Holders(r)
  BY <1>14 DEF Holders
<1>17. Holds(t, r0, m0) /\ t \in Holders(r0) /\ lock_type[r0] = m0
  BY <1>3 DEF Holds, Holders, IInv, ModeInv
<1>18. /\ IsFiniteSet(Holders(r0) \ {t}) /\ cnt \in Nat
       /\ Cardinality(Holders(r0) \ {t}) = cnt
  <2>1. IsFiniteSet(Holders(r0))
    BY Zenon, HoldersFinite
  <2>2. /\ IsFiniteSet(Holders(r0) \ {t})
        /\ Cardinality(Holders(r0) \ {t}) = Cardinality(Holders(r0)) - 1
    <3> DEFINE H == Holders(r0)
    <3>1. t \in H /\ IsFiniteSet(H)
      BY ZenonT(30), <1>17, <2>1
    <3> HIDE DEF H
    <3>2. IsFiniteSet(H \ {t}) /\ Cardinality(H \ {t}) = Cardinality(H) - 1
      BY <3>1, FS_RemoveElement, SMTT(30)
    <3> QED  BY Zenon, <3>2 DEF H
  <2>3. Cardinality(Holders(r0) \ {t}) \in Nat
    BY ZenonT(30), <2>2, FS_CardinalityType
  <2>4. owner_cnt[r0] = Cardinality(Holders(r0))
    BY <1>3 DEF IInv, OwnerCount
  <2> QED  BY <2>2, <2>3, <2>4, SMTT(30)
<1>19. cnt = 0 <=> Holders(r0) \ {t} = {}
  <2> DEFINE H == Holders(r0) \ {t}
  <2>1. IsFiniteSet(H) /\ Cardinality(H) = cnt
    BY Zenon, <1>18
  <2> HIDE DEF H, cnt
  <2>2. cnt = 0 <=> H = {}
    BY ZenonT(30), <2>1, FS_EmptySet
  <2> QED  BY Zenon, <2>2 DEF H
\* Waiters are promoted only when t was the last to hold the row.
<1>20. k > 0 => Holders(r0) \ {t} = {} /\ lt = "LOCK_NONE"
  <2> SUFFICES ASSUME k > 0, cnt # 0 PROVE FALSE
    BY Zenon, <1>19
  <2>1. 1 \in 1..k /\ 1 \in 1..Len(ws)
    BY <1>4, <1>6
  <2>2. ws # <<>> /\ Head(ws) = ws[1]
    BY <1>4, <2>1, HeadTailProperties, SMTT(30)
  <2>3. conflict_lock(lock_type[r0], ws[1].type)
    BY <1>3, <2>2, ZenonT(30) DEF IInv, HeadBlocked
  <2>4. ~ conflict_lock(lt, ws[1].type)
    BY <1>5, <2>1, SMTT(30) DEF Promotes
  <2> QED  BY ZenonT(30), <2>3, <2>4
\* They are one writer, or all readers.
<1>21. \A i \in 1..k : ws[i].type = ws[k].type
                       /\ (ws[k].type = "LOCK_EX" => i = k /\ k = 1)
  <2> SUFFICES ASSUME NEW i \in 1..k
               PROVE  ws[i].type = ws[k].type
                      /\ (ws[k].type = "LOCK_EX" => i = k /\ k = 1)
    BY SMTT(30)
  <2>1. \A j \in 2..k : ~ conflict_lock(ws[j - 1].type, ws[j].type)
    BY <1>4, <1>5 DEF Promotes
  <2>2. \A j \in 1..k : ws[j].type \in Mode
    BY ZenonT(30), <1>4, <1>6
  <2>3. \A j \in 2..k : j - 1 \in 1..k /\ j \in 1..k
    BY <1>4
  <2>4. \A j \in 2..k : ws[j].type = "LOCK_SH" /\ ws[j - 1].type = "LOCK_SH"
    BY <2>1, <2>2, <2>3, ZenonT(30) DEF conflict_lock, Mode
  <2>5. CASE k = 1
    BY <2>5, SMTT(30)
  <2>6. CASE k > 1
    <3>1. ws[k].type = "LOCK_SH"
      BY <1>4, <2>4, <2>6, SMTT(30)
    <3>2. i \in 2..k \/ i + 1 \in 2..k
      BY <1>4, <2>6
    <3>3. CASE i \in 2..k
      BY <2>4, <3>1, <3>3, SMTT(30)
    <3>4. CASE i + 1 \in 2..k
      <4>1. (i + 1) - 1 = i
        OBVIOUS
      <4>2. ws[i].type = "LOCK_SH"
        BY <2>4, <3>4, <4>1, ZenonT(30)
      <4> QED  BY <3>1, <4>2
    <3> QED  BY <3>2, <3>3, <3>4, SMTT(30)
  <2> QED  BY <1>4, <2>5, <2>6, SMTT(30)
<1>22. /\ waiters'[r0] = rest
       /\ owner_cnt'[r0] = cnt + k
       /\ owners'[r0] = {o \in owners[r0] : o.txn # t} \cup {ws[i] : i \in 1..k}
       /\ lock_type'[r0] = IF k = 0 THEN lt ELSE ws[k].type
       /\ \A r \in Row \ {r0} : /\ waiters'[r] = waiters[r]
                                /\ owner_cnt'[r] = owner_cnt[r]
                                /\ owners'[r] = owners[r]
                                /\ lock_type'[r] = lock_type[r]
       /\ CC_ALG' = CC_ALG
  BY <1>3, <1>5, ZenonT(30) DEF IInv, TypeOK, LockTypeOK
<1>23. TypeOK'
  <2>1. lt \in LockType /\ \A i \in 1..k : ws[i].type \in LockType
    BY <1>3, <1>4, <1>6, ZenonT(30) DEF IInv, TypeOK, LockTypeOK, LockType, Mode
  <2>2. k = 0 \/ k \in 1..k
    BY <1>4, SMTT(30)
  <2>3. lock_type' \in [Row -> LockType]
    BY <1>5, <2>1, <2>2, ZenonT(30) DEF IInv, TypeOK, LockTypeOK
  <2>4. owner_cnt' \in [Row -> Nat]
    <3>1. cnt + k \in Nat
      BY <1>4, <1>18, SMTT(30)
    <3>2. owner_cnt' = [owner_cnt EXCEPT ![r0] = cnt + k]
      BY ZenonT(30), <1>5
    <3> HIDE DEF cnt
    <3> QED  BY <3>1, <3>2, ZenonT(30) DEF IInv, TypeOK, LockTypeOK
  <2>5. owners' \in [Row -> SUBSET LockEntry]
    <3>1. {ws[i] : i \in 1..k} \subseteq LockEntry
      BY <1>4, <1>6
    <3> QED  BY <1>5, <3>1, ZenonT(30) DEF IInv, TypeOK, LockTypeOK
  <2>6. waiters' \in [Row -> Seq(LockEntry)]
    BY <1>5, <1>7, ZenonT(30) DEF IInv, TypeOK, LockTypeOK
  <2>7. lock_ready' \in [Txn -> BOOLEAN]
    <3> HIDE DEF ws, cnt, lt, rest
    <3> QED  BY <1>5, ZenonT(30) DEF IInv, TypeOK, LockTypeOK
  <2>8. /\ restarts' \in [Txn -> Nat] /\ lock_ready_cnt' \in [Txn -> Nat]
    <3>1. \A u \in Txn : restarts'[u] \in Nat /\ lock_ready_cnt'[u] \in Nat
      BY <1>10, SMTT(30) DEF IInv, TypeOK, LockTypeOK
    <3>2. /\ restarts' = [u \in Txn |-> restarts'[u]]
          /\ lock_ready_cnt' = [u \in Txn |-> lock_ready_cnt'[u]]
      <4> HIDE DEF ws, cnt, lt, rest
      <4> QED  BY <1>5
    <3> QED  BY <3>1, <3>2, SMTT(30)
  <2>9. data' \in [Row -> Writer] /\ committed' \in [Row -> Writer]
    BY ZenonT(30), <1>1, <1>3 DEF IInv, TypeOK, Writer
  <2>10. accesses' \in [Txn -> SUBSET Access]
    BY <1>1, ZenonT(30) DEF IInv, TypeOK
  <2> QED  BY <1>2, <1>22, <2>3, <2>4, <2>5, <2>6, <2>7, <2>8, <2>9, <2>10,
              ZenonT(30)
           DEF IInv, TypeOK, LockTypeOK
<1>24. AccessInv'
  BY <1>2, <1>11, SMTT(30) DEF IInv, AccessInv
<1>25. OwnerCount'
  <2>1. IsFiniteSet(P) /\ Cardinality(P) = k
    <3>1. \A i, j \in 1..k : ws[i].txn = ws[j].txn => i = j
      BY ZenonT(30), <1>3, <1>6 DEF IInv, WaitInv, DistinctInv
    <3>2. k \in Nat
      BY <1>4
    <3> HIDE DEF ws
    <3> QED  BY <3>1, <3>2, CountDistinct, ZenonT(30)
  <2>2. (Holders(r0) \ {t}) \cap P = {}
    <3>1. \A u \in P : u \notin Holders(r0)
      BY Zenon, <1>13 DEF Holders
    <3> QED  BY Zenon, <3>1
  <2>3. Cardinality((Holders(r0) \ {t}) \cup P) = cnt + k
    <3> DEFINE H == Holders(r0) \ {t}
    <3>1. IsFiniteSet(H) /\ Cardinality(H) = cnt /\ H \cap P = {}
      BY ZenonT(30), <1>18, <2>2
    <3> HIDE DEF H, P, cnt
    <3>2. Cardinality(H \cup P) = Cardinality(H) + Cardinality(P)
                                  - Cardinality(H \cap P)
      BY <2>1, <3>1, FS_Union, SMTT(30)
    <3>3. cnt \in Nat /\ k \in Nat
      BY <1>4, <1>18
    <3>4. Cardinality(H \cap P) = 0
      BY <3>1, FS_EmptySet, ZenonT(30)
    <3>5. Cardinality(H \cup P) = cnt + k
      BY <2>1, <3>1, <3>2, <3>3, <3>4, SMTT(30)
    <3> QED  BY Zenon, <3>5 DEF H
  <2>4. owner_cnt'[r0] = Cardinality(Holders(r0)')
    BY ZenonT(30), <1>15, <1>22, <2>3
  <2>5. \A r \in Row \ {r0} : owner_cnt'[r] = Cardinality(Holders(r)')
    BY <1>16, <1>22, ZenonT(30) DEF IInv, OwnerCount
  <2> QED  BY ZenonT(30), <2>4, <2>5 DEF OwnerCount
<1>26. HeadBlocked'
  <2> SUFFICES ASSUME NEW r \in Row, waiters'[r] # <<>>
               PROVE  conflict_lock(lock_type'[r], Head(waiters'[r]).type)
    BY Zenon DEF HeadBlocked
  <2>1. CASE r # r0
    BY ZenonT(30), <1>22, <2>1 DEF IInv, HeadBlocked
  <2>2. CASE r = r0
    <3>1. rest # <<>>
      BY <1>22, <2>2, ZenonT(30)
    <3> HIDE DEF ws, rest, lt, cnt
    <3>2. Head(rest) = rest[1] /\ 1 \in 1..Len(rest)
      BY <1>7, <3>1, HeadTailProperties, SMTT(30)
    <3>3. Head(rest) = ws[k + 1] /\ k < Len(ws)
      BY <1>4, <1>7, <3>2, SMTT(30)
    <3>4. conflict_lock(IF k + 1 = 1 THEN lt ELSE ws[(k + 1) - 1].type,
                        ws[k + 1].type)
      BY <1>5, <3>3, SMTT(30) DEF Promotes
    <3>5. lock_type'[r0] = IF k + 1 = 1 THEN lt ELSE ws[(k + 1) - 1].type
      BY <1>4, <1>22, SMTT(30)
    <3> QED  BY <1>22, <2>2, <3>3, <3>4, <3>5, ZenonT(30)
  <2> QED  BY ZenonT(30), <2>1, <2>2
<1>27. OwnerInv'
  <2>1. ASSUME NEW r \in Row, CC_ALG = "NO_WAIT"
        PROVE  owners'[r] = {} /\ waiters'[r] = <<>>
    <3>1. CASE r # r0
      BY <1>22, <2>1, <3>1, ZenonT(30) DEF IInv, OwnerInv
    <3>2. CASE r = r0
      <4>1. owners[r0] = {} /\ ws = <<>> /\ Len(ws) = 0
        BY <1>3, <2>1 DEF IInv, OwnerInv
      <4>2. k = 0
        BY <4>1
      <4>3. owners'[r0] = {}
        <5> HIDE DEF r0, ws
        <5> QED  BY <1>22, <4>1, <4>2, SMTT(30)
      <4>4. rest \in Seq(LockEntry) /\ Len(rest) = 0
        BY <1>7, <4>1, <4>2, SMTT(30)
      <4>5. rest = <<>>
        <5> HIDE DEF rest
        <5> QED  BY <4>4, EmptySeq
      <4> QED  BY <1>22, <3>2, <4>3, <4>5, ZenonT(30)
    <3> QED  BY <3>1, <3>2, ZenonT(30)
  <2>2. ASSUME NEW r \in Row, CC_ALG = "WAIT_DIE", NEW u \in Txn, NEW m \in Mode
        PROVE  [txn |-> u, type |-> m] \in owners'[r] <=> Holds(u, r, m)'
    <3>1. CASE r # r0
      BY <1>14, <1>22, <2>2, <3>1, SMTT(30) DEF IInv, OwnerInv
    <3>2. CASE r = r0
      <4> DEFINE e == [txn |-> u, type |-> m]
      <4>1. e.txn = u /\ e.type = m
        BY ZenonT(30)
      <4>2. e \in owners[r0] <=> Holds(u, r0, m)
        BY <1>3, <2>2, SMTT(30) DEF IInv, OwnerInv
      <4>3. \A i \in 1..k : ws[i] = e <=> ws[i].txn = u /\ ws[i].type = m
        <5> SUFFICES ASSUME NEW i \in 1..k
                     PROVE  ws[i] = e <=> ws[i].txn = u /\ ws[i].type = m
          BY SMTT(30)
        <5>1. ws[i] \in LockEntry
          BY <1>4, <1>6, SMTT(30)
        <5> HIDE DEF ws
        <5> QED  BY <5>1, SMTT(30) DEF LockEntry
      <4> HIDE DEF e, ws, r0
      <4>4. e \in owners'[r0] <=> \/ e \in owners[r0] /\ e.txn # t
                                  \/ \E i \in 1..k : ws[i] = e
        BY <1>22, SMTT(30)
      <4>5. Holds(u, r0, m)' <=>
              \/ Holds(u, r0, m) /\ u # t
              \/ \E i \in 1..k : ws[i].txn = u /\ ws[i].type = m
        BY <1>14, <3>2
      <4> QED  BY <3>2, <4>1, <4>2, <4>3, <4>4, <4>5, ZenonT(30) DEF e
    <3> QED  BY <3>1, <3>2, ZenonT(30)
  <2> QED  BY <1>22, <2>1, <2>2, SMTT(30) DEF OwnerInv
<1>28. ModeInv'
  <2>1. ASSUME NEW r \in Row, NEW u \in Txn, NEW m \in Mode, Holds(u, r, m)'
        PROVE  lock_type'[r] = m
    <3>1. CASE r # r0
      BY <1>14, <1>22, <2>1, <3>1, SMTT(30) DEF IInv, ModeInv
    <3>2. CASE r = r0 /\ Holds(u, r, m) /\ u # t
      <4>1. u \in Holders(r0) \ {t} /\ lock_type[r0] = m
        BY ZenonT(30), <3>2 DEF Holders, IInv, ModeInv
      <4>2. k = 0 /\ cnt # 0
        BY <1>4, <1>19, <1>20, <4>1, SMTT(30)
      <4> QED  BY <1>22, <3>2, <4>1, <4>2, ZenonT(30)
    <3>3. CASE r = r0 /\ \E i \in 1..k : ws[i].txn = u /\ ws[i].type = m
      <4>1. k # 0
        BY <1>4, <3>3
      <4> QED  BY <1>21, <1>22, <3>3, <4>1, ZenonT(30)
    <3> QED  BY <1>14, <2>1, <3>1, <3>2, <3>3, SMTT(30)
  <2>2. ASSUME NEW r \in Row, lock_type'[r] = "LOCK_EX"
        PROVE  \A u, v \in Holders(r)' : u = v
    <3>1. CASE r # r0
      BY <1>16, <1>22, <2>2, <3>1, ZenonT(30) DEF IInv, ModeInv
    <3>2. CASE r = r0 /\ k = 0
      <4>1. lock_type[r0] = "LOCK_EX"
        BY ZenonT(30), <1>22, <2>2, <3>2
      <4>2. P = {}
        BY <3>2
      <4> QED  BY <1>3, <1>15, <3>2, <4>1, <4>2, ZenonT(30) DEF IInv, ModeInv
    <3>3. CASE r = r0 /\ k # 0
      <4>1. k > 0 /\ k \in 1..k
        BY <1>4, <3>3
      <4>2. ws[k].type = "LOCK_EX"
        BY ZenonT(30), <1>22, <2>2, <3>3
      <4>3. k = 1
        BY ZenonT(30), <1>21, <4>1, <4>2
      <4>4. P = {ws[1].txn}
        BY <4>3
      <4> QED  BY <1>15, <1>20, <3>3, <4>1, <4>4, ZenonT(30)
    <3> QED  BY <3>1, <3>2, <3>3, ZenonT(30)
  <2>3. ASSUME NEW r \in Row, Holders(r)' = {}
        PROVE  lock_type'[r] = "LOCK_NONE"
    <3>1. CASE r # r0
      BY <1>16, <1>22, <2>3, <3>1, ZenonT(30) DEF IInv, ModeInv
    <3>2. CASE r = r0
      <4>1. P = {} /\ Holders(r0) \ {t} = {}
        BY <1>15, <2>3, <3>2, ZenonT(30)
      <4>2. k = 0
        <5>1. k \notin 1..k
          BY <4>1, ZenonT(30)
        <5> QED  BY <1>4, <5>1
      <4> QED  BY <1>19, <1>22, <3>2, <4>1, <4>2, ZenonT(30)
    <3> QED  BY <3>1, <3>2, ZenonT(30)
  <2> QED  BY <2>1, <2>2, <2>3, ZenonT(30) DEF ModeInv
<1>29. WaitDieOrder'
  <2>1. \A i, j \in 1..Len(ws) : i < j => ws[j].txn < ws[i].txn
    BY Zenon, <1>3 DEF IInv, WaitDieOrder
  <2>2. \A i \in 1..Len(ws) : \A o \in owners[r0] : ws[i].txn < o.txn
    BY ZenonT(30), <1>3 DEF IInv, WaitDieOrder
  <2>3. \A i, j \in 1..Len(rest) : i < j => rest[j].txn < rest[i].txn
    <3> SUFFICES ASSUME NEW i \in 1..Len(rest), NEW j \in 1..Len(rest), i < j
                 PROVE  rest[j].txn < rest[i].txn
      BY ZenonT(30)
    <3> HIDE DEF ws, rest
    <3>1. k + i < k + j
      BY <1>4
    <3> QED  BY <1>7, <2>1, <3>1, ZenonT(30)
  <2>4. ASSUME NEW i \in 1..Len(rest), NEW o \in owners'[r0]
        PROVE  rest[i].txn < o.txn
    <3> HIDE DEF ws, rest
    <3>1. CASE o \in owners[r0]
      BY <1>7, <2>2, <3>1, ZenonT(30)
    <3>2. CASE \E j \in 1..k : o = ws[j]
      <4>1. PICK j \in 1..k : o = ws[j]
        BY ZenonT(30), <3>2
      <4>2. j \in 1..Len(ws) /\ j < k + i
        BY <1>4, <1>6
      <4> QED  BY ZenonT(30), <1>7, <2>1, <4>1, <4>2
    <3> QED  BY ZenonT(30), <1>22, <3>1, <3>2
  <2>5. ASSUME NEW r \in Row
        PROVE  /\ \A i, j \in 1..Len(waiters'[r]) :
                    i < j => waiters'[r][j].txn < waiters'[r][i].txn
               /\ \A i \in 1..Len(waiters'[r]) : \A o \in owners'[r] :
                    waiters'[r][i].txn < o.txn
    <3>1. CASE r # r0
      BY ZenonT(30), <1>22, <3>1 DEF IInv, WaitDieOrder
    <3>2. CASE r = r0
      <4> HIDE DEF rest
      <4> QED  BY <1>22, <2>3, <2>4, <3>2, ZenonT(30)
    <3> QED  BY ZenonT(30), <3>1, <3>2
  <2> QED  BY ZenonT(30), <2>5 DEF WaitDieOrder
<1>30. ImageInv'
  <2>1. \A r \in Row \ {r0} : data'[r] = data[r] /\ committed'[r] = committed[r]
    BY Zenon, <1>1 DEF IInv, TypeOK
  <2>2. \A u \in Txn : \A b \in accesses'[u] : b \in accesses[u]
    BY Zenon, <1>11
  <2>3. ASSUME NEW u \in Txn, NEW b \in accesses'[u], b.row = r0
        PROVE  m0 = "LOCK_SH" /\ b.type = "LOCK_SH" /\ u # t
    <3>1. b \in accesses[u] /\ u # t /\ b.type \in Mode
      BY <1>11, <2>2, <2>3, SMTT(30) DEF IInv, TypeOK, Access
    <3>2. Holds(u, r0, b.type)
      BY ZenonT(30), <2>3, <3>1 DEF Holds
    <3>3. u \in Holders(r0) /\ lock_type[r0] = b.type
      BY ZenonT(30), <1>3, <3>1, <3>2 DEF Holders, IInv, ModeInv
    <3>4. lock_type[r0] # "LOCK_EX"
      BY <1>3, <1>17, <3>1, <3>3 DEF IInv, ModeInv
    <3> QED  BY <1>17, <3>1, <3>3, <3>4, ZenonT(30) DEF Mode
  <2>4. ASSUME NEW u \in Txn, NEW b \in accesses'[u], b.type = "LOCK_EX",
               NEW r \in Row, b.row = r
        PROVE  b.orig_data = committed'[r] /\ data'[r] = u
    <3>1. r # r0
      BY Zenon, <2>3, <2>4
    <3> QED  BY <2>1, <2>2, <2>4, <3>1 DEF IInv, ImageInv
  <2>5. data'[r0] = committed'[r0]
    <3>1. CASE m0 = "LOCK_EX"
      <4>1. a.orig_data = committed[r0] /\ data[r0] = t
        BY <1>3, <3>1, ZenonT(30) DEF IInv, ImageInv
      <4> QED  BY <1>1, <1>2, <1>3, <3>1, <4>1, ZenonT(30) DEF IInv, TypeOK
    <3>2. CASE m0 # "LOCK_EX"
      <4>1. data'[r0] = data[r0] /\ committed'[r0] = committed[r0]
        BY ZenonT(30), <1>1, <1>3, <3>2 DEF IInv, TypeOK
      <4>2. \A u \in Txn : \A b \in accesses[u] :
              ~ (b.row = r0 /\ b.type = "LOCK_EX")
        <5> SUFFICES ASSUME NEW u \in Txn, NEW b \in accesses[u],
                            b.row = r0, b.type = "LOCK_EX"
                     PROVE  FALSE
          BY Zenon
        <5>1. "LOCK_EX" \in Mode /\ Holds(u, r0, "LOCK_EX")
          BY Zenon DEF Mode, Holds
        <5>2. lock_type[r0] = "LOCK_EX"
          BY ZenonT(30), <1>3, <5>1 DEF IInv, ModeInv
        <5> QED  BY ZenonT(30), <1>17, <3>2, <5>2
      <4> QED  BY ZenonT(30), <1>3, <4>1, <4>2 DEF IInv, ImageInv
    <3> QED  BY Zenon, <3>1, <3>2
  <2>6. ASSUME NEW r \in Row \ {r0},
               \A u \in Txn : \A b \in accesses'[u] :
                 ~ (b.row = r /\ b.type = "LOCK_EX")
        PROVE  data'[r] = committed'[r]
    <3>1. \A u \in Txn : \A b \in accesses[u] :
            ~ (b.row = r /\ b.type = "LOCK_EX")
      BY ZenonT(30), <1>11, <2>6
    <3> QED  BY ZenonT(30), <2>1, <3>1 DEF IInv, ImageInv
  <2> QED  BY <2>4, <2>5, <2>6 DEF ImageInv
<1>31. WaitInv'
  \* An entry that is still in a list was in that list, and was not promoted.
  <2>1. ASSUME NEW r \in Row, NEW i \in 1..Len(waiters'[r])
        PROVE  \E j \in 1..Len(waiters[r]) :
                 /\ waiters'[r][i] = waiters[r][j] /\ waiters[r][j].txn \notin P
                 /\ j = IF r = r0 THEN k + i ELSE i
    <3>1. CASE r = r0
      <4>1. i \in 1..Len(rest) /\ waiters'[r][i] = rest[i]
        BY <1>22, <2>1, <3>1, ZenonT(30)
      <4>2. k + i \in 1..Len(ws) /\ rest[i] = ws[k + i]
        BY <1>7, <4>1, ZenonT(30)
      <4>3. \A j \in 1..k : ws[j].txn # ws[k + i].txn
        <5>1. \A j \in 1..k : j # k + i
          BY <1>4
        <5>2. \A x, y \in 1..Len(ws) : ws[x].txn = ws[y].txn => x = y
          BY <1>3, ZenonT(30) DEF IInv, WaitInv, DistinctInv
        <5> HIDE DEF ws
        <5> QED  BY <1>6, <4>2, <5>1, <5>2
      <4> QED  BY <3>1, <4>1, <4>2, <4>3, ZenonT(30)
    <3>2. CASE r # r0
      <4>1. waiters'[r] = waiters[r]
        BY ZenonT(30), <1>22, <3>2
      <4>2. waiters[r][i].txn \notin P
        <5>1. Req(waiters[r][i].txn).row = r
          BY <4>1, ZenonT(30) DEF IInv, WaitInv, WaiterInv
        <5>2. \A u \in P : Req(u).row = r0
          BY <1>6, <1>8, ZenonT(30)
        <5> QED  BY <3>2, <5>1, <5>2, ZenonT(30)
      <4> QED  BY <3>2, <4>1, <4>2, ZenonT(30)
    <3> QED  BY <3>1, <3>2, ZenonT(30)
  <2> HIDE DEF P, ws, rest, r0, m0, cnt, lt
  <2>2. ASSUME NEW r \in Row, NEW i \in 1..Len(waiters'[r])
        PROVE  LET w == waiters'[r][i].txn
               IN  /\ w \in Txn /\ state[w] = "waiting" /\ restarts'[w] = 0
                   /\ Req(w).row = r /\ Req(w).type = waiters'[r][i].type
    <3>1. PICK j \in 1..Len(waiters[r]) :
            waiters'[r][i] = waiters[r][j] /\ waiters[r][j].txn \notin P
      BY <2>1, SMTT(30)
    <3>2. waiters[r][j].txn \in Txn
      BY ZenonT(30), WaiterType DEF IInv
    <3>3. LET w == waiters[r][j].txn
          IN  /\ state[w] = "waiting" /\ restarts[w] = 0
              /\ Req(w).row = r /\ Req(w).type = waiters[r][j].type
      BY ZenonT(30), <3>1 DEF IInv, WaitInv, WaiterInv
    <3>4. restarts'[waiters[r][j].txn] = restarts[waiters[r][j].txn]
      BY <1>10, <3>1, <3>2
    <3> QED  BY <3>1, <3>2, <3>3, <3>4, ZenonT(30)
  <2>3. ASSUME NEW r \in Row, NEW i \in 1..Len(waiters'[r]),
               NEW j \in 1..Len(waiters'[r]),
               waiters'[r][i].txn = waiters'[r][j].txn
        PROVE  i = j
    <3> DEFINE shift(x) == IF r = r0 THEN k + x ELSE x
    <3>1. /\ shift(i) \in 1..Len(waiters[r]) /\ shift(j) \in 1..Len(waiters[r])
          /\ waiters'[r][i] = waiters[r][shift(i)]
          /\ waiters'[r][j] = waiters[r][shift(j)]
      BY <2>1, SMTT(30)
    <3>2. shift(i) = shift(j)
      <4> HIDE DEF shift
      <4> QED  BY Zenon, <2>3, <3>1 DEF IInv, WaitInv, DistinctInv
    <3>3. k \in Nat /\ i \in Nat /\ j \in Nat
      BY <1>4
    <3> QED  BY <3>2, <3>3
  <2>4. ASSUME NEW u \in Txn, u \notin P, NEW r \in Row, Waits(u, r)
        PROVE  Waits(u, r)'
    <3>1. CASE r # r0
      BY <1>22, <2>4, <3>1, ZenonT(30) DEF Waits
    <3>2. CASE r = r0
      <4>1. PICK i \in 1..Len(ws) : ws[i].txn = u
        BY ZenonT(30), <2>4, <3>2 DEF Waits, ws
      <4>2. i \notin 1..k
        BY <2>4, <4>1, ZenonT(30) DEF P
      <4>3. i - k \in 1..Len(rest) /\ k + (i - k) = i
        BY <1>4, <1>7, <4>1, <4>2, SMTT(30)
      <4>4. rest[i - k] = ws[i]
        BY <1>7, <4>3, ZenonT(30)
      <4> QED  BY <1>22, <3>2, <4>1, <4>3, <4>4, ZenonT(30) DEF Waits
    <3> QED  BY ZenonT(30), <3>1, <3>2
  <2>5. ASSUME NEW u \in Txn
        PROVE  /\ state[u] # "waiting" =>
                    restarts'[u] = 0 /\ lock_ready_cnt'[u] = 0
               /\ state[u] = "waiting" =>
                    /\ ~ is_done(u)
                    /\ \/ /\ restarts'[u] = 0 /\ lock_ready_cnt'[u] = 1
                          /\ ~ lock_ready'[u] /\ Waits(u, Req(u).row)'
                       \/ restarts'[u] = 1 /\ lock_ready_cnt'[u] = 0
    <3>1. CASE u \in P
      BY <1>10, <3>1, ZenonT(30) DEF IInv, WaitInv, CounterInv
    <3>2. CASE u \notin P
      <4>1. /\ restarts'[u] = restarts[u] /\ lock_ready'[u] = lock_ready[u]
            /\ lock_ready_cnt'[u] = lock_ready_cnt[u]
        BY <1>10, <3>2, ZenonT(30)
      <4>2. ~ is_done(u) /\ Waits(u, Req(u).row) => Waits(u, Req(u).row)'
        BY <1>12, <2>4, <3>2, ReqType, ZenonT(30)
      <4> QED  BY <4>1, <4>2 DEF IInv, WaitInv, CounterInv
    <3> QED  BY <3>1, <3>2, ZenonT(30)
  <2>6. state' = state
    BY <1>2, ZenonT(30)
  <2>7. WaiterInv'
    BY <1>12, <2>2, <2>6, WaitersNext, ZenonT(30)
  <2>8. DistinctInv'
    BY Zenon, <2>3 DEF DistinctInv
  <2>9. CounterInv'
    BY <1>12, <2>5, <2>6, ZenonT(30) DEF CounterInv
  <2> QED  BY <2>7, <2>8, <2>9, ZenonT(30) DEF WaitInv
<1> QED  BY <1>23, <1>24, <1>25, <1>26, <1>27, <1>28, <1>29, <1>30, <1>31, SMTT(30)
         DEF IInv

(***************************************************************************)
(* The theorems.                                                           *)
(***************************************************************************)

\* No step of any worker leaves the inductive invariant.
LEMMA InvNext == IInv /\ [Next]_vars => IInv'
<1> SUFFICES ASSUME IInv, [Next]_vars PROVE IInv'
  BY Zenon
<1>1. ASSUME NEW t \in Txn, Step(t) PROVE IInv'
  BY ZenonT(30), <1>1, StartInv, GetRowOKInv, GetRowWaitInv, GetRowAbortInv, YieldInv,
     ResumeInv, CommitInv, ReturnRowInv, FinishInv, AbortInv DEF Step
<1>2. CASE UNCHANGED vars
  <2> USE <1>2 DEF vars, txnVars, lockVars, rowLockVars, readyVars
  <2>1. TypeOK'
    BY Zenon DEF IInv, TypeOK, LockTypeOK
  <2>2. \A u \in Txn, r \in Row, m \in Mode :
          Holds(u, r, m)' <=> Holds(u, r, m)
    BY ZenonT(30) DEF Holds, Req
  <2>3. AccessInv' /\ ImageInv'
    BY DEF IInv, AccessInv, ImageInv
  <2>4. WaitInv'
    <3>1. \A u : /\ Req(u)' = Req(u) /\ (is_done(u)' <=> is_done(u))
                 /\ \A r : Waits(u, r)' <=> Waits(u, r)
      BY Zenon DEF Req, is_done, Waits
    <3> QED  BY <3>1 DEF IInv, WaitInv, WaiterInv, DistinctInv, CounterInv
  <2> QED  BY ZenonT(30), <2>1, <2>2, <2>3, <2>4, LocksFrame DEF IInv
<1> QED  BY ZenonT(30), <1>1, <1>2 DEF Next, AllDone

\* The variables of the locks and of the transactions keep their types; in
\* particular no counter of lock_release or decr_lr goes below zero.
THEOREM TypeCorrect == Spec => []TypeOK
<1>1. IInv => TypeOK
  BY DEF IInv
<1> QED  BY <1>1, InvInit, InvNext, PTL DEF Spec

\* Two transactions hold a row only if both read it.
THEOREM MutualExclusion == Spec => []Exclusion
<1>1. IInv => Exclusion
  <2> SUFFICES ASSUME IInv, NEW r \in Row, NEW t \in Txn, NEW u \in Txn,
                      NEW m \in Mode, NEW n \in Mode,
                      t # u, Holds(t, r, m), Holds(u, r, n)
               PROVE  m = "LOCK_SH" /\ n = "LOCK_SH"
    BY ZenonT(30) DEF Exclusion
  <2>1. /\ lock_type[r] = m /\ lock_type[r] = n
        /\ t \in Holders(r) /\ u \in Holders(r)
    BY Zenon DEF IInv, ModeInv, Holders
  <2>2. lock_type[r] # "LOCK_EX"
    BY Zenon, <2>1 DEF IInv, ModeInv
  <2> QED  BY <2>1, <2>2 DEF Mode
<1> QED  BY <1>1, InvInit, InvNext, PTL DEF Spec

\* owner_cnt is the number of holders.
THEOREM OwnersCounted == Spec => []OwnerCount
<1>1. IInv => OwnerCount
  BY DEF IInv
<1> QED  BY <1>1, InvInit, InvNext, PTL DEF Spec

\* lock_release never leaves a head that could be served.
THEOREM NoGrantableWaiter == Spec => []HeadBlocked
<1>1. IInv => HeadBlocked
  BY DEF IInv
<1> QED  BY <1>1, InvInit, InvNext, PTL DEF Spec

\* A list of waiters has room for every transaction once.
LEMMA WaitersBounded ==
  ASSUME TypeOK, WaitInv, NEW r \in Row
  PROVE  Len(waiters[r]) \in Nat /\ Len(waiters[r]) <= Cardinality(Txn)
<1>1. waiters[r] \in Seq(LockEntry)
  BY Zenon DEF TypeOK, LockTypeOK
<1>2. /\ Len(waiters[r]) \in Nat
      /\ \A i \in 1..Len(waiters[r]) : waiters[r][i].txn \in Txn
  <2>1. \A e \in LockEntry : e.txn \in Txn
    BY Zenon DEF LockEntry
  <2> QED  BY ZenonT(30), <1>1, <2>1, LenProperties
<1> DEFINE n == Len(waiters[r])
           f == [i \in 1..n |-> waiters[r][i].txn]
<1>3. f \in [1..n -> Txn]
  BY Zenon, <1>2
<1>4. \A i, j \in 1..n : f[i] = f[j] => i = j
  BY Zenon DEF WaitInv, DistinctInv
<1>5. f \in Injection(1..n, Txn)
  BY ZenonT(30), <1>3, <1>4 DEF Injection, IsInjective
<1>6. Cardinality(1..n) <= Cardinality(Txn)
  BY ZenonT(30), <1>5, FS_Injection, TxnAssumption
<1>7. Cardinality(1..n) = n
  BY <1>2, FS_Interval
<1> QED  BY ZenonT(30), <1>2, <1>6, <1>7

\* The invariant counts the places where a waiting transaction is.
LEMMA WakeupKept ==
  ASSUME TypeOK, AccessInv, WaitInv  PROVE NoLostWakeup
<1> SUFFICES ASSUME NEW t \in Txn
             PROVE  Cardinality({q \in Row \X (1..Cardinality(Txn)) :
                                   /\ q[2] <= Len(waiters[q[1]])
                                   /\ waiters[q[1]][q[2]].txn = t}) + restarts[t] =
                      (IF state[t] = "waiting" THEN 1 ELSE 0)
  BY Zenon DEF NoLostWakeup
<1> DEFINE queued == {q \in Row \X (1..Cardinality(Txn)) :
                        /\ q[2] <= Len(waiters[q[1]])
                        /\ waiters[q[1]][q[2]].txn = t}
<1>1. Cardinality(Txn) \in Nat
  BY ZenonT(30), FS_CardinalityType, TxnAssumption
<1>2. ASSUME NEW q \in queued
      PROVE  /\ q = <<q[1], q[2]>> /\ q[1] \in Row /\ q[2] \in 1..Len(waiters[q[1]])
             /\ state[t] = "waiting" /\ restarts[t] = 0 /\ Req(t).row = q[1]
  <2>1. q = <<q[1], q[2]>> /\ q[1] \in Row /\ q[2] \in 1..Cardinality(Txn)
    OBVIOUS
  <2>2. q[2] \in 1..Len(waiters[q[1]])
    BY <1>1, <2>1, WaitersBounded
  <2> QED  BY <2>1, <2>2 DEF WaitInv, WaiterInv
<1>3. CASE queued = {}
  <2>1. Cardinality(queued) = 0
    BY Zenon, <1>3, FS_EmptySet
  <2>2. ASSUME state[t] = "waiting", restarts[t] = 0  PROVE FALSE
    <3>1. ~ is_done(t) /\ Waits(t, Req(t).row)
      BY <2>2 DEF WaitInv, CounterInv
    <3>2. Req(t).row \in Row
      <4>1. prog[t] \in Seq(Request) /\ next_record_id[t] \in 1..Len(prog[t])
        BY <3>1, ProgramsAssumption, LenProperties DEF TypeOK, is_done
      <4>2. prog[t][next_record_id[t]] \in Request
        BY Zenon, <4>1, LenProperties
      <4> QED  BY Zenon, <4>2 DEF Req, Request
    <3>3. PICK i \in 1..Len(waiters[Req(t).row]) : waiters[Req(t).row][i].txn = t
      BY Zenon, <3>1 DEF Waits
    <3>4. i \in 1..Cardinality(Txn) /\ i <= Len(waiters[Req(t).row])
      BY <1>1, <3>2, <3>3, WaitersBounded
    <3>5. <<Req(t).row, i>> \in queued
      BY Zenon, <3>2, <3>3, <3>4
    <3> QED  BY Zenon, <1>3, <3>5
  <2>3. restarts[t] = IF state[t] = "waiting" THEN 1 ELSE 0
    BY Zenon, <2>2 DEF WaitInv, CounterInv
  <2> QED  BY <2>1, <2>3
<1>4. CASE queued # {}
  <2>1. PICK q \in queued : TRUE
    BY Zenon, <1>4
  <2>2. /\ q = <<q[1], q[2]>> /\ q[1] \in Row /\ q[2] \in 1..Len(waiters[q[1]])
        /\ state[t] = "waiting" /\ restarts[t] = 0 /\ Req(t).row = q[1]
    BY Zenon, <1>2
  <2>3. ASSUME NEW p \in queued  PROVE p = q
    <3>1. /\ p = <<p[1], p[2]>> /\ p[1] = q[1] /\ p[2] \in 1..Len(waiters[q[1]])
      BY ZenonT(30), <1>2, <2>2
    <3>2. waiters[q[1]][p[2]].txn = t /\ waiters[q[1]][q[2]].txn = t
      BY Zenon, <3>1
    <3>3. p[2] = q[2]
      BY <2>2, <3>1, <3>2 DEF WaitInv, DistinctInv
    <3> QED  BY ZenonT(30), <2>2, <3>1, <3>3
  <2>4. queued = {q}
    BY Zenon, <2>1, <2>3
  <2>5. Cardinality(queued) = 1
    BY Zenon, <2>4, FS_Singleton
  <2> QED  BY <2>2, <2>5
<1> QED  BY Zenon, <1>3, <1>4

\* A waiter is in exactly one list, once, or exactly one restart_txn message is on
\* its way: lock_release never forgets a waiter and never wakes one twice.
THEOREM WakeupsArrive == Spec => []NoLostWakeup
<1>1. IInv => NoLostWakeup
  BY WakeupKept DEF IInv
<1> QED  BY <1>1, InvInit, InvNext, PTL DEF Spec

\* Every waiter is older than every owner and than the waiters before it.
THEOREM WaitDie == Spec => []WaitDieOrder
<1>1. IInv => WaitDieOrder
  BY DEF IInv
<1> QED  BY <1>1, InvInit, InvNext, PTL DEF Spec

\* No transactions wait for each other, over any number of rows and nodes.
THEOREM DeadlockFree == Spec => []NoDeadlock
<1>1. IInv => NoDeadlock
  BY OrderNoDeadlock DEF IInv
<1> QED  BY <1>1, InvInit, InvNext, PTL DEF Spec

\* A row that nobody holds for writing has its last committed value.
THEOREM NoDirtyData == Spec => []Strictness
<1>1. IInv => Strictness
  <2> SUFFICES ASSUME IInv, NEW r \in Row,
                      \A t \in Txn : ~ Holds(t, r, "LOCK_EX")
               PROVE  data[r] = committed[r]
    BY Zenon DEF Strictness
  <2>1. \A t \in Txn : \A a \in accesses[t] :
          ~ (a.row = r /\ a.type = "LOCK_EX")
    BY Zenon DEF Holds
  <2> QED  BY <2>1 DEF IInv, ImageInv
<1> QED  BY <1>1, InvInit, InvNext, PTL DEF Spec
=============================================================================
