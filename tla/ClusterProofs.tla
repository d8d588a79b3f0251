---------------------------- MODULE ClusterProofs ---------------------------
(***************************************************************************)
(* What is proved of the transactions of Cluster for every set of nodes,   *)
(* transactions and queries.                                               *)
(***************************************************************************)
EXTENDS Cluster, CommitProofs, FiniteSetTheorems, WellFoundedInduction

\* A nonempty set of numbers has a least one.
LEMMA LeastExists ==
  ASSUME NEW S \in SUBSET Nat, S # {}
  PROVE  \E x \in S : \A y \in S : x =< y
<1> DEFINE R == OpToRel(<, Nat)
<1>1. IsWellFoundedOn(R, Nat)
  BY NatLessThanWellFounded, ZenonT(60)
<1>2. \A x, y \in Nat : x < y => <<x, y>> \in R
  BY ZenonT(60) DEF OpToRel
<1> HIDE DEF R
<1>3. PICK x \in S : \A y \in S : ~ (<<y, x>> \in R)
  BY <1>1, WFMin, ZenonT(60)
<1>4. \A y \in S : ~ (y < x)
  BY <1>2, <1>3, ZenonT(60)
<1> QED  BY ZenonT(60), <1>4, NotLess

\* What the lemmas of the commitment assume of cardinalities.
LEMMA CountingHolds == Counting
<1>1. SizeCount
  BY ZenonT(60), FS_EmptySet, FS_CardinalityType DEF SizeCount
<1>2. OneCount
  BY ZenonT(60), FS_Singleton DEF OneCount
<1>3. RemoveCount
  BY ZenonT(60), FS_RemoveElement DEF RemoveCount
<1>4. AddCount
  BY ZenonT(60), FS_AddElement DEF AddCount
<1>5. SubsetCount
  BY ZenonT(60), FS_Subset DEF SubsetCount
<1>6. MapCount
  <2> SUFFICES ASSUME NEW S, NEW T, NEW f \in [S -> T], IsFiniteSet(S),
                      \A a, b \in S : f[a] = f[b] => a = b,
                      \A y \in T : \E a \in S : f[a] = y
               PROVE  IsFiniteSet(T) /\ Cardinality(T) = Cardinality(S)
    BY ZenonT(60) DEF MapCount
  <2>1. ExistsBijection(S, T)
    BY ZenonT(60) DEF ExistsBijection, Bijection, Injection, Surjection, IsInjective
  <2> QED  BY ZenonT(60), <2>1, FS_Bijection
<1>7. LeastNumber
  BY ZenonT(60), LeastExists DEF LeastNumber
<1> QED  BY ZenonT(60), <1>1, <1>2, <1>3, <1>4, <1>5, <1>6, <1>7 DEF Counting

\* The invariant of TwoPhaseCommit, where it runs.
CommitIInv == part = "commit" => IInv

LEMMA CommitIInvInit ==
  ASSUME ClusterInit  PROVE CommitIInv
BY ZenonT(60), InvInit, CountingHolds DEF ClusterInit, CommitIInv

LEMMA CommitIInvNext ==
  ASSUME CommitIInv, [ClusterNext]_allvars  PROVE CommitIInv'
<1> SUFFICES ASSUME part' = "commit" PROVE IInv'
  BY ZenonT(60) DEF CommitIInv
<1>1. CASE \E m \in Message : Handle(m)
  <2>1. PICK m \in Message : Handle(m)
    BY ZenonT(60), <1>1
  <2>2. part = "commit" /\ Process(m)
    BY ZenonT(60), <2>1 DEF Handle
  <2> QED  BY ZenonT(60), <2>2, ProcessInv, CountingHolds DEF CommitIInv
<1>2. CASE StepsNext \/ CalvinNext
  BY ZenonT(60), <1>2 DEF StepsNext, CalvinNext
<1>3. CASE UNCHANGED allvars
  <2>1. part = "commit" /\ UNCHANGED vars
    BY ZenonT(60), <1>3 DEF allvars
  <2> QED  BY ZenonT(60), <2>1, InvStutter DEF CommitIInv
<1> QED  BY ZenonT(60), <1>1, <1>2, <1>3 DEF ClusterNext, AtRest

\* The inductive invariant of the commitment holds in every state.
THEOREM CommitIInvHolds == ClusterSpec => []CommitIInv
<1>1. ClusterInit => CommitIInv
  BY ZenonT(60), CommitIInvInit
<1>2. CommitIInv /\ [ClusterNext]_allvars => CommitIInv'
  BY ZenonT(60), CommitIInvNext
<1> QED  BY <1>1, <1>2, PTL DEF ClusterSpec

\* The handlers of worker_thread.cpp keep the types of the managers and of the
\* network.
THEOREM CommitTypes == ClusterSpec => []CommitTypeOK
<1>1. CommitIInv => CommitTypeOK
  BY ZenonT(60), InvImplies, CountingHolds DEF CommitIInv, CommitTypeOK
<1> QED  BY <1>1, CommitIInvHolds, PTL

\* No attempt commits on one node and aborts on another, whatever the order in
\* which process_rprepare, process_rack_prep and process_rfin run.
THEOREM CommitIsAtomic == ClusterSpec => []CommitAtomicity
<1>1. CommitIInv => CommitAtomicity
  BY ZenonT(60), InvImplies, CountingHolds DEF CommitIInv, CommitAtomicity
<1> QED  BY <1>1, CommitIInvHolds, PTL

\* CL_RSP is sent once, and when it is, every touched node has run process_rfin
\* and nothing of the transaction is left on any node.
THEOREM AnswerComesLast == ClusterSpec => []CommitAnswerIsFinal
<1>1. CommitIInv => CommitAnswerIsFinal
  BY ZenonT(60), InvImplies, CountingHolds DEF CommitIInv, CommitAnswerIsFinal
<1> QED  BY <1>1, CommitIInvHolds, PTL

\* rsp_cnt is the number of votes or acknowledgements that received_response has
\* still to see.
THEOREM ResponsesAreCounted == ClusterSpec => []CommitResponsesCounted
<1>1. CommitIInv => CommitResponsesCounted
  BY ZenonT(60), InvImplies, CountingHolds DEF CommitIInv, CommitResponsesCounted
<1> QED  BY <1>1, CommitIInvHolds, PTL

\* No late message makes get_transaction_manager create a manager that nobody
\* releases.
THEOREM ManagersAreFound == ClusterSpec => []CommitNoGhostManager
<1>1. CommitIInv => CommitNoGhostManager
  BY ZenonT(60), InvImplies, CountingHolds DEF CommitIInv, CommitNoGhostManager
<1> QED  BY <1>1, CommitIInvHolds, PTL

\* The abort queue restarts a transaction when nothing of its last attempt is left
\* (every build but TICTOC).
THEOREM RetriesAreClean == ClusterSpec => []CommitCleanRetry
<1>1. CommitIInv => CommitCleanRetry
  BY ZenonT(60), InvImplies, CountingHolds DEF CommitIInv, CommitCleanRetry
<1> QED  BY <1>1, CommitIInvHolds, PTL

\* Every handler is a step of AtomicCommit or changes nothing it sees (every
\* build but TICTOC, whose start_commit retries while other nodes hold work).
THEOREM CommitImplementsAtomicCommit == ClusterSpec => CommitsAtomically
<1>1. ClusterInit => AC!Init
  BY ZenonT(60), InitStep DEF ClusterInit, CommitInit
<1>2. CommitIInv /\ [ClusterNext]_allvars =>
        [part = "commit" /\ CC_ALG # "TICTOC" => AC!Next]_(AC!vars)
  <2> SUFFICES ASSUME CommitIInv, [ClusterNext]_allvars, part = "commit", CC_ALG # "TICTOC"
               PROVE  AC!Next \/ UNCHANGED AC!vars
    BY ZenonT(60)
  <2>1. IInv
    BY ZenonT(60) DEF CommitIInv
  <2>2. CASE \E m \in Message : Handle(m)
    <3>1. PICK m \in Message : Handle(m)
      BY ZenonT(60), <2>2
    <3>2. Process(m)
      BY ZenonT(60), <3>1 DEF Handle
    <3> QED  BY ZenonT(60), <2>1, <3>2, ProcessStep, CountingHolds DEF Implements
  <2>3. CASE UNCHANGED allvars
    <3>1. UNCHANGED <<held, outcome, answers>>
      BY ZenonT(60), <2>3 DEF allvars, vars
    <3> QED  BY ZenonT(60), <3>1, SameStatus DEF Implements
  <2>4. ~ StepsNext /\ ~ CalvinNext
    BY ZenonT(60) DEF StepsNext, CalvinNext
  <2> QED  BY ZenonT(60), <2>2, <2>3, <2>4 DEF ClusterNext, AtRest
<1> QED  BY <1>1, <1>2, CommitIInvHolds, PTL DEF ClusterSpec, CommitsAtomically
=============================================================================
