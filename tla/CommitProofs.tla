--------------------------- MODULE CommitProofs ----------------------------
(***************************************************************************)
(* What is proved of TwoPhaseCommit for every set of nodes, transactions and*)
(* queries, in every build that votes as modelled there: the invariant holds,*)
(* and every handler is a step of AtomicCommit or none.                    *)
(***************************************************************************)
EXTENDS CommitHandlers

\* process_rack_prep, the last vote.
LEMMA ProcessRackPrepInv ==
  ASSUME Counting, IInv, NEW t \in Txn, NEW m \in InFlight(t), ProcessRackPrep(m)
  PROVE  IInv'
<1> DEFINE h == home[t]
           c == partitions_touched[t]
           hs == held[t]
<1>1. m.type = "RACK_PREP" /\ ResponsesLeft(m) = 0
  BY Zenon DEF ProcessRackPrep
<1>2. /\ m.txn = t /\ h \in Node /\ m.rc \in RC /\ m.node \in c \ {h}
      /\ VotePhase(t) /\ InFlight(t) = {m}
  BY ZenonT(30), <1>1, ResponseProps
<1>3. PICK code \in RC : /\ code = "RCOK" => NewRc(m) = "RCOK"
                         /\ code = "Abort" /\ NewRc(m) = "RCOK" => CanAbort(t)
                         /\ Decide(m, t, c, hs, code)
  BY Zenon, <1>2 DEF ProcessRackPrep
<1>4. NewRc(m) = (IF rc[t][h] = "RCOK" THEN m.rc ELSE rc[t][h]) /\ rc[t][h] \in RC
  BY <1>2 DEF NewRc, IInv, TypeOK
<1>5. /\ answers[t] = 0 /\ Acked(t)
      /\ h \in c /\ c \subseteq table[t]
      /\ aborted[t] \subseteq c /\ hs \cap aborted[t] = {}
  BY Zenon, <1>2 DEF VotePhase
<1>6. /\ \A k \in Node : outcome[t][k] = IF k \in aborted[t] THEN "aborted" ELSE "none"
      /\ \A k \in Node \ {h} : rc[t][k] = IF k \in aborted[t] THEN "Abort" ELSE "RCOK"
  BY Zenon, <1>2 DEF VotePhase
<1>7. /\ rc[t][h] = "RCOK" /\ m.rc = "RCOK" => aborted[t] = {}
      /\ rc[t][h] = "Abort" \/ m.rc = "Abort" => CanAbort(t)
  BY Zenon, <1>2 DEF VotePhase
<1>8. m \in Message /\ c \in SUBSET Node /\ hs \in SUBSET c
  BY ZenonT(30) DEF InFlight, IInv, TypeOK, TxnInv, MsgInv
<1>9. Alone(t, m, c, hs)
  BY Zenon, <1>2, <1>5, <1>8 DEF Sole, Alone
<1>10. c # {h}
  BY Zenon, <1>2
<1>11. code = "Abort" =>
         /\ CanAbort(t) /\ aborted[t] \subseteq c
         /\ \A n \in Node : outcome[t][n] = IF n \in aborted[t] THEN "aborted" ELSE "none"
         /\ \A n \in Node \ {h} : rc[t][n] = "Abort" => n \in aborted[t]
  <2>1. code = "Abort" => CanAbort(t)
    BY ZenonT(30), <1>2, <1>3, <1>4, <1>7 DEF RC
  <2>2. \A n \in Node \ {h} : rc[t][n] = "Abort" => n \in aborted[t]
    BY Zenon, <1>6
  <2> QED  BY ZenonT(30), <1>5, <1>6, <2>1, <2>2
<1>12. code = "RCOK" =>
         /\ Acked(t) /\ aborted[t] = {}
         /\ \A n \in Node : outcome[t][n] = "none"
         /\ \A n \in Node \ {h} : rc[t][n] = "RCOK"
  <2>1. code = "RCOK" => aborted[t] = {}
    BY ZenonT(30), <1>3, <1>4, <1>7 DEF RC
  <2> QED  BY ZenonT(30), <1>5, <1>6, <2>1
<1>13. MayDecide(t, c, hs, code)
  BY Zenon, <1>5, <1>11, <1>12 DEF MayDecide
<1> QED  BY Zenon, <1>3, <1>9, <1>10, <1>13, DecideInv

\* process_rack_rfin, the last acknowledgement.
LEMMA ProcessRackFinInv ==
  ASSUME Counting, IInv, NEW t \in Txn, NEW m \in InFlight(t), ProcessRackFin(m)
  PROVE  IInv'
<1> DEFINE h == home[t]
           c == partitions_touched[t]
           hs == held[t]
<1>1. m.type = "RACK_FIN" /\ ResponsesLeft(m) = 0
  BY Zenon DEF ProcessRackFin
<1>2. /\ m.txn = t /\ h \in Node /\ m.rc \in RC
      /\ AbortPhase(t) \/ (CommitPhase(t) /\ Acked(t))
      /\ InFlight(t) = {m}
  BY ZenonT(30), <1>1, ResponseProps
<1>3. NewRc(m) = IF rc[t][h] = "RCOK" THEN m.rc ELSE rc[t][h]
  BY Zenon, <1>2 DEF NewRc
<1>4. ToFinish(t) = {}
  BY ZenonT(30), <1>1, <1>2 DEF ToFinish
<1>5. m \in Message /\ c \in SUBSET Node /\ hs \in SUBSET c
  BY ZenonT(30) DEF InFlight, IInv, TypeOK, TxnInv, MsgInv
<1>6. ASSUME CommitPhase(t), Acked(t) PROVE IInv'
  <2>1. /\ answers[t] = 0 /\ h \notin hs /\ outcome[t][h] = "committed"
        /\ h \in table[t] /\ m.rc = "RCOK" /\ rc[t][h] = "RCOK"
        /\ hs \subseteq {h} /\ table[t] \subseteq {h}
    BY ZenonT(30), <1>2, <1>4, <1>6 DEF CommitPhase
  <2>2. \A n \in Node \ {h} : outcome[t][n] = IF n \in c THEN "committed" ELSE "none"
    BY ZenonT(30), <1>4, <1>6 DEF CommitPhase
  <2>3. h \in c
    BY Zenon, <2>1 DEF IInv, TxnInv, MsgInv
  <2>4. Answer(m, t, c, hs)
    BY ZenonT(30), <1>2, <1>3, <2>1 DEF ProcessRackFin
  <2>5. Sole(t, m, c, hs) /\ hs = {}
    BY ZenonT(30), <1>2, <1>5, <2>1, <2>3 DEF Sole
  <2>6. \A n \in Node : outcome[t][n] # "aborted"
    BY Zenon, <2>1, <2>2
  <2>7. \A n \in c \ {h} : outcome[t][n] = "committed"
    BY Zenon, <1>5, <2>2
  <2> QED  BY Zenon, <2>1, <2>4, <2>5, <2>6, <2>7, AnswerInv
<1>7. ASSUME AbortPhase(t) PROVE IInv'
  <2>1. /\ answers[t] = 0 /\ CanAbort(t) /\ h \in c /\ c \subseteq table[t]
        /\ rc[t][h] = "Abort" /\ aborted[t] \subseteq {h} /\ hs = {}
        /\ \A n \in Node \ {h} : rc[t][n] = "Abort" => n \in aborted[t]
    BY ZenonT(30), <1>4, <1>7 DEF AbortPhase
  <2>2. \A n \in Node \ {h} : rc[t][n] = "RCOK"
    BY <2>1 DEF IInv, TypeOK, RC
  <2>3. AbortQueue(m, t, c, hs)
    BY Zenon, <1>2, <1>3, <2>1 DEF ProcessRackFin
  <2>4. Alone(t, m, c, hs)
    BY Zenon, <1>2, <1>5, <2>1 DEF Sole, Alone
  <2> QED  BY ZenonT(30), <2>1, <2>2, <2>3, <2>4, AbortQueueInv
<1> QED  BY ZenonT(30), <1>2, <1>6, <1>7
-----------------------------------------------------------------------------
(***************************************************************************)
(* The invariant and what it implies.                                      *)
(***************************************************************************)
LEMMA InvInit ==
  ASSUME Counting, Init  PROVE IInv
<1>1. TypeOK
  <2>1. abort_cnt \in [Txn -> 0..MaxAborts] /\ waits \in [Txn -> 0..MaxWaits]
    BY BoundAssumption DEF Init
  <2>2. net \in [Message -> Nat]
    BY Zenon DEF Init
  <2> QED  BY <2>1, <2>2 DEF Init, TypeOK, RC
<1>2. ASSUME NEW t \in Txn PROVE TxnInv(t)
  <2> DEFINE r == Msg("RTXN", t, home[t], "RCOK")
  <2>1. /\ r \in Message /\ r.type = "RTXN" /\ r.txn = t /\ r.node = home[t] /\ r.rc = "RCOK"
        /\ home[t] \in Node
    BY Zenon, HomeAssumption DEF Msg, Message, MsgType, RC
  <2>2. \A x \in Message : x.txn = t => (net[x] > 0 <=> x = r)
    <3> TAKE x \in Message
    <3>1. \A u \in Txn : Msg("RTXN", u, home[u], "RCOK").txn = u
      BY Zenon DEF Msg
    <3>2. net[x] = IF \E u \in Txn : x = Msg("RTXN", u, home[u], "RCOK") THEN 1 ELSE 0
      BY Zenon DEF Init
    <3> QED  BY <3>1, <3>2
  <2>3. net[r] = 1
    BY Zenon, <2>1 DEF Init
  <2> HIDE DEF r
  <2>4. InFlight(t) = {r}
    BY Zenon, <2>1, <2>2 DEF InFlight
  <2>5. /\ partitions_touched[t] = {} /\ rsp_cnt[t] = 0 /\ aborted[t] = {} /\ table[t] = {}
        /\ held[t] = {} /\ answers[t] = 0
        /\ \A n \in Node : rc[t][n] = "RCOK" /\ outcome[t][n] = "none"
    BY Zenon DEF Init
  <2>6. MsgInv(t)
    BY ZenonT(30), <2>1, <2>3, <2>4, <2>5 DEF MsgInv, Counting, OneCount
  <2>7. ExecPhase(t)
    BY ZenonT(30), <2>1, <2>4, <2>5 DEF ExecPhase, Executing, Fails
  <2> QED  BY Zenon, <2>6, <2>7 DEF TxnInv
<1> QED  BY Zenon, <1>1, <1>2 DEF IInv

LEMMA ProcessInv ==
  ASSUME Counting, IInv, NEW m \in Message, Process(m)  PROVE IInv'
<1>1. m.txn \in Txn
  BY Zenon DEF Message
<1>2. m \in InFlight(m.txn)
  BY Zenon DEF Process, InFlight
<1> QED  BY ZenonT(30), <1>1, <1>2, ProcessRtxnInv, ProcessRqryRspInv, ProcessRqryInv, ProcessRprepareInv,
            ProcessRfinInv, ReceivedResponseInv, ProcessRackPrepInv, ProcessRackFinInv
         DEF Process

\* Nothing happens.
LEMMA InvStutter ==
  ASSUME IInv, UNCHANGED vars  PROVE IInv'
<1>1. TypeOK'
  BY Zenon DEF IInv, TypeOK, vars, query
<1>2. ASSUME NEW t \in Txn PROVE TxnInv(t)'
  <2>1. InFlight(t)' = InFlight(t)
    BY Zenon DEF InFlight, vars
  <2>2. TxnInv(t) /\ UNCHANGED vars
    BY Zenon DEF IInv
  <2> QED  BY ZenonT(30), <2>1, <2>2, TxnFrame DEF vars, query
<1> QED  BY Zenon, <1>1, <1>2 DEF IInv

\* What the invariant says of the messages.
LEMMA InvImplies ==
  ASSUME Counting, IInv
  PROVE  /\ TypeOK /\ Atomicity /\ AnswerIsFinal /\ ResponsesCounted /\ NoGhostManager
         /\ CC_ALG # "TICTOC" => CleanRetry
<1>1. TypeOK /\ \A t \in Txn : MsgInv(t)
  BY Zenon DEF IInv, TxnInv
<1>2. Atomicity
  <2> SUFFICES ASSUME NEW t \in Txn, NEW j \in Node, NEW k \in Node,
                      outcome[t][j] = "committed", outcome[t][k] = "aborted"
               PROVE  FALSE
    BY Zenon DEF Atomicity
  <2>1. ~ ExecPhase(t)
    BY Zenon DEF ExecPhase
  <2>2. ~ VotePhase(t) /\ ~ AbortPhase(t) /\ ~ DonePhase(t)
    BY Zenon DEF VotePhase, AbortPhase, DonePhase
  <2>3. ~ CommitPhase(t)
    BY Zenon DEF CommitPhase
  <2> QED  BY ZenonT(30), <2>1, <2>2, <2>3 DEF IInv, TxnInv
<1>3. AnswerIsFinal
  <2> SUFFICES ASSUME NEW t \in Txn, answers[t] > 0
               PROVE  /\ answers[t] = 1
                      /\ \A n \in partitions_touched[t] : outcome[t][n] = "committed"
                      /\ held[t] = {} /\ table[t] = {} /\ InFlight(t) = {}
    BY Zenon DEF AnswerIsFinal
  <2>1. ~ ExecPhase(t) /\ ~ VotePhase(t)
    BY DEF ExecPhase, VotePhase
  <2>2. ~ CommitPhase(t) /\ ~ AbortPhase(t)
    BY DEF CommitPhase, AbortPhase
  <2>3. DonePhase(t)
    BY Zenon, <2>1, <2>2 DEF IInv, TxnInv
  <2> QED  BY Zenon, <2>3 DEF DonePhase
<1>4. ResponsesCounted
  <2> SUFFICES ASSUME NEW t \in Txn, Acked(t)
               PROVE  rsp_cnt[t] = Cardinality({m \in InFlight(t) :
                        m.type \in {"RPREPARE", "RACK_PREP", "RFIN", "RACK_FIN"}})
    BY Zenon DEF ResponsesCounted, Acked
  <2> DEFINE S == {m \in InFlight(t) : m.type \in {"RPREPARE", "RACK_PREP", "RFIN", "RACK_FIN"}}
  <2>1. ASSUME ExecPhase(t) \/ DonePhase(t) PROVE rsp_cnt[t] = Cardinality(S)
    <3>1. S = {} /\ rsp_cnt[t] = 0
      BY Zenon, <2>1 DEF ExecPhase, DonePhase, Executing
    <3> QED  BY Zenon, <3>1 DEF Counting, SizeCount
  <2>2. ASSUME VotePhase(t) \/ CommitPhase(t) \/ AbortPhase(t)
        PROVE  rsp_cnt[t] = Cardinality(S)
    <3>1. S = InFlight(t)
      BY <2>2 DEF VotePhase, CommitPhase, AbortPhase, Voting, Finishing
    <3>2. rsp_cnt[t] = Cardinality(InFlight(t))
      BY Zenon, <2>2 DEF VotePhase, CommitPhase, AbortPhase
    <3> QED  BY Zenon, <3>1, <3>2
  <2> QED  BY Zenon, <2>1, <2>2 DEF IInv, TxnInv
<1>5. NoGhostManager
  <2> SUFFICES ASSUME NEW t \in Txn, NEW m \in InFlight(t)
               PROVE  /\ net[m] = 1
                      /\ \A x \in InFlight(t) : x.node = m.node => x = m
                      /\ m.type \notin {"RTXN", "RQRY"} =>
                           (IF m.type \in {"RQRY_CONT", "RPREPARE", "RFIN"} THEN m.node
                            ELSE home[t]) \in table[t]
    BY Zenon DEF NoGhostManager
  <2>1. /\ net[m] = 1
        /\ \A x \in InFlight(t) : x.node = m.node => x = m
        /\ m.type \notin {"RTXN", "RTXN_CONT"} => m.node \in partitions_touched[t] \ {home[t]}
        /\ m.node \in Node /\ m.type \in MsgType
    <3>1. m.node \in Node /\ m.type \in MsgType
      BY Zenon DEF InFlight, Message
    <3> QED  BY Zenon, <1>1, <3>1 DEF MsgInv
  <2>2. ASSUME m.type \in Executing, m.type \notin {"RTXN", "RQRY"}
        PROVE  home[t] \in table[t] /\ (m.type = "RQRY_CONT" => m.node \in table[t])
    BY <2>1, <2>2, ExecProps
  <2>3. ASSUME VotePhase(t) \/ AbortPhase(t)
        PROVE  home[t] \in table[t] /\ (m.type \notin Executing => m.node \in table[t])
    BY Zenon, <2>1, <2>3 DEF VotePhase, AbortPhase, Executing
  <2>4. ASSUME CommitPhase(t)
        PROVE  home[t] \in table[t] /\ (m.type = "RFIN" => m.node \in table[t])
    <3>1. m.type = "RFIN" => m.node \in ToFinish(t)
      BY Zenon, <2>1 DEF ToFinish
    <3> QED  BY Zenon, <2>4, <3>1 DEF CommitPhase
  <2>5. m.type \notin Executing => VotePhase(t) \/ AbortPhase(t) \/ CommitPhase(t)
    BY Zenon, <2>1, PhaseOf DEF MsgType, Executing, Voting, Finishing
  <2>6. CASE m.type \in Executing
    BY ZenonT(30), <2>1, <2>2, <2>6 DEF Executing
  <2>7. CASE m.type \notin Executing
    <3>1. home[t] \in table[t] /\ (m.type \in {"RPREPARE", "RFIN"} => m.node \in table[t])
      <4>1. CASE CommitPhase(t)
        <5>1. m.type # "RPREPARE"
          BY Zenon, <4>1 DEF CommitPhase, Finishing
        <5> QED  BY Zenon, <2>4, <4>1, <5>1
      <4> QED  BY ZenonT(30), <2>3, <2>5, <2>7, <4>1
    <3> QED  BY ZenonT(30), <2>1, <2>7, <3>1 DEF Executing
  <2> QED  BY Zenon, <2>6, <2>7
<1>6. ASSUME CC_ALG # "TICTOC" PROVE CleanRetry
  <2> SUFFICES ASSUME NEW t \in Txn, net[Msg("RTXN", t, home[t], "RCOK")] > 0
               PROVE  /\ held[t] = {} /\ aborted[t] = {} /\ rsp_cnt[t] = 0
                      /\ Cardinality(InFlight(t)) = 1
    BY Zenon DEF CleanRetry
  <2> DEFINE m == Msg("RTXN", t, home[t], "RCOK")
  <2>1. m \in Message /\ m.txn = t /\ m.type = "RTXN" /\ m.type \in Executing /\ net[m] > 0
    BY Zenon, HomeAssumption DEF Msg, Message, MsgType, RC, Executing
  <2> HIDE DEF m
  <2>2. m \in InFlight(t) /\ ~ Fails(m)
    BY Zenon, <2>1 DEF InFlight, Fails
  <2>3. InFlight(t) = {m} /\ held[t] = {} /\ rsp_cnt[t] = 0
    BY <1>6, <2>1, <2>2, ExecProps
  <2>4. aborted[t] = {}
    BY <2>1, <2>2, ExecProps
  <2> QED  BY Zenon, <2>3, <2>4 DEF Counting, OneCount
<1> QED  BY ZenonT(30), <1>1, <1>2, <1>3, <1>4, <1>5, <1>6

\* A step of AtomicCommit, or no step.
Implements == AC!Next \/ UNCHANGED AC!vars

LEMMA ExceptAt ==
  ASSUME NEW A, NEW B, NEW V, NEW f \in [A -> [B -> V]], NEW a \in A, NEW b \in B, NEW v
  PROVE  [f EXCEPT ![a][b] = v]
           = [x \in A |-> [y \in B |-> IF x = a /\ y = b THEN v ELSE f[x][y]]]
<1>1. [f EXCEPT ![a][b] = v] = [f EXCEPT ![a] = [f[a] EXCEPT ![b] = v]]
  BY Zenon
<1>2. [f[a] EXCEPT ![b] = v] = [y \in B |-> IF y = b THEN v ELSE f[a][y]]
  BY Zenon
<1>3. \A x \in A \ {a} : f[x] = [y \in B |-> f[x][y]]
  BY Zenon
<1> QED  BY ZenonT(30), <1>1, <1>2, <1>3

\* The work of t ends, or starts, on node n only.
LEMMA StatusOne ==
  ASSUME NEW t \in Txn, NEW n \in Node,
         \A u \in Txn \ {t} : held'[u] = held[u] /\ outcome'[u] = outcome[u],
         \A k \in Node \ {n} :
           (k \in held'[t] <=> k \in held[t]) /\ outcome'[t][k] = outcome[t][k]
  PROVE  Status' = [Status EXCEPT ![t][n] =
                      IF n \in held'[t] THEN "active" ELSE outcome'[t][n]]
<1> DEFINE v == IF n \in held'[t] THEN "active" ELSE outcome'[t][n]
           W == {Status[u][k] : u \in Txn, k \in Node}
           S == [u \in Txn |-> [k \in Node |-> IF u = t /\ k = n THEN v ELSE Status[u][k]]]
<1>1. Status \in [Txn -> [Node -> W]]
  BY DEF Status
<1> HIDE DEF v, W
<1>2. [Status EXCEPT ![t][n] = v] = S
  BY ZenonT(30), <1>1, ExceptAt
<1>3. \A u \in Txn : \A k \in Node :
        (IF k \in held'[u] THEN "active" ELSE outcome'[u][k])
          = (IF u = t /\ k = n THEN v
             ELSE IF k \in held[u] THEN "active" ELSE outcome[u][k])
  BY Zenon DEF v
<1>4. S = [u \in Txn |-> [k \in Node |-> IF u = t /\ k = n THEN v
             ELSE IF k \in held[u] THEN "active" ELSE outcome[u][k]]]
  BY Zenon DEF Status
<1>5. Status' = [u \in Txn |-> [k \in Node |->
                   IF k \in held'[u] THEN "active" ELSE outcome'[u][k]]]
  BY Zenon DEF Status
<1>6. Status' = S
  BY <1>3, <1>4, <1>5
<1> QED  BY ZenonT(30), <1>2, <1>6 DEF v

LEMMA StatusAt ==
  ASSUME NEW t \in Txn, NEW n \in Node
  PROVE  Status[t][n] = IF n \in held[t] THEN "active" ELSE outcome[t][n]
BY Zenon DEF Status

\* Accesses to rows of node n.
LEMMA WorkStep ==
  ASSUME TypeOK, NEW t \in Txn, NEW n \in Node, answers[t] = 0, outcome[t][n] = "none",
         NEW hs, hs \in {held[t], held[t] \cup {n}}, held' = [held EXCEPT ![t] = hs],
         UNCHANGED <<outcome, answers>>
  PROVE  Implements
<1>1. CASE hs = held[t]
  <2>1. held' = held
    BY Zenon, <1>1 DEF TypeOK
  <2>2. Status' = Status
    BY Zenon, <2>1 DEF Status
  <2> QED  BY Zenon, <2>2 DEF Implements, AC!vars
<1>2. CASE hs = held[t] \cup {n}
  <2>1. held'[t] = held[t] \cup {n} /\ \A u \in Txn \ {t} : held'[u] = held[u]
    BY Zenon, <1>2 DEF TypeOK
  <2>2. Status' = [Status EXCEPT ![t][n] = IF n \in held'[t] THEN "active" ELSE outcome'[t][n]]
    BY Zenon, <2>1, StatusOne
  <2>3. Status' = [Status EXCEPT ![t][n] = "active"]
    BY ZenonT(30), <2>1, <2>2
  <2>4. Status[t][n] \in {"none", "active"}
    BY Zenon, StatusAt
  <2>5. AC!Work(t, n)
    BY Zenon, <2>3, <2>4 DEF AC!Work, AC!Open
  <2> QED  BY Zenon, <2>5 DEF Implements, AC!Next
<1> QED  BY Zenon, <1>1, <1>2

\* The work on node n is undone or made final.
LEMMA EndStep ==
  ASSUME TypeOK, NEW t \in Txn, NEW n \in Node, answers[t] = 0, outcome[t][n] = "none",
         NEW hs, hs \in {held[t], held[t] \cup {n}}, held' = [held EXCEPT ![t] = hs \ {n}],
         NEW end \in {"aborted", "committed"}, outcome' = [outcome EXCEPT ![t][n] = end],
         \A k \in Node : outcome[t][k] \in {"none", end},
         UNCHANGED answers
  PROVE  Implements
<1>1. /\ held'[t] = hs \ {n}
      /\ \A u \in Txn \ {t} : held'[u] = held[u] /\ outcome'[u] = outcome[u]
  BY Zenon DEF TypeOK
<1>2. outcome'[t][n] = end /\ \A k \in Node \ {n} : outcome'[t][k] = outcome[t][k]
  BY Zenon DEF TypeOK
<1>3. \A k \in Node \ {n} : k \in held'[t] <=> k \in held[t]
  BY Zenon, <1>1
<1>4. Status' = [Status EXCEPT ![t][n] = IF n \in held'[t] THEN "active" ELSE outcome'[t][n]]
  BY ZenonT(30), <1>1, <1>2, <1>3, StatusOne
<1>5. Status' = [Status EXCEPT ![t][n] = end]
  BY ZenonT(30), <1>1, <1>2, <1>4
<1>6. Status[t][n] \in {"none", "active"}
  BY Zenon, StatusAt
<1>7. \A k \in Node : Status[t][k] \in {"none", "active", end}
  BY Zenon, StatusAt
<1>8. CASE end = "aborted"
  <2>1. AC!Abort(t, n)
    BY ZenonT(30), <1>5, <1>6, <1>7, <1>8 DEF AC!Abort, AC!Open
  <2> QED  BY Zenon, <2>1 DEF Implements, AC!Next
<1>9. CASE end = "committed"
  <2>1. AC!Commit(t, n)
    BY ZenonT(30), <1>5, <1>6, <1>7, <1>9 DEF AC!Commit, AC!Open
  <2> QED  BY Zenon, <2>1 DEF Implements, AC!Next
<1> QED  BY Zenon, <1>8, <1>9

\* Another attempt.
LEMMA RetryStep ==
  ASSUME TypeOK, NEW t \in Txn, NEW n \in Node, answers[t] = 0, held[t] \subseteq {n},
         held' = [held EXCEPT ![t] = {}],
         outcome' = [outcome EXCEPT ![t] = [k \in Node |-> "none"]],
         \A k \in Node : outcome[t][k] # "committed",
         UNCHANGED answers
  PROVE  Implements
<1>1. /\ held'[t] = {} /\ \A k \in Node : outcome'[t][k] = "none"
      /\ \A u \in Txn \ {t} : held'[u] = held[u] /\ outcome'[u] = outcome[u]
  BY Zenon DEF TypeOK
<1>2. Status' = [u \in Txn |-> IF u = t THEN [k \in Node |-> "none"] ELSE Status[u]]
  <2>1. \A k \in Node : (IF k \in held'[t] THEN "active" ELSE outcome'[t][k]) = "none"
    BY Zenon, <1>1
  <2>2. Status' = [u \in Txn |-> [k \in Node |->
                     IF k \in held'[u] THEN "active" ELSE outcome'[u][k]]]
    BY Zenon DEF Status
  <2>3. \A u \in Txn \ {t} : Status[u] = [k \in Node |->
                               IF k \in held'[u] THEN "active" ELSE outcome'[u][k]]
    BY Zenon, <1>1 DEF Status
  <2>4. [k \in Node |-> IF k \in held'[t] THEN "active" ELSE outcome'[t][k]]
          = [k \in Node |-> "none"]
    BY Zenon, <2>1
  <2>5. \A u \in Txn : [k \in Node |-> IF k \in held'[u] THEN "active" ELSE outcome'[u][k]]
                        = IF u = t THEN [k \in Node |-> "none"] ELSE Status[u]
    BY ZenonT(30), <2>3, <2>4
  <2> QED  BY Zenon, <2>2, <2>5
<1>3. DOMAIN Status = Txn /\ Status = [u \in Txn |-> Status[u]]
  BY Zenon DEF Status
<1>4. Status' = [Status EXCEPT ![t] = [k \in Node |-> "none"]]
  BY Zenon, <1>2, <1>3
<1>5. \A k \in Node \ {n} : Status[t][k] \in {"none", "aborted"}
  BY StatusAt DEF TypeOK
<1>6. Status[t][n] # "committed"
  BY Zenon, StatusAt
<1>7. AC!Retry(t)
  BY Zenon, <1>4, <1>5, <1>6 DEF AC!Retry
<1> QED  BY Zenon, <1>7 DEF Implements, AC!Next

\* The answer.
LEMMA AnswerStep ==
  ASSUME TypeOK, NEW t \in Txn, NEW n \in Node, answers[t] = 0, held[t] \subseteq {n},
         held' = [held EXCEPT ![t] = {}],
         outcome' = [outcome EXCEPT ![t][n] = "committed"],
         \A k \in Node : outcome[t][k] # "aborted",
         answers' = [answers EXCEPT ![t] = @ + 1]
  PROVE  Implements
<1>1. /\ held'[t] = {}
      /\ \A u \in Txn \ {t} : held'[u] = held[u] /\ outcome'[u] = outcome[u]
  BY Zenon DEF TypeOK
<1>2. outcome'[t][n] = "committed" /\ \A k \in Node \ {n} : outcome'[t][k] = outcome[t][k]
  BY Zenon DEF TypeOK
<1>3. \A k \in Node \ {n} : k \in held'[t] <=> k \in held[t]
  BY Zenon, <1>1
<1>4. Status' = [Status EXCEPT ![t][n] = IF n \in held'[t] THEN "active" ELSE outcome'[t][n]]
  BY <1>1, <1>2, <1>3, StatusOne
<1>5. Status' = [Status EXCEPT ![t][n] = "committed"]
  BY Zenon, <1>1, <1>2, <1>4
<1>6. \A k \in Node \ {n} : Status[t][k] \in {"none", "committed"}
  BY StatusAt DEF TypeOK
<1>7. Status[t][n] # "aborted"
  BY Zenon, StatusAt
<1>8. answers' = [answers EXCEPT ![t] = 1]
  BY DEF TypeOK
<1>9. AC!Answer(t)
  BY Zenon, <1>5, <1>6, <1>7, <1>8 DEF AC!Answer
<1> QED  BY Zenon, <1>9 DEF Implements, AC!Next
-----------------------------------------------------------------------------
\* start_abort: the home aborts, or tries again at once.
LEMMA StartAbortStep ==
  ASSUME Counting, TypeOK, NEW t \in Txn, NEW m, NEW c \in SUBSET Node, home[t] \in c,
         held[t] \subseteq c, NEW hs, hs \in {held[t], held[t] \cup {home[t]}},
         answers[t] = 0, outcome[t][home[t]] = "none",
         \A k \in Node : outcome[t][k] \in {"none", "aborted"},
         StartAbort(m, t, c, hs)
  PROVE  Implements
<1> DEFINE h == home[t]
<1>1. h \in Node /\ "RFIN" \in MsgType /\ "Abort" \in RC
  BY Zenon, HomeAssumption DEF MsgType, RC
<1>2. Cardinality(c) > 1 <=> c # {h}
  BY Zenon, <1>1, OthersProps
<1>3. CASE c # {h}
  <2>1. Decide(m, t, c, hs, "Abort")
    BY Zenon, <1>2, <1>3 DEF StartAbort
  <2>2. /\ held' = [held EXCEPT ![t] = hs \ {h}]
        /\ outcome' = [outcome EXCEPT ![t][h] = "aborted"] /\ UNCHANGED answers
    BY Zenon, <2>1 DEF Decide
  <2> QED  BY ZenonT(30), <1>1, <2>2, EndStep
<1>4. CASE c = {h}
  <2>1. AbortQueue(m, t, c, hs \ {h}) /\ hs \ {h} = {}
    BY Zenon, <1>2, <1>4 DEF StartAbort
  <2>2. /\ held' = [held EXCEPT ![t] = {}] /\ UNCHANGED answers
        /\ outcome' = [outcome EXCEPT ![t] = [n \in Node |-> "none"]]
    BY Zenon, <2>1 DEF AbortQueue
  <2>3. \A k \in Node : outcome[t][k] # "committed"
    BY Zenon
  <2> QED  BY ZenonT(30), <1>1, <1>4, <2>2, <2>3, RetryStep
<1> QED  BY Zenon, <1>3, <1>4

\* start_commit: work before the votes, the answer, or an abort.
LEMMA StartCommitStep ==
  ASSUME Counting, TypeOK, CC_ALG # "TICTOC", NEW t \in Txn, NEW m, NEW c \in SUBSET Node,
         home[t] \in c, held[t] \subseteq c,
         NEW hs, hs \in {held[t], held[t] \cup {home[t]}},
         answers[t] = 0, \A k \in Node : outcome[t][k] = "none",
         StartCommit(m, t, c, hs)
  PROVE  Implements
<1> DEFINE h == home[t]
           multi == Cardinality(c) > 1
<1>1. h \in Node /\ "RFIN" \in MsgType /\ "Abort" \in RC
  BY Zenon, HomeAssumption DEF MsgType, RC
<1>2. multi <=> c # {h}
  BY ZenonT(30), <1>1, OthersProps
<1>3. \/ held' = [held EXCEPT ![t] = hs] /\ UNCHANGED <<answers, outcome>>
      \/ ~ multi /\ Answer(m, t, c, hs \ {h})
      \/ StartAbort(m, t, c, hs)
  BY Zenon DEF StartCommit
<1>4. CASE held' = [held EXCEPT ![t] = hs] /\ UNCHANGED <<answers, outcome>>
  BY ZenonT(30), <1>1, <1>4, WorkStep
<1>5. CASE ~ multi /\ Answer(m, t, c, hs \ {h})
  <2>1. c = {h} /\ hs \ {h} = {} /\ outcome[t][h] = "none"
    BY ZenonT(30), <1>1, <1>2, <1>5
  <2>2. /\ held' = [held EXCEPT ![t] = {}] /\ answers' = [answers EXCEPT ![t] = @ + 1]
        /\ outcome' = [outcome EXCEPT ![t][h] = IF @ = "none" THEN "committed" ELSE @]
    BY ZenonT(30), <1>5, <2>1 DEF Answer
  <2>3. outcome' = [outcome EXCEPT ![t][h] = "committed"]
    BY ZenonT(30), <1>1, <2>1, <2>2 DEF TypeOK
  <2>4. \A k \in Node : outcome[t][k] # "aborted"
    BY Zenon
  <2> QED  BY ZenonT(30), <1>1, <2>1, <2>2, <2>3, <2>4, AnswerStep
<1>6. CASE StartAbort(m, t, c, hs)
  BY <1>1, <1>6, StartAbortStep
<1> QED  BY ZenonT(30), <1>3, <1>4, <1>5, <1>6

\* run_txn at the home.
LEMMA RunTxnStep ==
  ASSUME Counting, TypeOK, CC_ALG # "TICTOC", NEW t \in Txn, NEW m, NEW p,
         held[t] \subseteq partitions_touched[t],
         NEW hs, hs \in {held[t], held[t] \cup {home[t]}},
         answers[t] = 0, \A k \in Node : outcome[t][k] = "none",
         RunTxn(m, t, p, hs)
  PROVE  Implements
<1> DEFINE h == home[t]
           q == FirstRemote(t, p)
           c == partitions_touched[t] \cup {h}
           after(j) == IF j > p THEN hs \cup {h} ELSE hs
<1>1. /\ h \in Node /\ c \in SUBSET Node /\ h \in c /\ held[t] \subseteq c
      /\ outcome[t][h] = "none"
  BY ZenonT(30), HomeAssumption DEF TypeOK
<1>2. \A j : after(j) \in {held[t], held[t] \cup {h}}
  BY Zenon
<1>3. \/ held' = [held EXCEPT ![t] = after(q)] /\ UNCHANGED <<answers, outcome>>
      \/ StartCommit(m, t, c, after(q))
      \/ (\E j : held' = [held EXCEPT ![t] = after(j)]) /\ UNCHANGED <<answers, outcome>>
      \/ \E j : StartAbort(m, t, c, after(j))
  BY Zenon DEF RunTxn
<1> HIDE DEF q, c, after
<1>4. CASE (\E j : held' = [held EXCEPT ![t] = after(j)]) /\ UNCHANGED <<answers, outcome>>
  <2>1. PICK j : held' = [held EXCEPT ![t] = after(j)]
    BY Zenon, <1>4
  <2> QED  BY ZenonT(30), <1>1, <1>2, <1>4, <2>1, WorkStep
<1>5. CASE StartCommit(m, t, c, after(q))
  BY ZenonT(30), <1>1, <1>2, <1>5, StartCommitStep
<1>6. CASE \E j : StartAbort(m, t, c, after(j))
  <2>1. PICK j : StartAbort(m, t, c, after(j))
    BY Zenon, <1>6
  <2> QED  BY <1>1, <1>2, <2>1, StartAbortStep
<1> QED  BY Zenon, <1>3, <1>4, <1>5, <1>6

-----------------------------------------------------------------------------
\* process_rtxn, process_rtxn_cont and process_rqry_rsp.
LEMMA HomeStep ==
  ASSUME Counting, IInv, CC_ALG # "TICTOC", NEW t \in Txn, NEW m \in InFlight(t),
         ProcessRtxn(m) \/ ProcessRtxnCont(m) \/ ProcessRqryRsp(m)
  PROVE  Implements
<1>1. m.txn = t /\ m.type \in Executing /\ (m.type = "RQRY_RSP" <=> ProcessRqryRsp(m))
  BY Zenon DEF InFlight, ProcessRtxn, ProcessRtxnCont, ProcessRqryRsp, Executing
<1>2. /\ TypeOK /\ answers[t] = 0 /\ held[t] \subseteq partitions_touched[t]
      /\ partitions_touched[t] \in SUBSET Node
  BY Zenon, <1>1, ExecProps DEF IInv
<1>3. CASE ~ Fails(m)
  <2>1. \A k \in Node : outcome[t][k] = "none"
    BY <1>1, <1>3, ExecProps
  <2>2. \/ RunTxn(m, t, 1, held[t])
        \/ RunTxn(m, t, next_record_id[t] + 1, held[t] \cup {home[t]})
        \/ RunTxn(m, t, next_record_id[t], held[t])
    BY Zenon, <1>1, <1>3 DEF Fails, ProcessRtxn, ProcessRtxnCont, ProcessRqryRsp
  <2> QED  BY Zenon, <1>2, <2>1, <2>2, RunTxnStep
<1>4. CASE Fails(m)
  <2>1. m.type = "RQRY_RSP" /\ StartAbort(m, t, partitions_touched[t], held[t])
    BY Zenon, <1>1, <1>4 DEF Fails, ProcessRqryRsp
  <2>2. m.node \in partitions_touched[t] \ {home[t]}
    BY Zenon, <2>1 DEF IInv, TxnInv, MsgInv
  <2>3. /\ home[t] \in partitions_touched[t]
        /\ outcome[t][home[t]] = "none"
        /\ \A k \in Node : outcome[t][k] \in {"none", "aborted"}
    BY <1>1, <2>1, <2>2, ExecProps
  <2> QED  BY Zenon, <1>2, <2>1, <2>3, StartAbortStep
<1> QED  BY Zenon, <1>3, <1>4

\* process_rqry and process_rqry_cont.
LEMMA RqryStep ==
  ASSUME IInv, NEW t \in Txn, NEW m \in InFlight(t), ProcessRqry(m)
  PROVE  Implements
<1> DEFINE n == m.node
<1>1. /\ m.txn = t /\ n \in Node /\ m.type \in {"RQRY", "RQRY_CONT"}
      /\ m.type \in Executing /\ ~ Fails(m)
  BY Zenon DEF InFlight, Message, ProcessRqry, Executing, Fails
<1>2. /\ TypeOK /\ answers[t] = 0 /\ n \notin aborted[t]
      /\ \A k \in Node : outcome[t][k] = "none"
  BY <1>1, ExecProps DEF IInv
<1>3. \/ held' = [held EXCEPT ![t] = @ \cup {n}] /\ UNCHANGED outcome
      \/ /\ held' = [held EXCEPT ![t] = IF n \in aborted[t] THEN @ \cup {n} ELSE @ \ {n}]
         /\ outcome' = [outcome EXCEPT ![t][n] = "aborted"]
  BY Zenon, <1>1 DEF ProcessRqry
<1>4. UNCHANGED answers
  BY Zenon DEF ProcessRqry
<1>5. CASE held' = [held EXCEPT ![t] = @ \cup {n}] /\ UNCHANGED outcome
  <2>1. held' = [held EXCEPT ![t] = held[t] \cup {n}]
    BY Zenon, <1>5
  <2> QED  BY Zenon, <1>1, <1>2, <1>4, <1>5, <2>1, WorkStep
<1>6. CASE /\ held' = [held EXCEPT ![t] = IF n \in aborted[t] THEN @ \cup {n} ELSE @ \ {n}]
           /\ outcome' = [outcome EXCEPT ![t][n] = "aborted"]
  <2>1. held' = [held EXCEPT ![t] = held[t] \ {n}]
    BY Zenon, <1>2, <1>6
  <2> QED  BY ZenonT(30), <1>1, <1>2, <1>4, <1>6, <2>1, EndStep
<1> QED  BY Zenon, <1>3, <1>5, <1>6

\* Nothing that AtomicCommit sees.
LEMMA SameStatus ==
  ASSUME UNCHANGED <<held, outcome, answers>>  PROVE Implements
BY Zenon DEF Implements, AC!vars, Status

\* process_rprepare.
LEMMA RprepareStep ==
  ASSUME IInv, NEW t \in Txn, NEW m \in InFlight(t), ProcessRprepare(m)
  PROVE  Implements
<1> DEFINE n == m.node
<1>1. m.type = "RPREPARE" /\ m.type \in Voting /\ m.type \notin Executing
  BY Zenon DEF ProcessRprepare, Voting, Executing
<1>2. m.txn = t /\ VotePhase(t) /\ n \in Node
  BY ZenonT(30), <1>1, PhaseOf
<1>3. /\ answers[t] = 0 /\ n \notin aborted[t] /\ TypeOK
      /\ \A k \in Node : outcome[t][k] = IF k \in aborted[t] THEN "aborted" ELSE "none"
  BY ZenonT(30), <1>1, <1>2 DEF VotePhase, IInv
<1>4. /\ UNCHANGED answers
      /\ \/ UNCHANGED <<held, outcome>>
         \/ /\ held' = [held EXCEPT ![t] = @ \ {n}]
            /\ outcome' = [outcome EXCEPT ![t][n] = "aborted"]
  BY Zenon, <1>2 DEF ProcessRprepare
<1>5. CASE UNCHANGED <<held, outcome>>
  BY ZenonT(30), <1>4, <1>5, SameStatus
<1>6. CASE /\ held' = [held EXCEPT ![t] = @ \ {n}]
           /\ outcome' = [outcome EXCEPT ![t][n] = "aborted"]
  <2>1. held' = [held EXCEPT ![t] = held[t] \ {n}] /\ outcome[t][n] = "none"
    BY ZenonT(30), <1>2, <1>3, <1>6
  <2>2. \A k \in Node : outcome[t][k] \in {"none", "aborted"}
    BY Zenon, <1>3
  <2> QED  BY ZenonT(30), <1>2, <1>3, <1>4, <1>6, <2>1, <2>2, EndStep
<1> QED  BY ZenonT(30), <1>4, <1>5, <1>6

\* process_rfin.
LEMMA RfinStep ==
  ASSUME IInv, NEW t \in Txn, NEW m \in InFlight(t), ProcessRfin(m)
  PROVE  Implements
<1> DEFINE n == m.node
           done == m.rc = "Abort" /\ n \in aborted[t]
           end == IF m.rc = "Abort" THEN "aborted" ELSE "committed"
<1>1. /\ m.txn = t /\ TypeOK /\ m.type = "RFIN" /\ n \in partitions_touched[t] \ {home[t]}
      /\ n \in Node /\ n \in ToFinish(t) /\ m.rc \in RC
      /\ m.rc = "Abort" => AbortPhase(t)
      /\ m.rc = "RCOK" => CommitPhase(t)
  BY Zenon, ProcessRfinFinishes DEF IInv, InFlight
<1>2. /\ held' = [held EXCEPT ![t] = IF done THEN @ ELSE @ \ {n}]
      /\ outcome' = [outcome EXCEPT ![t][n] = IF done THEN @ ELSE end]
      /\ UNCHANGED answers
  BY Zenon, <1>1 DEF ProcessRfin
<1>3. ASSUME done PROVE Implements
  <2>1. held' = held /\ outcome' = outcome
    BY ZenonT(30), <1>1, <1>2, <1>3 DEF TypeOK
  <2> QED  BY ZenonT(30), <1>2, <2>1, SameStatus
<1>4. ASSUME ~ done PROVE Implements
  <2>1. /\ held' = [held EXCEPT ![t] = held[t] \ {n}]
        /\ outcome' = [outcome EXCEPT ![t][n] = end] /\ end \in {"aborted", "committed"}
    BY ZenonT(30), <1>2, <1>4
  <2>2. ASSUME m.rc = "Abort"
        PROVE  /\ answers[t] = 0 /\ outcome[t][n] = "none" /\ end = "aborted"
               /\ \A k \in Node : outcome[t][k] # "committed"
    BY ZenonT(30), <1>1, <1>4, <2>2 DEF AbortPhase
  <2>3. ASSUME m.rc = "RCOK"
        PROVE  /\ answers[t] = 0 /\ outcome[t][n] = "none" /\ end = "committed"
               /\ \A k \in Node : outcome[t][k] # "aborted"
    BY ZenonT(30), <1>1, <2>3 DEF CommitPhase
  <2>4. \A k \in Node : outcome[t][k] \in {"none", "committed", "aborted"}
    BY ZenonT(30), <1>1 DEF TypeOK
  <2>5. /\ answers[t] = 0 /\ outcome[t][n] = "none"
        /\ \A k \in Node : outcome[t][k] \in {"none", end}
    BY Zenon, <1>1, <2>2, <2>3, <2>4 DEF RC
  <2>6. UNCHANGED answers /\ n \in Node /\ TypeOK
    BY Zenon, <1>1, <1>2
  <2> HIDE DEF end, done, n
  <2> QED  BY ZenonT(30), <2>1, <2>5, <2>6, EndStep
<1> QED  BY Zenon, <1>3, <1>4

\* The last vote.
LEMMA RackPrepStep ==
  ASSUME Counting, IInv, NEW t \in Txn, NEW m \in InFlight(t), ProcessRackPrep(m)
  PROVE  Implements
<1> DEFINE h == home[t]
<1>1. m.type = "RACK_PREP" /\ ResponsesLeft(m) = 0
  BY ZenonT(30) DEF ProcessRackPrep
<1>2. /\ m.txn = t /\ h \in Node /\ m.rc \in RC /\ VotePhase(t) /\ InFlight(t) = {m}
  BY Zenon, <1>1, ResponseProps
<1>3. PICK code \in RC : /\ code = "RCOK" => NewRc(m) = "RCOK"
                         /\ Decide(m, t, partitions_touched[t], held[t], code)
  BY ZenonT(30), <1>2 DEF ProcessRackPrep
<1>4. NewRc(m) = (IF rc[t][h] = "RCOK" THEN m.rc ELSE rc[t][h]) /\ rc[t][h] \in RC /\ TypeOK
  BY ZenonT(30), <1>2 DEF NewRc, IInv, TypeOK
<1>5. /\ answers[t] = 0 /\ h \notin aborted[t]
      /\ \A k \in Node : outcome[t][k] = IF k \in aborted[t] THEN "aborted" ELSE "none"
      /\ rc[t][h] = "RCOK" /\ m.rc = "RCOK" => aborted[t] = {}
  BY Zenon, <1>2 DEF VotePhase
<1> DEFINE end == IF code = "Abort" THEN "aborted" ELSE "committed"
<1>6. /\ held' = [held EXCEPT ![t] = held[t] \ {h}]
      /\ outcome' = [outcome EXCEPT ![t][h] = end] /\ UNCHANGED answers
      /\ end \in {"aborted", "committed"}
  BY Zenon, <1>3 DEF Decide
<1>7. code = "RCOK" => aborted[t] = {}
  BY ZenonT(30), <1>3, <1>4, <1>5 DEF RC
<1>8. \A k \in Node : outcome[t][k] \in {"none", end}
  BY ZenonT(30), <1>5, <1>7 DEF RC
<1> HIDE DEF end
<1> QED  BY ZenonT(30), <1>2, <1>4, <1>5, <1>6, <1>8, EndStep

\* The last acknowledgement.
LEMMA RackFinStep ==
  ASSUME Counting, IInv, NEW t \in Txn, NEW m \in InFlight(t), ProcessRackFin(m)
  PROVE  Implements
<1> DEFINE h == home[t]
<1>1. m.type = "RACK_FIN" /\ ResponsesLeft(m) = 0
  BY ZenonT(30) DEF ProcessRackFin
<1>2. /\ m.txn = t /\ h \in Node /\ m.rc \in RC /\ TypeOK
      /\ AbortPhase(t) \/ (CommitPhase(t) /\ Acked(t))
      /\ InFlight(t) = {m}
  BY ZenonT(30), <1>1, ResponseProps DEF IInv
<1>3. NewRc(m) = IF rc[t][h] = "RCOK" THEN m.rc ELSE rc[t][h]
  BY Zenon, <1>2 DEF NewRc
<1>4. ToFinish(t) = {}
  BY Zenon, <1>1, <1>2 DEF ToFinish
<1>5. ASSUME CommitPhase(t), Acked(t) PROVE Implements
  <2>1. /\ answers[t] = 0 /\ h \notin held[t] /\ outcome[t][h] = "committed"
        /\ m.rc = "RCOK" /\ rc[t][h] = "RCOK" /\ held[t] \subseteq {h}
    BY ZenonT(30), <1>2, <1>4, <1>5 DEF CommitPhase
  <2>2. \A k \in Node : outcome[t][k] # "aborted"
    BY ZenonT(30), <1>4, <1>5, <2>1 DEF CommitPhase
  <2>3. Answer(m, t, partitions_touched[t], held[t])
    BY ZenonT(30), <1>2, <1>3, <2>1 DEF ProcessRackFin
  <2>4. /\ held' = [held EXCEPT ![t] = held[t]] /\ answers' = [answers EXCEPT ![t] = @ + 1]
        /\ outcome' = [outcome EXCEPT ![t][h] = IF @ = "none" THEN "committed" ELSE @]
    BY Zenon, <2>3 DEF Answer
  <2>5. held[t] = {} /\ held' = [held EXCEPT ![t] = {}]
    BY Zenon, <2>1, <2>4
  <2>6. outcome' = [outcome EXCEPT ![t][h] = "committed"]
    BY ZenonT(30), <1>2, <2>1, <2>4 DEF TypeOK
  <2> QED  BY ZenonT(30), <1>2, <2>1, <2>2, <2>4, <2>5, <2>6, AnswerStep
<1>6. ASSUME AbortPhase(t) PROVE Implements
  <2>1. /\ answers[t] = 0 /\ rc[t][h] = "Abort" /\ held[t] = {}
        /\ \A k \in Node : outcome[t][k] # "committed"
    BY ZenonT(30), <1>4, <1>6 DEF AbortPhase
  <2>2. AbortQueue(m, t, partitions_touched[t], held[t])
    BY ZenonT(30), <1>2, <1>3, <2>1 DEF ProcessRackFin
  <2>3. /\ held' = [held EXCEPT ![t] = {}] /\ UNCHANGED answers
        /\ outcome' = [outcome EXCEPT ![t] = [n \in Node |-> "none"]]
    BY ZenonT(30), <2>1, <2>2 DEF AbortQueue
  <2> QED  BY ZenonT(30), <1>2, <2>1, <2>3, RetryStep
<1> QED  BY ZenonT(30), <1>2, <1>5, <1>6

\* Every handler.
LEMMA ProcessStep ==
  ASSUME Counting, IInv, CC_ALG # "TICTOC", NEW m \in Message, Process(m)
  PROVE  Implements
<1>1. m.txn \in Txn
  BY Zenon DEF Message
<1>2. m \in InFlight(m.txn)
  BY Zenon DEF Process, InFlight
<1>3. CASE ReceivedResponse(m)
  BY ZenonT(30), <1>3, SameStatus DEF ReceivedResponse
<1> QED  BY ZenonT(30), <1>1, <1>2, <1>3, HomeStep, RqryStep, RprepareStep, RfinStep, RackPrepStep,
            RackFinStep DEF Process

LEMMA InitStep ==
  ASSUME Init  PROVE AC!Init
<1>1. Status = [t \in Txn |-> [n \in Node |-> "none"]]
  BY Zenon DEF Init, Status
<1> QED  BY Zenon, <1>1 DEF Init, AC!Init
=============================================================================
