-------------------------- MODULE CommitHandlers ---------------------------
(***************************************************************************)
(* The handlers of requests and votes and process_rfin keep the invariant, and*)
(* what received_response changes.                                         *)
(***************************************************************************)
EXTENDS CommitInvariant

\* A message about a request is the only one.
LEMMA ExecProps ==
  ASSUME IInv, NEW t \in Txn, NEW m \in InFlight(t), m.type \in Executing
  PROVE  /\ m \in Message /\ m.txn = t /\ InFlight(t) = {m}
         /\ answers[t] = 0 /\ rsp_cnt[t] = 0
         /\ \A n \in Node :
              IF Fails(m) /\ n = m.node
              THEN n \in aborted[t] /\ rc[t][n] = "Abort" /\ outcome[t][n] = "aborted"
              ELSE n \notin aborted[t] /\ rc[t][n] = "RCOK" /\ outcome[t][n] = "none"
         /\ Fails(m) => CanAbort(t)
         /\ held[t] \cap aborted[t] = {}
         /\ m.type # "RTXN" => home[t] \in table[t]
         /\ \A n \in partitions_touched[t] \ {home[t]} :
              n \in table[t] \/ (m.type = "RQRY" /\ n = m.node)
         /\ m.type = "RTXN" /\ CC_ALG # "TICTOC" => held[t] = {}
         /\ held[t] \subseteq partitions_touched[t]
         /\ table[t] \subseteq partitions_touched[t]
         /\ partitions_touched[t] \in SUBSET Node /\ aborted[t] \in SUBSET Node
         /\ home[t] \in Node
<1>1. ExecPhase(t)
  BY Zenon DEF IInv, TxnInv, VotePhase, CommitPhase, AbortPhase, DonePhase, Executing, Voting,
         Finishing
<1>2. PICK x \in Message :
        /\ InFlight(t) = {x}
        /\ answers[t] = 0 /\ rsp_cnt[t] = 0
        /\ \A n \in Node :
             IF Fails(x) /\ n = x.node
             THEN n \in aborted[t] /\ rc[t][n] = "Abort" /\ outcome[t][n] = "aborted"
             ELSE n \notin aborted[t] /\ rc[t][n] = "RCOK" /\ outcome[t][n] = "none"
        /\ Fails(x) => CanAbort(t)
        /\ held[t] \cap aborted[t] = {}
        /\ x.type # "RTXN" => home[t] \in table[t]
        /\ \A n \in partitions_touched[t] \ {home[t]} :
             n \in table[t] \/ (x.type = "RQRY" /\ n = x.node)
        /\ x.type = "RTXN" /\ CC_ALG # "TICTOC" => held[t] = {}
  BY Zenon, <1>1 DEF ExecPhase
<1>3. x = m
  BY Zenon, <1>2
<1>4. m.txn = t
  BY Zenon DEF InFlight
<1>5. /\ held[t] \subseteq partitions_touched[t]
      /\ table[t] \subseteq partitions_touched[t]
      /\ partitions_touched[t] \in SUBSET Node /\ aborted[t] \in SUBSET Node
      /\ home[t] \in Node
  BY ZenonT(30), HomeAssumption DEF IInv, TxnInv, MsgInv, TypeOK
<1> QED  BY ZenonT(30), <1>2, <1>3, <1>4, <1>5

\* process_rtxn and process_rtxn_cont.
LEMMA ProcessRtxnInv ==
  ASSUME Counting, IInv, NEW t \in Txn, NEW m \in InFlight(t), ProcessRtxn(m) \/ ProcessRtxnCont(m)
  PROVE  IInv'
<1>1. m.type \in {"RTXN", "RTXN_CONT"} /\ m.type \in Executing /\ ~ Fails(m)
  BY Zenon DEF ProcessRtxn, ProcessRtxnCont, Executing, Fails
<1>2. m.txn = t
  BY Zenon DEF InFlight
<1>3. Clean(t) /\ rsp_cnt[t] = 0
  BY <1>1, ExecProps DEF Clean
<1>4. \A hs \in SUBSET (held[t] \cup {home[t]}) :
        Alone(t, m, partitions_touched[t] \cup {home[t]}, hs)
  BY <1>1, ExecProps DEF Sole, Alone
<1>5. CASE ProcessRtxn(m)
  <2>1. RunTxn(m, t, 1, held[t]) /\ 1 \in Nat \ {0}
    BY <1>2, <1>5 DEF ProcessRtxn
  <2> QED  BY Zenon, <1>3, <1>4, <2>1, RunTxnInv
<1>6. CASE ProcessRtxnCont(m)
  <2>1. RunTxn(m, t, next_record_id[t] + 1, held[t] \cup {home[t]})
    BY Zenon, <1>2, <1>6 DEF ProcessRtxnCont
  <2>2. next_record_id[t] + 1 \in Nat \ {0}
    BY DEF IInv, TypeOK
  <2> QED  BY Zenon, <1>3, <1>4, <2>1, <2>2, RunTxnInv
<1> QED  BY Zenon, <1>5, <1>6

\* process_rqry_rsp.
LEMMA ProcessRqryRspInv ==
  ASSUME Counting, IInv, NEW t \in Txn, NEW m \in InFlight(t), ProcessRqryRsp(m)
  PROVE  IInv'
<1>1. m.type = "RQRY_RSP" /\ m.type \in Executing
  BY Zenon DEF ProcessRqryRsp, Executing
<1>2. m.txn = t
  BY Zenon DEF InFlight
<1>3. home[t] \in partitions_touched[t]
      /\ partitions_touched[t] \cup {home[t]} = partitions_touched[t]
  BY <1>1, ExecProps
<1>4. Alone(t, m, partitions_touched[t], held[t])
  BY Zenon, <1>1, <1>3, ExecProps DEF Sole, Alone
<1>5. m.node \in partitions_touched[t] \ {home[t]}
  BY Zenon, <1>1 DEF IInv, TxnInv, MsgInv
<1>6. CASE m.rc = "Abort"
  <2>1. StartAbort(m, t, partitions_touched[t], held[t])
    BY Zenon, <1>2, <1>6 DEF ProcessRqryRsp
  <2>2. Fails(m)
    BY Zenon, <1>1, <1>6 DEF Fails
  <2>3. /\ held[t] \cap aborted[t] = {} /\ aborted[t] \subseteq partitions_touched[t] \ {home[t]}
        /\ \A n \in Node : outcome[t][n] = IF n \in aborted[t] THEN "aborted" ELSE "none"
        /\ \A n \in Node \ {home[t]} : rc[t][n] = "Abort" => n \in aborted[t]
    BY <1>1, <1>5, <2>2, ExecProps
  <2> QED  BY Zenon, <1>4, <2>1, <2>3, StartAbortInv
<1>7. CASE m.rc # "Abort"
  <2>1. RunTxn(m, t, next_record_id[t], held[t])
    BY Zenon, <1>2, <1>7 DEF ProcessRqryRsp
  <2>2. next_record_id[t] \in Nat \ {0}
    BY Zenon DEF IInv, TypeOK
  <2>3. ~ Fails(m)
    BY Zenon, <1>7 DEF Fails
  <2>4. Clean(t) /\ rsp_cnt[t] = 0
    BY <1>1, <2>3, ExecProps DEF Clean
  <2> QED  BY Zenon, <1>3, <1>4, <2>1, <2>2, <2>4, RunTxnInv
<1> QED  BY Zenon, <1>6, <1>7

\* What process_rqry and process_rqry_cont do on the node of m: r says whether
\* the node has failed.
Served(t, m, r) ==
  /\ r \in Message /\ r.txn = t /\ r.node = m.node
  /\ r.type \in {"RQRY_RSP", "RQRY_CONT"}
  /\ net' = Deliver(m, {r})
  /\ table' = [table EXCEPT ![t] = @ \cup {m.node}]
  /\ waits' \in [Txn -> 0..MaxWaits]
  /\ IF Fails(r)
     THEN /\ CanAbort(t)
          /\ rc' = [rc EXCEPT ![t][m.node] = "Abort"]
          /\ aborted' = [aborted EXCEPT ![t] = @ \cup {m.node}]
          /\ outcome' = [outcome EXCEPT ![t][m.node] = "aborted"]
          /\ held' = [held EXCEPT ![t] = @ \ {m.node}]
     ELSE /\ UNCHANGED <<rc, aborted, outcome>>
          /\ held' = [held EXCEPT ![t] = @ \cup {m.node}]
  /\ UNCHANGED <<query, next_record_id, partitions_touched, rsp_cnt, abort_cnt, answers>>

LEMMA ProcessRqryServes ==
  ASSUME IInv, NEW t \in Txn, NEW m \in InFlight(t), ProcessRqry(m)
  PROVE  \E r : Served(t, m, r)
<1>1. /\ m.type \in {"RQRY", "RQRY_CONT"} /\ m.type \in Executing /\ ~ Fails(m)
      /\ m.txn = t
  BY Zenon DEF ProcessRqry, Executing, Fails, InFlight
<1>2. /\ m.node \in Node /\ rc[t][m.node] = "RCOK" /\ m.node \notin aborted[t]
  BY <1>1, ExecProps DEF IInv, TxnInv, MsgInv
<1>3. \A code \in RC : \A type \in {"RQRY_RSP", "RQRY_CONT"} :
        LET r == Msg(type, t, m.node, code)
        IN  /\ r \in Message /\ r.txn = t /\ r.node = m.node /\ r.type = type
            /\ Fails(r) <=> type = "RQRY_RSP" /\ code = "Abort"
  BY Zenon, <1>2 DEF Msg, Message, MsgType, Fails
<1>4. waits \in [Txn -> 0..MaxWaits] /\ "RCOK" \in RC /\ "Abort" \in RC
  BY Zenon DEF IInv, TypeOK, RC
<1>5. /\ table' = [table EXCEPT ![t] = @ \cup {m.node}]
      /\ UNCHANGED <<query, next_record_id, partitions_touched, rsp_cnt, abort_cnt, answers>>
  BY Zenon, <1>1 DEF ProcessRqry
<1>6. CASE /\ held' = [held EXCEPT ![t] = @ \cup {m.node}]
           /\ net' = Deliver(m, {Msg("RQRY_RSP", t, m.node, rc[t][m.node])})
           /\ UNCHANGED <<rc, aborted, waits, outcome>>
  <2> DEFINE r == Msg("RQRY_RSP", t, m.node, "RCOK")
  <2>1. /\ r \in Message /\ r.txn = t /\ r.node = m.node /\ r.type = "RQRY_RSP" /\ ~ Fails(r)
        /\ net' = Deliver(m, {r})
    BY Zenon, <1>2, <1>3, <1>4, <1>6
  <2> HIDE DEF r
  <2>2. Served(t, m, r)
    BY ZenonT(30), <1>4, <1>5, <1>6, <2>1 DEF Served
  <2> QED  BY Zenon, <2>2
<1>7. CASE /\ CanWait(t)
           /\ waits' = [waits EXCEPT ![t] = @ + 1]
           /\ held' = [held EXCEPT ![t] = @ \cup {m.node}]
           /\ net' = Deliver(m, {Msg("RQRY_CONT", t, m.node, "RCOK")})
           /\ UNCHANGED <<rc, aborted, outcome>>
  <2> DEFINE r == Msg("RQRY_CONT", t, m.node, "RCOK")
  <2>1. /\ r \in Message /\ r.txn = t /\ r.node = m.node /\ r.type = "RQRY_CONT" /\ ~ Fails(r)
        /\ net' = Deliver(m, {r})
    BY Zenon, <1>3, <1>4, <1>7
  <2> HIDE DEF r
  <2>2. waits' \in [Txn -> 0..MaxWaits]
    BY <1>4, <1>7, BoundAssumption DEF CanWait
  <2>3. Served(t, m, r)
    BY Zenon, <1>5, <1>7, <2>1, <2>2 DEF Served
  <2> QED  BY ZenonT(30), <2>3
<1>8. CASE /\ CanAbort(t)
           /\ rc' = [rc EXCEPT ![t][m.node] = "Abort"]
           /\ aborted' = [aborted EXCEPT ![t] = @ \cup {m.node}]
           /\ held' = [held EXCEPT ![t] = IF m.node \in aborted[t] THEN @ \cup {m.node}
                                          ELSE @ \ {m.node}]
           /\ outcome' = [outcome EXCEPT ![t][m.node] = "aborted"]
           /\ net' = Deliver(m, {Msg("RQRY_RSP", t, m.node, "Abort")})
           /\ UNCHANGED waits
  <2> DEFINE r == Msg("RQRY_RSP", t, m.node, "Abort")
  <2>1. /\ r \in Message /\ r.txn = t /\ r.node = m.node /\ r.type = "RQRY_RSP" /\ Fails(r)
        /\ net' = Deliver(m, {r})
    BY Zenon, <1>3, <1>4, <1>8
  <2> HIDE DEF r
  <2>2. Served(t, m, r)
    BY Zenon, <1>2, <1>4, <1>5, <1>8, <2>1 DEF Served
  <2> QED  BY ZenonT(30), <2>2
<1> QED  BY Zenon, <1>1, <1>6, <1>7, <1>8 DEF ProcessRqry

\* process_rqry and process_rqry_cont.
LEMMA ProcessRqryInv ==
  ASSUME Counting, IInv, NEW t \in Txn, NEW m \in InFlight(t), ProcessRqry(m)
  PROVE  IInv'
<1> DEFINE n == m.node
<1>1. /\ m.type \in {"RQRY", "RQRY_CONT"} /\ m.type \in Executing /\ ~ Fails(m)
  BY Zenon DEF ProcessRqry, Executing, Fails
<1>2. n \in partitions_touched[t] \ {home[t]} /\ n \in Node
  BY ZenonT(30), <1>1 DEF IInv, TxnInv, MsgInv, TypeOK
<1>3. PICK r : Served(t, m, r)
  BY Zenon, ProcessRqryServes
<1>4. /\ r \in Message /\ r.txn = t /\ r.node = n /\ r.type \in {"RQRY_RSP", "RQRY_CONT"}
      /\ net' = Deliver(m, {r})
  BY Zenon, <1>3 DEF Served
<1>5. m \in Message /\ InFlight(t) = {m}
  BY Zenon, <1>1, ExecProps
<1>6. /\ net' \in [Message -> Nat] /\ InFlight(t)' = {r} /\ net'[r] = 1
      /\ \A u \in Txn \ {t} : /\ InFlight(u)' = InFlight(u)
                              /\ \A x \in InFlight(u) : net'[x] = net[x]
  BY ZenonT(30), <1>4, <1>5, LastMessageOne
<1>7. TypeOK'
  <2>1. TypeOK
    BY Zenon DEF IInv
  <2>2. CASE Fails(r)
    <3>1. /\ rc' = [rc EXCEPT ![t][n] = "Abort"]
          /\ aborted' = [aborted EXCEPT ![t] = @ \cup {n}]
          /\ outcome' = [outcome EXCEPT ![t][n] = "aborted"]
          /\ held' = [held EXCEPT ![t] = @ \ {n}]
          /\ table' = [table EXCEPT ![t] = @ \cup {n}]
      BY Zenon, <1>3, <2>2 DEF Served
    <3>2. outcome' \in [Txn -> [Node -> {"none", "committed", "aborted"}]]
      BY Zenon, <1>2, <2>1, <3>1 DEF TypeOK
    <3>3. rc' \in [Txn -> [Node -> RC]]
      BY Zenon, <1>2, <2>1, <3>1 DEF TypeOK, RC
    <3>4. /\ aborted' \in [Txn -> SUBSET Node] /\ table' \in [Txn -> SUBSET Node]
          /\ held' \in [Txn -> SUBSET Node]
      BY ZenonT(30), <1>2, <2>1, <3>1 DEF TypeOK
    <3> QED  BY Zenon, <1>3, <1>6, <2>1, <3>2, <3>3, <3>4 DEF Served, TypeOK, query
  <2>3. CASE ~ Fails(r)
    <3>1. /\ UNCHANGED <<rc, aborted, outcome>>
          /\ held' = [held EXCEPT ![t] = @ \cup {n}]
          /\ table' = [table EXCEPT ![t] = @ \cup {n}]
      BY Zenon, <1>3, <2>3 DEF Served
    <3>2. held' \in [Txn -> SUBSET Node] /\ table' \in [Txn -> SUBSET Node]
      BY ZenonT(30), <1>2, <2>1, <3>1 DEF TypeOK
    <3> QED  BY Zenon, <1>3, <1>6, <2>1, <3>1, <3>2 DEF Served, TypeOK, query
  <2> QED  BY Zenon, <2>2, <2>3
<1>8. /\ partitions_touched'[t] = partitions_touched[t] /\ rsp_cnt'[t] = 0 /\ answers'[t] = 0
      /\ table'[t] = table[t] \cup {n} /\ held'[t] \subseteq held[t] \cup {n}
      /\ CC_ALG' = CC_ALG /\ abort_cnt' = abort_cnt
  BY <1>1, <1>3, ExecProps DEF Served, IInv, TypeOK, query
<1>9. MsgInv(t)'
  <2>1. held'[t] \subseteq partitions_touched[t] /\ table'[t] \subseteq partitions_touched[t]
    BY Zenon, <1>2, <1>8 DEF IInv, TxnInv, MsgInv
  <2>2. IsFiniteSet({r})
    BY Zenon DEF Counting, OneCount
  <2> QED  BY Zenon, <1>2, <1>4, <1>6, <1>8, <2>1, <2>2 DEF MsgInv
<1>10. \A k \in Node :
         IF Fails(r) /\ k = n
         THEN k \in aborted'[t] /\ rc'[t][k] = "Abort" /\ outcome'[t][k] = "aborted"
         ELSE k \notin aborted'[t] /\ rc'[t][k] = "RCOK" /\ outcome'[t][k] = "none"
  <2>1. \A k \in Node : k \notin aborted[t] /\ rc[t][k] = "RCOK" /\ outcome[t][k] = "none"
    BY <1>1, ExecProps
  <2> QED  BY <1>2, <1>3, <2>1 DEF Served, IInv, TypeOK
<1>11. held'[t] \cap aborted'[t] = {}
  <2>1. \A k \in Node : k \notin aborted[t]
    BY Zenon, <1>1, ExecProps
  <2>2. held[t] \in SUBSET Node
    BY Zenon DEF IInv, TypeOK
  <2> QED  BY <1>2, <1>3, <2>1, <2>2 DEF Served, IInv, TypeOK
<1>12. /\ home[t] \in table'[t] /\ r.type \in Executing /\ r.type # "RTXN"
       /\ \A k \in partitions_touched[t] \ {home[t]} : k \in table'[t]
  BY <1>1, <1>4, <1>8, ExecProps DEF Executing
<1>13. Fails(r) => CanAbort(t)'
  BY Zenon, <1>3, <1>8 DEF Served, CanAbort
<1>14. ExecPhase(t)'
  BY <1>4, <1>6, <1>8, <1>10, <1>11, <1>12, <1>13 DEF ExecPhase
<1>15. TxnInv(t)'
  BY Zenon, <1>9, <1>14 DEF TxnInv
<1>16. \A u \in Txn \ {t} :
         /\ partitions_touched'[u] = partitions_touched[u] /\ rsp_cnt'[u] = rsp_cnt[u]
         /\ rc'[u] = rc[u] /\ aborted'[u] = aborted[u] /\ table'[u] = table[u]
         /\ held'[u] = held[u] /\ abort_cnt'[u] = abort_cnt[u]
         /\ answers'[u] = answers[u] /\ outcome'[u] = outcome[u]
  BY ZenonT(30), <1>3 DEF Served, IInv, TypeOK
<1>17. UNCHANGED query
  BY Zenon, <1>3 DEF Served
<1> QED  BY ZenonT(30), <1>6, <1>7, <1>15, <1>16, <1>17, OthersKept

\* The phase of t can be read off any of its messages.
LEMMA PhaseOf ==
  ASSUME IInv, NEW t \in Txn, NEW m \in InFlight(t)
  PROVE  /\ m \in Message /\ m.txn = t /\ home[t] \in Node
         /\ m.type \in Voting => VotePhase(t)
         /\ m.type \in Finishing => CommitPhase(t) \/ AbortPhase(t)
         /\ m.type \notin Executing => m.node \in partitions_touched[t] \ {home[t]} /\ m.node \in Node
<1>1. m \in Message /\ m.txn = t /\ home[t] \in Node
  BY Zenon, HomeAssumption DEF InFlight
<1>2. ExecPhase(t) => m.type \in Executing
  BY Zenon DEF ExecPhase
<1>3. VotePhase(t) => m.type \in Voting
  BY Zenon DEF VotePhase
<1>4. CommitPhase(t) \/ AbortPhase(t) => m.type \in Finishing
  BY Zenon DEF CommitPhase, AbortPhase
<1>5. ~ DonePhase(t)
  BY Zenon DEF DonePhase
<1>6. m.type \notin Executing => m.node \in partitions_touched[t] \ {home[t]}
  BY Zenon DEF IInv, TxnInv, MsgInv, Executing
<1>7. partitions_touched[t] \in SUBSET Node
  BY Zenon DEF IInv, TypeOK
<1> QED  BY ZenonT(30), <1>1, <1>2, <1>3, <1>4, <1>5, <1>6, <1>7
         DEF IInv, TxnInv, Executing, Voting, Finishing

\* process_rprepare.
LEMMA ProcessRprepareInv ==
  ASSUME Counting, IInv, NEW t \in Txn, NEW m \in InFlight(t), ProcessRprepare(m)
  PROVE  IInv'
<1> DEFINE n == m.node
           F == InFlight(t)
<1>1. m.type = "RPREPARE" /\ m.type \in Voting /\ m.type \notin Executing
  BY Zenon DEF ProcessRprepare, Voting, Executing
<1>2. /\ m.txn = t /\ VotePhase(t) /\ n \in partitions_touched[t] \ {home[t]} /\ n \in Node
      /\ home[t] \in Node
  BY Zenon, <1>1, PhaseOf
<1>3. n \notin aborted[t] /\ n \in table[t]
  BY Zenon, <1>1, <1>2 DEF VotePhase
<1>4. PICK vote \in RC :
        /\ vote = "Abort" => CanAbort(t)
        /\ rc' = [rc EXCEPT ![t][n] = vote]
        /\ net' = Deliver(m, {Msg("RACK_PREP", t, n, vote)})
        /\ IF vote = "Abort"
           THEN /\ aborted' = [aborted EXCEPT ![t] = @ \cup {n}]
                /\ held' = [held EXCEPT ![t] = @ \ {n}]
                /\ outcome' = [outcome EXCEPT ![t][n] = "aborted"]
           ELSE UNCHANGED <<aborted, held, outcome>>
  BY Zenon, <1>2, <1>3 DEF ProcessRprepare
<1> DEFINE r == Msg("RACK_PREP", t, n, vote)
           G == (F \ {m}) \cup {r}
<1>5. /\ table' = [table EXCEPT ![t] = @ \cup {n}]
      /\ UNCHANGED <<query, next_record_id, partitions_touched, rsp_cnt, abort_cnt, waits, answers>>
  BY Zenon, <1>2 DEF ProcessRprepare
<1>6. /\ r \in Message /\ r.txn = t /\ r.node = n /\ r.type = "RACK_PREP" /\ r.rc = vote
      /\ r # m
  BY <1>1, <1>2 DEF Msg, Message, MsgType
<1>7. net' = Deliver(m, {r})
  BY Zenon, <1>4
<1> HIDE DEF r
<1>8. /\ net' \in [Message -> Nat] /\ OnePerNode(t, G) /\ Cardinality(G) = Cardinality(F)
      /\ \A u \in Txn \ {t} : /\ InFlight(u)' = InFlight(u)
                              /\ \A x \in InFlight(u) : net'[x] = net[x]
  BY ZenonT(30), <1>6, <1>7, ReplaceMessage
<1>9. TypeOK'
  <2>1. TypeOK
    BY Zenon DEF IInv
  <2>2. rc' \in [Txn -> [Node -> RC]]
    BY Zenon, <1>2, <1>4, <2>1 DEF TypeOK
  <2>3. table' \in [Txn -> SUBSET Node]
    BY ZenonT(30), <1>2, <1>5, <2>1 DEF TypeOK
  <2>4. aborted' \in [Txn -> SUBSET Node] /\ held' \in [Txn -> SUBSET Node]
    <3>1. CASE vote = "Abort"
      <4>1. /\ aborted' = [aborted EXCEPT ![t] = @ \cup {n}]
            /\ held' = [held EXCEPT ![t] = @ \ {n}]
        BY Zenon, <1>4, <3>1
      <4> QED  BY ZenonT(30), <1>2, <2>1, <4>1 DEF TypeOK
    <3> QED  BY Zenon, <1>4, <2>1, <3>1 DEF TypeOK
  <2>5. outcome' \in [Txn -> [Node -> {"none", "committed", "aborted"}]]
    <3>1. CASE vote = "Abort"
      <4>1. outcome' = [outcome EXCEPT ![t][n] = "aborted"]
        BY Zenon, <1>4, <3>1
      <4> QED  BY ZenonT(30), <1>2, <2>1, <4>1 DEF TypeOK
    <3> QED  BY Zenon, <1>4, <2>1, <3>1 DEF TypeOK
  <2> QED  BY Zenon, <1>5, <1>8, <2>1, <2>2, <2>3, <2>4, <2>5 DEF TypeOK, query
<1>10. /\ partitions_touched'[t] = partitions_touched[t] /\ rsp_cnt'[t] = rsp_cnt[t]
       /\ answers'[t] = answers[t] /\ table'[t] = table[t]
       /\ aborted'[t] = (IF vote = "Abort" THEN aborted[t] \cup {n} ELSE aborted[t])
       /\ held'[t] = (IF vote = "Abort" THEN held[t] \ {n} ELSE held[t])
       /\ rc'[t][n] = vote /\ \A k \in Node \ {n} : rc'[t][k] = rc[t][k]
       /\ outcome'[t][n] = (IF vote = "Abort" THEN "aborted" ELSE outcome[t][n])
       /\ \A k \in Node \ {n} : outcome'[t][k] = outcome[t][k]
       /\ CanAbort(t)' = CanAbort(t) /\ Acked(t)' = Acked(t)
  <2>1. TypeOK
    BY ZenonT(30) DEF IInv
  <2>2. /\ CanAbort(t)' = CanAbort(t) /\ Acked(t)' = Acked(t)
        /\ partitions_touched'[t] = partitions_touched[t] /\ rsp_cnt'[t] = rsp_cnt[t]
        /\ answers'[t] = answers[t]
    BY Zenon, <1>5 DEF query, CanAbort, Acked, AcksReadonly, PreparesReadonly
  <2>3. table'[t] = table[t]
    BY ZenonT(30), <1>3, <1>5, <2>1 DEF TypeOK
  <2>4. rc'[t][n] = vote /\ \A k \in Node \ {n} : rc'[t][k] = rc[t][k]
    BY ZenonT(30), <1>2, <1>4, <2>1 DEF TypeOK
  <2>5. CASE vote = "Abort"
    <3>1. /\ aborted' = [aborted EXCEPT ![t] = @ \cup {n}]
          /\ held' = [held EXCEPT ![t] = @ \ {n}]
          /\ outcome' = [outcome EXCEPT ![t][n] = "aborted"]
      BY Zenon, <1>4, <2>5
    <3>2. aborted'[t] = aborted[t] \cup {n} /\ held'[t] = held[t] \ {n}
      BY ZenonT(30), <2>1, <3>1 DEF TypeOK
    <3>3. outcome'[t][n] = "aborted" /\ \A k \in Node \ {n} : outcome'[t][k] = outcome[t][k]
      BY ZenonT(30), <1>2, <2>1, <3>1 DEF TypeOK
    <3> QED  BY ZenonT(30), <2>2, <2>3, <2>4, <2>5, <3>2, <3>3
  <2>6. CASE vote # "Abort"
    BY ZenonT(30), <1>4, <2>2, <2>3, <2>4, <2>6
  <2> QED  BY ZenonT(30), <2>5, <2>6
<1>11. /\ InFlight(t)' = G /\ IsFiniteSet(G) /\ \A x \in G : net'[x] = 1
       /\ \A x, y \in G : x.node = y.node => x = y
  BY Zenon, <1>8 DEF OnePerNode
<1>12. MsgInv(t)'
  <2>1. held'[t] \subseteq partitions_touched[t] /\ table'[t] \subseteq partitions_touched[t]
    BY Zenon, <1>10 DEF IInv, TxnInv, MsgInv
  <2>2. \A x \in G : IF x.type \in {"RTXN", "RTXN_CONT"} THEN x.node = home[t] /\ x.rc = "RCOK"
                     ELSE x.node \in partitions_touched[t] \ {home[t]}
    BY ZenonT(30), <1>2, <1>6 DEF IInv, TxnInv, MsgInv
  <2> HIDE DEF G
  <2> QED  BY ZenonT(30), <1>10, <1>11, <2>1, <2>2 DEF MsgInv
<1>13. VotePhase(t)'
  <2>8. /\ \A x \in F : x.type \in Voting
        /\ answers[t] = 0 /\ rsp_cnt[t] = Cardinality(F) /\ Acked(t)
        /\ home[t] \in partitions_touched[t] /\ partitions_touched[t] \subseteq table[t]
        /\ home[t] \notin aborted[t] /\ aborted[t] \subseteq partitions_touched[t]
        /\ held[t] \cap aborted[t] = {}
    BY Zenon, <1>2 DEF VotePhase
  <2>9. /\ \A k \in Node : outcome[t][k] = IF k \in aborted[t] THEN "aborted" ELSE "none"
        /\ \A k \in Node \ {home[t]} : rc[t][k] = IF k \in aborted[t] THEN "Abort" ELSE "RCOK"
    BY Zenon, <1>2 DEF VotePhase
  <2>10. rc[t][home[t]] = "RCOK" =>
           \A k \in aborted[t] : \E x \in F : x.node = k /\ x.type = "RACK_PREP" /\ x.rc = "Abort"
    BY Zenon, <1>2 DEF VotePhase
  <2>11. /\ \A x \in F : x.type = "RPREPARE" => x.node \notin aborted[t]
         /\ rc[t][home[t]] = "Abort" \/ (\E x \in F : x.rc = "Abort") => CanAbort(t)
    BY Zenon, <1>2 DEF VotePhase
  <2>1. G # {} /\ \A x \in G : x.type \in Voting
    BY Zenon, <1>6, <2>8 DEF Voting
  <2>2. /\ answers'[t] = 0 /\ rsp_cnt'[t] = Cardinality(G) /\ Acked(t)'
        /\ home[t] \in partitions_touched'[t] /\ partitions_touched'[t] \subseteq table'[t]
        /\ home[t] \notin aborted'[t] /\ aborted'[t] \subseteq partitions_touched'[t]
        /\ held'[t] \cap aborted'[t] = {}
    BY <1>2, <1>8, <1>10, <2>8
  <2>3. \A k \in Node : outcome'[t][k] = IF k \in aborted'[t] THEN "aborted" ELSE "none"
    BY <1>3, <1>10, <2>9
  <2>4. \A k \in Node \ {home[t]} : rc'[t][k] = IF k \in aborted'[t] THEN "Abort" ELSE "RCOK"
    BY <1>3, <1>10, <2>9 DEF RC
  <2>5. rc'[t][home[t]] = "RCOK" =>
          \A k \in aborted'[t] : \E x \in G : x.node = k /\ x.type = "RACK_PREP" /\ x.rc = "Abort"
    <3> SUFFICES ASSUME rc'[t][home[t]] = "RCOK", NEW k \in aborted'[t]
                 PROVE  \E x \in G : x.node = k /\ x.type = "RACK_PREP" /\ x.rc = "Abort"
      BY Zenon
    <3>1. CASE vote = "Abort" /\ k = n
      BY Zenon, <1>6, <3>1
    <3>2. CASE ~ (vote = "Abort" /\ k = n)
      <4>1. k \in aborted[t] /\ rc[t][home[t]] = "RCOK"
        BY <1>2, <1>10, <3>2
      <4>2. \E x \in F : x.node = k /\ x.type = "RACK_PREP" /\ x.rc = "Abort"
        BY Zenon, <2>10, <4>1
      <4> QED  BY Zenon, <1>1, <4>2
    <3> QED  BY Zenon, <3>1, <3>2
  <2>6. \A x \in G : x.type = "RPREPARE" => x.node \notin aborted'[t]
    <3>1. \A x \in F : x # m => x.node # n
      BY Zenon DEF IInv, TxnInv, MsgInv
    <3> QED  BY <1>6, <1>10, <2>11, <3>1
  <2>7. rc'[t][home[t]] = "Abort" \/ (\E x \in G : x.rc = "Abort") => CanAbort(t)'
    BY Zenon, <1>2, <1>4, <1>6, <1>10, <2>11
  <2> HIDE DEF G
  <2> QED  BY ZenonT(30), <1>11, <2>1, <2>2, <2>3, <2>4, <2>5, <2>6, <2>7 DEF VotePhase
<1>14. TxnInv(t)'
  BY ZenonT(30), <1>12, <1>13 DEF TxnInv
<1>15. \A u \in Txn \ {t} :
         /\ partitions_touched'[u] = partitions_touched[u] /\ rsp_cnt'[u] = rsp_cnt[u]
         /\ rc'[u] = rc[u] /\ aborted'[u] = aborted[u] /\ table'[u] = table[u]
         /\ held'[u] = held[u] /\ abort_cnt'[u] = abort_cnt[u]
         /\ answers'[u] = answers[u] /\ outcome'[u] = outcome[u]
  BY <1>4, <1>5 DEF IInv, TypeOK
<1>16. UNCHANGED query
  BY Zenon, <1>5
<1> QED  BY ZenonT(30), <1>8, <1>9, <1>14, <1>15, <1>16, OthersKept

\* What process_rfin does on the node of m.
Finished(t, m) ==
  /\ held' = [held EXCEPT ![t] = @ \ {m.node}]
  /\ outcome' = [outcome EXCEPT ![t][m.node] =
                   IF m.rc = "Abort" THEN "aborted" ELSE "committed"]
  /\ rc' = [rc EXCEPT ![t][m.node] = "RCOK"]
  /\ aborted' = [aborted EXCEPT ![t] = @ \ {m.node}]
  /\ table' = [table EXCEPT ![t] = IF m.rc = "Abort" THEN @ ELSE @ \ {m.node}]
  /\ UNCHANGED <<query, next_record_id, partitions_touched, rsp_cnt, abort_cnt, waits, answers>>

LEMMA ProcessRfinFinishes ==
  ASSUME IInv, NEW t \in Txn, NEW m \in InFlight(t), ProcessRfin(m)
  PROVE  /\ Finished(t, m) /\ m.type = "RFIN"
         /\ m.node \in partitions_touched[t] \ {home[t]} /\ m.node \in Node
         /\ m.node \in ToFinish(t) /\ home[t] \in Node
         /\ m.rc \in RC
         /\ m.rc = "Abort" => AbortPhase(t)
         /\ m.rc = "RCOK" => CommitPhase(t)
         /\ net' = Deliver(m, IF m.rc = "Abort" \/ Acked(t)
                              THEN {Msg("RACK_FIN", t, m.node, "RCOK")} ELSE {})
<1> DEFINE n == m.node
<1>1. m.type = "RFIN" /\ m.type \in Finishing /\ m.type \notin Executing
  BY Zenon DEF ProcessRfin, Finishing, Executing
<1>2. /\ m \in Message /\ m.txn = t /\ n \in partitions_touched[t] \ {home[t]} /\ n \in Node
      /\ home[t] \in Node /\ m.rc \in RC
  BY <1>1, PhaseOf DEF Message
<1>3. CommitPhase(t) \/ AbortPhase(t)
  BY Zenon, <1>1, PhaseOf
<1>4. /\ m.rc = "Abort" => AbortPhase(t)
      /\ m.rc = "RCOK" => CommitPhase(t)
  BY Zenon, <1>1, <1>3 DEF CommitPhase, AbortPhase
<1>5. n \in ToFinish(t)
  BY Zenon, <1>1, <1>2 DEF ToFinish
<1>6. TypeOK /\ n \in table[t]
  BY ZenonT(30), <1>2, <1>3, <1>5 DEF CommitPhase, AbortPhase, IInv
<1>7. /\ UNCHANGED <<query, next_record_id, partitions_touched, rsp_cnt, abort_cnt, waits, answers>>
      /\ held' = [held EXCEPT ![t] = IF m.rc = "Abort" /\ n \in aborted[t] THEN @ ELSE @ \ {n}]
      /\ outcome' = [outcome EXCEPT ![t][n] =
                       IF m.rc = "Abort" /\ n \in aborted[t] THEN @
                       ELSE IF m.rc = "Abort" THEN "aborted" ELSE "committed"]
      /\ rc' = [rc EXCEPT ![t][n] = IF m.rc = "Abort" THEN "RCOK" ELSE @]
      /\ aborted' = [aborted EXCEPT ![t] = ResetManager(m)]
      /\ table' = [table EXCEPT ![t] = AfterFinish(m)]
      /\ net' = Deliver(m, IF Acknowledges(m)
                           THEN {Msg("RACK_FIN", t, n, rc'[t][n])} ELSE {})
  BY Zenon, <1>2 DEF ProcessRfin
<1>8. held' = [held EXCEPT ![t] = @ \ {n}]
  <2>1. m.rc = "Abort" /\ n \in aborted[t] => held[t] \ {n} = held[t]
    BY ZenonT(30), <1>4 DEF AbortPhase
  <2> QED  BY ZenonT(30), <1>6, <1>7, <2>1 DEF TypeOK
<1>9. outcome' = [outcome EXCEPT ![t][n] = IF m.rc = "Abort" THEN "aborted" ELSE "committed"]
  <2>1. m.rc = "Abort" /\ n \in aborted[t] => outcome[t][n] = "aborted"
    BY ZenonT(30), <1>4, <1>5 DEF AbortPhase
  <2>2. CASE m.rc = "Abort" /\ n \in aborted[t]
    <3>1. outcome' = [outcome EXCEPT ![t][n] = @]
      BY Zenon, <1>7, <2>2
    <3> QED  BY ZenonT(30), <1>6, <2>1, <2>2, <3>1 DEF TypeOK
  <2>3. CASE ~ (m.rc = "Abort" /\ n \in aborted[t])
    BY Zenon, <1>7, <2>3
  <2> QED  BY Zenon, <2>2, <2>3
<1>10. rc' = [rc EXCEPT ![t][n] = "RCOK"]
  <2>1. m.rc # "Abort" => rc[t][n] = "RCOK"
    BY Zenon, <1>2, <1>4 DEF CommitPhase, RC
  <2>2. CASE m.rc # "Abort"
    <3>1. rc' = [rc EXCEPT ![t][n] = @]
      BY Zenon, <1>7, <2>2
    <3> QED  BY ZenonT(30), <1>6, <2>1, <2>2, <3>1 DEF TypeOK
  <2>3. CASE m.rc = "Abort"
    BY Zenon, <1>7, <2>3
  <2> QED  BY Zenon, <2>2, <2>3
<1>11. ResetManager(m) = aborted[t] \ {n}
  BY Zenon, <1>2, <1>4 DEF ResetManager, CommitPhase, RC
<1>12. aborted' = [aborted EXCEPT ![t] = @ \ {n}]
  BY Zenon, <1>6, <1>7, <1>11 DEF TypeOK
<1>13. AfterFinish(m) = IF m.rc = "Abort" THEN table[t] ELSE table[t] \ {n}
  BY Zenon, <1>2, <1>6 DEF AfterFinish
<1>14. table' = [table EXCEPT ![t] = IF m.rc = "Abort" THEN @ ELSE @ \ {n}]
  BY ZenonT(30), <1>6, <1>7, <1>13 DEF TypeOK
<1>15. rc'[t][n] = "RCOK"
  BY ZenonT(30), <1>2, <1>6, <1>10 DEF TypeOK
<1>16. Acknowledges(m) <=> m.rc = "Abort" \/ Acked(t)
  BY Zenon, <1>2 DEF Acknowledges, Acked
<1>17. net' = Deliver(m, IF m.rc = "Abort" \/ Acked(t)
                         THEN {Msg("RACK_FIN", t, n, "RCOK")} ELSE {})
  BY ZenonT(30), <1>7, <1>15, <1>16
<1> QED  BY Zenon, <1>1, <1>2, <1>4, <1>5, <1>7, <1>8, <1>9, <1>10, <1>12, <1>14, <1>17 DEF Finished

\* process_rfin takes m, and t has the messages G after it.
Leaves(t, m, G) ==
  /\ m.type = "RFIN" /\ Finished(t, m)
  /\ m.node \in partitions_touched[t] \ {home[t]} /\ m.node \in Node /\ m.rc \in RC
  /\ OnePerNode(t, G) /\ net' \in [Message -> Nat]
  /\ \A x \in G : x \in InFlight(t) \ {m} \/ (x.type = "RACK_FIN" /\ x.node = m.node)
  /\ InFlight(t) \ {m} \subseteq G

\* Of t, only the node of m has changed.
Changed(t, m, G) ==
  /\ InFlight(t)' = G
  /\ ToFinish(t)' = ToFinish(t) \ {m.node}
  /\ partitions_touched'[t] = partitions_touched[t] /\ rsp_cnt'[t] = rsp_cnt[t]
  /\ answers'[t] = answers[t]
  /\ held'[t] = held[t] \ {m.node} /\ aborted'[t] = aborted[t] \ {m.node}
  /\ table'[t] = (IF m.rc = "Abort" THEN table[t] ELSE table[t] \ {m.node})
  /\ rc'[t][m.node] = "RCOK"
  /\ \A k \in Node \ {m.node} : rc'[t][k] = rc[t][k] /\ outcome'[t][k] = outcome[t][k]
  /\ outcome'[t][m.node] = (IF m.rc = "Abort" THEN "aborted" ELSE "committed")
  /\ CanAbort(t)' = CanAbort(t) /\ Acked(t)' = Acked(t)

LEMMA FinishedProps ==
  ASSUME IInv, NEW t \in Txn, NEW m \in InFlight(t), NEW G, Leaves(t, m, G)
  PROVE  /\ TypeOK' /\ MsgInv(t)' /\ Changed(t, m, G) /\ UNCHANGED query
         /\ \A u \in Txn \ {t} :
              /\ partitions_touched'[u] = partitions_touched[u] /\ rsp_cnt'[u] = rsp_cnt[u]
              /\ rc'[u] = rc[u] /\ aborted'[u] = aborted[u] /\ table'[u] = table[u]
              /\ held'[u] = held[u] /\ abort_cnt'[u] = abort_cnt[u]
              /\ answers'[u] = answers[u] /\ outcome'[u] = outcome[u]
<1> DEFINE n == m.node
           F == InFlight(t)
<1>0. /\ m.type = "RFIN" /\ Finished(t, m)
      /\ n \in partitions_touched[t] \ {home[t]} /\ n \in Node /\ m.rc \in RC
      /\ OnePerNode(t, G) /\ net' \in [Message -> Nat]
      /\ \A x \in G : x \in F \ {m} \/ (x.type = "RACK_FIN" /\ x.node = n)
      /\ F \ {m} \subseteq G
  BY Zenon DEF Leaves
<1>1. TypeOK
  BY Zenon DEF IInv
<1>2. TypeOK'
  <2>1. rc' \in [Txn -> [Node -> RC]]
    BY Zenon, <1>0, <1>1 DEF Finished, TypeOK, RC
  <2>2. outcome' \in [Txn -> [Node -> {"none", "committed", "aborted"}]]
    BY Zenon, <1>0, <1>1 DEF Finished, TypeOK
  <2>3. aborted' \in [Txn -> SUBSET Node] /\ held' \in [Txn -> SUBSET Node]
    BY ZenonT(30), <1>0, <1>1 DEF Finished, TypeOK
  <2>4. table' \in [Txn -> SUBSET Node]
    BY ZenonT(30), <1>0, <1>1 DEF Finished, TypeOK
  <2> QED  BY ZenonT(30), <1>0, <1>1, <2>1, <2>2, <2>3, <2>4 DEF Finished, TypeOK, query
<1>3. /\ partitions_touched'[t] = partitions_touched[t] /\ rsp_cnt'[t] = rsp_cnt[t]
      /\ answers'[t] = answers[t]
      /\ CanAbort(t)' = CanAbort(t) /\ Acked(t)' = Acked(t)
      /\ UNCHANGED query
  BY Zenon, <1>0 DEF Finished, query, CanAbort, Acked, AcksReadonly, PreparesReadonly
<1>4. /\ held'[t] = held[t] \ {n} /\ aborted'[t] = aborted[t] \ {n}
      /\ table'[t] = (IF m.rc = "Abort" THEN table[t] ELSE table[t] \ {n})
  BY Zenon, <1>0, <1>1 DEF Finished, TypeOK
<1>5. /\ rc'[t][n] = "RCOK"
      /\ \A k \in Node \ {n} : rc'[t][k] = rc[t][k]
  BY ZenonT(30), <1>0, <1>1 DEF Finished, TypeOK
<1>6. /\ outcome'[t][n] = (IF m.rc = "Abort" THEN "aborted" ELSE "committed")
      /\ \A k \in Node \ {n} : outcome'[t][k] = outcome[t][k]
  BY ZenonT(30), <1>0, <1>1 DEF Finished, TypeOK
<1>7. /\ InFlight(t)' = G /\ IsFiniteSet(G) /\ \A x \in G : net'[x] = 1
      /\ \A x, y \in G : x.node = y.node => x = y
  BY Zenon, <1>0 DEF OnePerNode
<1>8. MsgInv(t)'
  <2>1. held'[t] \subseteq partitions_touched[t] /\ table'[t] \subseteq partitions_touched[t]
    BY Zenon, <1>4 DEF IInv, TxnInv, MsgInv
  <2>2. \A x \in F : IF x.type \in {"RTXN", "RTXN_CONT"} THEN x.node = home[t] /\ x.rc = "RCOK"
                     ELSE x.node \in partitions_touched[t] \ {home[t]}
    BY Zenon DEF IInv, TxnInv, MsgInv
  <2>3. \A x \in G : IF x.type \in {"RTXN", "RTXN_CONT"} THEN x.node = home[t] /\ x.rc = "RCOK"
                     ELSE x.node \in partitions_touched[t] \ {home[t]}
    BY Zenon, <1>0, <2>2
  <2> QED  BY ZenonT(30), <1>3, <1>7, <2>1, <2>3 DEF MsgInv
<1>9. ToFinish(t)' = ToFinish(t) \ {n}
  <2>1. \A x \in F : x # m => x.node # n
    BY Zenon DEF IInv, TxnInv, MsgInv
  <2>2. \A k : (\E x \in G : x.type = "RFIN" /\ x.node = k) <=>
               (\E x \in F : x.type = "RFIN" /\ x.node = k) /\ k # n
    BY ZenonT(30), <1>0, <2>1
  <2>3. ToFinish(t)' = {k \in Node : \E x \in G : x.type = "RFIN" /\ x.node = k}
    BY Zenon, <1>7 DEF ToFinish
  <2> QED  BY ZenonT(30), <2>2, <2>3 DEF ToFinish
<1>10. \A u \in Txn \ {t} :
         /\ partitions_touched'[u] = partitions_touched[u] /\ rsp_cnt'[u] = rsp_cnt[u]
         /\ rc'[u] = rc[u] /\ aborted'[u] = aborted[u] /\ table'[u] = table[u]
         /\ held'[u] = held[u] /\ abort_cnt'[u] = abort_cnt[u]
         /\ answers'[u] = answers[u] /\ outcome'[u] = outcome[u]
  BY ZenonT(30), <1>0, <1>1 DEF Finished, TypeOK
<1>11. Changed(t, m, G)
  BY ZenonT(30), <1>3, <1>4, <1>5, <1>6, <1>7, <1>9 DEF Changed
<1> QED  BY ZenonT(30), <1>2, <1>3, <1>8, <1>10, <1>11

\* process_rfin.
LEMMA ProcessRfinInv ==
  ASSUME Counting, IInv, NEW t \in Txn, NEW m \in InFlight(t), ProcessRfin(m)
  PROVE  IInv'
<1> DEFINE n == m.node
           F == InFlight(t)
           h == home[t]
           r == Msg("RACK_FIN", t, n, "RCOK")
<1>1. /\ Finished(t, m) /\ m.type = "RFIN" /\ n \in partitions_touched[t] \ {h}
      /\ n \in Node /\ n \in ToFinish(t) /\ h \in Node /\ m.rc \in RC
      /\ m.rc = "Abort" => AbortPhase(t)
      /\ m.rc = "RCOK" => CommitPhase(t)
      /\ net' = Deliver(m, IF m.rc = "Abort" \/ Acked(t) THEN {r} ELSE {})
  BY Zenon, ProcessRfinFinishes
<1>2. /\ r \in Message /\ r.txn = t /\ r.node = n /\ r.type = "RACK_FIN" /\ r.rc = "RCOK"
      /\ r # m
  BY <1>1 DEF Msg, Message, MsgType, RC
<1> HIDE DEF r
<1>3. CASE m.rc = "Abort" \/ Acked(t)
  <2> DEFINE G == (F \ {m}) \cup {r}
  <2>1. net' = Deliver(m, {r})
    BY Zenon, <1>1, <1>3
  <2>2. /\ net' \in [Message -> Nat] /\ OnePerNode(t, G) /\ Cardinality(G) = Cardinality(F)
        /\ \A u \in Txn \ {t} : /\ InFlight(u)' = InFlight(u)
                                /\ \A x \in InFlight(u) : net'[x] = net[x]
    BY ZenonT(30), <1>2, <2>1, ReplaceMessage
  <2>3. /\ \A x \in G : x \in F \ {m} \/ (x.type = "RACK_FIN" /\ x.node = n)
        /\ F \ {m} \subseteq G /\ G # {}
    BY Zenon, <1>2
  <2>4. \A x \in G : x = r \/ x \in F
    BY Zenon
  <2> HIDE DEF G
  <2>10. Leaves(t, m, G)
    BY ZenonT(30), <1>1, <2>2, <2>3 DEF Leaves
  <2>5. TypeOK' /\ MsgInv(t)' /\ Changed(t, m, G)
    BY ZenonT(30), <2>10, FinishedProps
  <2>6. ASSUME m.rc = "Abort" PROVE AbortPhase(t)'
    <3>1. AbortPhase(t)
      BY Zenon, <1>1, <2>6
    <3>2. /\ G # {} /\ \A x \in G : /\ x.type \in Finishing
                                    /\ x.rc = IF x.type = "RFIN" THEN "Abort" ELSE "RCOK"
      BY ZenonT(30), <1>2, <2>3, <2>4, <3>1 DEF AbortPhase, Finishing
    <3>3. /\ answers'[t] = 0 /\ rsp_cnt'[t] = Cardinality(G) /\ CanAbort(t)'
          /\ h \in partitions_touched'[t] /\ partitions_touched'[t] \subseteq table'[t]
          /\ rc'[t][h] = "Abort" /\ h \in aborted'[t]
      BY ZenonT(30), <1>1, <2>2, <2>5, <2>6, <3>1 DEF Changed, AbortPhase
    <3>4. /\ aborted'[t] \subseteq ToFinish(t)' \cup {h}
          /\ held'[t] \subseteq ToFinish(t)' \ aborted'[t]
      BY ZenonT(30), <1>1, <2>5, <3>1 DEF Changed, AbortPhase
    <3>5. /\ \A k \in Node : outcome'[t][k] # "committed"
          /\ \A k \in Node \ {h} : rc'[t][k] = "Abort" => k \in aborted'[t]
      BY <1>1, <2>5, <2>6, <3>1 DEF Changed, AbortPhase
    <3>6. \A k \in ToFinish(t)' : outcome'[t][k] = IF k \in aborted'[t] THEN "aborted" ELSE "none"
      <4>1. ToFinish(t) \subseteq Node
        BY Zenon DEF ToFinish
      <4> QED  BY <1>1, <2>5, <3>1, <4>1 DEF Changed, AbortPhase
    <3> QED  BY ZenonT(30), <2>5, <3>2, <3>3, <3>4, <3>5, <3>6 DEF Changed, AbortPhase
  <2>7. ASSUME m.rc # "Abort" PROVE CommitPhase(t)'
    <3>1. CommitPhase(t) /\ Acked(t)
      BY ZenonT(30), <1>1, <1>3, <2>7 DEF RC
    <3>2. G # {} /\ \A x \in G : x.type \in Finishing /\ x.rc = "RCOK"
      BY ZenonT(30), <1>2, <2>3, <2>4, <3>1 DEF CommitPhase, Finishing
    <3>3. /\ answers'[t] = 0 /\ rsp_cnt'[t] = Cardinality(G) /\ Acked(t)'
          /\ h \notin held'[t] /\ outcome'[t][h] = "committed"
      <4>1. /\ answers[t] = 0 /\ rsp_cnt[t] = Cardinality(F)
            /\ h \notin held[t] /\ outcome[t][h] = "committed"
        BY Zenon, <3>1 DEF CommitPhase
      <4> QED  BY ZenonT(30), <1>1, <2>2, <2>5, <3>1, <4>1 DEF Changed
    <3>7. h \in table'[t] /\ ToFinish(t)' \subseteq table'[t]
      BY <1>1, <2>5, <2>7, <3>1 DEF Changed, CommitPhase
    <3>4. /\ aborted'[t] = {} /\ \A k \in Node : rc'[t][k] = "RCOK"
      BY <1>1, <2>5, <3>1 DEF Changed, CommitPhase
    <3>5. \A k \in Node \ {h} : outcome'[t][k] =
            IF k \in partitions_touched'[t] \ ToFinish(t)' THEN "committed" ELSE "none"
      BY <1>1, <2>5, <2>7, <3>1 DEF Changed, CommitPhase
    <3>6. held'[t] \subseteq ToFinish(t)' \cup {h} /\ table'[t] \subseteq ToFinish(t)' \cup {h}
      BY <1>1, <2>5, <2>7, <3>1 DEF Changed, CommitPhase
    <3> QED  BY ZenonT(30), <2>5, <3>1, <3>2, <3>3, <3>4, <3>5, <3>6, <3>7 DEF Changed, CommitPhase
  <2>8. TxnInv(t)'
    BY Zenon, <2>5, <2>6, <2>7 DEF TxnInv
  <2>9. /\ UNCHANGED query
        /\ \A u \in Txn \ {t} :
             /\ partitions_touched'[u] = partitions_touched[u] /\ rsp_cnt'[u] = rsp_cnt[u]
             /\ rc'[u] = rc[u] /\ aborted'[u] = aborted[u] /\ table'[u] = table[u]
             /\ held'[u] = held[u] /\ abort_cnt'[u] = abort_cnt[u]
             /\ answers'[u] = answers[u] /\ outcome'[u] = outcome[u]
    BY Zenon, <2>10, FinishedProps
  <2> QED  BY ZenonT(30), <2>2, <2>5, <2>8, <2>9, OthersKept
<1>4. CASE ~ (m.rc = "Abort" \/ Acked(t))
  <2> DEFINE G == F \ {m}
  <2>1. net' = Deliver(m, {})
    BY Zenon, <1>1, <1>4
  <2>2. /\ net' \in [Message -> Nat] /\ OnePerNode(t, G)
        /\ \A u \in Txn \ {t} : /\ InFlight(u)' = InFlight(u)
                                /\ \A x \in InFlight(u) : net'[x] = net[x]
    BY Zenon, <2>1, DropMessage
  <2>3. /\ \A x \in G : x \in F \ {m} \/ (x.type = "RACK_FIN" /\ x.node = n)
        /\ F \ {m} \subseteq G /\ G \subseteq F
    BY Zenon
  <2> HIDE DEF G
  <2>10. Leaves(t, m, G)
    BY ZenonT(30), <1>1, <2>2, <2>3 DEF Leaves
  <2>5. TypeOK' /\ MsgInv(t)' /\ Changed(t, m, G)
    BY ZenonT(30), <2>10, FinishedProps
  <2>7. CommitPhase(t)'
    <3>1. CommitPhase(t) /\ ~ Acked(t) /\ m.rc # "Abort"
      BY Zenon, <1>1, <1>4 DEF RC
    <3>2. \A x \in G : x.type \in Finishing /\ x.rc = "RCOK" /\ x.type = "RFIN"
      BY Zenon, <2>3, <3>1 DEF CommitPhase
    <3>3. /\ answers'[t] = 0 /\ rsp_cnt'[t] = 0 /\ ~ Acked(t)' /\ outcome'[t][h] = "none"
          /\ h \in table'[t] /\ ToFinish(t)' \subseteq table'[t]
      BY <1>1, <2>5, <3>1 DEF Changed, CommitPhase
    <3>4. /\ aborted'[t] = {} /\ \A k \in Node : rc'[t][k] = "RCOK"
      BY <1>1, <2>5, <3>1 DEF Changed, CommitPhase
    <3>5. \A k \in Node \ {h} : outcome'[t][k] =
            IF k \in partitions_touched'[t] \ ToFinish(t)' THEN "committed" ELSE "none"
      BY <1>1, <2>5, <3>1 DEF Changed, CommitPhase
    <3>6. held'[t] \subseteq ToFinish(t)' \cup {h} /\ table'[t] \subseteq ToFinish(t)' \cup {h}
      BY ZenonT(30), <1>1, <2>5, <3>1 DEF Changed, CommitPhase
    <3> QED  BY ZenonT(30), <2>5, <3>2, <3>3, <3>4, <3>5, <3>6 DEF Changed, CommitPhase
  <2>8. TxnInv(t)'
    BY Zenon, <2>5, <2>7 DEF TxnInv
  <2>9. /\ UNCHANGED query
        /\ \A u \in Txn \ {t} :
             /\ partitions_touched'[u] = partitions_touched[u] /\ rsp_cnt'[u] = rsp_cnt[u]
             /\ rc'[u] = rc[u] /\ aborted'[u] = aborted[u] /\ table'[u] = table[u]
             /\ held'[u] = held[u] /\ abort_cnt'[u] = abort_cnt[u]
             /\ answers'[u] = answers[u] /\ outcome'[u] = outcome[u]
    BY ZenonT(30), <2>10, FinishedProps
  <2> QED  BY ZenonT(30), <2>2, <2>5, <2>8, <2>9, OthersKept
<1> QED  BY Zenon, <1>3, <1>4

\* received_response is about a message of the votes or of the ends, and
\* the home counts the messages of t.
LEMMA ResponseProps ==
  ASSUME Counting, IInv, NEW t \in Txn, NEW m \in InFlight(t), m.type \in {"RACK_PREP", "RACK_FIN"}
  PROVE  /\ m.txn = t /\ home[t] \in Node /\ m.rc \in RC
         /\ m.node \in partitions_touched[t] \ {home[t]}
         /\ IF m.type = "RACK_PREP" THEN VotePhase(t)
            ELSE AbortPhase(t) \/ (CommitPhase(t) /\ Acked(t))
         /\ rsp_cnt[t] = Cardinality(InFlight(t)) /\ rsp_cnt[t] \in Nat \ {0}
         /\ ResponsesLeft(m) = rsp_cnt[t] - 1
         /\ ResponsesLeft(m) = 0 => InFlight(t) = {m}
<1> DEFINE F == InFlight(t)
<1>1. /\ m.type \notin Executing
      /\ m.type = "RACK_PREP" => m.type \in Voting
      /\ m.type = "RACK_FIN" => m.type \in Finishing
  BY Zenon DEF Executing, Voting, Finishing
<1>2. /\ m \in Message /\ m.txn = t /\ home[t] \in Node /\ m.rc \in RC
      /\ m.node \in partitions_touched[t] \ {home[t]}
  BY <1>1, PhaseOf DEF Message
<1>3. IF m.type = "RACK_PREP" THEN VotePhase(t)
      ELSE AbortPhase(t) \/ (CommitPhase(t) /\ Acked(t))
  <2>1. CASE m.type = "RACK_PREP"
    BY Zenon, <1>1, <2>1, PhaseOf
  <2>2. CASE m.type = "RACK_FIN"
    <3>1. CommitPhase(t) => Acked(t)
      BY Zenon, <2>2 DEF CommitPhase
    <3> QED  BY Zenon, <1>1, <2>2, <3>1, PhaseOf
  <2> QED  BY Zenon, <2>1, <2>2
<1>4. rsp_cnt[t] = Cardinality(F)
  BY Zenon, <1>3 DEF VotePhase, AbortPhase, CommitPhase
<1>5. IsFiniteSet(F)
  BY Zenon DEF IInv, TxnInv, MsgInv
<1>6. /\ IsFiniteSet(F \ {m}) /\ Cardinality(F \ {m}) = Cardinality(F) - 1
  BY Zenon, <1>5 DEF Counting, RemoveCount
<1>7. Cardinality(F) \in Nat /\ Cardinality(F \ {m}) \in Nat
  BY Zenon, <1>5, <1>6 DEF Counting, SizeCount
<1>8. rsp_cnt[t] \in Nat \ {0}
  BY <1>4, <1>6, <1>7
<1>9. ResponsesLeft(m) = rsp_cnt[t] - 1
  BY <1>2, <1>8 DEF ResponsesLeft
<1>10. ResponsesLeft(m) = 0 => F \ {m} = {}
  BY Zenon, <1>4, <1>6, <1>9 DEF Counting, SizeCount
<1> QED  BY ZenonT(30), <1>2, <1>3, <1>4, <1>8, <1>9, <1>10

\* process_rack_prep and process_rack_rfin, not the last response.
LEMMA ReceivedResponseInv ==
  ASSUME Counting, IInv, NEW t \in Txn, NEW m \in InFlight(t), ReceivedResponse(m)
  PROVE  IInv'
<1> DEFINE F == InFlight(t)
           G == F \ {m}
           h == home[t]
<1>1. m.type \in {"RACK_PREP", "RACK_FIN"}
  BY Zenon DEF ReceivedResponse
<1>2. /\ m.txn = t /\ h \in Node /\ m.rc \in RC
      /\ rsp_cnt[t] = Cardinality(F) /\ rsp_cnt[t] \in Nat \ {0}
      /\ ResponsesLeft(m) = rsp_cnt[t] - 1
  BY Zenon, <1>1, ResponseProps
<1>3. /\ ResponsesLeft(m) > 0
      /\ rc' = [rc EXCEPT ![t][h] = NewRc(m)]
      /\ rsp_cnt' = [rsp_cnt EXCEPT ![t] = rsp_cnt[t] - 1]
      /\ table' = [table EXCEPT ![t] = @ \cup {h}]
      /\ net' = Deliver(m, {})
      /\ UNCHANGED <<query, next_record_id, partitions_touched, aborted, held,
                     abort_cnt, waits, answers, outcome>>
  BY Zenon, <1>2 DEF ReceivedResponse
<1>4. /\ net' \in [Message -> Nat] /\ OnePerNode(t, G)
      /\ Cardinality(G) = Cardinality(F) - 1
      /\ \A u \in Txn \ {t} : /\ InFlight(u)' = InFlight(u)
                              /\ \A x \in InFlight(u) : net'[x] = net[x]
  BY Zenon, <1>3, DropMessage
<1>5. /\ InFlight(t)' = G /\ IsFiniteSet(G) /\ \A x \in G : net'[x] = 1
      /\ \A x, y \in G : x.node = y.node => x = y
  BY Zenon, <1>4 DEF OnePerNode
<1>6. G # {}
  <2>1. Cardinality(G) # 0
    BY <1>2, <1>3, <1>4
  <2>2. Cardinality({}) = 0
    BY Zenon DEF Counting, SizeCount
  <2> QED  BY ZenonT(30), <2>1, <2>2
<1>7. NewRc(m) \in RC /\ NewRc(m) = IF rc[t][h] = "RCOK" THEN m.rc ELSE rc[t][h]
  BY ZenonT(30), <1>2 DEF NewRc, IInv, TypeOK
<1>8. h \in table[t]
  BY ZenonT(30), <1>1, ResponseProps DEF VotePhase, AbortPhase, CommitPhase
<1>9. TypeOK'
  <2>1. TypeOK
    BY ZenonT(30) DEF IInv
  <2>2. rc' \in [Txn -> [Node -> RC]]
    BY ZenonT(30), <1>2, <1>3, <1>7, <2>1 DEF TypeOK
  <2>3. table' \in [Txn -> SUBSET Node]
    BY <1>2, <1>3, <2>1 DEF TypeOK
  <2>4. rsp_cnt' \in [Txn -> Nat]
    <3>1. rsp_cnt[t] - 1 \in Nat
      BY <1>2
    <3> QED  BY Zenon, <1>3, <2>1, <3>1 DEF TypeOK
  <2> QED  BY ZenonT(30), <1>3, <1>4, <2>1, <2>2, <2>3, <2>4 DEF TypeOK, query
<1>10. /\ rsp_cnt'[t] = Cardinality(G) /\ table'[t] = table[t]
       /\ rc'[t][h] = NewRc(m) /\ \A n \in Node \ {h} : rc'[t][n] = rc[t][n]
       /\ CanAbort(t)' = CanAbort(t) /\ Acked(t)' = Acked(t)
  <2>1. rsp_cnt'[t] = Cardinality(G)
    BY ZenonT(30), <1>2, <1>3, <1>4 DEF IInv, TypeOK
  <2>2. table'[t] = table[t]
    BY ZenonT(30), <1>3, <1>8 DEF IInv, TypeOK
  <2>3. rc'[t][h] = NewRc(m) /\ \A n \in Node \ {h} : rc'[t][n] = rc[t][n]
    BY ZenonT(30), <1>2, <1>3 DEF IInv, TypeOK
  <2>4. CanAbort(t)' = CanAbort(t) /\ Acked(t)' = Acked(t)
    BY ZenonT(30), <1>3 DEF query, CanAbort, Acked, AcksReadonly, PreparesReadonly
  <2> QED  BY ZenonT(30), <2>1, <2>2, <2>3, <2>4
<1>11. MsgInv(t)'
  BY ZenonT(30), <1>3, <1>5, <1>10 DEF IInv, TxnInv, MsgInv
<1>12. m.type = "RACK_FIN" => ToFinish(t)' = ToFinish(t)
  BY Zenon, <1>5 DEF ToFinish
<1>13. ASSUME VotePhase(t) PROVE VotePhase(t)'
  <2>1. /\ \A x \in F : x.type \in Voting
        /\ answers[t] = 0 /\ Acked(t)
        /\ h \in partitions_touched[t] /\ partitions_touched[t] \subseteq table[t]
        /\ h \notin aborted[t] /\ aborted[t] \subseteq partitions_touched[t]
        /\ held[t] \cap aborted[t] = {}
    BY Zenon, <1>13 DEF VotePhase
  <2>2. /\ \A k \in Node : outcome[t][k] = IF k \in aborted[t] THEN "aborted" ELSE "none"
        /\ \A k \in Node \ {h} : rc[t][k] = IF k \in aborted[t] THEN "Abort" ELSE "RCOK"
    BY ZenonT(30), <1>13 DEF VotePhase
  <2>3. rc[t][h] = "RCOK" =>
          \A k \in aborted[t] : \E x \in F : x.node = k /\ x.type = "RACK_PREP" /\ x.rc = "Abort"
    BY Zenon, <1>13 DEF VotePhase
  <2>4. /\ \A x \in F : x.type = "RPREPARE" => x.node \notin aborted[t]
        /\ rc[t][h] = "Abort" \/ (\E x \in F : x.rc = "Abort") => CanAbort(t)
    BY Zenon, <1>13 DEF VotePhase
  <2>5. rc'[t][h] = "RCOK" =>
          \A k \in aborted[t] : \E x \in G : x.node = k /\ x.type = "RACK_PREP" /\ x.rc = "Abort"
    <3>1. rc'[t][h] = "RCOK" => rc[t][h] = "RCOK" /\ m.rc = "RCOK"
      BY Zenon, <1>7, <1>10
    <3> QED  BY <2>3, <3>1
  <2>6. rc'[t][h] = "Abort" \/ (\E x \in G : x.rc = "Abort") => CanAbort(t)
    BY ZenonT(30), <1>7, <1>10, <2>4
  <2>7. \A x \in G : x.type \in Voting /\ (x.type = "RPREPARE" => x.node \notin aborted[t])
    BY Zenon, <2>1, <2>4
  <2>8. \A k \in Node \ {h} : rc'[t][k] = IF k \in aborted[t] THEN "Abort" ELSE "RCOK"
    BY ZenonT(30), <1>10, <2>2
  <2> HIDE DEF G
  <2> QED  BY <1>3, <1>5, <1>6, <1>10, <2>1, <2>2, <2>5, <2>6, <2>7, <2>8 DEF VotePhase
<1>14. ASSUME CommitPhase(t), Acked(t), m.type = "RACK_FIN" PROVE CommitPhase(t)'
  <2>1. /\ \A x \in G : x.type \in Finishing /\ x.rc = "RCOK"
        /\ answers[t] = 0
        /\ h \notin held[t] /\ outcome[t][h] = "committed"
        /\ h \in table[t] /\ ToFinish(t) \subseteq table[t] /\ aborted[t] = {}
        /\ held[t] \subseteq ToFinish(t) \cup {h} /\ table[t] \subseteq ToFinish(t) \cup {h}
    BY Zenon, <1>14 DEF CommitPhase
  <2>2. \A n \in Node \ {h} : outcome[t][n] =
          IF n \in partitions_touched[t] \ ToFinish(t) THEN "committed" ELSE "none"
    BY Zenon, <1>14 DEF CommitPhase
  <2>3. m.rc = "RCOK" /\ \A n \in Node : rc[t][n] = "RCOK"
    BY Zenon, <1>14 DEF CommitPhase
  <2>4. \A n \in Node : rc'[t][n] = "RCOK"
    BY ZenonT(30), <1>2, <1>7, <1>10, <2>3
  <2> HIDE DEF G
  <2> QED  BY ZenonT(30), <1>3, <1>5, <1>6, <1>10, <1>12, <1>14, <2>1, <2>2, <2>4 DEF CommitPhase
<1>15. ASSUME AbortPhase(t), m.type = "RACK_FIN" PROVE AbortPhase(t)'
  <2>1. /\ \A x \in G : /\ x.type \in Finishing
                        /\ x.rc = IF x.type = "RFIN" THEN "Abort" ELSE "RCOK"
        /\ answers[t] = 0 /\ CanAbort(t)
        /\ h \in partitions_touched[t] /\ partitions_touched[t] \subseteq table[t]
        /\ rc[t][h] = "Abort" /\ h \in aborted[t] /\ aborted[t] \subseteq ToFinish(t) \cup {h}
        /\ held[t] \subseteq ToFinish(t) \ aborted[t]
    BY Zenon, <1>15 DEF AbortPhase
  <2>2. /\ \A n \in Node : outcome[t][n] # "committed"
        /\ \A n \in ToFinish(t) : outcome[t][n] = IF n \in aborted[t] THEN "aborted" ELSE "none"
        /\ \A n \in Node \ {h} : rc[t][n] = "Abort" => n \in aborted[t]
    BY Zenon, <1>15 DEF AbortPhase
  <2>3. rc'[t][h] = "Abort" /\ \A n \in Node \ {h} : rc'[t][n] = "Abort" => n \in aborted[t]
    BY ZenonT(30), <1>7, <1>10, <2>1, <2>2
  <2> HIDE DEF G
  <2> QED  BY ZenonT(30), <1>3, <1>5, <1>6, <1>10, <1>12, <1>15, <2>1, <2>2, <2>3 DEF AbortPhase
<1>16. TxnInv(t)'
  BY ZenonT(30), <1>1, <1>11, <1>13, <1>14, <1>15, ResponseProps DEF TxnInv
<1>17. \A u \in Txn \ {t} :
         /\ partitions_touched'[u] = partitions_touched[u] /\ rsp_cnt'[u] = rsp_cnt[u]
         /\ rc'[u] = rc[u] /\ aborted'[u] = aborted[u] /\ table'[u] = table[u]
         /\ held'[u] = held[u] /\ abort_cnt'[u] = abort_cnt[u]
         /\ answers'[u] = answers[u] /\ outcome'[u] = outcome[u]
  BY Zenon, <1>3 DEF IInv, TypeOK
<1>18. UNCHANGED query
  BY Zenon, <1>3
<1> QED  BY ZenonT(30), <1>4, <1>9, <1>16, <1>17, <1>18, OthersKept
=============================================================================
