--------------------------- MODULE MigrationProofs ---------------------------
(***************************************************************************)
(* The steps of the transactions preserve the invariant of the migration,  *)
(* and what follows from it.                                               *)
(***************************************************************************)
EXTENDS MigrationInvariant, FiniteSetTheorems

(* The steps of the transactions.                                          *)
LEMMA ExceptAt ==
  ASSUME NEW A, NEW B, NEW V, NEW f \in [A -> [B -> V]], NEW a \in A, NEW b \in B, NEW v \in V
  PROVE  /\ [f EXCEPT ![a][b] = v] \in [A -> [B -> V]]
         /\ [f EXCEPT ![a][b] = v][a][b] = v
         /\ \A k \in A : \A q \in B :
              ~ (k = a /\ q = b) => [f EXCEPT ![a][b] = v][k][q] = f[k][q]
<1> DEFINE g == [f[a] EXCEPT ![b] = v]
<1>1. [f EXCEPT ![a][b] = v] = [f EXCEPT ![a] = g]
  BY Zenon
<1>2. g \in [B -> V] /\ g[b] = v /\ \A q \in B : q # b => g[q] = f[a][q]
  BY Zenon
<1> HIDE DEF g
<1> QED  BY Zenon, <1>1, <1>2

LEMMA KeysCounted == IntervalCount
BY FS_Interval DEF IntervalCount

LEMMA NodeCount == Cardinality(Node) \in Nat /\ 1 \in 0 .. Cardinality(Node)
<1>1. Cardinality(Node) \in Nat /\ Cardinality(Node) # 0
  BY Zenon, NodeAssumption, FS_CardinalityType, FS_EmptySet
<1> QED  BY <1>1

\* What concerns the other transactions does not change.
LEMMA AnswersStep ==
  ASSUME Answers, NEW t,
         \A a \in TxnNet' : a.txn # t => /\ a \in TxnNet /\ state'[a.txn] = state[a.txn]
                                         /\ touched'[a.txn] = touched[a.txn]
                                         /\ rsp_cnt'[a.txn] = rsp_cnt[a.txn],
         \A a \in TxnNet' : InChain(a) /\ a.txn = t => Waiting(a)',
         \A a, b \in TxnNet' : InChain(a) /\ InChain(b) /\ a.txn = t /\ b.txn = t => a = b
  PROVE  Answers'
<1>1. \A a, b \in TxnNet' : InChain(a) /\ InChain(b) /\ a.txn = b.txn => a = b
  BY Zenon DEF Answers
<1>2. ASSUME NEW a \in TxnNet', InChain(a) PROVE Waiting(a)'
  <2>1. CASE a.txn = t
    BY Zenon, <1>2, <2>1
  <2>2. CASE a.txn # t
    BY <1>2, <2>2 DEF Answers, Waiting
  <2> QED  BY Zenon, <2>1, <2>2
<1> QED  BY Zenon, <1>1, <1>2 DEF Answers

RoundSent(t, type, old) ==
  /\ rsp_cnt' \in [Txn -> 0 .. Cardinality(Node)] /\ rsp_cnt'[t] = 1
  /\ \A u \in Txn \ {t} : rsp_cnt'[u] = rsp_cnt[u]
  /\ \E S \in SUBSET Message :
       /\ net' = old \cup S
       /\ \A x \in S : x.type = type /\ x.txn = t
       /\ \A x, y \in S : x = y

\* send_prepare_messages, send_finish_messages: one other partition, so one response
\* to wait for, and at most one message.
LEMMA RoundProps ==
  ASSUME Types, NEW t \in Txn, home[t] # Src,
         NEW d \in Node, d # home[t], touched[t] = {home[t], d},
         NEW type \in {"RPREPARE", "RFIN"}, NEW rc \in {"RCOK", "Abort"}, NEW old,
         SendRound(t, type, rc, old)
  PROVE  RoundSent(t, type, old)
<1> DEFINE h == home[t]
<1>1. d \in Node \ {h} /\ touched[t] = {h, d}
  BY Zenon
<1>2. h \in Node /\ h \in Holder
  BY Zenon, TxnAssumption DEF Holder
<1>3. Cardinality({h, d}) = 2
  <2>1. IsFiniteSet({h}) /\ Cardinality({h}) = 1
    BY Zenon, FS_Singleton
  <2>2. {h, d} = {h} \cup {d} /\ d \notin {h}
    BY Zenon
  <2>3. Cardinality({h} \cup {d}) = Cardinality({h}) + 1
    BY Zenon, <2>1, <2>2, FS_AddElement
  <2> QED  BY <2>1, <2>2, <2>3
<1>4. rsp_cnt' = [rsp_cnt EXCEPT ![t] = 1]
  <2>1. rsp_cnt' = [rsp_cnt EXCEPT ![t] = Cardinality({h, d}) - 1]
    BY Zenon, <1>1 DEF SendRound
  <2>2. Cardinality({h, d}) - 1 = 1
    BY <1>3
  <2> QED  BY Zenon, <2>1, <2>2
<1>5. /\ rsp_cnt' \in [Txn -> 0 .. Cardinality(Node)] /\ rsp_cnt'[t] = 1
      /\ \A u \in Txn \ {t} : rsp_cnt'[u] = rsp_cnt[u]
  <2>1. rsp_cnt \in [Txn -> 0 .. Cardinality(Node)]
    BY Zenon DEF Types, TypeOK
  <2> QED  BY Zenon, <1>4, <2>1, NodeCount
<1> DEFINE e == get_part_node_id(h, d)
           targets == {get_part_node_id(h, p) : p \in {h, d}} \ {h}
           S == {[type |-> type, to |-> n, txn |-> t, rc |-> rc] : n \in targets}
<1>6. e \in Node /\ get_part_node_id(h, h) = h
  BY Zenon, <1>2 DEF get_part_node_id, Types, TypeOK
<1>7. targets \subseteq {e} /\ targets \subseteq Node
  BY Zenon, <1>6
<1>8. net' = old \cup S
  BY Zenon, <1>1 DEF SendRound
<1> HIDE DEF e, targets
<1>9. ASSUME NEW x \in S PROVE x \in Message /\ x.type = type /\ x.txn = t
  <2>1. PICK n \in targets : x = [type |-> type, to |-> n, txn |-> t, rc |-> rc]
    BY Zenon
  <2> QED  BY ZenonT(30), <1>7, <2>1, TxnMessages
<1>10. \A x, y \in S : x = y
  BY Zenon, <1>7
<1> HIDE DEF S
<1>11. S \in SUBSET Message
  BY Zenon, <1>9
<1> QED  BY Zenon, <1>5, <1>8, <1>9, <1>10, <1>11 DEF RoundSent

\* process_rtxn.
LEMMA ProcessRtxnInv ==
  ASSUME IInv, NEW t \in Txn, ProcessRtxn(t)
  PROVE  IInv'
<1> DEFINE h == home[t]
           r == key[t]
           d == get_key_node_id(h, r)
<1>1. /\ h \in Node /\ h \in Holder /\ t \in DOMAIN key /\ r \in Row /\ r[1] \in MiniPart
      /\ t # "none" /\ state[t] = "new"
  BY Zenon, TxnAssumption DEF ProcessRtxn, IInv, Types, Holder, Row
<1>2. d \in {Src, Dest} /\ d \in Node /\ (h = Src => d = Src)
  BY Zenon, <1>1, NodeAssumption DEF get_key_node_id, IInv, MigInv, Routes
<1>3. UNCHANGED <<msg_num, key, minipart_map, part_map, sent, mig_locks, sending, migmsg_queue>>
  BY Zenon DEF ProcessRtxn
<1>4. \A a \in TxnNet : InChain(a) => a.txn # t
  BY Zenon, <1>1 DEF IInv, TxnInv, Answers, Waiting
<1>5. /\ rows \in [Node -> [Row -> {"none", "hello"} \cup Txn]]
      /\ state \in [Txn -> {"new", "remote", "preparing", "committing", "aborting", "committed",
                            "aborted"}]
      /\ touched \in [Txn -> SUBSET Node]
      /\ failed \in [Node -> {"none", "the key does not exist!", "IS_LOCAL"}]
  BY Zenon DEF IInv, Types, TypeOK
<1>6. CASE d = h
  <2>1. /\ touched' = [touched EXCEPT ![t] = {h}] /\ UNCHANGED <<net, write_locks, rsp_cnt>>
        /\ \/ /\ IndexFails(h, r) /\ Fail(h, "the key does not exist!")
              /\ UNCHANGED <<state, rows>>
           \/ /\ ~ IndexFails(h, r) /\ Lockable(h, r)
              /\ rows' = [rows EXCEPT ![h][r] = t]
              /\ state' = [state EXCEPT ![t] = "committed"]
              /\ UNCHANGED failed
           \/ /\ ~ IndexFails(h, r) /\ ~ Lockable(h, r)
              /\ state' = [state EXCEPT ![t] = "aborted"]
              /\ UNCHANGED <<rows, failed>>
    BY Zenon, <1>6 DEF ProcessRtxn
  <2> HIDE DEF h, r, d
  <2>2. /\ rows' \in [Node -> [Row -> {"none", "hello"} \cup Txn]]
        /\ \A n \in Node : \A q \in Row : rows[n][q] # "none" => rows'[n][q] # "none"
    <3>1. CASE UNCHANGED rows
      BY Zenon, <1>5, <3>1
    <3>2. CASE rows' = [rows EXCEPT ![h][r] = t]
      <4>1. /\ rows' \in [Node -> [Row -> {"none", "hello"} \cup Txn]]
            /\ rows'[h][r] = t
            /\ \A n \in Node : \A q \in Row : ~ (n = h /\ q = r) => rows'[n][q] = rows[n][q]
        <5> DEFINE V == {"none", "hello"} \cup Txn
        <5>1. t \in V /\ rows \in [Node -> [Row -> V]] /\ h \in Node /\ r \in Row
          BY Zenon, <1>1, <1>5
        <5> HIDE DEF V
        <5>2. /\ [rows EXCEPT ![h][r] = t] \in [Node -> [Row -> V]]
              /\ [rows EXCEPT ![h][r] = t][h][r] = t
              /\ \A n \in Node : \A q \in Row :
                   ~ (n = h /\ q = r) => [rows EXCEPT ![h][r] = t][n][q] = rows[n][q]
          BY <5>1, ExceptAt
        <5> QED  BY Zenon, <3>2, <5>2 DEF V
      <4> QED  BY ZenonT(30), <1>1, <4>1
    <3> QED  BY Zenon, <2>1, <3>1, <3>2
  <2>3. /\ state' \in [Txn -> {"new", "remote", "preparing", "committing", "aborting",
                               "committed", "aborted"}]
        /\ touched' \in [Txn -> SUBSET Node]
        /\ failed' \in [Node -> {"none", "the key does not exist!", "IS_LOCAL"}]
        /\ \A u \in Txn \ {t} : state'[u] = state[u] /\ touched'[u] = touched[u]
    BY ZenonT(30), <1>1, <1>5, <2>1 DEF Fail
  <2>4. Types'
    BY ZenonT(30), <1>3, <2>1, <2>2, <2>3 DEF IInv, Types, TypeOK
  <2>5. MigNet' = MigNet /\ TxnNet' = TxnNet
    BY Zenon, <2>1 DEF MigNet, TxnNet
  <2>6. MigInv'
    <3>1. ArrivedKept
      BY Zenon, <1>3, <2>2, NodeAssumption, RowsStay
    <3> QED  BY Zenon, <1>3, <2>5, <3>1, MigFrame DEF IInv
  <2>7. Requests'
    BY Zenon, <1>3, <2>5 DEF IInv, TxnInv, Requests
  <2>8. \A a \in TxnNet : a.txn \in Txn
    BY Zenon, MessageFields DEF TxnNet, IInv, Types, TypeOK
  <2>9. Answers'
    BY ZenonT(30), <1>4, <2>1, <2>3, <2>5, <2>8, AnswersStep DEF IInv, TxnInv
  <2> QED  BY ZenonT(30), <2>4, <2>6, <2>7, <2>9 DEF IInv, TxnInv
<1>7. CASE d # h
  <2> DEFINE new == [type |-> "RQRY", to |-> d, txn |-> t, return_node_id |-> h]
  <2>1. /\ touched' = [touched EXCEPT ![t] = {h, d}]
        /\ state' = [state EXCEPT ![t] = "remote"]
        /\ net' = net \cup {new}
        /\ UNCHANGED <<rows, write_locks, rsp_cnt, failed>>
    BY Zenon, <1>7 DEF ProcessRtxn
  <2>2. /\ new \in Message /\ new.type = "RQRY" /\ new.to = d /\ new.txn = t
        /\ new.return_node_id = h
    BY ZenonT(30), <1>1, <1>2, TxnMessages
  <2>3. PICK x : x = new
    BY Zenon
  <2> HIDE DEF new, d, r
  <2>4. /\ state' \in [Txn -> {"new", "remote", "preparing", "committing", "aborting",
                               "committed", "aborted"}]
        /\ touched' \in [Txn -> SUBSET Node]
        /\ state'[t] = "remote" /\ touched'[t] = {h, d}
        /\ \A u \in Txn \ {t} : state'[u] = state[u] /\ touched'[u] = touched[u]
    BY ZenonT(30), <1>1, <1>2, <1>5, <2>1
  <2>5. MigNet' = MigNet /\ TxnNet' = TxnNet \cup {x}
    BY ZenonT(30), <2>1, <2>2, <2>3 DEF MigNet, TxnNet, Migrating, Maps
  <2>6. Types'
    <3>1. net' \subseteq Message
      BY ZenonT(30), <2>1, <2>2 DEF IInv, Types, TypeOK
    <3> QED  BY ZenonT(30), <1>3, <2>1, <2>4, <3>1 DEF IInv, Types, TypeOK
  <2>7. MigInv'
    <3>1. ArrivedKept
      BY ZenonT(30), <1>3, <2>1, RowsSame
    <3> QED  BY ZenonT(30), <1>3, <2>5, <3>1, MigFrame DEF IInv
  <2>8. Requests'
    BY ZenonT(30), <1>1, <1>2, <1>3, <1>7, <2>2, <2>3, <2>5 DEF IInv, TxnInv, Requests
  <2>9. \A a \in TxnNet : a.txn \in Txn
    BY ZenonT(30), MessageFields DEF TxnNet, IInv, Types, TypeOK
  <2>10. Waiting(x)'
    BY ZenonT(30), <1>2, <1>7, <2>2, <2>3, <2>4 DEF Waiting
  <2>11. Answers'
    <3>1. \A a \in TxnNet' : InChain(a) /\ a.txn = t => a = x
      BY Zenon, <1>4, <2>5
    <3>2. \A a \in TxnNet' : a.txn # t => a \in TxnNet
      BY Zenon, <2>2, <2>3, <2>5
    <3> QED  BY ZenonT(30), <2>1, <2>4, <2>9, <2>10, <3>1, <3>2, AnswersStep DEF IInv, TxnInv
  <2> QED  BY ZenonT(30), <2>6, <2>7, <2>8, <2>11 DEF IInv, TxnInv
<1> QED  BY Zenon, <1>6, <1>7

\* process_rqry: a request that goes on does not come home, because only the
\* destination can lack the row and only the source is named then.
LEMMA ProcessRqryInv ==
  ASSUME IInv, NEW msg \in net, ProcessRqry(msg)
  PROVE  IInv'
<1>1. PICK t, n, r, d : t = msg.txn /\ n = msg.to /\ r = key[t] /\ d = get_key_node_id(n, r)
  BY Zenon
<1>2. msg \in TxnNet /\ msg \in Message /\ msg.type = "RQRY" /\ n # home[t]
  BY Zenon, <1>1 DEF ProcessRqry, IInv, Types, TypeOK, TxnNet
<1>3. /\ t \in Txn /\ t \in DOMAIN key /\ n \in Node /\ n \in Holder /\ msg.return_node_id \in Node
      /\ r \in Row /\ r[1] \in MiniPart /\ home[t] \in Node /\ n \in {Src, Dest} /\ home[t] # Src
  <2>1. t \in Txn /\ n \in Node /\ msg.return_node_id \in Node
    BY Zenon, <1>1, <1>2, MessageFields
  <2>2. t \in DOMAIN key /\ n \in {Src, Dest} /\ home[t] # Src
    BY Zenon, <1>1, <1>2 DEF IInv, TxnInv, Requests
  <2> QED  BY ZenonT(30), <1>1, <2>1, <2>2, TxnAssumption DEF IInv, Types, Holder, Row
<1>4. d \in {Src, Dest} /\ d \in Node /\ (n = Src => d = Src)
  BY Zenon, <1>1, <1>3, NodeAssumption DEF get_key_node_id, IInv, MigInv, Routes
<1>5. UNCHANGED <<msg_num, key, minipart_map, part_map, rows, sent, mig_locks, sending,
                  migmsg_queue, state, touched, rsp_cnt>>
  BY Zenon DEF ProcessRqry, migration
<1>6. PICK on, ok, no :
        /\ on = [type |-> "RQRY", to |-> d, txn |-> t, return_node_id |-> n]
        /\ ok = Respond(msg, "RCOK") /\ no = Respond(msg, "Abort")
  BY Zenon
<1>7. /\ on \in Message /\ on.type = "RQRY" /\ on.to = d /\ on.txn = t /\ on.return_node_id = n
      /\ \A x \in {ok, no} : /\ x \in Message /\ x.type = "RQRY_RSP" /\ x.txn = t
                             /\ x.to = msg.return_node_id
  <2>1. on \in Message
    BY ZenonT(30), <1>3, <1>4, <1>6, TxnMessages
  <2>2. ok \in Message /\ no \in Message
    BY ZenonT(30), <1>1, <1>3, <1>6, TxnMessages DEF Respond
  <2> QED  BY <1>1, <1>6, <2>1, <2>2 DEF Respond
<1>8. \/ /\ d # n /\ net' = (net \ {msg}) \cup {on, ok} /\ UNCHANGED <<write_locks, failed>>
      \/ /\ Fail(n, "the key does not exist!") /\ net' = net \ {msg} /\ UNCHANGED write_locks
      \/ /\ write_locks' = [write_locks EXCEPT ![n][r] = t] /\ net' = (net \ {msg}) \cup {ok}
         /\ UNCHANGED failed
      \/ /\ net' = (net \ {msg}) \cup {no} /\ UNCHANGED <<write_locks, failed>>
  BY Zenon, <1>1, <1>6 DEF ProcessRqry
<1>9. PICK S \in SUBSET {on, ok, no} :
        /\ net' = (net \ {msg}) \cup S
        /\ on \in S => d # n
        /\ ~ (ok \in S /\ no \in S /\ ok # no)
  <2>1. on # ok /\ on # no
    BY Zenon, <1>7
  <2>2. CASE d # n /\ net' = (net \ {msg}) \cup {on, ok}
    <3>1. {on, ok} \in SUBSET {on, ok, no} /\ ~ (no \in {on, ok} /\ ok # no)
      BY Zenon, <2>1
    <3> QED  BY Zenon, <2>2, <3>1
  <2>3. CASE net' = net \ {msg}
    <3>1. net' = (net \ {msg}) \cup {}
      BY Zenon, <2>3
    <3>2. {} \in SUBSET {on, ok, no} /\ on \notin {} /\ ok \notin {}
      BY Zenon
    <3> QED  BY Zenon, <3>1, <3>2
  <2>4. CASE net' = (net \ {msg}) \cup {ok}
    <3>1. {ok} \in SUBSET {on, ok, no} /\ on \notin {ok} /\ ~ (no \in {ok} /\ ok # no)
      BY Zenon, <2>1
    <3> QED  BY Zenon, <2>4, <3>1
  <2>5. CASE net' = (net \ {msg}) \cup {no}
    <3>1. {no} \in SUBSET {on, ok, no} /\ on \notin {no} /\ ~ (ok \in {no} /\ ok # no)
      BY Zenon, <2>1
    <3> QED  BY Zenon, <2>5, <3>1
  <2> QED  BY ZenonT(30), <1>8, <2>2, <2>3, <2>4, <2>5
<1>10. MigNet' = MigNet /\ TxnNet' = (TxnNet \ {msg}) \cup S
  BY ZenonT(30), <1>2, <1>7, <1>9 DEF MigNet, TxnNet, Migrating, Maps
<1>11. Types'
  <2>1. net' \subseteq Message
    BY ZenonT(30), <1>7, <1>9 DEF IInv, Types, TypeOK
  <2>2. failed' \in [Node -> {"none", "the key does not exist!", "IS_LOCAL"}]
    BY Zenon, <1>3, <1>8 DEF Fail, IInv, Types, TypeOK
  <2>3. write_locks' \in [Node -> [Row -> {"none"} \cup Txn]]
    <3> DEFINE V == {"none"} \cup Txn
    <3>1. write_locks \in [Node -> [Row -> V]] /\ t \in V
      BY Zenon, <1>3 DEF IInv, Types, TypeOK
    <3> HIDE DEF V
    <3>2. [write_locks EXCEPT ![n][r] = t] \in [Node -> [Row -> V]]
      BY <1>3, <3>1, ExceptAt
    <3> QED  BY ZenonT(30), <1>8, <3>1, <3>2 DEF V
  <2> QED  BY ZenonT(30), <1>5, <2>1, <2>2, <2>3 DEF IInv, Types, TypeOK
<1>12. MigInv'
  BY Zenon, <1>5, <1>10, RowsSame, MigFrame DEF IInv
<1>13. Requests'
  <2>1. on \in S => d # home[t]
    BY Zenon, <1>3, <1>4, <1>9, NodeAssumption
  <2>2. ASSUME NEW a \in TxnNet'
        PROVE  /\ a.txn \in DOMAIN key
               /\ a.type = "RQRY" => /\ a.to \in {Src, Dest}
                                     /\ a.to # home[a.txn] /\ home[a.txn] # Src
               /\ a.type \in {"RACK_PREP", "RACK_FIN"} => a.to = home[a.txn]
    <3>1. CASE a \in TxnNet
      BY Zenon, <3>1 DEF IInv, TxnInv, Requests
    <3>2. CASE a \in S
      BY ZenonT(30), <1>3, <1>4, <1>7, <1>9, <2>1, <3>2
    <3> QED  BY Zenon, <1>10, <3>1, <3>2
  <2> QED  BY Zenon, <1>5, <2>2 DEF Requests
<1>14. Answers'
  <2>1. ASSUME NEW a \in S PROVE a.txn = t /\ (InChain(a) => InChain(msg) /\ a \in {ok, no})
    BY ZenonT(30), <1>1, <1>2, <1>7, <1>9 DEF InChain, Rounds
  <2>2. ASSUME NEW a \in TxnNet', InChain(a), a.txn = t
        PROVE  \/ a \in S /\ a \in {ok, no} /\ InChain(msg)
               \/ a \in TxnNet /\ ~ InChain(msg)
    <3>1. CASE a \in S
      BY Zenon, <2>1, <2>2, <3>1
    <3>2. CASE a \in TxnNet /\ a # msg
      BY ZenonT(30), <1>1, <1>2, <2>2, <3>2 DEF IInv, TxnInv, Answers
    <3> QED  BY ZenonT(30), <1>10, <3>1, <3>2
  <2>3. ASSUME NEW a \in TxnNet', InChain(a), a.txn = t PROVE Waiting(a)'
    <3>1. CASE a \in TxnNet
      BY ZenonT(30), <1>5, <2>3, <3>1 DEF IInv, TxnInv, Answers, Waiting
    <3>2. CASE a \in {ok, no} /\ InChain(msg)
      <4>1. Waiting(msg)
        BY Zenon, <1>2, <3>2 DEF IInv, TxnInv, Answers
      <4> QED  BY ZenonT(30), <1>1, <1>5, <1>7, <3>2, <4>1 DEF Waiting
    <3> QED  BY ZenonT(30), <2>2, <2>3, <3>1, <3>2
  <2>4. ASSUME NEW a \in TxnNet', NEW b \in TxnNet', InChain(a), InChain(b),
               a.txn = t, b.txn = t
        PROVE  a = b
    <3>1. CASE InChain(msg)
      BY ZenonT(30), <1>9, <2>2, <2>4, <3>1
    <3>2. CASE ~ InChain(msg)
      BY Zenon, <2>2, <2>4, <3>2 DEF IInv, TxnInv, Answers
    <3> QED  BY Zenon, <3>1, <3>2
  <2>5. \A a \in TxnNet' : a.txn # t => a \in TxnNet
    BY Zenon, <1>10, <2>1
  <2> QED  BY ZenonT(30), <1>5, <2>3, <2>4, <2>5, AnswersStep DEF IInv, TxnInv
<1> QED  BY ZenonT(30), <1>11, <1>12, <1>13, <1>14 DEF IInv, TxnInv

\* The home node goes on with the last message of a round, and starts another.
LEMMA NextRound ==
  ASSUME IInv, NEW msg \in TxnNet, InChain(msg), msg.to = home[msg.txn],
         NEW type \in {"RPREPARE", "RFIN"}, NEW rc \in {"RCOK", "Abort"},
         NEW s \in {"preparing", "committing", "aborting"},
         SendRound(msg.txn, type, rc, net \ {msg}),
         state' = [state EXCEPT ![msg.txn] = s],
         UNCHANGED <<migration, write_locks, touched, failed>>
  PROVE  IInv'
<1>1. PICK t : t = msg.txn
  BY Zenon
<1>2. msg \in Message /\ t \in Txn /\ t \in DOMAIN key
  BY ZenonT(30), <1>1, MessageFields DEF IInv, TxnInv, Requests, TxnNet, Types, TypeOK
<1>3. home[t] # Src /\ \E d \in Node \ {home[t]} : touched[t] = {home[t], d}
  BY Zenon, <1>1 DEF IInv, TxnInv, Answers, Waiting
<1>4. UNCHANGED <<msg_num, key, minipart_map, part_map, rows, sent, mig_locks, sending,
                  migmsg_queue>>
  BY Zenon DEF migration
<1>5. /\ rsp_cnt' \in [Txn -> 0 .. Cardinality(Node)] /\ rsp_cnt'[t] = 1
      /\ \A u \in Txn \ {t} : rsp_cnt'[u] = rsp_cnt[u]
      /\ \E S \in SUBSET Message :
           /\ net' = (net \ {msg}) \cup S
           /\ \A x \in S : x.type = type /\ x.txn = t
           /\ \A x, y \in S : x = y
  <2>0. PICK d \in Node : d # home[t] /\ touched[t] = {home[t], d}
    BY Zenon, <1>3
  <2>1. PICK old : old = net \ {msg}
    BY Zenon
  <2>2. Types /\ SendRound(t, type, rc, old)
    BY Zenon, <1>1, <2>1 DEF IInv
  <2>3. RoundSent(t, type, old)
    BY <1>2, <1>3, <2>0, <2>2, RoundProps
  <2> QED  BY Zenon, <2>1, <2>3 DEF RoundSent
<1>6. PICK S \in SUBSET Message :
        /\ net' = (net \ {msg}) \cup S
        /\ \A x \in S : x.type = type /\ x.txn = t
        /\ \A x, y \in S : x = y
  BY Zenon, <1>5
<1>7. /\ state' \in [Txn -> {"new", "remote", "preparing", "committing", "aborting", "committed",
                             "aborted"}]
      /\ state'[t] # "new" /\ \A u \in Txn \ {t} : state'[u] = state[u]
  BY Zenon, <1>1, <1>2 DEF IInv, Types, TypeOK
<1>8. Types'
  <2>1. net' \subseteq Message
    BY Zenon, <1>6 DEF IInv, Types, TypeOK
  <2> QED  BY Zenon, <1>4, <1>5, <1>7, <2>1 DEF IInv, Types, TypeOK
<1>9. MigNet' = MigNet /\ TxnNet' = (TxnNet \ {msg}) \cup S
  BY Zenon, <1>6 DEF MigNet, TxnNet, Migrating, Maps, Rounds
<1>10. MigInv'
  BY ZenonT(30), <1>4, <1>9, RowsSame, MigFrame DEF IInv
<1>11. Requests'
  BY ZenonT(30), <1>2, <1>4, <1>6, <1>9 DEF IInv, TxnInv, Requests
<1>12. Answers'
  <2>1. \A a \in TxnNet' : InChain(a) /\ a.txn = t => a \in S
    BY Zenon, <1>1, <1>9 DEF IInv, TxnInv, Answers
  <2>2. ASSUME NEW a \in TxnNet', InChain(a), a.txn = t PROVE Waiting(a)'
    BY Zenon, <1>3, <1>5, <1>7, <2>2 DEF Waiting
  <2>3. \A a \in TxnNet' : a.txn # t => a \in TxnNet /\ a.txn \in Txn
    BY Zenon, <1>6, <1>9, MessageFields DEF IInv, Types, TypeOK, TxnNet
  <2> QED  BY <1>5, <1>6, <1>7, <2>1, <2>2, <2>3, AnswersStep DEF IInv, TxnInv
<1> QED  BY ZenonT(30), <1>8, <1>10, <1>11, <1>12 DEF IInv, TxnInv

\* process_rqry_rsp.
LEMMA ProcessRqryRspInv ==
  ASSUME IInv, NEW msg \in net, ProcessRqryRsp(msg)
  PROVE  IInv'
<1>1. /\ msg \in TxnNet /\ msg.type = "RQRY_RSP" /\ msg \in Message
      /\ msg.to \in Node /\ msg.txn \in Txn
  BY Zenon, MessageFields DEF ProcessRqryRsp, TxnNet, IInv, Types, TypeOK
<1>2. CASE msg.to = home[msg.txn]
  <2>1. InChain(msg)
    BY Zenon, <1>1, <1>2 DEF InChain
  <2>2. UNCHANGED <<migration, write_locks, touched, failed>>
    BY Zenon, <1>2 DEF ProcessRqryRsp
  <2>3. CASE msg.rc = "Abort"
    <3>1. /\ SendRound(msg.txn, "RFIN", "Abort", net \ {msg})
          /\ state' = [state EXCEPT ![msg.txn] = "aborting"]
      BY Zenon, <1>2, <2>3 DEF ProcessRqryRsp
    <3> QED  BY ZenonT(30), <1>1, <1>2, <2>1, <2>2, <3>1, NextRound
  <2>4. CASE msg.rc # "Abort"
    <3>1. /\ SendRound(msg.txn, "RPREPARE", "RCOK", net \ {msg})
          /\ state' = [state EXCEPT ![msg.txn] = "preparing"]
      BY Zenon, <1>2, <2>4 DEF ProcessRqryRsp
    <3> QED  BY ZenonT(30), <1>1, <1>2, <2>1, <2>2, <3>1, NextRound
  <2> QED  BY Zenon, <2>3, <2>4
<1>3. CASE msg.to # home[msg.txn]
  <2>1. /\ Fail(msg.to, "IS_LOCAL") /\ net' = net \ {msg}
        /\ UNCHANGED <<msg_num, key, minipart_map, part_map, rows, sent, mig_locks, sending,
                       migmsg_queue, state, rsp_cnt, write_locks, touched>>
    BY Zenon, <1>3 DEF ProcessRqryRsp, migration
  <2>2. MigNet' = MigNet /\ TxnNet' = TxnNet \ {msg}
    BY Zenon, <1>1, <2>1 DEF MigNet, TxnNet, Migrating, Maps
  <2>3. Types'
    <3>1. failed' \in [Node -> {"none", "the key does not exist!", "IS_LOCAL"}]
      BY Zenon, <1>1, <2>1 DEF Fail, IInv, Types, TypeOK
    <3>2. net' \subseteq Message
      BY Zenon, <2>1 DEF IInv, Types, TypeOK
    <3> QED  BY ZenonT(30), <2>1, <3>1, <3>2 DEF IInv, Types, TypeOK
  <2>4. MigInv'
    BY ZenonT(30), <2>1, <2>2, RowsSame, MigFrame DEF IInv
  <2>5. TxnInv'
    BY ZenonT(30), <2>1, <2>2 DEF IInv, TxnInv, Requests, Answers, Waiting
  <2> QED  BY Zenon, <2>3, <2>4, <2>5 DEF IInv
<1> QED  BY Zenon, <1>2, <1>3

\* process_rack_prep.
LEMMA ProcessRackPrepInv ==
  ASSUME IInv, NEW msg \in net, ProcessRackPrep(msg)
  PROVE  IInv'
<1>1. /\ msg.type = "RACK_PREP" /\ SendRound(msg.txn, "RFIN", "RCOK", net \ {msg})
      /\ state' = [state EXCEPT ![msg.txn] = "committing"]
      /\ UNCHANGED <<migration, write_locks, touched, failed>>
  BY Zenon DEF ProcessRackPrep
<1>2. msg \in TxnNet /\ InChain(msg) /\ msg.to = home[msg.txn]
  BY Zenon, <1>1 DEF TxnNet, InChain, Rounds, IInv, TxnInv, Requests
<1> QED  BY Zenon, <1>1, <1>2, NextRound

\* A participant answers a round.
LEMMA RoundAnswered ==
  ASSUME IInv, NEW msg \in TxnNet, NEW ack \in {"RACK_PREP", "RACK_FIN"},
         msg.type = (IF ack = "RACK_PREP" THEN "RPREPARE" ELSE "RFIN"),
         net' = (net \ {msg}) \cup {[type |-> ack, to |-> home[msg.txn], txn |-> msg.txn]},
         UNCHANGED <<key, state, touched, rsp_cnt>>
  PROVE  net' \subseteq Message /\ MigNet' = MigNet /\ TxnInv'
<1>1. PICK t, x : t = msg.txn /\ x = [type |-> ack, to |-> home[t], txn |-> t]
  BY Zenon
<1>2. msg \in Message /\ t \in Txn /\ t \in DOMAIN key /\ InChain(msg) /\ home[t] \in Node
  BY ZenonT(30), <1>1, MessageFields, TxnAssumption
     DEF IInv, TxnInv, Requests, TxnNet, Types, TypeOK, InChain, Rounds
<1>3. x \in Message /\ x.type = ack /\ x.to = home[t] /\ x.txn = t
  <2>1. "RCOK" \in {"RCOK", "Abort"}
    BY Zenon
  <2> QED  BY ZenonT(30), <1>1, <1>2, <2>1, TxnMessages
<1>4. net' = (net \ {msg}) \cup {x}
  BY Zenon, <1>1
<1>5. net' \subseteq Message
  BY ZenonT(30), <1>3, <1>4 DEF IInv, Types, TypeOK
<1>6. MigNet' = MigNet /\ TxnNet' = (TxnNet \ {msg}) \cup {x}
  BY Zenon, <1>3, <1>4 DEF MigNet, TxnNet, Migrating, Maps, Rounds
<1>7. Requests'
  BY ZenonT(30), <1>2, <1>3, <1>6 DEF IInv, TxnInv, Requests
<1>8. Answers'
  <2>1. \A a \in TxnNet' : InChain(a) /\ a.txn = t => a = x
    BY Zenon, <1>1, <1>2, <1>6 DEF IInv, TxnInv, Answers
  <2>2. Waiting(msg)
    BY Zenon, <1>2 DEF IInv, TxnInv, Answers
  <2>3. Waiting(x)'
    BY Zenon, <1>1, <1>3, <2>2 DEF Waiting
  <2>4. \A a \in TxnNet' : a.txn # t => a \in TxnNet
    BY Zenon, <1>3, <1>6
  <2> QED  BY <2>1, <2>3, <2>4, AnswersStep DEF IInv, TxnInv
<1> QED  BY ZenonT(30), <1>5, <1>6, <1>7, <1>8 DEF TxnInv

\* process_rprepare.
LEMMA ProcessRprepareInv ==
  ASSUME IInv, NEW msg \in net, ProcessRprepare(msg)
  PROVE  IInv'
<1>1. /\ msg.type = "RPREPARE" /\ msg \in TxnNet
      /\ net' = (net \ {msg}) \cup {[type |-> "RACK_PREP", to |-> home[msg.txn], txn |-> msg.txn]}
      /\ UNCHANGED <<msg_num, key, minipart_map, part_map, rows, sent, mig_locks, sending,
                     migmsg_queue, write_locks, state, touched, rsp_cnt, failed>>
  BY Zenon DEF ProcessRprepare, TxnNet, Rounds, migration, txns
<1>2. net' \subseteq Message /\ MigNet' = MigNet /\ TxnInv'
  BY Zenon, <1>1, RoundAnswered
<1>3. Types'
  BY ZenonT(30), <1>1, <1>2 DEF IInv, Types, TypeOK
<1>4. MigInv'
  BY ZenonT(30), <1>1, <1>2, RowsSame, MigFrame DEF IInv
<1> QED  BY Zenon, <1>2, <1>3, <1>4 DEF IInv

\* process_rfin.
LEMMA ProcessRfinInv ==
  ASSUME IInv, NEW msg \in net, ProcessRfin(msg)
  PROVE  IInv'
<1>1. PICK t, n, r, holds : /\ t = msg.txn /\ n = msg.to /\ r = key[t]
                            /\ holds = (write_locks[n][r] = t)
  BY Zenon
<1>2. /\ msg.type = "RFIN" /\ msg \in TxnNet
      /\ net' = (net \ {msg}) \cup {[type |-> "RACK_FIN", to |-> home[msg.txn], txn |-> msg.txn]}
      /\ write_locks' = [write_locks EXCEPT ![n][r] = IF holds THEN "none" ELSE @]
      /\ rows' = [rows EXCEPT ![n][r] = IF holds /\ msg.rc = "RCOK" THEN t ELSE @]
      /\ UNCHANGED <<msg_num, key, minipart_map, part_map, sent, mig_locks, sending, migmsg_queue,
                     state, touched, rsp_cnt, failed>>
  BY Zenon, <1>1 DEF ProcessRfin, TxnNet, Rounds
<1>3. net' \subseteq Message /\ MigNet' = MigNet /\ TxnInv'
  BY Zenon, <1>2, RoundAnswered
<1>4. t \in Txn /\ n \in Node /\ r \in Row /\ t # "none"
  <2>1. msg \in Message /\ t \in DOMAIN key
    BY ZenonT(30), <1>1, <1>2 DEF IInv, TxnInv, Requests, Types, TypeOK
  <2>2. t \in Txn /\ n \in Node
    BY ZenonT(30), <1>1, <1>2, <2>1, MessageFields DEF Rounds
  <2> QED  BY ZenonT(30), <1>1, <2>1, <2>2, TxnAssumption DEF IInv, Types
<1>5. write_locks' \in [Node -> [Row -> {"none"} \cup Txn]]
  <2> DEFINE V == {"none"} \cup Txn
             v == IF holds THEN "none" ELSE write_locks[n][r]
  <2>1. write_locks \in [Node -> [Row -> V]]
    BY Zenon DEF IInv, Types, TypeOK
  <2>2. v \in V
    BY Zenon, <1>4, <2>1
  <2>3. write_locks' = [write_locks EXCEPT ![n][r] = v]
    BY Zenon, <1>2, <1>4, <2>1
  <2> HIDE DEF V, v
  <2> QED  BY ZenonT(30), <1>4, <2>1, <2>2, <2>3, ExceptAt DEF V
<1>6. /\ rows' \in [Node -> [Row -> {"none", "hello"} \cup Txn]]
      /\ \A k \in Node : \A q \in Row : rows[k][q] # "none" => rows'[k][q] # "none"
  <2> DEFINE V == {"none", "hello"} \cup Txn
             v == IF holds /\ msg.rc = "RCOK" THEN t ELSE rows[n][r]
  <2>1. rows \in [Node -> [Row -> V]]
    BY Zenon DEF IInv, Types, TypeOK
  <2>2. v \in V /\ (rows[n][r] # "none" => v # "none")
    BY Zenon, <1>4, <2>1
  <2>3. rows' = [rows EXCEPT ![n][r] = v]
    BY Zenon, <1>2, <1>4, <2>1
  <2> HIDE DEF V, v
  <2>4. /\ [rows EXCEPT ![n][r] = v] \in [Node -> [Row -> V]]
        /\ [rows EXCEPT ![n][r] = v][n][r] = v
        /\ \A k \in Node : \A q \in Row :
             ~ (k = n /\ q = r) => [rows EXCEPT ![n][r] = v][k][q] = rows[k][q]
    BY <1>4, <2>1, <2>2, ExceptAt
  <2>5. rows' \in [Node -> [Row -> V]]
    BY Zenon, <2>3, <2>4
  <2>6. ASSUME NEW k \in Node, NEW q \in Row, rows[k][q] # "none" PROVE rows'[k][q] # "none"
    BY Zenon, <2>2, <2>3, <2>4, <2>6
  <2> QED  BY Zenon, <2>5, <2>6 DEF V
<1>7. Types'
  BY Zenon, <1>2, <1>3, <1>5, <1>6 DEF IInv, Types, TypeOK
<1>8. MigInv'
  <2>1. ArrivedKept
    BY ZenonT(30), <1>2, <1>6, NodeAssumption, RowsStay
  <2> QED  BY Zenon, <1>2, <1>3, <2>1, MigFrame DEF IInv
<1> QED  BY ZenonT(30), <1>3, <1>7, <1>8 DEF IInv

\* process_rack_rfin.
LEMMA ProcessRackFinInv ==
  ASSUME IInv, NEW msg \in net, ProcessRackFin(msg)
  PROVE  IInv'
<1>1. PICK t : t = msg.txn
  BY Zenon
<1>2. /\ msg.type = "RACK_FIN" /\ msg \in TxnNet /\ net' = net \ {msg}
      /\ rsp_cnt' = [rsp_cnt EXCEPT ![t] = @ - 1]
      /\ state' = [state EXCEPT ![t] = IF @ = "committing" THEN "committed" ELSE "aborted"]
      /\ UNCHANGED <<msg_num, key, minipart_map, part_map, rows, sent, mig_locks, sending,
                     migmsg_queue, write_locks, touched, failed>>
  BY Zenon, <1>1 DEF ProcessRackFin, TxnNet, Rounds, migration
<1>3. t \in Txn /\ InChain(msg)
  BY ZenonT(30), <1>1, <1>2, MessageFields DEF IInv, Types, TypeOK, TxnNet, InChain, Rounds
<1>4. rsp_cnt[t] = 1
  BY ZenonT(30), <1>1, <1>2, <1>3 DEF IInv, TxnInv, Answers, Waiting
<1>5. /\ rsp_cnt' \in [Txn -> 0 .. Cardinality(Node)]
      /\ \A u \in Txn \ {t} : rsp_cnt'[u] = rsp_cnt[u]
  <2>0. rsp_cnt[t] - 1 = 0 /\ rsp_cnt' = [rsp_cnt EXCEPT ![t] = rsp_cnt[t] - 1]
    BY <1>2, <1>4
  <2>1. rsp_cnt \in [Txn -> 0 .. Cardinality(Node)] /\ rsp_cnt' = [rsp_cnt EXCEPT ![t] = 0]
    BY Zenon, <2>0 DEF IInv, Types, TypeOK
  <2>2. 0 \in 0 .. Cardinality(Node)
    BY NodeCount
  <2> QED  BY Zenon, <1>3, <2>1, <2>2
<1>6. /\ state' \in [Txn -> {"new", "remote", "preparing", "committing", "aborting", "committed",
                             "aborted"}]
      /\ \A u \in Txn \ {t} : state'[u] = state[u]
  BY Zenon, <1>2, <1>3 DEF IInv, Types, TypeOK
<1>7. Types'
  <2>1. net' \subseteq Message
    BY Zenon, <1>2 DEF IInv, Types, TypeOK
  <2> QED  BY ZenonT(30), <1>2, <1>5, <1>6, <2>1 DEF IInv, Types, TypeOK
<1>8. MigNet' = MigNet /\ TxnNet' = TxnNet \ {msg}
  BY Zenon, <1>2 DEF MigNet, TxnNet, Migrating, Maps
<1>9. MigInv'
  BY ZenonT(30), <1>2, <1>8, RowsSame, MigFrame DEF IInv
<1>10. Requests'
  BY Zenon, <1>2, <1>8 DEF IInv, TxnInv, Requests
<1>11. Answers'
  <2>1. \A a \in TxnNet' : InChain(a) => a.txn # t
    BY ZenonT(30), <1>1, <1>2, <1>3, <1>8 DEF IInv, TxnInv, Answers
  <2>2. \A a \in TxnNet' : a \in TxnNet /\ a.txn \in Txn
    BY ZenonT(30), <1>8, MessageFields DEF IInv, Types, TypeOK, TxnNet
  <2> QED  BY ZenonT(30), <1>2, <1>5, <1>6, <2>1, <2>2, AnswersStep DEF IInv, TxnInv
<1> QED  BY Zenon, <1>7, <1>9, <1>10, <1>11 DEF IInv, TxnInv

-----------------------------------------------------------------------------
LEMMA InitInv == Init => IInv
<1> SUFFICES ASSUME Init PROVE IInv
  BY Zenon
<1> DEFINE first == [type |-> "SEND_MIGRATION", to |-> Src, order |-> 0]
<1>1. /\ Src \in Node /\ Dest \in Node /\ Src # Dest /\ Src \in Holder /\ 0 \in MiniPart
  BY NodeAssumption, SizeAssumption DEF Holder, MiniPart
<1>2. first \in Message
  BY Zenon, <1>1, MigrationMessages
<1>3. first.type = "SEND_MIGRATION" /\ first.to = Src /\ first.order = 0 /\ net = {first}
  BY Zenon DEF Init
<1>4. PICK i \in Instances : msg_num = i[1] /\ key = i[2]
  BY Zenon DEF Init
<1>5. /\ <<msg_num, key>> \in Instances /\ msg_num \in Nat \ {0}
      /\ DOMAIN key \subseteq Txn /\ \A t \in DOMAIN key : key[t] \in Row
  BY Zenon, <1>4, TxnAssumption
<1> HIDE DEF first
<1>6. Types
  <2>1. /\ minipart_map \in [Holder -> [MiniPart -> [node : Node, status : 0..2]]]
        /\ part_map \in [Holder -> [node : Node, status : 0..2]]
    BY <1>1 DEF Init
  <2>2. /\ rows \in [Node -> [Row -> {"none", "hello"} \cup Txn]]
        /\ sent \in [Row -> {"none", "hello"} \cup Txn]
        /\ mig_locks \subseteq Row
        /\ write_locks \in [Node -> [Row -> {"none"} \cup Txn]]
        /\ failed \in [Node -> {"none", "the key does not exist!", "IS_LOCAL"}]
    BY Zenon DEF Init
  <2>3. sending \in {Idle} \cup Sending
    BY Zenon DEF Init
  <2>4. /\ migmsg_queue \in [Node -> Seq(Message)]
        /\ \A n \in Node : \A j \in DOMAIN migmsg_queue[n] :
             migmsg_queue[n][j] \in Message /\ migmsg_queue[n][j].type \in Migrating
    <3>1. migmsg_queue = [n \in Node |-> <<>>] /\ <<>> \in Seq(Message) /\ DOMAIN <<>> = {}
      BY DEF Init
    <3> QED  BY Zenon, <3>1
  <2>5. net \subseteq Message
    BY Zenon, <1>2, <1>3
  <2>6. /\ state \in [Txn -> {"new", "remote", "preparing", "committing", "aborting", "committed",
                              "aborted"}]
        /\ touched \in [Txn -> SUBSET Node]
    BY Zenon DEF Init
  <2>7. rsp_cnt \in [Txn -> 0 .. Cardinality(Node)]
    <3>1. 0 \in 0 .. Cardinality(Node)
      BY NodeCount
    <3> QED  BY Zenon, <3>1 DEF Init
  <2> QED  BY ZenonT(30), <1>5, <2>1, <2>2, <2>3, <2>4, <2>5, <2>6, <2>7 DEF Types, TypeOK
<1>7. \A n \in Node : DOMAIN migmsg_queue[n] = {}
  <2>1. migmsg_queue = [n \in Node |-> <<>>] /\ DOMAIN <<>> = {}
    BY DEF Init
  <2> QED  BY Zenon, <2>1
<1>8. MigNet = {first} /\ TxnNet = {}
  BY Zenon, <1>3 DEF MigNet, TxnNet, Migrating, Rounds
<1>9. TxnInv
  BY Zenon, <1>8 DEF TxnInv, Requests, Answers
<1>10. /\ \A n \in Holder : /\ part_map[n].node = Src /\ part_map[n].status = 0
                            /\ \A m \in MiniPart : /\ minipart_map[n][m].node = Src
                                                   /\ minipart_map[n][m].status = 0
       /\ ~ sending.active
  BY Zenon DEF Init, Idle
<1>11. Routes /\ RowsBeforeRoute
  BY <1>1, <1>10 DEF Routes, RowsBeforeRoute
<1>12. Addressed
  BY Zenon, <1>3, <1>7, <1>8 DEF Addressed, AddressOf, Maps
<1>13. Token
  <2>1. Ahead(0)
    BY <1>3, <1>8, <1>10 DEF Ahead
  <2>2. Behind(0)
    BY SizeAssumption DEF Behind, MiniPart
  <2>3. NoneInQueue
    BY Zenon, <1>7 DEF NoneInQueue
  <2>4. InNet(first)
    BY ZenonT(30), <1>3, <1>8, <1>10, <2>1, <2>2, <2>3 DEF InNet, IsToken, Progress
  <2> QED  BY Zenon, <1>8, <2>4 DEF Token
<1>14. WholeParts
  BY ZenonT(30), <1>3, <1>7, <1>8, <1>10 DEF WholeParts, Whole
<1> QED  BY ZenonT(30), <1>6, <1>9, <1>11, <1>12, <1>13, <1>14 DEF IInv, MigInv

LEMMA NextInv == IInv /\ [Next]_vars => IInv'
<1> SUFFICES ASSUME IInv, [Next]_vars PROVE IInv'
  BY Zenon
<1>1. CASE ProcessSendMigration
  BY Zenon, <1>1, ProcessSendMigrationInv
<1>2. CASE SendRow
  BY Zenon, <1>2, SendRowInv, KeysCounted
<1>3. ASSUME NEW n \in Node, ProcessRecvMigration(n) PROVE IInv'
  BY ZenonT(30), <1>3, ProcessRecvMigrationInv
<1>4. CASE ProcessFinishMigration
  BY ZenonT(30), <1>4, ProcessFinishMigrationInv
<1>5. ASSUME NEW msg \in net,
             \/ WorkerEnqueue(msg) \/ ProcessSetMinipartMap(msg) \/ ProcessSetPartMap(msg)
             \/ ProcessRqry(msg) \/ ProcessRqryRsp(msg) \/ ProcessRprepare(msg)
             \/ ProcessRackPrep(msg) \/ ProcessRfin(msg) \/ ProcessRackFin(msg)
      PROVE  IInv'
  BY ZenonT(30), <1>5, WorkerEnqueueInv, ProcessSetMinipartMapInv, ProcessSetPartMapInv, ProcessRqryInv,
     ProcessRqryRspInv, ProcessRprepareInv, ProcessRackPrepInv, ProcessRfinInv, ProcessRackFinInv
<1>6. ASSUME NEW t \in Txn, ProcessRtxn(t) PROVE IInv'
  BY ZenonT(30), <1>6, ProcessRtxnInv
<1>7. CASE UNCHANGED vars
  <2>1. UNCHANGED <<msg_num, key, minipart_map, part_map, rows, sent, mig_locks, sending,
                    migmsg_queue, write_locks, state, touched, rsp_cnt, net, failed>>
    BY Zenon, <1>7 DEF vars, migration, txns
  <2>2. Types'
    BY Zenon, <2>1 DEF IInv, Types, TypeOK
  <2>3. MigNet' = MigNet /\ TxnNet' = TxnNet
    BY Zenon, <2>1 DEF MigNet, TxnNet
  <2>4. MigInv'
    BY ZenonT(30), <2>1, <2>3, RowsSame, MigFrame DEF IInv
  <2>5. TxnInv'
    BY Zenon, <2>1, <2>3, TxnFrame DEF IInv
  <2> QED  BY Zenon, <2>2, <2>4, <2>5 DEF IInv
<1> QED  BY ZenonT(30), <1>1, <1>2, <1>3, <1>4, <1>5, <1>6, <1>7 DEF Next, MigrateThread, Worker

\* Between its SEND_MIGRATION and the end of its FINISH_MIGRATION a mini-partition
\* is alone: with one message per mini-partition, whatever is under way is the token.
LEMMA Alone == IInv => OneAtATime
<1> SUFFICES ASSUME IInv, OneMessage, NEW m \in MiniPart, InTransit(m)
             PROVE  /\ \A q \in MiniPart : InTransit(q) => q = m
                    /\ \A q \in MiniPart : q < m => Arrived(q)
  BY Zenon DEF OneAtATime
<1>1. ASSUME NEW msg \in net, msg.type \in Migrating PROVE msg \in MigNet /\ IsToken(msg)
  BY Zenon, <1>1 DEF IInv, MigInv, WholeParts, Whole, MigNet, Migrating, IsToken
<1>2. ASSUME NEW n \in Node, NEW i \in DOMAIN migmsg_queue[n] PROVE IsToken(migmsg_queue[n][i])
  <2>1. Whole(migmsg_queue[n][i]) /\ migmsg_queue[n][i].type \in Migrating
    BY Zenon DEF IInv, MigInv, WholeParts, Types, TypeOK
  <2> QED  BY Zenon, <2>1 DEF Whole, Migrating, IsToken
<1>3. \E c : Progress(c) /\ \A q \in MiniPart : InTransit(q) => q = c
  <2>1. CASE Gone
    BY Zenon, <1>1, <1>2, <2>1 DEF Gone, NoneInNet, NoneInQueue, InTransit
  <2>2. CASE InLoop
    BY <1>1, <1>2, <2>2 DEF InLoop, NoneInNet, NoneInQueue, InTransit
  <2>3. ASSUME NEW tok \in MigNet, InNet(tok)
        PROVE  \E c : Progress(c) /\ \A q \in MiniPart : InTransit(q) => q = c
    BY <1>1, <1>2, <2>3 DEF InNet, NoneInQueue, InTransit
  <2>4. ASSUME NEW n \in Node, NEW i \in DOMAIN migmsg_queue[n], InQueue(n, i)
        PROVE  \E c : Progress(c) /\ \A q \in MiniPart : InTransit(q) => q = c
    <3>1. PICK c : c = migmsg_queue[n][i].order
      BY Zenon
    <3>2. Progress(c) /\ ~ sending.active /\ NoneInNet
      BY Zenon, <2>4, <3>1 DEF InQueue
    <3>3. \A msg \in net : msg.type \notin Migrating
      BY Zenon, <1>1, <3>2 DEF NoneInNet
    <3>4. \A k \in Node : \A j \in DOMAIN migmsg_queue[k] : migmsg_queue[k][j].order = c
      BY Zenon, <1>2, <2>4, <3>1 DEF InQueue
    <3>5. \A q \in MiniPart : InTransit(q) => q = c
      BY Zenon, <3>2, <3>3, <3>4 DEF InTransit
    <3> QED  BY Zenon, <3>2, <3>5
  <2> QED  BY ZenonT(30), <2>1, <2>2, <2>3, <2>4 DEF IInv, MigInv, Token
<1> QED  BY Zenon, <1>3 DEF Progress, Behind

\* The maps only move forward in one step.
Forward ==
  \A n \in Holder :
    /\ part_map'[n].status >= part_map[n].status
    /\ part_map[n].node = Dest => part_map'[n].node = Dest
    /\ \A m \in MiniPart :
         /\ minipart_map'[n][m].status >= minipart_map[n][m].status
         /\ minipart_map[n][m].node = Dest => minipart_map'[n][m].node = Dest

LEMMA SameForward ==
  ASSUME Types, UNCHANGED <<minipart_map, part_map>>
  PROVE  Forward
<1>0. /\ minipart_map \in [Holder -> [MiniPart -> [node : Node, status : 0..2]]]
      /\ part_map \in [Holder -> [node : Node, status : 0..2]]
  BY Zenon DEF Types, TypeOK
<1>1. \A n \in Holder : /\ part_map[n].status \in 0..2
                        /\ \A m \in MiniPart : minipart_map[n][m].status \in 0..2
  BY Zenon, <1>0
<1> QED  BY <1>1 DEF Forward

\* Whoever marks a mini-partition holds its token, so nobody has been told that it
\* has moved.
LEMMA MarkForward ==
  ASSUME Types, NEW n \in Holder, NEW m \in MiniPart, MarkMigrating(n, m), NEW c \in MiniPart,
         Ahead(c), c <= m
  PROVE  Forward
<1>1. /\ minipart_map \in [Holder -> [MiniPart -> [node : Node, status : 0..2]]]
      /\ part_map \in [Holder -> [node : Node, status : 0..2]]
  BY Zenon DEF Types, TypeOK
<1>2. part_map[n].status <= 1 /\ minipart_map[n][m].status <= 1
  BY Zenon, SizeAssumption DEF Ahead, MiniPart
<1> DEFINE mm == [minipart_map[n] EXCEPT ![m].status = 1]
           pp == [part_map[n] EXCEPT !.status = 1]
<1>3. minipart_map' = [minipart_map EXCEPT ![n] = mm] /\ part_map' = [part_map EXCEPT ![n] = pp]
  BY Zenon, <1>1 DEF MarkMigrating
<1>4. pp.node = part_map[n].node /\ pp.status = 1
  BY Zenon, <1>1
<1>5. /\ mm[m].node = minipart_map[n][m].node /\ mm[m].status = 1
      /\ \A q \in MiniPart : q # m => mm[q] = minipart_map[n][q]
  BY <1>1
<1> HIDE DEF mm, pp
<1>6. ASSUME NEW k \in Holder
      PROVE  /\ part_map'[k].status >= part_map[k].status
             /\ part_map[k].node = Dest => part_map'[k].node = Dest
  <2>1. part_map[k].status \in 0..2
    BY Zenon, <1>1
  <2>2. part_map'[k] = IF k = n THEN pp ELSE part_map[k]
    BY Zenon, <1>1, <1>3
  <2> QED  BY <1>2, <1>4, <2>1, <2>2
<1>7. ASSUME NEW k \in Holder, NEW q \in MiniPart
      PROVE  /\ minipart_map'[k][q].status >= minipart_map[k][q].status
             /\ minipart_map[k][q].node = Dest => minipart_map'[k][q].node = Dest
  <2>1. minipart_map[k][q].status \in 0..2
    BY Zenon, <1>1
  <2>2. minipart_map'[k][q] = IF k = n THEN mm[q] ELSE minipart_map[k][q]
    BY Zenon, <1>1, <1>3
  <2> QED  BY <1>2, <1>5, <2>1, <2>2
<1> QED  BY Zenon, <1>6, <1>7 DEF Forward

LEMMA NextForward == IInv /\ Next => Forward
<1> SUFFICES ASSUME IInv, Next PROVE Forward
  BY Zenon
<1>0. Types /\ Src \in Node /\ Src \in Holder /\ Dest \in Holder
  BY Zenon, NodeAssumption DEF IInv, Holder
<1>1. CASE ProcessSendMigration
  <2>1. /\ dequeue(Src) /\ Head(migmsg_queue[Src]).type = "SEND_MIGRATION"
    BY Zenon, <1>1 DEF ProcessSendMigration, Dequeues
  <2>2. PICK m : m = Head(migmsg_queue[Src]).order
    BY Zenon
  <2>3. m \in MiniPart /\ MarkMigrating(Src, m) /\ m <= m
    <3>1. Head(migmsg_queue[Src]) \in Message
      BY Zenon, <1>0, <2>1, DequeueProps DEF Types
    <3>2. m \in MiniPart
      BY ZenonT(30), <2>1, <2>2, <3>1, MessageFields DEF Migrating
    <3> QED  BY <1>1, <2>2, <3>2, SizeAssumption DEF ProcessSendMigration, BeginSend, MiniPart
  <2>4. Ahead(m)
    BY ZenonT(30), <1>0, <2>1, <2>2, TokenTaken DEF IInv, MigInv, IsToken, Progress
  <2> QED  BY Zenon, <1>0, <2>3, <2>4, MarkForward
<1>2. CASE SendRow
  <2>1. sending.active
    BY Zenon, <1>2 DEF SendRow
  <2>2. PICK m : m = sending.order
    BY Zenon
  <2>3. m \in MiniPart /\ m <= m
    BY <1>0, <2>1, <2>2, SendingFields, SizeAssumption DEF MiniPart
  <2>4. Ahead(m)
    BY ZenonT(30), <2>1, <2>2 DEF IInv, MigInv, Token, Gone, InLoop, InNet, InQueue, Progress
  <2>5. MarkMigrating(Src, m) \/ UNCHANGED <<minipart_map, part_map>>
    BY Zenon, <1>2, <2>2 DEF SendRow
  <2> QED  BY ZenonT(30), <1>0, <2>3, <2>4, <2>5, MarkForward, SameForward
<1>3. ASSUME NEW n \in Node, ProcessRecvMigration(n) PROVE Forward
  <2>1. dequeue(n) /\ Head(migmsg_queue[n]).type = "RECV_MIGRATION" /\ n \in Holder
    BY Zenon, <1>3 DEF ProcessRecvMigration, Dequeues, Holder
  <2>2. PICK m : m = Head(migmsg_queue[n]).order
    BY Zenon
  <2>3. CASE Head(migmsg_queue[n]).islast
    <3>1. MarkMigrating(n, m)
      BY Zenon, <1>3, <2>2, <2>3 DEF ProcessRecvMigration
    <3>2. m \in MiniPart /\ m <= m
      <4>1. Head(migmsg_queue[n]) \in Message
        BY Zenon, <1>0, <2>1, DequeueProps DEF Types
      <4>2. m \in MiniPart
        BY Zenon, <2>1, <2>2, <4>1, MessageFields DEF Migrating
      <4> QED  BY <4>2, SizeAssumption DEF MiniPart
    <3>3. Ahead(m)
      BY Zenon, <1>0, <2>1, <2>2, <2>3, TokenTaken DEF IInv, MigInv, IsToken, Progress
    <3> QED  BY ZenonT(30), <1>0, <2>1, <3>1, <3>2, <3>3, MarkForward
  <2>4. CASE ~ Head(migmsg_queue[n]).islast
    <3>1. UNCHANGED <<minipart_map, part_map>>
      BY Zenon, <1>3, <2>4 DEF ProcessRecvMigration
    <3> QED  BY Zenon, <1>0, <3>1, SameForward
  <2> QED  BY Zenon, <2>3, <2>4
<1>4. CASE ProcessFinishMigration
  <2>1. dequeue(Src) /\ Head(migmsg_queue[Src]).type = "FINISH_MIGRATION"
    BY Zenon, <1>4 DEF ProcessFinishMigration, Dequeues
  <2>2. PICK m : m = Head(migmsg_queue[Src]).order
    BY ZenonT(30)
  <2>3. m \in MiniPart
    <3>1. Head(migmsg_queue[Src]) \in Message
      BY Zenon, <1>0, <2>1, DequeueProps DEF Types
    <3> QED  BY ZenonT(30), <2>1, <2>2, <3>1, MessageFields DEF Migrating
  <2>4. Ahead(m)
    BY Zenon, <1>0, <2>1, <2>2, TokenTaken DEF IInv, MigInv, IsToken, Progress
  <2>5. CASE LastOrder(m)
    <3>1. UNCHANGED <<minipart_map, part_map>>
      BY Zenon, <1>4, <2>2, <2>5 DEF ProcessFinishMigration
    <3> QED  BY Zenon, <1>0, <3>1, SameForward
  <2>6. CASE ~ LastOrder(m)
    <3>1. PICK q \in MiniPart : q = m + 1 /\ m <= q
      BY <2>3, <2>6, SizeAssumption DEF LastOrder, MiniPart
    <3>2. MarkMigrating(Src, q)
      BY ZenonT(30), <1>4, <2>2, <2>6, <3>1 DEF ProcessFinishMigration, BeginSend
    <3> QED  BY Zenon, <1>0, <2>3, <2>4, <3>1, <3>2, MarkForward
  <2> QED  BY Zenon, <2>5, <2>6
<1>5. ASSUME NEW msg \in net, ProcessSetMinipartMap(msg) PROVE Forward
  <2>1. /\ minipart_map' = [minipart_map EXCEPT ![msg.to][msg.order] = [node |-> Dest, status |-> 2]]
        /\ part_map' = part_map /\ msg.type = "SET_MINIPARTMAP" /\ msg \in Message
    BY Zenon, <1>0, <1>5 DEF ProcessSetMinipartMap, Types, TypeOK
  <2>2. msg.to \in Holder /\ msg.order \in MiniPart
    BY Zenon, <2>1, MessageFields DEF Maps
  <2>3. /\ minipart_map \in [Holder -> [MiniPart -> [node : Node, status : 0..2]]]
        /\ part_map \in [Holder -> [node : Node, status : 0..2]]
    BY Zenon, <1>0 DEF Types, TypeOK
  <2>4. ASSUME NEW k \in Holder PROVE part_map[k].status \in 0..2
    BY Zenon, <2>3
  <2>5. ASSUME NEW k \in Holder, NEW q \in MiniPart
        PROVE  /\ minipart_map'[k][q].status >= minipart_map[k][q].status
               /\ minipart_map[k][q].node = Dest => minipart_map'[k][q].node = Dest
    <3>1. minipart_map[k][q].status \in 0..2
      BY Zenon, <2>3
    <3>2. minipart_map'[k][q] = IF k = msg.to /\ q = msg.order THEN [node |-> Dest, status |-> 2]
                                ELSE minipart_map[k][q]
      BY Zenon, <2>1, <2>2, <2>3
    <3> QED  BY <3>1, <3>2
  <2> QED  BY <2>1, <2>4, <2>5 DEF Forward
<1>6. ASSUME NEW msg \in net, ProcessSetPartMap(msg) PROVE Forward
  <2>1. /\ part_map' = [part_map EXCEPT ![msg.to] = [node |-> Dest, status |-> 2]]
        /\ minipart_map' = minipart_map
    BY Zenon, <1>6 DEF ProcessSetPartMap, process_set_partmap
  <2>2. /\ minipart_map \in [Holder -> [MiniPart -> [node : Node, status : 0..2]]]
        /\ part_map \in [Holder -> [node : Node, status : 0..2]]
    BY ZenonT(30), <1>0 DEF Types, TypeOK
  <2>3. ASSUME NEW k \in Holder
        PROVE  /\ part_map'[k].status >= part_map[k].status
               /\ part_map[k].node = Dest => part_map'[k].node = Dest
    <3>1. part_map[k].status \in 0..2
      BY ZenonT(30), <2>2
    <3>2. part_map'[k] = IF k = msg.to THEN [node |-> Dest, status |-> 2] ELSE part_map[k]
      BY Zenon, <2>1, <2>2
    <3> QED  BY <3>1, <3>2
  <2>4. ASSUME NEW k \in Holder, NEW q \in MiniPart PROVE minipart_map[k][q].status \in 0..2
    BY ZenonT(30), <2>2
  <2> QED  BY <2>1, <2>3, <2>4 DEF Forward
<1>7. ASSUME NEW msg \in net,
             \/ WorkerEnqueue(msg) \/ ProcessRqry(msg) \/ ProcessRqryRsp(msg)
             \/ ProcessRprepare(msg) \/ ProcessRackPrep(msg) \/ ProcessRfin(msg)
             \/ ProcessRackFin(msg)
      PROVE  Forward
  <2>1. UNCHANGED <<minipart_map, part_map>>
    BY Zenon, <1>7 DEF WorkerEnqueue, ProcessRqry, ProcessRqryRsp, ProcessRprepare, ProcessRackPrep,
                ProcessRfin, ProcessRackFin, migration
  <2> QED  BY Zenon, <1>0, <2>1, SameForward
<1>8. ASSUME NEW t \in Txn, ProcessRtxn(t) PROVE Forward
  <2>1. UNCHANGED <<minipart_map, part_map>>
    BY Zenon, <1>8 DEF ProcessRtxn
  <2> QED  BY Zenon, <1>0, <2>1, SameForward
<1> QED  BY ZenonT(30), <1>1, <1>2, <1>3, <1>4, <1>5, <1>6, <1>7, <1>8 DEF Next, MigrateThread, Worker

-----------------------------------------------------------------------------
(* The invariant holds in every reachable state.                           *)
THEOREM MigrationIInvHolds == Spec => []IInv
BY InitInv, NextInv, PTL DEF Spec

(* The state of the migration threads, of the maps and of the transactions *)
(* keeps its types; a home node never counts more responses than nodes.    *)
THEOREM MigrationTypes == Spec => []TypeOK
<1>1. IInv => TypeOK
  BY DEF IInv, Types
<1> QED  BY <1>1, MigrationIInvHolds, PTL

(* No minipart_map and no part_map names the destination before            *)
(* process_recv_migration has inserted the rows there, when a              *)
(* mini-partition fits in one message.                                     *)
THEOREM RowsComeFirst == Spec => []RowsBeforeRoute
<1>1. IInv => RowsBeforeRoute
  BY DEF IInv, MigInv
<1> QED  BY <1>1, MigrationIInvHolds, PTL

(* process_finish_migration starts the next mini-partition only when the   *)
(* one before it is over: one at most is under way.                        *)
THEOREM MigrationIsProgressive == Spec => []OneAtATime
BY Alone, MigrationIInvHolds, PTL

(* process_rqry never sees a request of its own node, whatever the order   *)
(* in which the maps of the nodes are updated.                             *)
THEOREM RequestsStayAway == Spec => []RqryNotHome
<1>1. IInv => RqryNotHome
  BY DEF IInv, TxnInv, Requests, RqryNotHome, TxnNet
<1> QED  BY <1>1, MigrationIInvHolds, PTL

(* update_minipart_map_status and update_part_map_status never take back   *)
(* what SET_MINIPARTMAP or SET_PARTMAP has said.                           *)
THEOREM MapsMoveForward == Spec => StatusAdvances
<1>1. IInv /\ [Next]_vars => [Forward]_vars
  BY Zenon, NextForward
<1>2. [Forward]_vars <=>
        [\A n \in Holder :
           /\ part_map'[n].status >= part_map[n].status
           /\ part_map[n].node = Dest => part_map'[n].node = Dest
           /\ \A m \in MiniPart :
                /\ minipart_map'[n][m].status >= minipart_map[n][m].status
                /\ minipart_map[n][m].node = Dest => minipart_map'[n][m].node = Dest]_vars
  BY DEF Forward
<1> QED  BY <1>1, <1>2, MigrationIInvHolds, PTL DEF Spec, StatusAdvances
=============================================================================
