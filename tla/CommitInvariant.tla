-------------------------- MODULE CommitInvariant --------------------------
(***************************************************************************)
(* The inductive invariant of TwoPhaseCommit: every transaction is in one  *)
(* of five phases, which the messages on their way tell apart.  What the   *)
(* handlers have in common keeps it: the end of an attempt, the answer, the*)
(* decision, the votes.                                                    *)
(***************************************************************************)
EXTENDS TwoPhaseCommit, TLAPS

Executing == {"RTXN", "RTXN_CONT", "RQRY", "RQRY_CONT", "RQRY_RSP"}
Voting    == {"RPREPARE", "RACK_PREP"}
Finishing == {"RFIN", "RACK_FIN"}

Acked(t) == readonly[t] => AcksReadonly

\* The nodes that have not got their finish message yet.
ToFinish(t) == {n \in Node : \E m \in InFlight(t) : m.type = "RFIN" /\ m.node = n}

\* A node has at most one message, about a request or a decision at a node
\* that is touched; accesses and managers are at touched nodes.
MsgInv(t) ==
  /\ IsFiniteSet(InFlight(t))
  /\ \A m \in InFlight(t) : net[m] = 1
  /\ \A x, y \in InFlight(t) : x.node = y.node => x = y
  /\ \A m \in InFlight(t) :
       IF m.type \in {"RTXN", "RTXN_CONT"} THEN m.node = home[t] /\ m.rc = "RCOK"
       ELSE m.node \in partitions_touched[t] \ {home[t]}
  /\ held[t] \subseteq partitions_touched[t]
  /\ table[t] \subseteq partitions_touched[t]

\* The message m says that its node has aborted.
Fails(m) == m.type = "RQRY_RSP" /\ m.rc = "Abort"

\* One message m is on its way, and nothing has ended but what m tells of.
ExecPhase(t) ==
  \E m \in Message :
    /\ InFlight(t) = {m} /\ m.type \in Executing
    /\ answers[t] = 0 /\ rsp_cnt[t] = 0
    /\ \A n \in Node :
         IF Fails(m) /\ n = m.node
         THEN n \in aborted[t] /\ rc[t][n] = "Abort" /\ outcome[t][n] = "aborted"
         ELSE n \notin aborted[t] /\ rc[t][n] = "RCOK" /\ outcome[t][n] = "none"
    /\ Fails(m) => CanAbort(t)
    /\ held[t] \cap aborted[t] = {}
    /\ m.type # "RTXN" => home[t] \in table[t]
    /\ \A n \in partitions_touched[t] \ {home[t]} :
         n \in table[t] \/ (m.type = "RQRY" /\ n = m.node)
    /\ m.type = "RTXN" /\ CC_ALG # "TICTOC" => held[t] = {}

\* Votes are out: a node that has aborted has said so, or is saying so.
VotePhase(t) ==
  /\ InFlight(t) # {} /\ \A m \in InFlight(t) : m.type \in Voting
  /\ answers[t] = 0 /\ rsp_cnt[t] = Cardinality(InFlight(t))
  /\ Acked(t)
  /\ home[t] \in partitions_touched[t] /\ partitions_touched[t] \subseteq table[t]
  /\ home[t] \notin aborted[t] /\ aborted[t] \subseteq partitions_touched[t]
  /\ held[t] \cap aborted[t] = {}
  /\ \A n \in Node : outcome[t][n] = IF n \in aborted[t] THEN "aborted" ELSE "none"
  /\ \A n \in Node \ {home[t]} : rc[t][n] = IF n \in aborted[t] THEN "Abort" ELSE "RCOK"
  /\ rc[t][home[t]] = "RCOK" =>
       \A n \in aborted[t] : \E m \in InFlight(t) :
         m.node = n /\ m.type = "RACK_PREP" /\ m.rc = "Abort"
  /\ \A m \in InFlight(t) : m.type = "RPREPARE" => m.node \notin aborted[t]
  /\ rc[t][home[t]] = "Abort" \/ (\E m \in InFlight(t) : m.rc = "Abort") => CanAbort(t)

\* The decision is to commit.  Nobody has aborted, and a node has committed
\* unless its finish message is on its way.  Where ends are not acknowledged
\* the home does not go on.
CommitPhase(t) ==
  /\ \A m \in InFlight(t) : m.type \in Finishing /\ m.rc = "RCOK"
  /\ answers[t] = 0
  /\ IF Acked(t)
     THEN /\ InFlight(t) # {} /\ rsp_cnt[t] = Cardinality(InFlight(t))
          /\ home[t] \notin held[t] /\ outcome[t][home[t]] = "committed"
     ELSE /\ rsp_cnt[t] = 0 /\ \A m \in InFlight(t) : m.type = "RFIN"
          /\ outcome[t][home[t]] = "none"
  /\ home[t] \in table[t] /\ ToFinish(t) \subseteq table[t]
  /\ aborted[t] = {} /\ \A n \in Node : rc[t][n] = "RCOK"
  /\ \A n \in Node \ {home[t]} : outcome[t][n] =
       IF n \in partitions_touched[t] \ ToFinish(t) THEN "committed" ELSE "none"
  /\ held[t] \subseteq ToFinish(t) \cup {home[t]}
  /\ table[t] \subseteq ToFinish(t) \cup {home[t]}

\* The decision is to abort.  Nobody has committed, and a node is as it was
\* before the attempt unless its finish message is on its way.
AbortPhase(t) ==
  /\ InFlight(t) # {}
  /\ \A m \in InFlight(t) : /\ m.type \in Finishing
                            /\ m.rc = IF m.type = "RFIN" THEN "Abort" ELSE "RCOK"
  /\ answers[t] = 0 /\ rsp_cnt[t] = Cardinality(InFlight(t)) /\ CanAbort(t)
  /\ home[t] \in partitions_touched[t] /\ partitions_touched[t] \subseteq table[t]
  /\ rc[t][home[t]] = "Abort" /\ home[t] \in aborted[t]
  /\ aborted[t] \subseteq ToFinish(t) \cup {home[t]}
  /\ \A n \in Node : outcome[t][n] # "committed"
  /\ \A n \in ToFinish(t) : outcome[t][n] = IF n \in aborted[t] THEN "aborted" ELSE "none"
  /\ \A n \in Node \ {home[t]} : rc[t][n] = "Abort" => n \in aborted[t]
  /\ held[t] \subseteq ToFinish(t) \ aborted[t]

\* The client was answered, and nothing is left.
DonePhase(t) ==
  /\ InFlight(t) = {} /\ answers[t] = 1 /\ rsp_cnt[t] = 0
  /\ held[t] = {} /\ table[t] = {}
  /\ \A n \in Node : outcome[t][n] # "aborted"
  /\ \A n \in partitions_touched[t] : outcome[t][n] = "committed"

TxnInv(t) ==
  /\ MsgInv(t)
  /\ ExecPhase(t) \/ VotePhase(t) \/ CommitPhase(t) \/ AbortPhase(t) \/ DonePhase(t)

IInv == TypeOK /\ \A t \in Txn : TxnInv(t)
-----------------------------------------------------------------------------
(***************************************************************************)
(* Messages, counts, frames.                                               *)
(***************************************************************************)

\* A handler takes the message m of t off the network and sends S.
LEMMA DeliverProps ==
  ASSUME net \in [Message -> Nat], NEW t \in Txn, NEW m \in InFlight(t), net[m] = 1,
         \A x \in InFlight(t) : net[x] = 1,
         NEW S \in SUBSET Message, \A x \in S : x.txn = t,
         \A x \in S : x = m \/ x \notin InFlight(t),
         net' = Deliver(m, S)
  PROVE  /\ net' \in [Message -> Nat]
         /\ InFlight(t)' = (InFlight(t) \ {m}) \cup S
         /\ \A x \in InFlight(t)' : net'[x] = 1
         /\ \A u \in Txn \ {t} : /\ InFlight(u)' = InFlight(u)
                                 /\ \A x \in InFlight(u) : net'[x] = net[x]
<1>1. m \in Message /\ m.txn = t
  BY Zenon DEF InFlight
<1>2. \A x \in Message : net'[x] = net[x] - (IF x = m THEN 1 ELSE 0)
                                          + (IF x \in S THEN 1 ELSE 0)
  BY Zenon DEF Deliver
<1>3. \A x \in Message : net[x] \in Nat
  BY Zenon
<1>4. \A x \in Message : net'[x] \in Nat
  BY <1>2, <1>3
<1>5. net' \in [Message -> Nat]
  BY Zenon, <1>4 DEF Deliver
<1>6. \A x \in Message : x.txn = t =>
        /\ net'[x] > 0 <=> x \in (InFlight(t) \ {m}) \cup S
        /\ net'[x] > 0 => net'[x] = 1
  BY <1>1, <1>2, <1>3 DEF InFlight
<1>7. \A x \in Message : x.txn # t => net'[x] = net[x]
  BY <1>1, <1>2, <1>3
<1>8. InFlight(t)' = {x \in Message : x.txn = t /\ net'[x] > 0}
  BY Zenon DEF InFlight
<1>9. (InFlight(t) \ {m}) \cup S \subseteq {x \in Message : x.txn = t}
  BY Zenon DEF InFlight
<1>10. InFlight(t)' = (InFlight(t) \ {m}) \cup S
  BY Zenon, <1>6, <1>8, <1>9
<1>11. \A x \in InFlight(t)' : net'[x] = 1
  BY Zenon, <1>6, <1>8
<1>12. \A u \in Txn \ {t} : /\ InFlight(u)' = InFlight(u)
                            /\ \A x \in InFlight(u) : net'[x] = net[x]
  BY Zenon, <1>7 DEF InFlight
<1> QED  BY Zenon, <1>5, <1>10, <1>11, <1>12

-----------------------------------------------------------------------------
\* What the proofs use of finite sets and of numbers.  It is a hypothesis of the
\* lemmas that count; ClusterProofs has it from the library (CountingHolds).
SizeCount ==
  /\ IsFiniteSet({}) /\ Cardinality({}) = 0
  /\ \A S : IsFiniteSet(S) => Cardinality(S) \in Nat /\ (Cardinality(S) = 0 <=> S = {})
OneCount == \A x : IsFiniteSet({x}) /\ Cardinality({x}) = 1
RemoveCount ==
  \A S, x : IsFiniteSet(S) /\ x \in S =>
    IsFiniteSet(S \ {x}) /\ Cardinality(S \ {x}) = Cardinality(S) - 1
AddCount ==
  \A S, x : IsFiniteSet(S) /\ x \notin S =>
    IsFiniteSet(S \cup {x}) /\ Cardinality(S \cup {x}) = Cardinality(S) + 1
SubsetCount == \A S, T : IsFiniteSet(T) /\ S \subseteq T => IsFiniteSet(S)
MapCount ==
  \A S, T, f :
    /\ f \in [S -> T] /\ IsFiniteSet(S)
    /\ \A a, b \in S : f[a] = f[b] => a = b
    /\ \A y \in T : \E a \in S : f[a] = y
    => IsFiniteSet(T) /\ Cardinality(T) = Cardinality(S)
LeastNumber == \A S \in SUBSET Nat : S # {} => \E x \in S : \A y \in S : x =< y

Counting == /\ SizeCount /\ OneCount /\ RemoveCount /\ AddCount /\ SubsetCount
            /\ MapCount /\ LeastNumber

LEMMA NotLess == \A x, y \in Nat : ~ (y < x) => x =< y
OBVIOUS

\* send_prepare_messages and send_finish_messages send as many messages as
\* the touched nodes c are, without the home.
LEMMA OthersProps ==
  ASSUME Counting, NEW t \in Txn, NEW c \in SUBSET Node, home[t] \in c, NEW type \in MsgType,
         NEW code \in RC
  PROVE  /\ ToOthers(type, t, c, code) \subseteq Message
         /\ IsFiniteSet(ToOthers(type, t, c, code))
         /\ Cardinality(ToOthers(type, t, c, code)) = Cardinality(c) - 1
         /\ Cardinality(c) > 1 <=> c # {home[t]}
         /\ Cardinality(c) \in Nat \ {0}
<1> DEFINE d == c \ {home[t]}
           S == ToOthers(type, t, c, code)
           f == [n \in d |-> Msg(type, t, n, code)]
<1>1. IsFiniteSet(c)
  BY Zenon, NodeAssumption DEF Counting, SubsetCount
<1>2. IsFiniteSet(d) /\ Cardinality(d) = Cardinality(c) - 1
  BY <1>1, Zenon DEF Counting, RemoveCount
<1>3. Cardinality(c) \in Nat /\ Cardinality(d) \in Nat
  BY Zenon, <1>1, <1>2 DEF Counting, SizeCount
<1>4. S \subseteq Message
  BY DEF ToOthers, Msg, Message
<1>5. /\ f \in [d -> S]
      /\ \A y \in S : \E a \in d : f[a] = y
      /\ \A a, b \in d : f[a] = f[b] => a = b
  <2>1. \A a \in d : f[a].node = a
    BY Zenon DEF Msg
  <2> QED  BY Zenon, <2>1 DEF ToOthers
<1>6. IsFiniteSet(S) /\ Cardinality(S) = Cardinality(d)
  <2> HIDE DEF d, S, f
  <2> QED  BY <1>2, <1>5, SMT DEF Counting, MapCount
<1>7. Cardinality(c) > 1 <=> d # {}
  BY <1>2, <1>3 DEF Counting, SizeCount
<1> QED  BY <1>2, <1>3, <1>4, <1>6, <1>7

\* The first remote request is one, or there is none.
LEMMA FirstRemoteProps ==
  ASSUME Counting, NEW t \in Txn, prog[t] \in Seq(Node), NEW p \in Nat \ {0}
  PROVE  /\ FirstRemote(t, p) \in Nat \ {0}
         /\ FirstRemote(t, p) <= Len(prog[t]) =>
              prog[t][FirstRemote(t, p)] \in Node \ {home[t]}
<1> DEFINE S == {i \in p..Len(prog[t]) : prog[t][i] # home[t]} \cup {Len(prog[t]) + 1}
           q == FirstRemote(t, p)
<1>1. Len(prog[t]) \in Nat /\ \A i \in 1..Len(prog[t]) : prog[t][i] \in Node
  OBVIOUS
<1>2. S \in SUBSET Nat /\ S # {}
  BY <1>1
<1>3. \E x \in S : \A y \in S : x =< y
  BY ZenonT(30), <1>2 DEF Counting, LeastNumber
<1>4. q \in S
  BY ZenonT(30), <1>3 DEF FirstRemote, Min
<1> QED  BY <1>1, <1>4

\* What is invariant of a transaction stays so when nothing of it changes.
LEMMA TxnFrame ==
  ASSUME NEW u \in Txn, TxnInv(u), CC_ALG' = CC_ALG, readonly' = readonly,
         partitions_touched'[u] = partitions_touched[u], rsp_cnt'[u] = rsp_cnt[u],
         rc'[u] = rc[u], aborted'[u] = aborted[u], table'[u] = table[u],
         held'[u] = held[u], abort_cnt'[u] = abort_cnt[u],
         answers'[u] = answers[u], outcome'[u] = outcome[u],
         InFlight(u)' = InFlight(u), \A x \in InFlight(u) : net'[x] = net[x]
  PROVE  TxnInv(u)'
<1>1. MsgInv(u)'
  BY Zenon DEF TxnInv, MsgInv
<1>2. CanAbort(u)' = CanAbort(u) /\ Acked(u)' = Acked(u)
  BY Zenon DEF CanAbort, Acked, AcksReadonly, PreparesReadonly
<1>3. ToFinish(u)' = ToFinish(u)
  BY Zenon DEF ToFinish
<1>4. ExecPhase(u) => ExecPhase(u)'
  BY <1>2 DEF ExecPhase
<1>5. VotePhase(u) => VotePhase(u)'
  BY <1>2 DEF VotePhase
<1>6. CommitPhase(u) => CommitPhase(u)'
  BY <1>2, <1>3 DEF CommitPhase
<1>7. AbortPhase(u) => AbortPhase(u)'
  BY <1>2, <1>3 DEF AbortPhase
<1>8. DonePhase(u) => DonePhase(u)'
  BY Zenon DEF DonePhase
<1> QED  BY Zenon, <1>1, <1>4, <1>5, <1>6, <1>7, <1>8 DEF TxnInv

\* m is the only message of t, whose home is about to go on with the touched
\* nodes c and accesses on hs.
Sole(t, m, c, hs) ==
  /\ m \in Message /\ InFlight(t) = {m}
  /\ answers[t] = 0
  /\ c \in SUBSET Node /\ hs \in SUBSET c
  /\ home[t] \in c /\ partitions_touched[t] \subseteq c

\* The other nodes of c have managers.
Alone(t, m, c, hs) == Sole(t, m, c, hs) /\ c \ {home[t]} \subseteq table[t]

\* Nothing of the attempt has ended.
Clean(t) ==
  /\ aborted[t] = {}
  /\ \A n \in Node : rc[t][n] = "RCOK" /\ outcome[t][n] = "none"

\* The records before and after q are records.
LEMMA RecordNumbers ==
  ASSUME NEW p \in Nat \ {0}, NEW q \in Nat \ {0}
  PROVE  q + 1 \in Nat \ {0} /\ \A j \in p..(q - 1) : j \in Nat \ {0}
OBVIOUS

\* A handler that consumes the only message of t and sends S.
LEMMA LastMessage ==
  ASSUME IInv, NEW t \in Txn, NEW m \in Message, InFlight(t) = {m},
         NEW S \in SUBSET Message, \A x \in S : x.txn = t, net' = Deliver(m, S)
  PROVE  /\ net' \in [Message -> Nat]
         /\ InFlight(t)' = S
         /\ \A x \in S : net'[x] = 1
         /\ \A u \in Txn \ {t} : /\ InFlight(u)' = InFlight(u)
                                 /\ \A x \in InFlight(u) : net'[x] = net[x]
<1>1. m \in InFlight(t)
  BY Zenon
<1>2. \A x \in InFlight(t) : net[x] = 1
  BY Zenon DEF IInv, TxnInv, MsgInv
<1>3. \A x \in S : x = m \/ x \notin InFlight(t)
  BY Zenon
<1>4. net \in [Message -> Nat]
  BY Zenon DEF IInv, TypeOK
<1>5. (InFlight(t) \ {m}) \cup S = S
  BY Zenon
<1>6. /\ net' \in [Message -> Nat]
      /\ InFlight(t)' = (InFlight(t) \ {m}) \cup S
      /\ \A x \in InFlight(t)' : net'[x] = 1
      /\ \A u \in Txn \ {t} : /\ InFlight(u)' = InFlight(u)
                              /\ \A x \in InFlight(u) : net'[x] = net[x]
  BY ZenonT(30), <1>1, <1>2, <1>3, <1>4, DeliverProps
<1> QED  BY Zenon, <1>5, <1>6

\* The same, with one message r in its place.
LEMMA LastMessageOne ==
  ASSUME IInv, NEW t \in Txn, NEW m \in Message, InFlight(t) = {m},
         NEW r \in Message, r.txn = t, net' = Deliver(m, {r})
  PROVE  /\ net' \in [Message -> Nat]
         /\ InFlight(t)' = {r} /\ net'[r] = 1
         /\ \A u \in Txn \ {t} : /\ InFlight(u)' = InFlight(u)
                                 /\ \A x \in InFlight(u) : net'[x] = net[x]
<1>1. m \in Message /\ m.txn = t /\ net[m] = 1
  BY ZenonT(30) DEF InFlight, IInv, TxnInv, MsgInv
<1>2. \A x \in Message : net'[x] = net[x] - (IF x = m THEN 1 ELSE 0)
                                          + (IF x = r THEN 1 ELSE 0)
  BY Zenon DEF Deliver
<1>3. \A x \in Message : net[x] \in Nat /\ (x.txn = t /\ x # m => net[x] = 0)
  BY DEF IInv, TypeOK, InFlight
<1>4. \A x \in Message :
        /\ net'[x] \in Nat
        /\ x.txn = t => net'[x] = (IF x = r THEN 1 ELSE 0)
        /\ x.txn # t => net'[x] = net[x]
  <2> TAKE x \in Message
  <2>1. /\ net[x] \in Nat /\ (x.txn = t /\ x # m => net[x] = 0)
        /\ net'[x] = net[x] - (IF x = m THEN 1 ELSE 0) + (IF x = r THEN 1 ELSE 0)
    BY ZenonT(30), <1>2, <1>3
  <2>2. CASE x = m
    BY <1>1, <2>1, <2>2
  <2>3. CASE x # m
    BY <2>1, <2>3
  <2> QED  BY Zenon, <2>2, <2>3
<1>5. net' \in [Message -> Nat]
  BY Zenon, <1>4 DEF Deliver
<1>6. InFlight(t)' = {r} /\ net'[r] = 1
  <2>1. \A x \in Message : x.txn = t /\ net'[x] > 0 <=> x = r
    BY <1>4
  <2>2. InFlight(t)' = {x \in Message : x.txn = t /\ net'[x] > 0}
    BY DEF InFlight
  <2> QED  BY ZenonT(30), <1>4, <2>1, <2>2
<1>7. \A u \in Txn \ {t} : /\ InFlight(u)' = InFlight(u)
                           /\ \A x \in InFlight(u) : net'[x] = net[x]
  BY ZenonT(30), <1>4 DEF InFlight
<1> QED  BY Zenon, <1>5, <1>6, <1>7

\* Only t changes.
LEMMA OthersKept ==
  ASSUME IInv, NEW t \in Txn, UNCHANGED query, TypeOK', TxnInv(t)',
         \A u \in Txn \ {t} :
           /\ partitions_touched'[u] = partitions_touched[u] /\ rsp_cnt'[u] = rsp_cnt[u]
           /\ rc'[u] = rc[u] /\ aborted'[u] = aborted[u] /\ table'[u] = table[u]
           /\ held'[u] = held[u] /\ abort_cnt'[u] = abort_cnt[u]
           /\ answers'[u] = answers[u] /\ outcome'[u] = outcome[u]
           /\ InFlight(u)' = InFlight(u) /\ \A x \in InFlight(u) : net'[x] = net[x]
  PROVE  IInv'
<1>1. ASSUME NEW u \in Txn \ {t} PROVE TxnInv(u)'
  BY Zenon, <1>1, TxnFrame DEF IInv, query
<1> QED  BY Zenon, <1>1 DEF IInv

\* WorkerThread::abort starts the next attempt.
LEMMA AbortQueueInv ==
  ASSUME Counting, IInv, NEW t \in Txn, NEW m, NEW c, NEW hs, Alone(t, m, c, hs),
         AbortQueue(m, t, c, hs), CanAbort(t), aborted[t] \subseteq {home[t]},
         \A n \in Node \ {home[t]} : rc[t][n] = "RCOK",
         CC_ALG # "TICTOC" => hs = {}
  PROVE  IInv'
<1> DEFINE h == home[t]
           r == Msg("RTXN", t, h, "RCOK")
<1>0. h \in Node
  BY Zenon, HomeAssumption
<1>1. /\ r \in Message /\ r.type = "RTXN" /\ r.txn = t /\ r.node = h /\ r.rc = "RCOK"
  BY Zenon, <1>0 DEF Msg, Message, MsgType, RC
<1>2. net' = Deliver(m, {r})
  BY Zenon DEF AbortQueue
<1>3. /\ net' \in [Message -> Nat]
      /\ InFlight(t)' = {r} /\ net'[r] = 1
      /\ \A u \in Txn \ {t} : /\ InFlight(u)' = InFlight(u)
                              /\ \A x \in InFlight(u) : net'[x] = net[x]
  <2> HIDE DEF r
  <2> QED  BY ZenonT(30), <1>1, <1>2, LastMessageOne DEF Sole, Alone
<1>4. TypeOK'
  <2>1. TypeOK /\ c \in SUBSET Node /\ hs \in SUBSET Node
    BY Zenon DEF IInv, Sole, Alone
  <2>2. abort_cnt' \in [Txn -> 0..MaxAborts]
    BY <2>1, BoundAssumption DEF AbortQueue, CanAbort, TypeOK
  <2>3. outcome' \in [Txn -> [Node -> {"none", "committed", "aborted"}]]
    BY Zenon, <2>1 DEF AbortQueue, TypeOK
  <2>4. rc' \in [Txn -> [Node -> RC]]
    BY Zenon, <1>0, <2>1 DEF AbortQueue, TypeOK, RC
  <2>5. /\ aborted' \in [Txn -> SUBSET Node] /\ table' \in [Txn -> SUBSET Node]
        /\ held' \in [Txn -> SUBSET Node] /\ partitions_touched' \in [Txn -> SUBSET Node]
    BY ZenonT(30), <1>0, <2>1 DEF AbortQueue, TypeOK
  <2>6. next_record_id' \in [Txn -> Nat \ {0}] /\ rsp_cnt' \in [Txn -> Nat]
    BY <2>1 DEF AbortQueue, TypeOK
  <2> QED  BY ZenonT(30), <1>3, <2>1, <2>2, <2>3, <2>4, <2>5, <2>6 DEF AbortQueue, TypeOK, query
<1>5. /\ partitions_touched'[t] = c /\ rsp_cnt'[t] = 0 /\ answers'[t] = 0
      /\ aborted'[t] = {} /\ held'[t] = hs /\ table'[t] = table[t] \cup {h}
      /\ \A n \in Node : rc'[t][n] = "RCOK" /\ outcome'[t][n] = "none"
      /\ CC_ALG' = CC_ALG
  BY Zenon, <1>0 DEF AbortQueue, IInv, TypeOK, query, Sole, Alone
<1>6. MsgInv(t)'
  <2>1. IsFiniteSet({r})
    BY ZenonT(30) DEF Counting, OneCount
  <2>2. held'[t] \subseteq c /\ table'[t] \subseteq c
    BY Zenon, <1>5 DEF Sole, Alone, IInv, TxnInv, MsgInv
  <2> HIDE DEF r
  <2> QED  BY <1>1, <1>3, <1>5, <2>1, <2>2 DEF MsgInv
<1>7. ExecPhase(t)'
  <2>1. ~ Fails(r)
    BY Zenon, <1>1 DEF Fails
  <2> HIDE DEF r
  <2> QED  BY <1>1, <1>3, <1>5, <2>1 DEF ExecPhase, Executing, Sole, Alone
<1>8. TxnInv(t)'
  BY <1>6, <1>7 DEF TxnInv
<1> QED  BY ZenonT(30), <1>3, <1>4, <1>8, OthersKept DEF AbortQueue, IInv, TypeOK

\* WorkerThread::commit answers the client.
LEMMA AnswerInv ==
  ASSUME Counting, IInv, NEW t \in Txn, NEW m, NEW c, NEW hs, Sole(t, m, c, hs),
         Answer(m, t, c, hs), hs = {}, table[t] \subseteq {home[t]},
         \A n \in Node : outcome[t][n] # "aborted",
         \A n \in c \ {home[t]} : outcome[t][n] = "committed"
  PROVE  IInv'
<1> DEFINE h == home[t]
<1>0. h \in Node
  BY Zenon, HomeAssumption
<1>2. net' = Deliver(m, {})
  BY Zenon DEF Answer
<1>3. /\ net' \in [Message -> Nat]
      /\ InFlight(t)' = {}
      /\ \A u \in Txn \ {t} : /\ InFlight(u)' = InFlight(u)
                              /\ \A x \in InFlight(u) : net'[x] = net[x]
  BY <1>2, LastMessage DEF Sole
<1>4. TypeOK'
  <2>1. TypeOK /\ c \in SUBSET Node
    BY Zenon DEF IInv, Sole
  <2>2. outcome' \in [Txn -> [Node -> {"none", "committed", "aborted"}]]
    BY <1>0, <2>1 DEF Answer, TypeOK
  <2>3. answers' \in [Txn -> Nat]
    BY <2>1 DEF Answer, TypeOK
  <2> QED  BY Zenon, <1>0, <1>3, <2>1, <2>2, <2>3 DEF Answer, TypeOK, query
<1>5. /\ partitions_touched'[t] = c /\ rsp_cnt'[t] = 0 /\ answers'[t] = 1
      /\ held'[t] = {} /\ table'[t] = {}
      /\ \A n \in Node : outcome'[t][n] =
           IF n = h /\ outcome[t][n] = "none" THEN "committed" ELSE outcome[t][n]
  BY <1>0 DEF Answer, IInv, TypeOK, Sole
<1>6. MsgInv(t)'
  BY Zenon, <1>3, <1>5 DEF MsgInv, Counting, SizeCount
<1>7. DonePhase(t)'
  <2>1. \A n \in Node : outcome'[t][n] # "aborted"
    BY Zenon, <1>5
  <2>2. outcome[t][h] \in {"none", "committed", "aborted"}
    BY ZenonT(30), <1>0 DEF IInv, TypeOK
  <2>3. \A n \in c : outcome'[t][n] = "committed"
    BY Zenon, <1>0, <1>5, <2>2 DEF Sole
  <2> QED  BY Zenon, <1>3, <1>5, <2>1, <2>3 DEF DonePhase
<1>8. TxnInv(t)'
  BY <1>6, <1>7 DEF TxnInv
<1> QED  BY ZenonT(30), <1>3, <1>4, <1>8, OthersKept DEF Answer, IInv, TypeOK

\* The messages to the other touched nodes, one each.
LEMMA OthersMsgs ==
  ASSUME NEW t \in Txn, NEW c \in SUBSET Node, NEW type \in MsgType, NEW code \in RC
  PROVE  /\ \A x \in ToOthers(type, t, c, code) :
              /\ x.type = type /\ x.txn = t /\ x.rc = code
              /\ x.node \in c \ {home[t]}
         /\ \A n \in c \ {home[t]} : \E x \in ToOthers(type, t, c, code) : x.node = n
         /\ \A x, y \in ToOthers(type, t, c, code) : x.node = y.node => x = y
<1>1. \A n : /\ Msg(type, t, n, code).node = n /\ Msg(type, t, n, code).type = type
             /\ Msg(type, t, n, code).txn = t /\ Msg(type, t, n, code).rc = code
  BY Zenon DEF Msg
<1>2. \A n \in c \ {home[t]} : Msg(type, t, n, code) \in ToOthers(type, t, c, code)
  BY Zenon DEF ToOthers
<1>3. \A x \in ToOthers(type, t, c, code) :
        \E n \in c \ {home[t]} : x = Msg(type, t, n, code)
  BY Zenon DEF ToOthers
<1> QED  BY <1>1, <1>2, <1>3

\* The messages F of t, one to each other node of c, are all that it has now;
\* the messages of the other transactions are as they were.
SentTo(t, c, type, code, F) ==
  /\ IsFiniteSet(F) /\ Cardinality(F) = Cardinality(c) - 1 /\ Cardinality(c) \in Nat \ {0}
  /\ \A x \in F : x.type = type /\ x.rc = code /\ x.node \in c \ {home[t]}
  /\ \A n \in c \ {home[t]} : \E x \in F : x.node = n
  /\ \A x, y \in F : x.node = y.node => x = y
  /\ InFlight(t)' = F /\ \A x \in F : net'[x] = 1

OtherMsgsKept(t) ==
  /\ net' \in [Message -> Nat]
  /\ \A u \in Txn \ {t} : /\ InFlight(u)' = InFlight(u)
                          /\ \A x \in InFlight(u) : net'[x] = net[x]

LEMMA SendToOthers ==
  ASSUME Counting, IInv, NEW t \in Txn, NEW m, NEW c, NEW hs, Alone(t, m, c, hs),
         NEW type \in MsgType, NEW code \in RC, net' = Deliver(m, ToOthers(type, t, c, code))
  PROVE  SentTo(t, c, type, code, ToOthers(type, t, c, code)) /\ OtherMsgsKept(t)
<1> DEFINE F == ToOthers(type, t, c, code)
<1>1. c \in SUBSET Node /\ home[t] \in c /\ m \in Message /\ InFlight(t) = {m}
  BY ZenonT(30) DEF Sole, Alone
<1>2. /\ F \in SUBSET Message /\ IsFiniteSet(F)
      /\ Cardinality(F) = Cardinality(c) - 1 /\ Cardinality(c) \in Nat \ {0}
  BY <1>1, OthersProps
<1>3. /\ \A x \in F : x.type = type /\ x.txn = t /\ x.rc = code /\ x.node \in c \ {home[t]}
      /\ \A n \in c \ {home[t]} : \E x \in F : x.node = n
      /\ \A x, y \in F : x.node = y.node => x = y
  BY Zenon, <1>1, OthersMsgs
<1>4. net' = Deliver(m, F)
  BY Zenon
<1> HIDE DEF F
<1>5. /\ net' \in [Message -> Nat] /\ InFlight(t)' = F /\ \A x \in F : net'[x] = 1
      /\ \A u \in Txn \ {t} : /\ InFlight(u)' = InFlight(u)
                              /\ \A x \in InFlight(u) : net'[x] = net[x]
  BY <1>1, <1>2, <1>3, <1>4, LastMessage
<1>6. SentTo(t, c, type, code, F)
  BY ZenonT(30), <1>2, <1>3, <1>5 DEF SentTo
<1>7. OtherMsgsKept(t)
  BY ZenonT(30), <1>5 DEF OtherMsgsKept
<1> QED  BY ZenonT(30), <1>6, <1>7 DEF F

\* Those messages keep the rules for messages, where what t holds is in c.
LEMMA SentMsgInv ==
  ASSUME NEW t \in Txn, NEW c, NEW type, NEW code, NEW F, SentTo(t, c, type, code, F),
         type \notin {"RTXN", "RTXN_CONT"}, partitions_touched'[t] = c,
         held'[t] \subseteq c, table'[t] \subseteq c
  PROVE  MsgInv(t)'
<1>1. /\ IsFiniteSet(F) /\ InFlight(t)' = F /\ \A x \in F : net'[x] = 1
      /\ \A x, y \in F : x.node = y.node => x = y
      /\ \A x \in F : x.type = type /\ x.node \in c \ {home[t]}
  BY ZenonT(30) DEF SentTo
<1>2. IsFiniteSet(InFlight(t)') /\ \A x \in InFlight(t)' : net'[x] = 1
  BY ZenonT(30), <1>1
<1>3. \A x, y \in InFlight(t)' : x.node = y.node => x = y
  BY ZenonT(30), <1>1
<1>4. \A x \in InFlight(t)' :
        IF x.type \in {"RTXN", "RTXN_CONT"} THEN x.node = home[t] /\ x.rc = "RCOK"
        ELSE x.node \in partitions_touched'[t] \ {home[t]}
  BY <1>1
<1> QED  BY ZenonT(30), <1>2, <1>3, <1>4 DEF MsgInv

\* The finish messages are out: every other node of c has one.
LEMMA SentFinish ==
  ASSUME NEW t \in Txn, NEW c \in SUBSET Node, NEW code, NEW F,
         SentTo(t, c, "RFIN", code, F), c # {home[t]}, home[t] \in c
  PROVE  ToFinish(t)' = c \ {home[t]} /\ F # {}
<1>1. /\ \A n \in c \ {home[t]} : \E x \in F : x.node = n
      /\ \A x \in F : x.type = "RFIN" /\ x.node \in c \ {home[t]}
      /\ InFlight(t)' = F
  BY ZenonT(30) DEF SentTo
<1>2. ToFinish(t)' = {n \in Node : \E x \in F : x.type = "RFIN" /\ x.node = n}
  BY ZenonT(30), <1>1 DEF ToFinish
<1>3. \A n \in Node : (\E x \in F : x.type = "RFIN" /\ x.node = n) <=> n \in c \ {home[t]}
  BY Zenon, <1>1
<1> QED  BY ZenonT(30), <1>1, <1>2, <1>3

\* The state of t after its home has ended the attempt with code.
Decided(t, c, hs, code) ==
  /\ partitions_touched'[t] = c /\ rsp_cnt'[t] = Cardinality(c) - 1 /\ answers'[t] = 0
  /\ aborted'[t] = (IF code = "Abort" THEN aborted[t] \cup {home[t]} ELSE aborted[t])
  /\ held'[t] = hs \ {home[t]} /\ table'[t] = table[t] \cup {home[t]}
  /\ rc'[t][home[t]] = code /\ \A n \in Node \ {home[t]} : rc'[t][n] = rc[t][n]
  /\ outcome'[t][home[t]] = (IF code = "Abort" THEN "aborted" ELSE "committed")
  /\ \A n \in Node \ {home[t]} : outcome'[t][n] = outcome[t][n]
  /\ CC_ALG' = CC_ALG /\ readonly' = readonly /\ abort_cnt' = abort_cnt

LEMMA DecideStep ==
  ASSUME IInv, NEW t \in Txn, NEW m, NEW c, NEW hs, Alone(t, m, c, hs), NEW code \in RC,
         Decide(m, t, c, hs, code), Cardinality(c) \in Nat \ {0}, OtherMsgsKept(t)
  PROVE  TypeOK' /\ Decided(t, c, hs, code)
<1>1. /\ TypeOK /\ hs \in SUBSET Node /\ c \in SUBSET Node /\ home[t] \in Node
      /\ answers[t] = 0
  BY ZenonT(30), HomeAssumption DEF IInv, Sole, Alone
<1>2. FinishCount(t, c) = Cardinality(c) - 1 /\ FinishCount(t, c) \in Nat
  BY DEF FinishCount
<1>3. TypeOK'
  <2>1. outcome' \in [Txn -> [Node -> {"none", "committed", "aborted"}]]
    BY Zenon, <1>1 DEF Decide, TypeOK
  <2>2. rc' \in [Txn -> [Node -> RC]]
    BY Zenon, <1>1 DEF Decide, TypeOK
  <2>3. /\ aborted' \in [Txn -> SUBSET Node] /\ table' \in [Txn -> SUBSET Node]
        /\ held' \in [Txn -> SUBSET Node] /\ partitions_touched' \in [Txn -> SUBSET Node]
    BY ZenonT(30), <1>1 DEF Decide, TypeOK
  <2>4. rsp_cnt' \in [Txn -> Nat]
    BY <1>1, <1>2 DEF Decide, TypeOK
  <2> QED  BY ZenonT(30), <1>1, <2>1, <2>2, <2>3, <2>4 DEF Decide, TypeOK, query, OtherMsgsKept
<1>4. Decided(t, c, hs, code)
  BY Zenon, <1>1, <1>2 DEF Decide, TypeOK, query, Decided
<1> QED  BY Zenon, <1>3, <1>4

\* What the decision code rests on: nobody has ended but the nodes that have
\* aborted, none of which may be there when the decision is to commit.
MayDecide(t, c, hs, code) ==
  /\ hs \cap aborted[t] = {}
  /\ code = "Abort" =>
       /\ CanAbort(t) /\ aborted[t] \subseteq c
       /\ \A n \in Node : outcome[t][n] = IF n \in aborted[t] THEN "aborted" ELSE "none"
       /\ \A n \in Node \ {home[t]} : rc[t][n] = "Abort" => n \in aborted[t]
  /\ code = "RCOK" =>
       /\ Acked(t) /\ aborted[t] = {}
       /\ \A n \in Node : outcome[t][n] = "none"
       /\ \A n \in Node \ {home[t]} : rc[t][n] = "RCOK"

LEMMA DecideAbort ==
  ASSUME NEW t \in Txn, NEW c, NEW hs, MayDecide(t, c, hs, "Abort"), NEW F, home[t] \in Node,
         Decided(t, c, hs, "Abort"), SentTo(t, c, "RFIN", "Abort", F), F # {},
         ToFinish(t)' = c \ {home[t]}, home[t] \in c, c \subseteq Node, hs \subseteq c,
         c \subseteq table'[t]
  PROVE  AbortPhase(t)'
<1>1. /\ InFlight(t)' # {} /\ answers'[t] = 0 /\ rsp_cnt'[t] = Cardinality(InFlight(t)')
      /\ \A x \in InFlight(t)' : x.type = "RFIN" /\ x.rc = "Abort"
  BY ZenonT(30) DEF SentTo, Decided
<1>2. CanAbort(t)'
  BY ZenonT(30) DEF CanAbort, Decided, MayDecide
<1>3. /\ partitions_touched'[t] = c /\ rc'[t][home[t]] = "Abort"
      /\ aborted'[t] = aborted[t] \cup {home[t]} /\ aborted[t] \subseteq c
      /\ held'[t] = hs \ {home[t]} /\ hs \cap aborted[t] = {}
  BY ZenonT(30) DEF Decided, MayDecide
<1>4. /\ \A n \in Node : outcome'[t][n] # "committed"
      /\ \A n \in c \ {home[t]} : outcome'[t][n] = IF n \in aborted'[t] THEN "aborted" ELSE "none"
  <2>1. /\ outcome'[t][home[t]] = "aborted"
        /\ \A n \in Node \ {home[t]} : outcome'[t][n] =
             IF n \in aborted[t] THEN "aborted" ELSE "none"
    BY ZenonT(30) DEF Decided, MayDecide
  <2> QED  BY ZenonT(30), <1>3, <2>1
<1>5. \A n \in Node \ {home[t]} : rc'[t][n] = "Abort" => n \in aborted'[t]
  BY ZenonT(30), <1>3 DEF Decided, MayDecide
<1>6. /\ aborted'[t] \subseteq (c \ {home[t]}) \cup {home[t]}
      /\ held'[t] \subseteq (c \ {home[t]}) \ aborted'[t]
  BY ZenonT(30), <1>3
<1>7. \A x \in InFlight(t)' : /\ x.type \in Finishing
                              /\ x.rc = IF x.type = "RFIN" THEN "Abort" ELSE "RCOK"
  BY <1>1 DEF Finishing
<1> QED  BY ZenonT(30), <1>1, <1>2, <1>3, <1>4, <1>5, <1>6, <1>7 DEF AbortPhase

LEMMA DecideCommit ==
  ASSUME NEW t \in Txn, NEW c, NEW hs, MayDecide(t, c, hs, "RCOK"), NEW F, home[t] \in Node,
         Decided(t, c, hs, "RCOK"), SentTo(t, c, "RFIN", "RCOK", F), F # {},
         ToFinish(t)' = c \ {home[t]}, home[t] \in c, c \subseteq Node, hs \subseteq c,
         c \subseteq table'[t], table'[t] \subseteq c
  PROVE  CommitPhase(t)'
<1>1. /\ InFlight(t)' # {} /\ answers'[t] = 0 /\ rsp_cnt'[t] = Cardinality(InFlight(t)')
      /\ \A x \in InFlight(t)' : x.type = "RFIN" /\ x.rc = "RCOK"
  BY ZenonT(30) DEF SentTo, Decided
<1>2. Acked(t)'
  BY ZenonT(30) DEF Acked, AcksReadonly, PreparesReadonly, Decided, MayDecide
<1>3. /\ partitions_touched'[t] = c /\ rc'[t][home[t]] = "RCOK" /\ aborted'[t] = {}
      /\ held'[t] = hs \ {home[t]} /\ outcome'[t][home[t]] = "committed"
      /\ \A n \in Node \ {home[t]} : outcome'[t][n] = "none" /\ rc'[t][n] = "RCOK"
  BY Zenon DEF Decided, MayDecide
<1>4. /\ \A n \in Node : rc'[t][n] = "RCOK"
      /\ \A n \in Node \ {home[t]} : outcome'[t][n] =
           IF n \in c \ (c \ {home[t]}) THEN "committed" ELSE "none"
  BY Zenon, <1>3
<1>5. /\ home[t] \notin held'[t] /\ home[t] \in table'[t] /\ c \ {home[t]} \subseteq table'[t]
      /\ held'[t] \subseteq (c \ {home[t]}) \cup {home[t]}
      /\ table'[t] \subseteq (c \ {home[t]}) \cup {home[t]}
  BY Zenon, <1>3
<1>6. \A x \in InFlight(t)' : x.type \in Finishing /\ x.rc = "RCOK"
  BY <1>1 DEF Finishing
<1> QED  BY ZenonT(30), <1>1, <1>2, <1>3, <1>4, <1>5, <1>6 DEF CommitPhase

\* The home ends the attempt here and tells the others.
LEMMA DecideInv ==
  ASSUME Counting, IInv, NEW t \in Txn, NEW m, NEW c, NEW hs, Alone(t, m, c, hs), NEW code \in RC,
         Decide(m, t, c, hs, code), c # {home[t]}, MayDecide(t, c, hs, code)
  PROVE  IInv'
<1> DEFINE F == ToOthers("RFIN", t, c, code)
<1>1. "RFIN" \in MsgType /\ net' = Deliver(m, F)
  BY Zenon DEF MsgType, Decide
<1>2. SentTo(t, c, "RFIN", code, F) /\ OtherMsgsKept(t)
  BY ZenonT(30), <1>1, SendToOthers
<1> HIDE DEF F
<1>3. Cardinality(c) \in Nat \ {0}
  BY ZenonT(30), <1>2 DEF SentTo
<1>4. TypeOK' /\ Decided(t, c, hs, code)
  BY ZenonT(30), <1>2, <1>3, DecideStep
<1>5. /\ home[t] \in c /\ c \subseteq Node /\ hs \subseteq c /\ c \ {home[t]} \subseteq table[t]
      /\ partitions_touched[t] \subseteq c /\ table[t] \subseteq partitions_touched[t]
      /\ home[t] \in Node
  BY ZenonT(30), HomeAssumption DEF Sole, Alone, IInv, TxnInv, MsgInv
<1>6. /\ partitions_touched'[t] = c /\ held'[t] \subseteq c
      /\ c \subseteq table'[t] /\ table'[t] \subseteq c
  BY Zenon, <1>4, <1>5 DEF Decided
<1>7. MsgInv(t)'
  BY <1>2, <1>6, SentMsgInv
<1>8. ToFinish(t)' = c \ {home[t]} /\ F # {}
  BY Zenon, <1>2, <1>5, SentFinish
<1>9. ASSUME code = "Abort" PROVE AbortPhase(t)'
  BY ZenonT(30), <1>2, <1>4, <1>5, <1>6, <1>8, <1>9, DecideAbort
<1>10. ASSUME code = "RCOK" PROVE CommitPhase(t)'
  BY ZenonT(30), <1>2, <1>4, <1>5, <1>6, <1>8, <1>10, DecideCommit
<1>11. TxnInv(t)'
  BY Zenon, <1>7, <1>9, <1>10 DEF RC, TxnInv
<1>12. UNCHANGED query
  BY Zenon DEF Decide
<1>13. \A u \in Txn \ {t} :
         /\ partitions_touched'[u] = partitions_touched[u] /\ rsp_cnt'[u] = rsp_cnt[u]
         /\ rc'[u] = rc[u] /\ aborted'[u] = aborted[u] /\ table'[u] = table[u]
         /\ held'[u] = held[u] /\ abort_cnt'[u] = abort_cnt[u]
         /\ answers'[u] = answers[u] /\ outcome'[u] = outcome[u]
  BY ZenonT(30) DEF Decide, IInv, TypeOK
<1> QED  BY ZenonT(30), <1>2, <1>4, <1>11, <1>12, <1>13, OthersKept DEF OtherMsgsKept

\* start_abort.
LEMMA StartAbortInv ==
  ASSUME Counting, IInv, NEW t \in Txn, NEW m, NEW c, NEW hs, Alone(t, m, c, hs),
         StartAbort(m, t, c, hs), hs \cap aborted[t] = {},
         aborted[t] \subseteq c \ {home[t]},
         \A n \in Node : outcome[t][n] = IF n \in aborted[t] THEN "aborted" ELSE "none",
         \A n \in Node \ {home[t]} : rc[t][n] = "Abort" => n \in aborted[t]
  PROVE  IInv'
<1>1. c \in SUBSET Node /\ home[t] \in c /\ "RFIN" \in MsgType /\ "RCOK" \in RC /\ "Abort" \in RC
  BY Zenon DEF Sole, Alone, MsgType, RC
<1>2. Cardinality(c) > 1 <=> c # {home[t]}
  BY Zenon, <1>1, OthersProps
<1>3. CASE c # {home[t]}
  <2>1. CanAbort(t) /\ Decide(m, t, c, hs, "Abort")
    BY Zenon, <1>2, <1>3 DEF StartAbort
  <2>2. aborted[t] \subseteq c
    BY Zenon
  <2>3. MayDecide(t, c, hs, "Abort")
    BY ZenonT(30), <2>1, <2>2 DEF MayDecide
  <2> QED  BY ZenonT(30), <1>1, <1>3, <2>1, <2>3, DecideInv
<1>4. CASE c = {home[t]}
  <2>1. CanAbort(t) /\ AbortQueue(m, t, c, hs \ {home[t]})
    BY Zenon, <1>2, <1>4 DEF StartAbort
  <2>2. hs \ {home[t]} = {} /\ Alone(t, m, c, {})
    BY Zenon, <1>4 DEF Sole, Alone
  <2>3. AbortQueue(m, t, c, {})
    BY Zenon, <2>1, <2>2
  <2>4. rc[t] \in [Node -> RC]
    BY Zenon DEF IInv, TypeOK
  <2>5. \A n \in Node \ {home[t]} : rc[t][n] = "RCOK"
    BY Zenon, <1>4, <2>4 DEF RC
  <2>6. aborted[t] \subseteq {home[t]}
    BY Zenon, <1>4
  <2> QED  BY Zenon, <2>1, <2>2, <2>3, <2>5, <2>6, AbortQueueInv
<1> QED  BY Zenon, <1>3, <1>4

\* send_prepare_messages, or send_finish_messages where there is no vote.
Prepares(t, m, c, hs, votes) ==
  /\ rsp_cnt' = [rsp_cnt EXCEPT ![t] = IF votes THEN Cardinality(c) - 1 ELSE 0]
  /\ net' = Deliver(m, ToOthers(IF votes THEN "RPREPARE" ELSE "RFIN", t, c, "RCOK"))
  /\ held' = [held EXCEPT ![t] = hs]
  /\ partitions_touched' = [partitions_touched EXCEPT ![t] = c]
  /\ table' = [table EXCEPT ![t] = @ \cup {home[t]}]
  /\ UNCHANGED <<query, next_record_id, rc, aborted, abort_cnt, waits, answers, outcome>>

\* The state of t after that.
Prepared(t, c, hs, votes) ==
  /\ partitions_touched'[t] = c /\ rsp_cnt'[t] = (IF votes THEN Cardinality(c) - 1 ELSE 0)
  /\ answers'[t] = 0 /\ aborted'[t] = {} /\ held'[t] = hs
  /\ table'[t] = table[t] \cup {home[t]}
  /\ \A n \in Node : rc'[t][n] = "RCOK" /\ outcome'[t][n] = "none"
  /\ CC_ALG' = CC_ALG /\ readonly' = readonly

LEMMA PrepareStep ==
  ASSUME IInv, NEW t \in Txn, NEW m, NEW c, NEW hs, Alone(t, m, c, hs), Clean(t),
         NEW votes \in BOOLEAN, Prepares(t, m, c, hs, votes),
         Cardinality(c) \in Nat \ {0}, OtherMsgsKept(t)
  PROVE  TypeOK' /\ Prepared(t, c, hs, votes)
<1>1. /\ TypeOK /\ hs \in SUBSET Node /\ c \in SUBSET Node /\ home[t] \in Node
      /\ answers[t] = 0
  BY ZenonT(30), HomeAssumption DEF IInv, Sole, Alone
<1>2. TypeOK'
  <2>1. /\ table' \in [Txn -> SUBSET Node]
        /\ held' \in [Txn -> SUBSET Node] /\ partitions_touched' \in [Txn -> SUBSET Node]
    BY Zenon, <1>1 DEF Prepares, TypeOK
  <2>2. rsp_cnt' \in [Txn -> Nat]
    <3>1. (IF votes THEN Cardinality(c) - 1 ELSE 0) \in Nat
      OBVIOUS
    <3>2. /\ rsp_cnt \in [Txn -> Nat]
          /\ rsp_cnt' = [rsp_cnt EXCEPT ![t] = IF votes THEN Cardinality(c) - 1 ELSE 0]
      BY ZenonT(30), <1>1 DEF Prepares, TypeOK
    <3> QED  BY ZenonT(30), <3>1, <3>2
  <2> QED  BY ZenonT(30), <1>1, <2>1, <2>2 DEF Prepares, TypeOK, query, OtherMsgsKept
<1>3. Prepared(t, c, hs, votes)
  BY Zenon, <1>1 DEF Prepares, Prepared, TypeOK, query, Clean
<1> QED  BY Zenon, <1>2, <1>3

LEMMA PrepareVote ==
  ASSUME NEW t \in Txn, NEW c, NEW hs, NEW F, Prepared(t, c, hs, TRUE), Acked(t),
         SentTo(t, c, "RPREPARE", "RCOK", F), F # {}, home[t] \in Node,
         home[t] \in c, c \subseteq table'[t]
  PROVE  VotePhase(t)'
<1>1. /\ InFlight(t)' # {} /\ answers'[t] = 0 /\ rsp_cnt'[t] = Cardinality(InFlight(t)')
      /\ \A x \in InFlight(t)' : x.type = "RPREPARE" /\ x.rc = "RCOK"
  BY ZenonT(30) DEF SentTo, Prepared
<1>2. Acked(t)'
  BY ZenonT(30) DEF Acked, AcksReadonly, PreparesReadonly, Prepared
<1>3. /\ partitions_touched'[t] = c /\ aborted'[t] = {}
      /\ \A n \in Node : rc'[t][n] = "RCOK" /\ outcome'[t][n] = "none"
  BY ZenonT(30) DEF Prepared
<1>4. \A x \in InFlight(t)' : x.type \in Voting /\ x.rc # "Abort"
  BY Zenon, <1>1 DEF Voting
<1>5. /\ held'[t] \cap aborted'[t] = {} /\ home[t] \notin aborted'[t]
      /\ aborted'[t] \subseteq c /\ rc'[t][home[t]] # "Abort"
      /\ \A n \in Node : outcome'[t][n] = IF n \in aborted'[t] THEN "aborted" ELSE "none"
      /\ \A n \in Node \ {home[t]} : rc'[t][n] = IF n \in aborted'[t] THEN "Abort" ELSE "RCOK"
  BY <1>3
<1> QED  BY ZenonT(30), <1>1, <1>2, <1>3, <1>4, <1>5 DEF VotePhase

LEMMA PrepareCommit ==
  ASSUME NEW t \in Txn, NEW c, NEW hs, NEW F, Prepared(t, c, hs, FALSE), ~ Acked(t),
         SentTo(t, c, "RFIN", "RCOK", F), ToFinish(t)' = c \ {home[t]}, home[t] \in Node,
         home[t] \in c, c \subseteq table'[t], table'[t] \subseteq c, hs \subseteq c
  PROVE  CommitPhase(t)'
<1>1. /\ answers'[t] = 0 /\ rsp_cnt'[t] = 0
      /\ \A x \in InFlight(t)' : x.type = "RFIN" /\ x.rc = "RCOK"
  BY ZenonT(30) DEF SentTo, Prepared
<1>2. ~ Acked(t)'
  BY ZenonT(30) DEF Acked, AcksReadonly, PreparesReadonly, Prepared
<1>3. /\ partitions_touched'[t] = c /\ aborted'[t] = {} /\ held'[t] = hs
      /\ \A n \in Node : rc'[t][n] = "RCOK" /\ outcome'[t][n] = "none"
  BY ZenonT(30) DEF Prepared
<1>4. \A x \in InFlight(t)' : x.type \in Finishing /\ x.rc = "RCOK"
  BY Zenon, <1>1 DEF Finishing
<1>5. /\ home[t] \in table'[t] /\ c \ {home[t]} \subseteq table'[t]
      /\ held'[t] \subseteq (c \ {home[t]}) \cup {home[t]}
      /\ table'[t] \subseteq (c \ {home[t]}) \cup {home[t]}
      /\ \A n \in Node \ {home[t]} : outcome'[t][n] =
           IF n \in c \ (c \ {home[t]}) THEN "committed" ELSE "none"
  BY <1>3
<1> QED  BY ZenonT(30), <1>1, <1>2, <1>3, <1>4, <1>5 DEF CommitPhase

LEMMA PrepareInv ==
  ASSUME Counting, IInv, NEW t \in Txn, NEW m, NEW c, NEW hs, Alone(t, m, c, hs), Clean(t),
         c # {home[t]}, NEW votes \in BOOLEAN, votes <=> Acked(t), Prepares(t, m, c, hs, votes)
  PROVE  IInv'
<1> DEFINE type == IF votes THEN "RPREPARE" ELSE "RFIN"
           F    == ToOthers(type, t, c, "RCOK")
<1>1. type \in MsgType /\ "RCOK" \in RC /\ net' = Deliver(m, F) /\ type \notin {"RTXN", "RTXN_CONT"}
  BY Zenon DEF MsgType, RC, Prepares
<1>2. /\ votes => type = "RPREPARE"
      /\ ~ votes => type = "RFIN"
  BY Zenon
<1> HIDE DEF type
<1>3. SentTo(t, c, type, "RCOK", F) /\ OtherMsgsKept(t)
  BY ZenonT(30), <1>1, SendToOthers
<1> HIDE DEF F
<1>4. Cardinality(c) \in Nat \ {0}
  BY ZenonT(30), <1>3 DEF SentTo
<1>5. TypeOK' /\ Prepared(t, c, hs, votes)
  BY ZenonT(30), <1>3, <1>4, PrepareStep
<1>6. /\ home[t] \in c /\ c \subseteq Node /\ hs \subseteq c /\ c \ {home[t]} \subseteq table[t]
      /\ partitions_touched[t] \subseteq c /\ table[t] \subseteq partitions_touched[t]
      /\ home[t] \in Node
  BY ZenonT(30), HomeAssumption DEF Sole, Alone, IInv, TxnInv, MsgInv
<1>7. /\ partitions_touched'[t] = c /\ held'[t] \subseteq c
      /\ c \subseteq table'[t] /\ table'[t] \subseteq c
  BY ZenonT(30), <1>5, <1>6 DEF Prepared
<1>8. MsgInv(t)'
  BY ZenonT(30), <1>1, <1>3, <1>7, SentMsgInv
<1>9. F # {}
  BY ZenonT(30), <1>3, <1>6 DEF SentTo
<1>10. ASSUME votes PROVE TxnInv(t)'
  <2>1. Prepared(t, c, hs, TRUE) /\ SentTo(t, c, "RPREPARE", "RCOK", F) /\ Acked(t)
    BY ZenonT(30), <1>2, <1>3, <1>5, <1>10
  <2>2. VotePhase(t)'
    BY ZenonT(30), <1>6, <1>7, <1>9, <2>1, PrepareVote
  <2> QED  BY ZenonT(30), <1>8, <2>2 DEF TxnInv
<1>11. ASSUME ~ votes PROVE TxnInv(t)'
  <2>1. Prepared(t, c, hs, FALSE) /\ SentTo(t, c, "RFIN", "RCOK", F) /\ ~ Acked(t)
    BY ZenonT(30), <1>2, <1>3, <1>5, <1>11
  <2>2. ToFinish(t)' = c \ {home[t]}
    BY Zenon, <1>6, <2>1, SentFinish
  <2>3. CommitPhase(t)'
    BY ZenonT(30), <1>6, <1>7, <2>1, <2>2, PrepareCommit
  <2> QED  BY ZenonT(30), <1>8, <2>3 DEF TxnInv
<1>12. UNCHANGED query
  BY Zenon DEF Prepares
<1>13. \A u \in Txn \ {t} :
         /\ partitions_touched'[u] = partitions_touched[u] /\ rsp_cnt'[u] = rsp_cnt[u]
         /\ rc'[u] = rc[u] /\ aborted'[u] = aborted[u] /\ table'[u] = table[u]
         /\ held'[u] = held[u] /\ abort_cnt'[u] = abort_cnt[u]
         /\ answers'[u] = answers[u] /\ outcome'[u] = outcome[u]
  BY ZenonT(30) DEF Prepares, IInv, TypeOK
<1> QED  BY ZenonT(30), <1>3, <1>5, <1>10, <1>11, <1>12, <1>13, OthersKept DEF OtherMsgsKept

\* start_commit.
LEMMA StartCommitInv ==
  ASSUME Counting, IInv, NEW t \in Txn, NEW m, NEW c, NEW hs, Alone(t, m, c, hs), Clean(t),
         StartCommit(m, t, c, hs)
  PROVE  IInv'
<1> DEFINE multi == Cardinality(c) > 1
           votes == CC_ALG = "TICTOC" \/ ~ readonly[t] \/ PreparesReadonly
<1>1. c \in SUBSET Node /\ home[t] \in c /\ "RFIN" \in MsgType /\ "RCOK" \in RC
  BY Zenon DEF Sole, Alone, MsgType, RC
<1>2. multi <=> c # {home[t]}
  BY Zenon, <1>1, OthersProps
<1>3. readonly[t] \in BOOLEAN /\ (votes <=> Acked(t))
  BY Zenon DEF IInv, TypeOK, Acked, AcksReadonly
<1>4. Alone(t, m, c, hs \ {home[t]})
  BY Zenon DEF Sole, Alone
<1>5. CASE multi /\ Prepares(t, m, c, hs, votes)
  <2>1. votes \in BOOLEAN
    BY Zenon DEF PreparesReadonly
  <2> HIDE DEF votes
  <2> QED  BY ZenonT(30), <1>2, <1>3, <1>5, <2>1, PrepareInv
<1>6. CASE multi /\ CC_ALG = "TICTOC" /\ CanAbort(t) /\ AbortQueue(m, t, c, hs \ {home[t]})
  <2>1. aborted[t] \subseteq {home[t]} /\ \A n \in Node \ {home[t]} : rc[t][n] = "RCOK"
    BY Zenon DEF Clean
  <2> QED  BY ZenonT(30), <1>4, <1>6, <2>1, AbortQueueInv
<1>7. CASE ~ multi /\ Answer(m, t, c, hs \ {home[t]})
  <2>1. c = {home[t]} /\ hs \ {home[t]} = {} /\ c \ {home[t]} = {}
    BY Zenon, <1>2, <1>7 DEF Sole, Alone
  <2>2. table[t] \subseteq {home[t]}
    BY ZenonT(30), <2>1 DEF Sole, Alone, IInv, TxnInv, MsgInv
  <2>3. \A n \in Node : outcome[t][n] # "aborted"
    BY Zenon DEF Clean
  <2> QED  BY ZenonT(30), <1>4, <1>7, <2>1, <2>2, <2>3, AnswerInv DEF Alone
<1>8. CASE ~ multi /\ StartAbort(m, t, c, hs)
  <2>1. /\ hs \cap aborted[t] = {} /\ aborted[t] \subseteq c \ {home[t]}
        /\ \A n \in Node : outcome[t][n] = IF n \in aborted[t] THEN "aborted" ELSE "none"
        /\ \A n \in Node \ {home[t]} : rc[t][n] = "Abort" => n \in aborted[t]
    BY DEF Clean
  <2> QED  BY ZenonT(30), <1>8, <2>1, StartAbortInv
<1> QED  BY ZenonT(30), <1>5, <1>6, <1>7, <1>8 DEF StartCommit, Prepares

\* The home goes on executing: it has asked another node, or waits for a row.
GoesOn(t, m, c, hs, r) ==
  /\ rsp_cnt[t] = 0 /\ r \in Message /\ r.txn = t
  /\ \/ r.type = "RTXN_CONT" /\ r.node = home[t] /\ r.rc = "RCOK"
     \/ r.type = "RQRY" /\ r.node \in Node \ {home[t]}
  /\ net' = Deliver(m, {r})
  /\ next_record_id' \in [Txn -> Nat \ {0}] /\ waits' \in [Txn -> 0..MaxWaits]
  /\ held' = [held EXCEPT ![t] = hs]
  /\ partitions_touched' = [partitions_touched EXCEPT ![t] = c \cup {r.node}]
  /\ table' = [table EXCEPT ![t] = @ \cup {home[t]}]
  /\ UNCHANGED <<query, rsp_cnt, rc, aborted, abort_cnt, answers, outcome>>

LEMMA GoOnInv ==
  ASSUME Counting, IInv, NEW t \in Txn, NEW m, NEW c, NEW hs, Alone(t, m, c, hs), Clean(t),
         NEW r, GoesOn(t, m, c, hs, r)
  PROVE  IInv'
<1> DEFINE h == home[t]
           d == c \cup {r.node}
<1>0. /\ h \in Node /\ c \in SUBSET Node /\ h \in c /\ r.node \in Node
      /\ d \in SUBSET Node
  BY Zenon, HomeAssumption DEF Sole, Alone, GoesOn
<1>1. m \in Message /\ InFlight(t) = {m} /\ r \in Message /\ r.txn = t /\ net' = Deliver(m, {r})
  BY Zenon DEF Sole, Alone, GoesOn
<1>5. /\ net' \in [Message -> Nat] /\ InFlight(t)' = {r} /\ net'[r] = 1
      /\ \A u \in Txn \ {t} : /\ InFlight(u)' = InFlight(u)
                              /\ \A x \in InFlight(u) : net'[x] = net[x]
  BY ZenonT(30), <1>1, LastMessageOne
<1>6. TypeOK'
  <2>1. TypeOK /\ hs \in SUBSET Node
    BY Zenon, <1>0 DEF IInv, Sole, Alone
  <2>2. /\ table' \in [Txn -> SUBSET Node]
        /\ held' \in [Txn -> SUBSET Node] /\ partitions_touched' \in [Txn -> SUBSET Node]
    BY ZenonT(30), <1>0, <2>1 DEF TypeOK, GoesOn
  <2> QED  BY ZenonT(30), <1>5, <2>1, <2>2 DEF TypeOK, query, GoesOn
<1>7. /\ partitions_touched'[t] = d /\ rsp_cnt'[t] = 0
      /\ answers'[t] = 0 /\ aborted'[t] = {} /\ held'[t] = hs
      /\ table'[t] = table[t] \cup {h}
      /\ \A n \in Node : rc'[t][n] = "RCOK" /\ outcome'[t][n] = "none"
      /\ CC_ALG' = CC_ALG /\ readonly' = readonly
  BY ZenonT(30), <1>0 DEF IInv, TypeOK, query, Sole, Alone, Clean, GoesOn
<1>8. MsgInv(t)'
  <2>1. held'[t] \subseteq d /\ table'[t] \subseteq d
    BY ZenonT(30), <1>0, <1>7 DEF Sole, Alone, IInv, TxnInv, MsgInv
  <2>2. IsFiniteSet({r})
    BY Zenon DEF Counting, OneCount
  <2>3. IF r.type \in {"RTXN", "RTXN_CONT"} THEN r.node = h /\ r.rc = "RCOK"
        ELSE r.node \in d \ {h}
    BY <1>0 DEF GoesOn
  <2> QED  BY ZenonT(30), <1>5, <1>7, <2>1, <2>2, <2>3 DEF MsgInv
<1>9. ~ Fails(r) /\ r.type \in Executing /\ r.type # "RTXN"
  BY Zenon DEF Fails, Executing, GoesOn
<1>10. \A n \in d \ {h} : n \in table'[t] \/ (r.type = "RQRY" /\ n = r.node)
  BY Zenon, <1>0, <1>7 DEF Sole, Alone, GoesOn
<1>11. ExecPhase(t)'
  BY ZenonT(30), <1>1, <1>5, <1>7, <1>9, <1>10 DEF ExecPhase
<1>13. TxnInv(t)'
  BY Zenon, <1>8, <1>11 DEF TxnInv
<1>14. \A u \in Txn \ {t} :
         /\ partitions_touched'[u] = partitions_touched[u] /\ rsp_cnt'[u] = rsp_cnt[u]
         /\ rc'[u] = rc[u] /\ aborted'[u] = aborted[u] /\ table'[u] = table[u]
         /\ held'[u] = held[u] /\ abort_cnt'[u] = abort_cnt[u]
         /\ answers'[u] = answers[u] /\ outcome'[u] = outcome[u]
         /\ InFlight(u)' = InFlight(u) /\ \A x \in InFlight(u) : net'[x] = net[x]
  BY ZenonT(30), <1>5 DEF IInv, TypeOK, GoesOn
<1>15. UNCHANGED query
  BY ZenonT(30) DEF GoesOn
<1> QED  BY ZenonT(30), <1>6, <1>13, <1>14, <1>15, OthersKept

\* run_txn at the home: the next record is at another node.
LEMMA AskNext ==
  ASSUME Counting, IInv, NEW t \in Txn, NEW m, NEW c, NEW hs, Alone(t, m, c, hs), Clean(t),
         NEW n \in Node \ {home[t]}, NEW j \in Nat \ {0}, rsp_cnt[t] = 0,
         net' = Deliver(m, {Msg("RQRY", t, n, "RCOK")}),
         next_record_id' = [next_record_id EXCEPT ![t] = j],
         partitions_touched' = [partitions_touched EXCEPT ![t] = c \cup {n}],
         held' = [held EXCEPT ![t] = hs], table' = [table EXCEPT ![t] = @ \cup {home[t]}],
         UNCHANGED <<query, rsp_cnt, rc, aborted, abort_cnt, waits, answers, outcome>>
  PROVE  IInv'
<1> DEFINE r == Msg("RQRY", t, n, "RCOK")
<1>1. r \in Message /\ r.txn = t /\ r.type = "RQRY" /\ r.node = n
  BY ZenonT(30) DEF Msg, Message, MsgType, RC
<1>2. next_record_id' \in [Txn -> Nat \ {0}] /\ waits' \in [Txn -> 0..MaxWaits]
  BY Zenon DEF IInv, TypeOK
<1>3. net' = Deliver(m, {r})
  BY Zenon
<1> HIDE DEF r
<1>4. GoesOn(t, m, c, hs, r)
  BY ZenonT(30), <1>1, <1>2, <1>3 DEF GoesOn
<1> QED  BY ZenonT(30), <1>4, GoOnInv

\* run_txn at the home: a row is not to be had yet.
LEMMA WaitHere ==
  ASSUME Counting, IInv, NEW t \in Txn, NEW m, NEW c, NEW hs, Alone(t, m, c, hs), Clean(t),
         NEW j \in Nat \ {0}, rsp_cnt[t] = 0, CanWait(t),
         net' = Deliver(m, {Msg("RTXN_CONT", t, home[t], "RCOK")}),
         next_record_id' = [next_record_id EXCEPT ![t] = j],
         waits' = [waits EXCEPT ![t] = @ + 1],
         partitions_touched' = [partitions_touched EXCEPT ![t] = c],
         held' = [held EXCEPT ![t] = hs], table' = [table EXCEPT ![t] = @ \cup {home[t]}],
         UNCHANGED <<query, rsp_cnt, rc, aborted, abort_cnt, answers, outcome>>
  PROVE  IInv'
<1> DEFINE r == Msg("RTXN_CONT", t, home[t], "RCOK")
<1>0. home[t] \in Node /\ home[t] \in c
  BY Zenon, HomeAssumption DEF Sole, Alone
<1>1. /\ r \in Message /\ r.txn = t /\ r.type = "RTXN_CONT" /\ r.node = home[t] /\ r.rc = "RCOK"
  BY ZenonT(30), <1>0 DEF Msg, Message, MsgType, RC
<1>2. next_record_id' \in [Txn -> Nat \ {0}]
  BY Zenon DEF IInv, TypeOK
<1>3. waits' \in [Txn -> 0..MaxWaits]
  <2>1. waits[t] \in 0..MaxWaits /\ waits[t] < MaxWaits /\ MaxWaits \in Nat
    BY Zenon, BoundAssumption DEF IInv, TypeOK, CanWait
  <2>2. waits[t] + 1 \in 0..MaxWaits
    BY <2>1
  <2> QED  BY Zenon, <2>2 DEF IInv, TypeOK
<1>4. net' = Deliver(m, {r})
  BY ZenonT(30)
<1>5. c = c \cup {r.node}
  BY ZenonT(30), <1>0, <1>1
<1> HIDE DEF r
<1>6. partitions_touched' = [partitions_touched EXCEPT ![t] = c \cup {r.node}]
  BY ZenonT(30), <1>5
<1>7. GoesOn(t, m, c, hs, r)
  BY ZenonT(30), <1>1, <1>2, <1>3, <1>4, <1>6 DEF GoesOn
<1> QED  BY ZenonT(30), <1>7, GoOnInv

\* run_txn at the home.
LEMMA RunTxnInv ==
  ASSUME Counting, IInv, NEW t \in Txn, NEW m, NEW hs, NEW p \in Nat \ {0},
         Alone(t, m, partitions_touched[t] \cup {home[t]}, hs), Clean(t),
         rsp_cnt[t] = 0, RunTxn(m, t, p, hs)
  PROVE  IInv'
<1> DEFINE h == home[t]
           q == FirstRemote(t, p)
           c == partitions_touched[t] \cup {h}
           after(j) == IF j > p THEN hs \cup {h} ELSE hs
<1>1. prog[t] \in Seq(Node)
  BY Zenon, QueryAssumption DEF IInv, TypeOK
<1>2. q \in Nat \ {0} /\ (q <= Len(prog[t]) => prog[t][q] \in Node \ {h})
  BY ZenonT(30), <1>1, FirstRemoteProps
<1> HIDE DEF q
<1>3. \A j : Alone(t, m, c, after(j))
  BY ZenonT(30) DEF Sole, Alone
<1> HIDE DEF after, c
<1>4. CASE /\ q <= Len(prog[t])
           /\ net' = Deliver(m, {Msg("RQRY", t, prog[t][q], "RCOK")})
           /\ next_record_id' = [next_record_id EXCEPT ![t] = q + 1]
           /\ partitions_touched' = [partitions_touched EXCEPT ![t] = c \cup {prog[t][q]}]
           /\ held' = [held EXCEPT ![t] = after(q)]
           /\ table' = [table EXCEPT ![t] = @ \cup {h}]
           /\ UNCHANGED <<query, rsp_cnt, rc, aborted, abort_cnt, waits, answers, outcome>>
  <2>1. q + 1 \in Nat \ {0} /\ prog[t][q] \in Node \ {h}
    BY ZenonT(30), <1>2, <1>4, RecordNumbers
  <2> QED  BY ZenonT(30), <1>3, <1>4, <2>1, AskNext
<1>5. CASE q > Len(prog[t]) /\ StartCommit(m, t, c, after(q))
  BY ZenonT(30), <1>3, <1>5, StartCommitInv
<1>6. CASE /\ CanWait(t)
           /\ \E j \in p..(q - 1) :
                /\ next_record_id' = [next_record_id EXCEPT ![t] = j]
                /\ held' = [held EXCEPT ![t] = after(j)]
           /\ waits' = [waits EXCEPT ![t] = @ + 1]
           /\ net' = Deliver(m, {Msg("RTXN_CONT", t, h, "RCOK")})
           /\ partitions_touched' = [partitions_touched EXCEPT ![t] = c]
           /\ table' = [table EXCEPT ![t] = @ \cup {h}]
           /\ UNCHANGED <<query, rsp_cnt, rc, aborted, abort_cnt, answers, outcome>>
  <2>1. PICK j \in p..(q - 1) : /\ next_record_id' = [next_record_id EXCEPT ![t] = j]
                                /\ held' = [held EXCEPT ![t] = after(j)]
    BY ZenonT(30), <1>6
  <2>2. j \in Nat \ {0}
    BY ZenonT(30), <1>2, <2>1, RecordNumbers
  <2> QED  BY ZenonT(30), <1>3, <1>6, <2>1, <2>2, WaitHere
<1>7. CASE \E j \in p..(q - 1) : StartAbort(m, t, c, after(j))
  <2>1. PICK j \in p..(q - 1) : StartAbort(m, t, c, after(j))
    BY ZenonT(30), <1>7
  <2>2. /\ after(j) \cap aborted[t] = {} /\ aborted[t] \subseteq c \ {home[t]}
        /\ \A n \in Node : outcome[t][n] = IF n \in aborted[t] THEN "aborted" ELSE "none"
        /\ \A n \in Node \ {home[t]} : rc[t][n] = "Abort" => n \in aborted[t]
    BY DEF Clean
  <2> QED  BY ZenonT(30), <1>3, <2>1, <2>2, StartAbortInv
<1> QED  BY ZenonT(30), <1>4, <1>5, <1>6, <1>7 DEF RunTxn, q, c, after

\* The messages that t has after a step, F, are one a node.
OnePerNode(t, F) ==
  /\ InFlight(t)' = F /\ IsFiniteSet(F)
  /\ \A x \in F : net'[x] = 1
  /\ \A x, y \in F : x.node = y.node => x = y

\* A handler that consumes m, one of the messages of t, and sends none.
LEMMA DropMessage ==
  ASSUME Counting, IInv, NEW t \in Txn, NEW m \in InFlight(t), net' = Deliver(m, {})
  PROVE  /\ net' \in [Message -> Nat]
         /\ OnePerNode(t, InFlight(t) \ {m})
         /\ Cardinality(InFlight(t) \ {m}) = Cardinality(InFlight(t)) - 1
         /\ Cardinality(InFlight(t)) \in Nat \ {0}
         /\ \A u \in Txn \ {t} : /\ InFlight(u)' = InFlight(u)
                                 /\ \A x \in InFlight(u) : net'[x] = net[x]
<1>1. /\ net \in [Message -> Nat] /\ IsFiniteSet(InFlight(t))
      /\ \A x \in InFlight(t) : net[x] = 1
      /\ \A x, y \in InFlight(t) : x.node = y.node => x = y
  BY ZenonT(30) DEF IInv, TypeOK, TxnInv, MsgInv
<1>2. /\ net' \in [Message -> Nat]
      /\ InFlight(t)' = (InFlight(t) \ {m}) \cup {}
      /\ \A x \in InFlight(t)' : net'[x] = 1
      /\ \A u \in Txn \ {t} : /\ InFlight(u)' = InFlight(u)
                              /\ \A x \in InFlight(u) : net'[x] = net[x]
  BY <1>1, DeliverProps
<1>3. InFlight(t)' = InFlight(t) \ {m}
  BY Zenon, <1>2
<1>4. /\ IsFiniteSet(InFlight(t) \ {m})
      /\ Cardinality(InFlight(t) \ {m}) = Cardinality(InFlight(t)) - 1
  BY ZenonT(30), <1>1 DEF Counting, RemoveCount
<1>5. Cardinality(InFlight(t)) \in Nat /\ Cardinality(InFlight(t) \ {m}) \in Nat
  BY Zenon, <1>1, <1>4 DEF Counting, SizeCount
<1>6. OnePerNode(t, InFlight(t) \ {m})
  BY ZenonT(30), <1>1, <1>2, <1>3, <1>4 DEF OnePerNode
<1> QED  BY <1>2, <1>4, <1>5, <1>6

\* A handler that consumes m and sends r, from or to the same node.
LEMMA ReplaceMessage ==
  ASSUME Counting, IInv, NEW t \in Txn, NEW m \in InFlight(t), NEW r \in Message, r.txn = t,
         r.node = m.node, r # m, net' = Deliver(m, {r})
  PROVE  /\ net' \in [Message -> Nat]
         /\ OnePerNode(t, (InFlight(t) \ {m}) \cup {r})
         /\ Cardinality((InFlight(t) \ {m}) \cup {r}) = Cardinality(InFlight(t))
         /\ \A u \in Txn \ {t} : /\ InFlight(u)' = InFlight(u)
                                 /\ \A x \in InFlight(u) : net'[x] = net[x]
<1> DEFINE F == InFlight(t)
           G == (F \ {m}) \cup {r}
<1>1. /\ net \in [Message -> Nat] /\ IsFiniteSet(F)
      /\ \A x \in F : net[x] = 1
      /\ \A x, y \in F : x.node = y.node => x = y
  BY ZenonT(30) DEF IInv, TypeOK, TxnInv, MsgInv
<1>2. m \in Message /\ m.txn = t /\ r \notin F
  BY Zenon, <1>1 DEF InFlight
<1>3. \A x \in Message : net'[x] = net[x] - (IF x = m THEN 1 ELSE 0)
                                          + (IF x = r THEN 1 ELSE 0)
  BY Zenon DEF Deliver
<1>4. \A x \in Message :
        /\ net'[x] \in Nat
        /\ x.txn = t => net'[x] = (IF x \in G THEN 1 ELSE 0)
        /\ x.txn # t => net'[x] = net[x]
  <2> TAKE x \in Message
  <2>0. /\ net[x] \in Nat /\ (x \in F => net[x] = 1)
        /\ x.txn = t /\ x \notin F => ~ (net[x] > 0)
    BY Zenon, <1>1 DEF InFlight
  <2>1. net'[x] = net[x] - (IF x = m THEN 1 ELSE 0) + (IF x = r THEN 1 ELSE 0)
    BY Zenon, <1>3
  <2>2. CASE x = m
    <3>1. net[x] = 1 /\ x # r /\ x.txn = t /\ x \notin G
      BY Zenon, <1>2, <2>0, <2>2
    <3>2. net'[x] = 0 /\ net'[x] \in Nat
      BY <2>1, <2>2, <3>1
    <3> QED  BY Zenon, <3>1, <3>2
  <2>3. CASE x = r
    <3>1. x.txn = t /\ x \in G
      BY Zenon, <2>3
    <3>2. x # m /\ ~ (net[x] > 0) /\ net[x] \in Nat
      BY Zenon, <1>2, <2>0, <2>3
    <3>3. net'[x] = net[x] - 0 + 1
      BY Zenon, <2>1, <2>3, <3>2
    <3>4. net'[x] = 1 /\ net'[x] \in Nat
      BY <3>2, <3>3
    <3> QED  BY Zenon, <3>1, <3>4
  <2>4. CASE x # m /\ x # r
    <3>1. net'[x] = net[x] /\ (x \in G <=> x \in F)
      BY <2>0, <2>1, <2>4
    <3>2. x.txn = t /\ x \notin F => net[x] = 0
      BY <2>0
    <3> HIDE DEF F, G
    <3> QED  BY ZenonT(30), <2>0, <3>1, <3>2
  <2> QED  BY ZenonT(30), <2>2, <2>3, <2>4
<1>5. net' \in [Message -> Nat]
  BY Zenon, <1>4 DEF Deliver
<1>6. InFlight(t)' = G
  <2>1. InFlight(t)' = {x \in Message : x.txn = t /\ net'[x] > 0}
    BY Zenon DEF InFlight
  <2>2. \A x \in G : x \in Message /\ x.txn = t
    BY Zenon DEF InFlight
  <2>3. \A x \in Message : x.txn = t => (net'[x] > 0 <=> x \in G)
    BY <1>4
  <2> QED  BY ZenonT(30), <2>1, <2>2, <2>3
<1>7. \A x \in G : net'[x] = 1
  BY Zenon, <1>4 DEF InFlight
<1>8. \A x, y \in G : x.node = y.node => x = y
  BY ZenonT(30), <1>1
<1>9. /\ IsFiniteSet(F \ {m}) /\ Cardinality(F \ {m}) = Cardinality(F) - 1
      /\ Cardinality(F) \in Nat
  BY Zenon, <1>1 DEF Counting, RemoveCount, SizeCount
<1>10. IsFiniteSet(G) /\ Cardinality(G) = Cardinality(F \ {m}) + 1
  <2>1. r \notin F \ {m}
    BY <1>2
  <2> QED  BY ZenonT(30), <1>9, <2>1 DEF Counting, AddCount
<1>11. Cardinality(G) = Cardinality(F)
  BY <1>9, <1>10
<1>12. \A u \in Txn \ {t} : /\ InFlight(u)' = InFlight(u)
                            /\ \A x \in InFlight(u) : net'[x] = net[x]
  BY ZenonT(30), <1>4 DEF InFlight
<1>13. OnePerNode(t, G)
  BY ZenonT(30), <1>6, <1>7, <1>8, <1>10 DEF OnePerNode
<1> QED  BY ZenonT(30), <1>5, <1>11, <1>12, <1>13
=============================================================================
