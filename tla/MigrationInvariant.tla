--------------------------- MODULE MigrationInvariant ------------------------
(***************************************************************************)
(* The safety of the migration, for every number of servers, of            *)
(* mini-partitions and of rows, every set of transactions and every size   *)
(* of a RECV_MIGRATION message.                                            *)
(*                                                                         *)
(* The argument: the migration hands on one token.  It is the message that *)
(* asks for the next step of the protocol, a SEND_MIGRATION, the last      *)
(* RECV_MIGRATION of a mini-partition or a FINISH_MIGRATION, or the loop   *)
(* of process_send_migration itself.  There is at most one, it carries the *)
(* number of the mini-partition that is being moved, and what the maps say *)
(* and what has arrived is known on either side of that number.            *)
(***************************************************************************)
EXTENDS Migration, TLAPS

Maps == {"SET_MINIPARTMAP", "SET_PARTMAP"}
Rounds == {"RPREPARE", "RACK_PREP", "RFIN", "RACK_FIN"}

\* The messages of the migration and those of the transactions.
MigNet == {msg \in net : msg.type \in Migrating \cup Maps}
TxnNet == {msg \in net : msg.type \in Rounds \cup {"RQRY", "RQRY_RSP"}}

Types ==
  /\ TypeOK
  /\ migmsg_queue \in [Node -> Seq(Message)]
  /\ msg_num \in Nat \ {0}
  /\ DOMAIN key \subseteq Txn /\ \A t \in DOMAIN key : key[t] \in Row

\* The source never learns that it has lost the partition, and nobody is sent
\* to a third server for a row.
Routes ==
  /\ part_map[Src].node = Src /\ part_map[Src].status <= 1
  /\ \A m \in MiniPart : /\ minipart_map[Src][m].node = Src
                         /\ minipart_map[Src][m].status <= 1
  /\ \A n \in Holder : \A m \in MiniPart : minipart_map[n][m].node \in {Src, Dest}

AddressOf(type) == IF type = "RECV_MIGRATION" THEN Dest ELSE Src

\* The requests of the migration reach the two nodes they are meant for.
Addressed ==
  /\ \A msg \in MigNet :
       /\ msg.type \in Migrating => msg.to = AddressOf(msg.type)
       /\ msg.type \in Maps => msg.to # Src
  /\ \A n \in Node : \A i \in DOMAIN migmsg_queue[n] :
       n = AddressOf(migmsg_queue[n][i].type)

-----------------------------------------------------------------------------
IsToken(msg) ==
  \/ msg.type \in {"SEND_MIGRATION", "FINISH_MIGRATION"}
  \/ msg.type = "RECV_MIGRATION" /\ msg.islast

NoneInNet == \A a \in MigNet : ~ IsToken(a)
NoneInQueue == \A n \in Node : \A i \in DOMAIN migmsg_queue[n] : ~ IsToken(migmsg_queue[n][i])

\* From mini-partition c on nobody has been told of a new owner, nor will be;
\* before it every row has arrived.
Ahead(c) ==
  /\ \A n \in Holder : /\ part_map[n].node = Src /\ part_map[n].status <= 1
                       /\ \A q \in MiniPart : q >= c =>
                            /\ minipart_map[n][q].node = Src
                            /\ minipart_map[n][q].status <= 1
  /\ \A msg \in MigNet : /\ msg.type # "SET_PARTMAP"
                         /\ msg.type = "SET_MINIPARTMAP" => msg.order < c
Behind(c) == OneMessage => \A q \in MiniPart : q < c => Arrived(q)
Progress(c) == Ahead(c) /\ Behind(c)

\* Where the token is.
InNet(tok) ==
  /\ tok \in MigNet /\ IsToken(tok) /\ \A a \in MigNet : IsToken(a) => a = tok
  /\ NoneInQueue /\ ~ sending.active /\ Progress(tok.order)
InQueue(n, i) ==
  /\ i \in DOMAIN migmsg_queue[n] /\ IsToken(migmsg_queue[n][i])
  /\ \A k \in Node : \A j \in DOMAIN migmsg_queue[k] :
        IsToken(migmsg_queue[k][j]) => k = n /\ j = i
  /\ NoneInNet /\ ~ sending.active /\ Progress(migmsg_queue[n][i].order)
InLoop == sending.active /\ NoneInNet /\ NoneInQueue /\ Progress(sending.order)
Gone == ~ sending.active /\ NoneInNet /\ NoneInQueue

Token == \/ Gone \/ InLoop
         \/ \E tok \in MigNet : InNet(tok)
         \/ \E n \in Node : \E i \in DOMAIN migmsg_queue[n] : InQueue(n, i)

\* What a message says of the rows, when a mini-partition fits in one message.
Whole(msg) ==
  /\ msg.type = "RECV_MIGRATION" => msg.islast /\ msg.keys = 0 .. (g_minipart_size - 1)
  /\ msg.type \in {"FINISH_MIGRATION", "SET_MINIPARTMAP"} => Arrived(msg.order)
  /\ msg.type = "SET_PARTMAP" => \A m \in MiniPart : Arrived(m)
WholeParts ==
  OneMessage =>
    /\ sending.active => sending.chunk = 0 .. (sending.key_ptr - 1)
    /\ \A msg \in MigNet : Whole(msg)
    /\ \A n \in Node : \A i \in DOMAIN migmsg_queue[n] : Whole(migmsg_queue[n][i])

MigInv == Routes /\ Addressed /\ Token /\ WholeParts /\ RowsBeforeRoute

-----------------------------------------------------------------------------
\* The messages that lead to the home node's next step.
InChain(msg) ==
  \/ msg.type \in Rounds
  \/ msg.type = "RQRY" /\ msg.return_node_id = home[msg.txn]
  \/ msg.type = "RQRY_RSP" /\ msg.to = home[msg.txn]

Requests ==
  \A msg \in TxnNet :
    /\ msg.txn \in DOMAIN key
    /\ msg.type = "RQRY" => /\ msg.to \in {Src, Dest}
                            /\ msg.to # home[msg.txn] /\ home[msg.txn] # Src
    /\ msg.type \in {"RACK_PREP", "RACK_FIN"} => msg.to = home[msg.txn]

\* A transaction with such a message has one, and waits for one other node.
Waiting(a) ==
  /\ state[a.txn] # "new" /\ home[a.txn] # Src
  /\ \E d \in Node \ {home[a.txn]} : touched[a.txn] = {home[a.txn], d}
  /\ a.type \in {"RFIN", "RACK_FIN"} => rsp_cnt[a.txn] = 1
Answers ==
  /\ \A a, b \in TxnNet : InChain(a) /\ InChain(b) /\ a.txn = b.txn => a = b
  /\ \A a \in TxnNet : InChain(a) => Waiting(a)

TxnInv == Requests /\ Answers

IInv == Types /\ MigInv /\ TxnInv

-----------------------------------------------------------------------------
(* Messages.                                                               *)
LEMMA MessageFields ==
  ASSUME NEW msg \in Message
  PROVE  /\ msg.type \in Migrating \cup Maps \cup Rounds \cup {"RQRY", "RQRY_RSP"}
         /\ msg.type \in Migrating => msg.to \in Node /\ msg.order \in MiniPart
         /\ msg.type = "RECV_MIGRATION" => /\ msg.keys \subseteq 0 .. (g_minipart_size - 1)
                                           /\ msg.islast \in BOOLEAN
         /\ msg.type \in Maps => msg.to \in Holder
         /\ msg.type = "SET_MINIPARTMAP" => msg.order \in MiniPart
         /\ msg.type \in Rounds \cup {"RQRY", "RQRY_RSP"} => msg.to \in Node /\ msg.txn \in Txn
         /\ msg.type = "RQRY" => msg.return_node_id \in Node
BY Zenon DEF Message, Migrating, Maps, Rounds

LEMMA MigrationMessages ==
  ASSUME NEW n \in Node, NEW m \in MiniPart
  PROVE  /\ [type |-> "SEND_MIGRATION", to |-> n, order |-> m] \in Message
         /\ [type |-> "FINISH_MIGRATION", to |-> n, order |-> m] \in Message
         /\ \A ks \in SUBSET (0 .. (g_minipart_size - 1)) : \A b \in BOOLEAN :
              [type |-> "RECV_MIGRATION", to |-> n, order |-> m, keys |-> ks, islast |-> b]
                \in Message
BY Zenon DEF Message

LEMMA TxnMessages ==
  ASSUME NEW n \in Node, NEW t \in Txn, NEW rc \in {"RCOK", "Abort"}
  PROVE  /\ \A k \in Node : [type |-> "RQRY", to |-> n, txn |-> t, return_node_id |-> k]
                              \in Message
         /\ \A type \in {"RQRY_RSP", "RPREPARE", "RFIN"} :
              [type |-> type, to |-> n, txn |-> t, rc |-> rc] \in Message
         /\ \A type \in {"RACK_PREP", "RACK_FIN"} :
              [type |-> type, to |-> n, txn |-> t] \in Message
BY Zenon DEF Message

\* SyncOthers tells everybody but the source.
LEMMA SyncMessages ==
  ASSUME NEW m \in MiniPart, NEW type \in Maps
  PROVE  \A x \in SyncOthers(Src, type, m) :
           /\ x \in Message /\ x.type = type /\ x.to # Src
           /\ type = "SET_MINIPARTMAP" => x.order = m
<1>1. CASE type = "SET_PARTMAP"
  BY <1>1 DEF SyncOthers, Message
<1>2. CASE type = "SET_MINIPARTMAP"
  BY <1>2 DEF SyncOthers, Message
<1> QED  BY Zenon, <1>1, <1>2 DEF Maps

(* MigrateMessageQueue: what enqueue and dequeue leave where.              *)
LEMMA EnqueueProps ==
  ASSUME migmsg_queue \in [Node -> Seq(Message)], NEW n \in Node, NEW msg \in Message,
         enqueue(n, msg)
  PROVE  /\ migmsg_queue' \in [Node -> Seq(Message)]
         /\ \A k \in Node : \A i \in DOMAIN migmsg_queue[k] :
              i \in DOMAIN migmsg_queue'[k] /\ migmsg_queue'[k][i] = migmsg_queue[k][i]
         /\ LET e == Len(migmsg_queue[n]) + 1
            IN  /\ e \in DOMAIN migmsg_queue'[n] /\ migmsg_queue'[n][e] = msg
                /\ \A k \in Node : \A i \in DOMAIN migmsg_queue'[k] :
                     \/ k = n /\ i = e
                     \/ i \in DOMAIN migmsg_queue[k] /\ migmsg_queue'[k][i] = migmsg_queue[k][i]
<1> DEFINE s == migmsg_queue[n]
           e == Len(s) + 1
<1>1. s \in Seq(Message) /\ Append(s, msg) \in Seq(Message)
  OBVIOUS
<1>2. migmsg_queue' = [migmsg_queue EXCEPT ![n] = Append(s, msg)]
  BY Zenon DEF enqueue
<1>3. /\ DOMAIN s = 1 .. Len(s) /\ DOMAIN Append(s, msg) = 1 .. e /\ Len(s) \in Nat
      /\ Append(s, msg)[e] = msg /\ \A i \in 1 .. Len(s) : Append(s, msg)[i] = s[i]
  BY <1>1
<1>4. /\ migmsg_queue' \in [Node -> Seq(Message)]
      /\ migmsg_queue'[n] = Append(s, msg)
      /\ \A k \in Node \ {n} : migmsg_queue'[k] = migmsg_queue[k]
  BY Zenon, <1>1, <1>2
<1>5. \A i \in 1 .. e : i = e \/ i \in 1 .. Len(s)
  BY <1>3
<1>6. e \in 1 .. e /\ \A i \in 1 .. Len(s) : i \in 1 .. e
  BY <1>3
<1> HIDE DEF e
<1> QED  BY Zenon, <1>3, <1>4, <1>5, <1>6 DEF e

LEMMA DequeueProps ==
  ASSUME migmsg_queue \in [Node -> Seq(Message)], NEW n \in Node, dequeue(n)
  PROVE  /\ migmsg_queue' \in [Node -> Seq(Message)]
         /\ 1 \in DOMAIN migmsg_queue[n] /\ Head(migmsg_queue[n]) = migmsg_queue[n][1]
         /\ Head(migmsg_queue[n]) \in Message
         /\ \A k \in Node : \A i \in DOMAIN migmsg_queue'[k] :
              \E j \in DOMAIN migmsg_queue[k] :
                 /\ migmsg_queue'[k][i] = migmsg_queue[k][j]
                 /\ ~ (k = n /\ j = 1)
                 /\ j = (IF k = n THEN i + 1 ELSE i)
         /\ \A k \in Node : \A j \in DOMAIN migmsg_queue[k] :
              ~ (k = n /\ j = 1) =>
              \E i \in DOMAIN migmsg_queue'[k] : /\ migmsg_queue'[k][i] = migmsg_queue[k][j]
                                                 /\ j = (IF k = n THEN i + 1 ELSE i)
<1> DEFINE s == migmsg_queue[n]
<1>1. s \in Seq(Message) /\ s # <<>>
  BY Zenon DEF dequeue
<1>2. migmsg_queue' = [migmsg_queue EXCEPT ![n] = Tail(s)]
  BY Zenon DEF dequeue
<1>3. /\ Tail(s) \in Seq(Message) /\ Len(s) \in Nat \ {0} /\ DOMAIN s = 1 .. Len(s)
      /\ DOMAIN Tail(s) = 1 .. (Len(s) - 1) /\ Head(s) = s[1] /\ s[1] \in Message
      /\ \A i \in 1 .. (Len(s) - 1) : Tail(s)[i] = s[i + 1]
  BY <1>1
<1>4. /\ migmsg_queue' \in [Node -> Seq(Message)]
      /\ migmsg_queue'[n] = Tail(s)
      /\ \A k \in Node \ {n} : migmsg_queue'[k] = migmsg_queue[k]
  BY Zenon, <1>2, <1>3
<1>5. \A i \in 1 .. (Len(s) - 1) : i + 1 \in 1 .. Len(s) /\ i + 1 # 1
  BY <1>3
<1>6. \A j \in 1 .. Len(s) : j # 1 => j - 1 \in 1 .. (Len(s) - 1) /\ j = (j - 1) + 1
  BY <1>3
<1>7. \A k \in Node : \A i \in DOMAIN migmsg_queue'[k] :
        \E j \in DOMAIN migmsg_queue[k] :
           /\ migmsg_queue'[k][i] = migmsg_queue[k][j]
           /\ ~ (k = n /\ j = 1)
           /\ j = (IF k = n THEN i + 1 ELSE i)
  BY Zenon, <1>3, <1>4, <1>5
<1>8. ASSUME NEW k \in Node, NEW j \in DOMAIN migmsg_queue[k], ~ (k = n /\ j = 1)
      PROVE  \E i \in DOMAIN migmsg_queue'[k] : /\ migmsg_queue'[k][i] = migmsg_queue[k][j]
                                                 /\ j = (IF k = n THEN i + 1 ELSE i)
  <2>1. CASE k = n
    <3>1. j - 1 \in DOMAIN migmsg_queue'[k] /\ migmsg_queue'[k][j - 1] = migmsg_queue[k][j]
          /\ j = (j - 1) + 1
      BY <1>3, <1>4, <1>6, <1>8, <2>1
    <3> QED  BY Zenon, <2>1, <3>1
  <2>2. CASE k # n
    BY Zenon, <1>4, <1>8, <2>2
  <2> QED  BY Zenon, <2>1, <2>2
<1> QED  BY <1>1, <1>3, <1>4, <1>7, <1>8

-----------------------------------------------------------------------------
(* What most steps leave alone.                                            *)
ArrivedKept == msg_num' = msg_num /\ \A m \in MiniPart : Arrived(m) => Arrived(m)'

SameOrMarked(old, new) == new.node = old.node /\ (new.status = old.status \/ new.status = 1)
OnlyMarked ==
  \A n \in Holder : /\ SameOrMarked(part_map[n], part_map'[n])
                    /\ \A m \in MiniPart : SameOrMarked(minipart_map[n][m], minipart_map'[n][m])

\* Rows are never deleted.
LEMMA RowsStay ==
  ASSUME msg_num' = msg_num,
         \A r \in Row : rows[Dest][r] # "none" => rows'[Dest][r] # "none"
  PROVE  ArrivedKept
BY Zenon DEF ArrivedKept, Arrived

LEMMA RowsSame ==
  ASSUME UNCHANGED <<msg_num, rows>>
  PROVE  ArrivedKept
BY Zenon DEF ArrivedKept, Arrived

LEMMA MapsSame ==
  ASSUME UNCHANGED <<minipart_map, part_map>>
  PROVE  OnlyMarked
BY Zenon DEF OnlyMarked, SameOrMarked

LEMMA Marked ==
  ASSUME Types, NEW n \in Holder, NEW m \in MiniPart, MarkMigrating(n, m)
  PROVE  /\ OnlyMarked
         /\ minipart_map' \in [Holder -> [MiniPart -> [node : Node, status : 0..2]]]
         /\ part_map' \in [Holder -> [node : Node, status : 0..2]]
<1>1. /\ minipart_map \in [Holder -> [MiniPart -> [node : Node, status : 0..2]]]
      /\ part_map \in [Holder -> [node : Node, status : 0..2]]
  BY Zenon DEF Types, TypeOK
<1>2. part_map' = [part_map EXCEPT ![n].status = 1]
  BY Zenon DEF MarkMigrating
<1>3. part_map' \in [Holder -> [node : Node, status : 0..2]]
  <2>1. [part_map[n] EXCEPT !.status = 1] \in [node : Node, status : 0..2]
    BY <1>1
  <2>2. part_map' = [part_map EXCEPT ![n] = [part_map[n] EXCEPT !.status = 1]]
    BY Zenon, <1>1, <1>2
  <2> QED  BY Zenon, <1>1, <2>1, <2>2
<1>4. \A k \in Holder : SameOrMarked(part_map[k], part_map'[k])
  BY Zenon, <1>1, <1>2 DEF SameOrMarked
<1> DEFINE mm == [minipart_map[n] EXCEPT ![m].status = 1]
<1>5. minipart_map' = [minipart_map EXCEPT ![n] = mm]
  BY Zenon, <1>1 DEF MarkMigrating
<1>6. /\ mm \in [MiniPart -> [node : Node, status : 0..2]]
      /\ \A q \in MiniPart : SameOrMarked(minipart_map[n][q], mm[q])
  BY <1>1 DEF SameOrMarked
<1> HIDE DEF mm
<1>7. minipart_map' \in [Holder -> [MiniPart -> [node : Node, status : 0..2]]]
  BY Zenon, <1>1, <1>5, <1>6
<1>8. ASSUME NEW k \in Holder, NEW q \in MiniPart
      PROVE  SameOrMarked(minipart_map[k][q], minipart_map'[k][q])
  <2>1. CASE k = n
    BY Zenon, <1>1, <1>5, <1>6, <2>1
  <2>2. CASE k # n
    <3>1. minipart_map'[k] = minipart_map[k]
      BY Zenon, <1>1, <1>5, <2>2
    <3> QED  BY Zenon, <3>1 DEF SameOrMarked
  <2> QED  BY Zenon, <2>1, <2>2
<1> QED  BY Zenon, <1>3, <1>4, <1>7, <1>8 DEF OnlyMarked

LEMMA RoutesKept ==
  ASSUME Routes, RowsBeforeRoute, OnlyMarked, ArrivedKept
  PROVE  Routes' /\ RowsBeforeRoute'
<1>1. Src \in Holder
  BY Zenon, NodeAssumption DEF Holder
<1>2. Routes'
  BY <1>1 DEF Routes, OnlyMarked, SameOrMarked
<1>3. RowsBeforeRoute'
  BY DEF RowsBeforeRoute, OnlyMarked, SameOrMarked, ArrivedKept, OneMessage
<1> QED  BY Zenon, <1>2, <1>3

LEMMA ProgressKept ==
  ASSUME NEW c, Progress(c), OnlyMarked, ArrivedKept,
         \A msg \in MigNet' : msg.type \in Maps => msg \in MigNet
  PROVE  Progress(c)'
<1>1. Behind(c)'
  BY Zenon DEF Progress, Behind, ArrivedKept, OneMessage
<1>2. Ahead(c)'
  BY DEF Progress, Ahead, OnlyMarked, SameOrMarked, Maps
<1> QED  BY Zenon, <1>1, <1>2 DEF Progress

LEMMA WholeKept ==
  ASSUME ArrivedKept, NEW msg, Whole(msg),
         msg.type \in {"FINISH_MIGRATION", "SET_MINIPARTMAP"} => msg.order \in MiniPart
  PROVE  Whole(msg)'
BY Zenon DEF ArrivedKept, Whole

\* A step of a transaction does not disturb the migration.
LEMMA MigFrame ==
  ASSUME Types, MigInv, MigNet' = MigNet, ArrivedKept,
         UNCHANGED <<minipart_map, part_map, sending, migmsg_queue>>
  PROVE  MigInv'
<1>1. OnlyMarked
  BY Zenon, MapsSame
<1>2. Routes' /\ RowsBeforeRoute'
  BY Zenon, <1>1, RoutesKept DEF MigInv
<1>3. Addressed'
  BY Zenon DEF MigInv, Addressed
<1>4. \A c : Progress(c) => Progress(c)'
  BY Zenon, <1>1, ProgressKept
<1>5. Token'
  <2>1. (NoneInNet => NoneInNet') /\ (NoneInQueue => NoneInQueue')
    BY Zenon DEF NoneInNet, NoneInQueue
  <2>2. Gone => Gone'
    BY Zenon, <2>1 DEF Gone
  <2>3. InLoop => InLoop'
    BY Zenon, <1>4, <2>1 DEF InLoop
  <2>4. ASSUME NEW tok \in MigNet, InNet(tok) PROVE InNet(tok)'
    BY Zenon, <1>4, <2>1, <2>4 DEF InNet
  <2>5. ASSUME NEW n \in Node, NEW i \in DOMAIN migmsg_queue[n], InQueue(n, i)
        PROVE  InQueue(n, i)'
    BY Zenon, <1>4, <2>1, <2>5 DEF InQueue
  <2>6. Token
    BY Zenon DEF MigInv
  <2> QED  BY Zenon, <2>2, <2>3, <2>4, <2>5, <2>6 DEF Token
<1>6. WholeParts'
  <2>1. ASSUME NEW msg \in MigNet PROVE msg.type = "SET_MINIPARTMAP" \/ msg.type = "FINISH_MIGRATION" => msg.order \in MiniPart
    BY Zenon, MessageFields DEF MigNet, Types, TypeOK, Migrating
  <2>2. ASSUME NEW n \in Node, NEW i \in DOMAIN migmsg_queue[n]
        PROVE  /\ migmsg_queue[n][i].type \in Migrating
               /\ migmsg_queue[n][i].order \in MiniPart
    BY Zenon, MessageFields DEF Types, TypeOK
  <2>3. ASSUME OneMessage, NEW msg \in MigNet PROVE Whole(msg)'
    BY Zenon, <2>1, <2>3, WholeKept DEF MigInv, WholeParts
  <2>4. ASSUME OneMessage, NEW n \in Node, NEW i \in DOMAIN migmsg_queue[n]
        PROVE  Whole(migmsg_queue[n][i])'
    <3>1. Whole(migmsg_queue[n][i])
      BY Zenon, <2>4 DEF MigInv, WholeParts
    <3>2. Whole(migmsg_queue[n][i])' <=> \E msg : msg = migmsg_queue[n][i] /\ Whole(msg)'
      BY Zenon DEF Whole
    <3> QED  BY Zenon, <2>2, <3>1, <3>2, WholeKept
  <2>5. OneMessage' => OneMessage
    BY Zenon DEF ArrivedKept, OneMessage
  <2> QED  BY Zenon, <2>3, <2>4, <2>5 DEF MigInv, WholeParts
<1> QED  BY Zenon, <1>2, <1>3, <1>5, <1>6 DEF MigInv

\* A step of the migration does not disturb the transactions.
LEMMA TxnFrame ==
  ASSUME TxnInv, TxnNet' = TxnNet, UNCHANGED <<key, state, touched, rsp_cnt>>
  PROVE  TxnInv'
<1>1. Requests'
  BY Zenon DEF TxnInv, Requests
<1>2. Answers'
  BY Zenon DEF TxnInv, Answers, Waiting
<1> QED  BY Zenon, <1>1, <1>2 DEF TxnInv

-----------------------------------------------------------------------------
(* The steps of the migration.                                             *)

\* A message that is handed to the migration thread stays the token it was.
LEMMA WorkerEnqueueInv ==
  ASSUME IInv, NEW msg \in net, WorkerEnqueue(msg)
  PROVE  IInv'
<1>1. /\ msg \in MigNet /\ msg \in Message /\ msg.to \in Node /\ msg.order \in MiniPart
      /\ msg.type \in Migrating
  BY Zenon, MessageFields DEF WorkerEnqueue, IInv, Types, TypeOK, MigNet
<1>2. enqueue(msg.to, msg) /\ net' = net \ {msg}
  BY Zenon DEF WorkerEnqueue
<1> DEFINE n == msg.to
           e == Len(migmsg_queue[n]) + 1
<1>3. /\ migmsg_queue' \in [Node -> Seq(Message)]
      /\ \A k \in Node : \A i \in DOMAIN migmsg_queue[k] :
           i \in DOMAIN migmsg_queue'[k] /\ migmsg_queue'[k][i] = migmsg_queue[k][i]
      /\ e \in DOMAIN migmsg_queue'[n] /\ migmsg_queue'[n][e] = msg
      /\ \A k \in Node : \A i \in DOMAIN migmsg_queue'[k] :
           \/ k = n /\ i = e
           \/ i \in DOMAIN migmsg_queue[k] /\ migmsg_queue'[k][i] = migmsg_queue[k][i]
  BY Zenon, <1>1, <1>2, EnqueueProps DEF IInv, Types
<1> HIDE DEF n, e
<1>4. MigNet' = MigNet \ {msg} /\ TxnNet' = TxnNet
  BY Zenon, <1>1, <1>2 DEF MigNet, TxnNet, Migrating, Rounds
<1>5. UNCHANGED <<msg_num, key, minipart_map, part_map, rows, sent, mig_locks, sending,
                  write_locks, state, touched, rsp_cnt, failed>>
  BY Zenon DEF WorkerEnqueue, txns
<1>6. Types'
  <2>1. Types
    BY Zenon DEF IInv
  <2>2. net' \subseteq Message
    BY Zenon, <1>2, <2>1 DEF Types, TypeOK
  <2>3. \A k \in Node : \A i \in DOMAIN migmsg_queue'[k] :
          migmsg_queue'[k][i] \in Message /\ migmsg_queue'[k][i].type \in Migrating
    <3>1. \A k \in Node : \A i \in DOMAIN migmsg_queue[k] :
            migmsg_queue[k][i] \in Message /\ migmsg_queue[k][i].type \in Migrating
      BY Zenon, <2>1 DEF Types, TypeOK
    <3> TAKE k \in Node
    <3> TAKE i \in DOMAIN migmsg_queue'[k]
    <3>2. CASE k = n /\ i = e
      BY Zenon, <1>1, <1>3, <3>2
    <3>3. CASE i \in DOMAIN migmsg_queue[k] /\ migmsg_queue'[k][i] = migmsg_queue[k][i]
      BY Zenon, <3>1, <3>3
    <3> QED  BY Zenon, <1>3, <3>2, <3>3
  <2> QED  BY Zenon, <1>3, <1>5, <2>1, <2>2, <2>3 DEF Types, TypeOK
<1>7. TxnInv'
  BY Zenon, <1>4, <1>5, TxnFrame DEF IInv
<1>8. OnlyMarked /\ ArrivedKept
  BY Zenon, <1>5, MapsSame, RowsSame
<1>9. Routes' /\ RowsBeforeRoute'
  BY Zenon, <1>8, RoutesKept DEF IInv, MigInv
<1>10. n \in Node /\ n = AddressOf(msg.type)
  BY Zenon, <1>1 DEF n, IInv, MigInv, Addressed
<1>11. Addressed'
  BY <1>3, <1>4, <1>10 DEF IInv, MigInv, Addressed
<1>12. \A c : Progress(c) => Progress(c)'
  BY Zenon, <1>4, <1>8, ProgressKept
<1>13. (NoneInNet => NoneInNet') /\ (NoneInQueue /\ ~ IsToken(msg) => NoneInQueue')
  BY Zenon, <1>3, <1>4 DEF NoneInNet, NoneInQueue
<1>14. Token'
  <2>1. CASE Gone
    <3>1. ~ IsToken(msg)
      BY Zenon, <1>1, <2>1 DEF Gone, NoneInNet
    <3> QED  BY Zenon, <1>5, <1>13, <2>1, <3>1 DEF Token, Gone
  <2>2. CASE InLoop
    <3>1. ~ IsToken(msg)
      BY Zenon, <1>1, <2>2 DEF InLoop, NoneInNet
    <3> QED  BY Zenon, <1>5, <1>12, <1>13, <2>2, <3>1 DEF Token, InLoop
  <2>3. ASSUME NEW tok \in MigNet, InNet(tok), tok # msg PROVE Token'
    <3>1. ~ IsToken(msg)
      BY Zenon, <1>1, <2>3 DEF InNet
    <3>2. InNet(tok)'
      BY Zenon, <1>4, <1>5, <1>12, <1>13, <2>3, <3>1 DEF InNet
    <3> QED  BY Zenon, <1>4, <2>3, <3>2 DEF Token
  <2>4. ASSUME InNet(msg) PROVE Token'
    <3>1. NoneInNet'
      BY Zenon, <1>4, <2>4 DEF InNet, NoneInNet
    <3>2. ~ sending'.active /\ IsToken(msg) /\ NoneInQueue /\ Progress(msg.order)'
      BY Zenon, <1>5, <1>12, <2>4 DEF InNet
    <3>3. PICK k, j : k \in Node /\ k = n /\ j = e
      BY Zenon, <1>10
    <3>4. j \in DOMAIN migmsg_queue'[k] /\ migmsg_queue'[k][j] = msg
      BY Zenon, <1>3, <3>3
    <3>5. InQueue(k, j)'
      BY ZenonT(30), <1>3, <3>1, <3>2, <3>3, <3>4 DEF InQueue, NoneInQueue, Progress, Ahead, Behind
    <3> QED  BY Zenon, <3>3, <3>4, <3>5 DEF Token
  <2>5. ASSUME NEW k \in Node, NEW i \in DOMAIN migmsg_queue[k], InQueue(k, i)
        PROVE  Token'
    <3>1. ~ IsToken(msg)
      BY Zenon, <1>1, <2>5 DEF InQueue, NoneInNet
    <3>2. i \in DOMAIN migmsg_queue'[k] /\ migmsg_queue'[k][i] = migmsg_queue[k][i]
      BY Zenon, <1>3
    <3>3. \E c : c = migmsg_queue[k][i].order /\ Progress(c)'
      BY Zenon, <1>12, <2>5 DEF InQueue
    <3>4. InQueue(k, i)'
      BY <1>3, <1>5, <1>13, <2>5, <3>1, <3>2, <3>3 DEF InQueue, Progress, Ahead, Behind
    <3> QED  BY Zenon, <3>2, <3>4 DEF Token
  <2> QED  BY Zenon, <2>1, <2>2, <2>3, <2>4, <2>5 DEF IInv, MigInv, Token
<1>15. WholeParts'
  <2>1. UNCHANGED <<OneMessage, sending>> /\ \A m : Arrived(m)' <=> Arrived(m)
    BY Zenon, <1>5 DEF OneMessage, Arrived
  <2>2. \A x : Whole(x)' <=> Whole(x)
    BY Zenon, <2>1 DEF Whole
  <2>3. \A k \in Node : \A i \in DOMAIN migmsg_queue'[k] :
          \E x : x = migmsg_queue'[k][i]
                 /\ (x = msg \/ \E j \in DOMAIN migmsg_queue[k] : x = migmsg_queue[k][j])
    BY <1>3
  <2>4. WholeParts
    BY Zenon DEF IInv, MigInv
  <2>5. ASSUME OneMessage, NEW k \in Node, NEW i \in DOMAIN migmsg_queue'[k]
        PROVE  Whole(migmsg_queue[k][i])'
    <3>1. PICK x : /\ x = migmsg_queue'[k][i]
                   /\ x = msg \/ \E j \in DOMAIN migmsg_queue[k] : x = migmsg_queue[k][j]
      BY Zenon, <2>3
    <3>2. Whole(x)'
      BY Zenon, <1>1, <2>2, <2>4, <2>5, <3>1 DEF WholeParts
    <3> QED  BY Zenon, <3>1, <3>2 DEF Whole
  <2> QED  BY Zenon, <1>4, <2>1, <2>2, <2>4, <2>5 DEF WholeParts
<1> QED  BY Zenon, <1>6, <1>7, <1>9, <1>11, <1>14, <1>15 DEF IInv, MigInv

\* The queue after a step that takes a message off it, or leaves it.
QueueShrinks ==
  \A k \in Node : \A i \in DOMAIN migmsg_queue'[k] :
    \E j \in DOMAIN migmsg_queue[k] : migmsg_queue'[k][i] = migmsg_queue[k][j]

LEMMA AddressedStep ==
  ASSUME Addressed, QueueShrinks,
         \A x \in MigNet' : \/ x \in MigNet
                            \/ /\ x.type \in Migrating => x.to = AddressOf(x.type)
                               /\ x.type \in Maps => x.to # Src
  PROVE  Addressed'
BY DEF Addressed, QueueShrinks

LEMMA WholePartsStep ==
  ASSUME Types, WholeParts, ArrivedKept, QueueShrinks,
         OneMessage /\ sending'.active => sending'.chunk = 0 .. (sending'.key_ptr - 1),
         OneMessage => \A x \in MigNet' : x \in MigNet \/ Whole(x)'
  PROVE  WholeParts'
<1>1. OneMessage' <=> OneMessage
  BY Zenon DEF OneMessage, ArrivedKept
<1>2. ASSUME OneMessage, NEW x \in MigNet PROVE Whole(x)'
  <2>1. x \in Message
    BY Zenon DEF MigNet, Types, TypeOK
  <2> QED  BY Zenon, <1>2, <2>1, MessageFields, WholeKept DEF WholeParts, Migrating
<1>3. ASSUME OneMessage, NEW k \in Node, NEW i \in DOMAIN migmsg_queue'[k]
      PROVE  Whole(migmsg_queue[k][i])'
  <2>1. PICK x : x = migmsg_queue'[k][i] /\ \E j \in DOMAIN migmsg_queue[k] : x = migmsg_queue[k][j]
    BY Zenon DEF QueueShrinks
  <2>2. x \in Message /\ Whole(x) /\ x.type \in Migrating
    BY Zenon, <1>3, <2>1 DEF WholeParts, Types, TypeOK
  <2>3. Whole(x)'
    BY Zenon, <2>2, MessageFields, WholeKept
  <2> QED  BY Zenon, <2>1, <2>3 DEF Whole
<1> QED  BY Zenon, <1>1, <1>2, <1>3 DEF WholeParts

LEMMA QueueTypes ==
  ASSUME Types, QueueShrinks
  PROVE  \A n \in Node : \A i \in DOMAIN migmsg_queue'[n] :
           migmsg_queue'[n][i] \in Message /\ migmsg_queue'[n][i].type \in Migrating
<1>1. \A n \in Node : \A i \in DOMAIN migmsg_queue[n] :
        migmsg_queue[n][i] \in Message /\ migmsg_queue[n][i].type \in Migrating
  BY Zenon DEF Types, TypeOK
<1> QED  BY <1>1 DEF QueueShrinks

\* The migration thread takes the token.
LEMMA TokenTaken ==
  ASSUME Types, Token, NEW n \in Node, dequeue(n), IsToken(Head(migmsg_queue[n]))
  PROVE  /\ NoneInNet /\ ~ sending.active /\ Progress(Head(migmsg_queue[n]).order)
         /\ NoneInQueue' /\ QueueShrinks
<1>1. /\ migmsg_queue \in [Node -> Seq(Message)]
      /\ 1 \in DOMAIN migmsg_queue[n] /\ Head(migmsg_queue[n]) = migmsg_queue[n][1]
      /\ \A k \in Node : \A i \in DOMAIN migmsg_queue'[k] :
           \E j \in DOMAIN migmsg_queue[k] :
              /\ migmsg_queue'[k][i] = migmsg_queue[k][j]
              /\ ~ (k = n /\ j = 1)
  BY DequeueProps DEF Types
<1>2. ~ NoneInQueue
  BY Zenon, <1>1 DEF NoneInQueue
<1>3. PICK k, i : k \in Node /\ i \in DOMAIN migmsg_queue[k] /\ InQueue(k, i)
  BY Zenon, <1>2 DEF Token, Gone, InLoop, InNet
<1>4. k = n /\ i = 1
  BY ZenonT(30), <1>1, <1>3 DEF InQueue
<1>5. NoneInNet /\ ~ sending.active /\ Progress(Head(migmsg_queue[n]).order)
  BY Zenon, <1>1, <1>3, <1>4 DEF InQueue
<1>6. NoneInQueue'
  BY ZenonT(30), <1>1, <1>3, <1>4 DEF InQueue, NoneInQueue
<1> QED  BY ZenonT(30), <1>1, <1>5, <1>6 DEF QueueShrinks

\* process_send_migration.
LEMMA ProcessSendMigrationInv ==
  ASSUME IInv, ProcessSendMigration
  PROVE  IInv'
<1>1. /\ dequeue(Src) /\ Src \in Node /\ Src \in Holder
      /\ Head(migmsg_queue[Src]).type = "SEND_MIGRATION"
  BY Zenon, NodeAssumption DEF ProcessSendMigration, Dequeues, Holder
<1>2. PICK m : m = Head(migmsg_queue[Src]).order
  BY Zenon
<1>3. /\ migmsg_queue' \in [Node -> Seq(Message)] /\ m \in MiniPart
      /\ Head(migmsg_queue[Src]) \in Message
  BY Zenon, <1>1, <1>2, DequeueProps, MessageFields DEF IInv, Types, Migrating
<1>4. IsToken(Head(migmsg_queue[Src]))
  BY Zenon, <1>1 DEF IsToken
<1>5. NoneInNet /\ Progress(m) /\ NoneInQueue' /\ QueueShrinks
  BY Zenon, <1>1, <1>2, <1>4, TokenTaken DEF IInv, MigInv
<1>6. /\ MarkMigrating(Src, m)
      /\ sending' = [active |-> TRUE, order |-> m, key_ptr |-> 0, chunk |-> {}, nested |-> FALSE]
  BY Zenon, <1>2 DEF ProcessSendMigration, BeginSend
<1>7. UNCHANGED <<msg_num, key, rows, sent, mig_locks, write_locks, state, touched, rsp_cnt,
                  net, failed>>
  BY Zenon DEF ProcessSendMigration, txns
<1>8. MigNet' = MigNet /\ TxnNet' = TxnNet
  BY Zenon, <1>7 DEF MigNet, TxnNet
<1>9. /\ OnlyMarked /\ ArrivedKept
      /\ minipart_map' \in [Holder -> [MiniPart -> [node : Node, status : 0..2]]]
      /\ part_map' \in [Holder -> [node : Node, status : 0..2]]
  BY Zenon, <1>1, <1>3, <1>6, <1>7, Marked, RowsSame DEF IInv
<1>10. Types'
  <2>1. sending' \in Sending
    BY <1>3, <1>6, SizeAssumption DEF Sending
  <2>2. \A n \in Node : \A i \in DOMAIN migmsg_queue'[n] :
          migmsg_queue'[n][i] \in Message /\ migmsg_queue'[n][i].type \in Migrating
    BY Zenon, <1>5, QueueTypes DEF IInv
  <2> QED  BY Zenon, <1>3, <1>7, <1>9, <2>1, <2>2 DEF IInv, Types, TypeOK
<1>11. TxnInv'
  BY Zenon, <1>7, <1>8, TxnFrame DEF IInv
<1>12. Routes' /\ RowsBeforeRoute'
  BY Zenon, <1>9, RoutesKept DEF IInv, MigInv
<1>13. Addressed'
  BY Zenon, <1>5, <1>8, AddressedStep DEF IInv, MigInv
<1>14. Token'
  <2>1. Progress(m)'
    BY Zenon, <1>5, <1>8, <1>9, ProgressKept
  <2>2. NoneInNet'
    BY Zenon, <1>5, <1>8 DEF NoneInNet
  <2>3. InLoop'
    BY Zenon, <1>5, <1>6, <2>1, <2>2 DEF InLoop, Progress, Ahead, Behind
  <2> QED  BY Zenon, <2>3 DEF Token
<1>15. WholeParts'
  <2>1. sending'.chunk = 0 .. (sending'.key_ptr - 1)
    BY <1>6
  <2> QED  BY Zenon, <1>5, <1>8, <1>9, <2>1, WholePartsStep DEF IInv, MigInv
<1> QED  BY Zenon, <1>10, <1>11, <1>12, <1>13, <1>14, <1>15 DEF IInv, MigInv

\* What the thread is in the middle of.
LEMMA SendingFields ==
  ASSUME Types, sending.active
  PROVE  /\ sending \in Sending /\ sending.order \in MiniPart
         /\ sending.key_ptr \in 0 .. (g_minipart_size - 1)
         /\ sending.chunk \in SUBSET (0 .. (g_minipart_size - 1)) /\ sending.nested \in BOOLEAN
<1>1. sending \in {Idle} \cup Sending
  BY Zenon DEF Types, TypeOK
<1>2. ~ Idle.active
  BY Zenon DEF Idle
<1>3. sending \in Sending
  BY Zenon, <1>1, <1>2
<1> QED  BY Zenon, <1>3 DEF Sending

\* The number of keys up to p, which MigrationProofs shows.
IntervalCount == \A p \in Nat : Cardinality(0 .. p) = p + 1

\* The destination gets every row of a mini-partition in one message, if they fit.
LEMMA ChunkProps ==
  ASSUME Types, WholeParts, IntervalCount, sending.active
  PROVE  LET chunk == sending.chunk \cup {sending.key_ptr}
         IN  /\ chunk \in SUBSET (0 .. (g_minipart_size - 1))
             /\ OneMessage => chunk = 0 .. sending.key_ptr
             /\ OneMessage /\ ~ LastKey(sending.key_ptr) => ~ ChunkFull(chunk)
<1> DEFINE p == sending.key_ptr
           chunk == sending.chunk \cup {p}
<1>1. p \in 0 .. (g_minipart_size - 1) /\ sending.chunk \in SUBSET (0 .. (g_minipart_size - 1))
  BY Zenon, SendingFields
<1>2. p \in Nat /\ p < g_minipart_size /\ g_minipart_size \in Nat /\ msg_num \in Nat
  BY <1>1, SizeAssumption DEF Types
<1>3. ASSUME OneMessage PROVE chunk = 0 .. p
  <2>1. sending.chunk = 0 .. (p - 1)
    BY Zenon, <1>3 DEF WholeParts
  <2> QED  BY <1>2, <2>1
<1>4. ASSUME OneMessage, ~ LastKey(p) PROVE ~ ChunkFull(chunk)
  <2>1. Cardinality(0 .. p) = p + 1
    BY Zenon, <1>2 DEF IntervalCount
  <2>2. p + 1 < msg_num
    BY <1>2, <1>4 DEF OneMessage, LastKey
  <2>3. chunk = 0 .. p
    BY Zenon, <1>3, <1>4
  <2>4. Cardinality(chunk) = p + 1
    BY Zenon, <2>1, <2>3
  <2> HIDE DEF chunk
  <2> QED  BY <1>2, <2>2, <2>4 DEF ChunkFull
<1> QED  BY Zenon, <1>1, <1>3, <1>4

\* The loop of process_send_migration.
LEMMA SendRowInv ==
  ASSUME IInv, IntervalCount, SendRow
  PROVE  IInv'
<1> DEFINE r == <<sending.order, sending.key_ptr>>
<1>1. sending.active /\ Src \in Node /\ Dest \in Node /\ Src \in Holder
  BY Zenon, NodeAssumption DEF SendRow, Holder
<1>2. PICK m, p, chunk, atEnd :
        /\ m = sending.order /\ p = sending.key_ptr /\ chunk = sending.chunk \cup {p}
        /\ atEnd = LastKey(p)
  BY Zenon
<1>3. /\ sending \in Sending /\ m \in MiniPart /\ p \in 0 .. (g_minipart_size - 1)
      /\ chunk \in SUBSET (0 .. (g_minipart_size - 1)) /\ sending.nested \in BOOLEAN
      /\ OneMessage => chunk = 0 .. p
      /\ OneMessage /\ ~ LastKey(p) => ~ ChunkFull(chunk)
      /\ atEnd \in BOOLEAN
  BY Zenon, <1>1, <1>2, SendingFields, ChunkProps DEF IInv, MigInv, LastKey
<1>4. InLoop
  BY Zenon, <1>1 DEF IInv, MigInv, Token, Gone, InNet, InQueue
<1>5. UNCHANGED <<msg_num, key, rows, migmsg_queue, write_locks, state, touched, rsp_cnt, failed>>
  BY Zenon DEF SendRow, txns
<1> DEFINE recv == [type |-> "RECV_MIGRATION", to |-> Dest, order |-> m, keys |-> chunk,
                    islast |-> atEnd]
<1>6. recv \in Message /\ recv.type = "RECV_MIGRATION" /\ recv.islast = atEnd
      /\ recv.keys = chunk /\ recv.to = Dest /\ recv.order = m
  BY Zenon, <1>1, <1>3, MigrationMessages
<1>7. IF atEnd \/ ChunkFull(chunk) THEN net' = net \cup {recv} ELSE net' = net
  BY Zenon, <1>2 DEF SendRow
<1>8. IF atEnd
      THEN /\ sending' = Idle
           /\ MarkMigrating(Src, m)
           /\ IF sending.nested THEN CommitMigration ELSE mig_locks' = mig_locks \cup {r}
      ELSE /\ sending' = [sending EXCEPT !.key_ptr = @ + 1,
                            !.chunk = IF ChunkFull(chunk) THEN {} ELSE chunk]
           /\ mig_locks' = mig_locks \cup {r}
           /\ UNCHANGED <<minipart_map, part_map>>
  BY Zenon, <1>2 DEF SendRow
<1>9. r \in Row /\ sent' = [sent EXCEPT ![r] = rows[Src][r]]
  BY Zenon, <1>2, <1>3 DEF SendRow, Row
<1> HIDE DEF recv, r
<1>10. /\ \A x \in MigNet' : x \in MigNet \/ (x = recv /\ (atEnd \/ ChunkFull(chunk)))
       /\ atEnd => recv \in MigNet'
       /\ TxnNet' = TxnNet
  BY <1>6, <1>7 DEF MigNet, TxnNet, Migrating, Rounds
<1>11. /\ OnlyMarked /\ ArrivedKept
       /\ minipart_map' \in [Holder -> [MiniPart -> [node : Node, status : 0..2]]]
       /\ part_map' \in [Holder -> [node : Node, status : 0..2]]
  <2>1. ArrivedKept
    BY Zenon, <1>5, RowsSame
  <2>2. CASE atEnd
    BY Zenon, <1>1, <1>3, <1>8, <2>1, <2>2, Marked DEF IInv
  <2>3. CASE ~ atEnd
    BY Zenon, <1>8, <2>1, <2>3, MapsSame DEF IInv, Types, TypeOK
  <2> QED  BY Zenon, <1>3, <2>2, <2>3
<1>12. ASSUME ~ atEnd
       PROVE  /\ sending' \in Sending /\ sending'.order = m /\ sending'.active
              /\ sending'.key_ptr = p + 1
              /\ sending'.chunk = (IF ChunkFull(chunk) THEN {} ELSE chunk)
  <2>1. sending \in Sending /\ ~ LastKey(p)
    BY Zenon, <1>2, <1>3, <1>12
  <2>2. p + 1 \in 0 .. (g_minipart_size - 1)
    BY <1>3, <2>1, SizeAssumption DEF LastKey
  <2>3. sending' = [sending EXCEPT !.key_ptr = p + 1,
                      !.chunk = IF ChunkFull(chunk) THEN {} ELSE chunk]
    BY Zenon, <1>2, <1>8, <1>12, <2>1 DEF Sending
  <2>4. (IF ChunkFull(chunk) THEN {} ELSE chunk) \in SUBSET (0 .. (g_minipart_size - 1))
    BY Zenon, <1>3
  <2> QED  BY Zenon, <1>2, <2>1, <2>2, <2>3, <2>4 DEF Sending
<1>13. Types'
  <2>1. sending' \in {Idle} \cup Sending
    BY Zenon, <1>3, <1>8, <1>12
  <2>2. net' \subseteq Message
    BY Zenon, <1>6, <1>7 DEF IInv, Types, TypeOK
  <2>3. mig_locks' \subseteq Row
    BY Zenon, <1>8, <1>9 DEF IInv, Types, TypeOK, CommitMigration
  <2>4. sent' \in [Row -> {"none", "hello"} \cup Txn]
    <3>1. /\ rows \in [Node -> [Row -> {"none", "hello"} \cup Txn]]
          /\ sent \in [Row -> {"none", "hello"} \cup Txn]
      BY Zenon DEF IInv, Types, TypeOK
    <3>2. rows[Src][r] \in {"none", "hello"} \cup Txn
      BY Zenon, <1>1, <1>9, <3>1
    <3> QED  BY Zenon, <1>9, <3>1, <3>2
  <2> QED  BY Zenon, <1>5, <1>11, <2>1, <2>2, <2>3, <2>4 DEF IInv, Types, TypeOK
<1>14. TxnInv'
  BY Zenon, <1>5, <1>10, TxnFrame DEF IInv
<1>15. Routes' /\ RowsBeforeRoute'
  BY Zenon, <1>11, RoutesKept DEF IInv, MigInv
<1>16. QueueShrinks
  BY Zenon, <1>5 DEF QueueShrinks
<1>17. Addressed'
  BY Zenon, <1>6, <1>10, <1>16, AddressedStep DEF IInv, MigInv, AddressOf, Maps
<1>18. Token'
  <2>1. Progress(m)'
    BY Zenon, <1>2, <1>4, <1>6, <1>10, <1>11, ProgressKept DEF InLoop, Maps
  <2>2. NoneInQueue'
    BY Zenon, <1>4, <1>5 DEF InLoop, NoneInQueue
  <2>3. CASE atEnd
    <3>1. InNet(recv)'
      BY <1>4, <1>6, <1>8, <1>10, <2>1, <2>2, <2>3
         DEF InNet, InLoop, NoneInNet, IsToken, Idle, Progress, Ahead, Behind
    <3> QED  BY Zenon, <1>10, <2>3, <3>1 DEF Token
  <2>4. CASE ~ atEnd
    <3>1. NoneInNet'
      BY Zenon, <1>4, <1>6, <1>10, <2>4 DEF InLoop, NoneInNet, IsToken
    <3>2. InLoop'
      BY Zenon, <1>12, <2>1, <2>2, <2>4, <3>1 DEF InLoop, Progress, Ahead, Behind
    <3> QED  BY Zenon, <3>2 DEF Token
  <2> QED  BY Zenon, <1>3, <2>3, <2>4
<1>19. WholeParts'
  <2>1. ASSUME OneMessage, atEnd PROVE Whole(recv)'
    <3>1. chunk = 0 .. (g_minipart_size - 1)
      BY Zenon, <1>2, <1>3, <2>1 DEF LastKey
    <3> QED  BY Zenon, <1>6, <2>1, <3>1 DEF Whole
  <2>2. OneMessage /\ ~ atEnd => ~ ChunkFull(chunk)
    BY Zenon, <1>2, <1>3
  <2>3. OneMessage => \A x \in MigNet' : x \in MigNet \/ Whole(x)'
    BY Zenon, <1>10, <2>1, <2>2
  <2>4. OneMessage /\ sending'.active => sending'.chunk = 0 .. (sending'.key_ptr - 1)
    <3>1. CASE atEnd
      BY <1>8, <3>1 DEF Idle
    <3>2. CASE ~ atEnd
      <4>1. (p + 1) - 1 = p
        BY <1>3
      <4> QED  BY Zenon, <1>3, <1>12, <2>2, <3>2, <4>1
    <3> QED  BY Zenon, <1>3, <3>1, <3>2
  <2> QED  BY Zenon, <1>11, <1>16, <2>3, <2>4, WholePartsStep DEF IInv, MigInv
<1> QED  BY Zenon, <1>13, <1>14, <1>15, <1>17, <1>18, <1>19 DEF IInv, MigInv

\* process_recv_migration.
LEMMA ProcessRecvMigrationInv ==
  ASSUME IInv, NEW n \in Node, ProcessRecvMigration(n)
  PROVE  IInv'
<1>1. dequeue(n) /\ Head(migmsg_queue[n]).type = "RECV_MIGRATION"
  BY Zenon DEF ProcessRecvMigration, Dequeues
<1>2. PICK msg, m : msg = Head(migmsg_queue[n]) /\ m = msg.order
  BY Zenon
<1>3. /\ migmsg_queue' \in [Node -> Seq(Message)] /\ msg \in Message
      /\ 1 \in DOMAIN migmsg_queue[n] /\ msg = migmsg_queue[n][1]
      /\ \A k \in Node : \A i \in DOMAIN migmsg_queue'[k] :
           \E j \in DOMAIN migmsg_queue[k] :
              /\ migmsg_queue'[k][i] = migmsg_queue[k][j]
              /\ ~ (k = n /\ j = 1)
              /\ j = (IF k = n THEN i + 1 ELSE i)
      /\ \A k \in Node : \A j \in DOMAIN migmsg_queue[k] :
           ~ (k = n /\ j = 1) =>
           \E i \in DOMAIN migmsg_queue'[k] : /\ migmsg_queue'[k][i] = migmsg_queue[k][j]
                                              /\ j = (IF k = n THEN i + 1 ELSE i)
  BY Zenon, <1>1, <1>2, DequeueProps DEF IInv, Types
<1>4. /\ m \in MiniPart /\ msg.type = "RECV_MIGRATION" /\ msg.islast \in BOOLEAN
      /\ msg.keys \subseteq 0 .. (g_minipart_size - 1)
  BY Zenon, <1>1, <1>2, <1>3, MessageFields DEF Migrating
<1>5. n = Dest /\ Src \in Node /\ Dest \in Holder
  BY Zenon, <1>3, <1>4, NodeAssumption DEF IInv, MigInv, Addressed, AddressOf, Holder
<1>6. QueueShrinks
  BY <1>3 DEF QueueShrinks
<1>7. UNCHANGED <<msg_num, key, sent, mig_locks, sending, write_locks, state, touched, rsp_cnt,
                  failed>>
  BY Zenon DEF ProcessRecvMigration, txns
<1>8. rows' = [rows EXCEPT ![n] = [r \in Row |->
                 IF r[1] = m /\ r[2] \in msg.keys THEN "hello" ELSE rows[n][r]]]
  BY Zenon, <1>2 DEF ProcessRecvMigration, ConstructRow
<1>9. /\ rows' \in [Node -> [Row -> {"none", "hello"} \cup Txn]]
      /\ \A r \in Row : rows'[Dest][r] = IF r[1] = m /\ r[2] \in msg.keys THEN "hello"
                                         ELSE rows[Dest][r]
  <2>1. rows \in [Node -> [Row -> {"none", "hello"} \cup Txn]]
    BY Zenon DEF IInv, Types, TypeOK
  <2> QED  BY Zenon, <1>5, <1>8, <2>1
<1>10. ArrivedKept
  BY Zenon, <1>7, <1>9, RowsStay
<1> DEFINE fin == [type |-> "FINISH_MIGRATION", to |-> Src, order |-> m]
<1>11. fin \in Message /\ fin.type = "FINISH_MIGRATION" /\ fin.to = Src /\ fin.order = m
  BY Zenon, <1>4, <1>5, MigrationMessages
<1>12. IF msg.islast THEN MarkMigrating(n, m) /\ net' = net \cup {fin}
       ELSE UNCHANGED <<minipart_map, part_map, net>>
  BY Zenon, <1>2 DEF ProcessRecvMigration
<1> HIDE DEF fin
<1>13. /\ \A x \in MigNet' : x \in MigNet \/ (x = fin /\ msg.islast)
       /\ msg.islast => fin \in MigNet'
       /\ ~ msg.islast => MigNet' = MigNet
       /\ TxnNet' = TxnNet
  BY <1>11, <1>12 DEF MigNet, TxnNet, Migrating, Rounds
<1>14. /\ OnlyMarked
       /\ minipart_map' \in [Holder -> [MiniPart -> [node : Node, status : 0..2]]]
       /\ part_map' \in [Holder -> [node : Node, status : 0..2]]
  <2>1. CASE msg.islast
    BY Zenon, <1>4, <1>5, <1>12, <2>1, Marked DEF IInv
  <2>2. CASE ~ msg.islast
    BY Zenon, <1>12, <2>2, MapsSame DEF IInv, Types, TypeOK
  <2> QED  BY Zenon, <2>1, <2>2
<1>15. Types'
  <2>1. net' \subseteq Message
    BY Zenon, <1>11, <1>12 DEF IInv, Types, TypeOK
  <2>2. \A k \in Node : \A i \in DOMAIN migmsg_queue'[k] :
          migmsg_queue'[k][i] \in Message /\ migmsg_queue'[k][i].type \in Migrating
    BY Zenon, <1>6, QueueTypes DEF IInv
  <2> QED  BY Zenon, <1>3, <1>7, <1>9, <1>14, <2>1, <2>2 DEF IInv, Types, TypeOK
<1>16. TxnInv'
  BY Zenon, <1>7, <1>13, TxnFrame DEF IInv
<1>17. Routes' /\ RowsBeforeRoute'
  BY Zenon, <1>10, <1>14, RoutesKept DEF IInv, MigInv
<1>18. Addressed'
  BY Zenon, <1>6, <1>11, <1>13, AddressedStep DEF IInv, MigInv, AddressOf, Maps
<1>19. \A c : Progress(c) => Progress(c)'
  BY Zenon, <1>10, <1>11, <1>13, <1>14, ProgressKept DEF Maps
<1>20. ASSUME msg.islast PROVE Token'
  <2>1. IsToken(Head(migmsg_queue[n]))
    BY Zenon, <1>2, <1>4, <1>20 DEF IsToken
  <2>2. NoneInNet /\ ~ sending.active /\ Progress(m) /\ NoneInQueue'
    BY Zenon, <1>1, <1>2, <2>1, TokenTaken DEF IInv, MigInv
  <2>3. Progress(m)'
    BY Zenon, <1>19, <2>2
  <2>4. InNet(fin)'
    BY Zenon, <1>7, <1>11, <1>13, <1>20, <2>2, <2>3
       DEF InNet, NoneInNet, IsToken, Progress, Ahead, Behind
  <2> QED  BY Zenon, <1>13, <1>20, <2>4 DEF Token
<1>21. ASSUME ~ msg.islast PROVE Token'
  <2>0. ~ IsToken(msg)
    BY Zenon, <1>4, <1>21 DEF IsToken
  <2>1. (NoneInNet => NoneInNet') /\ (NoneInQueue => NoneInQueue')
    BY <1>6, <1>13, <1>21 DEF NoneInNet, NoneInQueue, QueueShrinks
  <2>2. CASE Gone
    BY Zenon, <1>7, <2>1, <2>2 DEF Gone, Token
  <2>3. CASE InLoop
    BY Zenon, <1>7, <1>19, <2>1, <2>3 DEF InLoop, Token
  <2>4. ASSUME NEW tok \in MigNet, InNet(tok) PROVE Token'
    <3>1. InNet(tok)'
      BY Zenon, <1>7, <1>13, <1>19, <1>21, <2>1, <2>4 DEF InNet
    <3> QED  BY Zenon, <1>13, <1>21, <3>1 DEF Token
  <2>5. ASSUME NEW k \in Node, NEW j \in DOMAIN migmsg_queue[k], InQueue(k, j)
        PROVE  Token'
    <3>1. ~ (k = n /\ j = 1)
      BY Zenon, <1>3, <2>0, <2>5 DEF InQueue
    <3>2. PICK i \in DOMAIN migmsg_queue'[k] : /\ migmsg_queue'[k][i] = migmsg_queue[k][j]
                                               /\ j = (IF k = n THEN i + 1 ELSE i)
      BY ZenonT(30), <1>3, <3>1
    <3>3. \E c : c = migmsg_queue[k][j].order /\ Progress(c)'
      BY Zenon, <1>19, <2>5 DEF InQueue
    <3>4. ASSUME NEW l \in Node, NEW h \in DOMAIN migmsg_queue'[l],
                 IsToken(migmsg_queue'[l][h])
          PROVE  l = k /\ h = i
      <4>1. PICK g \in DOMAIN migmsg_queue[l] : /\ migmsg_queue'[l][h] = migmsg_queue[l][g]
                                                /\ g = (IF l = n THEN h + 1 ELSE h)
        BY <1>3
      <4>2. l = k /\ g = j
        BY Zenon, <2>5, <3>4, <4>1 DEF InQueue
      <4>3. h \in Nat /\ i \in Nat
        BY <1>3, <3>2, <4>2
      <4> QED  BY <3>2, <4>1, <4>2, <4>3
    <3>5. InQueue(k, i)'
      BY ZenonT(30), <1>7, <2>1, <2>5, <3>2, <3>3, <3>4 DEF InQueue, Progress, Ahead, Behind
    <3> QED  BY Zenon, <3>2, <3>5 DEF Token
  <2> QED  BY Zenon, <2>2, <2>3, <2>4, <2>5 DEF IInv, MigInv, Token
<1>22. WholeParts'
  <2>1. ASSUME OneMessage PROVE Whole(fin)'
    <3>1. msg.keys = 0 .. (g_minipart_size - 1)
      BY <1>3, <1>4, <2>1 DEF IInv, MigInv, WholeParts, Whole
    <3>2. \A r \in Row : r[2] \in 0 .. (g_minipart_size - 1)
      BY Zenon DEF Row
    <3>3. Arrived(m)'
      BY Zenon, <1>9, <3>1, <3>2 DEF Arrived
    <3> QED  BY Zenon, <1>11, <3>3 DEF Whole
  <2>2. OneMessage => \A x \in MigNet' : x \in MigNet \/ Whole(x)'
    BY Zenon, <1>13, <2>1
  <2>3. OneMessage /\ sending'.active => sending'.chunk = 0 .. (sending'.key_ptr - 1)
    BY Zenon, <1>7 DEF IInv, MigInv, WholeParts
  <2> QED  BY Zenon, <1>6, <1>10, <2>2, <2>3, WholePartsStep DEF IInv, MigInv
<1> QED  BY Zenon, <1>15, <1>16, <1>17, <1>18, <1>20, <1>21, <1>22 DEF IInv, MigInv

\* process_finish_migration.
LEMMA ProcessFinishMigrationInv ==
  ASSUME IInv, ProcessFinishMigration
  PROVE  IInv'
<1>1. /\ dequeue(Src) /\ Src \in Node /\ Src \in Holder
      /\ Head(migmsg_queue[Src]).type = "FINISH_MIGRATION"
  BY Zenon, NodeAssumption DEF ProcessFinishMigration, Dequeues, Holder
<1>2. PICK msg, m : msg = Head(migmsg_queue[Src]) /\ m = msg.order
  BY Zenon
<1>3. /\ migmsg_queue' \in [Node -> Seq(Message)] /\ msg \in Message
      /\ 1 \in DOMAIN migmsg_queue[Src] /\ msg = migmsg_queue[Src][1]
  BY Zenon, <1>1, <1>2, DequeueProps DEF IInv, Types
<1>4. m \in MiniPart /\ m \in Nat /\ g_part_split_cnt \in Nat
  BY <1>1, <1>2, <1>3, MessageFields, SizeAssumption DEF Migrating, MiniPart
<1>5. NoneInNet /\ Progress(m) /\ NoneInQueue' /\ QueueShrinks /\ ~ sending.active
  BY Zenon, <1>1, <1>2, TokenTaken DEF IInv, MigInv, IsToken
<1>6. OneMessage => Arrived(m)
  BY <1>1, <1>2, <1>3 DEF IInv, MigInv, WholeParts, Whole
<1>7. UNCHANGED <<msg_num, key, rows, sent, write_locks, state, touched, rsp_cnt, failed>>
  BY Zenon DEF ProcessFinishMigration, txns
<1> DEFINE A == SyncOthers(Src, "SET_MINIPARTMAP", m)
           B == SyncOthers(Src, "SET_PARTMAP", m)
<1>8. /\ \A x \in A : /\ x \in Message /\ x.type = "SET_MINIPARTMAP" /\ x.to # Src
                      /\ x.order = m
      /\ \A x \in B : x \in Message /\ x.type = "SET_PARTMAP" /\ x.to # Src
  BY Zenon, <1>4, SyncMessages DEF Maps
<1>9. IF LastOrder(m)
      THEN net' = net \cup A \cup B /\ mig_locks' = {}
           /\ UNCHANGED <<minipart_map, part_map, sending>>
      ELSE net' = net \cup A /\ BeginSend(m + 1, TRUE) /\ UNCHANGED mig_locks
  BY Zenon, <1>2 DEF ProcessFinishMigration, CommitMigration
<1> HIDE DEF A, B
<1>10. ASSUME ~ LastOrder(m)
       PROVE  /\ m + 1 \in MiniPart /\ MarkMigrating(Src, m + 1)
              /\ sending' = [active |-> TRUE, order |-> m + 1, key_ptr |-> 0, chunk |-> {},
                             nested |-> TRUE]
  BY <1>4, <1>9, <1>10 DEF LastOrder, MiniPart, BeginSend
<1>11. /\ \A x \in MigNet' : x \in MigNet \/ x \in A \/ (x \in B /\ LastOrder(m))
       /\ TxnNet' = TxnNet
  BY Zenon, <1>8, <1>9 DEF MigNet, TxnNet, Rounds
<1>12. /\ OnlyMarked /\ ArrivedKept
       /\ minipart_map' \in [Holder -> [MiniPart -> [node : Node, status : 0..2]]]
       /\ part_map' \in [Holder -> [node : Node, status : 0..2]]
  <2>1. ArrivedKept
    BY Zenon, <1>7, RowsSame
  <2>2. CASE ~ LastOrder(m)
    <3>1. PICK q \in MiniPart : q = m + 1
      BY Zenon, <1>10, <2>2
    <3> QED  BY Zenon, <1>1, <1>10, <2>1, <2>2, <3>1, Marked DEF IInv
  <2>3. CASE LastOrder(m)
    BY Zenon, <1>9, <2>1, <2>3, MapsSame DEF IInv, Types, TypeOK
  <2> QED  BY Zenon, <2>2, <2>3
<1>13. Types'
  <2>1. sending' \in {Idle} \cup Sending
    <3>1. CASE LastOrder(m)
      BY Zenon, <1>9, <3>1 DEF IInv, Types, TypeOK
    <3>2. CASE ~ LastOrder(m)
      <4>1. PICK q \in MiniPart : q = m + 1
        BY ZenonT(30), <1>10, <3>2
      <4>2. sending' = [active |-> TRUE, order |-> q, key_ptr |-> 0, chunk |-> {}, nested |-> TRUE]
        BY Zenon, <1>10, <3>2, <4>1
      <4> QED  BY <4>2, SizeAssumption DEF Sending
    <3> QED  BY Zenon, <3>1, <3>2
  <2>2. net' \subseteq Message
    BY Zenon, <1>8, <1>9 DEF IInv, Types, TypeOK
  <2>3. \A k \in Node : \A i \in DOMAIN migmsg_queue'[k] :
          migmsg_queue'[k][i] \in Message /\ migmsg_queue'[k][i].type \in Migrating
    BY Zenon, <1>5, QueueTypes DEF IInv
  <2>4. mig_locks' \subseteq Row
    BY Zenon, <1>9 DEF IInv, Types, TypeOK
  <2> QED  BY Zenon, <1>3, <1>7, <1>12, <2>1, <2>2, <2>3, <2>4 DEF IInv, Types, TypeOK
<1>14. TxnInv'
  BY Zenon, <1>7, <1>11, TxnFrame DEF IInv
<1>15. Routes' /\ RowsBeforeRoute'
  BY ZenonT(30), <1>12, RoutesKept DEF IInv, MigInv
<1>16. Addressed'
  BY Zenon, <1>5, <1>8, <1>11, AddressedStep DEF IInv, MigInv, Migrating
<1>17. NoneInNet'
  BY Zenon, <1>5, <1>8, <1>11 DEF NoneInNet, IsToken
<1>18. Token'
  <2>1. CASE LastOrder(m)
    BY Zenon, <1>5, <1>9, <1>17, <2>1 DEF Token, Gone
  <2>2. CASE ~ LastOrder(m)
    <3>1. PICK c : c = m + 1
      BY Zenon
    <3>2. Behind(c)'
      BY <1>4, <1>5, <1>6, <1>12, <3>1 DEF Progress, Behind, ArrivedKept, OneMessage, MiniPart
    <3>3. Ahead(c)'
      <4>1. ASSUME NEW n \in Holder, NEW q \in MiniPart
            PROVE  /\ part_map'[n].node = Src /\ part_map'[n].status <= 1
                   /\ q >= c => minipart_map'[n][q].node = Src /\ minipart_map'[n][q].status <= 1
        <5>1. q >= c => q >= m
          BY <1>4, <3>1 DEF MiniPart
        <5>2. /\ part_map[n].node = Src /\ part_map[n].status <= 1
              /\ q >= c => minipart_map[n][q].node = Src /\ minipart_map[n][q].status <= 1
          BY Zenon, <1>5, <5>1 DEF Progress, Ahead
        <5>3. /\ SameOrMarked(part_map[n], part_map'[n])
              /\ SameOrMarked(minipart_map[n][q], minipart_map'[n][q])
          BY Zenon, <1>12 DEF OnlyMarked
        <5> QED  BY <5>2, <5>3 DEF SameOrMarked
      <4>2. ASSUME NEW x \in MigNet'
            PROVE  /\ x.type # "SET_PARTMAP"
                   /\ x.type = "SET_MINIPARTMAP" => x.order < c
        <5>1. CASE x \in A
          BY <1>4, <1>8, <3>1, <5>1
        <5>2. CASE x \in MigNet
          <6>1. x.type # "SET_PARTMAP" /\ (x.type = "SET_MINIPARTMAP" => x.order < m)
            BY Zenon, <1>5, <5>2 DEF Progress, Ahead
          <6>2. x.type = "SET_MINIPARTMAP" => x.order \in MiniPart
            BY Zenon, <5>2, MessageFields DEF IInv, Types, TypeOK, MigNet
          <6> QED  BY <1>4, <3>1, <6>1, <6>2 DEF MiniPart
        <5> QED  BY Zenon, <1>11, <2>2, <5>1, <5>2
      <4>3. m \in MiniPart
        BY Zenon, <1>4
      <4> QED  BY Zenon, <4>1, <4>2, <4>3 DEF Ahead
    <3>4. sending'.active /\ sending'.order = c
      BY <1>10, <2>2, <3>1
    <3>5. Progress(sending.order)'
      BY Zenon, <3>2, <3>3, <3>4 DEF Progress, Ahead, Behind
    <3> QED  BY Zenon, <1>5, <1>17, <3>4, <3>5 DEF Token, InLoop
  <2> QED  BY Zenon, <2>1, <2>2
<1>19. WholeParts'
  <2>1. ASSUME OneMessage, NEW x \in MigNet', x \notin MigNet PROVE Whole(x)'
    <3>1. Arrived(m)'
      BY Zenon, <1>4, <1>6, <1>12, <2>1 DEF ArrivedKept
    <3>2. CASE x \in A
      BY Zenon, <1>8, <3>1, <3>2 DEF Whole
    <3>3. CASE x \in B /\ LastOrder(m)
      <4>1. ASSUME NEW q \in MiniPart PROVE Arrived(q)'
        <5>1. q = m \/ q < m
          BY <1>4, <3>3 DEF LastOrder, MiniPart
        <5> QED  BY Zenon, <1>5, <1>12, <2>1, <3>1, <5>1 DEF Progress, Behind, ArrivedKept
      <4> QED  BY Zenon, <1>8, <3>3, <4>1 DEF Whole
    <3> QED  BY Zenon, <1>11, <2>1, <3>2, <3>3
  <2>2. OneMessage /\ sending'.active => sending'.chunk = 0 .. (sending'.key_ptr - 1)
    <3>1. CASE LastOrder(m)
      BY Zenon, <1>5, <1>9, <3>1
    <3>2. CASE ~ LastOrder(m)
      <4>1. sending'.chunk = {} /\ sending'.key_ptr = 0
        BY <1>10, <3>2
      <4>2. 0 .. (0 - 1) = {}
        OBVIOUS
      <4> QED  BY Zenon, <4>1, <4>2
    <3> QED  BY Zenon, <3>1, <3>2
  <2> QED  BY Zenon, <1>5, <1>12, <2>1, <2>2, WholePartsStep DEF IInv, MigInv
<1> QED  BY ZenonT(30), <1>13, <1>14, <1>15, <1>16, <1>18, <1>19 DEF IInv, MigInv

\* The messages of a map update go, and no other message comes.
LEMMA MapTaken ==
  ASSUME Types, NEW msg \in net, msg.type \in Maps, net' = net \ {msg},
         UNCHANGED <<msg_num, rows, sending, migmsg_queue>>
  PROVE  /\ msg \in MigNet /\ msg \in Message /\ msg.to \in Holder
         /\ MigNet' = MigNet \ {msg} /\ TxnNet' = TxnNet
         /\ ArrivedKept /\ QueueShrinks
         /\ Addressed => Addressed'
         /\ WholeParts => WholeParts'
<1>1. /\ msg \in MigNet /\ msg \in Message /\ msg.to \in Holder
      /\ MigNet' = MigNet \ {msg} /\ TxnNet' = TxnNet
  BY Zenon, MessageFields DEF MigNet, TxnNet, Types, TypeOK, Maps, Rounds
<1>2. ArrivedKept /\ QueueShrinks
  BY Zenon, RowsSame DEF QueueShrinks
<1>3. Addressed => Addressed'
  BY Zenon, <1>1, <1>2, AddressedStep
<1>4. ASSUME WholeParts PROVE WholeParts'
  <2>1. OneMessage /\ sending'.active => sending'.chunk = 0 .. (sending'.key_ptr - 1)
    BY Zenon, <1>4 DEF WholeParts
  <2> QED  BY Zenon, <1>1, <1>2, <1>4, <2>1, WholePartsStep
<1> QED  BY Zenon, <1>1, <1>2, <1>3, <1>4

\* The token stays where it is.
LEMMA TokenKept ==
  ASSUME Types, Token, \A c \in MiniPart : Progress(c) => Progress(c)', 
         UNCHANGED <<sending, migmsg_queue>>, NEW msg, ~ IsToken(msg), MigNet' = MigNet \ {msg}
  PROVE  Token'
<1>1. (NoneInNet => NoneInNet') /\ (NoneInQueue => NoneInQueue')
  BY Zenon DEF NoneInNet, NoneInQueue
<1>0. /\ sending.active => sending.order \in MiniPart
      /\ \A tok \in MigNet : IsToken(tok) => tok.order \in MiniPart
      /\ \A n \in Node : \A i \in DOMAIN migmsg_queue[n] : migmsg_queue[n][i].order \in MiniPart
  <2>1. sending.active => sending.order \in MiniPart
    BY Zenon, SendingFields
  <2>2. \A tok \in MigNet : IsToken(tok) => tok.order \in MiniPart
    BY Zenon, MessageFields DEF Types, TypeOK, MigNet, IsToken, Migrating
  <2>3. \A n \in Node : \A i \in DOMAIN migmsg_queue[n] : migmsg_queue[n][i].order \in MiniPart
    BY Zenon, MessageFields DEF Types, TypeOK
  <2> QED  BY Zenon, <2>1, <2>2, <2>3
<1>2. Gone => Gone'
  BY Zenon, <1>1 DEF Gone
<1>3. InLoop => InLoop'
  BY Zenon, <1>0, <1>1 DEF InLoop
<1>4. ASSUME NEW tok \in MigNet, InNet(tok) PROVE tok \in MigNet' /\ InNet(tok)'
  BY Zenon, <1>0, <1>1, <1>4 DEF InNet
<1>5. ASSUME NEW n \in Node, NEW i \in DOMAIN migmsg_queue[n], InQueue(n, i)
      PROVE  InQueue(n, i)'
  BY Zenon, <1>0, <1>1, <1>5 DEF InQueue
<1> QED  BY Zenon, <1>2, <1>3, <1>4, <1>5 DEF Token

\* process_set_minipartmap.
LEMMA ProcessSetMinipartMapInv ==
  ASSUME IInv, NEW msg \in net, ProcessSetMinipartMap(msg)
  PROVE  IInv'
<1>1. /\ msg.type = "SET_MINIPARTMAP" /\ net' = net \ {msg}
      /\ minipart_map' = [minipart_map EXCEPT ![msg.to][msg.order] = [node |-> Dest, status |-> 2]]
      /\ UNCHANGED <<msg_num, key, part_map, rows, sent, mig_locks, sending, migmsg_queue,
                     write_locks, state, touched, rsp_cnt, failed>>
  BY Zenon DEF ProcessSetMinipartMap, txns
<1>2. /\ msg \in MigNet /\ msg \in Message /\ msg.to \in Holder
      /\ MigNet' = MigNet \ {msg} /\ TxnNet' = TxnNet /\ ArrivedKept
      /\ Addressed' /\ WholeParts'
  BY Zenon, <1>1, MapTaken DEF IInv, MigInv, Maps
<1>3. PICK m \in MiniPart : m = msg.order
  BY Zenon, <1>1, <1>2, MessageFields
<1>4. msg.to # Src
  BY Zenon, <1>1, <1>2 DEF IInv, MigInv, Addressed, Maps
<1>5. /\ minipart_map \in [Holder -> [MiniPart -> [node : Node, status : 0..2]]]
      /\ part_map \in [Holder -> [node : Node, status : 0..2]]
  BY Zenon DEF IInv, Types, TypeOK
<1>6. /\ minipart_map' \in [Holder -> [MiniPart -> [node : Node, status : 0..2]]]
      /\ minipart_map'[msg.to][m] = [node |-> Dest, status |-> 2]
      /\ \A n \in Holder : \A q \in MiniPart :
           ~ (n = msg.to /\ q = m) => minipart_map'[n][q] = minipart_map[n][q]
  <2> DEFINE mm == [minipart_map[msg.to] EXCEPT ![m] = [node |-> Dest, status |-> 2]]
  <2>1. minipart_map' = [minipart_map EXCEPT ![msg.to] = mm]
    BY Zenon, <1>1, <1>2, <1>3, <1>5
  <2>2. [node |-> Dest, status |-> 2] \in [node : Node, status : 0..2]
    BY NodeAssumption
  <2>3. /\ mm \in [MiniPart -> [node : Node, status : 0..2]]
        /\ mm[m] = [node |-> Dest, status |-> 2]
        /\ \A q \in MiniPart : q # m => mm[q] = minipart_map[msg.to][q]
    BY Zenon, <1>2, <1>5, <2>2
  <2> HIDE DEF mm
  <2> QED  BY Zenon, <1>2, <1>5, <2>1, <2>3
<1>7. Types'
  BY Zenon, <1>1, <1>6 DEF IInv, Types, TypeOK
<1>8. TxnInv'
  BY Zenon, <1>1, <1>2, TxnFrame DEF IInv
<1>9. Routes'
  BY <1>1, <1>4, <1>6, NodeAssumption DEF IInv, MigInv, Routes, Holder
<1>10. RowsBeforeRoute'
  <2>1. OneMessage => Arrived(m)
    BY Zenon, <1>1, <1>2, <1>3 DEF IInv, MigInv, WholeParts, Whole
  <2>2. \A q \in MiniPart : Arrived(q)' <=> Arrived(q)
    BY Zenon, <1>1 DEF Arrived
  <2>3. OneMessage' <=> OneMessage
    BY Zenon, <1>1 DEF OneMessage
  <2>4. RowsBeforeRoute /\ part_map' = part_map
    BY Zenon, <1>1 DEF IInv, MigInv
  <2>5. ASSUME OneMessage, NEW n \in Holder, NEW q \in MiniPart, minipart_map'[n][q].node = Dest
        PROVE  Arrived(q)
    BY Zenon, <1>6, <2>1, <2>4, <2>5 DEF RowsBeforeRoute
  <2> QED  BY Zenon, <2>2, <2>3, <2>4, <2>5 DEF RowsBeforeRoute
<1>11. ASSUME NEW c \in MiniPart, Progress(c) PROVE Progress(c)'
  <2>1. Behind(c)'
    BY Zenon, <1>2, <1>11 DEF Progress, Behind, ArrivedKept, OneMessage
  <2>2. m < c
    BY Zenon, <1>1, <1>2, <1>3, <1>11 DEF Progress, Ahead
  <2>3. ASSUME NEW n \in Holder, NEW q \in MiniPart, q >= c
        PROVE  minipart_map'[n][q] = minipart_map[n][q]
    <3>1. q # m
      BY <2>2, <2>3, SizeAssumption DEF MiniPart
    <3> QED  BY Zenon, <1>6, <3>1
  <2>4. Ahead(c)'
    BY <1>1, <1>2, <1>11, <2>3 DEF Progress, Ahead
  <2> QED  BY Zenon, <2>1, <2>4 DEF Progress
<1>12. Token'
  BY Zenon, <1>1, <1>2, <1>11, TokenKept DEF IInv, MigInv, IsToken
<1> QED  BY Zenon, <1>2, <1>7, <1>8, <1>9, <1>10, <1>12 DEF IInv, MigInv

\* process_set_partmap: the migration is over.
LEMMA ProcessSetPartMapInv ==
  ASSUME IInv, NEW msg \in net, ProcessSetPartMap(msg)
  PROVE  IInv'
<1>1. /\ msg.type = "SET_PARTMAP" /\ net' = net \ {msg}
      /\ part_map' = [part_map EXCEPT ![msg.to] = [node |-> Dest, status |-> 2]]
      /\ UNCHANGED <<msg_num, key, minipart_map, rows, sent, mig_locks, sending, migmsg_queue,
                     write_locks, state, touched, rsp_cnt, failed>>
  BY Zenon DEF ProcessSetPartMap, process_set_partmap, txns
<1>2. /\ msg \in MigNet /\ msg \in Message /\ msg.to \in Holder
      /\ MigNet' = MigNet \ {msg} /\ TxnNet' = TxnNet /\ ArrivedKept
      /\ Addressed' /\ WholeParts'
  BY Zenon, <1>1, MapTaken DEF IInv, MigInv, Maps
<1>3. msg.to # Src
  BY Zenon, <1>1, <1>2 DEF IInv, MigInv, Addressed, Maps
<1>4. /\ part_map' \in [Holder -> [node : Node, status : 0..2]]
      /\ \A n \in Holder : n # msg.to => part_map'[n] = part_map[n]
  <2>1. [node |-> Dest, status |-> 2] \in [node : Node, status : 0..2]
    BY NodeAssumption
  <2>2. part_map \in [Holder -> [node : Node, status : 0..2]]
    BY Zenon DEF IInv, Types, TypeOK
  <2> QED  BY Zenon, <1>1, <1>2, <2>1, <2>2
<1>5. Types'
  BY Zenon, <1>1, <1>4 DEF IInv, Types, TypeOK
<1>6. TxnInv'
  BY Zenon, <1>1, <1>2, TxnFrame DEF IInv
<1>7. Routes'
  BY Zenon, <1>1, <1>3, <1>4, NodeAssumption DEF IInv, MigInv, Routes, Holder
<1>8. RowsBeforeRoute'
  <2>1. OneMessage => \A m \in MiniPart : Arrived(m)
    BY Zenon, <1>1, <1>2 DEF IInv, MigInv, WholeParts, Whole
  <2>2. \A q \in MiniPart : Arrived(q)' <=> Arrived(q)
    BY Zenon, <1>1 DEF Arrived
  <2>3. OneMessage' <=> OneMessage
    BY Zenon, <1>1 DEF OneMessage
  <2> QED  BY Zenon, <1>1, <2>1, <2>2, <2>3 DEF IInv, MigInv, RowsBeforeRoute
<1>9. \A c : ~ Progress(c)
  BY Zenon, <1>1, <1>2 DEF Progress, Ahead
<1>10. Token'
  BY Zenon, <1>1, <1>2, <1>9, TokenKept DEF IInv, MigInv, IsToken
<1> QED  BY Zenon, <1>2, <1>5, <1>6, <1>7, <1>8, <1>10 DEF IInv, MigInv
=============================================================================
