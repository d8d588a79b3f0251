------------------------------ MODULE Transport ------------------------------
(***************************************************************************)
(* Messages between nodes: MessageQueue, the output threads with their     *)
(* per-destination batches (MessageThread, mbuf), the sockets of Transport *)
(* and the input threads that decode a batch and hand every message to a   *)
(* work queue.  Servers are the nodes below node_cnt, the other one is the *)
(* client.  Sockets neither lose nor reorder (nanomsg pair sockets over    *)
(* TCP); a batch is sent when it is full or when its age makes it ready,   *)
(* which here is any time it is not empty.                                 *)
(***************************************************************************)
EXTENDS Message, FiniteSets

CONSTANTS
  Offers,           \* the messages nodes may send: [b, src, thd, dst, rtype, txn_type, n, isdata]
  NodeCnt,          \* g_node_cnt; node NodeCnt is the client
  SendThreadCnt,    \* g_send_thread_cnt
  RemThreadCnt,     \* g_rem_thread_cnt
  MaxSent           \* bound on the messages sent

Node == 0..NodeCnt
TotalNodeCnt == NodeCnt + 1
SendThd == 0..(SendThreadCnt - 1)
RemThd == 0..(RemThreadCnt - 1)
IsClient(n) == n >= NodeCnt

VARIABLES
  build,       \* [alg, wl, msg_size]
  m_queue,     \* per node and send thread: entries [m, dest]
  buffer,      \* per node, send thread and destination: the mbuf
  wire,        \* per node and port bound there: batches under way
  msgs,        \* per node and input thread: the decoded batch it is working on
  queue,       \* per node: the work queues
  sent,        \* history: the packets sent
  delivered    \* history, per node: what its input threads handled

vars == <<build, m_queue, buffer, wire, msgs, queue, sent, delivered>>

-----------------------------------------------------------------------------
(* struct mbuf *)

reset == [cnt |-> 0, ptr |-> BatchHeader, cells |-> {}]
fitsHeaderForgotten(buf, s) == buf.ptr + s <= build.msg_size + BatchHeader
fits(buf, s) == buf.ptr + s <= build.msg_size

\* memcpy over what the buffer held
Overwrite(cells, new) ==
  {c \in cells : \A d \in new : c.at + c.w <= d.at \/ d.at + d.w <= c.at} \cup new

-----------------------------------------------------------------------------
(* Transport: one socket per sender, send thread and destination *)

TPORT_PORT == 8100
get_port_id(src, dst, thd) ==
  TPORT_PORT + TotalNodeCnt * dst + src + thd * TotalNodeCnt * TotalNodeCnt

\* Transport::init binds, at node n, the ports of every other node in node order
recv_sockets(n) ==
  LET other(k) == IF k < n THEN k ELSE k + 1
  IN  [i \in 1..(NodeCnt * SendThreadCnt) |->
         get_port_id(other((i - 1) \div SendThreadCnt), n, (i - 1) % SendThreadCnt)]

batch(n, buf) ==
  [from |-> n, cnt |-> buf.cnt, cells |-> {c \in buf.cells : c.at + c.w <= buf.ptr}]

\* the batches bs, a function from destinations, go out on the sockets of send thread t
send_batch(w, n, t, bs) ==
  [d \in Node |-> [p \in DOMAIN w[d] |->
     IF d \in DOMAIN bs /\ p = get_port_id(n, d, t) THEN Append(w[d][p], batch(n, bs[d])) ELSE w[d][p]]]

-----------------------------------------------------------------------------
Init ==
  /\ build \in {o.b : o \in Offers}
  /\ m_queue = [n \in Node |-> [t \in SendThd |-> <<>>]]
  /\ buffer = [n \in Node |-> [t \in SendThd |-> [d \in Node |-> reset]]]
  /\ wire = [n \in Node |-> [p \in {recv_sockets(n)[i] : i \in DOMAIN recv_sockets(n)} |-> <<>>]]
  /\ msgs = [n \in Node |-> [r \in RemThd |-> <<>>]]
  /\ queue = [n \in Node |-> [q \in {"new_txn", "work", "seq", "sched"} |-> <<>>]]
  /\ sent = <<>>
  /\ delivered = [n \in Node |-> <<>>]

\* what a receiver works with
Payload(b, m) == [f \in (DOMAIN m) \cap ({"rtype", "txn_id"} \cup Uses(b, m)) |-> m[f]]

\* MessageQueue::enqueue: the queue a message is put in
send_queueAny(thd) == SendThd
send_queue(thd) ==
  CASE Calvin(build) -> {thd % SendThreadCnt}
    [] build.wl = "DA" -> {0}
    [] OTHER -> SendThd

enqueue(o) ==
  LET m == NewMessage(build, o, Len(sent) + 1) IN
  /\ o.b = build
  /\ Len(sent) < MaxSent
  /\ \E q \in send_queue(o.thd) :
       m_queue' = [m_queue EXCEPT ![o.src][q] = Append(@, [m |-> m, dest |-> o.dst])]
  /\ sent' = Append(sent, [src |-> o.src, thd |-> o.thd, dst |-> o.dst, m |-> Payload(build, m)])
  /\ UNCHANGED <<build, buffer, wire, msgs, queue, delivered>>

\* MessageQueue::dequeue: the queue send thread t pops
dequeue_from(t) == IF build.wl = "DA" THEN 0 ELSE t

\* check_and_send_batches: the batches to the destinations S are ready
ReadyWhenFull(buf, S) == \A d \in S : buf[d].cnt # 0 /\ ~fits(buf[d], mget_size(build) + 100)
Ready(buf, S) == \A d \in S : buf[d].cnt # 0
Reset(buf, S) == [d \in Node |-> IF d \in S THEN reset ELSE buf[d]]
Pick(buf, S) == [d \in S |-> buf[d]]

\* MessageThread::run with a message: it is copied behind the ones that wait for the
\* same destination, whose batch is sent first if the message does not fit any more
run(n, t) ==
  LET q == dequeue_from(t) IN
  /\ m_queue[n][q] # <<>>
  /\ LET e == Head(m_queue[n][q])
         s == get_size(build, e.m)
         full == IF fits(buffer[n][t][e.dest], s) THEN {} ELSE {e.dest}
         first == Reset(buffer[n][t], full)
         put == [first EXCEPT ![e.dest] =
                   [cnt |-> @.cnt + 1, ptr |-> @.ptr + s,
                    cells |-> Overwrite(@.cells, Encode(build, e.m, @.ptr))]]
     IN  /\ m_queue' = [m_queue EXCEPT ![n][q] = Tail(@)]
         /\ \E S \in SUBSET Node :
              /\ Ready(put, S)
              /\ wire' = send_batch(send_batch(wire, n, t, Pick(buffer[n][t], full)),
                                    n, t, Pick(put, S))
              /\ buffer' = [buffer EXCEPT ![n][t] = Reset(put, S)]
  /\ UNCHANGED <<build, msgs, queue, sent, delivered>>

\* MessageThread::run without a message
check_and_send_batches(n, t, S) ==
  /\ m_queue[n][dequeue_from(t)] = <<>>
  /\ S # {} /\ Ready(buffer[n][t], S)
  /\ wire' = send_batch(wire, n, t, Pick(buffer[n][t], S))
  /\ buffer' = [buffer EXCEPT ![n][t] = Reset(@, S)]
  /\ UNCHANGED <<build, m_queue, msgs, queue, sent, delivered>>

-----------------------------------------------------------------------------
(* Input threads *)

\* Transport::recv_msg: input thread r polls every RemThreadCnt-th socket, from one
\* that depends on the clock
sockets_of(n, r) == {i \in DOMAIN recv_sockets(n) : (i - 1) % RemThreadCnt = r}

recv_msg(n, r) ==
  /\ msgs[n][r] = <<>>
  /\ \E i \in sockets_of(n, r) :
       LET p == recv_sockets(n)[i] IN
       /\ wire[n][p] # <<>>
       /\ LET bt == Head(wire[n][p])
              ms == create_messages(build, bt.cells, bt.cnt)
          IN  msgs' = [msgs EXCEPT ![n][r] = [k \in 1..bt.cnt |-> [from |-> bt.from, m |-> ms[k]]]]
       /\ wire' = [wire EXCEPT ![n][p] = Tail(@)]
  /\ UNCHANGED <<build, m_queue, buffer, queue, sent, delivered>>

\* server_recv_loop, QWorkQueue::enqueue: the queue of a message
QueueOf(e) ==
  LET query == e.m.rtype \in {"CL_QRY", "CL_QRY_O"} IN
  CASE e.m.rtype = "INIT_DONE" -> "none"
    [] Calvin(build) /\ (e.m.rtype = "CALVIN_ACK" \/ (query /\ IsClient(e.from))) -> "seq"
    [] Calvin(build) /\ (e.m.rtype = "RDONE" \/ query) -> "sched"
    [] query /\ ~Calvin(build) -> "new_txn"
    [] OTHER -> "work"

Handled(n, r) ==
  LET e == Head(msgs[n][r]) IN
  /\ msgs[n][r] # <<>>
  /\ msgs' = [msgs EXCEPT ![n][r] = Tail(@)]
  /\ delivered' = [delivered EXCEPT ![n] = Append(@, [from |-> e.from, m |-> Payload(build, e.m)])]

server_recv_loop(n, r) ==
  /\ ~IsClient(n)
  /\ Handled(n, r)
  /\ LET e == Head(msgs[n][r]) IN
     queue' = IF QueueOf(e) = "none" THEN queue
              ELSE [queue EXCEPT ![n][QueueOf(e)] = Append(@, e)]
  /\ UNCHANGED <<build, m_queue, buffer, wire, sent>>

client_recv_loop(n, r) ==
  /\ IsClient(n)
  /\ Handled(n, r)
  /\ UNCHANGED <<build, m_queue, buffer, wire, queue, sent>>

\* QWorkQueue::dequeue by a worker: one of the two queues first, the other if it is empty
dequeue(n) ==
  /\ \E q \in {"new_txn", "work"} :
       /\ queue[n][q] # <<>>
       /\ queue' = [queue EXCEPT ![n][q] = Tail(@)]
  /\ UNCHANGED <<build, m_queue, buffer, wire, msgs, sent, delivered>>

Next ==
  \/ \E o \in Offers : enqueue(o)
  \/ \E n \in Node, t \in SendThd : run(n, t)
  \/ \E n \in Node, t \in SendThd, S \in SUBSET Node : check_and_send_batches(n, t, S)
  \/ \E n \in Node, r \in RemThd : \/ recv_msg(n, r)
                                   \/ server_recv_loop(n, r)
                                   \/ client_recv_loop(n, r)
  \/ \E n \in Node : dequeue(n)

\* Threads run until the end, and a waiting batch gets old: weak fairness of the output
\* threads, of the input threads and of the workers, each written with the condition
\* under which it can step and the variables its steps change.  Nothing is assumed about
\* which thread of a kind runs.
OutputCan ==
  \E n \in Node, t \in SendThd : \/ m_queue[n][dequeue_from(t)] # <<>>
                                  \/ \E d \in Node : Ready(buffer[n][t], {d})
InputCan ==
  \/ \E n \in Node, r \in RemThd : msgs[n][r] # <<>>
  \/ \E n \in Node, r \in RemThd : \E i \in sockets_of(n, r) : wire[n][recv_sockets(n)[i]] # <<>>
WorkerCan == \E n \in Node, q \in {"new_txn", "work"} : queue[n][q] # <<>>

Fairness ==
  /\ []<>(~OutputCan) \/ []<><<sent' = sent>>_<<m_queue, buffer>>
  /\ []<>(~InputCan) \/ []<><<TRUE>>_msgs
  /\ []<>(~WorkerCan) \/ []<><<msgs' = msgs>>_queue

Spec == Init /\ [][Next]_vars /\ Fairness

-----------------------------------------------------------------------------
(* What is checked *)

Packets ==
  {[src |-> o.src, thd |-> o.thd, dst |-> o.dst, m |-> Payload(o.b, NewMessage(o.b, o, i))] :
     o \in Offers, i \in 1..MaxSent}

TypeOK ==
  /\ \A n \in Node, t \in SendThd, d \in Node :
       /\ buffer[n][t][d].cnt \in 0..MaxSent
       /\ buffer[n][t][d].ptr \in BatchHeader..build.msg_size
       /\ \A c \in buffer[n][t][d].cells : c.at + c.w <= buffer[n][t][d].ptr
  /\ \A n \in Node : /\ DOMAIN msgs[n] = RemThd
                      /\ \A q \in DOMAIN queue[n] : Len(queue[n][q]) <= MaxSent
  /\ Len(sent) <= MaxSent

\* No message is lost, duplicated, changed or credited to another node on its way
\* through the queues, batches and sockets, whatever the class of the message and of the
\* ones batched with it: get_size, copy_to_buf and copy_from_buf agree.  In a CALVIN build
\* the messages of one thread to one node arrive in the order they were sent.
Net == INSTANCE Network WITH ordered <- Calvin(build), Packet <- Packets
ImplementsNetwork == Net!Spec

\* A handler never works with a field that the class's copy_from_txn or copy_from_query
\* left without a value.
NothingUnset ==
  \A n \in Node : \A k \in DOMAIN delivered[n] :
    LET m == delivered[n][k].m IN \A f \in DOMAIN m : m[f] # Uninit(f)

\* Every message enqueued is eventually handled by an input thread of its destination, and
\* what was put in the workers' queues is taken out of them: batches that are neither full
\* nor followed by another message are sent too.
EventuallyHandled ==
  []<>(/\ \A i \in DOMAIN sent : Net!Arrived(i)
       /\ \A n \in Node, q \in {"new_txn", "work"} : queue[n][q] = <<>>)
=============================================================================
