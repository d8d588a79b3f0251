-------------------------------- MODULE TPCC --------------------------------
(***************************************************************************)
(* The TPC-C transactions as the server runs them: the rows every step     *)
(* gets, the order of the steps, what is sent to another node, and the     *)
(* locks and phases of the same transactions in the CALVIN build.  A query *)
(* is a record with txn_type, w (w_id, also d_w_id), c_w and items, the    *)
(* lines of the order; a line is [i |-> ol_i_id, supply |-> ol_supply_w_id]*)
(***************************************************************************)
EXTENDS Naturals, Sequences, FiniteSets, SequencesExt

CONSTANTS
  NodeCnt,       \* g_node_cnt, also the number of partitions
  g_wh_update,   \* whether a payment adds to the warehouse's total
  MaxItems,      \* bound on ol_cnt
  g_part_per_txn \* partitions a new order may have

\* GET_NODE_ID(wh_to_part(w))
WhNode(w) == (w - 1) % NodeCnt

Fin == <<"FIN", 0>>

\* A call of get_row: the row, the type it asks for, and whether the step
\* after it sets a field of the row.
Access(row, get, set) == [row |-> row, get |-> get, set |-> set]

run_payment_0(q) == Access(<<"WAREHOUSE", q.w>>,
                           IF g_wh_update THEN "WR" ELSE "RD", g_wh_update)
run_payment_2(q) == Access(<<"DISTRICT", q.w>>, "RD", TRUE)
run_payment_4(q) == Access(<<"CUSTOMER", q.c_w>>, "RD", TRUE)
new_order_0(q)   == Access(<<"WAREHOUSE", q.w>>, "RD", FALSE)
new_order_2(q)   == Access(<<"CUSTOMER", q.w>>, "RD", FALSE)
new_order_4(q)   == Access(<<"DISTRICT", q.w>>, "RD", TRUE)
new_order_6(l, n) == Access(<<"ITEM", l.i, n>>, "RD", FALSE)  \* one copy a node
new_order_8(l)   == Access(<<"STOCK", l.i, l.supply>>, "RD", TRUE)

\* The payments and orders a client of node n asks for: the warehouse is one
\* of the node's (SINGLE_PART), the customer of a payment is always of it, the
\* lines come from at most g_part_per_txn partitions.
gen_payment(n, Wh) ==
  {[workload |-> "TPCC", txn_type |-> "PAYMENT", w |-> w, c_w |-> w,
    items |-> <<>>] : w \in {x \in Wh : WhNode(x) = n}}

gen_new_order(n, Wh) ==
  {[workload |-> "TPCC", txn_type |-> "NEWORDER", w |-> w, c_w |-> w,
    items |-> [k \in 1..Len(s) |-> [i |-> k, supply |-> s[k]]]] :
     w \in {x \in Wh : WhNode(x) = n},
     s \in {x \in SeqOf(Wh, MaxItems) :
              x # <<>> /\ Cardinality({WhNode(x[k]) : k \in 1..Len(x)} \cup {n})
                            <= g_part_per_txn}}
-----------------------------------------------------------------------------
(* Step by step, in every build but CALVIN.  m is the transaction manager. *)

tpcc_is_done(q, m) ==
  \/ m.state = Fin
  \/ q.txn_type = "NEWORDER" /\ m.next >= Len(m.items)

\* local: whether the manager is the one of the home node.
next_tpcc_state(q, m, local) ==
  LET k == m.state[2]
      next == IF m.state = <<"NEWORDER", 9>> THEN m.next + 1 ELSE m.next
      last == tpcc_is_done(q, [m EXCEPT !.next = next]) /\ local
  IN  [m EXCEPT
        !.next = next,
        !.state = CASE m.state = <<"PAYMENT", 5>> -> Fin
                    [] m.state = <<"NEWORDER", 5>> \/ m.state = <<"NEWORDER", 9>> ->
                         IF last THEN Fin ELSE <<"NEWORDER", 6>>
                    [] OTHER -> <<m.state[1], k + 1>>]

\* What the state of m gets at node n: nothing in the odd states.
tpcc_access(q, m, n) ==
  LET l == m.items[m.next + 1] IN
  CASE m.state = <<"PAYMENT", 0>>  -> {run_payment_0(q)}
    [] m.state = <<"PAYMENT", 2>>  -> {run_payment_2(q)}
    [] m.state = <<"PAYMENT", 4>>  -> {run_payment_4(q)}
    [] m.state = <<"NEWORDER", 0>> -> {new_order_0(q)}
    [] m.state = <<"NEWORDER", 2>> -> {new_order_2(q)}
    [] m.state = <<"NEWORDER", 4>> -> {new_order_4(q)}
    [] m.state = <<"NEWORDER", 6>> -> {new_order_6(l, n)}
    [] m.state = <<"NEWORDER", 8>> -> {new_order_8(l)}
    [] OTHER -> {}

\* The node the state of m has to run on; n when any will do.
tpcc_node(q, m, n) ==
  CASE m.state \in {<<"PAYMENT", 0>>, <<"NEWORDER", 0>>} -> WhNode(q.w)
    [] m.state = <<"PAYMENT", 4>>  -> WhNode(q.c_w)
    [] m.state = <<"NEWORDER", 8>> -> WhNode(m.items[m.next + 1].supply)
    [] OTHER -> n

is_local_item(m, k, n) == WhNode(m.items[k].supply) = n

\* How many of the lines from next on go in one message: all that come from
\* the same node, which is not this one.
copy_remote_items(m, n) ==
  LET dest == WhNode(m.items[m.next + 1].supply)
      here(k) == ~ is_local_item(m, k, n) /\ WhNode(m.items[k].supply) = dest
  IN  CHOOSE c \in 0..Len(m.items) - m.next :
        /\ \A k \in m.next + 1..m.next + c : here(k)
        /\ m.next + c < Len(m.items) => ~ here(m.next + c + 1)

\* Asking the node of the state: the lines it gets, and the manager after.
\* The next state is chosen before the lines are counted.
tpcc_send_remote_request(q, m, n) ==
  LET cnt  == IF q.txn_type = "NEWORDER" THEN copy_remote_items(m, n) ELSE 0
      next == CASE m.state = <<"PAYMENT", 0>>  -> <<"PAYMENT", 2>>
                [] m.state = <<"PAYMENT", 4>>  -> Fin
                [] m.state = <<"NEWORDER", 0>> -> <<"NEWORDER", 6>>
                [] m.state = <<"NEWORDER", 8>> ->
                     IF tpcc_is_done(q, m) THEN Fin ELSE <<"NEWORDER", 6>>
  IN  [items |-> SubSeq(m.items, m.next + 1, m.next + cnt),
       m     |-> [m EXCEPT !.next = @ + cnt, !.state = next]]
-----------------------------------------------------------------------------
(* In one go, in the CALVIN build.                                          *)

\* The nodes the sequencer sends the query to.
tpcc_participants(q) ==
  {WhNode(q.w)} \cup IF q.txn_type = "PAYMENT" THEN {WhNode(q.c_w)}
                     ELSE {WhNode(q.items[k].supply) : k \in 1..Len(q.items)}

\* The nodes that read and those that write, as each node finds them.
tpcc_get_participants(q) ==
  LET S == {WhNode(q.w)} \cup
           (IF q.txn_type = "PAYMENT" THEN {WhNode(q.c_w)} ELSE {}) \cup
           {WhNode(q.items[k].supply) : k \in 1..Len(q.items)}
  IN  [participant |-> S, active |-> S]

LockOf(a, type) == [row |-> a.row, type |-> type]

\* The lines supplied by node n, in order.
LinesAt(q, n) == SelectSeq(q.items, LAMBDA l : WhNode(l.supply) = n)

\* The locks node n takes, in the order it takes them.
tpcc_acquire_locks(q, n) ==
  LET atw == WhNode(q.w) = n
      ls  == LinesAt(q, n)
  IN  IF q.txn_type = "PAYMENT"
      THEN (IF atw THEN <<LockOf(run_payment_0(q), IF g_wh_update THEN "WR" ELSE "RD"),
                          LockOf(run_payment_2(q), "WR")>> ELSE <<>>)
           \o (IF WhNode(q.c_w) = n THEN <<LockOf(run_payment_4(q), "WR")>> ELSE <<>>)
      ELSE (IF atw THEN <<LockOf(new_order_0(q), "RD"), LockOf(new_order_2(q), "RD"),
                          LockOf(new_order_4(q), "WR")>> ELSE <<>>)
           \o FlattenSeq([k \in 1..Len(ls) |->
                <<LockOf(new_order_6(ls[k], n), "RD"), LockOf(new_order_8(ls[k]), "WR")>>])

\* What a step does to the row it got.
Touch(a) == [row |-> a.row, type |-> IF a.set THEN "WR" ELSE "RD"]
Got(a)   == [row |-> a.row, type |-> "RD"]

\* Phase 2, the reads of node n.
run_tpcc_phase2(q, n) ==
  LET ls == LinesAt(q, n)
  IN  IF q.txn_type = "PAYMENT" THEN <<>>
      ELSE (IF WhNode(q.w) = n
            THEN <<Got(new_order_0(q)), Got(new_order_2(q)), Got(new_order_4(q))>>
            ELSE <<>>)
           \o [k \in 1..Len(ls) |-> Got(new_order_6(ls[k], n))]

\* Phase 5, the rest.  new_order_5 counts the order in the row the manager
\* has, which is the last that phase 2 got: a line's item if the node
\* supplies one, not the district.
run_tpcc_phase5(q, n) ==
  LET ls  == LinesAt(q, n)
      row == Last(run_tpcc_phase2(q, n)).row
  IN  IF q.txn_type = "PAYMENT"
      THEN (IF WhNode(q.w) = n THEN <<Touch(run_payment_0(q)), Touch(run_payment_2(q))>>
            ELSE <<>>)
           \o (IF WhNode(q.c_w) = n THEN <<Touch(run_payment_4(q))>> ELSE <<>>)
      ELSE (IF WhNode(q.w) = n THEN <<[row |-> row, type |-> "WR"]>> ELSE <<>>)
           \o [k \in 1..Len(ls) |-> Touch(new_order_8(ls[k]))]
=============================================================================
