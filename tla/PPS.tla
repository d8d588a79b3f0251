-------------------------------- MODULE PPS ---------------------------------
(***************************************************************************)
(* The transactions on products, parts and suppliers, step by step.  A     *)
(* query is a record with txn_type, key (product, supplier or part) and    *)
(* parts, the part keys of the rows that USES or SUPPLIES has for the key. *)
(* (The CALVIN build of this workload does not compile, as process_txn     *)
(* uses a variable that is not declared, sequencer.cpp:251.)               *)
(***************************************************************************)
EXTENDS Naturals, Sequences, SequencesExt, TPCC

\* parts_to_partition, products_to_partition and suppliers_to_partition
KeyNode(key) == key % NodeCnt

ByPart == {"GETPARTBYPRODUCT", "GETPARTBYSUPPLIER", "ORDERPRODUCT"}

PpsQuery(type, key, parts) ==
  [workload |-> "PPS", txn_type |-> type, key |-> key, parts |-> parts,
   items |-> <<>>]

\* The queries of node n's clients (FIRST_PART_LOCAL).  gen_requests_parts and
\* gen_requests_updatepart may as well take a part of another node; the other
\* kinds must not, as a remote request always goes to the node of a part.
gen_requests_parts(Key) == {PpsQuery("GETPART", k, <<>>) : k \in Key}
gen_requests_updatepart(Key) == {PpsQuery("UPDATEPART", k, <<>>) : k \in Key}
gen_requests_products(n, Key) ==
  {PpsQuery("GETPRODUCT", k, <<>>) : k \in {x \in Key : KeyNode(x) = n}}
gen_requests_suppliers(n, Key) ==
  {PpsQuery("GETSUPPLIER", k, <<>>) : k \in {x \in Key : KeyNode(x) = n}}
gen_requests_updateproductpart(n, Key) ==
  {PpsQuery("UPDATEPRODUCTPART", k, <<>>) : k \in {x \in Key : KeyNode(x) = n}}
gen_requests_partsbyproduct(n, Key, Lists) ==
  {PpsQuery("GETPARTBYPRODUCT", k, s) : k \in {x \in Key : KeyNode(x) = n}, s \in Lists}
gen_requests_partsbysupplier(n, Key, Lists) ==
  {PpsQuery("GETPARTBYSUPPLIER", k, s) : k \in {x \in Key : KeyNode(x) = n}, s \in Lists}
gen_requests_orderproduct(n, Key, Lists) ==
  {PpsQuery("ORDERPRODUCT", k, s) : k \in {x \in Key : KeyNode(x) = n}, s \in Lists}
-----------------------------------------------------------------------------
pps_is_done(m) == m.state = Fin

\* m.row: whether the last index_read found a row.
next_pps_state(q, m, local) ==
  LET t == m.state[1]
      k == m.state[2]
      to(s) == [m EXCEPT !.state = s]
  IN  CASE t \notin ByPart /\ k = 0 -> to(<<t, 1>>)
        [] t \notin ByPart /\ k = 1 -> to(Fin)
        [] t \in ByPart /\ k = 2 ->
             IF m.row /\ (t = "ORDERPRODUCT" => ~ local)
             THEN [to(<<t, 3>>) EXCEPT !.next = @ + 1] ELSE to(Fin)
        [] t \in ByPart /\ k = 5 -> IF local THEN to(<<t, 2>>) ELSE to(Fin)
        [] OTHER -> to(<<t, k + 1>>)

\* The steps that get a row.
run_getpart_0(q)      == Access(<<"PARTS", q.key>>, "RD", FALSE)
run_getproduct_0(q)   == Access(<<"PRODUCTS", q.key>>, "RD", FALSE)
run_getsupplier_0(q)  == Access(<<"SUPPLIERS", q.key>>, "RD", FALSE)
run_getpartsbyproduct_2(q, m)  == Access(<<"USES", q.key, m.next + 1>>, "RD", FALSE)
run_getpartsbysupplier_2(q, m) == Access(<<"SUPPLIES", q.key, m.next + 1>>, "RD", FALSE)
run_getparts_4(m)     == Access(<<"PARTS", m.part>>, "RD", FALSE)
run_orderproduct_2(q, m) == run_getpartsbyproduct_2(q, m)
run_orderproduct_4(m) == Access(<<"PARTS", m.part>>, "WR", TRUE)
run_updateproductpart_0(q) == Access(<<"USES", q.key, 1>>, "WR", TRUE)
run_updatepart_0(q)   == Access(<<"PARTS", q.key>>, "WR", TRUE)

\* What the state of m gets: nothing in the odd states, and nothing when the
\* key has no more rows.
pps_access(q, m) ==
  LET t == m.state[1]
      first == CASE t \in {"GETPRODUCT", "GETPARTBYPRODUCT", "ORDERPRODUCT"} ->
                      run_getproduct_0(q)
                 [] t \in {"GETSUPPLIER", "GETPARTBYSUPPLIER"} -> run_getsupplier_0(q)
                 [] t = "GETPART" -> run_getpart_0(q)
                 [] t = "UPDATEPART" -> run_updatepart_0(q)
                 [] t = "UPDATEPRODUCTPART" -> run_updateproductpart_0(q)
      more  == CASE t = "GETPARTBYPRODUCT"  -> run_getpartsbyproduct_2(q, m)
                 [] t = "GETPARTBYSUPPLIER" -> run_getpartsbysupplier_2(q, m)
                 [] t = "ORDERPRODUCT" -> run_orderproduct_2(q, m)
      part  == IF t = "ORDERPRODUCT" THEN run_orderproduct_4(m) ELSE run_getparts_4(m)
  IN  CASE m.state[2] = 0 -> {first}
        [] m.state[2] = 2 -> IF m.next < Len(q.parts) THEN {more} ELSE {}
        [] m.state[2] = 4 -> {part}
        [] OTHER -> {}

\* What the step leaves in the manager: whether there was a row, and in state
\* 3 the part key of that row.
pps_step(q, m) ==
  CASE m.state[2] = 2 -> [m EXCEPT !.row = m.next < Len(q.parts)]
    [] m.state[2] = 3 -> [m EXCEPT !.part = q.parts[m.next]]
    [] OTHER -> m

\* The node the state of m has to run on; n when any will do.
pps_node(q, m, n) ==
  CASE m.state[2] = 0 \/ m.state[2] = 2 -> KeyNode(q.key)
    [] m.state[2] = 4 -> KeyNode(m.part)
    [] OTHER -> n

\* A remote request: the state goes to the node of the part, and the home has
\* nothing left to do.
pps_send_remote_request(m) == [m EXCEPT !.state = Fin]
=============================================================================
