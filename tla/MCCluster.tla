----------------------------- MODULE MCCluster ------------------------------
(***************************************************************************)
(* Small instances of the parts of Cluster.                                *)
(***************************************************************************)
EXTENDS Cluster, TLC

CONSTANTS n1, n2, n3, t1

\* Commitment: queries of up to three groups of requests, over every set of
\* nodes.
Nodes == {n1, n2, n3}
Txns  == {t1}
Home  == [t \in Txns |-> n1]
Groups == UNION {[1..k -> Nodes] : k \in 1..3}
CommitBuilds == {"SSI", "NO_WAIT", "TICTOC"}

P == INSTANCE PPS WITH NodeCnt <- StepsNodeCnt

\* Steps: every payment and every order of up to MaxItems lines of a client of
\* node 0, on a warehouse a node; the PPS queries, on parts here and elsewhere.
Warehouses == 1..StepsNodeCnt
Keys  == 3..5
Lists == {<<>>, <<3, 6, 4, 5>>, <<4, 3>>}

StepQueries ==
  P!gen_payment(0, Warehouses) \cup P!gen_new_order(0, Warehouses)
  \cup P!gen_requests_parts(Keys) \cup P!gen_requests_updatepart(Keys)
  \cup P!gen_requests_products(0, Keys) \cup P!gen_requests_suppliers(0, Keys)
  \cup P!gen_requests_updateproductpart(0, Keys)
  \cup P!gen_requests_partsbyproduct(0, Keys, Lists)
  \cup P!gen_requests_partsbysupplier(0, Keys, {<<3, 5>>})
  \cup P!gen_requests_orderproduct(0, Keys, {<<4, 3>>})

\* Calvin: readers and a writer of one row, from one client and from two; two
\* transactions that read what the other writes, with reads exchanged; an
\* order with a line of another node, and a payment to the same district.
At(n, q)      == [node |-> n, q |-> q]
Ycsb(s, mode) == [workload |-> "YCSB", reqs |-> s, abort |-> mode]
R(key) == [key |-> key, acctype |-> "RD"]
W(key) == [key |-> key, acctype |-> "WR"]
Order   == CHOOSE q \in P!gen_new_order(0, {1, 2}) :
             Len(q.items) = 1 /\ q.items[1].supply = 2
Payment == CHOOSE q \in P!gen_payment(0, {1}) : TRUE

ClientLoads ==
  {{At(0, Ycsb(<<R(0)>>, FALSE)), At(0, Ycsb(<<W(0)>>, FALSE)), At(1, Ycsb(<<R(0)>>, FALSE))},
   {At(0, Ycsb(<<R(0)>>, FALSE)), At(0, Ycsb(<<W(0)>>, FALSE)), At(0, Ycsb(<<W(2)>>, FALSE))},
   {At(0, Ycsb(<<R(0), W(1)>>, TRUE)), At(1, Ycsb(<<R(1), W(0)>>, TRUE))},
   {At(0, Order), At(0, Payment)}}
=============================================================================
