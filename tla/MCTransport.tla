---------------------------- MODULE MCTransport ----------------------------
EXTENDS Transport

Of(alg, wl, msg_size) == [alg |-> alg, wl |-> wl, msg_size |-> msg_size]

\* every layout the message classes have; msg_size holds the largest message and is
\* too small for two of them
MCBuilds ==
  {Of("CALVIN", "YCSB", 260), Of("CALVIN", "TPCC", 400), Of("CALVIN", "PPS", 300),
   Of("NO_WAIT", "YCSB", 800), Of("WAIT_DIE", "TPCC", 400), Of("OCC", "PPS", 300),
   Of("MAAT", "YCSB", 260), Of("WOOKONG", "PPS", 300), Of("SILO", "YCSB", 260),
   Of("TICTOC", "TPCC", 400), Of("SSI", "YCSB", 260), Of("NO_WAIT", "DA", 260)}

\* s sends d messages of type rtype, with lists of n elements
From(b, s, d, rtype, type, n, isdata) ==
  [b |-> b, src |-> s, thd |-> 0, dst |-> d, rtype |-> rtype, txn_type |-> type, n |-> n, isdata |-> isdata]

TxnTypes(b) ==
  CASE b.wl = "TPCC" -> {"TPCC_PAYMENT", "TPCC_NEW_ORDER"}
    [] b.wl = "PPS" -> {"GETPART", "GETPRODUCT", "GETSUPPLIER", "ORDERPRODUCT"}
    [] OTHER -> {"none"}

OffersOf(b) ==
  {From(b, 2, 1, "CL_QRY", type, n, 0) : type \in TxnTypes(b), n \in {2}}
  \cup {From(b, 1, 2, "CL_RSP", "none", 0, 0)}
  \cup (IF b.alg = "CALVIN"
        THEN {From(b, 0, 1, "CL_QRY", type, 1, 0) : type \in TxnTypes(b)}
             \cup {[From(b, 0, 1, rtype, "none", 1, 0) EXCEPT !.thd = t] :
                      rtype \in {"RFWD", "CALVIN_ACK"}, t \in {0, 1}}
             \cup {From(b, 0, 1, "RDONE", "none", 1, 0)}
        ELSE {From(b, 0, 1, "RQRY", type, 2, 0) : type \in TxnTypes(b)}
             \cup {From(b, 0, 1, rtype, "none", 0, 0) :
                      rtype \in {"RQRY_RSP", "RPREPARE", "RACK_PREP", "RFIN", "RACK_FIN", "INIT_DONE"}})
  \cup (IF b.wl = "YCSB" /\ b.alg = "NO_WAIT"
        THEN {From(b, 2, 1, "SEND_MIGRATION", "none", 2, 0), From(b, 1, 2, "SET_MINIPARTMAP", "none", 0, 0),
              From(b, 0, 1, "RECV_MIGRATION", "none", 1, 1), From(b, 1, 2, "SET_PARTMAP", "none", 0, 0)}
        ELSE {})

MCOffers == UNION {OffersOf(b) : b \in MCBuilds}
=============================================================================
