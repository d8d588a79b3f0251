---------------------------- MODULE QueryMessage ----------------------------
(***************************************************************************)
(* The wire format of transport/message.cpp: the header every message      *)
(* carries and the two families of query messages.  A build b is a record  *)
(* [alg |-> CC_ALG, wl |-> WORKLOAD]; a message is a record of its fields. *)
(*                                                                         *)
(* For every class three methods are written separately in the code and    *)
(* must agree: get_size, copy_to_buf and copy_from_buf.  X_size is a       *)
(* number of bytes; X_to and X_from are layouts, sets of [f, at, w]: field *)
(* f takes w bytes at offset at.  X_from is what can be read knowing the   *)
(* fields already in m: a list is read once its length is known, a branch  *)
(* once txn_type is.  X_sets are the fields that copy_from_txn or          *)
(* copy_from_query assigns, X_uses the ones copy_to_txn puts into the      *)
(* transaction.  The seven latency statistics are one field of 56 bytes;   *)
(* a vector is one field, its element width times its size.                *)
(***************************************************************************)
EXTENDS Integers, Sequences

Tpcc_payment == "TPCC_PAYMENT"
Tpcc_new_order == "TPCC_NEW_ORDER"

Calvin(b) == b.alg = "CALVIN"
HasTs(b) == b.alg \in {"WAIT_DIE", "TIMESTAMP", "MVCC", "WOOKONG", "DTA"}
HasStartTs(b) ==
  b.alg \in {"OCC", "FOCC", "BOCC", "SSI", "WSI", "DLI_BASE", "DLI_OCC", "DLI_MVCC_OCC",
             "DLI_DTA", "DLI_DTA2", "DLI_DTA3", "DLI_MVCC"}

When(c, fs) == IF c THEN fs ELSE <<>>
Bytes(c, n) == IF c THEN n ELSE 0
Known(m, f) == f \in DOMAIN m
After(c, layout) == IF c THEN layout ELSE {}

\* sizeof of a field; ycsb_request and Item_no are 24 bytes, LASTNAME_LEN is 16
Width(f, m) ==
  CASE f \in {"rtype", "rc", "da_type"} -> 4
    [] f \in {"by_last_name", "rbk", "remote", "readonly", "recon", "isdata", "islast"} -> 1
    [] f = "c_last" -> 16
    [] f = "lat" -> 56
    [] f = "requests" -> 24 * m.requests_size
    [] f = "items" -> 24 * m.items_size
    [] f = "partitions" -> 8 * m.partitions_size
    [] f = "part_keys" -> 8 * m.part_keys_size
    [] f = "mig_order" -> 8 * m.mig_order_size
    [] OTHER -> 8

\* COPY_BUF / COPY_VAL of the fields fs one after the other from offset ptr
Place(ptr, fs, m) ==
  LET end[i \in 0..Len(fs)] == IF i = 0 THEN ptr ELSE end[i - 1] + Width(fs[i], m)
  IN  {[f |-> fs[i], at |-> end[i - 1], w |-> Width(fs[i], m)] : i \in DOMAIN fs}

-----------------------------------------------------------------------------
(* class Message: the header *)

mget_size(b) == 4 + 8 + Bytes(Calvin(b), 8) + 8 + 7 * 8
mcopy_to_buf(b, m) ==
  Place(0, <<"rtype", "txn_id">> \o When(Calvin(b), <<"batch_id">>) \o <<"mq_time", "lat">>, m)
mcopy_from_buf(b, m) ==
  Place(0, <<"rtype", "txn_id">> \o When(Calvin(b), <<"batch_id">>) \o <<"mq_time", "lat">>, m)
\* create_message(rtype) gives every header field a value
Message_sets(b) == {"rtype", "txn_id", "batch_id", "mq_time", "lat"}

-----------------------------------------------------------------------------
(* class QueryMessage: a piece of a transaction sent to another server (RQRY) *)

Query_size(b) == mget_size(b) + Bytes(HasTs(b), 8) + Bytes(HasStartTs(b), 8)
Query_to(b, m) ==
  mcopy_to_buf(b, m)
  \cup Place(mget_size(b), When(HasTs(b), <<"ts">>) \o When(HasStartTs(b), <<"start_ts">>), m)
Query_from(b, m) ==
  mcopy_from_buf(b, m)
  \cup Place(mget_size(b), When(HasTs(b), <<"ts">>) \o When(HasStartTs(b), <<"start_ts">>), m)
Query_setsNoStartTs(b) == Message_sets(b) \cup (IF HasTs(b) THEN {"ts"} ELSE {})
Query_sets(b) ==
  Message_sets(b) \cup (IF HasTs(b) THEN {"ts"} ELSE {})
                  \cup (IF HasStartTs(b) THEN {"start_ts"} ELSE {})
Query_uses(b) == (IF HasTs(b) THEN {"ts"} ELSE {}) \cup (IF HasStartTs(b) THEN {"start_ts"} ELSE {})

YCSBQuery_size(b, m) == Query_size(b) + 8 + 24 * m.requests_size
YCSBQuery_to(b, m) ==
  Query_to(b, m) \cup Place(Query_size(b), <<"requests_size", "requests">>, m)
YCSBQuery_from(b, m) ==
  Query_from(b, m)
  \cup Place(Query_size(b),
             <<"requests_size">> \o When(Known(m, "requests_size"), <<"requests">>), m)
YCSBQuery_sets(b) == Query_sets(b) \cup {"requests_size", "requests"}
YCSBQuery_uses(b) == Query_uses(b) \cup {"requests"}

PaymentFields == <<"d_w_id", "c_w_id", "c_d_id", "c_last", "h_amount", "by_last_name">>
CommonFields == <<"txn_type", "state", "w_id", "d_id", "c_id">>

TPCCQuery_size(b, m) ==
  Query_size(b) + 8 + 8 + 8 * 3
  + Bytes(m.txn_type = Tpcc_payment, 8 * 4 + 16 + 1)
  + Bytes(m.txn_type = Tpcc_new_order, 8 * 2 + 2 + 24 * m.items_size + 8)
TPCCQuery_to(b, m) ==
  Query_to(b, m)
  \cup Place(Query_size(b),
             CommonFields
             \o When(m.txn_type = Tpcc_payment, PaymentFields)
             \o When(m.txn_type = Tpcc_new_order,
                     <<"items_size", "items", "rbk", "remote", "ol_cnt", "o_entry_d">>), m)
TPCCQuery_from(b, m) ==
  LET type == IF Known(m, "txn_type") THEN m.txn_type ELSE ""
  IN  Query_from(b, m)
      \cup Place(Query_size(b),
                 CommonFields
                 \o When(type = Tpcc_payment, PaymentFields)
                 \o When(type = Tpcc_new_order,
                         <<"items_size">> \o When(Known(m, "items_size"),
                            <<"items", "rbk", "remote", "ol_cnt", "o_entry_d">>)), m)
TPCCQuery_sets(b, type) ==
  Query_sets(b) \cup {"txn_type", "state", "w_id", "d_id", "c_id"}
  \cup (IF type = Tpcc_payment
        THEN {"d_w_id", "c_w_id", "c_d_id", "c_last", "h_amount", "by_last_name"}
        ELSE {"items_size", "items", "rbk", "remote", "ol_cnt", "o_entry_d"})
TPCCQuery_uses(b, type) ==
  Query_uses(b) \cup {"txn_type", "state", "w_id", "d_id", "c_id"}
  \cup (IF type = Tpcc_payment
        THEN {"d_w_id", "c_w_id", "c_d_id", "c_last", "h_amount", "by_last_name"}
        ELSE {"items", "rbk", "remote", "ol_cnt", "o_entry_d"})

\* the one key a PPS request carries, by its type
PPSKeyTo(type) ==
  CASE type \in {"GETPART", "GETPARTBYPRODUCT", "GETPARTBYSUPPLIER", "ORDERPRODUCT",
                 "UPDATEPART"} -> <<"part_key">>
    [] type \in {"GETPRODUCT", "UPDATEPRODUCTPART"} -> <<"product_key">>
    [] type = "GETSUPPLIER" -> <<"supplier_key">>
    [] OTHER -> <<>>
PPSKeyFrom(type) ==
  CASE type \in {"GETPART", "GETPARTBYPRODUCT", "GETPARTBYSUPPLIER", "ORDERPRODUCT",
                 "UPDATEPART"} -> <<"part_key">>
    [] type \in {"GETPRODUCT", "UPDATEPRODUCTPART"} -> <<"product_key">>
    [] type = "GETSUPPLIER" -> <<"supplier_key">>
    [] OTHER -> <<>>

PPSQuery_size(b, m) == Query_size(b) + 8 + 8 + 8 + 8 + 8 * m.part_keys_size
PPSQuery_to(b, m) ==
  Query_to(b, m)
  \cup Place(Query_size(b),
             <<"txn_type", "state">> \o PPSKeyTo(m.txn_type) \o <<"part_keys_size", "part_keys">>, m)
PPSQuery_from(b, m) ==
  Query_from(b, m)
  \cup Place(Query_size(b),
             <<"txn_type", "state">>
             \o When(Known(m, "txn_type"),
                     PPSKeyFrom(m.txn_type) \o <<"part_keys_size">>
                     \o When(Known(m, "part_keys_size"), <<"part_keys">>)), m)
PPSQuery_sets(b, type) ==
  Query_sets(b) \cup {"txn_type", "state", "part_keys_size", "part_keys"}
                \cup {PPSKeyTo(type)[i] : i \in DOMAIN PPSKeyTo(type)}
PPSQuery_uses(b, type) ==
  Query_uses(b) \cup {"txn_type", "state", "part_keys"}
                \cup {PPSKeyFrom(type)[i] : i \in DOMAIN PPSKeyFrom(type)}

DAQuery_size(b) == Query_size(b) + 4 + 8 * 7
DAQuery_to(b, m) ==
  Query_to(b, m)
  \cup Place(Query_size(b), <<"da_type", "trans_id", "item_id", "seq_id", "write_version",
                              "state", "next_state", "last_state">>, m)
DAQuery_from(b, m) ==
  Query_from(b, m)
  \cup Place(Query_size(b), <<"da_type", "trans_id", "item_id", "seq_id", "write_version",
                              "state", "next_state", "last_state">>, m)
\* copy_from_txn takes the header only from its base class: ts and start_ts stay unset
DAQuery_sets(b) ==
  Message_sets(b) \cup {"da_type", "trans_id", "item_id", "seq_id", "write_version", "state",
                        "next_state", "last_state"}
DAQuery_uses(b) ==
  Query_uses(b) \cup {"da_type", "trans_id", "item_id", "seq_id", "write_version", "state",
                      "next_state", "last_state"}

-----------------------------------------------------------------------------
(* class ClientQueryMessage: a whole transaction, from a client or between  *)
(* Calvin's sequencers and schedulers (CL_QRY)                              *)

ClientQuery_size(b, m) == mget_size(b) + 8 + 8 + 8 * m.partitions_size
ClientQuery_to(b, m) ==
  mcopy_to_buf(b, m)
  \cup Place(mget_size(b), <<"client_startts", "partitions_size", "partitions">>, m)
ClientQuery_from(b, m) ==
  mcopy_from_buf(b, m)
  \cup Place(mget_size(b), <<"client_startts", "partitions_size">>
                           \o When(Known(m, "partitions_size"), <<"partitions">>), m)
\* ClientThread::run sets client_startts after copy_from_query
ClientQuery_sets(b) ==
  Message_sets(b) \cup {"client_startts", "partitions_size", "partitions"}
ClientQuery_uses(b) == {"client_startts", "partitions"}

YCSBClientQuery_size(b, m) == ClientQuery_size(b, m) + 8 + 24 * m.requests_size
YCSBClientQuery_to(b, m) ==
  ClientQuery_to(b, m) \cup Place(ClientQuery_size(b, m), <<"requests_size", "requests">>, m)
YCSBClientQuery_from(b, m) ==
  ClientQuery_from(b, m)
  \cup After(Known(m, "partitions_size"),
             Place(ClientQuery_size(b, m),
                   <<"requests_size">> \o When(Known(m, "requests_size"), <<"requests">>), m))
YCSBClientQuery_sets(b) == ClientQuery_sets(b) \cup {"requests_size", "requests"}
YCSBClientQuery_uses(b) == ClientQuery_uses(b) \cup {"requests"}

TPCCClientFields == <<"txn_type", "w_id", "d_id", "c_id">> \o PaymentFields
NewOrderFields == <<"rbk", "remote", "ol_cnt", "o_entry_d">>

TPCCClientQuery_size(b, m) ==
  ClientQuery_size(b, m) + 8 * 10 + 16 + 3 + 8 + 24 * m.items_size
TPCCClientQuery_to(b, m) ==
  ClientQuery_to(b, m)
  \cup Place(ClientQuery_size(b, m),
             TPCCClientFields \o <<"items_size", "items">> \o NewOrderFields, m)
TPCCClientQuery_from(b, m) ==
  ClientQuery_from(b, m)
  \cup After(Known(m, "partitions_size"),
             Place(ClientQuery_size(b, m),
                   TPCCClientFields \o <<"items_size">>
                   \o When(Known(m, "items_size"), <<"items">> \o NewOrderFields), m))
TPCCClientQuery_sets(b) ==
  ClientQuery_sets(b) \cup {"txn_type", "w_id", "d_id", "c_id", "d_w_id", "c_w_id", "c_d_id",
                            "c_last", "h_amount", "by_last_name", "items_size", "items", "rbk",
                            "remote", "ol_cnt", "o_entry_d"}
TPCCClientQuery_uses(b) ==
  ClientQuery_uses(b) \cup {"txn_type", "w_id", "d_id", "c_id", "d_w_id", "c_w_id", "c_d_id",
                            "c_last", "h_amount", "by_last_name", "items", "rbk", "remote",
                            "ol_cnt", "o_entry_d"}

PPSClientFields == <<"txn_type", "part_key", "product_key", "supplier_key">>

PPSClientQuery_size(b, m) ==
  ClientQuery_size(b, m) + 8 + 8 * 3 + 8 + 8 * m.part_keys_size + Bytes(Calvin(b), 1)
PPSClientQuery_to(b, m) ==
  ClientQuery_to(b, m)
  \cup Place(ClientQuery_size(b, m),
             PPSClientFields \o <<"part_keys_size", "part_keys">>
             \o When(Calvin(b), <<"recon">>), m)
PPSClientQuery_from(b, m) ==
  ClientQuery_from(b, m)
  \cup After(Known(m, "partitions_size"),
             Place(ClientQuery_size(b, m),
                   PPSClientFields \o <<"part_keys_size">>
                   \o When(Known(m, "part_keys_size"),
                           <<"part_keys">> \o When(Calvin(b), <<"recon">>)), m))
\* recon is assigned by the sequencer, before the message goes to the schedulers
PPSClientQuery_sets(b) ==
  ClientQuery_sets(b) \cup {"txn_type", "part_key", "product_key", "supplier_key",
                            "part_keys_size", "part_keys"} \cup {"recon"}
PPSClientQuery_uses(b) ==
  ClientQuery_uses(b) \cup {"txn_type", "part_key", "product_key", "supplier_key", "part_keys"}
                      \cup (IF Calvin(b) THEN {"recon"} ELSE {})

DAClientQuery_size(b, m) == ClientQuery_size(b, m) + 4 + 8 * 7
DAClientQuery_to(b, m) ==
  ClientQuery_to(b, m)
  \cup Place(ClientQuery_size(b, m), <<"da_type", "trans_id", "item_id", "seq_id",
                                       "write_version", "state", "next_state", "last_state">>, m)
DAClientQuery_from(b, m) ==
  ClientQuery_from(b, m)
  \cup After(Known(m, "partitions_size"),
             Place(ClientQuery_size(b, m),
                   <<"da_type", "trans_id", "item_id", "seq_id", "write_version", "state",
                     "next_state", "last_state">>, m))
DAClientQuery_sets(b) ==
  ClientQuery_sets(b) \cup {"da_type", "trans_id", "item_id", "seq_id", "write_version", "state",
                            "next_state", "last_state"}
DAClientQuery_uses(b) ==
  ClientQuery_uses(b) \cup {"da_type", "trans_id", "item_id", "seq_id", "write_version", "state",
                            "next_state", "last_state"}
=============================================================================
