------------------------------- MODULE Message -------------------------------
(***************************************************************************)
(* The messages of the commit, Calvin and migration protocols, the switch  *)
(* of Message::create_message over the message types, and the conversion   *)
(* of a message to bytes and back.  A buffer is a set of cells             *)
(* [f, at, w, val]: val, of field f, in w bytes at offset at.  Reading     *)
(* bytes that do not hold exactly the field asked for gives Junk.          *)
(***************************************************************************)
EXTENDS QueryMessage

PART_SPLIT_CNT == 4          \* g_part_split_cnt
SizeofRow == 64              \* sizeof(row_t)
SizeofString == 32           \* sizeof(std::string)
MAX_TUPLE_SIZE == 512
SizeofRecord == 64           \* sizeof(LogRecord)
BatchHeader == 4 * 3 + 8     \* dest, sender, count, send time

HasRange(b) == b.alg \in {"MAAT", "WOOKONG", "DTA", "DLI_DTA", "DLI_DTA2", "DLI_DTA3"}
HasCommitTs(b) ==
  b.alg \in {"MAAT", "WOOKONG", "SSI", "WSI", "DTA", "DLI_DTA", "DLI_DTA2", "DLI_DTA3",
             "DLI_MVCC_OCC", "DLI_MVCC", "SILO"}
Tictoc(b) == b.alg = "TICTOC"
PPSCalvin(b) == b.wl = "PPS" /\ Calvin(b)
If(c, s) == IF c THEN s ELSE {}

-----------------------------------------------------------------------------
(* The protocol messages.  Done, LogRsp, LogFlushed and InitDone are the    *)
(* header alone.                                                            *)

ClientResponse_size(b) == mget_size(b) + 8
ClientResponse_to(b, m) == mcopy_to_buf(b, m) \cup Place(mget_size(b), <<"client_startts">>, m)
ClientResponse_from(b, m) == mcopy_from_buf(b, m) \cup Place(mget_size(b), <<"client_startts">>, m)
ClientResponse_sets(b) == Message_sets(b) \cup {"client_startts"}

Forward_size(b) == mget_size(b) + 4 + Bytes(b.wl = "TPCC", 8)
Forward_to(b, m) ==
  mcopy_to_buf(b, m) \cup Place(mget_size(b), <<"rc">> \o When(b.wl = "TPCC", <<"o_id">>), m)
Forward_from(b, m) ==
  mcopy_from_buf(b, m) \cup Place(mget_size(b), <<"rc">> \o When(b.wl = "TPCC", <<"o_id">>), m)
Forward_sets(b) == Message_sets(b) \cup {"rc"} \cup If(b.wl = "TPCC", {"o_id"})

Prepare_size(b) == mget_size(b) + Bytes(Tictoc(b), 8)
Prepare_to(b, m) ==
  mcopy_to_buf(b, m) \cup Place(mget_size(b), When(Tictoc(b), <<"_min_commit_ts">>), m)
Prepare_from(b, m) ==
  mcopy_from_buf(b, m) \cup Place(mget_size(b), When(Tictoc(b), <<"_min_commit_ts">>), m)
Prepare_sets(b) == Message_sets(b) \cup If(Tictoc(b), {"_min_commit_ts"})

AckFields(b) ==
  <<"rc">> \o When(HasRange(b), <<"lower", "upper">>) \o When(b.alg = "SILO", <<"max_tid">>)
Ack_size(b, m) ==
  mget_size(b) + 4 + Bytes(HasRange(b), 8 * 2) + Bytes(b.alg = "SILO", 8)
  + Bytes(PPSCalvin(b), 8 + 8 * m.part_keys_size)
Ack_to(b, m) ==
  mcopy_to_buf(b, m)
  \cup Place(mget_size(b),
             AckFields(b) \o When(PPSCalvin(b), <<"part_keys_size", "part_keys">>), m)
Ack_from(b, m) ==
  mcopy_from_buf(b, m)
  \cup Place(mget_size(b),
             AckFields(b)
             \o When(PPSCalvin(b),
                     <<"part_keys_size">> \o When(Known(m, "part_keys_size"), <<"part_keys">>)), m)
Ack_sets(b) ==
  Message_sets(b) \cup {"rc"} \cup If(HasRange(b), {"lower", "upper"})
  \cup If(b.alg = "SILO", {"max_tid"}) \cup If(PPSCalvin(b), {"part_keys_size", "part_keys"})

QueryResponse_size(b) == mget_size(b) + 4 + Bytes(Tictoc(b), 8)
QueryResponse_to(b, m) ==
  mcopy_to_buf(b, m)
  \cup Place(mget_size(b), <<"rc">> \o When(Tictoc(b), <<"_min_commit_ts">>), m)
QueryResponse_from(b, m) ==
  mcopy_from_buf(b, m)
  \cup Place(mget_size(b), <<"rc">> \o When(Tictoc(b), <<"_min_commit_ts">>), m)
QueryResponse_sets(b) == Message_sets(b) \cup {"rc"} \cup If(Tictoc(b), {"_min_commit_ts"})

Finish_size(b) == mget_size(b) + 8 + 4 + 1 + Bytes(HasCommitTs(b), 8)
Finish_to(b, m) ==
  mcopy_to_buf(b, m)
  \cup Place(mget_size(b),
             <<"pid", "rc", "readonly">> \o When(HasCommitTs(b), <<"commit_timestamp">>), m)
Finish_from(b, m) ==
  mcopy_from_buf(b, m)
  \cup Place(mget_size(b),
             <<"pid", "rc", "readonly">> \o When(HasCommitTs(b), <<"commit_timestamp">>), m)
\* pid travels but is never assigned
Finish_sets(b) ==
  Message_sets(b) \cup {"rc", "readonly"} \cup If(HasCommitTs(b), {"commit_timestamp"})
Finish_uses(b) == {"rc", "readonly"} \cup If(HasCommitTs(b), {"commit_timestamp"})

\* get_size leaves the record out
Log_size(b) == mget_size(b)
Log_to(b, m) ==
  mcopy_to_buf(b, m) \cup {[f |-> "record", at |-> mget_size(b), w |-> SizeofRecord]}
Log_from(b, m) ==
  mcopy_from_buf(b, m) \cup {[f |-> "record", at |-> mget_size(b), w |-> SizeofRecord]}

\* SYNC and ACK_SYNC: neither copy_from_txn assigns part_id or key
Sync_size(b) == mget_size(b) + 2 * 8
Sync_to(b, m) == mcopy_to_buf(b, m) \cup Place(mget_size(b), <<"part_id", "key">>, m)
Sync_from(b, m) == mcopy_from_buf(b, m) \cup Place(mget_size(b), <<"part_id", "key">>, m)

SetPartMap_size(b) == mget_size(b) + 3 * 8
SetPartMap_to(b, m) ==
  mcopy_to_buf(b, m) \cup Place(mget_size(b), <<"part_id", "node_id", "status">>, m)
SetPartMap_from(b, m) ==
  mcopy_from_buf(b, m) \cup Place(mget_size(b), <<"part_id", "node_id", "status">>, m)

SetMiniPartMap_size(b) == mget_size(b) + 4 * 8
SetMiniPartMap_to(b, m) ==
  mcopy_to_buf(b, m)
  \cup Place(mget_size(b), <<"part_id", "minipart_id", "node_id", "status">>, m)
SetMiniPartMap_from(b, m) ==
  mcopy_from_buf(b, m)
  \cup Place(mget_size(b), <<"part_id", "minipart_id", "node_id", "status">>, m)

(* Migration (YCSB).  mig_order is written with the entries the vector has   *)
(* and read as PART_SPLIT_CNT entries; row_data is written as std::string    *)
(* objects and read as MAX_TUPLE_SIZE characters.                            *)
MigrationFields ==
  <<"node_id_src", "node_id_des", "part_id", "minipart_id", "key_start", "key_end", "order",
    "data_size", "isdata", "islast">>
MigrationEnd(b) == mget_size(b) + 8 * 8 + 2
Migration_size(b, m) ==
  MigrationEnd(b) + 8 * m.mig_order_size
  + Bytes(m.isdata = 1, (SizeofRow + MAX_TUPLE_SIZE) * m.data_size)
Rows(at, n, each) ==
  {[f |-> "data", at |-> at, w |-> SizeofRow * n],
   [f |-> "row_data", at |-> at + SizeofRow * n, w |-> each * n]}
Migration_to(b, m) ==
  mcopy_to_buf(b, m)
  \cup Place(mget_size(b), MigrationFields \o <<"mig_order">>, m)
  \cup If(m.isdata = 1, Rows(MigrationEnd(b) + 8 * m.mig_order_size, m.data_size, SizeofString))
Migration_from(b, m) ==
  mcopy_from_buf(b, m)
  \cup Place(mget_size(b), MigrationFields \o <<"mig_order">>, [mig_order_size |-> PART_SPLIT_CNT])
  \cup If(Known(m, "isdata"),
          If(m.isdata = 1,
             Rows(MigrationEnd(b) + 8 * PART_SPLIT_CNT, m.data_size, MAX_TUPLE_SIZE)))

-----------------------------------------------------------------------------
(* Message::create_message(rtype): the class of a message type              *)

\* AckSyncMessage is laid out as SyncMessage is
AckSync == <<"", "Sync">>
\* messages that are their header and nothing else
Done == <<"", "Header">>
LogRsp == <<"", "Header">>
InitDone == <<"", "Header">>

Class(b, rtype) ==
  CASE rtype \in {"RQRY", "RQRY_CONT"} -> <<b.wl, "Query">>
    [] rtype \in {"CL_QRY", "CL_QRY_O", "RTXN", "RTXN_CONT"} -> <<b.wl, "ClientQuery">>
    [] rtype = "RFIN" -> <<"", "Finish">>
    [] rtype = "RQRY_RSP" -> <<"", "QueryResponse">>
    [] rtype \in {"CALVIN_ACK", "RACK_PREP", "RACK_FIN"} -> <<"", "Ack">>
    [] rtype \in {"SEND_MIGRATION", "RECV_MIGRATION", "FINISH_MIGRATION"} -> <<"", "Migration">>
    [] rtype = "RPREPARE" -> <<"", "Prepare">>
    [] rtype = "RFWD" -> <<"", "Forward">>
    [] rtype = "CL_RSP" -> <<"", "ClientResponse">>
    [] rtype = "SYNC" -> <<"", "Sync">>
    [] rtype = "ACK_SYNC" -> AckSync
    [] rtype = "SET_PARTMAP" -> <<"", "SetPartMap">>
    [] rtype = "SET_MINIPARTMAP" -> <<"", "SetMiniPartMap">>
    [] rtype = "LOG_MSG" -> <<"", "Log">>
    [] rtype = "RDONE" -> Done
    [] rtype \in {"LOG_MSG_RSP", "LOG_FLUSHED"} -> LogRsp
    [] rtype = "INIT_DONE" -> InitDone
    [] OTHER -> <<"", "none">>

get_size(b, m) ==
  LET c == Class(b, m.rtype) IN
  CASE c = <<"YCSB", "Query">> -> YCSBQuery_size(b, m)
    [] c = <<"TPCC", "Query">> -> TPCCQuery_size(b, m)
    [] c = <<"PPS", "Query">> -> PPSQuery_size(b, m)
    [] c = <<"DA", "Query">> -> DAQuery_size(b)
    [] c = <<"YCSB", "ClientQuery">> -> YCSBClientQuery_size(b, m)
    [] c = <<"TPCC", "ClientQuery">> -> TPCCClientQuery_size(b, m)
    [] c = <<"PPS", "ClientQuery">> -> PPSClientQuery_size(b, m)
    [] c = <<"DA", "ClientQuery">> -> DAClientQuery_size(b, m)
    [] c[2] = "Finish" -> Finish_size(b)
    [] c[2] = "QueryResponse" -> QueryResponse_size(b)
    [] c[2] = "Ack" -> Ack_size(b, m)
    [] c[2] = "Migration" -> Migration_size(b, m)
    [] c[2] = "Prepare" -> Prepare_size(b)
    [] c[2] = "Forward" -> Forward_size(b)
    [] c[2] = "ClientResponse" -> ClientResponse_size(b)
    [] c[2] = "Sync" -> Sync_size(b)
    [] c[2] = "SetPartMap" -> SetPartMap_size(b)
    [] c[2] = "SetMiniPartMap" -> SetMiniPartMap_size(b)
    [] c[2] = "Log" -> Log_size(b)
    [] OTHER -> mget_size(b)

copy_to_buf(b, m) ==
  LET c == Class(b, m.rtype) IN
  CASE c = <<"YCSB", "Query">> -> YCSBQuery_to(b, m)
    [] c = <<"TPCC", "Query">> -> TPCCQuery_to(b, m)
    [] c = <<"PPS", "Query">> -> PPSQuery_to(b, m)
    [] c = <<"DA", "Query">> -> DAQuery_to(b, m)
    [] c = <<"YCSB", "ClientQuery">> -> YCSBClientQuery_to(b, m)
    [] c = <<"TPCC", "ClientQuery">> -> TPCCClientQuery_to(b, m)
    [] c = <<"PPS", "ClientQuery">> -> PPSClientQuery_to(b, m)
    [] c = <<"DA", "ClientQuery">> -> DAClientQuery_to(b, m)
    [] c[2] = "Finish" -> Finish_to(b, m)
    [] c[2] = "QueryResponse" -> QueryResponse_to(b, m)
    [] c[2] = "Ack" -> Ack_to(b, m)
    [] c[2] = "Migration" -> Migration_to(b, m)
    [] c[2] = "Prepare" -> Prepare_to(b, m)
    [] c[2] = "Forward" -> Forward_to(b, m)
    [] c[2] = "ClientResponse" -> ClientResponse_to(b, m)
    [] c[2] = "Sync" -> Sync_to(b, m)
    [] c[2] = "SetPartMap" -> SetPartMap_to(b, m)
    [] c[2] = "SetMiniPartMap" -> SetMiniPartMap_to(b, m)
    [] c[2] = "Log" -> Log_to(b, m)
    [] OTHER -> mcopy_to_buf(b, m)

copy_from_buf(b, m) ==
  LET c == Class(b, m.rtype) IN
  CASE c = <<"YCSB", "Query">> -> YCSBQuery_from(b, m)
    [] c = <<"TPCC", "Query">> -> TPCCQuery_from(b, m)
    [] c = <<"PPS", "Query">> -> PPSQuery_from(b, m)
    [] c = <<"DA", "Query">> -> DAQuery_from(b, m)
    [] c = <<"YCSB", "ClientQuery">> -> YCSBClientQuery_from(b, m)
    [] c = <<"TPCC", "ClientQuery">> -> TPCCClientQuery_from(b, m)
    [] c = <<"PPS", "ClientQuery">> -> PPSClientQuery_from(b, m)
    [] c = <<"DA", "ClientQuery">> -> DAClientQuery_from(b, m)
    [] c[2] = "Finish" -> Finish_from(b, m)
    [] c[2] = "QueryResponse" -> QueryResponse_from(b, m)
    [] c[2] = "Ack" -> Ack_from(b, m)
    [] c[2] = "Migration" -> Migration_from(b, m)
    [] c[2] = "Prepare" -> Prepare_from(b, m)
    [] c[2] = "Forward" -> Forward_from(b, m)
    [] c[2] = "ClientResponse" -> ClientResponse_from(b, m)
    [] c[2] = "Sync" -> Sync_from(b, m)
    [] c[2] = "SetPartMap" -> SetPartMap_from(b, m)
    [] c[2] = "SetMiniPartMap" -> SetMiniPartMap_from(b, m)
    [] c[2] = "Log" -> Log_from(b, m)
    [] OTHER -> mcopy_from_buf(b, m)

FieldsOf(b, m) == {l.f : l \in copy_to_buf(b, m)}

\* the fields create_message(txn, rtype) or create_message(query, rtype) leaves without a value
Unset(b, m) ==
  LET c == Class(b, m.rtype)
      sets == CASE c = <<"YCSB", "Query">> -> YCSBQuery_sets(b)
                [] c = <<"TPCC", "Query">> -> TPCCQuery_sets(b, m.txn_type)
                [] c = <<"PPS", "Query">> -> PPSQuery_sets(b, m.txn_type)
                [] c = <<"DA", "Query">> -> DAQuery_sets(b)
                [] c = <<"YCSB", "ClientQuery">> -> YCSBClientQuery_sets(b)
                [] c = <<"TPCC", "ClientQuery">> -> TPCCClientQuery_sets(b)
                [] c = <<"PPS", "ClientQuery">> -> PPSClientQuery_sets(b)
                [] c = <<"DA", "ClientQuery">> -> DAClientQuery_sets(b)
                [] c[2] = "Finish" -> Finish_sets(b)
                [] c[2] = "QueryResponse" -> QueryResponse_sets(b)
                [] c[2] = "Ack" -> Ack_sets(b)
                [] c[2] = "Prepare" -> Prepare_sets(b)
                [] c[2] = "Forward" -> Forward_sets(b)
                [] c[2] = "ClientResponse" -> ClientResponse_sets(b)
                [] c[2] = "Sync" -> Message_sets(b)
                [] OTHER -> FieldsOf(b, m)
  IN  FieldsOf(b, m) \ sets

\* the fields the receiver's copy_to_txn, or its handler, works with
Uses(b, m) ==
  LET c == Class(b, m.rtype) IN
  CASE c = <<"YCSB", "Query">> -> YCSBQuery_uses(b)
    [] c = <<"TPCC", "Query">> -> TPCCQuery_uses(b, m.txn_type)
    [] c = <<"PPS", "Query">> -> PPSQuery_uses(b, m.txn_type)
    [] c = <<"DA", "Query">> -> DAQuery_uses(b)
    [] c = <<"YCSB", "ClientQuery">> -> YCSBClientQuery_uses(b)
    [] c = <<"TPCC", "ClientQuery">> -> TPCCClientQuery_uses(b)
    [] c = <<"PPS", "ClientQuery">> -> PPSClientQuery_uses(b)
    [] c = <<"DA", "ClientQuery">> -> DAClientQuery_uses(b)
    [] c[2] = "Finish" -> Finish_uses(b)
    [] c[2] = "Sync" -> {"txn_id"}
    [] c[2] = "Migration" -> FieldsOf(b, m) \ {"row_data"}
    [] OTHER -> FieldsOf(b, m)

-----------------------------------------------------------------------------
(* Bytes *)

Names == {"rtype", "txn_type"}
Lists == {"requests", "items", "partitions", "part_keys", "mig_order", "data", "row_data"}
Junk(f) == IF f \in Names THEN "junk" ELSE IF f \in Lists THEN <<-1>> ELSE -1
Uninit(f) == IF f \in Names THEN "uninit" ELSE IF f \in Lists THEN <<-2>> ELSE -2

Encode(b, m, ptr) ==
  {[f |-> l.f, at |-> ptr + l.at, w |-> l.w, val |-> m[l.f]] : l \in copy_to_buf(b, m)}

Read(buf, layout, ptr) ==
  [f \in {l.f : l \in layout} |->
     LET l == CHOOSE x \in layout : x.f = f
         hit == {c \in buf : c.f = f /\ c.at = ptr + l.at /\ c.w = l.w}
     IN  IF hit = {} THEN Junk(f) ELSE (CHOOSE c \in hit : TRUE).val]

\* create_message(buf): rtype first, then copy_from_buf of its class; four passes
\* are enough for a length after a type after a length
create_message(b, buf, ptr) ==
  LET got[i \in 0..4] ==
        IF i = 0 THEN Read(buf, {l \in mcopy_from_buf(b, [rtype |-> ""]) : l.f = "rtype"}, ptr)
        ELSE Read(buf, copy_from_buf(b, got[i - 1]), ptr)
      m == got[4]
  IN  IF Class(b, m.rtype)[2] = "Migration"
      THEN [f \in DOMAIN m \cup {"mig_order_size"} |->
              IF f = "mig_order_size" THEN PART_SPLIT_CNT ELSE m[f]]
      ELSE m

\* create_messages(buf): cnt messages, each found where the size of the one before ends
create_messages(b, buf, cnt) ==
  LET at[i \in 1..cnt] ==
        IF i = 1 THEN BatchHeader
        ELSE at[i - 1] + get_size(b, create_message(b, buf, at[i - 1]))
  IN  [i \in 1..cnt |-> create_message(b, buf, at[i])]
-----------------------------------------------------------------------------
(* create_message(txn, rtype) and create_message(query, rtype): the message  *)
(* for transaction id, of the kind o = [rtype, txn_type, n, isdata], n the    *)
(* length of its lists; data fields hold id, the ones nobody assigns Uninit   *)

NewMessage(b, o, id) ==
  LET kind == [rtype |-> o.rtype, txn_type |-> o.txn_type, isdata |-> o.isdata,
               requests_size |-> o.n, items_size |-> o.n, partitions_size |-> o.n,
               part_keys_size |-> o.n, data_size |-> o.n, mig_order_size |-> PART_SPLIT_CNT]
      unset == Unset(b, kind)
  IN  [f \in FieldsOf(b, kind) \cup If(Class(b, o.rtype)[2] = "Migration", {"mig_order_size"}) |->
         CASE f \in unset -> Uninit(f)
           [] f \in DOMAIN kind -> kind[f]
           [] f = "mig_order" -> [i \in 1..PART_SPLIT_CNT |-> id]
           [] f \in Lists \ {"mig_order"} -> [i \in 1..o.n |-> id]
           [] OTHER -> id]
=============================================================================
