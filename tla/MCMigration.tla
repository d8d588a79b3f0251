----------------------------- MODULE MCMigration -----------------------------
(***************************************************************************)
(* Three servers and a client, two mini-partitions of two rows, and        *)
(* transactions that start at the source, at the destination and at the    *)
(* third server.                                                           *)
(***************************************************************************)
EXTENDS Migration, TLC

CONSTANTS src, dest, other, t0, t1, t2

Servers == {src, dest, other}
Txns    == {t0, t1, t2}
Homes   == t0 :> src @@ t1 :> dest @@ t2 :> other

\* A mini-partition in one message and two writers of one row of the last
\* one; or a message per row and one writer.
Config == {<<2, t0 :> <<1, 0>> @@ t2 :> <<1, 0>>>>,
           <<1, t1 :> <<0, 0>>>>, <<1, t2 :> <<0, 0>>>>}
=============================================================================
