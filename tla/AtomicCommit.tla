---------------------------- MODULE AtomicCommit ----------------------------
(***************************************************************************)
(* What the nodes promise a client about a transaction, with no message in *)
(* sight: its work on the nodes ends in the same way everywhere, a failed  *)
(* attempt leaves nothing behind before the next one starts, and the       *)
(* client is answered once, when everything is committed.                  *)
(***************************************************************************)
EXTENDS Naturals

CONSTANTS Node, Txn

VARIABLES
  status,    \* status[t][n]: what has become of t's work on node n
  answers    \* answers[t]: how often the client was told that t committed

vars == <<status, answers>>

Init ==
  /\ status = [t \in Txn |-> [n \in Node |-> "none"]]
  /\ answers = [t \in Txn |-> 0]

Open(t, n) == answers[t] = 0 /\ status[t][n] \in {"none", "active"}

Work(t, n) ==
  /\ Open(t, n)
  /\ status' = [status EXCEPT ![t][n] = "active"]
  /\ UNCHANGED answers

Commit(t, n) ==
  /\ Open(t, n)
  /\ \A k \in Node : status[t][k] # "aborted"
  /\ status' = [status EXCEPT ![t][n] = "committed"]
  /\ UNCHANGED answers

Abort(t, n) ==
  /\ Open(t, n)
  /\ \A k \in Node : status[t][k] # "committed"
  /\ status' = [status EXCEPT ![t][n] = "aborted"]
  /\ UNCHANGED answers

\* Another attempt; the last node may abort in the same step.
Retry(t) ==
  /\ answers[t] = 0
  /\ \E n \in Node :
       /\ \A k \in Node \ {n} : status[t][k] \in {"none", "aborted"}
       /\ status[t][n] # "committed"
  /\ status' = [status EXCEPT ![t] = [n \in Node |-> "none"]]
  /\ UNCHANGED answers

\* The client is told; the last node may commit in the same step.
Answer(t) ==
  /\ answers[t] = 0
  /\ \E n \in Node :
       /\ \A k \in Node \ {n} : status[t][k] \in {"none", "committed"}
       /\ status[t][n] # "aborted"
       /\ status' = [status EXCEPT ![t][n] = "committed"]
  /\ answers' = [answers EXCEPT ![t] = 1]

Next == \E t \in Txn :
  \/ Retry(t) \/ Answer(t)
  \/ \E n \in Node : Work(t, n) \/ Commit(t, n) \/ Abort(t, n)

Spec == Init /\ [][Next]_vars
=============================================================================
