------------------------------ MODULE Cluster -------------------------------
(***************************************************************************)
(* Transactions over several nodes: how their steps get to the nodes that  *)
(* have the rows (Distributed), how they commit (TwoPhaseCommit), and how  *)
(* the CALVIN build does without either (Calvin).  The three share no      *)
(* state: the initial state says which one runs, the others stay where     *)
(* they start.                                                             *)
(***************************************************************************)
EXTENDS TwoPhaseCommit, Calvin

CONSTANTS StepsNodeCnt, DQueries

VARIABLES
  part,  \* "steps", "commit" or "calvin"
  dquery, mgr, rqry, touched, work, answer, aborts, dwaits

D == INSTANCE Distributed WITH NodeCnt <- StepsNodeCnt, Home <- 0,
                               query <- dquery, waits <- dwaits

dvars == <<dquery, mgr, rqry, touched, work, answer, aborts, dwaits>>
allvars == <<part, vars, dvars, cvars>>

\* Any of the transactions of TwoPhaseCommit, for the parts that do not run it.
CommitInit ==
  /\ Init
  /\ CC_ALG = CHOOSE alg \in CC_ALGS : TRUE
  /\ prog = [t \in Txn |-> CHOOSE p \in Programs : TRUE]
  /\ readonly = [t \in Txn |-> FALSE]

Idler == CHOOSE q \in DQueries : TRUE

ClusterInit ==
  \/ part = "steps"  /\ D!DInit /\ CommitInit /\ CStart({})
  \/ part = "commit" /\ Init /\ D!DStart(Idler) /\ CStart({})
  \/ part = "calvin" /\ CInit /\ D!DStart(Idler) /\ CommitInit

StepsNext  == part = "steps" /\ D!DNext /\ UNCHANGED <<part, vars, cvars>>
CalvinNext == part = "calvin" /\ CNext /\ UNCHANGED <<part, vars, dvars>>

Handle(m) == part = "commit" /\ Process(m) /\ UNCHANGED <<part, dvars, cvars>>

Busy ==
  CASE part = "steps"  -> ~ answer
    [] part = "calvin" -> \E n \in NodeIds : CBusy(n)
    [] part = "commit" -> \E m \in Message : net[m] > 0

AtRest == ~ Busy /\ UNCHANGED allvars

ClusterNext == StepsNext \/ CalvinNext \/ (\E m \in Message : Handle(m)) \/ AtRest

\* The threads do not all stop while one of them is busy.  (That a step is
\* possible then is that there is no deadlock.)
ClusterSpec ==
  /\ ClusterInit /\ [][ClusterNext]_allvars
  /\ []<>~ Busy \/ []<><<TRUE>>_allvars
-----------------------------------------------------------------------------
\* A row is got only where it is, and every order line and part exactly once
\* (run_txn_state, send_remote_request and process_rqry of TPCC and PPS).
WorkOnce == D!WorkOnce

\* The properties of TwoPhaseCommit, where it runs.

\* Its variables have their types.
CommitTypeOK == part = "commit" => TypeOK

\* No node commits what another aborts, and no attempt does both
\* (TxnManager::commit and abort, process_rfin).
CommitAtomicity == part = "commit" => Atomicity

\* A client is answered once, when the attempt has committed everywhere
\* (commit, process_rack_rfin).
CommitAnswerIsFinal == part = "commit" => AnswerIsFinal

\* rsp_cnt is the number of responses on their way (send_prepare_messages,
\* send_finish_messages, received_response).
CommitResponsesCounted == part = "commit" => ResponsesCounted

\* No manager is left on a node when the transaction is over (release_txn_man).
CommitNoGhostManager == part = "commit" => NoGhostManager

\* An attempt starts when the last one is over on every node (start_abort,
\* abort), but for the TICTOC build, whose home may retry alone.
CommitCleanRetry == part = "commit" /\ CC_ALG # "TICTOC" => CleanRetry

\* Every step of the protocol is a step of AtomicCommit or none; the retries of
\* TICTOC apart (start_commit, process_rack_prep, start_abort and their kin).
CommitsAtomically == AC!Init /\ [][part = "commit" /\ CC_ALG # "TICTOC" => AC!Next]_(AC!vars)

\* Every transaction reaches its commitment, every commitment its answer (but
\* for the read-only transactions whose end is not acknowledged), and every
\* query sent to a sequencer is answered.
EveryQueryAnswered ==
  <>[] CASE part = "steps"  -> answer
         [] part = "calvin" -> AllAnswered
         [] part = "commit" ->
              \A t \in Txn : (readonly[t] => AcksReadonly) => answers[t] = 1
=============================================================================
