---------------------------- MODULE RefreshWorker ----------------------------
(***************************************************************************)
(* The refresh worker of one attempt (coordinator/refresh_worker.py) under *)
(* its supervisor, and what the adapter makes of its end                   *)
(* (refresh_adapter.run_refresh_worker): the cancellation that may reach   *)
(* the worker at its two safe points, the gate file, the final transaction *)
(* and the portable worker it runs in a process group of its own.          *)
(***************************************************************************)
EXTENDS Supervision

CONSTANT Faults

\* "stray": a line on standard output that is no message; "late_signal":
\* SIGTERM between the commit and the restored signal handlers.
ASSUME FaultsAssumption == Faults \subseteq {"stray", "late_signal"}

VARIABLES
    wk,       \* the worker's main thread
    leaf,     \* the portable worker
    decision, \* the attempt's decision file
    backend,  \* the server side of the final transaction
    run,      \* the publication is committed
    result    \* what run_refresh_worker returned

vars == <<supVars, wk, wsession, leaf, decision, backend, run, result>>

\* From the start of the staged refresh, SIGTERM is an exception.
Handling == {"staging", "checked", "publishing", "commit_sent", "unwinding"}

WorkerSteps == {"boot", "await_start", "first", "capture", "finishing",
                "last", "said"} \cup Handling

NoResult == [status |-> "none", pub |-> "none", proved |-> FALSE]

Init ==
    /\ SupInit
    /\ wk = [at |-> "boot", cancel |-> FALSE, started |-> FALSE,
             claim |-> "none"]
    /\ wsession = NewSession
    /\ leaf = "none"
    /\ decision = "none"
    /\ backend = "none"
    /\ run = FALSE
    /\ result = NoResult

-----------------------------------------------------------------------------
(* The worker: refresh_worker.main *)

workerPart == <<wk, wsession, leaf, decision, backend, run>>
storagePart == <<decision, backend, run>>
supPart == <<helper, sig, cancel, session, reader, sup>>

WorkerAt(step) == Running /\ wk.at = step

To(step) == wk' = [wk EXCEPT !.at = step]

Finish(claim) == wk' = [wk EXCEPT !.at = "finishing", !.claim = claim]

say_hello ==
    /\ WorkerAt("boot")
    /\ Says(Message("worker_hello"))
    /\ To("await_start")
    /\ UNCHANGED <<proc, down, supPart, leaf, storagePart, result>>

\* A blocking read of one line.
read_start ==
    /\ WorkerAt("await_start")
    /\ down # <<>>
    /\ wsession' = Advanced(wsession, Head(down))
    /\ down' = Tail(down)
    /\ To("first")
    /\ UNCHANGED <<proc, up, supPart, leaf, storagePart, result>>

\* consume_cancellation has or had a cancel.
Cancelling == wk.cancel \/ down # <<>>

\* consume_cancellation: what is there is read, acknowledged and remembered.
Consumes ==
    /\ down' = <<>>
    /\ IF down = <<>>
       THEN UNCHANGED <<wsession, up>>
       ELSE /\ wsession' = Advanced(Advanced(wsession, Head(down)),
                                    Message("cancel_ack"))
            /\ up' = Append(up, Message("cancel_ack"))

first_check ==
    /\ WorkerAt("first")
    /\ Consumes
    /\ wk' = IF Cancelling
             THEN [wk EXCEPT !.at = "finishing", !.cancel = TRUE,
                             !.claim = "failed_not_started"]
             ELSE [wk EXCEPT !.at = "capture"]
    /\ UNCHANGED <<proc, supPart, leaf, storagePart, result>>

\* The heartbeat thread lives as long as the refresh.
emit_heartbeat ==
    /\ Running
    /\ wk.at \in Handling \cup {"capture"}
    /\ Len(up) < MaxFrames
    /\ Says(Message("heartbeat"))
    /\ UNCHANGED <<proc, down, supPart, wk, leaf, storagePart, result>>

\* run_portable_worker: start_new_session gives it a process group of its own.
launch_leaf ==
    /\ WorkerAt("capture")
    /\ leaf = "none"
    /\ leaf' = "running"
    /\ UNCHANGED <<supVars, wk, wsession, storagePart, result>>

leaf_ends ==
    /\ leaf = "running"
    /\ leaf' = "ended"
    /\ UNCHANGED <<supVars, wk, wsession, storagePart, result>>

\* The candidate is validated; the staged refresh installs its handlers.
begin_staging ==
    /\ WorkerAt("capture")
    /\ leaf = "ended"
    /\ To("staging")
    /\ UNCHANGED <<supVars, wsession, leaf, storagePart, result>>

\* A failure before the gate, or one that is no result of refresh_graph.
work_fails ==
    /\ Running
    /\ wk.at \in {"capture", "staging"}
    /\ leaf # "running"
    /\ \E claim \in {"failed_not_started", "failed_unknown"} : Finish(claim)
    /\ UNCHANGED <<supVars, wsession, leaf, storagePart, result>>

\* before_publication, first half.
check_cancelled ==
    /\ WorkerAt("staging")
    /\ Consumes
    /\ wk' = IF Cancelling
             THEN [wk EXCEPT !.at = "finishing", !.cancel = TRUE,
                             !.claim = "failed_not_started"]
             ELSE [wk EXCEPT !.at = "checked"]
    /\ UNCHANGED <<proc, supPart, leaf, storagePart, result>>

\* Mutant: publication starts before the gate file says so.
PassGateFirst ==
    /\ WorkerAt("checked")
    /\ wk' = [wk EXCEPT !.at = "publishing", !.started = TRUE]
    /\ UNCHANGED <<supVars, wsession, leaf, storagePart, result>>

\* before_publication, second half: O_EXCL.
pass_gate ==
    /\ WorkerAt("checked")
    /\ decision' = "transaction_started"
    /\ wk' = [wk EXCEPT !.at = "publishing", !.started = TRUE]
    /\ UNCHANGED <<supVars, wsession, leaf, backend, run, result>>

final_transaction_fails ==
    /\ WorkerAt("publishing")
    /\ Finish("failed_not_started")
    /\ UNCHANGED <<supVars, wsession, leaf, storagePart, result>>

request_commit ==
    /\ WorkerAt("publishing")
    /\ backend' = "committing"
    /\ To("commit_sent")
    /\ UNCHANGED <<supVars, wsession, leaf, decision, run, result>>

server_decides ==
    /\ backend = "committing"
    /\ backend' = "none"
    /\ run' \in BOOLEAN
    /\ UNCHANGED <<supVars, wk, wsession, leaf, decision, result>>

\* commit() returns, or fails and the receipt is read on a second connection.
commit_returns ==
    /\ WorkerAt("commit_sent")
    /\ \/ run /\ To("unwinding")
       \/ ~run /\ Finish("failed_unknown")
    /\ UNCHANGED <<supVars, wsession, leaf, storagePart, result>>

\* The handlers are restored and the heartbeat thread is joined; had it
\* failed, the result would be lost.
refresh_returns ==
    /\ WorkerAt("unwinding")
    /\ \E claim \in {"succeeded", "failed_unknown"} : Finish(claim)
    /\ UNCHANGED <<supVars, wsession, leaf, storagePart, result>>

\* The handler of SIGTERM raises KeyboardInterrupt: refresh_graph reports a
\* rollback.  After the commit the except clause reports it unknown, unless
\* the exception comes from the finally clause.
interrupted ==
    /\ Running
    /\ sig = "term"
    /\ \/ /\ wk.at \in {"staging", "checked", "publishing"}
          /\ Finish("failed_rolled_back")
       \/ /\ wk.at = "unwinding"
          /\ Finish("failed_unknown")
       \/ /\ wk.at = "unwinding"
          /\ "late_signal" \in Faults
          /\ Finish("failed_rolled_back")
    /\ \/ UNCHANGED decision
       \/ wk.at = "checked" /\ decision' = "torn"
    /\ UNCHANGED <<supVars, wsession, leaf, backend, run, result>>

\* The last look at the input, and the terminal that follows from it.
last_check ==
    /\ WorkerAt("finishing")
    /\ Consumes
    /\ wk' = [wk EXCEPT !.at = "last", !.cancel = Cancelling,
                        !.claim = IF /\ Cancelling
                                     /\ @ # "succeeded"
                                     /\ ~wk.started
                                  THEN "cancelled" ELSE @]
    /\ UNCHANGED <<proc, supPart, leaf, storagePart, result>>

say_terminal ==
    /\ WorkerAt("last")
    /\ Says(Terminal(wk.claim))
    /\ To("said")
    /\ UNCHANGED <<proc, down, supPart, leaf, storagePart, result>>

exit ==
    /\ WorkerAt("said")
    /\ proc' = "exited"
    /\ UNCHANGED <<helper, sig, pipeVars, cancel, session, reader, sup,
                   workerPart, result>>

\* A crash, SIGKILL, or SIGTERM where nothing handles it.
worker_dies ==
    /\ Running
    /\ proc' = "failed"
    /\ \/ UNCHANGED decision
       \/ wk.at = "checked" /\ decision' = "torn"
    /\ UNCHANGED <<helper, sig, pipeVars, cancel, session, reader, sup,
                   wk, wsession, leaf, backend, run, result>>

\* A library prints.
stray_output ==
    /\ "stray" \in Faults
    /\ Running
    /\ Len(up) < MaxFrames
    /\ up' = Append(up, Message("stray"))
    /\ UNCHANGED <<proc, down, supPart, workerPart, result>>

WorkerNext ==
    \/ say_hello \/ read_start \/ first_check \/ emit_heartbeat
    \/ launch_leaf \/ begin_staging \/ work_fails
    \/ check_cancelled \/ pass_gate \/ final_transaction_fails
    \/ request_commit \/ commit_returns \/ refresh_returns
    \/ interrupted \/ last_check \/ say_terminal \/ exit

-----------------------------------------------------------------------------
(* The adapter: refresh_adapter.run_refresh_worker *)

ClaimedStatus(claim) ==
    CASE claim = "succeeded" -> "succeeded"
      [] claim = "cancelled" -> "cancelled"
      [] claim = "worker_exit" -> "none"
      [] OTHER -> "failed"

ClaimedState(claim) ==
    CASE claim = "succeeded" -> "committed"
      [] claim = "failed_rolled_back" -> "rolled_back"
      [] claim = "failed_unknown" -> "commit_unknown"
      [] claim = "worker_exit" -> "none"
      [] OTHER -> "not_started"

\* close_unpublished, for a fencing proof the store may refuse to give.
Closed ==
    IF decision = "none" THEN {"none", "not_started", "torn"} ELSE {decision}

\* publication_state.
EvidenceOf(file) ==
    IF file = "not_started" THEN "not_started" ELSE "commit_unknown"

TimedOut == sup.reason \in {"process_timeout", "heartbeat_timeout"}

\* The evidence outranks the terminal of a worker that ended badly.
Mapped(state) ==
    LET abnormal == sup.synthesized \/ TimedOut
        cancelled == Effective = "cancelled" \/ (abnormal /\ cancel)
        claimed == ClaimedState(Effective)
    IN  CASE abnormal \/ cancelled ->
               [status |-> IF cancelled /\ state = "not_started"
                           THEN "cancelled" ELSE "failed",
                pub |-> state, proved |-> TRUE]
          [] OTHER ->
               [status |-> ClaimedStatus(Effective),
                pub |-> IF state = "not_started" /\ claimed = "commit_unknown"
                        THEN state ELSE claimed,
                proved |-> TRUE]

return_result ==
    /\ sup.at = "judged"
    /\ IF Cleaned
       THEN \E file \in Closed :
               /\ decision' = file
               /\ result' = Mapped(EvidenceOf(file))
       ELSE /\ result' = [status |-> ClaimedStatus(Effective),
                          pub |-> ClaimedState(Effective), proved |-> FALSE]
            /\ UNCHANGED decision
    /\ Goto("returned")
    /\ UNCHANGED <<processVars, pipeVars, cancel, session, reader,
                   wk, wsession, leaf, backend, run>>

-----------------------------------------------------------------------------

Supervise ==
    \/ /\ SupervisorNext \/ ReaderNext \/ request_cancel
       /\ UNCHANGED <<workerPart, result>>
    \/ return_result

\* The steps when nothing but the worker writes to its standard output.
QuietNext ==
    \/ Supervise
    \/ WorkerNext
    \/ leaf_ends \/ worker_dies \/ server_decides

Next == QuietNext \/ stray_output

SuperviseAlone ==
    \/ SupervisorNext /\ UNCHANGED <<workerPart, result>>
    \/ return_result

\* The supervising thread is scheduled and time passes; nothing is assumed of
\* the worker.
Spec == Init /\ [][Next]_vars /\ WF_vars(SuperviseAlone)

-----------------------------------------------------------------------------
(* Properties *)

WorkerTypeOK ==
    /\ SupTypeOK
    /\ wk \in [at : WorkerSteps, cancel : BOOLEAN, started : BOOLEAN,
               claim : Claims \cup {"none"}]
    /\ wsession \in [state : SessionStates, terminal : Claims \cup {"none"}]
    /\ leaf \in {"none", "running", "ended"}
    /\ decision \in {"none", "not_started", "transaction_started", "torn"}
    /\ backend \in {"none", "committing"}
    /\ run \in BOOLEAN
    /\ result \in [status : {"none", "succeeded", "cancelled", "failed"},
                   pub : {"none", "not_started", "rolled_back",
                          "commit_unknown", "committed"},
                   proved : BOOLEAN]

\* However a cancel crosses heartbeats, acknowledgements and the terminal on
\* the two pipes, neither session ever refuses a message of the other
\* (_validate_order, consume_cancellation): a cancellation cannot turn into a
\* protocol error.
SessionsAgree ==
    /\ ~reader.err
    /\ Running /\ wk.at \in {"first", "staging", "finishing"} /\ down # <<>> =>
          Len(down) = 1 /\ Accepts(wsession, Head(down))

\* What run_refresh_worker returns is true of the graph, now and later: a
\* success is committed; where it reports no publication or a rollback,
\* nothing is committed and no commit is under way, although worker, signals,
\* deadlines and cancellation raced (refresh_adapter, _publication_phase).
ResultIsTrue ==
    sup.at = "returned" =>
        /\ result.status = "succeeded" => run
        /\ result.status = "cancelled" => result.pub = "not_started"
        /\ result.pub \in {"not_started", "rolled_back"} =>
              ~run /\ backend = "none"
=============================================================================
