----------------------------- MODULE Supervision -----------------------------
(***************************************************************************)
(* One worker process and its supervisor: the ASYNC1 session               *)
(* (coordinator/_protocol_session.py), the supervising thread with its     *)
(* reader (_protocol_execution.py) and the process group                   *)
(* (process_supervision.py).  The worker's own steps are those of the      *)
(* modules that extend this one; here it may only die.                     *)
(*                                                                         *)
(* Deadlines are not clocks: one that runs may pass at any moment.  A poll *)
(* of the process and the write it permits are two steps, so a process may *)
(* die between them.                                                       *)
(***************************************************************************)
EXTENDS Naturals, Sequences

CONSTANT MaxFrames \* heartbeats are written while the pipe holds fewer frames

ASSUME MaxFramesAssumption == MaxFrames \in Nat \ {0}

VARIABLES
    proc,     \* the process: running, or its exit ("exited": status 0)
    helper,   \* a descendant in its process group runs
    sig,      \* the last signal the supervisor sent to the group
    down,     \* its standard input
    up,       \* its standard output
    cancel,   \* the cancel_event of the attempt
    session,  \* the supervisor's ProtocolSession
    wsession, \* the worker's ProtocolSession
    reader,   \* the thread that reads standard output
    sup       \* the supervising thread

supVars == <<proc, helper, sig, down, up, cancel, session, reader, sup>>

-----------------------------------------------------------------------------
(* The session: _protocol_session.py *)

Message(type) == [type |-> type, claim |-> "none"]

\* A terminal message; the claim names its status and publication state.
Terminal(claim) ==
    [type |-> IF claim \in {"succeeded", "cancelled"} THEN "result" ELSE "error",
     claim |-> claim]

Claims == {"succeeded", "cancelled", "failed_not_started",
           "failed_rolled_back", "failed_unknown"}

NewSession == [state |-> "awaiting_hello", terminal |-> "none"]

SessionStates == {"awaiting_hello", "awaiting_start", "running",
                  "cancel_requested", "cancelling", "terminal"}

\* Mutant: a worker that was sent a cancel may only acknowledge it.
AllowedStrict(state) ==
    CASE state = "awaiting_hello" -> {"worker_hello"}
      [] state = "awaiting_start" -> {"job_start"}
      [] state = "running" ->
            {"progress", "heartbeat", "cancel", "result", "error"}
      [] state = "cancel_requested" -> {"cancel_ack", "result", "error"}
      [] state = "cancelling" -> {"progress", "heartbeat", "result", "error"}
      [] state = "terminal" -> {}

\* The message types of _validate_order.
Allowed(state) ==
    CASE state = "awaiting_hello" -> {"worker_hello"}
      [] state = "awaiting_start" -> {"job_start"}
      [] state = "running" ->
            {"progress", "heartbeat", "cancel", "result", "error"}
      [] state = "cancel_requested" ->
            {"progress", "heartbeat", "cancel_ack", "result", "error"}
      [] state = "cancelling" -> {"progress", "heartbeat", "result", "error"}
      [] state = "terminal" -> {}

Accepts(s, m) == m.type \in Allowed(s.state)

\* _advance.
Advanced(s, m) ==
    CASE m.type = "worker_hello" -> [s EXCEPT !.state = "awaiting_start"]
      [] m.type = "job_start" -> [s EXCEPT !.state = "running"]
      [] m.type = "cancel" -> [s EXCEPT !.state = "cancel_requested"]
      [] m.type = "cancel_ack" -> [s EXCEPT !.state = "cancelling"]
      [] m.type \in {"result", "error"} ->
            [state |-> "terminal", terminal |-> m.claim]
      [] OTHER -> s

-----------------------------------------------------------------------------
(* The supervisor's state *)

Reasons == {"none", "protocol", "hello_timeout", "process_timeout",
            "heartbeat_timeout", "completion_timeout", "cancelled",
            "cleanup_failed", "process_exit"}

SupSteps == {"hello", "start", "watch", "send", "stop", "term_wait",
             "kill_wait", "cleanup", "cleanup_wait", "join", "judge",
             "judged", "returned", "raised"}

SupInit ==
    /\ proc = "running"
    /\ helper = FALSE
    /\ sig = "none"
    /\ down = <<>>
    /\ up = <<>>
    /\ cancel = FALSE
    /\ session = NewSession
    /\ reader = [hello |-> FALSE, err |-> FALSE, eof |-> FALSE]
    /\ sup = [at |-> "hello", reason |-> "none", cancelSent |-> FALSE,
              stopped |-> FALSE, waited |-> FALSE, clean |-> FALSE,
              synthesized |-> FALSE]

Running == proc = "running"

\* Neither the process nor, by killpg(pid, 0), anything of its group is left.
TreeGone == ~Running /\ ~helper

Goto(step) == sup' = [sup EXCEPT !.at = step]

StopFor(why) == sup' = [sup EXCEPT !.at = "stop", !.reason = why]

processVars == <<proc, helper, sig>>
pipeVars == <<down, up>>

\* The worker writes a message.
Says(m) ==
    /\ wsession' = Advanced(wsession, m)
    /\ up' = Append(up, m)

-----------------------------------------------------------------------------
(* The reader thread: _read_worker_stdout *)

read_worker_stdout ==
    /\ up # <<>>
    /\ ~reader.eof
    /\ LET m == Head(up) IN
          IF ~reader.err /\ Accepts(session, m)
          THEN /\ session' = Advanced(session, m)
               /\ reader' = [reader EXCEPT !.hello = @ \/ m.type = "worker_hello"]
          ELSE /\ reader' = [reader EXCEPT !.err = TRUE]
               /\ UNCHANGED session
    /\ up' = Tail(up)
    /\ UNCHANGED <<processVars, down, cancel, sup>>

reader_eof ==
    /\ up = <<>>
    /\ ~Running
    /\ ~reader.eof
    /\ reader' = [reader EXCEPT !.eof = TRUE]
    /\ UNCHANGED <<processVars, pipeVars, cancel, session, sup>>

-----------------------------------------------------------------------------
(* The supervising thread: _run_protocol_worker *)

await_hello ==
    /\ sup.at = "hello"
    /\ IF ~Running \/ reader.hello
       THEN IF Running THEN Goto("start") ELSE Goto("stop")
       ELSE \/ reader.err /\ StopFor("protocol")
            \/ ~reader.err /\ StopFor("hello_timeout")
    /\ UNCHANGED <<processVars, pipeVars, cancel, session, reader>>

\* job_start, and in the same write the cancel that was already asked for.
\* The pipe of a process that has died refuses the write: ProtocolError leaves
\* _run_protocol_worker from here.
send_start ==
    /\ sup.at = "start"
    /\ IF Running
       THEN LET s == Advanced(session, Message("job_start")) IN
            /\ session' = IF cancel THEN Advanced(s, Message("cancel")) ELSE s
            /\ down' = down \o <<Message("job_start")>>
                            \o (IF cancel THEN <<Message("cancel")>> ELSE <<>>)
            /\ sup' = [sup EXCEPT !.at = "watch", !.cancelSent = cancel]
       ELSE Goto("raised") /\ UNCHANGED <<session, down>>
    /\ UNCHANGED <<processVars, up, cancel, reader>>

\* Mutant: a worker that has said its last word is waited for without limit.
WatchPatiently ==
    /\ sup.at = "watch"
    /\ \/ ~Running /\ Goto("stop")
       \/ Running /\ reader.err /\ StopFor("protocol")
       \/ /\ Running /\ ~reader.err /\ session.terminal = "none"
          /\ IF cancel /\ ~sup.cancelSent
             THEN Goto("send")
             ELSE \/ sup.cancelSent /\ StopFor("cancelled")
                  \/ StopFor("heartbeat_timeout")
                  \/ StopFor("process_timeout")
    /\ UNCHANGED <<processVars, pipeVars, cancel, session, reader>>

\* One iteration of the loop in which something happens.
watch ==
    /\ sup.at = "watch"
    /\ \/ ~Running /\ Goto("stop")
       \/ Running /\ reader.err /\ StopFor("protocol")
       \/ /\ Running /\ ~reader.err /\ session.terminal # "none"
          /\ StopFor("completion_timeout")
       \/ /\ Running /\ ~reader.err /\ session.terminal = "none"
          /\ IF cancel /\ ~sup.cancelSent
             THEN Goto("send")
             ELSE \/ sup.cancelSent /\ StopFor("cancelled")
                  \/ StopFor("heartbeat_timeout")
                  \/ StopFor("process_timeout")
    /\ UNCHANGED <<processVars, pipeVars, cancel, session, reader>>

\* _send_coordinator with a cancel; a terminal that came first makes it a
\* refusal, a dead process an exception.
send_cancel ==
    /\ sup.at = "send"
    /\ \/ /\ session.terminal # "none"
          /\ Goto("watch")
          /\ UNCHANGED <<session, down>>
       \/ /\ session.terminal = "none" /\ Running
          /\ session' = Advanced(session, Message("cancel"))
          /\ down' = Append(down, Message("cancel"))
          /\ sup' = [sup EXCEPT !.at = "watch", !.cancelSent = TRUE]
       \/ /\ session.terminal = "none" /\ ~Running
          /\ Goto("raised")
          /\ UNCHANGED <<session, down>>
    /\ UNCHANGED <<processVars, up, cancel, reader>>

\* terminate_gracefully, when the process did not end by itself.
stop_worker ==
    /\ sup.at = "stop"
    /\ IF Running
       THEN /\ sig' = "term"
            /\ sup' = [sup EXCEPT !.at = "term_wait", !.stopped = TRUE]
       ELSE /\ sup' = [sup EXCEPT !.at = "cleanup", !.waited = TRUE]
            /\ UNCHANGED sig
    /\ UNCHANGED <<proc, helper, pipeVars, cancel, session, reader>>

await_term ==
    /\ sup.at = "term_wait"
    /\ \/ /\ ~Running
          /\ sup' = [sup EXCEPT !.at = "cleanup", !.waited = TRUE]
          /\ UNCHANGED sig
       \/ Running /\ Goto("kill_wait") /\ sig' = "kill"
    /\ UNCHANGED <<proc, helper, pipeVars, cancel, session, reader>>

await_kill ==
    /\ sup.at = "kill_wait"
    /\ sup' = [sup EXCEPT !.at = "cleanup", !.waited = ~Running]
    /\ UNCHANGED <<processVars, pipeVars, cancel, session, reader>>

\* ManagedProcess.cleanup: whatever is left of the group is killed.
cleanup ==
    /\ sup.at = "cleanup"
    /\ IF TreeGone
       THEN sup' = [sup EXCEPT !.at = "join", !.clean = TRUE] /\ UNCHANGED sig
       ELSE Goto("cleanup_wait") /\ sig' = "kill"
    /\ UNCHANGED <<proc, helper, pipeVars, cancel, session, reader>>

await_cleanup ==
    /\ sup.at = "cleanup_wait"
    /\ sup' = [sup EXCEPT !.at = "join", !.clean = TreeGone]
    /\ UNCHANGED <<processVars, pipeVars, cancel, session, reader>>

\* The reader is joined; when that takes too long the streams are closed and
\* what they still hold is lost.
join_reader ==
    /\ sup.at = "join"
    /\ \/ reader.eof /\ UNCHANGED <<up, reader>>
       \/ /\ ~reader.eof
          /\ up' = <<>>
          /\ reader' = [reader EXCEPT !.eof = TRUE]
    /\ Goto("judge")
    /\ UNCHANGED <<processVars, down, cancel, session>>

\* process_group_cleaned.
Cleaned == sup.waited /\ sup.clean

FinalReason ==
    CASE reader.err -> "protocol"
      [] sup.reason # "none" -> sup.reason
      [] ~Cleaned -> "cleanup_failed"
      [] proc # "exited" -> "process_exit"
      [] OTHER -> "none"

\* A claim of success or cancellation counts only with a clean end.
Synthesized ==
    \/ reader.err
    \/ session.terminal = "none"
    \/ /\ session.terminal \in {"succeeded", "cancelled"}
       /\ FinalReason # "none" \/ sup.stopped \/ ~sup.waited

\* The SyntheticWorkerResult.
judge ==
    /\ sup.at = "judge"
    /\ sup' = [sup EXCEPT !.at = "judged", !.reason = FinalReason,
                          !.synthesized = Synthesized]
    /\ UNCHANGED <<processVars, pipeVars, cancel, session, reader>>

\* The terminal the caller is given: the worker's claim, or "worker_exit".
Effective == IF sup.synthesized THEN "worker_exit" ELSE session.terminal

ReaderNext == read_worker_stdout \/ reader_eof

SupervisorNext ==
    \/ await_hello \/ send_start \/ watch \/ send_cancel
    \/ stop_worker \/ await_term \/ await_kill
    \/ cleanup \/ await_cleanup \/ join_reader \/ judge

-----------------------------------------------------------------------------
(* The environment *)

\* core.py sets the event of an active attempt.
request_cancel ==
    /\ ~cancel
    /\ sup.at \notin {"returned", "raised"}
    /\ cancel' = TRUE
    /\ UNCHANGED <<processVars, pipeVars, session, reader, sup>>

helper_ends ==
    /\ helper
    /\ helper' = FALSE
    /\ UNCHANGED <<proc, sig, pipeVars, cancel, session, reader, sup>>

-----------------------------------------------------------------------------
(* Properties *)

SupTypeOK ==
    /\ proc \in {"running", "exited", "failed"}
    /\ helper \in BOOLEAN
    /\ sig \in {"none", "term", "kill"}
    /\ session \in [state : SessionStates, terminal : Claims \cup {"none"}]
    /\ reader \in [hello : BOOLEAN, err : BOOLEAN, eof : BOOLEAN]
    /\ sup \in [at : SupSteps, reason : Reasons, cancelSent : BOOLEAN,
                stopped : BOOLEAN, waited : BOOLEAN, clean : BOOLEAN,
                synthesized : BOOLEAN]

\* Supervision ends, whatever the worker does or fails to do
\* (_run_protocol_worker is bounded by its deadlines).
SupervisionEnds == <>(sup.at \in {"returned", "raised"})
=============================================================================
