--------------------------- MODULE PortableWorker ---------------------------
(***************************************************************************)
(* The portable extraction worker (coordinator/portable_worker.py) under   *)
(* its supervisor: its main thread, its heartbeat thread and the thread    *)
(* that waits for a cancel, the Go helper it may run in its process group, *)
(* and what its launcher makes of its end                                  *)
(* (_portable_worker_launch.py, ops/portable_refresh.py).                  *)
(***************************************************************************)
EXTENDS Supervision

VARIABLES
    pw,       \* the worker's threads
    captured  \* what capture_portable_candidate got: nothing yet, a candidate
              \* or a refusal

portableVars == <<supVars, pw, wsession, captured>>

PortableInit ==
    /\ SupInit
    /\ pw = [at |-> "boot", beating |-> FALSE, reading |-> FALSE,
             stop |-> FALSE, cancel |-> FALSE, claim |-> "none"]
    /\ wsession = NewSession
    /\ captured = "none"

threadPart == <<sig, cancel, session, reader, sup>>

MainAt(step) == Running /\ pw.at = step

-----------------------------------------------------------------------------
(* The main thread *)

portable_hello ==
    /\ MainAt("boot")
    /\ Says(Message("worker_hello"))
    /\ pw' = [pw EXCEPT !.at = "await_start"]
    /\ UNCHANGED <<proc, helper, down, threadPart, captured>>

\* A start that does not fit the capability gets its terminal at once; else
\* the two threads are started.
portable_start ==
    /\ MainAt("await_start")
    /\ down # <<>>
    /\ wsession' = Advanced(wsession, Head(down))
    /\ down' = Tail(down)
    /\ pw' \in {[pw EXCEPT !.at = "emit", !.claim = "failed_not_started"],
                [pw EXCEPT !.at = "work", !.beating = TRUE, !.reading = TRUE]}
    /\ UNCHANGED <<proc, helper, up, threadPart, captured>>

emit_progress ==
    /\ MainAt("work")
    /\ Len(up) < MaxFrames
    /\ Says(Message("progress"))
    /\ UNCHANGED <<proc, helper, down, threadPart, pw, captured>>

start_helper ==
    /\ MainAt("work")
    /\ ~helper
    /\ helper' = TRUE
    /\ UNCHANGED <<proc, sig, pipeVars, cancel, session, reader, sup, pw,
                   wsession, captured>>

\* The extraction ends: the receipt is stored, a checkpoint saw the cancel or
\* something failed.  The helper was waited for.
work_ends ==
    /\ MainAt("work")
    /\ ~helper
    /\ \E claim \in {"succeeded", "cancelled", "failed_not_started"} :
          /\ claim = "cancelled" => pw.cancel
          /\ pw' = [pw EXCEPT !.at = "settle", !.claim = claim, !.stop = TRUE]
    /\ UNCHANGED <<supVars, wsession, captured>>

\* Mutant: the terminal is decided before the threads are joined.
SettleEarly ==
    /\ MainAt("settle")
    /\ ~pw.beating
    /\ ~pw.reading
    /\ pw' = [pw EXCEPT !.at = "emit"]
    /\ UNCHANGED <<supVars, wsession, captured>>

\* Both threads are joined; the cancel they may have accepted meanwhile wins.
settle ==
    /\ MainAt("settle")
    /\ ~pw.beating
    /\ ~pw.reading
    /\ pw' = [pw EXCEPT !.at = "emit",
                        !.claim = IF pw.cancel THEN "cancelled" ELSE @]
    /\ UNCHANGED <<supVars, wsession, captured>>

emit_terminal ==
    /\ MainAt("emit")
    /\ Says(Terminal(pw.claim))
    /\ pw' = [pw EXCEPT !.at = "said"]
    /\ UNCHANGED <<proc, helper, down, threadPart, captured>>

portable_exit ==
    /\ MainAt("said")
    /\ proc' = "exited"
    /\ UNCHANGED <<helper, sig, pipeVars, cancel, session, reader, sup, pw,
                   wsession, captured>>

\* A crash or a signal, or a thread that did not settle in time (status 2).
portable_dies ==
    /\ Running
    /\ proc' = "failed"
    /\ UNCHANGED <<helper, sig, pipeVars, cancel, session, reader, sup, pw,
                   wsession, captured>>

-----------------------------------------------------------------------------
(* The heartbeat and the cancellation thread *)

heartbeat ==
    /\ Running
    /\ pw.beating
    /\ \/ /\ ~pw.stop
          /\ Len(up) < MaxFrames
          /\ Says(Message("heartbeat"))
          /\ UNCHANGED pw
       \/ /\ pw.stop
          /\ pw' = [pw EXCEPT !.beating = FALSE]
          /\ UNCHANGED <<up, wsession>>
    /\ UNCHANGED <<proc, helper, down, threadPart, captured>>

\* _read_cancellation: one frame, accepted, signalled and acknowledged under
\* the lock; once stopped, the thread ends when nothing is left to read.
read_cancellation ==
    /\ Running
    /\ pw.reading
    /\ \/ /\ down # <<>>
          /\ down' = Tail(down)
          /\ pw' = [pw EXCEPT !.reading = FALSE, !.cancel = TRUE]
          /\ wsession' = Advanced(Advanced(wsession, Head(down)),
                                  Message("cancel_ack"))
          /\ up' = Append(up, Message("cancel_ack"))
       \/ /\ down = <<>>
          /\ pw.stop
          /\ pw' = [pw EXCEPT !.reading = FALSE]
          /\ UNCHANGED <<down, up, wsession>>
    /\ UNCHANGED <<proc, helper, threadPart, captured>>

-----------------------------------------------------------------------------
(* The launcher *)

\* Mutant: any terminal with references will do.
TakesClaim == session.terminal

\* _worker_references accepts nothing but the effective success.
Taken == Effective

portable_result ==
    /\ sup.at = "judged"
    /\ captured' = IF Taken = "succeeded" THEN "candidate" ELSE "refused"
    /\ Goto("returned")
    /\ UNCHANGED <<processVars, pipeVars, cancel, session, reader, pw, wsession>>

PortableSupervise ==
    \/ /\ SupervisorNext
       /\ UNCHANGED <<pw, wsession, captured>>
    \/ portable_result

PortableNext ==
    \/ PortableSupervise
    \/ /\ ReaderNext \/ request_cancel \/ helper_ends
       /\ UNCHANGED <<pw, wsession, captured>>
    \/ portable_hello \/ portable_start \/ emit_progress \/ start_helper
    \/ work_ends \/ settle \/ emit_terminal \/ portable_exit \/ portable_dies
    \/ heartbeat \/ read_cancellation

\* The supervising thread is scheduled and time passes.
PortableSpec ==
    /\ PortableInit /\ [][PortableNext]_portableVars
    /\ WF_portableVars(PortableSupervise)

-----------------------------------------------------------------------------
(* Properties *)

PortableTypeOK ==
    /\ SupTypeOK
    /\ pw \in [at : {"boot", "await_start", "work", "settle", "emit", "said"},
               beating : BOOLEAN, reading : BOOLEAN, stop : BOOLEAN,
               cancel : BOOLEAN, claim : Claims \cup {"none"}]
    /\ wsession \in [state : SessionStates, terminal : Claims \cup {"none"}]
    /\ captured \in {"none", "candidate", "refused"}

\* The three threads of the worker and the supervisor write in any order, and
\* no session refuses a message: nothing follows the terminal, and a cancel
\* that crosses progress is no error (_validate_order, the lock of emit).
PortableSessionsAgree ==
    /\ ~reader.err
    /\ Running /\ pw.reading /\ down # <<>> =>
          Len(down) = 1 /\ Accepts(wsession, Head(down))

\* A cancel that the worker acknowledged decides its terminal, however late
\* the reader accepted it ("Decide only after it has drained pending input
\* and acknowledged it").
AcknowledgedIsCancelled ==
    pw.cancel /\ session.terminal # "none" => session.terminal = "cancelled"

\* A candidate is taken only from a worker that ended by itself with status 0
\* and left nothing running in its process group (process_group_cleaned,
\* abnormal_completion).
CandidateOfCleanEnd ==
    captured = "candidate" => proc = "exited" /\ ~helper /\ sig = "none"
=============================================================================
