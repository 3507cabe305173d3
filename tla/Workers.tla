------------------------------- MODULE Workers -------------------------------
(***************************************************************************)
(* One supervised worker from its launch to the result of its supervision: *)
(* a refresh worker whose standard output is its own, one that a library   *)
(* prints into, or a portable worker.                                      *)
(***************************************************************************)
EXTENDS RefreshWorker, PortableWorker

VARIABLE kind

Kinds == {"quiet", "noisy", "portable"}

refreshPart == <<wk, leaf, decision, backend, run, result>>
portablePart == <<pw, captured>>
workersVars == <<vars, portablePart, kind>>

WorkersInit == kind \in Kinds /\ Init /\ PortableInit

WorkersNext ==
    /\ UNCHANGED kind
    /\ \/ kind = "quiet" /\ QuietNext /\ UNCHANGED portablePart
       \/ kind = "noisy" /\ Next /\ UNCHANGED portablePart
       \/ kind = "portable" /\ PortableNext /\ UNCHANGED refreshPart

WorkersSpec == WorkersInit /\ [][WorkersNext]_workersVars
-----------------------------------------------------------------------------
\* However a cancel crosses heartbeats, acknowledgements and the terminal on
\* the two pipes, and whatever order the threads of a portable worker write in,
\* no session ever refuses a message of the other end (_validate_order,
\* consume_cancellation, the lock of emit), if nothing else writes to the
\* worker's standard output.
NoMessageRefused ==
    /\ kind = "quiet" => SessionsAgree
    /\ kind = "portable" => PortableSessionsAgree

\* A cancel that the portable worker acknowledged decides its terminal, however
\* late the reader accepted it ("Decide only after it has drained pending input
\* and acknowledged it"), and a candidate is taken only from a worker that ended
\* by itself with status 0 and left nothing running in its process group
\* (process_group_cleaned, abnormal_completion).
PortableResultIsTrue ==
    kind = "portable" => AcknowledgedIsCancelled /\ CandidateOfCleanEnd
=============================================================================
