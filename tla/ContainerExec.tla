---------------------------- MODULE ContainerExec ----------------------------
(***************************************************************************)
(* One container command of an extension restore and its settlement:       *)
(* run_custodied_container_command and _settle                             *)
(* (runtime/_extension_restore_exec.py) with the two shell scripts of      *)
(* runtime/_extension_restore_exec_control.py.  The command's process (the *)
(* leader, once the supervising shell has recorded it), a child it may     *)
(* fork and its database session live in the container.  The container     *)
(* runtime may start the command late, after its client was killed, and a  *)
(* settlement script goes on when the runner gives up on it.  The          *)
(* postmaster is process 1 of the container and takes any abnormal exit it *)
(* reaps for a crash of the server.                                        *)
(*                                                                         *)
(* Left out: the reuse of a process number (the start time tells), a       *)
(* second child, a child of the child (forked after /proc was listed it    *)
(* would escape the census), and a child without the token that outlives   *)
(* its parent, which the contract excludes.  A token is settled once, so   *)
(* the script never meets a fence of its own.                              *)
(***************************************************************************)
EXTENDS Naturals

CONSTANT Faults     \* calls that may fail: "retire", "settle", "io"

VARIABLES
    runner,     \* where run_custodied_container_command is
    failed,     \* it raises: the command's exit, a deadline, an interrupt
    outcome,    \* the ExecOutcome
    leader,     \* [at, parent, exit] of the command's process
    child,      \* [at, token] of a process it forked
    session,    \* its database session: "none", "open", "closed"
    effect,     \* its statement was applied
    control,    \* [dir, rec, halt]: the control directory and its files
    script,     \* the settlement script
    hit         \* the postmaster reaped what settlement made end

processVars == <<leader, child, session, effect>>
vars == <<runner, failed, outcome, processVars, control, script, hit>>

Pending == [host |-> "pending", remote |-> "pending", descendants |-> "pending",
            sessions |-> "pending", control |-> "pending"]
NoCensus == [leader |-> FALSE, child |-> "absent", orphan |-> FALSE]
ScriptOff == [at |-> "off", back |-> "none", tries |-> 0, kids |-> FALSE,
              remote |-> "exited", glob |-> NoCensus, seen |-> NoCensus,
              report |-> <<>>]

Init ==
    /\ runner = "running" /\ failed = FALSE /\ outcome = Pending
    /\ leader \in [at : {"requested"}, parent : {0, 1}, exit : {"none"}]
    /\ child = [at |-> "none", token |-> TRUE]
    /\ session = "none" /\ effect = FALSE
    /\ control = [dir |-> "none", rec |-> "none", halt |-> FALSE]
    /\ script = ScriptOff /\ hit = FALSE

-----------------------------------------------------------------------------
(* The supervised command, SUPERVISOR_SH, and what the container does *)

Live == leader.at \in {"shell", "owned", "command", "stopped"}
Works == leader.at = "command"

\* What happens to the child of a leader that ends.
Adopted == CASE child.at = "running" -> [child EXCEPT !.at = "orphan"]
             [] child.at = "zombie" -> [child EXCEPT !.at = "gone"]
             [] OTHER -> child

start ==
    /\ leader.at = "requested"
    /\ leader' = [leader EXCEPT !.at = "shell"]
    /\ UNCHANGED <<child, session, effect, control>>

make_control ==
    /\ leader.at = "shell"
    /\ IF control.dir = "none"
       THEN /\ control' = [control EXCEPT !.dir = "supervisor"]
            /\ leader' = [leader EXCEPT !.at = "owned"]
       ELSE /\ leader' = [leader EXCEPT !.at = "gone", !.exit = "failed"]
            /\ UNCHANGED control
    /\ UNCHANGED <<child, session, effect>>

record_and_exec ==
    /\ leader.at = "owned"
    /\ \/ /\ control' = [control EXCEPT !.rec = "record"]
          /\ leader' = [leader EXCEPT !.at = "command"]
       \/ /\ "io" \in Faults
          /\ leader' = [leader EXCEPT !.at = "gone", !.exit = "failed"]
          /\ UNCHANGED control
    /\ UNCHANGED <<child, session, effect>>

\* The command connects, forks and reaps; its statement is applied by the
\* backend, whether its client still waits or not.
connect ==
    /\ Works /\ session = "none"
    /\ session' = "open"
    /\ UNCHANGED <<leader, child, effect, control>>

fork ==
    /\ Works /\ child.at = "none"
    /\ child' \in [at : {"running"}, token : BOOLEAN]
    /\ UNCHANGED <<leader, session, effect, control>>

child_ends ==
    /\ \/ child.at = "running" /\ child' = [child EXCEPT !.at = "zombie"]
       \/ child.at = "orphan" /\ child' = [child EXCEPT !.at = "gone"]
       \/ child.at = "zombie" /\ Works /\ child' = [child EXCEPT !.at = "gone"]
    /\ UNCHANGED <<leader, session, effect, control>>

leader_exits ==
    /\ Works
    /\ child.at = "running" => child.token
    /\ \E exit \in {"ok", "failed"} :
          /\ exit = "ok" /\ session = "open" => effect
          /\ leader' = [leader EXCEPT !.at = "gone", !.exit = exit]
          /\ session' = IF exit = "ok" /\ session = "open" THEN "closed" ELSE session
    /\ child' = Adopted
    /\ UNCHANGED <<effect, control>>

backend ==
    /\ session = "open"
    /\ \/ ~effect /\ effect' = TRUE /\ UNCHANGED session
       \/ ~Live /\ session' = "closed" /\ UNCHANGED effect
    /\ UNCHANGED <<leader, child, control>>

CommandNext ==
    start \/ make_control \/ record_and_exec \/ connect \/ fork \/ child_ends
    \/ leader_exits \/ backend

-----------------------------------------------------------------------------
(* The settlement script, SETTLE_PROCESS_SH *)

At(step) == script.at = step
Go(step) == script' = [script EXCEPT !.at = step]
Census(back) == script' = [script EXCEPT !.at = "glob", !.back = back]
Report(remote, kept, d) ==
    script' = [script EXCEPT !.at = "done", !.report = <<remote, kept, d>>]

\* Mutant: an absent control directory is taken for a command that never ran.
ClaimNothing ==
    /\ At("claim")
    /\ IF control.dir = "none" THEN Census("fenced") ELSE Go("read")
    /\ UNCHANGED <<processVars, control, hit>>

claim_control ==
    /\ At("claim")
    /\ IF control.dir = "none"
       THEN control' = [control EXCEPT !.dir = "settlement"] /\ Go("fence")
       ELSE Go("read") /\ UNCHANGED control
    /\ UNCHANGED <<processVars, hit>>

fence ==
    /\ At("fence")
    /\ \/ control' = [control EXCEPT !.rec = "fence"] /\ Census("fenced")
       \/ "io" \in Faults /\ Report("unknown", "retained", "unknown") /\ UNCHANGED control
    /\ UNCHANGED <<processVars, hit>>

\* The record is waited for, but not for ever.
read_record ==
    /\ At("read")
    /\ \/ /\ control.rec = "record"
          /\ IF Live THEN Census("loop") ELSE Census("final")
       \/ /\ control.rec = "none"
          /\ Report("unknown", "retained", "unknown")
    /\ UNCHANGED <<processVars, control, hit>>

\* The census: /proc is listed once, then every process is looked at in turn.
glob ==
    /\ At("glob")
    /\ script' = [script EXCEPT !.at = "probe_leader", !.seen = NoCensus,
          !.glob = [NoCensus EXCEPT !.leader = Live,
                       !.child = IF child.at \in {"running", "zombie", "orphan"}
                                 THEN "present" ELSE "absent"]]
    /\ UNCHANGED <<processVars, control, hit>>

probe_leader ==
    /\ At("probe_leader")
    /\ script' = [script EXCEPT !.at = "probe_child",
                     !.seen.leader = script.glob.leader /\ Live]
    /\ UNCHANGED <<processVars, control, hit>>

probe_child ==
    /\ At("probe_child")
    /\ script' = [script EXCEPT !.at = "judge", !.seen.orphan = child.at = "orphan",
          !.seen.child =
             CASE script.glob.child = "absent" \/ child.at = "gone" -> "absent"
               [] child.at = "zombie" -> "Z"
               [] OTHER -> IF child.token THEN "T" ELSE "N"]
    /\ UNCHANGED <<processVars, control, hit>>

\* What tree() concludes, "again" where it pauses and looks once more.
Verdicts ==
    LET seen == script.seen
        orphan == (seen.leader /\ leader.parent = 1) \/ (seen.child = "T" /\ seen.orphan)
        other == seen.child = "T" \/ (seen.leader /\ script.back = "fenced")
        waiting == other \/ (seen.child = "Z" /\ seen.leader)
    IN  IF orphan THEN {"remaining"}
        ELSE IF seen.child = "N" /\ seen.leader THEN {"unknown"}
        ELSE IF ~waiting THEN {"none"}
        ELSE {"again", IF other THEN "remaining" ELSE "unreaped"}

State == IF Live THEN "alive" ELSE "exited"

judge ==
    /\ At("judge")
    /\ \E d \in Verdicts :
          \/ d = "again" /\ Go("glob")
          \/ d # "again" /\ script.back = "fenced" /\ Report("not-started", "fence-retained", d)
          \/ /\ d # "again" /\ script.back = "loop"
             /\ CASE d # "none" -> Report(State, "retained", d)
                  [] d = "none" /\ ~Live -> Census("final")
                  [] OTHER -> Go("retire")
          \/ /\ d # "again" /\ script.back = "give_up"
             /\ Report(IF Live THEN "alive" ELSE "unknown", "retained",
                       CASE d # "none" -> d
                         [] script.kids -> "remaining"
                         [] OTHER -> "unknown")
          \/ /\ d # "again" /\ script.back = "final"
             /\ IF d = "none" THEN Go("remove") ELSE Report(script.remote, "retained", d)
    /\ UNCHANGED <<processVars, control, hit>>

\* retire(): the exact leader is stopped, looked at, and only then killed.
Again ==
    IF script.tries < 2
    THEN script' = [script EXCEPT !.at = "glob", !.back = "loop", !.tries = @ + 1]
    ELSE Report("alive", "retained", "unknown")

retire ==
    /\ At("retire")
    /\ \/ /\ Live /\ leader.parent = 0
          /\ control' = [control EXCEPT !.halt = TRUE] /\ Go("stop")
       \/ /\ ~Live \/ leader.parent # 0 \/ "io" \in Faults
          /\ Again /\ UNCHANGED control
    /\ UNCHANGED <<processVars, hit>>

\* The signal may not have stopped the leader when the script stops waiting.
stop ==
    /\ At("stop")
    /\ \/ Works /\ leader' = [leader EXCEPT !.at = "stopped"]
       \/ UNCHANGED leader
    /\ Go("inspect")
    /\ UNCHANGED <<child, session, effect, control, hit>>

HasChild == child.at \in {"running", "zombie"}

\* Mutant: the stopped leader is killed without a look at its children.
InspectNothing ==
    /\ At("inspect")
    /\ CASE ~Live -> Census("give_up")
         [] Works -> Go("resume")
         [] OTHER -> Go("kill")
    /\ UNCHANGED <<processVars, control, hit>>

\* kids() of the stopped leader.
inspect ==
    /\ At("inspect")
    /\ CASE ~Live -> Census("give_up")
         [] Works -> Go("resume")
         [] leader.at = "stopped" /\ HasChild ->
               script' = [script EXCEPT !.at = "resume", !.kids = TRUE]
         [] OTHER -> Go("kill")
    /\ UNCHANGED <<processVars, control, hit>>

kill ==
    /\ At("kill")
    /\ leader' = [leader EXCEPT !.at = "gone", !.exit = "failed"]
    /\ child' = Adopted
    /\ hit' = (hit \/ HasChild \/ leader.parent = 1)
    /\ script' = [script EXCEPT !.at = "unhalt", !.remote = "killed"]
    /\ UNCHANGED <<session, effect, control>>

unhalt ==
    /\ At("unhalt")
    /\ \/ control' = [control EXCEPT !.halt = FALSE] /\ Census("final")
       \/ "io" \in Faults /\ Report("killed", "retained", "unknown") /\ UNCHANGED control
    /\ UNCHANGED <<processVars, hit>>

\* A leader that is gone by now leaves the halt file behind.
resume ==
    /\ At("resume")
    /\ IF Live
       THEN /\ leader' = [leader EXCEPT !.at = "command"]
            /\ control' = [control EXCEPT !.halt = FALSE]
            /\ IF script.kids THEN Census("give_up") ELSE Again
       ELSE Census("give_up") /\ UNCHANGED <<leader, control>>
    /\ UNCHANGED <<child, session, effect, hit>>

remove_control ==
    /\ At("remove")
    /\ \/ /\ control' = [control EXCEPT !.dir = "none", !.rec = "none"]
          /\ Report(script.remote, "removed", "none")
       \/ "io" \in Faults /\ Report(script.remote, "retained", "none") /\ UNCHANGED control
    /\ UNCHANGED <<processVars, hit>>

ScriptNext ==
    claim_control \/ fence \/ read_record \/ glob \/ probe_leader \/ probe_child
    \/ judge \/ retire \/ stop \/ inspect \/ kill \/ unhalt \/ resume \/ remove_control

-----------------------------------------------------------------------------
(* The runner: run_custodied_container_command, _settle *)

\* The host's process group is proved to be retired, or the call raises.
HostOutcomes == {"retired"} \cup (IF "retire" \in Faults THEN {"unknown"} ELSE {})

Settling(raised) ==
    /\ runner' = "settling"
    /\ script' = [script EXCEPT !.at = "claim"]
    /\ \E host \in HostOutcomes :
       /\ failed' = (raised \/ host # "retired")
       /\ outcome' = [host |-> host, remote |-> "unknown", descendants |-> "unknown",
                      sessions |-> "pending", control |-> "unknown"]
    /\ UNCHANGED <<processVars, control, hit>>

client_ends ==
    /\ runner = "running" /\ leader.at = "gone"
    /\ Settling(leader.exit # "ok")

\* A deadline or an interrupt: the client is killed, the command is not.
deadline ==
    /\ runner = "running"
    /\ Settling(TRUE)

give_up_on_script ==
    /\ runner = "settling" /\ "settle" \in Faults
    /\ runner' = "done"
    /\ outcome' = [outcome EXCEPT !.sessions = "unknown"]
    /\ UNCHANGED <<failed, processVars, control, script, hit>>

SettledRemote == {"exited", "killed", "not-started"}

take_report ==
    /\ runner = "settling" /\ At("done")
    /\ LET remote == script.report[1]
           d == script.report[3]
           known == d = "none" /\ remote \in SettledRemote
           needless == ~failed \/ remote = "not-started"
       IN /\ outcome' = [outcome EXCEPT !.remote = remote, !.control = script.report[2],
                !.descendants = d,
                !.sessions = IF known /\ needless THEN "not-applicable" ELSE "unknown"]
          /\ runner' = IF known /\ ~needless THEN "terminating" ELSE "done"
    /\ UNCHANGED <<failed, processVars, control, script, hit>>

\* pg_terminate_backend waits for the session to end, up to its limit.
terminate_sessions ==
    /\ runner = "terminating"
    /\ session' \in IF session = "open" THEN {"open", "closed"} ELSE {session}
    /\ hit' = (hit \/ (session = "open" /\ child.at = "orphan"))
    /\ runner' = "reading_back"
    /\ UNCHANGED <<failed, outcome, leader, child, effect, control, script>>

read_back ==
    /\ runner = "reading_back"
    /\ outcome' = [outcome EXCEPT !.sessions =
          IF session = "open" THEN "remaining" ELSE "none"]
    /\ runner' = "done"
    /\ UNCHANGED <<failed, processVars, control, script, hit>>

session_call_fails ==
    /\ runner \in {"terminating", "reading_back"} /\ "settle" \in Faults
    /\ runner' = "done"
    /\ UNCHANGED <<failed, outcome, processVars, control, script, hit>>

RunnerNext ==
    client_ends \/ deadline \/ give_up_on_script \/ take_report
    \/ terminate_sessions \/ read_back \/ session_call_fails

Next ==
    \/ CommandNext /\ UNCHANGED <<runner, failed, outcome, script, hit>>
    \/ ScriptNext /\ UNCHANGED <<runner, failed, outcome>>
    \/ RunnerNext

Spec == Init /\ [][Next]_vars

-----------------------------------------------------------------------------
\* ExecOutcome.settled
Settled ==
    /\ runner = "done"
    /\ outcome.host = "retired"
    /\ outcome.remote \in SettledRemote
    /\ outcome.descendants = "none"
    /\ outcome.sessions \in {"none", "not-applicable"}

\* Something of the command can still act on the database or its files.
CanAct ==
    \/ leader.at \in {"owned", "command", "stopped"}
    \/ child.at \in {"running", "orphan"}
    \/ session = "open"
    \/ leader.at \in {"requested", "shell"} /\ control.dir = "none"

\* A command that counts as settled is over: neither its process, started
\* late or not, nor a child, nor its database session can act any more
\* (_settle, SETTLE_PROCESS_SH).  This is what lets a failed CREATE DATABASE
\* be taken as not created and lets the next command run.
SettledIsOver == Settled => ~CanAct

\* Settlement never makes a process end abnormally in a way that the
\* postmaster reaps, which would end every session of the server (retire,
\* _settle).
PostmasterIsSpared == ~hit
=============================================================================
