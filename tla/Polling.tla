------------------------------ MODULE Polling ------------------------------
(***************************************************************************)
(* The polling scheduler of the coordinator (coordinator/polling.py): one  *)
(* scheduler thread that reconciles its targets with the configuration,    *)
(* collects finished polls, admits due graphs to a bounded pool and waits; *)
(* the pool's threads that run polls; and the thread that calls stop().    *)
(*                                                                         *)
(* Time is relative: due[g] counts the ticks until g is due.  Of graphs    *)
(* that fell due in the past only the order matters, so their values are   *)
(* kept dense (Dense): -1 for the last to fall due, -2 for those before    *)
(* it, and so on.  One iteration of the loop takes no time.  Ties in the   *)
(* due time and the failure count are broken in any way (the code goes on  *)
(* by the last completion and the graph's identifier).                     *)
(***************************************************************************)
EXTENDS Integers, FiniteSets

CONSTANTS
    Graphs,        \* graphs that may be configured for polling
    MaxConcurrent, \* max_concurrent_polls
    StartupBatch,  \* startup_batch
    Interval,      \* interval_seconds, in ticks
    Retry,         \* retry_seconds, in ticks
    MaxRetry,      \* max_retry_seconds, in ticks
    MaxFailures,   \* cap of the failure count (31 in the code)
    Jitter,        \* _deterministic_jitter of each graph, in ticks
    Broken,        \* the configuration cannot be read
    Malformed,     \* reading it raises something the scheduler does not expect
    Configs        \* configurations: sets of graphs, Broken or Malformed

ASSUME PollingAssumption ==
    /\ IsFiniteSet(Graphs)
    /\ MaxConcurrent \in Nat \ {0} /\ StartupBatch \in Nat \ {0}
    /\ Interval \in Nat \ {0} /\ Retry \in Nat \ {0}
    /\ MaxRetry \in Nat /\ MaxRetry >= Retry /\ MaxFailures \in Nat \ {0}
    /\ Jitter \in [Graphs -> Nat]
    /\ Configs \ {Broken, Malformed} \subseteq SUBSET Graphs
    /\ Broken # Malformed

VARIABLES
    config,   \* what the resolver reads
    loop,     \* where the scheduler thread is
    status,   \* _status
    stop,     \* the _stop event
    stopper,  \* where the thread that calls stop() is
    tracked,  \* the keys of _next_due, _failure_counts and _last_completed
    due,      \* _next_due
    failures, \* _failure_counts
    pending,  \* _startup_pending
    running,  \* _running
    future,   \* _futures: absent, unfinished, or the kind of its outcome
    active    \* polls of each graph that threads of the pool are running

pollingVars == <<config, loop, status, stop, stopper, tracked, due, failures,
                 pending, running, future, active>>

schedule == <<tracked, due, failures, pending>>

Outcomes == {"success", "retry"}

PollingInit ==
    /\ config \in Configs \ {Broken, Malformed}
    /\ loop = "off" /\ status = "stopped" /\ stop = FALSE /\ stopper = "idle"
    /\ tracked = {} /\ pending = {} /\ running = {}
    /\ due = [g \in Graphs |-> 0]
    /\ failures = [g \in Graphs |-> 0]
    /\ future = [g \in Graphs |-> "none"]
    /\ active = [g \in Graphs |-> 0]

\* start(), which may succeed once
Start ==
    /\ loop = "off" /\ stopper = "idle"
    /\ loop' = "sync" /\ status' = "running"
    /\ UNCHANGED <<config, stop, stopper, schedule, running, future, active>>

\* The loop's test of _stop, at the head of an iteration.
Stopping ==
    /\ loop = "sync" /\ stop
    /\ loop' = "drain"
    /\ UNCHANGED <<config, status, stop, stopper, schedule, running, future, active>>

TargetIds == IF config = Broken THEN {} ELSE config

\* Mutant: a graph that is no longer configured loses its poll as well.
StillRunningTracked == running \cap TargetIds

\* Polls in flight outlive the removal of their graph.
StillRunning == running

\* _target_ids and _sync_targets: new targets are due at once, graphs that
\* are no longer targets lose their schedule.
SyncTargets ==
    LET new == TargetIds \ tracked
    IN  /\ loop = "sync" /\ ~stop
        /\ config # Malformed
        /\ loop' = "collect"
        /\ tracked' = TargetIds
        /\ due' = [g \in Graphs |-> IF g \in tracked \cap TargetIds THEN due[g] ELSE 0]
        /\ failures' = [g \in Graphs |-> IF g \in tracked \cap TargetIds
                                         THEN failures[g] ELSE 0]
        /\ pending' = (pending \cup new) \cap TargetIds
        /\ running' = StillRunning
        /\ UNCHANGED <<config, status, stop, stopper, future, active>>

\* An unexpected exception of the resolver ends the loop.
SchedulerFails ==
    /\ loop = "sync" /\ ~stop
    /\ config = Malformed
    /\ loop' = "drain" /\ status' = "degraded" /\ stop' = TRUE
    /\ UNCHANGED <<config, stopper, schedule, running, future, active>>

Pow2[n \in Nat] == IF n = 0 THEN 1 ELSE 2 * Pow2[n - 1]

\* The delay after a poll: exponential backoff while it fails.
Least(a, b) == IF a < b THEN a ELSE b
Delay(count) == IF count = 0 THEN Interval ELSE Least(MaxRetry, Retry * Pow2[count - 1])

\* Values of the past made dense.
Dense(d, t) ==
    [g \in Graphs |->
        IF g \notin t THEN 0
        ELSE IF d[g] >= 0 THEN d[g]
        ELSE -Cardinality({d[h] : h \in {k \in t : d[k] < 0 /\ d[k] >= d[g]}})]

\* The failure count after one more failure.
FailureCount(g) == Least(failures[g] + 1, MaxFailures)

\* _collect_completed and _finish_poll: a finished poll leaves the pool; its
\* graph, if it is still a target, is scheduled again.
CollectCompleted ==
    LET completed == {g \in Graphs : future[g] \in Outcomes}
        kept == completed \cap tracked
        count == [g \in Graphs |->
                     IF g \notin kept THEN failures[g]
                     ELSE IF future[g] = "retry" THEN FailureCount(g)
                     ELSE 0]
    IN  /\ loop = "collect"
        /\ loop' = "admit"
        /\ future' = [g \in Graphs |-> IF g \in completed THEN "none" ELSE future[g]]
        /\ running' = running \ completed
        /\ pending' = pending \ completed
        /\ failures' = count
        /\ due' = Dense([g \in Graphs |-> IF g \in kept THEN Delay(count[g]) + Jitter[g]
                                          ELSE due[g]], tracked)
        /\ UNCHANGED <<config, status, stop, stopper, tracked, active>>

\* Mutant: only the failure count decides.
BeforeByFailures(g, h) == failures[g] < failures[h]

\* _priority_key: the due time first, then the failure count.
Before(g, h) == due[g] < due[h] \/ (due[g] = due[h] /\ failures[g] < failures[h])

Capacity ==
    LET free == MaxConcurrent - Cardinality(running)
        batch == Least(StartupBatch, MaxConcurrent)
    IN  IF pending # {} THEN Least(free, batch) ELSE free

\* _admit_due: the first of the due graphs, as many as there is room for.
AdmitDue ==
    LET dueNow == {g \in tracked \ running : due[g] <= 0}
        room == Least(Capacity, Cardinality(dueNow))
    IN  /\ loop = "admit"
        /\ loop' = "wait"
        /\ \E selected \in SUBSET dueNow :
              /\ Cardinality(selected) = IF room < 0 THEN 0 ELSE room
              /\ \A g \in selected, h \in dueNow \ selected : ~Before(h, g)
              /\ running' = running \cup selected
              /\ future' = [g \in Graphs |-> IF g \in selected THEN "unfinished" ELSE future[g]]
              /\ active' = [g \in Graphs |-> IF g \in selected THEN active[g] + 1 ELSE active[g]]
        /\ UNCHANGED <<config, status, stop, stopper, schedule>>

\* _wake.wait returns: on the timeout or because stop() set it.
Wake ==
    /\ loop = "wait"
    /\ loop' = "sync"
    /\ UNCHANGED <<config, status, stop, stopper, schedule, running, future, active>>

\* _poll_one returns in a thread of the pool.  Every poll is bounded (the scan
\* has a time limit and looks at the cancel event).
PollReturns(g, outcome) ==
    /\ active[g] > 0
    /\ active' = [active EXCEPT ![g] = @ - 1]
    /\ future' = [future EXCEPT ![g] = IF @ = "unfinished" THEN outcome ELSE @]
    /\ UNCHANGED <<config, loop, status, stop, stopper, schedule, running>>

\* Mutant: the drain waits for results that nobody collects any more.
PoolIsCollected == \A g \in Graphs : future[g] = "none"

\* executor.shutdown(wait=True) returns when no poll is left.
PoolIsIdle == \A g \in Graphs : active[g] = 0

Drained ==
    /\ loop = "drain"
    /\ PoolIsIdle
    /\ loop' = "ended"
    /\ running' = {} /\ pending' = {}
    /\ future' = [g \in Graphs |-> "none"]
    /\ UNCHANGED <<config, status, stop, stopper, tracked, due, failures, active>>

\* stop(): the events are set, then the thread is joined.
StopRequest ==
    /\ stopper \in {"idle", "timed_out"} /\ loop # "off"
    /\ stopper' = "joining" /\ stop' = TRUE
    /\ UNCHANGED <<config, loop, status, schedule, running, future, active>>

StopReturns ==
    /\ stopper = "joining" /\ loop = "ended"
    /\ stopper' = "returned"
    /\ status' = IF status = "degraded" THEN status ELSE "stopped"
    /\ UNCHANGED <<config, loop, stop, schedule, running, future, active>>

\* The join times out: stop() raises and the status stays.
StopTimesOut ==
    /\ stopper = "joining" /\ loop # "ended"
    /\ stopper' = "timed_out"
    /\ UNCHANGED <<config, loop, status, stop, schedule, running, future, active>>

\* The operator edits the configuration.
Reconfigure ==
    /\ config' \in Configs \ {config}
    /\ UNCHANGED <<loop, status, stop, stopper, schedule, running, future, active>>

Tick ==
    /\ loop = "wait"
    /\ due' = Dense([g \in Graphs |-> due[g] - 1], tracked)
    /\ UNCHANGED <<config, loop, status, stop, stopper, tracked, failures,
                   pending, running, future, active>>

Scheduler ==
    Stopping \/ SyncTargets \/ SchedulerFails \/ CollectCompleted \/ AdmitDue
        \/ Wake \/ Drained

Poll(g) == \E outcome \in Outcomes : PollReturns(g, outcome)

PollingNext ==
    \/ Start \/ Scheduler \/ Tick \/ Reconfigure
    \/ StopRequest \/ StopReturns \/ StopTimesOut
    \/ \E g \in Graphs : Poll(g)

PollingSpec == PollingInit /\ [][PollingNext]_pollingVars

\* The scheduler thread and the pool's threads run.  Time passes only while the
\* thread waits, and every wait takes some: hence the strong fairness.
PollingFairness ==
    /\ WF_pollingVars(Scheduler)
    /\ SF_pollingVars(Tick)
    /\ WF_pollingVars(Start)
    /\ \A g \in Graphs : WF_pollingVars(Poll(g))

FairPollingSpec == PollingSpec /\ PollingFairness
-----------------------------------------------------------------------------
PollingTypeOK ==
    /\ config \in Configs
    /\ loop \in {"off", "sync", "collect", "admit", "wait", "drain", "ended"}
    /\ status \in {"stopped", "running", "degraded"} /\ stop \in BOOLEAN
    /\ stopper \in {"idle", "joining", "timed_out", "returned"}
    /\ tracked \subseteq Graphs /\ pending \subseteq tracked
    /\ \A g \in Graphs : due[g] \in -Cardinality(Graphs) .. (Interval + MaxRetry + Jitter[g])
    /\ failures \in [Graphs -> 0 .. MaxFailures]
    /\ running \subseteq Graphs
    /\ future \in [Graphs -> Outcomes \cup {"none", "unfinished"}]

\* There is at most one poll of a graph, and never more polls than the pool
\* has room for, also while graphs leave the configuration and come back with
\* their old poll still in flight (_sync_targets keeps _running).
PollsAreBounded ==
    /\ \A g \in Graphs : active[g] <= 1
    /\ Cardinality({g \in Graphs : active[g] > 0}) <= MaxConcurrent

\* A graph that stays configured is polled again and again, however many
\* others are configured, failing or slow ("fair, bounded polling"), until the
\* scheduler stops.
PolledAgain ==
    \A g \in Graphs :
        []<>(active[g] > 0 \/ stop \/ config = Malformed \/ g \notin TargetIds)

\* A stopped or failed scheduler ends: the polls in flight are waited for and
\* stop() returns or reports that it timed out (stop, _run).
StopEnds == stop ~> loop = "ended"
=============================================================================
