----------------------------- MODULE JobRuntime -----------------------------
(***************************************************************************)
(* How the worker runs its jobs: cron callbacks that nobody awaits, the    *)
(* promises of SingleFlight that overlapping callbacks share, failures     *)
(* that are caught, passed on or take the process down, runs that hang,    *)
(* and the ownership backfill that is rescheduled until it succeeds.       *)
(* What a run does is the subject of VaultOwnership, CronBatches and       *)
(* ReportSync; here it begins and ends.                                    *)
(***************************************************************************)
EXTENDS Naturals, Sequences

CONSTANTS
  Crons,         \* the callbacks considered
  MaxCallbacks,  \* bound: callbacks under way
  MaxFailures,   \* bound: failed runs and failed reads of the safe block
  MaxHangs,      \* bound: runs that never settle
  MaxDeaths,     \* bound: restarts of the worker from outside
  StartupDelay,  \* OWNERSHIP_BACKFILL_STARTUP_DELAY_MS
  MaxDelay       \* OWNERSHIP_BACKFILL_MAX_RETRY_DELAY_MS

AllCrons == {"vaults", "members", "reconcile", "scan", "reports", "backfill", "cold"}

ASSUME JobRuntimeAssumption ==
  /\ Crons \subseteq AllCrons
  /\ MaxCallbacks \in Nat /\ MaxFailures \in Nat /\ MaxHangs \in Nat /\ MaxDeaths \in Nat
  /\ StartupDelay \in Nat /\ MaxDelay \in Nat /\ StartupDelay <= MaxDelay

VARIABLES
  alive,     \* the worker process runs
  callback,  \* the callbacks under way
  run,       \* the run a callback has started
  inFlight,  \* InFlight: key -> the callback whose promise is in the map, or 0
  backfill,  \* the one-off backfill job in the scheduler's registry
  delay,     \* its delay
  coldDone,  \* the cold start-up calculation has been called
  failures, hangs, deaths  \* how often so far

vars == <<alive, callback, run, inFlight, backfill, delay, coldDone, failures, hangs, deaths>>

Callbacks == 1..MaxCallbacks
Keys == {"vaults", "members", "reconcile", "scan", "backfill", "fetch", "metrics"}

\* The single-flight methods a callback awaits one after the other.
Program(cron) ==
  CASE cron = "reports" -> <<"vaults", "fetch", "metrics">>
    [] cron = "cold" -> <<"metrics">>
    [] OTHER -> <<cron>>

\* Callbacks that catch what their runs throw.
Guarded == {"reconcile", "scan", "backfill", "cold"}

Callback == [
  pc     : {"none", "block", "call", "waiting", "resumed"},
  cron   : AllCrons \cup {"none"},
  step   : 1..3,
  on     : 0..MaxCallbacks,     \* whose run it waits for
  failed : BOOLEAN]             \* what its promise settled with

NoCallback == [pc |-> "none", cron |-> "none", step |-> 1, on |-> 0, failed |-> FALSE]

Run == [
  phase  : {"none", "scheduled", "running", "ended", "hung"},
  key    : Keys \cup {"none"},
  failed : BOOLEAN]

NoRun == [phase |-> "none", key |-> "none", failed |-> FALSE]

KeyOf(s) == Program(callback[s].cron)[callback[s].step]

\* A new process: the jobs are registered, the backfill shortly after the start.
Boot ==
  /\ callback = [s \in Callbacks |-> NoCallback]
  /\ run = [s \in Callbacks |-> NoRun]
  /\ inFlight = [k \in Keys |-> 0]
  /\ backfill = "registered"
  /\ delay = StartupDelay
  /\ coldDone = FALSE

Init ==
  /\ alive = TRUE
  /\ Boot
  /\ failures = 0 /\ hangs = 0 /\ deaths = 0

Set(s, newCallback) == callback' = [callback EXCEPT ![s] = newCallback]

Fault == failures < MaxFailures /\ failures' = failures + 1

(***************************************************************************)
(* A callback.                                                             *)
(***************************************************************************)
\* A cron fires whether or not its last callback has returned.  The backfill fires
\* once for each time it is scheduled, the cold start once.
Fire(s, cron) ==
  /\ alive
  /\ callback[s].pc = "none" /\ \A t \in 1..(s - 1) : callback[t].pc # "none"
  /\ cron = "backfill" => backfill = "registered" /\ \A t \in Callbacks : callback[t].cron # "backfill"
  /\ cron # "backfill" => s < MaxCallbacks  \* the last place is left to it
  /\ cron = "cold" => ~coldDone
  /\ Set(s, [NoCallback EXCEPT !.pc = IF cron = "cold" THEN "call" ELSE "block", !.cron = cron])
  /\ coldDone' = (coldDone \/ cron = "cold")
  /\ UNCHANGED <<alive, run, inFlight, backfill, delay, failures, hangs, deaths>>

ReadSafeBlock(s) ==
  /\ callback[s].pc = "block"
  /\ Set(s, [callback[s] EXCEPT !.pc = "call"])
  /\ UNCHANGED <<alive, run, inFlight, backfill, delay, coldDone, failures, hangs, deaths>>

\* Mutant: the retry is scheduled before the finished job is deleted, and the registry
\* rejects the duplicate name.
RescheduleFirst(failed) ==
  /\ backfill' = IF failed THEN "deleted" ELSE "completed"
  /\ delay' = delay

\* The finally block of the backfill: the job is deleted, and after a failure scheduled
\* again with twice the delay, up to the cap.
Reschedule(failed) ==
  /\ backfill' = IF failed THEN "registered" ELSE "completed"
  /\ delay' = IF ~failed THEN delay ELSE IF delay * 2 < MaxDelay THEN delay * 2 ELSE MaxDelay

\* The callback returns.
Finish(s, failed) ==
  /\ Set(s, NoCallback)
  /\ IF callback[s].cron = "backfill" THEN Reschedule(failed) ELSE UNCHANGED <<backfill, delay>>

ReadSafeBlockFails(s) ==
  /\ callback[s].pc = "block"
  /\ Finish(s, TRUE)
  /\ Fault
  /\ UNCHANGED <<alive, run, inFlight, coldDone, hangs, deaths>>

(***************************************************************************)
(* SingleFlight.                                                           *)
(***************************************************************************)
\* The promise in the map is returned without its rejection.
Join(s) ==
  /\ inFlight[KeyOf(s)] # 0
  /\ Set(s, [callback[s] EXCEPT !.pc = "waiting", !.on = inFlight[KeyOf(s)]])
  /\ UNCHANGED <<run, inFlight>>

\* Mutant: the promise is put into the map when the run begins.
StartUnmapped(s) ==
  /\ inFlight[KeyOf(s)] = 0
  /\ Set(s, [callback[s] EXCEPT !.pc = "waiting", !.on = s])
  /\ run' = [run EXCEPT ![s] = [NoRun EXCEPT !.phase = "scheduled", !.key = KeyOf(s)]]
  /\ UNCHANGED inFlight

\* The run is scheduled as a microtask and its promise put into the map at once.
Start(s) ==
  /\ inFlight[KeyOf(s)] = 0
  /\ Set(s, [callback[s] EXCEPT !.pc = "waiting", !.on = s])
  /\ run' = [run EXCEPT ![s] = [NoRun EXCEPT !.phase = "scheduled", !.key = KeyOf(s)]]
  /\ inFlight' = [inFlight EXCEPT ![KeyOf(s)] = s]

Call(s) ==
  /\ callback[s].pc = "call"
  /\ Join(s) \/ Start(s)
  /\ UNCHANGED <<alive, backfill, delay, coldDone, failures, hangs, deaths>>

RunTo(s, from, to) ==
  /\ run[s].phase = from
  /\ run' = [run EXCEPT ![s] = to]
  /\ UNCHANGED <<alive, callback, inFlight, backfill, delay, coldDone, deaths>>

RunBegins(s) ==
  /\ RunTo(s, "scheduled", [run[s] EXCEPT !.phase = "running"])
  /\ UNCHANGED <<failures, hangs>>

RunSucceeds(s) ==
  /\ RunTo(s, "running", [run[s] EXCEPT !.phase = "ended"])
  /\ UNCHANGED <<failures, hangs>>

RunFails(s) ==
  /\ RunTo(s, "running", [run[s] EXCEPT !.phase = "ended", !.failed = TRUE])
  /\ Fault
  /\ UNCHANGED hangs

\* A call without a timeout never answers.
RunHangs(s) ==
  /\ hangs < MaxHangs
  /\ RunTo(s, "running", [run[s] EXCEPT !.phase = "hung"])
  /\ hangs' = hangs + 1
  /\ UNCHANGED failures

\* Mutant: a joiner gets the rejection, too.
RejectsAll(s, t) == run[s].failed

\* existing.catch: only the caller that started the run gets its rejection.
Rejects(s, t) == run[s].failed /\ t = s

\* Mutant: joiners wait for a promise of their own that nobody settles.
CleanupStarterOnly(s) ==
  /\ run[s].phase = "ended"
  /\ inFlight' = [inFlight EXCEPT ![run[s].key] = 0]
  /\ callback' = [callback EXCEPT ![s].pc = "resumed", ![s].on = 0, ![s].failed = run[s].failed]
  /\ run' = [run EXCEPT ![s] = NoRun]
  /\ UNCHANGED <<alive, backfill, delay, coldDone, failures, hangs, deaths>>

\* finally deletes the key and the promise settles: everyone who waits for it goes on.
Cleanup(s) ==
  /\ run[s].phase = "ended"
  /\ inFlight' = [inFlight EXCEPT ![run[s].key] = 0]
  /\ callback' = [t \in Callbacks |->
       IF callback[t].pc = "waiting" /\ callback[t].on = s
       THEN [callback[t] EXCEPT !.pc = "resumed", !.on = 0, !.failed = Rejects(s, t)] ELSE callback[t]]
  /\ run' = [run EXCEPT ![s] = NoRun]
  /\ UNCHANGED <<alive, backfill, delay, coldDone, failures, hangs, deaths>>

(***************************************************************************)
(* After an await.                                                         *)
(***************************************************************************)
Resume(s) ==
  /\ callback[s].pc = "resumed" /\ ~callback[s].failed
  /\ IF callback[s].step < Len(Program(callback[s].cron))
     THEN Set(s, [callback[s] EXCEPT !.pc = "call", !.step = @ + 1]) /\ UNCHANGED <<backfill, delay>>
     ELSE Finish(s, FALSE)
  /\ UNCHANGED <<alive, run, inFlight, coldDone, failures, hangs, deaths>>

Catch(s) ==
  /\ callback[s].pc = "resumed" /\ callback[s].failed /\ callback[s].cron \in Guarded
  /\ Finish(s, TRUE)
  /\ UNCHANGED <<alive, run, inFlight, coldDone, failures, hangs, deaths>>

\* An unhandled rejection: cron does not await its callbacks.  The dead process keeps
\* nothing; what its variables hold then does not matter.
Die ==
  /\ alive' = FALSE
  /\ callback' = [s \in Callbacks |-> NoCallback]
  /\ run' = [s \in Callbacks |-> NoRun]
  /\ inFlight' = [k \in Keys |-> 0]
  /\ UNCHANGED <<backfill, delay, coldDone, failures, hangs>>

UnhandledRejection(s) ==
  /\ callback[s].pc = "resumed" /\ callback[s].failed /\ callback[s].cron \notin Guarded
  /\ Die
  /\ UNCHANGED deaths

\* The worker is restarted from outside while it runs.
Killed ==
  /\ alive /\ deaths < MaxDeaths
  /\ Die
  /\ deaths' = deaths + 1

Restart ==
  /\ ~alive
  /\ alive' = TRUE
  /\ backfill' = "registered" /\ delay' = StartupDelay /\ coldDone' = FALSE
  /\ UNCHANGED <<callback, run, inFlight, failures, hangs, deaths>>

CallbackStep(s) ==
  ReadSafeBlock(s) \/ ReadSafeBlockFails(s) \/ Call(s) \/ Resume(s) \/ Catch(s) \/ UnhandledRejection(s)

RunStep(s) == RunBegins(s) \/ RunSucceeds(s) \/ RunFails(s) \/ RunHangs(s) \/ Cleanup(s)

Next ==
  \/ \E s \in Callbacks, cron \in Crons : Fire(s, cron)
  \/ \E s \in Callbacks : CallbackStep(s) \/ RunStep(s)
  \/ Killed
  \/ Restart

\* Promises settle unless they hang, the timer of the backfill fires, and the
\* orchestrator restarts the worker.
Spec ==
  /\ Init /\ [][Next]_vars
  /\ \A s \in Callbacks : WF_vars(CallbackStep(s)) /\ WF_vars(RunStep(s))
  /\ WF_vars(\E s \in Callbacks : Fire(s, "backfill"))
  /\ WF_vars(Restart)

(***************************************************************************)
(* Properties.                                                             *)
(***************************************************************************)
\* Type invariant.
TypeOK ==
  /\ alive \in BOOLEAN /\ coldDone \in BOOLEAN
  /\ backfill \in {"registered", "deleted", "completed"}
  /\ callback \in [Callbacks -> Callback]
  /\ run \in [Callbacks -> Run]
  /\ inFlight \in [Keys -> 0..MaxCallbacks]
  /\ delay \in 0..MaxDelay
  /\ failures \in 0..MaxFailures /\ hangs \in 0..MaxHangs /\ deaths \in 0..MaxDeaths

\* A promise in the map is that of a run under way for its key: no key stays taken after
\* its run has settled, in whatever way it has.
KeysAreFreed ==
  \A k \in Keys : inFlight[k] # 0 => run[inFlight[k]].phase # "none" /\ run[inFlight[k]].key = k

\* Every run of a key is exclusive: JobRuntime implements ExclusiveRuns.
Runs == INSTANCE ExclusiveRuns WITH
  Callers <- Callbacks,
  running <- {<<s, run[s].key>> : s \in {t \in Callbacks : run[t].phase \in {"running", "hung"}}}

ImplementsExclusiveRuns == Runs!Spec

\* A failed run is reported once: when its promise settles, the callback that started it
\* and nobody else gets the rejection, however many have joined.  (An unguarded callback
\* then takes the worker down, so a second report would be a second cause of death.)
FailureReportedOnce ==
  [][\A s \in Callbacks : Cleanup(s) /\ run[s].failed =>
       \A t \in Callbacks : callback'[t].failed /\ ~callback[t].failed <=> t = s]_vars

\* The backfill is run until it succeeds, through failing reads, failing runs and
\* restarts, unless its run hangs.
BackfillCompletes ==
  "backfill" \in Crons =>
    <>[](backfill = "completed" \/ \E s \in Callbacks : run[s].phase = "hung" /\ run[s].key = "backfill")

\* Every caller gets an answer, unless the run it waits for hangs or the worker dies.
EveryCallReturns ==
  \A s \in Callbacks : callback[s].pc = "waiting" ~>
    callback[s].pc # "waiting" \/ run[callback[s].on].phase = "hung"
=============================================================================
