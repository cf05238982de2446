----------------------------- MODULE CronService -----------------------------
(***************************************************************************)
(* The scheduler of nanobot (cron/service.py): a list of jobs cached in    *)
(* memory and saved whole to jobs.json, and one asyncio task, the tick,    *)
(* that sleeps until the first job is due, runs the due jobs one after the *)
(* other and arms its successor.                                           *)
(*                                                                         *)
(* A step lasts from one await to the next.  Only the sleep of the tick    *)
(* and the agent turn of a job (on_job) are awaited, so calls of the agent *)
(* loop or the dashboard interleave there, and so does another process     *)
(* that keeps its own CronService on the same jobs.json.  A definition     *)
(* Mut_X is a plausible mistake in the definition it precedes; the         *)
(* specification does not use it.                                          *)
(***************************************************************************)
EXTENDS Integers

CONSTANTS
    MaxJobs,       \* bound: jobs ever added
    MaxTime,       \* bound: last instant of the clock
    Period,        \* interval of a recurring job
    Kinds,         \* the schedules in use: "once", "at", "every", "cron"
    MaxCalls,      \* bound: public calls that change or reload the jobs
    MaxCrashes,    \* bound: deaths of the process
    MaxForeign     \* bound: changes of jobs.json by another process

ASSUME BoundsAssumption == /\ MaxJobs \in Nat /\ MaxTime \in Nat \ {0}
                           /\ Period \in Nat \ {0}
                           /\ MaxCalls \in Nat /\ MaxCrashes \in Nat /\ MaxForeign \in Nat
ASSUME KindsAssumption == Kinds \subseteq {"once", "at", "every", "cron"}

VARIABLES
    now,        \* _now_ms(), from 1 on
    file,       \* jobs.json, the jobs by id
    store,      \* self._store
    loaded,     \* self._store is not None
    synced,     \* the modification time of jobs.json is self._last_mtime
    running,    \* self._running
    tick,       \* self._timer_task
    manual,     \* the call of run_job in progress
    added,      \* ids given out so far (uuid4 in the code: never given twice)
    recorded,   \* ghost: the occurrences <<id, next>> whose end a tick recorded
    used        \* how much of the bounds is used up

vars == <<now, file, store, loaded, synced, running, tick, manual,
          added, recorded, used>>

-----------------------------------------------------------------------------
(* Jobs, ticks and turns. *)

Ids   == 1..MaxJobs
Never == 0                          \* next_run_at_ms is None
Times == 0..(MaxTime + Period)

\* "once" is an "at" schedule with delete_after_run
Job     == [on : BOOLEAN, kind : Kinds, at : 0..MaxTime, next : Times]
\* a job object as a turn holds it
Turn    == [id : Ids, job : Job]
NoStore == [i \in {} |-> {}]

OneShot(job) == job.kind \in {"once", "at"}

NextRun(kind, at) ==
    IF kind \in {"once", "at"} THEN (IF at > now THEN at ELSE Never)
    ELSE IF kind = "every" THEN now + Period
    ELSE ((now \div Period) + 1) * Period     \* "cron"

Without(jobs, i) == [k \in DOMAIN jobs \ {i} |-> jobs[k]]
With(jobs, i, job) == [k \in DOMAIN jobs \union {i} |-> IF k = i THEN job ELSE jobs[k]]

Scheduled(job) == job.on /\ job.next # Never

NoTick       == [phase |-> "none"]
Asleep(t)    == [phase |-> "asleep", wake |-> t]
\* a tick that runs a job; `rest` is what remains of due_jobs, `attached` tells
\* whether its job objects are still those of self._store
InTurn(r, rest, attached) ==
    [phase |-> "turn", turn |-> r, rest |-> rest, attached |-> attached]
NoManual     == [busy |-> FALSE]

Mut_NeverWakes(jobs) == {jobs[i].next : i \in {k \in DOMAIN jobs : jobs[k].on}}
\* _get_next_wake_ms
WakeTimes(jobs) == {jobs[i].next : i \in {k \in DOMAIN jobs : Scheduled(jobs[k])}}

-----------------------------------------------------------------------------
(* What every method is made of: _load_store, _save_store, _arm_timer,     *)
(* _recompute_next_runs and the end of _execute_job.                       *)

Fresh   == loaded /\ synced
\* Mutant: the store is loaded once.
Mut_LoadedOnce == IF loaded THEN store ELSE file
Current == IF Fresh THEN store ELSE file

\* A reload replaces the job objects that a turn in progress still holds.
DetachTick ==
    tick' = IF tick.phase = "turn" /\ ~Fresh THEN [tick EXCEPT !.attached = FALSE] ELSE tick
DetachManual ==
    manual' = IF manual # NoManual /\ ~Fresh THEN [manual EXCEPT !.attached = FALSE] ELSE manual

\* _load_store leaves _last_mtime alone: a file found changed is found changed
\* again at every load until the next save.
Keep(jobs) ==
    /\ store' = jobs /\ loaded' = TRUE
    /\ UNCHANGED <<file, synced>>

Mut_CacheOnly(jobs) == store' = jobs /\ loaded' = TRUE /\ synced' = TRUE /\ UNCHANGED file
Save(jobs) ==
    /\ store' = jobs /\ loaded' = TRUE
    /\ file' = jobs /\ synced' = TRUE

SleepUntilFirst(times) ==
    \/ /\ times = {} /\ tick' = NoTick
    \/ \E t \in times : (\A u \in times : t <= u) /\ tick' = Asleep(t)

Mut_ArmWhatIsAhead(jobs, up) ==
    SleepUntilFirst(IF up THEN {t \in WakeTimes(jobs) : t > now} ELSE {})
Mut_ArmOnlyIfIdle(jobs, up) ==
    IF tick.phase = "asleep" THEN UNCHANGED tick
    ELSE SleepUntilFirst(IF up THEN WakeTimes(jobs) ELSE {})
Mut_ArmAfterTurn(jobs, up) ==
    IF tick.phase = "turn" /\ tick.rest # {} THEN UNCHANGED tick
    ELSE SleepUntilFirst(IF up THEN WakeTimes(jobs) ELSE {})
\* Whatever the old tick was doing, a job's turn included, is cancelled.
Arm(jobs, up) == SleepUntilFirst(IF up THEN WakeTimes(jobs) ELSE {})

Recomputed(jobs) ==
    [i \in DOMAIN jobs |->
        IF jobs[i].on
          THEN [jobs[i] EXCEPT !.next = NextRun(jobs[i].kind, jobs[i].at)]
          ELSE jobs[i]]

Mut_NotRescheduled(jobs, r, attached) ==
    IF r.job.kind = "once" THEN Without(jobs, r.id)
    ELSE IF attached /\ r.id \in DOMAIN jobs /\ OneShot(r.job)
      THEN [jobs EXCEPT ![r.id].on = FALSE, ![r.id].next = Never]
      ELSE jobs
\* The jobs after the turn of r: a job that is deleted is looked up by its id,
\* any other change is made to the object the turn holds.
Finished(jobs, r, attached) ==
    IF r.job.kind = "once" THEN Without(jobs, r.id)
    ELSE IF ~attached \/ r.id \notin DOMAIN jobs THEN jobs
    ELSE IF OneShot(r.job)
      THEN [jobs EXCEPT ![r.id].on = FALSE, ![r.id].next = Never]
      ELSE [jobs EXCEPT ![r.id].next = NextRun(r.job.kind, r.job.at)]

-----------------------------------------------------------------------------
Init ==
    /\ now = 1
    /\ file = NoStore /\ store = NoStore /\ loaded = FALSE /\ synced = FALSE
    /\ running = FALSE /\ tick = NoTick /\ manual = NoManual
    /\ added = 0 /\ recorded = {}
    /\ used = [calls |-> 0, crashes |-> 0, foreign |-> 0]

Call ==
    /\ used.calls < MaxCalls
    /\ used' = [used EXCEPT !.calls = @ + 1]

\* The clock.
Tick ==
    /\ now < MaxTime
    /\ now' = now + 1
    /\ UNCHANGED <<file, store, loaded, synced, running, tick, manual, added, recorded, used>>

Start ==
    /\ ~running /\ running' = TRUE
    /\ LET jobs == Recomputed(Current)
       IN  Save(jobs) /\ Arm(jobs, TRUE)
    /\ DetachManual
    /\ UNCHANGED <<now, added, recorded, used>>

Stop ==
    /\ running /\ running' = FALSE
    /\ tick' = NoTick
    /\ UNCHANGED <<now, file, store, loaded, synced, manual, added, recorded, used>>

-----------------------------------------------------------------------------
(* The tick: _on_timer and _execute_job.                                   *)

DueTurns(jobs) ==
    {[id |-> i, job |-> jobs[i]] :
        i \in {k \in DOMAIN jobs : Scheduled(jobs[k]) /\ now >= jobs[k].next}}

\* due_jobs is in the order of the list, which is that of the ids
BeginTurn(due, attached) ==
    \E r \in due :
        /\ \A s \in due : r.id <= s.id
        /\ tick' = InTurn(r, due \ {r}, attached)

TimerFires ==
    /\ tick.phase = "asleep" /\ now >= tick.wake
    /\ LET due == DueTurns(Current)
       IN  \/ /\ due = {}
              /\ Save(Current) /\ Arm(Current, running)
           \/ /\ due # {}
              /\ Keep(Current) /\ BeginTurn(due, TRUE)
    /\ DetachManual
    /\ UNCHANGED <<now, running, added, recorded, used>>

\* The turn of a job ends, well or with an error.  What is left of due_jobs runs
\* next, without another look at the jobs; then all is saved at once.
TurnEnds ==
    /\ tick.phase = "turn"
    /\ LET r    == tick.turn
           jobs == Finished(store, r, tick.attached)
       IN  /\ recorded' = IF tick.attached \/ r.job.kind = "once"
                            THEN recorded \union {<<r.id, r.job.next>>} ELSE recorded
           /\ \/ /\ tick.rest = {}
                 /\ Save(jobs) /\ Arm(jobs, running)
              \/ /\ tick.rest # {}
                 /\ Keep(jobs) /\ BeginTurn(tick.rest, tick.attached)
    /\ UNCHANGED <<now, running, manual, added, used>>

-----------------------------------------------------------------------------
(* The public methods.                                                     *)

AddJob(kind, at) ==
    /\ Call /\ added < MaxJobs
    /\ added' = added + 1
    /\ LET job  == [on |-> TRUE, kind |-> kind, at |-> at, next |-> NextRun(kind, at)]
           jobs == With(Current, added + 1, job)
       IN  Save(jobs) /\ Arm(jobs, running)
    /\ DetachManual
    /\ UNCHANGED <<now, running, recorded>>

RemoveJob(i) ==
    /\ Call
    /\ i \in DOMAIN Current
    /\ LET jobs == Without(Current, i)
       IN  Save(jobs) /\ Arm(jobs, running)
    /\ DetachManual
    /\ UNCHANGED <<now, running, added, recorded>>

EnableJob(i, enabled) ==
    /\ Call
    /\ i \in DOMAIN Current
    /\ LET job  == Current[i]
           next == IF enabled THEN NextRun(job.kind, job.at) ELSE Never
           jobs == [Current EXCEPT ![i].on = enabled, ![i].next = next]
       IN  Save(jobs) /\ Arm(jobs, running)
    /\ DetachManual
    /\ UNCHANGED <<now, running, added, recorded>>

\* list_jobs, get_job, status, and the calls above for a job that is not there:
\* they load, and change nothing else.
ListJobs ==
    /\ Call /\ ~Fresh
    /\ Keep(Current)
    /\ DetachTick /\ DetachManual
    /\ UNCHANGED <<now, running, added, recorded>>

\* run_job(force=True); without force the job must be enabled.
RunJobBegins(i) ==
    /\ Call
    /\ manual = NoManual
    /\ i \in DOMAIN Current
    /\ Keep(Current)
    /\ manual' = [busy |-> TRUE, turn |-> [id |-> i, job |-> Current[i]], attached |-> TRUE]
    /\ DetachTick
    /\ UNCHANGED <<now, running, added, recorded>>

RunJobEnds ==
    /\ manual # NoManual
    /\ LET jobs == Finished(store, manual.turn, manual.attached)
       IN  Save(jobs) /\ Arm(jobs, running)
    /\ manual' = NoManual
    /\ UNCHANGED <<now, running, added, recorded, used>>

-----------------------------------------------------------------------------
(* The surroundings.                                                       *)

\* The process dies and can be started again.
Crash ==
    /\ used.crashes < MaxCrashes
    /\ used' = [used EXCEPT !.crashes = @ + 1]
    /\ store' = NoStore /\ loaded' = FALSE /\ synced' = FALSE
    /\ running' = FALSE /\ tick' = NoTick /\ manual' = NoManual
    /\ UNCHANGED <<now, file, added, recorded>>

\* Another process adds, removes or disables a job in jobs.json.
ForeignWrite(jobs) ==
    /\ used.foreign < MaxForeign
    /\ used' = [used EXCEPT !.foreign = @ + 1]
    /\ file' = jobs /\ synced' = FALSE
    /\ UNCHANGED <<now, store, loaded, running, tick, manual, recorded>>

ForeignAdd(kind, at) ==
    /\ added < MaxJobs /\ added' = added + 1
    /\ ForeignWrite(With(file, added + 1,
           [on |-> TRUE, kind |-> kind, at |-> at, next |-> NextRun(kind, at)]))

ForeignRemove(i) ==
    /\ i \in DOMAIN file
    /\ ForeignWrite(Without(file, i))
    /\ UNCHANGED added

ForeignDisable(i) ==
    /\ i \in DOMAIN file /\ file[i].on
    /\ ForeignWrite([file EXCEPT ![i].on = FALSE, ![i].next = Never])
    /\ UNCHANGED added

-----------------------------------------------------------------------------
Instants(kind) == IF kind \in {"once", "at"} THEN 1..MaxTime ELSE {Never}

Next ==
    \/ Tick \/ Start \/ Stop
    \/ TimerFires \/ TurnEnds
    \/ \E kind \in Kinds : \E at \in Instants(kind) : AddJob(kind, at)
    \/ \E i \in Ids : RemoveJob(i)
    \/ \E i \in Ids, enabled \in BOOLEAN : EnableJob(i, enabled)
    \/ ListJobs
    \/ \E i \in Ids : RunJobBegins(i)
    \/ RunJobEnds
    \/ Crash
    \/ \E kind \in Kinds : \E at \in Instants(kind) : ForeignAdd(kind, at)
    \/ \E i \in Ids : ForeignRemove(i)
    \/ \E i \in Ids : ForeignDisable(i)

Spec == Init /\ [][Next]_vars

\* The event loop runs what is ready, and turns end: on_job has no timeout of its
\* own, but the model, the tools and their iterations are bounded.  Nothing is
\* assumed of the callers, the clock, or of a restart.
FairSpec == Spec /\ WF_vars(TimerFires) /\ WF_vars(TurnEnds) /\ WF_vars(RunJobEnds)

-----------------------------------------------------------------------------
(* Properties. *)

IsJobList(jobs, n) == DOMAIN jobs \subseteq 1..n /\ \A i \in DOMAIN jobs : jobs[i] \in Job

Ticks ==
    {NoTick}
    \union [phase : {"asleep"}, wake : Times \ {Never}]
    \union [phase : {"turn"}, turn : Turn, rest : SUBSET Turn, attached : BOOLEAN]

Manuals == {NoManual} \union [busy : {TRUE}, turn : Turn, attached : BOOLEAN]

\* Types; a tick sleeps only until a real instant ("if not next_wake", service.py 245).
TypeOK ==
    /\ now \in 1..MaxTime
    /\ IsJobList(file, added) /\ IsJobList(store, added)
    /\ loaded \in BOOLEAN /\ synced \in BOOLEAN /\ running \in BOOLEAN
    /\ tick \in Ticks /\ manual \in Manuals
    /\ added \in 0..MaxJobs
    /\ recorded \subseteq Ids \X Times
    /\ used \in [calls : 0..MaxCalls, crashes : 0..MaxCrashes, foreign : 0..MaxForeign]

\* While the service runs, every job with a next run is taken care of: a turn is in
\* progress, whose end arms the timer, or a tick sleeps that wakes no later than that
\* run.  No order of calls, turns and manual runs loses a wake-up (_arm_timer).
TimerCoversJobs ==
    running => \A i \in DOMAIN store :
        Scheduled(store[i]) =>
            \/ tick.phase = "turn"
            \/ tick.phase = "asleep" /\ tick.wake <= store[i].next

\* The step begins the turn of the job that tick'.turn holds.
Begins == /\ tick'.phase = "turn"
          /\ tick.phase = "turn" => tick'.rest # tick.rest

\* A turn begins only for a job that is in the store, enabled and due at that moment,
\* although due_jobs was computed before the turns that ran first (_on_timer).
StartsOnlyLiveJobs ==
    [][Begins => LET r == tick'.turn
                 IN  /\ r.id \in DOMAIN store' /\ store'[r.id] = r.job
                     /\ Scheduled(r.job) /\ r.job.next <= now]_vars

\* An occurrence whose end was recorded is never begun again, whatever is cancelled,
\* enabled again, run by hand or restarted later (_execute_job reschedules the job).
RecordedRunsAreFinal ==
    [][Begins => <<tick'.turn.id, tick'.turn.job.next>> \notin recorded]_vars

\* Between turns the jobs the service decides on are those of jobs.json, whoever wrote
\* it last, as long as the modification time says so (_load_store, _save_store).
CacheIsFresh ==
    running /\ Fresh /\ tick.phase # "turn" => store = file

Waiting(i, t) == /\ running /\ i \in DOMAIN store
                 /\ store[i].on /\ store[i].next = t /\ t <= now

\* A job that is due runs to its end, unless a call changes it or stops the service: the run
\* of the others, or a cancellation, does not make it wait for ever (_on_timer).
DueJobRuns ==
    \A i \in Ids : \A t \in Times \ {Never} :
        Waiting(i, t) ~> ~Waiting(i, t)

\* "disabling prevents future scheduling but does not cancel a task already running"
\* (docs/DASHBOARD_RUNTIME.md 125-126).
DisableKeepsTurn ==
    [][\A i \in Ids :
          EnableJob(i, FALSE) /\ tick.phase = "turn" /\ tick.turn.id = i
          => tick'.phase = "turn" /\ tick'.turn = tick.turn]_vars

\* test_running_service_honors_external_disable: a tick that wakes does not begin with a job
\* that another process has disabled in jobs.json since the last save.  (The jobs that run
\* later in the same tick were chosen before; for them it does not hold.)
ExternalDisableHonored ==
    [][Begins /\ tick.phase = "asleep" /\ ~synced
         => LET i == tick'.turn.id IN i \in DOMAIN file => file[i].on]_vars

=============================================================================
