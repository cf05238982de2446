-------------------------- MODULE CronService_proofs --------------------------
(***************************************************************************)
(* Theorems about CronService, for any number of jobs, any clock and any   *)
(* bounds.  Types and the coherence of the cache hold with other processes *)
(* writing jobs.json; that no wake-up is lost, that only live jobs start   *)
(* and that recorded runs are final hold when there is none.               *)
(***************************************************************************)
EXTENDS CronService, TLAPS

-----------------------------------------------------------------------------
(* Lists of jobs. *)

\* A multiple of the period that follows n is at most one period away.
LEMMA NextMultiple ==
    ASSUME NEW n \in Nat, NEW p \in Nat \ {0}
    PROVE  /\ ((n \div p) + 1) * p \in Int
           /\ ((n \div p) + 1) * p > n
           /\ ((n \div p) + 1) * p <= n + p
<1> DEFINE q == n \div p
<1>1. q \in Int /\ n = p * q + (n % p) /\ n % p \in 0..(p - 1)
  BY SMT
<1>2. (q + 1) * p = p * q + p
  BY <1>1, SMT
<1> QED BY <1>1, <1>2

\* _compute_next_run: never, or ahead of the clock.
LEMMA NextRunType ==
    ASSUME now \in 1..MaxTime, NEW kind \in Kinds, NEW at \in 0..MaxTime
    PROVE  NextRun(kind, at) \in Times /\ (NextRun(kind, at) # Never => NextRun(kind, at) > now)
<1> USE BoundsAssumption, KindsAssumption DEF Times, Never
<1>1. now \in Nat /\ now >= 1 /\ now <= MaxTime
  OBVIOUS
<1>2. CASE kind \in {"once", "at"}
  BY <1>1, <1>2 DEF NextRun
<1>3. CASE kind = "every"
  BY <1>1, <1>3 DEF NextRun
<1>4. CASE kind = "cron"
  <2> DEFINE m == ((now \div Period) + 1) * Period
  <2>1. NextRun(kind, at) = m
    BY <1>4 DEF NextRun
  <2>2. m \in Int /\ m > now /\ m <= now + Period
    BY <1>1, NextMultiple
  <2> HIDE DEF m
  <2> QED BY <1>1, <2>1, <2>2
<1> QED BY <1>2, <1>3, <1>4

\* No job has a scheduled run that is recorded.
Unrecorded(jobs, runs) ==
    \A i \in DOMAIN jobs : Scheduled(jobs[i]) => <<i, jobs[i].next>> \notin runs

\* Every recorded run was due.
Past(runs) == \A r \in runs : r[2] <= now

\* Removing a job adds nothing.
LEMMA WithoutJobs ==
    ASSUME NEW jobs, NEW n, IsJobList(jobs, n), NEW i
    PROVE  /\ IsJobList(Without(jobs, i), n)
           /\ \A runs : Unrecorded(jobs, runs) => Unrecorded(Without(jobs, i), runs)
  BY DEF IsJobList, Without, Unrecorded

\* add_job appends a job that has not run.
LEMMA WithJobs ==
    ASSUME now \in 1..MaxTime, NEW jobs, NEW n \in Nat, IsJobList(jobs, n),
           NEW kind \in Kinds, NEW at \in 0..MaxTime, NEW job,
           job = [on |-> TRUE, kind |-> kind, at |-> at, next |-> NextRun(kind, at)]
    PROVE  /\ IsJobList(With(jobs, n + 1, job), n + 1)
           /\ \A runs : Unrecorded(jobs, runs) /\ Past(runs)
                            => Unrecorded(With(jobs, n + 1, job), runs)
<1>1. job \in Job /\ (job.next # Never => job.next > now)
  BY NextRunType DEF Job
<1>2. job.next \in Int /\ now \in Int
  BY <1>1, BoundsAssumption DEF Job, Times
<1>3. IsJobList(With(jobs, n + 1, job), n + 1)
  BY <1>1 DEF IsJobList, With
<1>4. \A runs : Unrecorded(jobs, runs) /\ Past(runs) => Unrecorded(With(jobs, n + 1, job), runs)
  BY <1>1, <1>2 DEF Unrecorded, Past, With, Scheduled
<1> QED BY <1>3, <1>4

\* enable_job gives the job a new run, or none.
LEMMA EnabledJobs ==
    ASSUME now \in 1..MaxTime, NEW jobs, NEW n, IsJobList(jobs, n),
           NEW i \in DOMAIN jobs, NEW enabled \in BOOLEAN, NEW next,
           next = IF enabled THEN NextRun(jobs[i].kind, jobs[i].at) ELSE Never
    PROVE  LET new == [jobs EXCEPT ![i].on = enabled, ![i].next = next]
           IN  /\ IsJobList(new, n)
               /\ \A runs : Unrecorded(jobs, runs) /\ Past(runs) => Unrecorded(new, runs)
<1> DEFINE job == [jobs[i] EXCEPT !.on = enabled, !.next = next]
           new == [k \in DOMAIN jobs |-> IF k = i THEN job ELSE jobs[k]]
<1>1. jobs[i] \in Job
  BY DEF IsJobList
<1>2. next \in Times /\ (next # Never => next > now)
  BY <1>1, NextRunType, BoundsAssumption DEF Job, Times, Never
<1>3. job \in Job /\ job.next = next
  BY <1>1, <1>2 DEF Job
<1>4. next \in Int /\ now \in Int
  BY <1>2, BoundsAssumption DEF Times
<1>5. [jobs EXCEPT ![i].on = enabled, ![i].next = next] = new
  BY <1>1 DEF Job
<1> HIDE DEF job
<1>6. IsJobList(new, n)
  BY <1>3 DEF IsJobList
<1>7. \A runs : Unrecorded(jobs, runs) /\ Past(runs) => Unrecorded(new, runs)
  BY <1>2, <1>3, <1>4 DEF Unrecorded, Past, Scheduled
<1> QED BY <1>5, <1>6, <1>7

\* _recompute_next_runs leaves no recorded run in the list, whatever it was before.
LEMMA RecomputedJobs ==
    ASSUME now \in 1..MaxTime, NEW jobs, NEW n, IsJobList(jobs, n)
    PROVE  /\ IsJobList(Recomputed(jobs), n)
           /\ \A runs : Past(runs) => Unrecorded(Recomputed(jobs), runs)
<1>1. ASSUME NEW i \in DOMAIN jobs
      PROVE  /\ Recomputed(jobs)[i] \in Job
             /\ Scheduled(Recomputed(jobs)[i]) => Recomputed(jobs)[i].next > now
  <2> DEFINE next == NextRun(jobs[i].kind, jobs[i].at)
  <2>1. jobs[i] \in Job
    BY DEF IsJobList
  <2>2. next \in Times /\ (next # Never => next > now)
    BY <2>1, NextRunType DEF Job
  <2> HIDE DEF next
  <2>3. [jobs[i] EXCEPT !.next = next] \in Job /\ [jobs[i] EXCEPT !.next = next].next = next
    BY <2>1, <2>2 DEF Job
  <2>4. Recomputed(jobs)[i] = IF jobs[i].on THEN [jobs[i] EXCEPT !.next = next] ELSE jobs[i]
    BY DEF Recomputed, next
  <2> QED BY <2>1, <2>2, <2>3, <2>4 DEF Scheduled, Job
<1>2. DOMAIN Recomputed(jobs) = DOMAIN jobs
  BY DEF Recomputed
<1>3. IsJobList(Recomputed(jobs), n)
  BY <1>1, <1>2 DEF IsJobList
<1>4. \A i \in DOMAIN jobs : Recomputed(jobs)[i].next \in Int
  BY <1>1, BoundsAssumption DEF Job, Times
<1>5. now \in Int
  BY BoundsAssumption
<1>6. \A runs : Past(runs) => Unrecorded(Recomputed(jobs), runs)
  BY <1>1, <1>2, <1>4, <1>5 DEF Unrecorded, Past
<1> QED BY <1>3, <1>6

\* After its turn the job is gone or without a run, or its next run is ahead; the
\* others are as they were.
LEMMA FinishedJobs ==
    ASSUME now \in 1..MaxTime, NEW jobs, NEW n, IsJobList(jobs, n),
           NEW r \in Turn, NEW attached \in BOOLEAN
    PROVE  /\ IsJobList(Finished(jobs, r, attached), n)
           /\ \A i \in DOMAIN Finished(jobs, r, attached) :
                 i # r.id => i \in DOMAIN jobs /\ Finished(jobs, r, attached)[i] = jobs[i]
           /\ \A i \in DOMAIN jobs : i # r.id => i \in DOMAIN Finished(jobs, r, attached)
           /\ \A runs : Unrecorded(jobs, runs) /\ Past(runs)
                            => Unrecorded(Finished(jobs, r, attached), runs)
           /\ attached /\ r.id \in DOMAIN Finished(jobs, r, attached) =>
                 LET job == Finished(jobs, r, attached)[r.id]
                 IN  Scheduled(job) => job.next > now
<1> DEFINE new == Finished(jobs, r, attached)
<1>0. r.id \in Int /\ r.job \in Job
  BY BoundsAssumption DEF Turn, Ids
<1>1. CASE r.job.kind = "once"
  <2>1. new = Without(jobs, r.id)
    BY <1>1 DEF Finished
  <2>2. DOMAIN new = DOMAIN jobs \ {r.id} /\ \A i \in DOMAIN new : new[i] = jobs[i]
    BY <2>1 DEF Without
  <2> HIDE DEF new
  <2>3. IsJobList(new, n) /\ \A runs : Unrecorded(jobs, runs) => Unrecorded(new, runs)
    BY <2>1, WithoutJobs
  <2> QED BY <2>2, <2>3 DEF new
<1>2. CASE r.job.kind # "once" /\ (~attached \/ r.id \notin DOMAIN jobs)
  <2>1. new = jobs
    BY <1>2 DEF Finished
  <2> HIDE DEF new
  <2> QED BY <1>2, <2>1 DEF new
<1>3. CASE r.job.kind # "once" /\ attached /\ r.id \in DOMAIN jobs
  <2> DEFINE i == r.id
             next == IF OneShot(r.job) THEN Never ELSE NextRun(r.job.kind, r.job.at)
             job == IF OneShot(r.job) THEN [jobs[i] EXCEPT !.on = FALSE, !.next = Never]
                                      ELSE [jobs[i] EXCEPT !.next = next]
             upd == [k \in DOMAIN jobs |-> IF k = i THEN job ELSE jobs[k]]
  <2>1. jobs[i] \in Job
    BY <1>3 DEF IsJobList
  <2>2. next \in Times /\ (next # Never => next > now)
    BY <1>0, NextRunType, BoundsAssumption DEF Job, Times, Never
  <2>3. new = upd
    BY <1>3, <2>1 DEF Finished, Job
  <2>4. job \in Job /\ job.next = next
    BY <2>1, <2>2 DEF Job
  <2>5. next \in Int /\ now \in Int
    BY <2>2, BoundsAssumption DEF Times
  <2> HIDE DEF job, next, new
  <2>6. IsJobList(upd, n)
    BY <2>4 DEF IsJobList
  <2>7. \A runs : Unrecorded(jobs, runs) /\ Past(runs) => Unrecorded(upd, runs)
    BY <2>2, <2>4, <2>5 DEF Unrecorded, Past, Scheduled
  <2>8. /\ DOMAIN upd = DOMAIN jobs /\ upd[i] = job
        /\ \A k \in DOMAIN jobs : k # i => upd[k] = jobs[k]
    BY <1>3
  <2>9. Scheduled(job) => job.next > now
    BY <2>2, <2>4 DEF Scheduled
  <2> HIDE DEF upd
  <2> QED BY <2>3, <2>6, <2>7, <2>8, <2>9 DEF new
<1> QED BY <1>1, <1>2, <1>3

-----------------------------------------------------------------------------
(* The steps. *)

Bounds == [calls : 0..MaxCalls, crashes : 0..MaxCrashes, foreign : 0..MaxForeign]

\* The invariant of a service whose file nobody else writes.
LiveTurn(r) ==
    /\ r.id \in DOMAIN store /\ store[r.id] = r.job
    /\ Scheduled(r.job) /\ r.job.next <= now

TurnsAreLive ==
    tick.phase = "turn" =>
        /\ tick.attached
        /\ tick.turn.job.next <= now
        /\ \A r \in tick.rest : /\ LiveTurn(r) /\ r.id # tick.turn.id
                                /\ \A s \in tick.rest : s.id = r.id => s = r

Alone ==
    /\ running => Fresh
    /\ tick.phase # "none" => running
    /\ TimerCoversJobs
    /\ TurnsAreLive
    /\ Past(recorded)
    /\ running => Unrecorded(store, recorded)

\* What _load_store returns is a list of jobs.
LEMMA CurrentType == TypeOK => IsJobList(Current, added)
  BY DEF TypeOK, Current

\* A call is counted.
LEMMA CallType == TypeOK /\ Call => used' \in Bounds
  BY BoundsAssumption DEF TypeOK, Call, Bounds

\* A reload leaves the turns well typed.
LEMMA DetachTypes ==
    /\ TypeOK /\ DetachTick => tick' \in Ticks
    /\ TypeOK /\ DetachManual => manual' \in Manuals
  BY DEF TypeOK, DetachTick, DetachManual, Ticks, Manuals, NoTick, NoManual

\* _arm_timer leaves no turn, and covers every job of the list while the service runs.
LEMMA ArmCovers ==
    ASSUME NEW jobs, NEW n, IsJobList(jobs, n), NEW up \in BOOLEAN, Arm(jobs, up)
    PROVE  /\ tick' \in Ticks
           /\ tick'.phase # "turn"
           /\ tick'.phase # "none" => up
           /\ up => \A i \in DOMAIN jobs : Scheduled(jobs[i]) =>
                        tick'.phase = "asleep" /\ tick'.wake <= jobs[i].next
<1> DEFINE times == IF up THEN WakeTimes(jobs) ELSE {}
<1>1. times \subseteq Times \ {Never}
  BY DEF WakeTimes, Scheduled, IsJobList, Job
<1>2. up => \A i \in DOMAIN jobs : Scheduled(jobs[i]) => jobs[i].next \in times
  BY DEF WakeTimes
<1>3. times # {} => up
  OBVIOUS
<1>4. SleepUntilFirst(times)
  BY DEF Arm
<1> HIDE DEF times
<1>5. CASE times = {} /\ tick' = NoTick
  BY <1>2, <1>5 DEF NoTick, Ticks
<1>6. CASE \E t \in times : (\A u \in times : t <= u) /\ tick' = Asleep(t)
  <2>1. PICK t \in times : (\A u \in times : t <= u) /\ tick' = Asleep(t)
    BY <1>6
  <2>2. tick'.phase = "asleep" /\ tick'.wake = t /\ tick' \in Ticks
    BY <1>1, <2>1 DEF Asleep, Ticks
  <2> QED BY <1>2, <1>3, <2>1, <2>2
<1> QED BY <1>4, <1>5, <1>6 DEF SleepUntilFirst

\* A step that saves a list of jobs and arms the timer keeps the types.
LEMMA SaveAndArmTypes ==
    ASSUME TypeOK, NEW jobs, IsJobList(jobs, added'), added' \in 0..MaxJobs,
           running' \in BOOLEAN, manual' \in Manuals, used' \in Bounds, now' = now,
           recorded' \subseteq Ids \X Times, Save(jobs), Arm(jobs, running')
    PROVE  TypeOK'
<1>1. tick' \in Ticks
  BY ArmCovers
<1> QED BY <1>1 DEF TypeOK, Save, Bounds

\* If the list has no recorded run it also keeps, and even restores, the invariant.
LEMMA SaveAndArmAlone ==
    ASSUME NEW jobs, NEW n, IsJobList(jobs, n), running' \in BOOLEAN,
           Save(jobs), Arm(jobs, running'),
           Past(recorded)', running' => Unrecorded(jobs, recorded')
    PROVE  Alone'
<1>1. /\ tick'.phase # "turn"
      /\ tick'.phase # "none" => running'
      /\ running' => \A i \in DOMAIN jobs : Scheduled(jobs[i]) =>
                        tick'.phase = "asleep" /\ tick'.wake <= jobs[i].next
  BY ArmCovers
<1>2. store' = jobs /\ Fresh'
  BY DEF Save, Fresh
<1>3. TimerCoversJobs'
  BY <1>1, <1>2 DEF TimerCoversJobs
<1>4. TurnsAreLive'
  BY <1>1 DEF TurnsAreLive
<1>5. (running => Unrecorded(store, recorded))'
  BY <1>2 DEF Unrecorded
<1> QED BY <1>1, <1>2, <1>3, <1>4, <1>5 DEF Alone

\* What recorded runs are past stays past while the clock stands still.
LEMMA PastStays ==
    ASSUME now' = now, recorded' = recorded, Past(recorded)
    PROVE  Past(recorded)'
  BY DEF Past

\* start recomputes, saves and arms, whatever a crash left in the file.
LEMMA StartStep == ASSUME TypeOK, Start PROVE TypeOK' /\ (Alone => Alone')
<1> DEFINE jobs == Recomputed(Current)
<1>1. /\ IsJobList(jobs, added')
      /\ \A runs : Past(runs) => Unrecorded(jobs, runs)
  BY CurrentType, RecomputedJobs DEF TypeOK, Start
<1>2. Save(jobs) /\ Arm(jobs, running') /\ running' = TRUE
  BY DEF Start
<1>3. /\ manual' \in Manuals /\ used' \in Bounds /\ now' = now /\ recorded' = recorded
      /\ added' \in 0..MaxJobs /\ recorded' \subseteq Ids \X Times
  BY DetachTypes DEF TypeOK, Start, Bounds
<1> HIDE DEF jobs
<1>4. TypeOK'
  BY <1>1, <1>2, <1>3, SaveAndArmTypes
<1>5. ASSUME Alone PROVE Alone'
  <2>1. Past(recorded)' /\ Unrecorded(jobs, recorded')
    BY <1>1, <1>3, <1>5, PastStays DEF Alone
  <2> QED BY <1>1, <1>2, <2>1, SaveAndArmAlone
<1> QED BY <1>4, <1>5

\* While the service runs alone, what it loads is what it holds.
LEMMA CurrentIsStore == Alone /\ running => Current = store /\ Fresh
  BY DEF Alone, Current

\* add_job.
LEMMA AddJobStep ==
    ASSUME TypeOK, NEW kind \in Kinds, NEW at \in Instants(kind), AddJob(kind, at)
    PROVE  TypeOK' /\ (Alone => Alone')
<1> DEFINE job  == [on |-> TRUE, kind |-> kind, at |-> at, next |-> NextRun(kind, at)]
           jobs == With(Current, added + 1, job)
<1>1. at \in 0..MaxTime
  BY BoundsAssumption DEF Instants, Never
<1>2. /\ added' = added + 1 /\ added' \in 0..MaxJobs /\ added \in Nat
  BY BoundsAssumption DEF TypeOK, AddJob
<1>3. /\ IsJobList(jobs, added + 1)
      /\ \A runs : Unrecorded(Current, runs) /\ Past(runs) => Unrecorded(jobs, runs)
  <2>1. now \in 1..MaxTime
    BY DEF TypeOK
  <2> QED BY <1>1, <1>2, <2>1, CurrentType, WithJobs
<1>4. Save(jobs) /\ Arm(jobs, running) /\ running' = running
  BY DEF AddJob
<1>5. /\ manual' \in Manuals /\ used' \in Bounds /\ now' = now /\ recorded' = recorded
      /\ running' \in BOOLEAN /\ recorded' \subseteq Ids \X Times
  BY DetachTypes, CallType DEF TypeOK, AddJob
<1> HIDE DEF jobs
<1>6. TypeOK'
  BY <1>2, <1>3, <1>4, <1>5, SaveAndArmTypes
<1>7. ASSUME Alone PROVE Alone'
  <2>1. Past(recorded)' /\ (running' => Unrecorded(jobs, recorded'))
    BY <1>3, <1>4, <1>5, <1>7, PastStays, CurrentIsStore DEF Alone
  <2> QED BY <1>3, <1>4, <1>5, <2>1, SaveAndArmAlone
<1> QED BY <1>6, <1>7

\* remove_job.
LEMMA RemoveJobStep ==
    ASSUME TypeOK, NEW i \in Ids, RemoveJob(i)
    PROVE  TypeOK' /\ (Alone => Alone')
<1> DEFINE jobs == Without(Current, i)
<1>1. /\ IsJobList(jobs, added')
      /\ \A runs : Unrecorded(Current, runs) => Unrecorded(jobs, runs)
  BY CurrentType, WithoutJobs DEF RemoveJob
<1>2. Save(jobs) /\ Arm(jobs, running) /\ running' = running
  BY DEF RemoveJob
<1>3. /\ manual' \in Manuals /\ used' \in Bounds /\ now' = now /\ recorded' = recorded
      /\ added' \in 0..MaxJobs /\ running' \in BOOLEAN /\ recorded' \subseteq Ids \X Times
  BY DetachTypes, CallType DEF TypeOK, RemoveJob
<1> HIDE DEF jobs
<1>4. TypeOK'
  BY <1>1, <1>2, <1>3, SaveAndArmTypes
<1>5. ASSUME Alone PROVE Alone'
  <2>1. Past(recorded)' /\ (running' => Unrecorded(jobs, recorded'))
    BY <1>1, <1>2, <1>3, <1>5, PastStays, CurrentIsStore DEF Alone
  <2> QED BY <1>1, <1>2, <1>3, <2>1, SaveAndArmAlone
<1> QED BY <1>4, <1>5

\* enable_job.
LEMMA EnableJobStep ==
    ASSUME TypeOK, NEW i \in Ids, NEW enabled \in BOOLEAN, EnableJob(i, enabled)
    PROVE  TypeOK' /\ (Alone => Alone')
<1> DEFINE next == IF enabled THEN NextRun(Current[i].kind, Current[i].at) ELSE Never
           jobs == [Current EXCEPT ![i].on = enabled, ![i].next = next]
<1>1. now \in 1..MaxTime /\ i \in DOMAIN Current /\ IsJobList(Current, added')
  BY CurrentType DEF TypeOK, EnableJob
<1>2. /\ IsJobList(jobs, added')
      /\ \A runs : Unrecorded(Current, runs) /\ Past(runs) => Unrecorded(jobs, runs)
  BY <1>1, EnabledJobs
<1>3. Save(jobs) /\ Arm(jobs, running) /\ running' = running
  BY DEF EnableJob
<1>4. /\ manual' \in Manuals /\ used' \in Bounds /\ now' = now /\ recorded' = recorded
      /\ added' \in 0..MaxJobs /\ running' \in BOOLEAN /\ recorded' \subseteq Ids \X Times
  BY DetachTypes, CallType DEF TypeOK, EnableJob
<1> HIDE DEF jobs
<1>5. TypeOK'
  BY <1>2, <1>3, <1>4, SaveAndArmTypes
<1>6. ASSUME Alone PROVE Alone'
  <2>1. Past(recorded)' /\ (running' => Unrecorded(jobs, recorded'))
    BY <1>2, <1>3, <1>4, <1>6, PastStays, CurrentIsStore DEF Alone
  <2> QED BY <1>2, <1>3, <1>4, <2>1, SaveAndArmAlone
<1> QED BY <1>5, <1>6

\* The end of run_job, which also cancels a tick in progress.
LEMMA RunJobEndsStep == ASSUME TypeOK, RunJobEnds PROVE TypeOK' /\ (Alone => Alone')
<1> DEFINE jobs == Finished(store, manual.turn, manual.attached)
<1>1. manual.turn \in Turn /\ manual.attached \in BOOLEAN
  BY DEF TypeOK, RunJobEnds, Manuals, NoManual
<1>2. /\ IsJobList(jobs, added')
      /\ \A runs : Unrecorded(store, runs) /\ Past(runs) => Unrecorded(jobs, runs)
  BY <1>1, FinishedJobs DEF TypeOK, RunJobEnds
<1>3. Save(jobs) /\ Arm(jobs, running) /\ running' = running
  BY DEF RunJobEnds
<1>4. /\ manual' \in Manuals /\ used' \in Bounds /\ now' = now /\ recorded' = recorded
      /\ added' \in 0..MaxJobs /\ running' \in BOOLEAN /\ recorded' \subseteq Ids \X Times
  BY DEF TypeOK, RunJobEnds, Manuals, Bounds
<1> HIDE DEF jobs
<1>5. TypeOK'
  BY <1>2, <1>3, <1>4, SaveAndArmTypes
<1>6. ASSUME Alone PROVE Alone'
  <2>1. Past(recorded)' /\ (running' => Unrecorded(jobs, recorded'))
    BY <1>2, <1>3, <1>4, <1>6, PastStays DEF Alone
  <2> QED BY <1>2, <1>3, <1>4, <2>1, SaveAndArmAlone
<1> QED BY <1>5, <1>6

\* The clock makes past what was past, and due what was due.
LEMMA TickStep == ASSUME TypeOK, Tick PROVE TypeOK' /\ (Alone => Alone')
<1>1. /\ now' = now + 1 /\ now < MaxTime
      /\ UNCHANGED <<file, store, loaded, synced, running, tick, manual, added, recorded, used>>
  BY DEF Tick
<1>2. TypeOK'
  BY <1>1, BoundsAssumption DEF TypeOK
<1>3. ASSUME Alone PROVE Alone'
  <2>1. Fresh' = Fresh
    BY <1>1 DEF Fresh
  <2>2. TimerCoversJobs'
    BY <1>1, <1>3 DEF Alone, TimerCoversJobs
  <2>3. Past(recorded)'
    <3>1. \A r \in recorded : r[2] \in Int
      BY BoundsAssumption DEF TypeOK, Times
    <3> QED BY <1>1, <1>3, <3>1, BoundsAssumption DEF Alone, Past, TypeOK
  <2>4. TurnsAreLive'
    <3> SUFFICES ASSUME tick.phase = "turn" PROVE TurnsAreLive'
      BY <1>1 DEF TurnsAreLive
    <3>1. tick.turn \in Turn /\ tick.rest \subseteq Turn
      BY DEF TypeOK, Ticks, NoTick
    <3>2. \A r \in Turn : r.job.next \in Int
      BY BoundsAssumption DEF Turn, Job, Times
    <3>3. \A r \in Turn : r.job.next <= now => r.job.next <= now + 1
      BY <3>2, BoundsAssumption DEF TypeOK
    <3>4. \A r \in tick.rest : LiveTurn(r) => LiveTurn(r)'
      BY <1>1, <3>1, <3>3 DEF LiveTurn
    <3> QED BY <1>1, <1>3, <3>1, <3>3, <3>4 DEF Alone, TurnsAreLive
  <2> QED BY <1>1, <1>3, <2>1, <2>2, <2>3, <2>4 DEF Alone, Unrecorded
<1> QED BY <1>2, <1>3

\* stop cancels the tick, a turn included.
LEMMA StopStep == ASSUME TypeOK, Stop PROVE TypeOK' /\ (Alone => Alone')
<1>1. TypeOK'
  BY DEF TypeOK, Stop, Ticks
<1>2. ASSUME Alone PROVE Alone'
  BY <1>2 DEF Alone, Stop, NoTick, TimerCoversJobs, TurnsAreLive, Past
<1> QED BY <1>1, <1>2

\* A dead process has neither tick nor store.
LEMMA CrashStep == ASSUME TypeOK, Crash PROVE TypeOK' /\ (Alone => Alone')
<1>1. TypeOK'
  <2>1. IsJobList(store', added)
    BY DEF Crash, NoStore, IsJobList
  <2>2. used' \in Bounds
    BY BoundsAssumption DEF TypeOK, Crash, Bounds
  <2>3. tick' \in Ticks /\ manual' \in Manuals
    BY DEF Crash, Ticks, Manuals
  <2> QED BY <2>1, <2>2, <2>3 DEF TypeOK, Crash, Bounds
<1>2. ASSUME Alone PROVE Alone'
  BY <1>2 DEF Alone, Crash, NoTick, TimerCoversJobs, TurnsAreLive, Past
<1> QED BY <1>1, <1>2

\* A call that only loads changes nothing while the service runs alone.
LEMMA ListJobsStep == ASSUME TypeOK, ListJobs PROVE TypeOK' /\ (Alone => Alone')
<1>1. /\ tick' \in Ticks /\ manual' \in Manuals /\ used' \in Bounds
  BY DetachTypes, CallType DEF ListJobs
<1>2. TypeOK'
  BY <1>1, CurrentType DEF TypeOK, ListJobs, Keep, Bounds
<1>3. ASSUME Alone PROVE Alone'
  <2>1. ~running /\ tick.phase = "none"
    BY <1>3 DEF Alone, ListJobs, TypeOK, Ticks, NoTick
  <2>2. running' = running /\ tick' = tick /\ recorded' = recorded /\ now' = now
    BY <2>1 DEF ListJobs, DetachTick
  <2> QED BY <1>3, <2>1, <2>2 DEF Alone, TimerCoversJobs, TurnsAreLive, Past
<1> QED BY <1>2, <1>3

\* run_job awaits the turn of a job and leaves the tick alone.
LEMMA RunJobBeginsStep ==
    ASSUME TypeOK, NEW i \in Ids, RunJobBegins(i)
    PROVE  TypeOK' /\ (Alone => Alone')
<1>1. /\ tick' \in Ticks /\ used' \in Bounds
  BY DetachTypes, CallType DEF RunJobBegins
<1>2. manual' \in Manuals
  BY CurrentType DEF RunJobBegins, Manuals, Turn, IsJobList
<1>3. TypeOK'
  BY <1>1, <1>2, CurrentType DEF TypeOK, RunJobBegins, Keep, Bounds
<1>4. ASSUME Alone PROVE Alone'
  <2>1. /\ running' = running /\ recorded' = recorded /\ now' = now
        /\ synced' = synced /\ loaded' = TRUE /\ store' = Current
    BY DEF RunJobBegins, Keep
  <2>2. CASE ~running
    <3>1. tick.phase = "none"
      BY <1>4, <2>2 DEF Alone, TypeOK, Ticks, NoTick
    <3>2. tick' = tick
      BY <3>1 DEF RunJobBegins, DetachTick
    <3> QED BY <1>4, <2>1, <2>2, <3>1, <3>2 DEF Alone, TimerCoversJobs, TurnsAreLive, Past
  <2>3. CASE running
    <3>1. Fresh /\ store' = store
      BY <1>4, <2>1, <2>3, CurrentIsStore
    <3>2. tick' = tick /\ Fresh'
      BY <2>1, <3>1 DEF RunJobBegins, DetachTick, Fresh
    <3> QED BY <1>4, <2>1, <3>1, <3>2
            DEF Alone, TimerCoversJobs, TurnsAreLive, LiveTurn, Past, Unrecorded
  <2> QED BY <2>2, <2>3
<1> QED BY <1>3, <1>4

\* The next due job is one of those that are left.
LEMMA BeginTurnPicks ==
    ASSUME NEW due, NEW attached, BeginTurn(due, attached)
    PROVE  \E r \in due : tick' = InTurn(r, due \ {r}, attached)
  BY DEF BeginTurn

\* A turn of live jobs that begins with a list of live jobs.
LEMMA BeginTurnAlone ==
    ASSUME running, Fresh', NEW due, BeginTurn(due, TRUE),
           running' = running, now' = now, Past(recorded)',
           Unrecorded(store, recorded)',
           \A r \in due : LiveTurn(r)' /\ \A s \in due : s.id = r.id => s = r
    PROVE  Alone'
<1>1. PICK r \in due : tick' = InTurn(r, due \ {r}, TRUE)
  BY BeginTurnPicks
<1>2. /\ tick'.phase = "turn" /\ tick'.turn = r /\ tick'.rest = due \ {r}
      /\ tick'.attached = TRUE
  BY <1>1 DEF InTurn
<1>3. TimerCoversJobs'
  BY <1>2 DEF TimerCoversJobs
<1>4. TurnsAreLive'
  <2>1. r.job.next <= now'
    BY DEF LiveTurn
  <2> QED BY <1>2, <2>1 DEF TurnsAreLive
<1> QED BY <1>2, <1>3, <1>4 DEF Alone

\* _on_timer up to the first turn.
LEMMA TimerFiresStep == ASSUME TypeOK, TimerFires PROVE TypeOK' /\ (Alone => Alone')
<1> DEFINE due == DueTurns(Current)
<1>1. IsJobList(Current, added)
  BY CurrentType
<1>2. /\ manual' \in Manuals /\ running' = running /\ added' = added
      /\ recorded' = recorded /\ used' = used /\ now' = now
  BY DetachTypes DEF TimerFires
<1>3. CASE Save(Current) /\ Arm(Current, running)
  <2>1. TypeOK'
    BY <1>1, <1>2, <1>3, SaveAndArmTypes DEF TypeOK, Bounds
  <2>2. ASSUME Alone PROVE Alone'
    <3>1. Past(recorded)' /\ (running' => Unrecorded(Current, recorded'))
      BY <1>2, <2>2, PastStays, CurrentIsStore DEF Alone
    <3> QED BY <1>1, <1>2, <1>3, <3>1, SaveAndArmAlone DEF TypeOK
  <2> QED BY <2>1, <2>2
<1>4. CASE Keep(Current) /\ BeginTurn(due, TRUE)
  <2>1. due \subseteq Turn
    BY <1>1, BoundsAssumption DEF DueTurns, Turn, IsJobList, TypeOK, Ids
  <2>2. PICK r \in due : tick' = InTurn(r, due \ {r}, TRUE)
    BY <1>4, BeginTurnPicks
  <2>3. tick' \in Ticks
    BY <2>1, <2>2 DEF InTurn, Ticks
  <2>4. TypeOK'
    BY <1>1, <1>2, <1>4, <2>3 DEF TypeOK, Keep
  <2>5. ASSUME Alone PROVE Alone'
    <3>1. running
      BY <2>5 DEF Alone, TimerFires
    <3>2. Current = store /\ store' = store /\ Fresh'
      BY <1>4, <2>5, <3>1, CurrentIsStore DEF Keep, Fresh
    <3>3. \A s \in due : LiveTurn(s)' /\ \A t \in due : t.id = s.id => t = s
      BY <1>2, <3>2 DEF DueTurns, LiveTurn
    <3>4. Past(recorded)' /\ Unrecorded(store, recorded)'
      BY <1>2, <2>5, <3>1, <3>2, PastStays DEF Alone, Unrecorded
    <3> HIDE DEF due
    <3> QED BY <1>2, <1>4, <3>1, <3>2, <3>3, <3>4, BeginTurnAlone
  <2> QED BY <2>4, <2>5
<1> QED BY <1>3, <1>4 DEF TimerFires

\* The end of a turn: the next due job, or the save and the timer.
LEMMA TurnEndsStep == ASSUME TypeOK, TurnEnds PROVE TypeOK' /\ (Alone => Alone')
<1> DEFINE r    == tick.turn
           jobs == Finished(store, r, tick.attached)
           occ  == <<r.id, r.job.next>>
<1>1. /\ tick.phase = "turn" /\ r \in Turn /\ tick.rest \subseteq Turn
      /\ tick.attached \in BOOLEAN
  BY DEF TypeOK, TurnEnds, Ticks, NoTick
<1>2. /\ manual' = manual /\ running' = running /\ added' = added
      /\ used' = used /\ now' = now
  BY DEF TurnEnds
<1>3. recorded' = recorded \/ recorded' = recorded \union {occ}
  BY DEF TurnEnds
<1>4. occ \in Ids \X Times
  BY <1>1 DEF Turn, Job
<1>5. now \in 1..MaxTime /\ IsJobList(store, added)
  BY DEF TypeOK
<1>6. /\ IsJobList(jobs, added)
      /\ \A i \in DOMAIN jobs : i # r.id => i \in DOMAIN store /\ jobs[i] = store[i]
      /\ \A i \in DOMAIN store : i # r.id => i \in DOMAIN jobs
      /\ \A runs : Unrecorded(store, runs) /\ Past(runs) => Unrecorded(jobs, runs)
      /\ tick.attached /\ r.id \in DOMAIN jobs =>
            (Scheduled(jobs[r.id]) => jobs[r.id].next > now)
  BY <1>1, <1>5, FinishedJobs
<1>7. recorded' \subseteq Ids \X Times
  BY <1>3, <1>4 DEF TypeOK
<1>8. ASSUME Alone
      PROVE  running /\ tick.attached /\ Past(recorded)' /\ Unrecorded(jobs, recorded')
  <2>1. running /\ tick.attached /\ r.job.next <= now
    BY <1>1, <1>8 DEF Alone, TurnsAreLive
  <2>2. Past(recorded)'
    BY <1>2, <1>3, <1>8, <2>1 DEF Alone, Past
  <2>3. Unrecorded(jobs, recorded)
    BY <1>6, <1>8, <2>1 DEF Alone
  <2>4. ASSUME NEW i \in DOMAIN jobs, Scheduled(jobs[i]) PROVE <<i, jobs[i].next>> # occ
    <3>1. jobs[i].next \in Int /\ r.job.next \in Int /\ now \in Int
      BY <1>1, <1>5, <1>6, BoundsAssumption DEF IsJobList, Job, Times, Turn
    <3> HIDE DEF jobs
    <3>2. CASE i = r.id
      BY <1>6, <2>1, <2>4, <3>1, <3>2
    <3> QED BY <3>2
  <2>5. Unrecorded(jobs, recorded')
    BY <1>3, <2>3, <2>4 DEF Unrecorded
  <2> QED BY <2>1, <2>2, <2>5
<1>9. CASE Save(jobs) /\ Arm(jobs, running)
  <2> HIDE DEF jobs, occ
  <2>1. TypeOK'
    BY <1>2, <1>6, <1>7, <1>9, SaveAndArmTypes DEF TypeOK, Bounds
  <2>2. ASSUME Alone PROVE Alone'
    BY <1>2, <1>6, <1>8, <1>9, <2>2, SaveAndArmAlone
  <2> QED BY <2>1, <2>2
<1>10. CASE Keep(jobs) /\ BeginTurn(tick.rest, tick.attached)
  <2>1. PICK s \in tick.rest : tick' = InTurn(s, tick.rest \ {s}, tick.attached)
    BY <1>10, BeginTurnPicks
  <2>2. tick' \in Ticks
    BY <1>1, <2>1 DEF InTurn, Ticks
  <2> HIDE DEF jobs, occ
  <2>3. TypeOK'
    BY <1>2, <1>6, <1>7, <1>10, <2>2 DEF TypeOK, Keep
  <2>4. ASSUME Alone PROVE Alone'
    <3>1. store' = jobs /\ Fresh'
      BY <1>8, <1>10, <2>4 DEF Keep, Fresh, Alone
    <3>2. \A t \in tick.rest : /\ LiveTurn(t) /\ t.id # r.id
                                /\ \A u \in tick.rest : u.id = t.id => u = t
      BY <1>1, <2>4 DEF Alone, TurnsAreLive
    <3>3. \A t \in tick.rest : LiveTurn(t)'
      BY <1>2, <1>6, <3>1, <3>2 DEF LiveTurn
    <3>4. Unrecorded(store, recorded)'
      BY <1>8, <2>4, <3>1 DEF Unrecorded
    <3>5. BeginTurn(tick.rest, TRUE)
      BY <1>1, <1>8, <1>10, <2>4
    <3> QED BY <1>2, <1>8, <2>4, <3>1, <3>2, <3>3, <3>4, <3>5, BeginTurnAlone
  <2> QED BY <2>3, <2>4
<1> QED BY <1>9, <1>10 DEF TurnEnds

\* Another process keeps the types of jobs.json; without one there is no such step.
LEMMA ForeignStep ==
    ASSUME TypeOK, NEW jobs, ForeignWrite(jobs), added' \in 0..MaxJobs,
           IsJobList(jobs, added'), added' >= added
    PROVE  TypeOK' /\ MaxForeign # 0
<1>1. used' \in Bounds /\ MaxForeign # 0
  BY BoundsAssumption DEF TypeOK, ForeignWrite, Bounds
<1>2. IsJobList(store, added')
  BY BoundsAssumption DEF TypeOK, IsJobList
<1> QED BY <1>1, <1>2 DEF TypeOK, ForeignWrite, Bounds

\* Another process appends a job.
LEMMA ForeignAddStep ==
    ASSUME TypeOK, NEW kind \in Kinds, NEW at \in Instants(kind), ForeignAdd(kind, at)
    PROVE  TypeOK' /\ MaxForeign # 0
<1> DEFINE job == [on |-> TRUE, kind |-> kind, at |-> at, next |-> NextRun(kind, at)]
<1>1. at \in 0..MaxTime
  BY BoundsAssumption DEF Instants, Never
<1>2. /\ now \in 1..MaxTime /\ added \in Nat /\ IsJobList(file, added)
      /\ added' = added + 1 /\ added' \in 0..MaxJobs
  BY BoundsAssumption DEF TypeOK, ForeignAdd
<1>3. IsJobList(With(file, added + 1, job), added + 1)
  BY <1>1, <1>2, WithJobs
<1>4. ForeignWrite(With(file, added + 1, job))
  BY DEF ForeignAdd
<1> HIDE DEF job
<1> QED BY <1>2, <1>3, <1>4, ForeignStep

\* Another process removes a job.
LEMMA ForeignRemoveStep ==
    ASSUME TypeOK, NEW i \in Ids, ForeignRemove(i)
    PROVE  TypeOK' /\ MaxForeign # 0
<1>1. IsJobList(Without(file, i), added') /\ added' = added /\ added \in 0..MaxJobs
  BY WithoutJobs DEF TypeOK, ForeignRemove
<1>2. added' >= added
  BY <1>1, BoundsAssumption
<1> QED BY <1>1, <1>2, ForeignStep DEF ForeignRemove

\* Another process disables a job.
LEMMA ForeignDisableStep ==
    ASSUME TypeOK, NEW i \in Ids, ForeignDisable(i)
    PROVE  TypeOK' /\ MaxForeign # 0
<1> DEFINE jobs == [file EXCEPT ![i].on = FALSE, ![i].next = Never]
<1>1. /\ i \in DOMAIN file /\ now \in 1..MaxTime /\ IsJobList(file, added)
      /\ added' = added /\ added \in 0..MaxJobs
  BY DEF TypeOK, ForeignDisable
<1>2. IsJobList(jobs, added)
  BY <1>1, EnabledJobs
<1>3. added' >= added
  BY <1>1, BoundsAssumption
<1>4. ForeignWrite(jobs)
  BY DEF ForeignDisable
<1> HIDE DEF jobs
<1> QED BY <1>1, <1>2, <1>3, <1>4, ForeignStep

-----------------------------------------------------------------------------
(* The theorems. *)

\* A process that has not started satisfies everything.
LEMMA InitInv == Init => TypeOK /\ Alone
<1> SUFFICES ASSUME Init PROVE TypeOK /\ Alone
  OBVIOUS
<1>1. TypeOK
  <2>1. used \in Bounds /\ now \in 1..MaxTime /\ added \in 0..MaxJobs
    BY BoundsAssumption DEF Init, Bounds
  <2>2. IsJobList(file, added) /\ IsJobList(store, added)
    BY DEF Init, IsJobList, NoStore
  <2>3. tick \in Ticks /\ manual \in Manuals /\ recorded \subseteq Ids \X Times
    BY DEF Init, Ticks, Manuals
  <2> QED BY <2>1, <2>2, <2>3 DEF Init, TypeOK, Bounds
<1>2. Alone
  BY DEF Init, Alone, NoTick, TimerCoversJobs, TurnsAreLive, Past
<1> QED BY <1>1, <1>2

\* One case for each action.
LEMMA NextStep ==
    ASSUME TypeOK, [Next]_vars
    PROVE  TypeOK' /\ (MaxForeign = 0 /\ Alone => Alone')
<1>1. CASE Tick
  BY <1>1, TickStep
<1>2. CASE Start
  BY <1>2, StartStep
<1>3. CASE Stop
  BY <1>3, StopStep
<1>4. CASE TimerFires
  BY <1>4, TimerFiresStep
<1>5. CASE TurnEnds
  BY <1>5, TurnEndsStep
<1>6. CASE \E kind \in Kinds : \E at \in Instants(kind) : AddJob(kind, at)
  BY <1>6, AddJobStep
<1>7. CASE \E i \in Ids : RemoveJob(i)
  BY <1>7, RemoveJobStep
<1>8. CASE \E i \in Ids, enabled \in BOOLEAN : EnableJob(i, enabled)
  BY <1>8, EnableJobStep
<1>9. CASE ListJobs
  BY <1>9, ListJobsStep
<1>10. CASE \E i \in Ids : RunJobBegins(i)
  BY <1>10, RunJobBeginsStep
<1>11. CASE RunJobEnds
  BY <1>11, RunJobEndsStep
<1>12. CASE Crash
  BY <1>12, CrashStep
<1>13. CASE \E kind \in Kinds : \E at \in Instants(kind) : ForeignAdd(kind, at)
  BY <1>13, ForeignAddStep
<1>14. CASE \E i \in Ids : ForeignRemove(i)
  BY <1>14, ForeignRemoveStep
<1>15. CASE \E i \in Ids : ForeignDisable(i)
  BY <1>15, ForeignDisableStep
<1>16. CASE UNCHANGED vars
  BY <1>16 DEF vars, TypeOK, Alone, Fresh, TimerCoversJobs, TurnsAreLive, LiveTurn,
               Past, Unrecorded
<1> QED BY <1>1, <1>2, <1>3, <1>4, <1>5, <1>6, <1>7, <1>8, <1>9, <1>10, <1>11, <1>12,
           <1>13, <1>14, <1>15, <1>16 DEF Next

\* Type correctness, with any number of other processes' writes.
THEOREM TypeCorrect == Spec => []TypeOK
<1>1. Init => TypeOK
  BY InitInv
<1>2. TypeOK /\ [Next]_vars => TypeOK'
  BY NextStep
<1> QED BY <1>1, <1>2, PTL DEF Spec

\* The invariant of a service that has jobs.json for itself.
THEOREM AloneInvariant == ASSUME MaxForeign = 0 PROVE Spec => [](TypeOK /\ Alone)
<1>1. Init => TypeOK /\ Alone
  BY InitInv
<1>2. TypeOK /\ Alone /\ [Next]_vars => (TypeOK /\ Alone)'
  BY NextStep
<1> QED BY <1>1, <1>2, PTL DEF Spec

\* No order of calls, turns, manual runs, stops and crashes loses a wake-up.
THEOREM NoWakeUpIsLost == ASSUME MaxForeign = 0 PROVE Spec => []TimerCoversJobs
<1>1. TypeOK /\ Alone => TimerCoversJobs
  BY DEF Alone
<1> QED BY <1>1, AloneInvariant, PTL

\* No turn is in progress after the timer was armed.
LEMMA ArmEndsTurn == ASSUME NEW jobs, NEW up, Arm(jobs, up) PROVE tick'.phase # "turn"
  BY DEF Arm, SleepUntilFirst, NoTick, Asleep

\* Turns are begun by the timer, or by the end of the turn before.
LEMMA WhoBegins ==
    ASSUME TypeOK, Alone, MaxForeign = 0, [Next]_vars, Begins
    PROVE  TimerFires \/ TurnEnds
<1>1. CASE Tick \/ UNCHANGED vars
  BY <1>1 DEF Begins, Tick, vars
<1>2. CASE Start \/ RunJobEnds
  BY <1>2, ArmEndsTurn DEF Begins, Start, RunJobEnds
<1>3. CASE Stop \/ Crash
  BY <1>3 DEF Begins, Stop, Crash, NoTick
<1>4. CASE \E kind \in Kinds : \E at \in Instants(kind) : AddJob(kind, at)
  BY <1>4, ArmEndsTurn DEF Begins, AddJob
<1>5. CASE \E i \in Ids : RemoveJob(i)
  BY <1>5, ArmEndsTurn DEF Begins, RemoveJob
<1>6. CASE \E i \in Ids, enabled \in BOOLEAN : EnableJob(i, enabled)
  BY <1>6, ArmEndsTurn DEF Begins, EnableJob
<1>7. CASE DetachTick
  BY <1>7 DEF Begins, DetachTick, TypeOK, Ticks, NoTick
<1>8. CASE \/ \E kind \in Kinds : \E at \in Instants(kind) : ForeignAdd(kind, at)
           \/ \E i \in Ids : ForeignRemove(i)
           \/ \E i \in Ids : ForeignDisable(i)
  BY <1>8, ForeignAddStep, ForeignRemoveStep, ForeignDisableStep
<1> QED BY <1>1, <1>2, <1>3, <1>4, <1>5, <1>6, <1>7, <1>8 DEF Next, ListJobs, RunJobBegins

\* The turn that a step begins is live before the step and after it.
LEMMA BegunTurnIsLive ==
    ASSUME TypeOK, Alone, MaxForeign = 0, [Next]_vars, Begins
    PROVE  LET r == tick'.turn
           IN  /\ r.id \in DOMAIN store' /\ store'[r.id] = r.job
               /\ r.id \in DOMAIN store /\ store[r.id] = r.job
               /\ Scheduled(r.job) /\ r.job.next <= now
<1>1. CASE TimerFires
  <2>1. Current = store /\ running
    BY <1>1, CurrentIsStore DEF Alone, TimerFires
  <2>2. Keep(store) /\ BeginTurn(DueTurns(store), TRUE)
    BY <1>1, <2>1, ArmEndsTurn DEF TimerFires, Begins
  <2>3. PICK r \in DueTurns(store) : tick'.turn = r
    <3> DEFINE due == DueTurns(store)
    <3> HIDE DEF due
    <3>1. \E r \in due : tick' = InTurn(r, due \ {r}, TRUE)
      BY <2>2, BeginTurnPicks DEF due
    <3>2. \E r \in due : tick'.turn = r
      BY <3>1 DEF InTurn
    <3> QED BY <3>2 DEF due
  <2>4. store' = store
    BY <2>2 DEF Keep
  <2>5. /\ r.id \in DOMAIN store /\ store[r.id] = r.job
        /\ Scheduled(r.job) /\ now >= r.job.next
    BY DEF DueTurns
  <2>6. r.job.next \in Int /\ now \in Int
    BY <2>5, BoundsAssumption DEF TypeOK, IsJobList, Job, Times
  <2> QED BY <2>3, <2>4, <2>5, <2>6
<1>2. CASE TurnEnds
  <2> DEFINE jobs == Finished(store, tick.turn, tick.attached)
  <2>1. Keep(jobs) /\ BeginTurn(tick.rest, tick.attached)
    BY <1>2, ArmEndsTurn DEF TurnEnds, Begins
  <2>2. PICK r \in tick.rest : tick'.turn = r
    BY <2>1, BeginTurnPicks DEF InTurn
  <2>3. LiveTurn(r) /\ r.id # tick.turn.id
    BY <1>2 DEF Alone, TurnsAreLive, TurnEnds
  <2>4. \A i \in DOMAIN store : i # tick.turn.id => i \in DOMAIN jobs /\ jobs[i] = store[i]
    BY <1>2, FinishedJobs DEF TypeOK, Ticks, NoTick, TurnEnds
  <2>5. store' = jobs
    BY <2>1 DEF Keep
  <2> HIDE DEF jobs
  <2> QED BY <2>2, <2>3, <2>4, <2>5 DEF LiveTurn
<1> QED BY <1>1, <1>2, WhoBegins

\* Turns begin only for jobs that are there, enabled and due.
THEOREM OnlyLiveJobsStart == ASSUME MaxForeign = 0 PROVE Spec => StartsOnlyLiveJobs
<1>1. TypeOK /\ Alone /\ [Next]_vars =>
        [Begins => LET r == tick'.turn
                   IN  /\ r.id \in DOMAIN store' /\ store'[r.id] = r.job
                       /\ Scheduled(r.job) /\ r.job.next <= now]_vars
  BY BegunTurnIsLive
<1> QED BY <1>1, AloneInvariant, PTL DEF Spec, StartsOnlyLiveJobs

\* A run whose end was recorded never begins again.
THEOREM RecordedRunsStayFinal == ASSUME MaxForeign = 0 PROVE Spec => RecordedRunsAreFinal
<1>1. ASSUME TypeOK, Alone, [Next]_vars, Begins
      PROVE  <<tick'.turn.id, tick'.turn.job.next>> \notin recorded
  <2>1. running
    BY <1>1, WhoBegins DEF Alone, TimerFires, TurnEnds
  <2> QED BY <1>1, <2>1, BegunTurnIsLive DEF Alone, Unrecorded
<1>2. TypeOK /\ Alone /\ [Next]_vars =>
        [Begins => <<tick'.turn.id, tick'.turn.job.next>> \notin recorded]_vars
  BY <1>1
<1> QED BY <1>2, AloneInvariant, PTL DEF Spec, RecordedRunsAreFinal

\* The cache is the file, and a file whose time is known has been loaded or written.
Cached == CacheIsFresh /\ (synced => loaded)

\* Saving makes the cache fresh; loading leaves an unknown modification time unknown.
LEMMA SaveCaches == ASSUME NEW jobs, Save(jobs) PROVE Cached'
  BY DEF Save, Cached, CacheIsFresh

LEMMA KeepCaches ==
    ASSUME Cached, NEW jobs, Keep(jobs), jobs = Current, running' = running,
           tick' = tick \/ DetachTick
    PROVE  Cached'
<1>1. CASE ~Fresh
  BY <1>1 DEF Keep, Cached, CacheIsFresh, Fresh
<1>2. CASE Fresh
  BY <1>2 DEF Keep, Cached, CacheIsFresh, Fresh, Current, DetachTick
<1> QED BY <1>1, <1>2

\* Nothing is claimed of the cache while a turn is in progress.
LEMMA TurnCaches ==
    ASSUME Cached, NEW jobs, Keep(jobs), NEW due, NEW attached, BeginTurn(due, attached)
    PROVE  Cached'
<1>1. tick'.phase = "turn"
  BY BeginTurnPicks DEF InTurn
<1> QED BY <1>1 DEF Keep, Cached, CacheIsFresh

\* The cache is that of the file, whoever writes jobs.json and whenever.
THEOREM CacheStaysFresh == Spec => []CacheIsFresh
<1>1. Init => Cached
  BY DEF Init, Cached, CacheIsFresh
<1>2. ASSUME TypeOK, Cached, [Next]_vars PROVE Cached'
  <2>1. CASE Tick \/ UNCHANGED vars
    BY <1>2, <2>1 DEF Tick, vars, Cached, CacheIsFresh, Fresh
  <2>2. CASE Start \/ RunJobEnds
    BY <2>2, SaveCaches DEF Start, RunJobEnds
  <2>3. CASE Stop \/ Crash
    BY <1>2, <2>3 DEF Stop, Crash, Cached, CacheIsFresh
  <2>4. CASE TimerFires
    BY <1>2, <2>4, SaveCaches, TurnCaches DEF TimerFires
  <2>5. CASE TurnEnds
    BY <1>2, <2>5, SaveCaches, TurnCaches DEF TurnEnds
  <2>6. CASE \E kind \in Kinds : \E at \in Instants(kind) : AddJob(kind, at)
    BY <2>6, SaveCaches DEF AddJob
  <2>7. CASE \E i \in Ids : RemoveJob(i)
    BY <2>7, SaveCaches DEF RemoveJob
  <2>8. CASE \E i \in Ids, enabled \in BOOLEAN : EnableJob(i, enabled)
    BY <2>8, SaveCaches DEF EnableJob
  <2>9. CASE ListJobs
    BY <1>2, <2>9, KeepCaches DEF ListJobs
  <2>10. CASE \E i \in Ids : RunJobBegins(i)
    BY <1>2, <2>10, KeepCaches DEF RunJobBegins
  <2>11. CASE \/ \E kind \in Kinds : \E at \in Instants(kind) : ForeignAdd(kind, at)
              \/ \E i \in Ids : ForeignRemove(i)
              \/ \E i \in Ids : ForeignDisable(i)
    BY <2>11 DEF ForeignAdd, ForeignRemove, ForeignDisable, ForeignWrite, Cached,
                 CacheIsFresh, Fresh
  <2> QED BY <1>2, <2>1, <2>2, <2>3, <2>4, <2>5, <2>6, <2>7, <2>8, <2>9, <2>10, <2>11 DEF Next
<1>3. Cached => CacheIsFresh
  BY DEF Cached
<1> QED BY <1>1, <1>2, <1>3, TypeCorrect, PTL DEF Spec

-----------------------------------------------------------------------------
(* What another process writes. *)

\* A tick that sleeps begins a turn only when it wakes.
LEMMA AsleepBegins ==
    ASSUME TypeOK, [Next]_vars, Begins, tick.phase = "asleep"
    PROVE  TimerFires
<1>1. tick' # tick
  BY DEF Begins
<1>2. CASE Tick \/ UNCHANGED vars
  BY <1>1, <1>2 DEF Tick, vars
<1>3. CASE Start \/ RunJobEnds
  BY <1>3, ArmEndsTurn DEF Begins, Start, RunJobEnds
<1>4. CASE Stop \/ Crash
  BY <1>4 DEF Begins, Stop, Crash, NoTick
<1>5. CASE \E kind \in Kinds : \E at \in Instants(kind) : AddJob(kind, at)
  BY <1>5, ArmEndsTurn DEF Begins, AddJob
<1>6. CASE \E i \in Ids : RemoveJob(i)
  BY <1>6, ArmEndsTurn DEF Begins, RemoveJob
<1>7. CASE \E i \in Ids, enabled \in BOOLEAN : EnableJob(i, enabled)
  BY <1>7, ArmEndsTurn DEF Begins, EnableJob
<1>8. CASE DetachTick
  BY <1>1, <1>8 DEF DetachTick
<1>9. CASE \/ \E kind \in Kinds : \E at \in Instants(kind) : ForeignAdd(kind, at)
           \/ \E i \in Ids : ForeignRemove(i)
           \/ \E i \in Ids : ForeignDisable(i)
  BY <1>1, <1>9 DEF ForeignAdd, ForeignRemove, ForeignDisable, ForeignWrite
<1>10. CASE TurnEnds
  BY <1>10 DEF TurnEnds
<1> QED BY <1>2, <1>3, <1>4, <1>5, <1>6, <1>7, <1>8, <1>9, <1>10 DEF Next, ListJobs, RunJobBegins

\* A tick that wakes reads jobs.json again when it was changed, so it begins with no job that
\* another process has disabled: for any number of jobs and of foreign writes.
THEOREM DisabledStaysDisabled == Spec => ExternalDisableHonored
<1>1. ASSUME TypeOK, [Next]_vars, Begins, tick.phase = "asleep", ~synced
      PROVE  LET i == tick'.turn.id IN i \in DOMAIN file => file[i].on
  <2>1. TimerFires
    BY <1>1, AsleepBegins
  <2>2. Current = file
    BY <1>1 DEF Current, Fresh
  <2>3. BeginTurn(DueTurns(file), TRUE)
    BY <1>1, <2>1, <2>2, ArmEndsTurn DEF TimerFires, Begins
  <2>4. PICK r \in DueTurns(file) : tick'.turn = r
    <3> DEFINE due == DueTurns(file)
    <3> HIDE DEF due
    <3>1. \E r \in due : tick' = InTurn(r, due \ {r}, TRUE)
      BY <2>3, BeginTurnPicks DEF due
    <3>2. \E r \in due : tick'.turn = r
      BY <3>1 DEF InTurn
    <3> QED BY <3>2 DEF due
  <2>5. r.id \in DOMAIN file /\ Scheduled(file[r.id])
    BY DEF DueTurns
  <2> QED BY <2>4, <2>5 DEF Scheduled
<1>2. TypeOK /\ [Next]_vars =>
        [Begins /\ tick.phase = "asleep" /\ ~synced
           => LET i == tick'.turn.id IN i \in DOMAIN file => file[i].on]_vars
  BY <1>1
<1> QED BY <1>2, TypeCorrect, PTL DEF Spec, ExternalDisableHonored

=============================================================================
