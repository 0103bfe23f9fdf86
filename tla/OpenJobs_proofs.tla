-------------------------- MODULE OpenJobs_proofs --------------------------
(***************************************************************************)
(* Every job has one task while it runs and none otherwise, for any number *)
(* of callers, paths and jobs.                                             *)
(***************************************************************************)
EXTENDS OpenJobs, TLAPS

(* The inductive invariant of open jobs. *)
JobsInv == TypeOK /\ OneTaskPerJob /\ FreshJobs

(* The invariant holds before the first call. *)
LEMMA InitInv == Init => JobsInv
  BY JobsAssumption
  DEF Init, JobsInv, TypeOK, CountersOK, JobsOK, TasksOK, CallsOK, ProjectsOK, OneTaskPerJob,
      FreshJobs, JobIds, InMap, Busy, Absent, AtRest, Running, CallStates, Tasks, Calls,
      Targets, JobRecords, RunningStates

(* A job in the map gets a new state and target. *)
LEMMA JobUpdate ==
  ASSUME JobsOK, NEW j \in JobIds, InMap(j), NEW s \in RunningStates \cup DoneStates,
         NEW g \in Targets
  PROVE  /\ [jobs EXCEPT ![j].state = s, ![j].target = g] \in [JobIds -> JobRecords]
         /\ [jobs EXCEPT ![j].state = s] \in [JobIds -> JobRecords]
<1>1. jobs[j] \in [path : Paths, state : RunningStates \cup DoneStates, target : Targets]
  BY DEF JobsOK, JobRecords, InMap, Absent
<1>2. /\ [jobs[j] EXCEPT !.state = s, !.target = g] \in JobRecords
      /\ [jobs[j] EXCEPT !.state = s] \in JobRecords
  BY <1>1 DEF JobRecords
<1> QED
  BY <1>2 DEF JobsOK

(* A new task of a job. *)
LEMMA TaskType ==
  ASSUME NEW j \in JobIds, NEW p \in Paths, NEW kind \in JobKinds
  PROVE  Task(j, p, kind) \in Tasks /\ Task(j, p, kind).job = j
  BY JobsAssumption DEF Task, Tasks, Number, Targets

(* A task that goes on keeps its job, so no job gains or loses a task. *)
LEMMA AdvanceTask ==
  ASSUME TasksOK, NEW t \in tasks, NEW s \in {"start", "building", "opened"}, NEW g,
         Advance(t, s, g)
  PROVE  /\ Busy' = Busy
         /\ (\A u, v \in tasks : u.job = v.job => u = v) =>
               (\A u, v \in tasks' : u.job = v.job => u = v)
<1> DEFINE w == [t EXCEPT !.step = s, !.target = g]
<1>1. w.job = t.job /\ tasks' = (tasks \ {t}) \cup {w}
  BY DEF Advance, TasksOK, Tasks
<1> HIDE DEF w
<1> QED
  BY <1>1 DEF Busy

(* A call at rest, or sent to a step. *)
LEMMA CallType ==
  ASSUME TypeOK
  PROVE  /\ AtRest \in Calls /\ AtRest.pc = "idle"
         /\ \A pc \in CallStates, p \in Paths :
              [AtRest EXCEPT !.pc = pc, !.path = p] \in Calls
         /\ \A pc \in CallStates, j \in 0..issued :
              [AtRest EXCEPT !.pc = pc, !.job = j] \in Calls
         /\ \A g \in Targets :
              [AtRest EXCEPT !.pc = "release", !.target = g] \in Calls
         /\ \A j \in 0..issued, g \in Targets :
              [AtRest EXCEPT !.pc = "release", !.job = j, !.target = g] \in Calls
<1>1. 0 \in Targets /\ 0 \in 0..issued
  BY DEF TypeOK, ProjectsOK, CountersOK, Targets
<1> QED
  BY <1>1 DEF AtRest, Calls, CallStates

(* The record of a call that is given back or sent to a step. *)
LEMMA CallUpdate ==
  ASSUME CallsOK, CountersOK, NEW c \in Callers, NEW r \in Calls,
         r.pc \in {"create", "insert"} => r.path \in Paths,
         call' = [call EXCEPT ![c] = r], issued' = issued, opened' = opened
  PROVE  CallsOK'
  BY DEF CallsOK, Calls, Targets

(* A lookup prunes the map and may send the call on. *)
LEMMA StartLookupInv ==
  ASSUME JobsInv, NEW c \in Callers, NEW p \in Paths, StartLookup(c, p)
  PROVE  JobsInv'
<1> USE JobsAssumption DEF JobIds
<1>a. [AtRest EXCEPT !.pc = "create", !.path = p] \in Calls
  BY CallType DEF JobsInv, CallStates
<1>b. \A j \in JobIds : /\ jobs'[j].state # "absent" => jobs'[j] = jobs[j]
                        /\ Running(j) => jobs'[j] = jobs[j]
  BY DEF StartLookup, Pruned, Absent
<1>c. \/ call' = call
      \/ call' = [call EXCEPT ![c] = [AtRest EXCEPT !.pc = "create", !.path = p]]
  BY DEF StartLookup
<1>1. CountersOK'
    BY DEF JobsInv, TypeOK, CountersOK, StartLookup, Pruned, Running, InMap
<1>2. JobsOK'
    BY DEF JobsInv, TypeOK, JobsOK, CallsOK, Calls, CountersOK, JobRecords, Targets, Absent,
      RunningStates, DoneStates, StartLookup, Pruned, Running, InMap
<1>3. TasksOK'
    BY DEF JobsInv, TypeOK, TasksOK, Tasks, Targets, StartLookup, Pruned, Running, InMap
<1>4. CallsOK'
  <2>1. CASE call' = call
    BY <2>1 DEF JobsInv, TypeOK, CallsOK, Calls, Targets, StartLookup
  <2>2. CASE call' = [call EXCEPT ![c] = [AtRest EXCEPT !.pc = "create", !.path = p]]
    BY <1>a, <2>2, CallUpdate DEF JobsInv, TypeOK, StartLookup, AtRest
  <2> QED
    BY <1>c, <2>1, <2>2
<1>5. ProjectsOK'
    BY DEF JobsInv, TypeOK, ProjectsOK, TasksOK, Tasks, StartLookup, Pruned, Running, InMap
<1>6. OneTaskPerJob'
  <2>1. tasks' = tasks /\ Busy' = Busy
    BY DEF StartLookup, Busy
  <2> QED
    BY <1>b, <2>1 DEF JobsInv, OneTaskPerJob, Running, InMap
<1>7. FreshJobs'
  <2>1. \A d \in Callers : \/ call'[d] = call[d]
                           \/ call'[d].pc = "create"
    BY <1>c DEF JobsInv, TypeOK, CallsOK, AtRest
  <2>2. Busy' = Busy /\ issued' = issued
    BY DEF StartLookup, Busy
  <2>3. \A d \in Callers : call[d].job \in JobIds \/ call[d].job = 0
    BY DEF JobsInv, TypeOK, CallsOK, Calls, CountersOK
  <2> QED
    BY <1>b, <2>1, <2>2, <2>3 DEF JobsInv, FreshJobs, InMap, Running
<1> QED
  BY <1>1, <1>2, <1>3, <1>4, <1>5, <1>6, <1>7 DEF JobsInv, TypeOK

(* The new job is one nobody has seen. *)
LEMMA CreateJobInv ==
  ASSUME JobsInv, NEW c \in Callers, CreateJob(c)
  PROVE  JobsInv'
<1> USE JobsAssumption DEF JobIds
<1>1. CountersOK'
    BY DEF JobsInv, TypeOK, CountersOK, CreateJob
<1>2. JobsOK'
    BY DEF JobsInv, TypeOK, JobsOK, CallsOK, Calls, CountersOK, JobRecords, Targets, Absent,
      RunningStates, DoneStates, CreateJob
<1>3. TasksOK'
    BY DEF JobsInv, TypeOK, TasksOK, Tasks, Targets, CreateJob
<1>4. CallsOK'
    BY DEF JobsInv, TypeOK, CallsOK, Calls, CallStates, CountersOK, Targets, CreateJob
<1>5. ProjectsOK'
    BY DEF JobsInv, TypeOK, ProjectsOK, TasksOK, Tasks, CreateJob
<1>6. OneTaskPerJob'
    BY DEF JobsInv, TypeOK, JobsOK, JobRecords, TasksOK, Tasks, CallsOK, Calls, CountersOK,
      FreshJobs, OneTaskPerJob, InMap, Running, Busy, Absent, RunningStates, DoneStates,
      CreateJob
<1>7. FreshJobs'
    BY DEF JobsInv, TypeOK, JobsOK, JobRecords, TasksOK, Tasks, CallsOK, Calls, CountersOK,
      FreshJobs, InMap, Busy, Absent, RunningStates, DoneStates, CreateJob
<1> QED
  BY <1>1, <1>2, <1>3, <1>4, <1>5, <1>6, <1>7 DEF JobsInv, TypeOK

(* The inserted job was fresh, and eviction spares running jobs. *)
LEMMA InsertJobInv ==
  ASSUME JobsInv, NEW c \in Callers, InsertJob(c)
  PROVE  JobsInv'
<1> USE JobsAssumption DEF JobIds
<1>a. call[c].job \in JobIds /\ call[c].path \in Paths /\ call[c].pc = "insert"
  BY DEF JobsInv, TypeOK, CallsOK, Calls, CountersOK, FreshJobs, InsertJob
<1>b. ~InMap(call[c].job) /\ call[c].job \notin Busy
  BY <1>a DEF JobsInv, FreshJobs
<1>c. PICK w \in Tasks : w.job = call[c].job /\ tasks' = tasks \cup {w}
  BY <1>a, TaskType DEF InsertJob, JobKinds
<1>d. \A j \in JobIds : /\ j # call[c].job => jobs'[j] \in {jobs[j], Absent}
                        /\ (Running(j) /\ j # call[c].job) => jobs'[j] = jobs[j]
                        /\ jobs'[call[c].job].state = "queued"
  BY <1>a DEF InsertJob, Evicted, Evictable, Running, InMap, RunningStates, Absent
<1>e. Busy' = Busy \cup {call[c].job}
  BY <1>c DEF Busy
<1>1. CountersOK'
    BY DEF JobsInv, TypeOK, CountersOK, InsertJob, AtRest, Evicted, Evictable
<1>2. JobsOK'
    BY DEF JobsInv, TypeOK, JobsOK, CallsOK, Calls, CountersOK, JobRecords, Targets, Absent,
      RunningStates, DoneStates, InsertJob, AtRest, Evicted, Evictable
<1>3. TasksOK'
  BY <1>c DEF JobsInv, TypeOK, TasksOK, Tasks, Targets, InsertJob
<1>4. CallsOK'
    BY DEF JobsInv, TypeOK, CallsOK, Calls, CallStates, CountersOK, Targets, InsertJob,
      AtRest, Evicted, Evictable
<1>5. ProjectsOK'
    BY DEF JobsInv, TypeOK, ProjectsOK, TasksOK, Tasks, InsertJob, AtRest, Evicted,
      Evictable
<1>6. OneTaskPerJob'
  <2>1. \A j \in JobIds :
          jobs'[j].state # "absent" => (jobs'[j].state \in RunningStates <=> j \in Busy')
    <3> SUFFICES ASSUME NEW j \in JobIds, jobs'[j].state # "absent"
                 PROVE  jobs'[j].state \in RunningStates <=> j \in Busy'
      OBVIOUS
    <3>1. CASE j = call[c].job
      BY <1>d, <1>e, <3>1 DEF Running, RunningStates
    <3>2. CASE j # call[c].job
      <4>1. jobs'[j] = jobs[j]
        BY <1>d, <3>2 DEF Absent, Running
      <4>2. jobs[j].state \in RunningStates <=> j \in Busy
        BY <4>1 DEF JobsInv, OneTaskPerJob, InMap, Running
      <4> QED
        BY <1>e, <3>2, <4>1, <4>2
    <3> QED
      BY <3>1, <3>2
  <2>2. \A t, u \in tasks' : t.job = u.job => t = u
    BY <1>b, <1>c DEF JobsInv, OneTaskPerJob, Busy
  <2> QED
    BY <2>1, <2>2 DEF OneTaskPerJob, InMap, Running
<1>7. FreshJobs'
  <2>1. /\ call' = [call EXCEPT ![c] = AtRest] /\ AtRest.pc = "idle"
        /\ issued' = issued
    BY DEF InsertJob, AtRest
  <2>2. \A d \in Callers : call'[d].pc # "idle" => d # c /\ call'[d] = call[d]
    BY <2>1 DEF JobsInv, TypeOK, CallsOK
  <2>3. \A j \in JobIds : j # call[c].job =>
          /\ jobs'[j].state # "absent" => jobs[j].state # "absent"
          /\ j \in Busy' => j \in Busy
    BY <1>d, <1>e DEF Absent, Running
  <2>4. \A d \in Callers : call'[d].pc = "insert" =>
          /\ call'[d].job # 0
          /\ jobs'[call'[d].job].state = "absent"
          /\ call'[d].job \notin Busy'
          /\ \A e \in Callers : call'[e].pc = "insert" /\ call'[e].job = call'[d].job => e = d
    <3> SUFFICES ASSUME NEW d \in Callers, call'[d].pc = "insert"
                 PROVE  /\ call[d].job # 0
                        /\ jobs'[call[d].job].state = "absent"
                        /\ call[d].job \notin Busy'
                        /\ \A e \in Callers : call'[e].pc = "insert" /\ call'[e].job = call[d].job
                                              => e = d
      BY <2>2
    <3>1. d # c /\ call[d].pc = "insert"
      BY <2>2
    <3>2. call[d].job # call[c].job /\ call[d].job \in JobIds
      BY <1>a, <3>1 DEF JobsInv, TypeOK, CallsOK, Calls, CountersOK, FreshJobs
    <3> QED
      BY <2>2, <2>3, <3>1, <3>2 DEF JobsInv, FreshJobs, InMap
  <2>5. \A j \in JobIds : jobs'[j].state # "absent" \/ j \in Busy' => j <= issued'
    <3>1. call[c].job <= issued
      BY DEF JobsInv, TypeOK, CallsOK, Calls, CountersOK
    <3> QED
      BY <2>1, <2>3, <3>1 DEF JobsInv, FreshJobs, InMap
  <2> QED
    BY <2>2, <2>4, <2>5 DEF JobsInv, FreshJobs, InMap
<1> QED
  BY <1>1, <1>2, <1>3, <1>4, <1>5, <1>6, <1>7 DEF JobsInv, TypeOK

(* Pruning spares running jobs. *)
LEMMA StatusResultInv ==
  ASSUME JobsInv, StatusResult
  PROVE  JobsInv'
<1> USE JobsAssumption DEF JobIds
<1>1. CountersOK'
    BY DEF JobsInv, TypeOK, CountersOK, StatusResult, Pruned
<1>2. JobsOK'
    BY DEF JobsInv, TypeOK, JobsOK, CallsOK, Calls, CountersOK, JobRecords, Targets, Absent,
      RunningStates, DoneStates, StatusResult, Pruned
<1>3. TasksOK'
    BY DEF JobsInv, TypeOK, TasksOK, Tasks, Targets, StatusResult, Pruned
<1>4. CallsOK'
    BY DEF JobsInv, TypeOK, CallsOK, Calls, CallStates, CountersOK, Targets, StatusResult,
      Pruned
<1>5. ProjectsOK'
    BY DEF JobsInv, TypeOK, ProjectsOK, TasksOK, Tasks, StatusResult, Pruned
<1>6. OneTaskPerJob'
    BY DEF JobsInv, TypeOK, JobsOK, JobRecords, TasksOK, Tasks, CallsOK, Calls, CountersOK,
      FreshJobs, OneTaskPerJob, InMap, Running, Busy, Absent, RunningStates, DoneStates,
      StatusResult, Pruned
<1>7. FreshJobs'
    BY DEF JobsInv, TypeOK, JobsOK, JobRecords, TasksOK, Tasks, CallsOK, Calls, CountersOK,
      FreshJobs, InMap, Busy, Absent, RunningStates, DoneStates, StatusResult, Pruned
<1> QED
  BY <1>1, <1>2, <1>3, <1>4, <1>5, <1>6, <1>7 DEF JobsInv, TypeOK

(* Only the clock moves. *)
LEMMA TimePassesInv ==
  ASSUME JobsInv, TimePasses
  PROVE  JobsInv'
<1> USE JobsAssumption DEF JobIds
<1>1. CountersOK'
    BY DEF JobsInv, TypeOK, CountersOK, TimePasses
<1>2. JobsOK'
    BY DEF JobsInv, TypeOK, JobsOK, CallsOK, Calls, CountersOK, JobRecords, Targets, Absent,
      RunningStates, DoneStates, TimePasses
<1>3. TasksOK'
    BY DEF JobsInv, TypeOK, TasksOK, Tasks, Targets, TimePasses
<1>4. CallsOK'
    BY DEF JobsInv, TypeOK, CallsOK, Calls, CallStates, CountersOK, Targets, TimePasses
<1>5. ProjectsOK'
    BY DEF JobsInv, TypeOK, ProjectsOK, TasksOK, Tasks, TimePasses
<1>6. OneTaskPerJob'
    BY DEF JobsInv, TypeOK, JobsOK, JobRecords, TasksOK, Tasks, CallsOK, Calls, CountersOK,
      FreshJobs, OneTaskPerJob, InMap, Running, Busy, Absent, RunningStates, DoneStates,
      TimePasses
<1>7. FreshJobs'
    BY DEF JobsInv, TypeOK, JobsOK, JobRecords, TasksOK, Tasks, CallsOK, Calls, CountersOK,
      FreshJobs, InMap, Busy, Absent, RunningStates, DoneStates, TimePasses
<1> QED
  BY <1>1, <1>2, <1>3, <1>4, <1>5, <1>6, <1>7 DEF JobsInv, TypeOK

(* The polled job is in the map. *)
LEMMA PollCatalogInv ==
  ASSUME JobsInv, NEW c \in Callers, NEW j \in JobIds, NEW full \in BOOLEAN, PollCatalog(c, j, full)
  PROVE  JobsInv'
<1> USE JobsAssumption DEF JobIds
<1>a. PICK pc \in {"analysis_check", "sketch_set"} :
        call' = [call EXCEPT ![c] = [AtRest EXCEPT !.pc = pc, !.job = j]]
  BY DEF PollCatalog, OnJob
<1>b. [AtRest EXCEPT !.pc = pc, !.job = j] \in Calls
  <2>1. j \in 0..issued /\ pc \in CallStates
    BY DEF JobsInv, TypeOK, CountersOK, FreshJobs, InMap, CallStates, PollCatalog
  <2> QED
    BY <2>1, CallType DEF JobsInv
<1>1. CountersOK'
    BY DEF JobsInv, TypeOK, CountersOK, PollCatalog
<1>2. JobsOK'
    BY DEF JobsInv, TypeOK, JobsOK, CallsOK, Calls, CountersOK, JobRecords, Targets, Absent,
      RunningStates, DoneStates, PollCatalog
<1>3. TasksOK'
    BY DEF JobsInv, TypeOK, TasksOK, Tasks, Targets, PollCatalog
<1>4. CallsOK'
  BY <1>a, <1>b, CallUpdate DEF JobsInv, TypeOK, PollCatalog, AtRest
<1>5. ProjectsOK'
    BY DEF JobsInv, TypeOK, ProjectsOK, TasksOK, Tasks, PollCatalog
<1>6. OneTaskPerJob'
    BY DEF JobsInv, TypeOK, JobsOK, JobRecords, TasksOK, Tasks, CallsOK, Calls, CountersOK,
      FreshJobs, OneTaskPerJob, InMap, Running, Busy, Absent, RunningStates, DoneStates,
      PollCatalog
<1>7. FreshJobs'
  BY <1>a DEF JobsInv, TypeOK, CallsOK, FreshJobs, AtRest, InMap, Busy, PollCatalog
<1> QED
  BY <1>1, <1>2, <1>3, <1>4, <1>5, <1>6, <1>7 DEF JobsInv, TypeOK

(* The polled job is in the map. *)
LEMMA PollSketchInv ==
  ASSUME JobsInv, NEW c \in Callers, NEW j \in JobIds, PollSketch(c, j)
  PROVE  JobsInv'
<1> USE JobsAssumption DEF JobIds
<1>a. PICK pc \in {"sketch_seen"} :
        call' = [call EXCEPT ![c] = [AtRest EXCEPT !.pc = pc, !.job = j]]
  BY DEF PollSketch, OnJob
<1>b. [AtRest EXCEPT !.pc = pc, !.job = j] \in Calls
  <2>1. j \in 0..issued /\ pc \in CallStates
    BY DEF JobsInv, TypeOK, CountersOK, FreshJobs, InMap, CallStates, PollSketch
  <2> QED
    BY <2>1, CallType DEF JobsInv
<1>1. CountersOK'
    BY DEF JobsInv, TypeOK, CountersOK, PollSketch
<1>2. JobsOK'
    BY DEF JobsInv, TypeOK, JobsOK, CallsOK, Calls, CountersOK, JobRecords, Targets, Absent,
      RunningStates, DoneStates, PollSketch
<1>3. TasksOK'
    BY DEF JobsInv, TypeOK, TasksOK, Tasks, Targets, PollSketch
<1>4. CallsOK'
  BY <1>a, <1>b, CallUpdate DEF JobsInv, TypeOK, PollSketch, AtRest
<1>5. ProjectsOK'
    BY DEF JobsInv, TypeOK, ProjectsOK, TasksOK, Tasks, PollSketch
<1>6. OneTaskPerJob'
    BY DEF JobsInv, TypeOK, JobsOK, JobRecords, TasksOK, Tasks, CallsOK, Calls, CountersOK,
      FreshJobs, OneTaskPerJob, InMap, Running, Busy, Absent, RunningStates, DoneStates,
      PollSketch
<1>7. FreshJobs'
  BY <1>a DEF JobsInv, TypeOK, CallsOK, FreshJobs, AtRest, InMap, Busy, PollSketch
<1> QED
  BY <1>1, <1>2, <1>3, <1>4, <1>5, <1>6, <1>7 DEF JobsInv, TypeOK

(* The call goes on with the same job or returns. *)
LEMMA RecheckBoundedInv ==
  ASSUME JobsInv, NEW c \in Callers, RecheckBounded(c)
  PROVE  JobsInv'
<1> USE JobsAssumption DEF JobIds
<1>a. AtRest \in Calls /\ AtRest.pc = "idle"
  BY CallType DEF JobsInv
<1>b. \/ call' = [call EXCEPT ![c] = AtRest]
      \/ call' = [call EXCEPT ![c] = [call[c] EXCEPT !.pc = "analysis_check"]]
  BY DEF RecheckBounded, Return, GoTo, JobsInv, TypeOK, CallsOK
<1>c. [call[c] EXCEPT !.pc = "analysis_check"] \in Calls
  BY DEF JobsInv, TypeOK, CallsOK, Calls, CallStates
<1>1. CountersOK'
    BY DEF JobsInv, TypeOK, CountersOK, RecheckBounded
<1>2. JobsOK'
    BY DEF JobsInv, TypeOK, JobsOK, CallsOK, Calls, CountersOK, JobRecords, Targets, Absent,
      RunningStates, DoneStates, RecheckBounded
<1>3. TasksOK'
    BY DEF JobsInv, TypeOK, TasksOK, Tasks, Targets, RecheckBounded
<1>4. CallsOK'
  BY <1>a, <1>b, <1>c, CallUpdate DEF JobsInv, TypeOK, RecheckBounded, CallsOK, Calls
<1>5. ProjectsOK'
    BY DEF JobsInv, TypeOK, ProjectsOK, TasksOK, Tasks, RecheckBounded
<1>6. OneTaskPerJob'
    BY DEF JobsInv, TypeOK, JobsOK, JobRecords, TasksOK, Tasks, CallsOK, Calls, CountersOK,
      FreshJobs, OneTaskPerJob, InMap, Running, Busy, Absent, RunningStates, DoneStates,
      RecheckBounded
<1>7. FreshJobs'
  BY <1>a, <1>b DEF JobsInv, TypeOK, CallsOK, Calls, FreshJobs, InMap, Busy, RecheckBounded
<1> QED
  BY <1>1, <1>2, <1>3, <1>4, <1>5, <1>6, <1>7 DEF JobsInv, TypeOK

(* The call goes on with the same job. *)
LEMMA AnalysisCheckInv ==
  ASSUME JobsInv, NEW c \in Callers, AnalysisCheck(c)
  PROVE  JobsInv'
<1> USE JobsAssumption DEF JobIds
<1>1. CountersOK'
    BY DEF JobsInv, TypeOK, CountersOK, AnalysisCheck, GoTo
<1>2. JobsOK'
    BY DEF JobsInv, TypeOK, JobsOK, CallsOK, Calls, CountersOK, JobRecords, Targets, Absent,
      RunningStates, DoneStates, AnalysisCheck, GoTo
<1>3. TasksOK'
    BY DEF JobsInv, TypeOK, TasksOK, Tasks, Targets, AnalysisCheck, GoTo
<1>4. CallsOK'
    BY DEF JobsInv, TypeOK, CallsOK, Calls, CallStates, CountersOK, Targets, AnalysisCheck,
      GoTo
<1>5. ProjectsOK'
    BY DEF JobsInv, TypeOK, ProjectsOK, TasksOK, Tasks, AnalysisCheck, GoTo
<1>6. OneTaskPerJob'
    BY DEF JobsInv, TypeOK, JobsOK, JobRecords, TasksOK, Tasks, CallsOK, Calls, CountersOK,
      FreshJobs, OneTaskPerJob, InMap, Running, Busy, Absent, RunningStates, DoneStates,
      AnalysisCheck, GoTo
<1>7. FreshJobs'
    BY DEF JobsInv, TypeOK, JobsOK, JobRecords, TasksOK, Tasks, CallsOK, Calls, CountersOK,
      FreshJobs, InMap, Busy, Absent, RunningStates, DoneStates, AnalysisCheck, GoTo
<1> QED
  BY <1>1, <1>2, <1>3, <1>4, <1>5, <1>6, <1>7 DEF JobsInv, TypeOK

(* A job that is promoted has no task, and gets one. *)
LEMMA PromoteAnalysisInv ==
  ASSUME JobsInv, NEW c \in Callers, PromoteAnalysis(c)
  PROVE  JobsInv'
<1> USE JobsAssumption DEF JobIds
<1>a. AtRest \in Calls /\ AtRest.pc = "idle"
  BY CallType DEF JobsInv
<1>b. call[c].job \in JobIds /\ call' = [call EXCEPT ![c] = AtRest]
  BY DEF JobsInv, TypeOK, CallsOK, Calls, CountersOK, FreshJobs, PromoteAnalysis, Promote, Return
<1>c. UNCHANGED <<issued, ttl, projects, opened, closed>>
  BY DEF PromoteAnalysis, Promote
<1>1. CountersOK' /\ ProjectsOK' /\ CallsOK'
  BY <1>a, <1>b, <1>c, CallUpdate DEF JobsInv, TypeOK, CountersOK, ProjectsOK
<1>2. CASE jobs[call[c].job].state \in {"catalog", "sketch"}
  <2> DEFINE k == call[c].job
  <2>1. /\ k \in JobIds /\ k <= issued
        /\ jobs[k].state \notin RunningStates \cup {"absent"}
        /\ jobs[k].path \in Paths
    BY <1>b, <1>2 DEF InMap, RunningStates, JobsInv, TypeOK, JobsOK, JobRecords, Absent, FreshJobs
  <2>2. jobs' = [jobs EXCEPT ![k].state = "promoted"]
    BY <1>2 DEF PromoteAnalysis, Promote
  <2>3. PICK w \in Tasks : w.job = k /\ tasks' = tasks \cup {w}
    BY <1>2, <2>1, TaskType DEF PromoteAnalysis, Promote, JobKinds
  <2> HIDE DEF k
  <2>4. k \notin Busy
    BY <2>1 DEF JobsInv, OneTaskPerJob, InMap, Running
  <2>5. /\ \A j \in JobIds : j # k => jobs'[j] = jobs[j]
        /\ jobs'[k].state = "promoted"
        /\ Busy' = Busy \cup {k}
    BY <2>1, <2>2, <2>3 DEF JobsInv, TypeOK, JobsOK, JobRecords, Absent, Busy
  <2>6. JobsOK'
    <3>1. Targets' = Targets /\ 0 \in Targets
      BY <1>c DEF Targets, JobsInv, TypeOK, ProjectsOK
    <3> QED
      BY <2>1, <2>2, <3>1, JobUpdate DEF JobsInv, TypeOK, JobsOK, JobRecords, RunningStates, InMap
  <2>7. TasksOK'
    BY <1>c, <2>3 DEF JobsInv, TypeOK, TasksOK, Tasks, Targets
  <2>8. OneTaskPerJob'
    <3>1. \A j \in JobIds : jobs'[j].state # "absent" => (jobs'[j].state \in RunningStates <=> j \in Busy')
      BY <2>1, <2>5 DEF JobsInv, OneTaskPerJob, InMap, Running, RunningStates
    <3>2. \A t, u \in tasks' : t.job = u.job => t = u
      BY <2>3, <2>4 DEF JobsInv, OneTaskPerJob, Busy
    <3> QED
      BY <3>1, <3>2 DEF OneTaskPerJob, InMap, Running
  <2>9. FreshJobs'
    BY <1>a, <1>b, <1>c, <2>1, <2>5
    DEF JobsInv, TypeOK, CallsOK, Calls, CountersOK, FreshJobs, InMap
  <2> QED
    BY <1>1, <2>6, <2>7, <2>8, <2>9 DEF JobsInv, TypeOK
<1>3. CASE jobs[call[c].job].state \notin {"catalog", "sketch"}
  <2>1. UNCHANGED <<jobs, tasks>>
    BY <1>3 DEF PromoteAnalysis, Promote
  <2>2. OneTaskPerJob' /\ JobsOK' /\ TasksOK'
    BY <1>c, <2>1 DEF JobsInv, TypeOK, JobsOK, JobRecords, TasksOK, Tasks, Targets, OneTaskPerJob,
                      InMap, Running, Busy
  <2>3. FreshJobs'
    BY <1>a, <1>b, <1>c, <2>1 DEF JobsInv, TypeOK, CallsOK, FreshJobs, InMap, Busy
  <2> QED
    BY <1>1, <2>2, <2>3 DEF JobsInv, TypeOK
<1> QED
  BY <1>2, <1>3

(* The same for the promotion to a sketch. *)
LEMMA PromoteSketchInv ==
  ASSUME JobsInv, NEW c \in Callers, PromoteSketch(c)
  PROVE  JobsInv'
<1> USE JobsAssumption DEF JobIds
<1>a. AtRest \in Calls /\ AtRest.pc = "idle"
  BY CallType DEF JobsInv
<1>b. call[c].job \in JobIds /\ call' = [call EXCEPT ![c] = AtRest]
  BY DEF JobsInv, TypeOK, CallsOK, Calls, CountersOK, FreshJobs, PromoteSketch, Promote, Return
<1>c. UNCHANGED <<issued, ttl, projects, opened, closed>>
  BY DEF PromoteSketch, Promote
<1>1. CountersOK' /\ ProjectsOK' /\ CallsOK'
  BY <1>a, <1>b, <1>c, CallUpdate DEF JobsInv, TypeOK, CountersOK, ProjectsOK
<1>2. CASE jobs[call[c].job].state \in {"catalog"}
  <2> DEFINE k == call[c].job
  <2>1. /\ k \in JobIds /\ k <= issued
        /\ jobs[k].state \notin RunningStates \cup {"absent"}
        /\ jobs[k].path \in Paths
    BY <1>b, <1>2 DEF InMap, RunningStates, JobsInv, TypeOK, JobsOK, JobRecords, Absent, FreshJobs
  <2>2. jobs' = [jobs EXCEPT ![k].state = "sketching"]
    BY <1>2 DEF PromoteSketch, Promote
  <2>3. PICK w \in Tasks : w.job = k /\ tasks' = tasks \cup {w}
    BY <1>2, <2>1, TaskType DEF PromoteSketch, Promote, JobKinds
  <2> HIDE DEF k
  <2>4. k \notin Busy
    BY <2>1 DEF JobsInv, OneTaskPerJob, InMap, Running
  <2>5. /\ \A j \in JobIds : j # k => jobs'[j] = jobs[j]
        /\ jobs'[k].state = "sketching"
        /\ Busy' = Busy \cup {k}
    BY <2>1, <2>2, <2>3 DEF JobsInv, TypeOK, JobsOK, JobRecords, Absent, Busy
  <2>6. JobsOK'
    <3>1. Targets' = Targets /\ 0 \in Targets
      BY <1>c DEF Targets, JobsInv, TypeOK, ProjectsOK
    <3> QED
      BY <2>1, <2>2, <3>1, JobUpdate DEF JobsInv, TypeOK, JobsOK, JobRecords, RunningStates, InMap
  <2>7. TasksOK'
    BY <1>c, <2>3 DEF JobsInv, TypeOK, TasksOK, Tasks, Targets
  <2>8. OneTaskPerJob'
    <3>1. \A j \in JobIds : jobs'[j].state # "absent" => (jobs'[j].state \in RunningStates <=> j \in Busy')
      BY <2>1, <2>5 DEF JobsInv, OneTaskPerJob, InMap, Running, RunningStates
    <3>2. \A t, u \in tasks' : t.job = u.job => t = u
      BY <2>3, <2>4 DEF JobsInv, OneTaskPerJob, Busy
    <3> QED
      BY <3>1, <3>2 DEF OneTaskPerJob, InMap, Running
  <2>9. FreshJobs'
    BY <1>a, <1>b, <1>c, <2>1, <2>5
    DEF JobsInv, TypeOK, CallsOK, Calls, CountersOK, FreshJobs, InMap
  <2> QED
    BY <1>1, <2>6, <2>7, <2>8, <2>9 DEF JobsInv, TypeOK
<1>3. CASE jobs[call[c].job].state \notin {"catalog"}
  <2>1. UNCHANGED <<jobs, tasks>>
    BY <1>3 DEF PromoteSketch, Promote
  <2>2. OneTaskPerJob' /\ JobsOK' /\ TasksOK'
    BY <1>c, <2>1 DEF JobsInv, TypeOK, JobsOK, JobRecords, TasksOK, Tasks, Targets, OneTaskPerJob,
                      InMap, Running, Busy
  <2>3. FreshJobs'
    BY <1>a, <1>b, <1>c, <2>1 DEF JobsInv, TypeOK, CallsOK, FreshJobs, InMap, Busy
  <2> QED
    BY <1>1, <2>2, <2>3 DEF JobsInv, TypeOK
<1> QED
  BY <1>2, <1>3

(* A closed job leaves the map; its task goes on without it. *)
LEMMA CloseJobInv ==
  ASSUME JobsInv, NEW c \in Callers, NEW j \in JobIds, CloseJob(c, j)
  PROVE  JobsInv'
<1> USE JobsAssumption DEF JobIds
<1> DEFINE r == [AtRest EXCEPT !.pc = "release", !.job = j, !.target = jobs[j].target]
<1>a. r \in Calls /\ r.pc = "release" /\ call' = [call EXCEPT ![c] = r]
  <2>1. j \in 0..issued /\ jobs[j].target \in Targets
    BY DEF JobsInv, TypeOK, CountersOK, FreshJobs, InMap, JobsOK, JobRecords, Absent, CloseJob
  <2> QED
    BY <2>1, CallType DEF JobsInv, CloseJob, AtRest
<1> HIDE DEF r
<1>1. CountersOK'
    BY DEF JobsInv, TypeOK, CountersOK, CloseJob, Idle
<1>2. JobsOK'
    BY DEF JobsInv, TypeOK, JobsOK, CallsOK, Calls, CountersOK, JobRecords, Targets, Absent,
      RunningStates, DoneStates, CloseJob, Idle
<1>3. TasksOK'
    BY DEF JobsInv, TypeOK, TasksOK, Tasks, Targets, CloseJob, Idle
<1>4. CallsOK'
  BY <1>a, CallUpdate DEF JobsInv, TypeOK, CloseJob
<1>5. ProjectsOK'
    BY DEF JobsInv, TypeOK, ProjectsOK, TasksOK, Tasks, CloseJob, Idle
<1>6. OneTaskPerJob'
    BY DEF JobsInv, TypeOK, JobsOK, JobRecords, TasksOK, Tasks, CallsOK, Calls, CountersOK,
      FreshJobs, OneTaskPerJob, InMap, Running, Busy, Absent, RunningStates, DoneStates,
      CloseJob, Idle
<1>7. FreshJobs'
  BY <1>a DEF JobsInv, TypeOK, JobsOK, CallsOK, FreshJobs, InMap, Busy, Absent, CloseJob
<1> QED
  BY <1>1, <1>2, <1>3, <1>4, <1>5, <1>6, <1>7 DEF JobsInv, TypeOK

(* Closing by the id of a project is closing the job that made it ready, or none. *)
LEMMA CloseTargetInv ==
  ASSUME JobsInv, NEW c \in Callers, NEW p \in 1..Len(opened), CloseTarget(c, p)
  PROVE  JobsInv'
<1> DEFINE r == [AtRest EXCEPT !.pc = "release", !.target = p]
<1>1. CASE \E j \in MadeReady(p) : CloseJob(c, j)
  BY <1>1, CloseJobInv DEF MadeReady
<1>2. CASE /\ call' = [call EXCEPT ![c] = r]
           /\ UNCHANGED <<jobs, issued, ttl, tasks, projects, opened, closed>>
  <2>1. r \in Calls /\ r.pc = "release"
    <3>1. p \in Targets
      BY DEF JobsInv, TypeOK, ProjectsOK, Targets
    <3> QED
      BY <3>1, CallType DEF JobsInv, AtRest
  <2> HIDE DEF r
  <2>2. CallsOK'
    BY <1>2, <2>1, CallUpdate DEF JobsInv, TypeOK
  <2>3. FreshJobs'
    BY <1>2, <2>1 DEF JobsInv, TypeOK, CallsOK, FreshJobs, InMap, Busy
  <2> QED
    BY <1>2, <2>2, <2>3 DEF JobsInv, TypeOK, CountersOK, JobsOK, JobRecords, TasksOK, Tasks, Targets,
       ProjectsOK, OneTaskPerJob, InMap, Running, Busy
<1> QED
  BY <1>1, <1>2 DEF CloseTarget

(* The project is released. *)
LEMMA ReleaseInv ==
  ASSUME JobsInv, NEW c \in Callers, Release(c)
  PROVE  JobsInv'
<1> USE JobsAssumption DEF JobIds
<1>1. CountersOK'
    BY DEF JobsInv, TypeOK, CountersOK, Release, AtRest
<1>2. JobsOK'
    BY DEF JobsInv, TypeOK, JobsOK, CallsOK, Calls, CountersOK, JobRecords, Targets, Absent,
      RunningStates, DoneStates, Release, AtRest
<1>3. TasksOK'
    BY DEF JobsInv, TypeOK, TasksOK, Tasks, Targets, Release, AtRest
<1>4. CallsOK'
    BY DEF JobsInv, TypeOK, CallsOK, Calls, CallStates, CountersOK, Targets, Release, AtRest
<1>5. ProjectsOK'
    BY DEF JobsInv, TypeOK, ProjectsOK, TasksOK, Tasks, Release, AtRest
<1>6. OneTaskPerJob'
    BY DEF JobsInv, TypeOK, JobsOK, JobRecords, TasksOK, Tasks, CallsOK, Calls, CountersOK,
      FreshJobs, OneTaskPerJob, InMap, Running, Busy, Absent, RunningStates, DoneStates,
      Release, AtRest
<1>7. FreshJobs'
    BY DEF JobsInv, TypeOK, JobsOK, JobRecords, TasksOK, Tasks, CallsOK, Calls, CountersOK,
      FreshJobs, InMap, Busy, Absent, RunningStates, DoneStates, Release, AtRest
<1> QED
  BY <1>1, <1>2, <1>3, <1>4, <1>5, <1>6, <1>7 DEF JobsInv, TypeOK

(* A task that ends takes its job out of the running states. *)
LEMMA SettleInv ==
  ASSUME JobsInv, NEW t \in tasks, NEW s \in DoneStates, NEW g \in Targets, Settle(t, s, g)
  PROVE  JobsInv'
<1> USE JobsAssumption DEF JobIds
<1>a. t.job \in JobIds
  BY DEF JobsInv, TypeOK, TasksOK, Tasks
<1>b. /\ tasks' = tasks \ {t}
      /\ UNCHANGED <<issued, ttl, call, projects, opened, closed>>
  BY DEF Settle
<1>c. /\ \A j \in JobIds : j # t.job => jobs'[j] = jobs[j]
      /\ jobs[t.job].state = "absent" => jobs'[t.job].state = "absent"
      /\ jobs[t.job].state # "absent" => jobs'[t.job].state = s
  BY <1>a DEF Settle, JobsInv, TypeOK, JobsOK, JobRecords, InMap, Absent
<1>d. Busy' = Busy \ {t.job}
  BY <1>b DEF JobsInv, OneTaskPerJob, Busy
<1>1. JobsOK'
  <2>1. CASE InMap(t.job)
    BY <1>a, <1>b, <2>1, JobUpdate DEF JobsInv, TypeOK, JobsOK, JobRecords, Targets, Settle
  <2>2. CASE ~InMap(t.job)
    BY <1>b, <2>2 DEF JobsInv, TypeOK, JobsOK, JobRecords, Targets, Settle
  <2> QED
    BY <2>1, <2>2
<1>2. OneTaskPerJob'
  <2>1. \A j \in JobIds :
          jobs'[j].state # "absent" => (jobs'[j].state \in RunningStates <=> j \in Busy')
    BY <1>c, <1>d DEF JobsInv, OneTaskPerJob, InMap, Running, RunningStates, DoneStates
  <2> QED
    BY <1>b, <2>1 DEF JobsInv, OneTaskPerJob, InMap, Running
<1>3. FreshJobs'
  BY <1>a, <1>b, <1>c, <1>d DEF JobsInv, TypeOK, CallsOK, Calls, CountersOK, FreshJobs, InMap
<1> QED
  BY <1>b, <1>1, <1>2, <1>3 DEF JobsInv, TypeOK, CountersOK, TasksOK, Tasks, Targets, CallsOK, Calls,
     ProjectsOK

(* The task finds an open project or starts to build one. *)
LEMMA AnalysisLookupInv ==
  ASSUME JobsInv, NEW t \in tasks, AnalysisLookup(t)
  PROVE  JobsInv'
<1> USE JobsAssumption DEF JobIds
<1>a. t \in Tasks /\ t.job \in JobIds /\ t.file \in Files
  BY DEF JobsInv, TypeOK, TasksOK, Tasks
<1>b. PICK s \in {"start", "building", "opened"}, g \in Targets' : Advance(t, s, g)
  BY DEF AnalysisLookup, Targets, JobsInv, TypeOK, ProjectsOK
<1>c. UNCHANGED <<jobs, issued, ttl, call, projects, opened, closed>>
  BY DEF AnalysisLookup
<1>d. Busy' = Busy
  BY <1>b, AdvanceTask DEF JobsInv, TypeOK
<1>1. TasksOK'
  BY <1>a, <1>b, <1>c DEF JobsInv, TypeOK, TasksOK, Tasks, Targets, Advance
<1>2. OneTaskPerJob'
  <2>1. \A u, v \in tasks' : u.job = v.job => u = v
    BY <1>b, AdvanceTask DEF JobsInv, TypeOK, OneTaskPerJob
  <2> QED
    BY <1>c, <1>d, <2>1 DEF JobsInv, OneTaskPerJob, InMap, Running
<1>3. FreshJobs'
  BY <1>c, <1>d DEF JobsInv, TypeOK, CallsOK, Calls, CountersOK, FreshJobs, InMap
<1>4. JobsOK' /\ CallsOK' /\ CountersOK'
  BY <1>c DEF JobsInv, TypeOK, JobsOK, JobRecords, CallsOK, Calls, CountersOK, Targets
<1>5. ProjectsOK'
  BY <1>a, <1>c DEF JobsInv, TypeOK, ProjectsOK
<1> QED
  BY <1>1, <1>2, <1>3, <1>4, <1>5 DEF JobsInv, TypeOK

(* The task inserts the project it has built. *)
LEMMA AnalysisInsertInv ==
  ASSUME JobsInv, NEW t \in tasks, AnalysisInsert(t)
  PROVE  JobsInv'
<1> USE JobsAssumption DEF JobIds
<1>a. t \in Tasks /\ t.job \in JobIds /\ t.file \in Files
  BY DEF JobsInv, TypeOK, TasksOK, Tasks
<1>b. PICK s \in {"start", "building", "opened"}, g \in Targets' : Advance(t, s, g)
  BY <1>a DEF AnalysisInsert, Targets, JobsInv, TypeOK, ProjectsOK
<1>c. /\ UNCHANGED <<jobs, issued, ttl, call, closed>>
      /\ opened' = Append(opened, [file |-> t.file, job |-> t.job])
      /\ Len(opened') = Len(opened) + 1
      /\ Len(opened) \in Nat
      /\ projects' = projects \cup {Len(opened) + 1}
  BY <1>a DEF AnalysisInsert, JobsInv, TypeOK, ProjectsOK
<1>d. Busy' = Busy
  BY <1>b, AdvanceTask DEF JobsInv, TypeOK
<1>1. TasksOK'
  <2>1. Targets \subseteq Targets'
    BY <1>c DEF Targets
  <2>2. [t EXCEPT !.step = s, !.target = g] \in Tasks'
    BY <1>a, <1>b DEF Tasks
  <2>3. tasks \subseteq Tasks'
    BY <2>1 DEF JobsInv, TypeOK, TasksOK, Tasks
  <2> QED
    BY <1>b, <2>2, <2>3 DEF TasksOK, Advance
<1>2. OneTaskPerJob'
  <2>1. \A u, v \in tasks' : u.job = v.job => u = v
    BY <1>b, AdvanceTask DEF JobsInv, TypeOK, OneTaskPerJob
  <2> QED
    BY <1>c, <1>d, <2>1 DEF JobsInv, OneTaskPerJob, InMap, Running
<1>3. FreshJobs'
  BY <1>c, <1>d DEF JobsInv, TypeOK, CallsOK, Calls, CountersOK, FreshJobs, InMap
<1>4. JobsOK' /\ CallsOK' /\ CountersOK'
  BY <1>c DEF JobsInv, TypeOK, JobsOK, JobRecords, CallsOK, Calls, CountersOK, Targets
<1>5. ProjectsOK'
  <2>1. opened' \in Seq([file : Files, job : JobIds])
    BY <1>a, <1>c DEF JobsInv, TypeOK, ProjectsOK
  <2>2. projects' \subseteq 1..Len(opened')
    <3>1. projects \subseteq 1..Len(opened)
      BY DEF JobsInv, TypeOK, ProjectsOK
    <3>2. 1..Len(opened) \subseteq 1..Len(opened') /\ Len(opened) + 1 \in 1..Len(opened')
      BY <1>c
    <3> QED
      BY <1>c, <3>1, <3>2
  <2> QED
    BY <1>c, <2>1, <2>2 DEF JobsInv, TypeOK, ProjectsOK
<1> QED
  BY <1>1, <1>2, <1>3, <1>4, <1>5 DEF JobsInv, TypeOK

(* A progress report comes from the one task of a running job. *)
LEMMA AnalysisProgressInv ==
  ASSUME JobsInv, NEW t \in tasks, AnalysisProgress(t)
  PROVE  JobsInv'
<1> USE JobsAssumption DEF JobIds
<1>a. t.job \in JobIds /\ InMap(t.job)
  BY DEF JobsInv, TypeOK, TasksOK, Tasks, AnalysisProgress
<1>1. CountersOK'
    BY DEF JobsInv, TypeOK, CountersOK, AnalysisProgress, At
<1>2. JobsOK'
  <2>1. Targets' = Targets /\ 0 \in Targets
    BY DEF Targets, JobsInv, TypeOK, ProjectsOK, AnalysisProgress
  <2> QED
    BY <1>a, <2>1, JobUpdate DEF JobsInv, TypeOK, JobsOK, JobRecords, RunningStates, AnalysisProgress
<1>3. TasksOK'
    BY DEF JobsInv, TypeOK, TasksOK, Tasks, Targets, AnalysisProgress, At
<1>4. CallsOK'
    BY DEF JobsInv, TypeOK, CallsOK, Calls, CallStates, CountersOK, Targets,
      AnalysisProgress, At
<1>5. ProjectsOK'
    BY DEF JobsInv, TypeOK, ProjectsOK, TasksOK, Tasks, AnalysisProgress, At
<1>6. OneTaskPerJob'
    BY DEF JobsInv, TypeOK, JobsOK, JobRecords, TasksOK, Tasks, CallsOK, Calls, CountersOK,
      FreshJobs, OneTaskPerJob, InMap, Running, Busy, Absent, RunningStates, DoneStates,
      AnalysisProgress, At
<1>7. FreshJobs'
    BY DEF JobsInv, TypeOK, JobsOK, JobRecords, TasksOK, Tasks, CallsOK, Calls, CountersOK,
      FreshJobs, InMap, Busy, Absent, RunningStates, DoneStates, AnalysisProgress, At
<1> QED
  BY <1>1, <1>2, <1>3, <1>4, <1>5, <1>6, <1>7 DEF JobsInv, TypeOK

(* The three ways in which a task ends. *)
LEMMA TaskEnds ==
  ASSUME JobsInv, NEW t \in tasks, CatalogDone(t) \/ SketchDone(t) \/ AnalysisDone(t)
  PROVE  \E s \in DoneStates, g \in Targets : Settle(t, s, g)
<1>1. 0 \in Targets /\ t.target \in Targets
  BY DEF JobsInv, TypeOK, ProjectsOK, TasksOK, Tasks, Targets
<1> QED
  BY <1>1 DEF CatalogDone, SketchDone, AnalysisDone, DoneStates

(* The invariant is inductive. *)
LEMMA NextInv == JobsInv /\ [Next]_vars => JobsInv'
<1> SUFFICES ASSUME JobsInv, [Next]_vars
             PROVE  JobsInv'
  OBVIOUS
<1>1. CASE \E c \in Callers : CallStep(c)
  <2>1. PICK c \in Callers : CallStep(c)
    BY <1>1
  <2> QED
    BY <2>1, StartLookupInv, CreateJobInv, InsertJobInv, PollCatalogInv, PollSketchInv,
       RecheckBoundedInv, AnalysisCheckInv, PromoteAnalysisInv, PromoteSketchInv, CloseJobInv,
       CloseTargetInv, ReleaseInv
    DEF CallStep
<1>2. CASE \E t \in tasks : TaskStep(t) \/ AnalysisProgress(t)
  <2>1. PICK t \in tasks : TaskStep(t) \/ AnalysisProgress(t)
    BY <1>2
  <2> QED
    BY <2>1, TaskEnds, SettleInv, AnalysisLookupInv, AnalysisInsertInv, AnalysisProgressInv
    DEF TaskStep
<1>3. CASE StatusResult \/ TimePasses
  BY <1>3, StatusResultInv, TimePassesInv
<1>4. CASE UNCHANGED vars
  BY <1>4
  DEF vars, JobsInv, TypeOK, CountersOK, JobsOK, JobRecords, TasksOK, Tasks, CallsOK, Calls,
      Targets, ProjectsOK, OneTaskPerJob, FreshJobs, InMap, Running, Busy
<1> QED
  BY <1>1, <1>2, <1>3, <1>4 DEF Next

(* The maps, tasks and calls keep their types, for any number of callers   *)
(* and jobs.                                                               *)
THEOREM JobsType == Spec => []TypeOK
<1>1. JobsInv => TypeOK
  BY DEF JobsInv
<1> QED
  BY <1>1, InitInv, NextInv, PTL DEF Spec

(* start_open_job, the promotions, the tasks and target_close together     *)
(* keep one task per running job and none for the others, whatever the     *)
(* order in which the calls take the locks.                                *)
THEOREM JobTasks == Spec => [](OneTaskPerJob /\ FreshJobs)
<1>1. JobsInv => OneTaskPerJob /\ FreshJobs
  BY DEF JobsInv
<1> QED
  BY <1>1, InitInv, NextInv, PTL DEF Spec

JobStep(j) ==
  /\ jobs[j].state \in {"ready", "failed"} => jobs'[j] \in {jobs[j], Absent}
  /\ Running(j) /\ jobs'[j] = Absent => j \in closed'

(* A step of the system changes a ready or failed job only by removing it, *)
(* and removes a running job only in a close.                              *)
LEMMA JobStepHolds ==
  ASSUME JobsInv, [Next]_vars, NEW j \in JobIds
  PROVE  JobStep(j)
<1>1. CASE jobs'[j] = jobs[j]
  BY <1>1 DEF JobStep, Running, RunningStates, Absent
<1>2. ASSUME NEW c \in Callers, CallStep(c), jobs'[j] # jobs[j] PROVE JobStep(j)
  <2>1. CASE \E p \in Paths : StartLookup(c, p)
    BY <1>2, <2>1 DEF StartLookup, Pruned, JobStep
  <2>2. CASE InsertJob(c)
    <3>1. call[c].job \in JobIds /\ jobs[call[c].job].state = "absent"
      BY <2>2, JobsAssumption
      DEF InsertJob, JobsInv, TypeOK, CallsOK, Calls, CountersOK, FreshJobs, InMap, JobIds
    <3> QED
      BY <1>2, <2>2, <3>1 DEF InsertJob, Evicted, Evictable, JobStep, Running, RunningStates
  <2>3. CASE PromoteAnalysis(c) \/ PromoteSketch(c)
    <3>1. /\ jobs[j].state \in {"catalog", "sketch"}
          /\ jobs'[j].state # "absent"
      BY <1>2, <2>3
      DEF PromoteAnalysis, PromoteSketch, Promote, JobsInv, TypeOK, JobsOK, JobRecords, Absent
    <3> QED
      BY <3>1 DEF JobStep, Running, RunningStates
  <2>4. CASE \E i \in JobIds : CloseJob(c, i)
    BY <1>2, <2>4 DEF CloseJob, JobStep, JobsInv, TypeOK, JobsOK
  <2>5. CASE \E p \in 1..Len(opened) : CloseTarget(c, p)
    BY <1>2, <2>5 DEF CloseTarget, MadeReady, CloseJob, JobStep, JobsInv, TypeOK, JobsOK
  <2> QED
    BY <1>2, <2>1, <2>2, <2>3, <2>4, <2>5
    DEF CallStep, CreateJob, PollCatalog, PollSketch, RecheckBounded, AnalysisCheck, Release
<1>3. ASSUME NEW t \in tasks, TaskStep(t) \/ AnalysisProgress(t), jobs'[j] # jobs[j]
      PROVE  JobStep(j)
  <2>1. j = t.job /\ InMap(j) /\ jobs'[j].state # "absent"
    <3>1. CASE AnalysisProgress(t)
      BY <1>3, <3>1 DEF AnalysisProgress, JobsInv, TypeOK, JobsOK, JobRecords, Absent, InMap
    <3>2. CASE CatalogDone(t) \/ SketchDone(t) \/ AnalysisDone(t)
      <4>1. PICK s \in DoneStates, g \in Targets : Settle(t, s, g)
        BY <3>2, TaskEnds
      <4> QED
        BY <1>3, <4>1
        DEF Settle, JobsInv, TypeOK, JobsOK, JobRecords, Absent, InMap, DoneStates
    <3> QED
      BY <1>3, <3>1, <3>2 DEF TaskStep, AnalysisLookup, AnalysisInsert
  <2>2. jobs[j].state \in RunningStates
    BY <2>1 DEF JobsInv, OneTaskPerJob, Busy, InMap, Running
  <2> QED
    BY <2>1, <2>2 DEF JobStep, RunningStates, Absent
<1>4. CASE StatusResult \/ TimePasses
  BY <1>4 DEF StatusResult, Pruned, TimePasses, JobStep, Running, RunningStates, Absent
<1>5. CASE UNCHANGED vars
  BY <1>1, <1>5 DEF vars
<1> QED
  BY <1>1, <1>2, <1>3, <1>4, <1>5 DEF Next

(* What a client was told about a ready or failed job stays true while the *)
(* job exists, and only target_close ends a running job.                   *)
THEOREM JobProgress == Spec => JobStatesAdvance
<1>1. JobsInv /\ [Next]_vars => [\A j \in JobIds : JobStep(j)]_vars
  BY JobStepHolds
<1>2. (\A j \in JobIds : JobStep(j)) <=>
      (\A j \in JobIds :
         /\ jobs[j].state \in {"ready", "failed"} => jobs'[j] \in {jobs[j], Absent}
         /\ Running(j) /\ jobs'[j] = Absent => j \in closed')
  BY DEF JobStep
<1> QED
  BY <1>1, <1>2, InitInv, NextInv, PTL DEF Spec, JobStatesAdvance

----------------------------------------------------------------------------
(* The file a job hands out.                                               *)

(* A task works on the file of its job, as long as the job is in the map,  *)
(* and once it has a project, that project is on this file.                *)
TaskOnFile(t) ==
  /\ InMap(t.job) => t.file = FileOf[jobs[t.job].path]
  /\ t.step = "opened" => t.target \in 1..Len(opened) /\ opened[t.target].file = t.file

FilesInv == (\A t \in tasks : TaskOnFile(t)) /\ ReadyOnItsFile

(* No step that only takes jobs out of the map can disturb this. *)
LEMMA FilesFrame ==
  ASSUME JobsInv, FilesInv, \A j \in JobIds : jobs'[j] \in {jobs[j], Absent},
         UNCHANGED <<tasks, opened>>
  PROVE  FilesInv'
<1>1. \A t \in tasks : t.job \in JobIds
  BY DEF JobsInv, TypeOK, TasksOK, Tasks
<1>2. (\A t \in tasks : TaskOnFile(t))'
  BY <1>1 DEF FilesInv, TaskOnFile, InMap, Absent
<1>3. ReadyOnItsFile'
  BY DEF FilesInv, ReadyOnItsFile, Absent
<1> QED
  BY <1>2, <1>3 DEF FilesInv

(* The inserted job has a task on its own file, and no older one. *)
LEMMA InsertJobFiles ==
  ASSUME JobsInv, FilesInv, NEW c \in Callers, InsertJob(c)
  PROVE  FilesInv'
<1> DEFINE i == call[c].job
           w == Task(i, call[c].path, "catalog")
<1>1. i \in JobIds /\ i \notin Busy
  BY JobsAssumption DEF JobsInv, TypeOK, CallsOK, Calls, CountersOK, FreshJobs, InsertJob, JobIds
<1>2. /\ tasks' = tasks \cup {w}
      /\ opened' = opened
      /\ jobs'[i].path = call[c].path /\ jobs'[i].state = "queued"
      /\ \A j \in JobIds : j # i => jobs'[j] \in {jobs[j], Absent}
  BY <1>1 DEF InsertJob
<1>3. w.job = i /\ w.file = FileOf[call[c].path] /\ w.step = "start"
  BY DEF Task
<1>4. \A t \in tasks : t.job \in JobIds /\ t.job # i
  BY <1>1 DEF JobsInv, TypeOK, TasksOK, Tasks, Busy
<1> HIDE DEF i, w
<1>5. (\A t \in tasks : TaskOnFile(t))'
  <2>1. \A t \in tasks : TaskOnFile(t)'
    BY <1>2, <1>4 DEF FilesInv, TaskOnFile, InMap, Absent
  <2>2. /\ jobs'[w.job].state # "absent" => w.file = FileOf[jobs'[w.job].path]
        /\ w.step # "opened"
    BY <1>2, <1>3
  <2> QED
    BY <1>2, <2>1, <2>2 DEF TaskOnFile, InMap
<1>6. ReadyOnItsFile'
  BY <1>2 DEF FilesInv, ReadyOnItsFile, Absent
<1> QED
  BY <1>5, <1>6 DEF FilesInv

(* A promoted job keeps its path, and its new task works on that file. *)
LEMMA PromoteFiles ==
  ASSUME JobsInv, FilesInv, NEW c \in Callers, call[c].job # 0,
         NEW from, from \subseteq {"catalog", "sketch"},
         NEW state \in RunningStates, NEW kind \in JobKinds,
         Promote(c, from, state, kind)
  PROVE  FilesInv'
<1> DEFINE i == call[c].job
           w == Task(i, jobs[i].path, kind)
<1>0. i \in JobIds /\ opened' = opened
  BY JobsAssumption DEF JobsInv, TypeOK, CallsOK, Calls, CountersOK, JobIds, Promote
<1>1. CASE jobs[i].state \in from
  <2>1. /\ tasks' = tasks \cup {w}
        /\ jobs' = [jobs EXCEPT ![i].state = state]
    BY <1>1 DEF Promote
  <2>2. jobs'[i].path = jobs[i].path /\ jobs'[i].state = state
    <3>1. jobs[i] \in [path : Paths, state : RunningStates \cup DoneStates, target : Targets]
      BY <1>0, <1>1 DEF JobsInv, TypeOK, JobsOK, JobRecords, Absent
    <3>2. jobs \in [JobIds -> JobRecords]
      BY DEF JobsInv, TypeOK, JobsOK
    <3> QED
      BY <1>0, <2>1, <3>1, <3>2
  <2>3. \A j \in JobIds : j # i => jobs'[j] = jobs[j]
    BY <2>1 DEF JobsInv, TypeOK, JobsOK
  <2>4. w.job = i /\ w.file = FileOf[jobs[i].path] /\ w.step = "start"
    BY DEF Task
  <2>5. \A t \in tasks : t.job \in JobIds
    BY DEF JobsInv, TypeOK, TasksOK, Tasks
  <2>6. jobs[i].state # "absent" /\ state # "ready"
    BY <1>1 DEF RunningStates
  <2> HIDE DEF i, w
  <2>7. (\A t \in tasks : TaskOnFile(t))'
    <3>1. \A t \in tasks : TaskOnFile(t)'
      BY <1>0, <2>2, <2>3, <2>5, <2>6 DEF FilesInv, TaskOnFile, InMap
    <3>2. /\ jobs'[w.job].state # "absent" => w.file = FileOf[jobs'[w.job].path]
          /\ w.step # "opened"
      BY <2>2, <2>4
    <3> QED
      BY <2>1, <3>1, <3>2 DEF TaskOnFile, InMap
  <2>8. ReadyOnItsFile'
    BY <1>0, <2>2, <2>3, <2>6 DEF FilesInv, ReadyOnItsFile
  <2> QED
    BY <2>7, <2>8 DEF FilesInv
<1>2. CASE jobs[i].state \notin from
  BY <1>0, <1>2, FilesFrame DEF Promote
<1> QED
  BY <1>1, <1>2

(* A task makes its job ready with the project it found or opened. *)
LEMMA SettleFiles ==
  ASSUME JobsInv, FilesInv, NEW t \in tasks, NEW s \in DoneStates, NEW g \in Targets,
         Settle(t, s, g), s = "ready" => t.step = "opened" /\ g = t.target
  PROVE  FilesInv'
<1>0. t.job \in JobIds /\ opened' = opened /\ tasks' = tasks \ {t}
  BY DEF JobsInv, TypeOK, TasksOK, Tasks, Settle
<1>1. CASE InMap(t.job)
  <2>1. /\ jobs'[t.job].path = jobs[t.job].path
        /\ jobs'[t.job].state = s /\ jobs'[t.job].target = g
    <3>1. jobs[t.job] \in [path : Paths, state : RunningStates \cup DoneStates, target : Targets]
      BY <1>0, <1>1 DEF JobsInv, TypeOK, JobsOK, JobRecords, Absent, InMap
    <3>2. jobs \in [JobIds -> JobRecords]
      BY DEF JobsInv, TypeOK, JobsOK
    <3>3. jobs' = [jobs EXCEPT ![t.job].state = s, ![t.job].target = g]
      BY <1>1 DEF Settle
    <3> QED
      BY <1>0, <3>1, <3>2, <3>3
  <2>2. \A j \in JobIds : j # t.job => jobs'[j] = jobs[j]
    BY <1>1 DEF Settle, JobsInv, TypeOK, JobsOK
  <2>3. \A u \in tasks : u.job \in JobIds
    BY DEF JobsInv, TypeOK, TasksOK, Tasks
  <2>4. (\A u \in tasks : TaskOnFile(u))'
    BY <1>0, <1>1, <2>1, <2>2, <2>3 DEF FilesInv, TaskOnFile, InMap
  <2>5. t.file = FileOf[jobs[t.job].path] /\ TaskOnFile(t)
    BY <1>1 DEF FilesInv, TaskOnFile
  <2>6. ReadyOnItsFile'
    BY <1>0, <2>1, <2>2, <2>5 DEF FilesInv, ReadyOnItsFile, TaskOnFile
  <2> QED
    BY <2>4, <2>6 DEF FilesInv
<1>2. CASE ~InMap(t.job)
  BY <1>0, <1>2 DEF Settle, FilesInv, TaskOnFile, ReadyOnItsFile, InMap
<1> QED
  BY <1>1, <1>2

(* A task that ends makes its job ready only with the project it holds. *)
LEMMA TaskEndsFiles ==
  ASSUME JobsInv, FilesInv, NEW t \in tasks, CatalogDone(t) \/ SketchDone(t) \/ AnalysisDone(t)
  PROVE  FilesInv'
<1>1. 0 \in Targets /\ t.target \in Targets
  BY DEF JobsInv, TypeOK, ProjectsOK, TasksOK, Tasks, Targets
<1>2. \E s \in DoneStates, g \in Targets :
        Settle(t, s, g) /\ (s = "ready" => t.step = "opened" /\ g = t.target)
  BY <1>1 DEF CatalogDone, SketchDone, AnalysisDone, DoneStates, At
<1> QED
  BY <1>2, SettleFiles

(* A task that goes on to a project goes on to one on its own file. *)
LEMMA AdvanceFiles ==
  ASSUME JobsInv, FilesInv, NEW t \in tasks, NEW s \in {"building", "opened"}, NEW g \in Nat,
         Advance(t, s, g), jobs' = jobs,
         \A p \in 1..Len(opened) : p \in 1..Len(opened') /\ opened'[p] = opened[p],
         s = "opened" => g \in 1..Len(opened') /\ opened'[g].file = t.file
  PROVE  FilesInv'
<1> DEFINE w == [t EXCEPT !.step = s, !.target = g]
<1>1. /\ tasks' = (tasks \ {t}) \cup {w}
      /\ w.job = t.job /\ w.file = t.file /\ w.step = s /\ w.target = g
  BY DEF Advance, JobsInv, TypeOK, TasksOK, Tasks
<1> HIDE DEF w
<1>2. \A u \in tasks : TaskOnFile(u)'
  BY DEF FilesInv, TaskOnFile, InMap
<1>3. /\ jobs'[w.job].state # "absent" => w.file = FileOf[jobs'[w.job].path]
      /\ w.step = "opened" => w.target \in 1..Len(opened') /\ opened'[w.target].file = w.file
  BY <1>1 DEF FilesInv, TaskOnFile, InMap
<1>4. (\A u \in tasks : TaskOnFile(u))'
  BY <1>1, <1>2, <1>3 DEF TaskOnFile, InMap
<1>5. ReadyOnItsFile'
  BY DEF FilesInv, ReadyOnItsFile
<1> QED
  BY <1>4, <1>5 DEF FilesInv

(* open_with_progress compares files, so it uses only a project on the     *)
(* task's own file again.                                                  *)
LEMMA AnalysisLookupFiles ==
  ASSUME JobsInv, FilesInv, NEW t \in tasks, AnalysisLookup(t)
  PROVE  FilesInv'
<1>1. projects \subseteq 1..Len(opened) /\ Len(opened) \in Nat
  BY DEF JobsInv, TypeOK, ProjectsOK
<1>2. jobs' = jobs /\ opened' = opened
  BY DEF AnalysisLookup
<1>3. CASE \E p \in projects : opened[p].file = t.file /\ Advance(t, "opened", p)
  <2>1. PICK p \in projects : opened[p].file = t.file /\ Advance(t, "opened", p)
    BY <1>3
  <2>2. p \in Nat /\ p \in 1..Len(opened)
    BY <1>1
  <2> QED
    BY <1>2, <2>1, <2>2, AdvanceFiles
<1>4. CASE Advance(t, "building", 0)
  BY <1>2, <1>4, AdvanceFiles
<1> QED
  BY <1>3, <1>4 DEF AnalysisLookup

(* A new project is on the file of the task that built it. *)
LEMMA AnalysisInsertFiles ==
  ASSUME JobsInv, FilesInv, NEW t \in tasks, AnalysisInsert(t)
  PROVE  FilesInv'
<1> DEFINE r == [file |-> t.file, job |-> t.job]
<1>0. r \in [file : Files, job : JobIds] /\ r.file = t.file
  BY DEF JobsInv, TypeOK, TasksOK, Tasks
<1>1. /\ opened \in Seq([file : Files, job : JobIds]) /\ opened' = Append(opened, r)
      /\ jobs' = jobs /\ Advance(t, "opened", Len(opened) + 1)
  BY DEF AnalysisInsert, JobsInv, TypeOK, ProjectsOK
<1> HIDE DEF r
<1>2. /\ Len(opened) \in Nat /\ Len(opened') = Len(opened) + 1
      /\ opened'[Len(opened) + 1] = r
      /\ \A p \in 1..Len(opened) : opened'[p] = opened[p]
  BY <1>0, <1>1
<1>3. /\ Len(opened) + 1 \in Nat /\ Len(opened) + 1 \in 1..Len(opened')
      /\ \A p \in 1..Len(opened) : p \in 1..Len(opened')
  BY <1>2
<1> QED
  BY <1>0, <1>1, <1>2, <1>3, AdvanceFiles

(* A progress report leaves the path of the job alone. *)
LEMMA AnalysisProgressFiles ==
  ASSUME JobsInv, FilesInv, NEW t \in tasks, AnalysisProgress(t)
  PROVE  FilesInv'
<1>0. t.job \in JobIds /\ opened' = opened /\ tasks' = tasks /\ InMap(t.job)
  BY DEF JobsInv, TypeOK, TasksOK, Tasks, AnalysisProgress
<1>1. jobs'[t.job].path = jobs[t.job].path /\ jobs'[t.job].state = "analysing"
  <2>1. jobs[t.job] \in [path : Paths, state : RunningStates \cup DoneStates, target : Targets]
    BY <1>0 DEF JobsInv, TypeOK, JobsOK, JobRecords, Absent, InMap
  <2>2. jobs \in [JobIds -> JobRecords]
    BY DEF JobsInv, TypeOK, JobsOK
  <2> QED
    BY <1>0, <2>1, <2>2 DEF AnalysisProgress
<1>2. \A j \in JobIds : j # t.job => jobs'[j] = jobs[j]
  BY DEF AnalysisProgress, JobsInv, TypeOK, JobsOK
<1>3. \A u \in tasks : u.job \in JobIds
  BY DEF JobsInv, TypeOK, TasksOK, Tasks
<1>4. (\A u \in tasks : TaskOnFile(u))'
  BY <1>0, <1>1, <1>2, <1>3 DEF FilesInv, TaskOnFile, InMap
<1>5. ReadyOnItsFile'
  BY <1>0, <1>1, <1>2 DEF FilesInv, ReadyOnItsFile
<1> QED
  BY <1>4, <1>5 DEF FilesInv

(* Every step keeps jobs, tasks and projects on their files. *)
LEMMA NextFiles == JobsInv /\ FilesInv /\ [Next]_vars => FilesInv'
<1> SUFFICES ASSUME JobsInv, FilesInv, [Next]_vars
             PROVE  FilesInv'
  OBVIOUS
<1>1. ASSUME NEW c \in Callers, CallStep(c) PROVE FilesInv'
  <2>1. CASE InsertJob(c)
    BY <2>1, InsertJobFiles
  <2>2. CASE PromoteAnalysis(c) \/ PromoteSketch(c)
    <3>1. call[c].job # 0
      BY <2>2 DEF PromoteAnalysis, PromoteSketch, JobsInv, FreshJobs
    <3> QED
      BY <2>2, <3>1, PromoteFiles DEF PromoteAnalysis, PromoteSketch, RunningStates, JobKinds
  <2>3. CASE \E p \in Paths : StartLookup(c, p)
    BY <2>3, FilesFrame DEF StartLookup, Pruned
  <2>4. CASE \E j \in JobIds : CloseJob(c, j)
    BY <2>4, FilesFrame DEF CloseJob, JobsInv, TypeOK, JobsOK
  <2>5. CASE \E p \in 1..Len(opened) : CloseTarget(c, p)
    BY <2>5, FilesFrame DEF CloseTarget, MadeReady, CloseJob, JobsInv, TypeOK, JobsOK
  <2>6. CASE UNCHANGED <<jobs, tasks, opened>>
    BY <2>6, FilesFrame
  <2> QED
    BY <1>1, <2>1, <2>2, <2>3, <2>4, <2>5, <2>6
    DEF CallStep, CreateJob, PollCatalog, PollSketch, RecheckBounded, AnalysisCheck, Release
<1>2. CASE \E t \in tasks : TaskStep(t) \/ AnalysisProgress(t)
  BY <1>2, TaskEndsFiles, AnalysisLookupFiles, AnalysisInsertFiles, AnalysisProgressFiles
  DEF TaskStep
<1>3. CASE StatusResult \/ TimePasses
  BY <1>3, FilesFrame DEF StatusResult, Pruned, TimePasses
<1>4. CASE UNCHANGED vars
  BY <1>4, FilesFrame DEF vars
<1> QED
  BY <1>1, <1>2, <1>3, <1>4 DEF Next

(* A ready job hands out a project that was opened on its own file, for    *)
(* any number of callers, jobs and spellings of a path.                    *)
THEOREM ReadyJobs == Spec => []ReadyOnItsFile
<1>1. Init => FilesInv
  BY DEF Init, FilesInv, ReadyOnItsFile, Absent
<1>2. FilesInv => ReadyOnItsFile
  BY DEF FilesInv
<1> QED
  BY <1>1, <1>2, InitInv, NextInv, NextFiles, PTL DEF Spec

=============================================================================
