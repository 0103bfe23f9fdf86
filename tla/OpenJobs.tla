------------------------------ MODULE OpenJobs ------------------------------
(***************************************************************************)
(* How MCP calls open and close targets (mcp.rs): the map of open jobs,    *)
(* the background tasks that carry a job from catalog to sketch to a full  *)
(* project, and the part of the project map (project_manager.rs) that the  *)
(* analysis task and target_close touch.                                   *)
(*                                                                         *)
(* Calls run concurrently.  Each of the maps has a mutex of its own, so an *)
(* action is what a call or a task does under one lock; a call that takes  *)
(* a lock twice is two actions and may find the job changed or gone.       *)
(*                                                                         *)
(* Jobs are numbered in the order of their `started` clocks.  A path is an *)
(* absolute spelling up to ASCII case; FileOf is what canonicalisation     *)
(* makes of it.                                                            *)
(***************************************************************************)
EXTENDS Integers, Sequences, FiniteSets

CONSTANTS Callers,          \* concurrent MCP calls
          Paths, Files, FileOf,
          BoundedFiles,     \* files for which uses_bounded_pipeline holds
          MAX_OPEN_JOBS,
          MaxJobs,          \* bound: jobs ever created
          NoPath

JobIds == 1..MaxJobs

ASSUME JobsAssumption ==
  /\ FileOf \in [Paths -> Files]
  /\ BoundedFiles \subseteq Files
  /\ MAX_OPEN_JOBS \in Nat
  /\ MaxJobs \in Nat
  /\ NoPath \notin Paths

VARIABLES
  jobs,      \* open_jobs: [path, state, target] per job id, "absent" if not in the map
  issued,    \* number of jobs ever created
  ttl,       \* jobs 1..ttl are older than ARTIFACT_TTL
  tasks,     \* spawned tasks that have not ended
  call,      \* per caller: where its call stands
  projects,  \* the project map: ids of the open projects
  opened,    \* ghost: file and job of every project ever opened
  closed     \* ghost: jobs that a target_close took out of the map

vars == <<jobs, issued, ttl, tasks, call, projects, opened, closed>>

----------------------------------------------------------------------------
(* OpenJobState.  Running carries a stage: waiting for the catalog,        *)
(* building sketches, queued for analysis, reporting analysis stages.      *)
RunningStates == {"queued", "sketching", "promoted", "analysing"}
DoneStates    == {"catalog", "sketch", "ready", "failed"}

Absent == [path |-> NoPath, state |-> "absent", target |-> 0]

InMap(j)   == jobs[j].state # "absent"
Running(j) == jobs[j].state \in RunningStates
Live(m, j) == m[j].state \notin {"absent", "failed"}

(* uses_bounded_pipeline, of the catalog that the job carries. *)
Bounded(j) == FileOf[jobs[j].path] \in BoundedFiles

JobKinds == {"catalog", "sketch", "analysis"}
(* Tells a task from an earlier one of the same job that has not ended. *)
Number(j) == IF \E t \in tasks : t.job = j /\ t.n = 1 THEN 2 ELSE 1

Task(j, path, kind) ==
  [job |-> j, file |-> FileOf[path], kind |-> kind, n |-> Number(j),
   step |-> "start", target |-> 0]

Idle(c) == call[c].pc = "idle"
AtRest  == [pc |-> "idle", path |-> NoPath, job |-> 0, target |-> 0]

Init ==
  /\ jobs = [j \in JobIds |-> Absent]
  /\ issued = 0
  /\ ttl = 0
  /\ tasks = {}
  /\ call = [c \in Callers |-> AtRest]
  /\ projects = {}
  /\ opened = <<>>
  /\ closed = {}

----------------------------------------------------------------------------
(* investigation_start: start_open_job.                                    *)

(* Mutant of Pruned: old jobs are dropped whatever they do. *)
PrunedByAge == [j \in JobIds |-> IF j > ttl THEN jobs[j] ELSE Absent]

(* prune_open_jobs: a running job is kept, whatever its age. *)
Pruned == [j \in JobIds |-> IF Running(j) \/ j > ttl THEN jobs[j] ELSE Absent]

(* The jobs that answer a request for path p. *)
Existing(p) == {j \in JobIds : Live(Pruned, j) /\ Pruned[j].path = p}

(* The first critical section: an existing job is the answer. *)
StartLookup(c, p) ==
  /\ Idle(c)
  /\ jobs' = Pruned
  /\ \/ Existing(p) # {} /\ UNCHANGED call
     \/ /\ Existing(p) = {}
        /\ issued < MaxJobs
        /\ call' = [call EXCEPT ![c] = [AtRest EXCEPT !.pc = "create", !.path = p]]
  /\ UNCHANGED <<issued, ttl, tasks, projects, opened, closed>>

(* Mutant of CreateJob: the job is numbered but not counted. *)
CreateUncounted(c) ==
  /\ call[c].pc = "create"
  /\ issued < MaxJobs
  /\ call' = [call EXCEPT ![c].pc = "insert", ![c].job = issued + 1]
  /\ UNCHANGED <<jobs, issued, ttl, tasks, projects, opened, closed>>

CreateJob(c) ==
  /\ call[c].pc = "create"
  /\ issued < MaxJobs
  /\ issued' = issued + 1
  /\ call' = [call EXCEPT ![c].pc = "insert", ![c].job = issued + 1]
  /\ UNCHANGED <<jobs, ttl, tasks, projects, opened, closed>>

(* A full map loses its oldest job that is not running, if there is one. *)
Evictable == {j \in JobIds : InMap(j) /\ ~Running(j)}
Evicted   == IF Cardinality({j \in JobIds : InMap(j)}) >= MAX_OPEN_JOBS
             THEN {j \in Evictable : \A i \in Evictable : j <= i}
             ELSE {}

(* The second critical section, and the spawn of the catalog task. *)
InsertJob(c) ==
  /\ call[c].pc = "insert"
  /\ jobs' = [j \in JobIds |->
               IF j = call[c].job
               THEN [path |-> call[c].path, state |-> "queued", target |-> 0]
               ELSE IF j \in Evicted THEN Absent ELSE jobs[j]]
  /\ tasks' = tasks \cup {Task(call[c].job, call[c].path, "catalog")}
  /\ call' = [call EXCEPT ![c] = AtRest]
  /\ UNCHANGED <<issued, ttl, projects, opened, closed>>

(* status_result prunes the map as well. *)
StatusResult ==
  /\ jobs' = Pruned
  /\ UNCHANGED <<issued, ttl, tasks, call, projects, opened, closed>>

TimePasses ==
  /\ ttl < issued
  /\ ttl' = ttl + 1
  /\ UNCHANGED <<jobs, issued, tasks, call, projects, opened, closed>>

----------------------------------------------------------------------------
(* investigation_step on a __poll_open ticket: prepare_step clones the job *)
(* and decides on the clone; the promotion looks at the job again.  Every  *)
(* job in the map can be polled, as investigation_start also takes the id  *)
(* of a job; full says whether the intent of the investigation needs a     *)
(* full project (investigation_requires_full_project).                     *)

OnJob(c, j, pc) == call' = [call EXCEPT ![c] = [AtRest EXCEPT !.pc = pc, !.job = j]]
Return(c)       == call' = [call EXCEPT ![c] = AtRest]
GoTo(c, pc)     == call' = [call EXCEPT ![c].pc = pc]

PollCatalog(c, j, full) ==
  /\ Idle(c)
  /\ jobs[j].state = "catalog"
  /\ OnJob(c, j, IF full /\ ~Bounded(j) THEN "analysis_check" ELSE "sketch_set")
  /\ UNCHANGED <<jobs, issued, ttl, tasks, projects, opened, closed>>

(* Only an investigation that needs a full project goes on from a sketch. *)
PollSketch(c, j) ==
  /\ Idle(c)
  /\ jobs[j].state = "sketch"
  /\ OnJob(c, j, "sketch_seen")
  /\ UNCHANGED <<jobs, issued, ttl, tasks, projects, opened, closed>>

(* `bounded` is read from the map again; a job that moved on counts as not *)
(* bounded.                                                                *)
RecheckBounded(c) ==
  /\ call[c].pc = "sketch_seen"
  /\ IF jobs[call[c].job].state = "sketch" /\ Bounded(call[c].job)
     THEN Return(c)
     ELSE GoTo(c, "analysis_check")
  /\ UNCHANGED <<jobs, issued, ttl, tasks, projects, opened, closed>>

(* promote_analysis, first lock. *)
AnalysisCheck(c) ==
  /\ call[c].pc = "analysis_check"
  /\ GoTo(c, IF jobs[call[c].job].state \in {"catalog", "sketch"} /\ Bounded(call[c].job)
             THEN "sketch_set" ELSE "analysis_set")
  /\ UNCHANGED <<jobs, issued, ttl, tasks, projects, opened, closed>>

(* The job is taken over and its next task spawned, if its state still     *)
(* allows it.                                                              *)
Promote(c, from, state, kind) ==
  /\ IF jobs[call[c].job].state \in from
     THEN /\ jobs' = [jobs EXCEPT ![call[c].job].state = state]
          /\ tasks' = tasks \cup {Task(call[c].job, jobs[call[c].job].path, kind)}
     ELSE UNCHANGED <<jobs, tasks>>
  /\ Return(c)
  /\ UNCHANGED <<issued, ttl, projects, opened, closed>>

(* Mutant of PromoteAnalysis: the state is not looked at again. *)
PromoteAnalysisUnchecked(c) ==
  /\ call[c].pc = "analysis_set"
  /\ Promote(c, RunningStates \cup {"catalog", "sketch"}, "promoted", "analysis")

(* promote_analysis, second lock. *)
PromoteAnalysis(c) ==
  /\ call[c].pc = "analysis_set"
  /\ Promote(c, {"catalog", "sketch"}, "promoted", "analysis")

PromoteSketch(c) ==
  /\ call[c].pc = "sketch_set"
  /\ Promote(c, {"catalog"}, "sketching", "sketch")

----------------------------------------------------------------------------
(* The background tasks.                                                   *)

(* The last thing a task does: the job gets the state, if it still is in   *)
(* the map.                                                                *)
Settle(t, state, target) ==
  /\ jobs' = IF InMap(t.job)
             THEN [jobs EXCEPT ![t.job].state = state, ![t.job].target = target]
             ELSE jobs
  /\ tasks' = tasks \ {t}
  /\ UNCHANGED <<issued, ttl, call, projects, opened, closed>>

CatalogDone(t) == t.kind = "catalog" /\ \E s \in {"catalog", "failed"} : Settle(t, s, 0)
SketchDone(t)  == t.kind = "sketch" /\ \E s \in {"sketch", "failed"} : Settle(t, s, 0)

At(t, step) == t.kind = "analysis" /\ t.step = step
Advance(t, step, target) ==
  tasks' = (tasks \ {t}) \cup {[t EXCEPT !.step = step, !.target = target]}

(* Mutants of AnalysisLookup: any open project is used again; a task that  *)
(* finds no project to use again waits for one.                            *)
AnyProject(t) ==
  /\ At(t, "start")
  /\ \/ \E p \in projects : Advance(t, "opened", p)
     \/ projects = {} /\ Advance(t, "building", 0)
  /\ UNCHANGED <<jobs, issued, ttl, call, projects, opened, closed>>

OnlyReuse(t) ==
  /\ At(t, "start")
  /\ \E p \in projects : opened[p].file = t.file /\ Advance(t, "opened", p)
  /\ UNCHANGED <<jobs, issued, ttl, call, projects, opened, closed>>

(* ProjectManager::open_with_progress: an open project on the same file is *)
(* used again.                                                             *)
AnalysisLookup(t) ==
  /\ At(t, "start")
  /\ \/ \E p \in projects : opened[p].file = t.file /\ Advance(t, "opened", p)
     \/ /\ \A p \in projects : opened[p].file # t.file
        /\ Advance(t, "building", 0)
  /\ UNCHANGED <<jobs, issued, ttl, call, projects, opened, closed>>

(* The progress callback writes the stage into the job. *)
AnalysisProgress(t) ==
  /\ At(t, "building")
  /\ InMap(t.job)
  /\ jobs' = [jobs EXCEPT ![t.job].state = "analysing"]
  /\ UNCHANGED <<issued, ttl, tasks, call, projects, opened, closed>>

AnalysisInsert(t) ==
  /\ At(t, "building")
  /\ opened' = Append(opened, [file |-> t.file, job |-> t.job])
  /\ projects' = projects \cup {Len(opened) + 1}
  /\ Advance(t, "opened", Len(opened) + 1)
  /\ UNCHANGED <<jobs, issued, ttl, call, closed>>

AnalysisDone(t) ==
  \/ At(t, "opened") /\ Settle(t, "ready", t.target)
  \/ At(t, "building") /\ Settle(t, "failed", 0)

----------------------------------------------------------------------------
(* target_close.  The id names a job, or a project that some job made      *)
(* ready; the job leaves the map, then the project is released.            *)
CloseJob(c, j) ==
  /\ Idle(c)
  /\ InMap(j)
  /\ jobs' = [jobs EXCEPT ![j] = Absent]
  /\ closed' = closed \cup {j}
  /\ call' = [call EXCEPT ![c] = [AtRest EXCEPT !.pc = "release", !.job = j,
                                                !.target = jobs[j].target]]
  /\ UNCHANGED <<issued, ttl, tasks, projects, opened>>

MadeReady(p) == {j \in JobIds : jobs[j].state = "ready" /\ jobs[j].target = p}

CloseTarget(c, p) ==
  \/ \E j \in MadeReady(p) : CloseJob(c, j)
  \/ /\ Idle(c)
     /\ MadeReady(p) = {}
     /\ call' = [call EXCEPT ![c] = [AtRest EXCEPT !.pc = "release", !.target = p]]
     /\ UNCHANGED <<jobs, issued, ttl, tasks, projects, opened, closed>>

(* ProjectManager::close: the project leaves the map and is saved. *)
Release(c) ==
  /\ call[c].pc = "release"
  /\ projects' = projects \ {call[c].target}
  /\ call' = [call EXCEPT ![c] = AtRest]
  /\ UNCHANGED <<jobs, issued, ttl, tasks, opened, closed>>

----------------------------------------------------------------------------
CallStep(c) ==
  \/ \E p \in Paths : StartLookup(c, p)
  \/ CreateJob(c) \/ InsertJob(c)
  \/ \E j \in JobIds, full \in BOOLEAN : PollCatalog(c, j, full)
  \/ \E j \in JobIds : PollSketch(c, j) \/ CloseJob(c, j)
  \/ RecheckBounded(c) \/ AnalysisCheck(c) \/ PromoteAnalysis(c) \/ PromoteSketch(c)
  \/ \E p \in 1..Len(opened) : CloseTarget(c, p)
  \/ Release(c)

TaskStep(t) ==
  \/ CatalogDone(t) \/ SketchDone(t)
  \/ AnalysisLookup(t) \/ AnalysisInsert(t) \/ AnalysisDone(t)

Next ==
  \/ \E c \in Callers : CallStep(c)
  \/ \E t \in tasks : TaskStep(t) \/ AnalysisProgress(t)
  \/ StatusResult \/ TimePasses

Spec == Init /\ [][Next]_vars

(* The runtime goes on with every spawned task: each ends its blocking     *)
(* work, well or badly, and then gets the lock.                            *)
FairSpec ==
  /\ Spec
  /\ \A j \in JobIds : WF_vars(\E t \in tasks : t.job = j /\ TaskStep(t))

----------------------------------------------------------------------------
Targets    == 0..Len(opened)
JobRecords == {Absent} \cup
              [path : Paths, state : RunningStates \cup DoneStates, target : Targets]
Tasks      == [job : JobIds, file : Files, kind : JobKinds, n : 1..2,
               step : {"start", "building", "opened"}, target : Targets]
CallStates == {"idle", "create", "insert", "sketch_seen", "analysis_check",
               "analysis_set", "sketch_set", "release"}
Calls      == [pc : CallStates, path : Paths \cup {NoPath}, job : 0..issued,
               target : Targets]

CountersOK == issued \in 0..MaxJobs /\ ttl \in 0..issued
JobsOK     == jobs \in [JobIds -> JobRecords]
TasksOK    == tasks \subseteq Tasks
CallsOK    == /\ call \in [Callers -> Calls]
              /\ \A c \in Callers :
                   call[c].pc \in {"create", "insert"} => call[c].path \in Paths
ProjectsOK == /\ opened \in Seq([file : Files, job : JobIds])
              /\ projects \subseteq 1..Len(opened)
              /\ closed \subseteq JobIds

(* The maps, the tasks and the calls stay in their types: a job in the map *)
(* has a path, a call names a job that was created, and every target id    *)
(* was handed out.                                                         *)
TypeOK == CountersOK /\ JobsOK /\ TasksOK /\ CallsOK /\ ProjectsOK

(* A job in the map has exactly one task working on it while it is running *)
(* and none otherwise: promotions that race, closed jobs and late tasks    *)
(* never leave a job running with nobody to end it, nor a second task that *)
(* would overwrite its state.                                              *)
Busy == {t.job : t \in tasks}
OneTaskPerJob ==
  /\ \A j \in JobIds : InMap(j) => (Running(j) <=> j \in Busy)
  /\ \A t, u \in tasks : t.job = u.job => t = u

(* What OneTaskPerJob needs to be inductive: the calls that have created a *)
(* job and not inserted it own distinct jobs that nobody else knows, and   *)
(* whatever is in a map, in a task or promoted was created before.         *)
FreshJobs ==
  /\ \A c \in Callers : call[c].pc = "insert" =>
       /\ call[c].job # 0
       /\ ~InMap(call[c].job)
       /\ call[c].job \notin Busy
       /\ \A d \in Callers : call[d].pc = "insert" /\ call[d].job = call[c].job => d = c
  /\ \A j \in JobIds : InMap(j) \/ j \in Busy => j <= issued
  /\ \A c \in Callers :
       call[c].pc \in {"sketch_seen", "analysis_check", "analysis_set", "sketch_set"} =>
         call[c].job # 0

(* A ready job hands out a project that was opened on its own file, also   *)
(* when the project was opened by another job, under another spelling.     *)
ReadyOnItsFile ==
  \A j \in JobIds : jobs[j].state = "ready" =>
    /\ jobs[j].target \in 1..Len(opened)
    /\ opened[jobs[j].target].file = FileOf[jobs[j].path]

(* What a client was told about a job stays true while the job exists: a   *)
(* ready or failed job keeps its state and its target, and only            *)
(* target_close takes a running job out of the map.                        *)
JobStatesAdvance ==
  [][\A j \in JobIds :
       /\ jobs[j].state \in {"ready", "failed"} => jobs'[j] \in {jobs[j], Absent}
       /\ Running(j) /\ jobs'[j] = Absent => j \in closed']_vars

(* A job that is running does not stay so: it becomes ready, partly ready  *)
(* or failed, or it is closed.                                             *)
JobsSettle == \A j \in JobIds : Running(j) ~> ~Running(j)

(* "target_close: Flush annotations and release a target" (docs/MCP.md):   *)
(* once a close of a job has returned, the project that the job opened is  *)
(* not open.                                                               *)
CloseReleases ==
  \A p \in projects : opened[p].job \in closed =>
    \E c \in Callers : call[c].pc = "release" /\ call[c].job = opened[p].job

=============================================================================
