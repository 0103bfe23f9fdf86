--------------------------- MODULE DecompileCache ---------------------------
(***************************************************************************)
(* Guarded decompilation (ProjectManager::decompile_artifact_guarded) of   *)
(* one open project: the LRU cache of its ProjectHandle, the permits that  *)
(* bound concurrent work, the deadline, and the work that goes on after    *)
(* it.  The writer task publishes new revisions (op_seq) meanwhile.        *)
(*                                                                         *)
(* An artifact is what it was computed from: the address, the options and  *)
(* the revision of the project that the worker read.                       *)
(***************************************************************************)
EXTENDS Integers, Sequences, Lists

CONSTANTS Readers,               \* concurrent calls
          Vas, FunctionVas,      \* addresses, and those of functions
          DecompileOptions,      \* [mode, fallback]
          DECOMPILE_CACHE_CAP,
          Permits,               \* slots of decompile_permits
          MaxRevision,           \* bound: edits published
          MaxRequests,           \* bound: calls ever made
          NoReader

Modes == {"legacy", "shadow_v2", "v2"}
Slots == 1..Permits

ASSUME CacheAssumption ==
  /\ FunctionVas \subseteq Vas
  /\ Vas # {} /\ DecompileOptions # {}
  /\ DecompileOptions \subseteq [mode : Modes, fallback : BOOLEAN]
  /\ DECOMPILE_CACHE_CAP \in Nat
  /\ Permits \in Nat
  /\ MaxRevision \in Nat
  /\ MaxRequests \in Nat
  /\ NoReader \notin Readers

VARIABLES
  revision,   \* op_seq of the published snapshot
  live,       \* the project is in the project map
  cache,      \* decompile_cache, least recently used first
  request,    \* per reader: its call
  waiters,    \* calls that wait for a permit, in the order the semaphore serves
  worker,     \* per permit: the blocking task that holds it
  asked       \* number of calls made

cacheVars == <<revision, live, cache, request, waiters, worker, asked>>

----------------------------------------------------------------------------
ModeCode == [legacy |-> 0, shadow_v2 |-> 1, v2 |-> 2]

(* Mutant of Lane: the fallback policy is not part of the key. *)
LaneOfMode(o) == ModeCode[o.mode] * 2

(* decompile_cache_discriminant *)
Lane(o) == ModeCode[o.mode] * 2 + (IF o.fallback THEN 1 ELSE 0)

(* DecompileCacheKey of a request that read revision r. *)
Key(r, va, o) == [op_seq |-> r, va |-> va, lane |-> Lane(o)]

Artifacts == [va : Vas, options : DecompileOptions, revision : 0..MaxRevision]
Keys      == [op_seq : 0..MaxRevision, va : Vas, lane : 0..5]

(* DecompileOutcome; "none" while the call has not been answered. *)
NoAnswer      == [kind |-> "none"]
NotFound      == [kind |-> "not_found"]
StillRunning  == [kind |-> "still_running"]
Ready(a)      == [kind |-> "ready", artifact |-> a]
Outcomes      == {NoAnswer, NotFound, StillRunning} \cup {Ready(a) : a \in Artifacts}

Call(va, o, r, at, outcome) ==
  [at |-> at, va |-> va, options |-> o, read |-> r, outcome |-> outcome]
Stages == {"idle", "lookup", "waiting", "running", "done"}
Calls  == [at : Stages, va : Vas, options : DecompileOptions, read : 0..MaxRevision,
           outcome : Outcomes]

Free    == [step |-> "free"]
Tasks   == [step : {"spawned", "failed"}, reader : Readers \cup {NoReader},
            va : Vas, options : DecompileOptions, read : 0..MaxRevision]
Started == [step : {"started", "stored"}, reader : Readers \cup {NoReader},
            va : Vas, options : DecompileOptions, read : 0..MaxRevision,
            artifact : Artifacts]

KeyOf(x) == Key(x.read, x.va, x.options)

Answered(r, outcome) == [request EXCEPT ![r].at = "done", ![r].outcome = outcome]

CacheInit ==
  /\ revision = 0
  /\ live = TRUE
  /\ cache = <<>>
  /\ request \in [Readers -> {Call(va, o, 0, "idle", NoAnswer) :
                                va \in {CHOOSE v \in Vas : TRUE},
                                o \in {CHOOSE x \in DecompileOptions : TRUE}}]
  /\ waiters = <<>>
  /\ worker = [p \in Slots |-> Free]
  /\ asked = 0

----------------------------------------------------------------------------
(* The cache behind its mutex.                                             *)

Without(k) == Retain(cache, {e \in Items(cache) : e.key # k})
Found(k)   == {i \in DOMAIN cache : cache[i].key = k}

(* decompile_cache_get moves the entry it finds to the back. *)
Touched(k) == Append(Without(k), cache[CHOOSE i \in Found(k) : TRUE])

(* decompile_cache_put replaces the key's entry, then drops the front. *)
Stored(k, a) ==
  LET all == Append(Without(k), [key |-> k, artifact |-> a])
  IN  IF Len(all) > DECOMPILE_CACHE_CAP THEN Tail(all) ELSE all

----------------------------------------------------------------------------
(* The call.                                                               *)

(* The project map, the published snapshot and function_at. *)
ReadProject(r, va, o) ==
  /\ request[r].at \in {"idle", "done"}
  /\ asked < MaxRequests
  /\ asked' = asked + 1
  /\ request' = [request EXCEPT ![r] =
                   IF live /\ va \in FunctionVas
                   THEN Call(va, o, revision, "lookup", NoAnswer)
                   ELSE Call(va, o, revision, "done", NotFound)]
  /\ UNCHANGED <<revision, live, cache, waiters, worker>>

(* A hit is the answer; a miss queues for a permit. *)
Lookup(r) ==
  LET k == KeyOf(request[r]) IN
  /\ request[r].at = "lookup"
  /\ \/ /\ Found(k) # {}
        /\ cache' = Touched(k)
        /\ request' = Answered(r, Ready(cache[CHOOSE i \in Found(k) : TRUE].artifact))
        /\ UNCHANGED waiters
     \/ /\ Found(k) = {}
        /\ request' = [request EXCEPT ![r].at = "waiting"]
        /\ waiters' = Append(waiters, r)
        /\ UNCHANGED cache
  /\ UNCHANGED <<revision, live, worker, asked>>

(* acquire_owned serves the longest waiting call; then spawn_blocking. *)
Acquire(p) ==
  /\ worker[p] = Free
  /\ \A q \in Slots : q < p => worker[q] # Free
  /\ waiters # <<>>
  /\ LET r == Head(waiters) IN
       /\ worker' = [worker EXCEPT ![p] =
            [step |-> "spawned", reader |-> r, va |-> request[r].va,
             options |-> request[r].options, read |-> request[r].read]]
       /\ request' = [request EXCEPT ![r].at = "running"]
  /\ waiters' = Tail(waiters)
  /\ UNCHANGED <<revision, live, cache, asked>>

(* The timeout gives up waiting for the task, which goes on. *)
Deadline(r) ==
  /\ request[r].at = "running"
  /\ request' = Answered(r, StillRunning)
  /\ worker' = [p \in Slots |-> IF worker[p] # Free /\ worker[p].reader = r
                                THEN [worker[p] EXCEPT !.reader = NoReader]
                                ELSE worker[p]]
  /\ UNCHANGED <<revision, live, cache, waiters, asked>>

----------------------------------------------------------------------------
(* The blocking task.                                                      *)

(* It reads the project anew when it begins to run. *)
StartWork(p) ==
  /\ worker[p].step = "spawned"
  /\ worker' = [worker EXCEPT ![p] =
       [step |-> "started", reader |-> @.reader, va |-> @.va, options |-> @.options,
        read |-> @.read,
        artifact |-> [va |-> @.va, options |-> @.options, revision |-> revision]]]
  /\ UNCHANGED <<revision, live, cache, request, waiters, asked>>

(* The artifact goes to the cache under the key of the request. *)
StoreArtifact(p) ==
  /\ worker[p].step = "started"
  /\ cache' = Stored(KeyOf(worker[p]), worker[p].artifact)
  /\ worker' = [worker EXCEPT ![p].step = "stored"]
  /\ UNCHANGED <<revision, live, request, waiters, asked>>

(* No artifact, or a panic: nothing is stored. *)
WorkFails(p) ==
  /\ worker[p].step = "started"
  /\ worker' = [worker EXCEPT ![p] =
       [step |-> "failed", reader |-> @.reader, va |-> @.va, options |-> @.options,
        read |-> @.read]]
  /\ UNCHANGED <<revision, live, cache, request, waiters, asked>>

(* Mutant of EndWork: a task that failed keeps its permit. *)
EndStoredOnly(p) ==
  /\ worker[p].step = "stored"
  /\ worker' = [worker EXCEPT ![p] = Free]
  /\ request' = IF worker[p].reader = NoReader THEN request
                ELSE Answered(worker[p].reader, Ready(worker[p].artifact))
  /\ UNCHANGED <<revision, live, cache, waiters, asked>>

(* The permit is dropped and whoever still waits for the task is told. *)
EndWork(p) ==
  /\ worker[p].step \in {"stored", "failed"}
  /\ worker' = [worker EXCEPT ![p] = Free]
  /\ request' = IF worker[p].reader = NoReader THEN request
                ELSE Answered(worker[p].reader,
                              IF worker[p].step = "stored" THEN Ready(worker[p].artifact)
                                                           ELSE NotFound)
  /\ UNCHANGED <<revision, live, cache, waiters, asked>>

----------------------------------------------------------------------------
(* The writer task publishes an edit. *)
PublishEdit ==
  /\ revision < MaxRevision
  /\ revision' = revision + 1
  /\ UNCHANGED <<live, cache, request, waiters, worker, asked>>

(* close takes the project out of the map; calls under way keep the handle. *)
LeaveMap ==
  /\ live
  /\ live' = FALSE
  /\ UNCHANGED <<revision, cache, request, waiters, worker, asked>>

ReaderStep(r) == Lookup(r) \/ Deadline(r) \/ \E va \in Vas, o \in DecompileOptions : ReadProject(r, va, o)
WorkerStep(p) == Acquire(p) \/ StartWork(p) \/ StoreArtifact(p) \/ WorkFails(p) \/ EndWork(p)

CacheNext ==
  \/ \E r \in Readers : ReaderStep(r)
  \/ \E p \in Slots : WorkerStep(p)
  \/ PublishEdit
  \/ LeaveMap

CacheSpec == CacheInit /\ [][CacheNext]_cacheVars

(* A polled future goes on, the semaphore serves its queue in order, and   *)
(* decompilation ends; nothing makes a deadline expire.                    *)
CacheFairness ==
  /\ \A r \in Readers : WF_cacheVars(Lookup(r))
  /\ \A p \in Slots : WF_cacheVars(WorkerStep(p))

----------------------------------------------------------------------------
CacheTypeOK ==
  /\ revision \in 0..MaxRevision
  /\ live \in BOOLEAN
  /\ cache \in Seq([key : Keys, artifact : Artifacts])
  /\ request \in [Readers -> Calls]
  /\ waiters \in Seq(Readers)
  /\ asked \in 0..MaxRequests
  /\ worker \in [Slots -> {Free} \cup Tasks \cup Started]

(* "keyed by op_seq so user edits invalidate stale entries": an answer is  *)
(* of the function and under the options that the call asked for, from a   *)
(* revision no older than the one published when the call came in -        *)
(* although tasks store under a key read before they read the project.     *)
AnswersFresh ==
  \A r \in Readers : request[r].outcome.kind = "ready" =>
    LET a == request[r].outcome.artifact IN
    /\ a.va = request[r].va
    /\ a.options = request[r].options
    /\ a.revision >= request[r].read

(* The cache holds at most DECOMPILE_CACHE_CAP artifacts, one per key, and *)
(* none was computed before the revision of its key.                       *)
CacheDisciplined ==
  /\ Len(cache) <= DECOMPILE_CACHE_CAP
  /\ \A i, j \in DOMAIN cache : cache[i].key = cache[j].key => i = j
  /\ \A i \in DOMAIN cache : cache[i].artifact.revision >= cache[i].key.op_seq

(* Every call is answered, also when the tasks before it fail: failing     *)
(* work gives its permit back.                                             *)
DecompilesAnswered == \A r \in Readers : request[r].at = "waiting" ~> request[r].at = "done"

=============================================================================
