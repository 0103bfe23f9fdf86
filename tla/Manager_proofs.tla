--------------------------- MODULE Manager_proofs ---------------------------
(***************************************************************************)
(* What ProjectManager promises beside the registry of targets: the        *)
(* artifacts of the decompile cache, the activity feed, the workspaces and *)
(* the recent projects, for any number of callers, images, edits and       *)
(* events.                                                                 *)
(***************************************************************************)
EXTENDS DecompileCache, RecentProjects, Workspaces, ActivityFeed, Lists_proofs, SequenceTheorems

----------------------------------------------------------------------------
(* The decompile cache.                                                    *)

CacheEntries == [key : Keys, artifact : Artifacts]

(* An entry holds what its key says, from its revision or a later one.     *)
EntrySound(e) ==
  /\ e.artifact.va = e.key.va
  /\ Lane(e.artifact.options) = e.key.lane
  /\ e.artifact.revision >= e.key.op_seq

(* A task works for the request that spawned it, as long as the request    *)
(* waits for it, on a revision that was published before.                  *)
ServesReader(w) ==
  w.reader # NoReader =>
    /\ request[w.reader].at = "running"
    /\ request[w.reader].va = w.va
    /\ request[w.reader].options = w.options
    /\ request[w.reader].read = w.read
WorkerSound(w) ==
  /\ w.read <= revision
  /\ w.step \in {"started", "stored"} =>
       /\ w.artifact.va = w.va
       /\ w.artifact.options = w.options
       /\ w.artifact.revision >= w.read
  /\ ServesReader(w)

EntriesSound == \A i \in DOMAIN cache : EntrySound(cache[i])
WorkersSound == \A p \in Slots : worker[p] # Free => WorkerSound(worker[p])
OneTaskEach  == \A p, q \in Slots :
                  worker[p] # Free /\ worker[q] # Free /\ worker[p].reader # NoReader
                  /\ worker[p].reader = worker[q].reader => p = q
WaitersSound == /\ \A i \in DOMAIN waiters : request[waiters[i]].at = "waiting"
                /\ \A i, j \in DOMAIN waiters : waiters[i] = waiters[j] => i = j
ReadsPast    == \A r \in Readers : request[r].read <= revision

(* The inductive invariant of guarded decompilation. *)
CacheInv ==
  /\ CacheTypeOK
  /\ EntriesSound
  /\ CacheDisciplined
  /\ WorkersSound
  /\ OneTaskEach
  /\ WaitersSound
  /\ ReadsPast
  /\ AnswersFresh

----------------------------------------------------------------------------
(* The discriminant tells the options apart, and fits the key. *)
LEMMA LaneInjective ==
  ASSUME NEW o \in DecompileOptions, NEW x \in DecompileOptions, Lane(o) = Lane(x)
  PROVE  o = x
<1>1. o \in [mode : Modes, fallback : BOOLEAN] /\ x \in [mode : Modes, fallback : BOOLEAN]
  BY CacheAssumption
<1>2. ModeCode["legacy"] = 0 /\ ModeCode["shadow_v2"] = 1 /\ ModeCode["v2"] = 2
  BY DEF ModeCode
<1>3. o.mode = x.mode /\ o.fallback = x.fallback
  BY <1>1, <1>2 DEF Lane, Modes
<1> QED
  BY <1>1, <1>3

LEMMA LaneType ==
  ASSUME NEW o \in DecompileOptions
  PROVE  Lane(o) \in 0..5
<1>1. o.mode \in Modes
  BY CacheAssumption
<1>2. ModeCode["legacy"] = 0 /\ ModeCode["shadow_v2"] = 1 /\ ModeCode["v2"] = 2
  BY DEF ModeCode
<1> QED
  BY <1>1, <1>2 DEF Lane, Modes

LEMMA KeyType ==
  ASSUME NEW r \in 0..MaxRevision, NEW va \in Vas, NEW o \in DecompileOptions
  PROVE  /\ Key(r, va, o) \in Keys
         /\ Key(r, va, o).op_seq = r /\ Key(r, va, o).va = va /\ Key(r, va, o).lane = Lane(o)
  BY LaneType DEF Key, Keys

(* Only an answer that is ready carries an artifact. *)
LEMMA OutcomeKinds ==
  /\ \A x \in Outcomes : x.kind = "ready" => x.artifact \in Artifacts
  /\ \A a \in Artifacts : Ready(a) \in Outcomes /\ Ready(a).kind = "ready" /\ Ready(a).artifact = a
  /\ NoAnswer \in Outcomes /\ NotFound \in Outcomes /\ StillRunning \in Outcomes
  /\ NoAnswer.kind # "ready" /\ NotFound.kind # "ready" /\ StillRunning.kind # "ready"
<1>1. \A a \in Artifacts : Ready(a) \in Outcomes /\ Ready(a).kind = "ready" /\ Ready(a).artifact = a
  BY DEF Outcomes, Ready
<1>2. /\ NoAnswer \in Outcomes /\ NotFound \in Outcomes /\ StillRunning \in Outcomes
      /\ NoAnswer.kind # "ready" /\ NotFound.kind # "ready" /\ StillRunning.kind # "ready"
  BY DEF Outcomes, NoAnswer, NotFound, StillRunning
<1>3. ASSUME NEW x \in Outcomes, x.kind = "ready" PROVE x.artifact \in Artifacts
  <2>1. PICK a \in Artifacts : x = Ready(a)
    BY <1>2, <1>3 DEF Outcomes
  <2> QED
    BY <1>1, <2>1
<1> QED
  BY <1>1, <1>2, <1>3

(* A call that is answered. *)
LEMMA CallAnswered ==
  ASSUME request \in [Readers -> Calls], NEW r \in Readers, NEW o \in Outcomes
  PROVE  /\ Answered(r, o) \in [Readers -> Calls]
         /\ \A q \in Readers : q # r => Answered(r, o)[q] = request[q]
         /\ Answered(r, o)[r].at = "done" /\ Answered(r, o)[r].outcome = o
         /\ Answered(r, o)[r].va = request[r].va
         /\ Answered(r, o)[r].options = request[r].options
         /\ Answered(r, o)[r].read = request[r].read
<1>1. request[r] \in Calls
  OBVIOUS
<1>2. \A c \in Calls : [c EXCEPT !.at = "done", !.outcome = o] \in Calls
  BY DEF Calls, Stages
<1>3. Answered(r, o) = [request EXCEPT ![r] = [request[r] EXCEPT !.at = "done", !.outcome = o]]
  BY DEF Answered
<1>4. \A c \in Calls : LET d == [c EXCEPT !.at = "done", !.outcome = o] IN
        d.at = "done" /\ d.outcome = o /\ d.va = c.va /\ d.options = c.options /\ d.read = c.read
  BY DEF Calls
<1> QED
  BY <1>1, <1>2, <1>3, <1>4

LEMMA CacheItems ==
  ASSUME CacheInv
  PROVE  /\ cache \in Seq(CacheEntries)
         /\ \A i \in DOMAIN cache : cache[i] \in CacheEntries /\ EntrySound(cache[i])
<1>1. cache \in Seq(CacheEntries)
  BY DEF CacheInv, CacheTypeOK, CacheEntries
<1>2. \A i \in DOMAIN cache : cache[i] \in CacheEntries
  BY <1>1
<1> QED
  BY <1>1, <1>2 DEF CacheInv, EntriesSound

(* The lists that get and put build. *)
LEMMA WithoutKey ==
  ASSUME CacheInv, NEW k
  PROVE  /\ Without(k) \in Seq(CacheEntries)
         /\ Len(Without(k)) <= Len(cache)
         /\ Found(k) # {} => Len(Without(k)) < Len(cache)
         /\ \A i \in 1..Len(Without(k)) : Without(k)[i].key # k /\ EntrySound(Without(k)[i])
         /\ \A i, j \in 1..Len(Without(k)) : Without(k)[i].key = Without(k)[j].key => i = j
<1> DEFINE keep == {e \in Items(cache) : e.key # k}
           w == Retain(cache, keep)
<1>0. w = Without(k)
  BY DEF Without
<1>1. cache \in Seq(CacheEntries) /\ DOMAIN cache = 1..Len(cache)
  BY DEF CacheInv, CacheTypeOK, CacheEntries
<1>2. \A i \in 1..Len(cache) : cache[i] \in keep <=> cache[i].key # k
  BY <1>1 DEF Items
<1>3. \A e \in keep : e.key # k
  OBVIOUS
<1> HIDE DEF keep
<1>4. w \in Seq(CacheEntries) /\ Len(w) <= Len(cache)
  BY <1>1, RetainProperties
<1>5. PICK f : Picks(w, cache, keep, Len(cache), f)
  BY <1>1, RetainProperties
<1>6. Found(k) # {} => Len(w) < Len(cache)
  BY <1>1, <1>2, RetainShortens DEF Found
<1> HIDE DEF w
<1>7. \A i \in 1..Len(w) : f[i] \in DOMAIN cache /\ w[i] = cache[f[i]] /\ w[i].key # k
  BY <1>1, <1>3, <1>5 DEF Picks
<1>8. \A i \in 1..Len(w) : w[i].key # k /\ EntrySound(w[i])
  BY <1>7 DEF CacheInv, EntriesSound
<1>9. \A i, j \in 1..Len(w) : w[i].key = w[j].key => i = j
  <2> SUFFICES ASSUME NEW i \in 1..Len(w), NEW j \in 1..Len(w), w[i].key = w[j].key, i # j
               PROVE  FALSE
    OBVIOUS
  <2>1. f[i] = f[j]
    BY <1>7 DEF CacheInv, CacheDisciplined
  <2>2. f[i] \in Int /\ f[j] \in Int /\ (i < j \/ j < i)
    BY <1>5 DEF Picks
  <2>3. f[i] < f[j] \/ f[j] < f[i]
    BY <1>5, <2>2 DEF Picks
  <2> QED
    BY <2>1, <2>2, <2>3
<1> QED
  BY <1>0, <1>4, <1>6, <1>8, <1>9

(* A list that may be the new cache. *)
CacheList(c) ==
  /\ c \in Seq(CacheEntries)
  /\ Len(c) <= DECOMPILE_CACHE_CAP
  /\ \A i \in 1..Len(c) : EntrySound(c[i])
  /\ \A i, j \in 1..Len(c) : c[i].key = c[j].key => i = j

(* An entry behind a list without its key. *)
LEMMA EntryAppended ==
  ASSUME NEW w \in Seq(CacheEntries), NEW e \in CacheEntries, EntrySound(e),
         \A i \in 1..Len(w) : w[i].key # e.key /\ EntrySound(w[i]),
         \A i, j \in 1..Len(w) : w[i].key = w[j].key => i = j
  PROVE  LET c == Append(w, e) IN
         /\ c \in Seq(CacheEntries) /\ Len(c) = Len(w) + 1
         /\ \A i \in 1..Len(c) : EntrySound(c[i])
         /\ \A i, j \in 1..Len(c) : c[i].key = c[j].key => i = j
<1> DEFINE c == Append(w, e)
<1>1. /\ c \in Seq(CacheEntries) /\ Len(c) = Len(w) + 1 /\ Len(w) \in Nat
      /\ c[Len(w) + 1] = e /\ \A i \in 1..Len(w) : c[i] = w[i]
  OBVIOUS
<1> HIDE DEF c
<1>2. \A i \in 1..Len(c) : i = Len(w) + 1 \/ i \in 1..Len(w)
  BY <1>1
<1>3. \A i \in 1..Len(c) : EntrySound(c[i])
  BY <1>1, <1>2
<1>4. \A i, j \in 1..Len(c) : c[i].key = c[j].key => i = j
  BY <1>1, <1>2
<1> QED
  BY <1>1, <1>3, <1>4 DEF c

(* get keeps the discipline of the cache ... *)
LEMMA TouchedList ==
  ASSUME CacheInv, NEW k, Found(k) # {}
  PROVE  CacheList(Touched(k))
<1> DEFINE e == cache[CHOOSE i \in Found(k) : TRUE]
           w == Without(k)
<1>1. e \in CacheEntries /\ EntrySound(e) /\ e.key = k
  <2>1. (CHOOSE i \in Found(k) : TRUE) \in Found(k)
    OBVIOUS
  <2>2. PICK i \in Found(k) : e = cache[i]
    BY <2>1
  <2> HIDE DEF e
  <2>3. i \in DOMAIN cache /\ cache[i].key = k
    BY DEF Found
  <2> QED
    BY <2>2, <2>3, CacheItems
<1>2. /\ w \in Seq(CacheEntries) /\ Len(w) < Len(cache)
      /\ \A i \in 1..Len(w) : w[i].key # k /\ EntrySound(w[i])
      /\ \A i, j \in 1..Len(w) : w[i].key = w[j].key => i = j
  BY WithoutKey
<1>3. Len(cache) <= DECOMPILE_CACHE_CAP /\ Len(cache) \in Nat /\ DECOMPILE_CACHE_CAP \in Nat
  BY CacheAssumption DEF CacheInv, CacheDisciplined, CacheTypeOK
<1>4. Touched(k) = Append(w, e)
  BY DEF Touched
<1> HIDE DEF e, w
<1>5. Len(w) \in Nat
  BY <1>2
<1>6. /\ Append(w, e) \in Seq(CacheEntries) /\ Len(Append(w, e)) = Len(w) + 1
      /\ \A i \in 1..Len(Append(w, e)) : EntrySound(Append(w, e)[i])
      /\ \A i, j \in 1..Len(Append(w, e)) : Append(w, e)[i].key = Append(w, e)[j].key => i = j
  BY <1>1, <1>2, EntryAppended
<1>7. Len(w) + 1 <= DECOMPILE_CACHE_CAP
  BY <1>2, <1>3, <1>5
<1> QED
  BY <1>4, <1>6, <1>7 DEF CacheList

(* ... and so does put, which drops the front of a list that is too long. *)
LEMMA StoredList ==
  ASSUME CacheInv, NEW k, NEW a, [key |-> k, artifact |-> a] \in CacheEntries,
         EntrySound([key |-> k, artifact |-> a])
  PROVE  CacheList(Stored(k, a))
<1> DEFINE e == [key |-> k, artifact |-> a]
           w == Without(k)
           all == Append(w, e)
<1>1. e \in CacheEntries /\ EntrySound(e) /\ e.key = k
  OBVIOUS
<1>2. /\ w \in Seq(CacheEntries) /\ Len(w) <= Len(cache)
      /\ \A i \in 1..Len(w) : w[i].key # k /\ EntrySound(w[i])
      /\ \A i, j \in 1..Len(w) : w[i].key = w[j].key => i = j
  BY WithoutKey
<1>3. Len(cache) <= DECOMPILE_CACHE_CAP /\ Len(cache) \in Nat /\ DECOMPILE_CACHE_CAP \in Nat
  BY CacheAssumption DEF CacheInv, CacheDisciplined, CacheTypeOK
<1>4. Stored(k, a) = IF Len(all) > DECOMPILE_CACHE_CAP THEN Tail(all) ELSE all
  BY DEF Stored
<1> HIDE DEF e, w
<1>5. Len(w) \in Nat
  BY <1>2
<1>6. /\ all \in Seq(CacheEntries) /\ Len(all) = Len(w) + 1
      /\ \A i \in 1..Len(all) : EntrySound(all[i])
      /\ \A i, j \in 1..Len(all) : all[i].key = all[j].key => i = j
  BY <1>1, <1>2, EntryAppended
<1> HIDE DEF all
<1>7. CASE Len(all) > DECOMPILE_CACHE_CAP
  <2>1. all # <<>>
    BY <1>5, <1>6
  <2>2. /\ Tail(all) \in Seq(CacheEntries) /\ Len(Tail(all)) = Len(all) - 1
        /\ \A i \in 1..Len(Tail(all)) : Tail(all)[i] = all[i + 1]
    BY <1>6, <2>1, HeadTailProperties
  <2>3. \A i \in 1..Len(Tail(all)) : i \in Int /\ i + 1 \in 1..Len(all)
    BY <1>5, <1>6, <2>2
  <2>4. Len(Tail(all)) <= DECOMPILE_CACHE_CAP
    BY <1>2, <1>3, <1>5, <1>6, <2>2
  <2>5. \A i, j \in 1..Len(Tail(all)) : Tail(all)[i].key = Tail(all)[j].key => i = j
    <3> SUFFICES ASSUME NEW i \in 1..Len(Tail(all)), NEW j \in 1..Len(Tail(all)),
                        Tail(all)[i].key = Tail(all)[j].key
                 PROVE  i = j
      OBVIOUS
    <3>1. i + 1 = j + 1
      BY <1>6, <2>2, <2>3
    <3> QED
      BY <2>3, <3>1
  <2>6. CacheList(Tail(all))
    BY <1>6, <2>2, <2>3, <2>4, <2>5 DEF CacheList
  <2> QED
    BY <1>4, <1>7, <2>6
<1>8. CASE ~(Len(all) > DECOMPILE_CACHE_CAP)
  <2>1. Len(all) <= DECOMPILE_CACHE_CAP
    BY <1>3, <1>5, <1>6, <1>8
  <2> QED
    BY <1>4, <1>6, <1>8, <2>1 DEF CacheList
<1> QED
  BY <1>7, <1>8

----------------------------------------------------------------------------
(* A task, by its step. *)
LEMMA WorkerKinds ==
  ASSUME CacheTypeOK, NEW p \in Slots
  PROVE  /\ worker[p] # Free => /\ worker[p].reader \in Readers \cup {NoReader}
                                /\ worker[p].va \in Vas
                                /\ worker[p].options \in DecompileOptions
                                /\ worker[p].read \in 0..MaxRevision
         /\ worker[p].step \in {"spawned", "failed"} => worker[p] \in Tasks /\ worker[p] # Free
         /\ worker[p].step \in {"started", "stored"} => worker[p] \in Started /\ worker[p] # Free
<1>1. worker[p] \in {Free} \cup Tasks \cup Started
  BY DEF CacheTypeOK
<1>2. CASE worker[p] = Free
  BY <1>2 DEF Free
<1>3. CASE worker[p] \in Tasks
  BY <1>3 DEF Tasks, Free
<1>4. CASE worker[p] \in Started
  BY <1>4 DEF Started, Free
<1> QED
  BY <1>1, <1>2, <1>3, <1>4

Fresh(c) ==
  c.outcome.kind = "ready" =>
    /\ c.outcome.artifact.va = c.va
    /\ c.outcome.artifact.options = c.options
    /\ c.outcome.artifact.revision >= c.read

LEMMA FreshIs == AnswersFresh <=> \A r \in Readers : Fresh(request[r])
  BY DEF AnswersFresh, Fresh

(* A step that changes one call, on which no task and no place in the      *)
(* queue depends.                                                          *)
LEMMA OneCallChanges ==
  ASSUME CacheInv, NEW r \in Readers, request[r].at \notin {"running", "waiting"},
         request' \in [Readers -> Calls],
         \A q \in Readers : q # r => request'[q] = request[q],
         request'[r].read <= revision, Fresh(request[r])',
         UNCHANGED <<revision, waiters, worker>>
  PROVE  WorkersSound' /\ OneTaskEach' /\ WaitersSound' /\ ReadsPast' /\ AnswersFresh'
<1>1. \A p \in Slots : worker[p] # Free => worker[p].reader # r /\ worker[p].reader \in Readers \cup {NoReader}
  <2> SUFFICES ASSUME NEW p \in Slots, worker[p] # Free
               PROVE  worker[p].reader # r /\ worker[p].reader \in Readers \cup {NoReader}
    OBVIOUS
  <2>1. worker[p].reader \in Readers \cup {NoReader} /\ r # NoReader
    BY WorkerKinds, CacheAssumption DEF CacheInv
  <2>2. ServesReader(worker[p])
    BY DEF CacheInv, WorkersSound, WorkerSound
  <2> QED
    BY <2>1, <2>2 DEF ServesReader
<1>2. WorkersSound'
  <2> SUFFICES ASSUME NEW p \in Slots, worker[p] # Free PROVE WorkerSound(worker[p])'
    BY DEF WorkersSound
  <2>1. WorkerSound(worker[p])
    BY DEF CacheInv, WorkersSound
  <2>2. worker[p].reader # NoReader => request'[worker[p].reader] = request[worker[p].reader]
    BY <1>1
  <2> QED
    BY <2>1, <2>2 DEF WorkerSound, ServesReader
<1>3. OneTaskEach'
  BY DEF CacheInv, OneTaskEach
<1>4. WaitersSound'
  <2>1. \A i \in DOMAIN waiters : waiters[i] \in Readers /\ waiters[i] # r
    BY DEF CacheInv, CacheTypeOK, WaitersSound
  <2> QED
    BY <2>1 DEF CacheInv, WaitersSound
<1>5. ReadsPast'
  BY DEF CacheInv, ReadsPast
<1>6. AnswersFresh'
  <2>1. \A q \in Readers : q # r => Fresh(request[q])'
    BY FreshIs DEF CacheInv, Fresh
  <2> QED
    BY <2>1 DEF AnswersFresh, Fresh
<1> QED
  BY <1>2, <1>3, <1>4, <1>5, <1>6

(* The new call has no answer yet, or one that names no artifact. *)
LEMMA ReadProjectInv ==
  ASSUME CacheInv, NEW r \in Readers, NEW va \in Vas, NEW o \in DecompileOptions, ReadProject(r, va, o)
  PROVE  CacheInv'
<1>1. PICK at \in {"lookup", "done"}, out \in {NoAnswer, NotFound} :
        request' = [request EXCEPT ![r] = Call(va, o, revision, at, out)]
  BY DEF ReadProject
<1>2. out \in Outcomes /\ out.kind # "ready" /\ revision \in 0..MaxRevision
  BY OutcomeKinds DEF CacheInv, CacheTypeOK
<1> DEFINE c == Call(va, o, revision, at, out)
<1>3. c \in Calls /\ c.outcome = out /\ c.read = revision
  BY <1>2 DEF Call, Calls, Stages
<1> HIDE DEF c
<1>4. /\ request' \in [Readers -> Calls] /\ request'[r] = c
      /\ \A q \in Readers : q # r => request'[q] = request[q]
  BY <1>1, <1>3 DEF c, CacheInv, CacheTypeOK
<1>5. request[r].at \notin {"running", "waiting"} /\ UNCHANGED <<revision, live, cache, waiters, worker>>
  BY DEF ReadProject
<1>6. request'[r].read <= revision /\ Fresh(request[r])'
  BY <1>2, <1>3, <1>4 DEF Fresh
<1>7. WorkersSound' /\ OneTaskEach' /\ WaitersSound' /\ ReadsPast' /\ AnswersFresh'
  BY <1>4, <1>5, <1>6, OneCallChanges
<1>8. asked' \in 0..MaxRequests
  BY CacheAssumption DEF ReadProject, CacheInv, CacheTypeOK
<1>9. CacheTypeOK' /\ EntriesSound' /\ CacheDisciplined'
  BY <1>4, <1>5, <1>8 DEF CacheInv, CacheTypeOK, EntriesSound, CacheDisciplined
<1> QED
  BY <1>7, <1>9 DEF CacheInv

(* A list that may be the new cache, as the new cache. *)
LEMMA NewCache ==
  ASSUME NEW c, CacheList(c), \A i \in 1..Len(c) : c[i].artifact.revision >= c[i].key.op_seq,
         cache' = c
  PROVE  cache' \in Seq([key : Keys, artifact : Artifacts]) /\ EntriesSound' /\ CacheDisciplined'
<1>1. DOMAIN c = 1..Len(c) /\ c \in Seq(CacheEntries)
  BY DEF CacheList
<1>2. EntriesSound'
  BY <1>1 DEF CacheList, EntriesSound, EntrySound
<1>3. CacheDisciplined'
  BY <1>1 DEF CacheList, CacheDisciplined, EntrySound
<1> QED
  BY <1>1, <1>2, <1>3 DEF CacheEntries

(* A hit is an artifact of the same address and, as the discriminant tells *)
(* options apart, of the same options; its key carries the revision read.  *)
LEMMA LookupInv ==
  ASSUME CacheInv, NEW r \in Readers, Lookup(r)
  PROVE  CacheInv'
<1> DEFINE k == KeyOf(request[r])
           c == request[r]
<1>1. c \in Calls /\ c.at = "lookup" /\ c.va \in Vas /\ c.options \in DecompileOptions
      /\ c.read \in 0..MaxRevision
  BY DEF CacheInv, CacheTypeOK, Calls, Lookup
<1>2. k.va = c.va /\ k.lane = Lane(c.options) /\ k.op_seq = c.read
  BY <1>1, KeyType DEF KeyOf
<1>3. UNCHANGED <<revision, live, worker, asked>> /\ request \in [Readers -> Calls]
  BY DEF Lookup, CacheInv, CacheTypeOK
<1>4. c.read <= revision
  BY DEF CacheInv, ReadsPast
<1>5. CASE Found(k) # {} /\ cache' = Touched(k) /\ UNCHANGED waiters
           /\ request' = Answered(r, Ready(cache[CHOOSE i \in Found(k) : TRUE].artifact))
  <2>1. PICK i \in Found(k) : request' = Answered(r, Ready(cache[i].artifact))
    BY <1>5
  <2>2. i \in DOMAIN cache /\ cache[i].key = k
    BY DEF Found
  <2>3. cache[i] \in CacheEntries /\ EntrySound(cache[i])
    BY <2>2, CacheItems
  <2> DEFINE a == cache[i].artifact
  <2>4. a \in Artifacts /\ a.options \in DecompileOptions
    BY <2>3 DEF CacheEntries, Artifacts
  <2>5. a.va = c.va /\ Lane(a.options) = Lane(c.options) /\ a.revision >= c.read
    BY <1>2, <2>2, <2>3 DEF EntrySound
  <2>6. a.options = c.options
    BY <1>1, <2>4, <2>5, LaneInjective
  <2>0. request' = Answered(r, Ready(a))
    BY <2>1
  <2> HIDE DEF a
  <2>7. Ready(a) \in Outcomes /\ Ready(a).kind = "ready" /\ Ready(a).artifact = a
    BY <2>4, OutcomeKinds
  <2>8. /\ request' \in [Readers -> Calls]
        /\ \A q \in Readers : q # r => request'[q] = request[q]
        /\ request'[r].outcome = Ready(a) /\ request'[r].va = c.va
        /\ request'[r].options = c.options /\ request'[r].read = c.read
    BY <1>3, <2>0, <2>7, CallAnswered
  <2>9. WorkersSound' /\ OneTaskEach' /\ WaitersSound' /\ ReadsPast' /\ AnswersFresh'
    <3>1. Fresh(request[r])'
      BY <2>5, <2>6, <2>7, <2>8 DEF Fresh
    <3>2. request'[r].read <= revision
      BY <1>4, <2>8
    <3>3. request[r].at \notin {"running", "waiting"} /\ UNCHANGED waiters
      BY <1>1, <1>5
    <3> QED
      BY <1>3, <2>8, <3>1, <3>2, <3>3, OneCallChanges
  <2>10. CacheList(Touched(k))
    BY <1>5, TouchedList
  <2>11. cache' \in Seq([key : Keys, artifact : Artifacts]) /\ EntriesSound' /\ CacheDisciplined'
    BY <1>5, <2>10, NewCache DEF CacheList, EntrySound
  <2> QED
    BY <1>3, <1>5, <2>8, <2>9, <2>11 DEF CacheInv, CacheTypeOK
<1>6. CASE request' = [request EXCEPT ![r].at = "waiting"] /\ waiters' = Append(waiters, r) /\ UNCHANGED cache
  <2>1. /\ request' \in [Readers -> Calls]
        /\ \A q \in Readers : q # r => request'[q] = request[q]
        /\ request'[r].at = "waiting" /\ request'[r].outcome = c.outcome
        /\ request'[r].va = c.va /\ request'[r].options = c.options /\ request'[r].read = c.read
    <3>1. \A x \in Calls : LET y == [x EXCEPT !.at = "waiting"] IN
            /\ y \in Calls /\ y.at = "waiting" /\ y.outcome = x.outcome
            /\ y.va = x.va /\ y.options = x.options /\ y.read = x.read
      BY DEF Calls, Stages
    <3>2. request' = [request EXCEPT ![r] = [c EXCEPT !.at = "waiting"]]
      BY <1>6
    <3> QED
      BY <1>1, <1>3, <3>1, <3>2
  <2>2. waiters \in Seq(Readers) /\ Len(waiters) \in Nat
    BY DEF CacheInv, CacheTypeOK
  <2>3. /\ waiters' \in Seq(Readers) /\ Len(waiters') = Len(waiters) + 1
        /\ waiters'[Len(waiters) + 1] = r
        /\ \A i \in 1..Len(waiters) : waiters'[i] = waiters[i]
    BY <1>6, <2>2
  <2>4. \A i \in 1..Len(waiters) : waiters[i] \in Readers /\ waiters[i] # r /\ request[waiters[i]].at = "waiting"
    BY <1>1, <2>2 DEF CacheInv, WaitersSound
  <2>5. \A i \in 1..Len(waiters') : i = Len(waiters) + 1 \/ i \in 1..Len(waiters)
    BY <2>2, <2>3
  <2>6. WaitersSound'
    <3>1. DOMAIN waiters' = 1..Len(waiters') /\ DOMAIN waiters = 1..Len(waiters)
      BY <2>2, <2>3
    <3>2. \A i \in 1..Len(waiters') : request'[waiters'[i]].at = "waiting"
      BY <2>1, <2>3, <2>4, <2>5
    <3>3. \A i, j \in 1..Len(waiters') : waiters'[i] = waiters'[j] => i = j
      BY <2>3, <2>4, <2>5, <3>1 DEF CacheInv, WaitersSound
    <3> QED
      BY <3>1, <3>2, <3>3 DEF WaitersSound
  <2>7. WorkersSound'
    <3> SUFFICES ASSUME NEW p \in Slots, worker[p] # Free PROVE WorkerSound(worker[p])'
      BY <1>3 DEF WorkersSound
    <3>1. WorkerSound(worker[p]) /\ worker[p].reader \in Readers \cup {NoReader}
      BY WorkerKinds DEF CacheInv, WorkersSound
    <3>2. worker[p].reader # NoReader => request'[worker[p].reader] = request[worker[p].reader]
      BY <1>1, <2>1, <3>1 DEF WorkerSound, ServesReader
    <3> QED
      BY <1>3, <3>1, <3>2 DEF WorkerSound, ServesReader
  <2>8. ReadsPast'
    BY <1>3, <1>4, <2>1 DEF CacheInv, ReadsPast
  <2>9. AnswersFresh'
    <3>1. \A q \in Readers : /\ request'[q].outcome = request[q].outcome /\ request'[q].va = request[q].va
                              /\ request'[q].options = request[q].options /\ request'[q].read = request[q].read
      BY <2>1
    <3> QED
      BY <3>1 DEF CacheInv, AnswersFresh
  <2>10. OneTaskEach'
    BY <1>3 DEF CacheInv, OneTaskEach
  <2> QED
    BY <1>3, <1>6, <2>1, <2>3, <2>6, <2>7, <2>8, <2>9, <2>10
    DEF CacheInv, CacheTypeOK, EntriesSound, CacheDisciplined
<1> QED
  BY <1>5, <1>6 DEF Lookup

(* The task of the call at the head of the queue; no other task serves it. *)
LEMMA AcquireInv ==
  ASSUME CacheInv, NEW p \in Slots, Acquire(p)
  PROVE  CacheInv'
<1> DEFINE r == Head(waiters)
           w == [step |-> "spawned", reader |-> r, va |-> request[r].va,
                 options |-> request[r].options, read |-> request[r].read]
<1>1. /\ waiters \in Seq(Readers) /\ waiters # <<>> /\ Len(waiters) \in Nat
      /\ request \in [Readers -> Calls] /\ worker \in [Slots -> {Free} \cup Tasks \cup Started]
  BY DEF CacheInv, CacheTypeOK, Acquire
<1>2. /\ r \in Readers /\ r = waiters[1] /\ 1 \in DOMAIN waiters
      /\ Tail(waiters) \in Seq(Readers) /\ Len(Tail(waiters)) = Len(waiters) - 1
      /\ \A i \in 1..Len(Tail(waiters)) : Tail(waiters)[i] = waiters[i + 1]
  BY <1>1, HeadTailProperties
<1>3. request[r].at = "waiting"
  BY <1>2 DEF CacheInv, WaitersSound
<1>4. /\ worker' = [worker EXCEPT ![p] = w] /\ waiters' = Tail(waiters)
      /\ request' = [request EXCEPT ![r].at = "running"]
      /\ UNCHANGED <<revision, live, cache, asked>>
  BY DEF Acquire
<1>5. /\ w \in Tasks /\ w # Free /\ w.reader = r /\ w.step = "spawned"
      /\ w.va = request[r].va /\ w.options = request[r].options /\ w.read = request[r].read
  <2>1. request[r].va \in Vas /\ request[r].options \in DecompileOptions /\ request[r].read \in 0..MaxRevision
    BY <1>1, <1>2 DEF Calls
  <2>2. w.step = "spawned" /\ Free.step = "free"
    BY DEF Free
  <2> QED
    BY <1>2, <2>1, <2>2 DEF Tasks
<1> HIDE DEF r, w
<1>6. /\ request' \in [Readers -> Calls]
      /\ \A q \in Readers : q # r => request'[q] = request[q]
      /\ request'[r].at = "running" /\ request'[r].outcome = request[r].outcome
      /\ request'[r].va = request[r].va /\ request'[r].options = request[r].options
      /\ request'[r].read = request[r].read
  <2>1. \A x \in Calls : LET y == [x EXCEPT !.at = "running"] IN
          /\ y \in Calls /\ y.at = "running" /\ y.outcome = x.outcome
          /\ y.va = x.va /\ y.options = x.options /\ y.read = x.read
    BY DEF Calls, Stages
  <2>2. request' = [request EXCEPT ![r] = [request[r] EXCEPT !.at = "running"]]
    BY <1>4
  <2> QED
    BY <1>1, <1>2, <2>1, <2>2
<1>7. /\ worker' \in [Slots -> {Free} \cup Tasks \cup Started]
      /\ worker'[p] = w /\ \A q \in Slots : q # p => worker'[q] = worker[q]
  BY <1>1, <1>4, <1>5
<1>8. \A q \in Slots : worker[q] # Free =>
        worker[q].reader \in Readers \cup {NoReader} /\ worker[q].reader # r
  <2> SUFFICES ASSUME NEW q \in Slots, worker[q] # Free
               PROVE  worker[q].reader \in Readers \cup {NoReader} /\ worker[q].reader # r
    OBVIOUS
  <2>1. ServesReader(worker[q]) /\ worker[q].reader \in Readers \cup {NoReader} /\ r # NoReader
    BY <1>2, WorkerKinds, CacheAssumption DEF CacheInv, WorkersSound, WorkerSound
  <2> QED
    BY <1>3, <2>1 DEF ServesReader
<1>9. WorkersSound'
  <2> SUFFICES ASSUME NEW q \in Slots, worker'[q] # Free PROVE WorkerSound(worker[q])'
    BY DEF WorkersSound
  <2>1. CASE q = p
    <3>1. request[r].read <= revision
      BY <1>2 DEF CacheInv, ReadsPast
    <3> QED
      BY <1>4, <1>5, <1>6, <1>7, <2>1, <3>1 DEF WorkerSound, ServesReader
  <2>2. CASE q # p
    <3>1. WorkerSound(worker[q]) /\ worker'[q] = worker[q]
      BY <1>7, <2>2 DEF CacheInv, WorkersSound
    <3>2. worker[q].reader # NoReader => request'[worker[q].reader] = request[worker[q].reader]
      BY <1>6, <1>7, <1>8, <2>2
    <3> QED
      BY <1>4, <3>1, <3>2 DEF WorkerSound, ServesReader
  <2> QED
    BY <2>1, <2>2
<1>10. OneTaskEach'
  <2>1. \A q, q2 \in Slots : q # p /\ q2 # p /\ worker'[q] # Free /\ worker'[q2] # Free
          /\ worker'[q].reader # NoReader /\ worker'[q].reader = worker'[q2].reader => q = q2
    BY <1>7 DEF CacheInv, OneTaskEach
  <2>2. \A q \in Slots : q # p /\ worker'[q] # Free => worker'[q].reader # worker'[p].reader
    BY <1>5, <1>7, <1>8
  <2> QED
    BY <2>1, <2>2 DEF OneTaskEach
<1>11. WaitersSound'
  <2>1. \A i \in 1..Len(Tail(waiters)) : i \in Int /\ i + 1 \in DOMAIN waiters /\ i + 1 # 1
    BY <1>1, <1>2
  <2>2. \A i \in 1..Len(Tail(waiters)) :
          /\ Tail(waiters)[i] # r /\ Tail(waiters)[i] \in Readers
          /\ request[Tail(waiters)[i]].at = "waiting"
    BY <1>1, <1>2, <2>1 DEF CacheInv, WaitersSound
  <2>3. \A i, j \in 1..Len(Tail(waiters)) : Tail(waiters)[i] = Tail(waiters)[j] => i = j
    <3> SUFFICES ASSUME NEW i \in 1..Len(Tail(waiters)), NEW j \in 1..Len(Tail(waiters)),
                        Tail(waiters)[i] = Tail(waiters)[j]
                 PROVE  i = j
      OBVIOUS
    <3>1. i + 1 = j + 1
      BY <1>2, <2>1 DEF CacheInv, WaitersSound
    <3> QED
      BY <2>1, <3>1
  <2>4. DOMAIN waiters' = 1..Len(Tail(waiters))
    BY <1>2, <1>4
  <2>5. \A i \in DOMAIN waiters' : request'[waiters'[i]].at = "waiting"
    BY <1>4, <1>6, <2>2, <2>4
  <2> QED
    BY <1>4, <2>3, <2>4, <2>5 DEF WaitersSound
<1>12. ReadsPast'
  BY <1>4, <1>6 DEF CacheInv, ReadsPast
<1>13. AnswersFresh'
  <2>1. \A q \in Readers : /\ request'[q].outcome = request[q].outcome /\ request'[q].va = request[q].va
                            /\ request'[q].options = request[q].options /\ request'[q].read = request[q].read
    BY <1>6
  <2> QED
    BY <2>1 DEF CacheInv, AnswersFresh
<1> QED
  BY <1>2, <1>4, <1>6, <1>7, <1>9, <1>10, <1>11, <1>12, <1>13
  DEF CacheInv, CacheTypeOK, EntriesSound, CacheDisciplined

(* The call that gives up is no longer served by its task. *)
LEMMA DeadlineInv ==
  ASSUME CacheInv, NEW r \in Readers, Deadline(r)
  PROVE  CacheInv'
<1>1. /\ request \in [Readers -> Calls] /\ worker \in [Slots -> {Free} \cup Tasks \cup Started]
      /\ request' = Answered(r, StillRunning) /\ request[r].at = "running"
      /\ UNCHANGED <<revision, live, cache, waiters, asked>>
  BY DEF CacheInv, CacheTypeOK, Deadline
<1>2. /\ request' \in [Readers -> Calls]
      /\ \A q \in Readers : q # r => request'[q] = request[q]
      /\ request'[r].outcome = StillRunning /\ request'[r].read = request[r].read
  BY <1>1, OutcomeKinds, CallAnswered
<1>3. \A p \in Slots : worker'[p] = IF worker[p] # Free /\ worker[p].reader = r
                                    THEN [worker[p] EXCEPT !.reader = NoReader] ELSE worker[p]
  BY DEF Deadline
<1>4. ASSUME NEW p \in Slots
      PROVE  /\ worker'[p] \in {Free} \cup Tasks \cup Started
             /\ worker[p] = Free => worker'[p] = Free
             /\ worker[p] # Free =>
                  /\ worker'[p].step = worker[p].step /\ worker'[p].va = worker[p].va
                  /\ worker'[p].options = worker[p].options /\ worker'[p].read = worker[p].read
                  /\ worker[p].step \in {"started", "stored"} => worker'[p].artifact = worker[p].artifact
                  /\ worker'[p].reader = IF worker[p].reader = r THEN NoReader ELSE worker[p].reader
  <2>1. CASE worker[p] # Free /\ worker[p].reader = r
    <3>1. worker'[p] = [worker[p] EXCEPT !.reader = NoReader] /\ worker[p] \in Tasks \cup Started
      BY <1>1, <1>3, <2>1
    <3>2. CASE worker[p] \in Tasks
      <4>1. \A x \in Tasks : [x EXCEPT !.reader = NoReader] \in Tasks
        BY DEF Tasks
      <4>2. \A x \in Tasks : LET y == [x EXCEPT !.reader = NoReader] IN
              /\ y.step = x.step /\ y.va = x.va /\ y.options = x.options /\ y.read = x.read
              /\ y.reader = NoReader /\ x.step \notin {"started", "stored"}
        BY DEF Tasks
      <4> QED
        BY <2>1, <3>1, <3>2, <4>1, <4>2
    <3>3. CASE worker[p] \in Started
      <4>1. \A x \in Started : [x EXCEPT !.reader = NoReader] \in Started
        BY DEF Started
      <4>2. \A x \in Started : LET y == [x EXCEPT !.reader = NoReader] IN
              /\ y.step = x.step /\ y.va = x.va /\ y.options = x.options /\ y.read = x.read
              /\ y.reader = NoReader /\ y.artifact = x.artifact
        BY DEF Started
      <4> QED
        BY <2>1, <3>1, <3>3, <4>1, <4>2
    <3> QED
      BY <3>1, <3>2, <3>3
  <2>2. CASE ~(worker[p] # Free /\ worker[p].reader = r)
    BY <1>1, <1>3, <2>2
  <2> QED
    BY <2>1, <2>2
<1>5. \A p \in Slots : worker[p] # Free => worker[p].reader \in Readers \cup {NoReader}
  BY WorkerKinds DEF CacheInv
<1>6. WorkersSound'
  <2> SUFFICES ASSUME NEW p \in Slots, worker'[p] # Free PROVE WorkerSound(worker[p])'
    BY DEF WorkersSound
  <2>1. worker[p] # Free /\ WorkerSound(worker[p])
    BY <1>4 DEF CacheInv, WorkersSound
  <2>2. worker'[p].reader # NoReader => request'[worker'[p].reader] = request[worker[p].reader]
                                        /\ worker[p].reader # NoReader
    BY <1>2, <1>4, <1>5, <2>1
  <2> QED
    BY <1>1, <1>4, <2>1, <2>2 DEF WorkerSound, ServesReader
<1>7. OneTaskEach'
  BY <1>4 DEF CacheInv, OneTaskEach
<1>8. WaitersSound'
  <2>1. \A i \in DOMAIN waiters : waiters[i] \in Readers /\ waiters[i] # r
    BY <1>1 DEF CacheInv, CacheTypeOK, WaitersSound
  <2> QED
    BY <1>1, <1>2, <2>1 DEF CacheInv, WaitersSound
<1>9. ReadsPast'
  BY <1>1, <1>2 DEF CacheInv, ReadsPast
<1>10. AnswersFresh'
  <2>1. \A q \in Readers : q # r => Fresh(request[q])'
    BY <1>2, FreshIs DEF CacheInv, Fresh
  <2>2. Fresh(request[r])'
    BY <1>2, OutcomeKinds DEF Fresh
  <2> QED
    BY <2>1, <2>2 DEF AnswersFresh, Fresh
<1>11. worker' \in [Slots -> {Free} \cup Tasks \cup Started]
  BY <1>4 DEF Deadline
<1> QED
  BY <1>1, <1>2, <1>6, <1>7, <1>8, <1>9, <1>10, <1>11
  DEF CacheInv, CacheTypeOK, EntriesSound, CacheDisciplined

(* A task that goes on and keeps what it was spawned for. *)
LEMMA TaskGoesOn ==
  ASSUME CacheInv, NEW p \in Slots, worker[p] # Free,
         NEW w \in Tasks \cup Started, w # Free,
         worker' = [worker EXCEPT ![p] = w],
         w.reader = worker[p].reader, w.va = worker[p].va, w.options = worker[p].options,
         w.read = worker[p].read,
         w.step \in {"started", "stored"} =>
           w.artifact.va = w.va /\ w.artifact.options = w.options /\ w.artifact.revision >= w.read,
         UNCHANGED <<revision, live, request, waiters, asked>>
  PROVE  /\ worker' \in [Slots -> {Free} \cup Tasks \cup Started]
         /\ WorkersSound' /\ OneTaskEach' /\ WaitersSound' /\ ReadsPast' /\ AnswersFresh'
<1>1. /\ worker' \in [Slots -> {Free} \cup Tasks \cup Started]
      /\ worker'[p] = w /\ \A q \in Slots : q # p => worker'[q] = worker[q]
  BY DEF CacheInv, CacheTypeOK
<1>2. WorkersSound'
  <2> SUFFICES ASSUME NEW q \in Slots, worker'[q] # Free PROVE WorkerSound(worker[q])'
    BY DEF WorkersSound
  <2>1. CASE q = p
    <3>1. WorkerSound(worker[p])
      BY DEF CacheInv, WorkersSound
    <3> QED
      BY <1>1, <2>1, <3>1 DEF WorkerSound, ServesReader
  <2>2. CASE q # p
    BY <1>1, <2>2 DEF CacheInv, WorkersSound, WorkerSound, ServesReader
  <2> QED
    BY <2>1, <2>2
<1>3. OneTaskEach'
  BY <1>1 DEF CacheInv, OneTaskEach
<1>4. WaitersSound' /\ ReadsPast' /\ AnswersFresh'
  BY DEF CacheInv, WaitersSound, ReadsPast, AnswersFresh
<1> QED
  BY <1>1, <1>2, <1>3, <1>4

(* The task reads the revision that is published now. *)
LEMMA StartWorkInv ==
  ASSUME CacheInv, NEW p \in Slots, StartWork(p)
  PROVE  CacheInv'
<1> DEFINE x == worker[p]
           a == [va |-> x.va, options |-> x.options, revision |-> revision]
           w == [step |-> "started", reader |-> x.reader, va |-> x.va, options |-> x.options,
                 read |-> x.read, artifact |-> a]
<1>1. /\ worker[p] # Free /\ x.reader \in Readers \cup {NoReader} /\ x.va \in Vas
      /\ x.options \in DecompileOptions /\ x.read \in 0..MaxRevision
  BY WorkerKinds DEF CacheInv, StartWork
<1>2. worker' = [worker EXCEPT ![p] = w] /\ UNCHANGED <<revision, live, cache, request, waiters, asked>>
  BY DEF StartWork
<1>3. revision \in 0..MaxRevision /\ x.read <= revision
  BY <1>1 DEF CacheInv, CacheTypeOK, WorkersSound, WorkerSound
<1>4. a \in Artifacts /\ a.va = x.va /\ a.options = x.options /\ a.revision = revision
  BY <1>1, <1>3 DEF Artifacts
<1> HIDE DEF a, x
<1>5. /\ w \in Started /\ w.step = "started" /\ w.reader = x.reader /\ w.va = x.va
      /\ w.options = x.options /\ w.read = x.read /\ w.artifact = a
  BY <1>1, <1>4 DEF Started
<1>6. w # Free /\ revision >= x.read
  <2>1. Free.step = "free"
    BY DEF Free
  <2> QED
    BY <1>1, <1>3, <1>5, <2>1
<1> HIDE DEF w
<1>7. /\ worker' \in [Slots -> {Free} \cup Tasks \cup Started]
      /\ WorkersSound' /\ OneTaskEach' /\ WaitersSound' /\ ReadsPast' /\ AnswersFresh'
  BY <1>1, <1>2, <1>4, <1>5, <1>6, TaskGoesOn DEF x
<1> QED
  BY <1>2, <1>7 DEF CacheInv, CacheTypeOK, EntriesSound, CacheDisciplined

(* The artifact goes under a key whose revision was read before. *)
LEMMA StoreArtifactInv ==
  ASSUME CacheInv, NEW p \in Slots, StoreArtifact(p)
  PROVE  CacheInv'
<1> DEFINE x == worker[p]
           w == [x EXCEPT !.step = "stored"]
           k == KeyOf(x)
           e == [key |-> k, artifact |-> x.artifact]
<1>1. x \in Started /\ x # Free /\ x.step = "started"
  BY WorkerKinds DEF CacheInv, StoreArtifact
<1>2. /\ worker' = [worker EXCEPT ![p] = w] /\ cache' = Stored(k, x.artifact)
      /\ UNCHANGED <<revision, live, request, waiters, asked>>
  BY DEF StoreArtifact
<1>3. /\ x.artifact.va = x.va /\ x.artifact.options = x.options /\ x.artifact.revision >= x.read
  BY <1>1 DEF CacheInv, WorkersSound, WorkerSound
<1>4. /\ x.va \in Vas /\ x.options \in DecompileOptions /\ x.read \in 0..MaxRevision
      /\ x.artifact \in Artifacts
  BY <1>1 DEF Started
<1> HIDE DEF x
<1>5. k \in Keys /\ k.va = x.va /\ k.lane = Lane(x.options) /\ k.op_seq = x.read
  BY <1>4, KeyType DEF KeyOf
<1> HIDE DEF k
<1>6. e \in CacheEntries /\ e.key = k /\ e.artifact = x.artifact
  BY <1>4, <1>5 DEF CacheEntries
<1>7. EntrySound(e)
  BY <1>3, <1>5, <1>6 DEF EntrySound
<1>8. CacheList(Stored(k, x.artifact))
  BY <1>6, <1>7, StoredList
<1>9. cache' \in Seq([key : Keys, artifact : Artifacts]) /\ EntriesSound' /\ CacheDisciplined'
  BY <1>2, <1>8, NewCache DEF CacheList, EntrySound
<1>10. /\ w \in Started /\ w.step = "stored" /\ w.reader = x.reader /\ w.va = x.va
       /\ w.options = x.options /\ w.read = x.read /\ w.artifact = x.artifact
  <2>1. \A y \in Started : [y EXCEPT !.step = "stored"] \in Started
    BY DEF Started
  <2>2. \A y \in Started : LET z == [y EXCEPT !.step = "stored"] IN
          /\ z.step = "stored" /\ z.reader = y.reader /\ z.va = y.va
          /\ z.options = y.options /\ z.read = y.read /\ z.artifact = y.artifact
    BY DEF Started
  <2> QED
    BY <1>1, <2>1, <2>2
<1> HIDE DEF w
<1>11. w # Free
  BY <1>10 DEF Free
<1>12. /\ worker' \in [Slots -> {Free} \cup Tasks \cup Started]
       /\ WorkersSound' /\ OneTaskEach' /\ WaitersSound' /\ ReadsPast' /\ AnswersFresh'
  BY <1>1, <1>2, <1>3, <1>10, <1>11, TaskGoesOn DEF x
<1> QED
  BY <1>2, <1>9, <1>12 DEF CacheInv, CacheTypeOK

LEMMA WorkFailsInv ==
  ASSUME CacheInv, NEW p \in Slots, WorkFails(p)
  PROVE  CacheInv'
<1> DEFINE x == worker[p]
           w == [step |-> "failed", reader |-> x.reader, va |-> x.va, options |-> x.options,
                 read |-> x.read]
<1>1. /\ worker[p] # Free /\ x.reader \in Readers \cup {NoReader} /\ x.va \in Vas
      /\ x.options \in DecompileOptions /\ x.read \in 0..MaxRevision
  BY WorkerKinds DEF CacheInv, WorkFails
<1>2. worker' = [worker EXCEPT ![p] = w] /\ UNCHANGED <<revision, live, cache, request, waiters, asked>>
  BY DEF WorkFails
<1> HIDE DEF x
<1>3. /\ w \in Tasks /\ w.step = "failed" /\ w.reader = x.reader /\ w.va = x.va
      /\ w.options = x.options /\ w.read = x.read
  BY <1>1 DEF Tasks
<1>4. w # Free
  BY <1>3 DEF Free
<1> HIDE DEF w
<1>5. /\ worker' \in [Slots -> {Free} \cup Tasks \cup Started]
      /\ WorkersSound' /\ OneTaskEach' /\ WaitersSound' /\ ReadsPast' /\ AnswersFresh'
  BY <1>1, <1>2, <1>3, <1>4, TaskGoesOn DEF x
<1> QED
  BY <1>2, <1>5 DEF CacheInv, CacheTypeOK, EntriesSound, CacheDisciplined

(* A task answers the call it serves, and no other task serves it. *)
LEMMA EndWorkInv ==
  ASSUME CacheInv, NEW p \in Slots, EndWork(p)
  PROVE  CacheInv'
<1> DEFINE x == worker[p]
<1>1. /\ x # Free /\ x.reader \in Readers \cup {NoReader} /\ x.step \in {"stored", "failed"}
      /\ x.step = "stored" => x \in Started /\ x.artifact \in Artifacts
  <2>1. /\ x # Free /\ x.reader \in Readers \cup {NoReader} /\ x.step \in {"stored", "failed"}
        /\ x.step = "stored" => x \in Started
    BY WorkerKinds DEF CacheInv, EndWork
  <2> QED
    BY <2>1 DEF Started
<1>2. /\ request \in [Readers -> Calls] /\ worker \in [Slots -> {Free} \cup Tasks \cup Started]
  BY DEF CacheInv, CacheTypeOK
<1>3. worker' = [worker EXCEPT ![p] = Free] /\ UNCHANGED <<revision, live, cache, waiters, asked>>
  BY DEF EndWork
<1>4. /\ worker' \in [Slots -> {Free} \cup Tasks \cup Started]
      /\ worker'[p] = Free /\ \A q \in Slots : q # p => worker'[q] = worker[q]
  BY <1>2, <1>3
<1>5. WorkerSound(x)
  BY <1>1 DEF CacheInv, WorkersSound
<1>6. \A q \in Slots : worker'[q] # Free =>
        /\ worker'[q] = worker[q] /\ worker[q] # Free /\ WorkerSound(worker[q])
        /\ worker[q].reader \in Readers \cup {NoReader}
        /\ worker[q].reader # NoReader => worker[q].reader # x.reader
  BY <1>1, <1>4, WorkerKinds DEF CacheInv, WorkersSound, OneTaskEach
<1>7. OneTaskEach'
  BY <1>6 DEF CacheInv, OneTaskEach
<1>8. PICK out \in Outcomes :
        /\ request' = IF x.reader = NoReader THEN request ELSE Answered(x.reader, out)
        /\ out.kind = "ready" => x.step = "stored" /\ out.artifact = x.artifact
  BY <1>1, OutcomeKinds DEF EndWork
<1>9. CASE x.reader = NoReader
  <2>1. request' = request
    BY <1>8, <1>9
  <2>2. WorkersSound'
    BY <1>3, <1>6, <2>1 DEF WorkersSound, WorkerSound, ServesReader
  <2> QED
    BY <1>3, <1>4, <1>7, <2>1, <2>2
    DEF CacheInv, CacheTypeOK, EntriesSound, CacheDisciplined, WaitersSound, ReadsPast, AnswersFresh
<1>10. CASE x.reader # NoReader
  <2>a. PICK r \in Readers : r = x.reader
    BY <1>1, <1>10
  <2>0. request' = Answered(r, out)
    BY <1>8, <1>10, <2>a
  <2>1. /\ request[r].at = "running" /\ request[r].va = x.va
        /\ request[r].options = x.options /\ request[r].read = x.read
    BY <1>5, <1>10, <2>a DEF WorkerSound, ServesReader
  <2>2. /\ request' \in [Readers -> Calls]
        /\ \A q \in Readers : q # r => request'[q] = request[q]
        /\ request'[r].outcome = out /\ request'[r].va = request[r].va
        /\ request'[r].options = request[r].options /\ request'[r].read = request[r].read
    BY <1>2, <2>0, CallAnswered
  <2>3. WorkersSound'
    <3> SUFFICES ASSUME NEW q \in Slots, worker'[q] # Free PROVE WorkerSound(worker[q])'
      BY DEF WorkersSound
    <3>1. worker'[q] = worker[q] /\ WorkerSound(worker[q])
      BY <1>6
    <3>2. worker[q].reader # NoReader => request'[worker[q].reader] = request[worker[q].reader]
      BY <1>6, <2>2, <2>a
    <3> QED
      BY <1>3, <3>1, <3>2 DEF WorkerSound, ServesReader
  <2>4. WaitersSound'
    <3>1. \A i \in DOMAIN waiters : waiters[i] \in Readers /\ waiters[i] # r
      BY <2>1 DEF CacheInv, CacheTypeOK, WaitersSound
    <3> QED
      BY <1>3, <2>2, <3>1 DEF CacheInv, WaitersSound
  <2>5. ReadsPast'
    BY <1>3, <2>2 DEF CacheInv, ReadsPast
  <2>6. AnswersFresh'
    <3>1. \A q \in Readers : q # r => Fresh(request[q])'
      BY <2>2, FreshIs DEF CacheInv, Fresh
    <3>2. Fresh(request[r])'
      <4>1. x.step = "stored" => x.artifact.va = x.va /\ x.artifact.options = x.options
                                 /\ x.artifact.revision >= x.read
        BY <1>5 DEF WorkerSound
      <4> QED
        BY <1>8, <2>1, <2>2, <4>1 DEF Fresh
    <3> QED
      BY <3>1, <3>2 DEF AnswersFresh, Fresh
  <2> QED
    BY <1>3, <1>4, <1>7, <2>2, <2>3, <2>4, <2>5, <2>6
    DEF CacheInv, CacheTypeOK, EntriesSound, CacheDisciplined
<1> QED
  BY <1>9, <1>10

(* A new revision is above all that were read. *)
LEMMA PublishEditInv ==
  ASSUME CacheInv, PublishEdit
  PROVE  CacheInv'
<1>1. /\ revision' = revision + 1 /\ revision \in 0..MaxRevision /\ revision' \in 0..MaxRevision
      /\ UNCHANGED <<live, cache, request, waiters, worker, asked>>
  BY CacheAssumption DEF PublishEdit, CacheInv, CacheTypeOK
<1>2. \A r \in Readers : request[r].read \in 0..MaxRevision /\ request[r].read <= revision
  BY DEF CacheInv, CacheTypeOK, Calls, ReadsPast
<1>3. ReadsPast'
  BY <1>1, <1>2 DEF ReadsPast
<1>4. WorkersSound'
  <2> SUFFICES ASSUME NEW q \in Slots, worker'[q] # Free PROVE WorkerSound(worker[q])'
    BY DEF WorkersSound
  <2>1. WorkerSound(worker[q]) /\ worker[q].read \in 0..MaxRevision
    BY <1>1, WorkerKinds DEF CacheInv, WorkersSound
  <2>2. worker[q].read <= revision'
    BY <1>1, <2>1 DEF WorkerSound
  <2> QED
    BY <1>1, <2>1, <2>2 DEF WorkerSound, ServesReader
<1> QED
  BY <1>1, <1>3, <1>4
  DEF CacheInv, CacheTypeOK, EntriesSound, CacheDisciplined, OneTaskEach, WaitersSound, AnswersFresh

(* Nothing that the invariant speaks of changes. *)
LEMMA CacheRests ==
  ASSUME CacheInv, UNCHANGED <<revision, cache, request, waiters, worker, asked>>, live' \in BOOLEAN
  PROVE  CacheInv'
  BY DEF CacheInv, CacheTypeOK, EntriesSound, CacheDisciplined, WorkersSound, WorkerSound, ServesReader,
         OneTaskEach, WaitersSound, ReadsPast, AnswersFresh

LEMMA CacheStart == CacheInit => CacheInv
<1> SUFFICES ASSUME CacheInit PROVE CacheInv
  OBVIOUS
<1> DEFINE v == CHOOSE v \in Vas : TRUE
           o == CHOOSE x \in DecompileOptions : TRUE
           c == Call(v, o, 0, "idle", NoAnswer)
<1>1. v \in Vas /\ o \in DecompileOptions
  BY CacheAssumption
<1>2. request = [r \in Readers |-> c]
  BY DEF CacheInit
<1> HIDE DEF v, o
<1>3. c \in Calls /\ c.outcome = NoAnswer /\ c.read = 0
  BY <1>1, OutcomeKinds, CacheAssumption DEF Call, Calls, Stages
<1> HIDE DEF c
<1>4. /\ revision = 0 /\ live = TRUE /\ cache = <<>> /\ waiters = <<>> /\ asked = 0
      /\ worker = [p \in Slots |-> Free]
  BY DEF CacheInit
<1>5. CacheTypeOK
  BY <1>2, <1>3, <1>4, CacheAssumption DEF CacheTypeOK
<1>6. AnswersFresh /\ ReadsPast
  BY <1>2, <1>3, <1>4, OutcomeKinds DEF AnswersFresh, ReadsPast
<1>7. EntriesSound /\ CacheDisciplined /\ WaitersSound
  BY <1>4, CacheAssumption DEF EntriesSound, CacheDisciplined, WaitersSound
<1>8. WorkersSound /\ OneTaskEach
  BY <1>4 DEF WorkersSound, OneTaskEach
<1> QED
  BY <1>5, <1>6, <1>7, <1>8 DEF CacheInv

LEMMA CacheSteps == CacheInv /\ [CacheNext]_cacheVars => CacheInv'
<1> SUFFICES ASSUME CacheInv, [CacheNext]_cacheVars PROVE CacheInv'
  OBVIOUS
<1>1. CASE \E r \in Readers : ReaderStep(r)
  BY <1>1, LookupInv, DeadlineInv, ReadProjectInv DEF ReaderStep
<1>2. CASE \E p \in Slots : WorkerStep(p)
  BY <1>2, AcquireInv, StartWorkInv, StoreArtifactInv, WorkFailsInv, EndWorkInv DEF WorkerStep
<1>3. CASE PublishEdit
  BY <1>3, PublishEditInv
<1>4. CASE LeaveMap
  BY <1>4, CacheRests DEF LeaveMap
<1>5. CASE UNCHANGED cacheVars
  BY <1>5, CacheRests DEF cacheVars, CacheInv, CacheTypeOK
<1> QED
  BY <1>1, <1>2, <1>3, <1>4, <1>5 DEF CacheNext

(* decompile_artifact_guarded answers with the artifact of the function    *)
(* and the options it was asked for, of a revision that is no older than   *)
(* the call: whatever the tasks that store late and the edits in between.  *)
THEOREM DecompileAnswers == CacheSpec => []AnswersFresh
<1>1. CacheInv => AnswersFresh
  BY DEF CacheInv
<1> QED
  BY <1>1, CacheStart, CacheSteps, PTL DEF CacheSpec

(* The cache keeps its capacity, one entry per key, and no entry that is   *)
(* older than its key.                                                     *)
THEOREM DecompileCacheDiscipline == CacheSpec => [](CacheTypeOK /\ CacheDisciplined)
<1>1. CacheInv => CacheTypeOK /\ CacheDisciplined
  BY DEF CacheInv
<1> QED
  BY <1>1, CacheStart, CacheSteps, PTL DEF CacheSpec

----------------------------------------------------------------------------
(* The recent projects.                                                    *)

(* Each path once, the latest opening first, none after the nth. *)
NewestFirst(s, n) ==
  /\ s \in Seq(RecentEntries)
  /\ \A i \in 1..Len(s) : s[i].id <= n
  /\ \A i, j \in 1..Len(s) : i < j => s[i].path # s[j].path /\ s[i].id > s[j].id

RecentInv ==
  /\ opens \in 0..MaxOpens
  /\ NewestFirst(recent, opens)
  /\ Len(recent) <= RECENT_PROJECT_CAPACITY
  /\ recentFile \in [readable : BOOLEAN, list : Seq(RecentEntries)]
  /\ NewestFirst(recentFile.list, opens)

(* truncate keeps the front. *)
LEMMA TruncatedFront ==
  ASSUME NEW n, NEW s, NewestFirst(s, n)
  PROVE  NewestFirst(Truncated(s), n) /\ Len(Truncated(s)) <= RECENT_PROJECT_CAPACITY
<1> DEFINE m == IF Len(s) < RECENT_PROJECT_CAPACITY THEN Len(s) ELSE RECENT_PROJECT_CAPACITY
           t == SubSeq(s, 1, m)
<1>1. s \in Seq(RecentEntries) /\ Len(s) \in Nat /\ RECENT_PROJECT_CAPACITY \in Nat
  BY RecentAssumption DEF NewestFirst
<1>2. m \in 0..Len(s) /\ m <= RECENT_PROJECT_CAPACITY
  BY <1>1
<1>3. Truncated(s) = t
  BY DEF Truncated
<1> HIDE DEF m
<1>4. t \in Seq(RecentEntries) /\ Len(t) = m /\ \A i \in 1..m : t[i] = s[i]
  BY <1>1, <1>2
<1> HIDE DEF t
<1>5. \A i \in 1..m : i \in 1..Len(s)
  BY <1>1, <1>2
<1> QED
  BY <1>2, <1>3, <1>4, <1>5 DEF NewestFirst

(* A new entry comes before all others, and takes the place of the old one *)
(* for its path.                                                           *)
LEMMA RecordedFirst ==
  ASSUME RecentInv, NEW p \in RecentPaths, opens < MaxOpens
  PROVE  NewestFirst(Recorded(p), opens + 1) /\ Len(Recorded(p)) <= RECENT_PROJECT_CAPACITY
<1> DEFINE keep == {x \in Items(recent) : x.path # p}
           o == Retain(recent, keep)
           e == [path |-> p, id |-> opens + 1]
           s == <<e>> \o o
<1>1. opens \in Nat /\ MaxOpens \in Nat /\ opens + 1 \in 1..MaxOpens
  BY RecentAssumption DEF RecentInv
<1>2. e \in RecentEntries /\ e.path = p /\ e.id = opens + 1
  BY <1>1 DEF RecentEntries
<1>3. recent \in Seq(RecentEntries) /\ Len(recent) \in Nat
  BY DEF RecentInv, NewestFirst
<1>4. \A x \in keep : x.path # p
  OBVIOUS
<1>5. Recorded(p) = Truncated(s)
  BY DEF Recorded, Others
<1> HIDE DEF keep, e
<1>6. o \in Seq(RecentEntries) /\ \E f : Picks(o, recent, keep, Len(recent), f)
  BY <1>3, RetainProperties
<1> HIDE DEF o
<1>7. PICK f : Picks(o, recent, keep, Len(recent), f)
  BY <1>6
<1>8. \A i \in 1..Len(o) : /\ f[i] \in 1..Len(recent) /\ o[i] = recent[f[i]] /\ o[i].path # p
                            /\ o[i].id <= opens /\ o[i].id \in Nat
  <2>1. \A i \in 1..Len(o) : f[i] \in 1..Len(recent) /\ o[i] = recent[f[i]] /\ o[i].path # p
    BY <1>4, <1>7 DEF Picks
  <2>2. \A i \in 1..Len(recent) : recent[i] \in RecentEntries /\ recent[i].id <= opens
    BY <1>3 DEF RecentInv, NewestFirst
  <2>3. \A x \in RecentEntries : x.id \in Nat
    BY DEF RecentEntries
  <2> QED
    BY <2>1, <2>2, <2>3
<1>9. \A i, j \in 1..Len(o) : i < j => o[i].path # o[j].path /\ o[i].id > o[j].id
  <2> SUFFICES ASSUME NEW i \in 1..Len(o), NEW j \in 1..Len(o), i < j
               PROVE  o[i].path # o[j].path /\ o[i].id > o[j].id
    OBVIOUS
  <2>1. f[i] < f[j]
    BY <1>7 DEF Picks
  <2>2. f[i] \in 1..Len(recent) /\ f[j] \in 1..Len(recent) /\ o[i] = recent[f[i]] /\ o[j] = recent[f[j]]
    BY <1>8
  <2>3. \A k, l \in 1..Len(recent) : k < l => recent[k].path # recent[l].path /\ recent[k].id > recent[l].id
    BY DEF RecentInv, NewestFirst
  <2> QED
    BY <2>1, <2>2, <2>3
<1>10. Len(o) \in Nat
  BY <1>6
<1>11. /\ s \in Seq(RecentEntries) /\ Len(s) = Len(o) + 1 /\ s[1] = e
       /\ \A i \in 2..Len(s) : s[i] = o[i - 1]
  <2>1. <<e>> \in Seq(RecentEntries) /\ Len(<<e>>) = 1 /\ <<e>>[1] = e
    BY <1>2
  <2>2. s \in Seq(RecentEntries) /\ Len(s) = 1 + Len(o) /\ s[1] = e
        /\ \A i \in 1..Len(s) : s[i] = IF i <= 1 THEN <<e>>[i] ELSE o[i - 1]
    BY <1>6, <2>1, ConcatProperties
  <2> QED
    BY <1>10, <2>2
<1> HIDE DEF s
<1>12. \A i \in 1..Len(s) : i = 1 \/ (i \in 2..Len(s) /\ i - 1 \in 1..Len(o))
  BY <1>10, <1>11
<1>13. \A i \in 1..Len(s) : s[i].id <= opens + 1
  <2> SUFFICES ASSUME NEW i \in 1..Len(s) PROVE s[i].id <= opens + 1
    OBVIOUS
  <2>1. CASE i = 1
    BY <1>1, <1>2, <1>11, <2>1
  <2>2. CASE i # 1
    <3>1. s[i] = o[i - 1] /\ i - 1 \in 1..Len(o)
      BY <1>11, <1>12, <2>2
    <3> QED
      BY <1>1, <1>8, <3>1
  <2> QED
    BY <2>1, <2>2
<1>14. \A i, j \in 1..Len(s) : i < j => s[i].path # s[j].path /\ s[i].id > s[j].id
  <2> SUFFICES ASSUME NEW i \in 1..Len(s), NEW j \in 1..Len(s), i < j
               PROVE  s[i].path # s[j].path /\ s[i].id > s[j].id
    OBVIOUS
  <2>1. j \in 2..Len(s) /\ j - 1 \in 1..Len(o) /\ s[j] = o[j - 1]
    BY <1>11, <1>12
  <2>2. CASE i = 1
    BY <1>1, <1>2, <1>8, <1>11, <2>1, <2>2
  <2>3. CASE i # 1
    <3>1. i - 1 \in 1..Len(o) /\ s[i] = o[i - 1] /\ i - 1 < j - 1
      BY <1>11, <1>12, <2>3
    <3> QED
      BY <1>9, <2>1, <3>1
  <2> QED
    BY <2>2, <2>3
<1>15. NewestFirst(s, opens + 1)
  BY <1>11, <1>13, <1>14 DEF NewestFirst
<1> QED
  BY <1>5, <1>15, TruncatedFront

LEMMA RecentStart == RecentInit => RecentInv
<1>1. NewestFirst(<<>>, 0)
  BY DEF NewestFirst
<1> QED
  BY <1>1, RecentAssumption DEF RecentInit, RecentInv

LEMMA RecentSteps == RecentInv /\ [RecentNext]_recentVars => RecentInv'
<1> SUFFICES ASSUME RecentInv, [RecentNext]_recentVars PROVE RecentInv'
  OBVIOUS
<1>0. /\ NewestFirst(<<>>, opens) /\ NewestFirst(<<>>, opens + 1)
      /\ Len(<<>>) <= RECENT_PROJECT_CAPACITY /\ opens \in Nat
  BY RecentAssumption DEF NewestFirst, RecentInv
<1>1. ASSUME NEW s, NewestFirst(s, opens) PROVE NewestFirst(s, opens + 1)
  <2>1. \A i \in 1..Len(s) : s[i].id \in Nat
    <3>1. \A i \in 1..Len(s) : s[i] \in RecentEntries
      BY <1>1 DEF NewestFirst
    <3>2. \A x \in RecentEntries : x.id \in Nat
      BY DEF RecentEntries
    <3> QED
      BY <3>1, <3>2
  <2> QED
    BY <1>0, <1>1, <2>1 DEF NewestFirst
<1>2. CASE \E p \in RecentPaths : RecordRecent(p)
  <2>1. PICK p \in RecentPaths : RecordRecent(p)
    BY <1>2
  <2>2. opens < MaxOpens /\ opens' = opens + 1 /\ recent' = Recorded(p)
    BY <2>1 DEF RecordRecent
  <2>3. NewestFirst(Recorded(p), opens + 1) /\ Len(Recorded(p)) <= RECENT_PROJECT_CAPACITY
    BY <2>2, RecordedFirst
  <2>4. /\ recentFile' \in [readable : BOOLEAN, list : Seq(RecentEntries)]
        /\ NewestFirst(recentFile'.list, opens + 1)
    <3>1. CASE recentFile' = recentFile
      BY <1>1, <3>1 DEF RecentInv
    <3>2. CASE recentFile' = [readable |-> TRUE, list |-> Recorded(p)]
      BY <2>3, <3>2 DEF NewestFirst
    <3>3. CASE recentFile' = [readable |-> FALSE, list |-> <<>>]
      BY <1>0, <3>3
    <3> QED
      BY <2>1, <3>1, <3>2, <3>3 DEF RecordRecent
  <2>5. opens' \in 0..MaxOpens
    BY <2>2, RecentAssumption DEF RecentInv
  <2> QED
    BY <2>2, <2>3, <2>4, <2>5 DEF RecentInv, NewestFirst
<1>3. CASE RecentRestart
  <2>1. opens' = opens
    BY <1>3 DEF RecentRestart
  <2>2. /\ recentFile' \in [readable : BOOLEAN, list : Seq(RecentEntries)]
        /\ NewestFirst(recentFile'.list, opens)
    <3>1. CASE recentFile' = recentFile
      BY <3>1 DEF RecentInv
    <3>2. CASE recentFile' = [readable |-> FALSE, list |-> <<>>]
      BY <1>0, <3>2
    <3> QED
      BY <1>3, <3>1, <3>2 DEF RecentRestart
  <2>3. NewestFirst(recent', opens) /\ Len(recent') <= RECENT_PROJECT_CAPACITY
    BY <1>0, <1>3, <2>2, TruncatedFront DEF RecentRestart
  <2> QED
    BY <2>1, <2>2, <2>3 DEF RecentInv, NewestFirst
<1>4. CASE UNCHANGED recentVars
  BY <1>4 DEF recentVars, RecentInv, NewestFirst
<1> QED
  BY <1>2, <1>3, <1>4 DEF RecentNext

(* record_recent_project and load_recent_projects keep the list bounded,   *)
(* free of duplicates and newest first, whichever saves failed.            *)
THEOREM RecentList == RecentSpec => [](RecentTypeOK /\ RecentsOrdered)
<1>1. RecentInv => RecentTypeOK /\ RecentsOrdered
  BY DEF RecentInv, NewestFirst, RecentTypeOK, RecentsOrdered
<1> QED
  BY <1>1, RecentStart, RecentSteps, PTL DEF RecentSpec

----------------------------------------------------------------------------
(* Workspaces: the members.                                                *)

MembersShape ==
  /\ wsMap \in [WorkspaceIds -> Lists]
  /\ wsFile \in [WorkspaceIds -> Lists]
  /\ confirmed \in [WorkspaceIds -> SUBSET Members]

(* A workspace that was not made has no members. *)
EmptyUntilMade ==
  \A w \in WorkspaceIds : /\ ~wsMap[w].made => wsMap[w].members = <<>>
                          /\ ~wsFile[w].made => wsFile[w].members = <<>>

MembersInv == MembersShape /\ EmptyUntilMade /\ ConfirmedMembersStay

(* A list of members gets longer. *)
LEMMA ExtendedList ==
  ASSUME MembersShape, NEW w \in WorkspaceIds, NEW new \in Seq(Members)
  PROVE  /\ Extended(w, new) \in Lists
         /\ Extended(w, new).made = wsMap[w].made
         /\ MemberSet(wsMap[w]) \subseteq MemberSet(Extended(w, new))
         /\ \A k \in DOMAIN new : new[k] \in MemberSet(Extended(w, new))
<1> DEFINE old == wsMap[w].members
           s == old \o new
<1>1. wsMap[w] \in Lists /\ old \in Seq(Members)
  BY DEF MembersShape, Lists
<1>2. Extended(w, new) = [wsMap[w] EXCEPT !.members = s]
  BY DEF Extended
<1>3. s \in Seq(Members) /\ Len(s) = Len(old) + Len(new) /\ Len(old) \in Nat /\ Len(new) \in Nat
      /\ \A i \in 1..Len(s) : s[i] = IF i <= Len(old) THEN old[i] ELSE new[i - Len(old)]
  BY <1>1, ConcatProperties
<1>4. \A x \in Lists : LET y == [x EXCEPT !.members = s] IN y \in Lists /\ y.members = s /\ y.made = x.made
  <2> HIDE DEF s
  <2> QED
    BY <1>3 DEF Lists
<1>5. Extended(w, new) \in Lists /\ Extended(w, new).made = wsMap[w].made /\ Extended(w, new).members = s
  BY <1>1, <1>2, <1>4
<1> HIDE DEF s
<1>6. DOMAIN s = 1..Len(s) /\ DOMAIN old = 1..Len(old) /\ DOMAIN new = 1..Len(new)
  BY <1>1, <1>3
<1>7. \A k \in DOMAIN old : k \in DOMAIN s /\ s[k] = old[k]
  BY <1>3, <1>6
<1>8. \A k \in DOMAIN new : Len(old) + k \in DOMAIN s /\ s[Len(old) + k] = new[k]
  <2> SUFFICES ASSUME NEW k \in 1..Len(new)
               PROVE  Len(old) + k \in 1..Len(s) /\ s[Len(old) + k] = new[k]
    BY <1>6
  <2>1. Len(old) + k \in 1..Len(s) /\ ~(Len(old) + k <= Len(old)) /\ (Len(old) + k) - Len(old) = k
    BY <1>3
  <2> QED
    BY <1>3, <2>1
<1> QED
  BY <1>5, <1>7, <1>8 DEF MemberSet

(* An addition: what was saved is confirmed, what was not only stays in    *)
(* memory.                                                                 *)
LEMMA MembersAdded ==
  ASSUME MembersInv, NEW w \in WorkspaceIds, wsMap[w].made, NEW new \in Seq(Members),
         wsMap' = [wsMap EXCEPT ![w] = Extended(w, new)],
         \/ /\ wsFile' = [wsFile EXCEPT ![w] = Extended(w, new)]
            /\ confirmed' = [confirmed EXCEPT ![w] = @ \cup {new[k] : k \in DOMAIN new}]
         \/ UNCHANGED <<wsFile, confirmed>>
  PROVE  MembersInv'
<1> DEFINE x == Extended(w, new)
<1>1. /\ x \in Lists /\ x.made /\ MemberSet(wsMap[w]) \subseteq MemberSet(x)
      /\ {new[k] : k \in DOMAIN new} \subseteq MemberSet(x)
  BY ExtendedList DEF MembersInv
<1> HIDE DEF x
<1>2. /\ wsMap' \in [WorkspaceIds -> Lists] /\ wsMap'[w] = x
      /\ \A v \in WorkspaceIds : v # w => wsMap'[v] = wsMap[v]
  BY <1>1 DEF MembersInv, MembersShape, x
<1>3. {new[k] : k \in DOMAIN new} \subseteq Members
  OBVIOUS
<1>4. /\ wsFile' \in [WorkspaceIds -> Lists]
      /\ confirmed' \in [WorkspaceIds -> SUBSET Members]
      /\ \A v \in WorkspaceIds : v # w => wsFile'[v] = wsFile[v] /\ confirmed'[v] = confirmed[v]
      /\ \/ wsFile'[w] = x /\ confirmed'[w] = confirmed[w] \cup {new[k] : k \in DOMAIN new}
         \/ wsFile'[w] = wsFile[w] /\ confirmed'[w] = confirmed[w]
  BY <1>1, <1>3 DEF MembersInv, MembersShape, x
<1>5. EmptyUntilMade'
  BY <1>1, <1>2, <1>4 DEF MembersInv, EmptyUntilMade
<1>6. \A v \in WorkspaceIds : confirmed'[v] \subseteq MemberSet(wsFile'[v]) \cap MemberSet(wsMap'[v])
  <2> SUFFICES ASSUME NEW v \in WorkspaceIds
               PROVE  confirmed'[v] \subseteq MemberSet(wsFile'[v]) \cap MemberSet(wsMap'[v])
    OBVIOUS
  <2>1. confirmed[v] \subseteq MemberSet(wsFile[v]) /\ confirmed[v] \subseteq MemberSet(wsMap[v])
    BY DEF MembersInv, ConfirmedMembersStay
  <2>2. CASE v # w
    BY <1>2, <1>4, <2>1, <2>2
  <2>3. CASE v = w
    BY <1>1, <1>2, <1>4, <2>1, <2>3
  <2> QED
    BY <2>2, <2>3
<1> QED
  BY <1>2, <1>4, <1>5, <1>6 DEF MembersInv, MembersShape, ConfirmedMembersStay, MemberSet

LEMMA MembersRest ==
  ASSUME MembersInv, UNCHANGED <<wsMap, wsFile, confirmed>>
  PROVE  MembersInv'
  BY DEF MembersInv, MembersShape, EmptyUntilMade, ConfirmedMembersStay, MemberSet

(* A new workspace is empty, in memory and on disk, as it was before. *)
LEMMA CreateWorkspaceMembers ==
  ASSUME MembersInv, NEW w \in WorkspaceIds, CreateWorkspace(w)
  PROVE  MembersInv'
<1> DEFINE x == [made |-> TRUE, members |-> <<>>]
<1>1. x \in Lists /\ x.made /\ x.members = <<>>
  BY DEF Lists
<1>2. /\ wsMap' = [wsMap EXCEPT ![w] = x] /\ wsFile' = [wsFile EXCEPT ![w] = x]
      /\ confirmed' = confirmed /\ ~wsMap[w].made
  BY DEF CreateWorkspace, SaveSucceeds
<1> HIDE DEF x
<1>3. confirmed[w] = {}
  BY <1>2 DEF MembersInv, EmptyUntilMade, ConfirmedMembersStay, MemberSet
<1> QED
  BY <1>1, <1>2, <1>3 DEF MembersInv, MembersShape, EmptyUntilMade, ConfirmedMembersStay, MemberSet

(* A removal takes out the members at one path, and nothing else. *)
LEMMA RemoveMemberMembers ==
  ASSUME MembersInv, NEW w \in WorkspaceIds, NEW p \in Paths, RemoveMember(w, p)
  PROVE  MembersInv'
<1> DEFINE old == wsMap[w].members
           keep == {m \in Items(old) : m.path # p}
           s == Retain(old, keep)
           x == [wsMap[w] EXCEPT !.members = s]
<1>1. wsMap[w] \in Lists /\ old \in Seq(Members)
  BY DEF MembersInv, MembersShape, Lists
<1>2. wsMap[w].made /\ wsMap' = [wsMap EXCEPT ![w] = x]
      /\ (wsFile' = [wsFile EXCEPT ![w] = wsMap'[w]] \/ wsFile' = wsFile)
      /\ confirmed' = [confirmed EXCEPT ![w] = {m \in confirmed[w] : m.path # p}]
  BY DEF RemoveMember, SaveSucceeds, SaveFails
<1>3. \A k \in DOMAIN old : old[k].path # p => old[k] \in keep
  BY DEF Items
<1> HIDE DEF keep
<1>4. s \in Seq(Members) /\ \E f : Picks(s, old, keep, Len(old), f)
  BY <1>1, RetainProperties
<1> HIDE DEF s
<1>5. \A k \in DOMAIN old : old[k].path # p => \E i \in DOMAIN s : s[i] = old[k]
  <2> SUFFICES ASSUME NEW k \in DOMAIN old, old[k].path # p
               PROVE  \E i \in DOMAIN s : s[i] = old[k]
    OBVIOUS
  <2>1. PICK f : Picks(s, old, keep, Len(old), f)
    BY <1>4
  <2>2. k \in 1..Len(old) /\ old[k] \in keep /\ DOMAIN s = 1..Len(s)
    BY <1>1, <1>3, <1>4
  <2>3. PICK i \in 1..Len(s) : f[i] = k
    BY <2>1, <2>2 DEF Picks
  <2>4. s[i] = old[k]
    BY <2>1, <2>3 DEF Picks
  <2> QED
    BY <2>2, <2>4
<1>6. x \in Lists /\ x.members = s /\ x.made = wsMap[w].made
  <2>1. \A y \in Lists : LET z == [y EXCEPT !.members = s] IN z \in Lists /\ z.members = s /\ z.made = y.made
    BY <1>4 DEF Lists
  <2> QED
    BY <1>1, <2>1
<1> HIDE DEF x
<1>7. \A m \in MemberSet(wsMap[w]) : m.path # p => m \in MemberSet(x)
  BY <1>5, <1>6 DEF MemberSet
<1>8. /\ wsMap' \in [WorkspaceIds -> Lists] /\ wsMap'[w] = x
      /\ \A v \in WorkspaceIds : v # w => wsMap'[v] = wsMap[v]
  BY <1>2, <1>6 DEF MembersInv, MembersShape
<1>9. /\ wsFile' \in [WorkspaceIds -> Lists]
      /\ confirmed' \in [WorkspaceIds -> SUBSET Members]
      /\ \A v \in WorkspaceIds : v # w => wsFile'[v] = wsFile[v] /\ confirmed'[v] = confirmed[v]
      /\ confirmed'[w] = {m \in confirmed[w] : m.path # p}
      /\ wsFile'[w] = x \/ wsFile'[w] = wsFile[w]
  BY <1>2, <1>6, <1>8 DEF MembersInv, MembersShape
<1>10. EmptyUntilMade'
  BY <1>2, <1>6, <1>8, <1>9 DEF MembersInv, EmptyUntilMade
<1>11. \A v \in WorkspaceIds : confirmed'[v] \subseteq MemberSet(wsFile'[v]) \cap MemberSet(wsMap'[v])
  <2> SUFFICES ASSUME NEW v \in WorkspaceIds
               PROVE  confirmed'[v] \subseteq MemberSet(wsFile'[v]) \cap MemberSet(wsMap'[v])
    OBVIOUS
  <2>1. confirmed[v] \subseteq MemberSet(wsFile[v]) /\ confirmed[v] \subseteq MemberSet(wsMap[v])
    BY DEF MembersInv, ConfirmedMembersStay
  <2>2. CASE v # w
    BY <1>8, <1>9, <2>1, <2>2
  <2>3. CASE v = w
    BY <1>7, <1>8, <1>9, <2>1, <2>3
  <2> QED
    BY <2>2, <2>3
<1> QED
  BY <1>8, <1>9, <1>10, <1>11 DEF MembersInv, MembersShape, ConfirmedMembersStay, MemberSet

(* After a restart the lists are those of the files. *)
LEMMA RestartMembers ==
  ASSUME MembersInv, Restart
  PROVE  MembersInv'
<1>1. wsMap' = wsFile /\ wsFile' = wsFile /\ confirmed' = confirmed
  BY DEF Restart
<1> QED
  BY <1>1 DEF MembersInv, MembersShape, EmptyUntilMade, ConfirmedMembersStay, MemberSet

----------------------------------------------------------------------------
(* Workspaces: the projects that answer for members.                       *)

FileStates    == [sha256 : Contents, version : Versions]
ProjectStates == [open : BOOLEAN, path : Paths, sha256 : Contents, version : Versions]
TodoEntries   == [member : Members, version : Versions]
DoneEntries   == [member : Members, id : ProjectIds, version : Versions]
WorkspaceJobs == [pc : {"idle", "hash", "open", "add"}, ws : WorkspaceIds,
                  todo : Seq(TodoEntries), done : SUBSET DoneEntries]

ProjectsShape ==
  /\ file \in [Paths -> FileStates]
  /\ project \in [ProjectIds -> {NoProject} \cup ProjectStates]
  /\ count \in 0..MaxProjects
  /\ job \in [Agents -> WorkspaceJobs]

(* A project was read from a version of its file; the current version has  *)
(* one content.                                                            *)
ReadFrom(x, f) ==
  x # NoProject => /\ x.version <= f[x.path].version
                   /\ x.version = f[x.path].version => x.sha256 = f[x.path].sha256

(* The member that was hashed last: of the version it was hashed at, the   *)
(* file and every project have the recorded content.                       *)
Hashed(n, f, pr) ==
  /\ n.version <= f[n.member.path].version
  /\ n.version = f[n.member.path].version => f[n.member.path].sha256 = n.member.sha256
  /\ \A i \in ProjectIds :
       pr[i] # NoProject /\ pr[i].path = n.member.path /\ pr[i].version = n.version =>
         pr[i].sha256 = n.member.sha256

AsRecorded(r, pr) ==
  /\ pr[r.id] # NoProject
  /\ pr[r.id].path = r.member.path
  /\ pr[r.id].sha256 = r.member.sha256 \/ pr[r.id].version # r.version

JobSound(j, f, pr) ==
  /\ j.pc = "open" => j.todo # <<>> /\ Hashed(j.todo[1], f, pr)
  /\ \A r \in j.done : AsRecorded(r, pr)

ProjectsInv ==
  /\ ProjectsShape
  /\ \A i \in ProjectIds : i > count => project[i] = NoProject
  /\ \A i \in ProjectIds : ReadFrom(project[i], file)
  /\ \A a \in Agents : JobSound(job[a], file, project)

LEMMA ProjectKinds ==
  ASSUME ProjectsShape, NEW i \in ProjectIds
  PROVE  /\ project[i] # NoProject => project[i] \in ProjectStates
         /\ project[i].open => project[i] # NoProject
  BY DEF ProjectsShape, NoProject

LEMMA NoJobIs == NoJob \in WorkspaceJobs /\ NoJob.pc = "idle" /\ NoJob.done = {}
<1>1. (CHOOSE w \in WorkspaceIds : TRUE) \in WorkspaceIds
  BY WorkspacesAssumption
<1> QED
  BY <1>1 DEF NoJob, WorkspaceJobs

(* New projects come from the current version of their file; projects that *)
(* are there keep what they were read from.  So jobs stay sound.           *)
LEMMA JobsKeepSound ==
  ASSUME ProjectsInv, NEW pr \in [ProjectIds -> {NoProject} \cup ProjectStates],
         \A i \in ProjectIds :
           \/ project[i] # NoProject /\ pr[i] # NoProject /\ pr[i].path = project[i].path
              /\ pr[i].sha256 = project[i].sha256 /\ pr[i].version = project[i].version
           \/ project[i] = NoProject /\ pr[i] = NoProject
           \/ project[i] = NoProject /\ pr[i] # NoProject
              /\ pr[i].sha256 = file[pr[i].path].sha256 /\ pr[i].version = file[pr[i].path].version
  PROVE  /\ \A i \in ProjectIds : ReadFrom(pr[i], file)
         /\ \A n \in TodoEntries : Hashed(n, file, project) => Hashed(n, file, pr)
         /\ \A r \in DoneEntries : AsRecorded(r, project) => AsRecorded(r, pr)
         /\ \A j \in WorkspaceJobs : JobSound(j, file, project) => JobSound(j, file, pr)
<1>1. \A i \in ProjectIds : ReadFrom(pr[i], file)
  <2> SUFFICES ASSUME NEW i \in ProjectIds, pr[i] # NoProject
               PROVE  /\ pr[i].version <= file[pr[i].path].version
                      /\ pr[i].version = file[pr[i].path].version => pr[i].sha256 = file[pr[i].path].sha256
    BY DEF ReadFrom
  <2>1. CASE project[i] # NoProject
    BY <2>1 DEF ProjectsInv, ReadFrom
  <2>2. CASE project[i] = NoProject
    <3>1. pr[i].sha256 = file[pr[i].path].sha256 /\ pr[i].version = file[pr[i].path].version
      BY <2>2
    <3>2. pr[i].path \in Paths
      BY DEF ProjectStates
    <3>3. file[pr[i].path].version \in Nat
      BY <3>2, WorkspacesAssumption DEF ProjectsInv, ProjectsShape, FileStates, Versions
    <3> QED
      BY <3>1, <3>3
  <2> QED
    BY <2>1, <2>2
<1>2. \A n \in TodoEntries : Hashed(n, file, project) => Hashed(n, file, pr)
  <2> SUFFICES ASSUME NEW n \in TodoEntries, Hashed(n, file, project), NEW i \in ProjectIds,
                      pr[i] # NoProject, pr[i].path = n.member.path, pr[i].version = n.version
               PROVE  pr[i].sha256 = n.member.sha256
    BY DEF Hashed
  <2> QED
    BY DEF Hashed
<1>3. \A r \in DoneEntries : AsRecorded(r, project) => AsRecorded(r, pr)
  <2> SUFFICES ASSUME NEW r \in DoneEntries, AsRecorded(r, project) PROVE AsRecorded(r, pr)
    OBVIOUS
  <2>1. r.id \in ProjectIds
    BY DEF DoneEntries
  <2> QED
    BY <2>1 DEF AsRecorded
<1>4. \A j \in WorkspaceJobs : JobSound(j, file, project) => JobSound(j, file, pr)
  <2> SUFFICES ASSUME NEW j \in WorkspaceJobs, JobSound(j, file, project)
               PROVE  JobSound(j, file, pr)
    OBVIOUS
  <2>1. j.todo \in Seq(TodoEntries) /\ j.done \subseteq DoneEntries
    BY DEF WorkspaceJobs
  <2>2. j.todo # <<>> => j.todo[1] \in TodoEntries
    BY <2>1, HeadTailProperties
  <2> QED
    BY <1>2, <1>3, <2>1, <2>2 DEF JobSound
<1> QED
  BY <1>1, <1>2, <1>3, <1>4

(* The steps that change a job, with the projects as they are or as open   *)
(* leaves them.                                                            *)
LEMMA JobChanges ==
  ASSUME ProjectsInv, NEW a \in Agents, NEW x \in WorkspaceJobs,
         job' = [job EXCEPT ![a] = x], file' = file,
         project' \in [ProjectIds -> {NoProject} \cup ProjectStates], count' \in 0..MaxProjects,
         \A i \in ProjectIds : i > count' => project'[i] = NoProject,
         \A i \in ProjectIds : ReadFrom(project'[i], file),
         \A j \in WorkspaceJobs : JobSound(j, file, project) => JobSound(j, file, project'),
         JobSound(x, file, project')
  PROVE  ProjectsInv'
<1>1. /\ job' \in [Agents -> WorkspaceJobs] /\ job'[a] = x
      /\ \A b \in Agents : b # a => job'[b] = job[b] /\ job[b] \in WorkspaceJobs
  BY DEF ProjectsInv, ProjectsShape
<1>2. \A b \in Agents : JobSound(job'[b], file, project')
  <2> SUFFICES ASSUME NEW b \in Agents PROVE JobSound(job'[b], file, project')
    OBVIOUS
  <2>1. CASE b = a
    BY <1>1, <2>1
  <2>2. CASE b # a
    BY <1>1, <2>2 DEF ProjectsInv
  <2> QED
    BY <2>1, <2>2
<1>3. file \in [Paths -> FileStates]
  BY DEF ProjectsInv, ProjectsShape
<1> QED
  BY <1>1, <1>2, <1>3 DEF ProjectsInv, ProjectsShape, JobSound, Hashed, AsRecorded, ReadFrom

LEMMA JobOnly ==
  ASSUME ProjectsInv, NEW a \in Agents, NEW x \in WorkspaceJobs,
         job' = [job EXCEPT ![a] = x], UNCHANGED <<file, project, count>>,
         JobSound(x, file, project)
  PROVE  ProjectsInv'
<1>1. /\ project' \in [ProjectIds -> {NoProject} \cup ProjectStates] /\ count' \in 0..MaxProjects
      /\ \A i \in ProjectIds : i > count' => project'[i] = NoProject
      /\ \A i \in ProjectIds : ReadFrom(project'[i], file)
  BY DEF ProjectsInv, ProjectsShape
<1>2. /\ \A j \in WorkspaceJobs : JobSound(j, file, project) => JobSound(j, file, project')
      /\ JobSound(x, file, project')
  OBVIOUS
<1> QED
  BY <1>1, <1>2, JobChanges

(* What open does to the projects. *)
LEMMA OpenedProject ==
  ASSUME ProjectsInv, NEW p \in Paths, NEW i \in ProjectIds, Opened(p, i), file' = file
  PROVE  /\ project' \in [ProjectIds -> {NoProject} \cup ProjectStates]
         /\ count' \in 0..MaxProjects
         /\ \A k \in ProjectIds : k > count' => project'[k] = NoProject
         /\ \A k \in ProjectIds : ReadFrom(project'[k], file)
         /\ \A n \in TodoEntries : Hashed(n, file, project) => Hashed(n, file, project')
         /\ \A r \in DoneEntries : AsRecorded(r, project) => AsRecorded(r, project')
         /\ \A j \in WorkspaceJobs : JobSound(j, file, project) => JobSound(j, file, project')
         /\ project'[i] \in ProjectStates /\ project'[i] # NoProject /\ project'[i].path = p
<1>0. /\ project \in [ProjectIds -> {NoProject} \cup ProjectStates] /\ count \in 0..MaxProjects
      /\ \A k \in ProjectIds : k > count => project[k] = NoProject
  BY DEF ProjectsInv, ProjectsShape
<1>1. CASE i \in OpenOn(p) /\ UNCHANGED <<project, count>>
  <2>1. project[i].open /\ project[i].path = p
    BY <1>1 DEF OpenOn
  <2>2. project[i] # NoProject /\ project[i] \in ProjectStates
    BY <2>1, ProjectKinds DEF ProjectsInv
  <2> QED
    BY <1>0, <1>1, <2>1, <2>2 DEF ProjectsInv
<1>2. CASE /\ OpenOn(p) = {} /\ count < MaxProjects /\ i = count + 1 /\ count' = count + 1
           /\ project' = [project EXCEPT ![i] =
                [open |-> TRUE, path |-> p, sha256 |-> file[p].sha256, version |-> file[p].version]]
  <2> DEFINE x == [open |-> TRUE, path |-> p, sha256 |-> file[p].sha256, version |-> file[p].version]
  <2>1. file[p] \in FileStates
    BY DEF ProjectsInv, ProjectsShape
  <2>2. /\ x \in ProjectStates /\ x.path = p /\ x.sha256 = file[p].sha256
        /\ x.version = file[p].version /\ x.open
    BY <2>1 DEF ProjectStates, FileStates
  <2>3. x # NoProject /\ project' = [project EXCEPT ![i] = x]
    BY <1>2, <2>2 DEF NoProject
  <2> HIDE DEF x
  <2>4. /\ project' \in [ProjectIds -> {NoProject} \cup ProjectStates] /\ project'[i] = x
        /\ \A k \in ProjectIds : k # i => project'[k] = project[k]
    BY <1>0, <2>2, <2>3
  <2>5. project[i] = NoProject
    BY <1>0, <1>2
  <2>6. count' \in 0..MaxProjects /\ \A k \in ProjectIds : k > count' => project'[k] = NoProject
    <3>1. MaxProjects \in Nat
      BY WorkspacesAssumption
    <3>2. \A k \in ProjectIds : k > count + 1 => k > count /\ k # count + 1
      BY <1>0, <3>1 DEF ProjectIds
    <3> QED
      BY <1>0, <1>2, <2>4, <3>1, <3>2
  <2>7. \A k \in ProjectIds :
           \/ project[k] # NoProject /\ project'[k] # NoProject /\ project'[k].path = project[k].path
              /\ project'[k].sha256 = project[k].sha256 /\ project'[k].version = project[k].version
           \/ project[k] = NoProject /\ project'[k] = NoProject
           \/ project[k] = NoProject /\ project'[k] # NoProject
              /\ project'[k].sha256 = file[project'[k].path].sha256
              /\ project'[k].version = file[project'[k].path].version
    BY <2>2, <2>3, <2>4, <2>5
  <2>8. /\ \A k \in ProjectIds : ReadFrom(project'[k], file)
        /\ \A n \in TodoEntries : Hashed(n, file, project) => Hashed(n, file, project')
        /\ \A r \in DoneEntries : AsRecorded(r, project) => AsRecorded(r, project')
        /\ \A j \in WorkspaceJobs : JobSound(j, file, project) => JobSound(j, file, project')
    BY <2>4, <2>7, JobsKeepSound
  <2> QED
    BY <2>2, <2>3, <2>4, <2>6, <2>8
<1> QED
  BY <1>1, <1>2 DEF Opened

(* A job with another place in its list. *)
JobAt(j, pc, t, d) == [j EXCEPT !.pc = pc, !.todo = t, !.done = d]

LEMMA JobUpdate ==
  ASSUME NEW j \in WorkspaceJobs, NEW pc \in {"idle", "hash", "open", "add"},
         NEW t \in Seq(TodoEntries), NEW d \in SUBSET DoneEntries
  PROVE  /\ JobAt(j, pc, t, d) \in WorkspaceJobs
         /\ JobAt(j, pc, t, d).pc = pc
         /\ JobAt(j, pc, t, d).todo = t
         /\ JobAt(j, pc, t, d).done = d
  BY DEF WorkspaceJobs, JobAt

LEMMA JobKept ==
  ASSUME NEW j \in WorkspaceJobs, NEW pc, NEW t
  PROVE  /\ [j EXCEPT !.pc = pc, !.todo = t] = JobAt(j, pc, t, j.done)
         /\ [j EXCEPT !.todo = t] = JobAt(j, j.pc, t, j.done)
  BY DEF WorkspaceJobs, JobAt

LEMMA StartOpenProjects ==
  ASSUME MembersInv, ProjectsInv, NEW a \in Agents, NEW w \in WorkspaceIds, StartOpen(a, w)
  PROVE  ProjectsInv'
<1> DEFINE m == wsMap[w].members
           t == [k \in DOMAIN m |-> [member |-> m[k], version |-> 0]]
           x == [pc |-> "hash", ws |-> w, done |-> {}, todo |-> t]
<1>1. m \in Seq(Members)
  BY DEF MembersInv, MembersShape, Lists
<1>2. job' = [job EXCEPT ![a] = x] /\ UNCHANGED <<file, project, count>>
  BY DEF StartOpen
<1> HIDE DEF m
<1>3. t \in Seq(TodoEntries)
  <2>1. \A k \in DOMAIN m : [member |-> m[k], version |-> 0] \in TodoEntries
    BY <1>1, WorkspacesAssumption DEF TodoEntries, Versions
  <2>2. DOMAIN m = 1..Len(m) /\ Len(m) \in Nat
    BY <1>1
  <2> QED
    BY <2>1, <2>2, IsASeq
<1> HIDE DEF t
<1>4. x \in WorkspaceJobs /\ x.pc = "hash" /\ x.done = {}
  BY <1>3 DEF WorkspaceJobs
<1> HIDE DEF x
<1>5. JobSound(x, file, project)
  BY <1>4 DEF JobSound
<1> QED
  BY <1>2, <1>4, <1>5, JobOnly

(* The hash is of the current version of the file. *)
LEMMA HashMemberProjects ==
  ASSUME ProjectsInv, NEW a \in Agents, HashMember(a)
  PROVE  ProjectsInv'
<1> DEFINE j == job[a]
           n == Head(j.todo)
           p == n.member.path
           u == [n EXCEPT !.version = file[p].version]
           t == <<u>> \o Tail(j.todo)
<1>1. j \in WorkspaceJobs /\ JobSound(j, file, project) /\ j.pc = "hash" /\ j.todo # <<>>
  BY DEF ProjectsInv, ProjectsShape, HashMember
<1>2. j.todo \in Seq(TodoEntries) /\ j.done \subseteq DoneEntries
  BY <1>1 DEF WorkspaceJobs
<1>3. n \in TodoEntries /\ Tail(j.todo) \in Seq(TodoEntries)
  BY <1>1, <1>2, HeadTailProperties
<1>4. p \in Paths /\ n.member \in Members
  BY <1>3 DEF TodoEntries, Members
<1>5. file[p] \in FileStates /\ file[p].version \in Versions /\ file[p].version \in Nat
  BY <1>4, WorkspacesAssumption DEF ProjectsInv, ProjectsShape, FileStates, Versions
<1>6. UNCHANGED <<file, project, count>>
  BY DEF HashMember
<1>7. CASE /\ file[p].sha256 = n.member.sha256
           /\ job' = [job EXCEPT ![a].pc = "open", ![a].todo = t]
  <2>1. u \in TodoEntries /\ u.member = n.member /\ u.version = file[p].version
    <3>1. \A y \in TodoEntries, v \in Versions : LET z == [y EXCEPT !.version = v] IN
            z \in TodoEntries /\ z.member = y.member /\ z.version = v
      BY DEF TodoEntries
    <3> QED
      BY <1>3, <1>5, <3>1
  <2> DEFINE x == JobAt(j, "open", t, j.done)
  <2>2. job' = [job EXCEPT ![a] = x]
    <3>1. job' = [job EXCEPT ![a] = [j EXCEPT !.pc = "open", !.todo = t]]
      BY <1>7
    <3> QED
      BY <1>1, <3>1, JobKept
  <2> HIDE DEF u
  <2>3. t \in Seq(TodoEntries) /\ t # <<>> /\ t[1] = u
    <3>1. <<u>> \in Seq(TodoEntries) /\ Len(<<u>>) = 1 /\ <<u>>[1] = u
      BY <2>1
    <3>2. /\ t \in Seq(TodoEntries) /\ Len(t) = 1 + Len(Tail(j.todo)) /\ Len(Tail(j.todo)) \in Nat
          /\ \A i \in 1..Len(t) : t[i] = IF i <= 1 THEN <<u>>[i] ELSE Tail(j.todo)[i - 1]
      BY <1>3, <3>1, ConcatProperties
    <3> QED
      BY <3>1, <3>2
  <2> HIDE DEF t
  <2>4. x \in WorkspaceJobs /\ x.pc = "open" /\ x.todo = t /\ x.done = j.done
    BY <1>1, <1>2, <2>3, JobUpdate
  <2>5. Hashed(u, file, project)
    <3>1. ASSUME NEW i \in ProjectIds, project[i] # NoProject, project[i].path = p,
                 project[i].version = file[p].version
          PROVE  project[i].sha256 = file[p].sha256
      BY <3>1 DEF ProjectsInv, ReadFrom
    <3>2. u.member.path = p /\ u.version <= file[p].version /\ u.member.sha256 = file[p].sha256
      BY <1>5, <1>7, <2>1
    <3> QED
      BY <2>1, <3>1, <3>2 DEF Hashed
  <2> HIDE DEF x
  <2>6. JobSound(x, file, project)
    BY <1>1, <2>3, <2>4, <2>5 DEF JobSound
  <2> QED
    BY <1>6, <2>2, <2>4, <2>6, JobOnly
<1>8. CASE Skip(a)
  <2> DEFINE x == JobAt(j, "hash", Tail(j.todo), j.done)
  <2>1. job' = [job EXCEPT ![a] = x]
    <3>1. job' = [job EXCEPT ![a] = [j EXCEPT !.todo = Tail(j.todo)]]
      BY <1>8 DEF Skip
    <3> QED
      BY <1>1, <3>1, JobKept
  <2>2. x \in WorkspaceJobs /\ x.pc = "hash" /\ x.done = j.done
    <3>1. j.done \in SUBSET DoneEntries
      BY <1>2
    <3>2. PICK rest \in Seq(TodoEntries) : rest = Tail(j.todo)
      BY <1>3
    <3> HIDE DEF j
    <3>3. LET y == JobAt(j, "hash", rest, j.done)
          IN  y \in WorkspaceJobs /\ y.pc = "hash" /\ y.done = j.done
      BY <1>1, <3>1, JobUpdate
    <3> QED
      BY <3>2, <3>3
  <2> HIDE DEF x
  <2>3. JobSound(x, file, project)
    BY <1>1, <2>2 DEF JobSound
  <2> QED
    BY <1>6, <2>1, <2>2, <2>3, JobOnly
<1> QED
  BY <1>7, <1>8 DEF HashMember

(* The project that open returns has the recorded content, or was read     *)
(* from another version than the hash.                                     *)
LEMMA OpenMemberProjects ==
  ASSUME ProjectsInv, NEW a \in Agents, OpenMember(a)
  PROVE  ProjectsInv'
<1> DEFINE j == job[a]
           n == Head(j.todo)
<1>1. j \in WorkspaceJobs /\ JobSound(j, file, project) /\ j.pc = "open"
  BY DEF ProjectsInv, ProjectsShape, OpenMember
<1>2. j.todo \in Seq(TodoEntries) /\ j.done \subseteq DoneEntries /\ j.todo # <<>>
  BY <1>1 DEF WorkspaceJobs, JobSound
<1>3. n \in TodoEntries /\ Tail(j.todo) \in Seq(TodoEntries) /\ n = j.todo[1]
  BY <1>2, HeadTailProperties
<1>4. n.member \in Members /\ n.member.path \in Paths /\ n.version \in Versions
  BY <1>3 DEF TodoEntries, Members
<1>5. Hashed(n, file, project)
  BY <1>1, <1>3 DEF JobSound
<1>6. file' = file
  BY DEF OpenMember
<1>7. CASE \E i \in ProjectIds :
             /\ Opened(n.member.path, i)
             /\ job' = [job EXCEPT ![a].pc = "hash", ![a].todo = Tail(@),
                        ![a].done = @ \cup {[member |-> n.member, id |-> i, version |-> n.version]}]
  <2>1. PICK i \in ProjectIds :
             /\ Opened(n.member.path, i)
             /\ job' = [job EXCEPT ![a].pc = "hash", ![a].todo = Tail(@),
                        ![a].done = @ \cup {[member |-> n.member, id |-> i, version |-> n.version]}]
    BY <1>7
  <2> DEFINE r == [member |-> n.member, id |-> i, version |-> n.version]
             d == j.done \cup {r}
             x == JobAt(j, "hash", Tail(j.todo), d)
  <2>2. job' = [job EXCEPT ![a] = x]
    BY <2>1 DEF JobAt
  <2>3. r \in DoneEntries /\ r.member = n.member /\ r.id = i /\ r.version = n.version
    BY <1>4 DEF DoneEntries
  <2> HIDE DEF r
  <2>4. d \in SUBSET DoneEntries
    BY <1>2, <2>3
  <2>5. x \in WorkspaceJobs /\ x.pc = "hash" /\ x.done = d
    <3>2. PICK rest \in Seq(TodoEntries) : rest = Tail(j.todo)
      BY <1>3
    <3> HIDE DEF d, j
    <3>3. LET y == JobAt(j, "hash", rest, d)
          IN  y \in WorkspaceJobs /\ y.pc = "hash" /\ y.done = d
      BY <1>1, <2>4, JobUpdate
    <3> QED
      BY <3>2, <3>3
  <2> HIDE DEF x
  <2>6. /\ project' \in [ProjectIds -> {NoProject} \cup ProjectStates]
        /\ count' \in 0..MaxProjects
        /\ \A k \in ProjectIds : k > count' => project'[k] = NoProject
        /\ \A k \in ProjectIds : ReadFrom(project'[k], file)
        /\ \A m \in TodoEntries : Hashed(m, file, project) => Hashed(m, file, project')
        /\ \A q \in DoneEntries : AsRecorded(q, project) => AsRecorded(q, project')
        /\ \A y \in WorkspaceJobs : JobSound(y, file, project) => JobSound(y, file, project')
        /\ project'[i] # NoProject /\ project'[i].path = n.member.path
    BY <1>4, <1>6, <2>1, OpenedProject
  <2>7. Hashed(n, file, project')
    BY <1>3, <1>5, <2>6
  <2>8. AsRecorded(r, project')
    BY <2>3, <2>6, <2>7 DEF AsRecorded, Hashed
  <2>9. JobSound(x, file, project')
    BY <1>1, <1>2, <2>5, <2>6, <2>8 DEF JobSound
  <2> QED
    BY <1>6, <2>2, <2>5, <2>6, <2>9, JobChanges
<1>8. CASE job' = [job EXCEPT ![a].pc = "hash", ![a].todo = Tail(@)] /\ UNCHANGED <<project, count>>
  <2> DEFINE x == JobAt(j, "hash", Tail(j.todo), j.done)
  <2>1. job' = [job EXCEPT ![a] = x]
    <3>1. job' = [job EXCEPT ![a] = [j EXCEPT !.pc = "hash", !.todo = Tail(j.todo)]]
      BY <1>8
    <3> QED
      BY <1>1, <3>1, JobKept
  <2>2. x \in WorkspaceJobs /\ x.pc = "hash" /\ x.done = j.done
    <3>1. j.done \in SUBSET DoneEntries
      BY <1>2
    <3>2. PICK rest \in Seq(TodoEntries) : rest = Tail(j.todo)
      BY <1>3
    <3> HIDE DEF j
    <3>3. LET y == JobAt(j, "hash", rest, j.done)
          IN  y \in WorkspaceJobs /\ y.pc = "hash" /\ y.done = j.done
      BY <1>1, <3>1, JobUpdate
    <3> QED
      BY <3>2, <3>3
  <2> HIDE DEF x
  <2>3. JobSound(x, file, project)
    BY <1>1, <2>2 DEF JobSound
  <2> QED
    BY <1>6, <1>8, <2>1, <2>2, <2>3, JobOnly
<1> QED
  BY <1>7, <1>8 DEF OpenMember

LEMMA IdleJob ==
  ASSUME NEW d \in SUBSET DoneEntries
  PROVE  /\ [NoJob EXCEPT !.done = d] \in WorkspaceJobs
         /\ [NoJob EXCEPT !.done = d].pc = "idle"
         /\ [NoJob EXCEPT !.done = d].done = d
<1>1. \A j \in WorkspaceJobs : LET y == [j EXCEPT !.done = d]
                               IN  y \in WorkspaceJobs /\ y.pc = j.pc /\ y.done = d
  BY DEF WorkspaceJobs
<1> QED
  BY <1>1, NoJobIs

(* A call that returns keeps what it reported as opened. *)
LEMMA EndOpenProjects ==
  ASSUME ProjectsInv, NEW a \in Agents, EndOpen(a)
  PROVE  ProjectsInv'
<1> DEFINE x == [NoJob EXCEPT !.done = job[a].done]
<1>1. job[a] \in WorkspaceJobs /\ JobSound(job[a], file, project)
  BY DEF ProjectsInv, ProjectsShape
<1>2. job[a].done \in SUBSET DoneEntries
  BY <1>1 DEF WorkspaceJobs
<1>3. x \in WorkspaceJobs /\ x.pc = "idle" /\ x.done = job[a].done
  BY <1>2, IdleJob
<1>4. job' = [job EXCEPT ![a] = x] /\ UNCHANGED <<file, project, count>>
  BY DEF EndOpen
<1> HIDE DEF x
<1>5. JobSound(x, file, project)
  BY <1>1, <1>3 DEF JobSound
<1> QED
  BY <1>3, <1>4, <1>5, JobOnly

LEMMA StartAddProjects ==
  ASSUME ProjectsInv, NEW a \in Agents, NEW w \in WorkspaceIds, StartAdd(a, w)
  PROVE  ProjectsInv'
<1> DEFINE x == [pc |-> "add", ws |-> w, done |-> {}, todo |-> <<>>]
<1>1. x \in WorkspaceJobs /\ x.pc = "add" /\ x.done = {}
  BY DEF WorkspaceJobs
<1>2. job' = [job EXCEPT ![a] = x] /\ UNCHANGED <<file, project, count>>
  BY DEF StartAdd
<1> HIDE DEF x
<1>3. JobSound(x, file, project)
  BY <1>1 DEF JobSound
<1> QED
  BY <1>1, <1>2, <1>3, JobOnly

(* add_files_to_workspace notes the path and the content of the project    *)
(* that open returned.                                                     *)
LEMMA OpenFileProjects ==
  ASSUME ProjectsInv, NEW a \in Agents, NEW p \in Paths, OpenFile(a, p)
  PROVE  ProjectsInv'
<1> DEFINE j == job[a]
<1>1. j \in WorkspaceJobs /\ JobSound(j, file, project) /\ j.pc = "add" /\ file' = file
  BY DEF ProjectsInv, ProjectsShape, OpenFile
<1>2. j.todo \in Seq(TodoEntries) /\ j.done \in SUBSET DoneEntries
  BY <1>1 DEF WorkspaceJobs
<1>3. PICK i \in ProjectIds :
        /\ Opened(p, i)
        /\ job' = [job EXCEPT ![a].todo = Append(@,
             [member |-> [path |-> p, sha256 |-> project'[i].sha256], version |-> 0])]
  BY DEF OpenFile
<1>4. /\ project' \in [ProjectIds -> {NoProject} \cup ProjectStates]
      /\ count' \in 0..MaxProjects
      /\ \A k \in ProjectIds : k > count' => project'[k] = NoProject
      /\ \A k \in ProjectIds : ReadFrom(project'[k], file)
      /\ \A y \in WorkspaceJobs : JobSound(y, file, project) => JobSound(y, file, project')
      /\ project'[i] \in ProjectStates
  BY <1>1, <1>3, OpenedProject
<1>5. project'[i].sha256 \in Contents
  BY <1>4 DEF ProjectStates
<1> DEFINE e == [member |-> [path |-> p, sha256 |-> project'[i].sha256], version |-> 0]
<1>6. e \in TodoEntries
  BY <1>5, WorkspacesAssumption DEF TodoEntries, Members, Versions
<1>7. job' = [job EXCEPT ![a] = [j EXCEPT !.todo = Append(j.todo, e)]]
  BY <1>3
<1> HIDE DEF e, j
<1>8. PICK t \in Seq(TodoEntries) : t = Append(j.todo, e)
  BY <1>2, <1>6, AppendProperties
<1>9. job' = [job EXCEPT ![a] = JobAt(j, "add", t, j.done)]
  BY <1>1, <1>7, <1>8, JobKept
<1>10. LET x == JobAt(j, "add", t, j.done)
       IN  x \in WorkspaceJobs /\ x.pc = "add" /\ x.done = j.done
  BY <1>1, <1>2, JobUpdate
<1>11. JobSound(JobAt(j, "add", t, j.done), file, project')
  <2>1. JobSound(j, file, project')
    BY <1>1, <1>4
  <2> QED
    BY <1>10, <2>1 DEF JobSound
<1> QED
  BY <1>1, <1>4, <1>9, <1>10, <1>11, JobChanges

LEMMA AddFilesProjects ==
  ASSUME ProjectsInv, NEW a \in Agents, AddFiles(a)
  PROVE  ProjectsInv'
<1>1. job' = [job EXCEPT ![a] = NoJob] /\ UNCHANGED <<file, project, count>>
  BY DEF AddFiles
<1>2. JobSound(NoJob, file, project)
  BY NoJobIs DEF JobSound
<1> QED
  BY <1>1, <1>2, NoJobIs, JobOnly

(* A closed project keeps what it was read from. *)
LEMMA ClosedProject ==
  ASSUME NEW y \in ProjectStates
  PROVE  LET z == [y EXCEPT !.open = FALSE]
         IN  /\ z \in ProjectStates /\ z # NoProject
             /\ z.path = y.path /\ z.sha256 = y.sha256 /\ z.version = y.version
<1> DEFINE z == [y EXCEPT !.open = FALSE]
<1>1. z \in ProjectStates /\ z.path = y.path /\ z.sha256 = y.sha256 /\ z.version = y.version
  BY DEF ProjectStates
<1>2. "path" \in DOMAIN z /\ "path" \notin DOMAIN NoProject
  BY DEF ProjectStates, NoProject
<1> QED
  BY <1>1, <1>2

LEMMA ProjectsOnly ==
  ASSUME ProjectsInv, UNCHANGED <<file, count>>,
         project' \in [ProjectIds -> {NoProject} \cup ProjectStates],
         \A i \in ProjectIds :
           \/ project[i] # NoProject /\ project'[i] # NoProject /\ project'[i].path = project[i].path
              /\ project'[i].sha256 = project[i].sha256 /\ project'[i].version = project[i].version
           \/ project[i] = NoProject /\ project'[i] = NoProject,
         job' = job \/ job' = [a \in Agents |-> NoJob]
  PROVE  ProjectsInv'
<1>1. /\ \A i \in ProjectIds : ReadFrom(project'[i], file)
      /\ \A j \in WorkspaceJobs : JobSound(j, file, project) => JobSound(j, file, project')
  BY JobsKeepSound
<1>2. job' \in [Agents -> WorkspaceJobs]
  BY NoJobIs DEF ProjectsInv, ProjectsShape
<1>3. \A a \in Agents : JobSound(job'[a], file, project')
  <2>1. JobSound(NoJob, file, project')
    BY NoJobIs DEF JobSound
  <2>2. \A a \in Agents : job[a] \in WorkspaceJobs /\ JobSound(job[a], file, project)
    BY DEF ProjectsInv, ProjectsShape
  <2> QED
    BY <1>1, <2>1, <2>2
<1>4. \A i \in ProjectIds : i > count => project'[i] = NoProject
  BY DEF ProjectsInv
<1>5. file \in [Paths -> FileStates] /\ count \in 0..MaxProjects
  BY DEF ProjectsInv, ProjectsShape
<1> QED
  BY <1>1, <1>2, <1>3, <1>4, <1>5 DEF ProjectsInv, ProjectsShape, JobSound, Hashed, AsRecorded, ReadFrom

LEMMA CloseMemberProjects ==
  ASSUME ProjectsInv, NEW i \in ProjectIds, CloseMember(i)
  PROVE  ProjectsInv'
<1>1. project[i] # NoProject /\ project[i] \in ProjectStates
  BY ProjectKinds DEF CloseMember, ProjectsInv
<1> DEFINE z == [project[i] EXCEPT !.open = FALSE]
<1>2. /\ z \in ProjectStates /\ z # NoProject /\ z.path = project[i].path
      /\ z.sha256 = project[i].sha256 /\ z.version = project[i].version
  BY <1>1, ClosedProject
<1>3. project' = [project EXCEPT ![i] = z] /\ UNCHANGED <<file, count, job>>
  BY DEF CloseMember
<1> HIDE DEF z
<1>4. /\ project' \in [ProjectIds -> {NoProject} \cup ProjectStates] /\ project'[i] = z
      /\ \A k \in ProjectIds : k # i => project'[k] = project[k]
  BY <1>2, <1>3 DEF ProjectsInv, ProjectsShape
<1>5. \A k \in ProjectIds :
         \/ project[k] # NoProject /\ project'[k] # NoProject /\ project'[k].path = project[k].path
            /\ project'[k].sha256 = project[k].sha256 /\ project'[k].version = project[k].version
         \/ project[k] = NoProject /\ project'[k] = NoProject
  BY <1>1, <1>2, <1>4
<1> QED
  BY <1>3, <1>4, <1>5, ProjectsOnly

LEMMA RestartProjects ==
  ASSUME ProjectsInv, Restart
  PROVE  ProjectsInv'
<1>1. /\ project' = [k \in ProjectIds |-> IF project[k].open THEN [project[k] EXCEPT !.open = FALSE]
                                                             ELSE project[k]]
      /\ UNCHANGED <<file, count>> /\ job' = [a \in Agents |-> NoJob]
  BY DEF Restart
<1>2. \A k \in ProjectIds :
         /\ project'[k] \in {NoProject} \cup ProjectStates
         /\ \/ project[k] # NoProject /\ project'[k] # NoProject /\ project'[k].path = project[k].path
               /\ project'[k].sha256 = project[k].sha256 /\ project'[k].version = project[k].version
            \/ project[k] = NoProject /\ project'[k] = NoProject
  <2> SUFFICES ASSUME NEW k \in ProjectIds
               PROVE  /\ project'[k] \in {NoProject} \cup ProjectStates
                      /\ \/ /\ project[k] # NoProject /\ project'[k] # NoProject
                            /\ project'[k].path = project[k].path
                            /\ project'[k].sha256 = project[k].sha256
                            /\ project'[k].version = project[k].version
                         \/ project[k] = NoProject /\ project'[k] = NoProject
    OBVIOUS
  <2>1. CASE project[k].open
    <3>1. project[k] # NoProject /\ project[k] \in ProjectStates
      BY <2>1, ProjectKinds DEF ProjectsInv
    <3> DEFINE z == [project[k] EXCEPT !.open = FALSE]
    <3>2. /\ z \in ProjectStates /\ z # NoProject /\ z.path = project[k].path
          /\ z.sha256 = project[k].sha256 /\ z.version = project[k].version
      BY <3>1, ClosedProject
    <3>3. project'[k] = z
      BY <1>1, <2>1
    <3> HIDE DEF z
    <3> QED
      BY <3>1, <3>2, <3>3
  <2>2. CASE ~project[k].open
    <3>1. project'[k] = project[k]
      BY <1>1, <2>2
    <3>2. project[k] \in {NoProject} \cup ProjectStates
      BY DEF ProjectsInv, ProjectsShape
    <3> QED
      BY <3>1, <3>2
  <2> QED
    BY <2>1, <2>2
<1>3. project' \in [ProjectIds -> {NoProject} \cup ProjectStates]
  BY <1>1, <1>2
<1> QED
  BY <1>1, <1>2, <1>3, ProjectsOnly

(* A file that is replaced has a version nothing was read from or hashed at. *)
LEMMA ReplaceFileProjects ==
  ASSUME ProjectsInv, NEW p \in Paths, NEW c \in Contents, ReplaceFile(p, c)
  PROVE  ProjectsInv'
<1> DEFINE y == [sha256 |-> c, version |-> file[p].version + 1]
<1>1. /\ file' = [file EXCEPT ![p] = y] /\ UNCHANGED <<project, count, job>>
      /\ file[p].version < MaxReplaced
  BY DEF ReplaceFile
<1>2. \A q \in Paths : file[q] \in FileStates /\ file[q].version \in Nat
  BY WorkspacesAssumption DEF ProjectsInv, ProjectsShape, FileStates, Versions
<1>3. y \in FileStates /\ y.version = file[p].version + 1
  BY <1>1, <1>2, WorkspacesAssumption DEF FileStates, Versions
<1> HIDE DEF y
<1>4. /\ file' \in [Paths -> FileStates] /\ file'[p] = y
      /\ \A q \in Paths : q # p => file'[q] = file[q]
  BY <1>1, <1>3 DEF ProjectsInv, ProjectsShape
<1>5. ASSUME NEW q \in Paths, NEW v \in Nat, v <= file[q].version
      PROVE  v <= file'[q].version /\ (v = file'[q].version => file'[q] = file[q] /\ v = file[q].version)
  <2>1. CASE q = p
    BY <1>2, <1>3, <1>4, <1>5, <2>1
  <2>2. CASE q # p
    BY <1>4, <1>5, <2>2
  <2> QED
    BY <2>1, <2>2
<1>6. \A i \in ProjectIds : ReadFrom(project[i], file')
  <2> SUFFICES ASSUME NEW i \in ProjectIds, project[i] # NoProject
               PROVE  ReadFrom(project[i], file')
    BY DEF ReadFrom
  <2>1. project[i] \in ProjectStates /\ ReadFrom(project[i], file)
    BY ProjectKinds DEF ProjectsInv
  <2>2. project[i].path \in Paths /\ project[i].version \in Nat
    BY <2>1, WorkspacesAssumption DEF ProjectStates, Versions
  <2> QED
    BY <1>5, <2>1, <2>2 DEF ReadFrom
<1>7. \A n \in TodoEntries : Hashed(n, file, project) => Hashed(n, file', project)
  <2> SUFFICES ASSUME NEW n \in TodoEntries, Hashed(n, file, project)
               PROVE  Hashed(n, file', project)
    OBVIOUS
  <2>1. n.member.path \in Paths /\ n.version \in Nat
    BY WorkspacesAssumption DEF TodoEntries, Members, Versions
  <2> QED
    BY <1>5, <2>1 DEF Hashed
<1>8. \A a \in Agents : JobSound(job[a], file', project)
  <2> SUFFICES ASSUME NEW a \in Agents PROVE JobSound(job[a], file', project)
    OBVIOUS
  <2>1. job[a] \in WorkspaceJobs /\ JobSound(job[a], file, project)
    BY DEF ProjectsInv, ProjectsShape
  <2>2. job[a].todo \in Seq(TodoEntries)
    BY <2>1 DEF WorkspaceJobs
  <2>3. job[a].todo # <<>> => job[a].todo[1] \in TodoEntries
    BY <2>2, HeadTailProperties
  <2> QED
    BY <1>7, <2>1, <2>3 DEF JobSound
<1>9. /\ project \in [ProjectIds -> {NoProject} \cup ProjectStates] /\ count \in 0..MaxProjects
      /\ job \in [Agents -> WorkspaceJobs] /\ \A i \in ProjectIds : i > count => project[i] = NoProject
  BY DEF ProjectsInv, ProjectsShape
<1> QED
  BY <1>1, <1>4, <1>6, <1>8, <1>9 DEF ProjectsInv, ProjectsShape, JobSound, Hashed, AsRecorded, ReadFrom

LEMMA ProjectsRest ==
  ASSUME ProjectsInv, UNCHANGED <<file, project, count, job>>
  PROVE  ProjectsInv'
  BY DEF ProjectsInv, ProjectsShape, JobSound, Hashed, AsRecorded, ReadFrom

----------------------------------------------------------------------------
(* Workspaces: the steps together.                                         *)

LEMMA AddProjectMembers ==
  ASSUME MembersInv, ProjectsInv, NEW w \in WorkspaceIds, NEW i \in ProjectIds, AddProject(w, i)
  PROVE  MembersInv'
<1>1. project[i].open /\ project[i] \in ProjectStates
  BY ProjectKinds DEF AddProject, ProjectsInv
<1>2. MemberOf(i) \in Members
  BY <1>1 DEF MemberOf, Members, ProjectStates
<1> DEFINE new == <<MemberOf(i)>>
<1>3. new \in Seq(Members) /\ {new[k] : k \in DOMAIN new} = {MemberOf(i)}
  <2> DEFINE m == MemberOf(i)
  <2> HIDE DEF m
  <2>1. <<m>> \in Seq(Members) /\ DOMAIN <<m>> = 1..1 /\ <<m>>[1] = m
    BY <1>2 DEF m
  <2>2. 1..1 = {1}
    OBVIOUS
  <2>3. {<<m>>[k] : k \in DOMAIN <<m>>} = {m}
    BY <2>1, <2>2
  <2> QED
    BY <2>1, <2>3 DEF m
<1>4. /\ wsMap[w].made /\ wsMap' = [wsMap EXCEPT ![w] = Extended(w, new)]
      /\ \/ /\ wsFile' = [wsFile EXCEPT ![w] = wsMap'[w]]
            /\ confirmed' = [confirmed EXCEPT ![w] = @ \cup {MemberOf(i)}]
         \/ UNCHANGED <<wsFile, confirmed>>
  BY DEF AddProject, SaveSucceeds, SaveFails
<1> HIDE DEF new
<1>5. wsMap'[w] = Extended(w, new)
  BY <1>4 DEF MembersInv, MembersShape
<1> QED
  BY <1>3, <1>4, <1>5, MembersAdded

LEMMA AddFilesMembers ==
  ASSUME MembersInv, ProjectsInv, NEW a \in Agents, AddFiles(a)
  PROVE  MembersInv'
<1> DEFINE w == job[a].ws
           t == job[a].todo
           new == [k \in DOMAIN t |-> t[k].member]
<1>1. w \in WorkspaceIds /\ t \in Seq(TodoEntries)
  BY DEF ProjectsInv, ProjectsShape, WorkspaceJobs
<1>2. \/ UNCHANGED <<wsMap, wsFile, confirmed>>
      \/ /\ wsMap[w].made /\ wsMap' = [wsMap EXCEPT ![w] = Extended(w, new)]
         /\ \/ /\ wsFile' = [wsFile EXCEPT ![w] = wsMap'[w]]
               /\ confirmed' = [confirmed EXCEPT ![w] = @ \cup {new[k] : k \in DOMAIN new}]
            \/ UNCHANGED <<wsFile, confirmed>>
  BY DEF AddFiles, SaveSucceeds, SaveFails
<1> HIDE DEF w, t
<1>3. new \in Seq(Members)
  <2>2. DOMAIN t = 1..Len(t) /\ Len(t) \in Nat
    BY <1>1
  <2>1. \A k \in DOMAIN t : t[k].member \in Members
    <3>1. \A k \in DOMAIN t : t[k] \in TodoEntries
      BY <1>1, <2>2
    <3>2. \A y \in TodoEntries : y.member \in Members
      BY DEF TodoEntries
    <3> QED
      BY <3>1, <3>2
  <2> QED
    BY <2>1, <2>2, IsASeq
<1> HIDE DEF new
<1>4. wsMap' = [wsMap EXCEPT ![w] = Extended(w, new)] => wsMap'[w] = Extended(w, new)
  BY <1>1 DEF MembersInv, MembersShape
<1> QED
  BY <1>1, <1>2, <1>3, <1>4, MembersAdded, MembersRest

WorkspaceInv == MembersInv /\ ProjectsInv

LEMMA WorkspaceStart == WorkspaceInit => WorkspaceInv
<1> SUFFICES ASSUME WorkspaceInit PROVE WorkspaceInv
  OBVIOUS
<1>1. Absent \in Lists /\ ~Absent.made /\ Absent.members = <<>>
  BY DEF Absent, Lists
<1>2. MembersInv
  <2>1. /\ wsMap = [w \in WorkspaceIds |-> Absent] /\ wsFile = [w \in WorkspaceIds |-> Absent]
        /\ confirmed = [w \in WorkspaceIds |-> {}]
    BY DEF WorkspaceInit
  <2>2. {} \in SUBSET Members
    OBVIOUS
  <2>3. MembersShape
    BY <1>1, <2>1, <2>2 DEF MembersShape
  <2>4. EmptyUntilMade /\ ConfirmedMembersStay
    BY <1>1, <2>1 DEF EmptyUntilMade, ConfirmedMembersStay
  <2> QED
    BY <2>3, <2>4 DEF MembersInv
<1>3. file \in [Paths -> FileStates] /\ count = 0 /\ count \in 0..MaxProjects
  <2>1. {0} \subseteq Versions /\ 0 \in 0..MaxProjects
    BY WorkspacesAssumption DEF Versions
  <2>2. [sha256 : Contents, version : {0}] \subseteq FileStates
    BY <2>1 DEF FileStates
  <2> QED
    BY <2>1, <2>2 DEF WorkspaceInit
<1>4. project = [i \in ProjectIds |-> NoProject] /\ job = [a \in Agents |-> NoJob]
  BY DEF WorkspaceInit
<1>5. JobSound(NoJob, file, project)
  BY NoJobIs DEF JobSound
<1> QED
  BY <1>2, <1>3, <1>4, <1>5, NoJobIs DEF WorkspaceInv, ProjectsInv, ProjectsShape, ReadFrom

LEMMA WorkspaceSteps == WorkspaceInv /\ [WorkspaceNext]_workspaceVars => WorkspaceInv'
<1> SUFFICES ASSUME MembersInv, ProjectsInv, [WorkspaceNext]_workspaceVars
             PROVE  MembersInv' /\ ProjectsInv'
  BY DEF WorkspaceInv
<1>1. ASSUME NEW w \in WorkspaceIds, WorkspaceStep(w) PROVE MembersInv' /\ ProjectsInv'
  <2>1. CASE CreateWorkspace(w)
    BY <2>1, CreateWorkspaceMembers, ProjectsRest DEF CreateWorkspace
  <2>2. CASE ReadIndex(w)
    BY <2>2, MembersRest, ProjectsRest DEF ReadIndex
  <2>3. ASSUME NEW i \in ProjectIds, AddProject(w, i) PROVE MembersInv' /\ ProjectsInv'
    BY <2>3, AddProjectMembers, ProjectsRest DEF AddProject
  <2>4. ASSUME NEW p \in Paths, RemoveMember(w, p) PROVE MembersInv' /\ ProjectsInv'
    BY <2>4, RemoveMemberMembers, ProjectsRest DEF RemoveMember
  <2> QED
    BY <1>1, <2>1, <2>2, <2>3, <2>4 DEF WorkspaceStep
<1>2. ASSUME NEW a \in Agents, AgentStep(a) PROVE MembersInv' /\ ProjectsInv'
  <2>1. ASSUME NEW w \in WorkspaceIds, StartOpen(a, w) PROVE MembersInv' /\ ProjectsInv'
    BY <2>1, MembersRest, StartOpenProjects DEF StartOpen
  <2>2. ASSUME NEW w \in WorkspaceIds, StartAdd(a, w) PROVE MembersInv' /\ ProjectsInv'
    BY <2>2, MembersRest, StartAddProjects DEF StartAdd
  <2>3. CASE HashMember(a)
    BY <2>3, MembersRest, HashMemberProjects DEF HashMember
  <2>4. CASE OpenMember(a)
    BY <2>4, MembersRest, OpenMemberProjects DEF OpenMember
  <2>5. CASE EndOpen(a)
    BY <2>5, MembersRest, EndOpenProjects DEF EndOpen
  <2>6. ASSUME NEW p \in Paths, OpenFile(a, p) PROVE MembersInv' /\ ProjectsInv'
    BY <2>6, MembersRest, OpenFileProjects DEF OpenFile
  <2>7. CASE AddFiles(a)
    BY <2>7, AddFilesMembers, AddFilesProjects
  <2> QED
    BY <1>2, <2>1, <2>2, <2>3, <2>4, <2>5, <2>6, <2>7 DEF AgentStep
<1>3. ASSUME NEW i \in ProjectIds, CloseMember(i) PROVE MembersInv' /\ ProjectsInv'
  BY <1>3, MembersRest, CloseMemberProjects DEF CloseMember
<1>4. ASSUME NEW p \in Paths, NEW c \in Contents, ReplaceFile(p, c) PROVE MembersInv' /\ ProjectsInv'
  BY <1>4, MembersRest, ReplaceFileProjects DEF ReplaceFile
<1>5. CASE Restart
  BY <1>5, RestartMembers, RestartProjects
<1>6. CASE UNCHANGED workspaceVars
  BY <1>6, MembersRest, ProjectsRest DEF workspaceVars
<1> QED
  BY <1>1, <1>2, <1>3, <1>4, <1>5, <1>6 DEF WorkspaceNext

(* add_project_to_workspace, add_files_to_workspace and                    *)
(* remove_from_workspace: a member that was added and saved stays in the   *)
(* map and in the file until it is removed, whichever saves fail and       *)
(* whenever the process restarts.                                          *)
THEOREM SavedMembersStay == WorkspaceSpec => []ConfirmedMembersStay
<1>1. WorkspaceInv => ConfirmedMembersStay
  BY DEF WorkspaceInv, MembersInv
<1> QED
  BY <1>1, WorkspaceStart, WorkspaceSteps, PTL DEF WorkspaceSpec

(* open_workspace: a member it reports as opened is open with the content  *)
(* the workspace recorded, or the project that answers was read from       *)
(* another version of the file than the hash.                              *)
THEOREM MembersOpenAsRecorded == WorkspaceSpec => []OpenedAsRecorded
<1>1. WorkspaceInv => OpenedAsRecorded
  BY DEF WorkspaceInv, ProjectsInv, JobSound, AsRecorded, OpenedAsRecorded
<1> QED
  BY <1>1, WorkspaceStart, WorkspaceSteps, PTL DEF WorkspaceSpec

----------------------------------------------------------------------------
(* The activity feed: sorting by timestamp.                                *)

FeedEvents == [t : Nat, session : Sessions, n : Nat]

(* The order of sort_by_key: by timestamp, then by position. *)
ComesBy(s, i, j) == s[i].t < s[j].t \/ (s[i].t = s[j].t /\ i <= j)
UpTo(s, j)       == {i \in DOMAIN s : ComesBy(s, i, j)}

LEMMA EventTimes ==
  ASSUME NEW s \in Seq(FeedEvents)
  PROVE  /\ Len(s) \in Nat /\ DOMAIN s = 1..Len(s)
         /\ \A i \in 1..Len(s) : s[i] \in FeedEvents /\ s[i].t \in Nat
<1>1. \A e \in FeedEvents : e.t \in Nat
  BY DEF FeedEvents
<1>2. Len(s) \in Nat /\ DOMAIN s = 1..Len(s)
  OBVIOUS
<1>3. \A i \in 1..Len(s) : s[i] \in FeedEvents
  BY ElementOfSeq
<1> QED
  BY <1>1, <1>2, <1>3

LEMMA RankGrows ==
  ASSUME NEW s \in Seq(FeedEvents), NEW i \in 1..Len(s), NEW j \in 1..Len(s)
  PROVE  /\ Rank(s, i) \in 1..Len(s)
         /\ ComesBy(s, i, j) /\ i # j => Rank(s, i) < Rank(s, j)
         /\ ComesBy(s, i, j) \/ ComesBy(s, j, i)
<1>1. /\ Len(s) \in Nat /\ DOMAIN s = 1..Len(s)
      /\ \A k \in 1..Len(s) : s[k].t \in Nat
  BY EventTimes
<1>2. \A k : Rank(s, k) = Cardinality(UpTo(s, k))
  BY DEF Rank, UpTo, ComesBy
<1>3. IsFiniteSet(1..Len(s)) /\ Cardinality(1..Len(s)) = Len(s)
  <2>1. 1 \in Int /\ Len(s) \in Int
    BY <1>1
  <2>2. IsFiniteSet(1..Len(s)) /\ Cardinality(1..Len(s)) = IF 1 > Len(s) THEN 0 ELSE Len(s) - 1 + 1
    BY <2>1, FS_Interval
  <2> QED
    BY <1>1, <2>2
<1>4. ASSUME NEW k \in 1..Len(s)
      PROVE  /\ IsFiniteSet(UpTo(s, k)) /\ Cardinality(UpTo(s, k)) \in 1..Len(s)
             /\ k \in UpTo(s, k)
  <2>1. UpTo(s, k) \in SUBSET (1..Len(s)) /\ k \in UpTo(s, k)
    BY <1>1 DEF UpTo, ComesBy
  <2>2. IsFiniteSet(UpTo(s, k)) /\ Cardinality(UpTo(s, k)) <= Len(s)
    BY <1>3, <2>1, FS_Subset
  <2>3. Cardinality(UpTo(s, k)) \in Nat
    BY <2>2, FS_CardinalityType
  <2>4. Cardinality(UpTo(s, k)) # 0
    BY <2>1, <2>2, FS_EmptySet
  <2> QED
    BY <1>1, <2>1, <2>2, <2>3, <2>4
<1>5. ComesBy(s, i, j) \/ ComesBy(s, j, i)
  <2>1. s[i].t \in Nat /\ s[j].t \in Nat /\ i \in Nat /\ j \in Nat
    BY <1>1
  <2> QED
    BY <2>1 DEF ComesBy
<1>6. ASSUME ComesBy(s, i, j), i # j PROVE Rank(s, i) < Rank(s, j)
  <2>1. UpTo(s, i) \in SUBSET UpTo(s, j)
    <3> SUFFICES ASSUME NEW k \in UpTo(s, i) PROVE k \in UpTo(s, j)
      OBVIOUS
    <3>1. k \in 1..Len(s) /\ ComesBy(s, k, i) /\ k \in DOMAIN s
      BY <1>1 DEF UpTo
    <3>2. s[k].t \in Nat /\ s[i].t \in Nat /\ s[j].t \in Nat /\ i \in Nat /\ j \in Nat /\ k \in Nat
      BY <1>1, <3>1
    <3>3. ComesBy(s, k, j)
      BY <1>6, <3>1, <3>2 DEF ComesBy
    <3> QED
      BY <3>1, <3>3 DEF UpTo
  <2>2. j \notin UpTo(s, i)
    <3>1. s[i].t \in Nat /\ s[j].t \in Nat /\ i \in Nat /\ j \in Nat
      BY <1>1
    <3> QED
      BY <1>6, <3>1 DEF UpTo, ComesBy
  <2>3. UpTo(s, i) # UpTo(s, j)
    BY <1>4, <2>2
  <2>4. IsFiniteSet(UpTo(s, j))
    BY <1>4
  <2>5. /\ Cardinality(UpTo(s, i)) <= Cardinality(UpTo(s, j))
        /\ Cardinality(UpTo(s, i)) # Cardinality(UpTo(s, j))
    BY <2>1, <2>3, <2>4, FS_Subset
  <2>6. Cardinality(UpTo(s, i)) \in Nat /\ Cardinality(UpTo(s, j)) \in Nat
    BY <1>4
  <2> QED
    BY <1>2, <2>5, <2>6
<1>7. Rank(s, i) \in 1..Len(s)
  BY <1>2, <1>4
<1> QED
  BY <1>5, <1>6, <1>7

(* Every rank is taken. *)
LEMMA RankFilled ==
  ASSUME NEW s \in Seq(FeedEvents), NEW k \in 1..Len(s)
  PROVE  \E i \in 1..Len(s) : Rank(s, i) = k
<1> DEFINE D == 1..Len(s)
           f == [i \in D |-> Rank(s, i)]
<1>1. Len(s) \in Nat /\ DOMAIN s = D
  BY EventTimes
<1>2. \A i \in D : Rank(s, i) \in D
  BY RankGrows
<1>3. \A i, j \in D : Rank(s, i) = Rank(s, j) => i = j
  <2> SUFFICES ASSUME NEW i \in D, NEW j \in D, Rank(s, i) = Rank(s, j), i # j PROVE FALSE
    OBVIOUS
  <2>1. ComesBy(s, i, j) \/ ComesBy(s, j, i)
    BY RankGrows
  <2>2. Rank(s, i) < Rank(s, j) \/ Rank(s, j) < Rank(s, i)
    BY <2>1, RankGrows
  <2>3. Rank(s, i) \in Nat /\ Rank(s, j) \in Nat
    BY <1>1, <1>2
  <2> QED
    BY <2>2, <2>3
<1>4. IsFiniteSet(D)
  <2>1. 1 \in Int /\ Len(s) \in Int
    BY <1>1
  <2> QED
    BY <2>1, FS_Interval
<1>5. k \in D
  OBVIOUS
<1> HIDE DEF D
<1>6. f \in Injection(D, D)
  BY <1>2, <1>3 DEF Injection, IsInjective
<1> HIDE DEF f
<1>7. f \in Surjection(D, D)
  BY <1>4, <1>6, FS_Injection
<1>8. PICK i \in D : f[i] = k
  BY <1>5, <1>7 DEF Surjection
<1> QED
  BY <1>8 DEF f, D

(* What sort_by_key returns: the same events, by their timestamps. *)
SortOf(s, r) ==
  /\ r \in Seq(FeedEvents)
  /\ Len(r) = Len(s)
  /\ \A k \in 1..Len(s) : \E i \in 1..Len(s) : r[k] = s[i]
  /\ \A i \in 1..Len(s) : \E k \in 1..Len(s) : r[k] = s[i]
  /\ \A k, l \in 1..Len(s) : k < l => r[k].t <= r[l].t

LEMMA SortedProperties ==
  ASSUME NEW s \in Seq(FeedEvents)
  PROVE  SortOf(s, Sorted(s))
<1> DEFINE at(k) == CHOOSE i \in 1..Len(s) : Rank(s, i) = k
<1>1. /\ Len(s) \in Nat /\ DOMAIN s = 1..Len(s)
      /\ \A i \in 1..Len(s) : s[i] \in FeedEvents /\ s[i].t \in Nat
  BY EventTimes
<1>2. Sorted(s) = [k \in 1..Len(s) |-> s[at(k)]]
  BY <1>1 DEF Sorted
<1>3. \A k \in 1..Len(s) : at(k) \in 1..Len(s) /\ Rank(s, at(k)) = k
  BY RankFilled
<1> HIDE DEF at
<1>4. \A k \in 1..Len(s) : s[at(k)] \in FeedEvents
  BY <1>1, <1>3
<1>5. Sorted(s) \in Seq(FeedEvents) /\ Len(Sorted(s)) = Len(s)
  BY <1>1, <1>2, <1>4
<1>6. \A k \in 1..Len(s) : Sorted(s)[k] = s[at(k)]
  BY <1>2
<1>7. ASSUME NEW i \in 1..Len(s) PROVE \E k \in 1..Len(s) : Sorted(s)[k] = s[i]
  <2>1. PICK k \in 1..Len(s) : k = Rank(s, i)
    BY RankGrows
  <2>2. at(k) \in 1..Len(s) /\ Rank(s, at(k)) = k
    BY <1>3
  <2>3. at(k) = i
    <3> SUFFICES ASSUME at(k) # i PROVE FALSE
      OBVIOUS
    <3>1. PICK j \in 1..Len(s) : j = at(k)
      BY <2>2
    <3>2. Rank(s, i) < Rank(s, j) \/ Rank(s, j) < Rank(s, i)
      BY <3>1, RankGrows
    <3> QED
      BY <1>1, <2>1, <2>2, <3>1, <3>2
  <2> QED
    BY <1>6, <2>3
<1>8. ASSUME NEW k \in 1..Len(s), NEW l \in 1..Len(s), k < l
      PROVE  Sorted(s)[k].t <= Sorted(s)[l].t
  <2>1. PICK i \in 1..Len(s) : i = at(k) /\ Rank(s, i) = k
    BY <1>3
  <2>2. PICK j \in 1..Len(s) : j = at(l) /\ Rank(s, j) = l
    BY <1>3
  <2>3. ~(ComesBy(s, j, i) /\ j # i)
    <3>1. ComesBy(s, j, i) /\ j # i => Rank(s, j) < Rank(s, i)
      BY RankGrows
    <3> QED
      BY <1>1, <1>8, <2>1, <2>2, <3>1
  <2>4. ComesBy(s, i, j)
    <3>1. ComesBy(s, i, j) \/ ComesBy(s, j, i)
      BY RankGrows
    <3>2. i # j
      BY <1>8, <2>1, <2>2
    <3> QED
      BY <2>3, <3>1, <3>2
  <2>5. s[i].t \in Nat /\ s[j].t \in Nat
    BY <1>1
  <2>6. s[i].t <= s[j].t
    BY <2>4, <2>5 DEF ComesBy
  <2> QED
    BY <1>6, <2>1, <2>2, <2>6
<1> QED
  BY <1>3, <1>5, <1>6, <1>7, <1>8 DEF SortOf

(* The last k of a list: all of it but the first d. *)
EndOf(S, s, k, r, d) ==
  /\ r \in Seq(S)
  /\ Len(r) <= k
  /\ Len(r) + d = Len(s)
  /\ \A i \in 1..Len(r) : r[i] = s[i + d]

LEMMA LastOfProperties ==
  ASSUME NEW S, NEW s \in Seq(S), NEW k \in Nat
  PROVE  \E d \in Nat : EndOf(S, s, k, LastOf(s, k), d)
<1>1. Len(s) \in Nat
  OBVIOUS
<1>2. CASE Len(s) <= k
  <2>1. LastOf(s, k) = s /\ Len(s) + 0 = Len(s) /\ \A i \in 1..Len(s) : s[i] = s[i + 0]
    BY <1>1, <1>2 DEF LastOf
  <2>2. EndOf(S, s, k, s, 0)
    BY <1>2, <2>1 DEF EndOf
  <2> QED
    BY <2>1, <2>2
<1>3. CASE Len(s) > k
  <2>0. Len(s) - k + 1 \in Nat /\ Len(s) - k + 1 >= 1
    BY <1>1, <1>3
  <2>1. PICK m \in Nat : m = Len(s) - k + 1 /\ m >= 1
    BY <2>0
  <2>2. PICK r : r = SubSeq(s, m, Len(s))
    OBVIOUS
  <2>3. LastOf(s, k) = r
    BY <1>1, <1>3, <2>1, <2>2 DEF LastOf
  <2>4. \A i \in m..Len(s) : s[i] \in S
    BY <1>1, <2>1
  <2>5. /\ r \in Seq(S) /\ Len(r) = IF m <= Len(s) THEN Len(s) - m + 1 ELSE 0
        /\ \A i \in 1..(Len(s) - m + 1) : r[i] = s[m + i - 1]
    <3>1. m \in Int /\ Len(s) \in Int
      BY <1>1
    <3> QED
      BY <2>2, <2>4, <3>1, SubSeqProperties
  <2>6. PICK d \in Nat : d = Len(s) - k
    BY <1>1, <1>3
  <2>7. Len(r) = k /\ k + d = Len(s) /\ Len(s) - m + 1 = k
    BY <1>1, <1>3, <2>1, <2>5, <2>6
  <2>8. ASSUME NEW i \in 1..k PROVE r[i] = s[i + d]
    <3>1. m + i - 1 = i + d
      BY <1>1, <2>1, <2>6
    <3> QED
      BY <2>5, <2>7, <3>1
  <2>9. EndOf(S, s, k, r, d)
    <3>0. r \in Seq(S)
      BY <2>5
    <3>1. Len(r) <= k /\ Len(r) + d = Len(s)
      BY <2>7
    <3>2. \A i \in 1..Len(r) : r[i] = s[i + d]
      BY <2>7, <2>8
    <3> QED
      BY <3>0, <3>1, <3>2 DEF EndOf
  <2> QED
    BY <2>3, <2>9
<1> QED
  BY <1>1, <1>2, <1>3

LEMMA ItemsOf ==
  ASSUME NEW S, NEW s \in Seq(S)
  PROVE  Items(s) = {s[i] : i \in 1..Len(s)} /\ Items(s) \subseteq S
  BY ElementOfSeq DEF Items

LEMMA LastOfItems ==
  ASSUME NEW S, NEW s \in Seq(S), NEW k \in Nat
  PROVE  LastOf(s, k) \in Seq(S) /\ Items(LastOf(s, k)) \subseteq Items(s)
<1>1. PICK r : r = LastOf(s, k)
  OBVIOUS
<1>0. PICK d \in Nat : EndOf(S, s, k, r, d)
  BY <1>1, LastOfProperties
<1>2. /\ r \in Seq(S) /\ Len(r) + d = Len(s)
      /\ \A i \in 1..Len(r) : r[i] = s[i + d]
  BY <1>0 DEF EndOf
<1>3. \A i \in 1..Len(r) : i + d \in 1..Len(s)
  <2>1. Len(r) \in Nat /\ Len(s) \in Nat
    BY <1>2
  <2> QED
    BY <1>2, <2>1
<1>4. Items(r) = {r[i] : i \in 1..Len(r)} /\ Items(s) = {s[i] : i \in 1..Len(s)}
  BY <1>2, ItemsOf
<1> QED
  BY <1>1, <1>2, <1>3, <1>4

LEMMA ConcatItems ==
  ASSUME NEW S, NEW s \in Seq(S), NEW r \in Seq(S)
  PROVE  s \o r \in Seq(S) /\ Items(s \o r) = Items(s) \cup Items(r)
<1>1. PICK c : c = s \o r
  OBVIOUS
<1>2. /\ c \in Seq(S) /\ Len(c) = Len(s) + Len(r)
      /\ \A i \in 1..(Len(s) + Len(r)) : c[i] = IF i <= Len(s) THEN s[i] ELSE r[i - Len(s)]
  BY <1>1, ConcatProperties
<1>3. Len(s) \in Nat /\ Len(r) \in Nat
  OBVIOUS
<1>4. /\ Items(c) = {c[i] : i \in 1..Len(c)} /\ Items(s) = {s[i] : i \in 1..Len(s)}
      /\ Items(r) = {r[i] : i \in 1..Len(r)}
  BY <1>2, ItemsOf
<1>5. ASSUME NEW i \in 1..Len(c) PROVE c[i] \in Items(s) \cup Items(r)
  <2>1. CASE i <= Len(s)
    BY <1>2, <1>3, <1>4, <2>1
  <2>2. CASE ~(i <= Len(s))
    <3>1. i - Len(s) \in 1..Len(r)
      BY <1>2, <1>3, <2>2
    <3> QED
      BY <1>2, <1>3, <1>4, <2>2, <3>1
  <2> QED
    BY <2>1, <2>2
<1>6. ASSUME NEW i \in 1..Len(s) PROVE s[i] \in Items(c)
  <2>1. i \in 1..Len(c) /\ i <= Len(s)
    BY <1>2, <1>3
  <2>2. c[i] = s[i]
    BY <1>2, <2>1
  <2> QED
    BY <1>4, <2>1, <2>2
<1>7. ASSUME NEW i \in 1..Len(r) PROVE r[i] \in Items(c)
  <2>0. /\ i + Len(s) \in 1..Len(c) /\ ~(i + Len(s) <= Len(s))
        /\ (i + Len(s)) - Len(s) = i
    BY <1>2, <1>3
  <2>1. PICK k \in 1..Len(c) : k = i + Len(s) /\ ~(k <= Len(s)) /\ k - Len(s) = i
    BY <2>0
  <2>2. c[k] = r[i]
    BY <1>2, <2>1
  <2> QED
    BY <1>4, <2>1, <2>2
<1>8. Items(c) \subseteq Items(s) \cup Items(r)
  BY <1>4, <1>5
<1>9. Items(s) \subseteq Items(c)
  BY <1>4, <1>6
<1>10. Items(r) \subseteq Items(c)
  BY <1>4, <1>7
<1> QED
  BY <1>1, <1>2, <1>8, <1>9, <1>10

LEMMA AppendItems ==
  ASSUME NEW S, NEW s \in Seq(S), NEW x \in S
  PROVE  Append(s, x) \in Seq(S) /\ Items(Append(s, x)) = Items(s) \cup {x}
<1>1. PICK c : c = Append(s, x)
  OBVIOUS
<1>2. /\ c \in Seq(S) /\ Len(c) = Len(s) + 1 /\ c[Len(s) + 1] = x
      /\ \A i \in 1..Len(s) : c[i] = s[i]
  BY <1>1, AppendProperties
<1>3. Len(s) \in Nat
  OBVIOUS
<1>4. Items(c) = {c[i] : i \in 1..Len(c)} /\ Items(s) = {s[i] : i \in 1..Len(s)}
  BY <1>2, ItemsOf
<1>5. \A i \in 1..Len(c) : i = Len(s) + 1 \/ i \in 1..Len(s)
  BY <1>2, <1>3
<1>6. (1..Len(s)) \subseteq 1..Len(c) /\ Len(s) + 1 \in 1..Len(c)
  BY <1>2, <1>3
<1> QED
  BY <1>1, <1>2, <1>4, <1>5, <1>6

(* merge_events *)
LEMMA MergedProperties ==
  ASSUME NEW tail \in Seq(FeedEvents), ring \in Seq(FeedEvents)
  PROVE  LET m == Merged(tail)
         IN  /\ m \in Seq(FeedEvents)
             /\ Len(m) <= ACTIVITY_CAPACITY
             /\ Items(m) \subseteq Items(tail) \cup Items(ring)
             /\ \A i, j \in 1..Len(m) : i < j => m[i].t <= m[j].t
             /\ \A e \in Items(tail) : e \in Items(m) \/ \A i \in 1..Len(m) : e.t <= m[i].t
<1>1. PICK all : all = tail \o ring
  OBVIOUS
<1>2. all \in Seq(FeedEvents) /\ Items(all) = Items(tail) \cup Items(ring)
  BY <1>1, ConcatItems
<1>3. PICK s : s = Sorted(all)
  OBVIOUS
<1>4. /\ s \in Seq(FeedEvents)
      /\ Len(s) = Len(all)
      /\ \A k \in 1..Len(s) : \E i \in 1..Len(s) : s[k] = all[i]
      /\ \A i \in 1..Len(s) : \E k \in 1..Len(s) : s[k] = all[i]
      /\ \A k, l \in 1..Len(s) : k < l => s[k].t <= s[l].t
  <2>1. SortOf(all, s)
    BY <1>2, <1>3, SortedProperties
  <2> QED
    BY <2>1 DEF SortOf
<1>5. Items(s) = Items(all)
  <2>1. Items(s) = {s[i] : i \in 1..Len(s)} /\ Items(all) = {all[i] : i \in 1..Len(s)}
    BY <1>2, <1>4, ItemsOf
  <2> QED
    BY <1>4, <2>1
<1>6. PICK m : m = Merged(tail)
  OBVIOUS
<1>7. m = LastOf(s, ACTIVITY_CAPACITY) /\ ACTIVITY_CAPACITY \in Nat
  BY <1>1, <1>3, <1>6, FeedAssumption DEF Merged
<1>8. PICK d \in Nat : /\ m \in Seq(FeedEvents) /\ Len(m) <= ACTIVITY_CAPACITY
                       /\ Len(m) + d = Len(s)
                       /\ \A i \in 1..Len(m) : m[i] = s[i + d]
  <2>1. PICK d \in Nat : EndOf(FeedEvents, s, ACTIVITY_CAPACITY, m, d)
    BY <1>4, <1>7, LastOfProperties
  <2> QED
    BY <2>1 DEF EndOf
<1>9. Items(m) \subseteq Items(s)
  BY <1>4, <1>7, LastOfItems
<1>10. Len(m) \in Nat /\ Len(s) \in Nat /\ \A i \in 1..Len(m) : i + d \in 1..Len(s)
  <2>1. Len(m) \in Nat /\ Len(s) \in Nat
    BY <1>4, <1>8
  <2> QED
    BY <1>8, <2>1
<1>11. ASSUME NEW i \in 1..Len(m), NEW j \in 1..Len(m), i < j PROVE m[i].t <= m[j].t
  <2>1. i + d \in 1..Len(s) /\ j + d \in 1..Len(s) /\ i + d < j + d
    BY <1>10, <1>11
  <2> QED
    BY <1>4, <1>8, <2>1
<1>12. ASSUME NEW e \in Items(tail), e \notin Items(m), NEW i \in 1..Len(m)
       PROVE  e.t <= m[i].t
  <2>1. e \in Items(s)
    BY <1>2, <1>5
  <2>2. PICK k \in 1..Len(s) : s[k] = e
    <3>1. Items(s) = {s[j] : j \in 1..Len(s)}
      BY <1>4, ItemsOf
    <3> QED
      BY <2>1, <3>1
  <2>3. k <= d
    <3> SUFFICES ASSUME k > d PROVE FALSE
      BY <1>8
    <3>1. PICK j \in 1..Len(m) : j + d = k
      <4>1. k - d \in 1..Len(m) /\ (k - d) + d = k
        BY <1>8, <1>10
      <4> QED
        BY <4>1
    <3>2. m[j] = e
      BY <1>8, <2>2, <3>1
    <3> QED
      BY <1>8, <1>12, <3>2, ItemsOf
  <2>4. i + d \in 1..Len(s) /\ k < i + d
    BY <1>10, <2>3
  <2> QED
    BY <1>4, <1>8, <2>2, <2>4
<1> QED
  BY <1>2, <1>5, <1>6, <1>8, <1>9, <1>11, <1>12

----------------------------------------------------------------------------
(* The activity feed: what holds of every event.                           *)

LogRecords     == [lines : Seq(FeedEvents), end : Ends]
SessionRecords == [image : Images, state : States, tail : Seq(FeedEvents)]

FeedShape ==
  /\ ring \in Seq(FeedEvents)
  /\ logs \in [Images -> LogRecords]
  /\ session \in [Sessions -> SessionRecords]
  /\ slot \in [Sessions -> FeedEvents \cup {NoEvent}]
  /\ recorded \in Nat
  /\ clock \in Nat

(* Its project is one that was opened, and its line is in the log of that  *)
(* project's image, unless it did not get there.                           *)
Held(e) ==
  /\ session[e.session].state # "none"
  /\ e.n \in unsaved \/ e \in Items(logs[session[e.session].image].lines)

(* It is no later than what its project is recording. *)
OnTime(e) ==
  /\ e.t <= clock
  /\ slot[e.session] # NoEvent => e.t <= slot[e.session].t

(* A line is in the log of its project's image. *)
InItsLog(e, i) == session[e.session].state # "none" /\ session[e.session].image = i

RingInOrder ==
  \A i, j \in 1..Len(ring) : i < j /\ ring[i].session = ring[j].session => ring[i].t <= ring[j].t

RingHeld  == \A e \in Items(ring) : Held(e) /\ OnTime(e)
TailsHeld == \A p \in Sessions : \A e \in Items(session[p].tail) : Held(e) /\ OnTime(e)
LinesHeld == \A i \in Images : \A e \in Items(logs[i].lines) : InItsLog(e, i) /\ OnTime(e)
SlotsHeld == \A p \in Sessions : slot[p] # NoEvent =>
                /\ slot[p].session = p
                /\ slot[p].t <= clock
                /\ Held(slot[p])

FeedInv ==
  /\ FeedShape
  /\ RingHeld
  /\ TailsHeld
  /\ LinesHeld
  /\ SlotsHeld
  /\ RingInOrder
  /\ Len(ring) <= ACTIVITY_CAPACITY

SessionsStay ==
  \A q \in Sessions : session[q].state # "none" =>
    session'[q].state # "none" /\ session'[q].image = session[q].image

(* A line that an append takes from the readable part is known as lost. *)
LinesStay ==
  /\ unsaved \subseteq unsaved'
  /\ \A i \in Images : \A e \in Items(logs[i].lines) : e \in Items(logs'[i].lines) \/ e.n \in unsaved'

LEMMA FeedRecords ==
  /\ \A e \in FeedEvents : e.t \in Nat /\ e.session \in Sessions /\ e.n \in Nat /\ e # NoEvent
  /\ \A r \in LogRecords : r.lines \in Seq(FeedEvents) /\ r.end \in Ends
  /\ \A r \in SessionRecords : r.image \in Images /\ r.state \in States /\ r.tail \in Seq(FeedEvents)
<1>1. \A e \in FeedEvents : e.t \in Nat /\ e.session \in Sessions /\ e.n \in Nat
  BY DEF FeedEvents
<1>2. NoEvent.session \notin Sessions
  BY DEF NoEvent, Sessions
<1>3. \A r \in LogRecords : r.lines \in Seq(FeedEvents) /\ r.end \in Ends
  BY DEF LogRecords
<1>4. \A r \in SessionRecords : r.image \in Images /\ r.state \in States /\ r.tail \in Seq(FeedEvents)
  BY DEF SessionRecords
<1> QED
  BY <1>1, <1>2, <1>3, <1>4

LEMMA HeldOn ==
  ASSUME FeedShape, SessionsStay, LinesStay
  PROVE  \A e \in FeedEvents : Held(e) => Held(e)'
<1> SUFFICES ASSUME NEW e \in FeedEvents, Held(e) PROVE Held(e)'
  OBVIOUS
<1>1. PICK q \in Sessions : q = e.session
  BY FeedRecords
<1>2. session[q].state # "none"
  BY <1>1 DEF Held
<1>3. PICK i \in Images : i = session[q].image
  BY FeedRecords DEF FeedShape
<1>4. session'[q].state # "none" /\ session'[q].image = i
  BY <1>2, <1>3 DEF SessionsStay
<1>5. e.n \in unsaved' \/ e \in Items(logs'[i].lines)
  BY <1>1, <1>3 DEF Held, LinesStay
<1> QED
  BY <1>1, <1>4, <1>5 DEF Held

(* What happens to a log. *)
LogAfter(log, e, new) ==
  /\ new \in LogRecords
  /\ Items(new.lines) \subseteq Items(log.lines) \cup {e}
  /\ \A x \in Items(log.lines) : x \in Items(new.lines) \/ x.n \in Overwritten(log)

LEMMA LinesShortened ==
  ASSUME NEW s \in Seq(FeedEvents)
  PROVE  /\ SubSeq(s, 1, Len(s) - 1) \in Seq(FeedEvents)
         /\ Items(SubSeq(s, 1, Len(s) - 1)) \subseteq Items(s)
         /\ \A x \in Items(s) : x \in Items(SubSeq(s, 1, Len(s) - 1)) \/ x = s[Len(s)]
<1>1. PICK n \in Nat : n = Len(s)
  OBVIOUS
<1>2. PICK r : r = SubSeq(s, 1, n - 1)
  OBVIOUS
<1>3. \A i \in 1..(n - 1) : s[i] \in FeedEvents
  BY <1>1
<1>4. /\ r \in Seq(FeedEvents) /\ Len(r) = IF 1 <= n - 1 THEN n - 1 - 1 + 1 ELSE 0
      /\ \A i \in 1..(n - 1 - 1 + 1) : r[i] = s[1 + i - 1]
  <2>1. 1 \in Int /\ n - 1 \in Int
    OBVIOUS
  <2> QED
    BY <1>2, <1>3, <2>1, SubSeqProperties
<1>5. \A i \in 1..(n - 1) : r[i] = s[i]
  BY <1>4
<1>6. Len(r) = n - 1 \/ (n = 0 /\ Len(r) = 0)
  BY <1>4
<1>7. Items(r) = {r[i] : i \in 1..Len(r)} /\ Items(s) = {s[i] : i \in 1..n}
  BY <1>1, <1>4, ItemsOf
<1>8. \A i \in 1..Len(r) : i \in 1..n /\ i \in 1..(n - 1)
  BY <1>6
<1>9. \A i \in 1..n : i = n \/ (i \in 1..(n - 1) /\ i \in 1..Len(r))
  BY <1>6
<1> QED
  BY <1>1, <1>2, <1>4, <1>5, <1>7, <1>8, <1>9

LEMMA LogChanges ==
  ASSUME NEW log \in LogRecords, NEW e \in FeedEvents
  PROVE  /\ \A new \in {log, Appended(log, e)} \cup Cut(log, e) : LogAfter(log, e, new)
         /\ log.end = "clean" => e \in Items(Appended(log, e).lines)
         /\ log.end = "clean" => Overwritten(log) = {}
<1>0. PICK s \in Seq(FeedEvents), end \in Ends : log = [lines |-> s, end |-> end]
  BY DEF LogRecords
<1>1. log.lines = s /\ log.end = end
  BY <1>0
<1>2. \A r \in Seq(FeedEvents), d \in Ends : LET new == [lines |-> r, end |-> d]
        IN  new \in LogRecords /\ new.lines = r
  BY DEF LogRecords
<1>3. {"clean", "unended", "torn", "broken"} = Ends
  BY DEF Ends
<1>4. \A d \in Ends : LogAfter(log, e, [lines |-> s, end |-> d])
  BY <1>1, <1>2 DEF LogAfter
<1>5. Append(s, e) \in Seq(FeedEvents) /\ Items(Append(s, e)) = Items(s) \cup {e}
  BY AppendItems
<1>6. \A d \in Ends : LogAfter(log, e, [lines |-> Append(s, e), end |-> d])
  BY <1>1, <1>2, <1>5 DEF LogAfter
<1>7. CASE end = "clean"
  <2>1. Appended(log, e) = [lines |-> Append(s, e), end |-> "clean"]
    BY <1>0, <1>7 DEF Appended
  <2>2. Cut(log, e) = {[lines |-> s, end |-> "torn"], [lines |-> Append(s, e), end |-> "unended"]}
    BY <1>0, <1>7 DEF Cut
  <2>3. Overwritten(log) = {}
    BY <1>1, <1>7 DEF Overwritten
  <2>4. e \in Items(Appended(log, e).lines)
    <3>1. Appended(log, e).lines = Append(s, e)
      BY <2>1
    <3> QED
      BY <1>5, <3>1
  <2>5. \A new \in {log, Appended(log, e)} \cup Cut(log, e) : LogAfter(log, e, new)
    BY <1>0, <1>3, <1>4, <1>6, <2>1, <2>2
  <2> QED
    BY <2>3, <2>4, <2>5
<1>8. CASE end = "unended"
  <2>1. PICK r : r = SubSeq(s, 1, Len(s) - 1)
    OBVIOUS
  <2>2. /\ r \in Seq(FeedEvents) /\ Items(r) \subseteq Items(s)
        /\ \A x \in Items(s) : x \in Items(r) \/ x = s[Len(s)]
    BY <2>1, LinesShortened
  <2>3. Appended(log, e) = [lines |-> r, end |-> "broken"]
    BY <1>0, <1>8, <2>1 DEF Appended
  <2>4. Cut(log, e) = {[lines |-> r, end |-> "broken"]}
    BY <1>0, <1>8, <2>3 DEF Cut
  <2>5. Overwritten(log) = {s[Len(s)].n}
    BY <1>1, <1>8 DEF Overwritten
  <2>6. LogAfter(log, e, [lines |-> r, end |-> "broken"])
    BY <1>1, <1>2, <1>3, <2>2, <2>5 DEF LogAfter
  <2> QED
    BY <1>0, <1>1, <1>4, <1>8, <2>3, <2>4, <2>6
<1>9. CASE end \in {"torn", "broken"}
  <2>1. Appended(log, e) = [lines |-> s, end |-> "broken"]
    BY <1>0, <1>9 DEF Appended
  <2>2. Cut(log, e) = {[lines |-> s, end |-> "broken"]}
    BY <1>0, <1>9, <2>1 DEF Cut
  <2> QED
    BY <1>0, <1>1, <1>3, <1>4, <1>9, <2>1, <2>2
<1> QED
  BY <1>3, <1>7, <1>8, <1>9

(* An append, whole or not, to the log of project p. *)
LEMMA LogStep ==
  ASSUME FeedShape, NEW p \in Sessions, NEW e \in FeedEvents,
         NEW new \in {Log(p), Appended(Log(p), e)} \cup Cut(Log(p), e),
         logs' = [logs EXCEPT ![session[p].image] = new],
         unsaved \cup Overwritten(Log(p)) \subseteq unsaved'
  PROVE  /\ logs' \in [Images -> LogRecords]
         /\ LinesStay
         /\ logs'[session[p].image] = new
         /\ \A i \in Images : \A x \in Items(logs'[i].lines) :
              x \in Items(logs[i].lines) \/ (i = session[p].image /\ x = e)
<1>1. PICK i \in Images : i = session[p].image
  BY FeedRecords DEF FeedShape
<1>2. PICK log \in LogRecords : log = Log(p) /\ log = logs[i]
  BY <1>1 DEF FeedShape, Log
<1>3. LogAfter(log, e, new)
  BY <1>2, LogChanges
<1>4. /\ new \in LogRecords
      /\ Items(new.lines) \subseteq Items(log.lines) \cup {e}
      /\ \A x \in Items(log.lines) : x \in Items(new.lines) \/ x.n \in Overwritten(log)
  BY <1>3 DEF LogAfter
<1>5. /\ logs' \in [Images -> LogRecords] /\ logs'[i] = new
      /\ \A j \in Images : j # i => logs'[j] = logs[j]
  BY <1>1, <1>4 DEF FeedShape
<1>6. LinesStay
  BY <1>2, <1>4, <1>5 DEF LinesStay
<1> QED
  BY <1>1, <1>2, <1>4, <1>5, <1>6

----------------------------------------------------------------------------
(* The activity feed: its steps.                                           *)

(* An event stays on time when the clock and its project's slot only move  *)
(* on.                                                                     *)
LEMMA OnTimeOn ==
  ASSUME UNCHANGED <<clock, slot>>
  PROVE  \A e \in FeedEvents : OnTime(e) => OnTime(e)'
  BY DEF OnTime

(* Steps that keep the log, the slots and the clock. *)
LEMMA SessionStep ==
  ASSUME FeedInv, SessionsStay, UNCHANGED <<logs, slot, recorded, clock, unsaved>>,
         session' \in [Sessions -> SessionRecords]
  PROVE  /\ \A e \in FeedEvents : Held(e) /\ OnTime(e) => Held(e)' /\ OnTime(e)'
         /\ LinesHeld'
         /\ SlotsHeld'
<1>1. LinesStay /\ FeedShape
  BY DEF LinesStay, FeedInv
<1>2. \A e \in FeedEvents : Held(e) => Held(e)'
  BY <1>1, HeldOn
<1>3. \A e \in FeedEvents : OnTime(e) => OnTime(e)'
  BY OnTimeOn
<1>4. LinesHeld'
  <2> SUFFICES ASSUME NEW i \in Images, NEW e \in Items(logs[i].lines)
               PROVE  InItsLog(e, i)' /\ OnTime(e)'
    BY DEF LinesHeld
  <2>1. logs[i].lines \in Seq(FeedEvents)
    BY <1>1, FeedRecords DEF FeedShape
  <2>2. e \in FeedEvents
    BY <2>1, ItemsOf
  <2>3. InItsLog(e, i) /\ OnTime(e)
    BY DEF FeedInv, LinesHeld
  <2>4. e.session \in Sessions
    BY <2>2, FeedRecords
  <2>5. InItsLog(e, i)'
    BY <2>3, <2>4 DEF InItsLog, SessionsStay
  <2> QED
    BY <1>3, <2>2, <2>3, <2>5
<1>5. SlotsHeld'
  <2> SUFFICES ASSUME NEW p \in Sessions, slot[p] # NoEvent
               PROVE  slot[p].session = p /\ slot[p].t <= clock /\ Held(slot[p])'
    BY DEF SlotsHeld
  <2>1. slot[p].session = p /\ slot[p].t <= clock /\ Held(slot[p])
    BY DEF FeedInv, SlotsHeld
  <2>2. PICK e \in FeedEvents : e = slot[p]
    BY <1>1 DEF FeedShape
  <2>3. Held(e)'
    BY <1>2, <2>1, <2>2
  <2>4. e = slot'[p]
    BY <2>2
  <2> QED
    BY <2>1, <2>2, <2>3, <2>4 DEF Held
<1> QED
  BY <1>2, <1>3, <1>4, <1>5

LEMMA ReadTailKeeps ==
  ASSUME FeedInv, NEW p \in Sessions, NEW i \in Images, ReadTail(p, i)
  PROVE  FeedInv'
<1> DEFINE new == [image |-> i, state |-> "merging", tail |-> LastOf(logs[i].lines, ACTIVITY_CAPACITY)]
<1>1. /\ session[p].state = "none" /\ session' = [session EXCEPT ![p] = new]
      /\ UNCHANGED <<ring, logs, slot, recorded, clock, unsaved>>
  BY DEF ReadTail
<1>2. FeedShape /\ logs[i].lines \in Seq(FeedEvents) /\ ACTIVITY_CAPACITY \in Nat
  BY FeedRecords, FeedAssumption DEF FeedInv, FeedShape
<1>3. PICK tail \in Seq(FeedEvents) : /\ tail = LastOf(logs[i].lines, ACTIVITY_CAPACITY)
                                      /\ Items(tail) \subseteq Items(logs[i].lines)
  BY <1>2, LastOfItems
<1>4. /\ new \in SessionRecords /\ new.image = i /\ new.state # "none" /\ new.tail = tail
  BY <1>3 DEF SessionRecords, States
<1> HIDE DEF new
<1>5. /\ session' \in [Sessions -> SessionRecords] /\ session'[p] = new
      /\ \A q \in Sessions : q # p => session'[q] = session[q]
  BY <1>1, <1>2, <1>4 DEF FeedShape
<1>6. SessionsStay
  BY <1>1, <1>5 DEF SessionsStay
<1>7. /\ \A e \in FeedEvents : Held(e) /\ OnTime(e) => Held(e)' /\ OnTime(e)'
      /\ LinesHeld'
      /\ SlotsHeld'
  BY <1>1, <1>5, <1>6, SessionStep
<1>8. FeedShape'
  BY <1>1, <1>2, <1>5 DEF FeedShape
<1>9. Items(ring) \subseteq FeedEvents
  BY <1>2, ItemsOf DEF FeedShape
<1>10. RingHeld'
  BY <1>1, <1>7, <1>9 DEF FeedInv, RingHeld
<1>11. TailsHeld'
  <2> SUFFICES ASSUME NEW q \in Sessions, NEW e \in Items(session'[q].tail)
               PROVE  Held(e)' /\ OnTime(e)'
    BY DEF TailsHeld
  <2>1. CASE q = p
    <3>1. e \in Items(logs[i].lines) /\ e \in FeedEvents
      BY <1>2, <1>3, <1>4, <1>5, <2>1, ItemsOf
    <3>2. InItsLog(e, i) /\ OnTime(e)
      BY <3>1 DEF FeedInv, LinesHeld
    <3>3. Held(e)
      BY <3>1, <3>2 DEF Held, InItsLog
    <3> QED
      BY <1>7, <3>1, <3>2, <3>3
  <2>2. CASE q # p
    <3>1. e \in Items(session[q].tail) /\ session[q].tail \in Seq(FeedEvents)
      BY <1>2, <1>5, <2>2, FeedRecords DEF FeedShape
    <3>2. e \in FeedEvents
      BY <3>1, ItemsOf
    <3> QED
      BY <1>7, <3>1, <3>2 DEF FeedInv, TailsHeld
  <2> QED
    BY <2>1, <2>2
<1>12. RingInOrder' /\ Len(ring') <= ACTIVITY_CAPACITY
  BY <1>1 DEF FeedInv, RingInOrder
<1> QED
  BY <1>7, <1>8, <1>10, <1>11, <1>12 DEF FeedInv

(* Steps that move a project, or all, on from where they are, and may drop *)
(* tails.                                                                  *)
SessionsMove ==
  /\ session' \in [Sessions -> SessionRecords]
  /\ SessionsStay
  /\ \A q \in Sessions : session'[q].tail = session[q].tail \/ session'[q].tail = <<>>

LEMMA NoItems == Items(<<>>) = {}
  BY DEF Items

LEMMA MoveKeepsTails ==
  ASSUME FeedInv, SessionsMove, UNCHANGED <<logs, slot, recorded, clock, unsaved>>
  PROVE  TailsHeld' /\ LinesHeld' /\ SlotsHeld'
         /\ \A e \in FeedEvents : Held(e) /\ OnTime(e) => Held(e)' /\ OnTime(e)'
<1>1. /\ \A e \in FeedEvents : Held(e) /\ OnTime(e) => Held(e)' /\ OnTime(e)'
      /\ LinesHeld'
      /\ SlotsHeld'
  BY SessionStep DEF SessionsMove
<1>2. TailsHeld'
  <2> SUFFICES ASSUME NEW q \in Sessions, NEW e \in Items(session'[q].tail)
               PROVE  Held(e)' /\ OnTime(e)'
    BY DEF TailsHeld
  <2>1. e \in Items(session[q].tail) /\ session[q].tail \in Seq(FeedEvents)
    BY FeedRecords, NoItems DEF SessionsMove, FeedInv, FeedShape
  <2>2. e \in FeedEvents
    BY <2>1, ItemsOf
  <2> QED
    BY <1>1, <2>1, <2>2 DEF FeedInv, TailsHeld
<1> QED
  BY <1>1, <1>2

LEMMA BackfillKeeps ==
  ASSUME FeedInv, NEW p \in Sessions, Backfill(p)
  PROVE  FeedInv'
<1>1. /\ session' = [session EXCEPT ![p].state = "open", ![p].tail = <<>>]
      /\ UNCHANGED <<logs, slot, recorded, clock, unsaved>>
      /\ ring' = IF session[p].tail = <<>> THEN ring ELSE Merged(session[p].tail)
  BY DEF Backfill
<1>2. FeedShape /\ session[p] \in SessionRecords
  BY DEF FeedInv, FeedShape
<1>3. \A r \in SessionRecords : LET new == [r EXCEPT !.state = "open", !.tail = <<>>]
        IN  new \in SessionRecords /\ new.state = "open" /\ new.image = r.image /\ new.tail = <<>>
  <2>0. <<>> \in Seq(FeedEvents)
    OBVIOUS
  <2>1. PICK none \in Seq(FeedEvents) : none = <<>>
    BY <2>0
  <2>2. \A r \in SessionRecords : LET new == [r EXCEPT !.state = "open", !.tail = none]
          IN  new \in SessionRecords /\ new.state = "open" /\ new.image = r.image /\ new.tail = none
    BY DEF SessionRecords, States
  <2> QED
    BY <2>1, <2>2
<1>4. PICK new \in SessionRecords : /\ new = [session[p] EXCEPT !.state = "open", !.tail = <<>>]
                                    /\ new.state = "open" /\ new.image = session[p].image
                                    /\ new.tail = <<>>
  BY <1>2, <1>3
<1>5. session' = [session EXCEPT ![p] = new]
  BY <1>1, <1>4
<1>6. /\ session' \in [Sessions -> SessionRecords] /\ session'[p] = new
      /\ \A q \in Sessions : q # p => session'[q] = session[q]
  BY <1>2, <1>5 DEF FeedShape
<1>7. SessionsMove
  BY <1>4, <1>6 DEF SessionsMove, SessionsStay
<1>8. /\ TailsHeld' /\ LinesHeld' /\ SlotsHeld'
      /\ \A e \in FeedEvents : Held(e) /\ OnTime(e) => Held(e)' /\ OnTime(e)'
  BY <1>1, <1>7, MoveKeepsTails
<1>9. PICK tail \in Seq(FeedEvents) : tail = session[p].tail
  BY <1>2, FeedRecords
<1>10. ring \in Seq(FeedEvents)
  BY <1>2 DEF FeedShape
<1>11. CASE tail = <<>>
  <2>1. ring' = ring
    BY <1>1, <1>9, <1>11
  <2>2. RingHeld'
    BY <1>8, <1>10, <2>1, ItemsOf DEF FeedInv, RingHeld
  <2>3. RingInOrder' /\ Len(ring') <= ACTIVITY_CAPACITY
    BY <2>1 DEF FeedInv, RingInOrder
  <2>4. FeedShape'
    BY <1>1, <1>2, <1>6, <2>1 DEF FeedShape
  <2> QED
    BY <1>8, <2>2, <2>3, <2>4 DEF FeedInv
<1>12. CASE tail # <<>>
  <2>1. ring' = Merged(tail)
    BY <1>1, <1>9, <1>12
  <2>2. PICK m : m = Merged(tail)
    OBVIOUS
  <2>3. /\ m \in Seq(FeedEvents)
        /\ Len(m) <= ACTIVITY_CAPACITY
        /\ Items(m) \subseteq Items(tail) \cup Items(ring)
        /\ \A i, j \in 1..Len(m) : i < j => m[i].t <= m[j].t
    BY <1>10, <2>2, MergedProperties
  <2>4. ring' = m
    BY <2>1, <2>2
  <2>5. RingHeld'
    <3> SUFFICES ASSUME NEW e \in Items(m) PROVE Held(e)' /\ OnTime(e)'
      BY <2>4 DEF RingHeld
    <3>1. e \in FeedEvents
      BY <2>3, ItemsOf
    <3>2. e \in Items(tail) \/ e \in Items(ring)
      BY <2>3
    <3>3. Held(e) /\ OnTime(e)
      BY <1>9, <3>2 DEF FeedInv, RingHeld, TailsHeld
    <3> QED
      BY <1>8, <3>1, <3>3
  <2>6. RingInOrder' /\ Len(ring') <= ACTIVITY_CAPACITY
    BY <2>3, <2>4 DEF RingInOrder
  <2>7. FeedShape'
    BY <1>1, <1>2, <1>6, <2>3, <2>4 DEF FeedShape
  <2> QED
    BY <1>8, <2>5, <2>6, <2>7 DEF FeedInv
<1> QED
  BY <1>11, <1>12

LEMMA StartDrainingKeeps ==
  ASSUME FeedInv, NEW p \in Sessions, StartDraining(p)
  PROVE  FeedInv'
<1>1. /\ session' = [session EXCEPT ![p].state = "draining"]
      /\ UNCHANGED <<ring, logs, slot, recorded, clock, unsaved>>
  BY DEF StartDraining
<1>2. FeedShape /\ session[p] \in SessionRecords
  BY DEF FeedInv, FeedShape
<1>3. \A r \in SessionRecords : LET new == [r EXCEPT !.state = "draining"]
        IN  new \in SessionRecords /\ new.state = "draining" /\ new.image = r.image /\ new.tail = r.tail
  BY DEF SessionRecords, States
<1>4. PICK new \in SessionRecords : /\ new = [session[p] EXCEPT !.state = "draining"]
                                    /\ new.state = "draining" /\ new.image = session[p].image
                                    /\ new.tail = session[p].tail
  BY <1>2, <1>3
<1>5. session' = [session EXCEPT ![p] = new]
  BY <1>1, <1>4
<1>6. /\ session' \in [Sessions -> SessionRecords] /\ session'[p] = new
      /\ \A q \in Sessions : q # p => session'[q] = session[q]
  BY <1>2, <1>5 DEF FeedShape
<1>7. SessionsMove
  BY <1>4, <1>6 DEF SessionsMove, SessionsStay
<1>8. /\ TailsHeld' /\ LinesHeld' /\ SlotsHeld'
      /\ \A e \in FeedEvents : Held(e) /\ OnTime(e) => Held(e)' /\ OnTime(e)'
  BY <1>1, <1>7, MoveKeepsTails
<1>9. ring \in Seq(FeedEvents)
  BY <1>2 DEF FeedShape
<1>10. RingHeld'
  BY <1>1, <1>8, <1>9, ItemsOf DEF FeedInv, RingHeld
<1>11. RingInOrder' /\ Len(ring') <= ACTIVITY_CAPACITY
  BY <1>1 DEF FeedInv, RingInOrder
<1>12. FeedShape'
  BY <1>1, <1>2, <1>6 DEF FeedShape
<1> QED
  BY <1>8, <1>10, <1>11, <1>12 DEF FeedInv

LEMMA EventIs ==
  ASSUME NEW p \in Sessions, NEW t \in Nat, recorded \in Nat
  PROVE  Event(p, t) \in FeedEvents /\ Event(p, t).t = t /\ Event(p, t).session = p
<1>1. PICK n \in Nat : n = recorded + 1
  OBVIOUS
<1>2. PICK e : e = [t |-> t, session |-> p, n |-> n]
  OBVIOUS
<1>3. e \in FeedEvents /\ e.t = t /\ e.session = p
  BY <1>2 DEF FeedEvents
<1> QED
  BY <1>1, <1>2, <1>3 DEF Event

(* record_activity, its first half. *)
LEMMA AppendEventKeeps ==
  ASSUME FeedInv, NEW p \in Sessions, AppendEvent(p)
  PROVE  FeedInv'
<1>1. FeedShape /\ Writes(p) /\ session' = session /\ ring' = ring /\ recorded' = recorded + 1
  BY DEF FeedInv, AppendEvent
<1>2. PICK t \in {clock, clock + 1} :
        /\ clock' = t
        /\ slot' = [slot EXCEPT ![p] = Event(p, t)]
        /\ \/ /\ logs' = [logs EXCEPT ![session[p].image] = Appended(@, Event(p, t))]
              /\ unsaved' = IF Log(p).end = "clean" THEN unsaved
                            ELSE unsaved \cup {Event(p, t).n} \cup Overwritten(Log(p))
           \/ /\ logs' \in {[logs EXCEPT ![session[p].image] = l] : l \in {Log(p)} \cup Cut(Log(p), Event(p, t))}
              /\ unsaved' = unsaved \cup {Event(p, t).n} \cup Overwritten(Log(p))
  BY DEF AppendEvent
<1>3. clock \in Nat /\ recorded \in Nat /\ t \in Nat /\ clock <= t /\ recorded + 1 \in Nat
  BY <1>1, <1>2 DEF FeedShape
<1>4. PICK e \in FeedEvents : e = Event(p, t) /\ e.t = t /\ e.session = p
  BY <1>3, EventIs
<1>5. PICK i \in Images : i = session[p].image
  BY <1>1, FeedRecords DEF FeedShape
<1>6. PICK log \in LogRecords : log = Log(p) /\ log = logs[i]
  BY <1>1, <1>5 DEF FeedShape, Log
<1>7. PICK new \in {Log(p), Appended(Log(p), e)} \cup Cut(Log(p), e) :
        /\ logs' = [logs EXCEPT ![session[p].image] = new]
        /\ unsaved \cup Overwritten(Log(p)) \subseteq unsaved'
        /\ e.n \in unsaved' \/ e \in Items(new.lines)
  <2>1. CASE /\ logs' = [logs EXCEPT ![session[p].image] = Appended(@, e)]
             /\ unsaved' = IF Log(p).end = "clean" THEN unsaved
                           ELSE unsaved \cup {e.n} \cup Overwritten(Log(p))
    <3>1. logs' = [logs EXCEPT ![session[p].image] = Appended(Log(p), e)]
      BY <2>1 DEF Log
    <3>2. CASE log.end = "clean"
      <4>1. e \in Items(Appended(log, e).lines) /\ Overwritten(log) = {}
        BY <3>2, LogChanges
      <4> QED
        BY <1>6, <2>1, <3>1, <3>2, <4>1
    <3>3. CASE log.end # "clean"
      BY <1>6, <2>1, <3>1, <3>3
    <3> QED
      BY <3>2, <3>3
  <2>2. CASE /\ logs' \in {[logs EXCEPT ![session[p].image] = l] : l \in {Log(p)} \cup Cut(Log(p), e)}
             /\ unsaved' = unsaved \cup {e.n} \cup Overwritten(Log(p))
    BY <2>2
  <2> QED
    BY <1>2, <1>4, <2>1, <2>2
<1>8. /\ logs' \in [Images -> LogRecords]
      /\ LinesStay
      /\ logs'[i] = new
      /\ \A j \in Images : \A x \in Items(logs'[j].lines) :
              x \in Items(logs[j].lines) \/ (j = i /\ x = e)
  BY <1>1, <1>5, <1>7, LogStep
<1>9. SessionsStay
  BY <1>1 DEF SessionsStay
<1>10. \A x \in FeedEvents : Held(x) => Held(x)'
  BY <1>1, <1>8, <1>9, HeldOn
<1>11. /\ slot' \in [Sessions -> FeedEvents \cup {NoEvent}] /\ slot'[p] = e
       /\ \A q \in Sessions : q # p => slot'[q] = slot[q]
  BY <1>1, <1>2, <1>4 DEF FeedShape
<1>12. e # NoEvent /\ slot[p] = NoEvent /\ clock' = t
  BY <1>1, <1>2, FeedRecords DEF Writes
<1>13. ASSUME NEW x \in FeedEvents, OnTime(x) PROVE OnTime(x)'
  <2>1. x.t \in Nat /\ x.session \in Sessions
    BY FeedRecords
  <2>2. x.t <= clock
    BY <1>13 DEF OnTime
  <2>3. x.t <= clock'
    BY <1>3, <1>12, <2>1, <2>2
  <2>4. CASE x.session = p
    BY <1>4, <1>11, <1>12, <2>3, <2>4 DEF OnTime
  <2>5. CASE x.session # p
    BY <1>11, <1>13, <2>1, <2>3, <2>5 DEF OnTime
  <2> QED
    BY <2>4, <2>5
<1>14. OnTime(e)'
  <2>1. e.t <= t
    BY <1>3, <1>4
  <2> QED
    BY <1>4, <1>11, <1>12, <2>1 DEF OnTime
<1>15. session[p].state # "none"
  BY <1>1 DEF Writes
<1>16. Held(e)'
  BY <1>1, <1>4, <1>5, <1>7, <1>8, <1>15 DEF Held
<1>17. FeedShape'
  BY <1>1, <1>3, <1>8, <1>11, <1>12 DEF FeedShape
<1>18. RingHeld'
  <2>1. Items(ring) \subseteq FeedEvents
    BY <1>1, ItemsOf DEF FeedShape
  <2> QED
    BY <1>1, <1>10, <1>13, <2>1 DEF FeedInv, RingHeld
<1>19. TailsHeld'
  <2> SUFFICES ASSUME NEW q \in Sessions, NEW x \in Items(session[q].tail)
               PROVE  Held(x)' /\ OnTime(x)'
    BY <1>1 DEF TailsHeld
  <2>1. session[q].tail \in Seq(FeedEvents)
    BY <1>1, FeedRecords DEF FeedShape
  <2>2. x \in FeedEvents
    BY <2>1, ItemsOf
  <2> QED
    BY <1>10, <1>13, <2>2 DEF FeedInv, TailsHeld
<1>20. LinesHeld'
  <2> SUFFICES ASSUME NEW j \in Images, NEW x \in Items(logs'[j].lines)
               PROVE  InItsLog(x, j)' /\ OnTime(x)'
    BY DEF LinesHeld
  <2>1. CASE x \in Items(logs[j].lines)
    <3>1. logs[j].lines \in Seq(FeedEvents)
      BY <1>1, FeedRecords DEF FeedShape
    <3>2. x \in FeedEvents
      BY <2>1, <3>1, ItemsOf
    <3>3. InItsLog(x, j) /\ OnTime(x)
      BY <2>1 DEF FeedInv, LinesHeld
    <3> QED
      BY <1>1, <1>13, <3>2, <3>3 DEF InItsLog
  <2>2. CASE j = i /\ x = e
    <3>1. InItsLog(e, i)'
      BY <1>1, <1>4, <1>5, <1>15 DEF InItsLog
    <3> QED
      BY <1>14, <2>2, <3>1
  <2> QED
    BY <1>8, <2>1, <2>2
<1>21. SlotsHeld'
  <2> SUFFICES ASSUME NEW q \in Sessions, slot'[q] # NoEvent
               PROVE  slot'[q].session = q /\ slot'[q].t <= clock' /\ Held(slot[q])'
    BY DEF SlotsHeld
  <2>1. CASE q = p
    <3>1. e.t <= clock'
      BY <1>3, <1>4, <1>12
    <3> QED
      BY <1>4, <1>11, <1>16, <2>1, <3>1 DEF Held
  <2>2. CASE q # p
    <3>1. slot'[q] = slot[q]
      BY <1>11, <2>2
    <3>2. PICK x \in FeedEvents : x = slot[q] /\ x = slot'[q]
      BY <1>1, <3>1 DEF FeedShape
    <3>3. x.session = q /\ x.t <= clock /\ Held(x) /\ x.t \in Nat
      BY <3>1, <3>2, FeedRecords DEF FeedInv, SlotsHeld
    <3>4. Held(x)' /\ x.t <= clock'
      BY <1>3, <1>10, <1>12, <3>3
    <3> QED
      BY <3>2, <3>3, <3>4 DEF Held
  <2> QED
    BY <2>1, <2>2
<1>22. RingInOrder' /\ Len(ring') <= ACTIVITY_CAPACITY
  BY <1>1 DEF FeedInv, RingInOrder
<1> QED
  BY <1>17, <1>18, <1>19, <1>20, <1>21, <1>22 DEF FeedInv

(* Its second half: the new event is the latest of its project. *)
LEMMA PushEventKeeps ==
  ASSUME FeedInv, NEW p \in Sessions, PushEvent(p)
  PROVE  FeedInv'
<1>1. /\ FeedShape /\ slot[p] # NoEvent /\ slot' = [slot EXCEPT ![p] = NoEvent]
      /\ UNCHANGED <<logs, session, recorded, clock, unsaved>>
      /\ ring' = Append(IF Len(ring) >= ACTIVITY_CAPACITY /\ ring # <<>> THEN Tail(ring) ELSE ring, slot[p])
  BY DEF FeedInv, PushEvent
<1>2. PICK e \in FeedEvents : e = slot[p] /\ e.session = p /\ e.t <= clock /\ Held(e)
  BY <1>1 DEF FeedInv, FeedShape, SlotsHeld
<1>3. PICK r : r = IF Len(ring) >= ACTIVITY_CAPACITY /\ ring # <<>> THEN Tail(ring) ELSE ring
  OBVIOUS
<1>4. PICK d \in {0, 1} : /\ r \in Seq(FeedEvents) /\ Len(r) = Len(ring) - d
                          /\ \A i \in 1..Len(r) : r[i] = ring[i + d]
                          /\ Len(r) + 1 <= ACTIVITY_CAPACITY
  <2>1. ring \in Seq(FeedEvents) /\ Len(ring) \in Nat /\ Len(ring) <= ACTIVITY_CAPACITY
        /\ ACTIVITY_CAPACITY \in Nat /\ ACTIVITY_CAPACITY >= 1
    BY <1>1, FeedAssumption DEF FeedShape, FeedInv
  <2>2. CASE Len(ring) >= ACTIVITY_CAPACITY /\ ring # <<>>
    <3>1. r = Tail(ring)
      BY <1>3, <2>2
    <3>2. /\ r \in Seq(FeedEvents) /\ Len(r) = Len(ring) - 1
          /\ \A i \in 1..Len(r) : r[i] = ring[i + 1]
      BY <2>1, <2>2, <3>1, HeadTailProperties
    <3>3. Len(r) + 1 <= ACTIVITY_CAPACITY
      BY <2>1, <3>2
    <3> QED
      BY <3>2, <3>3
  <2>3. CASE ~(Len(ring) >= ACTIVITY_CAPACITY /\ ring # <<>>)
    <3>1. r = ring
      BY <1>3, <2>3
    <3>2. Len(ring) < ACTIVITY_CAPACITY
      <4>1. ring = <<>> => Len(ring) = 0
        OBVIOUS
      <4> QED
        BY <2>1, <2>3, <4>1
    <3>3. \A i \in 1..Len(ring) : ring[i] = ring[i + 0]
      BY <2>1
    <3>4. Len(ring) = Len(ring) - 0 /\ Len(ring) + 1 <= ACTIVITY_CAPACITY
      BY <2>1, <3>2
    <3> QED
      BY <2>1, <3>1, <3>3, <3>4
  <2> QED
    BY <2>2, <2>3
<1>5. Len(ring) \in Nat /\ Len(r) \in Nat /\ \A i \in 1..Len(r) : i + d \in 1..Len(ring)
  <2>1. Len(ring) \in Nat /\ Len(r) \in Nat
    BY <1>1, <1>4 DEF FeedShape
  <2> QED
    BY <1>4, <2>1
<1>6. PICK new : new = Append(r, e) /\ ring' = new
  BY <1>1, <1>2, <1>3
<1>7. /\ new \in Seq(FeedEvents) /\ Len(new) = Len(r) + 1
      /\ \A i \in 1..Len(r) : new[i] = r[i]
      /\ new[Len(r) + 1] = e
  BY <1>4, <1>6, AppendProperties
<1>8. Items(ring) = {ring[i] : i \in 1..Len(ring)} /\ Items(ring) \subseteq FeedEvents
  BY <1>1, ItemsOf DEF FeedShape
<1>9. \A x \in Items(new) : x = e \/ x \in Items(ring)
  <2>1. Items(new) = {new[i] : i \in 1..Len(new)}
    BY <1>7, ItemsOf
  <2>2. ASSUME NEW i \in 1..Len(new) PROVE new[i] = e \/ new[i] \in Items(ring)
    <3>1. CASE i = Len(r) + 1
      BY <1>7, <3>1
    <3>2. CASE i \in 1..Len(r)
      BY <1>4, <1>5, <1>7, <1>8, <3>2
    <3> QED
      BY <1>5, <1>7, <3>1, <3>2
  <2> QED
    BY <2>1, <2>2
<1>10. /\ slot' \in [Sessions -> FeedEvents \cup {NoEvent}] /\ slot'[p] = NoEvent
       /\ \A q \in Sessions : q # p => slot'[q] = slot[q]
  BY <1>1 DEF FeedShape
<1>11. \A x \in FeedEvents : (Held(x) => Held(x)') /\ (OnTime(x) => OnTime(x)')
  <2> SUFFICES ASSUME NEW x \in FeedEvents PROVE (Held(x) => Held(x)') /\ (OnTime(x) => OnTime(x)')
    OBVIOUS
  <2>1. x.session \in Sessions
    BY FeedRecords
  <2>2. OnTime(x) => OnTime(x)'
    BY <1>1, <1>10, <2>1 DEF OnTime
  <2>3. Held(x) => Held(x)'
    BY <1>1 DEF Held
  <2> QED
    BY <2>2, <2>3
<1>12. Held(e)' /\ OnTime(e)'
  BY <1>1, <1>2, <1>10, <1>11 DEF OnTime
<1>13. RingHeld'
  BY <1>6, <1>8, <1>9, <1>11, <1>12 DEF FeedInv, RingHeld
<1>14. TailsHeld'
  <2> SUFFICES ASSUME NEW q \in Sessions, NEW x \in Items(session[q].tail)
               PROVE  Held(x)' /\ OnTime(x)'
    BY <1>1 DEF TailsHeld
  <2>1. session[q].tail \in Seq(FeedEvents)
    BY <1>1, FeedRecords DEF FeedShape
  <2>2. x \in FeedEvents
    BY <2>1, ItemsOf
  <2> QED
    BY <1>11, <2>2 DEF FeedInv, TailsHeld
<1>15. LinesHeld'
  <2> SUFFICES ASSUME NEW j \in Images, NEW x \in Items(logs[j].lines)
               PROVE  InItsLog(x, j)' /\ OnTime(x)'
    BY <1>1 DEF LinesHeld
  <2>1. logs[j].lines \in Seq(FeedEvents)
    BY <1>1, FeedRecords DEF FeedShape
  <2>2. x \in FeedEvents
    BY <2>1, ItemsOf
  <2>3. InItsLog(x, j) /\ OnTime(x)
    BY DEF FeedInv, LinesHeld
  <2> QED
    BY <1>1, <1>11, <2>2, <2>3 DEF InItsLog
<1>16. SlotsHeld'
  <2> SUFFICES ASSUME NEW q \in Sessions, slot'[q] # NoEvent
               PROVE  slot'[q].session = q /\ slot'[q].t <= clock' /\ Held(slot[q])'
    BY DEF SlotsHeld
  <2>1. q # p /\ slot'[q] = slot[q]
    BY <1>10
  <2>2. PICK x \in FeedEvents : x = slot[q] /\ x = slot'[q]
    BY <1>1, <2>1 DEF FeedShape
  <2>3. x.session = q /\ x.t <= clock /\ Held(x)
    BY <2>1, <2>2 DEF FeedInv, SlotsHeld
  <2> QED
    BY <1>1, <2>2, <2>3 DEF Held
<1>17. RingInOrder'
  <2> SUFFICES ASSUME NEW i \in 1..Len(new), NEW j \in 1..Len(new), i < j, new[i].session = new[j].session
               PROVE  new[i].t <= new[j].t
    BY <1>6 DEF RingInOrder
  <2>1. i \in 1..Len(r) /\ new[i] = ring[i + d] /\ i + d \in 1..Len(ring)
    <3>1. i \in 1..Len(r)
      BY <1>5, <1>7
    <3> QED
      BY <1>4, <1>5, <1>7, <3>1
  <2>2. CASE j = Len(r) + 1
    <3>1. new[i] \in Items(ring) /\ new[j] = e
      BY <1>7, <1>8, <2>1, <2>2
    <3>2. OnTime(new[i])
      BY <3>1 DEF FeedInv, RingHeld
    <3> QED
      BY <1>1, <1>2, <3>1, <3>2 DEF OnTime
  <2>3. CASE j \in 1..Len(r)
    <3>1. new[j] = ring[j + d] /\ j + d \in 1..Len(ring) /\ i + d < j + d
      BY <1>4, <1>5, <1>7, <2>3
    <3> QED
      BY <2>1, <3>1 DEF FeedInv, RingInOrder
  <2>4. j = Len(r) + 1 \/ j \in 1..Len(r)
    BY <1>5, <1>7
  <2> QED
    BY <2>2, <2>3, <2>4
<1>18. Len(ring') <= ACTIVITY_CAPACITY
  BY <1>4, <1>6, <1>7
<1>19. FeedShape'
  BY <1>1, <1>6, <1>7, <1>10 DEF FeedShape
<1> QED
  BY <1>13, <1>14, <1>15, <1>16, <1>17, <1>18, <1>19 DEF FeedInv

LEMMA GoneMoves ==
  ASSUME FeedShape, session' = Gone
  PROVE  SessionsMove
<1>1. \A r \in SessionRecords : LET new == [r EXCEPT !.state = "ended"]
        IN  new \in SessionRecords /\ new.state = "ended" /\ new.image = r.image /\ new.tail = r.tail
  BY DEF SessionRecords, States
<1>2. ASSUME NEW q \in Sessions
      PROVE  /\ session'[q] \in SessionRecords
             /\ session[q].state # "none" => session'[q].state # "none" /\ session'[q].image = session[q].image
             /\ session'[q].tail = session[q].tail
  <2>1. PICK r \in SessionRecords : r = session[q]
    BY DEF FeedShape
  <2>2. session'[q] = IF r.state = "none" THEN r ELSE [r EXCEPT !.state = "ended"]
    BY <2>1 DEF Gone
  <2>3. CASE r.state = "none"
    BY <2>1, <2>2, <2>3
  <2>4. CASE r.state # "none"
    <3>1. PICK new \in SessionRecords : /\ new = [r EXCEPT !.state = "ended"] /\ new.state = "ended"
                                        /\ new.image = r.image /\ new.tail = r.tail
      BY <1>1
    <3> QED
      BY <2>1, <2>2, <2>4, <3>1
  <2> QED
    BY <2>3, <2>4
<1>3. session' = [q \in Sessions |-> session'[q]]
  BY DEF Gone
<1>4. session' \in [Sessions -> SessionRecords]
  BY <1>2, <1>3
<1> QED
  BY <1>2, <1>4 DEF SessionsMove, SessionsStay

LEMMA CrashKeeps ==
  ASSUME FeedInv, ring' = <<>>, session' = Gone, slot' = [q \in Sessions |-> NoEvent],
         clock' = clock, recorded' \in Nat, logs' \in [Images -> LogRecords], LinesStay,
         \A j \in Images : \A x \in Items(logs'[j].lines) :
            x \in Items(logs[j].lines) \/ (x \in FeedEvents /\ InItsLog(x, j) /\ x.t = clock)
  PROVE  FeedInv'
<1>1. FeedShape
  BY DEF FeedInv
<1>2. SessionsMove /\ SessionsStay
  BY <1>1, GoneMoves DEF SessionsMove
<1>3. \A x \in FeedEvents : Held(x) => Held(x)'
  BY <1>1, <1>2, HeldOn
<1>4. ASSUME NEW x \in FeedEvents, x.t <= clock PROVE OnTime(x)'
  <2>1. slot'[x.session] = NoEvent
    BY FeedRecords
  <2> QED
    BY <1>4, <2>1 DEF OnTime
<1>5. RingHeld' /\ RingInOrder' /\ Len(ring') <= ACTIVITY_CAPACITY
  <2>1. Len(ring') = 0 /\ Items(ring') = {}
    BY NoItems
  <2> QED
    BY <2>1, FeedAssumption DEF RingHeld, RingInOrder
<1>6. TailsHeld'
  <2> SUFFICES ASSUME NEW q \in Sessions, NEW x \in Items(session'[q].tail)
               PROVE  Held(x)' /\ OnTime(x)'
    BY DEF TailsHeld
  <2>1. x \in Items(session[q].tail) /\ session[q].tail \in Seq(FeedEvents)
    BY <1>1, <1>2, FeedRecords, NoItems DEF SessionsMove, FeedShape
  <2>2. x \in FeedEvents
    BY <2>1, ItemsOf
  <2>3. Held(x) /\ x.t <= clock
    BY <2>1 DEF FeedInv, TailsHeld, OnTime
  <2> QED
    BY <1>3, <1>4, <2>2, <2>3
<1>7. LinesHeld'
  <2> SUFFICES ASSUME NEW j \in Images, NEW x \in Items(logs'[j].lines)
               PROVE  InItsLog(x, j)' /\ OnTime(x)'
    BY DEF LinesHeld
  <2>1. x \in FeedEvents /\ InItsLog(x, j) /\ x.t <= clock
    <3>1. CASE x \in Items(logs[j].lines)
      <4>1. logs[j].lines \in Seq(FeedEvents)
        BY <1>1, FeedRecords DEF FeedShape
      <4>2. x \in FeedEvents
        BY <3>1, <4>1, ItemsOf
      <4> QED
        BY <3>1, <4>2 DEF FeedInv, LinesHeld, OnTime
    <3>2. CASE x \in FeedEvents /\ InItsLog(x, j) /\ x.t = clock
      BY <1>1, <3>2 DEF FeedShape
    <3> QED
      BY <3>1, <3>2
  <2>2. x.session \in Sessions
    BY <2>1, FeedRecords
  <2>3. InItsLog(x, j)'
    BY <1>2, <2>1, <2>2 DEF InItsLog, SessionsStay
  <2> QED
    BY <1>4, <2>1, <2>3
<1>8. SlotsHeld'
  BY DEF SlotsHeld
<1>9. FeedShape'
  <2>1. ring' \in Seq(FeedEvents)
    OBVIOUS
  <2>2. slot' \in [Sessions -> FeedEvents \cup {NoEvent}]
    OBVIOUS
  <2> QED
    BY <1>1, <1>2, <2>1, <2>2 DEF FeedShape, SessionsMove
<1> QED
  BY <1>5, <1>6, <1>7, <1>8, <1>9 DEF FeedInv

LEMMA FeedCrashKeeps ==
  ASSUME FeedInv, FeedCrash
  PROVE  FeedInv'
<1>1. FeedShape /\ recorded \in Nat /\ clock \in Nat
  BY DEF FeedInv, FeedShape
<1>2. ring' = <<>> /\ session' = Gone /\ slot' = [q \in Sessions |-> NoEvent] /\ clock' = clock
  BY DEF FeedCrash
<1>3. CASE UNCHANGED <<logs, recorded, clock, unsaved>>
  <2>1. LinesStay /\ logs' \in [Images -> LogRecords] /\ recorded' \in Nat
    BY <1>1, <1>3 DEF LinesStay, FeedShape
  <2>2. \A j \in Images : \A x \in Items(logs'[j].lines) : x \in Items(logs[j].lines)
    BY <1>3
  <2> QED
    BY <1>2, <2>1, <2>2, CrashKeeps
<1>4. ASSUME NEW p \in Sessions, NEW l \in Cut(Log(p), Event(p, clock)), Writes(p),
             logs' = [logs EXCEPT ![session[p].image] = l],
             unsaved' = unsaved \cup {recorded + 1} \cup Overwritten(Log(p)),
             recorded' = recorded + 1
      PROVE  FeedInv'
  <2>1. PICK e \in FeedEvents : e = Event(p, clock) /\ e.t = clock /\ e.session = p
    BY <1>1, EventIs
  <2>2. l \in {Log(p), Appended(Log(p), e)} \cup Cut(Log(p), e)
    BY <1>4, <2>1
  <2>3. /\ logs' \in [Images -> LogRecords]
        /\ LinesStay
        /\ \A j \in Images : \A x \in Items(logs'[j].lines) :
             x \in Items(logs[j].lines) \/ (j = session[p].image /\ x = e)
    BY <1>1, <1>4, <2>2, LogStep
  <2>4. session[p].state # "none"
    BY <1>4 DEF Writes
  <2>5. InItsLog(e, session[p].image)
    BY <2>1, <2>4 DEF InItsLog
  <2>6. \A j \in Images : \A x \in Items(logs'[j].lines) :
            x \in Items(logs[j].lines) \/ (x \in FeedEvents /\ InItsLog(x, j) /\ x.t = clock)
    BY <2>1, <2>3, <2>5
  <2>7. recorded' \in Nat
    BY <1>1, <1>4
  <2> QED
    BY <1>2, <2>3, <2>6, <2>7, CrashKeeps
<1> QED
  BY <1>3, <1>4 DEF FeedCrash

LEMMA FeedStarts == FeedInit => FeedInv
<1> SUFFICES ASSUME FeedInit PROVE FeedInv
  OBVIOUS
<1>0. <<>> \in Seq(FeedEvents) /\ Len(<<>>) = 0
  OBVIOUS
<1>1. Unopened \in SessionRecords /\ Unopened.tail = <<>>
  BY <1>0, FeedAssumption DEF Unopened, SessionRecords, States
<1>2. PICK log \in LogRecords : log = [lines |-> <<>>, end |-> "clean"] /\ log.lines = <<>>
  <2>1. PICK none \in Seq(FeedEvents) : none = <<>>
    BY <1>0
  <2>2. [lines |-> none, end |-> "clean"] \in LogRecords
    BY DEF LogRecords, Ends
  <2> QED
    BY <2>1, <2>2
<1>3. /\ ring = <<>> /\ session = [p \in Sessions |-> Unopened] /\ recorded = 0 /\ clock = 0
      /\ slot = [p \in Sessions |-> NoEvent] /\ logs = [i \in Images |-> log]
  BY <1>2 DEF FeedInit
<1>4. FeedShape
  BY <1>0, <1>1, <1>3 DEF FeedShape
<1>5. RingHeld /\ TailsHeld /\ LinesHeld
  BY <1>1, <1>2, <1>3, NoItems DEF RingHeld, TailsHeld, LinesHeld
<1>6. SlotsHeld
  BY <1>3 DEF SlotsHeld
<1>7. RingInOrder /\ Len(ring) <= ACTIVITY_CAPACITY
  BY <1>0, <1>3, FeedAssumption DEF RingInOrder
<1> QED
  BY <1>4, <1>5, <1>6, <1>7 DEF FeedInv

LEMMA FeedSteps == FeedInv /\ [FeedNext]_feedVars => FeedInv'
<1> SUFFICES ASSUME FeedInv, [FeedNext]_feedVars PROVE FeedInv'
  OBVIOUS
<1>1. CASE UNCHANGED feedVars
  BY <1>1 DEF feedVars, FeedInv, FeedShape, RingHeld, TailsHeld, LinesHeld, SlotsHeld, RingInOrder,
              Held, OnTime, InItsLog
<1> QED
  BY <1>1, ReadTailKeeps, BackfillKeeps, AppendEventKeeps, PushEventKeeps, StartDrainingKeeps,
     FeedCrashKeeps DEF FeedNext

(* record_activity and merge_events: the ring keeps to ACTIVITY_CAPACITY   *)
(* and the events of one project to the order of their timestamps, however *)
(* often its log is merged in while writers push.                          *)
THEOREM FeedInOrder == FeedSpec => []FeedBoundedAndOrdered
<1>1. FeedInv => FeedBoundedAndOrdered
  <2> SUFFICES ASSUME FeedInv PROVE FeedBoundedAndOrdered
    OBVIOUS
  <2>1. DOMAIN ring = 1..Len(ring)
    BY DEF FeedInv, FeedShape
  <2> QED
    BY <2>1 DEF FeedInv, RingInOrder, FeedBoundedAndOrdered
<1> QED
  BY <1>1, FeedStarts, FeedSteps, PTL DEF FeedSpec

(* record_activity: an event is shown only with its line in the log of its *)
(* image, unless an append had failed there.                               *)
THEOREM FeedDurable == FeedSpec => []ShownIsDurable
<1>1. FeedInv => ShownIsDurable
  <2> SUFFICES ASSUME FeedInv, NEW i \in DOMAIN ring, ring[i].n \notin unsaved
               PROVE  LET lines == logs[session[ring[i].session].image].lines
                      IN  \E k \in DOMAIN lines : lines[k] = ring[i]
    BY DEF ShownIsDurable
  <2>1. ring[i] \in Items(ring)
    BY DEF Items
  <2>2. Held(ring[i])
    BY <2>1 DEF FeedInv, RingHeld
  <2> QED
    BY <2>2 DEF Held, Items
<1> QED
  BY <1>1, FeedStarts, FeedSteps, PTL DEF FeedSpec

(* merge_events: of the tail that was read, opening a project hides only   *)
(* events that are no later than everything shown.                         *)
THEOREM FeedShowsHistory == FeedSpec => HistoryShown
<1> DEFINE Shows ==
      \A p \in Sessions :
       session[p].state = "merging" /\ session'[p].state = "open" =>
         \A k \in DOMAIN session[p].tail :
           LET e == session[p].tail[k] IN
           \/ \E i \in DOMAIN ring' : ring'[i] = e
           \/ \A i \in DOMAIN ring' : ring'[i].t >= e.t
<1>1. FeedInv /\ [FeedNext]_feedVars => [Shows]_feedVars
  <2> SUFFICES ASSUME FeedInv, FeedNext, NEW p \in Sessions,
                      session[p].state = "merging", session'[p].state = "open",
                      NEW k \in DOMAIN session[p].tail
               PROVE  \/ \E i \in DOMAIN ring' : ring'[i] = session[p].tail[k]
                      \/ \A i \in DOMAIN ring' : ring'[i].t >= session[p].tail[k].t
    OBVIOUS
  <2>1. FeedShape /\ FeedShape'
    BY FeedSteps DEF FeedInv
  <2>2. Backfill(p)
    <3>1. ASSUME NEW q \in Sessions, NEW i \in Images, ReadTail(q, i) PROVE FALSE
      BY <2>1, <3>1 DEF ReadTail, FeedShape
    <3>2. ASSUME NEW q \in Sessions, q # p, Backfill(q) PROVE FALSE
      BY <2>1, <3>2 DEF Backfill, FeedShape
    <3>3. ASSUME NEW q \in Sessions, AppendEvent(q) \/ PushEvent(q) PROVE FALSE
      BY <3>3 DEF AppendEvent, PushEvent
    <3>4. ASSUME NEW q \in Sessions, StartDraining(q) PROVE FALSE
      BY <2>1, <3>4 DEF StartDraining, FeedShape
    <3>5. ASSUME FeedCrash PROVE FALSE
      <4>1. session'[p] = [session[p] EXCEPT !.state = "ended"]
        BY <3>5 DEF FeedCrash, Gone
      <4> QED
        BY <2>1, <4>1 DEF FeedShape, SessionRecords
    <3> QED
      BY <3>1, <3>2, <3>3, <3>4, <3>5 DEF FeedNext
  <2>3. PICK tail \in Seq(FeedEvents) : tail = session[p].tail
    BY <2>1, FeedRecords DEF FeedShape
  <2>4. PICK e \in FeedEvents : e = tail[k] /\ e \in Items(tail)
    BY <2>3, ElementOfSeq DEF Items
  <2>5. tail # <<>>
    BY <2>4, NoItems
  <2>6. ring' = Merged(tail) /\ ring \in Seq(FeedEvents)
    BY <2>1, <2>2, <2>3, <2>5 DEF Backfill, FeedShape
  <2>7. e \in Items(ring') \/ \A i \in 1..Len(ring') : e.t <= ring'[i].t
    BY <2>4, <2>6, MergedProperties
  <2>8. DOMAIN ring' = 1..Len(ring') /\ \A i \in 1..Len(ring') : ring'[i].t \in Nat
    BY <2>1, EventTimes DEF FeedShape
  <2>9. e.t \in Nat
    BY FeedRecords
  <2>10. CASE e \in Items(ring')
    BY <2>3, <2>4, <2>10 DEF Items
  <2>11. CASE \A i \in 1..Len(ring') : e.t <= ring'[i].t
    BY <2>3, <2>4, <2>8, <2>9, <2>11
  <2> QED
    BY <2>7, <2>10, <2>11
<1> QED
  BY <1>1, FeedStarts, FeedSteps, PTL DEF FeedSpec, HistoryShown

=============================================================================
