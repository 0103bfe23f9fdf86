----------------------------- MODULE DeepIndex -----------------------------
(***************************************************************************)
(* Deep-index jobs (mcp.rs, __build_deep_index): the map deep_jobs, the    *)
(* calls that look in it, start a build and wait for it, the builds, and   *)
(* target_close.  Each access takes a lock of its own, so each is an       *)
(* action.  What a build makes is StructuralCache's.                       *)
(***************************************************************************)
EXTENDS Integers

CONSTANTS Handles,        \* job ids
          DeepCallers,
          MaxDeepCalls    \* bound

ASSUME DeepAssumption == MaxDeepCalls \in Nat

VARIABLES
  sketch,      \* per handle: "ready", "promoted" (a full project is made) or "gone"
  deep,        \* deep_jobs
  deepCall,    \* per caller: where it stands, for which handle, and its answer
  closing,     \* handles whose job target_close has removed, deep entry not yet
  building,    \* per handle: number of builds running
  built,       \* per handle: number of builds started
  deepCalls,   \* number of calls made
  raced,       \* ghost: handles that two calls were about to build at once
  late         \* ghost: handles let go of with a call or a build under way,
               \* or not through target_close

deepVars == <<sketch, deep, deepCall, closing, building, built, deepCalls, raced, late>>

DeepStates == {"none", "running", "ready", "failed"}

DeepInit ==
  /\ sketch = [h \in Handles |-> "ready"]
  /\ deep = [h \in Handles |-> "none"]
  /\ deepCall \in [DeepCallers -> [pc : {"idle"}, handle : Handles, answer : {"none"}]]
  /\ closing = {}
  /\ building = [h \in Handles |-> 0]
  /\ built = [h \in Handles |-> 0]
  /\ deepCalls = 0
  /\ raced = {}
  /\ late = {}

At(c, pc)   == deepCall[c].pc = pc
HandleOf(c) == deepCall[c].handle
AboutToBuild(h) == {c \in DeepCallers : deepCall[c].pc \in {"source", "insert"} /\ HandleOf(c) = h}
Goes(c, pc)     == deepCall' = [deepCall EXCEPT ![c].pc = pc]
AnswersWith(c, answer) ==
  deepCall' = [deepCall EXCEPT ![c] = [pc |-> "idle", handle |-> HandleOf(c), answer |-> answer]]

----------------------------------------------------------------------------
(* Mutant of ExistingDeep: only a finished index is found. *)
ExistingReady(h) == deep[h] = "ready"

ExistingDeep(h) == deep[h] # "none"

LookUpDeep(c, h) ==
  /\ At(c, "idle")
  /\ deepCalls < MaxDeepCalls
  /\ deepCalls' = deepCalls + 1
  /\ deepCall' = [deepCall EXCEPT ![c] =
       [pc |-> IF ExistingDeep(h) THEN "wait" ELSE "source", handle |-> h, answer |-> "none"]]
  /\ raced' = IF ~ExistingDeep(h) /\ AboutToBuild(h) # {} THEN raced \cup {h} ELSE raced
  /\ UNCHANGED <<sketch, deep, closing, building, built, late>>

(* TARGET_NOT_READY without a compact sketch. *)
FindSource(c) ==
  /\ At(c, "source")
  /\ IF sketch[HandleOf(c)] = "ready" THEN Goes(c, "insert") ELSE AnswersWith(c, "error")
  /\ UNCHANGED <<sketch, deep, closing, building, built, deepCalls, raced, late>>

StartBuild(c) ==
  /\ At(c, "insert")
  /\ LET h == HandleOf(c)
     IN  /\ deep' = [deep EXCEPT ![h] = "running"]
         /\ building' = [building EXCEPT ![h] = building[h] + 1]
         /\ built' = [built EXCEPT ![h] = built[h] + 1]
  /\ Goes(c, "wait")
  /\ UNCHANGED <<sketch, closing, deepCalls, raced, late>>

(* A settled job answers; otherwise the wait ends after two seconds. *)
DeepAnswers(c) ==
  /\ At(c, "wait")
  /\ AnswersWith(c, CASE deep[HandleOf(c)] = "ready" -> "complete"
                      [] deep[HandleOf(c)] = "failed" -> "error"
                      [] OTHER -> "pending")
  /\ UNCHANGED <<sketch, deep, closing, building, built, deepCalls, raced, late>>

(* Mutant of BuildEnds: an error is not recorded. *)
BuildEndsSilently(h) ==
  /\ building[h] > 0
  /\ building' = [building EXCEPT ![h] = building[h] - 1]
  /\ deep' \in {deep, [deep EXCEPT ![h] = "ready"]}
  /\ UNCHANGED <<sketch, deepCall, closing, built, deepCalls, raced, late>>

(* The task inserts its outcome, whatever has become of the job. *)
BuildEnds(h) ==
  /\ building[h] > 0
  /\ building' = [building EXCEPT ![h] = building[h] - 1]
  /\ \E outcome \in {"ready", "failed"} : deep' = [deep EXCEPT ![h] = outcome]
  /\ UNCHANGED <<sketch, deepCall, closing, built, deepCalls, raced, late>>

----------------------------------------------------------------------------
CloseSketch(h) ==
  /\ sketch[h] # "gone"
  /\ sketch' = [sketch EXCEPT ![h] = "gone"]
  /\ closing' = closing \cup {h}
  /\ UNCHANGED <<deep, deepCall, building, built, deepCalls, raced, late>>

(* Mutant of CloseDeep: the entry stays. *)
CloseDeepForgets(h) ==
  /\ h \in closing
  /\ closing' = closing \ {h}
  /\ UNCHANGED <<sketch, deep, deepCall, building, built, deepCalls, raced, late>>

CloseDeep(h) ==
  /\ h \in closing
  /\ closing' = closing \ {h}
  /\ deep' = [deep EXCEPT ![h] = "none"]
  /\ late' = IF building[h] > 0 \/ AboutToBuild(h) # {} THEN late \cup {h} ELSE late
  /\ UNCHANGED <<sketch, deepCall, building, built, deepCalls, raced>>

(* The job is pruned or evicted: deep_jobs is not touched. *)
DropSketch(h) ==
  /\ sketch[h] # "gone"
  /\ sketch' = [sketch EXCEPT ![h] = "gone"]
  /\ late' = late \cup {h}
  /\ UNCHANGED <<deep, deepCall, closing, building, built, deepCalls, raced>>

PromoteSketchJob(h) ==
  /\ sketch[h] = "ready"
  /\ sketch' = [sketch EXCEPT ![h] = "promoted"]
  /\ UNCHANGED <<deep, deepCall, closing, building, built, deepCalls, raced, late>>

DeepNext ==
  \/ \E c \in DeepCallers :
       \/ \E h \in Handles : LookUpDeep(c, h)
       \/ FindSource(c) \/ StartBuild(c) \/ DeepAnswers(c)
  \/ \E h \in Handles :
       BuildEnds(h) \/ CloseSketch(h) \/ CloseDeep(h) \/ DropSketch(h) \/ PromoteSketchJob(h)

(* spawn_blocking runs every build, and a build ends. *)
DeepFairness == \A h \in Handles : WF_deepVars(BuildEnds(h))

DeepSpec == DeepInit /\ [][DeepNext]_deepVars /\ DeepFairness

----------------------------------------------------------------------------
DeepTypeOK ==
  /\ sketch \in [Handles -> {"ready", "promoted", "gone"}]
  /\ deep \in [Handles -> DeepStates]
  /\ deepCall \in [DeepCallers -> [pc : {"idle", "source", "insert", "wait"}, handle : Handles,
                                   answer : {"none", "complete", "error", "pending"}]]
  /\ closing \subseteq Handles
  /\ building \in [Handles -> 0..MaxDeepCalls]
  /\ built \in [Handles -> 0..MaxDeepCalls]
  /\ deepCalls \in 0..MaxDeepCalls
  /\ raced \subseteq Handles
  /\ late \subseteq Handles

(* A whole image is indexed once: a second build of a handle starts only   *)
(* if two calls looked before either had entered its own.                  *)
DeepBuiltOnce == \A h \in Handles : built[h] > 1 => h \in raced

(* target_close releases the deep index of its target: an entry without a  *)
(* job is there only because a build or a call outlived the close, or      *)
(* because the job left the map some other way.                            *)
DeepReleased ==
  \A h \in Handles : sketch[h] = "gone" /\ deep[h] # "none" => h \in closing \cup late

(* A build that is reported as running is settled some time, so "pending"  *)
(* is not answered forever.                                                *)
DeepSettles == \A h \in Handles : deep[h] = "running" ~> deep[h] # "running"

=============================================================================
