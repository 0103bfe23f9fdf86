--------------------------- MODULE Investigations ---------------------------
(***************************************************************************)
(* Investigations and action tickets (mcp.rs: investigation_start and      *)
(* investigation_step).  Calls run concurrently with one another and with  *)
(* the edits and closes of other clients, so an action is what a call does *)
(* between two accesses of shared state or two awaits.  The open job moves *)
(* here as OpenJobs lets it move; proposals are ChangeCommit's.            *)
(*                                                                         *)
(* Investigations are numbered in the order of their creation times.  A    *)
(* reopened target has a new id, so a target opens and closes once.        *)
(***************************************************************************)
EXTENDS Integers, FiniteSets

CONSTANTS Askers,              \* clients, one call each at a time
          TargetIds,                 \* ids of targets
          NoTarget,
          MAX_INVESTIGATIONS,
          MaxStarted,          \* bound: investigations ever started
          MaxTicketRevision,   \* bound: edits per target
          MaxSteps             \* bound: steps ever taken

ASSUME InvestigationAssumption ==
  /\ NoTarget \notin TargetIds
  /\ MAX_INVESTIGATIONS \in Nat \ {0}
  /\ MaxStarted \in Nat
  /\ MaxTicketRevision \in Nat
  /\ MaxSteps \in Nat

VARIABLES
  openTarget,       \* per target: whether it is open, and its op_seq
  openJob,          \* the one target-open job: state and, once ready, target
  started,          \* number of investigations started
  investigations,   \* the map: per number, whether it is in it and its target
  actions,          \* the tickets bound so far
  step,             \* per client: its call
  steps,            \* number of calls of investigation_step
  revived           \* ghost: number of evicted investigations put back

investigationVars ==
  <<openTarget, openJob, started, investigations, actions, step, steps, revived>>

Numbers    == 1..MaxStarted
Revisions  == 0..MaxTicketRevision
JobStates  == {"none", "running", "catalog", "sketch", "ready", "failed", "removed"}
NotStarted == [listed |-> FALSE, target |-> NoTarget]

(* Capabilities: __poll_open and the tools that are bound to a revision.   *)
(* The tickets of a sketch or a catalog (__inspect_window,                 *)
(* __catalog_list_imports) only read the job and are left out.             *)
Capabilities == {"poll", "tool"}
Tickets == [investigation : Numbers, capability : Capabilities,
            target : TargetIds \cup {NoTarget}, revision : Revisions]

NoStep == [pc |-> "idle", investigation |-> 0, target |-> NoTarget, revision |-> 0,
           evidence |-> 0, edited |-> FALSE]
StepPcs == {"idle", "run", "poll", "promoted", "execute", "label"}

InvestigationsInit ==
  /\ openTarget \in [TargetIds -> [state : {"new", "open"}, revision : {0}]]
  /\ openJob = [state |-> "none", target |-> NoTarget]
  /\ started = 0
  /\ investigations = [i \in Numbers |-> NotStarted]
  /\ actions = {}
  /\ step = [c \in Askers |-> NoStep]
  /\ steps = 0
  /\ revived = 0

Listed     == {i \in Numbers : investigations[i].listed}
TargetOpen(t)  == t \in TargetIds /\ openTarget[t].state = "open"
NotCalling(c)    == step[c].pc = "idle"
Answers(c) == step' = [step EXCEPT ![c] = NoStep]
Ticket(i, capability, t, revision) ==
  [investigation |-> i, capability |-> capability, target |-> t, revision |-> revision]

----------------------------------------------------------------------------
(* start_investigation: the oldest leaves when the map is full. *)

Oldest == {CHOOSE i \in Listed : \A k \in Listed : i <= k}

(* Mutant of Evicted: room is made only once the map is over its limit. *)
EvictedLate == IF Cardinality(Listed) > MAX_INVESTIGATIONS THEN Oldest ELSE {}

Evicted == IF Cardinality(Listed) >= MAX_INVESTIGATIONS THEN Oldest ELSE {}

Register(c, t) ==
  /\ NotCalling(c)
  /\ started < MaxStarted
  /\ started' = started + 1
  /\ investigations' = [i \in Numbers |->
       IF i = started + 1 THEN [listed |-> TRUE, target |-> t]
       ELSE IF i \in Evicted THEN [investigations[i] EXCEPT !.listed = FALSE]
       ELSE investigations[i]]

StartOnTarget(c, t) ==
  /\ TargetOpen(t)
  /\ Register(c, t)
  /\ step' = [step EXCEPT ![c] = [NoStep EXCEPT !.pc = "run", !.investigation = started + 1,
                                                !.target = t]]
  /\ UNCHANGED <<openTarget, openJob, actions, steps, revived>>

(* By path, or by the id of the job. *)
StartOnJob(c) ==
  /\ openJob.state # "removed"
  /\ Register(c, NoTarget)
  /\ openJob' = IF openJob.state = "none" THEN [openJob EXCEPT !.state = "running"] ELSE openJob
  /\ actions' = actions \cup {Ticket(started + 1, "poll", NoTarget, 0)}
  /\ UNCHANGED <<openTarget, step, steps, revived>>

(* run_investigation takes the project and binds tickets to its revision,  *)
(* or makes a proposal, or answers at once; a closed target is an error.   *)
RunInvestigation(c) ==
  /\ step[c].pc = "run"
  /\ LET t == step[c].target
     IN  actions' = actions \cup
           (IF TargetOpen(t) THEN {Ticket(step[c].investigation, "tool", t, openTarget[t].revision)} ELSE {})
  /\ Answers(c)
  /\ UNCHANGED <<openTarget, openJob, started, investigations, steps, revived>>

----------------------------------------------------------------------------
(* investigation_step on a __poll_open ticket: the investigation is cloned *)
(* and the job awaited for at most two seconds.                            *)

TakePoll(c, a) ==
  /\ NotCalling(c)
  /\ steps < MaxSteps
  /\ a.capability = "poll"
  /\ investigations[a.investigation].listed
  /\ step' = [step EXCEPT ![c] = [NoStep EXCEPT !.pc = "poll", !.investigation = a.investigation]]
  /\ steps' = steps + 1
  /\ UNCHANGED <<openTarget, openJob, started, investigations, actions, revived>>

(* The job became ready: the clone goes back into the map, whatever the    *)
(* map is by now.                                                          *)
PollReady(c) ==
  /\ step[c].pc \in {"poll", "promoted"}
  /\ openJob.state = "ready"
  /\ LET i == step[c].investigation
     IN  /\ investigations' = [investigations EXCEPT ![i].listed = TRUE, ![i].target = openJob.target]
         /\ revived' = revived + (IF i \in Listed THEN 0 ELSE 1)
  /\ step' = [step EXCEPT ![c].pc = "run", ![c].target = openJob.target]
  /\ UNCHANGED <<openTarget, openJob, started, actions, steps>>

(* A sketch answers, or is promoted for an investigation that needs a      *)
(* project; a catalog is promoted, or answers a capability at once.  Which *)
(* depends on the question.                                                *)
PollSketch(c) ==
  /\ step[c].pc \in {"poll", "promoted"}
  /\ openJob.state = "sketch"
  /\ \/ UNCHANGED openJob
     \/ /\ step[c].pc = "poll"
        /\ openJob' = [openJob EXCEPT !.state = "running"]
  /\ Answers(c)
  /\ UNCHANGED <<openTarget, started, investigations, actions, steps, revived>>

PollCatalog(c) ==
  /\ step[c].pc = "poll"
  /\ openJob.state = "catalog"
  /\ \/ Answers(c) /\ UNCHANGED openJob
     \/ /\ openJob' = [openJob EXCEPT !.state = "running"]
        /\ step' = [step EXCEPT ![c].pc = "promoted"]
  /\ UNCHANGED <<openTarget, started, investigations, actions, steps, revived>>

(* The job failed or is gone, or the two seconds are over: an error, or a  *)
(* pending answer with the ticket again.                                   *)
PollEnds(c) ==
  /\ \/ step[c].pc = "poll" /\ openJob.state \in {"running", "failed", "removed"}
     \/ step[c].pc = "promoted" /\ openJob.state \in {"running", "catalog", "failed", "removed"}
  /\ Answers(c)
  /\ UNCHANGED <<openTarget, openJob, started, investigations, actions, steps, revived>>

----------------------------------------------------------------------------
(* Other tickets.  The inputs of the call overwrite the ticket's arguments *)
(* (t, the target they name); the revision is compared with that target's. *)

(* Mutant of Current: the revision is not compared. *)
CurrentUnchecked(a, t) == t # NoTarget

Current(a, t) == TargetOpen(t) /\ openTarget[t].revision = a.revision

TakeTicket(c, a, t) ==
  /\ NotCalling(c)
  /\ steps < MaxSteps
  /\ a.capability = "tool"
  /\ step' = [step EXCEPT ![c] =
       IF Current(a, t)
       THEN [NoStep EXCEPT !.pc = "execute", !.investigation = a.investigation,
                           !.target = t, !.revision = a.revision]
       ELSE NoStep]
  /\ steps' = steps + 1
  /\ UNCHANGED <<openTarget, openJob, started, investigations, actions, revived>>

(* The tool takes the project again; without one it is an error. *)
ExecuteTool(c) ==
  /\ step[c].pc = "execute"
  /\ LET t == step[c].target
     IN  step' = [step EXCEPT ![c] =
           IF TargetOpen(t) THEN [step[c] EXCEPT !.pc = "label", !.evidence = openTarget[t].revision]
                        ELSE NoStep]
  /\ UNCHANGED <<openTarget, openJob, started, investigations, actions, steps, revived>>

(* normalize_v3_result reads the revision of the envelope once more. *)
LabelAnswer(c) ==
  /\ step[c].pc = "label"
  /\ Answers(c)
  /\ UNCHANGED <<openTarget, openJob, started, investigations, actions, steps, revived>>

----------------------------------------------------------------------------
(* What goes on around the calls. *)

JobMoves ==
  /\ openJob.state = "running"
  /\ \/ /\ \E s \in {"catalog", "sketch", "failed"} : openJob' = [openJob EXCEPT !.state = s]
        /\ UNCHANGED openTarget
     \/ \E t \in TargetIds :
          /\ openTarget[t].state = "new"
          /\ openJob' = [state |-> "ready", target |-> t]
          /\ openTarget' = [openTarget EXCEPT ![t].state = "open"]
  /\ UNCHANGED <<started, investigations, actions, step, steps, revived>>

PublishToTarget(t) ==
  /\ TargetOpen(t)
  /\ openTarget[t].revision < MaxTicketRevision
  /\ openTarget' = [openTarget EXCEPT ![t].revision = openTarget[t].revision + 1]
  /\ step' = [c \in Askers |-> IF step[c].pc = "execute" /\ step[c].target = t
                               THEN [step[c] EXCEPT !.edited = TRUE] ELSE step[c]]
  /\ UNCHANGED <<openJob, started, investigations, actions, steps, revived>>

ReleaseTarget(t) ==
  /\ TargetOpen(t)
  /\ openTarget' = [openTarget EXCEPT ![t].state = "closed"]
  /\ openJob' = IF openJob.target = t THEN [openJob EXCEPT !.state = "removed"] ELSE openJob
  /\ UNCHANGED <<started, investigations, actions, step, steps, revived>>

(* target_close on the job, or its pruning or eviction. *)
RemoveJob ==
  /\ openJob.state \notin {"none", "removed"}
  /\ openJob' = [openJob EXCEPT !.state = "removed"]
  /\ UNCHANGED <<openTarget, started, investigations, actions, step, steps, revived>>

(* INVESTIGATION_TTL: the next start prunes the oldest. *)
ExpireInvestigation ==
  /\ Listed # {}
  /\ investigations' = [i \in Numbers |-> IF i \in Oldest THEN [investigations[i] EXCEPT !.listed = FALSE]
                                                          ELSE investigations[i]]
  /\ UNCHANGED <<openTarget, openJob, started, actions, step, steps, revived>>

CallContinues(c) ==
  \/ RunInvestigation(c)
  \/ PollReady(c) \/ PollSketch(c) \/ PollCatalog(c) \/ PollEnds(c)
  \/ ExecuteTool(c) \/ LabelAnswer(c)

InvestigationsNext ==
  \/ \E c \in Askers :
       \/ CallContinues(c)
       \/ \E t \in TargetIds : StartOnTarget(c, t)
       \/ StartOnJob(c)
       \/ \E a \in actions : TakePoll(c, a)
       \/ \E a \in actions, t \in TargetIds : TakeTicket(c, a, t)
  \/ \E t \in TargetIds : PublishToTarget(t) \/ ReleaseTarget(t)
  \/ JobMoves
  \/ RemoveJob
  \/ ExpireInvestigation

InvestigationsSpec == InvestigationsInit /\ [][InvestigationsNext]_investigationVars

----------------------------------------------------------------------------
InvestigationsTypeOK ==
  LET AnyId == TargetIds \cup {NoTarget}
  IN  /\ openTarget \in [TargetIds -> [state : {"new", "open", "closed"}, revision : Revisions]]
      /\ openJob \in [state : JobStates, target : AnyId]
      /\ started \in 0..MaxStarted
      /\ investigations \in [Numbers -> [listed : BOOLEAN, target : AnyId]]
      /\ actions \subseteq Tickets
      /\ step \in [Askers -> [pc : StepPcs, investigation : 0..MaxStarted, target : AnyId,
                              revision : Revisions, evidence : Revisions, edited : BOOLEAN]]
      /\ steps \in 0..MaxSteps
      /\ revived \in 0..MaxSteps

(* MAX_INVESTIGATIONS bounds the map, up to investigations that were       *)
(* evicted while a step awaited their job and that the step put back.      *)
InvestigationsBounded == Cardinality(Listed) <= MAX_INVESTIGATIONS + revived

(* "target changed after this action was issued": a ticket's answer is     *)
(* evidence of the revision the ticket was issued for, unless an edit was  *)
(* published between the check and the tool; and an envelope never bears   *)
(* an older revision than its evidence.                                    *)
EvidenceOfTicket ==
  \A c \in Askers : step[c].pc = "label" =>
    LET s == step[c]
    IN  /\ ~s.edited => s.evidence = s.revision
        /\ s.revision <= s.evidence
        /\ s.evidence <= openTarget[s.target].revision

=============================================================================
