----------------------- MODULE Investigations_proofs -----------------------
(***************************************************************************)
(* The evidence of a ticket, for any number of clients, targets, edits,    *)
(* investigations and steps.                                               *)
(***************************************************************************)
EXTENDS Investigations, Artifacts, Lists_proofs, SequenceTheorems

AnyId == TargetIds \cup {NoTarget}
Steps == [pc : StepPcs, investigation : 0..MaxStarted, target : AnyId, revision : Revisions,
          evidence : Revisions, edited : BOOLEAN]

StepShape ==
  /\ openTarget \in [TargetIds -> [state : {"new", "open", "closed"}, revision : Revisions]]
  /\ openJob \in [state : JobStates, target : AnyId]
  /\ started \in 0..MaxStarted
  /\ actions \subseteq Tickets
  /\ step \in [Askers -> Steps]

RevisionNow(t) == openTarget[t].revision

(* Between the check and the tool the revision of the ticket is the        *)
(* target's, or an edit was published; after the tool the evidence is in   *)
(* between.                                                                *)
StepSound(s) ==
  /\ s.pc \in {"run", "poll", "promoted"} => s.investigation \in Numbers
  /\ s.pc \in {"execute", "label"} => s.target \in TargetIds
  /\ s.pc = "execute" => /\ s.revision <= RevisionNow(s.target)
                         /\ s.edited = FALSE => s.revision = RevisionNow(s.target)
  /\ s.pc = "label" => /\ s.edited = FALSE => s.evidence = s.revision
                       /\ s.revision <= s.evidence
                       /\ s.evidence <= RevisionNow(s.target)

TicketInv == StepShape /\ \A c \in Askers : StepSound(step[c])

----------------------------------------------------------------------------
LEMMA RevisionsAre == Revisions \subseteq Nat /\ 0 \in Revisions
BY InvestigationAssumption DEF Revisions

LEMMA NumbersAre == Numbers \subseteq 0..MaxStarted
BY InvestigationAssumption DEF Numbers

LEMMA NoStepIs == NoStep \in Steps /\ NoStep.pc = "idle" /\ NoStep.edited = FALSE
BY InvestigationAssumption DEF NoStep, Steps, StepPcs, AnyId, Revisions

LEMMA TicketsStart == InvestigationsInit => TicketInv
<1> SUFFICES ASSUME InvestigationsInit PROVE TicketInv
  OBVIOUS
<1>1. openTarget \in [TargetIds -> [state : {"new", "open", "closed"}, revision : Revisions]]
  <2>1. openTarget \in [TargetIds -> [state : {"new", "open"}, revision : {0}]]
    BY DEF InvestigationsInit
  <2>2. QED
    BY <2>1, RevisionsAre
<1>2. openJob \in [state : JobStates, target : AnyId] /\ started \in 0..MaxStarted
  BY InvestigationAssumption DEF InvestigationsInit, JobStates, AnyId
<1>3. actions \subseteq Tickets /\ step \in [Askers -> Steps]
  BY NoStepIs DEF InvestigationsInit
<1>4. \A c \in Askers : StepSound(step[c])
  BY NoStepIs DEF InvestigationsInit, StepSound
<1>5. QED
  BY <1>1, <1>2, <1>3, <1>4 DEF TicketInv, StepShape

(* A step of one call that leaves the revisions alone. *)
LEMMA CallMoves ==
  ASSUME TicketInv, NEW c \in Askers, NEW s \in Steps, step' = [step EXCEPT ![c] = s],
         UNCHANGED openTarget, StepSound(s),
         openJob' \in [state : JobStates, target : AnyId],
         started' \in 0..MaxStarted, actions' \subseteq Tickets
  PROVE  TicketInv'
<1>1. StepShape
  BY DEF TicketInv
<1>2. step' \in [Askers -> Steps] /\ step'[c] = s /\ \A d \in Askers \ {c} : step'[d] = step[d]
  BY <1>1 DEF StepShape
<1>3. StepShape'
  BY <1>1, <1>2 DEF StepShape
<1>4. \A d \in Askers : StepSound(step'[d])
  BY <1>2 DEF TicketInv
<1>5. (\A d \in Askers : StepSound(step[d]))'
  BY <1>4 DEF StepSound, RevisionNow
<1>6. QED
  BY <1>3, <1>5 DEF TicketInv

(* A call that is at neither place keeps only its investigation. *)
LEMMA IdleSound ==
  \A s \in Steps : /\ s.pc \notin {"execute", "label"}
                   /\ s.pc # "idle" => s.investigation \in Numbers
                   => StepSound(s)
BY DEF StepSound

LEMMA AnswersKeep ==
  ASSUME TicketInv, NEW c \in Askers, Answers(c), UNCHANGED openTarget,
         openJob' \in [state : JobStates, target : AnyId],
         started' \in 0..MaxStarted, actions' \subseteq Tickets
  PROVE  TicketInv'
BY NoStepIs, IdleSound, CallMoves DEF Answers

LEMMA StartKeeps ==
  ASSUME TicketInv, NEW c \in Askers, NEW t \in TargetIds, StartOnTarget(c, t)
  PROVE  TicketInv'
<1> DEFINE s == [NoStep EXCEPT !.pc = "run", !.investigation = started + 1, !.target = t]
<1>1. StepShape
  BY DEF TicketInv
<1>2. started + 1 \in 0..MaxStarted /\ started + 1 \in Numbers /\ started' = started + 1
  BY <1>1, InvestigationAssumption DEF StepShape, StartOnTarget, Register, Numbers
<1>3. s \in Steps /\ s.pc = "run" /\ s.investigation \in Numbers
  BY <1>2, NoStepIs DEF Steps, StepPcs, AnyId
<1>4. /\ step' = [step EXCEPT ![c] = s]
      /\ UNCHANGED <<openTarget, openJob, actions>>
  BY DEF StartOnTarget
<1> HIDE DEF s
<1>5. StepSound(s)
  BY <1>3, IdleSound
<1>6. QED
  BY <1>1, <1>2, <1>3, <1>4, <1>5, CallMoves DEF StepShape

LEMMA StartOnJobKeeps ==
  ASSUME TicketInv, NEW c \in Askers, StartOnJob(c)
  PROVE  TicketInv'
<1>1. StepShape
  BY DEF TicketInv
<1>2. started + 1 \in Numbers /\ started' = started + 1
  BY <1>1, InvestigationAssumption DEF StepShape, StartOnJob, Register, Numbers
<1>3. Ticket(started + 1, "poll", NoTarget, 0) \in Tickets
  BY <1>2, RevisionsAre DEF Ticket, Tickets, Capabilities
<1>4. actions' \subseteq Tickets
  BY <1>1, <1>3 DEF StepShape, StartOnJob
<1>5. openJob' \in [state : JobStates, target : AnyId]
  BY <1>1 DEF StepShape, StartOnJob, JobStates
<1>6. QED
  BY <1>1, <1>2, <1>4, <1>5 DEF StartOnJob, TicketInv, StepShape, StepSound, RevisionNow, Numbers

LEMMA RunKeeps ==
  ASSUME TicketInv, NEW c \in Askers, RunInvestigation(c)
  PROVE  TicketInv'
<1>1. StepShape /\ StepSound(step[c])
  BY DEF TicketInv
<1>2. step[c] \in Steps /\ step[c].investigation \in Numbers
  BY <1>1 DEF StepShape, StepSound, RunInvestigation
<1>3. \A t \in TargetIds : Ticket(step[c].investigation, "tool", t, openTarget[t].revision) \in Tickets
  BY <1>1, <1>2 DEF Ticket, Tickets, Capabilities, StepShape
<1>4. actions' \subseteq Tickets
  BY <1>1, <1>3 DEF StepShape, RunInvestigation, TargetOpen
<1>5. QED
  BY <1>1, <1>4, AnswersKeep DEF RunInvestigation, StepShape

LEMMA TakePollKeeps ==
  ASSUME TicketInv, NEW c \in Askers, NEW a \in actions, TakePoll(c, a)
  PROVE  TicketInv'
<1> DEFINE s == [NoStep EXCEPT !.pc = "poll", !.investigation = a.investigation]
<1>1. StepShape
  BY DEF TicketInv
<1>2. a.investigation \in Numbers /\ a.investigation \in 0..MaxStarted
  BY <1>1, NumbersAre DEF StepShape, Tickets
<1>3. s \in Steps /\ s.pc = "poll" /\ s.investigation \in Numbers
  BY <1>2, NoStepIs DEF Steps, StepPcs
<1>4. step' = [step EXCEPT ![c] = s] /\ UNCHANGED <<openTarget, openJob, started, actions>>
  BY DEF TakePoll
<1> HIDE DEF s
<1>5. StepSound(s)
  BY <1>3, IdleSound
<1>6. QED
  BY <1>1, <1>3, <1>4, <1>5, CallMoves DEF StepShape

(* A poll that goes on: to the run once the job is ready, or promoted. *)
LEMMA PollOnKeeps ==
  ASSUME TicketInv, NEW c \in Askers, step[c].pc \in {"poll", "promoted"},
         NEW s \in Steps, s.pc \in {"run", "promoted"}, s.investigation = step[c].investigation,
         step' = [step EXCEPT ![c] = s],
         UNCHANGED <<openTarget, started, actions>>,
         openJob' \in [state : JobStates, target : AnyId]
  PROVE  TicketInv'
<1>1. StepShape /\ StepSound(step[c])
  BY DEF TicketInv
<1>2. StepSound(s)
  BY <1>1, IdleSound DEF StepSound
<1>3. QED
  BY <1>1, <1>2, CallMoves DEF StepShape

LEMMA PollReadyKeeps ==
  ASSUME TicketInv, NEW c \in Askers, PollReady(c)
  PROVE  TicketInv'
<1> DEFINE s == [step[c] EXCEPT !.pc = "run", !.target = openJob.target]
<1>1. StepShape
  BY DEF TicketInv
<1>2. \A x \in Steps, t \in AnyId : [x EXCEPT !.pc = "run", !.target = t] \in Steps
  BY DEF Steps, StepPcs
<1>3. step[c] \in Steps /\ openJob.target \in AnyId
  BY <1>1 DEF StepShape
<1>4. s \in Steps
  BY <1>2, <1>3
<1>5. s.pc = "run" /\ s.investigation = step[c].investigation
  BY <1>3 DEF Steps
<1>6. step' = [step EXCEPT ![c] = s]
  BY <1>1 DEF PollReady, StepShape
<1> HIDE DEF s
<1>7. QED
  BY <1>1, <1>4, <1>5, <1>6, PollOnKeeps DEF PollReady, StepShape

LEMMA JobTypes ==
  ASSUME StepShape, NEW j \in JobStates
  PROVE  [openJob EXCEPT !.state = j] \in [state : JobStates, target : AnyId]
BY DEF StepShape

LEMMA PollSketchKeeps ==
  ASSUME TicketInv, NEW c \in Askers, PollSketch(c)
  PROVE  TicketInv'
<1>1. StepShape
  BY DEF TicketInv
<1>2. openJob' \in [state : JobStates, target : AnyId]
  BY <1>1, JobTypes DEF PollSketch, StepShape, JobStates
<1>3. QED
  BY <1>1, <1>2, AnswersKeep DEF PollSketch, StepShape

LEMMA PollCatalogKeeps ==
  ASSUME TicketInv, NEW c \in Askers, PollCatalog(c)
  PROVE  TicketInv'
<1> DEFINE s == [step[c] EXCEPT !.pc = "promoted"]
<1>1. StepShape
  BY DEF TicketInv
<1>2. openJob' \in [state : JobStates, target : AnyId]
  BY <1>1, JobTypes DEF PollCatalog, StepShape, JobStates
<1>3. CASE Answers(c)
  BY <1>1, <1>2, <1>3, AnswersKeep DEF PollCatalog, StepShape
<1>4. CASE step' = [step EXCEPT ![c].pc = "promoted"]
  <2>1. \A x \in Steps : [x EXCEPT !.pc = "promoted"] \in Steps
    BY DEF Steps, StepPcs
  <2>2. step[c] \in Steps
    BY <1>1 DEF StepShape
  <2>3. s \in Steps
    BY <2>1, <2>2
  <2>4. s.pc = "promoted" /\ s.investigation = step[c].investigation
    BY <2>2 DEF Steps
  <2>5. step' = [step EXCEPT ![c] = s]
    BY <1>1, <1>4 DEF StepShape
  <2> HIDE DEF s
  <2>6. QED
    BY <1>1, <1>2, <2>3, <2>4, <2>5, PollOnKeeps DEF PollCatalog, StepShape
<1>5. QED
  BY <1>3, <1>4 DEF PollCatalog

LEMMA PollEndsKeeps ==
  ASSUME TicketInv, NEW c \in Askers, PollEnds(c) \/ LabelAnswer(c)
  PROVE  TicketInv'
<1>1. StepShape
  BY DEF TicketInv
<1>2. QED
  BY <1>1, AnswersKeep DEF PollEnds, LabelAnswer, StepShape

(* The check: the revision of the ticket is the target's at this moment. *)
LEMMA TakeTicketKeeps ==
  ASSUME TicketInv, NEW c \in Askers, NEW a \in actions, NEW t \in TargetIds, TakeTicket(c, a, t)
  PROVE  TicketInv'
<1> DEFINE s == [NoStep EXCEPT !.pc = "execute", !.investigation = a.investigation,
                               !.target = t, !.revision = a.revision]
<1>1. StepShape
  BY DEF TicketInv
<1>2. a.investigation \in 0..MaxStarted /\ a.revision \in Revisions
  BY <1>1, NumbersAre DEF StepShape, Tickets
<1>3. UNCHANGED <<openTarget, openJob, started, actions>>
  BY DEF TakeTicket
<1>4. CASE Current(a, t)
  <2>1. s \in Steps
    BY <1>2, NoStepIs DEF Steps, StepPcs, AnyId
  <2>2. s.pc = "execute" /\ s.target = t /\ s.revision = a.revision
    BY NoStepIs DEF Steps
  <2>3. step' = [step EXCEPT ![c] = s]
    BY <1>4 DEF TakeTicket
  <2> HIDE DEF s
  <2>4. RevisionNow(t) = a.revision
    BY <1>4 DEF Current, RevisionNow
  <2>5. a.revision <= RevisionNow(t)
    <3>1. a.revision \in Nat
      BY <1>2, RevisionsAre
    <3>2. QED
      BY <2>4, <3>1
  <2>6. StepSound(s)
    BY <2>2, <2>4, <2>5 DEF StepSound
  <2>7. QED
    BY <1>1, <1>3, <2>1, <2>3, <2>6, CallMoves DEF StepShape
<1>5. CASE ~Current(a, t)
  <2>1. Answers(c)
    BY <1>5 DEF TakeTicket, Answers
  <2>2. QED
    BY <1>1, <1>3, <2>1, AnswersKeep DEF StepShape
<1>6. QED
  BY <1>4, <1>5

(* The tool reads the target once more, after the edits noticed since. *)
LEMMA ExecuteKeeps ==
  ASSUME TicketInv, NEW c \in Askers, ExecuteTool(c)
  PROVE  TicketInv'
<1> DEFINE r == openTarget[step[c].target].revision
<1> DEFINE s == [step[c] EXCEPT !.pc = "label", !.evidence = r]
<1>1. StepShape /\ StepSound(step[c])
  BY DEF TicketInv
<1>2. UNCHANGED <<openTarget, openJob, started, actions>>
  BY DEF ExecuteTool
<1>3. CASE TargetOpen(step[c].target)
  <2>1. step[c] \in Steps /\ r \in Revisions
    BY <1>1, <1>3 DEF StepShape, TargetOpen
  <2>2. \A x \in Steps, e \in Revisions : [x EXCEPT !.pc = "label", !.evidence = e] \in Steps
    BY DEF Steps, StepPcs
  <2>3. s \in Steps
    BY <2>1, <2>2
  <2>4. /\ s.pc = "label" /\ s.evidence = r /\ s.target = step[c].target
        /\ s.revision = step[c].revision /\ s.edited = step[c].edited
    BY <2>1 DEF Steps
  <2>5. step' = [step EXCEPT ![c] = s]
    BY <1>3 DEF ExecuteTool
  <2>6. r = RevisionNow(step[c].target) /\ r <= r
    BY <2>1, RevisionsAre DEF RevisionNow
  <2> HIDE DEF s, r
  <2>7. StepSound(s)
    BY <1>1, <2>4, <2>6 DEF StepSound, ExecuteTool
  <2>8. QED
    BY <1>1, <1>2, <2>3, <2>5, <2>7, CallMoves DEF StepShape
<1>4. CASE ~TargetOpen(step[c].target)
  <2>1. Answers(c)
    BY <1>4 DEF ExecuteTool, Answers
  <2>2. QED
    BY <1>1, <1>2, <2>1, AnswersKeep DEF StepShape
<1>5. QED
  BY <1>3, <1>4

----------------------------------------------------------------------------
(* What goes on around the calls leaves the revisions alone, or advances   *)
(* one and marks the calls that are between the check and the tool.        *)

LEMMA QuietKeeps ==
  ASSUME TicketInv, UNCHANGED <<started, actions, step>>,
         openJob' \in [state : JobStates, target : AnyId],
         openTarget' \in [TargetIds -> [state : {"new", "open", "closed"}, revision : Revisions]],
         \A t \in TargetIds : openTarget'[t].revision = openTarget[t].revision
  PROVE  TicketInv'
<1>1. StepShape'
  BY DEF TicketInv, StepShape
<1>2. ASSUME NEW c \in Askers PROVE StepSound(step[c])'
  BY DEF TicketInv, StepSound, RevisionNow
<1>3. QED
  BY <1>1, <1>2 DEF TicketInv

LEMMA AroundKeeps ==
  ASSUME TicketInv,
         JobMoves \/ RemoveJob \/ ExpireInvestigation \/ \E t \in TargetIds : ReleaseTarget(t)
  PROVE  TicketInv'
<1>1. StepShape
  BY DEF TicketInv
<1>2. openJob' \in [state : JobStates, target : AnyId]
  BY <1>1, JobTypes DEF JobMoves, RemoveJob, ExpireInvestigation, ReleaseTarget, StepShape, JobStates, AnyId
<1>3. openTarget' \in [TargetIds -> [state : {"new", "open", "closed"}, revision : Revisions]]
  BY <1>1 DEF JobMoves, RemoveJob, ExpireInvestigation, ReleaseTarget, StepShape
<1>4. \A t \in TargetIds : openTarget'[t].revision = openTarget[t].revision
  BY <1>1 DEF JobMoves, RemoveJob, ExpireInvestigation, ReleaseTarget, StepShape
<1>5. UNCHANGED <<started, actions, step>>
  BY DEF JobMoves, RemoveJob, ExpireInvestigation, ReleaseTarget
<1>6. QED
  BY <1>2, <1>3, <1>4, <1>5, QuietKeeps

LEMMA PublishKeeps ==
  ASSUME TicketInv, NEW t \in TargetIds, PublishToTarget(t)
  PROVE  TicketInv'
<1>1. StepShape
  BY DEF TicketInv
<1>2. openTarget[t].revision \in Nat /\ openTarget[t].revision + 1 \in Revisions
  BY <1>1, InvestigationAssumption DEF StepShape, PublishToTarget, Revisions
<1>3. /\ openTarget' \in [TargetIds -> [state : {"new", "open", "closed"}, revision : Revisions]]
      /\ RevisionNow(t)' = RevisionNow(t) + 1
      /\ \A u \in TargetIds \ {t} : RevisionNow(u)' = RevisionNow(u)
  BY <1>1, <1>2 DEF StepShape, PublishToTarget, RevisionNow
<1>4. \A x \in Steps : /\ [x EXCEPT !.edited = TRUE] \in Steps
                       /\ [x EXCEPT !.edited = TRUE].pc = x.pc
                       /\ [x EXCEPT !.edited = TRUE].target = x.target
                       /\ [x EXCEPT !.edited = TRUE].revision = x.revision
                       /\ [x EXCEPT !.edited = TRUE].investigation = x.investigation
                       /\ [x EXCEPT !.edited = TRUE].edited = TRUE
  BY DEF Steps
<1>5. \A c \in Askers : step'[c] = IF step[c].pc = "execute" /\ step[c].target = t
                                   THEN [step[c] EXCEPT !.edited = TRUE] ELSE step[c]
  BY DEF PublishToTarget
<1>6. step' \in [Askers -> Steps]
  BY <1>1, <1>4 DEF StepShape, PublishToTarget
<1>7. StepShape'
  BY <1>1, <1>3, <1>6 DEF StepShape, PublishToTarget
<1>8. ASSUME NEW c \in Askers PROVE StepSound(step[c])'
  <2>1. step[c] \in Steps /\ StepSound(step[c])
    BY <1>1 DEF StepShape, TicketInv
  <2>2. step[c].revision \in Nat /\ step[c].evidence \in Nat
    BY <2>1, RevisionsAre DEF Steps
  <2>3. \A u \in TargetIds : RevisionNow(u) \in Nat
    BY <1>1, RevisionsAre DEF StepShape, RevisionNow
  <2>4. CASE step[c].pc = "execute" /\ step[c].target = t
    <3>1. /\ step'[c].pc = "execute" /\ step'[c].target = t
          /\ step'[c].revision = step[c].revision /\ step'[c].edited = TRUE
      BY <1>4, <1>5, <2>1, <2>4
    <3>2. step[c].revision <= RevisionNow(t)
      BY <2>1, <2>4 DEF StepSound
    <3>3. step[c].revision <= RevisionNow(t)'
      BY <1>3, <2>2, <2>3, <3>2
    <3>4. QED
      BY <3>1, <3>3 DEF StepSound, RevisionNow
  <2>5. CASE step[c].pc = "execute" /\ step[c].target # t
    BY <1>3, <1>5, <2>1, <2>5 DEF StepSound, RevisionNow
  <2>6. CASE step[c].pc = "label"
    <3>1. step'[c] = step[c] /\ step[c].target \in TargetIds
      BY <1>5, <2>1, <2>6 DEF StepSound
    <3>2. step[c].evidence <= RevisionNow(step[c].target)
      BY <2>1, <2>6 DEF StepSound
    <3>3. step[c].evidence <= openTarget'[step[c].target].revision
      BY <1>3, <2>2, <2>3, <3>1, <3>2 DEF RevisionNow
    <3>4. QED
      BY <2>1, <2>6, <3>1, <3>3 DEF StepSound, RevisionNow
  <2>7. CASE step[c].pc \notin {"execute", "label"}
    BY <1>5, <2>1, <2>7 DEF StepSound
  <2>8. QED
    BY <2>4, <2>5, <2>6, <2>7
<1>9. QED
  BY <1>7, <1>8 DEF TicketInv

LEMMA TicketsStep == TicketInv /\ [InvestigationsNext]_investigationVars => TicketInv'
<1> SUFFICES ASSUME TicketInv, [InvestigationsNext]_investigationVars PROVE TicketInv'
  OBVIOUS
<1>1. CASE UNCHANGED investigationVars
  BY <1>1 DEF investigationVars, TicketInv, StepShape, StepSound, RevisionNow
<1>2. ASSUME NEW c \in Askers, CallContinues(c) PROVE TicketInv'
  BY <1>2, RunKeeps, PollReadyKeeps, PollSketchKeeps, PollCatalogKeeps, PollEndsKeeps, ExecuteKeeps
  DEF CallContinues
<1>3. QED
  BY <1>1, <1>2, StartKeeps, StartOnJobKeeps, TakePollKeeps, TakeTicketKeeps, PublishKeeps, AroundKeeps
  DEF InvestigationsNext

(* The evidence of a ticket's answer is of the ticket's revision, unless   *)
(* an edit was published between the check of investigation_step and the   *)
(* tool, and the envelope of normalize_v3_result is never older than it.   *)
THEOREM TicketEvidence == InvestigationsSpec => []EvidenceOfTicket
<1>1. TicketInv => EvidenceOfTicket
  BY DEF TicketInv, EvidenceOfTicket, StepSound, RevisionNow
<1>2. QED
  BY <1>1, TicketsStart, TicketsStep, PTL DEF InvestigationsSpec

----------------------------------------------------------------------------
(* The size of the map.                                                    *)

MapEntries == [listed : BOOLEAN, target : AnyId]

MapInv ==
  /\ TicketInv
  /\ investigations \in [Numbers -> MapEntries]
  /\ revived \in Nat
  /\ InvestigationsBounded

LEMMA ListedFinite ==
  ASSUME NEW S \in SUBSET Numbers
  PROVE  /\ IsFiniteSet(S) /\ Cardinality(S) \in Nat
         /\ \A T \in SUBSET S : Cardinality(T) <= Cardinality(S)
         /\ \A x : Cardinality(S \cup {x}) <= Cardinality(S) + 1
         /\ \A x \in S : Cardinality(S \ {x}) = Cardinality(S) - 1
<1>1. IsFiniteSet(Numbers)
  BY FS_Interval, InvestigationAssumption DEF Numbers
<1>2. IsFiniteSet(S)
  BY <1>1, FS_Subset
<1>3. Cardinality(S) \in Nat
  BY <1>2, FS_CardinalityType
<1>4. \A x : Cardinality(S \cup {x}) <= Cardinality(S) + 1
  BY <1>2, <1>3, FS_AddElement
<1> QED
  BY <1>2, <1>3, <1>4, FS_Subset, FS_RemoveElement

(* There is an oldest investigation to evict. *)
LEMMA OldestIsListed ==
  ASSUME Listed # {}
  PROVE  \E i \in Listed : Oldest = {i}
<1>1. Listed \subseteq Nat
  BY InvestigationAssumption DEF Listed, Numbers
<1>2. \E i \in Listed : \A k \in Listed : i <= k
  BY <1>1, LeastNatural
<1> QED
  BY <1>2 DEF Oldest

LEMMA MapShrinks ==
  ASSUME MapInv, TicketInv', investigations' \in [Numbers -> MapEntries],
         \A i \in Numbers : investigations'[i].listed => investigations[i].listed, revived' = revived
  PROVE  MapInv'
<1>1. Listed' \subseteq Listed /\ Listed \in SUBSET Numbers
  BY DEF Listed
<1>2. Cardinality(Listed') <= Cardinality(Listed) /\ Cardinality(Listed) \in Nat
  BY <1>1, ListedFinite
<1>3. Cardinality(Listed') \in Nat
  <2>1. Listed' \in SUBSET Numbers
    BY <1>1
  <2> QED
    BY <2>1, ListedFinite
<1> QED
  BY <1>2, <1>3, InvestigationAssumption DEF MapInv, InvestigationsBounded

LEMMA Unlisted ==
  ASSUME NEW x \in MapEntries
  PROVE  [x EXCEPT !.listed = FALSE] \in MapEntries /\ ~[x EXCEPT !.listed = FALSE].listed
  BY DEF MapEntries

(* One joins the map, and if it was full, one leaves. *)
LEMMA RegisterBounded ==
  ASSUME MapInv, TicketInv', NEW c \in Askers, NEW t \in AnyId, Register(c, t), revived' = revived
  PROVE  MapInv'
<1> DEFINE new == [listed |-> TRUE, target |-> t]
<1>1. new \in MapEntries
  BY DEF MapEntries
<1>2. investigations' = [i \in Numbers |->
         IF i = started + 1 THEN new
         ELSE IF i \in Evicted THEN [investigations[i] EXCEPT !.listed = FALSE]
         ELSE investigations[i]]
  BY DEF Register
<1> HIDE DEF new
<1>3. \A i \in Numbers : investigations[i] \in MapEntries
  BY DEF MapInv
<1>4. investigations' \in [Numbers -> MapEntries]
  BY <1>1, <1>2, <1>3, Unlisted
<1>5. Listed' \subseteq (Listed \ Evicted) \cup {started + 1}
  BY <1>2, <1>3, Unlisted DEF Listed
<1>6. Listed \in SUBSET Numbers /\ Listed' \in SUBSET Numbers
  BY DEF Listed
<1>7. Cardinality(Listed) \in Nat /\ Cardinality(Listed') \in Nat /\ revived \in Nat
      /\ MAX_INVESTIGATIONS \in Nat \ {0} /\ Cardinality(Listed) <= MAX_INVESTIGATIONS + revived
  BY <1>6, ListedFinite, InvestigationAssumption DEF MapInv, InvestigationsBounded
<1>8. CASE Cardinality(Listed) >= MAX_INVESTIGATIONS
  <2>1. Listed # {}
    BY <1>7, <1>8, FS_EmptySet
  <2>2. PICK i \in Listed : Evicted = {i}
    BY <1>8, <2>1, OldestIsListed DEF Evicted
  <2> DEFINE S == Listed \ {i}
  <2>3. S \in SUBSET Numbers /\ Cardinality(S) = Cardinality(Listed) - 1 /\ Cardinality(S) \in Nat
    BY <1>6, ListedFinite
  <2>4. Cardinality(S \cup {started + 1}) <= Cardinality(Listed)
    BY <1>7, <2>3, ListedFinite, FS_AddElement
  <2>5. Cardinality(Listed') <= Cardinality(S \cup {started + 1})
    <3>1. IsFiniteSet(S \cup {started + 1}) /\ Listed' \subseteq S \cup {started + 1}
      BY <1>5, <2>2, <2>3, ListedFinite, FS_AddElement
    <3> QED
      BY <3>1, FS_Subset
  <2>6. Cardinality(S \cup {started + 1}) \in Nat
    BY <2>3, ListedFinite, FS_AddElement, FS_CardinalityType
  <2> QED
    BY <1>4, <1>7, <2>4, <2>5, <2>6 DEF MapInv, InvestigationsBounded
<1>9. CASE ~(Cardinality(Listed) >= MAX_INVESTIGATIONS)
  <2>1. Listed' \subseteq Listed \cup {started + 1} /\ IsFiniteSet(Listed \cup {started + 1})
    BY <1>5, <1>6, ListedFinite, FS_AddElement
  <2>2. Cardinality(Listed') <= Cardinality(Listed \cup {started + 1})
        /\ Cardinality(Listed \cup {started + 1}) \in Nat
    BY <2>1, FS_Subset, FS_CardinalityType
  <2>3. Cardinality(Listed \cup {started + 1}) <= Cardinality(Listed) + 1
    BY <1>6, ListedFinite
  <2> QED
    BY <1>4, <1>7, <1>9, <2>2, <2>3 DEF MapInv, InvestigationsBounded
<1> QED
  BY <1>8, <1>9

(* A step puts its investigation back. *)
LEMMA PollReadyBounded ==
  ASSUME MapInv, TicketInv', NEW c \in Askers, PollReady(c)
  PROVE  MapInv'
<1> DEFINE n == step[c].investigation
<1>1. /\ investigations' = [investigations EXCEPT ![n].listed = TRUE, ![n].target = openJob.target]
      /\ revived' = revived + (IF n \in Listed THEN 0 ELSE 1)
  BY DEF PollReady
<1>2. openJob.target \in AnyId /\ \A i \in Numbers : investigations[i] \in MapEntries
  BY DEF MapInv, TicketInv, StepShape
<1>3. \A x \in MapEntries, t \in AnyId : [x EXCEPT !.listed = TRUE, !.target = t] \in MapEntries
  BY DEF MapEntries
<1> HIDE DEF n
<1>4. investigations' = [investigations EXCEPT ![n] =
                           [investigations[n] EXCEPT !.listed = TRUE, !.target = openJob.target]]
  BY <1>1
<1>5. /\ investigations' \in [Numbers -> MapEntries]
      /\ \A i \in Numbers : i # n => investigations'[i] = investigations[i]
  BY <1>2, <1>3, <1>4 DEF MapInv
<1>6. Listed' \subseteq Listed \cup {n}
  BY <1>5 DEF Listed
<1>7. Listed \in SUBSET Numbers /\ Listed' \in SUBSET Numbers
  BY DEF Listed
<1>8. Cardinality(Listed) \in Nat /\ Cardinality(Listed') \in Nat /\ revived \in Nat
      /\ MAX_INVESTIGATIONS \in Nat \ {0} /\ Cardinality(Listed) <= MAX_INVESTIGATIONS + revived
  BY <1>7, ListedFinite, InvestigationAssumption DEF MapInv, InvestigationsBounded
<1>9. CASE n \in Listed
  <2>1. Listed' \subseteq Listed
    BY <1>6, <1>9
  <2>2. Cardinality(Listed') <= Cardinality(Listed)
    BY <1>7, <2>1, ListedFinite
  <2> QED
    BY <1>1, <1>5, <1>8, <1>9, <2>2 DEF MapInv, InvestigationsBounded
<1>10. CASE n \notin Listed
  <2>1. IsFiniteSet(Listed \cup {n}) /\ Cardinality(Listed \cup {n}) <= Cardinality(Listed) + 1
    BY <1>7, ListedFinite, FS_AddElement
  <2>2. Cardinality(Listed') <= Cardinality(Listed \cup {n}) /\ Cardinality(Listed \cup {n}) \in Nat
    BY <1>6, <2>1, FS_Subset, FS_CardinalityType
  <2> QED
    BY <1>1, <1>5, <1>8, <1>10, <2>1, <2>2 DEF MapInv, InvestigationsBounded
<1> QED
  BY <1>9, <1>10

LEMMA MapStarts == InvestigationsInit => MapInv
<1> SUFFICES ASSUME InvestigationsInit PROVE MapInv
  OBVIOUS
<1>1. NotStarted \in MapEntries /\ ~NotStarted.listed
  BY DEF NotStarted, MapEntries, AnyId
<1>2. investigations = [i \in Numbers |-> NotStarted] /\ revived = 0
  BY DEF InvestigationsInit
<1>3. Listed = {}
  BY <1>1, <1>2 DEF Listed
<1>4. Cardinality(Listed) = 0
  BY <1>3, FS_EmptySet
<1> QED
  BY <1>1, <1>2, <1>4, TicketsStart, InvestigationAssumption DEF MapInv, InvestigationsBounded

LEMMA MapSteps == MapInv /\ [InvestigationsNext]_investigationVars => MapInv'
<1> SUFFICES ASSUME MapInv, [InvestigationsNext]_investigationVars PROVE MapInv'
  OBVIOUS
<1>1. TicketInv'
  BY TicketsStep DEF MapInv
<1>2. CASE UNCHANGED <<investigations, revived>>
  <2>1. investigations' \in [Numbers -> MapEntries]
    BY <1>2 DEF MapInv
  <2> QED
    BY <1>1, <1>2, <2>1, MapShrinks
<1>3. ASSUME NEW c \in Askers, \/ \E t \in TargetIds : StartOnTarget(c, t)
                               \/ StartOnJob(c)
      PROVE  MapInv'
  <2>1. PICK t \in AnyId : Register(c, t) /\ revived' = revived
    BY <1>3 DEF StartOnTarget, StartOnJob, AnyId
  <2> QED
    BY <1>1, <2>1, RegisterBounded
<1>4. CASE ExpireInvestigation
  <2>1. /\ investigations' = [i \in Numbers |-> IF i \in Oldest THEN [investigations[i] EXCEPT !.listed = FALSE]
                                                               ELSE investigations[i]]
        /\ revived' = revived
    BY <1>4 DEF ExpireInvestigation
  <2>2. \A i \in Numbers : investigations[i] \in MapEntries
    BY DEF MapInv
  <2>3. investigations' \in [Numbers -> MapEntries]
    BY <2>1, <2>2, Unlisted
  <2>4. \A i \in Numbers : investigations'[i].listed => investigations[i].listed
    BY <2>1, <2>2, Unlisted
  <2> QED
    BY <1>1, <2>1, <2>3, <2>4, MapShrinks
<1>5. ASSUME NEW c \in Askers, PollReady(c) PROVE MapInv'
  BY <1>1, <1>5, PollReadyBounded
<1>6. ASSUME NEW c \in Askers,
             \/ RunInvestigation(c) \/ PollSketch(c) \/ PollCatalog(c) \/ PollEnds(c)
             \/ ExecuteTool(c) \/ LabelAnswer(c)
             \/ \E a \in actions : TakePoll(c, a)
             \/ \E a \in actions, t \in TargetIds : TakeTicket(c, a, t)
      PROVE  MapInv'
  BY <1>2, <1>6 DEF RunInvestigation, PollSketch, PollCatalog, PollEnds, ExecuteTool, LabelAnswer,
                    TakePoll, TakeTicket
<1>7. CASE JobMoves \/ RemoveJob \/ \E t \in TargetIds : PublishToTarget(t) \/ ReleaseTarget(t)
  BY <1>2, <1>7 DEF JobMoves, RemoveJob, PublishToTarget, ReleaseTarget
<1>8. CASE UNCHANGED investigationVars
  BY <1>2, <1>8 DEF investigationVars
<1> QED
  BY <1>3, <1>4, <1>5, <1>6, <1>7, <1>8 DEF InvestigationsNext, CallContinues

(* start_investigation evicts the oldest entry of a full map: the map      *)
(* grows beyond MAX_INVESTIGATIONS only by entries that steps put back.    *)
THEOREM MapBounded == InvestigationsSpec => []InvestigationsBounded
<1>1. MapInv => InvestigationsBounded
  BY DEF MapInv
<1> QED
  BY <1>1, MapStarts, MapSteps, PTL DEF InvestigationsSpec

----------------------------------------------------------------------------
(* Artifacts: pages of a body.                                             *)

PageSizes == 256..8192

LEMMA SizesAre ==
  ASSUME NEW n \in ReadSizes
  PROVE  /\ PageSize(n) \in PageSizes
         /\ Budget(n) \in 512..MAX_INLINE_BYTES
         /\ Budget(n) \in Nat
<1>1. n \in Nat
  BY ArtifactAssumption
<1> QED
  BY <1>1 DEF Budget, PageSize, PageSizes, Clamp, Smaller, MAX_INLINE_BYTES

(* A read starts at its cursor, when that is between two characters. *)
LEMMA PageStartsAtCursor ==
  ASSUME NEW b, IsBody(b), NEW cursor \in 0..b.len, cursor \notin b.inside
  PROVE  PageStart(b, cursor) = cursor
<1>1. b.len \in Nat /\ cursor \in Nat
  BY DEF IsBody
<1>2. Smaller(cursor, b.len) = cursor
  BY <1>1 DEF Smaller
<1> DEFINE P(s) == s \notin b.inside /\ \A k \in cursor..(s - 1) : k \in b.inside
<1>3. cursor \in cursor..b.len /\ P(cursor)
  BY <1>1
<1>4. ASSUME NEW s \in cursor..b.len, P(s) PROVE s = cursor
  <2>1. CASE s > cursor
    <3>1. cursor \in cursor..(s - 1)
      BY <1>1, <2>1
    <3> QED
      BY <1>4, <3>1
  <2> QED
    BY <1>1, <2>1
<1>5. PageStart(b, cursor) = CHOOSE s \in cursor..b.len : P(s)
  BY <1>2 DEF PageStart
<1> HIDE DEF P
<1> QED
  BY <1>3, <1>4, <1>5

(* A page ends between two characters and moves on. *)
ReadableAt(b, start) == IsBody(b) /\ start \in 0..(b.len - 1) /\ start \notin b.inside

EndsAt(b, start, size, e) ==
  e = PageEnd(b, start, size) /\ start < e /\ e <= b.len /\ e \notin b.inside

LEMMA PageMovesOn ==
  ASSUME NEW b, NEW start, ReadableAt(b, start), NEW size \in PageSizes
  PROVE  \E e \in Nat : EndsAt(b, start, size, e)
<1>0. IsBody(b) /\ start \in 0..(b.len - 1) /\ start \notin b.inside
  BY DEF ReadableAt
<1> DEFINE to == Smaller(start + size, b.len)
           P(e) == e \notin b.inside /\ \A k \in (e + 1)..to : k \in b.inside
<1>1. b.len \in Nat /\ start \in Nat /\ size \in Nat /\ start + size \in Nat
  BY <1>0 DEF IsBody, PageSizes
<1>2. to \in Nat /\ start < to /\ to <= b.len /\ (to = b.len \/ to = start + size)
  <2>1. start < b.len /\ start < start + size
    BY <1>0, <1>1 DEF PageSizes
  <2> QED
    BY <1>1, <2>1 DEF Smaller
<1> HIDE DEF to
<1>3. \E e \in start..to : P(e)
  <2> DEFINE T == {d \in Nat : d <= to - start /\ to - d \notin b.inside}
  <2>1. to - start \in T /\ T \subseteq Nat
    BY <1>0, <1>1, <1>2
  <2>2. PICK d \in T : \A y \in T : d <= y
    <3>1. T \in SUBSET Nat /\ T # {}
      BY <2>1
    <3>2. \A S \in SUBSET Nat : S # {} => \E x \in S : \A y \in S : x <= y
      BY LeastNatural
    <3> HIDE DEF T
    <3> QED
      BY <3>1, <3>2
  <2>3. to - d \in start..to /\ to - d \notin b.inside
    BY <1>1, <1>2, <2>2
  <2>4. ASSUME NEW k \in ((to - d) + 1)..to PROVE k \in b.inside
    <3>1. to - k \in Nat /\ to - k < d /\ to - (to - k) = k /\ to - k <= to - start
      BY <1>1, <1>2, <2>2
    <3>2. to - k \notin T
      BY <2>2, <3>1
    <3> QED
      BY <3>1, <3>2
  <2> QED
    BY <2>3, <2>4
<1>4. PageEnd(b, start, size) = CHOOSE e \in start..to : P(e)
  BY DEF PageEnd, to
<1>5. PICK e \in start..to : P(e) /\ e = PageEnd(b, start, size)
  BY <1>3, <1>4
<1>6. e \in Nat /\ e <= b.len /\ e \notin b.inside
  BY <1>1, <1>2, <1>5
<1>7. start # e
  <2> SUFFICES ASSUME start = e PROVE FALSE
    OBVIOUS
  <2>1. \A k \in (start + 1)..to : k \in b.inside
    BY <1>5
  <2>2. CASE to = b.len
    <3>1. b.len \in b.inside
      BY <1>1, <1>2, <2>1, <2>2
    <3> QED
      BY <1>0, <1>1, <3>1 DEF IsBody
  <2>3. CASE to = start + size
    <3> DEFINE k == start + 1
    <3>1. k \in (start + 1)..to /\ k + 1 \in (start + 1)..to /\ k + 2 \in (start + 1)..to
          /\ k + 3 \in (start + 1)..to
      BY <1>1, <2>3 DEF PageSizes
    <3>2. k \in b.inside /\ {k + 1, k + 2, k + 3} \subseteq b.inside
      BY <2>1, <3>1
    <3> HIDE DEF k
    <3> QED
      BY <1>0, <3>2 DEF IsBody
  <2> QED
    BY <1>2, <2>2, <2>3
<1> QED
  BY <1>1, <1>5, <1>6, <1>7 DEF EndsAt

----------------------------------------------------------------------------
(* Artifacts: the paging of one of them.                                   *)

StoredBody == {b \in ResultBodies \cup {[len |-> n, inside |-> {}] : n \in Nat} : b.len > 0}
StoredAs   == [body : StoredBody, live : BOOLEAN]

Tiled(pages, cursor) ==
  /\ \A i \in 1..Len(pages) : pages[i][1] < pages[i][2]
  /\ \A i \in 1..(Len(pages) - 1) : pages[i][2] = pages[i + 1][1]
  /\ Len(pages) > 0 => pages[1][1] = 0 /\ pages[Len(pages)][2] = cursor
  /\ Len(pages) = 0 => cursor = 0

(* The reader stands between two characters of the body, where the last    *)
(* page ended; it is done exactly at the end.                              *)
ReaderSound(r, body) ==
  /\ r.cursor \in 0..body.len
  /\ r.cursor \notin body.inside
  /\ (r.state = "complete") = (r.cursor = body.len)
  /\ Tiled(r.pages, r.cursor)

PageLists == Seq(Nat \X Nat)
Readings == [of : Nat, cursor : Nat, pages : PageLists, shown : PageLists,
             state : {"idle", "paging", "complete", "stuck", "refused"}]

PagingInv ==
  /\ artifacts \in Seq(StoredAs)
  /\ reading \in Readings
  /\ reading.state = "idle" => reading.pages = <<>>
  /\ reading.state # "idle" => /\ reading.of \in 1..Len(artifacts)
                               /\ ReaderSound(reading, artifacts[reading.of].body)

LEMMA StoredBodies ==
  ASSUME NEW b \in StoredBody
  PROVE  IsBody(b) /\ b.len \in Nat /\ b.len > 0 /\ b.inside \subseteq 1..(b.len - 1)
<1>1. CASE b \in ResultBodies
  BY <1>1, ArtifactAssumption DEF StoredBody, IsBody
<1>2. ASSUME NEW n \in Nat, b = [len |-> n, inside |-> {}]
      PROVE  b.len \in Nat /\ b.inside = {}
  BY <1>2
<1> QED
  BY <1>1, <1>2 DEF StoredBody, IsBody

(* The list gets longer, and no body changes. *)
Grown(old, new) ==
  /\ new \in Seq(StoredAs)
  /\ Len(old) <= Len(new)
  /\ \A a \in 1..Len(old) : new[a].body = old[a].body

LEMMA ReaderRests ==
  ASSUME PagingInv, Grown(artifacts, artifacts'), reading' = reading
  PROVE  PagingInv'
<1>1. Len(artifacts) \in Nat /\ Len(artifacts') \in Nat
  BY DEF PagingInv, Grown
<1>2. \A a \in 1..Len(artifacts) : a \in 1..Len(artifacts') /\ artifacts'[a].body = artifacts[a].body
  BY <1>1 DEF Grown
<1> QED
  BY <1>2 DEF PagingInv, Grown, ReaderSound, Tiled

LEMMA PutGrows ==
  ASSUME PagingInv, NEW b \in StoredBody, Put(b)
  PROVE  Grown(artifacts, artifacts')
<1> DEFINE x == [body |-> b, live |-> TRUE]
<1>1. x \in StoredAs
  BY DEF StoredAs
<1>2. artifacts' = Append(artifacts, x) /\ artifacts \in Seq(StoredAs)
  BY DEF Put, PagingInv
<1> HIDE DEF x
<1>3. /\ artifacts' \in Seq(StoredAs) /\ Len(artifacts') = Len(artifacts) + 1 /\ Len(artifacts) \in Nat
      /\ \A a \in 1..Len(artifacts) : artifacts'[a] = artifacts[a]
  BY <1>1, <1>2, AppendProperties
<1> QED
  BY <1>3 DEF Grown

LEMMA SameGrows ==
  ASSUME PagingInv, UNCHANGED artifacts
  PROVE  Grown(artifacts, artifacts')
<1>1. Len(artifacts) \in Nat
  BY DEF PagingInv
<1> QED
  BY <1>1 DEF PagingInv, Grown

LEMMA ToolAnswersPaging ==
  ASSUME PagingInv, NEW b \in ResultBodies, NEW preview \in Nat, NEW budget \in {512, DEFAULT_INLINE_BYTES},
         ToolAnswers(b, preview, budget)
  PROVE  PagingInv'
<1>1. b.len > budget => b \in StoredBody
  BY ArtifactAssumption DEF StoredBody, IsBody, DEFAULT_INLINE_BYTES
<1>2. Grown(artifacts, artifacts')
  BY <1>1, PutGrows, SameGrows DEF ToolAnswers
<1> QED
  BY <1>2, ReaderRests DEF ToolAnswers

LEMMA StartReadingPaging ==
  ASSUME PagingInv, NEW a \in 1..MaxArtifacts, StartReading(a)
  PROVE  PagingInv'
<1>1. NoReading \in Readings /\ NoReading.cursor = 0 /\ NoReading.pages = <<>>
  BY DEF NoReading, Readings, PageLists
<1>2. \A r \in Readings, n \in Nat : LET q == [r EXCEPT !.of = n, !.state = "paging"]
        IN  q \in Readings /\ q.of = n /\ q.state = "paging" /\ q.cursor = r.cursor /\ q.pages = r.pages
  BY DEF Readings
<1>3. a \in Nat
  BY ArtifactAssumption
<1>4. /\ reading' \in Readings /\ reading'.of = a /\ reading'.state = "paging"
      /\ reading'.cursor = 0 /\ reading'.pages = <<>>
  BY <1>1, <1>2, <1>3 DEF StartReading
<1>5. a \in 1..Len(artifacts) /\ artifacts' = artifacts /\ artifacts[a] \in StoredAs
  BY ElementOfSeq DEF StartReading, PagingInv
<1>6. artifacts[a].body \in StoredBody
  BY <1>5 DEF StoredAs
<1>7. artifacts[a].body.len \in Nat /\ artifacts[a].body.len > 0 /\ 0 \notin artifacts[a].body.inside
  BY <1>6, StoredBodies
<1>8. Len(<<>>) = 0
  OBVIOUS
<1> QED
  BY <1>4, <1>5, <1>7, <1>8 DEF PagingInv, ReaderSound, Tiled

LEMMA RefusedPaging ==
  ASSUME PagingInv, ReadRefused
  PROVE  PagingInv'
<1>1. \A r \in Readings : LET q == [r EXCEPT !.state = "refused"]
        IN  /\ q \in Readings /\ q.of = r.of /\ q.state = "refused" /\ q.cursor = r.cursor
            /\ q.pages = r.pages
  BY DEF Readings
<1>2. /\ reading' \in Readings /\ reading'.of = reading.of /\ reading'.state = "refused"
      /\ reading'.cursor = reading.cursor /\ reading'.pages = reading.pages
      /\ reading.state = "paging" /\ artifacts' = artifacts
  BY <1>1 DEF ReadRefused, PagingInv
<1> QED
  BY <1>2 DEF PagingInv, ReaderSound, Tiled

LEMMA ExpirePaging ==
  ASSUME PagingInv, ExpireArtifact
  PROVE  PagingInv'
<1>1. PICK a \in 1..Len(artifacts) : artifacts' = [artifacts EXCEPT ![a].live = FALSE]
  BY DEF ExpireArtifact
<1>2. \A x \in StoredAs : [x EXCEPT !.live = FALSE] \in StoredAs /\ [x EXCEPT !.live = FALSE].body = x.body
  BY DEF StoredAs
<1>3. artifacts \in Seq(StoredAs) /\ artifacts[a] \in StoredAs
  BY ElementOfSeq DEF PagingInv
<1> DEFINE y == [artifacts[a] EXCEPT !.live = FALSE]
<1>4. y \in StoredAs /\ y.body = artifacts[a].body /\ artifacts' = [artifacts EXCEPT ![a] = y]
  BY <1>1, <1>2, <1>3
<1> HIDE DEF y
<1>5. artifacts' \in Seq(StoredAs) /\ Len(artifacts') = Len(artifacts) /\ Len(artifacts) \in Nat
      /\ artifacts'[a] = y /\ \A k \in 1..Len(artifacts) : k # a => artifacts'[k] = artifacts[k]
  BY <1>3, <1>4, ExceptSeq
<1>6. Grown(artifacts, artifacts')
  BY <1>4, <1>5 DEF Grown
<1> QED
  BY <1>6, ReaderRests DEF ExpireArtifact

(* One more page. *)
LEMMA PageAdded ==
  ASSUME NEW pages \in PageLists, NEW from \in Nat, NEW to \in Nat, from < to, Tiled(pages, from)
  PROVE  LET new == Append(pages, <<from, to>>)
         IN  new \in PageLists /\ Tiled(new, to)
<1> DEFINE x == <<from, to>>
           new == Append(pages, x)
<1>1. x \in Nat \X Nat /\ x[1] = from /\ x[2] = to
  OBVIOUS
<1> HIDE DEF x
<1>2. /\ new \in PageLists /\ Len(new) = Len(pages) + 1 /\ Len(pages) \in Nat
      /\ new[Len(pages) + 1] = x /\ \A i \in 1..Len(pages) : new[i] = pages[i]
  BY <1>1, AppendProperties DEF PageLists
<1> HIDE DEF new
<1>3. ASSUME NEW i \in 1..Len(new) PROVE new[i][1] < new[i][2]
  <2>1. CASE i = Len(pages) + 1
    BY <1>1, <1>2, <2>1
  <2>2. CASE i # Len(pages) + 1
    <3>1. i \in 1..Len(pages)
      BY <1>2, <2>2
    <3> QED
      BY <1>2, <3>1 DEF Tiled
  <2> QED
    BY <2>1, <2>2
<1>4. ASSUME NEW i \in 1..(Len(new) - 1) PROVE new[i][2] = new[i + 1][1]
  <2>0. i \in 1..Len(pages) /\ new[i] = pages[i]
    BY <1>2
  <2>1. CASE i = Len(pages)
    <3>1. pages[i][2] = from
      BY <1>2, <2>0, <2>1 DEF Tiled
    <3> QED
      BY <1>1, <1>2, <2>0, <2>1, <3>1
  <2>2. CASE i # Len(pages)
    <3>1. i \in 1..(Len(pages) - 1) /\ i + 1 \in 1..Len(pages)
      BY <1>2, <2>0, <2>2
    <3> QED
      BY <1>2, <2>0, <3>1 DEF Tiled
  <2> QED
    BY <2>1, <2>2
<1>5. new[1][1] = 0 /\ new[Len(new)][2] = to /\ Len(new) > 0 /\ Len(new) # 0
  <2>1. CASE Len(pages) = 0
    <3>1. from = 0
      BY <2>1 DEF Tiled
    <3> QED
      BY <1>1, <1>2, <2>1, <3>1
  <2>2. CASE Len(pages) > 0
    <3>1. 1 \in 1..Len(pages) /\ pages[1][1] = 0
      BY <1>2, <2>2 DEF Tiled
    <3> QED
      BY <1>1, <1>2, <3>1
  <2> QED
    BY <1>2, <2>1, <2>2
<1> QED
  BY <1>2, <1>3, <1>4, <1>5 DEF Tiled, new, x

(* What a read of evidence_read starts from and where its page ends. *)
LEMMA PageTaken ==
  ASSUME PagingInv, reading.state = "paging", NEW n \in ReadSizes
  PROVE  \E body \in StoredBody, cursor \in Nat, end \in Nat :
           /\ body = artifacts[reading.of].body
           /\ cursor = reading.cursor
           /\ cursor = PageStart(body, cursor)
           /\ end = PageEnd(body, cursor, PageSize(n))
           /\ cursor < end /\ end <= body.len /\ end \notin body.inside
           /\ body.len \in Nat
           /\ Tiled(reading.pages, cursor)
<1>1. reading.of \in 1..Len(artifacts) /\ ReaderSound(reading, artifacts[reading.of].body)
  BY DEF PagingInv
<1>2. artifacts[reading.of] \in StoredAs
  BY <1>1, ElementOfSeq DEF PagingInv
<1>3. PICK body \in StoredBody : body = artifacts[reading.of].body
  BY <1>2 DEF StoredAs
<1>4. IsBody(body) /\ body.len \in Nat
  BY StoredBodies
<1>5. PICK cursor \in 0..body.len :
        /\ cursor = reading.cursor /\ cursor \notin body.inside /\ cursor # body.len
        /\ Tiled(reading.pages, cursor)
  BY <1>1, <1>3 DEF ReaderSound
<1>6. PageStart(body, cursor) = cursor
  BY <1>4, <1>5, PageStartsAtCursor
<1>7. cursor \in 0..(body.len - 1) /\ cursor \in Nat
  BY <1>4, <1>5
<1>8. PICK size \in PageSizes : size = PageSize(n)
  BY SizesAre
<1>9. PICK end \in Nat : EndsAt(body, cursor, size, end)
  <2>1. ReadableAt(body, cursor)
    BY <1>4, <1>5, <1>7 DEF ReadableAt
  <2> QED
    BY <2>1, PageMovesOn
<1> QED
  BY <1>3, <1>4, <1>5, <1>6, <1>7, <1>8, <1>9 DEF EndsAt

LEMMA ShownIs ==
  ASSUME NEW body \in StoredBody, NEW start \in Nat, NEW end \in Nat, start < end,
         NEW e \in Escapes, NEW budget
  PROVE  /\ PageEnvelope(body, start, end, e) \in Nat
         /\ PreviewOf(start, end, e) \in Nat
         /\ ShownTo(body, start, end, e, budget) \in Nat
<1>1. e \in Nat /\ end - start \in Nat
  BY ArtifactAssumption
<1>2. PageEnvelope(body, start, end, e) \in Nat
  BY <1>1 DEF PageEnvelope, PAGE_BYTES, LAST_BYTES
<1>3. PICK s \in Nat : s = Smaller(end - start, PREVIEW_CHARS)
  BY <1>1 DEF Smaller, PREVIEW_CHARS
<1>4. PreviewOf(start, end, e) \in Nat
  BY <1>1, <1>3 DEF PreviewOf, PREVIEW_BYTES
<1>5. ShownTo(body, start, end, e, budget) \in {end, start + s, start}
  BY <1>3 DEF ShownTo
<1> QED
  BY <1>2, <1>3, <1>4, <1>5

LEMMA ReadPagePaging ==
  ASSUME PagingInv, NEW n \in ReadSizes, NEW e \in Escapes, ReadPage(n, e)
  PROVE  PagingInv'
<1>1. reading.state = "paging" /\ reading.of \in 1..Len(artifacts) /\ reading \in Readings
  BY DEF ReadPage, PagingInv
<1>2. PICK body \in StoredBody, cursor \in Nat, end \in Nat :
           /\ body = artifacts[reading.of].body
           /\ cursor = reading.cursor
           /\ cursor = PageStart(body, cursor)
           /\ end = PageEnd(body, cursor, PageSize(n))
           /\ cursor < end /\ end <= body.len /\ end \notin body.inside
           /\ body.len \in Nat
           /\ Tiled(reading.pages, cursor)
  BY <1>1, PageTaken
<1>3. PICK budget \in Nat : budget = Budget(n)
  BY SizesAre
<1>4. PICK envelope \in Nat, shown \in Nat :
        /\ envelope = PageEnvelope(body, cursor, end, e)
        /\ shown = ShownTo(body, cursor, end, e, budget)
  BY <1>2, ShownIs
<1>5. /\ envelope > budget => Put([len |-> envelope, inside |-> {}])
      /\ ~(envelope > budget) => UNCHANGED artifacts
      /\ reading' = [of |-> reading.of, cursor |-> end,
                     pages |-> Append(reading.pages, <<cursor, end>>),
                     shown |-> Append(reading.shown, <<cursor, shown>>),
                     state |-> IF end = body.len THEN "complete"
                               ELSE IF shown = cursor THEN "stuck" ELSE "paging"]
  BY <1>2, <1>3, <1>4 DEF ReadPage
<1>6. Grown(artifacts, artifacts')
  <2>1. CASE envelope > budget
    <3>1. PICK b : b = [len |-> envelope, inside |-> {}]
      OBVIOUS
    <3>2. b.len > 0
      BY <1>3, <1>4, <2>1, <3>1
    <3>3. b \in StoredBody
      BY <1>4, <3>1, <3>2 DEF StoredBody
    <3>4. Put(b)
      BY <1>5, <2>1, <3>1
    <3> QED
      BY <3>3, <3>4, PutGrows
  <2>2. CASE ~(envelope > budget)
    BY <1>5, <2>2, SameGrows
  <2> QED
    BY <2>1, <2>2
<1>7. reading.pages \in PageLists /\ reading.shown \in PageLists /\ reading.of \in Nat
  BY <1>1 DEF Readings
<1>8. PICK pages \in PageLists : pages = Append(reading.pages, <<cursor, end>>) /\ Tiled(pages, end)
  BY <1>2, <1>7, PageAdded
<1>9. PICK seen \in PageLists : seen = Append(reading.shown, <<cursor, shown>>)
  <2>1. <<cursor, shown>> \in Nat \X Nat
    OBVIOUS
  <2> QED
    BY <1>7, <2>1, AppendProperties DEF PageLists
<1>10. PICK st \in {"complete", "stuck", "paging"} :
         /\ reading' = [of |-> reading.of, cursor |-> end, pages |-> pages, shown |-> seen, state |-> st]
         /\ (st = "complete") = (end = body.len)
  <2>1. CASE end = body.len
    BY <1>5, <1>8, <1>9, <2>1
  <2>2. CASE end # body.len /\ shown = cursor
    BY <1>5, <1>8, <1>9, <2>2
  <2>3. CASE end # body.len /\ shown # cursor
    BY <1>5, <1>8, <1>9, <2>3
  <2> QED
    BY <2>1, <2>2, <2>3
<1>11. /\ reading' \in Readings /\ reading'.of = reading.of /\ reading'.cursor = end
       /\ reading'.pages = pages /\ reading'.state = st
  BY <1>7, <1>10 DEF Readings
<1>12. Len(artifacts) \in Nat /\ Len(artifacts') \in Nat
  BY <1>6 DEF PagingInv, Grown
<1>13. /\ reading'.of \in 1..Len(artifacts') /\ artifacts'[reading'.of].body = body
       /\ artifacts' \in Seq(StoredAs)
  BY <1>1, <1>2, <1>6, <1>11, <1>12 DEF Grown
<1>14. end \in 0..body.len
  BY <1>2
<1>15. ReaderSound(reading', body)
  BY <1>2, <1>8, <1>10, <1>11, <1>14 DEF ReaderSound
<1>16. reading'.state # "idle"
  BY <1>11
<1> QED
  BY <1>11, <1>13, <1>15, <1>16 DEF PagingInv, ReaderSound, Tiled

LEMMA PagingStarts == ArtifactsInit => PagingInv
<1> SUFFICES ASSUME ArtifactsInit PROVE PagingInv
  OBVIOUS
<1>1. NoReading \in Readings /\ NoReading.pages = <<>> /\ NoReading.state = "idle"
  BY DEF NoReading, Readings, PageLists
<1> QED
  BY <1>1 DEF ArtifactsInit, PagingInv

LEMMA PagingSteps == PagingInv /\ [ArtifactsNext]_artifactVars => PagingInv'
<1> SUFFICES ASSUME PagingInv, [ArtifactsNext]_artifactVars PROVE PagingInv'
  OBVIOUS
<1>1. CASE UNCHANGED <<artifacts, reading>>
  BY <1>1, SameGrows, ReaderRests
<1>2. CASE \E body \in ResultBodies, budget \in {512, DEFAULT_INLINE_BYTES}, preview \in {500, 2000} :
             ToolAnswers(body, preview, budget)
  BY <1>2, ToolAnswersPaging
<1> QED
  BY <1>1, <1>2, StartReadingPaging, ReadPagePaging, RefusedPaging, ExpirePaging
  DEF ArtifactsNext, LoseInvestigation, artifactVars

(* read_artifact and evidence_read: the chunks of an artifact follow one   *)
(* another from its first byte, each moves on, and only the one that ends  *)
(* the body is called complete, for bodies of characters of up to four     *)
(* bytes and any mix of page sizes.                                        *)
THEOREM PagingSound == ArtifactsSpec => []PagesTile
<1>1. PagingInv => PagesTile
  <2> SUFFICES ASSUME PagingInv, Len(reading.pages) > 0 PROVE PagesTile
    <3>1. PagingInv => Len(reading.pages) \in Nat
      BY DEF PagingInv, Readings, PageLists
    <3> QED
      BY <3>1 DEF PagesTile
  <2>1. reading.state # "idle"
    <3>1. Len(<<>>) = 0
      OBVIOUS
    <3> QED
      BY <3>1 DEF PagingInv
  <2> QED
    BY <2>1 DEF PagingInv, ReaderSound, Tiled, PagesTile
<1> QED
  BY <1>1, PagingStarts, PagingSteps, PTL DEF ArtifactsSpec

----------------------------------------------------------------------------
(* Artifacts: the size of an answer.                                       *)

AnswerInv == /\ answer \in [budget : 512..MAX_INLINE_BYTES, size : Nat]
             /\ AnswersWithinBudget

LEMMA EnvelopeFits ==
  ASSUME NEW size \in Nat, NEW preview \in Nat, NEW budget \in 512..MAX_INLINE_BYTES
  PROVE  Envelope(size, preview, budget) \in Nat /\ Envelope(size, preview, budget) <= budget
  BY DEF Envelope, MESSAGE_BYTES, MAX_INLINE_BYTES

(* normalize_v3_result: no answer is longer than the budget of its call,   *)
(* for results of any length.                                              *)
THEOREM AnswersFit == ArtifactsSpec => []AnswersWithinBudget
<1>1. ArtifactsInit => PagingInv /\ AnswerInv
  <2>1. ASSUME ArtifactsInit PROVE AnswerInv
    BY <2>1 DEF ArtifactsInit, AnswerInv, AnswersWithinBudget, MAX_INLINE_BYTES
  <2> QED
    BY <2>1, PagingStarts
<1>2. PagingInv /\ AnswerInv /\ [ArtifactsNext]_artifactVars => PagingInv' /\ AnswerInv'
  <2> SUFFICES ASSUME PagingInv, AnswerInv, [ArtifactsNext]_artifactVars PROVE AnswerInv'
    BY PagingSteps
  <2>1. ASSUME NEW size \in Nat, NEW preview \in Nat, NEW budget \in 512..MAX_INLINE_BYTES,
               answer' = [budget |-> budget, size |-> Envelope(size, preview, budget)]
        PROVE  AnswerInv'
    <3>1. Envelope(size, preview, budget) \in Nat /\ Envelope(size, preview, budget) <= budget
      BY EnvelopeFits
    <3> QED
      BY <2>1, <3>1 DEF AnswerInv, AnswersWithinBudget
  <2>2. ASSUME NEW b \in ResultBodies, NEW budget \in {512, DEFAULT_INLINE_BYTES}, NEW preview \in {500, 2000},
               ToolAnswers(b, preview, budget)
        PROVE  AnswerInv'
    <3>1. b.len \in Nat /\ budget \in 512..MAX_INLINE_BYTES /\ preview \in Nat
      BY ArtifactAssumption DEF IsBody, DEFAULT_INLINE_BYTES, MAX_INLINE_BYTES
    <3> QED
      BY <2>1, <2>2, <3>1 DEF ToolAnswers
  <2>3. ASSUME NEW n \in ReadSizes, NEW e \in Escapes, ReadPage(n, e) PROVE AnswerInv'
    <3>1. PICK f \in Nat, u \in Nat :
            answer' = [budget |-> Budget(n), size |-> Envelope(f, u, Budget(n))]
      <4>1. reading.state = "paging"
        BY <2>3 DEF ReadPage
      <4>2. PICK body \in StoredBody, cursor \in Nat, end \in Nat :
              /\ body = artifacts[reading.of].body
              /\ cursor = reading.cursor
              /\ cursor = PageStart(body, cursor)
              /\ end = PageEnd(body, cursor, PageSize(n))
              /\ cursor < end
        BY <4>1, PageTaken
      <4>3. PICK f \in Nat, u \in Nat :
              f = PageEnvelope(body, cursor, end, e) /\ u = PreviewOf(cursor, end, e)
        BY <4>2, ShownIs
      <4> QED
        BY <2>3, <4>2, <4>3 DEF ReadPage, ReadAnswer
    <3>2. PICK budget \in 512..MAX_INLINE_BYTES : budget = Budget(n)
      BY SizesAre
    <3> QED
      BY <2>1, <3>1, <3>2
  <2>4. CASE UNCHANGED answer
    BY <2>4 DEF AnswerInv, AnswersWithinBudget
  <2>5. CASE \/ \E a \in 1..MaxArtifacts : StartReading(a)
             \/ ReadRefused \/ ExpireArtifact \/ LoseInvestigation
             \/ UNCHANGED artifactVars
    BY <2>4, <2>5 DEF StartReading, ReadRefused, ExpireArtifact, LoseInvestigation, artifactVars
  <2> QED
    BY <2>2, <2>3, <2>5 DEF ArtifactsNext
<1>3. AnswerInv => AnswersWithinBudget
  BY DEF AnswerInv
<1> QED
  BY <1>1, <1>2, <1>3, PTL DEF ArtifactsSpec

=============================================================================
