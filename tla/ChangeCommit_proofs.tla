------------------------ MODULE ChangeCommit_proofs ------------------------
(***************************************************************************)
(* A commit that comes in after a change was published does not apply it   *)
(* again, and success is backed by a journaled edit, for any number of     *)
(* calls, investigations, keys and remembered results.                     *)
(***************************************************************************)
EXTENDS ChangeCommit, TLAPS

(* Each request in the channel, and the edit not yet published, belong to  *)
(* one waiting call.                                                       *)
Pending ==
  /\ \A i \in 1..Len(queue) : call[queue[i]].pc = "waiting"
  /\ \A i, j \in 1..Len(queue) : queue[i] = queue[j] => i = j
  /\ pub < Len(log) =>
       /\ call[log[pub + 1].caller].pc = "waiting"
       /\ call[log[pub + 1].caller].key = log[pub + 1].key
       /\ \A i \in 1..Len(queue) : queue[i] # log[pub + 1].caller

(* A call that passed the comparison came in before the revision it names  *)
(* was left behind, and its edit is applied after that revision.           *)
AcceptedCalls ==
  \A c \in Callers : call[c].pc \in {"send", "waiting"} =>
    call[c].began <= proposals[call[c].proposal].rev
AcceptedEdits ==
  \A i \in 1..Len(log) : log[i].began <= RevOf(i) /\ RevOf(i) < i

(* The inductive invariant of commits. *)
CommitInv == TypeOK /\ Pending /\ AcceptedCalls /\ AcceptedEdits /\ SuccessMeansApplied

(* A sequence stays in its type when the type grows. *)
LEMMA SeqGrows ==
  ASSUME NEW S, NEW T, S \subseteq T, NEW s \in Seq(S)
  PROVE  s \in Seq(T)
  OBVIOUS

(* A call at rest. *)
LEMMA QuietType ==
  ASSUME TypeOK
  PROVE  Quiet \in Calls /\ Quiet.pc = "idle" /\ Quiet.at = 0
  BY DEF TypeOK, CountersOK, Quiet, Calls, InFlight

(* The invariant holds before the first call. *)
LEMMA InitInv == Init => CommitInv
<1> SUFFICES ASSUME Init PROVE CommitInv
  OBVIOUS
<1>1. CountersOK /\ ProposalsOK /\ LogOK /\ ResultsOK
  BY CommitAssumption DEF Init, CountersOK, ProposalsOK, LogOK, ResultsOK
<1>2. Quiet \in Calls /\ Quiet.pc = "idle" /\ Quiet.at = 0
  BY DEF Init, Quiet, Calls, InFlight
<1>3. CallsOK
  BY <1>2 DEF Init, CallsOK, InFlight
<1>4. Pending /\ AcceptedCalls /\ AcceptedEdits
  BY <1>2 DEF Init, Pending, AcceptedCalls, AcceptedEdits
<1>5. SuccessMeansApplied
  BY <1>2 DEF Init, SuccessMeansApplied
<1> QED
  BY <1>1, <1>3, <1>4, <1>5 DEF CommitInv, TypeOK

(* A step of one call that changes nothing else keeps the invariant, if    *)
(* the call was not waiting for the writer and does not come to wait.      *)
LEMMA CallMoves ==
  ASSUME CommitInv, NEW c \in Callers, NEW r \in Calls,
         call' = [call EXCEPT ![c] = r],
         UNCHANGED <<proposals, expired, log, pub, queue, results, open>>,
         call[c].pc # "waiting", r.pc # "waiting",
         r.pc \in InFlight => r.proposal # 0 /\ r.inv # NoInv /\ r.key # NoKey,
         r.pc = "propose" => r.inv # NoInv,
         r.pc = "send" => r.began <= proposals[r.proposal].rev,
         r.at # 0 => log[r.at].ok /\ log[r.at].key = r.key
  PROVE  CommitInv'
<1>1. Calls' = Calls /\ Edits' = Edits /\ Proposals' = Proposals
  BY DEF Calls, Edits, Proposals
<1>2. CountersOK' /\ ProposalsOK' /\ LogOK' /\ ResultsOK'
  BY <1>1 DEF CommitInv, TypeOK, CountersOK, ProposalsOK, LogOK, ResultsOK
<1>3. CallsOK'
  BY <1>1 DEF CommitInv, TypeOK, CallsOK
<1>4. \A d \in Callers : d # c => call'[d] = call[d]
  BY DEF CommitInv, TypeOK, CallsOK
<1>5. call'[c] = r
  BY DEF CommitInv, TypeOK, CallsOK
<1>6. Pending'
  <2>1. \A i \in 1..Len(queue) : queue[i] \in Callers
    BY DEF CommitInv, TypeOK, LogOK
  <2>2. pub < Len(log) => log[pub + 1].caller \in Callers
    <3>1. pub < Len(log) => log[pub + 1] \in Edits
      BY DEF CommitInv, TypeOK, CountersOK, LogOK
    <3> QED
      BY <3>1 DEF Edits
  <2> QED
    BY <1>4, <2>1, <2>2 DEF CommitInv, Pending
<1>7. AcceptedCalls' /\ AcceptedEdits'
  BY <1>4, <1>5 DEF CommitInv, AcceptedCalls, AcceptedEdits, RevOf
<1>8. SuccessMeansApplied'
  BY <1>4, <1>5 DEF CommitInv, SuccessMeansApplied
<1> QED
  BY <1>2, <1>3, <1>6, <1>7, <1>8 DEF CommitInv, TypeOK

(* An error gives the call back. *)
LEMMA RefuseInv ==
  ASSUME CommitInv, NEW c \in Callers, Refuse(c), call[c].pc # "waiting",
         UNCHANGED <<proposals, expired, log, pub, queue, results, open>>
  PROVE  CommitInv'
<1>1. Quiet \in Calls /\ Quiet.pc = "idle" /\ Quiet.at = 0
  BY QuietType DEF CommitInv
<1>2. call' = [call EXCEPT ![c] = Quiet]
  BY DEF Refuse
<1> HIDE DEF Quiet
<1> QED
  BY <1>1, <1>2, CallMoves DEF InFlight

(* The read of the target. *)
LEMMA ReadTargetInv ==
  ASSUME CommitInv, NEW c \in Callers, NEW inv \in Investigations, ReadTarget(c, inv)
  PROVE  CommitInv'
<1> DEFINE r == [Quiet EXCEPT !.pc = "propose", !.inv = inv, !.rev = pub]
<1>1. r \in Calls /\ r.pc = "propose" /\ r.at = 0 /\ r.inv # NoInv
  <2>1. Quiet \in Calls /\ Quiet.at = 0
    BY QuietType DEF CommitInv
  <2>2. pub \in 0..pub
    BY DEF CommitInv, TypeOK, CountersOK
  <2> QED
    BY <2>1, <2>2, CommitAssumption DEF Calls, InFlight
<1>2. /\ call' = [call EXCEPT ![c] = r]
      /\ call[c].pc = "idle"
      /\ UNCHANGED <<proposals, expired, log, pub, queue, results, open>>
  BY DEF ReadTarget, Idle
<1> HIDE DEF r
<1> QED
  BY <1>1, <1>2, CallMoves DEF InFlight

(* A commit comes in; it has not been compared yet. *)
LEMMA FindProposalInv ==
  ASSUME CommitInv, NEW c \in Callers, NEW p \in 1..Len(proposals), NEW k \in Keys,
         NEW named \in BOOLEAN, FindProposal(c, p, k, named)
  PROVE  CommitInv'
<1> DEFINE r == [Quiet EXCEPT !.pc = "lookup", !.inv = proposals[p].inv, !.proposal = p,
                              !.key = k, !.named = named, !.began = pub]
<1>1. proposals[p] \in Proposals
  BY DEF CommitInv, TypeOK, ProposalsOK
<1>2. /\ r \in Calls /\ r.pc = "lookup" /\ r.at = 0 /\ r.proposal # 0
      /\ r.inv # NoInv /\ r.key # NoKey
  <2>1. Quiet \in Calls /\ Quiet.at = 0
    BY QuietType DEF CommitInv
  <2>2. /\ pub \in 0..pub /\ p \in 0..Len(proposals) /\ p # 0
        /\ proposals[p].inv \in Investigations
    BY <1>1 DEF CommitInv, TypeOK, CountersOK, Proposals
  <2> QED
    BY <2>1, <2>2, CommitAssumption DEF Calls, InFlight
<1>3. /\ call[c].pc = "idle"
      /\ UNCHANGED <<proposals, expired, log, pub, queue, results, open>>
  BY DEF FindProposal, Idle
<1>4. Refuse(c) \/ call' = [call EXCEPT ![c] = r]
  BY DEF FindProposal
<1> HIDE DEF r
<1>5. CASE Refuse(c)
  BY <1>3, <1>5, RefuseInv
<1>6. CASE call' = [call EXCEPT ![c] = r]
  BY <1>2, <1>3, <1>6, CallMoves DEF InFlight
<1> QED
  BY <1>4, <1>5, <1>6

(* What a step needs to know of the call that takes it. *)
LEMMA CallFacts ==
  ASSUME CommitInv, NEW c \in Callers
  PROVE  /\ call[c] \in Calls
         /\ call[c].pc \in InFlight => /\ call[c].proposal \in 1..Len(proposals)
                                       /\ call[c].inv \in Investigations
                                       /\ call[c].key \in Keys
         /\ \A pc \in {"idle", "propose"} \cup InFlight :
              [call[c] EXCEPT !.pc = pc] \in Calls
<1>1. call[c] \in Calls
  BY DEF CommitInv, TypeOK, CallsOK
<1>2. \A pc \in {"idle", "propose"} \cup InFlight : [call[c] EXCEPT !.pc = pc] \in Calls
  BY <1>1 DEF Calls
<1>3. call[c].pc \in InFlight => /\ call[c].proposal # 0
                                /\ call[c].inv # NoInv /\ call[c].key # NoKey
  BY DEF CommitInv, TypeOK, CallsOK
<1>4. /\ call[c].proposal \in 0..Len(proposals)
      /\ call[c].inv \in Investigations \cup {NoInv} /\ call[c].key \in Keys \cup {NoKey}
  BY <1>1 DEF Calls
<1> QED
  BY <1>1, <1>2, <1>3, <1>4

(* A call that only moves on. *)
LEMMA GoToInv ==
  ASSUME CommitInv, NEW c \in Callers, NEW pc \in InFlight, GoTo(c, pc),
         call[c].pc \in InFlight, call[c].pc # "waiting", pc # "waiting",
         pc = "send" => call[c].began <= proposals[call[c].proposal].rev,
         UNCHANGED <<proposals, expired, log, pub, queue, results, open>>
  PROVE  CommitInv'
<1> DEFINE r == [call[c] EXCEPT !.pc = pc]
<1>1. /\ r \in Calls /\ r.pc = pc /\ r.at = call[c].at /\ r.proposal = call[c].proposal
      /\ r.inv = call[c].inv /\ r.key = call[c].key /\ r.began = call[c].began
  BY CallFacts DEF Calls
<1>2. call' = [call EXCEPT ![c] = r]
  BY DEF GoTo, CommitInv, TypeOK, CallsOK
<1>3. r.proposal # 0 /\ r.inv # NoInv /\ r.key # NoKey
  BY <1>1 DEF CommitInv, TypeOK, CallsOK
<1>4. r.at # 0 => log[r.at].ok /\ log[r.at].key = r.key
  BY <1>1 DEF CommitInv, SuccessMeansApplied
<1>5. r.pc # "propose"
  BY <1>1 DEF InFlight
<1> HIDE DEF r
<1> QED
  BY <1>1, <1>2, <1>3, <1>4, <1>5, CallMoves

(* The answer of a success. *)
LEMMA SucceedType ==
  ASSUME CommitInv, NEW c \in Callers, NEW at \in 0..pub
  PROVE  LET r == [Quiet EXCEPT !.inv = call[c].inv, !.key = call[c].key,
                                !.at = at, !.matches = call[c].matches]
         IN  r \in Calls /\ r.pc = "idle" /\ r.at = at /\ r.key = call[c].key
<1> DEFINE r == [Quiet EXCEPT !.inv = call[c].inv, !.key = call[c].key,
                              !.at = at, !.matches = call[c].matches]
<1>1. Quiet \in Calls /\ Quiet.pc = "idle"
  BY QuietType DEF CommitInv
<1>2. /\ call[c].inv \in Investigations \cup {NoInv} /\ call[c].key \in Keys \cup {NoKey}
      /\ call[c].matches \in BOOLEAN
  BY CallFacts DEF Calls
<1> SUFFICES r \in Calls /\ r.pc = "idle" /\ r.at = at /\ r.key = call[c].key
  OBVIOUS
<1> QED
  BY <1>1, <1>2 DEF Calls

(* A remembered result stands for a journaled edit of the same key. *)
LEMMA FindResultInv ==
  ASSUME CommitInv, NEW c \in Callers, FindResult(c)
  PROVE  CommitInv'
<1>1. /\ call[c].pc = "lookup" /\ call[c].pc \in InFlight
      /\ UNCHANGED <<proposals, expired, log, pub, queue, results, open>>
  BY DEF FindResult, InFlight
<1>2. call[c].key \in Keys /\ results[call[c].key] \in 0..pub
  BY <1>1, CallFacts DEF CommitInv, TypeOK, ResultsOK
<1>3. CASE results[call[c].key] # 0
  <2> DEFINE r == [Quiet EXCEPT !.inv = call[c].inv, !.key = call[c].key,
                                !.at = results[call[c].key], !.matches = call[c].matches]
  <2>1. r \in Calls /\ r.pc = "idle" /\ r.at = results[call[c].key] /\ r.key = call[c].key
    BY <1>2, SucceedType
  <2>2. call' = [call EXCEPT ![c] = r]
    BY <1>3 DEF FindResult, Succeed
  <2>3. log[r.at].ok /\ log[r.at].key = r.key
    BY <1>2, <1>3, <2>1 DEF CommitInv, SuccessMeansApplied
  <2> HIDE DEF r
  <2> QED
    BY <1>1, <2>1, <2>2, <2>3, CallMoves DEF InFlight
<1>4. CASE results[call[c].key] = 0
  BY <1>1, <1>4, GoToInv DEF FindResult, InFlight
<1> QED
  BY <1>3, <1>4

(* The comparison: the call came in at or before the revision it names. *)
LEMMA CompareRevisionInv ==
  ASSUME CommitInv, NEW c \in Callers, CompareRevision(c)
  PROVE  CommitInv'
<1>1. /\ call[c].pc = "compare" /\ call[c].pc \in InFlight
      /\ UNCHANGED <<proposals, expired, log, pub, queue, results, open>>
  BY DEF CompareRevision, InFlight
<1>2. CASE Current(c)
  <2>1. call[c].began <= proposals[call[c].proposal].rev
    <3>1. call[c].began <= pub
      BY CallFacts DEF Calls, CommitInv, TypeOK, CountersOK
    <3> QED
      BY <1>2, <3>1 DEF Current
  <2> QED
    BY <1>1, <1>2, <2>1, GoToInv DEF CompareRevision, InFlight
<1>3. CASE ~Current(c)
  BY <1>1, <1>3, RefuseInv DEF CompareRevision
<1> QED
  BY <1>2, <1>3

(* The reread of the published project. *)
LEMMA RereadInv ==
  ASSUME CommitInv, NEW c \in Callers, Reread(c)
  PROVE  CommitInv'
<1>1. /\ call[c].pc = "reread" /\ call[c].pc \in InFlight
      /\ UNCHANGED <<proposals, expired, log, pub, queue, results, open>>
  BY DEF Reread, InFlight
<1> DEFINE r == [call[c] EXCEPT !.pc = "remember", !.matches = Visible(c)]
<1>2. Visible(c) \in BOOLEAN
  BY DEF Visible, CommitInv, TypeOK, ResultsOK
<1>3. /\ r \in Calls /\ r.pc = "remember" /\ r.at = call[c].at /\ r.proposal = call[c].proposal
      /\ r.inv = call[c].inv /\ r.key = call[c].key
  <2>1. call[c] \in Calls
    BY CallFacts
  <2> DEFINE b == Visible(c)
  <2> HIDE DEF b
  <2>2. b \in BOOLEAN /\ r = [call[c] EXCEPT !.pc = "remember", !.matches = b]
    BY <1>2 DEF b
  <2> HIDE DEF r
  <2> QED
    BY <2>1, <2>2 DEF Calls, InFlight
<1>4. call' = [call EXCEPT ![c] = r]
  BY DEF Reread, CommitInv, TypeOK, CallsOK
<1>5. r.proposal # 0 /\ r.inv # NoInv /\ r.key # NoKey
  BY <1>1, <1>3 DEF CommitInv, TypeOK, CallsOK
<1>6. r.at # 0 => log[r.at].ok /\ log[r.at].key = r.key
  BY <1>3 DEF CommitInv, SuccessMeansApplied
<1> HIDE DEF r
<1> QED
  BY <1>1, <1>3, <1>4, <1>5, <1>6, CallMoves

(* A new proposal leaves the older ones as they are. *)
LEMMA ProposeInv ==
  ASSUME CommitInv, NEW c \in Callers, Propose(c)
  PROVE  CommitInv'
<1> DEFINE new == [inv |-> call[c].inv, rev |-> call[c].rev]
<1>1. /\ call[c].pc = "propose" /\ Len(proposals) < MaxProposals
      /\ proposals' = Append(proposals, new)
      /\ call' = [call EXCEPT ![c] = Quiet]
      /\ UNCHANGED <<expired, log, pub, queue, results, open>>
  BY DEF Propose
<1>2. new \in Proposals
  <2>1. call[c] \in Calls /\ call[c].inv # NoInv
    BY <1>1, CallFacts DEF CommitInv, TypeOK, CallsOK
  <2> QED
    BY <2>1 DEF Calls, Proposals
<1> HIDE DEF new
<1>3. proposals \in Seq(Proposals)
  BY DEF CommitInv, TypeOK, ProposalsOK
<1>4. /\ Len(proposals') = Len(proposals) + 1 /\ Len(proposals) \in Nat
      /\ proposals' \in Seq(Proposals)
      /\ \A i \in 1..Len(proposals) : proposals'[i] = proposals[i]
  BY <1>1, <1>2, <1>3
<1>5. Proposals' = Proposals /\ Edits \subseteq Edits' /\ Calls \subseteq Calls'
  BY <1>1, <1>4 DEF Proposals, Edits, Calls
<1>6. CountersOK' /\ ProposalsOK' /\ ResultsOK'
  <2>1. CountersOK'
    BY <1>1, <1>4, CommitAssumption DEF CommitInv, TypeOK, CountersOK
  <2>2. ProposalsOK' /\ ResultsOK'
    BY <1>1, <1>4, <1>5 DEF CommitInv, TypeOK, ProposalsOK, ResultsOK
  <2> QED
    BY <2>1, <2>2
<1>7. LogOK'
  BY <1>1, <1>5, SeqGrows DEF CommitInv, TypeOK, LogOK
<1>8. Quiet \in Calls /\ Quiet.pc = "idle" /\ Quiet.at = 0
  BY QuietType DEF CommitInv
<1>9. \A d \in Callers : call'[d] = IF d = c THEN Quiet ELSE call[d]
  BY <1>1 DEF CommitInv, TypeOK, CallsOK
<1>10. CallsOK'
  BY <1>1, <1>5, <1>8, <1>9 DEF CommitInv, TypeOK, CallsOK, InFlight
<1>11. Pending'
  <2>1. \A i \in 1..Len(queue) : queue[i] \in Callers
    BY DEF CommitInv, TypeOK, LogOK
  <2>2. pub < Len(log) => log[pub + 1].caller \in Callers
    <3>1. pub < Len(log) => log[pub + 1] \in Edits
      BY DEF CommitInv, TypeOK, CountersOK, LogOK
    <3> QED
      BY <3>1 DEF Edits
  <2> QED
    BY <1>1, <1>9, <2>1, <2>2 DEF CommitInv, Pending
<1>12. AcceptedCalls'
  <2> SUFFICES ASSUME NEW d \in Callers, call'[d].pc \in {"send", "waiting"}
               PROVE  call'[d].began <= proposals'[call'[d].proposal].rev
    BY DEF AcceptedCalls
  <2>1. d # c /\ call'[d] = call[d]
    BY <1>8, <1>9
  <2>2. call[d].proposal \in 1..Len(proposals)
    BY <2>1, CallFacts DEF InFlight
  <2> QED
    BY <1>4, <2>1, <2>2 DEF CommitInv, AcceptedCalls
<1>13. AcceptedEdits'
  <2>1. \A i \in 1..Len(log) : log[i].proposal \in 1..Len(proposals)
    <3>1. \A i \in 1..Len(log) : log[i] \in Edits
      BY DEF CommitInv, TypeOK, LogOK
    <3> QED
      BY <3>1 DEF Edits
  <2> QED
    BY <1>1, <1>4, <2>1 DEF CommitInv, AcceptedEdits, RevOf
<1>14. SuccessMeansApplied'
  BY <1>1, <1>8, <1>9 DEF CommitInv, SuccessMeansApplied
<1> QED
  BY <1>6, <1>7, <1>10, <1>11, <1>12, <1>13, <1>14 DEF CommitInv, TypeOK

(* Only the clock moves. *)
LEMMA TimePassesInv ==
  ASSUME CommitInv, TimePasses
  PROVE  CommitInv'
<1>1. Calls' = Calls /\ Edits' = Edits /\ Proposals' = Proposals
  BY DEF TimePasses, Calls, Edits, Proposals
<1>2. TypeOK'
  BY <1>1
  DEF CommitInv, TypeOK, CountersOK, ProposalsOK, LogOK, ResultsOK, CallsOK, TimePasses
<1> QED
  BY <1>2 DEF CommitInv, Pending, AcceptedCalls, AcceptedEdits, RevOf, SuccessMeansApplied,
              TimePasses

(* Closing the target leaves its writer and its calls alone. *)
LEMMA CloseInv ==
  ASSUME CommitInv, Close
  PROVE  CommitInv'
<1>1. Calls' = Calls /\ Edits' = Edits /\ Proposals' = Proposals
  BY DEF Close, Calls, Edits, Proposals
<1>2. TypeOK'
  BY <1>1
  DEF CommitInv, TypeOK, CountersOK, ProposalsOK, LogOK, ResultsOK, CallsOK, Close
<1> QED
  BY <1>2 DEF CommitInv, Pending, AcceptedCalls, AcceptedEdits, RevOf, SuccessMeansApplied,
              Close

(* The request goes to the end of the channel; its call is not in it yet,  *)
(* nor is it the call of the unpublished edit, as those wait.              *)
LEMMA SendEditInv ==
  ASSUME CommitInv, NEW c \in Callers, SendEdit(c)
  PROVE  CommitInv'
<1>1. /\ call[c].pc = "send"
      /\ UNCHANGED <<proposals, expired, log, pub, results, open>>
  BY DEF SendEdit
<1>2. CASE ~open
  BY <1>1, <1>2, RefuseInv DEF SendEdit
<1>3. CASE open
  <2> DEFINE r == [call[c] EXCEPT !.pc = "waiting"]
  <2>1. queue' = Append(queue, c) /\ call' = [call EXCEPT ![c] = r]
    BY <1>3 DEF SendEdit, GoTo, CommitInv, TypeOK, CallsOK
  <2>2. /\ r \in Calls /\ r.pc = "waiting" /\ r.at = call[c].at /\ r.key = call[c].key
        /\ r.proposal = call[c].proposal /\ r.inv = call[c].inv /\ r.began = call[c].began
    <3>1. call[c] \in Calls
      BY CallFacts
    <3> QED
      BY <3>1 DEF Calls, InFlight
  <2> HIDE DEF r
  <2>3. Calls' = Calls /\ Edits' = Edits /\ Proposals' = Proposals
    BY <1>1 DEF Calls, Edits, Proposals
  <2>4. queue \in Seq(Callers)
    BY DEF CommitInv, TypeOK, LogOK
  <2>5. /\ Len(queue') = Len(queue) + 1 /\ Len(queue) \in Nat /\ queue' \in Seq(Callers)
        /\ queue'[Len(queue) + 1] = c
        /\ \A i \in 1..Len(queue) : queue'[i] = queue[i] /\ queue[i] \in Callers
    BY <2>1, <2>4
  <2>6. CountersOK' /\ ProposalsOK' /\ LogOK' /\ ResultsOK'
    BY <1>1, <2>3, <2>5 DEF CommitInv, TypeOK, CountersOK, ProposalsOK, LogOK, ResultsOK
  <2>7. \A d \in Callers : call'[d] = IF d = c THEN r ELSE call[d]
    BY <2>1 DEF CommitInv, TypeOK, CallsOK
  <2>8. CallsOK'
    BY <1>1, <2>1, <2>2, <2>3, <2>7 DEF CommitInv, TypeOK, CallsOK, InFlight
  <2>9. Pending'
    <3>1. \A i \in 1..Len(queue) : queue[i] # c
      BY <1>1 DEF CommitInv, Pending
    <3>2. pub < Len(log) => log[pub + 1].caller \in Callers /\ log[pub + 1].caller # c
      <4>1. pub < Len(log) => log[pub + 1] \in Edits
        BY DEF CommitInv, TypeOK, CountersOK, LogOK
      <4> QED
        BY <1>1, <4>1 DEF Edits, CommitInv, Pending
    <3>3. \A i \in 1..Len(queue') : i = Len(queue) + 1 \/ i \in 1..Len(queue)
      BY <2>5
    <3>4. \A i \in 1..Len(queue') : call'[queue'[i]].pc = "waiting"
      BY <2>2, <2>5, <2>7, <3>3 DEF CommitInv, Pending
    <3>5. \A i, j \in 1..Len(queue') : queue'[i] = queue'[j] => i = j
      BY <2>5, <3>1, <3>3 DEF CommitInv, Pending
    <3>6. pub < Len(log) =>
            /\ call'[log[pub + 1].caller] = call[log[pub + 1].caller]
            /\ \A i \in 1..Len(queue') : queue'[i] # log[pub + 1].caller
      BY <2>5, <2>7, <3>2, <3>3 DEF CommitInv, Pending
    <3> QED
      BY <1>1, <3>4, <3>5, <3>6 DEF CommitInv, Pending
  <2>10. AcceptedCalls' /\ AcceptedEdits'
    BY <1>1, <2>2, <2>7 DEF CommitInv, AcceptedCalls, AcceptedEdits, RevOf
  <2>11. SuccessMeansApplied'
    BY <1>1, <2>2, <2>7 DEF CommitInv, SuccessMeansApplied
  <2> QED
    BY <2>6, <2>8, <2>9, <2>10, <2>11 DEF CommitInv, TypeOK
<1> QED
  BY <1>2, <1>3

(* The edit is applied after the revision its commit names, and its call   *)
(* is no longer in the channel.                                            *)
LEMMA WriterApplyInv ==
  ASSUME CommitInv, WriterApply
  PROVE  CommitInv'
<1> DEFINE c == Head(queue)
<1>1. PICK ok \in BOOLEAN :
        log' = Append(log, [caller |-> c, proposal |-> call[c].proposal,
                            key |-> call[c].key, began |-> call[c].began, ok |-> ok])
  BY DEF WriterApply
<1> DEFINE new == [caller |-> c, proposal |-> call[c].proposal, key |-> call[c].key,
                   began |-> call[c].began, ok |-> ok]
<1>2. /\ queue # <<>> /\ Len(log) = pub /\ pub < MaxEdits /\ queue' = Tail(queue)
      /\ UNCHANGED <<proposals, expired, pub, results, open, call>>
  BY DEF WriterApply
<1>3. queue \in Seq(Callers) /\ log \in Seq(Edits) /\ pub \in Nat
  BY DEF CommitInv, TypeOK, LogOK, CountersOK
<1>4. /\ Len(queue) \in Nat /\ Len(queue) >= 1 /\ c = queue[1] /\ c \in Callers
      /\ queue' \in Seq(Callers) /\ Len(queue') = Len(queue) - 1
      /\ \A i \in 1..Len(queue') : queue'[i] = queue[i + 1] /\ i + 1 \in 1..Len(queue)
  BY <1>2, <1>3
<1>5. call[c].pc = "waiting"
  BY <1>4 DEF CommitInv, Pending
<1> HIDE DEF c
<1>6. /\ call[c].proposal \in 1..Len(proposals) /\ call[c].key \in Keys
      /\ call[c].began \in 0..pub
  <2>1. call[c] \in Calls
    BY <1>4, CallFacts
  <2> QED
    BY <1>4, <1>5, <2>1, CallFacts DEF InFlight, Calls
<1>7. /\ new \in Edits /\ new.caller = c /\ new.key = call[c].key
      /\ new.proposal = call[c].proposal /\ new.began = call[c].began
  BY <1>4, <1>6 DEF Edits
<1>8. log' = Append(log, new)
  BY <1>1
<1> HIDE DEF new
<1>9. /\ log' \in Seq(Edits) /\ Len(log') = pub + 1 /\ log'[pub + 1] = new
      /\ \A i \in 1..Len(log) : log'[i] = log[i]
  BY <1>2, <1>3, <1>7, <1>8
<1>10. Calls' = Calls /\ Edits' = Edits /\ Proposals' = Proposals
  BY <1>2 DEF Calls, Edits, Proposals
<1>11. CountersOK'
  BY <1>2, <1>3, <1>9, CommitAssumption DEF CommitInv, TypeOK, CountersOK
<1>12. ProposalsOK' /\ LogOK' /\ ResultsOK' /\ CallsOK'
  BY <1>2, <1>4, <1>9, <1>10 DEF CommitInv, TypeOK, ProposalsOK, LogOK, ResultsOK, CallsOK
<1>13. Pending'
  <2>1. \A i \in 1..Len(queue') : call'[queue'[i]].pc = "waiting"
    BY <1>2, <1>4 DEF CommitInv, Pending
  <2>2. \A i, j \in 1..Len(queue') : queue'[i] = queue'[j] => i = j
    <3> SUFFICES ASSUME NEW i \in 1..Len(queue'), NEW j \in 1..Len(queue'),
                        queue'[i] = queue'[j]
                 PROVE  i = j
      OBVIOUS
    <3>1. queue[i + 1] = queue[j + 1] => i + 1 = j + 1
      BY <1>4 DEF CommitInv, Pending
    <3>2. i \in Int /\ j \in Int
      BY <1>4
    <3> QED
      BY <1>4, <3>1, <3>2
  <2>3. \A i \in 1..Len(queue') : queue'[i] # c
    <3>1. \A i \in 1..Len(queue') : queue[i + 1] = queue[1] => i + 1 = 1
      BY <1>4 DEF CommitInv, Pending
    <3> QED
      BY <1>4, <3>1
  <2>4. log'[pub' + 1].caller = c /\ log'[pub' + 1].key = call[c].key
    BY <1>2, <1>7, <1>9
  <2> QED
    BY <1>2, <1>5, <2>1, <2>2, <2>3, <2>4 DEF Pending
<1>14. AcceptedCalls'
  BY <1>2 DEF CommitInv, AcceptedCalls
<1>15. AcceptedEdits'
  <2>1. \A i \in 1..Len(log') : i = pub + 1 \/ i \in 1..Len(log)
    BY <1>2, <1>3, <1>9
  <2>2. proposals[call[c].proposal] \in Proposals
    BY <1>6 DEF CommitInv, TypeOK, ProposalsOK
  <2>3. /\ new.began <= proposals[new.proposal].rev
        /\ proposals[new.proposal].rev < pub + 1
    BY <1>3, <1>4, <1>5, <1>7, <2>2 DEF CommitInv, AcceptedCalls, Proposals
  <2> QED
    BY <1>2, <1>9, <2>1, <2>3 DEF CommitInv, AcceptedEdits, RevOf
<1>16. SuccessMeansApplied'
  <2>1. /\ \A k \in Keys : results[k] # 0 => results[k] \in 1..Len(log)
        /\ \A d \in Callers : call[d].at # 0 => call[d].at \in 1..Len(log)
    <3>1. \A k \in Keys : results[k] \in 0..pub
      BY DEF CommitInv, TypeOK, ResultsOK
    <3>2. \A d \in Callers : call[d].at \in 0..pub
      BY CallFacts DEF Calls
    <3>3. \A n \in 0..pub : n # 0 => n \in 1..Len(log)
      BY <1>2, <1>3
    <3> QED
      BY <3>1, <3>2, <3>3
  <2> QED
    BY <1>2, <1>9, <2>1 DEF CommitInv, SuccessMeansApplied
<1> QED
  BY <1>11, <1>12, <1>13, <1>14, <1>15, <1>16 DEF CommitInv, TypeOK

(* The published edit belongs to a waiting call, which learns where it is. *)
LEMMA WriterPublishInv ==
  ASSUME CommitInv, WriterPublish
  PROVE  CommitInv'
<1> DEFINE edit == log[pub + 1]
           c == edit.caller
           moved == [call[c] EXCEPT !.pc = "reread", !.at = pub + 1]
<1>1. /\ pub < Len(log) /\ pub' = pub + 1
      /\ UNCHANGED <<proposals, expired, log, queue, results, open>>
  BY DEF WriterPublish
<1>2. log \in Seq(Edits) /\ pub \in Nat /\ Len(log) = pub + 1 /\ Len(log) <= MaxEdits
  BY <1>1 DEF CommitInv, TypeOK, LogOK, CountersOK
<1>3. edit \in Edits
  BY <1>2
<1>4. c \in Callers /\ edit.key \in Keys
  BY <1>3 DEF Edits
<1>5. /\ call[c].pc = "waiting" /\ call[c].key = edit.key
      /\ \A i \in 1..Len(queue) : queue[i] # c
  BY <1>1 DEF CommitInv, Pending
<1>6. Proposals \subseteq Proposals' /\ Edits \subseteq Edits' /\ Calls \subseteq Calls'
  BY <1>1, <1>2 DEF Proposals, Edits, Calls
<1>7. call[c] \in Calls /\ pub + 1 \in 0..pub'
  BY <1>1, <1>2, <1>4, CallFacts
<1>8. /\ moved \in Calls' /\ moved.pc = "reread" /\ moved.at = pub + 1
      /\ moved.key = call[c].key /\ moved.proposal = call[c].proposal
      /\ moved.inv = call[c].inv
  <2>1. call[c] \in Calls'
    BY <1>6, <1>7
  <2> QED
    BY <1>7, <2>1 DEF Calls, InFlight
<1>9. Quiet \in Calls /\ Quiet.pc = "idle" /\ Quiet.at = 0
  BY QuietType DEF CommitInv
<1>10. PICK r \in Calls' :
         /\ call' = [call EXCEPT ![c] = r]
         /\ \/ r.pc = "idle" /\ r.at = 0
            \/ /\ r.pc = "reread" /\ r.at = pub + 1 /\ edit.ok /\ r.key = call[c].key
               /\ r.proposal = call[c].proposal /\ r.inv = call[c].inv
  <2>1. CASE edit.ok
    <3>1. call' = [call EXCEPT ![c] = moved]
      BY <1>4, <2>1 DEF WriterPublish, CommitInv, TypeOK, CallsOK
    <3> HIDE DEF moved
    <3> QED
      BY <1>8, <2>1, <3>1
  <2>2. CASE ~edit.ok
    BY <1>6, <1>9, <2>2 DEF WriterPublish, Refuse
  <2> QED
    BY <2>1, <2>2
<1>11. \A d \in Callers : call'[d] = IF d = c THEN r ELSE call[d]
  BY <1>10 DEF CommitInv, TypeOK, CallsOK
<1> HIDE DEF edit, c, moved
<1>12. CountersOK'
  BY <1>1, <1>2 DEF CommitInv, TypeOK, CountersOK
<1>13. ProposalsOK' /\ LogOK'
  BY <1>1, <1>6, SeqGrows DEF CommitInv, TypeOK, ProposalsOK, LogOK
<1>14. ResultsOK'
  <2>1. 0..pub \subseteq 0..pub'
    BY <1>1, <1>2
  <2> QED
    BY <1>1, <2>1 DEF CommitInv, TypeOK, ResultsOK
<1>15. CallsOK'
  <2>1. call' \in [Callers -> Calls']
    BY <1>6, <1>10 DEF CommitInv, TypeOK, CallsOK
  <2>2. call[c].proposal # 0 /\ call[c].inv # NoInv /\ call[c].key # NoKey
    BY <1>4, <1>5 DEF CommitInv, TypeOK, CallsOK, InFlight
  <2> QED
    BY <1>10, <1>11, <2>1, <2>2 DEF CommitInv, TypeOK, CallsOK, InFlight
<1>16. Pending'
  <2>1. \A i \in 1..Len(queue) : queue[i] \in Callers
    BY DEF CommitInv, TypeOK, LogOK
  <2>2. ~(pub' < Len(log'))
    BY <1>1, <1>2
  <2> QED
    BY <1>1, <1>5, <1>11, <2>1, <2>2 DEF CommitInv, Pending
<1>17. AcceptedCalls' /\ AcceptedEdits'
  BY <1>1, <1>10, <1>11 DEF CommitInv, AcceptedCalls, AcceptedEdits, RevOf
<1>18. SuccessMeansApplied'
  <2>1. r.at # 0 => log[r.at].ok /\ log[r.at].key = r.key
    BY <1>2, <1>5, <1>10 DEF edit
  <2> QED
    BY <1>1, <1>11, <2>1 DEF CommitInv, SuccessMeansApplied
<1> QED
  BY <1>12, <1>13, <1>14, <1>15, <1>16, <1>17, <1>18 DEF CommitInv, TypeOK

(* The remembered position is that of the call's own edit. *)
LEMMA RememberResultInv ==
  ASSUME CommitInv, NEW c \in Callers, RememberResult(c)
  PROVE  CommitInv'
<1> DEFINE r == [Quiet EXCEPT !.inv = call[c].inv, !.key = call[c].key,
                              !.at = call[c].at, !.matches = call[c].matches]
           k == call[c].key
<1>1. /\ call[c].pc = "remember" /\ call' = [call EXCEPT ![c] = r]
      /\ UNCHANGED <<proposals, expired, log, pub, queue, open>>
  BY DEF RememberResult, Succeed
<1>2. call[c].at \in 0..pub /\ k \in Keys
  BY <1>1, CallFacts DEF Calls, InFlight
<1>3. r \in Calls /\ r.pc = "idle" /\ r.at = call[c].at /\ r.key = k
  BY <1>2, SucceedType
<1>4. call[c].at # 0 => log[call[c].at].ok /\ log[call[c].at].key = k
  BY DEF CommitInv, SuccessMeansApplied
<1>5. results \in [Keys -> 0..pub] /\ 0 \in 0..pub
  BY DEF CommitInv, TypeOK, ResultsOK, CountersOK
<1>6. /\ results' \in [Keys -> 0..pub]
      /\ \A x \in Keys : \/ results'[x] \in {0, results[x]}
                         \/ x = k /\ results'[x] = call[c].at
  <2>1. \/ \E d \in Keys : results' = [[results EXCEPT ![d] = 0] EXCEPT ![k] = call[c].at]
        \/ results' = [results EXCEPT ![k] = call[c].at]
    BY DEF RememberResult, Dropped, Remembered
  <2> HIDE DEF k
  <2>2. CASE results' = [results EXCEPT ![k] = call[c].at]
    BY <1>2, <1>5, <2>2
  <2>3. ASSUME NEW d \in Keys,
               results' = [[results EXCEPT ![d] = 0] EXCEPT ![k] = call[c].at]
        PROVE  /\ results' \in [Keys -> 0..pub]
               /\ \A x \in Keys : \/ results'[x] \in {0, results[x]}
                                  \/ x = k /\ results'[x] = call[c].at
    <3> DEFINE g == [results EXCEPT ![d] = 0]
    <3>1. g \in [Keys -> 0..pub] /\ \A x \in Keys : g[x] \in {0, results[x]}
      BY <1>5
    <3>2. results' = [g EXCEPT ![k] = call[c].at]
      BY <2>3
    <3> HIDE DEF g
    <3> QED
      BY <1>2, <3>1, <3>2
  <2> QED
    BY <2>1, <2>2, <2>3
<1>7. \A d \in Callers : call'[d] = IF d = c THEN r ELSE call[d]
  BY <1>1 DEF CommitInv, TypeOK, CallsOK
<1> HIDE DEF r, k
<1>8. Calls' = Calls /\ Edits' = Edits /\ Proposals' = Proposals
  BY <1>1 DEF Calls, Edits, Proposals
<1>9. CountersOK' /\ ProposalsOK' /\ LogOK' /\ ResultsOK'
  BY <1>1, <1>6, <1>8 DEF CommitInv, TypeOK, CountersOK, ProposalsOK, LogOK, ResultsOK
<1>10. CallsOK'
  BY <1>1, <1>3, <1>7, <1>8 DEF CommitInv, TypeOK, CallsOK, InFlight
<1>11. Pending'
  <2>1. \A i \in 1..Len(queue) : queue[i] \in Callers
    BY DEF CommitInv, TypeOK, LogOK
  <2>2. pub < Len(log) => log[pub + 1].caller \in Callers
    <3>1. pub < Len(log) => log[pub + 1] \in Edits
      BY DEF CommitInv, TypeOK, CountersOK, LogOK
    <3> QED
      BY <3>1 DEF Edits
  <2> QED
    BY <1>1, <1>7, <2>1, <2>2 DEF CommitInv, Pending
<1>12. AcceptedCalls' /\ AcceptedEdits'
  BY <1>1, <1>3, <1>7 DEF CommitInv, AcceptedCalls, AcceptedEdits, RevOf
<1>13. SuccessMeansApplied'
  BY <1>1, <1>3, <1>4, <1>6, <1>7 DEF CommitInv, SuccessMeansApplied
<1> QED
  BY <1>9, <1>10, <1>11, <1>12, <1>13 DEF CommitInv, TypeOK

(* Every step keeps the invariant. *)
LEMMA NextInv == CommitInv /\ [Next]_vars => CommitInv'
<1> SUFFICES ASSUME CommitInv, [Next]_vars PROVE CommitInv'
  OBVIOUS
<1>1. ASSUME NEW c \in Callers, Begin(c) PROVE CommitInv'
  BY <1>1, ReadTargetInv, FindProposalInv DEF Begin
<1>2. ASSUME NEW c \in Callers, GoOn(c) PROVE CommitInv'
  BY <1>2, ProposeInv, FindResultInv, CompareRevisionInv, SendEditInv, RereadInv,
     RememberResultInv
  DEF GoOn
<1>3. CASE WriterApply
  BY <1>3, WriterApplyInv
<1>4. CASE WriterPublish
  BY <1>4, WriterPublishInv
<1>5. CASE Close \/ TimePasses
  BY <1>5, CloseInv, TimePassesInv
<1>6. CASE UNCHANGED vars
  <2>1. Calls' = Calls /\ Edits' = Edits /\ Proposals' = Proposals
    BY <1>6 DEF vars, Calls, Edits, Proposals
  <2>2. TypeOK'
    BY <1>6, <2>1
    DEF vars, CommitInv, TypeOK, CountersOK, ProposalsOK, LogOK, ResultsOK, CallsOK
  <2> QED
    BY <1>6, <2>2
    DEF vars, CommitInv, Pending, AcceptedCalls, AcceptedEdits, RevOf, SuccessMeansApplied
<1> QED
  BY <1>1, <1>2, <1>3, <1>4, <1>5, <1>6 DEF Next

(* The inductive invariant of commits. *)
THEOREM CommitInvariant == Spec => []CommitInv
  BY InitInv, NextInv, PTL DEF Spec

(* Proposals, edits, remembered results and calls keep their types, and    *)
(* the writer is at most one edit ahead of its readers.                    *)
THEOREM CommitType == Spec => []TypeOK
<1>1. CommitInv => TypeOK
  BY DEF CommitInv
<1> QED
  BY <1>1, CommitInvariant, PTL

(* A commit that comes in after a change was published never applies it    *)
(* again: only calls that overlap can do so.                               *)
THEOREM NoLateRepeat == Spec => []RepeatsOverlap
<1>1. CommitInv => RepeatsOverlap
  <2> SUFFICES ASSUME CommitInv, NEW i \in DOMAIN log, NEW j \in DOMAIN log,
                      i < j, RevOf(i) = RevOf(j)
               PROVE  log[j].began < i
    BY DEF RepeatsOverlap
  <2>1. log \in Seq(Edits)
    BY DEF CommitInv, TypeOK, LogOK
  <2>2. i \in 1..Len(log) /\ j \in 1..Len(log) /\ log[i] \in Edits /\ log[j] \in Edits
    BY <2>1
  <2>3. proposals[log[i].proposal] \in Proposals
    BY <2>2 DEF Edits, CommitInv, TypeOK, ProposalsOK
  <2>4. RevOf(i) \in Int /\ log[j].began \in Int /\ i \in Int
    BY <2>2, <2>3 DEF RevOf, Proposals, Edits
  <2>5. log[j].began <= RevOf(j) /\ RevOf(i) < i
    BY <2>2 DEF CommitInv, AcceptedEdits
  <2> QED
    BY <2>4, <2>5
<1> QED
  BY <1>1, CommitInvariant, PTL

(* Success, fresh or remembered, stands for an edit that was journaled and *)
(* published under the key of the call.                                    *)
THEOREM SuccessIsBacked == Spec => []SuccessMeansApplied
<1>1. CommitInv => SuccessMeansApplied
  BY DEF CommitInv
<1> QED
  BY <1>1, CommitInvariant, PTL

----------------------------------------------------------------------------
(* The reread.  A call in flight carries the investigation of its proposal *)
(* to the edit that is applied for it, and finds it there.                 *)
CallReads(r) ==
  /\ r.pc \in InFlight => r.inv = proposals[r.proposal].inv
  /\ r.pc \in {"reread", "remember"} => r.at \in 1..pub /\ InvOf(r.at) = r.inv
  /\ r.pc \notin {"idle", "remember"} => r.matches
  /\ ~r.matches => ~open \/ \E j \in DOMAIN log : j > r.at /\ InvOf(j) # r.inv

PendingReads == pub < Len(log) => log[pub + 1].proposal = call[log[pub + 1].caller].proposal

RereadsSound == PendingReads /\ \A c \in Callers : CallReads(call[c])

LEMMA QuietReads == CallReads(Quiet) /\ Quiet.matches
  BY DEF CallReads, Quiet, InFlight

(* What a call has read stays true while edits and proposals are added and *)
(* the target is closed.                                                   *)
LEMMA ReadsStay ==
  ASSUME CommitInv, NEW r \in Calls, CallReads(r),
         proposals' = proposals \/ \E x : proposals' = Append(proposals, x),
         log' = log \/ \E e : log' = Append(log, e),
         pub' \in {pub, pub + 1}, open' => open,
         r.pc \in InFlight => r.proposal # 0
  PROVE  CallReads(r)'
<1>1. log \in Seq(Edits) /\ proposals \in Seq(Proposals) /\ pub \in Nat
  BY DEF CommitInv, TypeOK, LogOK, ProposalsOK, CountersOK
<1>2. \A p \in 1..Len(proposals) : proposals'[p] = proposals[p]
  BY <1>1
<1>3. \A j \in 1..Len(log) : log'[j] = log[j] /\ j \in DOMAIN log'
  BY <1>1
<1>4. \A j \in 1..Len(log) : log[j].proposal \in 1..Len(proposals)
  <2> SUFFICES ASSUME NEW j \in 1..Len(log) PROVE log[j].proposal \in 1..Len(proposals)
    OBVIOUS
  <2>1. log[j] \in Edits
    BY <1>1
  <2> QED
    BY <2>1 DEF Edits
<1>5. \A j \in 1..Len(log) : InvOf(j)' = InvOf(j)
  BY <1>2, <1>3, <1>4 DEF InvOf
<1>6. DOMAIN log = 1..Len(log) /\ pub <= Len(log)
  BY <1>1 DEF CommitInv, TypeOK, CountersOK
<1>7. r.pc \in InFlight => r.inv = proposals'[r.proposal].inv
  BY <1>2 DEF CallReads, Calls
<1>8. ASSUME r.pc \in {"reread", "remember"} PROVE r.at \in 1..pub' /\ InvOf(r.at)' = r.inv
  <2>1. r.at \in 1..pub /\ InvOf(r.at) = r.inv
    BY <1>8 DEF CallReads
  <2>2. Len(log) \in Nat
    BY <1>1
  <2>3. r.at \in 1..Len(log) /\ r.at \in 1..pub'
    BY <1>1, <1>6, <2>1, <2>2
  <2> QED
    BY <1>5, <2>1, <2>3
<1>9. ASSUME ~r.matches PROVE ~open' \/ \E j \in DOMAIN log' : j > r.at /\ InvOf(j)' # r.inv
  BY <1>3, <1>5, <1>6, <1>9 DEF CallReads
<1>10. r.pc \notin {"idle", "remember"} => r.matches
  BY DEF CallReads
<1> QED
  BY <1>7, <1>8, <1>9, <1>10 DEF CallReads

(* A step of one call that is not waiting for the writer. *)
LEMMA CallTurns ==
  ASSUME CommitInv, RereadsSound, NEW c \in Callers, NEW r \in Calls,
         call' = [call EXCEPT ![c] = r], CallReads(r),
         r.pc \in InFlight => r.proposal # 0,
         call[c].pc # "waiting",
         proposals' = proposals \/ \E x : proposals' = Append(proposals, x),
         UNCHANGED <<log, pub, open>>
  PROVE  RereadsSound'
<1>1. \A d \in Callers : call'[d] = IF d = c THEN r ELSE call[d]
  BY DEF CommitInv, TypeOK, CallsOK
<1>2. PendingReads'
  <2>1. pub < Len(log) => log[pub + 1].caller \in Callers /\ log[pub + 1].caller # c
    <3>1. pub < Len(log) => log[pub + 1] \in Edits
      BY DEF CommitInv, TypeOK, CountersOK, LogOK
    <3> QED
      BY <3>1 DEF Edits, CommitInv, Pending
  <2> QED
    BY <1>1, <2>1 DEF RereadsSound, PendingReads
<1>3. ASSUME NEW d \in Callers PROVE CallReads(call[d])'
  <2>1. PICK q \in Calls :
          /\ q = call'[d]
          /\ CallReads(q)
          /\ q.pc \in InFlight => q.proposal # 0
    BY <1>1 DEF CommitInv, TypeOK, CallsOK, RereadsSound
  <2>2. pub' \in {pub, pub + 1} /\ (open' => open)
    OBVIOUS
  <2>3. CallReads(q)'
    BY <2>1, <2>2, ReadsStay
  <2> QED
    BY <2>1, <2>3 DEF CallReads
<1> QED
  BY <1>2, <1>3 DEF RereadsSound

LEMMA RefuseReads ==
  ASSUME CommitInv, RereadsSound, NEW c \in Callers, Refuse(c),
         call[c].pc # "waiting", UNCHANGED <<proposals, log, pub, open>>
  PROVE  RereadsSound'
<1>1. Quiet \in Calls /\ Quiet.pc = "idle" /\ CallReads(Quiet)
  BY QuietType, QuietReads DEF CommitInv
<1>2. call' = [call EXCEPT ![c] = Quiet]
  BY DEF Refuse
<1> HIDE DEF Quiet
<1> QED
  BY <1>1, <1>2, CallTurns DEF InFlight

(* A call that goes on in flight, before the writer has answered it. *)
LEMMA GoToReads ==
  ASSUME CommitInv, RereadsSound, NEW c \in Callers,
         call[c].pc \in {"lookup", "compare", "send"},
         NEW pc \in {"compare", "send", "waiting"}, GoTo(c, pc),
         UNCHANGED <<proposals, log, pub, open>>
  PROVE  RereadsSound'
<1> DEFINE r == [call[c] EXCEPT !.pc = pc]
<1>1. call[c] \in Calls /\ CallReads(call[c]) /\ r \in Calls
  BY CallFacts DEF RereadsSound, InFlight
<1>2. /\ r.pc = pc /\ r.inv = call[c].inv /\ r.proposal = call[c].proposal
      /\ r.matches = call[c].matches
  BY <1>1 DEF Calls
<1>3. call' = [call EXCEPT ![c] = r]
  BY DEF GoTo, CommitInv, TypeOK, CallsOK
<1>4. call[c].proposal # 0 /\ call[c].matches /\ call[c].inv = proposals[call[c].proposal].inv
  BY <1>1 DEF CommitInv, TypeOK, CallsOK, CallReads, InFlight
<1> HIDE DEF r
<1>5. CallReads(r)
  BY <1>2, <1>4 DEF CallReads
<1> QED
  BY <1>1, <1>2, <1>3, <1>4, <1>5, CallTurns

LEMMA ReadTargetReads ==
  ASSUME CommitInv, RereadsSound, NEW c \in Callers, NEW inv \in Investigations, ReadTarget(c, inv)
  PROVE  RereadsSound'
<1> DEFINE r == [Quiet EXCEPT !.pc = "propose", !.inv = inv, !.rev = pub]
<1>1. Quiet \in Calls /\ Quiet.matches /\ pub \in 0..pub
  BY QuietType, QuietReads DEF CommitInv, TypeOK, CountersOK
<1>2. r \in Calls
  BY <1>1 DEF Calls
<1>3. r.pc = "propose" /\ r.matches
  BY <1>1 DEF Calls
<1>4. /\ call' = [call EXCEPT ![c] = r] /\ call[c].pc = "idle"
      /\ UNCHANGED <<proposals, log, pub, open>>
  BY DEF ReadTarget, Idle
<1> HIDE DEF r
<1>5. CallReads(r)
  BY <1>3 DEF CallReads, InFlight
<1> QED
  BY <1>2, <1>3, <1>4, <1>5, CallTurns DEF InFlight

LEMMA FindProposalReads ==
  ASSUME CommitInv, RereadsSound, NEW c \in Callers, NEW p \in 1..Len(proposals), NEW k \in Keys,
         NEW named \in BOOLEAN, FindProposal(c, p, k, named)
  PROVE  RereadsSound'
<1> DEFINE r == [Quiet EXCEPT !.pc = "lookup", !.inv = proposals[p].inv, !.proposal = p,
                              !.key = k, !.named = named, !.began = pub]
<1>1. call[c].pc = "idle" /\ UNCHANGED <<proposals, log, pub, open>>
  BY DEF FindProposal, Idle
<1>2. CASE p <= expired
  BY <1>1, <1>2, RefuseReads DEF FindProposal
<1>3. CASE ~(p <= expired)
  <2>1. Quiet \in Calls /\ Quiet.matches /\ pub \in 0..pub
    BY QuietType, QuietReads DEF CommitInv, TypeOK, CountersOK
  <2>2. proposals[p].inv \in Investigations /\ p \in 0..Len(proposals) /\ p # 0
    <3>1. proposals[p] \in Proposals /\ Len(proposals) \in Nat
      BY DEF CommitInv, TypeOK, ProposalsOK
    <3> QED
      BY <3>1 DEF Proposals
  <2>3. r \in Calls
    BY <2>1, <2>2 DEF Calls, InFlight
  <2>4. r.pc = "lookup" /\ r.matches /\ r.proposal = p /\ r.inv = proposals[p].inv
    BY <2>1 DEF Calls
  <2>5. call' = [call EXCEPT ![c] = r]
    BY <1>3 DEF FindProposal
  <2> HIDE DEF r
  <2>6. CallReads(r)
    BY <2>4 DEF CallReads
  <2> QED
    BY <1>1, <2>2, <2>3, <2>4, <2>5, <2>6, CallTurns
<1> QED
  BY <1>2, <1>3

(* An answer keeps what the reread said. *)
LEMMA SucceedReads ==
  ASSUME CommitInv, RereadsSound, NEW c \in Callers, NEW at \in 0..pub, Succeed(c, at),
         call[c].pc \in {"lookup", "remember"}, call[c].pc = "remember" => at = call[c].at,
         UNCHANGED <<proposals, log, pub, open>>
  PROVE  RereadsSound'
<1> DEFINE r == [Quiet EXCEPT !.inv = call[c].inv, !.key = call[c].key,
                              !.at = at, !.matches = call[c].matches]
<1>1. Quiet \in Calls /\ Quiet.pc = "idle" /\ call[c] \in Calls /\ CallReads(call[c])
  BY QuietType, CallFacts DEF CommitInv, RereadsSound
<1>2. r \in Calls
  BY <1>1 DEF Calls
<1>3. r.pc = "idle" /\ r.inv = call[c].inv /\ r.at = at /\ r.matches = call[c].matches
  BY <1>1 DEF Calls
<1>4. call' = [call EXCEPT ![c] = r]
  BY DEF Succeed
<1> HIDE DEF r
<1>5. CallReads(r)
  BY <1>1, <1>3 DEF CallReads, InFlight
<1> QED
  BY <1>2, <1>3, <1>4, <1>5, CallTurns DEF InFlight

(* The published project either has the call's own value, or a later edit. *)
LEMMA RereadReads ==
  ASSUME CommitInv, RereadsSound, NEW c \in Callers, Reread(c)
  PROVE  RereadsSound'
<1> DEFINE r == [call[c] EXCEPT !.pc = "remember", !.matches = Visible(c)]
<1>1. call[c] \in Calls /\ CallReads(call[c]) /\ call[c].pc = "reread"
  BY CallFacts DEF RereadsSound, Reread
<1>2. Visible(c) \in BOOLEAN
  BY DEF Visible, CommitInv, TypeOK, ResultsOK
<1>3. r \in Calls
  BY <1>1, <1>2 DEF Calls, InFlight
<1>4. /\ r.pc = "remember" /\ r.inv = call[c].inv /\ r.proposal = call[c].proposal
      /\ r.at = call[c].at /\ r.matches = Visible(c)
  BY <1>1 DEF Calls
<1>5. call' = [call EXCEPT ![c] = r] /\ UNCHANGED <<proposals, log, pub, open>>
  BY DEF Reread, CommitInv, TypeOK, CallsOK
<1> HIDE DEF r
<1>6. /\ call[c].proposal # 0 /\ call[c].inv = proposals[call[c].proposal].inv
      /\ call[c].at \in 1..pub /\ InvOf(call[c].at) = call[c].inv
  BY <1>1 DEF CommitInv, TypeOK, CallsOK, CallReads, InFlight
<1>7. ASSUME open, ~Visible(c) PROVE \E j \in DOMAIN log : j > call[c].at /\ InvOf(j) # call[c].inv
  <2>1. InvOf(pub) # call[c].inv
    BY <1>7 DEF Visible
  <2>2. pub \in Nat /\ log \in Seq(Edits) /\ pub <= Len(log)
    BY DEF CommitInv, TypeOK, CountersOK, LogOK
  <2>3. pub # call[c].at
    BY <1>6, <2>1
  <2>4. pub > call[c].at /\ pub \in DOMAIN log
    BY <1>6, <2>2, <2>3
  <2> QED
    BY <2>1, <2>4
<1>8. CallReads(r)
  BY <1>4, <1>6, <1>7 DEF CallReads
<1> QED
  BY <1>1, <1>3, <1>4, <1>5, <1>6, <1>8, CallTurns

(* The calls rest; what is added changes nothing that was read. *)
LEMMA OthersRead ==
  ASSUME CommitInv, RereadsSound, UNCHANGED call, PendingReads',
         proposals' = proposals,
         log' = log \/ \E e : log' = Append(log, e), pub' = pub, open' => open
  PROVE  RereadsSound'
<1>1. ASSUME NEW d \in Callers PROVE CallReads(call[d])'
  <2>1. PICK q \in Calls :
          /\ q = call[d]
          /\ CallReads(q)
          /\ q.pc \in InFlight => q.proposal # 0
    BY DEF CommitInv, TypeOK, CallsOK, RereadsSound
  <2>2. pub' \in {pub, pub + 1}
    OBVIOUS
  <2>3. CallReads(q)'
    BY <2>1, <2>2, ReadsStay
  <2> QED
    BY <2>1, <2>3 DEF CallReads
<1> QED
  BY <1>1 DEF RereadsSound

LEMMA WriterApplyReads ==
  ASSUME CommitInv, RereadsSound, WriterApply
  PROVE  RereadsSound'
<1>1. PICK ok \in BOOLEAN :
        log' = Append(log, [caller |-> Head(queue), proposal |-> call[Head(queue)].proposal,
                            key |-> call[Head(queue)].key, began |-> call[Head(queue)].began,
                            ok |-> ok])
  BY DEF WriterApply
<1>2. log \in Seq(Edits) /\ Len(log) = pub
  BY DEF WriterApply, CommitInv, TypeOK, LogOK
<1>3. /\ log'[pub + 1].caller = Head(queue)
      /\ log'[pub + 1].proposal = call[Head(queue)].proposal
  BY <1>1, <1>2
<1>4. UNCHANGED <<proposals, pub, open, call>>
  BY DEF WriterApply
<1>5. PendingReads'
  BY <1>3, <1>4 DEF PendingReads
<1> QED
  BY <1>1, <1>4, <1>5, OthersRead

(* The answer: the edit is the call's own. *)
LEMMA WriterPublishReads ==
  ASSUME CommitInv, RereadsSound, WriterPublish
  PROVE  RereadsSound'
<1> DEFINE e == log[pub + 1]
           c == e.caller
           moved == [call[c] EXCEPT !.pc = "reread", !.at = pub + 1]
<1>1. /\ pub < Len(log) /\ pub' = pub + 1
      /\ UNCHANGED <<proposals, log, open>>
  BY DEF WriterPublish
<1>2. log \in Seq(Edits) /\ pub \in Nat /\ Len(log) = pub + 1
  BY <1>1 DEF CommitInv, TypeOK, LogOK, CountersOK
<1>3. e \in Edits
  BY <1>2
<1>4. c \in Callers
  BY <1>3 DEF Edits
<1>5. call[c].pc = "waiting" /\ e.proposal = call[c].proposal
  BY <1>1 DEF CommitInv, Pending, RereadsSound, PendingReads
<1>6. call[c] \in Calls /\ CallReads(call[c]) /\ call[c].proposal # 0
  BY <1>4, <1>5, CallFacts DEF RereadsSound, CommitInv, TypeOK, CallsOK, InFlight
<1>7. call[c].inv = proposals[call[c].proposal].inv /\ call[c].matches
  BY <1>5, <1>6 DEF CallReads, InFlight
<1>8. InvOf(pub + 1) = call[c].inv
  BY <1>5, <1>7 DEF InvOf
<1>9. /\ moved.pc = "reread" /\ moved.at = pub + 1 /\ moved.inv = call[c].inv
      /\ moved.proposal = call[c].proposal /\ moved.matches = call[c].matches
  BY <1>6 DEF Calls
<1>10. PICK r :
         /\ call' = [call EXCEPT ![c] = r]
         /\ \/ r = Quiet
            \/ /\ r.pc = "reread" /\ r.at = pub + 1 /\ r.inv = call[c].inv
               /\ r.proposal = call[c].proposal /\ r.matches
  <2>1. CASE e.ok
    <3>1. call' = [call EXCEPT ![c] = moved]
      BY <1>4, <2>1 DEF WriterPublish, CommitInv, TypeOK, CallsOK
    <3> HIDE DEF moved
    <3> QED
      BY <1>7, <1>9, <3>1
  <2>2. CASE ~e.ok
    BY <2>2 DEF WriterPublish, Refuse
  <2> QED
    BY <2>1, <2>2
<1>11. \A d \in Callers : call'[d] = IF d = c THEN r ELSE call[d]
  BY <1>10 DEF CommitInv, TypeOK, CallsOK
<1>12. InvOf(r.at)' = InvOf(r.at) /\ pub + 1 \in 1..pub'
  BY <1>1, <1>2 DEF InvOf
<1> HIDE DEF e, c, moved
<1>13. PendingReads'
  BY <1>1, <1>2 DEF PendingReads
<1>14. ASSUME NEW d \in Callers PROVE CallReads(call[d])'
  <2>1. CASE d # c
    <3>1. PICK q \in Calls :
            /\ q = call[d]
            /\ CallReads(q)
            /\ q.pc \in InFlight => q.proposal # 0
      BY DEF CommitInv, TypeOK, CallsOK, RereadsSound
    <3>2. CallReads(q)'
      BY <1>1, <3>1, ReadsStay
    <3> QED
      BY <1>11, <2>1, <3>1, <3>2 DEF CallReads
  <2>2. CASE d = c /\ r = Quiet
    BY <1>11, <2>2 DEF CallReads, Quiet, InFlight
  <2>3. CASE d = c /\ r # Quiet
    BY <1>1, <1>7, <1>8, <1>10, <1>11, <1>12, <2>3 DEF CallReads, InvOf
  <2> QED
    BY <2>1, <2>2, <2>3
<1> QED
  BY <1>13, <1>14 DEF RereadsSound

LEMMA NextReads == CommitInv /\ RereadsSound /\ [Next]_vars => RereadsSound'
<1> SUFFICES ASSUME CommitInv, RereadsSound, [Next]_vars PROVE RereadsSound'
  OBVIOUS
<1>1. ASSUME NEW c \in Callers, Begin(c) PROVE RereadsSound'
  BY <1>1, ReadTargetReads, FindProposalReads DEF Begin
<1>2. ASSUME NEW c \in Callers, Propose(c) PROVE RereadsSound'
  <2>1. Quiet \in Calls /\ Quiet.pc = "idle" /\ CallReads(Quiet)
    BY QuietType, QuietReads DEF CommitInv
  <2>2. /\ call' = [call EXCEPT ![c] = Quiet] /\ call[c].pc = "propose"
        /\ \E x : proposals' = Append(proposals, x)
        /\ UNCHANGED <<log, pub, open>>
    BY <1>2 DEF Propose
  <2> HIDE DEF Quiet
  <2> QED
    BY <2>1, <2>2, CallTurns DEF InFlight
<1>3. ASSUME NEW c \in Callers, FindResult(c) PROVE RereadsSound'
  <2>1. call[c].key \in Keys /\ results \in [Keys -> 0..pub] /\ call[c].pc = "lookup"
    BY <1>3, CallFacts DEF FindResult, InFlight, CommitInv, TypeOK, ResultsOK
  <2> QED
    BY <1>3, <2>1, SucceedReads, GoToReads DEF FindResult
<1>4. ASSUME NEW c \in Callers, CompareRevision(c) \/ SendEdit(c) PROVE RereadsSound'
  BY <1>4, GoToReads, RefuseReads DEF CompareRevision, SendEdit
<1>5. ASSUME NEW c \in Callers, RememberResult(c) PROVE RereadsSound'
  <2>1. call[c].at \in 0..pub
    BY CallFacts DEF Calls
  <2> QED
    BY <1>5, <2>1, SucceedReads DEF RememberResult
<1>6. CASE Close \/ TimePasses \/ UNCHANGED vars
  BY <1>6, OthersRead DEF Close, TimePasses, vars, RereadsSound, PendingReads
<1> QED
  BY <1>1, <1>2, <1>3, <1>4, <1>5, <1>6, RereadReads, WriterApplyReads, WriterPublishReads
  DEF Next, GoOn

(* The answer of a commit whose reread did not match is honest: the target *)
(* was closed, or an edit of another investigation came after this one.    *)
THEOREM RereadIsExplained == Spec => []RereadExplained
<1>1. Init => RereadsSound
  <2>1. Init => \A c \in Callers : call[c] = Quiet
    BY DEF Init
  <2>2. Init => PendingReads
    BY DEF Init, PendingReads
  <2> QED
    BY <2>1, <2>2, QuietReads DEF RereadsSound
<1>2. RereadsSound => RereadExplained
  BY DEF RereadsSound, CallReads, RereadExplained
<1> QED
  BY <1>1, <1>2, NextReads, CommitInvariant, PTL DEF Spec

============================================================================
