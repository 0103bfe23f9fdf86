---------------------------- MODULE ChangeCommit ----------------------------
(***************************************************************************)
(* change_commit (mcp.rs): edit investigations propose a change at the     *)
(* revision they saw; a commit looks for a remembered result of its        *)
(* idempotency key, compares revisions, sends the edit to the writer task  *)
(* and remembers the answer.  Each of these steps reads shared state of    *)
(* its own, so each is an action, and calls interleave between them.       *)
(*                                                                         *)
(* One target is modelled: proposals and keys of other targets do not meet *)
(* (a key is "v3:{target}:{key}").  Its revision, op_seq, is counted from  *)
(* the moment it was opened; commits are its only edits, as no action      *)
(* ticket is bound to another writing capability.  All proposals change    *)
(* the same annotation, each investigation to a value of its own.          *)
(***************************************************************************)
EXTENDS Integers, Sequences, FiniteSets

CONSTANTS Callers,            \* concurrent MCP calls
          Investigations,     \* edit investigations on the target
          Keys,               \* idempotency keys
          MAX_EDIT_RESULTS,
          MaxProposals,       \* bound: proposals ever made
          MaxEdits,           \* bound: edits applied by the writer
          NoInv, NoKey

ASSUME CommitAssumption ==
  /\ MAX_EDIT_RESULTS \in Nat
  /\ MaxProposals \in Nat
  /\ MaxEdits \in Nat
  /\ NoInv \notin Investigations
  /\ NoKey \notin Keys

VARIABLES
  proposals,  \* proposals, in the order of their creation: investigation and revision
  expired,    \* proposals 1..expired are older than INVESTIGATION_TTL
  log,        \* the edits the writer has applied; the length is its op_seq
  pub,        \* op_seq of the published project
  queue,      \* calls whose edit waits in the writer's channel
  results,    \* edit_results: per key, the position in log of the answer, or 0
  open,       \* the target is in the project map
  call        \* per caller: where its call stands, and the last answer

vars == <<proposals, expired, log, pub, queue, results, open, call>>

----------------------------------------------------------------------------
(* named says whether a commit names the revision of its proposal; rev is  *)
(* the revision that a proposing call has read.  An idle call keeps the    *)
(* answer of its last commit: the position in log of the edit it reports,  *)
(* 0 for an error, and whether the reread matched.  began is a ghost: the  *)
(* published revision when the commit came in.                             *)
Quiet == [pc |-> "idle", inv |-> NoInv, rev |-> 0, proposal |-> 0, key |-> NoKey,
          named |-> TRUE, began |-> 0, at |-> 0, matches |-> TRUE]

Idle(c) == call[c].pc = "idle"
GoTo(c, pc) == call' = [call EXCEPT ![c].pc = pc]
Refuse(c)   == call' = [call EXCEPT ![c] = Quiet]
Succeed(c, at) ==
  call' = [call EXCEPT ![c] = [Quiet EXCEPT !.inv = call[c].inv, !.key = call[c].key,
                                            !.at = at, !.matches = call[c].matches]]

Init ==
  /\ proposals = <<>>
  /\ expired = 0
  /\ log = <<>>
  /\ pub = 0
  /\ queue = <<>>
  /\ results = [k \in Keys |-> 0]
  /\ open = TRUE
  /\ call = [c \in Callers |-> Quiet]

----------------------------------------------------------------------------
(* run_investigation, for an edit: the project is read, then the proposal  *)
(* is recorded with the revision of that read.                             *)
ReadTarget(c, inv) ==
  /\ Idle(c)
  /\ open
  /\ call' = [call EXCEPT ![c] = [Quiet EXCEPT !.pc = "propose", !.inv = inv, !.rev = pub]]
  /\ UNCHANGED <<proposals, expired, log, pub, queue, results, open>>

Propose(c) ==
  /\ call[c].pc = "propose"
  /\ Len(proposals) < MaxProposals
  /\ proposals' = Append(proposals, [inv |-> call[c].inv, rev |-> call[c].rev])
  /\ call' = [call EXCEPT ![c] = Quiet]
  /\ UNCHANGED <<expired, log, pub, queue, results, open>>

TimePasses ==
  /\ expired < Len(proposals)
  /\ expired' = expired + 1
  /\ UNCHANGED <<proposals, log, pub, queue, results, open, call>>

----------------------------------------------------------------------------
(* commit_change, then Dispatch::Commit.                                   *)

(* The proposal is found; an expired one is refused. *)
FindProposal(c, p, key, named) ==
  /\ Idle(c)
  /\ IF p <= expired
     THEN Refuse(c)
     ELSE call' = [call EXCEPT ![c] =
            [Quiet EXCEPT !.pc = "lookup", !.inv = proposals[p].inv, !.proposal = p,
                          !.key = key, !.named = named, !.began = pub]]
  /\ UNCHANGED <<proposals, expired, log, pub, queue, results, open>>

(* A remembered result is the answer. *)
FindResult(c) ==
  /\ call[c].pc = "lookup"
  /\ IF results[call[c].key] # 0
     THEN Succeed(c, results[call[c].key])
     ELSE GoTo(c, "compare")
  /\ UNCHANGED <<proposals, expired, log, pub, queue, results, open>>

(* Mutant of Current: the call's revision is compared with the proposal's only. *)
AsProposed(c) == call[c].named

(* The call names the revision of the proposal, and it is the published one. *)
Current(c) == call[c].named /\ open /\ proposals[call[c].proposal].rev = pub

CompareRevision(c) ==
  /\ call[c].pc = "compare"
  /\ IF Current(c) THEN GoTo(c, "send") ELSE Refuse(c)
  /\ UNCHANGED <<proposals, expired, log, pub, queue, results, open>>

(* apply_rename_batch, apply_op: the edit goes to the writer, if the       *)
(* target is still open.                                                   *)
SendEdit(c) ==
  /\ call[c].pc = "send"
  /\ IF open
     THEN GoTo(c, "waiting") /\ queue' = Append(queue, c)
     ELSE Refuse(c) /\ UNCHANGED queue
  /\ UNCHANGED <<proposals, expired, log, pub, results, open>>

(* Mutant of WriterApply: the next request is taken before the last edit   *)
(* was published.                                                          *)
ApplyAhead ==
  /\ queue # <<>> /\ Len(log) < MaxEdits
  /\ LET c == Head(queue) IN
       \E ok \in BOOLEAN :
         log' = Append(log, [caller |-> c, proposal |-> call[c].proposal,
                             key |-> call[c].key, began |-> call[c].began, ok |-> ok])
  /\ queue' = Tail(queue)
  /\ UNCHANGED <<proposals, expired, pub, results, open, call>>

(* writer_loop, apply_one: op_seq is advanced and the edit applied, also   *)
(* when the journal then refuses it.                                       *)
WriterApply ==
  /\ queue # <<>> /\ Len(log) = pub /\ pub < MaxEdits
  /\ LET c == Head(queue) IN
       \E ok \in BOOLEAN :
         log' = Append(log, [caller |-> c, proposal |-> call[c].proposal,
                             key |-> call[c].key, began |-> call[c].began, ok |-> ok])
  /\ queue' = Tail(queue)
  /\ UNCHANGED <<proposals, expired, pub, results, open, call>>

(* The project is published, then the caller gets its answer. *)
WriterPublish ==
  /\ pub < Len(log)
  /\ pub' = pub + 1
  /\ LET edit == log[pub + 1] IN
       IF edit.ok
       THEN call' = [call EXCEPT ![edit.caller].pc = "reread", ![edit.caller].at = pub + 1]
       ELSE Refuse(edit.caller)
  /\ UNCHANGED <<proposals, expired, log, queue, results, open>>

InvOf(i) == proposals[log[i].proposal].inv
RevOf(i) == proposals[log[i].proposal].rev

(* Mutant of Visible: the edit is visible if it is the last one. *)
IsLast(c) == open /\ call[c].at = pub

(* op_visible, on the published project. *)
Visible(c) == open /\ InvOf(pub) = call[c].inv

Reread(c) ==
  /\ call[c].pc = "reread"
  /\ call' = [call EXCEPT ![c].pc = "remember", ![c].matches = Visible(c)]
  /\ UNCHANGED <<proposals, expired, log, pub, queue, results, open>>

(* The keys one of which a full edit_results drops: whichever the hash map *)
(* yields first, be it the key that is inserted.                           *)
Remembered == {k \in Keys : results[k] # 0}
Dropped    == IF Cardinality(Remembered) >= MAX_EDIT_RESULTS THEN Remembered ELSE {}

(* Mutant of RememberResult: the answer is remembered under the key that   *)
(* was dropped to make room for it.                                        *)
RememberDropped(c) ==
  /\ call[c].pc = "remember"
  /\ \/ \E d \in Dropped : results' = [results EXCEPT ![d] = call[c].at]
     \/ Dropped = {} /\ results' = [results EXCEPT ![call[c].key] = call[c].at]
  /\ Succeed(c, call[c].at)
  /\ UNCHANGED <<proposals, expired, log, pub, queue, open>>

(* Only results without an error are remembered. *)
RememberResult(c) ==
  /\ call[c].pc = "remember"
  /\ \/ \E d \in Dropped :
          results' = [[results EXCEPT ![d] = 0] EXCEPT ![call[c].key] = call[c].at]
     \/ Dropped = {} /\ results' = [results EXCEPT ![call[c].key] = call[c].at]
  /\ Succeed(c, call[c].at)
  /\ UNCHANGED <<proposals, expired, log, pub, queue, open>>

(* target_close: the target leaves the project map; its writer goes on     *)
(* until its channel is empty.                                             *)
Close ==
  /\ open
  /\ open' = FALSE
  /\ UNCHANGED <<proposals, expired, log, pub, queue, results, call>>

----------------------------------------------------------------------------
Begin(c) ==
  \/ \E inv \in Investigations : ReadTarget(c, inv)
  \/ \E p \in 1..Len(proposals), k \in Keys, named \in BOOLEAN : FindProposal(c, p, k, named)

GoOn(c) ==
  \/ Propose(c)
  \/ FindResult(c) \/ CompareRevision(c) \/ SendEdit(c)
  \/ Reread(c) \/ RememberResult(c)

Next ==
  \/ \E c \in Callers : Begin(c) \/ GoOn(c)
  \/ WriterApply \/ WriterPublish
  \/ Close \/ TimePasses

Spec == Init /\ [][Next]_vars

----------------------------------------------------------------------------
Proposals == [inv : Investigations, rev : 0..pub]
Edits     == [caller : Callers, proposal : 1..Len(proposals), key : Keys, began : 0..pub,
              ok : BOOLEAN]
InFlight  == {"lookup", "compare", "send", "waiting", "reread", "remember"}
Calls     == [pc : {"idle", "propose"} \cup InFlight, inv : Investigations \cup {NoInv},
              rev : 0..pub, proposal : 0..Len(proposals), key : Keys \cup {NoKey},
              named : BOOLEAN, began : 0..pub, at : 0..pub, matches : BOOLEAN]

CountersOK  == /\ pub \in 0..MaxEdits
               /\ Len(log) \in {pub, pub + 1} /\ Len(log) <= MaxEdits
               /\ Len(proposals) <= MaxProposals /\ expired \in 0..Len(proposals)
ProposalsOK == proposals \in Seq(Proposals)
LogOK       == log \in Seq(Edits) /\ queue \in Seq(Callers)
ResultsOK   == results \in [Keys -> 0..pub] /\ open \in BOOLEAN
CallsOK     == /\ call \in [Callers -> Calls]
               /\ \A c \in Callers : call[c].pc \in InFlight =>
                    /\ call[c].proposal # 0
                    /\ call[c].inv # NoInv /\ call[c].key # NoKey
               /\ \A c \in Callers : call[c].pc = "propose" =>
                    call[c].inv # NoInv

(* The maps, the log and the calls keep their types: the writer is at most *)
(* one edit ahead of its readers, and no revision is from the future.      *)
TypeOK == CountersOK /\ ProposalsOK /\ LogOK /\ ResultsOK /\ CallsOK

(* A change is applied again only by a call that was already under way     *)
(* when it was published: a commit that comes in later, as a retry after   *)
(* an answer, an error or an eviction does, never repeats it, nor applies  *)
(* another proposal made at the same revision.                             *)
RepeatsOverlap ==
  \A i, j \in DOMAIN log :
    i < j /\ RevOf(i) = RevOf(j) => log[j].began < i

(* Success, fresh or remembered, stands for an edit that was journaled and *)
(* published under the key of the call.                                    *)
SuccessMeansApplied ==
  /\ \A k \in Keys : results[k] # 0 => log[results[k]].ok /\ log[results[k]].key = k
  /\ \A c \in Callers : call[c].at # 0 =>
       log[call[c].at].ok /\ log[call[c].at].key = call[c].key

(* "Saved, but the immediate re-read did not match" is said only if the    *)
(* target was closed or another investigation's edit came after this one.  *)
RereadExplained ==
  \A c \in Callers : ~call[c].matches =>
    \/ ~open
    \/ \E j \in DOMAIN log : j > call[c].at /\ InvOf(j) # call[c].inv

=============================================================================
