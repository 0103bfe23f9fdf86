---------------------------- MODULE ActivityFeed ----------------------------
(***************************************************************************)
(* The operators' activity feed: one ring of ACTIVITY_CAPACITY events for  *)
(* all projects (record_activity and merge_events of project_manager.rs)   *)
(* and one append-only log per image (project/activity_log.rs), which      *)
(* outlives the process and is merged into the ring when the image is      *)
(* opened.                                                                 *)
(*                                                                         *)
(* The clock does not run backwards, but two events may carry one          *)
(* timestamp.  Summaries and clients are left out; n tells events apart.   *)
(***************************************************************************)
EXTENDS Integers, Sequences, FiniteSets

CONSTANTS Images,             \* contents of files, by SHA-256
          ACTIVITY_CAPACITY,
          MaxEvents,          \* bound: events ever recorded
          MaxSessions         \* bound: projects ever opened

Sessions == 1..MaxSessions

ASSUME FeedAssumption ==
  /\ ACTIVITY_CAPACITY \in Nat \ {0}
  /\ MaxEvents \in Nat
  /\ MaxSessions \in Nat
  /\ Images # {}

VARIABLES
  ring,      \* activity_log
  logs,      \* per image: the parsed lines of <sha256>.activity and how the file ends
  session,   \* per project id: its image, how far it is, and the tail it has read
  slot,      \* per project id: the event its writer is recording, or none
  recorded,  \* number of events so far
  clock,     \* timestamp of the latest event
  unsaved    \* ghost: events whose line did not reach a readable place

feedVars == <<ring, logs, session, slot, recorded, clock, unsaved>>

----------------------------------------------------------------------------
Events == [t : 0..MaxEvents, session : Sessions, n : 1..MaxEvents]
NoEvent == [t |-> 0, session |-> 0, n |-> 0]

(* How a log ends: after a newline; after a whole line that lacks its      *)
(* newline; inside a line; or past a line that does not parse.             *)
Ends == {"clean", "unended", "torn", "broken"}

Unopened == [image |-> CHOOSE i \in Images : TRUE, state |-> "none", tail |-> <<>>]
States   == {"none", "merging", "open", "draining", "ended"}

LastOf(s, k) == IF Len(s) <= k THEN s ELSE SubSeq(s, Len(s) - k + 1, Len(s))

FeedInit ==
  /\ ring = <<>>
  /\ logs = [i \in Images |-> [lines |-> <<>>, end |-> "clean"]]
  /\ session = [p \in Sessions |-> Unopened]
  /\ slot = [p \in Sessions |-> NoEvent]
  /\ recorded = 0
  /\ clock = 0
  /\ unsaved = {}

----------------------------------------------------------------------------
(* Opening a project.                                                      *)

(* read_tail stops at the first line that does not parse. *)
ReadTail(p, i) ==
  /\ session[p].state = "none"
  /\ \A q \in Sessions : q < p => session[q].state # "none"
  /\ session' = [session EXCEPT ![p] =
       [image |-> i, state |-> "merging", tail |-> LastOf(logs[i].lines, ACTIVITY_CAPACITY)]]
  /\ UNCHANGED <<ring, logs, slot, recorded, clock, unsaved>>

(* sort_by_key is stable: equal timestamps keep their order. *)
Rank(s, i) == Cardinality({j \in DOMAIN s : s[j].t < s[i].t \/ (s[j].t = s[i].t /\ j <= i)})
Sorted(s)  == [k \in DOMAIN s |-> s[CHOOSE i \in DOMAIN s : Rank(s, i) = k]]

(* Mutant of Merged: the first events are kept, not the last. *)
MergedOldest(tail) ==
  LET all == Sorted(tail \o ring)
  IN  IF Len(all) <= ACTIVITY_CAPACITY THEN all ELSE SubSeq(all, 1, ACTIVITY_CAPACITY)

(* Mutant of Merged: the backfill is put behind the ring, unsorted. *)
MergedBehind(tail) == LastOf(ring \o tail, ACTIVITY_CAPACITY)

(* merge_events *)
Merged(tail) == LastOf(Sorted(tail \o ring), ACTIVITY_CAPACITY)

(* The backfill, and the start of the writer task. *)
Backfill(p) ==
  /\ session[p].state = "merging"
  /\ ring' = IF session[p].tail = <<>> THEN ring ELSE Merged(session[p].tail)
  /\ session' = [session EXCEPT ![p].state = "open", ![p].tail = <<>>]
  /\ UNCHANGED <<logs, slot, recorded, clock, unsaved>>

----------------------------------------------------------------------------
(* record_activity, by the writer task of project p.                       *)

Event(p, t) == [t |-> t, session |-> p, n |-> recorded + 1]
Log(p)      == logs[session[p].image]

(* Mutant of Appended: the file is opened anew for every event. *)
AppendedAlone(log, e) == [lines |-> <<e>>, end |-> "clean"]

(* One whole line at the end of the file. *)
Appended(log, e) ==
  CASE log.end = "clean"   -> [log EXCEPT !.lines = Append(@, e)]
    [] log.end = "unended" -> [lines |-> SubSeq(log.lines, 1, Len(log.lines) - 1), end |-> "broken"]
    [] log.end = "torn"    -> [log EXCEPT !.end = "broken"]
    [] log.end = "broken"  -> log

(* A part of a line, or all of it but the newline. *)
Cut(log, e) ==
  {IF log.end = "clean" THEN [log EXCEPT !.end = "torn"]
   ELSE [Appended(log, e) EXCEPT !.end = "broken"],
   IF log.end = "clean" THEN [lines |-> Append(log.lines, e), end |-> "unended"]
   ELSE [Appended(log, e) EXCEPT !.end = "broken"]}

Writes(p) == session[p].state \in {"open", "draining"} /\ slot[p] = NoEvent

(* Events lost from the readable part of a log by an append. *)
Overwritten(log) == IF log.end = "unended" THEN {log.lines[Len(log.lines)].n} ELSE {}

(* The event is stamped and appended; an error of append is ignored. *)
AppendEvent(p) ==
  /\ Writes(p)
  /\ recorded < MaxEvents
  /\ \E t \in {clock, clock + 1} :
       LET e == Event(p, t) IN
       /\ clock' = t
       /\ slot' = [slot EXCEPT ![p] = e]
       /\ \/ /\ logs' = [logs EXCEPT ![session[p].image] = Appended(@, e)]
             /\ unsaved' = IF Log(p).end = "clean" THEN unsaved
                           ELSE unsaved \cup {e.n} \cup Overwritten(Log(p))
          \/ /\ logs' \in {[logs EXCEPT ![session[p].image] = l] : l \in {Log(p)} \cup Cut(Log(p), e)}
             /\ unsaved' = unsaved \cup {e.n} \cup Overwritten(Log(p))
  /\ recorded' = recorded + 1
  /\ UNCHANGED <<ring, session>>

(* Then it is pushed into the ring, which drops its front when full. *)
PushEvent(p) ==
  /\ slot[p] # NoEvent
  /\ ring' = Append(IF Len(ring) >= ACTIVITY_CAPACITY /\ ring # <<>> THEN Tail(ring) ELSE ring,
                    slot[p])
  /\ slot' = [slot EXCEPT ![p] = NoEvent]
  /\ UNCHANGED <<logs, session, recorded, clock, unsaved>>

----------------------------------------------------------------------------
(* close leaves requests in the writer's channel, which it still serves. *)
StartDraining(p) ==
  /\ session[p].state = "open"
  /\ session' = [session EXCEPT ![p].state = "draining"]
  /\ UNCHANGED <<ring, logs, slot, recorded, clock, unsaved>>

Gone == [p \in Sessions |-> IF session[p].state = "none" THEN session[p]
                            ELSE [session[p] EXCEPT !.state = "ended"]]

(* The process dies: between two steps, or inside an append. *)
FeedCrash ==
  /\ \E p \in Sessions : session[p].state \in {"merging", "open", "draining"}
  /\ ring' = <<>>
  /\ session' = Gone
  /\ slot' = [p \in Sessions |-> NoEvent]
  /\ \/ UNCHANGED <<logs, recorded, clock, unsaved>>
     \/ /\ recorded < MaxEvents
        /\ \E p \in Sessions :
             /\ Writes(p)
             /\ \E l \in Cut(Log(p), Event(p, clock)) :
                  logs' = [logs EXCEPT ![session[p].image] = l]
             /\ unsaved' = unsaved \cup {recorded + 1} \cup Overwritten(Log(p))
        /\ recorded' = recorded + 1
        /\ UNCHANGED clock

FeedNext ==
  \/ \E p \in Sessions : \/ \E i \in Images : ReadTail(p, i)
                         \/ Backfill(p)
                         \/ AppendEvent(p)
                         \/ PushEvent(p)
                         \/ StartDraining(p)
  \/ FeedCrash

FeedSpec == FeedInit /\ [][FeedNext]_feedVars

----------------------------------------------------------------------------
FeedTypeOK ==
  /\ ring \in Seq(Events)
  /\ logs \in [Images -> [lines : Seq(Events), end : Ends]]
  /\ session \in [Sessions -> [image : Images, state : States, tail : Seq(Events)]]
  /\ slot \in [Sessions -> Events \cup {NoEvent}]
  /\ recorded \in 0..MaxEvents
  /\ clock \in 0..MaxEvents
  /\ unsaved \subseteq 1..MaxEvents

(* The ring never holds more than ACTIVITY_CAPACITY events, and the events *)
(* of one project are in the order of their timestamps, although every     *)
(* reopening merges old copies into it while writers push new ones.        *)
FeedBoundedAndOrdered ==
  /\ Len(ring) <= ACTIVITY_CAPACITY
  /\ \A i, j \in DOMAIN ring :
       i < j /\ ring[i].session = ring[j].session => ring[i].t <= ring[j].t

(* "Persist before inserting into the in-memory ring so a crash only loses *)
(* the live view, never the durable record": what the feed shows can be    *)
(* read back from the log of its image, unless its append failed or met a  *)
(* line that an earlier append had left incomplete.                        *)
ShownIsDurable ==
  \A i \in DOMAIN ring : ring[i].n \notin unsaved =>
    LET lines == logs[session[ring[i].session].image].lines
    IN  \E k \in DOMAIN lines : lines[k] = ring[i]

(* "a reopened project shows its history immediately": of the tail that    *)
(* was read, opening hides only events older than all that are shown.      *)
HistoryShown ==
  [][\A p \in Sessions :
       session[p].state = "merging" /\ session'[p].state = "open" =>
         \A k \in DOMAIN session[p].tail :
           LET e == session[p].tail[k] IN
           \/ \E i \in DOMAIN ring' : ring'[i] = e
           \/ \A i \in DOMAIN ring' : ring'[i].t >= e.t]_feedVars

=============================================================================
