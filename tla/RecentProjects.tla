--------------------------- MODULE RecentProjects ---------------------------
(***************************************************************************)
(* The list of recently opened files of ProjectManager and the file        *)
(* recent-projects.json, which is rewritten in place after every change.   *)
(***************************************************************************)
EXTENDS Integers, Sequences, Lists

CONSTANTS RecentPaths,               \* paths, up to paths_match
          RECENT_PROJECT_CAPACITY,
          MaxOpens                   \* bound: files opened

ASSUME RecentAssumption ==
  /\ RECENT_PROJECT_CAPACITY \in Nat \ {0}
  /\ MaxOpens \in Nat

VARIABLES
  recent,      \* recent_projects, newest first
  recentFile,  \* [readable, list] of recent-projects.json
  opens        \* number of openings so far: the clock and the project ids

recentVars == <<recent, recentFile, opens>>

RecentEntries == [path : RecentPaths, id : 1..MaxOpens]
Truncated(s) == SubSeq(s, 1, IF Len(s) < RECENT_PROJECT_CAPACITY THEN Len(s)
                                                                 ELSE RECENT_PROJECT_CAPACITY)

RecentInit ==
  /\ recent = <<>>
  /\ recentFile = [readable |-> TRUE, list |-> <<>>]
  /\ opens = 0

Others(p) == Retain(recent, {e \in Items(recent) : e.path # p})

(* Mutant of Recorded: the entry takes its number before the opening. *)
RecordedEarlier(p) == Truncated(<<[path |-> p, id |-> opens]>> \o Others(p))

Recorded(p) == Truncated(<<[path |-> p, id |-> opens + 1]>> \o Others(p))

(* record_recent_project; an error of the save is only logged. *)
RecordRecent(p) ==
  /\ opens < MaxOpens
  /\ opens' = opens + 1
  /\ recent' = Recorded(p)
  /\ recentFile' \in {recentFile, [readable |-> TRUE, list |-> Recorded(p)],
                      [readable |-> FALSE, list |-> <<>>]}

(* The process ends, perhaps inside a write, and starts again:             *)
(* load_recent_projects takes what it can read.                            *)
RecentRestart ==
  /\ recentFile' \in {recentFile, [readable |-> FALSE, list |-> <<>>]}
  /\ recent' = IF recentFile'.readable THEN Truncated(recentFile'.list) ELSE <<>>
  /\ UNCHANGED opens

RecentNext == (\E p \in RecentPaths : RecordRecent(p)) \/ RecentRestart

RecentSpec == RecentInit /\ [][RecentNext]_recentVars

----------------------------------------------------------------------------
RecentTypeOK ==
  /\ recent \in Seq(RecentEntries)
  /\ recentFile \in [readable : BOOLEAN, list : Seq(RecentEntries)]
  /\ opens \in 0..MaxOpens

(* The list holds at most RECENT_PROJECT_CAPACITY files, each once, the    *)
(* one opened last first - also when it was restored from a file that      *)
(* missed some updates.                                                    *)
RecentsOrdered ==
  /\ Len(recent) <= RECENT_PROJECT_CAPACITY
  /\ \A i, j \in DOMAIN recent :
       i < j => recent[i].path # recent[j].path /\ recent[i].id > recent[j].id

=============================================================================
