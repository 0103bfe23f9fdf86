--------------------------- MODULE TargetRegistry ---------------------------
(***************************************************************************)
(* The maps of open targets of ProjectManager: projects, dump sessions,    *)
(* and the projects extracted from a dump's modules.  Opening looks a path *)
(* up, works without a lock, and then inserts; closing a dump session      *)
(* takes it out of its map first and closes its children one by one.       *)
(* Calls run concurrently, so an action is what happens under one lock.    *)
(*                                                                         *)
(* Targets are numbered in the order of their insertion.  The entries that *)
(* opening makes in workspaces and in the recent projects are left out;    *)
(* modules Workspaces and RecentProjects have those.                       *)
(***************************************************************************)
EXTENDS Integers, FiniteSets

CONSTANTS Clients,       \* concurrent calls
          PeFiles, Dumps,
          Modules,       \* modules of a dump
          NameIn,        \* NameIn[m]: modules whose identity key contains m's name
          MaxTargets     \* bound: targets ever opened

Targets == 1..MaxTargets

ASSUME RegistryAssumption ==
  /\ MaxTargets \in Nat
  /\ NameIn \in [Modules -> SUBSET Modules]
  /\ \A m \in Modules : m \in NameIn[m]

VARIABLES
  issued,     \* number of targets inserted so far
  target,     \* per id: what it is, what it was opened from, whether it is in its map
  children,   \* module_projects of each session: the project per module, 0 if none
  task,       \* per client: where its call stands
  excused     \* ghost: module projects that closing their session cannot reach

registryVars == <<issued, target, children, task, excused>>

----------------------------------------------------------------------------
Kinds == {"pe", "dump", "module"}
Sources == PeFiles \cup Dumps \cup Modules

Nothing == [kind |-> "none", open |-> FALSE]
Entry(kind, from, parent, looked) ==
  [kind |-> kind, open |-> TRUE, from |-> from, parent |-> parent, looked |-> looked]

IsOpen(i) == target[i].open
IsSession(s) == target[s].kind = "dump" /\ target[s].open
ChildIds(s) == {children[s][m] : m \in Modules} \ {0}

(* A call: its step, the session and the source it is about, how many      *)
(* targets there were at its lookup, the target it opened or was given,    *)
(* the children it has still to close.                                     *)
NoTask == [pc |-> "idle", session |-> 0, from |-> "none", looked |-> 0,
           id |-> 0, todo |-> {}]
Pcs == {"idle", "open", "open_dump", "extract", "register", "children", "closing"}

RegistryInit ==
  /\ issued = 0
  /\ target = [i \in Targets |-> Nothing]
  /\ children = [s \in Targets |-> [m \in Modules |-> 0]]
  /\ task = [c \in Clients |-> NoTask]
  /\ excused = {}

----------------------------------------------------------------------------
(* open_with_progress and open_dump.                                       *)

(* Mutant of Known: only the projects are searched. *)
KnownProjects(kind, from) == {i \in Targets : IsOpen(i) /\ kind = "pe" /\ target[i].from = from}

Known(kind, from) == {i \in Targets : IsOpen(i) /\ target[i].kind = kind /\ target[i].from = from}

(* The target that is open on this path, or the start of the slow part. *)
LookUpPath(c, kind, from) ==
  /\ task[c].pc = "idle"
  /\ \/ \E i \in Known(kind, from) :
          task' = [task EXCEPT ![c] = [NoTask EXCEPT !.from = from, !.id = i]]
     \/ /\ Known(kind, from) = {}
        /\ task' = [task EXCEPT ![c] =
             [NoTask EXCEPT !.pc = IF kind = "pe" THEN "open" ELSE "open_dump",
                            !.from = from, !.looked = issued]]
  /\ UNCHANGED <<issued, target, children, excused>>

(* Project::open_with_progress or LoadedDump::open has returned. *)
InsertTarget(c) ==
  /\ task[c].pc \in {"open", "open_dump"}
  /\ issued < MaxTargets
  /\ issued' = issued + 1
  /\ target' = [target EXCEPT ![issued + 1] =
       Entry(IF task[c].pc = "open" THEN "pe" ELSE "dump", task[c].from, 0, task[c].looked)]
  /\ task' = [task EXCEPT ![c].pc = "idle", ![c].id = issued + 1]
  /\ UNCHANGED <<children, excused>>

(* Opening or extracting failed. *)
OpenFails(c) ==
  /\ task[c].pc \in {"open", "open_dump", "extract"}
  /\ task' = [task EXCEPT ![c] = NoTask]
  /\ UNCHANGED <<issued, target, children, excused>>

----------------------------------------------------------------------------
(* open_dump_module.                                                       *)

(* The cache is searched by name: any key that contains it will do, if its *)
(* project is still open.                                                  *)
Hits(s, m) == {i \in {children[s][k] : k \in NameIn[m]} \ {0} : IsOpen(i)}

LookUpModule(c, s, m) ==
  /\ task[c].pc = "idle"
  /\ IsSession(s)
  /\ \/ \E i \in Hits(s, m) :
          task' = [task EXCEPT ![c] = [NoTask EXCEPT !.session = s, !.from = m, !.id = i]]
     \/ /\ Hits(s, m) = {}
        /\ task' = [task EXCEPT ![c] =
             [NoTask EXCEPT !.pc = "extract", !.session = s, !.from = m, !.looked = issued]]
  /\ UNCHANGED <<issued, target, children, excused>>

(* The extracted module has been analysed: it joins the project map, ... *)
InsertModule(c) ==
  /\ task[c].pc = "extract"
  /\ issued < MaxTargets
  /\ issued' = issued + 1
  /\ target' = [target EXCEPT ![issued + 1] =
       Entry("module", task[c].from, task[c].session, task[c].looked)]
  /\ task' = [task EXCEPT ![c].pc = "register", ![c].id = issued + 1]
  /\ UNCHANGED <<children, excused>>

(* close has taken session s out of the map but not read its children yet. *)
Unread(s) == \E d \in Clients : task[d].pc = "children" /\ task[d].session = s

(* ... and then the map of its session, which may be closed by now.  The   *)
(* project that is displaced, or all of it if the session is past reading  *)
(* its children, is out of reach of closing the session.                   *)
RegisterModule(c) ==
  LET s == task[c].session
      m == task[c].from
  IN  /\ task[c].pc = "register"
      /\ children' = [children EXCEPT ![s] = [@ EXCEPT ![m] = task[c].id]]
      /\ excused' = excused \cup ({children[s][m]} \ {0})
                            \cup (IF IsSession(s) \/ Unread(s) THEN {} ELSE {task[c].id})
      /\ task' = [task EXCEPT ![c].pc = "idle"]
      /\ UNCHANGED <<issued, target>>

----------------------------------------------------------------------------
(* close.                                                                  *)

(* A project leaves the map and is saved, well or not. *)
CloseProject(c, i) ==
  /\ task[c].pc = "idle"
  /\ IsOpen(i)
  /\ ~IsSession(i)
  /\ target' = [target EXCEPT ![i].open = FALSE]
  /\ task' = [task EXCEPT ![c] = NoTask]
  /\ UNCHANGED <<issued, children, excused>>

CloseSession(c, s) ==
  /\ task[c].pc = "idle"
  /\ IsSession(s)
  /\ target' = [target EXCEPT ![s].open = FALSE]
  /\ task' = [task EXCEPT ![c] = [NoTask EXCEPT !.pc = "children", !.session = s]]
  /\ UNCHANGED <<issued, children, excused>>

ReadChildren(c) ==
  /\ task[c].pc = "children"
  /\ task' = [task EXCEPT ![c].pc = "closing", ![c].todo = ChildIds(task[c].session)]
  /\ UNCHANGED <<issued, target, children, excused>>

(* Mutant of CloseChild: the call ends with the first child. *)
CloseOneChild(c) ==
  /\ task[c].pc = "closing"
  /\ \E i \in task[c].todo :
       /\ target' = [target EXCEPT ![i].open = FALSE]
       /\ task' = [task EXCEPT ![c] = NoTask]
       /\ UNCHANGED excused
  /\ UNCHANGED <<issued, children>>

(* The next child, if it is still open, leaves the map and is saved; the   *)
(* first save that fails ends the call.                                    *)
CloseChild(c) ==
  /\ task[c].pc = "closing"
  /\ \E i \in task[c].todo :
       /\ target' = [target EXCEPT ![i].open = FALSE]
       /\ \/ /\ task' = [task EXCEPT ![c].todo = @ \ {i}]
             /\ UNCHANGED excused
          \/ /\ IsOpen(i)
             /\ task' = [task EXCEPT ![c] = NoTask]
             /\ excused' = excused \cup (task[c].todo \ {i})
  /\ UNCHANGED <<issued, children>>

SessionClosed(c) ==
  /\ task[c].pc = "closing"
  /\ task[c].todo = {}
  /\ task' = [task EXCEPT ![c] = NoTask]
  /\ UNCHANGED <<issued, target, children, excused>>

----------------------------------------------------------------------------
OpenStep(c) ==
  \/ \E f \in PeFiles : LookUpPath(c, "pe", f)
  \/ \E d \in Dumps : LookUpPath(c, "dump", d)
  \/ InsertTarget(c)
  \/ OpenFails(c)

ModuleStep(c) ==
  \/ \E s \in Targets, m \in Modules : LookUpModule(c, s, m)
  \/ InsertModule(c)
  \/ RegisterModule(c)

CloseStep(c) ==
  \/ \E i \in Targets : CloseProject(c, i) \/ CloseSession(c, i)
  \/ ReadChildren(c)
  \/ CloseChild(c)
  \/ SessionClosed(c)

RegistryNext == \E c \in Clients : OpenStep(c) \/ ModuleStep(c) \/ CloseStep(c)

RegistrySpec == RegistryInit /\ [][RegistryNext]_registryVars

----------------------------------------------------------------------------
Ids == 0..MaxTargets
RegistryTypeOK ==
  /\ issued \in Ids
  /\ target \in [Targets -> {Nothing} \cup
       [kind : Kinds, open : BOOLEAN, from : Sources, parent : Ids, looked : Ids]]
  /\ children \in [Targets -> [Modules -> Ids]]
  /\ task \in [Clients -> [pc : Pcs, session : Ids, from : Sources \cup {"none"},
                           looked : Ids, id : Ids, todo : SUBSET Targets]]
  /\ excused \subseteq Targets

(* "Closing a dump also closes module projects extracted from it": an open *)
(* module project is in the map of a session that is open or about to read *)
(* it, on the list of a close under way, or still being registered - or it *)
(* is excused: displaced by a second extraction of its module, registered  *)
(* after its session had read its children, or behind a save that failed.  *)
ModulesTracked ==
  \A i \in Targets : target[i].kind = "module" /\ IsOpen(i) =>
    \/ i \in excused
    \/ i \in ChildIds(target[i].parent) /\ (IsSession(target[i].parent) \/ Unread(target[i].parent))
    \/ \E c \in Clients : task[c].pc = "closing" /\ i \in task[c].todo
    \/ \E c \in Clients : task[c].pc = "register" /\ task[c].id = i

(* One file is open twice only if the calls that opened it overlapped: the *)
(* later one looked for it before the earlier one had inserted it.         *)
TwinsOverlap ==
  \A i, j \in Targets :
    /\ i < j /\ IsOpen(i) /\ IsOpen(j)
    /\ target[i].kind = target[j].kind /\ target[i].kind \in {"pe", "dump"}
    /\ target[i].from = target[j].from
    => target[j].looked < i

=============================================================================
