----------------------------- MODULE Workspaces -----------------------------
(***************************************************************************)
(* Workspaces of ProjectManager: the map in memory, the JSON file of each  *)
(* (project/workspace.rs, replaced atomically), the cross-project index    *)
(* per workspace, and the reopening of members whose files may have been   *)
(* replaced on disk.                                                       *)
(*                                                                         *)
(* A content stands for its SHA-256.  Opening a path is one step here; the *)
(* race of two openings is in module TargetRegistry.                       *)
(***************************************************************************)
EXTENDS Integers, Sequences, FiniteSets, Lists

CONSTANTS WorkspaceIds, Paths, Contents,
          Agents,          \* concurrent calls
          MaxProjects,     \* bound: projects ever opened
          MaxMembers,      \* bound: length of a member list
          MaxReplaced      \* bound: times a file is replaced

ProjectIds == 1..MaxProjects

ASSUME WorkspacesAssumption ==
  /\ WorkspaceIds # {}
  /\ MaxProjects \in Nat
  /\ MaxMembers \in Nat
  /\ MaxReplaced \in Nat

VARIABLES
  file,       \* per path: content, and how often it was replaced
  project,    \* per id: path, content and version it was opened from, open or not
  count,      \* number of projects ever opened
  wsMap,      \* workspaces: "absent", or the list of members
  wsFile,     \* the same on disk
  index,      \* cross_project: "missing", or the projects it was built from
  job,        \* per agent: an open_workspace or add_files_to_workspace under way
  confirmed   \* ghost: members whose addition was saved, and not removed since

workspaceVars == <<file, project, count, wsMap, wsFile, index, job, confirmed>>

----------------------------------------------------------------------------
Members == [path : Paths, sha256 : Contents]
Absent  == [made |-> FALSE, members |-> <<>>]
Lists   == [made : BOOLEAN, members : Seq(Members)]

MemberSet(w) == {w.members[i] : i \in DOMAIN w.members}
MemberOf(i)  == [path |-> project[i].path, sha256 |-> project[i].sha256]
NoProject    == [open |-> FALSE]
OpenOn(p)    == {i \in ProjectIds : project[i].open /\ project[i].path = p}

(* A call under way: the members or paths still to open, and per member    *)
(* opened so far the project and the version of the file that was hashed.  *)
NoJob == [pc |-> "idle", ws |-> CHOOSE w \in WorkspaceIds : TRUE, todo |-> <<>>, done |-> {}]

WorkspaceInit ==
  /\ file \in [Paths -> [sha256 : Contents, version : {0}]]
  /\ project = [i \in ProjectIds |-> NoProject]
  /\ count = 0
  /\ wsMap = [w \in WorkspaceIds |-> Absent]
  /\ wsFile = [w \in WorkspaceIds |-> Absent]
  /\ index = [w \in WorkspaceIds |-> [built |-> FALSE, of |-> {}]]
  /\ job = [a \in Agents |-> NoJob]
  /\ confirmed = [w \in WorkspaceIds |-> {}]

----------------------------------------------------------------------------
(* WorkspaceStore::save writes a temporary file, syncs and renames: the    *)
(* file is the new list or the old one.                                    *)
SaveSucceeds(w, list) == wsFile' = [wsFile EXCEPT ![w] = list]
SaveFails == UNCHANGED wsFile

(* create_workspace: what could not be saved is not created. *)
CreateWorkspace(w) ==
  /\ ~wsMap[w].made /\ ~wsFile[w].made
  /\ SaveSucceeds(w, [made |-> TRUE, members |-> <<>>])
  /\ wsMap' = [wsMap EXCEPT ![w] = [made |-> TRUE, members |-> <<>>]]
  /\ UNCHANGED <<file, project, count, index, job, confirmed>>

(* rebuild_cross_project_index, from the map m: members that are open, by path. *)
Rebuilt(w, m) ==
  IF ~m[w].made THEN index
  ELSE [index EXCEPT ![w] =
         [built |-> TRUE,
          of |-> {i \in ProjectIds : project[i].open /\ \E x \in MemberSet(m[w]) : x.path = project[i].path}]]

Extended(w, new) == [wsMap[w] EXCEPT !.members = @ \o new]

(* Mutant of AddProject: the list is saved before the member joins it. *)
AddProjectSavedFirst(w, i) ==
  /\ project[i].open
  /\ wsMap[w].made
  /\ Len(wsMap[w].members) < MaxMembers
  /\ wsMap' = [wsMap EXCEPT ![w] = Extended(w, <<MemberOf(i)>>)]
  /\ SaveSucceeds(w, wsMap[w])
  /\ confirmed' = [confirmed EXCEPT ![w] = @ \cup {MemberOf(i)}]
  /\ index' = Rebuilt(w, wsMap')
  /\ UNCHANGED <<file, project, count, job>>

(* add_project_to_workspace: a save that fails is reported, but the member *)
(* stays in the map.                                                       *)
AddProject(w, i) ==
  /\ project[i].open
  /\ wsMap[w].made
  /\ Len(wsMap[w].members) < MaxMembers
  /\ wsMap' = [wsMap EXCEPT ![w] = Extended(w, <<MemberOf(i)>>)]
  /\ \/ /\ SaveSucceeds(w, wsMap'[w])
        /\ confirmed' = [confirmed EXCEPT ![w] = @ \cup {MemberOf(i)}]
        /\ index' = Rebuilt(w, wsMap')
     \/ /\ SaveFails
        /\ UNCHANGED <<index, confirmed>>
  /\ UNCHANGED <<file, project, count, job>>

(* remove_from_workspace leaves the index as it is. *)
RemoveMember(w, p) ==
  /\ wsMap[w].made
  /\ wsMap' = [wsMap EXCEPT ![w].members = Retain(@, {x \in Items(@) : x.path # p})]
  /\ SaveSucceeds(w, wsMap'[w]) \/ SaveFails
  /\ confirmed' = [confirmed EXCEPT ![w] = {x \in @ : x.path # p}]
  /\ UNCHANGED <<file, project, count, index, job>>

(* cross_project_index builds an index that is missing. *)
ReadIndex(w) ==
  /\ ~index[w].built
  /\ wsMap[w].made
  /\ index' = Rebuilt(w, wsMap)
  /\ UNCHANGED <<file, project, count, wsMap, wsFile, job, confirmed>>

----------------------------------------------------------------------------
(* open: the project that is open on the path, or a new one. *)
Opened(p, i) ==
  \/ /\ i \in OpenOn(p)
     /\ UNCHANGED <<project, count>>
  \/ /\ OpenOn(p) = {}
     /\ count < MaxProjects
     /\ i = count + 1
     /\ count' = count + 1
     /\ project' = [project EXCEPT ![i] =
          [open |-> TRUE, path |-> p, sha256 |-> file[p].sha256, version |-> file[p].version]]

Skip(a) == job' = [job EXCEPT ![a].todo = Tail(@)]

(* open_workspace works on a copy of the member list. *)
StartOpen(a, w) ==
  /\ job[a].pc = "idle"
  /\ wsMap[w].made
  /\ job' = [job EXCEPT ![a] =
       [pc |-> "hash", ws |-> w, done |-> {},
        todo |-> [k \in DOMAIN wsMap[w].members |->
                    [member |-> wsMap[w].members[k], version |-> 0]]]]
  /\ UNCHANGED <<file, project, count, wsMap, wsFile, index, confirmed>>

(* Mutant of HashMember: a file with another content is opened all the same. *)
HashIgnored(a) ==
  /\ job[a].pc = "hash" /\ job[a].todo # <<>>
  /\ LET p == Head(job[a].todo).member.path IN
     job' = [job EXCEPT ![a].pc = "open",
             ![a].todo = <<[Head(@) EXCEPT !.version = file[p].version]>> \o Tail(@)]
  /\ UNCHANGED <<file, project, count, wsMap, wsFile, index, confirmed>>

(* hash_file: a changed or unreadable file is reported and left alone. *)
HashMember(a) ==
  /\ job[a].pc = "hash" /\ job[a].todo # <<>>
  /\ LET next == Head(job[a].todo)
         p    == next.member.path
     IN  \/ /\ file[p].sha256 = next.member.sha256
            /\ job' = [job EXCEPT ![a].pc = "open",
                 ![a].todo = <<[next EXCEPT !.version = file[p].version]>> \o Tail(@)]
         \/ Skip(a)
  /\ UNCHANGED <<file, project, count, wsMap, wsFile, index, confirmed>>

(* The open that follows, which may fail. *)
OpenMember(a) ==
  /\ job[a].pc = "open"
  /\ LET next == Head(job[a].todo) IN
     \/ \E i \in ProjectIds :
          /\ Opened(next.member.path, i)
          /\ job' = [job EXCEPT ![a].pc = "hash", ![a].todo = Tail(@),
                     ![a].done = @ \cup {[member |-> next.member, id |-> i,
                                          version |-> next.version]}]
     \/ /\ job' = [job EXCEPT ![a].pc = "hash", ![a].todo = Tail(@)]
        /\ UNCHANGED <<project, count>>
  /\ UNCHANGED <<file, wsMap, wsFile, index, confirmed>>

(* The results are returned once the index has been rebuilt. *)
EndOpen(a) ==
  /\ job[a].pc = "hash" /\ job[a].todo = <<>>
  /\ index' = Rebuilt(job[a].ws, wsMap)
  /\ job' = [job EXCEPT ![a] = [NoJob EXCEPT !.done = job[a].done]]
  /\ UNCHANGED <<file, project, count, wsMap, wsFile, confirmed>>

(* add_files_to_workspace opens its files in turn, as far as they open, ... *)
StartAdd(a, w) ==
  /\ job[a].pc = "idle"
  /\ job' = [job EXCEPT ![a] = [pc |-> "add", ws |-> w, done |-> {}, todo |-> <<>>]]
  /\ UNCHANGED <<file, project, count, wsMap, wsFile, index, confirmed>>

OpenFile(a, p) ==
  /\ job[a].pc = "add"
  /\ Len(job[a].todo) < MaxMembers
  /\ \E i \in ProjectIds :
       /\ Opened(p, i)
       /\ job' = [job EXCEPT ![a].todo = Append(@,
            [member |-> [path |-> p, sha256 |-> project'[i].sha256], version |-> 0])]
  /\ UNCHANGED <<file, wsMap, wsFile, index, confirmed>>

(* ... and adds what it opened; an error of the save is dropped. *)
AddFiles(a) ==
  LET w   == job[a].ws
      new == [k \in DOMAIN job[a].todo |-> job[a].todo[k].member]
  IN  /\ job[a].pc = "add"
      /\ Len(wsMap[w].members) + Len(new) <= MaxMembers
      /\ \/ /\ wsMap[w].made /\ new # <<>>
            /\ wsMap' = [wsMap EXCEPT ![w] = Extended(w, new)]
            /\ \/ /\ SaveSucceeds(w, wsMap'[w])
                  /\ confirmed' = [confirmed EXCEPT ![w] = @ \cup {new[k] : k \in DOMAIN new}]
               \/ SaveFails /\ UNCHANGED confirmed
         \/ /\ ~wsMap[w].made \/ new = <<>>
            /\ UNCHANGED <<wsMap, wsFile, confirmed>>
      /\ index' = Rebuilt(w, wsMap')
      /\ job' = [job EXCEPT ![a] = NoJob]
      /\ UNCHANGED <<file, project, count>>

----------------------------------------------------------------------------
CloseMember(i) ==
  /\ project[i].open
  /\ project' = [project EXCEPT ![i].open = FALSE]
  /\ UNCHANGED <<file, count, wsMap, wsFile, index, job, confirmed>>

ReplaceFile(p, x) ==
  /\ file[p].version < MaxReplaced
  /\ x # file[p].sha256
  /\ file' = [file EXCEPT ![p] = [sha256 |-> x, version |-> @.version + 1]]
  /\ UNCHANGED <<project, count, wsMap, wsFile, index, job, confirmed>>

(* The process ends and starts again: list_all reads every workspace. *)
Restart ==
  /\ wsMap' = wsFile
  /\ project' = [i \in ProjectIds |-> IF project[i].open THEN [project[i] EXCEPT !.open = FALSE]
                                                         ELSE project[i]]
  /\ index' = [w \in WorkspaceIds |-> [built |-> FALSE, of |-> {}]]
  /\ job' = [a \in Agents |-> NoJob]
  /\ UNCHANGED <<file, count, wsFile, confirmed>>

WorkspaceStep(w) ==
  \/ CreateWorkspace(w)
  \/ ReadIndex(w)
  \/ \E i \in ProjectIds : AddProject(w, i)
  \/ \E p \in Paths : RemoveMember(w, p)

AgentStep(a) ==
  \/ \E w \in WorkspaceIds : StartOpen(a, w) \/ StartAdd(a, w)
  \/ HashMember(a)
  \/ OpenMember(a)
  \/ EndOpen(a)
  \/ \E p \in Paths : OpenFile(a, p)
  \/ AddFiles(a)

WorkspaceNext ==
  \/ \E w \in WorkspaceIds : WorkspaceStep(w)
  \/ \E a \in Agents : AgentStep(a)
  \/ \E i \in ProjectIds : CloseMember(i)
  \/ \E p \in Paths, x \in Contents : ReplaceFile(p, x)
  \/ Restart

WorkspaceSpec == WorkspaceInit /\ [][WorkspaceNext]_workspaceVars

----------------------------------------------------------------------------
Versions == 0..MaxReplaced
WorkspaceTypeOK ==
  /\ file \in [Paths -> [sha256 : Contents, version : Versions]]
  /\ project \in [ProjectIds -> {NoProject} \cup
       [open : BOOLEAN, path : Paths, sha256 : Contents, version : Versions]]
  /\ count \in 0..MaxProjects
  /\ wsMap \in [WorkspaceIds -> Lists]
  /\ wsFile \in [WorkspaceIds -> Lists]
  /\ index \in [WorkspaceIds -> [built : BOOLEAN, of : SUBSET ProjectIds]]
  /\ job \in [Agents -> [pc : {"idle", "hash", "open", "add"}, ws : WorkspaceIds,
                         todo : Seq([member : Members, version : Versions]),
                         done : SUBSET [member : Members, id : ProjectIds, version : Versions]]]
  /\ confirmed \in [WorkspaceIds -> SUBSET Members]

(* "Members whose SHA256 no longer match their stored path are reported as *)
(* errors": a member that open_workspace reports as opened is open with    *)
(* the content the workspace recorded, unless the file was replaced        *)
(* between the hash and the reading of the project that answers for it.    *)
OpenedAsRecorded ==
  \A a \in Agents : \A r \in job[a].done :
    /\ project[r.id].path = r.member.path
    /\ project[r.id].sha256 = r.member.sha256 \/ project[r.id].version # r.version

(* A member whose addition was reported and saved is in the workspace, in  *)
(* memory and on disk, until it is removed: across failing saves of other  *)
(* changes, restarts and concurrent calls.                                 *)
ConfirmedMembersStay ==
  \A w \in WorkspaceIds : confirmed[w] \subseteq MemberSet(wsFile[w]) \cap MemberSet(wsMap[w])

=============================================================================
