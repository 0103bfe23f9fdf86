----------------------- MODULE TargetRegistry_proofs -----------------------
(***************************************************************************)
(* Files that are open twice, and modules behind a closed dump, for any    *)
(* number of clients, files, dumps, modules and targets.                   *)
(***************************************************************************)
EXTENDS TargetRegistry, TLAPS

Entries == [kind : Kinds, open : BOOLEAN, from : Sources, parent : Ids, looked : Ids]
Calls   == [pc : Pcs, session : Ids, from : Sources \cup {"none"}, looked : Ids, id : Ids,
            todo : SUBSET Targets]

(* Ids that were not issued are nothing yet. *)
Beyond == \A i \in Targets : i > issued => target[i] = Nothing

(* Only module projects are registered with a session, and have one. *)
ChildrenSound ==
  /\ \A s \in Targets, m \in Modules : children[s][m] # 0 => target[children[s][m]].kind = "module"
  /\ \A i \in Targets : target[i].kind = "module" => target[i].parent \in Targets

(* What a call holds on to between two locks. *)
CallSound(t) ==
  /\ t.pc \in {"extract", "register", "children"} => t.session \in Targets
  /\ t.pc \in {"extract", "register"} => t.from \in Modules
  /\ t.pc \in {"open", "open_dump"} => t.from \in Sources /\ t.looked <= issued
  /\ t.pc = "register" => /\ t.id \in Targets
                          /\ target[t.id].kind = "module"
                          /\ target[t.id].parent = t.session
  /\ \A i \in t.todo : target[i].kind = "module"

(* Whatever is open on the file that a call is opening came after its      *)
(* look-up.                                                                *)
KindFor(pc) == IF pc = "open" THEN "pe" ELSE "dump"
LookedFirst(t) ==
  t.pc \in {"open", "open_dump"} =>
    \A i \in Targets : IsOpen(i) /\ target[i].kind = KindFor(t.pc) /\ target[i].from = t.from
                         => t.looked < i

CallsSound == \A c \in Clients : CallSound(task[c]) /\ LookedFirst(task[c])

(* How closing its dump gets at a module project, or why it does not. *)
Tracked(i) ==
  \/ i \in excused
  \/ i \in ChildIds(target[i].parent) /\ (IsSession(target[i].parent) \/ Unread(target[i].parent))
  \/ \E c \in Clients : task[c].pc = "closing" /\ i \in task[c].todo
  \/ \E c \in Clients : task[c].pc = "register" /\ task[c].id = i

RegistryInv ==
  RegistryTypeOK /\ Beyond /\ ChildrenSound /\ CallsSound /\ TwinsOverlap /\ ModulesTracked

----------------------------------------------------------------------------
LEMMA TypesAre ==
  RegistryTypeOK <=>
    /\ issued \in Ids
    /\ target \in [Targets -> {Nothing} \cup Entries]
    /\ children \in [Targets -> [Modules -> Ids]]
    /\ task \in [Clients -> Calls]
    /\ excused \subseteq Targets
BY DEF RegistryTypeOK, Entries, Calls

LEMMA NoTaskIs == NoTask \in Calls /\ NoTask.pc = "idle" /\ NoTask.todo = {}
BY RegistryAssumption DEF NoTask, Calls, Pcs, Ids, Targets

LEMMA TrackedAre ==
  ModulesTracked <=> \A i \in Targets : target[i].kind = "module" /\ IsOpen(i) => Tracked(i)
BY DEF ModulesTracked, Tracked

LEMMA TargetsAreIds == Targets \subseteq Ids
BY RegistryAssumption DEF Targets, Ids

LEMMA RegistryStarts == RegistryInit => RegistryInv
<1> SUFFICES ASSUME RegistryInit PROVE RegistryInv
  OBVIOUS
<1>1. RegistryTypeOK
  <2>1. issued \in Ids /\ children \in [Targets -> [Modules -> Ids]] /\ excused \subseteq Targets
    BY RegistryAssumption DEF RegistryInit, Ids
  <2>2. target \in [Targets -> {Nothing} \cup Entries] /\ task \in [Clients -> Calls]
    BY NoTaskIs DEF RegistryInit
  <2>3. QED
    BY <2>1, <2>2, TypesAre
<1>2. \A i \in Targets : target[i] = Nothing /\ ~IsOpen(i) /\ target[i].kind = "none"
  BY DEF RegistryInit, Nothing, IsOpen
<1>3. \A c \in Clients : task[c].pc = "idle" /\ task[c].todo = {}
  BY NoTaskIs DEF RegistryInit
<1>4. Beyond /\ TwinsOverlap /\ ModulesTracked
  BY <1>2 DEF Beyond, TwinsOverlap, ModulesTracked
<1>5. ChildrenSound
  BY <1>2 DEF RegistryInit, ChildrenSound
<1>6. CallsSound
  BY <1>3 DEF CallsSound, CallSound, LookedFirst
<1>7. QED
  BY <1>1, <1>4, <1>5, <1>6 DEF RegistryInv

----------------------------------------------------------------------------
LEMMA OthersStay ==
  ASSUME RegistryTypeOK, NEW c \in Clients, NEW r \in Calls, task' = [task EXCEPT ![c] = r]
  PROVE  /\ task'[c] = r
         /\ \A d \in Clients \ {c} : task'[d] = task[d]
         /\ task' \in [Clients -> Calls]
BY TypesAre

(* A step of a call that changes no map. *)
LEMMA CallMoves ==
  ASSUME RegistryInv, NEW c \in Clients, NEW r \in Calls,
         task' = [task EXCEPT ![c] = r],
         UNCHANGED <<issued, target, children, excused>>,
         CallSound(r), LookedFirst(r),
         task[c].pc # "register",
         task[c].pc = "closing" => task[c].todo = {},
         task[c].pc = "children" => r.pc = "closing" /\ r.todo = ChildIds(task[c].session)
  PROVE  RegistryInv'
<1>1. RegistryTypeOK
  BY DEF RegistryInv
<1>2. /\ task'[c] = r
      /\ \A d \in Clients \ {c} : task'[d] = task[d]
      /\ task' \in [Clients -> Calls]
  BY <1>1, OthersStay
<1>3. RegistryTypeOK'
  BY <1>1, <1>2 DEF RegistryTypeOK, Calls
<1>4. (Beyond /\ ChildrenSound /\ TwinsOverlap)'
  BY DEF RegistryInv, Beyond, ChildrenSound, TwinsOverlap, IsOpen
<1>5. CallsSound'
  BY <1>2 DEF RegistryInv, CallsSound, CallSound, LookedFirst, IsOpen
<1>6. ModulesTracked'
  <2>1. SUFFICES ASSUME NEW i \in Targets, target[i].kind = "module", IsOpen(i),
                        i \notin excused
                 PROVE  \/ /\ i \in ChildIds(target[i].parent)
                           /\ IsSession(target[i].parent) \/ Unread(target[i].parent)'
                        \/ \E d \in Clients : task'[d].pc = "closing" /\ i \in task'[d].todo
                        \/ \E d \in Clients : task'[d].pc = "register" /\ task'[d].id = i
    BY DEF ModulesTracked, IsOpen, ChildIds, IsSession
  <2>2. \/ /\ i \in ChildIds(target[i].parent)
           /\ IsSession(target[i].parent) \/ Unread(target[i].parent)
        \/ \E d \in Clients : task[d].pc = "closing" /\ i \in task[d].todo
        \/ \E d \in Clients : task[d].pc = "register" /\ task[d].id = i
    BY <2>1 DEF RegistryInv, ModulesTracked
  <2>3. CASE \E d \in Clients : task[d].pc = "closing" /\ i \in task[d].todo
    <3>1. PICK d \in Clients : task[d].pc = "closing" /\ i \in task[d].todo
      BY <2>3
    <3>2. d # c
      BY <3>1
    <3>3. QED
      BY <1>2, <3>1, <3>2
  <2>4. CASE \E d \in Clients : task[d].pc = "register" /\ task[d].id = i
    BY <1>2, <2>4
  <2>5. CASE i \in ChildIds(target[i].parent) /\ IsSession(target[i].parent)
    BY <2>5
  <2>6. CASE i \in ChildIds(target[i].parent) /\ Unread(target[i].parent)
    <3>1. PICK d \in Clients : task[d].pc = "children" /\ task[d].session = target[i].parent
      BY <2>6 DEF Unread
    <3>2. CASE d = c
      BY <1>2, <2>6, <3>1, <3>2
    <3>3. CASE d # c
      BY <1>2, <2>6, <3>1, <3>3 DEF Unread
    <3>4. QED
      BY <3>2, <3>3
  <2>7. QED
    BY <2>2, <2>3, <2>4, <2>5, <2>6
<1>7. QED
  BY <1>3, <1>4, <1>5, <1>6 DEF RegistryInv

LEMMA LookUpPathKeeps ==
  ASSUME RegistryInv, NEW c \in Clients, NEW kind \in {"pe", "dump"}, NEW from \in Sources,
         LookUpPath(c, kind, from)
  PROVE  RegistryInv'
<1>1. RegistryTypeOK /\ issued \in Ids
  BY TypesAre DEF RegistryInv
<1>2. /\ task[c].pc = "idle"
      /\ UNCHANGED <<issued, target, children, excused>>
  BY DEF LookUpPath
<1>3. CASE \E i \in Known(kind, from) :
             task' = [task EXCEPT ![c] = [NoTask EXCEPT !.from = from, !.id = i]]
  <2>1. PICK i \in Targets : task' = [task EXCEPT ![c] = [NoTask EXCEPT !.from = from, !.id = i]]
    BY <1>3 DEF Known
  <2> DEFINE r == [NoTask EXCEPT !.from = from, !.id = i]
  <2>2. r \in Calls /\ r.pc = "idle" /\ r.todo = {}
    BY NoTaskIs, TargetsAreIds DEF Calls
  <2>3. CallSound(r) /\ LookedFirst(r)
    BY <2>2 DEF CallSound, LookedFirst
  <2> HIDE DEF r
  <2>4. task' = [task EXCEPT ![c] = r]
    BY <2>1 DEF r
  <2>5. QED
    BY <1>2, <2>2, <2>3, <2>4, CallMoves
<1>4. CASE /\ Known(kind, from) = {}
           /\ task' = [task EXCEPT ![c] =
                [NoTask EXCEPT !.pc = IF kind = "pe" THEN "open" ELSE "open_dump",
                               !.from = from, !.looked = issued]]
  <2> DEFINE r == [NoTask EXCEPT !.pc = IF kind = "pe" THEN "open" ELSE "open_dump",
                                 !.from = from, !.looked = issued]
  <2>1. /\ r \in Calls
        /\ r.pc = (IF kind = "pe" THEN "open" ELSE "open_dump")
        /\ r.from = from /\ r.looked = issued /\ r.todo = {}
    BY <1>1, NoTaskIs DEF Calls, Pcs
  <2> HIDE DEF r
  <2>2. CallSound(r)
    BY <1>1, <2>1 DEF CallSound, Ids
  <2>3. KindFor(r.pc) = kind
    BY <2>1 DEF KindFor
  <2>4. LookedFirst(r)
    BY <1>4, <2>1, <2>3 DEF LookedFirst, Known
  <2>5. task' = [task EXCEPT ![c] = r]
    BY <1>4 DEF r
  <2>6. QED
    BY <1>2, <2>1, <2>2, <2>4, <2>5, CallMoves
<1>5. QED
  BY <1>3, <1>4 DEF LookUpPath

LEMMA LookUpModuleKeeps ==
  ASSUME RegistryInv, NEW c \in Clients, NEW s \in Targets, NEW m \in Modules,
         LookUpModule(c, s, m)
  PROVE  RegistryInv'
<1>1. RegistryTypeOK /\ issued \in Ids
  BY TypesAre DEF RegistryInv
<1>2. /\ task[c].pc = "idle"
      /\ UNCHANGED <<issued, target, children, excused>>
  BY DEF LookUpModule
<1>3. CASE \E i \in Hits(s, m) :
             task' = [task EXCEPT ![c] = [NoTask EXCEPT !.session = s, !.from = m, !.id = i]]
  <2>1. PICK i \in Hits(s, m) :
          task' = [task EXCEPT ![c] = [NoTask EXCEPT !.session = s, !.from = m, !.id = i]]
    BY <1>3
  <2>2. i \in Ids
    BY <1>1, <2>1, RegistryAssumption, TypesAre DEF Hits
  <2> DEFINE r == [NoTask EXCEPT !.session = s, !.from = m, !.id = i]
  <2>3. r \in Calls /\ r.pc = "idle" /\ r.todo = {}
    BY <2>2, NoTaskIs, TargetsAreIds DEF Calls, Sources
  <2> HIDE DEF r
  <2>4. CallSound(r) /\ LookedFirst(r)
    BY <2>3 DEF CallSound, LookedFirst
  <2>5. task' = [task EXCEPT ![c] = r]
    BY <2>1 DEF r
  <2>6. QED
    BY <1>2, <2>3, <2>4, <2>5, CallMoves
<1>4. CASE task' = [task EXCEPT ![c] =
             [NoTask EXCEPT !.pc = "extract", !.session = s, !.from = m, !.looked = issued]]
  <2> DEFINE r == [NoTask EXCEPT !.pc = "extract", !.session = s, !.from = m, !.looked = issued]
  <2>1. r \in Calls /\ r.pc = "extract" /\ r.session = s /\ r.from = m /\ r.todo = {}
    BY <1>1, NoTaskIs, TargetsAreIds DEF Calls, Pcs, Sources
  <2> HIDE DEF r
  <2>2. CallSound(r) /\ LookedFirst(r)
    BY <2>1 DEF CallSound, LookedFirst
  <2>3. task' = [task EXCEPT ![c] = r]
    BY <1>4 DEF r
  <2>4. QED
    BY <1>2, <2>1, <2>2, <2>3, CallMoves
<1>5. QED
  BY <1>3, <1>4 DEF LookUpModule

LEMMA CallEnds ==
  ASSUME RegistryInv, NEW c \in Clients, OpenFails(c) \/ SessionClosed(c)
  PROVE  RegistryInv'
<1>1. CallSound(NoTask) /\ LookedFirst(NoTask)
  BY NoTaskIs DEF CallSound, LookedFirst
<1>2. /\ task' = [task EXCEPT ![c] = NoTask]
      /\ UNCHANGED <<issued, target, children, excused>>
      /\ task[c].pc \in {"open", "open_dump", "extract", "closing"}
      /\ task[c].pc = "closing" => task[c].todo = {}
  BY DEF OpenFails, SessionClosed
<1>3. QED
  BY <1>1, <1>2, NoTaskIs, CallMoves

LEMMA ReadChildrenKeeps ==
  ASSUME RegistryInv, NEW c \in Clients, ReadChildren(c)
  PROVE  RegistryInv'
<1> DEFINE s == task[c].session
           r == [task[c] EXCEPT !.pc = "closing", !.todo = ChildIds(s)]
<1>1. task[c] \in Calls /\ children \in [Targets -> [Modules -> Ids]]
  BY TypesAre DEF RegistryInv
<1>2. s \in Targets /\ task[c].pc = "children"
  BY DEF RegistryInv, CallsSound, CallSound, ReadChildren
<1>3. ChildIds(s) \subseteq Targets
  BY <1>1, <1>2, RegistryAssumption DEF ChildIds, Ids, Targets
<1>4. \A i \in ChildIds(s) : target[i].kind = "module"
  BY <1>2 DEF RegistryInv, ChildrenSound, ChildIds
<1>5. r \in Calls /\ r.pc = "closing" /\ r.todo = ChildIds(s)
  BY <1>1, <1>3 DEF Calls, Pcs
<1>6. /\ task' = [task EXCEPT ![c] = r]
      /\ UNCHANGED <<issued, target, children, excused>>
  BY DEF ReadChildren
<1> HIDE DEF r
<1>7. CallSound(r) /\ LookedFirst(r)
  BY <1>4, <1>5 DEF CallSound, LookedFirst
<1>8. QED
  BY <1>2, <1>5, <1>6, <1>7, CallMoves

----------------------------------------------------------------------------
(* A target joins its map under the next id. *)
LEMMA TargetJoins ==
  ASSUME RegistryInv, NEW c \in Clients, issued < MaxTargets, issued' = issued + 1,
         NEW e \in Entries, target' = [target EXCEPT ![issued + 1] = e],
         NEW r \in Calls, task' = [task EXCEPT ![c] = r],
         UNCHANGED <<children, excused>>,
         task[c].pc \in {"open", "open_dump", "extract"},
         r.pc \in {"idle", "register"}, r.todo = task[c].todo,
         r.pc = "register" => /\ r.session \in Targets
                              /\ r.from \in Modules
                              /\ e.kind = "module"
                              /\ e.parent = r.session,
         r.id = issued + 1,
         e.kind = "module" => r.pc = "register",
         e.kind # "module" =>
           \A i \in Targets : IsOpen(i) /\ target[i].kind = e.kind /\ target[i].from = e.from
                                 => e.looked < i
  PROVE  RegistryInv'
<1> DEFINE n == issued + 1
<1>1. RegistryTypeOK
  BY DEF RegistryInv
<1>2. n \in Targets /\ n \in Ids /\ issued \in Nat
  BY <1>1, RegistryAssumption DEF RegistryTypeOK, Targets, Ids
<1>3. /\ task'[c] = r
      /\ \A d \in Clients \ {c} : task'[d] = task[d]
      /\ task' \in [Clients -> Calls]
  BY <1>1, OthersStay
<1>4. target'[n] = e /\ \A i \in Targets \ {n} : target'[i] = target[i]
  BY <1>1, <1>2, TypesAre
<1>5. target[n] = Nothing /\ target[n].kind = "none" /\ ~IsOpen(n)
  BY <1>2 DEF RegistryInv, Beyond, Nothing, IsOpen
<1> HIDE DEF n
<1>6. RegistryTypeOK'
  <2>1. target' \in [Targets -> {Nothing} \cup Entries]
    BY <1>1, TypesAre
  <2>2. issued' \in Ids
    BY <1>2 DEF n
  <2>3. QED
    BY <1>1, <1>3, <2>1, <2>2 DEF RegistryTypeOK, Calls, Entries
<1>7. Beyond'
  BY <1>2, <1>4 DEF RegistryInv, Beyond, n, Targets
<1>8. \A i \in Targets : target[i].kind = "module" => i # n
  BY <1>5
<1>9. ChildrenSound'
  <2>a. \A i \in Targets : target'[i].kind = "module" => target'[i].parent \in Targets
    BY <1>2, <1>4 DEF RegistryInv, ChildrenSound
  <2>1. SUFFICES ASSUME NEW s \in Targets, NEW m \in Modules, children[s][m] # 0
                 PROVE  target'[children[s][m]].kind = "module"
    BY <2>a DEF ChildrenSound
  <2>2. target[children[s][m]].kind = "module"
    BY <2>1 DEF RegistryInv, ChildrenSound
  <2>3. children[s][m] \in Targets
    BY <1>1, <2>1, RegistryAssumption, TypesAre DEF Ids, Targets
  <2>4. QED
    BY <1>4, <1>8, <2>2, <2>3
<1>10. CallsSound'
  <2>1. SUFFICES ASSUME NEW d \in Clients PROVE CallSound(task[d])' /\ LookedFirst(task[d])'
    BY DEF CallsSound
  <2>2. CallSound(task[d]) /\ LookedFirst(task[d]) /\ task[d] \in Calls /\ task[c] \in Calls /\ CallSound(task[c])
    BY <1>1, TypesAre DEF RegistryInv, CallsSound
  <2>3. CASE d = c
    <3>1. \A i \in r.todo : target'[i].kind = "module"
      BY <1>4, <1>8, <2>2 DEF CallSound, Calls
    <3>2. CallSound(task[d])'
      BY <1>2, <1>3, <1>4, <2>3, <3>1 DEF CallSound, n
    <3>3. QED
      BY <1>3, <2>3, <3>2 DEF LookedFirst
  <2>4. CASE d # c
    <3>1. task'[d] = task[d]
      BY <1>3, <2>4
    <3>2. \A i \in task[d].todo : target'[i].kind = "module"
      BY <1>4, <1>8, <2>2 DEF CallSound, Calls
    <3>3. task[d].looked \in Nat
      BY <2>2, RegistryAssumption DEF Calls, Ids
    <3>4. CallSound(task[d])'
      BY <1>2, <1>4, <1>8, <2>2, <3>1, <3>2, <3>3 DEF CallSound
    <3>5. LookedFirst(task[d])'
      BY <1>2, <1>4, <2>2, <3>1, <3>3 DEF LookedFirst, CallSound, IsOpen, n
    <3>6. QED
      BY <3>4, <3>5
  <2>5. QED
    BY <2>3, <2>4
<1>11. TwinsOverlap'
  <2>1. SUFFICES ASSUME NEW i \in Targets, NEW j \in Targets,
                        i < j, IsOpen(i)', IsOpen(j)', target'[i].kind = target'[j].kind,
                        target'[i].kind \in {"pe", "dump"}, target'[i].from = target'[j].from
                 PROVE  target'[j].looked < i
    BY DEF TwinsOverlap
  <2>2. i # n
    <3>1. SUFFICES ASSUME i = n PROVE FALSE
      OBVIOUS
    <3>2. j > issued' /\ j \in Targets
      BY <1>2, <2>1, <3>1 DEF n, Targets
    <3>3. QED
      BY <1>7, <2>1, <3>2 DEF Beyond, Nothing, IsOpen
  <2>3. IsOpen(i) /\ target'[i] = target[i]
    BY <1>4, <2>1, <2>2 DEF IsOpen
  <2>4. CASE j = n
    BY <1>4, <2>1, <2>3, <2>4
  <2>5. CASE j # n
    BY <1>4, <2>1, <2>3, <2>5 DEF RegistryInv, TwinsOverlap, IsOpen
  <2>6. QED
    BY <2>4, <2>5
<1>12. ModulesTracked'
  <2>1. SUFFICES ASSUME NEW i \in Targets, target'[i].kind = "module", IsOpen(i)'
                 PROVE  Tracked(i)'
    BY DEF ModulesTracked, Tracked
  <2>2. CASE i = n
    BY <1>3, <1>4, <2>1, <2>2 DEF n, Tracked
  <2>3. CASE i # n
    <3>1. target'[i] = target[i] /\ IsOpen(i)
      BY <1>4, <2>1, <2>3 DEF IsOpen
    <3>2. Tracked(i) /\ target[i].parent \in Targets
      BY <2>1, <3>1, TrackedAre DEF RegistryInv, ChildrenSound
    <3>3. IsSession(target[i].parent) => IsSession(target[i].parent)'
      BY <1>4, <1>5, <3>1, <3>2 DEF IsSession
    <3>4. Unread(target[i].parent) => Unread(target[i].parent)'
      BY <1>3, <3>1 DEF Unread
    <3>5. \A d \in Clients : task[d].pc \in {"closing", "register"} => task'[d] = task[d]
      BY <1>3
    <3>6. QED
      BY <3>1, <3>2, <3>3, <3>4, <3>5 DEF Tracked, ChildIds
  <2>4. QED
    BY <2>2, <2>3
<1>13. QED
  BY <1>6, <1>7, <1>9, <1>10, <1>11, <1>12 DEF RegistryInv

LEMMA InsertTargetKeeps ==
  ASSUME RegistryInv, NEW c \in Clients, InsertTarget(c)
  PROVE  RegistryInv'
<1> DEFINE e == Entry(KindFor(task[c].pc), task[c].from, 0, task[c].looked)
           r == [task[c] EXCEPT !.pc = "idle", !.id = issued + 1]
<1>1. task[c] \in Calls /\ CallSound(task[c]) /\ LookedFirst(task[c]) /\ issued \in Ids
  BY TypesAre DEF RegistryInv, CallsSound
<1>2. task[c].pc \in {"open", "open_dump"} /\ issued < MaxTargets /\ issued + 1 \in Ids
  BY <1>1, RegistryAssumption DEF InsertTarget, Ids
<1>3. /\ e \in Entries
      /\ e.kind = KindFor(task[c].pc) /\ e.from = task[c].from /\ e.looked = task[c].looked
  <2>1. KindFor(task[c].pc) \in Kinds /\ 0 \in Ids /\ task[c].from \in Sources /\ task[c].looked \in Ids
    BY <1>1, <1>2, RegistryAssumption DEF KindFor, Kinds, Ids, CallSound, Calls
  <2>2. QED
    BY <2>1 DEF Entry, Entries
<1>4. r \in Calls /\ r.pc = "idle" /\ r.id = issued + 1 /\ r.todo = task[c].todo
  BY <1>1, <1>2 DEF Calls, Pcs
<1>5. target' = [target EXCEPT ![issued + 1] = e]
  BY <1>2 DEF InsertTarget, KindFor
<1>6. /\ task' = [task EXCEPT ![c] = r]
      /\ issued' = issued + 1
      /\ UNCHANGED <<children, excused>>
  BY DEF InsertTarget
<1>7. e.kind # "module"
  BY <1>3 DEF KindFor
<1>8. \A i \in Targets : IsOpen(i) /\ target[i].kind = e.kind /\ target[i].from = e.from
                            => e.looked < i
  BY <1>1, <1>2, <1>3 DEF LookedFirst
<1> HIDE DEF e, r
<1>9. QED
  BY <1>2, <1>3, <1>4, <1>5, <1>6, <1>7, <1>8, TargetJoins

LEMMA InsertModuleKeeps ==
  ASSUME RegistryInv, NEW c \in Clients, InsertModule(c)
  PROVE  RegistryInv'
<1> DEFINE e == Entry("module", task[c].from, task[c].session, task[c].looked)
           r == [task[c] EXCEPT !.pc = "register", !.id = issued + 1]
<1>1. task[c] \in Calls /\ CallSound(task[c]) /\ issued \in Ids
  BY TypesAre DEF RegistryInv, CallsSound
<1>2. task[c].pc = "extract" /\ issued < MaxTargets /\ issued + 1 \in Ids
  BY <1>1, RegistryAssumption DEF InsertModule, Ids
<1>3. task[c].session \in Targets /\ task[c].from \in Modules /\ task[c].looked \in Ids
  BY <1>1, <1>2 DEF CallSound, Calls
<1>4. e \in Entries /\ e.kind = "module" /\ e.parent = task[c].session
  BY <1>3, TargetsAreIds DEF Entry, Entries, Kinds, Sources
<1>5. /\ r \in Calls /\ r.pc = "register" /\ r.id = issued + 1 /\ r.todo = task[c].todo
      /\ r.session = task[c].session /\ r.from = task[c].from
  BY <1>1, <1>2 DEF Calls, Pcs
<1>6. /\ target' = [target EXCEPT ![issued + 1] = e]
      /\ task' = [task EXCEPT ![c] = r]
      /\ issued' = issued + 1
      /\ UNCHANGED <<children, excused>>
  BY DEF InsertModule
<1> HIDE DEF e, r
<1>7. QED
  BY <1>2, <1>3, <1>4, <1>5, <1>6, TargetJoins

----------------------------------------------------------------------------
(* A target leaves its map. *)
LEMMA TargetLeaves ==
  ASSUME RegistryInv, NEW c \in Clients, NEW i \in Targets, target[i] \in Entries,
         target' = [target EXCEPT ![i].open = FALSE],
         NEW r \in Calls, task' = [task EXCEPT ![c] = r],
         UNCHANGED <<issued, children>>,
         excused \subseteq excused', excused' \subseteq Targets,
         CallSound(r), r.pc \notin {"open", "open_dump"},
         task[c].pc \notin {"register", "children"},
         target[i].kind = "dump" => r.pc = "children" /\ r.session = i,
         \A k \in Targets : task[c].pc = "closing" /\ k \in task[c].todo =>
           \/ k = i
           \/ r.pc = "closing" /\ k \in r.todo
           \/ k \in excused'
  PROVE  RegistryInv'
<1>1. RegistryTypeOK /\ target \in [Targets -> {Nothing} \cup Entries]
  BY TypesAre DEF RegistryInv
<1>2. /\ task'[c] = r
      /\ \A d \in Clients \ {c} : task'[d] = task[d]
      /\ task' \in [Clients -> Calls]
  BY <1>1, OthersStay
<1>3. /\ target'[i] = [target[i] EXCEPT !.open = FALSE]
      /\ \A k \in Targets \ {i} : target'[k] = target[k]
  BY <1>1
<1>4. /\ target'[i] \in Entries
      /\ ~target'[i].open
      /\ target'[i].kind = target[i].kind
      /\ target'[i].parent = target[i].parent
      /\ target'[i].from = target[i].from
      /\ target'[i].looked = target[i].looked
  <2> DEFINE b == target[i]
  <2>1. target'[i] = [b EXCEPT !.open = FALSE] /\ b \in Entries
    BY <1>3
  <2> HIDE DEF b
  <2>2. target'[i] \in Entries
    <3>1. \A x \in Entries : [x EXCEPT !.open = FALSE] \in Entries
      BY DEF Entries
    <3>2. QED
      BY <2>1, <3>1
  <2>3. /\ target'[i].open = FALSE /\ target'[i].kind = b.kind
        /\ target'[i].parent = b.parent /\ target'[i].from = b.from
        /\ target'[i].looked = b.looked
    BY <2>1 DEF Entries
  <2>4. QED
    BY <2>2, <2>3 DEF b
<1>5. \A k \in Targets :
        /\ target'[k].kind = target[k].kind
        /\ target'[k].open => k # i /\ target'[k] = target[k]
        /\ target[k].kind = "module" => target'[k].parent = target[k].parent
  BY <1>3, <1>4
<1>6. RegistryTypeOK'
  <2>1. target' \in [Targets -> {Nothing} \cup Entries]
    BY <1>1, <1>3, <1>4
  <2>2. QED
    BY <1>1, <1>2, <2>1 DEF RegistryTypeOK, Calls, Entries
<1>7. Beyond'
  <2>1. target[i] # Nothing
    BY DEF Entries, Nothing, Kinds
  <2>2. QED
    BY <1>3, <2>1 DEF RegistryInv, Beyond
<1>8. ChildrenSound'
  <2>1. ASSUME NEW s \in Targets, NEW m \in Modules, children[s][m] # 0
        PROVE  target'[children[s][m]].kind = "module"
    <3>1. children[s][m] \in Targets
      BY <1>1, <2>1, RegistryAssumption, TypesAre DEF Ids, Targets
    <3>2. QED
      BY <1>5, <2>1, <3>1 DEF RegistryInv, ChildrenSound
  <2>2. QED
    BY <1>5, <2>1 DEF RegistryInv, ChildrenSound
<1>9. CallsSound'
  <2>1. \A d \in Clients : task'[d] \in Calls /\ CallSound(task'[d])
    BY <1>1, <1>2, TypesAre DEF RegistryInv, CallsSound
  <2>2. SUFFICES ASSUME NEW d \in Clients PROVE CallSound(task[d])' /\ LookedFirst(task[d])'
    BY DEF CallsSound
  <2>3. CallSound(task[d])'
    BY <1>5, <2>1 DEF CallSound, Calls
  <2>4. LookedFirst(task[d])'
    BY <1>2, <1>5 DEF RegistryInv, CallsSound, LookedFirst, IsOpen
  <2>5. QED
    BY <2>3, <2>4
<1>10. TwinsOverlap'
  BY <1>5 DEF RegistryInv, TwinsOverlap, IsOpen
<1>11. ModulesTracked'
  <2>1. SUFFICES ASSUME NEW k \in Targets, target'[k].kind = "module", IsOpen(k)'
                 PROVE  Tracked(k)'
    BY DEF ModulesTracked, Tracked
  <2>2. k # i /\ target'[k] = target[k] /\ IsOpen(k)
    BY <1>5, <2>1 DEF IsOpen
  <2>3. Tracked(k) /\ target[k].parent \in Targets
    BY <2>1, <2>2, TrackedAre DEF RegistryInv, ChildrenSound
  <2>4. IsSession(target[k].parent) => (IsSession(target[k].parent) \/ Unread(target[k].parent))'
    <3>1. CASE target[k].parent = i
      BY <1>2, <2>2, <3>1 DEF IsSession, Unread
    <3>2. CASE target[k].parent # i
      BY <1>3, <2>2, <2>3, <3>2 DEF IsSession
    <3>3. QED
      BY <3>1, <3>2
  <2>5. Unread(target[k].parent) => Unread(target[k].parent)'
    BY <1>2, <2>2 DEF Unread
  <2>6. (\E d \in Clients : task[d].pc = "closing" /\ k \in task[d].todo)
          => k \in excused' \/ \E d \in Clients : task'[d].pc = "closing" /\ k \in task'[d].todo
    BY <1>2, <2>2
  <2>7. (\E d \in Clients : task[d].pc = "register" /\ task[d].id = k)
          => \E d \in Clients : task'[d].pc = "register" /\ task'[d].id = k
    BY <1>2
  <2>8. QED
    BY <2>2, <2>3, <2>4, <2>5, <2>6, <2>7 DEF Tracked, ChildIds
<1>12. QED
  BY <1>6, <1>7, <1>8, <1>9, <1>10, <1>11 DEF RegistryInv

LEMMA OpenIsEntry ==
  ASSUME RegistryInv, NEW i \in Targets, IsOpen(i) \/ target[i].kind = "module"
  PROVE  target[i] \in Entries
BY TypesAre DEF RegistryInv, IsOpen, Nothing

LEMMA CloseProjectKeeps ==
  ASSUME RegistryInv, NEW c \in Clients, NEW i \in Targets, CloseProject(c, i)
  PROVE  RegistryInv'
<1>1. /\ task[c].pc = "idle"
      /\ target' = [target EXCEPT ![i].open = FALSE]
      /\ task' = [task EXCEPT ![c] = NoTask]
      /\ UNCHANGED <<issued, children, excused>>
      /\ IsOpen(i) /\ target[i].kind # "dump"
  BY DEF CloseProject, IsSession, IsOpen
<1>2. CallSound(NoTask)
  BY NoTaskIs DEF CallSound
<1>3. excused \subseteq Targets
  BY TypesAre DEF RegistryInv
<1>4. QED
  BY <1>1, <1>2, <1>3, NoTaskIs, OpenIsEntry, TargetLeaves

LEMMA CloseSessionKeeps ==
  ASSUME RegistryInv, NEW c \in Clients, NEW s \in Targets, CloseSession(c, s)
  PROVE  RegistryInv'
<1> DEFINE r == [NoTask EXCEPT !.pc = "children", !.session = s]
<1>1. /\ task[c].pc = "idle"
      /\ target' = [target EXCEPT ![s].open = FALSE]
      /\ task' = [task EXCEPT ![c] = r]
      /\ UNCHANGED <<issued, children, excused>>
      /\ IsOpen(s)
  BY DEF CloseSession, IsSession, IsOpen
<1>2. r \in Calls /\ r.pc = "children" /\ r.session = s /\ r.todo = {}
  BY NoTaskIs, TargetsAreIds DEF Calls, Pcs
<1> HIDE DEF r
<1>3. CallSound(r)
  BY <1>2 DEF CallSound
<1>4. excused \subseteq Targets
  BY TypesAre DEF RegistryInv
<1>5. QED
  BY <1>1, <1>2, <1>3, <1>4, OpenIsEntry, TargetLeaves

LEMMA CloseChildKeeps ==
  ASSUME RegistryInv, NEW c \in Clients, CloseChild(c)
  PROVE  RegistryInv'
<1>1. task[c] \in Calls /\ CallSound(task[c]) /\ excused \subseteq Targets
  BY TypesAre DEF RegistryInv, CallsSound
<1>2. task[c].pc = "closing" /\ UNCHANGED <<issued, children>>
  BY DEF CloseChild
<1>3. PICK i \in task[c].todo :
        /\ target' = [target EXCEPT ![i].open = FALSE]
        /\ \/ /\ task' = [task EXCEPT ![c].todo = @ \ {i}]
              /\ UNCHANGED excused
           \/ /\ task' = [task EXCEPT ![c] = NoTask]
              /\ excused' = excused \cup (task[c].todo \ {i})
  BY DEF CloseChild
<1>4. i \in Targets /\ target[i].kind = "module"
  BY <1>1, <1>3 DEF CallSound, Calls
<1>5. CASE task' = [task EXCEPT ![c].todo = @ \ {i}] /\ UNCHANGED excused
  <2> DEFINE r == [task[c] EXCEPT !.todo = task[c].todo \ {i}]
  <2>1. task' = [task EXCEPT ![c] = r]
    BY <1>5
  <2>2. /\ r \in Calls /\ r.pc = "closing" /\ r.todo = task[c].todo \ {i}
    BY <1>1, <1>2 DEF Calls
  <2> HIDE DEF r
  <2>3. CallSound(r)
    BY <1>1, <2>2 DEF CallSound
  <2>4. QED
    BY <1>1, <1>2, <1>3, <1>4, <1>5, <2>1, <2>2, <2>3, OpenIsEntry, TargetLeaves
<1>6. CASE /\ task' = [task EXCEPT ![c] = NoTask]
           /\ excused' = excused \cup (task[c].todo \ {i})
  <2>1. CallSound(NoTask)
    BY NoTaskIs DEF CallSound
  <2>2. task[c].todo \subseteq Targets
    BY <1>1 DEF Calls
  <2>3. QED
    BY <1>1, <1>2, <1>3, <1>4, <1>6, <2>1, <2>2, NoTaskIs, OpenIsEntry, TargetLeaves
<1>7. QED
  BY <1>3, <1>5, <1>6

----------------------------------------------------------------------------
LEMMA RegisterModuleKeeps ==
  ASSUME RegistryInv, NEW c \in Clients, RegisterModule(c)
  PROVE  RegistryInv'
<1> DEFINE s == task[c].session
           m == task[c].from
           n == task[c].id
           r == [task[c] EXCEPT !.pc = "idle"]
<1>1. RegistryTypeOK /\ task[c] \in Calls /\ CallSound(task[c])
  BY TypesAre DEF RegistryInv, CallsSound
<1>2. /\ task[c].pc = "register"
      /\ children' = [children EXCEPT ![s] = [@ EXCEPT ![m] = n]]
      /\ excused' = excused \cup ({children[s][m]} \ {0})
                            \cup (IF IsSession(s) \/ Unread(s) THEN {} ELSE {n})
      /\ UNCHANGED <<issued, target>>
      /\ task' = [task EXCEPT ![c] = r]
  BY DEF RegisterModule
<1>3. /\ s \in Targets /\ m \in Modules /\ n \in Targets
      /\ target[n].kind = "module" /\ target[n].parent = s
  BY <1>1, <1>2 DEF CallSound
<1>4. r \in Calls /\ r.pc = "idle" /\ r.todo = task[c].todo
  BY <1>1 DEF Calls, Pcs
<1> HIDE DEF r, s, m, n
<1>5. /\ task'[c] = r
      /\ \A d \in Clients \ {c} : task'[d] = task[d]
      /\ task' \in [Clients -> Calls]
  BY <1>1, <1>2, <1>4, OthersStay
<1>6. /\ children'[s] = [children[s] EXCEPT ![m] = n]
      /\ \A k \in Targets \ {s} : children'[k] = children[k]
      /\ children'[s][m] = n
      /\ \A k \in Modules \ {m} : children'[s][k] = children[s][k]
      /\ children[s] \in [Modules -> Ids]
  BY <1>1, <1>2, <1>3, TypesAre
<1>7. RegistryTypeOK'
  <2>1. children' \in [Targets -> [Modules -> Ids]]
    BY <1>1, <1>2, <1>3, <1>6, TypesAre, TargetsAreIds
  <2>2. children[s][m] \in Ids
    BY <1>3, <1>6
  <2>3. excused' \subseteq Targets
    BY <1>1, <1>2, <1>3, <2>2, RegistryAssumption, TypesAre DEF Ids, Targets
  <2>4. QED
    BY <1>1, <1>2, <1>5, <2>1, <2>3 DEF RegistryTypeOK, Calls
<1>8. (Beyond /\ TwinsOverlap)'
  BY <1>2 DEF RegistryInv, Beyond, TwinsOverlap, IsOpen
<1>9. ChildrenSound'
  <2>1. ASSUME NEW k \in Targets, NEW l \in Modules, children'[k][l] # 0
        PROVE  target[children'[k][l]].kind = "module"
    <3>1. CASE k = s /\ l = m
      BY <1>3, <1>6, <3>1
    <3>2. CASE ~(k = s /\ l = m)
      <4>1. children'[k][l] = children[k][l]
        BY <1>6, <3>2
      <4>2. QED
        BY <2>1, <4>1 DEF RegistryInv, ChildrenSound
    <3>3. QED
      BY <3>1, <3>2
  <2>2. QED
    BY <1>2, <2>1 DEF RegistryInv, ChildrenSound
<1>10. CallsSound'
  <2>1. \A d \in Clients : CallSound(task'[d])
    BY <1>1, <1>4, <1>5 DEF RegistryInv, CallsSound, CallSound
  <2>2. \A d \in Clients : LookedFirst(task'[d])
    BY <1>4, <1>5 DEF RegistryInv, CallsSound, LookedFirst
  <2>3. QED
    BY <1>2, <2>1, <2>2 DEF CallsSound, CallSound, LookedFirst, IsOpen
<1>11. ModulesTracked'
  <2>1. SUFFICES ASSUME NEW i \in Targets, target[i].kind = "module", IsOpen(i)
                 PROVE  Tracked(i)'
    BY <1>2 DEF ModulesTracked, Tracked, IsOpen
  <2>2. Tracked(i) /\ target[i].parent \in Targets
    BY <2>1, TrackedAre DEF RegistryInv, ChildrenSound
  <2>5. n \in excused' \/ IsSession(s) \/ Unread(s)
    BY <1>2
  <2>6. CASE i = n
    <3>1. target[i].parent = s /\ i # 0 /\ children'[s][m] = i
      BY <1>3, <1>6, <2>6 DEF Targets
    <3>2. i \in ChildIds(target[i].parent)'
      BY <1>2, <1>3, <3>1 DEF ChildIds
    <3>3. (IsSession(target[i].parent) \/ Unread(target[i].parent))
            => (IsSession(target[i].parent) \/ Unread(target[i].parent))'
      BY <1>2, <1>5 DEF IsSession, Unread
    <3>4. QED
      BY <2>5, <2>6, <3>1, <3>2, <3>3 DEF Tracked
  <2>7. CASE i # n
    <3>1. i \in ChildIds(target[i].parent) => i \in excused' \/ i \in ChildIds(target[i].parent)'
      <4>1. SUFFICES ASSUME i \in ChildIds(target[i].parent), i \notin excused'
                     PROVE  i \in ChildIds(target[i].parent)'
        OBVIOUS
      <4>2. PICK k \in Modules : i = children[target[i].parent][k] /\ i # 0
        BY <4>1 DEF ChildIds
      <4>3. ~(target[i].parent = s /\ k = m)
        BY <1>2, <4>1, <4>2
      <4>4. children'[target[i].parent][k] = i
        BY <1>6, <2>2, <4>2, <4>3
      <4>5. QED
        BY <1>2, <4>2, <4>4 DEF ChildIds
    <3>2. \A d \in Clients : task[d].pc = "closing" => task'[d] = task[d]
      BY <1>2, <1>5
    <3>3. \A d \in Clients : task[d].pc = "register" /\ task[d].id = i => task'[d] = task[d]
      BY <1>5, <2>7 DEF n
    <3>4. excused \subseteq excused'
      BY <1>2
    <3>5. (IsSession(target[i].parent) \/ Unread(target[i].parent))
            => (IsSession(target[i].parent) \/ Unread(target[i].parent))'
      BY <1>2, <1>5 DEF IsSession, Unread
    <3>6. QED
      BY <2>2, <3>1, <3>2, <3>3, <3>4, <3>5 DEF Tracked
  <2>8. QED
    BY <2>6, <2>7
<1>12. QED
  BY <1>7, <1>8, <1>9, <1>10, <1>11 DEF RegistryInv

LEMMA RegistryNextKeeps == RegistryInv /\ [RegistryNext]_registryVars => RegistryInv'
<1> SUFFICES ASSUME RegistryInv, [RegistryNext]_registryVars PROVE RegistryInv'
  OBVIOUS
<1>1. CASE UNCHANGED registryVars
  BY <1>1 DEF registryVars, RegistryInv, RegistryTypeOK, Beyond, ChildrenSound, CallsSound,
              CallSound, LookedFirst, TwinsOverlap, ModulesTracked, IsOpen, ChildIds, IsSession, Unread
<1>2. ASSUME NEW c \in Clients, OpenStep(c) PROVE RegistryInv'
  <2>1. ASSUME NEW f \in PeFiles, LookUpPath(c, "pe", f) PROVE RegistryInv'
    BY <2>1, LookUpPathKeeps DEF Sources
  <2>2. ASSUME NEW d \in Dumps, LookUpPath(c, "dump", d) PROVE RegistryInv'
    BY <2>2, LookUpPathKeeps DEF Sources
  <2>3. CASE InsertTarget(c)
    BY <2>3, InsertTargetKeeps
  <2>4. CASE OpenFails(c)
    BY <2>4, CallEnds
  <2>5. QED
    BY <1>2, <2>1, <2>2, <2>3, <2>4 DEF OpenStep
<1>3. ASSUME NEW c \in Clients, ModuleStep(c) PROVE RegistryInv'
  BY <1>3, LookUpModuleKeeps, InsertModuleKeeps, RegisterModuleKeeps DEF ModuleStep
<1>4. ASSUME NEW c \in Clients, CloseStep(c) PROVE RegistryInv'
  BY <1>4, CloseProjectKeeps, CloseSessionKeeps, ReadChildrenKeeps, CloseChildKeeps, CallEnds
     DEF CloseStep
<1>5. QED
  BY <1>1, <1>2, <1>3, <1>4 DEF RegistryNext

LEMMA RegistryInvariant == RegistrySpec => []RegistryInv
BY RegistryStarts, RegistryNextKeeps, PTL DEF RegistrySpec

----------------------------------------------------------------------------
(* open_with_progress and open_dump make a second project of an open file  *)
(* only if the calls overlapped, for any number of clients, files, dumps,  *)
(* modules and targets.                                                    *)
THEOREM Twins == RegistrySpec => []TwinsOverlap
<1>1. RegistryInv => TwinsOverlap
  BY DEF RegistryInv
<1>2. QED
  BY <1>1, RegistryInvariant, PTL

(* close reaches every module project of the dump, or the code shows why   *)
(* not: displaced by a second extraction, registered too late, or behind a *)
(* save that failed.                                                       *)
THEOREM ModulesReached == RegistrySpec => []ModulesTracked
<1>1. RegistryInv => ModulesTracked
  BY DEF RegistryInv
<1>2. QED
  BY <1>1, RegistryInvariant, PTL
=============================================================================
