----------------------- MODULE AnnotationStore_proofs -----------------------
(***************************************************************************)
(* Proofs about AnnotationStore, for every value of its constants: the     *)
(* type invariant; what the files and the projects in memory have to do    *)
(* with each other while one session uses them (FilesInv); under Serial    *)
(* the durability of acknowledged edits and the refinement of              *)
(* DurableEdits; without failed appends, that only visible damage loses a  *)
(* published edit; and under Gapless, that every copy of the project is a  *)
(* state of one history, whatever was replayed, that undo restores what    *)
(* the op it takes back was applied to, and that redo gives back what the  *)
(* op made.                                                                *)
(***************************************************************************)
EXTENDS AnnotationStore, Lists_proofs, SequenceTheorems

(* The request at the head of a queue, and what taking it leaves. *)
LEMMA HeadRequest ==
  ASSUME TypeOK, NEW s \in Sessions, queue[s] # <<>>
  PROVE  /\ Head(queue[s]) \in Requests
         /\ Head(queue[s]).id \in Ids
         /\ Tail(queue[s]) \in Seq(Requests)
<1>1. queue[s] \in Seq(Requests)
  BY DEF TypeOK
<1>2. Head(queue[s]) \in Requests /\ Tail(queue[s]) \in Seq(Requests)
  BY <1>1
<1> QED
  BY <1>2 DEF Requests

(* A request that was performed leaves a typed project and a typed line. *)
LEMMA DoneType ==
  ASSUME TypeOK, NEW s \in Sessions, queue[s] # <<>>
  PROVE  /\ Done(s).proj.seq = writer[s].seq + 1
         /\ Done(s).proj.ids = writer[s].ids \cup {Head(queue[s]).id}
         /\ ProjectOK(Done(s).proj)
         /\ Line(s).pos = appends /\ Line(s).seq = writer[s].seq + 1
         /\ Line(s).id = Head(queue[s]).id
         /\ Line(s).seq \in Nat \ {0} /\ Line(s).id \in Ids
  BY HeadRequest DEF TypeOK, ProjectsOK, Done, Line, Performed, Advanced, NextSeq, ProjectOK

(* Whatever becomes of an append, the file holds only old lines and the    *)
(* new one.                                                                *)
LEMMA AppendedLines ==
  ASSUME NEW j, NEW line, j.tail \in {"clean", "no_newline", "torn"},
         NEW k \in {Appended(j, line)} \cup TornAppends(j, line)
  PROVE  /\ k.tail \in {"clean", "no_newline", "torn"}
         /\ k.recs \subseteq j.recs \cup {line}
  BY DEF Appended, TornAppends

(* The files keep their shape when some lines of the journal stay, a line  *)
(* of the request at the head is added, or the temporary file is renamed.  *)
LEMMA FilesStep ==
  ASSUME TypeOK, idb' = idb, tmp' = tmp, todo' = todo,
         appends' \in {appends, appends + 1},
         journal'.tail \in {"clean", "no_newline", "torn"},
         \A l \in journal'.recs : \/ l \in journal.recs
                                  \/ /\ appends' = appends + 1 /\ l.pos = appends
                                     /\ l.seq \in Nat \ {0} /\ l.id \in Ids
  PROVE  FilesOK'
<1>1. appends' \in Nat /\ appends' >= appends /\ LinesOK(journal.recs)'
  BY DEF TypeOK, FilesOK, LinesOK
<1>2. ASSUME NEW lines, LinesOK(lines)
      PROVE  \A l \in lines : l.pos \in 0..(appends' - 1) /\ l.seq \in Nat \ {0} /\ l.id \in Ids
  BY <1>1, <1>2 DEF TypeOK, FilesOK, LinesOK
<1> QED
  BY <1>1, <1>2 DEF TypeOK, FilesOK, LinesOK, ProjectOK

(* A step of a save changes the program counter of that save only. *)
LEMMA SaveStepShape ==
  ASSUME TypeOK, NEW s \in Sessions, NEW r \in Roles, NEW from, NEW to,
         SaveStep(s, r, from, to)
  PROVE  /\ SaversOK'
         /\ \A t \in Sessions, q \in Roles :
              /\ saver'[t][q].snap = saver[t][q].snap
              /\ saver'[t][q].pc = IF t = s /\ q = r THEN to ELSE saver[t][q].pc
  BY DEF SaveStep, TypeOK, SaversOK, ProjectOK

(* A save that begins. *)
LEMMA SaveBeginShape ==
  ASSUME TypeOK, NEW s \in Sessions, NEW r \in Roles, NEW p, ProjectOK(p),
         saver' = [saver EXCEPT ![s] = [saver[s] EXCEPT ![r] = [pc |-> "write", snap |-> p]]]
  PROVE  /\ SaversOK'
         /\ \A t \in Sessions, q \in Roles :
              saver'[t][q] = IF t = s /\ q = r THEN [pc |-> "write", snap |-> p] ELSE saver[t][q]
<1>1. /\ DOMAIN saver' = Sessions
      /\ \A t \in Sessions : DOMAIN saver'[t] = Roles
      /\ \A t \in Sessions, q \in Roles :
           saver'[t][q] = IF t = s /\ q = r THEN [pc |-> "write", snap |-> p] ELSE saver[t][q]
  BY DEF TypeOK, SaversOK
<1> QED
  BY <1>1 DEF TypeOK, SaversOK, ProjectOK

(* What one iteration of writer_loop does after the append. *)
LEMMA RespondShape ==
  ASSUME NEW s \in Sessions, Respond(s)
  PROVE  /\ busy[s] # NoResult
         /\ view' = [view EXCEPT ![s] = writer[s]]
         /\ busy' = [busy EXCEPT ![s] = NoResult]
         /\ \/ busy[s].result = "ok" /\ acked' = acked \cup {busy[s].req.id} /\ refused' = refused
            \/ refused' = refused \cup {busy[s].req.id} /\ acked' = acked
         /\ \/ /\ since' = [since EXCEPT ![s] = 0]
               /\ saver' = [saver EXCEPT ![s] = [saver[s] EXCEPT !["writer"] =
                                                 [pc |-> "write", snap |-> writer[s]]]]
            \/ /\ ~(since[s] + 1 >= CheckpointOps)
               /\ since' = [since EXCEPT ![s] = since[s] + 1]
               /\ saver' = saver
         /\ UNCHANGED <<idb, journal, tmp, phase, todo, writer, queue, issued, appends, hist>>
  BY Zenon DEF Respond, CheckpointDue, files

(* What the three requests have in common: either the request is performed *)
(* or only the client is told that it cannot be.                           *)
LEMMA RequestShape ==
  ASSUME NEW s \in Sessions, ApplyOne(s) \/ UndoOne(s) \/ RedoOne(s)
  PROVE  /\ queue[s] # <<>> /\ busy[s] = NoResult /\ saver[s]["writer"].pc = "idle"
         /\ queue' = [queue EXCEPT ![s] = Tail(queue[s])]
         /\ UNCHANGED <<idb, tmp, phase, todo, view, since, saver, issued, acked, refused>>
         /\ \/ /\ writer' = [writer EXCEPT ![s] = Done(s).proj]
               /\ hist' = [hist EXCEPT ![Done(s).proj.seq] = Done(s).proj.st]
               /\ appends' = appends + 1
               /\ \/ /\ journal' = Appended(journal, Line(s))
                     /\ busy' = [busy EXCEPT ![s] = [req |-> Head(queue[s]), result |-> "ok"]]
                  \/ /\ "append_error" \in Faults
                     /\ \/ journal' = journal
                        \/ "torn_append" \in Faults /\ journal' \in TornAppends(journal, Line(s))
                     /\ busy' = [busy EXCEPT ![s] = [req |-> Head(queue[s]), result |-> "err"]]
            \/ /\ busy' = [busy EXCEPT ![s] = [req |-> Head(queue[s]), result |-> "err"]]
               /\ UNCHANGED <<journal, writer, appends, hist>>
<1>1. CanExecute(s)
  BY DEF ApplyOne, UndoOne, RedoOne
<1>2. \/ \E onOk, onErr : Execute(s, onOk, onErr)
      \/ \E stack : Refuse(s, stack)
  BY Zenon DEF ApplyOne, UndoOne, RedoOne
<1>3. CASE \E onOk, onErr : Execute(s, onOk, onErr)
  <2>1. PICK onOk, onErr : Execute(s, onOk, onErr)
    BY <1>3
  <2> QED
    BY <1>1, <2>1 DEF Execute, Finish, CanExecute
<1>4. CASE \E stack : Refuse(s, stack)
  BY <1>1, <1>4 DEF Refuse, Finish, CanExecute
<1> QED
  BY <1>2, <1>3, <1>4

(* The shape of the variables, for every choice of Faults. *)
THEOREM TypeInvariant == Spec => []TypeOK
<1>1. Init => TypeOK
  BY StoreAssumption
  DEF Init, TypeOK, FilesOK, ProjectsOK, BusyOK, SaversOK, NoIdb, FreshProject, ProjectOK,
      LinesOK, Phases, NoSave, Roles
<1>2. TypeOK /\ [Next]_vars => TypeOK'
  <2> SUFFICES ASSUME TypeOK, [Next]_vars PROVE TypeOK'
    OBVIOUS
  <2> USE DEF ghosts, files
  <2>1. ASSUME NEW s \in Sessions, LoadState(s) PROVE TypeOK'
    BY <2>1 DEF LoadState, TypeOK, FilesOK, ProjectsOK, BusyOK, SaversOK, ProjectOK, LinesOK,
                LoadedProject, FreshProject, Phases
  <2>2. ASSUME NEW s \in Sessions, ReadJournal(s) PROVE TypeOK'
    BY <2>2 DEF ReadJournal, TypeOK, FilesOK, ProjectsOK, BusyOK, SaversOK, LinesOK, Phases
  <2>3. ASSUME NEW s \in Sessions, ReplayRecord(s) PROVE TypeOK'
    BY <2>3 DEF ReplayRecord, Replayed, ReplayedOp, TypeOK, FilesOK, ProjectsOK, BusyOK, SaversOK, ProjectOK,
                LinesOK
  <2>4. ASSUME NEW s \in Sessions, PublishHandle(s) PROVE TypeOK'
    BY <2>4 DEF PublishHandle, TypeOK, FilesOK, ProjectsOK, BusyOK, SaversOK, LinesOK, Phases
  <2>5. ASSUME NEW s \in Sessions, NEW c \in Clients, Submit(s, c) PROVE TypeOK'
    <3>1. issued' \in 0..MaxRequests /\ issued + 1 \in Ids
      BY <2>5, StoreAssumption DEF Submit, TypeOK, Ids
    <3>2. PICK req \in {Request("apply", c, op) : op \in Edits} \cup
                       {Request(k, c, Absent) : k \in {"undo", "redo"}} :
            queue' = [queue EXCEPT ![s] = Append(@, req)]
      BY <2>5 DEF Submit
    <3>3. req \in Requests
      BY <3>1, <3>2 DEF Request, Requests
    <3>4. queue[s] \in Seq(Requests)
      BY DEF TypeOK
    <3>5. Append(queue[s], req) \in Seq(Requests)
      BY <3>3, <3>4
    <3>6. queue' \in [Sessions -> Seq(Requests)]
      BY <3>2, <3>5 DEF TypeOK
    <3> QED
      BY <2>5, <3>1, <3>6 DEF Submit, TypeOK, FilesOK, ProjectsOK, BusyOK, SaversOK, LinesOK
  <2>6. ASSUME NEW s \in Sessions, ApplyOne(s) \/ UndoOne(s) \/ RedoOne(s) PROVE TypeOK'
    <3>0. /\ queue[s] # <<>>
          /\ queue' = [queue EXCEPT ![s] = Tail(queue[s])]
          /\ \E result \in {"ok", "err"} :
               busy' = [busy EXCEPT ![s] = [req |-> Head(queue[s]), result |-> result]]
          /\ writer' = writer \/ writer' = [writer EXCEPT ![s] = Done(s).proj]
          /\ UNCHANGED <<idb, tmp, phase, todo, view, since, saver, issued, acked, refused>>
      BY <2>6, RequestShape
    <3>1. /\ Head(queue[s]).id \in Ids /\ Tail(queue[s]) \in Seq(Requests)
          /\ ProjectOK(Done(s).proj)
      BY <3>0, HeadRequest, DoneType
    <3>2. queue' \in [Sessions -> Seq(Requests)]
      BY <3>0, <3>1 DEF TypeOK
    <3>3. BusyOK'
      BY <3>0, <3>1 DEF TypeOK, BusyOK
    <3>4. ProjectsOK'
      BY <3>0, <3>1 DEF TypeOK, ProjectsOK
    <3>5. /\ journal'.tail \in {"clean", "no_newline", "torn"}
          /\ \A l \in journal'.recs : l \in journal.recs \/ (l = Line(s) /\ appends' = appends + 1)
      BY <2>6, RequestShape, AppendedLines DEF TypeOK, FilesOK
    <3>6. FilesOK'
      BY <2>6, <3>0, <3>5, RequestShape, DoneType, FilesStep
    <3> QED
      BY <3>0, <3>2, <3>3, <3>4, <3>6 DEF TypeOK, SaversOK
  <2>7. ASSUME NEW s \in Sessions, Respond(s) PROVE TypeOK'
    <3>0. /\ busy[s] # NoResult
          /\ view' = [view EXCEPT ![s] = writer[s]]
          /\ busy' = [busy EXCEPT ![s] = NoResult]
          /\ acked' \subseteq acked \cup {busy[s].req.id}
          /\ refused' \subseteq refused \cup {busy[s].req.id}
          /\ UNCHANGED <<idb, journal, tmp, phase, todo, writer, queue, issued, appends>>
      BY <2>7, RespondShape
    <3>1. \/ /\ since' = [since EXCEPT ![s] = 0]
             /\ saver' = [saver EXCEPT ![s] = [saver[s] EXCEPT !["writer"] =
                                               [pc |-> "write", snap |-> writer[s]]]]
          \/ /\ ~(since[s] + 1 >= CheckpointOps)
             /\ since' = [since EXCEPT ![s] = since[s] + 1]
             /\ saver' = saver
      BY <2>7, RespondShape
    <3>2. since' \in [Sessions -> 0..(CheckpointOps - 1)]
      <4>1. CheckpointOps \in Nat \ {0}
        BY StoreAssumption
      <4>2. since \in [Sessions -> 0..(CheckpointOps - 1)]
        BY DEF TypeOK
      <4> QED
        BY <3>1, <4>1, <4>2
    <3>3. "writer" \in Roles /\ ProjectOK(writer[s])
      BY DEF Roles, TypeOK, ProjectsOK
    <3>4. SaversOK'
      <4>1. CASE saver' = saver
        BY <4>1 DEF TypeOK, SaversOK
      <4> QED
        BY <3>1, <3>3, <4>1, SaveBeginShape
    <3>5. ProjectsOK' /\ BusyOK' /\ busy[s].req.id \in Ids
      BY <3>0, <3>3 DEF TypeOK, ProjectsOK, BusyOK
    <3> QED
      BY <3>0, <3>2, <3>4, <3>5 DEF TypeOK, FilesOK, LinesOK
  <2>8. ASSUME NEW s \in Sessions, Close(s) PROVE TypeOK'
    <3>1. "closer" \in Roles /\ ProjectOK(view[s])
      BY DEF Roles, TypeOK, ProjectsOK
    <3>2. SaversOK'
      BY <2>8, <3>1, SaveBeginShape DEF Close
    <3> QED
      BY <2>8, <3>2 DEF Close, TypeOK, FilesOK, ProjectsOK, BusyOK, LinesOK, Phases
  <2>9. ASSUME NEW s \in Sessions, WriterEnds(s) PROVE TypeOK'
    BY <2>9, StoreAssumption
    DEF WriterEnds, TypeOK, FilesOK, ProjectsOK, BusyOK, SaversOK, LinesOK, ProjectOK,
        FreshProject, Phases
  <2>10. ASSUME NEW s \in Sessions, NEW r \in Roles, SaverStep(s, r) \/ SaveFails(s, r)
         PROVE  TypeOK'
    <3>1. SaversOK'
      BY <2>10, SaveStepShape
      DEF SaverStep, TruncateIdb, WriteIdb, WriteTmp, RenameTmp, SaveFails
    <3>2. FilesOK'
      BY <2>10 DEF SaverStep, TruncateIdb, WriteIdb, WriteTmp, RenameTmp, SaveFails, TypeOK,
                   FilesOK, LinesOK, SaversOK, UnreadableIdb, FreshProject, ProjectOK
    <3> QED
      BY <2>10, <3>1, <3>2
      DEF SaverStep, TruncateIdb, WriteIdb, WriteTmp, RenameTmp, SaveFails, TypeOK, ProjectsOK,
          BusyOK
  <2>11. ASSUME LoseMemory PROVE (FilesOK' => TypeOK') /\ todo' = [s \in Sessions |-> {}]
    BY <2>11, StoreAssumption
    DEF LoseMemory, TypeOK, ProjectsOK, BusyOK, SaversOK, ProjectOK, FreshProject, NoSave,
        Phases, Roles
  <2>12. CASE Crash
    BY <2>11, <2>12 DEF Crash, TypeOK, FilesOK, LinesOK
  <2>13. ASSUME NEW s \in Sessions, CrashInAppend(s) PROVE TypeOK'
    <3>1. /\ journal'.tail \in {"clean", "no_newline", "torn"}
          /\ \A l \in journal'.recs : l \in journal.recs \/ l = Line(s)
      BY <2>13, AppendedLines DEF CrashInAppend, TypeOK, FilesOK
    <3>2. LinesOK(journal.recs)' /\ (tmp # NoFile => LinesOK(tmp))'
      BY <2>13, <3>1, DoneType DEF CrashInAppend, CanExecute, TypeOK, FilesOK, LinesOK
    <3> QED
      BY <2>11, <2>13, <3>1, <3>2 DEF CrashInAppend, TypeOK, FilesOK, LinesOK
  <2>14. CASE FlushIdb
    BY <2>14 DEF FlushIdb, sessions, TypeOK, FilesOK, ProjectsOK, BusyOK, SaversOK, LinesOK
  <2>15. CASE PowerLoss
    BY <2>11, <2>15 DEF PowerLoss, TypeOK, FilesOK, LinesOK, UnreadableIdb, FreshProject, ProjectOK
  <2>16. CASE UNCHANGED vars
    BY <2>16 DEF vars, sessions, TypeOK, FilesOK, ProjectsOK, BusyOK, SaversOK, LinesOK
  <2> QED
    BY <2>1, <2>2, <2>3, <2>4, <2>5, <2>6, <2>7, <2>8, <2>9, <2>10, <2>12, <2>13, <2>14, <2>15,
       <2>16
    DEF Next, WriterStep
<1> QED
  BY <1>1, <1>2, PTL DEF Spec

----------------------------------------------------------------------------
(* The files and the one session that uses them, damaged or not: each step *)
(* says which session that is.                                             *)

(* A session that has a request, a result or a save is open or closed, and *)
(* every other session is idle.                                            *)
LEMMA ActiveSession ==
  ASSUME TypeOK, OneUser, NEW s \in Sessions, phase[s] # "idle"
  PROVE  /\ \A t \in Sessions : t # s => phase[t] = "idle" /\ Quiet(t)
         /\ queue[s] # <<>> \/ busy[s] # NoResult => phase[s] = "open"
         /\ saver[s]["writer"].pc # "idle" => phase[s] = "open"
         /\ saver[s]["closer"].pc # "idle" => phase[s] = "closed"
  BY DEF OneUser, Quiet, Roles, TypeOK, Phases

(* A request, a result or a save at work belongs to a session in use. *)
LEMMA ActiveNotIdle ==
  ASSUME OneUser, NEW s \in Sessions,
         queue[s] # <<>> \/ busy[s] # NoResult \/ \E r \in Roles : saver[s][r].pc # "idle"
  PROVE  phase[s] # "idle"
  BY DEF OneUser, Quiet

(* Opening, up to the start of the writer task. *)
LEMMA OpenStep ==
  ASSUME Exclusive, TypeOK, FilesInv, NEW s \in Sessions,
         LoadState(s) \/ ReadJournal(s) \/ ReplayRecord(s) \/ PublishHandle(s)
  PROVE  FilesInv'
<1> USE DEF files, ghosts
<1>0. /\ UNCHANGED <<idb, journal, tmp, queue, busy, saver>>
      /\ LoadedProject' = LoadedProject
  BY DEF LoadState, ReadJournal, ReplayRecord, PublishHandle, LoadedProject
<1>1. LinesOrdered' /\ Covers(LoadedProject)'
  BY <1>0 DEF FilesInv, LinesOrdered, Covers
<1>2. CASE LoadState(s)
  <2>1. \A t \in Sessions : phase[t] = "idle"
    BY <1>2 DEF LoadState, Exclusive
  <2>2. OneUser'
    BY <1>0, <1>2, <2>1 DEF LoadState, FilesInv, OneUser, Quiet, TypeOK
  <2>3. WriterCovers'
    BY <1>0, <1>1, <1>2, <2>1
    DEF LoadState, WriterCovers, Covers, TypeOK, ProjectsOK, FilesOK, ProjectOK, LoadedProject,
        FreshProject
  <2>4. SavesCover'
    BY <1>0, <1>2, <2>1 DEF LoadState, FilesInv, OneUser, Quiet, SavesCover
  <2> QED
    BY <1>1, <2>2, <2>3, <2>4 DEF FilesInv
<1>3. CASE ReadJournal(s)
  <2>1. OneUser'
    BY <1>0, <1>3 DEF ReadJournal, FilesInv, OneUser, Quiet, TypeOK
  <2>2. WriterCovers'
    BY <1>0, <1>3 DEF ReadJournal, FilesInv, WriterCovers, Covers, TypeOK, FilesOK
  <2>3. SavesCover'
    BY <1>0, <1>3 DEF ReadJournal, FilesInv, SavesCover
  <2> QED
    BY <1>1, <2>1, <2>2, <2>3 DEF FilesInv
<1>4. CASE ReplayRecord(s)
  <2>1. PICK line \in todo[s] :
          /\ \A m \in todo[s] : line.pos <= m.pos
          /\ writer' = [writer EXCEPT ![s] = Replayed(@, line)]
          /\ todo' = [todo EXCEPT ![s] = @ \ {line}]
    BY <1>4 DEF ReplayRecord
  <2>2. OneUser'
    BY <1>0, <1>4 DEF ReplayRecord, FilesInv, OneUser, Quiet
  <2>3. SavesCover'
    BY <1>0, <1>4, <2>1 DEF ReplayRecord, FilesInv, OneUser, Quiet, SavesCover, TypeOK,
                            ProjectsOK
  <2>4. /\ todo[s] \subseteq journal.recs
        /\ \A l \in journal.recs \ todo[s] : l.seq <= writer[s].seq /\ l.pos < line.pos
        /\ Covers(writer[s]) /\ LinesOK(journal.recs) /\ ProjectOK(writer[s])
        /\ LoadedProject.seq <= writer[s].seq /\ LoadedProject.ids \subseteq writer[s].ids
        /\ LoadedProject.seq \in Nat
    BY <1>4, <2>1
    DEF ReplayRecord, FilesInv, WriterCovers, TypeOK, FilesOK, ProjectsOK, ProjectOK,
        LoadedProject, FreshProject
  <2>5. writer'[s] = Replayed(writer[s], line) /\ todo'[s] = todo[s] \ {line}
    BY <2>1 DEF TypeOK, FilesOK, ProjectsOK
  <2>6. \A m \in journal.recs : m.seq < line.seq => m.id \in writer[s].ids
    BY <2>1, <2>4 DEF FilesInv, LinesOrdered, Covers, LinesOK
  <2>7. \A m \in journal.recs : m.seq = line.seq => m = line
    BY <2>1, <2>4 DEF FilesInv, LinesOrdered, LinesOK
  <2>8. /\ LoadedProject.seq <= writer'[s].seq /\ LoadedProject.ids \subseteq writer'[s].ids
        /\ Covers(writer'[s]) /\ line.seq <= writer'[s].seq
        /\ writer[s].seq <= writer'[s].seq
    BY <2>1, <2>4, <2>5, <2>6, <2>7 DEF Replayed, ReplayedOp, Covers, LinesOK, ProjectOK
  <2>9. \A l \in journal.recs \ todo'[s] :
          l.seq <= writer'[s].seq /\ \A m \in todo'[s] : l.pos < m.pos
    <3> SUFFICES ASSUME NEW l \in journal.recs, l \notin todo'[s]
                 PROVE  l.seq <= writer'[s].seq /\ \A m \in todo'[s] : l.pos < m.pos
      OBVIOUS
    <3>1. CASE l = line
      BY <2>1, <2>4, <2>5, <2>8, <3>1 DEF FilesInv, LinesOrdered, LinesOK
    <3>2. CASE l # line
      <4>1. l.seq <= writer[s].seq /\ l.pos < line.pos
        BY <2>4, <2>5, <3>2
      <4>2. l.seq \in Nat /\ l.pos \in Int /\ line.pos \in Int /\ writer[s].seq \in Nat
        BY <2>1, <2>4 DEF LinesOK, ProjectOK
      <4>3. writer'[s].seq \in Nat /\ \A m \in todo'[s] : m.pos \in Int
        BY <2>1, <2>4, <2>5, <4>2 DEF LinesOK, Replayed, ReplayedOp
      <4> QED
        BY <2>1, <2>5, <2>8, <4>1, <4>2, <4>3
    <3> QED
      BY <3>1, <3>2
  <2>10. \A t \in Sessions : t # s => phase'[t] = "idle"
    BY <1>4 DEF ReplayRecord, FilesInv, OneUser
  <2>11. WriterCovers'
    BY <1>0, <1>4, <2>4, <2>5, <2>8, <2>9, <2>10 DEF ReplayRecord, WriterCovers, Covers
  <2> QED
    BY <1>1, <2>2, <2>3, <2>11 DEF FilesInv
<1>5. CASE PublishHandle(s)
  <2>1. OneUser'
    BY <1>0, <1>5 DEF PublishHandle, FilesInv, OneUser, Quiet, TypeOK, Roles
  <2>2. WriterCovers'
    BY <1>0, <1>5 DEF PublishHandle, FilesInv, WriterCovers, Covers, TypeOK, ProjectsOK
  <2>3. SavesCover'
    BY <1>0, <1>5 DEF PublishHandle, FilesInv, SavesCover
  <2> QED
    BY <1>1, <2>1, <2>2, <2>3 DEF FilesInv
<1> QED
  BY <1>2, <1>3, <1>4, <1>5

(* apply_op, undo_last and redo_last only lengthen the channel of the one  *)
(* session that is open.                                                   *)
LEMMA SubmitStep ==
  ASSUME Exclusive, TypeOK, FilesInv, NEW s \in Sessions, NEW c \in Clients, Submit(s, c)
  PROVE  FilesInv'
<1>0. /\ UNCHANGED <<idb, journal, tmp, phase, todo, writer, view, busy, saver, acked>>
      /\ LoadedProject' = LoadedProject
      /\ phase[s] = "open" /\ \A t \in Sessions : t # s => queue'[t] = queue[t]
  BY DEF Submit, Exclusive, files, LoadedProject, TypeOK
<1>1. OneUser'
  BY <1>0 DEF FilesInv, OneUser, Quiet
<1> QED
  BY <1>0, <1>1 DEF FilesInv, LinesOrdered, Covers, WriterCovers, SavesCover

(* A line of the request at the head is newer than all others, so the      *)
(* order of the lines stays whatever becomes of the append.                *)
LEMMA NewLine ==
  ASSUME TypeOK, FilesInv, NEW s \in Sessions, phase[s] = "open", queue[s] # <<>>,
         LoadedProject' = LoadedProject, journal'.recs \subseteq journal.recs \cup {Line(s)}
  PROVE  LinesOrdered' /\ Covers(LoadedProject)'
<1>1. /\ LoadedProject.seq <= writer[s].seq
      /\ \A l \in journal.recs : l.seq <= writer[s].seq
      /\ LinesOK(journal.recs) /\ ProjectOK(writer[s]) /\ LoadedProject.seq \in Nat
      /\ appends \in Nat
  BY DEF FilesInv, WriterCovers, TypeOK, FilesOK, ProjectsOK, LoadedProject, FreshProject, ProjectOK
<1>2. Line(s).pos = appends /\ Line(s).seq = writer[s].seq + 1
  BY DoneType
<1>3. LinesOrdered'
  BY <1>1, <1>2 DEF FilesInv, LinesOrdered, LinesOK, ProjectOK
<1>4. Covers(LoadedProject)'
  BY <1>1, <1>2 DEF FilesInv, Covers, LinesOK, ProjectOK
<1> QED
  BY <1>3, <1>4

(* A session that has a request is open, alone and not saving. *)
LEMMA RequestAlone ==
  ASSUME TypeOK, FilesInv, NEW s \in Sessions, CanExecute(s)
  PROVE  /\ phase[s] = "open"
         /\ \A t \in Sessions : t # s => phase[t] = "idle" /\ Quiet(t)
         /\ \A t \in Sessions, r \in Roles : saver[t][r].pc = "idle"
<1>1. phase[s] = "open" /\ \A t \in Sessions : t # s => phase[t] = "idle" /\ Quiet(t)
  BY ActiveNotIdle, ActiveSession DEF FilesInv, CanExecute
<1>2. \A t \in Sessions, r \in Roles : saver[t][r].pc = "idle"
  BY <1>1 DEF FilesInv, OneUser, Quiet, Roles, CanExecute
<1> QED
  BY <1>1, <1>2

(* A performed request leaves in the journal old lines and its own. *)
LEMMA RequestLines ==
  ASSUME TypeOK, NEW s \in Sessions, ApplyOne(s) \/ UndoOne(s) \/ RedoOne(s)
  PROVE  \/ journal'.recs \subseteq journal.recs /\ writer' = writer
         \/ /\ journal'.recs \subseteq journal.recs \cup {Line(s)}
            /\ writer' = [writer EXCEPT ![s] = Done(s).proj]
<1>1. journal.tail \in {"clean", "no_newline", "torn"}
  BY DEF TypeOK, FilesOK
<1>2. \A k \in {Appended(journal, Line(s))} \cup TornAppends(journal, Line(s)) :
        k.recs \subseteq journal.recs \cup {Line(s)}
  BY <1>1, AppendedLines
<1> QED
  BY <1>2, RequestShape

(* A performed request appends a line that is newer than all others. *)
LEMMA RequestStep ==
  ASSUME TypeOK, FilesInv, NEW s \in Sessions,
         ApplyOne(s) \/ UndoOne(s) \/ RedoOne(s)
  PROVE  FilesInv'
<1>1. /\ queue[s] # <<>> /\ busy[s] = NoResult /\ CanExecute(s)
      /\ queue' = [queue EXCEPT ![s] = Tail(queue[s])]
      /\ UNCHANGED <<idb, tmp, phase, todo, view, saver>>
      /\ \E result \in {"ok", "err"} :
           busy' = [busy EXCEPT ![s] = [req |-> Head(queue[s]), result |-> result]]
      /\ LoadedProject' = LoadedProject
  BY RequestShape DEF LoadedProject, CanExecute
<1>2. /\ phase[s] = "open" /\ \A t \in Sessions : t # s => phase[t] = "idle" /\ Quiet(t)
      /\ \A t \in Sessions, r \in Roles : saver[t][r].pc = "idle"
  BY <1>1, RequestAlone
<1>3. OneUser' /\ SavesCover'
  BY <1>1, <1>2 DEF FilesInv, OneUser, SavesCover, Quiet, Roles, TypeOK, BusyOK
<1>4. journal'.recs \subseteq journal.recs \cup {Line(s)}
  BY RequestLines
<1>5. LinesOrdered' /\ Covers(LoadedProject)'
  BY <1>1, <1>2, <1>4, NewLine
<1>6. busy'[s] # NoResult
  <2>1. Head(queue[s]) \in Requests
    BY <1>1, HeadRequest
  <2>2. \A result \in {"ok", "err"} : [req |-> Head(queue[s]), result |-> result] # NoResult
    BY <2>1, StoreAssumption
  <2> QED
    BY <1>1, <2>2 DEF TypeOK, BusyOK
<1>7. /\ LoadedProject.seq <= writer[s].seq /\ LoadedProject.ids \subseteq writer[s].ids
      /\ Covers(writer[s]) /\ \A l \in journal.recs : l.seq <= writer[s].seq
      /\ LinesOK(journal.recs) /\ ProjectOK(writer[s]) /\ LoadedProject.seq \in Nat
  BY <1>2 DEF FilesInv, WriterCovers, TypeOK, FilesOK, ProjectsOK, LoadedProject, FreshProject,
              ProjectOK
<1>8. CASE writer' = writer /\ journal'.recs \subseteq journal.recs
  <2>1. WriterCovers'
    BY <1>1, <1>2, <1>6, <1>7, <1>8 DEF WriterCovers, Covers
  <2> QED
    BY <1>3, <1>5, <2>1 DEF FilesInv
<1>9. CASE writer' = [writer EXCEPT ![s] = Done(s).proj]
  <2>1. writer'[s] = Done(s).proj
    BY <1>9 DEF TypeOK, ProjectsOK
  <2>2. /\ Line(s).seq = writer[s].seq + 1 /\ Line(s).id = Head(queue[s]).id
        /\ Done(s).proj.seq = writer[s].seq + 1
        /\ Done(s).proj.ids = writer[s].ids \cup {Head(queue[s]).id}
    BY <1>1, DoneType
  <2>3. WriterCovers'
    BY <1>1, <1>2, <1>4, <1>6, <1>7, <2>1, <2>2 DEF WriterCovers, Covers, LinesOK, ProjectOK
  <2> QED
    BY <1>3, <1>5, <2>3 DEF FilesInv
<1> QED
  BY <1>8, <1>9, RequestLines

(* The checkpoint that writer_loop may start takes the project it has just *)
(* published.                                                              *)
LEMMA RespondStep ==
  ASSUME TypeOK, FilesInv, NEW s \in Sessions, Respond(s)
  PROVE  FilesInv'
<1>1. /\ busy[s] # NoResult
      /\ view' = [view EXCEPT ![s] = writer[s]]
      /\ busy' = [busy EXCEPT ![s] = NoResult]
      /\ UNCHANGED <<idb, journal, tmp, phase, todo, writer, queue>>
      /\ LoadedProject' = LoadedProject
  BY RespondShape DEF LoadedProject
<1>2. phase[s] = "open" /\ \A t \in Sessions : t # s => phase[t] = "idle" /\ Quiet(t)
  BY <1>1, ActiveNotIdle, ActiveSession DEF FilesInv
<1>3. \A t \in Sessions, r \in Roles : saver[t][r].pc = "idle"
  BY <1>1, <1>2 DEF FilesInv, OneUser, Quiet, Roles
<1>4. \A t \in Sessions, r \in Roles :
        \/ saver'[t][r] = saver[t][r]
        \/ t = s /\ r = "writer" /\ saver'[t][r] = [pc |-> "write", snap |-> writer[s]]
  <2>1. "writer" \in Roles /\ ProjectOK(writer[s])
    BY DEF Roles, TypeOK, ProjectsOK
  <2>2. \/ saver' = saver
        \/ saver' = [saver EXCEPT ![s] = [saver[s] EXCEPT !["writer"] =
                                          [pc |-> "write", snap |-> writer[s]]]]
    BY RespondShape
  <2> QED
    BY <2>1, <2>2, SaveBeginShape
<1>5. busy'[s] = NoResult /\ \A t \in Sessions : t # s => busy'[t] = busy[t]
  BY <1>1 DEF TypeOK, BusyOK
<1>6. OneUser'
  BY <1>1, <1>2, <1>3, <1>4, <1>5 DEF FilesInv, OneUser, Quiet, Roles
<1>7. SavesCover'
  BY <1>1, <1>3, <1>4 DEF FilesInv, SavesCover
<1>8. WriterCovers'
  BY <1>1, <1>2 DEF FilesInv, WriterCovers, Covers, TypeOK, ProjectsOK
<1> QED
  BY <1>1, <1>6, <1>7, <1>8 DEF FilesInv, LinesOrdered, Covers

(* close saves the published project, which is the writer's: its channel   *)
(* is empty and nothing is waiting to be published.                        *)
LEMMA CloseStep ==
  ASSUME Exclusive, TypeOK, FilesInv, NEW s \in Sessions, Close(s) \/ WriterEnds(s)
  PROVE  FilesInv'
<1>0. /\ UNCHANGED <<idb, journal, tmp, todo, queue, busy>>
      /\ LoadedProject' = LoadedProject /\ Quiet(s) /\ phase[s] # "idle"
  BY DEF Close, WriterEnds, files, ghosts, LoadedProject, Exclusive
<1>1. LinesOrdered' /\ Covers(LoadedProject)'
  BY <1>0 DEF FilesInv, LinesOrdered, Covers
<1>2. \A t \in Sessions : t # s => phase[t] = "idle" /\ Quiet(t)
  BY <1>0, ActiveSession DEF FilesInv
<1>3. CASE Close(s)
  <2>1. "closer" \in Roles /\ ProjectOK(view[s]) /\ view[s] = writer[s]
    BY <1>0, <1>3 DEF Close, Roles, TypeOK, ProjectsOK, FilesInv, WriterCovers, Quiet
  <2>2. \A t \in Sessions, r \in Roles :
          saver'[t][r] = IF t = s /\ r = "closer" THEN [pc |-> "write", snap |-> view[s]]
                                                  ELSE saver[t][r]
    <3>1. saver' = [saver EXCEPT ![s] = [saver[s] EXCEPT !["closer"] =
                                         [pc |-> "write", snap |-> view[s]]]]
      BY <1>3 DEF Close
    <3>2. SaversOK
      BY DEF TypeOK
    <3> QED
      BY <2>1, <3>1, <3>2 DEF SaversOK
  <2>3. phase' = [phase EXCEPT ![s] = "closed"] /\ UNCHANGED <<writer, view>> /\ phase[s] = "open"
    BY <1>3 DEF Close
  <2>4. OneUser'
    BY <1>0, <1>2, <2>2, <2>3 DEF FilesInv, OneUser, Quiet, Roles, TypeOK
  <2>5. SavesCover'
    BY <1>0, <2>1, <2>2, <2>3 DEF FilesInv, SavesCover
  <2>6. WriterCovers'
    BY <1>0, <1>2, <2>3 DEF FilesInv, WriterCovers, Covers, TypeOK
  <2> QED
    BY <1>1, <2>4, <2>5, <2>6 DEF FilesInv
<1>4. CASE WriterEnds(s)
  <2>1. \A t \in Sessions : phase'[t] = "idle" /\ Quiet(t)'
    BY <1>0, <1>2, <1>4 DEF WriterEnds, Quiet, TypeOK
  <2> QED
    BY <1>0, <1>1, <2>1 DEF FilesInv, OneUser, WriterCovers, SavesCover, Quiet
<1> QED
  BY <1>3, <1>4

(* The steps of a save.  When it reaches the journal, the snapshot on disk *)
(* is the session's project, which covers every line.                      *)
LEMMA SaverStepPreserves ==
  ASSUME TypeOK, FilesInv, NEW s \in Sessions, NEW r \in Roles,
         SaverStep(s, r) \/ SaveFails(s, r)
  PROVE  FilesInv'
<1> USE DEF files, ghosts
<1>0. /\ UNCHANGED <<phase, todo, writer, view, queue, busy>>
      /\ saver[s][r].pc # "idle"
  BY DEF SaverStep, TruncateIdb, WriteIdb, WriteTmp, RenameTmp, SaveFails, SaveStep
<1>1. /\ phase[s] \in {"open", "closed"} /\ busy[s] = NoResult
      /\ \A t \in Sessions : t # s => phase[t] = "idle" /\ Quiet(t)
  BY <1>0, ActiveNotIdle, ActiveSession DEF FilesInv, OneUser, Roles
<1>2. \A t \in Sessions, q \in Roles : t # s \/ q # r => saver[t][q].pc = "idle"
  BY <1>0, <1>1 DEF FilesInv, OneUser, Quiet, Roles
<1>3. /\ saver[s][r].snap = writer[s]
      /\ LoadedProject.seq <= writer[s].seq /\ LoadedProject.ids \subseteq writer[s].ids
      /\ \A l \in journal.recs : l.seq <= writer[s].seq /\ l.id \in writer[s].ids
      /\ LinesOK(journal.recs) /\ ProjectOK(writer[s])
  BY <1>0, <1>1 DEF FilesInv, SavesCover, WriterCovers, Covers, TypeOK, FilesOK, ProjectsOK
<1>4. ASSUME NEW from, NEW to, SaveStep(s, r, from, to)
      PROVE  /\ saver'[s][r].pc = to /\ saver'[s][r].snap = writer[s]
             /\ \A t \in Sessions, q \in Roles : t # s \/ q # r => saver'[t][q].pc = "idle"
  BY <1>2, <1>3, <1>4, SaveStepShape
<1>5. OneUser'
  BY <1>0, <1>1, <1>2, <1>4
  DEF FilesInv, OneUser, Quiet, Roles, SaverStep, TruncateIdb, WriteIdb, WriteTmp,
      RenameTmp, SaveFails
<1>6. CASE WriteIdb(s, r)
  <2>1. /\ LoadedProject' = writer[s] /\ idb'.status = "ok" /\ idb'.proj = writer[s]
        /\ UNCHANGED <<journal, tmp>>
        /\ \E from : SaveStep(s, r, from, "truncate")
    BY <1>0, <1>3, <1>6 DEF WriteIdb, LoadedProject
  <2>2. LinesOrdered' /\ Covers(LoadedProject)' /\ WriterCovers'
    BY <1>0, <1>1, <1>3, <2>1 DEF FilesInv, LinesOrdered, Covers, WriterCovers, ProjectOK
  <2>3. SavesCover'
    BY <1>0, <1>4, <2>1 DEF SavesCover
  <2> QED
    BY <1>5, <2>2, <2>3 DEF FilesInv
<1>7. CASE WriteTmp(s, r)
  <2>1. /\ UNCHANGED <<idb, journal>> /\ SaveStep(s, r, "truncate", "rename")
        /\ LoadedProject' = LoadedProject /\ saver[s][r].pc = "truncate"
        /\ tmp' = {l \in journal.recs : l.seq > writer[s].seq}
    BY <1>3, <1>7 DEF WriteTmp, LoadedProject, SaveStep
  <2>2. tmp' = {}
    BY <1>3, <2>1 DEF LinesOK, ProjectOK
  <2>3. SavesCover'
    BY <1>0, <1>4, <2>1, <2>2 DEF FilesInv, SavesCover
  <2> QED
    BY <1>0, <1>5, <2>1, <2>3
    DEF FilesInv, LinesOrdered, Covers, WriterCovers
<1>8. CASE RenameTmp(s, r)
  <2>1. /\ UNCHANGED idb /\ SaveStep(s, r, "rename", "idle") /\ tmp = {}
        /\ LoadedProject' = LoadedProject /\ LoadedProject = writer[s]
        /\ journal' = journal \/ journal' = [recs |-> {}, tail |-> "clean"]
    BY <1>8 DEF RenameTmp, LoadedProject, SaveStep, FilesInv, SavesCover
  <2>2. LinesOrdered' /\ Covers(LoadedProject)' /\ WriterCovers'
    BY <1>0, <1>1, <1>3, <2>1 DEF FilesInv, LinesOrdered, Covers, WriterCovers
  <2>3. SavesCover'
    BY <1>4, <2>1 DEF SavesCover
  <2> QED
    BY <1>5, <2>2, <2>3 DEF FilesInv
<1>9. CASE SaveFails(s, r)
  <2>1. /\ UNCHANGED <<idb, journal, tmp>> /\ LoadedProject' = LoadedProject
        /\ \E from : SaveStep(s, r, from, "idle")
    BY <1>9 DEF SaveFails, LoadedProject
  <2>2. SavesCover'
    BY <1>4, <2>1 DEF SavesCover
  <2> QED
    BY <1>0, <1>5, <2>1, <2>2
    DEF FilesInv, LinesOrdered, Covers, WriterCovers
<1>10. CASE TruncateIdb(s, r)
  <2>1. /\ LoadedProject' = FreshProject /\ UNCHANGED <<journal, tmp>>
        /\ SaveStep(s, r, "write", "writing")
    BY <1>10 DEF TruncateIdb, LoadedProject, UnreadableIdb
  <2>2. LinesOrdered' /\ Covers(LoadedProject)' /\ WriterCovers'
    <3>1. FreshProject.seq = 0 /\ FreshProject.ids = {}
      BY DEF FreshProject
    <3>2. LinesOrdered' /\ Covers(LoadedProject)'
      BY <1>3, <2>1, <3>1 DEF FilesInv, LinesOrdered, Covers, LinesOK
    <3>3. WriterCovers'
      BY <1>0, <1>1, <1>3, <2>1, <3>1 DEF FilesInv, WriterCovers, Covers, ProjectOK
    <3> QED
      BY <3>2, <3>3
  <2>3. SavesCover'
    BY <1>0, <1>4, <2>1 DEF SavesCover
  <2> QED
    BY <1>5, <2>2, <2>3 DEF FilesInv
<1> QED
  BY <1>6, <1>7, <1>8, <1>9, <1>10 DEF SaverStep

(* Only the files survive, as they are or with less in them. *)
LEMMA LostMemory ==
  ASSUME LoseMemory, LinesOrdered', Covers(LoadedProject)'
  PROVE  FilesInv'
<1>1. /\ \A s \in Sessions : phase'[s] = "idle" /\ busy'[s] = NoResult /\ queue'[s] = <<>>
      /\ \A s \in Sessions, r \in Roles : saver'[s][r].pc = "idle"
  BY DEF LoseMemory, NoSave
<1>2. OneUser'
  BY <1>1 DEF OneUser, Quiet, Roles
<1>3. WriterCovers' /\ SavesCover'
  BY <1>1 DEF WriterCovers, SavesCover
<1> QED
  BY <1>2, <1>3 DEF FilesInv

(* The process dies, inside an append or not, or the machine loses power.  *)
LEMMA CrashStep ==
  ASSUME TypeOK, FilesInv, Crash \/ PowerLoss \/ \E s \in Sessions : CrashInAppend(s)
  PROVE  FilesInv'
<1>1. CASE Crash
  <2>1. UNCHANGED <<idb, journal>> /\ LoadedProject' = LoadedProject
    BY <1>1 DEF Crash, files, LoadedProject
  <2>2. LinesOrdered' /\ Covers(LoadedProject)'
    BY <2>1 DEF FilesInv, LinesOrdered, Covers
  <2> QED
    BY <1>1, <2>2, LostMemory DEF Crash
<1>2. CASE PowerLoss
  <2>1. journal' = journal /\ (idb' = idb \/ idb' = UnreadableIdb)
    BY <1>2 DEF PowerLoss
  <2>2. LoadedProject' = LoadedProject \/ LoadedProject' = FreshProject
    BY <2>1 DEF LoadedProject, UnreadableIdb
  <2>3. FreshProject.seq = 0 /\ LinesOK(journal.recs)
    BY DEF FreshProject, TypeOK, FilesOK
  <2>4. LinesOrdered' /\ Covers(LoadedProject)'
    BY <2>1, <2>2, <2>3 DEF FilesInv, LinesOrdered, Covers, LinesOK
  <2> QED
    BY <1>2, <2>4, LostMemory DEF PowerLoss
<1>3. ASSUME NEW s \in Sessions, CrashInAppend(s) PROVE FilesInv'
  <2>1. /\ CanExecute(s) /\ queue[s] # <<>> /\ LoadedProject' = LoadedProject
        /\ journal' \in TornAppends(journal, Line(s))
        /\ journal.tail \in {"clean", "no_newline", "torn"}
    BY <1>3 DEF CrashInAppend, CanExecute, LoadedProject, TypeOK, FilesOK
  <2>2. journal'.recs \subseteq journal.recs \cup {Line(s)}
    BY <2>1, AppendedLines
  <2>3. LinesOrdered' /\ Covers(LoadedProject)'
    BY <2>1, <2>2, RequestAlone, NewLine
  <2> QED
    BY <1>3, <2>3, LostMemory DEF CrashInAppend
<1> QED
  BY <1>1, <1>2, <1>3

(* Without files every part of the invariant holds. *)
LEMMA FilesInit == Init => FilesInv
  BY DEF Init, FilesInv, OneUser, Quiet, LinesOrdered, Covers, WriterCovers, SavesCover,
         LoadedProject, NoIdb, FreshProject, NoSave, Roles

(* Every step of opening, editing, saving, closing and crashing preserves  *)
(* the invariant of the files, also the steps that damage them.            *)
LEMMA FilesStepPreserves ==
  ASSUME Exclusive, TypeOK, FilesInv, [Next]_vars
  PROVE  FilesInv'
<1>1. CASE FlushIdb
  <2>1. /\ LoadedProject' = LoadedProject /\ idb'.status = idb.status /\ idb'.proj = idb.proj
        /\ UNCHANGED <<journal, tmp, phase, todo, writer, view, queue, busy, saver>>
    BY <1>1 DEF FlushIdb, LoadedProject, sessions, ghosts
  <2> QED
    BY <2>1 DEF FilesInv, OneUser, Quiet, LinesOrdered, Covers, WriterCovers, SavesCover
<1>2. CASE UNCHANGED vars
  BY <1>2 DEF vars, files, sessions, ghosts, FilesInv, OneUser, Quiet, LinesOrdered, Covers,
              WriterCovers, SavesCover, LoadedProject
<1> QED
  BY <1>1, <1>2, OpenStep, SubmitStep, RequestStep, RespondStep, CloseStep,
     SaverStepPreserves, CrashStep
  DEF Next, WriterStep

(* The snapshot, the journal, the writer's project and a save in progress  *)
(* agree on which edits they cover at every step of writer_loop, save and  *)
(* open, whatever is torn or lost in between.                              *)
THEOREM FilesInvariant == Exclusive => (Spec => []FilesInv)
<1> SUFFICES ASSUME Exclusive PROVE Spec => []FilesInv
  OBVIOUS
<1>1. TypeOK /\ FilesInv /\ [Next]_vars => FilesInv'
  BY FilesStepPreserves
<1> QED
  BY <1>1, FilesInit, TypeInvariant, PTL DEF Spec

(* The replay guard record.seq > op_seq skips no line that is not already  *)
(* in the snapshot: the files bring back the snapshot and every line.      *)
LEMMA DiskIdsAre == TypeOK /\ FilesInv => DiskIds = OnDisk
<1> SUFFICES ASSUME TypeOK, FilesInv PROVE DiskIds = OnDisk
  OBVIOUS
<1>1. Replayable(journal.recs, LoadedProject.seq)
        = {l \in journal.recs : l.seq > LoadedProject.seq}
  BY DEF FilesInv, LinesOrdered, Replayable
<1>2. \A l \in journal.recs : l.seq \in Nat /\ LoadedProject.seq \in Nat
  BY DEF TypeOK, FilesOK, LinesOK, LoadedProject, FreshProject, ProjectOK
<1>3. \A l \in journal.recs : l.seq > LoadedProject.seq \/ l.id \in LoadedProject.ids
  BY <1>2 DEF FilesInv, Covers
<1> QED
  BY <1>1, <1>3 DEF DiskIds, OnDisk

----------------------------------------------------------------------------
(* Durability of what was acknowledged. *)

(* No step takes an edit out of the files. *)
LEMMA OnDiskGrows ==
  ASSUME Serial, TypeOK, FilesInv, Undamaged, [Next]_vars
  PROVE  OnDisk \subseteq OnDisk'
<1> USE DEF files, ghosts
<1>1. CASE UNCHANGED <<idb, journal>>
  BY <1>1 DEF OnDisk, LoadedProject
<1>2. ASSUME NEW s \in Sessions, ApplyOne(s) \/ UndoOne(s) \/ RedoOne(s)
      PROVE  OnDisk \subseteq OnDisk'
  <2>1. idb' = idb /\ (journal' = journal \/ journal' = Appended(journal, Line(s)))
    BY <1>2, RequestShape DEF Serial
  <2>2. journal.tail = "clean"
    BY DEF Undamaged
  <2> QED
    BY <2>1, <2>2 DEF OnDisk, LoadedProject, Appended
<1>3. ASSUME NEW s \in Sessions, NEW r \in Roles, WriteIdb(s, r) \/ RenameTmp(s, r)
      PROVE  OnDisk \subseteq OnDisk'
  <2>1. saver[s][r].pc # "idle" /\ "torn_idb" \notin Faults
    BY <1>3 DEF WriteIdb, RenameTmp, SaveStep, Serial
  <2>2. phase[s] \in {"open", "closed"}
    BY <2>1, ActiveNotIdle, ActiveSession DEF FilesInv, OneUser, Roles
  <2>3. /\ saver[s][r].snap = writer[s] /\ LoadedProject.ids \subseteq writer[s].ids
        /\ \A l \in journal.recs : l.id \in writer[s].ids
    BY <2>1, <2>2 DEF FilesInv, SavesCover, WriterCovers, Covers
  <2>4. CASE WriteIdb(s, r)
    BY <2>3, <2>4 DEF WriteIdb, OnDisk, LoadedProject
  <2>5. CASE RenameTmp(s, r)
    <3>1. idb' = idb /\ LoadedProject = writer[s]
      BY <2>5 DEF RenameTmp, SaveStep, FilesInv, SavesCover, LoadedProject
    <3> QED
      BY <2>3, <3>1 DEF OnDisk, LoadedProject
  <2> QED
    BY <1>3, <2>4, <2>5
<1>4. CASE FlushIdb
  BY <1>4 DEF FlushIdb, OnDisk, LoadedProject
<1>5. ~PowerLoss /\ \A s \in Sessions : ~CrashInAppend(s) /\ \A r \in Roles : ~TruncateIdb(s, r)
  BY DEF Serial, PowerLoss, CrashInAppend, TruncateIdb
<1>6. ASSUME NEW s \in Sessions, Respond(s) PROVE UNCHANGED <<idb, journal>>
  BY <1>6, RespondShape
<1>7. ASSUME NEW s \in Sessions,
             \/ LoadState(s) \/ ReadJournal(s) \/ ReplayRecord(s) \/ PublishHandle(s)
             \/ \E c \in Clients : Submit(s, c)
             \/ Close(s) \/ WriterEnds(s)
             \/ \E r \in Roles : WriteTmp(s, r) \/ SaveFails(s, r)
      PROVE  UNCHANGED <<idb, journal>>
  BY <1>7 DEF LoadState, ReadJournal, ReplayRecord, PublishHandle, Submit, Close, WriterEnds,
              WriteTmp, SaveFails
<1>8. CASE Crash \/ UNCHANGED vars
  BY <1>1, <1>8 DEF Crash, vars
<1> QED
  BY <1>1, <1>2, <1>3, <1>4, <1>5, <1>6, <1>7, <1>8 DEF Next, WriterStep, SaverStep

(* Nothing that Serial allows tears a file. *)
LEMMA StaysUndamaged ==
  ASSUME Serial, FilesInv, Undamaged, [Next]_vars
  PROVE  Undamaged'
<1> USE DEF files, ghosts, Undamaged
<1>1. CASE UNCHANGED <<idb, journal>>
  BY <1>1
<1>2. ASSUME NEW s \in Sessions, ApplyOne(s) \/ UndoOne(s) \/ RedoOne(s) PROVE Undamaged'
  BY <1>2, RequestShape DEF Serial, Appended
<1>3. ASSUME NEW s \in Sessions, NEW r \in Roles, WriteIdb(s, r) \/ RenameTmp(s, r)
      PROVE  Undamaged'
  BY <1>3 DEF WriteIdb, RenameTmp
<1>4. CASE FlushIdb
  BY <1>4 DEF FlushIdb
<1>5. ~PowerLoss /\ \A s \in Sessions : ~CrashInAppend(s) /\ \A r \in Roles : ~TruncateIdb(s, r)
  BY DEF Serial, PowerLoss, CrashInAppend, TruncateIdb
<1>6. ASSUME NEW s \in Sessions, Respond(s) PROVE UNCHANGED <<idb, journal>>
  BY <1>6, RespondShape
<1>7. ASSUME NEW s \in Sessions,
             \/ LoadState(s) \/ ReadJournal(s) \/ ReplayRecord(s) \/ PublishHandle(s)
             \/ \E c \in Clients : Submit(s, c)
             \/ Close(s) \/ WriterEnds(s)
             \/ \E r \in Roles : WriteTmp(s, r) \/ SaveFails(s, r)
      PROVE  UNCHANGED <<idb, journal>>
  BY <1>7 DEF LoadState, ReadJournal, ReplayRecord, PublishHandle, Submit, Close, WriterEnds,
              WriteTmp, SaveFails
<1>8. CASE Crash \/ UNCHANGED vars
  BY <1>1, <1>8 DEF Crash, vars
<1> QED
  BY <1>1, <1>2, <1>3, <1>4, <1>5, <1>6, <1>7, <1>8 DEF Next, WriterStep, SaverStep

(* Answers are given for what was appended, and what is in the files stays *)
(* there.                                                                  *)
LEMMA AnswersStep ==
  ASSUME Serial, TypeOK, DurabilityInv, [Next]_vars
  PROVE  AnswersCovered'
<1> USE DEF files, ghosts
<1>0. /\ OnDisk \subseteq OnDisk' /\ acked \subseteq OnDisk
      /\ \A s \in Sessions : busy[s] # NoResult /\ busy[s].result = "ok" =>
           busy[s].req.id \in OnDisk
  BY OnDiskGrows DEF DurabilityInv, AnswersCovered
<1>1. CASE acked' = acked /\ \A s \in Sessions : busy'[s] = busy[s] \/ busy'[s] = NoResult
  BY <1>0, <1>1 DEF AnswersCovered
<1>2. ASSUME NEW s \in Sessions, Respond(s) PROVE AnswersCovered'
  <2>1. /\ busy[s] # NoResult /\ busy' = [busy EXCEPT ![s] = NoResult]
        /\ \/ busy[s].result = "ok" /\ acked' = acked \cup {busy[s].req.id}
           \/ acked' = acked
    BY <1>2, RespondShape
  <2> QED
    BY <1>0, <2>1 DEF AnswersCovered, TypeOK, BusyOK
<1>3. ASSUME NEW s \in Sessions, ApplyOne(s) \/ UndoOne(s) \/ RedoOne(s) PROVE AnswersCovered'
  <2>1. acked' = acked /\ queue[s] # <<>>
    BY <1>3, RequestShape
  <2>2. CASE busy' = [busy EXCEPT ![s] = [req |-> Head(queue[s]), result |-> "err"]]
    BY <1>0, <2>1, <2>2 DEF AnswersCovered, TypeOK, BusyOK
  <2>3. CASE /\ journal' = Appended(journal, Line(s))
             /\ busy' = [busy EXCEPT ![s] = [req |-> Head(queue[s]), result |-> "ok"]]
    <3>1. journal'.recs = journal.recs \cup {Line(s)} /\ Line(s).id = Head(queue[s]).id
      BY <2>1, <2>3, DoneType DEF DurabilityInv, Undamaged, Appended
    <3>2. Head(queue[s]).id \in OnDisk'
      BY <3>1 DEF OnDisk
    <3> QED
      BY <1>0, <2>1, <2>3, <3>2 DEF AnswersCovered, TypeOK, BusyOK
  <2> QED
    BY <1>3, <2>2, <2>3, RequestShape
<1>4. ASSUME NEW s \in Sessions,
             \/ LoadState(s) \/ ReadJournal(s) \/ ReplayRecord(s) \/ PublishHandle(s)
             \/ \E c \in Clients : Submit(s, c)
             \/ Close(s) \/ WriterEnds(s)
             \/ \E r \in Roles : SaverStep(s, r) \/ SaveFails(s, r)
      PROVE  UNCHANGED <<acked, busy>>
  BY <1>4 DEF LoadState, ReadJournal, ReplayRecord, PublishHandle, Submit, Close, WriterEnds,
              SaverStep, TruncateIdb, WriteIdb, WriteTmp, RenameTmp, SaveFails
<1>5. CASE FlushIdb \/ UNCHANGED vars
  BY <1>1, <1>5 DEF FlushIdb, vars, sessions
<1>6. CASE Crash
  BY <1>1, <1>6 DEF Crash, LoseMemory
<1>7. ~PowerLoss /\ \A s \in Sessions : ~CrashInAppend(s)
  BY DEF Serial, PowerLoss, CrashInAppend
<1> QED
  BY <1>1, <1>2, <1>3, <1>4, <1>5, <1>6, <1>7 DEF Next, WriterStep

(* When files are written whole, they also hold everything that was        *)
(* answered Ok or is about to be.                                          *)
THEOREM DurabilityInvariant == Serial => (Spec => []DurabilityInv)
<1> SUFFICES ASSUME Serial PROVE Spec => []DurabilityInv
  OBVIOUS
<1>1. Init => DurabilityInv
  BY FilesInit DEF Init, DurabilityInv, Undamaged, AnswersCovered, NoIdb
<1>2. TypeOK /\ DurabilityInv /\ [Next]_vars => DurabilityInv'
  BY FilesStepPreserves, StaysUndamaged, AnswersStep DEF DurabilityInv, Serial
<1> QED
  BY <1>1, <1>2, TypeInvariant, PTL DEF Spec

(* Whatever is answered Ok is brought back by the next open, whenever the  *)
(* process dies, as long as Serial holds.                                  *)
THEOREM Durability == Serial => (Spec => []AckedSurvive)
<1> SUFFICES ASSUME Serial PROVE Spec => []AckedSurvive
  OBVIOUS
<1>1. TypeOK /\ DurabilityInv => AckedSurvive
  BY DiskIdsAre DEF DurabilityInv, AnswersCovered, AckedSurvive
<1> QED
  BY <1>1, DurabilityInvariant, TypeInvariant, PTL

(* An edit is acknowledged only once it is on disk, in a step of its own. *)
LEMMA AckStep ==
  ASSUME TypeOK, DurabilityInv, [Next]_vars, acked' # acked
  PROVE  /\ \E i \in OnDisk : acked' = acked \cup {i}
         /\ OnDisk' = OnDisk
<1> USE DEF files, ghosts
<1>1. \A s \in Sessions : /\ ~LoadState(s) /\ ~ReadJournal(s) /\ ~ReplayRecord(s)
                          /\ ~PublishHandle(s) /\ ~(\E c \in Clients : Submit(s, c))
                          /\ ~Close(s) /\ ~WriterEnds(s) /\ ~CrashInAppend(s)
                          /\ ~ApplyOne(s) /\ ~UndoOne(s) /\ ~RedoOne(s)
  BY RequestShape
  DEF LoadState, ReadJournal, ReplayRecord, PublishHandle, Submit, Close, WriterEnds,
      CrashInAppend, LoseMemory
<1>2. \A s \in Sessions, r \in Roles : ~SaverStep(s, r) /\ ~SaveFails(s, r)
  BY DEF SaverStep, TruncateIdb, WriteIdb, WriteTmp, RenameTmp, SaveFails
<1>3. ~Crash /\ ~PowerLoss /\ ~FlushIdb /\ ~UNCHANGED vars
  BY DEF Crash, PowerLoss, FlushIdb, LoseMemory, vars
<1>4. PICK s \in Sessions : Respond(s)
  BY <1>1, <1>2, <1>3 DEF Next, WriterStep
<1>5. /\ busy[s] # NoResult /\ busy[s].result = "ok" /\ acked' = acked \cup {busy[s].req.id}
      /\ UNCHANGED <<idb, journal>>
  BY <1>4, RespondShape
<1> QED
  BY <1>5 DEF DurabilityInv, AnswersCovered, OnDisk, LoadedProject

(* The store implements DurableEdits: edits only ever become durable, and  *)
(* only durable ones are acknowledged.                                     *)
THEOREM Refinement == Serial => (Spec => ImplementsDurableEdits)
<1> SUFFICES ASSUME Serial PROVE Spec => ImplementsDurableEdits
  OBVIOUS
<1>1. Init => Abstract!Init
  BY DEF Init, Abstract!Init, DiskIds, LoadedProject, NoIdb, FreshProject, Replayable
<1>2. (TypeOK /\ FilesInv => DiskIds = OnDisk)'
  BY DiskIdsAre, PTL
<1>3. TypeOK => OnDisk \subseteq 1..MaxRequests
  BY DEF TypeOK, FilesOK, LinesOK, ProjectOK, OnDisk, LoadedProject, FreshProject, Ids
<1>4. (TypeOK => OnDisk \subseteq 1..MaxRequests)'
  BY <1>3, PTL
<1>5. TypeOK /\ TypeOK' /\ DurabilityInv /\ DurabilityInv' /\ [Next]_vars
        => [Abstract!Next]_<<DiskIds, acked>>
  <2> SUFFICES ASSUME TypeOK, TypeOK', DurabilityInv, DurabilityInv', [Next]_vars
               PROVE  [Abstract!Next]_<<DiskIds, acked>>
    OBVIOUS
  <2>1. DiskIds = OnDisk /\ DiskIds' = OnDisk'
    BY <1>2, DiskIdsAre DEF DurabilityInv
  <2>2. CASE acked' = acked
    <3>1. DiskIds' = DiskIds \cup DiskIds' /\ DiskIds' \in SUBSET (1..MaxRequests)
      BY <1>4, <2>1, OnDiskGrows DEF DurabilityInv
    <3> QED
      BY <2>2, <3>1 DEF Abstract!Next, Abstract!Persist
  <2>3. CASE acked' # acked
    BY <2>1, <2>3, AckStep DEF Abstract!Next, Abstract!Acknowledge
  <2> QED
    BY <2>2, <2>3
<1> QED
  BY <1>1, <1>5, TypeInvariant, DurabilityInvariant, PTL
  DEF Spec, ImplementsDurableEdits, Abstract!Spec
----------------------------------------------------------------------------
(* Damage explains what a reader loses. *)

(* What a session holds was read from the files or written to them, so an  *)
(* undamaged pair of files has all of it.                                  *)
HeldOnDisk ==
  \A s \in Sessions :
    /\ view[s].ids \subseteq writer[s].ids
    /\ phase[s] = "idle" => writer[s].ids = {}
    /\ Undamaged => writer[s].ids \subseteq OnDisk

(* A request that is performed, when no append fails without dying. *)
LEMMA HeldRequest ==
  ASSUME TypeOK, FilesInv, HeldOnDisk, "append_error" \notin Faults, NEW s \in Sessions,
         ApplyOne(s) \/ UndoOne(s) \/ RedoOne(s)
  PROVE  HeldOnDisk'
<1>1. /\ queue[s] # <<>> /\ UNCHANGED <<idb, phase, view>> /\ LoadedProject' = LoadedProject
      /\ CanExecute(s)
      /\ \/ /\ writer' = [writer EXCEPT ![s] = Done(s).proj]
            /\ journal' = Appended(journal, Line(s))
         \/ UNCHANGED <<journal, writer>>
  BY RequestShape DEF LoadedProject, CanExecute
<1>2. phase[s] = "open"
  BY <1>1, RequestAlone
<1>3. CASE UNCHANGED <<journal, writer>>
  BY <1>1, <1>3 DEF HeldOnDisk, Undamaged, OnDisk
<1>4. CASE /\ writer' = [writer EXCEPT ![s] = Done(s).proj]
           /\ journal' = Appended(journal, Line(s))
  <2>1. /\ writer'[s].ids = writer[s].ids \cup {Line(s).id}
        /\ \A t \in Sessions : t # s => writer'[t] = writer[t]
    BY <1>1, <1>4, DoneType DEF TypeOK, ProjectsOK
  <2>2. Undamaged' => Undamaged /\ OnDisk' = OnDisk \cup {Line(s).id}
    <3>1. journal.tail \in {"clean", "no_newline", "torn"}
      BY DEF TypeOK, FilesOK
    <3>2. Undamaged' => journal.tail = "clean"
      BY <1>4, <3>1 DEF Undamaged, Appended
    <3>3. journal.tail = "clean" => journal'.recs = journal.recs \cup {Line(s)}
      BY <1>4 DEF Appended
    <3> QED
      BY <1>1, <3>2, <3>3 DEF Undamaged, OnDisk
  <2> QED
    BY <1>1, <1>2, <2>1, <2>2 DEF HeldOnDisk
<1> QED
  BY <1>1, <1>3, <1>4

(* The steps of a save: what is written is the project of the one session  *)
(* that uses the files.                                                    *)
LEMMA HeldSave ==
  ASSUME TypeOK, FilesInv, HeldOnDisk, NEW s \in Sessions, NEW r \in Roles,
         SaverStep(s, r) \/ SaveFails(s, r)
  PROVE  HeldOnDisk'
<1> USE DEF files, ghosts
<1>1. UNCHANGED <<phase, writer, view>> /\ saver[s][r].pc # "idle"
  BY DEF SaverStep, TruncateIdb, WriteIdb, WriteTmp, RenameTmp, SaveFails, SaveStep
<1>2. /\ saver[s][r].snap = writer[s]
      /\ \A t \in Sessions : t # s => writer[t].ids = {}
  <2>1. phase[s] # "idle"
    BY <1>1, ActiveNotIdle DEF FilesInv
  <2> QED
    BY <1>1, <2>1, ActiveSession DEF FilesInv, SavesCover, HeldOnDisk
<1>3. CASE UNCHANGED <<idb, journal>>
  BY <1>1, <1>3 DEF HeldOnDisk, Undamaged, OnDisk, LoadedProject
<1>4. CASE TruncateIdb(s, r)
  BY <1>1, <1>4 DEF TruncateIdb, UnreadableIdb, Undamaged, HeldOnDisk
<1>5. CASE WriteIdb(s, r)
  <2>1. writer[s].ids \subseteq OnDisk'
    BY <1>2, <1>5 DEF WriteIdb, OnDisk, LoadedProject
  <2> QED
    BY <1>1, <1>2, <2>1 DEF HeldOnDisk
<1>6. CASE RenameTmp(s, r)
  <2>1. idb' = idb /\ LoadedProject = writer[s]
    BY <1>6 DEF RenameTmp, SaveStep, FilesInv, SavesCover, LoadedProject
  <2>2. writer[s].ids \subseteq OnDisk'
    BY <2>1 DEF OnDisk, LoadedProject
  <2> QED
    BY <1>1, <1>2, <2>2 DEF HeldOnDisk
<1>7. CASE WriteTmp(s, r) \/ SaveFails(s, r)
  BY <1>3, <1>7 DEF WriteTmp, SaveFails
<1> QED
  BY <1>4, <1>5, <1>6, <1>7 DEF SaverStep

(* The invariant of DamageIsSeen is kept by every step. *)
LEMMA HeldStep ==
  ASSUME TypeOK, FilesInv, HeldOnDisk, "append_error" \notin Faults, [Next]_vars
  PROVE  HeldOnDisk'
<1> USE DEF files, ghosts
<1>1. ASSUME NEW s \in Sessions, LoadState(s) PROVE HeldOnDisk'
  BY <1>1 DEF LoadState, HeldOnDisk, Undamaged, OnDisk, LoadedProject, TypeOK, ProjectsOK
<1>2. ASSUME NEW s \in Sessions, ReplayRecord(s) PROVE HeldOnDisk'
  <2>1. PICK line \in todo[s] : writer' = [writer EXCEPT ![s] = Replayed(@, line)]
    BY <1>2 DEF ReplayRecord
  <2>2. /\ phase[s] = "replay" /\ line \in journal.recs
        /\ UNCHANGED <<idb, journal, phase, view>>
    BY <1>2, <2>1 DEF ReplayRecord, FilesInv, WriterCovers
  <2>3. /\ writer[s].ids \subseteq writer'[s].ids
        /\ writer'[s].ids \subseteq writer[s].ids \cup {line.id}
        /\ \A t \in Sessions : t # s => writer'[t] = writer[t]
    BY <2>1 DEF Replayed, ReplayedOp, TypeOK, ProjectsOK
  <2>4. line.id \in OnDisk /\ OnDisk' = OnDisk /\ Undamaged' = Undamaged
    BY <2>2 DEF OnDisk, Undamaged, LoadedProject
  <2> QED
    BY <2>2, <2>3, <2>4 DEF HeldOnDisk
<1>3. ASSUME NEW s \in Sessions, ReadJournal(s) \/ PublishHandle(s) \/ Close(s) PROVE HeldOnDisk'
  BY <1>3 DEF ReadJournal, PublishHandle, Close, HeldOnDisk, Undamaged, OnDisk, LoadedProject,
              TypeOK, ProjectsOK
<1>4. ASSUME NEW s \in Sessions, NEW c \in Clients, Submit(s, c) PROVE HeldOnDisk'
  BY <1>4 DEF Submit, HeldOnDisk, Undamaged, OnDisk, LoadedProject
<1>5. ASSUME NEW s \in Sessions, Respond(s) PROVE HeldOnDisk'
  <2>1. view' = [view EXCEPT ![s] = writer[s]] /\ UNCHANGED <<idb, journal, phase, writer>>
    BY <1>5, RespondShape
  <2> QED
    BY <2>1 DEF HeldOnDisk, Undamaged, OnDisk, LoadedProject, TypeOK, ProjectsOK
<1>6. ASSUME NEW s \in Sessions, WriterEnds(s) PROVE HeldOnDisk'
  BY <1>6 DEF WriterEnds, HeldOnDisk, Undamaged, OnDisk, LoadedProject, FreshProject, TypeOK,
              ProjectsOK
<1>7. CASE LoseMemory
  BY <1>7 DEF LoseMemory, HeldOnDisk, FreshProject
<1>8. CASE FlushIdb \/ UNCHANGED vars
  BY <1>8 DEF FlushIdb, vars, sessions, HeldOnDisk, Undamaged, OnDisk, LoadedProject
<1> QED
  BY <1>1, <1>2, <1>3, <1>4, <1>5, <1>6, <1>7, <1>8, HeldRequest, HeldSave
  DEF Next, WriterStep, Crash, PowerLoss, CrashInAppend

(* Whatever is torn, lost or fails to be saved, and whenever the process   *)
(* dies: a reader can see an edit that the files do not bring back only    *)
(* while the IDB is unreadable or the journal ends in a broken line.  Two  *)
(* sessions on the files, and appends that fail while the process lives,   *)
(* are excluded: they lose edits without a trace.                          *)
THEOREM DamageIsSeen ==
  Exclusive /\ "append_error" \notin Faults => (Spec => []DamageExplainsLoss)
<1> SUFFICES ASSUME Exclusive, "append_error" \notin Faults
             PROVE  Spec => []DamageExplainsLoss
  OBVIOUS
<1>1. Init => HeldOnDisk
  BY DEF Init, HeldOnDisk, FreshProject
<1>2. TypeOK /\ FilesInv /\ HeldOnDisk /\ [Next]_vars => HeldOnDisk'
  BY HeldStep
<1>3. TypeOK /\ FilesInv /\ HeldOnDisk => DamageExplainsLoss
  BY DiskIdsAre DEF HeldOnDisk, DamageExplainsLoss, PublishedIsDurable
<1> QED
  BY <1>1, <1>2, <1>3, TypeInvariant, FilesInvariant, PTL DEF Spec

----------------------------------------------------------------------------
(* What ops do, for every op: no assumption on states or values.           *)

(* What a primitive op captures when nothing was captured yet. *)
Found(st, op) == IF op.kind = "focus" THEN st.focus ELSE OldValue(Slot(st, op), op)

(* A capture changes the op's old value only, and keeps it an op. *)
LEMMA CaptureShape ==
  ASSUME NEW st, NEW op, IsPrim(op)
  PROVE  /\ IsPrim(Capture(st, op))
         /\ Capture(st, op).kind = op.kind
         /\ Capture(st, op).va = op.va
         /\ Capture(st, op).value = op.value
         /\ op.old # NoCapture => Capture(st, op).old = op.old
         /\ op.old = NoCapture /\ Found(st, op) = Absent /\ op.kind \notin {"local_name", "memory"}
              => Capture(st, op).old = NoCapture
         /\ op.old = NoCapture /\ ~(Found(st, op) = Absent /\ op.kind \notin {"local_name", "memory"})
              => Capture(st, op).old = Found(st, op)
<1>1. CASE op.old # NoCapture
  <2>1. Capture(st, op) = op
    BY <1>1 DEF Capture
  <2> QED
    BY <1>1, <2>1
<1>2. CASE op.old = NoCapture
  <2>0. PICK old : old = Found(st, op)
    OBVIOUS
  <2>1. Capture(st, op) = WithOld(op, old)
    BY <1>2, <2>0 DEF Capture, Found
  <2>2. CASE old = Absent /\ op.kind \notin {"local_name", "memory"}
    <3>1. WithOld(op, old) = op
      BY <2>2 DEF WithOld
    <3> QED
      BY <1>2, <2>0, <2>1, <2>2, <3>1
  <2>3. CASE ~(old = Absent /\ op.kind \notin {"local_name", "memory"})
    <3>1. WithOld(op, old) = [op EXCEPT !.old = old]
      BY <2>3 DEF WithOld
    <3>2. PICK o : o = [op EXCEPT !.old = old]
      OBVIOUS
    <3>3. /\ DOMAIN o = {"kind", "va", "value", "old"} /\ o.kind = op.kind /\ o.va = op.va
          /\ o.value = op.value /\ o.old = old
      BY <3>2 DEF IsPrim
    <3>4. IsPrim(o)
      BY <2>3, <3>3 DEF IsPrim
    <3> QED
      BY <1>2, <2>0, <2>1, <2>3, <3>1, <3>2, <3>3, <3>4
  <2> QED
    BY <2>2, <2>3
<1> QED
  BY <1>1, <1>2

(* The JSON line of a primitive op is an op that lost at most the capture  *)
(* "there was none".                                                       *)
LEMMA JournaledShape ==
  ASSUME NEW op, IsPrim(op)
  PROVE  /\ IsPrim(JournaledPrim(op))
         /\ JournaledPrim(op).kind = op.kind /\ JournaledPrim(op).va = op.va
         /\ JournaledPrim(op).value = op.value
         /\ JournaledPrim(op).old = IF op.old = Absent THEN NoCapture ELSE op.old
<1>1. CASE op.old = Absent
  <2>1. PICK o : o = [op EXCEPT !.old = NoCapture]
    OBVIOUS
  <2>2. /\ DOMAIN o = {"kind", "va", "value", "old"} /\ o.kind = op.kind /\ o.va = op.va
        /\ o.value = op.value /\ o.old = NoCapture
    BY <2>1 DEF IsPrim
  <2>3. IsPrim(o)
    BY <2>2, OpsAssumption DEF IsPrim
  <2> QED
    BY <1>1, <2>1, <2>2, <2>3 DEF JournaledPrim
<1>2. CASE op.old # Absent
  BY <1>2 DEF JournaledPrim
<1> QED
  BY <1>1, <1>2

(* What an op writes depends on its old value only if it is a rename. *)
LEMMA WrittenSame ==
  ASSUME NEW st, NEW a, NEW b, a.kind = b.kind, a.va = b.va, a.value = b.value,
         a.kind = "symbol" => a.old = b.old
  PROVE  Written(st, a) = Written(st, b)
<1>1. CASE a.kind = "focus"
  BY <1>1 DEF Written
<1>2. CASE a.kind # "focus"
  <2>1. \A cur : NewValue(cur, a) = NewValue(cur, b)
    BY DEF NewValue
  <2>2. SlotOf(a.kind) = SlotOf(b.kind)
    OBVIOUS
  <2>3. CASE a.kind = "symbol"
    BY <1>2, <2>1, <2>2, <2>3 DEF Written
  <2>4. CASE a.kind # "symbol"
    BY <1>2, <2>1, <2>2, <2>4 DEF Written
  <2> QED
    BY <2>3, <2>4
<1> QED
  BY <1>1, <1>2

(* A primitive op that was captured and read back from the journal does to *)
(* the state it was applied to what it did before.                         *)
LEMMA ReplayPrim ==
  ASSUME NEW st, NEW op, IsPrim(op)
  PROVE  ApplyPrim(st, JournaledPrim(ApplyPrim(st, op).op)).st = ApplyPrim(st, op).st
<1>1. PICK o : o = Capture(st, op)
  OBVIOUS
<1>2. PICK j : j = JournaledPrim(o)
  OBVIOUS
<1>3. PICK c : c = Capture(st, j)
  OBVIOUS
<1>4. IsPrim(o) /\ IsPrim(j)
  BY <1>1, <1>2, CaptureShape, JournaledShape
<1>5. /\ c.kind = o.kind /\ c.va = o.va /\ c.value = o.value
      /\ o.kind = op.kind /\ o.va = op.va
      /\ j.kind = op.kind /\ j.va = op.va
  <2>1. o.kind = op.kind /\ o.va = op.va
    BY <1>1, CaptureShape
  <2>2. j.kind = o.kind /\ j.va = o.va /\ j.value = o.value
    BY <1>2, <1>4, JournaledShape
  <2>3. c.kind = j.kind /\ c.va = j.va /\ c.value = j.value
    BY <1>3, <1>4, CaptureShape
  <2> QED
    BY <2>1, <2>2, <2>3
<1>6. o.kind = "symbol" => c.old = o.old
  <2> SUFFICES ASSUME o.kind = "symbol" PROVE c.old = o.old
    OBVIOUS
  <2>1. o.old # Absent /\ j.old = o.old
    BY <1>2, <1>4, JournaledShape DEF IsPrim
  <2>2. CASE o.old # NoCapture
    BY <1>3, <1>4, <2>1, <2>2, CaptureShape
  <2>3. CASE o.old = NoCapture
    <3>1. op.old = NoCapture
      BY <1>1, <2>3, CaptureShape
    <3>2. Found(st, j) = Found(st, op)
      BY <1>5 DEF Found, Slot, OldValue
    <3>3. /\ o.old = IF Found(st, op) = Absent THEN NoCapture ELSE Found(st, op)
      BY <1>1, <1>5, <3>1, CaptureShape
    <3>4. /\ c.old = IF Found(st, j) = Absent THEN NoCapture ELSE Found(st, j)
      BY <1>3, <1>4, <1>5, <2>1, <2>3, CaptureShape
    <3> QED
      BY <3>2, <3>3, <3>4
  <2> QED
    BY <2>2, <2>3
<1>7. Written(st, c) = Written(st, o)
  BY <1>5, <1>6, WrittenSame
<1> QED
  BY <1>1, <1>2, <1>3, <1>7 DEF ApplyPrim, Applied
(* The recursive definition of AppliedUpTo has a solution. *)
LEMMA AppliedDefined ==
  ASSUME NEW st, NEW S, NEW ops \in Seq(S)
  PROVE  /\ AppliedUpTo(st, ops)[0] = [st |-> st, ops |-> <<>>]
         /\ \A i \in 1..Len(ops) :
              AppliedUpTo(st, ops)[i] = ApplyChild(AppliedUpTo(st, ops)[i - 1], ops[i])
<1> DEFINE base == [st |-> st, ops |-> <<>>]
           Solves(f, n) ==
             f = [i \in 0..n |-> IF i = 0 THEN base ELSE ApplyChild(f[i - 1], ops[i])]
           Good == {n \in Nat : \E f : Solves(f, n)}
<1> HIDE DEF base
<1>1. 0 \in Good
  <2> DEFINE f == [i \in 0..0 |-> base]
  <2>1. Solves(f, 0)
    OBVIOUS
  <2> QED
    BY <2>1
<1>2. ASSUME NEW n \in Nat, n \in Good PROVE n + 1 \in Good
  <2>1. PICK f : Solves(f, n)
    BY <1>2
  <2> DEFINE last == ApplyChild(f[n], ops[n + 1])
             g == [i \in 0..(n + 1) |-> IF i = n + 1 THEN last ELSE f[i]]
  <2>2. \A i \in 0..n : f[i] = IF i = 0 THEN base ELSE ApplyChild(f[i - 1], ops[i])
    BY <2>1
  <2>3. /\ g[n + 1] = last /\ \A i \in 0..n : g[i] = f[i]
        /\ DOMAIN g = 0..(n + 1)
    OBVIOUS
  <2>4. last = ApplyChild(g[n], ops[n + 1])
    BY <2>3
  <2> HIDE DEF last, g
  <2>5. \A i \in 0..(n + 1) : g[i] = IF i = 0 THEN base ELSE ApplyChild(g[i - 1], ops[i])
    <3> SUFFICES ASSUME NEW i \in 0..(n + 1)
                 PROVE  g[i] = IF i = 0 THEN base ELSE ApplyChild(g[i - 1], ops[i])
      OBVIOUS
    <3>1. CASE i = n + 1
      BY <2>3, <2>4, <3>1
    <3>2. CASE i = 0
      BY <2>2, <2>3, <3>2
    <3>3. CASE i \in 1..n
      <4>1. i \in 0..n /\ i - 1 \in 0..n
        BY <3>3
      <4> QED
        BY <2>2, <2>3, <3>3, <4>1
    <3> QED
      BY <3>1, <3>2, <3>3
  <2>6. Solves(g, n + 1)
    <3>1. g = [i \in 0..(n + 1) |-> g[i]]
      BY <2>3 DEF g
    <3> QED
      BY <2>5, <3>1
  <2> QED
    BY <2>6
<1> HIDE DEF Good
<1>3. Len(ops) \in Good /\ Len(ops) \in Nat
  BY <1>1, <1>2, Induction
<1>4. \E f : Solves(f, Len(ops))
  BY <1>3 DEF Good
<1>5. PICK F : F = AppliedUpTo(st, ops)
  OBVIOUS
<1>6. Solves(F, Len(ops))
  BY <1>4, <1>5 DEF AppliedUpTo, base
<1>7. F[0] = base
  BY <1>3, <1>6
<1>8. ASSUME NEW i \in 1..Len(ops) PROVE F[i] = ApplyChild(F[i - 1], ops[i])
  <2>1. i \in 0..Len(ops) /\ i # 0
    BY <1>3
  <2> QED
    BY <1>6, <2>1
<1> QED
  BY <1>5, <1>7, <1>8 DEF base

(* The children of a batch as the batch leaves them. *)
Captured(st, ops, i) == ApplyPrim(AppliedUpTo(st, ops)[i - 1].st, ops[i]).op

(* F runs through the states that the children of a batch leave. *)
Runs(F, st, ops) ==
  /\ F[0].st = st
  /\ \A i \in 1..Len(ops) : F[i].st = ApplyPrim(F[i - 1].st, ops[i]).st

(* One member of a batch: the state it gives, and the op it records. *)
LEMMA ChildStep ==
  ASSUME NEW acc, NEW child
  PROVE  /\ ApplyChild(acc, child).st = ApplyPrim(acc.st, child).st
         /\ ApplyChild(acc, child).ops = Append(acc.ops, ApplyPrim(acc.st, child).op)
<1>1. PICK r : r = ApplyPrim(acc.st, child)
  OBVIOUS
<1>2. ApplyChild(acc, child) = AddChild(acc, r)
  BY <1>1 DEF ApplyChild
<1> QED
  BY <1>1, <1>2 DEF AddChild

(* A batch goes through the states that its members give in turn. *)
LEMMA BatchRuns ==
  ASSUME NEW st, NEW S, NEW ops \in Seq(S)
  PROVE  Runs(AppliedUpTo(st, ops), st, ops)
<1>1. PICK F : F = AppliedUpTo(st, ops)
  OBVIOUS
<1>2. /\ F[0] = [st |-> st, ops |-> <<>>]
      /\ \A i \in 1..Len(ops) : F[i] = ApplyChild(F[i - 1], ops[i])
  BY <1>1, AppliedDefined
<1>3. ASSUME NEW i \in 1..Len(ops) PROVE F[i].st = ApplyPrim(F[i - 1].st, ops[i]).st
  BY <1>2, ChildStep
<1> QED
  BY <1>1, <1>2, <1>3 DEF Runs

(* A batch keeps its children, each with its capture. *)
LEMMA BatchSteps ==
  ASSUME NEW st, NEW S, NEW ops \in Seq(S)
  PROVE  /\ AppliedUpTo(st, ops)[Len(ops)].ops
              \in Seq({Captured(st, ops, i) : i \in 1..Len(ops)})
         /\ Len(AppliedUpTo(st, ops)[Len(ops)].ops) = Len(ops)
         /\ \A i \in 1..Len(ops) :
              AppliedUpTo(st, ops)[Len(ops)].ops[i] = Captured(st, ops, i)
<1> DEFINE C == {Captured(st, ops, i) : i \in 1..Len(ops)}
<1>1. PICK F : F = AppliedUpTo(st, ops)
  OBVIOUS
<1>2. /\ F[0] = [st |-> st, ops |-> <<>>]
      /\ \A i \in 1..Len(ops) : F[i] = ApplyChild(F[i - 1], ops[i])
  BY <1>1, AppliedDefined
<1>3. ASSUME NEW i \in 1..Len(ops)
      PROVE  F[i].ops = Append(F[i - 1].ops, Captured(st, ops, i))
  BY <1>1, <1>2, ChildStep DEF Captured
<1>4. \A i \in 1..Len(ops) : Captured(st, ops, i) \in C
  OBVIOUS
<1>5. Len(ops) \in Nat
  OBVIOUS
<1> DEFINE Sound(n) == /\ F[n].ops \in Seq(C) /\ Len(F[n].ops) = n
                       /\ \A i \in 1..n : F[n].ops[i] = Captured(st, ops, i)
           Good == {n \in Nat : n <= Len(ops) => Sound(n)}
<1> HIDE DEF C
<1>6. 0 \in Good
  <2>1. F[0].ops = <<>>
    BY <1>2
  <2>2. F[0].ops \in Seq(C) /\ Len(F[0].ops) = 0
    BY <2>1
  <2> QED
    BY <2>2
<1>7. ASSUME NEW n \in Nat, n \in Good PROVE n + 1 \in Good
  <2> SUFFICES ASSUME n + 1 <= Len(ops) PROVE Sound(n + 1)
    OBVIOUS
  <2>1. Sound(n)
    BY <1>5, <1>7
  <2>2. n + 1 \in 1..Len(ops) /\ (n + 1) - 1 = n
    BY <1>5
  <2>3. PICK c \in C : c = Captured(st, ops, n + 1)
    BY <1>4, <2>2
  <2>4. F[n + 1].ops = Append(F[n].ops, c)
    BY <1>3, <2>2, <2>3
  <2>5. PICK q \in Seq(C) : q = F[n].ops
    BY <2>1
  <2>6. /\ Append(q, c) \in Seq(C) /\ Len(Append(q, c)) = n + 1
        /\ Append(q, c)[n + 1] = c
        /\ \A i \in 1..n : Append(q, c)[i] = q[i]
    BY <2>1, <2>5, AppendProperties
  <2>7. \A i \in 1..(n + 1) : i = n + 1 \/ i \in 1..n
    OBVIOUS
  <2> QED
    BY <2>1, <2>3, <2>4, <2>5, <2>6, <2>7
<1> HIDE DEF Good, Sound
<1>8. Len(ops) \in Good
  BY <1>5, <1>6, <1>7, Induction
<1>9. Sound(Len(ops))
  BY <1>5, <1>8 DEF Good
<1> QED
  BY <1>1, <1>9 DEF Sound, C

(* A batch is applied to a batch with as many children, all of them ops.   *)
LEMMA BatchShape ==
  ASSUME NEW st, NEW op, op.kind = "batch", IsOp(op)
  PROVE  /\ Len(op.ops) \in Nat
         /\ ApplyTo(st, op).st = AppliedUpTo(st, op.ops)[Len(op.ops)].st
         /\ ApplyTo(st, op).op.kind = "batch"
         /\ Len(ApplyTo(st, op).op.ops) = Len(op.ops)
         /\ \A i \in 1..Len(op.ops) :
              /\ IsPrim(op.ops[i])
              /\ ApplyTo(st, op).op.ops[i] = Captured(st, op.ops, i)
              /\ IsPrim(ApplyTo(st, op).op.ops[i])
         /\ IsOp(ApplyTo(st, op).op)
<1>1. PICK S : op.ops \in Seq(S)
  BY DEF IsOp
<1>2. PICK ops \in Seq(S) : ops = op.ops
  BY <1>1
<1>3. Len(ops) \in Nat /\ DOMAIN ops = 1..Len(ops)
  OBVIOUS
<1>4. \A i \in 1..Len(ops) : IsPrim(ops[i])
  BY <1>2, <1>3 DEF IsOp
<1>5. PICK r : r = ApplyTo(st, op)
  OBVIOUS
<1>6. r.st = AppliedUpTo(st, ops)[Len(ops)].st /\ r.op = [kind |-> "batch", ops |-> AppliedUpTo(st, ops)[Len(ops)].ops]
  BY <1>2, <1>5 DEF ApplyTo, Batched
<1>7. PICK q : q = AppliedUpTo(st, ops)[Len(ops)].ops
  OBVIOUS
<1>8. /\ q \in Seq({Captured(st, ops, i) : i \in 1..Len(ops)})
      /\ Len(q) = Len(ops) /\ \A i \in 1..Len(ops) : q[i] = Captured(st, ops, i)
  BY <1>7, BatchSteps
<1>9. \A i \in 1..Len(ops) : IsPrim(Captured(st, ops, i))
  BY <1>4, CaptureShape DEF Captured, ApplyPrim, Applied
<1>10. /\ DOMAIN q = 1..Len(ops)
       /\ {Captured(st, ops, i) : i \in 1..Len(ops)} = {q[i] : i \in DOMAIN q}
  <2>1. DOMAIN q = 1..Len(ops)
    BY <1>8
  <2> QED
    BY <1>8, <2>1
<1>11. IsOp(r.op)
  <2>1. PICK b : b = [kind |-> "batch", ops |-> q]
    OBVIOUS
  <2>2. r.op = b /\ b.kind = "batch" /\ b.ops = q
    BY <1>6, <1>7, <2>1
  <2>3. q \in Seq({q[i] : i \in DOMAIN q})
    BY <1>8, <1>10
  <2>4. \A i \in DOMAIN q : IsPrim(q[i])
    BY <1>8, <1>9, <1>10
  <2> QED
    BY <2>1, <2>2, <2>3, <2>4 DEF IsOp
<1> QED
  BY <1>2, <1>3, <1>4, <1>5, <1>6, <1>7, <1>8, <1>9, <1>11

(* Op::apply_to and the journal, for every op, batches included: replaying *)
(* the line of an op on the state that the op was applied to gives what    *)
(* applying it gave.                                                       *)
LEMMA ReplayOp ==
  ASSUME NEW st, NEW op, IsOp(op)
  PROVE  ApplyTo(st, Journaled(ApplyTo(st, op).op)).st = ApplyTo(st, op).st
<1>1. CASE op.kind # "batch"
  <2>1. IsPrim(op)
    BY <1>1 DEF IsOp
  <2>2. PICK r : r = ApplyPrim(st, op)
    OBVIOUS
  <2>3. IsPrim(r.op) /\ r.op.kind = op.kind
    BY <2>1, <2>2, CaptureShape DEF ApplyPrim, Applied
  <2>4. PICK j : j = JournaledPrim(r.op)
    OBVIOUS
  <2>5. j.kind = op.kind
    BY <2>3, <2>4, JournaledShape
  <2>6. ApplyTo(st, op) = r /\ Journaled(r.op) = j
    BY <1>1, <2>2, <2>3, <2>4 DEF ApplyTo, Journaled
  <2>7. ApplyTo(st, j) = ApplyPrim(st, j)
    BY <1>1, <2>5 DEF ApplyTo
  <2> QED
    BY <2>1, <2>2, <2>4, <2>6, <2>7, ReplayPrim
<1>2. CASE op.kind = "batch"
  <2>1. PICK ops : ops = op.ops
    OBVIOUS
  <2>2. PICK r : r = ApplyTo(st, op)
    OBVIOUS
  <2>3. PICK S : ops \in Seq(S)
    BY <1>2, <2>1 DEF IsOp
  <2>4. /\ Len(ops) \in Nat /\ r.st = AppliedUpTo(st, ops)[Len(ops)].st
        /\ r.op.kind = "batch" /\ Len(r.op.ops) = Len(ops)
        /\ \A i \in 1..Len(ops) : /\ IsPrim(ops[i])
                                  /\ r.op.ops[i] = Captured(st, ops, i)
    BY <1>2, <2>1, <2>2, BatchShape
  <2>5. PICK q : q = [i \in 1..Len(ops) |-> JournaledPrim(Captured(st, ops, i))]
    OBVIOUS
  <2>6. /\ q \in Seq({q[i] : i \in 1..Len(ops)}) /\ Len(q) = Len(ops)
        /\ \A i \in 1..Len(ops) : q[i] = JournaledPrim(Captured(st, ops, i))
    BY <2>4, <2>5
  <2>7. PICK j : j = [kind |-> "batch", ops |-> q]
    OBVIOUS
  <2>8. Journaled(r.op) = j
    BY <2>4, <2>5, <2>7 DEF Journaled
  <2>9. PICK F : F = AppliedUpTo(st, ops)
    OBVIOUS
  <2>10. PICK G : G = AppliedUpTo(st, q)
    OBVIOUS
  <2>11. ApplyTo(st, j).st = G[Len(ops)].st
    BY <2>6, <2>7, <2>10 DEF ApplyTo, Batched
  <2>12. F[0].st = st /\ \A i \in 1..Len(ops) : F[i].st = ApplyPrim(F[i - 1].st, ops[i]).st
    BY <2>3, <2>9, BatchRuns DEF Runs
  <2>13. G[0].st = st /\ \A i \in 1..Len(ops) : G[i].st = ApplyPrim(G[i - 1].st, q[i]).st
    <3>1. Runs(G, st, q)
      BY <2>6, <2>10, BatchRuns
    <3> QED
      BY <2>6, <3>1 DEF Runs
  <2> DEFINE Good == {n \in Nat : n <= Len(ops) => G[n].st = F[n].st}
  <2>14. 0 \in Good
    BY <2>12, <2>13
  <2>15. ASSUME NEW n \in Nat, n \in Good PROVE n + 1 \in Good
    <3> SUFFICES ASSUME n + 1 <= Len(ops) PROVE G[n + 1].st = F[n + 1].st
      OBVIOUS
    <3>1. n + 1 \in 1..Len(ops) /\ (n + 1) - 1 = n /\ G[n].st = F[n].st
      BY <2>4, <2>15
    <3>2. PICK k \in 1..Len(ops) : k = n + 1 /\ k - 1 = n
      BY <3>1
    <3>3. q[k] = JournaledPrim(ApplyPrim(F[n].st, ops[k]).op)
      BY <2>6, <2>9, <3>2 DEF Captured
    <3>4. G[k].st = ApplyPrim(F[n].st, q[k]).st /\ F[k].st = ApplyPrim(F[n].st, ops[k]).st
      BY <2>12, <2>13, <3>1, <3>2
    <3>5. IsPrim(ops[k])
      BY <2>4
    <3>6. G[k].st = F[k].st
      BY <3>3, <3>4, <3>5, ReplayPrim
    <3> QED
      BY <3>2, <3>6
  <2> HIDE DEF Good
  <2>16. Len(ops) \in Good
    BY <2>4, <2>14, <2>15, Induction
  <2>17. G[Len(ops)].st = F[Len(ops)].st
    BY <2>4, <2>16 DEF Good
  <2> QED
    BY <2>2, <2>4, <2>8, <2>9, <2>11, <2>17
<1> QED
  BY <1>1, <1>2

(* Applying an op and inverting it give ops again. *)
LEMMA AppliedIsOp ==
  ASSUME NEW st, NEW op, IsOp(op)
  PROVE  IsOp(ApplyTo(st, op).op)
<1>1. CASE op.kind # "batch"
  <2>1. IsPrim(op)
    BY <1>1 DEF IsOp
  <2>2. PICK c : c = Capture(st, op)
    OBVIOUS
  <2>3. IsPrim(c) /\ c.kind = op.kind
    BY <2>1, <2>2, CaptureShape
  <2>4. ApplyTo(st, op).op = c
    BY <1>1, <2>2 DEF ApplyTo, ApplyPrim, Applied
  <2> QED
    BY <1>1, <2>3, <2>4 DEF IsOp
<1> QED
  BY <1>1, BatchShape

(* The inverse of a single edit is one, of the same kind. *)
LEMMA InverseIsPrim ==
  ASSUME NEW op, IsPrim(op)
  PROVE  IsPrim(InversePrim(op)) /\ InversePrim(op).kind = op.kind
<1>1. CASE op.kind = "focus"
  <2>1. PICK va : va = IF op.old = NoCapture THEN op.va ELSE op.old
    OBVIOUS
  <2>2. va # Absent
    BY <1>1, <2>1 DEF IsPrim
  <2>3. PICK i : i = [op EXCEPT !.va = va, !.old = op.va]
    OBVIOUS
  <2>4. InversePrim(op) = i
    BY <1>1, <2>1, <2>3 DEF InversePrim
  <2>5. /\ DOMAIN i = {"kind", "va", "value", "old"} /\ i.kind = op.kind /\ i.va = va
        /\ i.value = op.value /\ i.old = op.va
    BY <2>3 DEF IsPrim
  <2> QED
    BY <2>2, <2>4, <2>5 DEF IsPrim
<1>2. CASE op.kind # "focus"
  <2>1. PICK value : value = IF op.old \in {NoCapture, Absent} THEN UndoDefault(op.kind) ELSE op.old
    OBVIOUS
  <2>2. value # Absent
    BY <1>2, <2>1, EditsAssumption DEF IsPrim
  <2>3. PICK i : i = [op EXCEPT !.value = value, !.old = op.value]
    OBVIOUS
  <2>4. InversePrim(op) = i
    BY <1>2, <2>1, <2>3 DEF InversePrim
  <2>5. /\ DOMAIN i = {"kind", "va", "value", "old"} /\ i.kind = op.kind /\ i.va = op.va
        /\ i.value = value /\ i.old = op.value
    BY <2>3 DEF IsPrim
  <2> QED
    BY <2>2, <2>4, <2>5 DEF IsPrim
<1> QED
  BY <1>1, <1>2

(* The inverse of an op is one, so an undo is replayed like an edit. *)
LEMMA InverseIsOp ==
  ASSUME NEW op, IsOp(op)
  PROVE  IsOp(InverseOp(op))
<1>1. CASE op.kind # "batch"
  BY <1>1, InverseIsPrim DEF IsOp, InverseOp
<1>2. CASE op.kind = "batch"
  <2>1. PICK ops : ops = op.ops
    OBVIOUS
  <2>2. PICK n \in Nat : n = Len(ops) /\ DOMAIN ops = 1..n
    <3>1. PICK S : ops \in Seq(S)
      BY <1>2, <2>1 DEF IsOp
    <3> QED
      BY <3>1
  <2>3. PICK inv : inv = [i \in 1..n |-> InversePrim(ops[n - i + 1])]
    OBVIOUS
  <2>4. \A i \in 1..n : IsPrim(inv[i])
    <3> SUFFICES ASSUME NEW i \in 1..n PROVE IsPrim(inv[i])
      OBVIOUS
    <3>1. n - i + 1 \in 1..n
      OBVIOUS
    <3>2. IsPrim(ops[n - i + 1])
      BY <1>2, <2>1, <2>2, <3>1 DEF IsOp
    <3> QED
      BY <2>3, <3>2, InverseIsPrim
  <2>5. DOMAIN inv = 1..n /\ inv \in Seq({inv[i] : i \in DOMAIN inv})
    <3>1. DOMAIN inv = 1..n
      BY <2>3
    <3>2. inv \in [1..n -> {inv[i] : i \in 1..n}]
      BY <2>3
    <3> QED
      BY <3>1, <3>2
  <2>6. InverseOp(op) = [kind |-> "batch", ops |-> inv]
    BY <1>2, <2>1, <2>2, <2>3 DEF InverseOp
  <2> QED
    BY <2>4, <2>5, <2>6 DEF IsOp
<1> QED
  BY <1>1, <1>2
----------------------------------------------------------------------------
(* Every copy of the project is a state of one history. *)

(* The copies of HistoryAgrees but for those being saved, which FilesInv   *)
(* says are the writer's.                                                  *)
Copies ==
  /\ LoadedProject.st = hist[LoadedProject.seq]
  /\ \A s \in Sessions : /\ writer[s].st = hist[writer[s].seq]
                         /\ view[s].st = hist[view[s].seq]

(* No sequence number exceeds the number of requests. *)
Numbered ==
  /\ DOMAIN hist = 0..MaxRequests /\ hist[0] = InitState
  /\ LoadedProject.seq <= issued
  /\ \A l \in journal.recs : l.seq <= issued
  /\ \A s \in Sessions : /\ writer[s].seq + Len(queue[s]) <= issued
                         /\ view[s].seq <= writer[s].seq
                         /\ phase[s] = "idle" => writer[s] = FreshProject

(* Each line leads from the state before its number to that of its number, *)
(* and the lines that the snapshot lacks follow it without a gap.          *)
LinesLead ==
  \A l \in journal.recs :
    /\ hist[l.seq] = ApplyTo(hist[l.seq - 1], l.op).st
    /\ l.seq > LoadedProject.seq + 1 => \E m \in journal.recs : m.seq = l.seq - 1

(* A whole journal ends where the project of the session is. *)
Anchored ==
  \A s \in Sessions : phase[s] # "idle" /\ journal.tail = "clean" =>
    \/ writer[s].seq = LoadedProject.seq
    \/ \E l \in journal.recs : l.seq = writer[s].seq

(* The stacks hold ops. *)
OpEntries(q) == \E S : q \in Seq(S) /\ \A e \in S : IsOp(e.op)
StackOK(stack) == /\ DOMAIN stack = {"undo", "redo"}
                  /\ OpEntries(stack.undo) /\ OpEntries(stack.redo)
StacksHold == /\ DOMAIN stacks = Sessions
              /\ \A s \in Sessions : /\ DOMAIN stacks[s] = Clients
                                     /\ \A c \in Clients : StackOK(stacks[s][c])

HistoryInv == Copies /\ Numbered /\ LinesLead /\ Anchored /\ StacksHold

(* Pushing an op and popping one. *)
LEMMA PushEntry ==
  ASSUME NEW q, OpEntries(q), NEW e, IsOp(e.op)
  PROVE  OpEntries(Append(q, e))
<1>1. PICK S : q \in Seq(S) /\ \A x \in S : IsOp(x.op)
  BY DEF OpEntries
<1>2. PICK T : T = S \cup {e}
  OBVIOUS
<1>3. q \in Seq(T) /\ e \in T
  <2>1. S \subseteq T
    BY <1>2
  <2> QED
    BY <1>1, <1>2, <2>1, SeqMonotonic
<1>4. Append(q, e) \in Seq(T)
  BY <1>3
<1>5. \A x \in T : IsOp(x.op)
  BY <1>1, <1>2
<1> QED
  BY <1>4, <1>5 DEF OpEntries

(* What is left of a stack of ops, and its top, are ops. *)
LEMMA PopEntry ==
  ASSUME NEW q, OpEntries(q), q # <<>>
  PROVE  OpEntries(Pop(q)) /\ IsOp(Top(q).op)
<1>1. PICK S : q \in Seq(S) /\ \A x \in S : IsOp(x.op)
  BY DEF OpEntries
<1>2. Len(q) \in Nat /\ Len(q) # 0
  BY <1>1, EmptySeq
<1>3. Top(q) \in S
  <2>1. Len(q) \in 1..Len(q)
    BY <1>2
  <2> QED
    BY <1>1, <2>1, ElementOfSeq DEF Top
<1>4. Pop(q) \in Seq(S)
  <2>1. \A i \in 1..(Len(q) - 1) : q[i] \in S
    <3> SUFFICES ASSUME NEW i \in 1..(Len(q) - 1) PROVE q[i] \in S
      OBVIOUS
    <3>1. i \in 1..Len(q)
      BY <1>2
    <3> QED
      BY <1>1, <3>1, ElementOfSeq
  <2> QED
    BY <1>1, <1>2, <2>1 DEF Pop
<1> QED
  BY <1>1, <1>3, <1>4 DEF OpEntries

(* The request at the head performs an op. *)
LEMMA RequestedIsOp ==
  ASSUME TypeOK, StacksHold, NEW s \in Sessions, queue[s] # <<>>, CanPerform(s)
  PROVE  /\ IsOp(RequestedOp(s)) /\ \A exact : IsOp(Entry(s, exact).op)
         /\ ApplyTo(writer[s].st, Line(s).op).st = Done(s).proj.st
<1>1. Head(queue[s]) \in Requests
  BY HeadRequest
<1>2. PICK req : req = Head(queue[s])
  OBVIOUS
<1>3. req.kind \in {"apply", "undo", "redo"} /\ req.client \in Clients
      /\ (req.kind = "apply" => req.op \in Edits)
  BY <1>1, <1>2 DEF Requests
<1>4. StackOK(HeadStack(s))
  BY <1>2, <1>3 DEF HeadStack, StacksHold
<1>5. PICK op : op = RequestedOp(s)
  OBVIOUS
<1>6. IsOp(op)
  <2>1. CASE req.kind = "apply"
    BY <1>2, <1>3, <1>5, <2>1, EditsAssumption DEF RequestedOp, Submitted
  <2>2. CASE req.kind = "undo"
    <3>1. HeadStack(s).undo # <<>> /\ OpEntries(HeadStack(s).undo)
      BY <1>2, <1>4, <2>2 DEF CanPerform, StackOK
    <3>2. IsOp(Top(HeadStack(s).undo).op)
      BY <3>1, PopEntry
    <3>3. op = InverseOp(Top(HeadStack(s).undo).op)
      BY <1>2, <1>5, <2>2 DEF RequestedOp
    <3> QED
      BY <3>2, <3>3, InverseIsOp
  <2>3. CASE req.kind = "redo"
    <3>1. HeadStack(s).redo # <<>> /\ OpEntries(HeadStack(s).redo)
      BY <1>2, <1>4, <2>3 DEF CanPerform, StackOK
    <3>2. op = Top(HeadStack(s).redo).op
      BY <1>2, <1>5, <2>3 DEF RequestedOp
    <3> QED
      BY <3>1, <3>2, PopEntry
  <2> QED
    BY <1>3, <2>1, <2>2, <2>3
<1>7. PICK r : r = ApplyTo(writer[s].st, op)
  OBVIOUS
<1>8. Done(s).proj.st = r.st /\ Done(s).op = r.op
  BY <1>5, <1>7 DEF Done, Performed, Advanced
<1>9. (\A exact : Entry(s, exact).op = r.op) /\ Line(s).op = Journaled(r.op)
  BY <1>8 DEF Entry, Line
<1>10. IsOp(r.op)
  BY <1>6, <1>7, AppliedIsOp
<1>11. ApplyTo(writer[s].st, Journaled(r.op)).st = r.st
  BY <1>6, <1>7, ReplayOp
<1> QED
  BY <1>5, <1>6, <1>8, <1>9, <1>10, <1>11

(* The stacks after a request. *)
LEMMA RequestStacks ==
  ASSUME TypeOK, StacksHold, NEW s \in Sessions, ApplyOne(s) \/ UndoOne(s) \/ RedoOne(s)
  PROVE  StacksHold'
<1>0. queue[s] # <<>>
  BY RequestShape
<1>1. PICK req : req = Head(queue[s]) /\ req.client \in Clients
  BY <1>0, HeadRequest DEF Requests
<1>2. PICK stack : stack = HeadStack(s)
  OBVIOUS
<1>3. StackOK(stack)
  BY <1>1, <1>2 DEF HeadStack, StacksHold
<1>4. ASSUME NEW k, StackOK(k), NEW result, Finish(s, result, k) PROVE StacksHold'
  BY <1>1, <1>4 DEF Finish, StacksHold
<1>5. OpEntries(<<>>)
  <2>1. PICK none : none = <<>>
    OBVIOUS
  <2>2. none \in Seq({}) /\ \A e \in {} : IsOp(e.op)
    BY <2>1, EmptySeq
  <2> QED
    BY <2>1, <2>2 DEF OpEntries
<1>6. CASE ApplyOne(s)
  <2>1. PICK k : k = [undo |-> Append(stack.undo, Entry(s, TRUE)), redo |-> <<>>]
    OBVIOUS
  <2>2. Execute(s, k, stack)
    BY <1>2, <1>6, <2>1 DEF ApplyOne
  <2>3. OpEntries(Append(stack.undo, Entry(s, TRUE)))
    BY <1>0, <1>3, <2>2, RequestedIsOp, PushEntry DEF StackOK, Execute
  <2>4. StackOK(k)
    BY <1>5, <2>1, <2>3 DEF StackOK
  <2> QED
    BY <1>3, <1>4, <2>2, <2>4 DEF Execute
<1>7. CASE UndoOne(s)
  <2>1. PICK popped : popped = IF stack.undo = <<>> THEN stack ELSE [stack EXCEPT !.undo = Pop(@)]
    OBVIOUS
  <2>2. PICK k : k = [popped EXCEPT !.redo = Append(@, Undone(s, Top(stack.undo)))]
    OBVIOUS
  <2>3. Execute(s, k, popped) \/ Refuse(s, popped)
    BY <1>2, <1>7, <2>1, <2>2 DEF UndoOne
  <2>4. StackOK(popped)
    <3>1. CASE stack.undo = <<>>
      BY <1>3, <2>1, <3>1
    <3>2. CASE stack.undo # <<>>
      <4>1. popped = [stack EXCEPT !.undo = Pop(stack.undo)]
        BY <2>1, <3>2
      <4>2. /\ DOMAIN popped = {"undo", "redo"} /\ popped.undo = Pop(stack.undo)
            /\ popped.redo = stack.redo
        BY <1>3, <4>1 DEF StackOK
      <4> QED
        BY <1>3, <3>2, <4>2, PopEntry DEF StackOK
    <3> QED
      BY <3>1, <3>2
  <2>5. CASE Refuse(s, popped)
    BY <1>4, <2>4, <2>5 DEF Refuse
  <2>6. CASE Execute(s, k, popped)
    <3>1. stack.undo # <<>>
      BY <1>2, <1>7, <2>6 DEF Execute, CanPerform, UndoOne
    <3>2. OpEntries(Append(popped.redo, Undone(s, Top(stack.undo))))
      <4>1. IsOp(Top(stack.undo).op)
        BY <1>3, <3>1, PopEntry DEF StackOK
      <4>2. Undone(s, Top(stack.undo)).op = Top(stack.undo).op
        BY DEF Undone
      <4> QED
        BY <2>4, <4>1, <4>2, PushEntry DEF StackOK
    <3>3. /\ DOMAIN k = {"undo", "redo"} /\ k.undo = popped.undo
          /\ k.redo = Append(popped.redo, Undone(s, Top(stack.undo)))
      BY <2>2, <2>4 DEF StackOK
    <3>4. StackOK(k)
      BY <2>4, <3>2, <3>3 DEF StackOK
    <3> QED
      BY <1>4, <2>4, <2>6, <3>4 DEF Execute
  <2> QED
    BY <2>3, <2>5, <2>6
<1>8. CASE RedoOne(s)
  <2>1. PICK popped : popped = IF stack.redo = <<>> THEN stack ELSE [stack EXCEPT !.redo = Pop(@)]
    OBVIOUS
  <2> DEFINE again == Top(stack.redo).exact /\ RedoFits(s, Top(stack.redo))
  <2>2. PICK k : k = [popped EXCEPT !.undo = Append(@, Entry(s, again))]
    OBVIOUS
  <2>3. Execute(s, k, popped) \/ Refuse(s, stack)
    BY <1>2, <1>8, <2>1, <2>2 DEF RedoOne
  <2> HIDE DEF again
  <2>4. StackOK(popped)
    <3>1. CASE stack.redo = <<>>
      BY <1>3, <2>1, <3>1
    <3>2. CASE stack.redo # <<>>
      <4>1. popped = [stack EXCEPT !.redo = Pop(stack.redo)]
        BY <2>1, <3>2
      <4>2. /\ DOMAIN popped = {"undo", "redo"} /\ popped.redo = Pop(stack.redo)
            /\ popped.undo = stack.undo
        BY <1>3, <4>1 DEF StackOK
      <4> QED
        BY <1>3, <3>2, <4>2, PopEntry DEF StackOK
    <3> QED
      BY <3>1, <3>2
  <2>5. CASE Refuse(s, stack)
    BY <1>3, <1>4, <2>5 DEF Refuse
  <2>6. CASE Execute(s, k, popped)
    <3>1. OpEntries(Append(popped.undo, Entry(s, again)))
      BY <1>0, <2>4, <2>6, RequestedIsOp, PushEntry DEF StackOK, Execute
    <3>2. /\ DOMAIN k = {"undo", "redo"} /\ k.redo = popped.redo
          /\ k.undo = Append(popped.undo, Entry(s, again))
      BY <2>2, <2>4 DEF StackOK
    <3>3. StackOK(k)
      BY <2>4, <3>1, <3>2 DEF StackOK
    <3> QED
      BY <1>4, <2>4, <2>6, <3>3 DEF Execute
  <2> QED
    BY <2>3, <2>5, <2>6
<1> QED
  BY <1>6, <1>7, <1>8
(* A nonempty journal has a last line, so a line that continues it takes   *)
(* the newest of its records.                                              *)
LEMMA LastLineNewest ==
  ASSUME TypeOK, FilesInv, NEW l \in journal.recs
  PROVE  /\ LastLine(journal.recs) \in journal.recs
         /\ l.seq <= LastLine(journal.recs).seq
<1>1. appends \in Nat /\ LinesOK(journal.recs)
  BY DEF TypeOK, FilesOK
<1>2. \A m \in journal.recs : m.pos \in Int /\ m.pos <= appends - 1 /\ m.seq \in Nat
  BY <1>1 DEF LinesOK
<1> DEFINE T == {appends - m.pos : m \in journal.recs}
<1>3. T \subseteq Nat /\ T # {}
  BY <1>1, <1>2
<1>4. PICK x \in T : \A y \in T : x <= y
  <2> HIDE DEF T
  <2> QED
    BY <1>3, LeastNatural
<1>5. PICK m \in journal.recs : x = appends - m.pos
  BY <1>4
<1>6. ASSUME NEW n \in journal.recs PROVE n.pos <= m.pos
  <2>1. appends - m.pos <= appends - n.pos
    BY <1>4, <1>5
  <2> QED
    BY <1>1, <1>2, <2>1
<1>7. PICK last : last = LastLine(journal.recs)
  OBVIOUS
<1>8. last \in journal.recs /\ \A n \in journal.recs : n.pos <= last.pos
  BY <1>6, <1>7 DEF LastLine
<1>9. l.seq <= last.seq
  <2>1. l.pos < last.pos \/ l.pos = last.pos
    BY <1>2, <1>8
  <2>2. l.seq < last.seq \/ l = last
    BY <1>8, <2>1 DEF FilesInv, LinesOrdered
  <2> QED
    BY <1>2, <1>8, <2>2
<1> QED
  BY <1>7, <1>8, <1>9

(* What an append may leave: the journal loses at most its newest line,    *)
(* and has the new one only if it was whole.                               *)
LEMMA AppendContinues ==
  ASSUME TypeOK, FilesInv, NEW s \in Sessions,
         NEW k \in {Appended(journal, Line(s))} \cup TornAppends(journal, Line(s))
  PROVE  /\ \/ k.recs = journal.recs
            \/ journal.tail = "clean" /\ k.recs = journal.recs \cup {Line(s)}
            \/ \E last \in journal.recs : /\ k.recs = journal.recs \ {last}
                                          /\ \A l \in journal.recs : l.seq <= last.seq
         /\ k.tail = "clean" => k.recs = journal.recs \cup {Line(s)}
<1>1. journal.tail \in {"clean", "no_newline", "torn"}
  BY DEF TypeOK, FilesOK
<1>2. CASE journal.tail = "clean"
  BY <1>2 DEF Appended, TornAppends
<1>3. CASE journal.tail = "torn"
  BY <1>3 DEF Appended, TornAppends
<1>4. CASE journal.tail = "no_newline"
  <2>1. PICK last : last = LastLine(journal.recs)
    OBVIOUS
  <2>2. k = [recs |-> journal.recs \ {last}, tail |-> "torn"]
    BY <1>4, <2>1 DEF Appended, TornAppends
  <2>3. CASE journal.recs = {}
    BY <2>2, <2>3
  <2>4. CASE journal.recs # {}
    BY <2>1, <2>2, <2>4, LastLineNewest
  <2> QED
    BY <2>3, <2>4
<1> QED
  BY <1>1, <1>2, <1>3, <1>4

(* The request at the head is performed: the history grows at a number     *)
(* that no copy and no line has, and the new line leads there.             *)
LEMMA PerformedHistory ==
  ASSUME TypeOK, FilesInv, HistoryInv, NEW s \in Sessions, CanExecute(s), CanPerform(s),
         LoadedProject' = LoadedProject, issued' = issued,
         hist' = [hist EXCEPT ![Done(s).proj.seq] = Done(s).proj.st],
         journal' \in {Appended(journal, Line(s))} \cup TornAppends(journal, Line(s))
  PROVE  /\ hist'[0] = InitState /\ DOMAIN hist' = 0..MaxRequests
         /\ writer[s].seq + 1 <= issued
         /\ hist'[Done(s).proj.seq] = Done(s).proj.st
         /\ \A n \in Nat : n <= writer[s].seq => hist'[n] = hist[n]
         /\ LoadedProject.st = hist'[LoadedProject.seq]
         /\ \A l \in journal'.recs : l.seq <= issued
         /\ LinesLead'
<1>0. queue[s] # <<>> /\ phase[s] = "open"
  BY RequestAlone DEF CanExecute
<1>1. /\ Line(s).seq = writer[s].seq + 1 /\ Done(s).proj.seq = writer[s].seq + 1
      /\ writer[s].seq \in Nat /\ issued \in Nat /\ issued <= MaxRequests /\ MaxRequests \in Nat
  BY <1>0, DoneType, StoreAssumption DEF TypeOK, ProjectsOK, ProjectOK
<1>2. PICK n \in Nat : n = writer[s].seq
  BY <1>1
<1>3. n + 1 <= issued
  <2>1. queue[s] \in Seq(Requests)
    BY DEF TypeOK
  <2>2. Len(queue[s]) \in Nat \ {0}
    BY <1>0, <2>1, EmptySeq
  <2>3. n + Len(queue[s]) <= issued
    BY <1>2 DEF HistoryInv, Numbered
  <2> QED
    BY <1>1, <2>2, <2>3
<1>4. DOMAIN hist = 0..MaxRequests /\ n + 1 \in 0..MaxRequests
  BY <1>1, <1>3 DEF HistoryInv, Numbered
<1>5. /\ DOMAIN hist' = 0..MaxRequests /\ hist'[n + 1] = Done(s).proj.st
      /\ \A i \in Nat : i # n + 1 => hist'[i] = hist[i]
  <2>1. hist' = [hist EXCEPT ![n + 1] = Done(s).proj.st]
    BY <1>1, <1>2
  <2> QED
    BY <1>4, <2>1
<1>6. /\ LoadedProject.seq \in Nat /\ LoadedProject.seq <= n
      /\ \A l \in journal.recs : l.seq \in Nat /\ l.seq # 0 /\ l.seq <= n
  BY <1>0, <1>2 DEF FilesInv, WriterCovers, TypeOK, FilesOK, LinesOK, LoadedProject, FreshProject,
                    ProjectOK
<1>7. hist'[0] = InitState /\ LoadedProject.st = hist'[LoadedProject.seq]
  BY <1>5, <1>6 DEF HistoryInv, Numbered, Copies
<1>8. journal'.recs \subseteq journal.recs \cup {Line(s)}
  BY AppendContinues
<1>9. \A l \in journal'.recs : l.seq <= issued
  BY <1>1, <1>2, <1>3, <1>6, <1>8
<1>10. ASSUME NEW l \in journal.recs PROVE hist'[l.seq] = ApplyTo(hist'[l.seq - 1], l.op).st
  <2>1. PICK k \in Nat : k = l.seq /\ k # 0 /\ k <= n
    BY <1>6
  <2>2. hist[k] = ApplyTo(hist[k - 1], l.op).st
    BY <2>1 DEF HistoryInv, LinesLead
  <2>3. k - 1 \in Nat /\ k # n + 1 /\ k - 1 # n + 1
    BY <2>1
  <2>4. hist'[k] = hist[k] /\ hist'[k - 1] = hist[k - 1]
    BY <1>5, <2>3
  <2> QED
    BY <2>1, <2>2, <2>4
<1>11. hist'[Line(s).seq] = ApplyTo(hist'[Line(s).seq - 1], Line(s).op).st
  <2>1. StacksHold /\ writer[s].st = hist[n]
    BY <1>2 DEF HistoryInv, Copies
  <2>2. ApplyTo(hist[n], Line(s).op).st = Done(s).proj.st
    BY <1>0, <2>1, RequestedIsOp
  <2>3. Line(s).seq = n + 1 /\ Line(s).seq - 1 = n /\ n # n + 1
    BY <1>1, <1>2
  <2>4. hist'[Line(s).seq] = Done(s).proj.st /\ hist'[Line(s).seq - 1] = hist[n]
    BY <1>5, <2>3
  <2> QED
    BY <2>2, <2>4
<1>12. ASSUME NEW l \in journal'.recs, l.seq > LoadedProject.seq + 1
       PROVE  \E m \in journal'.recs : m.seq = l.seq - 1
  <2>1. CASE journal'.recs = journal.recs
    BY <1>12, <2>1 DEF HistoryInv, LinesLead
  <2>2. CASE journal.tail = "clean" /\ journal'.recs = journal.recs \cup {Line(s)}
    <3>1. CASE l \in journal.recs
      BY <1>12, <2>2, <3>1 DEF HistoryInv, LinesLead
    <3>2. CASE l = Line(s)
      <4>1. l.seq - 1 = n /\ n # LoadedProject.seq
        BY <1>1, <1>2, <1>6, <1>12, <3>2
      <4>2. \E m \in journal.recs : m.seq = n
        BY <1>0, <1>2, <2>2, <4>1 DEF HistoryInv, Anchored
      <4> QED
        BY <2>2, <4>1, <4>2
    <3> QED
      BY <2>2, <3>1, <3>2
  <2>3. ASSUME NEW last \in journal.recs, journal'.recs = journal.recs \ {last},
               \A m \in journal.recs : m.seq <= last.seq
        PROVE  \E m \in journal'.recs : m.seq = l.seq - 1
    <3>1. PICK m \in journal.recs : m.seq = l.seq - 1
      BY <1>12, <2>3 DEF HistoryInv, LinesLead
    <3>2. l \in journal.recs /\ l.seq <= last.seq /\ last.seq \in Nat /\ l.seq \in Nat
      BY <1>6, <2>3
    <3>3. m # last
      BY <3>1, <3>2
    <3> QED
      BY <2>3, <3>1, <3>3
  <2> QED
    BY <2>1, <2>2, <2>3, AppendContinues
<1>13. LinesLead'
  BY <1>8, <1>10, <1>11, <1>12 DEF LinesLead
<1>14. \A i \in Nat : i <= n => hist'[i] = hist[i]
  BY <1>5
<1> QED
  BY <1>1, <1>2, <1>3, <1>5, <1>7, <1>9, <1>13, <1>14

(* An edit, an undo or a redo keeps the history, whether its line was      *)
(* written or the request was refused.                                     *)
LEMMA HistoryRequest ==
  ASSUME Gapless, TypeOK, FilesInv, HistoryInv, NEW s \in Sessions,
         ApplyOne(s) \/ UndoOne(s) \/ RedoOne(s)
  PROVE  HistoryInv'
<1>1. /\ queue[s] # <<>> /\ CanExecute(s)
      /\ queue' = [queue EXCEPT ![s] = Tail(queue[s])]
      /\ UNCHANGED <<idb, phase, view, issued>> /\ LoadedProject' = LoadedProject
      /\ \/ /\ writer' = [writer EXCEPT ![s] = Done(s).proj]
            /\ hist' = [hist EXCEPT ![Done(s).proj.seq] = Done(s).proj.st]
            /\ journal' = Appended(journal, Line(s))
         \/ UNCHANGED <<journal, writer, hist>>
  BY RequestShape DEF LoadedProject, CanExecute, Gapless
<1>2. StacksHold'
  BY RequestStacks DEF HistoryInv
<1>3. phase[s] = "open" /\ \A t \in Sessions : t # s => phase[t] = "idle"
  BY <1>1, RequestAlone
<1>4. /\ Len(queue'[s]) = Len(queue[s]) - 1 /\ Len(queue[s]) \in Nat \ {0}
      /\ \A t \in Sessions : t # s => queue'[t] = queue[t]
  <2>1. queue[s] \in Seq(Requests) /\ DOMAIN queue = Sessions
    BY DEF TypeOK
  <2>2. queue'[s] = Tail(queue[s]) /\ \A t \in Sessions : t # s => queue'[t] = queue[t]
    BY <1>1, <2>1
  <2> QED
    BY <1>1, <2>1, <2>2, HeadTailProperties, EmptySeq
<1>5. \A t \in Sessions : /\ writer[t].seq \in Nat /\ view[t].seq \in Nat
                          /\ issued \in Nat
  BY DEF TypeOK, ProjectsOK, ProjectOK
<1>6. CASE UNCHANGED <<journal, writer, hist>>
  <2>1. Numbered'
    BY <1>1, <1>4, <1>5, <1>6 DEF HistoryInv, Numbered
  <2>2. Copies' /\ LinesLead' /\ Anchored'
    BY <1>1, <1>6 DEF HistoryInv, Copies, LinesLead, Anchored
  <2> QED
    BY <1>2, <2>1, <2>2 DEF HistoryInv
<1>7. CASE /\ writer' = [writer EXCEPT ![s] = Done(s).proj]
           /\ hist' = [hist EXCEPT ![Done(s).proj.seq] = Done(s).proj.st]
           /\ journal' = Appended(journal, Line(s))
  <2>1. CanPerform(s)
    <3>1. \/ \E onOk, onErr : Execute(s, onOk, onErr)
          \/ \E stack : Refuse(s, stack)
      BY Zenon DEF ApplyOne, UndoOne, RedoOne
    <3>2. (\E stack : Refuse(s, stack)) => writer' = writer
      BY DEF Refuse
    <3>3. writer' # writer
      <4>1. writer'[s].seq = writer[s].seq + 1
        BY <1>1, <1>7, DoneType DEF TypeOK, ProjectsOK
      <4> QED
        BY <1>5, <4>1
    <3> QED
      BY <3>1, <3>2, <3>3 DEF Execute
  <2>2. /\ hist'[0] = InitState /\ DOMAIN hist' = 0..MaxRequests
        /\ writer[s].seq + 1 <= issued
        /\ hist'[Done(s).proj.seq] = Done(s).proj.st
        /\ \A n \in Nat : n <= writer[s].seq => hist'[n] = hist[n]
        /\ LoadedProject.st = hist'[LoadedProject.seq]
        /\ \A l \in journal'.recs : l.seq <= issued
        /\ LinesLead'
    BY <1>1, <1>7, <2>1, PerformedHistory
  <2>3. /\ writer'[s] = Done(s).proj /\ writer'[s].seq = writer[s].seq + 1
        /\ \A t \in Sessions : t # s => writer'[t] = writer[t]
    BY <1>1, <1>7, DoneType DEF TypeOK, ProjectsOK
  <2>4. \A t \in Sessions : /\ view[t].seq <= writer[s].seq
                            /\ t # s => writer[t].seq = 0 /\ writer[t].seq <= writer[s].seq
    <3>1. FreshProject.seq = 0
      BY DEF FreshProject
    <3> QED
      BY <1>3, <1>5, <3>1 DEF HistoryInv, Numbered
  <2>5. Copies'
    <3>1. \A t \in Sessions : view[t].st = hist'[view[t].seq]
      BY <1>5, <2>2, <2>4 DEF HistoryInv, Copies
    <3>2. \A t \in Sessions : writer'[t].st = hist'[writer'[t].seq]
      BY <1>5, <2>2, <2>3, <2>4 DEF HistoryInv, Copies
    <3> QED
      BY <1>1, <2>2, <3>1, <3>2 DEF Copies
  <2>6. Numbered'
    <3>1. \A t \in Sessions : /\ writer'[t].seq + Len(queue'[t]) <= issued
                              /\ view[t].seq <= writer'[t].seq
                              /\ phase[t] = "idle" => writer'[t] = FreshProject
      <4> SUFFICES ASSUME NEW t \in Sessions
                   PROVE  /\ writer'[t].seq + Len(queue'[t]) <= issued
                          /\ view[t].seq <= writer'[t].seq
                          /\ phase[t] = "idle" => writer'[t] = FreshProject
        OBVIOUS
      <4>1. /\ writer[t].seq + Len(queue[t]) <= issued /\ view[t].seq <= writer[t].seq
            /\ phase[t] = "idle" => writer[t] = FreshProject
        BY DEF HistoryInv, Numbered
      <4>2. CASE t = s
        BY <1>3, <1>4, <1>5, <2>3, <4>1, <4>2
      <4>3. CASE t # s
        BY <1>4, <2>3, <4>1, <4>3
      <4> QED
        BY <4>2, <4>3
    <3>2. LoadedProject.seq <= issued
      BY DEF HistoryInv, Numbered
    <3> QED
      BY <1>1, <2>2, <3>1, <3>2 DEF Numbered
  <2>7. Anchored'
    <3>1. journal'.tail = "clean" => Line(s) \in journal'.recs
      BY <1>7, AppendContinues
    <3>2. Line(s).seq = writer'[s].seq
      BY <1>1, <2>3, DoneType
    <3> QED
      BY <1>1, <1>3, <3>1, <3>2 DEF Anchored
  <2> QED
    BY <1>2, <2>2, <2>5, <2>6, <2>7 DEF HistoryInv
<1> QED
  BY <1>1, <1>6, <1>7
(* A session starts with empty stacks. *)
LEMMA EmptyStacks == DOMAIN NoStacks = Clients /\ \A c \in Clients : StackOK(NoStacks[c])
<1>1. PICK none : none = <<>>
  OBVIOUS
<1>2. none \in Seq({}) /\ \A e \in {} : IsOp(e.op)
  BY <1>1, EmptySeq
<1>3. OpEntries(none)
  BY <1>2 DEF OpEntries
<1>4. DOMAIN NoStacks = Clients /\ \A c \in Clients : NoStacks[c] = [undo |-> none, redo |-> none]
  BY <1>1 DEF NoStacks
<1> QED
  BY <1>3, <1>4 DEF StackOK

(* Opening: the replay takes the lines in order, so each is applied to the *)
(* state it was made from.                                                 *)
LEMMA HistoryOpen ==
  ASSUME TypeOK, FilesInv, HistoryInv, NEW s \in Sessions,
         LoadState(s) \/ ReadJournal(s) \/ ReplayRecord(s) \/ PublishHandle(s)
  PROVE  HistoryInv'
<1> USE DEF files, ghosts
<1>0. /\ UNCHANGED <<idb, journal, stacks, queue, issued, hist>>
      /\ LoadedProject' = LoadedProject
  BY DEF LoadState, ReadJournal, ReplayRecord, PublishHandle, LoadedProject
<1>1. LinesLead' /\ StacksHold'
  BY <1>0 DEF HistoryInv, LinesLead, StacksHold
<1>2. /\ DOMAIN writer = Sessions /\ DOMAIN view = Sessions /\ DOMAIN phase = Sessions
      /\ \A t \in Sessions : writer[t].seq \in Nat /\ view[t].seq \in Nat
      /\ LoadedProject.seq \in Nat /\ issued \in Nat
  BY DEF TypeOK, ProjectsOK, ProjectOK, FilesOK, LoadedProject, FreshProject
<1>3. ASSUME NEW t \in Sessions, phase[t] # "open", phase[t] # "closed" PROVE Len(queue[t]) = 0
  <2>1. queue[t] = <<>>
    BY <1>3 DEF FilesInv, OneUser, Quiet, TypeOK, Phases
  <2> QED
    BY <2>1
<1>4. CASE LoadState(s)
  <2>1. /\ writer'[s] = LoadedProject /\ phase'[s] = "loaded" /\ view' = view
        /\ \A t \in Sessions : t # s => writer'[t] = writer[t] /\ phase'[t] = phase[t]
        /\ phase[s] = "idle"
    BY <1>2, <1>4 DEF LoadState
  <2>2. Len(queue[s]) = 0 /\ view[s].seq = 0
    <3>1. writer[s] = FreshProject /\ view[s].seq <= writer[s].seq
      BY <2>1 DEF HistoryInv, Numbered
    <3>2. FreshProject.seq = 0
      BY DEF FreshProject
    <3> QED
      BY <1>2, <1>3, <2>1, <3>1, <3>2
  <2>3. Copies'
    BY <1>0, <2>1 DEF HistoryInv, Copies
  <2>4. Numbered'
    BY <1>0, <1>2, <2>1, <2>2 DEF HistoryInv, Numbered
  <2>5. Anchored'
    BY <1>0, <2>1 DEF HistoryInv, Anchored
  <2> QED
    BY <1>1, <2>3, <2>4, <2>5 DEF HistoryInv
<1>5. CASE ReadJournal(s)
  <2>1. /\ UNCHANGED <<writer, view>> /\ phase[s] = "loaded" /\ phase'[s] = "replay"
        /\ \A t \in Sessions : t # s => phase'[t] = phase[t]
    BY <1>2, <1>5 DEF ReadJournal
  <2> QED
    BY <1>0, <1>1, <2>1 DEF HistoryInv, Copies, Numbered, Anchored
<1>6. CASE PublishHandle(s)
  <2>1. /\ writer' = writer /\ phase[s] = "replay" /\ phase'[s] = "open" /\ view'[s] = writer[s]
        /\ \A t \in Sessions : t # s => phase'[t] = phase[t] /\ view'[t] = view[t]
    BY <1>2, <1>6 DEF PublishHandle
  <2>2. Copies'
    BY <1>0, <2>1 DEF HistoryInv, Copies
  <2>3. Numbered'
    BY <1>0, <1>2, <2>1 DEF HistoryInv, Numbered
  <2>4. Anchored'
    BY <1>0, <2>1 DEF HistoryInv, Anchored
  <2> QED
    BY <1>1, <2>2, <2>3, <2>4 DEF HistoryInv
<1>7. CASE ReplayRecord(s)
  <2>1. PICK line \in todo[s] :
          /\ \A m \in todo[s] : line.pos <= m.pos
          /\ writer' = [writer EXCEPT ![s] = Replayed(@, line)]
    BY <1>7 DEF ReplayRecord
  <2>2. /\ phase[s] = "replay" /\ UNCHANGED <<phase, view>> /\ line \in journal.recs
        /\ writer'[s] = Replayed(writer[s], line)
        /\ \A t \in Sessions : t # s => writer'[t] = writer[t]
    BY <1>2, <1>7, <2>1 DEF ReplayRecord, FilesInv, WriterCovers
  <2>3. /\ \A l \in journal.recs : l \notin todo[s] => l.seq <= writer[s].seq
        /\ \A l \in journal.recs : l.pos \in Int /\ l.seq \in Nat /\ l.seq # 0
        /\ LoadedProject.seq <= writer[s].seq
    BY <2>2 DEF FilesInv, WriterCovers, TypeOK, FilesOK, LinesOK
  <2>4. CASE line.seq <= writer[s].seq
    <3>1. writer'[s] = writer[s]
      BY <1>2, <2>2, <2>3, <2>4 DEF Replayed
    <3> QED
      BY <1>0, <1>1, <2>2, <3>1 DEF HistoryInv, Copies, Numbered, Anchored
  <2>5. CASE line.seq > writer[s].seq
    <3>1. line.seq = writer[s].seq + 1
      <4>1. CASE line.seq > LoadedProject.seq + 1
        <5>1. PICK m \in journal.recs : m.seq = line.seq - 1
          BY <2>2, <4>1 DEF HistoryInv, LinesLead
        <5>2. m.pos < line.pos
          <6>1. line.pos < m.pos => line.seq < m.seq
            BY <2>2 DEF FilesInv, LinesOrdered
          <6>2. line.pos = m.pos => line = m
            BY <2>2 DEF FilesInv, LinesOrdered
          <6> QED
            BY <2>2, <2>3, <5>1, <6>1, <6>2
        <5>3. m \notin todo[s]
          BY <2>1, <2>2, <2>3, <5>2
        <5>4. m.seq <= writer[s].seq
          BY <2>3, <5>3
        <5> QED
          BY <1>2, <2>2, <2>3, <2>5, <5>1, <5>4
      <4>2. CASE ~(line.seq > LoadedProject.seq + 1)
        BY <1>2, <2>2, <2>3, <2>5, <4>2
      <4> QED
        BY <4>1, <4>2
    <3>2. PICK p : p = ReplayedOp(writer[s], line)
      OBVIOUS
    <3>3. writer'[s] = p /\ p.seq = line.seq /\ p.st = ApplyTo(writer[s].st, line.op).st
      BY <2>2, <2>5, <3>2 DEF Replayed, ReplayedOp
    <3>4. p.st = hist[line.seq]
      <4>1. writer[s].st = hist[writer[s].seq] /\ line.seq - 1 = writer[s].seq
        BY <1>2, <2>3, <3>1 DEF HistoryInv, Copies
      <4>2. hist[line.seq] = ApplyTo(hist[line.seq - 1], line.op).st
        BY <2>2 DEF HistoryInv, LinesLead
      <4> QED
        BY <3>3, <4>1, <4>2
    <3>5. Copies'
      BY <1>0, <2>2, <3>3, <3>4 DEF HistoryInv, Copies
    <3>6. Numbered'
      <4>1. line.seq <= issued /\ Len(queue[s]) = 0 /\ view[s].seq <= line.seq
        <5>1. view[s].seq <= writer[s].seq /\ line.seq <= issued
          BY <2>2 DEF HistoryInv, Numbered
        <5> QED
          BY <1>2, <1>3, <2>2, <2>3, <2>5, <5>1
      <4>2. writer'[s].seq + Len(queue[s]) <= issued /\ view[s].seq <= writer'[s].seq
        BY <2>2, <2>3, <3>3, <4>1
      <4> QED
        BY <1>0, <2>2, <4>2 DEF HistoryInv, Numbered
    <3>7. Anchored'
      BY <1>0, <2>2, <3>3 DEF HistoryInv, Anchored
    <3> QED
      BY <1>1, <3>5, <3>6, <3>7 DEF HistoryInv
  <2> QED
    BY <1>2, <2>2, <2>3, <2>4, <2>5
<1> QED
  BY <1>4, <1>5, <1>6, <1>7

(* A save leaves the project of its session on disk. *)
LEMMA HistorySave ==
  ASSUME Gapless, TypeOK, FilesInv, HistoryInv, NEW s \in Sessions, NEW r \in Roles,
         SaverStep(s, r) \/ SaveFails(s, r)
  PROVE  HistoryInv'
<1> USE DEF files, ghosts
<1>1. /\ UNCHANGED <<phase, writer, view, stacks, queue, issued, hist>>
      /\ saver[s][r].pc # "idle" /\ ~TruncateIdb(s, r)
  BY DEF SaverStep, TruncateIdb, WriteIdb, WriteTmp, RenameTmp, SaveFails, SaveStep, Gapless
<1>2. /\ phase[s] \in {"open", "closed"} /\ saver[s][r].snap = writer[s]
      /\ \A t \in Sessions : t # s => phase[t] = "idle"
  <2>1. phase[s] # "idle"
    BY <1>1, ActiveNotIdle DEF FilesInv
  <2>2. \A t \in Sessions : t # s => phase[t] = "idle"
    BY <2>1, ActiveSession DEF FilesInv
  <2>3. phase[s] \in {"open", "closed"}
    BY <1>1, <2>1, ActiveSession DEF FilesInv, Roles
  <2> QED
    BY <1>1, <2>2, <2>3 DEF FilesInv, SavesCover
<1>3. /\ \A l \in journal.recs : l.seq \in Nat /\ l.seq <= writer[s].seq
      /\ writer[s].seq \in Nat /\ issued \in Nat /\ Len(queue[s]) \in Nat
  <2>1. queue[s] \in Seq(Requests)
    BY DEF TypeOK
  <2>2. Len(queue[s]) \in Nat
    BY <2>1
  <2>3. writer[s].seq \in Nat /\ issued \in Nat
    BY DEF TypeOK, ProjectsOK, ProjectOK
  <2>4. \A l \in journal.recs : l.seq \in Nat
    BY DEF TypeOK, FilesOK, LinesOK
  <2>5. phase[s] # "idle"
    BY <1>2
  <2>6. \A l \in journal.recs : l.seq <= writer[s].seq
    BY <1>2, <2>5 DEF FilesInv, WriterCovers
  <2> QED
    BY <2>2, <2>3, <2>4, <2>6
<1>4. writer[s].seq + Len(queue[s]) <= issued /\ writer[s].st = hist[writer[s].seq]
  BY DEF HistoryInv, Numbered, Copies
<1>5. StacksHold'
  BY <1>1 DEF HistoryInv, StacksHold
<1>6. CASE WriteTmp(s, r) \/ SaveFails(s, r)
  <2>1. UNCHANGED <<idb, journal>> /\ LoadedProject' = LoadedProject
    BY <1>6 DEF WriteTmp, SaveFails, LoadedProject
  <2> QED
    BY <1>1, <1>5, <2>1 DEF HistoryInv, Copies, Numbered, LinesLead, Anchored
<1>7. CASE WriteIdb(s, r) \/ RenameTmp(s, r)
  <2>1. /\ LoadedProject' = writer[s]
        /\ journal'.recs \subseteq journal.recs
        /\ journal'.recs # journal.recs => journal'.recs = {}
    <3>1. CASE WriteIdb(s, r)
      BY <1>2, <3>1 DEF WriteIdb, LoadedProject
    <3>2. CASE RenameTmp(s, r)
      BY <3>2 DEF RenameTmp, SaveStep, FilesInv, SavesCover, LoadedProject
    <3> QED
      BY <1>7, <3>1, <3>2
  <2>2. Copies'
    BY <1>1, <1>4, <2>1 DEF HistoryInv, Copies
  <2>3. Numbered'
    BY <1>1, <1>3, <1>4, <2>1 DEF HistoryInv, Numbered
  <2>4. LinesLead'
    <3>1. \A l \in journal'.recs : ~(l.seq > LoadedProject'.seq + 1)
      BY <1>3, <2>1
    <3> QED
      BY <1>1, <2>1, <3>1 DEF HistoryInv, LinesLead
  <2>5. Anchored'
    BY <1>1, <1>2, <2>1 DEF Anchored
  <2> QED
    BY <1>5, <2>2, <2>3, <2>4, <2>5 DEF HistoryInv
<1> QED
  BY <1>1, <1>6, <1>7 DEF SaverStep

(* What dying leaves, once the files and the history are known. *)
LEMMA HistoryLost ==
  ASSUME TypeOK, LoseMemory, LinesLead', LoadedProject' = LoadedProject, LoadedProject.seq <= issued,
         DOMAIN hist' = 0..MaxRequests, hist'[0] = InitState,
         LoadedProject.st = hist'[LoadedProject.seq], \A l \in journal'.recs : l.seq <= issued
  PROVE  HistoryInv'
<1>1. /\ issued' = issued /\ issued \in Nat
      /\ \A s \in Sessions : /\ phase'[s] = "idle" /\ queue'[s] = <<>>
                             /\ writer'[s] = FreshProject /\ view'[s] = FreshProject
                             /\ stacks'[s] = NoStacks
      /\ DOMAIN stacks' = Sessions
  BY DEF LoseMemory, TypeOK
<1>2. FreshProject.seq = 0 /\ FreshProject.st = InitState
  BY DEF FreshProject
<1>3. Copies'
  BY <1>1, <1>2 DEF Copies
<1>4. Numbered'
  <2>1. \A s \in Sessions : Len(queue'[s]) = 0
    BY <1>1
  <2> QED
    BY <1>1, <1>2, <2>1 DEF Numbered
<1>5. Anchored'
  BY <1>1 DEF Anchored
<1>6. StacksHold'
  BY <1>1, EmptyStacks DEF StacksHold
<1> QED
  BY <1>3, <1>4, <1>5, <1>6 DEF HistoryInv

(* Every step keeps the history. *)
LEMMA HistoryStep ==
  ASSUME Gapless, TypeOK, FilesInv, HistoryInv, [Next]_vars
  PROVE  HistoryInv'
<1> USE DEF files, ghosts
<1>0. /\ DOMAIN writer = Sessions /\ DOMAIN view = Sessions /\ DOMAIN phase = Sessions
      /\ DOMAIN queue = Sessions
      /\ \A t \in Sessions : writer[t].seq \in Nat /\ view[t].seq \in Nat
      /\ issued \in Nat
  BY DEF TypeOK, ProjectsOK, ProjectOK
<1>1. ASSUME NEW s \in Sessions, NEW c \in Clients, Submit(s, c) PROVE HistoryInv'
  <2>1. /\ UNCHANGED <<idb, journal, phase, writer, view, stacks, hist>> /\ issued' = issued + 1
        /\ LoadedProject' = LoadedProject
    BY <1>1 DEF Submit, LoadedProject
  <2>2. \A t \in Sessions : Len(queue'[t]) \in Nat /\ Len(queue[t]) \in Nat
                            /\ Len(queue'[t]) <= Len(queue[t]) + 1
    <3>1. PICK req : queue' = [queue EXCEPT ![s] = Append(@, req)]
      BY <1>1 DEF Submit
    <3>2. \A t \in Sessions : queue[t] \in Seq(Requests)
      BY DEF TypeOK
    <3>3. Len(Append(queue[s], req)) = Len(queue[s]) + 1
      BY <3>2
    <3>4. queue'[s] = Append(queue[s], req) /\ \A t \in Sessions : t # s => queue'[t] = queue[t]
      BY <1>0, <3>1
    <3>5. \A t \in Sessions : Len(queue[t]) \in Nat
      BY <3>2
    <3> QED
      BY <3>3, <3>4, <3>5
  <2>3. Numbered'
    <3>1. /\ DOMAIN hist = 0..MaxRequests /\ hist[0] = InitState /\ LoadedProject.seq <= issued + 1
          /\ \A l \in journal.recs : l.seq <= issued + 1
      <4>1. LoadedProject.seq \in Nat /\ \A l \in journal.recs : l.seq \in Nat
        BY DEF TypeOK, FilesOK, LinesOK, LoadedProject, FreshProject, ProjectOK
      <4> QED
        BY <1>0, <4>1 DEF HistoryInv, Numbered
    <3>2. \A t \in Sessions : /\ writer[t].seq + Len(queue'[t]) <= issued + 1
                              /\ view[t].seq <= writer[t].seq
                              /\ phase[t] = "idle" => writer[t] = FreshProject
      BY <1>0, <2>2 DEF HistoryInv, Numbered
    <3> QED
      BY <2>1, <3>1, <3>2 DEF Numbered
  <2> QED
    BY <2>1, <2>3 DEF HistoryInv, Copies, LinesLead, Anchored, StacksHold
<1>2. ASSUME NEW s \in Sessions, Respond(s) PROVE HistoryInv'
  <2>1. /\ view' = [view EXCEPT ![s] = writer[s]]
        /\ UNCHANGED <<idb, journal, phase, writer, queue, issued, hist>>
    BY <1>2, RespondShape
  <2>2. stacks' = stacks /\ LoadedProject' = LoadedProject
    BY <1>2, <2>1 DEF Respond, LoadedProject
  <2>3. view'[s] = writer[s] /\ \A t \in Sessions : t # s => view'[t] = view[t]
    BY <1>0, <2>1
  <2>4. Numbered'
    BY <1>0, <2>1, <2>2, <2>3 DEF HistoryInv, Numbered
  <2>5. Copies'
    BY <2>1, <2>2, <2>3 DEF HistoryInv, Copies
  <2> QED
    BY <2>1, <2>2, <2>4, <2>5 DEF HistoryInv, LinesLead, Anchored, StacksHold
<1>3. ASSUME NEW s \in Sessions, Close(s) PROVE HistoryInv'
  <2>1. /\ UNCHANGED <<idb, journal, writer, view, stacks, queue, issued, hist>>
        /\ LoadedProject' = LoadedProject /\ phase[s] = "open" /\ phase'[s] = "closed"
        /\ \A t \in Sessions : t # s => phase'[t] = phase[t]
    BY <1>0, <1>3 DEF Close, LoadedProject
  <2> QED
    BY <2>1 DEF HistoryInv, Copies, Numbered, LinesLead, Anchored, StacksHold
<1>4. ASSUME NEW s \in Sessions, WriterEnds(s) PROVE HistoryInv'
  <2>1. /\ UNCHANGED <<idb, journal, queue, issued, hist>> /\ LoadedProject' = LoadedProject
        /\ phase'[s] = "idle" /\ writer'[s] = FreshProject /\ view'[s] = FreshProject
        /\ \A t \in Sessions : t # s => /\ phase'[t] = phase[t] /\ writer'[t] = writer[t]
                                        /\ view'[t] = view[t]
        /\ stacks' = [stacks EXCEPT ![s] = NoStacks] /\ queue[s] = <<>>
    BY <1>0, <1>4 DEF WriterEnds, LoadedProject, Quiet
  <2>2. FreshProject.seq = 0 /\ FreshProject.st = InitState /\ Len(queue[s]) = 0
    BY <2>1 DEF FreshProject
  <2>3. StacksHold'
    BY <2>1, EmptyStacks DEF HistoryInv, StacksHold
  <2>4. Copies'
    BY <2>1, <2>2 DEF HistoryInv, Copies, Numbered
  <2>5. Numbered'
    BY <1>0, <2>1, <2>2 DEF HistoryInv, Numbered
  <2>6. LinesLead' /\ Anchored'
    BY <2>1 DEF HistoryInv, LinesLead, Anchored
  <2> QED
    BY <2>3, <2>4, <2>5, <2>6 DEF HistoryInv
<1>5. CASE Crash
  <2>1. UNCHANGED <<idb, journal, hist>> /\ LoadedProject' = LoadedProject /\ LoseMemory
    BY <1>5 DEF Crash, LoadedProject
  <2>2. LinesLead'
    BY <2>1 DEF HistoryInv, LinesLead
  <2> QED
    BY <2>1, <2>2, HistoryLost DEF HistoryInv, Copies, Numbered
<1>6. ASSUME NEW s \in Sessions, CrashInAppend(s) PROVE HistoryInv'
  <2>1. /\ LoseMemory /\ LoadedProject' = LoadedProject /\ issued' = issued
        /\ CanExecute(s) /\ CanPerform(s) /\ journal' \in TornAppends(journal, Line(s))
        /\ hist' = [hist EXCEPT ![Done(s).proj.seq] = Done(s).proj.st]
    BY <1>6 DEF CrashInAppend, LoadedProject, LoseMemory
  <2>2. /\ hist'[0] = InitState /\ DOMAIN hist' = 0..MaxRequests
        /\ LoadedProject.st = hist'[LoadedProject.seq]
        /\ \A l \in journal'.recs : l.seq <= issued
        /\ LinesLead'
    BY <2>1, PerformedHistory
  <2> QED
    BY <2>1, <2>2, HistoryLost DEF HistoryInv, Numbered
<1>7. CASE FlushIdb \/ UNCHANGED vars
  <2>1. /\ UNCHANGED <<journal, phase, writer, view, stacks, queue, issued, hist>>
        /\ LoadedProject' = LoadedProject
    BY <1>7 DEF FlushIdb, vars, sessions, LoadedProject
  <2> QED
    BY <2>1 DEF HistoryInv, Copies, Numbered, LinesLead, Anchored, StacksHold
<1>8. ~PowerLoss
  BY DEF Gapless, PowerLoss
<1> QED
  BY <1>1, <1>2, <1>3, <1>4, <1>5, <1>6, <1>7, <1>8, HistoryOpen, HistoryRequest, HistorySave
  DEF Next, WriterStep

(* When one session uses the files, no append fails while the process      *)
(* lives and no snapshot is torn or lost, every number, line and stack     *)
(* entry fits the history: why OneHistory holds.                           *)
THEOREM HistoryInvariant == Gapless => (Spec => []HistoryInv)
<1> SUFFICES ASSUME Gapless PROVE Spec => []HistoryInv
  OBVIOUS
<1>1. Init => HistoryInv
  <2> SUFFICES ASSUME Init PROVE HistoryInv
    OBVIOUS
  <2>1. FreshProject.seq = 0 /\ FreshProject.st = InitState
    BY DEF FreshProject
  <2>2. /\ LoadedProject = FreshProject /\ journal.recs = {} /\ issued = 0
        /\ \A s \in Sessions : /\ phase[s] = "idle" /\ queue[s] = <<>> /\ stacks[s] = NoStacks
                               /\ writer[s] = FreshProject /\ view[s] = FreshProject
        /\ hist = [n \in 0..MaxRequests |-> InitState] /\ DOMAIN stacks = Sessions
    BY DEF Init, LoadedProject, NoIdb
  <2>3. DOMAIN hist = 0..MaxRequests /\ hist[0] = InitState
    BY <2>2, StoreAssumption
  <2>4. \A s \in Sessions : Len(queue[s]) = 0
    BY <2>2
  <2>5. Copies
    BY <2>1, <2>2, <2>3 DEF Copies
  <2>7. Numbered
    BY <2>1, <2>2, <2>3, <2>4 DEF Numbered
  <2>8. LinesLead /\ Anchored
    BY <2>1, <2>2 DEF LinesLead, Anchored
  <2>6. StacksHold
    BY <2>2, EmptyStacks DEF StacksHold
  <2> QED
    BY <2>5, <2>6, <2>7, <2>8 DEF HistoryInv
<1>2. TypeOK /\ FilesInv /\ HistoryInv /\ [Next]_vars => HistoryInv'
  BY HistoryStep
<1>3. Exclusive
  BY DEF Gapless
<1> QED
  BY <1>1, <1>2, <1>3, TypeInvariant, FilesInvariant, PTL DEF Spec

(* When one session uses the files, no append fails while the process      *)
(* lives and no snapshot is torn or lost: the writer's project, the        *)
(* published one, the one being saved and the one on disk are each the     *)
(* state that the writer reached at that sequence number, and so is the    *)
(* project that open rebuilds by replay, whatever edits, batches, undos    *)
(* and redos were made and wherever the process died, inside an append too.*)
THEOREM OneHistory == Gapless => (Spec => []HistoryAgrees)
<1>1. FilesInv /\ HistoryInv => HistoryAgrees
  BY DEF FilesInv, SavesCover, HistoryInv, Copies, HistoryAgrees
<1>2. Gapless => Exclusive
  BY DEF Gapless
<1> QED
  BY <1>1, <1>2, FilesInvariant, HistoryInvariant, PTL
----------------------------------------------------------------------------
(* What undo and redo do to one annotation. *)

(* The values that a slot can hold. *)
SlotValues(k) ==
  {Absent} \cup CASE k = "signature" -> Signatures
                  [] k = "local" -> {x \in Locals : x.name # Blank}
                  [] k = "memory" -> Plain \ {Clear}
                  [] OTHER -> Plain

(* The capture of p is what p found in a slot that holds c. *)
FitsValue(c, p) ==
  IF p.old = NoCapture THEN OldValue(c, p) = Absent /\ p.kind \notin {"local_name", "memory"}
  ELSE OldValue(c, p) = p.old

(* The slot that held b holds c: what UndoneTo says of one slot. *)
Left(k, c, b) ==
  \/ c = b
  \/ b = Absent /\ c \in Residue(k)
  \/ k = "signature" /\ b # Absent /\ b.param = Absent /\ c = [b EXCEPT !.param = ArgName]

(* An edit of a slot: an op of any kind but focus. *)
SlotEdit(p) == IsPrim(p) /\ TypedPrim(p) /\ p.kind # "focus"

(* The fields of the inverse of a slot edit. *)
LEMMA InverseFields ==
  ASSUME NEW p, SlotEdit(p)
  PROVE  /\ InversePrim(p).kind = p.kind /\ InversePrim(p).va = p.va
         /\ InversePrim(p).old = p.value
         /\ InversePrim(p).value = IF p.old \in {NoCapture, Absent} THEN UndoDefault(p.kind)
                                   ELSE p.old
<1>1. PICK value : value = IF p.old \in {NoCapture, Absent} THEN UndoDefault(p.kind) ELSE p.old
  OBVIOUS
<1>2. PICK i : i = [p EXCEPT !.value = value, !.old = p.value]
  OBVIOUS
<1>3. InversePrim(p) = i
  BY <1>1, <1>2 DEF InversePrim, SlotEdit
<1>4. /\ i.kind = p.kind /\ i.va = p.va /\ i.value = value /\ i.old = p.value
  BY <1>2 DEF SlotEdit, IsPrim
<1> QED
  BY <1>1, <1>3, <1>4

(* The defaults that undo writes are values. *)
LEMMA Defaults ==
  /\ UndoDefault("symbol") = Blank /\ UndoDefault("comment") = Blank
  /\ UndoDefault("param") = Blank /\ UndoDefault("local_name") = Blank
  /\ UndoDefault("global") = UnknownTy /\ UndoDefault("local_type") = UnknownTy
  /\ UndoDefault("signature") = [body |-> VoidBody, param |-> Absent]
  /\ UndoDefault("memory") = Clear
  /\ Blank \in Plain /\ UnknownTy \in Plain /\ Clear \in Plain /\ ArgName \in Plain
  /\ SubBody \in Plain /\ AutoName \in Plain /\ VoidBody \in Plain
  /\ [body |-> VoidBody, param |-> Absent] \in Signatures
  /\ Absent \notin Plain /\ NoCapture \notin Plain /\ Absent \notin Signatures
  /\ NoCapture \notin Signatures /\ Absent \notin Locals /\ NoCapture \notin Locals
  /\ Absent # NoCapture
<1>1. /\ Blank \in Plain /\ UnknownTy \in Plain /\ Clear \in Plain /\ ArgName \in Plain
      /\ SubBody \in Plain /\ AutoName \in Plain /\ VoidBody \in Plain
  BY DEF Plain
<1>2. [body |-> VoidBody, param |-> Absent] \in Signatures
  BY <1>1 DEF Signatures
<1>3. /\ Absent \notin Plain /\ NoCapture \notin Plain /\ Absent \notin Signatures
      /\ NoCapture \notin Signatures /\ Absent \notin Locals /\ NoCapture \notin Locals
      /\ Absent # NoCapture
  BY ValuesAssumption, OpsAssumption
<1>4. /\ UndoDefault("symbol") = Blank /\ UndoDefault("comment") = Blank
      /\ UndoDefault("param") = Blank /\ UndoDefault("local_name") = Blank
      /\ UndoDefault("global") = UnknownTy /\ UndoDefault("local_type") = UnknownTy
      /\ UndoDefault("memory") = Clear
  BY DEF UndoDefault
<1>5. UndoDefault("signature") = [body |-> VoidBody, param |-> Absent]
  BY DEF UndoDefault
<1> QED
  BY <1>1, <1>2, <1>3, <1>4, <1>5

(* Undoing a slot edit, and redoing it after that.  In the slot, c is what *)
(* the edit found, d what undo finds, e what undo leaves.                  *)
UndoesValue(c, d, p) ==
  LET k == SlotOf(p.kind)
      e == NewValue(d, InversePrim(p))
  IN  /\ Left(k, e, c)
      /\ NewValue(e, p) = NewValue(c, p)
      /\ p.old # NoCapture => FitsValue(e, p)

(* A name, a comment or the type of a global: the slot holds one value. *)
LEMMA PlainUndone ==
  ASSUME NEW p, SlotEdit(p), p.kind \in {"symbol", "comment", "global"},
         NEW c, NEW d, FitsValue(c, p)
  PROVE  UndoesValue(c, d, p)
<1>1. PICK i : i = InversePrim(p)
  OBVIOUS
<1>2. /\ i.kind = p.kind
      /\ i.value = IF p.old \in {NoCapture, Absent} THEN UndoDefault(p.kind) ELSE p.old
  BY <1>1, InverseFields
<1>3. /\ NewValue(d, i) = i.value /\ SlotOf(p.kind) = p.kind
      /\ \A x : NewValue(x, p) = p.value /\ OldValue(x, p) = x
  BY <1>2 DEF NewValue, SlotOf, OldValue
<1>4. p.old # Absent
  BY DEF SlotEdit, IsPrim
<1>5. CASE p.old = NoCapture
  <2>1. c = Absent
    BY <1>3, <1>5 DEF FitsValue
  <2>2. i.value \in Residue(p.kind)
    BY <1>2, <1>5, Defaults DEF Residue
  <2>3. Left(p.kind, i.value, c)
    BY <2>1, <2>2 DEF Left
  <2> QED
    BY <1>1, <1>3, <1>5, <2>3 DEF UndoesValue
<1>6. CASE p.old # NoCapture
  <2>1. i.value = p.old /\ c = p.old
    BY <1>2, <1>3, <1>4, <1>6 DEF FitsValue
  <2>2. Left(p.kind, i.value, c) /\ FitsValue(i.value, p)
    BY <1>3, <1>6, <2>1 DEF Left, FitsValue
  <2> QED
    BY <1>1, <1>3, <2>2 DEF UndoesValue
<1> QED
  BY <1>5, <1>6

(* A whole signature, written over whatever was there. *)
LEMMA SignatureUndone ==
  ASSUME NEW p, SlotEdit(p), p.kind = "signature", NEW c, NEW d, FitsValue(c, p)
  PROVE  UndoesValue(c, d, p)
<1>1. PICK i : i = InversePrim(p)
  OBVIOUS
<1>2. /\ i.kind = p.kind
      /\ i.value = IF p.old \in {NoCapture, Absent} THEN UndoDefault(p.kind) ELSE p.old
  BY <1>1, InverseFields
<1>3. /\ NewValue(d, i) = i.value /\ SlotOf(p.kind) = p.kind
      /\ \A x : NewValue(x, p) = p.value /\ OldValue(x, p) = x
  BY <1>2 DEF NewValue, SlotOf, OldValue
<1>4. p.old # Absent
  BY DEF SlotEdit, IsPrim
<1>5. CASE p.old = NoCapture
  <2>1. c = Absent
    BY <1>3, <1>5 DEF FitsValue
  <2>2. PICK made : made = [body |-> VoidBody, param |-> Absent]
    OBVIOUS
  <2>3. i.value = made
    BY <1>2, <1>5, <2>2, Defaults
  <2>4. made \in Residue("signature")
    BY <2>2 DEF Residue
  <2>5. Left(p.kind, i.value, c)
    BY <2>1, <2>3, <2>4 DEF Left
  <2> QED
    BY <1>1, <1>3, <1>5, <2>5 DEF UndoesValue
<1>6. CASE p.old # NoCapture
  <2>1. i.value = p.old /\ c = p.old
    BY <1>2, <1>3, <1>4, <1>6 DEF FitsValue
  <2>2. Left(p.kind, i.value, c) /\ FitsValue(i.value, p)
    BY <1>3, <1>6, <2>1 DEF Left, FitsValue
  <2> QED
    BY <1>1, <1>3, <2>2 DEF UndoesValue
<1> QED
  BY <1>5, <1>6

(* A memory card, which undo can clear again. *)
LEMMA MemoryUndone ==
  ASSUME NEW p, SlotEdit(p), p.kind = "memory", NEW c \in SlotValues("memory"), NEW d,
         FitsValue(c, p)
  PROVE  UndoesValue(c, d, p)
<1>1. PICK i : i = InversePrim(p)
  OBVIOUS
<1>2. /\ i.kind = p.kind
      /\ i.value = IF p.old \in {NoCapture, Absent} THEN UndoDefault(p.kind) ELSE p.old
  BY <1>1, InverseFields
<1>3. /\ NewValue(d, i) = IF i.value = Clear THEN Absent ELSE i.value
      /\ SlotOf(p.kind) = p.kind
      /\ \A x : /\ NewValue(x, p) = IF p.value = Clear THEN Absent ELSE p.value
                /\ OldValue(x, p) = x
  BY <1>2 DEF NewValue, SlotOf, OldValue
<1>4. p.old # NoCapture /\ c = p.old
  BY <1>3 DEF FitsValue
<1>5. c # Clear
  BY Defaults DEF SlotValues
<1>6. NewValue(d, i) = c
  BY <1>2, <1>3, <1>4, <1>5, Defaults
<1>7. Left("memory", c, c) /\ FitsValue(c, p)
  BY DEF Left
<1> QED
  BY <1>1, <1>3, <1>6, <1>7 DEF UndoesValue

(* A parameter's name, in the signature c, is undone when undo finds the   *)
(* signature that the edit made.                                           *)
LEMMA ParamUndone ==
  ASSUME NEW p, SlotEdit(p), p.kind = "param", NEW c \in SlotValues("signature"), NEW d,
         FitsValue(c, p), Left("signature", d, NewValue(c, p))
  PROVE  UndoesValue(c, d, p)
<1>1. PICK i : i = InversePrim(p)
  OBVIOUS
<1>2. /\ i.kind = p.kind
      /\ i.value = IF p.old \in {NoCapture, Absent} THEN UndoDefault(p.kind) ELSE p.old
  BY <1>1, InverseFields
<1>3. p.value \in Plain /\ p.value # Absent /\ p.old # Absent
  BY Defaults DEF SlotEdit, TypedPrim, ValuesOf, IsPrim
<1>4. PICK body : body = IF c = Absent THEN SubBody ELSE c.body
  OBVIOUS
<1>5. PICK n : n = [body |-> body, param |-> p.value]
  OBVIOUS
<1>6. NewValue(c, p) = n /\ n.param = p.value /\ n.body = body
  BY <1>4, <1>5 DEF NewValue
<1>7. c # Absent => /\ c \in Signatures /\ c = [body |-> c.body, param |-> c.param]
                    /\ c.body \in Plain /\ c.param \in Plain \cup {Absent}
  BY DEF SlotValues, Signatures
<1>8. body \in Plain
  BY <1>4, <1>7, Defaults
<1>9. n \in Signatures /\ n # Absent
  BY <1>3, <1>5, <1>8, Defaults DEF Signatures
<1>10. d = n
  BY <1>3, <1>6, <1>9 DEF Left
<1>11. OldValue(c, p) = IF c = Absent THEN ArgName ELSE IF c.param = Absent THEN ArgName ELSE c.param
  BY DEF OldValue
<1>12. OldValue(c, p) \in Plain /\ OldValue(c, p) = p.old
  <2>1. OldValue(c, p) \in Plain
    BY <1>7, <1>11, Defaults
  <2> QED
    BY <2>1, Defaults DEF FitsValue
<1>13. i.value = p.old /\ p.old # NoCapture
  BY <1>2, <1>12, Defaults
<1>14. PICK e : e = [body |-> body, param |-> p.old]
  OBVIOUS
<1>15. e.body = body /\ e.param = p.old /\ e \in Signatures /\ e # Absent
  BY <1>8, <1>12, <1>14, Defaults DEF Signatures
<1>16. NewValue(d, i) = e
  <2>1. NewValue(d, i) = [body |-> IF d = Absent THEN SubBody ELSE d.body, param |-> i.value]
    BY <1>2 DEF NewValue
  <2> QED
    BY <1>6, <1>9, <1>10, <1>13, <1>14, <2>1
<1>17. Left("signature", e, c)
  <2>1. CASE c = Absent
    <3>1. e = [body |-> SubBody, param |-> ArgName]
      BY <1>4, <1>11, <1>12, <1>14, <2>1
    <3>2. e \in Residue("signature")
      BY <3>1 DEF Residue
    <3> QED
      BY <2>1, <3>2 DEF Left
  <2>2. CASE c # Absent /\ c.param = Absent
    <3>1. e = [body |-> c.body, param |-> ArgName]
      BY <1>4, <1>11, <1>12, <1>14, <2>2
    <3>2. e = [c EXCEPT !.param = ArgName]
      BY <1>7, <2>2, <3>1
    <3> QED
      BY <2>2, <3>2 DEF Left
  <2>3. CASE c # Absent /\ c.param # Absent
    <3>1. e = [body |-> c.body, param |-> c.param]
      BY <1>4, <1>11, <1>12, <1>14, <2>3
    <3> QED
      BY <1>7, <2>3, <3>1 DEF Left
  <2> QED
    BY <2>1, <2>2, <2>3
<1>18. NewValue(e, p) = n
  <2>1. NewValue(e, p) = [body |-> IF e = Absent THEN SubBody ELSE e.body, param |-> p.value]
    BY DEF NewValue
  <2> QED
    BY <1>5, <1>15, <2>1
<1>19. FitsValue(e, p)
  <2>1. OldValue(e, p) = IF e = Absent THEN ArgName ELSE IF e.param = Absent THEN ArgName ELSE e.param
    BY DEF OldValue
  <2> QED
    BY <1>3, <1>13, <1>15, <2>1 DEF FitsValue
<1>20. SlotOf(p.kind) = "signature"
  BY DEF SlotOf
<1> QED
  BY <1>1, <1>6, <1>16, <1>17, <1>18, <1>19, <1>20 DEF UndoesValue

(* The type of a local variable. *)
LEMMA LocalTypeUndone ==
  ASSUME NEW p, SlotEdit(p), p.kind = "local_type", NEW c \in SlotValues("local"), NEW d,
         FitsValue(c, p), Left("local", d, NewValue(c, p))
  PROVE  UndoesValue(c, d, p)
<1>1. PICK i : i = InversePrim(p)
  OBVIOUS
<1>2. /\ i.kind = p.kind
      /\ i.value = IF p.old \in {NoCapture, Absent} THEN UndoDefault(p.kind) ELSE p.old
  BY <1>1, InverseFields
<1>3. p.value \in Plain /\ p.old # Absent
  BY Defaults DEF SlotEdit, TypedPrim, ValuesOf, IsPrim
<1>4. PICK name : name = IF c = Absent THEN Absent ELSE c.name
  OBVIOUS
<1>5. PICK n : n = [ty |-> p.value, name |-> name]
  OBVIOUS
<1>6. NewValue(c, p) = n /\ n.name = name
  BY <1>4, <1>5 DEF NewValue
<1>7. c # Absent => /\ c \in Locals /\ c = [ty |-> c.ty, name |-> c.name]
                    /\ c.ty \in Plain /\ c.name \in Plain \cup {Absent}
  BY DEF SlotValues, Locals
<1>8. n \in Locals /\ n # Absent
  BY <1>3, <1>4, <1>5, <1>7, Defaults DEF Locals
<1>9. d = n
  BY <1>6, <1>8 DEF Left
<1>10. OldValue(c, p) = IF c = Absent THEN Absent ELSE c.ty
  BY DEF OldValue
<1>11. PICK e : e = [ty |-> i.value, name |-> name]
  OBVIOUS
<1>12. NewValue(d, i) = e
  <2>1. NewValue(d, i) = [ty |-> i.value, name |-> IF d = Absent THEN Absent ELSE d.name]
    BY <1>2 DEF NewValue
  <2> QED
    BY <1>6, <1>8, <1>9, <1>11, <2>1
<1>13. i.value \in Plain
  BY <1>2, <1>3, Defaults DEF SlotEdit, TypedPrim, ValuesOf
<1>14. e.ty = i.value /\ e.name = name /\ e \in Locals /\ e # Absent
  BY <1>4, <1>7, <1>11, <1>13, Defaults DEF Locals
<1>15. Left("local", e, c)
  <2>1. CASE p.old = NoCapture
    <3>1. c = Absent
      BY <1>7, <1>10, <2>1, Defaults DEF FitsValue
    <3>2. e = [ty |-> UnknownTy, name |-> Absent]
      BY <1>2, <1>4, <1>11, <2>1, <3>1, Defaults
    <3>3. e \in Residue("local")
      BY <3>2 DEF Residue
    <3> QED
      BY <3>1, <3>3 DEF Left
  <2>2. CASE p.old # NoCapture
    <3>1. OldValue(c, p) = p.old
      BY <2>2 DEF FitsValue
    <3>2. c # Absent /\ c.ty = p.old /\ i.value = p.old
      BY <1>2, <1>3, <1>10, <2>2, <3>1
    <3>3. e = c
      BY <1>4, <1>7, <1>11, <3>2
    <3> QED
      BY <3>3 DEF Left
  <2> QED
    BY <2>1, <2>2
<1>16. NewValue(e, p) = n
  <2>1. NewValue(e, p) = [ty |-> p.value, name |-> IF e = Absent THEN Absent ELSE e.name]
    BY DEF NewValue
  <2> QED
    BY <1>5, <1>14, <2>1
<1>17. p.old # NoCapture => FitsValue(e, p)
  <2>1. OldValue(e, p) = IF e = Absent THEN Absent ELSE e.ty
    BY DEF OldValue
  <2> QED
    BY <1>2, <1>3, <1>14, <2>1 DEF FitsValue
<1>18. SlotOf(p.kind) = "local"
  BY DEF SlotOf
<1> QED
  BY <1>1, <1>6, <1>12, <1>15, <1>16, <1>17, <1>18 DEF UndoesValue

(* The name of a local variable. *)
LEMMA LocalNameUndone ==
  ASSUME NEW p, SlotEdit(p), p.kind = "local_name", NEW c \in SlotValues("local"), NEW d,
         FitsValue(c, p), Left("local", d, NewValue(c, p))
  PROVE  UndoesValue(c, d, p)
<1>1. PICK i : i = InversePrim(p)
  OBVIOUS
<1>2. /\ i.kind = p.kind
      /\ i.value = IF p.old \in {NoCapture, Absent} THEN UndoDefault(p.kind) ELSE p.old
  BY <1>1, InverseFields
<1>3. p.value \in Plain
  BY Defaults DEF SlotEdit, TypedPrim, ValuesOf, IsPrim
<1>4. PICK ty : ty = IF c = Absent THEN UnknownTy ELSE c.ty
  OBVIOUS
<1>5. PICK name : name = IF p.value = Blank THEN Absent ELSE p.value
  OBVIOUS
<1>6. PICK n : n = [ty |-> ty, name |-> name]
  OBVIOUS
<1>7. NewValue(c, p) = n /\ n.ty = ty
  BY <1>4, <1>5, <1>6 DEF NewValue
<1>8. c # Absent => /\ c \in Locals /\ c = [ty |-> c.ty, name |-> c.name]
                    /\ c.ty \in Plain /\ c.name \in Plain \cup {Absent} /\ c.name # Blank
  BY DEF SlotValues, Locals
<1>9. ty \in Plain /\ name \in Plain \cup {Absent}
  BY <1>3, <1>4, <1>5, <1>8, Defaults
<1>10. n \in Locals /\ n # Absent
  BY <1>6, <1>9, Defaults DEF Locals
<1>11. d = n
  BY <1>7, <1>10 DEF Left
<1>12. OldValue(c, p) = IF c = Absent THEN Absent ELSE c.name
  BY DEF OldValue
<1>13. p.old # NoCapture /\ p.old = OldValue(c, p) /\ p.old # Blank
  <2>1. p.old # NoCapture /\ p.old = OldValue(c, p)
    BY DEF FitsValue
  <2> QED
    BY <1>8, <1>12, <2>1, Defaults
<1>14. PICK e : e = [ty |-> ty, name |-> p.old]
  OBVIOUS
<1>15. (IF i.value = Blank THEN Absent ELSE i.value) = p.old
  BY <1>2, <1>13, Defaults
<1>16. NewValue(d, i) = e
  <2>1. NewValue(d, i) = [ty |-> IF d = Absent THEN UnknownTy ELSE d.ty,
                          name |-> IF i.value = Blank THEN Absent ELSE i.value]
    BY <1>2 DEF NewValue
  <2> QED
    BY <1>7, <1>10, <1>11, <1>14, <1>15, <2>1
<1>17. e.ty = ty /\ e.name = p.old /\ e \in Locals /\ e # Absent
  BY <1>8, <1>9, <1>12, <1>13, <1>14, Defaults DEF Locals
<1>18. Left("local", e, c)
  <2>1. CASE c = Absent
    <3>1. e = [ty |-> UnknownTy, name |-> Absent]
      BY <1>4, <1>12, <1>13, <1>14, <2>1
    <3>2. e \in Residue("local")
      BY <3>1 DEF Residue
    <3> QED
      BY <2>1, <3>2 DEF Left
  <2>2. CASE c # Absent
    <3>1. e = c
      BY <1>4, <1>8, <1>12, <1>13, <1>14, <2>2
    <3> QED
      BY <3>1 DEF Left
  <2> QED
    BY <2>1, <2>2
<1>19. NewValue(e, p) = n
  <2>1. NewValue(e, p) = [ty |-> IF e = Absent THEN UnknownTy ELSE e.ty,
                          name |-> IF p.value = Blank THEN Absent ELSE p.value]
    BY DEF NewValue
  <2> QED
    BY <1>5, <1>6, <1>17, <2>1
<1>20. FitsValue(e, p)
  <2>1. OldValue(e, p) = IF e = Absent THEN Absent ELSE e.name
    BY DEF OldValue
  <2> QED
    BY <1>13, <1>17, <2>1 DEF FitsValue
<1>21. SlotOf(p.kind) = "local"
  BY DEF SlotOf
<1> QED
  BY <1>1, <1>7, <1>16, <1>18, <1>19, <1>20, <1>21 DEF UndoesValue

(* Undo of any slot edit. *)
LEMMA ValueUndone ==
  ASSUME NEW p, SlotEdit(p), NEW c \in SlotValues(SlotOf(p.kind)), NEW d,
         FitsValue(c, p), Left(SlotOf(p.kind), d, NewValue(c, p))
  PROVE  UndoesValue(c, d, p)
<1>1. p.kind \in {"symbol", "comment", "global", "signature", "param", "local_type", "local_name",
                  "memory"}
  BY DEF SlotEdit, IsPrim, PrimKinds
<1>2. CASE p.kind \in {"symbol", "comment", "global"}
  BY <1>2, PlainUndone
<1>3. CASE p.kind = "signature"
  BY <1>3, SignatureUndone
<1>4. CASE p.kind = "param"
  <2>1. SlotOf(p.kind) = "signature"
    BY <1>4 DEF SlotOf
  <2> QED
    BY <1>4, <2>1, ParamUndone
<1>5. CASE p.kind = "local_type"
  <2>1. SlotOf(p.kind) = "local"
    BY <1>5 DEF SlotOf
  <2> QED
    BY <1>5, <2>1, LocalTypeUndone
<1>6. CASE p.kind = "local_name"
  <2>1. SlotOf(p.kind) = "local"
    BY <1>6 DEF SlotOf
  <2> QED
    BY <1>6, <2>1, LocalNameUndone
<1>7. CASE p.kind = "memory"
  <2>1. SlotOf(p.kind) = "memory"
    BY <1>7 DEF SlotOf
  <2> QED
    BY <1>7, <2>1, MemoryUndone
<1> QED
  BY <1>1, <1>2, <1>3, <1>4, <1>5, <1>6, <1>7

(* A slot edit leaves a value of the slot's type, and what it captures is  *)
(* a value of its own type.                                                *)
LEMMA ValueTyped ==
  ASSUME NEW p, SlotEdit(p), NEW c \in SlotValues(SlotOf(p.kind))
  PROVE  /\ NewValue(c, p) \in SlotValues(SlotOf(p.kind))
         /\ OldValue(c, p) \in ValuesOf(p.kind) \cup {Absent}
         /\ OldValue(c, p) # NoCapture
<1>1. p.kind \in {"symbol", "comment", "global", "signature", "param", "local_type", "local_name",
                  "memory"}
  BY DEF SlotEdit, IsPrim, PrimKinds
<1>2. CASE p.kind \in {"symbol", "comment", "global"}
  <2>1. /\ SlotOf(p.kind) = p.kind /\ NewValue(c, p) = p.value /\ OldValue(c, p) = c
        /\ ValuesOf(p.kind) = Plain /\ SlotValues(p.kind) = {Absent} \cup Plain
    BY <1>2 DEF SlotOf, NewValue, OldValue, ValuesOf, SlotValues
  <2> QED
    BY <2>1, Defaults DEF SlotEdit, TypedPrim
<1>3. CASE p.kind = "signature"
  <2>1. /\ SlotOf(p.kind) = p.kind /\ NewValue(c, p) = p.value /\ OldValue(c, p) = c
        /\ ValuesOf(p.kind) = Signatures /\ SlotValues(p.kind) = {Absent} \cup Signatures
    BY <1>3 DEF SlotOf, NewValue, OldValue, ValuesOf, SlotValues
  <2> QED
    BY <2>1, Defaults DEF SlotEdit, TypedPrim
<1>4. CASE p.kind = "memory"
  <2>1. /\ SlotOf(p.kind) = p.kind /\ OldValue(c, p) = c
        /\ NewValue(c, p) = IF p.value = Clear THEN Absent ELSE p.value
        /\ ValuesOf(p.kind) = Plain /\ SlotValues(p.kind) = {Absent} \cup (Plain \ {Clear})
    BY <1>4 DEF SlotOf, NewValue, OldValue, ValuesOf, SlotValues
  <2> QED
    BY <2>1, Defaults DEF SlotEdit, TypedPrim
<1>5. CASE p.kind = "param"
  <2>1. SlotOf(p.kind) = "signature" /\ SlotValues("signature") = {Absent} \cup Signatures
        /\ ValuesOf(p.kind) = Plain
    BY <1>5 DEF SlotOf, SlotValues, ValuesOf
  <2>2. c # Absent => c.body \in Plain /\ c.param \in Plain \cup {Absent}
    BY <2>1 DEF Signatures
  <2>3. PICK body : body = IF c = Absent THEN SubBody ELSE c.body
    OBVIOUS
  <2>4. NewValue(c, p) = [body |-> body, param |-> p.value]
    BY <1>5, <2>3 DEF NewValue
  <2>5. body \in Plain /\ p.value \in Plain
    BY <2>1, <2>2, <2>3, Defaults DEF SlotEdit, TypedPrim
  <2>6. NewValue(c, p) \in Signatures
    BY <2>4, <2>5 DEF Signatures
  <2>7. OldValue(c, p) = IF c = Absent THEN ArgName ELSE IF c.param = Absent THEN ArgName ELSE c.param
    BY <1>5 DEF OldValue
  <2>8. OldValue(c, p) \in Plain
    BY <2>2, <2>7, Defaults
  <2> QED
    BY <2>1, <2>6, <2>8, Defaults
<1>6. CASE p.kind = "local_type"
  <2>1. SlotOf(p.kind) = "local" /\ SlotValues("local") = {Absent} \cup {x \in Locals : x.name # Blank}
        /\ ValuesOf(p.kind) = Plain
    BY <1>6 DEF SlotOf, SlotValues, ValuesOf
  <2>2. c # Absent => c.ty \in Plain /\ c.name \in Plain \cup {Absent} /\ c.name # Blank
    BY <2>1 DEF Locals
  <2>3. PICK name : name = IF c = Absent THEN Absent ELSE c.name
    OBVIOUS
  <2>4. NewValue(c, p) = [ty |-> p.value, name |-> name]
    BY <1>6, <2>3 DEF NewValue
  <2>5. name \in Plain \cup {Absent} /\ p.value \in Plain /\ name # Blank
    BY <2>1, <2>2, <2>3, Defaults DEF SlotEdit, TypedPrim
  <2>6. PICK n : n = [ty |-> p.value, name |-> name]
    OBVIOUS
  <2>7. n \in Locals /\ n.name # Blank
    BY <2>5, <2>6 DEF Locals
  <2>8. OldValue(c, p) = IF c = Absent THEN Absent ELSE c.ty
    BY <1>6 DEF OldValue
  <2>9. OldValue(c, p) \in Plain \cup {Absent}
    BY <2>2, <2>8
  <2> QED
    BY <2>1, <2>4, <2>6, <2>7, <2>9, Defaults
<1>7. CASE p.kind = "local_name"
  <2>1. SlotOf(p.kind) = "local" /\ SlotValues("local") = {Absent} \cup {x \in Locals : x.name # Blank}
        /\ ValuesOf(p.kind) = Plain
    BY <1>7 DEF SlotOf, SlotValues, ValuesOf
  <2>2. c # Absent => c.ty \in Plain /\ c.name \in Plain \cup {Absent} /\ c.name # Blank
    BY <2>1 DEF Locals
  <2>3. PICK ty : ty = IF c = Absent THEN UnknownTy ELSE c.ty
    OBVIOUS
  <2>4. PICK name : name = IF p.value = Blank THEN Absent ELSE p.value
    OBVIOUS
  <2>5. NewValue(c, p) = [ty |-> ty, name |-> name]
    BY <1>7, <2>3, <2>4 DEF NewValue
  <2>6. name \in Plain \cup {Absent} /\ ty \in Plain /\ name # Blank
    BY <2>1, <2>2, <2>3, <2>4, Defaults DEF SlotEdit, TypedPrim
  <2>7. PICK n : n = [ty |-> ty, name |-> name]
    OBVIOUS
  <2>8. n \in Locals /\ n.name # Blank
    BY <2>6, <2>7 DEF Locals
  <2>9. OldValue(c, p) = IF c = Absent THEN Absent ELSE c.name
    BY <1>7 DEF OldValue
  <2>10. OldValue(c, p) \in Plain \cup {Absent}
    BY <2>2, <2>9
  <2> QED
    BY <2>1, <2>5, <2>7, <2>8, <2>10, Defaults
<1> QED
  BY <1>1, <1>2, <1>3, <1>4, <1>5, <1>6, <1>7

----------------------------------------------------------------------------
(* What undo and redo do to a state. *)

(* States that ops can leave. *)
Sound(st) ==
  /\ DOMAIN st = {"val", "focus", "aliases"} /\ st.focus \in Vas
  /\ DOMAIN st.val = SlotKinds
  /\ \A k \in SlotKinds : /\ DOMAIN st.val[k] = Vas
                          /\ \A a \in Vas : st.val[k][a] \in SlotValues(k)

TypedOp(p) == IsPrim(p) /\ TypedPrim(p)

FocusAfter(focus, p) == IF p.kind = "focus" /\ p.va \in Functions THEN p.va ELSE focus

(* p takes the annotations of st to those of w. *)
Gives(st, p, w) ==
  /\ w.focus = FocusAfter(st.focus, p)
  /\ \A k \in SlotKinds, a \in Vas :
       w.val[k][a] = IF p.kind # "focus" /\ k = SlotOf(p.kind) /\ a = p.va
                     THEN NewValue(st.val[k][a], p) ELSE st.val[k][a]

(* The capture of p is what p found in st; for a focus on an entry point   *)
(* that is no function, also where p was going.                            *)
Fits(st, p) ==
  IF p.kind = "focus"
  THEN /\ p.old # NoCapture
       /\ \/ st.focus = p.old
          \/ p.old \notin Functions /\ (p.va \in Functions => st.focus = p.va)
  ELSE FitsValue(st.val[SlotOf(p.kind)][p.va], p)

(* The slot that an edit writes is one of the state. *)
LEMMA SlotKind ==
  ASSUME NEW p, SlotEdit(p)
  PROVE  SlotOf(p.kind) \in SlotKinds
BY DEF SlotEdit, IsPrim, PrimKinds, SlotOf, SlotKinds

(* What one op does to the annotations, and that they stay sound. *)
LEMMA WrittenGives ==
  ASSUME NEW st, Sound(st), NEW p, TypedOp(p)
  PROVE  Gives(st, p, Written(st, p)) /\ Sound(Written(st, p))
<1>1. PICK w : w = Written(st, p)
  OBVIOUS
<1>2. CASE p.kind = "focus"
  <2>1. PICK focus : focus = IF p.va \in Functions THEN p.va ELSE st.focus
    OBVIOUS
  <2>2. w = [st EXCEPT !.focus = focus]
    BY <1>1, <1>2, <2>1 DEF Written
  <2>3. w.focus = focus /\ w.val = st.val /\ DOMAIN w = DOMAIN st
    BY <2>2 DEF Sound
  <2>4. focus \in Vas
    BY <2>1 DEF TypedOp, TypedPrim, Sound
  <2> QED
    BY <1>1, <1>2, <2>1, <2>3, <2>4 DEF Gives, Sound, FocusAfter
<1>3. CASE p.kind # "focus"
  <2>1. SlotEdit(p)
    BY <1>3 DEF TypedOp, SlotEdit
  <2>2. PICK k \in SlotKinds : k = SlotOf(p.kind)
    BY <2>1, SlotKind
  <2>3. PICK a \in Vas : a = p.va
    BY DEF TypedOp, TypedPrim
  <2>4. PICK n : n = NewValue(st.val[k][a], p)
    OBVIOUS
  <2>5. PICK aliases : aliases = IF p.kind = "symbol" /\ p.old # NoCapture
                                 THEN Append(st.aliases, <<p.va, p.old, p.value>>) ELSE st.aliases
    OBVIOUS
  <2>6. w = [st EXCEPT !.val[k][a] = n, !.aliases = aliases]
    BY <1>1, <1>3, <2>2, <2>3, <2>4, <2>5 DEF Written
  <2>7. PICK v : v = st.val
    OBVIOUS
  <2>8. w.val = [v EXCEPT ![k][a] = n] /\ w.focus = st.focus /\ DOMAIN w = DOMAIN st
    BY <2>6, <2>7 DEF Sound
  <2>9. /\ DOMAIN v = SlotKinds
        /\ \A j \in SlotKinds : DOMAIN v[j] = Vas /\ \A b \in Vas : v[j][b] \in SlotValues(j)
    BY <2>7 DEF Sound
  <2>10. /\ DOMAIN w.val = SlotKinds
         /\ \A j \in SlotKinds : DOMAIN w.val[j] = Vas
    BY <2>8, <2>9
  <2>11. w.val[k][a] = n
    BY <2>8, <2>9
  <2>12. \A j \in SlotKinds, b \in Vas : j # k \/ b # a => w.val[j][b] = v[j][b]
    BY <2>8, <2>9
  <2>13. n \in SlotValues(k)
    BY <2>1, <2>2, <2>4, <2>7, <2>9, ValueTyped
  <2>14. Gives(st, p, w)
    BY <1>3, <2>2, <2>3, <2>4, <2>7, <2>8, <2>11, <2>12 DEF Gives, FocusAfter
  <2>15. Sound(w)
    <3>1. \A j \in SlotKinds, b \in Vas : w.val[j][b] \in SlotValues(j)
      BY <2>9, <2>11, <2>12, <2>13
    <3> QED
      BY <2>8, <2>10, <3>1 DEF Sound
  <2> QED
    BY <1>1, <2>14, <2>15
<1> QED
  BY <1>2, <1>3

(* What an op does does not depend on its capture. *)
LEMMA GivesSame ==
  ASSUME NEW st, NEW w, NEW p, NEW q, p.kind = q.kind, p.va = q.va, p.value = q.value
  PROVE  /\ Gives(st, p, w) => Gives(st, q, w)
         /\ \A c : OldValue(c, p) = OldValue(c, q)
<1>1. \A c : NewValue(c, p) = NewValue(c, q)
  BY DEF NewValue
<1>2. \A c : OldValue(c, p) = OldValue(c, q)
  BY DEF OldValue
<1>3. SlotOf(p.kind) = SlotOf(q.kind) /\ FocusAfter(st.focus, p) = FocusAfter(st.focus, q)
  BY DEF FocusAfter
<1> QED
  BY <1>1, <1>2, <1>3 DEF Gives

(* An op that had captured nothing fits the state it is applied to. *)
LEMMA CaptureFits ==
  ASSUME NEW st, Sound(st), NEW p, TypedOp(p)
  PROVE  /\ TypedOp(Capture(st, p))
         /\ p.old # NoCapture => Capture(st, p) = p
         /\ p.old = NoCapture => Fits(st, Capture(st, p))
<1>1. PICK q : q = Capture(st, p)
  OBVIOUS
<1>2. /\ IsPrim(q) /\ q.kind = p.kind /\ q.va = p.va /\ q.value = p.value
      /\ p.old = NoCapture /\ Found(st, p) = Absent /\ p.kind \notin {"local_name", "memory"}
           => q.old = NoCapture
      /\ p.old = NoCapture /\ ~(Found(st, p) = Absent /\ p.kind \notin {"local_name", "memory"})
           => q.old = Found(st, p)
  BY <1>1, CaptureShape DEF TypedOp
<1>3. p.old # NoCapture => q = p
  BY <1>1 DEF Capture
<1>4. CASE p.old # NoCapture
  BY <1>1, <1>3, <1>4
<1>5. CASE p.old = NoCapture /\ p.kind = "focus"
  <2>1. Found(st, p) = st.focus /\ st.focus \in Vas /\ st.focus # Absent /\ st.focus # NoCapture
    BY <1>5, ValuesAssumption DEF Found, Sound
  <2>2. q.old = st.focus
    BY <1>2, <1>5, <2>1
  <2>3. TypedPrim(q)
    BY <1>2, <1>5, <2>1, <2>2 DEF TypedOp, TypedPrim
  <2>4. Fits(st, q)
    BY <1>2, <1>5, <2>1, <2>2 DEF Fits
  <2> QED
    BY <1>1, <1>2, <1>5, <2>3, <2>4 DEF TypedOp
<1>6. CASE p.old = NoCapture /\ p.kind # "focus"
  <2>1. SlotEdit(p)
    BY <1>6 DEF TypedOp, SlotEdit
  <2>2. PICK c : c = st.val[SlotOf(p.kind)][p.va]
    OBVIOUS
  <2>3. c \in SlotValues(SlotOf(p.kind))
    BY <2>1, <2>2, SlotKind DEF Sound, SlotEdit, TypedPrim
  <2>4. Found(st, p) = OldValue(c, p)
    BY <1>6, <2>2 DEF Found, Slot
  <2>5. OldValue(c, p) \in ValuesOf(p.kind) \cup {Absent} /\ OldValue(c, p) # NoCapture
    BY <2>1, <2>3, ValueTyped
  <2>6. OldValue(c, q) = OldValue(c, p)
    BY <1>2, GivesSame
  <2>7. TypedPrim(q)
    BY <1>2, <1>6, <2>4, <2>5 DEF TypedOp, TypedPrim
  <2>8. FitsValue(c, q)
    BY <1>2, <1>6, <2>4, <2>5, <2>6 DEF FitsValue
  <2>9. Fits(st, q)
    BY <1>2, <1>6, <2>2, <2>8 DEF Fits
  <2> QED
    BY <1>1, <1>2, <1>6, <2>7, <2>9 DEF TypedOp
<1> QED
  BY <1>4, <1>5, <1>6

(* Applying a single edit: what it does, and the op that is recorded. *)
LEMMA ApplyGives ==
  ASSUME NEW st, Sound(st), NEW p, TypedOp(p)
  PROVE  /\ Gives(st, p, ApplyPrim(st, p).st) /\ Sound(ApplyPrim(st, p).st)
         /\ Gives(st, ApplyPrim(st, p).op, ApplyPrim(st, p).st)
         /\ ApplyPrim(st, p).op = Capture(st, p)
<1>1. PICK q : q = Capture(st, p)
  OBVIOUS
<1>2. TypedOp(q) /\ q.kind = p.kind /\ q.va = p.va /\ q.value = p.value
  BY <1>1, CaptureFits, CaptureShape DEF TypedOp
<1>3. PICK w : w = Written(st, q)
  OBVIOUS
<1>4. ApplyPrim(st, p).op = q /\ ApplyPrim(st, p).st = w
  BY <1>1, <1>3 DEF ApplyPrim, Applied
<1>5. Gives(st, q, w) /\ Sound(w)
  BY <1>2, <1>3, WrittenGives
<1>6. Gives(st, p, w)
  BY <1>2, <1>5, GivesSame
<1> QED
  BY <1>1, <1>4, <1>5, <1>6

(* The inverse of a typed op is typed. *)
LEMMA InverseTyped ==
  ASSUME NEW p, TypedOp(p)
  PROVE  TypedOp(InversePrim(p))
<1>1. PICK i : i = InversePrim(p)
  OBVIOUS
<1>2. IsPrim(i) /\ i.kind = p.kind
  BY <1>1, InverseIsPrim DEF TypedOp
<1>3. CASE p.kind = "focus"
  <2>1. PICK va : va = IF p.old = NoCapture THEN p.va ELSE p.old
    OBVIOUS
  <2>2. i = [p EXCEPT !.va = va, !.old = p.va]
    BY <1>1, <1>3, <2>1 DEF InversePrim
  <2>3. i.va = va /\ i.old = p.va /\ i.value = p.value
    BY <2>2 DEF TypedOp, IsPrim
  <2>4. va \in Vas
    BY <1>3, <2>1 DEF TypedOp, TypedPrim
  <2> QED
    BY <1>1, <1>2, <1>3, <2>3, <2>4 DEF TypedOp, TypedPrim
<1>4. CASE p.kind # "focus"
  <2>1. SlotEdit(p)
    BY <1>4 DEF TypedOp, SlotEdit
  <2>2. /\ i.va = p.va /\ i.old = p.value
        /\ i.value = IF p.old \in {NoCapture, Absent} THEN UndoDefault(p.kind) ELSE p.old
    BY <1>1, <2>1, InverseFields
  <2>3. UndoDefault(p.kind) \in ValuesOf(p.kind)
    <3>1. p.kind \in {"symbol", "comment", "global", "signature", "param", "local_type",
                      "local_name", "memory"}
      BY <2>1 DEF SlotEdit, IsPrim, PrimKinds
    <3>2. CASE p.kind = "signature"
      BY <3>2, Defaults DEF ValuesOf
    <3>3. CASE p.kind # "signature"
      BY <3>1, <3>3, Defaults DEF ValuesOf
    <3> QED
      BY <3>2, <3>3
  <2>4. i.value \in ValuesOf(p.kind)
    BY <1>4, <2>2, <2>3 DEF TypedOp, TypedPrim
  <2> QED
    BY <1>1, <1>2, <1>4, <2>2, <2>4 DEF TypedOp, TypedPrim
<1> QED
  BY <1>3, <1>4

(* UndoneTo, slot by slot. *)
LEMMA UndoneSlots ==
  ASSUME NEW st, NEW b
  PROVE  UndoneTo(st, b) <=> /\ st.focus = b.focus \/ b.focus \notin Functions
                             /\ \A k \in SlotKinds, a \in Vas : Left(k, st.val[k][a], b.val[k][a])
BY DEF UndoneTo, Left

(* One edit: p took s to s1; undo finds d and leaves e; redo finds r and   *)
(* leaves r1.                                                              *)
LEMMA PrimUndone ==
  ASSUME NEW s, Sound(s), NEW p, TypedOp(p), Fits(s, p), NEW s1, Gives(s, p, s1),
         NEW d, UndoneTo(d, s1), NEW e, Gives(d, InversePrim(p), e)
  PROVE  /\ UndoneTo(e, s)
         /\ \A r, r1 : Between(r, s, e) /\ Gives(r, p, r1) =>
              Between(r1, s1, d) /\ (p.old # NoCapture => Fits(r, p))
<1>1. PICK i : i = InversePrim(p)
  OBVIOUS
<1>2. i.kind = p.kind
  BY <1>1, InverseIsPrim DEF TypedOp
<1>3. /\ d.focus = s1.focus \/ s1.focus \notin Functions
      /\ \A k \in SlotKinds, a \in Vas : Left(k, d.val[k][a], s1.val[k][a])
  BY UndoneSlots
<1>4. CASE p.kind = "focus"
  <2>1. \A k \in SlotKinds, a \in Vas : s1.val[k][a] = s.val[k][a] /\ e.val[k][a] = d.val[k][a]
    BY <1>1, <1>2, <1>4 DEF Gives
  <2>2. s1.focus = IF p.va \in Functions THEN p.va ELSE s.focus
    BY <1>4 DEF Gives, FocusAfter
  <2>3. /\ p.old # NoCapture
        /\ \/ s.focus = p.old
           \/ p.old \notin Functions /\ (p.va \in Functions => s.focus = p.va)
    BY <1>4 DEF Fits
  <2>4. i = [p EXCEPT !.va = p.old, !.old = p.va]
    BY <1>1, <1>4, <2>3 DEF InversePrim
  <2>5. i.va = p.old
    BY <2>4 DEF TypedOp, IsPrim
  <2>6. e.focus = IF p.old \in Functions THEN p.old ELSE d.focus
    BY <1>1, <1>2, <1>4, <2>5 DEF Gives, FocusAfter
  <2>7. UndoneTo(e, s)
    <3>1. e.focus = s.focus \/ s.focus \notin Functions
      BY <1>3, <2>2, <2>3, <2>6
    <3>2. \A k \in SlotKinds, a \in Vas : Left(k, e.val[k][a], s.val[k][a])
      BY <1>3, <2>1
    <3> QED
      BY <3>1, <3>2, UndoneSlots
  <2>8. ASSUME NEW r, NEW r1, Between(r, s, e), Gives(r, p, r1)
        PROVE  Between(r1, s1, d) /\ Fits(r, p)
    <3>1. \A k \in SlotKinds, a \in Vas : r1.val[k][a] = r.val[k][a]
      BY <1>4, <2>8 DEF Gives
    <3>2. r1.focus = IF p.va \in Functions THEN p.va ELSE r.focus
      BY <1>4, <2>8 DEF Gives, FocusAfter
    <3>3. r.focus = s.focus \/ r.focus = e.focus
      BY <2>8 DEF Between
    <3>4. r1.focus \in {s1.focus, d.focus}
      BY <2>2, <2>3, <2>6, <3>2, <3>3
    <3>5. \A k \in SlotKinds, a \in Vas : r1.val[k][a] \in {s1.val[k][a], d.val[k][a]}
      BY <2>1, <2>8, <3>1 DEF Between
    <3>6. Between(r1, s1, d)
      BY <3>4, <3>5 DEF Between
    <3>7. r.focus = p.old \/ (p.old \notin Functions /\ (p.va \in Functions => r.focus = p.va))
      BY <1>3, <2>2, <2>3, <2>6, <3>3
    <3> QED
      BY <1>4, <2>3, <3>6, <3>7 DEF Fits
  <2> QED
    BY <2>7, <2>8
<1>5. CASE p.kind # "focus"
  <2>1. SlotEdit(p)
    BY <1>5 DEF TypedOp, SlotEdit
  <2>2. i.va = p.va
    BY <1>1, <2>1, InverseFields
  <2>3. PICK x \in SlotKinds : x = SlotOf(p.kind)
    BY <2>1, SlotKind
  <2>4. PICK y \in Vas : y = p.va
    BY <2>1 DEF SlotEdit, TypedPrim
  <2>5. s1.focus = s.focus /\ e.focus = d.focus
    BY <1>1, <1>2, <1>5 DEF Gives, FocusAfter
  <2>6. \A k \in SlotKinds, a \in Vas : k # x \/ a # y =>
          s1.val[k][a] = s.val[k][a] /\ e.val[k][a] = d.val[k][a]
    BY <1>1, <1>2, <1>5, <2>2, <2>3, <2>4 DEF Gives
  <2>7. s1.val[x][y] = NewValue(s.val[x][y], p) /\ e.val[x][y] = NewValue(d.val[x][y], i)
    BY <1>1, <1>2, <1>5, <2>2, <2>3, <2>4 DEF Gives
  <2>8. PICK c : c = s.val[x][y]
    OBVIOUS
  <2>9. c \in SlotValues(x) /\ FitsValue(c, p)
    BY <1>5, <2>3, <2>4, <2>8 DEF Sound, Fits
  <2>10. UndoesValue(c, d.val[x][y], p)
    BY <1>3, <2>1, <2>3, <2>7, <2>8, <2>9, ValueUndone
  <2>11. /\ Left(x, e.val[x][y], c) /\ NewValue(e.val[x][y], p) = NewValue(c, p)
         /\ p.old # NoCapture => FitsValue(e.val[x][y], p)
    BY <1>1, <2>3, <2>7, <2>10 DEF UndoesValue
  <2>12. UndoneTo(e, s)
    <3>1. \A k \in SlotKinds, a \in Vas : Left(k, e.val[k][a], s.val[k][a])
      BY <1>3, <2>6, <2>8, <2>11
    <3> QED
      BY <1>3, <2>5, <3>1, UndoneSlots
  <2>13. ASSUME NEW r, NEW r1, Between(r, s, e), Gives(r, p, r1)
         PROVE  Between(r1, s1, d) /\ (p.old # NoCapture => Fits(r, p))
    <3>1. r1.focus = r.focus
      BY <1>5, <2>13 DEF Gives, FocusAfter
    <3>2. \A k \in SlotKinds, a \in Vas : k # x \/ a # y => r1.val[k][a] = r.val[k][a]
      BY <1>5, <2>3, <2>4, <2>13 DEF Gives
    <3>3. r1.val[x][y] = NewValue(r.val[x][y], p)
      BY <1>5, <2>3, <2>4, <2>13 DEF Gives
    <3>4. r.val[x][y] = c \/ r.val[x][y] = e.val[x][y]
      BY <2>8, <2>13 DEF Between
    <3>5. r1.val[x][y] = s1.val[x][y]
      BY <2>7, <2>8, <2>11, <3>3, <3>4
    <3>6. ASSUME NEW k \in SlotKinds, NEW a \in Vas
          PROVE  r1.val[k][a] \in {s1.val[k][a], d.val[k][a]}
      <4>1. CASE k = x /\ a = y
        BY <3>5, <4>1
      <4>2. CASE k # x \/ a # y
        <5>1. r.val[k][a] = s.val[k][a] \/ r.val[k][a] = e.val[k][a]
          BY <2>13 DEF Between
        <5> QED
          BY <2>6, <3>2, <4>2, <5>1
      <4> QED
        BY <4>1, <4>2
    <3>7. r1.focus \in {s1.focus, d.focus}
      BY <2>5, <2>13, <3>1 DEF Between
    <3>8. p.old # NoCapture => FitsValue(r.val[x][y], p)
      BY <2>9, <2>11, <3>4
    <3>9. p.old # NoCapture => Fits(r, p)
      BY <1>5, <2>3, <2>4, <3>8 DEF Fits
    <3> QED
      BY <3>6, <3>7, <3>9 DEF Between
  <2> QED
    BY <2>12, <2>13
<1> QED
  BY <1>4, <1>5

----------------------------------------------------------------------------
(* What undo and redo do to an op, batches included: the states that its   *)
(* single edits go through.                                                *)

TypedOps(ps) == /\ \E X : ps \in Seq(X)
                /\ \A i \in 1..Len(ps) : TypedOp(ps[i])

(* The edits ps take S[0] to S[1], and so on. *)
Goes(S, ps) == /\ \A i \in 0..Len(ps) : Sound(S[i])
               /\ \A i \in 1..Len(ps) : Gives(S[i - 1], ps[i], S[i])

(* The captures of ps are what ps found on the way. *)
Captures(S, ps) == \A i \in 1..Len(ps) : Fits(S[i - 1], ps[i])

(* The inverses of ps take U back from its last state to U[0]. *)
Back(U, ps) == /\ \A i \in 0..Len(ps) : Sound(U[i])
               /\ \A i \in 1..Len(ps) : Gives(U[i], InversePrim(ps[i]), U[i - 1])

(* Undo restores each state that the edits went through. *)
LEMMA PathUndone ==
  ASSUME NEW ps, TypedOps(ps), NEW S, Goes(S, ps), Captures(S, ps), NEW U, Back(U, ps),
         UndoneTo(U[Len(ps)], S[Len(ps)])
  PROVE  \A i \in 0..Len(ps) : UndoneTo(U[i], S[i])
<1>1. PICK n \in Nat : n = Len(ps)
  BY DEF TypedOps
<1> DEFINE Good == {j \in Nat : j <= n => UndoneTo(U[n - j], S[n - j])}
<1>2. 0 \in Good
  BY <1>1
<1>3. ASSUME NEW j \in Nat, j \in Good PROVE j + 1 \in Good
  <2> SUFFICES ASSUME j + 1 <= n PROVE UndoneTo(U[n - (j + 1)], S[n - (j + 1)])
    OBVIOUS
  <2>1. PICK i \in 1..Len(ps) : i = n - j /\ i - 1 = n - (j + 1) /\ i - 1 \in 0..Len(ps)
    BY <1>1
  <2>2. UndoneTo(U[i], S[i])
    BY <1>3, <2>1
  <2>3. TypedOp(ps[i]) /\ Fits(S[i - 1], ps[i]) /\ Sound(S[i - 1]) /\ Gives(S[i - 1], ps[i], S[i])
    BY <2>1 DEF TypedOps, Goes, Captures
  <2>4. Gives(U[i], InversePrim(ps[i]), U[i - 1])
    BY DEF Back
  <2>5. UndoneTo(U[i - 1], S[i - 1])
    BY <2>2, <2>3, <2>4, PrimUndone
  <2> QED
    BY <2>1, <2>5
<1> HIDE DEF Good
<1>4. \A j \in Nat : j \in Good
  BY <1>2, <1>3, Induction
<1>5. ASSUME NEW i \in 0..Len(ps) PROVE UndoneTo(U[i], S[i])
  <2>1. n - i \in Nat /\ n - i <= n /\ n - (n - i) = i
    BY <1>1
  <2>2. n - i \in Good
    BY <1>4, <2>1
  <2> QED
    BY <2>1, <2>2 DEF Good
<1> QED
  BY <1>5

(* Redo takes each annotation of each state back to what the edits made of *)
(* it or to what undo found there, and finds what they had captured.       *)
LEMMA PathRedone ==
  ASSUME NEW ps, TypedOps(ps), NEW S, Goes(S, ps), Captures(S, ps), NEW U, Back(U, ps),
         UndoneTo(U[Len(ps)], S[Len(ps)]), NEW R, Goes(R, ps), Between(R[0], S[0], U[0])
  PROVE  /\ \A i \in 0..Len(ps) : Between(R[i], S[i], U[i])
         /\ \A i \in 1..Len(ps) : ps[i].old # NoCapture => Fits(R[i - 1], ps[i])
<1>1. PICK n \in Nat : n = Len(ps)
  BY DEF TypedOps
<1>2. \A i \in 0..Len(ps) : UndoneTo(U[i], S[i])
  BY PathUndone
<1>3. ASSUME NEW i \in 1..Len(ps), Between(R[i - 1], S[i - 1], U[i - 1])
      PROVE  Between(R[i], S[i], U[i]) /\ (ps[i].old # NoCapture => Fits(R[i - 1], ps[i]))
  <2>1. TypedOp(ps[i]) /\ Fits(S[i - 1], ps[i]) /\ Gives(S[i - 1], ps[i], S[i])
    BY DEF TypedOps, Goes, Captures
  <2>2. Gives(U[i], InversePrim(ps[i]), U[i - 1]) /\ Gives(R[i - 1], ps[i], R[i])
    BY DEF Back, Goes
  <2>3. i - 1 \in 0..Len(ps) /\ i \in 0..Len(ps)
    BY <1>1
  <2>4. Sound(S[i - 1]) /\ UndoneTo(U[i], S[i])
    BY <1>2, <2>3 DEF Goes
  <2> QED
    BY <1>3, <2>1, <2>2, <2>4, PrimUndone
<1> DEFINE Good == {j \in Nat : j <= n => Between(R[j], S[j], U[j])}
<1>4. 0 \in Good
  OBVIOUS
<1>5. ASSUME NEW j \in Nat, j \in Good PROVE j + 1 \in Good
  <2> SUFFICES ASSUME j + 1 <= n PROVE Between(R[j + 1], S[j + 1], U[j + 1])
    OBVIOUS
  <2>1. PICK i \in 1..Len(ps) : i = j + 1 /\ i - 1 = j
    BY <1>1
  <2>2. Between(R[i - 1], S[i - 1], U[i - 1])
    BY <1>1, <1>5, <2>1
  <2>3. Between(R[i], S[i], U[i])
    BY <1>3, <2>2
  <2> QED
    BY <2>1, <2>3
<1> HIDE DEF Good
<1>6. \A j \in Nat : j \in Good
  BY <1>4, <1>5, Induction
<1>7. ASSUME NEW i \in 0..Len(ps) PROVE Between(R[i], S[i], U[i])
  BY <1>1, <1>6 DEF Good
<1>8. ASSUME NEW i \in 1..Len(ps) PROVE ps[i].old # NoCapture => Fits(R[i - 1], ps[i])
  <2>1. i - 1 \in 0..Len(ps)
    BY <1>1
  <2>2. Between(R[i - 1], S[i - 1], U[i - 1])
    BY <1>7, <2>1
  <2> QED
    BY <1>3, <2>2
<1> QED
  BY <1>7, <1>8

(* R is how ApplyTo takes st through the edits of op, and qs these edits   *)
(* with their captures.                                                    *)
Path(R, st, op) ==
  LET ps == Prims(op)
      qs == Prims(ApplyTo(st, op).op)
  IN  /\ R[0] = st /\ R[Len(ps)] = ApplyTo(st, op).st
      /\ Goes(R, ps) /\ Goes(R, qs) /\ TypedOps(qs) /\ Len(qs) = Len(ps)
      /\ \A i \in 1..Len(ps) : qs[i] = Capture(R[i - 1], ps[i])

(* A single op goes through one edit. *)
LEMMA SinglePath ==
  ASSUME NEW st, Sound(st), NEW op, op.kind # "batch", TypedOp(op)
  PROVE  \E R : Path(R, st, op)
<1>1. PICK r : r = ApplyPrim(st, op)
  OBVIOUS
<1>2. PICK q : q = r.op
  OBVIOUS
<1>3. q = Capture(st, op) /\ Gives(st, op, r.st) /\ Gives(st, q, r.st) /\ Sound(r.st)
  BY <1>1, <1>2, ApplyGives
<1>4. TypedOp(q) /\ q.kind = op.kind
  BY <1>3, CaptureFits, CaptureShape DEF TypedOp
<1>5. ApplyTo(st, op) = r
  BY <1>1 DEF ApplyTo
<1>6. PICK ps : ps = <<op>>
  OBVIOUS
<1>7. PICK qs : qs = <<q>>
  OBVIOUS
<1>8. Prims(op) = ps /\ Prims(ApplyTo(st, op).op) = qs
  BY <1>2, <1>4, <1>5, <1>6, <1>7 DEF Prims
<1>9. /\ ps \in Seq({op}) /\ Len(ps) = 1 /\ ps[1] = op
      /\ qs \in Seq({q}) /\ Len(qs) = 1 /\ qs[1] = q
  BY <1>6, <1>7
<1>10. PICK R : R = [i \in 0..1 |-> IF i = 0 THEN st ELSE r.st]
  OBVIOUS
<1>11. R[0] = st /\ R[1] = r.st
  BY <1>10
<1>12. \A i \in 1..1 : i = 1 /\ i - 1 = 0
  OBVIOUS
<1>13. \A i \in 0..1 : i = 0 \/ i = 1
  OBVIOUS
<1>14. Goes(R, ps) /\ Goes(R, qs)
  BY <1>3, <1>9, <1>11, <1>12, <1>13 DEF Goes
<1>15. TypedOps(qs)
  BY <1>4, <1>9, <1>12 DEF TypedOps
<1>16. \A i \in 1..Len(ps) : qs[i] = Capture(R[i - 1], ps[i])
  BY <1>3, <1>9, <1>11, <1>12
<1> QED
  BY <1>5, <1>8, <1>9, <1>11, <1>14, <1>15, <1>16 DEF Path

(* A batch goes through its children, each applied to what the one before  *)
(* it left.                                                                *)
LEMMA BatchPath ==
  ASSUME NEW st, Sound(st), NEW op, op.kind = "batch", IsOp(op), TypedOps(Prims(op))
  PROVE  \E R : Path(R, st, op)
<1>1. PICK ps : ps = op.ops /\ Prims(op) = ps
  BY DEF Prims
<1>2. PICK X : ps \in Seq(X)
  BY <1>1 DEF TypedOps
<1>3. PICK n \in Nat : n = Len(ps)
  BY <1>2
<1>4. PICK r : r = ApplyTo(st, op)
  OBVIOUS
<1>5. PICK F : F = AppliedUpTo(st, ps)
  OBVIOUS
<1>6. PICK qs : qs = r.op.ops
  OBVIOUS
<1>7. /\ r.st = F[n].st /\ r.op.kind = "batch" /\ Len(qs) = n /\ IsOp(r.op)
      /\ \A i \in 1..n : qs[i] = Captured(st, ps, i)
  BY <1>1, <1>3, <1>4, <1>5, <1>6, BatchShape
<1>8. Prims(r.op) = qs
  BY <1>6, <1>7 DEF Prims
<1>9. F[0].st = st /\ \A i \in 1..n : F[i].st = ApplyPrim(F[i - 1].st, ps[i]).st
  BY <1>2, <1>3, <1>5, BatchRuns DEF Runs
<1>10. PICK R : R = [i \in 0..n |-> F[i].st]
  OBVIOUS
<1>11. \A i \in 0..n : R[i] = F[i].st
  BY <1>10
<1>12. \A i \in 1..n : i \in 0..n /\ i - 1 \in 0..n
  OBVIOUS
<1>13. \A i \in 1..n : /\ R[i] = ApplyPrim(R[i - 1], ps[i]).st
                       /\ qs[i] = ApplyPrim(R[i - 1], ps[i]).op
  BY <1>5, <1>7, <1>9, <1>11, <1>12 DEF Captured
<1>14. \A i \in 1..n : TypedOp(ps[i])
  BY <1>1, <1>3 DEF TypedOps
<1>15. R[0] = st
  BY <1>9, <1>11
<1> DEFINE Good == {j \in Nat : j <= n => Sound(R[j])}
<1>16. 0 \in Good
  BY <1>15
<1>17. ASSUME NEW j \in Nat, j \in Good PROVE j + 1 \in Good
  <2> SUFFICES ASSUME j + 1 <= n PROVE Sound(R[j + 1])
    OBVIOUS
  <2>1. PICK i \in 1..n : i = j + 1 /\ i - 1 = j
    OBVIOUS
  <2>2. Sound(R[i - 1])
    BY <1>17, <2>1
  <2>3. Sound(ApplyPrim(R[i - 1], ps[i]).st)
    BY <1>14, <2>2, ApplyGives
  <2> QED
    BY <1>13, <2>1, <2>3
<1> HIDE DEF Good
<1>18. \A j \in Nat : j \in Good
  BY <1>16, <1>17, Induction
<1>19. \A j \in 0..n : Sound(R[j])
  BY <1>18 DEF Good
<1>20. ASSUME NEW i \in 1..n
       PROVE  /\ Gives(R[i - 1], ps[i], R[i]) /\ Gives(R[i - 1], qs[i], R[i])
              /\ qs[i] = Capture(R[i - 1], ps[i]) /\ TypedOp(qs[i])
  <2>1. PICK b : b = R[i - 1]
    OBVIOUS
  <2>2. Sound(b) /\ TypedOp(ps[i])
    BY <1>12, <1>14, <1>19, <2>1
  <2>3. /\ Gives(b, ps[i], ApplyPrim(b, ps[i]).st)
        /\ Gives(b, ApplyPrim(b, ps[i]).op, ApplyPrim(b, ps[i]).st)
        /\ ApplyPrim(b, ps[i]).op = Capture(b, ps[i])
    BY <2>2, ApplyGives
  <2>4. TypedOp(Capture(b, ps[i]))
    BY <2>2, CaptureFits
  <2>5. R[i] = ApplyPrim(b, ps[i]).st /\ qs[i] = ApplyPrim(b, ps[i]).op
    BY <1>13, <2>1
  <2> QED
    BY <2>1, <2>3, <2>4, <2>5
<1>21. TypedOps(qs)
  <2>1. qs \in Seq({qs[i] : i \in DOMAIN qs})
    BY <1>6, <1>7 DEF IsOp
  <2> QED
    BY <1>7, <1>20, <2>1 DEF TypedOps
<1>22. Goes(R, ps) /\ Goes(R, qs)
  BY <1>3, <1>7, <1>19, <1>20 DEF Goes
<1>23. R[n] = r.st
  BY <1>7, <1>11
<1> QED
  BY <1>1, <1>3, <1>4, <1>7, <1>8, <1>15, <1>20, <1>21, <1>22, <1>23 DEF Path

(* Op::apply_to goes through the edits of the op. *)
LEMMA ApplyPath ==
  ASSUME NEW st, Sound(st), NEW op, IsOp(op), TypedOps(Prims(op))
  PROVE  \E R : Path(R, st, op)
<1>1. CASE op.kind # "batch"
  <2>1. PICK ps : ps = <<op>> /\ Prims(op) = ps
    BY <1>1 DEF Prims
  <2>2. Len(ps) = 1 /\ ps[1] = op /\ 1 \in 1..Len(ps)
    BY <2>1
  <2>3. TypedOp(op)
    BY <2>1, <2>2 DEF TypedOps
  <2> QED
    BY <1>1, <2>3, SinglePath
<1>2. CASE op.kind = "batch"
  BY <1>2, BatchPath
<1> QED
  BY <1>1, <1>2

(* The edits of an inverse are the inverses of the edits, in reverse. *)
LEMMA InversePrims ==
  ASSUME NEW op, IsOp(op), TypedOps(Prims(op))
  PROVE  /\ TypedOps(Prims(InverseOp(op))) /\ Len(Prims(InverseOp(op))) = Len(Prims(op))
         /\ \A i \in 1..Len(Prims(op)) :
              Prims(InverseOp(op))[i] = InversePrim(Prims(op)[Len(Prims(op)) - i + 1])
<1>1. PICK ps : ps = Prims(op)
  OBVIOUS
<1>2. PICK n \in Nat : n = Len(ps)
  BY <1>1 DEF TypedOps
<1>3. PICK inv : inv = InverseOp(op)
  OBVIOUS
<1>4. PICK is : is = Prims(inv)
  OBVIOUS
<1>5. (\E X : is \in Seq(X)) /\ Len(is) = n /\ \A i \in 1..n : is[i] = InversePrim(ps[n - i + 1])
  <2>1. CASE op.kind # "batch"
    <3>1. IsPrim(op)
      BY <2>1 DEF IsOp
    <3>2. inv = InversePrim(op) /\ inv.kind # "batch"
      BY <1>3, <2>1, <3>1, InverseIsPrim DEF InverseOp
    <3>3. is = <<inv>> /\ ps = <<op>>
      BY <1>1, <1>4, <2>1, <3>2 DEF Prims
    <3>4. is \in Seq({inv}) /\ Len(is) = 1 /\ is[1] = inv /\ n = 1 /\ ps[1] = op
      BY <1>2, <3>3
    <3>5. \A i \in 1..1 : i = 1 /\ 1 - i + 1 = 1
      OBVIOUS
    <3> QED
      BY <3>2, <3>4, <3>5
  <2>2. CASE op.kind = "batch"
    <3>1. ps = op.ops
      BY <1>1, <2>2 DEF Prims
    <3>2. PICK js : js = [i \in 1..n |-> InversePrim(ps[n - i + 1])]
      OBVIOUS
    <3>3. inv = [kind |-> "batch", ops |-> js]
      BY <1>2, <1>3, <2>2, <3>1, <3>2 DEF InverseOp
    <3>4. is = js
      BY <1>4, <3>3 DEF Prims
    <3>5. js \in Seq({js[i] : i \in 1..n}) /\ Len(js) = n
      <4>1. js \in [1..n -> {js[i] : i \in 1..n}]
        BY <3>2
      <4> QED
        BY <4>1
    <3> QED
      BY <3>2, <3>4, <3>5
  <2> QED
    BY <2>1, <2>2
<1>6. ASSUME NEW i \in 1..n PROVE TypedOp(is[i])
  <2>1. PICK j \in 1..n : j = n - i + 1
    OBVIOUS
  <2>2. TypedOp(ps[j])
    BY <1>1, <1>2 DEF TypedOps
  <2> QED
    BY <1>5, <2>1, <2>2, InverseTyped
<1>7. TypedOps(is)
  BY <1>5, <1>6 DEF TypedOps
<1> QED
  BY <1>1, <1>2, <1>3, <1>4, <1>5, <1>7

(* op took b to a, and its captures are what it found. *)
Made(op, b, a) ==
  \E S : /\ Goes(S, Prims(op)) /\ Captures(S, Prims(op))
         /\ S[0] = b /\ S[Len(Prims(op))] = a

(* Then undo of op found c and left d. *)
Unmade(op, b, a, c, d) ==
  \E S, U : /\ Goes(S, Prims(op)) /\ Captures(S, Prims(op)) /\ Back(U, Prims(op))
            /\ S[0] = b /\ S[Len(Prims(op))] = a
            /\ U[Len(Prims(op))] = c /\ U[0] = d /\ UndoneTo(c, a)

(* The ops that clients submit are typed, and have captured nothing. *)
LEMMA SubmittedTyped ==
  ASSUME NEW op, Submitted(op)
  PROVE  /\ IsOp(op) /\ TypedOps(Prims(op))
         /\ \A i \in 1..Len(Prims(op)) : Prims(op)[i].old = NoCapture
<1>1. PICK ps : ps = Prims(op)
  OBVIOUS
<1>2. IsOp(op) /\ \A i \in DOMAIN ps : TypedPrim(ps[i]) /\ ps[i].old = NoCapture
  BY <1>1 DEF Submitted
<1>3. (\E X : ps \in Seq(X)) /\ \A i \in DOMAIN ps : IsPrim(ps[i])
  <2>1. CASE op.kind # "batch"
    <3>1. ps = <<op>> /\ IsPrim(op)
      BY <1>1, <1>2, <2>1 DEF Prims, IsOp
    <3>2. ps \in Seq({op}) /\ DOMAIN ps = 1..1 /\ ps[1] = op
      BY <3>1
    <3>3. \A i \in 1..1 : i = 1
      OBVIOUS
    <3> QED
      BY <3>1, <3>2, <3>3
  <2>2. CASE op.kind = "batch"
    BY <1>1, <1>2, <2>2 DEF Prims, IsOp
  <2> QED
    BY <2>1, <2>2
<1>4. DOMAIN ps = 1..Len(ps)
  BY <1>3
<1> QED
  BY <1>1, <1>2, <1>3, <1>4 DEF TypedOps, TypedOp

(* An op that a client submits captures what it finds. *)
LEMMA OpApplied ==
  ASSUME NEW st, Sound(st), NEW op, Submitted(op)
  PROVE  Made(ApplyTo(st, op).op, st, ApplyTo(st, op).st)
<1>1. PICK ps : ps = Prims(op)
  OBVIOUS
<1>2. IsOp(op) /\ TypedOps(ps) /\ \A i \in 1..Len(ps) : ps[i].old = NoCapture
  BY <1>1, SubmittedTyped
<1>3. PICK r : r = ApplyTo(st, op)
  OBVIOUS
<1>4. PICK R : Path(R, st, op)
  BY <1>1, <1>2, ApplyPath
<1>5. PICK qs : qs = Prims(r.op)
  OBVIOUS
<1>6. /\ R[0] = st /\ R[Len(ps)] = r.st /\ Goes(R, ps) /\ Goes(R, qs) /\ Len(qs) = Len(ps)
      /\ \A i \in 1..Len(ps) : qs[i] = Capture(R[i - 1], ps[i])
  BY <1>1, <1>3, <1>4, <1>5 DEF Path
<1>7. ASSUME NEW i \in 1..Len(ps) PROVE Fits(R[i - 1], qs[i])
  <2>1. Len(ps) \in Nat
    BY <1>2 DEF TypedOps
  <2>2. i - 1 \in 0..Len(ps)
    BY <2>1
  <2>3. Sound(R[i - 1]) /\ TypedOp(ps[i]) /\ ps[i].old = NoCapture
    BY <1>2, <1>6, <2>2 DEF Goes, TypedOps
  <2> QED
    BY <1>6, <2>3, CaptureFits
<1>8. Captures(R, qs)
  BY <1>6, <1>7 DEF Captures
<1> QED
  BY <1>3, <1>5, <1>6, <1>8 DEF Made

(* Op::inverse: undo of an op restores what the op was applied to. *)
LEMMA OpUndone ==
  ASSUME NEW op, IsOp(op), TypedOps(Prims(op)), NEW b, NEW a, Made(op, b, a),
         NEW c, Sound(c), UndoneTo(c, a)
  PROVE  /\ UndoneTo(ApplyTo(c, InverseOp(op)).st, b)
         /\ Unmade(op, b, a, c, ApplyTo(c, InverseOp(op)).st)
<1>1. PICK ps : ps = Prims(op)
  OBVIOUS
<1>2. PICK n \in Nat : n = Len(ps)
  BY <1>1 DEF TypedOps
<1>3. PICK inv : inv = InverseOp(op)
  OBVIOUS
<1>4. PICK is : is = Prims(inv)
  OBVIOUS
<1>5. IsOp(inv) /\ TypedOps(is) /\ Len(is) = n /\ \A i \in 1..n : is[i] = InversePrim(ps[n - i + 1])
  BY <1>1, <1>2, <1>3, <1>4, InversePrims, InverseIsOp
<1>6. PICK T : Path(T, c, inv)
  BY <1>4, <1>5, ApplyPath
<1>7. PICK d : d = ApplyTo(c, inv).st
  OBVIOUS
<1>8. T[0] = c /\ T[n] = d /\ Goes(T, is)
  BY <1>4, <1>5, <1>6, <1>7 DEF Path
<1>9. PICK U : U = [i \in 0..n |-> T[n - i]]
  OBVIOUS
<1>10. U[n] = c /\ U[0] = d /\ \A i \in 0..n : U[i] = T[n - i]
  BY <1>8, <1>9
<1>11. ASSUME NEW i \in 0..n PROVE Sound(U[i])
  <2>1. n - i \in 0..n
    OBVIOUS
  <2> QED
    BY <1>5, <1>8, <1>10, <2>1 DEF Goes
<1>12. ASSUME NEW i \in 1..n PROVE Gives(U[i], InversePrim(ps[i]), U[i - 1])
  <2>1. PICK j \in 1..n : j = n - i + 1 /\ j - 1 = n - i /\ n - j + 1 = i /\ n - (i - 1) = j
    OBVIOUS
  <2>2. Gives(T[j - 1], is[j], T[j])
    BY <1>5, <1>8 DEF Goes
  <2>3. is[j] = InversePrim(ps[i])
    BY <1>5, <2>1
  <2>4. i \in 0..n /\ i - 1 \in 0..n
    OBVIOUS
  <2>5. U[i] = T[j - 1] /\ U[i - 1] = T[j]
    BY <1>10, <2>1, <2>4
  <2> QED
    BY <2>2, <2>3, <2>5
<1>13. Back(U, ps)
  BY <1>2, <1>11, <1>12 DEF Back
<1>14. PICK S : Goes(S, ps) /\ Captures(S, ps) /\ S[0] = b /\ S[n] = a
  BY <1>1, <1>2 DEF Made
<1>15. UndoneTo(U[Len(ps)], S[Len(ps)])
  BY <1>2, <1>10, <1>14
<1>16. \A i \in 0..Len(ps) : UndoneTo(U[i], S[i])
  BY <1>1, <1>13, <1>14, <1>15, PathUndone
<1>17. UndoneTo(d, b)
  <2>1. 0 \in 0..Len(ps)
    BY <1>2
  <2> QED
    BY <1>10, <1>14, <1>16, <2>1
<1>18. Unmade(op, b, a, c, d)
  BY <1>1, <1>2, <1>10, <1>13, <1>14 DEF Unmade
<1> QED
  BY <1>3, <1>7, <1>17, <1>18

(* Redo of an op makes of every annotation what the op had made of it, or  *)
(* what undo found there.                                                  *)
LEMMA OpRedone ==
  ASSUME NEW op, IsOp(op), TypedOps(Prims(op)), NEW b, NEW a, NEW c, NEW d,
         Unmade(op, b, a, c, d), NEW st, Sound(st), Between(st, b, d)
  PROVE  /\ Between(ApplyTo(st, op).st, a, c)
         /\ Made(ApplyTo(st, op).op, st, ApplyTo(st, op).st)
<1>1. PICK ps : ps = Prims(op)
  OBVIOUS
<1>2. PICK n \in Nat : n = Len(ps)
  BY <1>1 DEF TypedOps
<1>3. PICK r : r = ApplyTo(st, op)
  OBVIOUS
<1>4. PICK R : Path(R, st, op)
  BY ApplyPath
<1>5. PICK qs : qs = Prims(r.op)
  OBVIOUS
<1>6. /\ R[0] = st /\ R[n] = r.st /\ Goes(R, ps) /\ Goes(R, qs) /\ Len(qs) = n
      /\ \A i \in 1..n : qs[i] = Capture(R[i - 1], ps[i])
  BY <1>1, <1>2, <1>3, <1>4, <1>5 DEF Path
<1>7. PICK S, U : /\ Goes(S, ps) /\ Captures(S, ps) /\ Back(U, ps) /\ S[0] = b /\ S[n] = a
                  /\ U[n] = c /\ U[0] = d /\ UndoneTo(c, a)
  BY <1>1, <1>2 DEF Unmade
<1>8. UndoneTo(U[Len(ps)], S[Len(ps)]) /\ Between(R[0], S[0], U[0])
  BY <1>2, <1>6, <1>7
<1>9. /\ \A i \in 0..Len(ps) : Between(R[i], S[i], U[i])
      /\ \A i \in 1..Len(ps) : ps[i].old # NoCapture => Fits(R[i - 1], ps[i])
  BY <1>1, <1>6, <1>7, <1>8, PathRedone
<1>10. Between(r.st, a, c)
  <2>1. n \in 0..Len(ps)
    BY <1>2
  <2> QED
    BY <1>6, <1>7, <1>9, <2>1
<1>11. ASSUME NEW i \in 1..n PROVE Fits(R[i - 1], qs[i])
  <2>1. i - 1 \in 0..n
    OBVIOUS
  <2>2. Sound(R[i - 1]) /\ TypedOp(ps[i])
    BY <1>1, <1>2, <1>6, <2>1 DEF Goes, TypedOps
  <2>3. CASE ps[i].old = NoCapture
    BY <1>6, <2>2, <2>3, CaptureFits
  <2>4. CASE ps[i].old # NoCapture
    <3>1. qs[i] = ps[i]
      BY <1>6, <2>2, <2>4, CaptureFits
    <3> QED
      BY <1>2, <1>9, <2>4, <3>1
  <2> QED
    BY <2>3, <2>4
<1>12. Captures(R, qs)
  BY <1>6, <1>11 DEF Captures
<1>13. Made(r.op, st, r.st)
  BY <1>5, <1>6, <1>12 DEF Made
<1> QED
  BY <1>3, <1>10, <1>13

----------------------------------------------------------------------------
(* The stacks.  An entry whose undos and redos all fitted says how the     *)
(* states of the history at its numbers came about; n is the number the    *)
(* writer has reached and H the history.                                   *)
UndoEntry(e, n, H) ==
  /\ e.at \in 1..n /\ TypedOps(Prims(e.op))
  /\ e.exact => Made(e.op, H[e.at - 1], H[e.at])

RedoEntry(e, n, H) ==
  /\ e.at \in 1..n /\ e.undone \in 1..n /\ TypedOps(Prims(e.op))
  /\ e.exact => Unmade(e.op, H[e.at - 1], H[e.at], H[e.undone - 1], H[e.undone])

StackHolds(k, n, H) ==
  /\ \A i \in 1..Len(k.undo) : UndoEntry(k.undo[i], n, H)
  /\ \A i \in 1..Len(k.redo) : RedoEntry(k.redo[i], n, H)

StatesSound == \A n \in 0..MaxRequests : Sound(hist[n])

EntriesHold ==
  \A s \in Sessions :
    /\ phase[s] \notin {"open", "closed"} => stacks[s] = NoStacks
    /\ \A c \in Clients : StackHolds(stacks[s][c], writer[s].seq, hist)

UndoInv == StatesSound /\ EntriesHold

(* A longer history that agrees so far says the same of a stack. *)
LEMMA KeepStack ==
  ASSUME NEW n \in Nat, NEW m \in Nat, n <= m, NEW H, NEW G, \A i \in 0..n : G[i] = H[i],
         NEW k, StackHolds(k, n, H)
  PROVE  StackHolds(k, m, G)
<1>1. ASSUME NEW e, UndoEntry(e, n, H) PROVE UndoEntry(e, m, G)
  <2>1. PICK at \in 1..n : at = e.at
    BY <1>1 DEF UndoEntry
  <2>2. at \in 0..n /\ at - 1 \in 0..n /\ at \in 1..m
    OBVIOUS
  <2>3. G[at] = H[at] /\ G[at - 1] = H[at - 1]
    BY <2>2
  <2> QED
    BY <1>1, <2>1, <2>2, <2>3 DEF UndoEntry
<1>2. ASSUME NEW e, RedoEntry(e, n, H) PROVE RedoEntry(e, m, G)
  <2>1. PICK at \in 1..n : at = e.at
    BY <1>2 DEF RedoEntry
  <2>2. PICK un \in 1..n : un = e.undone
    BY <1>2 DEF RedoEntry
  <2>3. /\ at \in 0..n /\ at - 1 \in 0..n /\ at \in 1..m
        /\ un \in 0..n /\ un - 1 \in 0..n /\ un \in 1..m
    OBVIOUS
  <2>4. G[at] = H[at] /\ G[at - 1] = H[at - 1] /\ G[un] = H[un] /\ G[un - 1] = H[un - 1]
    BY <2>3
  <2> QED
    BY <1>2, <2>1, <2>2, <2>3, <2>4 DEF RedoEntry
<1> QED
  BY <1>1, <1>2 DEF StackHolds

(* An empty stack says nothing. *)
LEMMA EmptyHolds ==
  ASSUME NEW n, NEW H, NEW c \in Clients
  PROVE  StackHolds(NoStacks[c], n, H)
<1>1. PICK none : none = <<>>
  OBVIOUS
<1>2. NoStacks[c] = [undo |-> none, redo |-> none]
  BY <1>1 DEF NoStacks
<1>3. Len(none) = 0
  BY <1>1
<1> QED
  BY <1>2, <1>3 DEF StackHolds

(* The entries of a stack after a push. *)
LEMMA PushAt ==
  ASSUME NEW q, OpEntries(q), NEW e
  PROVE  /\ Len(q) \in Nat /\ Len(Append(q, e)) = Len(q) + 1
         /\ \A i \in 1..Len(q) : Append(q, e)[i] = q[i]
         /\ Append(q, e)[Len(q) + 1] = e
<1>1. PICK S : q \in Seq(S)
  BY DEF OpEntries
<1>2. PICK T : T = S \cup {e}
  OBVIOUS
<1>3. q \in Seq(T) /\ e \in T
  <2>1. S \subseteq T
    BY <1>2
  <2> QED
    BY <1>1, <1>2, <2>1, SeqMonotonic
<1> QED
  BY <1>3, AppendProperties

(* The entries of a stack after a pop, and the one popped. *)
LEMMA PopAt ==
  ASSUME NEW q, OpEntries(q), q # <<>>
  PROVE  /\ Len(q) \in Nat \ {0} /\ Len(Pop(q)) = Len(q) - 1
         /\ \A i \in 1..Len(Pop(q)) : i \in 1..Len(q) /\ Pop(q)[i] = q[i]
         /\ Top(q) = q[Len(q)] /\ Len(q) \in 1..Len(q)
<1>1. PICK S : q \in Seq(S)
  BY DEF OpEntries
<1>2. Len(q) \in Nat /\ Len(q) # 0
  BY <1>1, EmptySeq
<1>3. PICK n \in Nat : n = Len(q) - 1
  BY <1>2
<1>4. Pop(q) = SubSeq(q, 1, n)
  BY <1>3 DEF Pop
<1>5. Len(SubSeq(q, 1, n)) = n /\ \A i \in 1..n : SubSeq(q, 1, n)[i] = q[i]
  BY <1>1, <1>2, <1>3, SubSeqProperties
<1>6. \A i \in 1..n : i \in 1..Len(q)
  BY <1>2, <1>3
<1> QED
  BY <1>2, <1>3, <1>4, <1>5, <1>6 DEF Top

(* The state that a request at the head of a queue leaves. *)
LEMMA RequestSound ==
  ASSUME TypeOK, FilesInv, HistoryInv, UndoInv, NEW s \in Sessions, CanExecute(s), CanPerform(s)
  PROVE  /\ Sound(writer[s].st) /\ writer[s].st = hist[writer[s].seq]
         /\ Sound(Done(s).proj.st) /\ TypedOps(Prims(Done(s).op))
         /\ Done(s).proj.st = ApplyTo(writer[s].st, RequestedOp(s)).st
         /\ Done(s).op = ApplyTo(writer[s].st, RequestedOp(s)).op
<1>1. queue[s] # <<>>
  BY DEF CanExecute
<1>2. PICK req : req = Head(queue[s])
  OBVIOUS
<1>3. /\ req.kind \in {"apply", "undo", "redo"} /\ req.client \in Clients
      /\ (req.kind = "apply" => req.op \in Edits)
  BY <1>1, <1>2, HeadRequest DEF Requests
<1>4. PICK n \in Nat : n = writer[s].seq
  BY DEF TypeOK, ProjectsOK, ProjectOK
<1>5. writer[s].st = hist[n] /\ n \in 0..MaxRequests
  <2>1. /\ writer[s].st = hist[n] /\ n + Len(queue[s]) <= issued
    BY <1>4 DEF HistoryInv, Copies, Numbered
  <2>2. queue[s] \in Seq(Requests) /\ issued \in 0..MaxRequests
    BY DEF TypeOK
  <2>3. Len(queue[s]) \in Nat
    BY <2>2
  <2> QED
    BY <2>1, <2>2, <2>3, StoreAssumption
<1>6. Sound(writer[s].st)
  BY <1>5 DEF UndoInv, StatesSound
<1>7. PICK stack : stack = HeadStack(s)
  OBVIOUS
<1>8. StackOK(stack) /\ StackHolds(stack, n, hist)
  BY <1>2, <1>3, <1>4, <1>7 DEF HeadStack, HistoryInv, StacksHold, UndoInv, EntriesHold
<1>9. PICK op : op = RequestedOp(s)
  OBVIOUS
<1>10. IsOp(op)
  BY <1>1, <1>9, RequestedIsOp DEF HistoryInv
<1>11. TypedOps(Prims(op))
  <2>1. CASE req.kind = "apply"
    <3>1. Submitted(op)
      BY <1>2, <1>3, <1>9, <2>1, EditsAssumption DEF RequestedOp
    <3> QED
      BY <3>1, SubmittedTyped
  <2>2. CASE req.kind = "undo"
    <3>1. stack.undo # <<>> /\ OpEntries(stack.undo)
      BY <1>2, <1>7, <1>8, <2>2 DEF CanPerform, StackOK
    <3>2. PICK e : e = Top(stack.undo)
      OBVIOUS
    <3>3. UndoEntry(e, n, hist) /\ IsOp(e.op)
      BY <1>8, <3>1, <3>2, PopAt, PopEntry DEF StackHolds
    <3>4. op = InverseOp(e.op)
      BY <1>2, <1>7, <1>9, <2>2, <3>2 DEF RequestedOp
    <3> QED
      BY <3>3, <3>4, InversePrims DEF UndoEntry
  <2>3. CASE req.kind = "redo"
    <3>1. stack.redo # <<>> /\ OpEntries(stack.redo)
      BY <1>2, <1>7, <1>8, <2>3 DEF CanPerform, StackOK
    <3>2. PICK e : e = Top(stack.redo)
      OBVIOUS
    <3>3. RedoEntry(e, n, hist)
      BY <1>8, <3>1, <3>2, PopAt DEF StackHolds
    <3>4. op = e.op
      BY <1>2, <1>7, <1>9, <2>3, <3>2 DEF RequestedOp
    <3> QED
      BY <3>3, <3>4 DEF RedoEntry
  <2> QED
    BY <1>3, <2>1, <2>2, <2>3
<1>12. PICK r : r = ApplyTo(writer[s].st, op)
  OBVIOUS
<1>13. Done(s).proj.st = r.st /\ Done(s).op = r.op
  BY <1>9, <1>12 DEF Done, Performed, Advanced
<1>14. Sound(r.st) /\ TypedOps(Prims(r.op))
  <2>1. PICK R : Path(R, writer[s].st, op)
    BY <1>6, <1>10, <1>11, ApplyPath
  <2>2. R[Len(Prims(op))] = r.st /\ Goes(R, Prims(op)) /\ TypedOps(Prims(r.op))
    BY <1>12, <2>1 DEF Path
  <2>3. Len(Prims(op)) \in Nat
    BY <1>11 DEF TypedOps
  <2>4. Len(Prims(op)) \in 0..Len(Prims(op))
    BY <2>3
  <2> QED
    BY <2>2, <2>4 DEF Goes
<1> QED
  BY <1>4, <1>5, <1>6, <1>9, <1>12, <1>13, <1>14

(* The history after a request was performed. *)
LEMMA SoundPerformed ==
  ASSUME TypeOK, FilesInv, HistoryInv, UndoInv, NEW s \in Sessions, CanExecute(s), CanPerform(s),
         hist' = [hist EXCEPT ![Done(s).proj.seq] = Done(s).proj.st]
  PROVE  /\ StatesSound' /\ \A i \in 0..writer[s].seq : hist'[i] = hist[i]
         /\ hist'[writer[s].seq + 1] = Done(s).proj.st
<1>1. PICK n \in Nat : n = writer[s].seq
  BY DEF TypeOK, ProjectsOK, ProjectOK
<1>2. queue[s] # <<>>
  BY DEF CanExecute
<1>3. Done(s).proj.seq = n + 1
  BY <1>1, <1>2, DoneType
<1>4. n + 1 \in 0..MaxRequests
  <2>1. queue[s] \in Seq(Requests) /\ issued \in 0..MaxRequests
    BY DEF TypeOK
  <2>2. Len(queue[s]) \in Nat \ {0}
    BY <1>2, <2>1, EmptySeq
  <2>3. n + Len(queue[s]) <= issued
    BY <1>1 DEF HistoryInv, Numbered
  <2> QED
    BY <2>1, <2>2, <2>3, StoreAssumption
<1>5. DOMAIN hist = 0..MaxRequests
  BY DEF HistoryInv, Numbered
<1>6. PICK x : x = Done(s).proj.st
  OBVIOUS
<1>7. hist' = [hist EXCEPT ![n + 1] = x]
  BY <1>3, <1>6
<1>8. hist'[n + 1] = x /\ \A i \in 0..MaxRequests : i # n + 1 => hist'[i] = hist[i]
  BY <1>4, <1>5, <1>7
<1>9. Sound(x)
  BY <1>6, RequestSound
<1>10. StatesSound'
  BY <1>8, <1>9 DEF UndoInv, StatesSound
<1>11. ASSUME NEW i \in 0..n PROVE hist'[i] = hist[i]
  <2>1. i \in 0..MaxRequests /\ i # n + 1
    BY <1>4, StoreAssumption
  <2> QED
    BY <1>8, <2>1
<1> QED
  BY <1>1, <1>6, <1>8, <1>10, <1>11

(* The stacks of the other clients and of the other sessions say what they *)
(* said before.                                                            *)
LEMMA FinishHolds ==
  ASSUME TypeOK, FilesInv, HistoryInv, UndoInv, NEW s \in Sessions, CanExecute(s),
         NEW result, NEW k, Finish(s, result, k),
         \A t \in Sessions : t # s => writer'[t] = writer[t],
         writer'[s].seq \in Nat, writer[s].seq <= writer'[s].seq,
         \A i \in 0..writer[s].seq : hist'[i] = hist[i],
         StackHolds(k, writer'[s].seq, hist')
  PROVE  EntriesHold'
<1>1. /\ stacks' = [stacks EXCEPT ![s][Head(queue[s]).client] = k] /\ phase' = phase
  BY DEF Finish
<1>2. PICK c0 \in Clients : c0 = Head(queue[s]).client
  BY HeadRequest DEF Requests, CanExecute
<1>3. DOMAIN stacks = Sessions /\ \A t \in Sessions : DOMAIN stacks[t] = Clients
  BY DEF HistoryInv, StacksHold
<1>4. /\ \A t \in Sessions : t # s => stacks'[t] = stacks[t]
      /\ stacks'[s][c0] = k
      /\ \A c \in Clients : c # c0 => stacks'[s][c] = stacks[s][c]
  BY <1>1, <1>2, <1>3
<1>5. phase[s] = "open" /\ \A t \in Sessions : t # s => phase[t] = "idle"
  BY RequestAlone
<1>6. ASSUME NEW t \in Sessions, t # s
      PROVE  stacks'[t] = NoStacks /\ \A c \in Clients : StackHolds(stacks'[t][c], writer'[t].seq, hist')
  <2>1. stacks'[t] = NoStacks
    BY <1>4, <1>5, <1>6 DEF UndoInv, EntriesHold
  <2> QED
    BY <2>1, EmptyHolds
<1>7. ASSUME NEW c \in Clients PROVE StackHolds(stacks'[s][c], writer'[s].seq, hist')
  <2>1. CASE c = c0
    BY <1>4, <2>1
  <2>2. CASE c # c0
    <3>1. StackHolds(stacks[s][c], writer[s].seq, hist) /\ stacks'[s][c] = stacks[s][c]
      BY <1>4, <2>2 DEF UndoInv, EntriesHold
    <3>2. writer[s].seq \in Nat
      BY DEF TypeOK, ProjectsOK, ProjectOK
    <3> QED
      BY <3>1, <3>2, KeepStack
  <2> QED
    BY <2>1, <2>2
<1> QED
  BY <1>1, <1>5, <1>6, <1>7 DEF EntriesHold

(* What pops leave of a stack. *)
LEMMA PopHolds ==
  ASSUME NEW n, NEW H, NEW k, StackOK(k), StackHolds(k, n, H)
  PROVE  /\ k.undo # <<>> => /\ UndoEntry(Top(k.undo), n, H) /\ IsOp(Top(k.undo).op)
                             /\ \A i \in 1..Len(Pop(k.undo)) : UndoEntry(Pop(k.undo)[i], n, H)
         /\ k.redo # <<>> => /\ RedoEntry(Top(k.redo), n, H) /\ IsOp(Top(k.redo).op)
                             /\ \A i \in 1..Len(Pop(k.redo)) : RedoEntry(Pop(k.redo)[i], n, H)
<1>1. OpEntries(k.undo) /\ OpEntries(k.redo)
  BY DEF StackOK
<1>2. ASSUME k.undo # <<>>
      PROVE  /\ UndoEntry(Top(k.undo), n, H) /\ IsOp(Top(k.undo).op)
             /\ \A i \in 1..Len(Pop(k.undo)) : UndoEntry(Pop(k.undo)[i], n, H)
  BY <1>1, <1>2, PopAt, PopEntry DEF StackHolds
<1>3. ASSUME k.redo # <<>>
      PROVE  /\ RedoEntry(Top(k.redo), n, H) /\ IsOp(Top(k.redo).op)
             /\ \A i \in 1..Len(Pop(k.redo)) : RedoEntry(Pop(k.redo)[i], n, H)
  BY <1>1, <1>3, PopAt, PopEntry DEF StackHolds
<1> QED
  BY <1>2, <1>3

(* A pushed entry. *)
LEMMA PushHolds ==
  ASSUME NEW n, NEW H, NEW q, OpEntries(q), NEW e
  PROVE  /\ (\A i \in 1..Len(q) : UndoEntry(q[i], n, H)) /\ UndoEntry(e, n, H)
              => \A i \in 1..Len(Append(q, e)) : UndoEntry(Append(q, e)[i], n, H)
         /\ (\A i \in 1..Len(q) : RedoEntry(q[i], n, H)) /\ RedoEntry(e, n, H)
              => \A i \in 1..Len(Append(q, e)) : RedoEntry(Append(q, e)[i], n, H)
<1>1. PICK p : p = Append(q, e)
  OBVIOUS
<1>2. /\ Len(q) \in Nat /\ Len(p) = Len(q) + 1 /\ p[Len(q) + 1] = e
      /\ \A i \in 1..Len(q) : p[i] = q[i]
  BY <1>1, PushAt
<1>3. \A i \in 1..Len(p) : i \in 1..Len(q) \/ i = Len(q) + 1
  BY <1>2
<1> QED
  BY <1>1, <1>2, <1>3

(* Performing a request, when no append fails. *)
LEMMA ExecuteShape ==
  ASSUME Gapless, TypeOK, FilesInv, HistoryInv, UndoInv, NEW s \in Sessions, CanExecute(s),
         NEW onOk, NEW onErr, Execute(s, onOk, onErr)
  PROVE  /\ CanPerform(s) /\ Finish(s, "ok", onOk) /\ StatesSound'
         /\ writer'[s] = Done(s).proj /\ writer'[s].seq = writer[s].seq + 1
         /\ writer[s].seq \in Nat
         /\ \A t \in Sessions : t # s => writer'[t] = writer[t]
         /\ \A i \in 0..writer[s].seq : hist'[i] = hist[i]
         /\ hist'[writer[s].seq + 1] = Done(s).proj.st
<1>1. /\ CanPerform(s) /\ Finish(s, "ok", onOk)
      /\ writer' = [writer EXCEPT ![s] = Done(s).proj]
      /\ hist' = [hist EXCEPT ![Done(s).proj.seq] = Done(s).proj.st]
  BY DEF Execute, Gapless
<1>2. DOMAIN writer = Sessions /\ writer[s].seq \in Nat
  BY DEF TypeOK, ProjectsOK, ProjectOK
<1>3. writer'[s] = Done(s).proj /\ \A t \in Sessions : t # s => writer'[t] = writer[t]
  BY <1>1, <1>2
<1>4. Done(s).proj.seq = writer[s].seq + 1
  BY DoneType DEF CanExecute
<1> QED
  BY <1>1, <1>2, <1>3, <1>4, SoundPerformed

(* The stack of the client at the head. *)
LEMMA HeadStackHolds ==
  ASSUME TypeOK, HistoryInv, UndoInv, NEW s \in Sessions, CanExecute(s)
  PROVE  StackOK(HeadStack(s)) /\ StackHolds(HeadStack(s), writer[s].seq, hist)
<1>1. Head(queue[s]).client \in Clients
  BY HeadRequest DEF Requests, CanExecute
<1> QED
  BY <1>1 DEF HeadStack, HistoryInv, StacksHold, UndoInv, EntriesHold

(* A request that is refused changes at most its client's stack. *)
LEMMA RefuseHolds ==
  ASSUME TypeOK, FilesInv, HistoryInv, UndoInv, NEW s \in Sessions, CanExecute(s),
         NEW k, Refuse(s, k), StackHolds(k, writer[s].seq, hist)
  PROVE  UndoInv'
<1>1. Finish(s, "err", k) /\ UNCHANGED <<writer, hist>>
  BY DEF Refuse
<1>2. writer[s].seq \in Nat
  BY DEF TypeOK, ProjectsOK, ProjectOK
<1>3. EntriesHold'
  BY <1>1, <1>2, FinishHolds
<1>4. StatesSound'
  BY <1>1 DEF UndoInv, StatesSound
<1> QED
  BY <1>3, <1>4 DEF UndoInv

(* apply_one *)
LEMMA ApplyHolds ==
  ASSUME Gapless, TypeOK, FilesInv, HistoryInv, UndoInv, NEW s \in Sessions, ApplyOne(s)
  PROVE  UndoInv'
<1>1. CanExecute(s) /\ Head(queue[s]).kind = "apply"
  BY DEF ApplyOne
<1>2. PICK stack : stack = HeadStack(s)
  OBVIOUS
<1>3. PICK e : e = Entry(s, TRUE)
  OBVIOUS
<1>4. PICK none : none = <<>>
  OBVIOUS
<1>5. PICK k : k = [undo |-> Append(stack.undo, e), redo |-> none]
  OBVIOUS
<1>6. Execute(s, k, stack)
  BY <1>2, <1>3, <1>4, <1>5 DEF ApplyOne
<1>7. PICK n \in Nat : n = writer[s].seq
  BY <1>1, <1>6, ExecuteShape
<1>8. /\ CanPerform(s) /\ Finish(s, "ok", k) /\ StatesSound' /\ writer'[s].seq = n + 1
      /\ \A t \in Sessions : t # s => writer'[t] = writer[t]
      /\ \A i \in 0..n : hist'[i] = hist[i]
      /\ hist'[n + 1] = Done(s).proj.st
  BY <1>1, <1>6, <1>7, ExecuteShape
<1>9. StackOK(stack) /\ StackHolds(stack, n, hist)
  BY <1>1, <1>2, <1>7, HeadStackHolds
<1>10. PICK H : H = hist'
  OBVIOUS
<1>11. StackHolds(stack, n + 1, H)
  <2>1. n + 1 \in Nat /\ n <= n + 1 /\ \A i \in 0..n : H[i] = hist[i]
    BY <1>8, <1>10
  <2> QED
    BY <1>9, <2>1, KeepStack
<1>12. /\ Sound(writer[s].st) /\ writer[s].st = hist[n] /\ TypedOps(Prims(Done(s).op))
       /\ Done(s).proj.st = ApplyTo(writer[s].st, RequestedOp(s)).st
       /\ Done(s).op = ApplyTo(writer[s].st, RequestedOp(s)).op
  BY <1>1, <1>7, <1>8, RequestSound
<1>13. Submitted(RequestedOp(s))
  <2>1. Head(queue[s]).op \in Edits
    BY <1>1, HeadRequest DEF Requests, CanExecute
  <2> QED
    BY <1>1, <2>1, EditsAssumption DEF RequestedOp
<1>14. Made(Done(s).op, hist[n], Done(s).proj.st)
  BY <1>12, <1>13, OpApplied
<1>15. e.op = Done(s).op /\ e.at = n + 1
  BY <1>1, <1>3, <1>7, DoneType DEF Entry, CanExecute
<1>16. UndoEntry(e, n + 1, H)
  <2>1. n + 1 \in 1..(n + 1) /\ (n + 1) - 1 = n /\ n \in 0..n
    OBVIOUS
  <2>2. H[n] = hist[n] /\ H[n + 1] = Done(s).proj.st
    BY <1>8, <1>10, <2>1
  <2> QED
    BY <1>12, <1>14, <1>15, <2>1, <2>2 DEF UndoEntry
<1>17. StackHolds(k, n + 1, H)
  <2>1. k.undo = Append(stack.undo, e) /\ k.redo = none /\ Len(none) = 0
    BY <1>4, <1>5
  <2>2. \A i \in 1..Len(Append(stack.undo, e)) : UndoEntry(Append(stack.undo, e)[i], n + 1, H)
    BY <1>9, <1>11, <1>16, PushHolds DEF StackOK, StackHolds
  <2> QED
    BY <2>1, <2>2 DEF StackHolds
<1>18. EntriesHold'
  <2>1. writer'[s].seq \in Nat /\ writer[s].seq <= writer'[s].seq
    BY <1>7, <1>8
  <2>2. StackHolds(k, writer'[s].seq, hist')
    BY <1>8, <1>10, <1>17
  <2> QED
    BY <1>1, <1>7, <1>8, <2>1, <2>2, FinishHolds
<1> QED
  BY <1>8, <1>18 DEF UndoInv

(* undo_one: the entry moves to the redo stack with what undo found and    *)
(* left, and undo restores what it should.                                 *)
LEMMA UndoHolds ==
  ASSUME Gapless, TypeOK, FilesInv, HistoryInv, UndoInv, NEW s \in Sessions, UndoOne(s)
  PROVE  /\ UndoInv'
         /\ writer'[s] # writer[s] /\ Top(HeadStack(s).undo).exact
              /\ UndoFits(s, Top(HeadStack(s).undo))
              => UndoneTo(writer'[s].st, hist[Top(HeadStack(s).undo).at - 1])
<1>1. CanExecute(s) /\ Head(queue[s]).kind = "undo"
  BY DEF UndoOne
<1>2. PICK stack : stack = HeadStack(s)
  OBVIOUS
<1>3. PICK e : e = Top(stack.undo)
  OBVIOUS
<1>4. PICK d : d = Undone(s, e)
  OBVIOUS
<1>5. PICK popped : popped = IF stack.undo = <<>> THEN stack ELSE [stack EXCEPT !.undo = Pop(@)]
  OBVIOUS
<1>6. PICK k : k = [popped EXCEPT !.redo = Append(@, d)]
  OBVIOUS
<1>7. Execute(s, k, popped) \/ Refuse(s, popped)
  BY <1>2, <1>3, <1>4, <1>5, <1>6 DEF UndoOne
<1>8. PICK n \in Nat : n = writer[s].seq
  BY DEF TypeOK, ProjectsOK, ProjectOK
<1>9. StackOK(stack) /\ StackHolds(stack, n, hist)
  BY <1>1, <1>2, <1>8, HeadStackHolds
<1>10. /\ StackOK(popped) /\ StackHolds(popped, n, hist) /\ popped.redo = stack.redo
  <2>1. CASE stack.undo = <<>>
    BY <1>5, <1>9, <2>1
  <2>2. CASE stack.undo # <<>>
    <3>1. popped = [stack EXCEPT !.undo = Pop(stack.undo)]
      BY <1>5, <2>2
    <3>2. /\ DOMAIN popped = {"undo", "redo"} /\ popped.undo = Pop(stack.undo)
          /\ popped.redo = stack.redo
      BY <1>9, <3>1 DEF StackOK
    <3>3. StackOK(popped)
      BY <1>9, <2>2, <3>2, PopEntry DEF StackOK
    <3>4. StackHolds(popped, n, hist)
      BY <1>9, <2>2, <3>2, PopHolds DEF StackHolds
    <3> QED
      BY <3>2, <3>3, <3>4
  <2> QED
    BY <2>1, <2>2
<1>11. CASE Refuse(s, popped)
  <2>1. UndoInv'
    BY <1>1, <1>8, <1>10, <1>11, RefuseHolds
  <2>2. writer' = writer
    BY <1>11 DEF Refuse
  <2> QED
    BY <2>1, <2>2
<1>12. CASE Execute(s, k, popped)
  <2>1. /\ CanPerform(s) /\ Finish(s, "ok", k) /\ StatesSound' /\ writer'[s].seq = n + 1
        /\ \A t \in Sessions : t # s => writer'[t] = writer[t]
        /\ \A i \in 0..n : hist'[i] = hist[i]
        /\ hist'[n + 1] = Done(s).proj.st /\ writer'[s] = Done(s).proj
    BY <1>1, <1>8, <1>12, ExecuteShape
  <2>2. stack.undo # <<>>
    BY <1>1, <1>2, <2>1 DEF CanPerform
  <2>3. UndoEntry(e, n, hist) /\ IsOp(e.op)
    BY <1>3, <1>9, <2>2, PopHolds
  <2>4. PICK H : H = hist'
    OBVIOUS
  <2>5. /\ Sound(writer[s].st) /\ writer[s].st = hist[n]
        /\ Done(s).proj.st = ApplyTo(writer[s].st, RequestedOp(s)).st
    BY <1>1, <1>8, <2>1, RequestSound
  <2>6. RequestedOp(s) = InverseOp(e.op)
    BY <1>1, <1>2, <1>3 DEF RequestedOp
  <2>7. PICK at \in 1..n : at = e.at
    BY <2>3 DEF UndoEntry
  <2>8. ASSUME e.exact, UndoFits(s, e)
        PROVE  /\ UndoneTo(Done(s).proj.st, hist[at - 1])
               /\ Unmade(e.op, hist[at - 1], hist[at], hist[n], Done(s).proj.st)
    <3>1. Made(e.op, hist[at - 1], hist[at]) /\ TypedOps(Prims(e.op))
      BY <2>3, <2>7, <2>8 DEF UndoEntry
    <3>2. UndoneTo(hist[n], hist[at])
      BY <2>5, <2>7, <2>8 DEF UndoFits
    <3>3. /\ UndoneTo(ApplyTo(hist[n], InverseOp(e.op)).st, hist[at - 1])
          /\ Unmade(e.op, hist[at - 1], hist[at], hist[n], ApplyTo(hist[n], InverseOp(e.op)).st)
      BY <2>3, <2>5, <3>1, <3>2, OpUndone
    <3> QED
      BY <2>5, <2>6, <3>3
  <2>9. d.op = e.op /\ d.at = at /\ d.undone = n + 1 /\ d.exact = (e.exact /\ UndoFits(s, e))
    BY <1>1, <1>4, <1>8, <2>7, DoneType DEF Undone, CanExecute
  <2>10. RedoEntry(d, n + 1, H)
    <3>1. /\ n + 1 \in 1..(n + 1) /\ (n + 1) - 1 = n /\ n \in 0..n /\ at \in 0..n
          /\ at - 1 \in 0..n /\ at \in 1..(n + 1)
      OBVIOUS
    <3>2. /\ H[n] = hist[n] /\ H[n + 1] = Done(s).proj.st /\ H[at] = hist[at]
          /\ H[at - 1] = hist[at - 1]
      BY <2>1, <2>4, <3>1
    <3>3. TypedOps(Prims(d.op))
      BY <2>3, <2>9 DEF UndoEntry
    <3>4. d.exact => Unmade(d.op, H[d.at - 1], H[d.at], H[d.undone - 1], H[d.undone])
      BY <2>8, <2>9, <3>1, <3>2
    <3> QED
      BY <2>9, <3>1, <3>3, <3>4 DEF RedoEntry
  <2>11. StackHolds(popped, n + 1, H)
    <3>1. n + 1 \in Nat /\ n <= n + 1 /\ \A i \in 0..n : H[i] = hist[i]
      BY <2>1, <2>4
    <3> QED
      BY <1>10, <3>1, KeepStack
  <2>12. StackHolds(k, n + 1, H)
    <3>1. k.undo = popped.undo /\ k.redo = Append(popped.redo, d)
      BY <1>6, <1>10 DEF StackOK
    <3>2. \A i \in 1..Len(Append(popped.redo, d)) : RedoEntry(Append(popped.redo, d)[i], n + 1, H)
      BY <1>10, <2>10, <2>11, PushHolds DEF StackOK, StackHolds
    <3> QED
      BY <2>11, <3>1, <3>2 DEF StackHolds
  <2>13. EntriesHold'
    <3>1. writer'[s].seq \in Nat /\ writer[s].seq <= writer'[s].seq
      BY <1>8, <2>1
    <3>2. StackHolds(k, writer'[s].seq, hist')
      BY <2>1, <2>4, <2>12
    <3> QED
      BY <1>1, <1>8, <2>1, <3>1, <3>2, FinishHolds
  <2> QED
    BY <1>2, <1>3, <2>1, <2>7, <2>8, <2>13 DEF UndoInv
<1> QED
  BY <1>7, <1>11, <1>12

(* redo_one: the op goes back to the undo stack with its captures, and     *)
(* redo gives back what it should.                                         *)
LEMMA RedoHolds ==
  ASSUME Gapless, TypeOK, FilesInv, HistoryInv, UndoInv, NEW s \in Sessions, RedoOne(s)
  PROVE  /\ UndoInv'
         /\ writer'[s] # writer[s] /\ Top(HeadStack(s).redo).exact
              /\ RedoFits(s, Top(HeadStack(s).redo))
              => Between(writer'[s].st, hist[Top(HeadStack(s).redo).at],
                         hist[Top(HeadStack(s).redo).undone - 1])
<1>1. CanExecute(s) /\ Head(queue[s]).kind = "redo"
  BY DEF RedoOne
<1>2. PICK stack : stack = HeadStack(s)
  OBVIOUS
<1>3. PICK e : e = Top(stack.redo)
  OBVIOUS
<1>4. PICK d : d = Entry(s, e.exact /\ RedoFits(s, e))
  OBVIOUS
<1>5. PICK popped : popped = IF stack.redo = <<>> THEN stack ELSE [stack EXCEPT !.redo = Pop(@)]
  OBVIOUS
<1>6. PICK k : k = [popped EXCEPT !.undo = Append(@, d)]
  OBVIOUS
<1>7. Execute(s, k, popped) \/ Refuse(s, stack)
  BY <1>2, <1>3, <1>4, <1>5, <1>6 DEF RedoOne
<1>8. PICK n \in Nat : n = writer[s].seq
  BY DEF TypeOK, ProjectsOK, ProjectOK
<1>9. StackOK(stack) /\ StackHolds(stack, n, hist)
  BY <1>1, <1>2, <1>8, HeadStackHolds
<1>10. /\ StackOK(popped) /\ StackHolds(popped, n, hist) /\ popped.undo = stack.undo
  <2>1. CASE stack.redo = <<>>
    BY <1>5, <1>9, <2>1
  <2>2. CASE stack.redo # <<>>
    <3>1. popped = [stack EXCEPT !.redo = Pop(stack.redo)]
      BY <1>5, <2>2
    <3>2. /\ DOMAIN popped = {"undo", "redo"} /\ popped.redo = Pop(stack.redo)
          /\ popped.undo = stack.undo
      BY <1>9, <3>1 DEF StackOK
    <3>3. StackOK(popped)
      BY <1>9, <2>2, <3>2, PopEntry DEF StackOK
    <3>4. StackHolds(popped, n, hist)
      BY <1>9, <2>2, <3>2, PopHolds DEF StackHolds
    <3> QED
      BY <3>2, <3>3, <3>4
  <2> QED
    BY <2>1, <2>2
<1>11. CASE Refuse(s, stack)
  <2>1. UndoInv'
    BY <1>1, <1>8, <1>9, <1>11, RefuseHolds
  <2>2. writer' = writer
    BY <1>11 DEF Refuse
  <2> QED
    BY <2>1, <2>2
<1>12. CASE Execute(s, k, popped)
  <2>1. /\ CanPerform(s) /\ Finish(s, "ok", k) /\ StatesSound' /\ writer'[s].seq = n + 1
        /\ \A t \in Sessions : t # s => writer'[t] = writer[t]
        /\ \A i \in 0..n : hist'[i] = hist[i]
        /\ hist'[n + 1] = Done(s).proj.st /\ writer'[s] = Done(s).proj
    BY <1>1, <1>8, <1>12, ExecuteShape
  <2>2. stack.redo # <<>>
    BY <1>1, <1>2, <2>1 DEF CanPerform
  <2>3. RedoEntry(e, n, hist) /\ IsOp(e.op)
    BY <1>3, <1>9, <2>2, PopHolds
  <2>4. PICK H : H = hist'
    OBVIOUS
  <2>5. /\ Sound(writer[s].st) /\ writer[s].st = hist[n] /\ TypedOps(Prims(Done(s).op))
        /\ Done(s).proj.st = ApplyTo(writer[s].st, RequestedOp(s)).st
        /\ Done(s).op = ApplyTo(writer[s].st, RequestedOp(s)).op
    BY <1>1, <1>8, <2>1, RequestSound
  <2>6. RequestedOp(s) = e.op
    BY <1>1, <1>2, <1>3 DEF RequestedOp
  <2>7. PICK at \in 1..n : at = e.at
    BY <2>3 DEF RedoEntry
  <2>8. PICK un \in 1..n : un = e.undone
    BY <2>3 DEF RedoEntry
  <2>9. ASSUME e.exact, RedoFits(s, e)
        PROVE  /\ Between(Done(s).proj.st, hist[at], hist[un - 1])
               /\ Made(Done(s).op, hist[n], Done(s).proj.st)
    <3>1. /\ Unmade(e.op, hist[at - 1], hist[at], hist[un - 1], hist[un])
          /\ TypedOps(Prims(e.op))
      BY <2>3, <2>7, <2>8, <2>9 DEF RedoEntry
    <3>2. Between(hist[n], hist[at - 1], hist[un])
      BY <2>5, <2>7, <2>8, <2>9 DEF RedoFits
    <3>3. /\ Between(ApplyTo(hist[n], e.op).st, hist[at], hist[un - 1])
          /\ Made(ApplyTo(hist[n], e.op).op, hist[n], ApplyTo(hist[n], e.op).st)
      BY <2>3, <2>5, <3>1, <3>2, OpRedone
    <3> QED
      BY <2>5, <2>6, <3>3
  <2>10. d.op = Done(s).op /\ d.at = n + 1 /\ d.exact = (e.exact /\ RedoFits(s, e))
    BY <1>1, <1>4, <1>8, DoneType DEF Entry, CanExecute
  <2>11. UndoEntry(d, n + 1, H)
    <3>1. n + 1 \in 1..(n + 1) /\ (n + 1) - 1 = n /\ n \in 0..n
      OBVIOUS
    <3>2. H[n] = hist[n] /\ H[n + 1] = Done(s).proj.st
      BY <2>1, <2>4, <3>1
    <3>3. d.exact => Made(d.op, H[d.at - 1], H[d.at])
      BY <2>9, <2>10, <3>1, <3>2
    <3> QED
      BY <2>5, <2>10, <3>1, <3>3 DEF UndoEntry
  <2>12. StackHolds(popped, n + 1, H)
    <3>1. n + 1 \in Nat /\ n <= n + 1 /\ \A i \in 0..n : H[i] = hist[i]
      BY <2>1, <2>4
    <3> QED
      BY <1>10, <3>1, KeepStack
  <2>13. StackHolds(k, n + 1, H)
    <3>1. k.redo = popped.redo /\ k.undo = Append(popped.undo, d)
      BY <1>6, <1>10 DEF StackOK
    <3>2. \A i \in 1..Len(Append(popped.undo, d)) : UndoEntry(Append(popped.undo, d)[i], n + 1, H)
      BY <1>10, <2>11, <2>12, PushHolds DEF StackOK, StackHolds
    <3> QED
      BY <2>12, <3>1, <3>2 DEF StackHolds
  <2>14. EntriesHold'
    <3>1. writer'[s].seq \in Nat /\ writer[s].seq <= writer'[s].seq
      BY <1>8, <2>1
    <3>2. StackHolds(k, writer'[s].seq, hist')
      BY <2>1, <2>4, <2>13
    <3> QED
      BY <1>1, <1>8, <2>1, <3>1, <3>2, FinishHolds
  <2> QED
    BY <1>2, <1>3, <2>1, <2>7, <2>8, <2>9, <2>14 DEF UndoInv
<1> QED
  BY <1>7, <1>11, <1>12

(* Steps that leave the stacks, the projects and the history alone, except *)
(* that a session without stacks may load its project.                     *)
LEMMA KeepEntries ==
  ASSUME UndoInv, UNCHANGED <<stacks, hist>>,
         \A t \in Sessions : /\ phase[t] \in {"open", "closed"} => writer'[t] = writer[t]
                             /\ phase'[t] \notin {"open", "closed"} =>
                                  phase[t] \notin {"open", "closed"}
  PROVE  UndoInv'
<1>1. StatesSound'
  BY DEF UndoInv, StatesSound
<1>2. ASSUME NEW t \in Sessions
      PROVE  /\ phase'[t] \notin {"open", "closed"} => stacks'[t] = NoStacks
             /\ \A c \in Clients : StackHolds(stacks'[t][c], writer'[t].seq, hist')
  <2>1. stacks'[t] = stacks[t] /\ hist' = hist
    OBVIOUS
  <2>2. CASE phase[t] \in {"open", "closed"}
    BY <2>1, <2>2 DEF UndoInv, EntriesHold
  <2>3. CASE phase[t] \notin {"open", "closed"}
    <3>1. stacks'[t] = NoStacks
      BY <2>1, <2>3 DEF UndoInv, EntriesHold
    <3> QED
      BY <3>1, EmptyHolds
  <2> QED
    BY <2>2, <2>3
<1> QED
  BY <1>1, <1>2 DEF UndoInv, EntriesHold

(* The stacks do not outlive the process. *)
LEMMA LostEntries ==
  ASSUME LoseMemory, StatesSound'
  PROVE  UndoInv'
<1>1. \A t \in Sessions : stacks'[t] = NoStacks
  BY DEF LoseMemory
<1> QED
  BY <1>1, EmptyHolds DEF UndoInv, EntriesHold

(* Every step keeps what the stacks say. *)
LEMMA UndoStep ==
  ASSUME Gapless, TypeOK, FilesInv, HistoryInv, UndoInv, [Next]_vars
  PROVE  UndoInv'
<1>0. DOMAIN writer = Sessions /\ DOMAIN phase = Sessions /\ DOMAIN stacks = Sessions
  BY DEF TypeOK, ProjectsOK, HistoryInv, StacksHold
<1>1. ASSUME NEW s \in Sessions, LoadState(s) \/ ReplayRecord(s) PROVE UndoInv'
  <2>1. /\ phase[s] \notin {"open", "closed"} /\ UNCHANGED <<stacks, hist>>
        /\ \A t \in Sessions : t # s => writer'[t] = writer[t] /\ phase'[t] = phase[t]
    BY <1>0, <1>1 DEF LoadState, ReplayRecord, ghosts
  <2> QED
    BY <2>1, KeepEntries
<1>2. ASSUME NEW s \in Sessions, ReadJournal(s) \/ PublishHandle(s) \/ Close(s) PROVE UndoInv'
  <2>1. UNCHANGED <<stacks, hist, writer>>
    BY <1>2 DEF ReadJournal, PublishHandle, Close, ghosts
  <2>2. phase[s] \notin {"open", "closed"} \/ phase'[s] = "closed"
    BY <1>0, <1>2 DEF ReadJournal, PublishHandle, Close
  <2>3. \A t \in Sessions : t # s => phase'[t] = phase[t]
    BY <1>0, <1>2 DEF ReadJournal, PublishHandle, Close
  <2> QED
    BY <2>1, <2>2, <2>3, KeepEntries
<1>3. ASSUME NEW s \in Sessions,
             \/ \E c \in Clients : Submit(s, c)
             \/ Respond(s)
             \/ \E r \in Roles : SaverStep(s, r) \/ SaveFails(s, r)
      PROVE  UndoInv'
  <2>1. UNCHANGED <<stacks, hist, writer, phase>>
    BY <1>3 DEF Submit, Respond, SaverStep, SaveFails, TruncateIdb, WriteIdb, WriteTmp, RenameTmp,
                ghosts
  <2> QED
    BY <2>1, KeepEntries
<1>4. ASSUME NEW s \in Sessions, WriterEnds(s) PROVE UndoInv'
  <2>1. /\ hist' = hist /\ stacks'[s] = NoStacks
        /\ \A t \in Sessions : t # s => /\ stacks'[t] = stacks[t] /\ writer'[t] = writer[t]
                                        /\ phase'[t] = phase[t]
    BY <1>0, <1>4 DEF WriterEnds, ghosts
  <2>2. StatesSound'
    BY <2>1 DEF UndoInv, StatesSound
  <2> QED
    BY <2>1, <2>2, EmptyHolds DEF UndoInv, EntriesHold
<1>5. CASE Crash
  <2>1. LoseMemory /\ hist' = hist
    BY <1>5 DEF Crash
  <2> QED
    BY <2>1, LostEntries DEF UndoInv, StatesSound
<1>6. ASSUME NEW s \in Sessions, CrashInAppend(s) PROVE UndoInv'
  <2>1. /\ LoseMemory /\ CanExecute(s) /\ CanPerform(s)
        /\ hist' = [hist EXCEPT ![Done(s).proj.seq] = Done(s).proj.st]
    BY <1>6 DEF CrashInAppend
  <2> QED
    BY <2>1, SoundPerformed, LostEntries
<1>7. CASE FlushIdb \/ UNCHANGED vars
  <2>1. UNCHANGED <<stacks, hist, writer, phase>>
    BY <1>7 DEF FlushIdb, vars, sessions, ghosts
  <2> QED
    BY <2>1, KeepEntries
<1>8. ~PowerLoss
  BY DEF Gapless, PowerLoss
<1> QED
  BY <1>1, <1>2, <1>3, <1>4, <1>5, <1>6, <1>7, <1>8, ApplyHolds, UndoHolds, RedoHolds
  DEF Next, WriterStep

(* The state that analysis leaves is one that ops can leave. *)
LEMMA UndoInit == Init => UndoInv
<1> SUFFICES ASSUME Init PROVE UndoInv
  OBVIOUS
<1>1. /\ hist = [n \in 0..MaxRequests |-> InitState]
      /\ \A s \in Sessions : stacks[s] = NoStacks
  BY DEF Init
<1>2. Sound(InitState)
  <2>1. DOMAIN InitState = {"val", "focus", "aliases"} /\ InitState.focus \in Vas
    BY OpsAssumption DEF InitState
  <2>2. DOMAIN InitState.val = SlotKinds
    BY DEF InitState
  <2>3. ASSUME NEW k \in SlotKinds
        PROVE  /\ DOMAIN InitState.val[k] = Vas
               /\ \A a \in Vas : InitState.val[k][a] \in SlotValues(k)
    BY ValuesAssumption DEF InitState, SlotValues, SlotKinds, Plain
  <2> QED
    BY <2>1, <2>2, <2>3 DEF Sound
<1>3. StatesSound
  BY <1>1, <1>2 DEF StatesSound
<1> QED
  BY <1>1, <1>3, EmptyHolds DEF UndoInv, EntriesHold

(* A request that is performed is the one at the head of its queue. *)
LEMMA PerformsRequest ==
  ASSUME Gapless, TypeOK, [Next]_vars, NEW s \in Sessions, NEW kind, Performs(s, kind)
  PROVE  /\ ApplyOne(s) \/ UndoOne(s) \/ RedoOne(s)
         /\ Head(queue[s]).kind = kind /\ writer'[s] # writer[s]
<1>0. DOMAIN busy = Sessions /\ DOMAIN writer = Sessions /\ writer[s].seq \in Nat
  BY DEF TypeOK, BusyOK, ProjectsOK, ProjectOK
<1>1. busy[s] = NoResult /\ busy'[s] # NoResult /\ busy'[s].result = "ok" /\ busy'[s].req.kind = kind
  BY DEF Performs
<1>2. ASSUME NEW t \in Sessions, ApplyOne(t) \/ UndoOne(t) \/ RedoOne(t) PROVE t = s
  <2>1. PICK b : busy' = [busy EXCEPT ![t] = b]
    BY <1>2, RequestShape
  <2> QED
    BY <1>0, <1>1, <2>1
<1>3. ASSUME NEW t \in Sessions, Respond(t) PROVE FALSE
  <2>1. busy' = [busy EXCEPT ![t] = NoResult]
    BY <1>3 DEF Respond
  <2> QED
    BY <1>0, <1>1, <2>1
<1>4. ASSUME NEW t \in Sessions,
             \/ LoadState(t) \/ ReadJournal(t) \/ ReplayRecord(t) \/ PublishHandle(t)
             \/ \E c \in Clients : Submit(t, c)
             \/ Close(t) \/ WriterEnds(t)
             \/ \E r \in Roles : SaverStep(t, r) \/ SaveFails(t, r)
      PROVE  FALSE
  <2>1. busy' = busy
    BY <1>4 DEF LoadState, ReadJournal, ReplayRecord, PublishHandle, Submit, Close, WriterEnds,
                SaverStep, SaveFails, TruncateIdb, WriteIdb, WriteTmp, RenameTmp
  <2> QED
    BY <1>1, <2>1
<1>5. ~LoseMemory
  BY <1>1 DEF LoseMemory
<1>6. ~FlushIdb /\ ~UNCHANGED vars
  BY <1>1 DEF FlushIdb, vars, sessions
<1>7. ApplyOne(s) \/ UndoOne(s) \/ RedoOne(s)
  BY <1>2, <1>3, <1>4, <1>5, <1>6 DEF Next, WriterStep, Crash, CrashInAppend, PowerLoss
<1>8. queue[s] # <<>>
  BY <1>7, RequestShape
<1>9. PICK r : busy' = [busy EXCEPT ![s] = r] /\ r.req = Head(queue[s])
             /\ (r.result = "ok" => writer' = [writer EXCEPT ![s] = Done(s).proj])
  <2>1. "append_error" \notin Faults
    BY DEF Gapless
  <2>2. \/ /\ writer' = [writer EXCEPT ![s] = Done(s).proj]
           /\ busy' = [busy EXCEPT ![s] = [req |-> Head(queue[s]), result |-> "ok"]]
        \/ busy' = [busy EXCEPT ![s] = [req |-> Head(queue[s]), result |-> "err"]]
    BY <1>7, <2>1, RequestShape
  <2>3. CASE /\ writer' = [writer EXCEPT ![s] = Done(s).proj]
             /\ busy' = [busy EXCEPT ![s] = [req |-> Head(queue[s]), result |-> "ok"]]
    BY <2>3
  <2>4. CASE busy' = [busy EXCEPT ![s] = [req |-> Head(queue[s]), result |-> "err"]]
    <3>1. PICK r : r = [req |-> Head(queue[s]), result |-> "err"]
      OBVIOUS
    <3>2. r.req = Head(queue[s]) /\ r.result # "ok"
      BY <3>1
    <3> QED
      BY <2>4, <3>1, <3>2
  <2> QED
    BY <2>2, <2>3, <2>4
<1>10. busy'[s] = r
  BY <1>0, <1>9
<1>11. writer'[s] = Done(s).proj
  BY <1>0, <1>1, <1>9, <1>10
<1>12. Done(s).proj.seq = writer[s].seq + 1
  BY <1>8, DoneType
<1>13. writer'[s] # writer[s]
  BY <1>0, <1>11, <1>12
<1> QED
  BY <1>1, <1>7, <1>9, <1>10, <1>13

(* Under the same conditions, every entry of every stack of the writer     *)
(* tells how the states of the history at its numbers came about: an entry *)
(* to be undone, that its op took the one to the other with captures of    *)
(* what it found; an entry to be redone, also what undoing it found and    *)
(* left. Why the next two hold.                                            *)
THEOREM UndoInvariant == Gapless => (Spec => []UndoInv)
<1> SUFFICES ASSUME Gapless PROVE Spec => []UndoInv
  OBVIOUS
<1>1. TypeOK /\ FilesInv /\ HistoryInv /\ UndoInv /\ [Next]_vars => UndoInv'
  BY UndoStep
<1>2. Exclusive
  BY DEF Gapless
<1> QED
  BY <1>1, <1>2, UndoInit, TypeInvariant, FilesInvariant, HistoryInvariant, PTL DEF Spec

(* undo_one, for any edits, batches, chains of undos and redos and any     *)
(* number of clients: an op whose effect is still there, up to what        *)
(* undoing later edits leaves behind, is undone to the state that it was   *)
(* applied to or redone in, but for the residue in slots that were empty.  *)
(* The inverse of a batch, which is made of the children's captures, needs *)
(* the order reversed for that.                                            *)
THEOREM UndoRestores == Gapless => (Spec => UndoCompensates)
<1> SUFFICES ASSUME Gapless PROVE Spec => UndoCompensates
  OBVIOUS
<1>1. ASSUME TypeOK, FilesInv, HistoryInv, UndoInv, [Next]_vars,
             NEW s \in Sessions, Performs(s, "undo"),
             Top(HeadStack(s).undo).exact, UndoFits(s, Top(HeadStack(s).undo))
      PROVE  UndoneTo(writer'[s].st, hist[Top(HeadStack(s).undo).at - 1])
  <2>1. UndoOne(s) /\ writer'[s] # writer[s]
    <3>1. ApplyOne(s) => Head(queue[s]).kind = "apply"
      BY DEF ApplyOne
    <3>2. RedoOne(s) => Head(queue[s]).kind = "redo"
      BY DEF RedoOne
    <3> QED
      BY <1>1, <3>1, <3>2, PerformsRequest
  <2> QED
    BY <1>1, <2>1, UndoHolds
<1>2. TypeOK /\ FilesInv /\ HistoryInv /\ UndoInv /\ [Next]_vars =>
        [\A s \in Sessions : Performs(s, "undo") =>
           LET e == Top(HeadStack(s).undo) IN
           e.exact /\ UndoFits(s, e) => UndoneTo(writer'[s].st, hist[e.at - 1])]_vars
  BY <1>1
<1>3. Exclusive
  BY DEF Gapless
<1> QED
  BY <1>2, <1>3, TypeInvariant, FilesInvariant, HistoryInvariant, UndoInvariant, PTL
  DEF Spec, UndoCompensates

(* redo_one: an op that was undone gives back of every annotation what     *)
(* applying it made, or what undoing it found there, and the captures of   *)
(* the redone op are again those of the state it is applied to, so that    *)
(* undo, redo, undo goes on for ever.                                      *)
THEOREM RedoGivesBack == Gapless => (Spec => RedoReapplies)
<1> SUFFICES ASSUME Gapless PROVE Spec => RedoReapplies
  OBVIOUS
<1>1. ASSUME TypeOK, FilesInv, HistoryInv, UndoInv, [Next]_vars,
             NEW s \in Sessions, Performs(s, "redo"),
             Top(HeadStack(s).redo).exact, RedoFits(s, Top(HeadStack(s).redo))
      PROVE  Between(writer'[s].st, hist[Top(HeadStack(s).redo).at],
                     hist[Top(HeadStack(s).redo).undone - 1])
  <2>1. RedoOne(s) /\ writer'[s] # writer[s]
    <3>1. ApplyOne(s) => Head(queue[s]).kind = "apply"
      BY DEF ApplyOne
    <3>2. UndoOne(s) => Head(queue[s]).kind = "undo"
      BY DEF UndoOne
    <3> QED
      BY <1>1, <3>1, <3>2, PerformsRequest
  <2> QED
    BY <1>1, <2>1, RedoHolds
<1>2. TypeOK /\ FilesInv /\ HistoryInv /\ UndoInv /\ [Next]_vars =>
        [\A s \in Sessions : Performs(s, "redo") =>
           LET e == Top(HeadStack(s).redo) IN
           e.exact /\ RedoFits(s, e) =>
             Between(writer'[s].st, hist[e.at], hist[e.undone - 1])]_vars
  BY <1>1
<1>3. Exclusive
  BY DEF Gapless
<1> QED
  BY <1>2, <1>3, TypeInvariant, FilesInvariant, HistoryInvariant, UndoInvariant, PTL
  DEF Spec, RedoReapplies
=============================================================================
