-------------------------- MODULE AnnotationStore --------------------------
(***************************************************************************)
(* The durable annotations of one binary: the journal (op_log.rs), the IDB *)
(* snapshot (persistence.rs, Project::save), the open path that replays    *)
(* them (Project::open_with_progress) and the writer task that serialises  *)
(* the edits of all clients (project_manager.rs, writer_loop).             *)
(*                                                                         *)
(* Both files are named after the SHA-256 of the image, so every session   *)
(* open on the same bytes shares them.  A session is one ProjectHandle     *)
(* with its writer task; its clients only reach it through the queue.      *)
(*                                                                         *)
(* Faults selects what the environment may do:                             *)
(*   "crash"        the process dies between two file operations           *)
(*   "append_error" an append fails before a byte is written               *)
(*   "save_error"   a save or a truncation fails before a byte is written  *)
(*   "torn_append"  an append stops inside the line (crash or full disk)   *)
(*   "torn_idb"     fs::write of the IDB is seen between truncate and write*)
(*   "power_loss"   bytes that were never fsynced may be gone              *)
(*   "overlap"      a session is opened while another one still uses the   *)
(*                  files, or closed while requests are queued             *)
(***************************************************************************)
EXTENDS Ops

CONSTANTS Clients, Sessions,
          Edits,           \* the ops that clients submit
          CheckpointOps,   \* CHECKPOINT_OPS
          MaxRequests,     \* bound: requests ever submitted
          MaxQueue,        \* bound: requests waiting in one channel
          Faults,
          NoFile, NoResult

FaultKinds == {"crash", "append_error", "save_error", "torn_append", "torn_idb",
               "power_loss", "overlap"}

Ids == 1..MaxRequests

(* WriteRequest.  The id is a ghost that tells requests apart. *)
Requests == [kind : {"apply"}, client : Clients, op : Edits, id : Ids]
              \cup [kind : {"undo", "redo"}, client : Clients, op : {Absent}, id : Ids]

ASSUME StoreAssumption ==
  /\ CheckpointOps \in Nat \ {0}
  /\ MaxRequests \in Nat
  /\ MaxQueue \in Nat
  /\ Faults \subseteq FaultKinds
  /\ NoResult \notin [req : Requests, result : {"ok", "err"}]

(* What clients submit are ops, and the values undo writes are values. *)
ASSUME EditsAssumption ==
  /\ \A op \in Edits : Submitted(op)
  /\ \A kind \in PrimKinds \ {"focus"} : UndoDefault(kind) # Absent

VARIABLES
  idb,       \* the .windy file: [status, proj, flushed]
  journal,   \* the .oplog file: [recs, tail]
  tmp,       \* the .oplog.tmp file: NoFile or a set of lines
  phase,     \* per session: idle, loaded, replay, open, closed
  todo,      \* per session: journal lines still to be replayed
  writer,    \* per session: the writer task's own Project
  view,      \* per session: read_state, the published Project
  stacks,    \* per session and client: UndoRedoStack
  queue,     \* per session: the mpsc channel of WriteRequests
  busy,      \* per session: NoResult, or the result not yet published
  since,     \* per session: ops_since_save
  saver,     \* per session and role: a Project::save in progress
  issued,    \* number of requests ever submitted; a request's id
  appends,   \* number of journal appends: the position of the next line
  acked,     \* ids whose client was answered Ok
  refused,   \* ids whose client was answered Err
  hist       \* the state a writer reached at each sequence number

files    == <<idb, journal, tmp>>
sessions == <<phase, todo, writer, view, stacks, queue, busy, since, saver>>
ghosts   == <<issued, appends, acked, refused, hist>>
vars     == <<files, sessions, ghosts>>

----------------------------------------------------------------------------
Roles  == {"writer", "closer"}
Phases == {"idle", "loaded", "replay", "open", "closed"}

(* A Project as analysis leaves it, before the IDB and the journal are     *)
(* applied.  ids is a ghost: the requests whose effect it contains.        *)
FreshProject == [st |-> InitState, seq |-> 0, ids |-> {}]

NoSave   == [pc |-> "idle", snap |-> FreshProject]
NoStacks == [c \in Clients |-> [undo |-> <<>>, redo |-> <<>>]]

NoIdb         == [status |-> "absent", proj |-> FreshProject, flushed |-> TRUE]
UnreadableIdb == [status |-> "unreadable", proj |-> FreshProject, flushed |-> TRUE]

(* ProjectState::load_from and apply: None unless the file can be decoded. *)
LoadedProject == IF idb.status = "ok" THEN idb.proj ELSE FreshProject

Request(kind, c, op) == [kind |-> kind, client |-> c, op |-> op, id |-> issued + 1]

----------------------------------------------------------------------------
(* The journal file.  recs are the lines read_all returns, each with its   *)
(* position in the file; tail tells what follows the last of them:         *)
(* nothing, a line that lacks its newline, or bytes that do not parse.     *)

LastLine(recs) == CHOOSE l \in recs : \A m \in recs : m.pos <= l.pos

(* OpenOptions::append: what was appended to a line without newline makes  *)
(* one line of the two, and read_all stops at the first line that is bad.  *)
Appended(j, line) ==
  CASE j.tail = "clean" -> [recs |-> j.recs \cup {line}, tail |-> "clean"]
    [] j.tail = "torn"  -> j
    [] j.tail = "no_newline" -> [recs |-> j.recs \ {LastLine(j.recs)}, tail |-> "torn"]

(* An append that stopped inside the line: nothing of it parses, or all of *)
(* it but the newline was written.                                         *)
TornAppends(j, line) ==
  IF j.tail = "clean"
  THEN {[recs |-> j.recs, tail |-> "torn"],
        [recs |-> j.recs \cup {line}, tail |-> "no_newline"]}
  ELSE {Appended(j, line)}

(* The requests that opening the files now would bring back: those of the  *)
(* snapshot, and those of the lines whose number exceeds all before them.  *)
Replayable(recs, seq) ==
  {l \in recs : l.seq > seq /\ \A m \in recs : m.pos < l.pos => m.seq < l.seq}

DiskIds == LoadedProject.ids \cup {l.id : l \in Replayable(journal.recs, LoadedProject.seq)}

----------------------------------------------------------------------------
Init ==
  /\ idb = NoIdb
  /\ journal = [recs |-> {}, tail |-> "clean"]
  /\ tmp = NoFile
  /\ phase = [s \in Sessions |-> "idle"]
  /\ todo = [s \in Sessions |-> {}]
  /\ writer = [s \in Sessions |-> FreshProject]
  /\ view = [s \in Sessions |-> FreshProject]
  /\ stacks = [s \in Sessions |-> NoStacks]
  /\ queue = [s \in Sessions |-> <<>>]
  /\ busy = [s \in Sessions |-> NoResult]
  /\ since = [s \in Sessions |-> 0]
  /\ saver = [s \in Sessions |-> [r \in Roles |-> NoSave]]
  /\ issued = 0
  /\ appends = 0
  /\ acked = {}
  /\ refused = {}
  /\ hist = [n \in 0..MaxRequests |-> InitState]

----------------------------------------------------------------------------
(* Opening: ProjectManager::open_with_progress and the StateReplay stage   *)
(* of Project::open_with_progress.                                         *)

(* Nothing of session t can touch the files any more. *)
Quiet(t) == /\ queue[t] = <<>>
            /\ busy[t] = NoResult
            /\ \A r \in Roles : saver[t][r].pc = "idle"

(* close keeps the mutex of the project map until its save has ended. *)
MapHeld == \E t \in Sessions : saver[t]["closer"].pc # "idle"

(* The lookup that precedes the analysis compares paths with those in the  *)
(* project map: it does not find another path to the same bytes, an open   *)
(* still in progress, or a closed session whose writer drains its queue.   *)
LoadState(s) ==
  /\ phase[s] = "idle"
  /\ "overlap" \in Faults \/ \A t \in Sessions : phase[t] = "idle"
  /\ writer' = [writer EXCEPT ![s] = LoadedProject]
  /\ phase' = [phase EXCEPT ![s] = "loaded"]
  /\ UNCHANGED <<files, todo, view, stacks, queue, busy, since, saver, ghosts>>

(* Mutant of ReadJournal: records are replayed only on top of a snapshot. *)
ReadJournalOnSnapshot(s) ==
  /\ phase[s] = "loaded"
  /\ todo' = [todo EXCEPT ![s] = IF idb.status = "ok" THEN journal.recs ELSE {}]
  /\ phase' = [phase EXCEPT ![s] = "replay"]
  /\ UNCHANGED <<files, writer, view, stacks, queue, busy, since, saver, ghosts>>

ReadJournal(s) ==
  /\ phase[s] = "loaded"
  /\ todo' = [todo EXCEPT ![s] = journal.recs]
  /\ phase' = [phase EXCEPT ![s] = "replay"]
  /\ UNCHANGED <<files, writer, view, stacks, queue, busy, since, saver, ghosts>>

ReplayedOp(p, line) ==
  [st |-> ApplyTo(p.st, line.op).st, seq |-> line.seq, ids |-> p.ids \cup {line.id}]

(* Mutant of Replayed: without the comparison with op_seq. *)
ReplayedAgain(p, line) == ReplayedOp(p, line)

(* One record of the replay loop: op_seq is set after the op is applied. *)
Replayed(p, line) == IF line.seq > p.seq THEN ReplayedOp(p, line) ELSE p

ReplayRecord(s) ==
  /\ phase[s] = "replay"
  /\ \E line \in todo[s] :
       /\ \A m \in todo[s] : line.pos <= m.pos
       /\ writer' = [writer EXCEPT ![s] = Replayed(@, line)]
       /\ todo' = [todo EXCEPT ![s] = @ \ {line}]
  /\ UNCHANGED <<files, phase, view, stacks, queue, busy, since, saver, ghosts>>

(* The handle enters the project map and the writer task starts. *)
PublishHandle(s) ==
  /\ phase[s] = "replay"
  /\ todo[s] = {}
  /\ ~MapHeld
  /\ view' = [view EXCEPT ![s] = writer[s]]
  /\ phase' = [phase EXCEPT ![s] = "open"]
  /\ UNCHANGED <<files, todo, writer, stacks, queue, busy, since, saver, ghosts>>

----------------------------------------------------------------------------
(* Clients: apply_op, undo_last and redo_last look the handle up and send  *)
(* a WriteRequest; the handle may have left the map between the two.       *)
Submit(s, c) ==
  /\ phase[s] = "open" \/ ("overlap" \in Faults /\ phase[s] = "closed")
  /\ issued < MaxRequests
  /\ Len(queue[s]) < MaxQueue
  /\ \E req \in {Request("apply", c, op) : op \in Edits} \cup
               {Request(k, c, Absent) : k \in {"undo", "redo"}} :
       queue' = [queue EXCEPT ![s] = Append(@, req)]
  /\ issued' = issued + 1
  /\ UNCHANGED <<files, phase, todo, writer, view, stacks, busy, since, saver,
                 appends, acked, refused, hist>>

----------------------------------------------------------------------------
(* The writer task.  apply_one, undo_one and redo_one advance op_seq and   *)
(* change the task's Project before they append, so both are kept when the *)
(* append fails.                                                           *)

(* Mutant of CanExecute: close stops the task with its channel. *)
CanExecuteWhileOpen(s) == /\ phase[s] = "open"
                          /\ queue[s] # <<>>
                          /\ busy[s] = NoResult
                          /\ saver[s]["writer"].pc = "idle"

CanExecute(s) == /\ queue[s] # <<>>
                 /\ busy[s] = NoResult
                 /\ saver[s]["writer"].pc = "idle"

(* Mutant of NextSeq: the increment of op_seq is missing. *)
SameSeq(p) == p.seq

NextSeq(p) == p.seq + 1

Advanced(p, r, id) ==
  [proj |-> [st |-> r.st, seq |-> NextSeq(p), ids |-> p.ids \cup {id}], op |-> r.op]

Performed(p, op, id) == Advanced(p, ApplyTo(p.st, op), id)

Top(seq) == seq[Len(seq)]
Pop(seq) == SubSeq(seq, 1, Len(seq) - 1)

HeadStack(s) == stacks[s][Head(queue[s]).client]

(* Mutant of RequestedOp: redo takes the inverse of what it popped. *)
RequestedInverse(s) ==
  CASE Head(queue[s]).kind = "apply" -> Head(queue[s]).op
    [] Head(queue[s]).kind = "undo"  -> InverseOp(Top(HeadStack(s).undo).op)
    [] Head(queue[s]).kind = "redo"  -> InverseOp(Top(HeadStack(s).redo).op)

(* The op that the request at the head performs. *)
RequestedOp(s) ==
  CASE Head(queue[s]).kind = "apply" -> Head(queue[s]).op
    [] Head(queue[s]).kind = "undo"  -> InverseOp(Top(HeadStack(s).undo).op)
    [] Head(queue[s]).kind = "redo"  -> Top(HeadStack(s).redo).op

(* "no operations to undo", "operation is not invertible", "no operations  *)
(* to redo": the client is answered with an error.                         *)
CanPerform(s) ==
  /\ Head(queue[s]).kind = "undo" => /\ HeadStack(s).undo # <<>>
                                     /\ Invertible(Top(HeadStack(s).undo).op)
  /\ Head(queue[s]).kind = "redo" => HeadStack(s).redo # <<>>

(* The journal line that the request leaves. *)
Done(s)  == Performed(writer[s], RequestedOp(s), Head(queue[s]).id)
Line(s)  == [pos |-> appends, seq |-> Done(s).proj.seq, op |-> Journaled(Done(s).op),
             id |-> Head(queue[s]).id]

(* What undo leaves where there was nothing: a blank name or comment, an   *)
(* unknown type, a made-up signature; never a memory card.                 *)
Residue(kind) ==
  CASE kind \in {"symbol", "comment"} -> {Blank}
    [] kind = "global" -> {UnknownTy}
    [] kind = "signature" -> {[body |-> VoidBody, param |-> Absent],
                              [body |-> SubBody, param |-> ArgName]}
    [] kind = "local" -> {[ty |-> UnknownTy, name |-> Absent]}
    [] kind = "memory" -> {}

(* st is before again, except for what undo leaves in slots that were      *)
(* empty, for a parameter name that was made up to be replaced, and for a  *)
(* focus on an entry point that is no function.                            *)
UndoneTo(st, before) ==
  /\ st.focus = before.focus \/ before.focus \notin Functions
  /\ \A k \in SlotKinds, a \in Vas :
       \/ st.val[k][a] = before.val[k][a]
       \/ before.val[k][a] = Absent /\ st.val[k][a] \in Residue(k)
       \/ /\ k = "signature" /\ before.val[k][a] # Absent
          /\ before.val[k][a].param = Absent
          /\ st.val[k][a] = [before.val[k][a] EXCEPT !.param = ArgName]

(* Each annotation of st is as in a or as in b. *)
Between(st, a, b) ==
  /\ st.focus \in {a.focus, b.focus}
  /\ \A k \in SlotKinds, x \in Vas : st.val[k][x] \in {a.val[k][x], b.val[k][x]}

(* Undoing e finds what e made, undoing later edits aside; redoing it      *)
(* finds what undoing it left or what was there before e.                  *)
UndoFits(s, e) == UndoneTo(writer[s].st, hist[e.at])
RedoFits(s, e) == Between(writer[s].st, hist[e.at - 1], hist[e.undone])

(* A stack entry is an op.  Its other fields are ghosts: the sequence      *)
(* number it was last applied or redone at, the one it was undone at, and  *)
(* whether each undo and redo of it found a state that fits.               *)
Entry(s, exact) == [op |-> Done(s).op, at |-> Done(s).proj.seq, undone |-> 0,
                    exact |-> exact]
Undone(s, e) == [op |-> e.op, at |-> e.at, undone |-> Done(s).proj.seq,
                 exact |-> e.exact /\ UndoFits(s, e)]

Finish(s, result, stack) ==
  /\ queue' = [queue EXCEPT ![s] = Tail(@)]
  /\ busy' = [busy EXCEPT ![s] = [req |-> Head(queue[s]), result |-> result]]
  /\ stacks' = [stacks EXCEPT ![s][Head(queue[s]).client] = stack]
  /\ UNCHANGED <<idb, tmp, phase, todo, view, since, saver, issued, acked, refused>>

(* Perform the request and append its record: onOk and onErr are the       *)
(* client's stacks after success and failure.                              *)
Execute(s, onOk, onErr) ==
  /\ CanPerform(s)
  /\ writer' = [writer EXCEPT ![s] = Done(s).proj]
  /\ hist' = [hist EXCEPT ![Done(s).proj.seq] = Done(s).proj.st]
  /\ appends' = appends + 1
  /\ \/ /\ journal' = Appended(journal, Line(s))
        /\ Finish(s, "ok", onOk)
     \/ /\ "append_error" \in Faults
        /\ journal' \in {journal} \cup
                        (IF "torn_append" \in Faults THEN TornAppends(journal, Line(s))
                                                     ELSE {})
        /\ Finish(s, "err", onErr)

Refuse(s, stack) ==
  /\ ~CanPerform(s)
  /\ Finish(s, "err", stack)
  /\ UNCHANGED <<journal, writer, appends, hist>>

ApplyOne(s) ==
  /\ CanExecute(s)
  /\ Head(queue[s]).kind = "apply"
  /\ Execute(s, [undo |-> Append(HeadStack(s).undo, Entry(s, TRUE)), redo |-> <<>>],
             HeadStack(s))

(* The op is popped before it is inverted, and stays popped when the       *)
(* append fails.  Redo gets the op as it was applied.                      *)
UndoOne(s) ==
  /\ CanExecute(s)
  /\ Head(queue[s]).kind = "undo"
  /\ LET stack  == HeadStack(s)
         popped == IF stack.undo = <<>> THEN stack ELSE [stack EXCEPT !.undo = Pop(@)]
     IN  \/ Execute(s, [popped EXCEPT !.redo = Append(@, Undone(s, Top(stack.undo)))], popped)
         \/ Refuse(s, popped)

RedoOne(s) ==
  /\ CanExecute(s)
  /\ Head(queue[s]).kind = "redo"
  /\ LET stack  == HeadStack(s)
         popped == IF stack.redo = <<>> THEN stack ELSE [stack EXCEPT !.redo = Pop(@)]
         e      == Top(stack.redo)
     IN  \/ Execute(s, [popped EXCEPT !.undo = Append(@, Entry(s, e.exact /\ RedoFits(s, e)))],
                    popped)
         \/ Refuse(s, stack)

(* Mutant of CheckpointDue: one request too late. *)
CheckpointOverdue(n) == n > CheckpointOps

CheckpointDue(n) == n >= CheckpointOps

(* The rest of a writer_loop iteration: store read_state, answer, count,   *)
(* and start the auto-checkpoint (which resets the counter when it ends,   *)
(* whether or not the save succeeded).                                     *)
Respond(s) ==
  /\ busy[s] # NoResult
  /\ view' = [view EXCEPT ![s] = writer[s]]
  /\ IF busy[s].result = "ok"
     THEN acked' = acked \cup {busy[s].req.id} /\ UNCHANGED refused
     ELSE refused' = refused \cup {busy[s].req.id} /\ UNCHANGED acked
  /\ busy' = [busy EXCEPT ![s] = NoResult]
  /\ IF CheckpointDue(since[s] + 1)
     THEN /\ since' = [since EXCEPT ![s] = 0]
          /\ saver' = [saver EXCEPT ![s]["writer"] = [pc |-> "write", snap |-> writer[s]]]
     ELSE /\ since' = [since EXCEPT ![s] = @ + 1]
          /\ UNCHANGED saver
  /\ UNCHANGED <<files, phase, todo, writer, stacks, queue, issued, appends, hist>>

----------------------------------------------------------------------------
(* ProjectManager::close: the handle leaves the map, and the published     *)
(* Project is saved by the caller's thread; the writer task ends when its  *)
(* channel is drained.                                                     *)
Close(s) ==
  /\ phase[s] = "open"
  /\ ~MapHeld
  /\ "overlap" \in Faults \/ Quiet(s)
  /\ phase' = [phase EXCEPT ![s] = "closed"]
  /\ saver' = [saver EXCEPT ![s]["closer"] = [pc |-> "write", snap |-> view[s]]]
  /\ UNCHANGED <<files, todo, writer, view, stacks, queue, busy, since, ghosts>>

WriterEnds(s) ==
  /\ phase[s] = "closed"
  /\ Quiet(s)
  /\ phase' = [phase EXCEPT ![s] = "idle"]
  /\ writer' = [writer EXCEPT ![s] = FreshProject]
  /\ view' = [view EXCEPT ![s] = FreshProject]
  /\ stacks' = [stacks EXCEPT ![s] = NoStacks]
  /\ since' = [since EXCEPT ![s] = 0]
  /\ UNCHANGED <<files, todo, queue, busy, saver, ghosts>>

----------------------------------------------------------------------------
(* Project::save: ProjectState::save_to, then Journal::truncate_through.   *)

SaveStep(s, r, from, to) ==
  /\ saver[s][r].pc = from
  /\ saver' = [saver EXCEPT ![s][r].pc = to]

(* fs::write truncates the file before it writes the bytes. *)
TruncateIdb(s, r) ==
  /\ "torn_idb" \in Faults
  /\ SaveStep(s, r, "write", "writing")
  /\ idb' = UnreadableIdb
  /\ UNCHANGED <<journal, tmp, phase, todo, writer, view, stacks, queue, busy,
                 since, ghosts>>

WriteIdb(s, r) ==
  /\ SaveStep(s, r, IF "torn_idb" \in Faults THEN "writing" ELSE "write", "truncate")
  /\ idb' = [status |-> "ok", proj |-> saver[s][r].snap,
             flushed |-> "power_loss" \notin Faults]
  /\ UNCHANGED <<journal, tmp, phase, todo, writer, view, stacks, queue, busy,
                 since, ghosts>>

(* truncate_through reads the journal and writes what it keeps to the      *)
(* temporary file, whose name is the same for every session.               *)
WriteTmp(s, r) ==
  /\ SaveStep(s, r, "truncate", "rename")
  /\ tmp' = {l \in journal.recs : l.seq > saver[s][r].snap.seq}
  /\ UNCHANGED <<idb, journal, phase, todo, writer, view, stacks, queue, busy,
                 since, ghosts>>

(* The rename fails, and save ignores it, when another one took the file. *)
RenameTmp(s, r) ==
  /\ SaveStep(s, r, "rename", "idle")
  /\ IF tmp = NoFile
     THEN UNCHANGED <<journal, tmp>>
     ELSE /\ journal' = [recs |-> tmp, tail |-> "clean"]
          /\ tmp' = NoFile
  /\ UNCHANGED <<idb, phase, todo, writer, view, stacks, queue, busy, since, ghosts>>

(* Mutant of SaveFails: an error of save_to does not end the save. *)
SaveFailsOn(s, r) ==
  /\ "save_error" \in Faults
  /\ \/ SaveStep(s, r, "write", "truncate")
     \/ SaveStep(s, r, "truncate", "idle")
     \/ SaveStep(s, r, "rename", "idle")
  /\ UNCHANGED <<files, phase, todo, writer, view, stacks, queue, busy, since, ghosts>>

(* save_to returns early, or truncate_through fails and .ok() drops it. *)
SaveFails(s, r) ==
  /\ "save_error" \in Faults
  /\ \/ SaveStep(s, r, "write", "idle")
     \/ SaveStep(s, r, "truncate", "idle")
     \/ SaveStep(s, r, "rename", "idle")
  /\ UNCHANGED <<files, phase, todo, writer, view, stacks, queue, busy, since, ghosts>>

----------------------------------------------------------------------------
(* The process dies: memory is lost, the files stay. *)
LoseMemory ==
  /\ phase' = [s \in Sessions |-> "idle"]
  /\ todo' = [s \in Sessions |-> {}]
  /\ writer' = [s \in Sessions |-> FreshProject]
  /\ view' = [s \in Sessions |-> FreshProject]
  /\ stacks' = [s \in Sessions |-> NoStacks]
  /\ queue' = [s \in Sessions |-> <<>>]
  /\ busy' = [s \in Sessions |-> NoResult]
  /\ since' = [s \in Sessions |-> 0]
  /\ saver' = [s \in Sessions |-> [r \in Roles |-> NoSave]]
  /\ UNCHANGED <<issued, acked, refused>>

Crash ==
  /\ "crash" \in Faults
  /\ \E s \in Sessions : phase[s] # "idle"
  /\ LoseMemory
  /\ UNCHANGED <<files, appends, hist>>

(* It dies inside the append of the request at the head of a queue. *)
CrashInAppend(s) ==
  /\ "torn_append" \in Faults
  /\ CanExecute(s)
  /\ CanPerform(s)
  /\ journal' \in TornAppends(journal, Line(s))
  /\ appends' = appends + 1
  /\ hist' = [hist EXCEPT ![Done(s).proj.seq] = Done(s).proj.st]
  /\ LoseMemory
  /\ UNCHANGED <<idb, tmp>>

(* The snapshot is never fsynced; the journal is, by append and truncate. *)
FlushIdb ==
  /\ ~idb.flushed
  /\ idb' = [status |-> idb.status, proj |-> idb.proj, flushed |-> TRUE]
  /\ UNCHANGED <<journal, tmp, sessions, ghosts>>

PowerLoss ==
  /\ "power_loss" \in Faults
  /\ \E s \in Sessions : phase[s] # "idle"
  /\ idb' \in IF idb.flushed THEN {idb} ELSE {idb, UnreadableIdb}
  /\ LoseMemory
  /\ UNCHANGED <<journal, tmp, appends, hist>>

----------------------------------------------------------------------------
WriterStep(s) == ApplyOne(s) \/ UndoOne(s) \/ RedoOne(s) \/ Respond(s)

SaverStep(s, r) == TruncateIdb(s, r) \/ WriteIdb(s, r) \/ WriteTmp(s, r) \/ RenameTmp(s, r)

Next ==
  \/ \E s \in Sessions :
       \/ LoadState(s) \/ ReadJournal(s) \/ ReplayRecord(s) \/ PublishHandle(s)
       \/ \E c \in Clients : Submit(s, c)
       \/ WriterStep(s)
       \/ Close(s) \/ WriterEnds(s)
       \/ \E r \in Roles : SaverStep(s, r) \/ SaveFails(s, r)
       \/ CrashInAppend(s)
  \/ Crash \/ FlushIdb \/ PowerLoss

Spec == Init /\ [][Next]_vars

(* tokio keeps polling the writer task and the closing thread keeps        *)
(* running; nothing forces clients to act or a project to be opened.       *)
Fairness == \A s \in Sessions : /\ WF_vars(WriterStep(s))
                                /\ \A r \in Roles : WF_vars(SaverStep(s, r))

FairSpec == Spec /\ Fairness

----------------------------------------------------------------------------
(* Properties. *)

ProjectOK(p) == p.seq \in Nat /\ p.ids \subseteq Ids

LinesOK(lines) ==
  \A l \in lines : l.pos \in 0..(appends - 1) /\ l.seq \in Nat \ {0} /\ l.id \in Ids

FilesOK ==
  /\ idb.status \in {"absent", "unreadable", "ok"} /\ ProjectOK(idb.proj)
  /\ journal.tail \in {"clean", "no_newline", "torn"}
  /\ appends \in Nat
  /\ LinesOK(journal.recs)
  /\ tmp # NoFile => LinesOK(tmp)
  /\ DOMAIN todo = Sessions /\ \A s \in Sessions : LinesOK(todo[s])

ProjectsOK ==
  /\ DOMAIN writer = Sessions /\ \A s \in Sessions : ProjectOK(writer[s])
  /\ DOMAIN view = Sessions /\ \A s \in Sessions : ProjectOK(view[s])

BusyOK ==
  /\ DOMAIN busy = Sessions
  /\ \A s \in Sessions : busy[s] # NoResult => busy[s].req.id \in Ids

SaversOK ==
  /\ DOMAIN saver = Sessions
  /\ \A s \in Sessions :
       /\ DOMAIN saver[s] = Roles
       /\ \A r \in Roles : DOMAIN saver[s][r] = {"pc", "snap"} /\ ProjectOK(saver[s][r].snap)

(* The shape of every variable; ids never leave the requests submitted,    *)
(* and the checkpoint counter stays below its limit.                       *)
TypeOK ==
  /\ FilesOK /\ ProjectsOK /\ BusyOK /\ SaversOK
  /\ phase \in [Sessions -> Phases]
  /\ queue \in [Sessions -> Seq(Requests)]
  /\ since \in [Sessions -> 0..(CheckpointOps - 1)]
  /\ issued \in 0..MaxRequests
  /\ acked \subseteq Ids /\ refused \subseteq Ids

(* Op::apply_to makes "a durable record that can both be replayed after a  *)
(* crash and inverted": whatever a client was told is saved comes back     *)
(* when the files are opened again, at every moment of every save.         *)
AckedSurvive == acked \subseteq DiskIds

(* Environments.  One session uses the files; nothing that was acknowledged*)
(* is lost, as lines and snapshots are written whole, although the process *)
(* may die between file operations and these may fail; what is appended    *)
(* leaves no gap in the numbers of the lines.                              *)
Exclusive == "overlap" \notin Faults
Serial    == Exclusive /\ Faults \cap {"torn_append", "torn_idb", "power_loss"} = {}
Gapless   == Exclusive /\ Faults \cap {"append_error", "torn_idb", "power_loss"} = {}

(* What holds of the files and the session that uses them when Exclusive   *)
(* does, damaged or not: an inductive invariant.                           *)

(* One session at a time, and at most one of its threads, uses the files.  *)
OneUser ==
  /\ \A s, t \in Sessions : phase[s] # "idle" /\ phase[t] # "idle" => s = t
  /\ \A s \in Sessions :
       /\ phase[s] \in {"idle", "loaded", "replay"} => Quiet(s)
       /\ phase[s] = "closed" => /\ queue[s] = <<>> /\ busy[s] = NoResult
                                 /\ saver[s]["writer"].pc = "idle"
       /\ phase[s] = "open" => saver[s]["closer"].pc = "idle"
       /\ saver[s]["writer"].pc # "idle" => busy[s] = NoResult

(* Positions order the lines as their sequence numbers do. *)
LinesOrdered ==
  \A l, m \in journal.recs : /\ l.pos < m.pos => l.seq < m.seq
                             /\ l.pos = m.pos => l = m

(* A project that skips a line because of its number contains that line.   *)
Covers(p) == \A l \in journal.recs : l.seq <= p.seq => l.id \in p.ids

(* The project of a session contains the snapshot and the lines it read.   *)
WriterCovers ==
  \A s \in Sessions : phase[s] # "idle" =>
    /\ LoadedProject.seq <= writer[s].seq
    /\ LoadedProject.ids \subseteq writer[s].ids
    /\ Covers(writer[s])
    /\ phase[s] \in {"open", "closed"} =>
         /\ \A l \in journal.recs : l.seq <= writer[s].seq
         /\ busy[s] = NoResult => view[s] = writer[s]
    /\ phase[s] = "replay" =>
         /\ todo[s] \subseteq journal.recs
         /\ \A l \in journal.recs \ todo[s] :
              l.seq <= writer[s].seq /\ \A m \in todo[s] : l.pos < m.pos

(* A save writes the project of its session, and truncates afterwards.     *)
SavesCover ==
  \A s \in Sessions, r \in Roles :
    /\ saver[s][r].pc \in {"idle", "write", "writing", "truncate", "rename"}
    /\ saver[s][r].pc # "idle" => saver[s][r].snap = writer[s]
    /\ saver[s][r].pc \in {"truncate", "rename"} =>
         idb.status = "ok" /\ idb.proj = writer[s]
    /\ saver[s][r].pc = "rename" => tmp = {}

FilesInv == /\ OneUser /\ LinesOrdered /\ Covers(LoadedProject)
            /\ WriterCovers /\ SavesCover

(* The edits that the snapshot and all lines of the journal stand for. *)
OnDisk == LoadedProject.ids \cup {l.id : l \in journal.recs}

Undamaged == idb.status # "unreadable" /\ journal.tail = "clean"

(* What was answered, or is about to be, is in the files. *)
AnswersCovered ==
  /\ acked \subseteq OnDisk
  /\ \A s \in Sessions : busy[s] # NoResult /\ busy[s].result = "ok" =>
       busy[s].req.id \in OnDisk

(* Why AckedSurvive holds when Serial does. *)
DurabilityInv == FilesInv /\ Undamaged /\ AnswersCovered

(* What a reader can see in a published Project is on disk already.        *)
PublishedIsDurable == \A s \in Sessions : view[s].ids \subseteq DiskIds

(* Only damage that is there to see loses what a reader could see: with a  *)
(* readable (or no) IDB and no broken line at the end of the journal, the  *)
(* files hold all of it.  Both kinds of damage heal at the next save.      *)
DamageExplainsLoss == Undamaged => PublishedIsDurable

(* Every copy of the project - the writer's, the published one, the one    *)
(* being saved, the snapshot on disk and one rebuilt by replay - is the    *)
(* state the writer had when it applied that copy's sequence number.       *)
HistoryAgrees ==
  /\ LoadedProject.st = hist[LoadedProject.seq]
  /\ \A s \in Sessions :
       /\ writer[s].st = hist[writer[s].seq]
       /\ view[s].st = hist[view[s].seq]
       /\ \A r \in Roles : saver[s][r].pc # "idle" =>
            saver[s][r].snap.st = hist[saver[s][r].snap.seq]

Performs(s, kind) == /\ busy[s] = NoResult /\ busy'[s] # NoResult
                     /\ busy'[s].result = "ok" /\ busy'[s].req.kind = kind

(* undo_one: undoing an op that made the current state, undone edits       *)
(* aside, restores the state it was applied to or redone in.               *)
UndoCompensates ==
  [][\A s \in Sessions : Performs(s, "undo") =>
       LET e == Top(HeadStack(s).undo) IN
       e.exact /\ UndoFits(s, e) => UndoneTo(writer'[s].st, hist[e.at - 1])]_vars

(* redo_one: redoing an op that was undone gives back what applying it     *)
(* made of every annotation, or what undoing it found there.               *)
RedoReapplies ==
  [][\A s \in Sessions : Performs(s, "redo") =>
       LET e == Top(HeadStack(s).redo) IN
       e.exact /\ RedoFits(s, e) =>
         Between(writer'[s].st, hist[e.at], hist[e.undone - 1])]_vars

(* Every request that was sent is answered, also when its project is       *)
(* closed in the meantime.                                                 *)
Answered == \A i \in Ids : issued >= i ~> i \in acked \cup refused

(* The store is an implementation of the abstract DurableEdits. *)
Abstract == INSTANCE DurableEdits WITH durable <- DiskIds
ImplementsDurableEdits == Abstract!Spec
=============================================================================
