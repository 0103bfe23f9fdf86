-------------------------------- MODULE Ops --------------------------------
(***************************************************************************)
(* The reversible project mutations of src/src/project/op.rs.              *)
(*                                                                         *)
(* An Op fills in the value it replaces (capture_and_apply), so that it    *)
(* can be written to the journal, replayed after a crash and inverted for  *)
(* undo.  Names, comment texts, types, signatures and memory cards are     *)
(* members of Values; one stack offset and one parameter index are kept    *)
(* per function, and the sequence numbers stamped into cards and aliases   *)
(* are left out.                                                           *)
(***************************************************************************)
EXTENDS Naturals, Sequences

CONSTANTS Vas,         \* the addresses that are annotated
          Values,      \* names, texts, types, signature bodies, cards
          Functions,   \* the addresses analysis.functions knows
          EntryVa,     \* the image's entry point: the initial focus
          Absent,      \* no map entry, Option::None
          NoCapture    \* an old_* field that is still None

ASSUME OpsAssumption == Functions \subseteq Vas /\ EntryVa \in Vas /\ Absent # NoCapture

----------------------------------------------------------------------------
(* Distinguished values; they, Absent and NoCapture are not in Values. *)

Blank       == "blank"        \* String::default()
UnknownTy   == "unknown"      \* DataType::Unknown(0)
Clear       == "clear"        \* a card tagged ["__clear__"] with no purpose
AutoName    == "fun"          \* format!("FUN_{:08x}"), given to every function
ArgName     == "arg"          \* the generated name format!("arg{i}")
SubBody     == "sub"          \* the signature SetParamName makes up
VoidBody    == "void"         \* the signature undo puts where none was

SlotKinds == {"symbol", "comment", "global", "signature", "local", "memory"}

(* What names, texts, types and cards can be; a signature and a local      *)
(* variable are made of them.                                              *)
Plain == Values \cup {Blank, UnknownTy, Clear, AutoName, ArgName, SubBody, VoidBody}
Signatures == [body : Plain, param : Plain \cup {Absent}]
Locals     == [ty : Plain, name : Plain \cup {Absent}]

ASSUME ValuesAssumption ==
  \A x \in {Absent, NoCapture} : x \notin Plain /\ x \notin Signatures /\ x \notin Locals
                                 /\ x \notin Vas

(* The maps of a Project that ops write, the focus and the rename lineage, *)
(* as analysis leaves them.                                                *)
InitState == [val |-> [k \in SlotKinds |-> [a \in Vas |->
                         IF k = "symbol" /\ a \in Functions THEN AutoName ELSE Absent]],
              focus |-> EntryVa,
              aliases |-> <<>>]

(* The slot an op writes: types and names of a local live in one variable, *)
(* a parameter's name in the function's signature.                         *)
SlotOf(kind) ==
  CASE kind \in {"local_type", "local_name"} -> "local"
    [] kind = "param" -> "signature"
    [] OTHER -> kind

----------------------------------------------------------------------------
(* capture_and_apply *)

Slot(st, op) == st.val[SlotOf(op.kind)][op.va]

(* The value an op replaces, as its capture reads it from the slot. *)
OldValue(cur, op) ==
  CASE op.kind = "local_type" -> IF cur = Absent THEN Absent ELSE cur.ty
    [] op.kind = "local_name" -> IF cur = Absent THEN Absent ELSE cur.name
    [] op.kind = "param" -> IF cur = Absent THEN ArgName
                            ELSE IF cur.param = Absent THEN ArgName ELSE cur.param
    [] OTHER -> cur

(* The captures of a local's name and of a memory card are Option<Option>: *)
(* "there was none" is a captured value.  For every other op it is None,   *)
(* and the next application captures again.                                *)
WithOld(op, old) ==
  IF old = Absent /\ op.kind \notin {"local_name", "memory"} THEN op
  ELSE [op EXCEPT !.old = old]

Capture(st, op) ==
  IF op.old # NoCapture THEN op
  ELSE WithOld(op, IF op.kind = "focus" THEN st.focus ELSE OldValue(Slot(st, op), op))

(* What the op leaves in its slot; upsert_stack_var and SetParamName       *)
(* create the variable or the signature that is missing.                   *)
NewValue(cur, op) ==
  CASE op.kind = "local_type" ->
         [ty |-> op.value, name |-> IF cur = Absent THEN Absent ELSE cur.name]
    [] op.kind = "local_name" ->
         [ty |-> IF cur = Absent THEN UnknownTy ELSE cur.ty,
          name |-> IF op.value = Blank THEN Absent ELSE op.value]
    [] op.kind = "param" ->
         [body |-> IF cur = Absent THEN SubBody ELSE cur.body, param |-> op.value]
    [] op.kind = "memory" -> IF op.value = Clear THEN Absent ELSE op.value
    [] OTHER -> op.value

(* SetFocus only moves to a function; a rename of what had a name is kept  *)
(* in the alias history.                                                   *)
Written(st, op) ==
  IF op.kind = "focus"
  THEN [st EXCEPT !.focus = IF op.va \in Functions THEN op.va ELSE @]
  ELSE [st EXCEPT !.val[SlotOf(op.kind)][op.va] = NewValue(@, op),
                  !.aliases = IF op.kind = "symbol" /\ op.old # NoCapture
                              THEN Append(@, <<op.va, op.old, op.value>>) ELSE @]

(* One primitive op: the new state, and the op with its capture. *)
Applied(st, op) == [op |-> op, st |-> Written(st, op)]
ApplyPrim(st, prim) == Applied(st, Capture(st, prim))

(* Op::apply_to.  A Batch applies its children in order: what the first i  *)
(* of them leave, and these children with their captures.                  *)
AddChild(acc, r) == [st |-> r.st, ops |-> Append(acc.ops, r.op)]
ApplyChild(acc, child) == AddChild(acc, ApplyPrim(acc.st, child))

AppliedUpTo(st, ops) ==
  LET F[i \in 0..Len(ops)] == IF i = 0 THEN [st |-> st, ops |-> <<>>]
                              ELSE ApplyChild(F[i - 1], ops[i])
  IN  F
Batched(acc) == [st |-> acc.st, op |-> [kind |-> "batch", ops |-> acc.ops]]

ApplyTo(st, op) ==
  IF op.kind # "batch" THEN ApplyPrim(st, op)
  ELSE Batched(AppliedUpTo(st, op.ops)[Len(op.ops)])

----------------------------------------------------------------------------
(* Op::inverse *)

(* What undo writes where the op had captured nothing. *)
UndoDefault(kind) ==
  CASE kind \in {"symbol", "comment", "param", "local_name"} -> Blank
    [] kind \in {"global", "local_type"} -> UnknownTy
    [] kind = "signature" -> [body |-> VoidBody, param |-> Absent]
    [] kind = "memory" -> Clear

InversePrim(op) ==
  IF op.kind = "focus"
  THEN [op EXCEPT !.va = IF op.old = NoCapture THEN op.va ELSE op.old,
                  !.old = op.va]
  ELSE [op EXCEPT !.value = IF op.old \in {NoCapture, Absent}
                            THEN UndoDefault(op.kind) ELSE op.old,
                  !.old = op.value]

(* Mutant of InverseOp: the children are not reversed. *)
InverseInOrder(op) ==
  IF op.kind # "batch" THEN InversePrim(op)
  ELSE [op EXCEPT !.ops = [i \in DOMAIN op.ops |-> InversePrim(op.ops[i])]]

InverseOp(op) ==
  IF op.kind # "batch" THEN InversePrim(op)
  ELSE [kind |-> "batch",
        ops |-> [i \in 1..Len(op.ops) |-> InversePrim(op.ops[Len(op.ops) - i + 1])]]

(* inverse() is None for a Batch without children. *)
Invertible(op) == op.kind = "batch" => op.ops # <<>>

----------------------------------------------------------------------------
(* An op as serde reads it back from its JSON line: the captures that are  *)
(* Option<Option> write "there was none" as null and read it as None.      *)
JournaledPrim(op) == IF op.old = Absent THEN [op EXCEPT !.old = NoCapture] ELSE op

Journaled(op) ==
  IF op.kind # "batch" THEN JournaledPrim(op)
  ELSE [kind |-> "batch", ops |-> [i \in 1..Len(op.ops) |-> JournaledPrim(op.ops[i])]]

----------------------------------------------------------------------------
(* The ops there are.  Only the captures that are Option<Option> can hold  *)
(* "there was none"; every other field is a value.                         *)
PrimKinds == {"symbol", "comment", "focus", "global", "signature", "param",
              "local_type", "local_name", "memory"}

IsPrim(op) ==
  /\ DOMAIN op = {"kind", "va", "value", "old"}
  /\ op.kind \in PrimKinds
  /\ op.va # Absent /\ op.value # Absent
  /\ op.old = Absent => op.kind \in {"local_name", "memory"}

IsOp(op) ==
  IF op.kind # "batch" THEN IsPrim(op)
  ELSE /\ op = [kind |-> "batch", ops |-> op.ops]
       /\ op.ops \in Seq({op.ops[i] : i \in DOMAIN op.ops})
       /\ \A i \in DOMAIN op.ops : IsPrim(op.ops[i])

(* The single edits of an op, and the types of their fields. *)
Prims(op) == IF op.kind = "batch" THEN op.ops ELSE <<op>>

ValuesOf(kind) == IF kind = "signature" THEN Signatures ELSE Plain

TypedPrim(op) ==
  /\ op.va \in Vas /\ op.value \in ValuesOf(op.kind)
  /\ op.old \in {NoCapture} \cup IF op.kind = "focus" THEN Vas
                                 ELSE ValuesOf(op.kind) \cup {Absent}

(* What clients submit: nothing is captured before the op is applied. *)
Submitted(op) ==
  /\ IsOp(op)
  /\ \A i \in DOMAIN Prims(op) : TypedPrim(Prims(op)[i]) /\ Prims(op)[i].old = NoCapture
=============================================================================
