------------------------- MODULE MCAnnotationStore -------------------------
(***************************************************************************)
(* Edit sets that instantiate AnnotationStore for TLC.  Clients are        *)
(* interchangeable.                                                        *)
(***************************************************************************)
EXTENDS AnnotationStore, TLC

CONSTANTS f, g, v, w

MCVas == {f, g}
ClientSymmetry == Permutations(Clients)
Prim(kind, va, value) == [kind |-> kind, va |-> va, value |-> value, old |-> NoCapture]
Signature(body, param) == [body |-> body, param |-> param]

OneEdit == {Prim("symbol", g, v)}

(* The edits whose replay depends on what is there already, and a batch    *)
(* that nothing can undo.                                                  *)
ReplayEdits ==
  {Prim("symbol", f, v), Prim("focus", f, v), Prim("param", f, v), Prim("local_type", f, w),
   Prim("local_name", f, v), Prim("memory", f, w),
   [kind |-> "batch", ops |-> <<>>],
   [kind |-> "batch", ops |-> <<Prim("symbol", g, v), Prim("symbol", g, w),
                                Prim("comment", f, v), Prim("global", g, w)>>]}

(* The edits whose undo depends on what they found: slots that two kinds   *)
(* of edit share, the focus, a card that undo can clear, and a batch whose *)
(* children overwrite each other.                                          *)
UndoEdits ==
  {Prim("signature", f, Signature(w, Absent)), Prim("param", f, v), Prim("focus", f, v),
   Prim("memory", f, w),
   [kind |-> "batch", ops |-> <<Prim("symbol", g, v), Prim("symbol", g, w),
                                Prim("local_type", f, v), Prim("local_name", f, v)>>]}
=============================================================================
