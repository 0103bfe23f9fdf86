----------------------------- MODULE MCSsaForm -----------------------------
EXTENDS SsaForm

(* Every graph of three blocks with at most two branches each, entered at  *)
(* the first block and written in one.                                     *)
MCFlows ==
  [succ : [1..3 -> {SetToSortSeq(T, <) : T \in {U \in SUBSET (1..3) : Cardinality(U) <= 2}}],
   entry : {1}, defs : {{1}, {2}, {3}}]
=============================================================================
