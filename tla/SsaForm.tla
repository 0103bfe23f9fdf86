------------------------------ MODULE SsaForm ------------------------------
(***************************************************************************)
(* The SSA form of one function and one location of it, a register or a    *)
(* stack slot (decompiler/ssa): dominators and their frontier, the phis,   *)
(* the renaming, the simplification and the value of a return.  The form   *)
(* is built when the module starts; the behaviour then runs the function   *)
(* along the edges of its graph, once as the machine does it and once as   *)
(* the SSA form tells it.                                                  *)
(*                                                                         *)
(* Blocks are numbered from 1, the code numbers them from 0.  Every block  *)
(* reads the location and may then write it.                               *)
(***************************************************************************)
EXTENDS Integers, Sequences, FiniteSets, FiniteSetsExt, SequencesExt

CONSTANTS Flows,     \* functions: [succ, entry, defs]
          NoBlock    \* None of Option<u32>

VARIABLES
  flow,      \* the function: successors in branch order, entry, writing blocks
  ssa,       \* what build_ssa and simplify made of it
  at,        \* block the machine is about to run; NoBlock: not started
  last,      \* block that wrote the location last, LiveIn before any did
  phiVal     \* block -> the value its phi took last

ssaVars == <<flow, ssa, at, last, phiVal>>

LiveIn == 0     \* the version seeded for the entry, and its value
Lost   == -1    \* what reading a version without definition gives

----------------------------------------------------------------------------
(* Adjacency.                                                              *)

Preds(succ, b) == {p \in DOMAIN succ : b \in Range(succ[p])}

(* Blocks from which `from` leads on, by edges that avoid `without`.       *)
RECURSIVE Onward(_, _, _)
Onward(succ, from, without) ==
  LET more == (from \cup UNION {Range(succ[b]) : b \in from}) \ without
  IN  IF more = from THEN from ELSE Onward(succ, more, without)

(* Depth-first walk with a cursor per block on the stack: the blocks in    *)
(* the order in which they are left.                                       *)
RECURSIVE Postorder(_, _, _, _)
Postorder(succ, stack, visited, order) ==
  IF stack = <<>> THEN order
  ELSE LET node == Last(stack)[1]
           next == Last(stack)[2]
           seen == visited \cup {node}
       IN  IF next > Len(succ[node])
           THEN Postorder(succ, Front(stack), seen, Append(order, node))
           ELSE LET s     == succ[node][next]
                    moved == Append(Front(stack), <<node, next + 1>>)
                IN  Postorder(succ, IF s \in seen THEN moved ELSE Append(moved, <<s, 1>>), seen, order)

RECURSIVE Intersect(_, _, _, _)

(* Both fingers move at once. *)
IntersectBoth(a, b, idom, postorder) ==
  IF a = b THEN a ELSE Intersect(idom[a], idom[b], idom, postorder)

Intersect(a, b, idom, postorder) ==
  CASE a = b                       -> a
    [] postorder[a] < postorder[b] -> Intersect(idom[a], b, idom, postorder)
    [] OTHER                       -> Intersect(a, idom[b], idom, postorder)

(* New immediate dominator of a block from its predecessors that have one. *)
NewIdom(succ, b, idom, postorder) ==
  LET known == SetToSortSeq({p \in Preds(succ, b) : idom[p] # NoBlock}, <)
  IN  IF known = <<>> THEN idom[b]
      ELSE FoldLeft(LAMBDA cur, p : Intersect(p, cur, idom, postorder), Head(known), Tail(known))

RECURSIVE IdomPasses(_, _, _, _, _)
IdomPasses(succ, entry, rpo, postorder, idom) ==
  LET pass == FoldLeft(LAMBDA i, b : IF b = entry THEN i
                                     ELSE [i EXCEPT ![b] = NewIdom(succ, b, i, postorder)],
                       idom, rpo)
  IN  IF pass = idom THEN idom ELSE IdomPasses(succ, entry, rpo, postorder, pass)

BuildIdom(succ, entry) ==
  LET order     == Postorder(succ, << <<entry, 1>> >>, {}, <<>>)
      postorder == [b \in Range(order) |-> CHOOSE i \in 1..Len(order) : order[i] = b]
  IN  IdomPasses(succ, entry, Reverse(order), postorder,
                 [b \in DOMAIN succ |-> IF b = entry THEN entry ELSE NoBlock])

(* Post-dominators: the dominators of the reversed graph, with a virtual   *)
(* exit behind every block without successors.                             *)
VirtualExit(succ) == Len(succ) + 1

Reversed(succ) ==
  [b \in 1..VirtualExit(succ) |->
     SetToSortSeq(IF b = VirtualExit(succ) THEN {p \in DOMAIN succ : succ[p] = <<>>} ELSE Preds(succ, b), <)]

BuildIpdom(succ) == BuildIdom(Reversed(succ), VirtualExit(succ))

(* Blocks met climbing the tree from p, stop excluded. *)
RECURSIVE Climbed(_, _, _)
Climbed(idom, p, stop) ==
  IF p = stop \/ p = NoBlock THEN {} ELSE {p} \cup Climbed(idom, idom[p], stop)

DominanceFrontier(succ, idom) ==
  LET joins == {b \in DOMAIN succ : Cardinality(Preds(succ, b)) >= 2}
  IN  [r \in DOMAIN succ |->
         {b \in joins : \E p \in Preds(succ, b) : r \in Climbed(idom, p, idom[b])}]

RECURSIVE IteratedDF(_, _)
IteratedDF(df, seed) ==
  LET result == UNION {df[b] : b \in seed}
  IN  IF result \subseteq seed THEN result ELSE IteratedDF(df, seed \cup result)

(* place_phis: the blocks that begin with a phi of the location. *)
PlacePhis(df, defs) == IF Cardinality(defs) < 2 THEN {} ELSE IteratedDF(df, defs)

----------------------------------------------------------------------------
(* Renaming.  A version is LiveIn, a phi or a write of a block.            *)

PhiOf(b)   == <<"phi", b>>
WriteOf(b) == <<"write", b>>

NoVersion == <<"none", 0>>
Seeded    == <<"entry", 0>>

RECURSIVE RenameBlock(_, _, _, _, _)

(* The versions of a block stay on the stack for its siblings. *)
RenameBlockKept(b, phis, defs, idom, st) ==
  LET head  == st.stack \o (IF b \in phis THEN <<PhiOf(b)>> ELSE <<>>)
      tail  == head \o (IF b \in defs THEN <<WriteOf(b)>> ELSE <<>>)
      kids  == SetToSortSeq({c \in DOMAIN idom : idom[c] = b /\ c # b}, <)
  IN  FoldLeft(LAMBDA s, c : RenameBlock(c, phis, defs, idom, s),
               [stack |-> tail,
                in    |-> [st.in EXCEPT ![b] = Last(head)],
                out   |-> [st.out EXCEPT ![b] = Last(tail)]],
               kids)

(* rename_block: phi and write push, the blocks this one dominates follow  *)
(* in turn, then both are popped.                                          *)
RenameBlock(b, phis, defs, idom, st) ==
  LET head  == st.stack \o (IF b \in phis THEN <<PhiOf(b)>> ELSE <<>>)
      tail  == head \o (IF b \in defs THEN <<WriteOf(b)>> ELSE <<>>)
      kids  == SetToSortSeq({c \in DOMAIN idom : idom[c] = b /\ c # b}, <)
      below == FoldLeft(LAMBDA s, c : RenameBlock(c, phis, defs, idom, s),
                        [stack |-> tail,
                         in    |-> [st.in EXCEPT ![b] = Last(head)],
                         out   |-> [st.out EXCEPT ![b] = Last(tail)]],
                        kids)
  IN  [below EXCEPT !.stack = SubSeq(@, 1, Len(st.stack))]

(* rename: from the first block, whichever block is the entry.  in: the    *)
(* version a block reads; out: the one it leaves, which is what the phis   *)
(* of its successors take from it.                                         *)
Rename(phis, defs, idom) ==
  LET none == [b \in DOMAIN idom |-> NoVersion]
  IN  RenameBlock(1, phis, defs, idom, [stack |-> <<Seeded>>, in |-> none, out |-> none])

----------------------------------------------------------------------------
(* Simplification.                                                         *)

RECURSIVE Find(_, _)
Find(parent, v) == IF parent[v] = v THEN v ELSE Find(parent, parent[v])

Args(succ, out, b) == {out[p] : p \in Preds(succ, b)}

(* Pass 2: a phi whose arguments are all the same version becomes it.      *)
Collapse(succ, out, parent, b) ==
  LET roots == {Find(parent, v) : v \in Args(succ, out, b)}
  IN  IF Cardinality(roots) = 1 /\ NoVersion \notin roots
      THEN [parent EXCEPT ![Find(parent, PhiOf(b))] = CHOOSE r \in roots : TRUE]
      ELSE parent

RECURSIVE CollapsePhis(_, _, _, _)
CollapsePhis(succ, out, phis, parent) ==
  LET pass == FoldLeft(LAMBDA par, b : Collapse(succ, out, par, b), parent, SetToSortSeq(phis, <))
  IN  IF pass = parent THEN parent ELSE CollapsePhis(succ, out, phis, pass)

(* Pass 4: what the reads need, directly or through a phi; then a phi that *)
(* is an argument of itself is dropped whoever needs it.                   *)
RECURSIVE NeededVersions(_, _, _, _)
NeededVersions(succ, out, parent, live) ==
  LET more == live \cup {Find(parent, v) : v \in UNION {Args(succ, out, p[2]) : p \in {x \in live : x[1] = "phi"}}}
  IN  IF more = live THEN live ELSE NeededVersions(succ, out, parent, more)

LiveVersions(succ, ren, phis, parent) ==
  LET reads   == {Find(parent, ren.in[b]) : b \in DOMAIN succ}
      needed  == NeededVersions(succ, ren.out, parent, reads)
      selfRef == {PhiOf(b) : b \in {c \in phis : Find(parent, PhiOf(c))
                                       \in {Find(parent, v) : v \in Args(succ, ren.out, c)}}}
  IN  needed \ selfRef

(* build_ssa, then simplify. *)
BuildSsa(f) ==
  LET idom     == BuildIdom(f.succ, f.entry)
      df       == DominanceFrontier(f.succ, idom)
      phis     == PlacePhis(df, f.defs)
      ren      == Rename(phis, f.defs, idom)
      versions == {NoVersion, Seeded} \cup {PhiOf(b) : b \in DOMAIN f.succ} \cup {WriteOf(b) : b \in DOMAIN f.succ}
      root     == CollapsePhis(f.succ, ren.out, phis, [v \in versions |-> v])
  IN  [idom |-> idom, ipdom |-> BuildIpdom(f.succ), df |-> df, phis |-> phis,
       in |-> ren.in, out |-> ren.out, root |-> [v \in versions |-> Find(root, v)],
       live |-> LiveVersions(f.succ, ren, phis, root)]

RECURSIVE ReachingAt(_, _)

(* A predecessor that gives nothing is passed over. *)
ReachingAtSkips(b, visiting) ==
  LET local    == IF ssa.in[b] = NoVersion THEN NoVersion
                  ELSE IF b \in flow.defs THEN WriteOf(b)
                  ELSE IF b \in ssa.phis THEN PhiOf(b) ELSE NoVersion
      incoming == {ReachingAt(p, visiting \cup {b}) : p \in Preds(flow.succ, b)} \ {NoVersion}
  IN  CASE b \in visiting             -> NoVersion
        [] local # NoVersion          -> local
        [] Cardinality(incoming) = 1  -> CHOOSE v \in incoming : TRUE
        [] OTHER                      -> NoVersion

(* reaching_register_at_return: the block's own definition, else the one   *)
(* version all its predecessors agree on; a cycle gives nothing.  The memo *)
(* is left out: what it adds is only that it may keep the nothing of a     *)
(* cycle for later.                                                        *)
ReachingAt(b, visiting) ==
  LET local    == IF ssa.in[b] = NoVersion THEN NoVersion
                  ELSE IF b \in flow.defs THEN WriteOf(b)
                  ELSE IF b \in ssa.phis THEN PhiOf(b) ELSE NoVersion
      incoming == {ReachingAt(p, visiting \cup {b}) : p \in Preds(flow.succ, b)}
  IN  CASE b \in visiting             -> NoVersion
        [] local # NoVersion          -> local
        [] Cardinality(incoming) = 1  -> CHOOSE v \in incoming : TRUE
        [] OTHER                      -> NoVersion

----------------------------------------------------------------------------
(* The function runs.                                                      *)

ValueOf(v) ==
  CASE v[1] = "entry" -> LiveIn
    [] v[1] = "write" -> v[2]
    [] v[1] = "phi"   -> phiVal[v[2]]
    [] v[1] = "none"  -> Lost

SsaInit ==
  /\ flow \in Flows
  /\ ssa = BuildSsa(flow)
  /\ at = NoBlock
  /\ last = LiveIn
  /\ phiVal = [b \in DOMAIN flow.succ |-> Lost]

Enter ==
  /\ at = NoBlock
  /\ at' = flow.entry
  /\ UNCHANGED <<flow, ssa, last, phiVal>>

(* Runs block `at` and takes the edge to b. *)
TakeEdge(b) ==
  /\ at # NoBlock
  /\ b \in Range(flow.succ[at])
  /\ at' = b
  /\ last' = IF at \in flow.defs THEN at ELSE last
  /\ phiVal' = IF b \in ssa.phis THEN [phiVal EXCEPT ![b] = ValueOf(ssa.out[at])] ELSE phiVal
  /\ UNCHANGED <<flow, ssa>>

SsaNext == Enter \/ \E b \in DOMAIN flow.succ : TakeEdge(b)

SsaSpec == SsaInit /\ [][SsaNext]_ssaVars

----------------------------------------------------------------------------
(* References, and what holds.                                             *)

AllVersions == {"none", "entry", "phi", "write"} \X (0..Len(flow.succ))

SsaTypeOK ==
  /\ flow \in Flows
  /\ ssa.in \in [DOMAIN flow.succ -> AllVersions]
  /\ ssa.out \in [DOMAIN flow.succ -> AllVersions]
  /\ ssa.phis \subseteq DOMAIN flow.succ
  /\ at \in DOMAIN flow.succ \cup {NoBlock}
  /\ last \in 0..Len(flow.succ)
  /\ phiVal \in [DOMAIN flow.succ -> Lost..Len(flow.succ)]

ReachedFrom(succ, root) == Onward(succ, {root}, {})

(* d is on every path from the root to b. *)
OnEveryPath(succ, root, d, b) == d = root \/ b \notin Onward(succ, {root}, {d})

TreeIsDominance(succ, root, idom) ==
  \A b \in DOMAIN succ :
    IF b \in ReachedFrom(succ, root)
    THEN Climbed([idom EXCEPT ![root] = NoBlock], b, NoBlock)
           = {d \in DOMAIN succ : OnEveryPath(succ, root, d, b)}
    ELSE idom[b] = NoBlock

EntryHasNoPreds == Preds(flow.succ, flow.entry) = {}

(* If no edge leads back to the entry, the frontier of a reachable block   *)
(* is where its dominance ends: the blocks with a predecessor it dominates *)
(* that it does not strictly dominate itself (dominance_frontier).         *)
FrontierExact ==
  EntryHasNoPreds =>
    LET succ == flow.succ
        dom(d, b) == OnEveryPath(succ, flow.entry, d, b)
        reached == ReachedFrom(succ, flow.entry)
    IN  \A r \in reached :
          ssa.df[r] = {b \in reached : /\ ~(dom(r, b) /\ r # b)
                                       /\ \E p \in Preds(succ, b) \cap reached : dom(r, p)}

(* The chain of immediate (post-)dominators of a block is the set of all   *)
(* blocks that every path from the entry to it (from it to a return)       *)
(* passes, whatever the shape of the graph; blocks that the entry does not *)
(* reach (that reach no return) have none (build_idom, build_ipdom); and   *)
(* the frontiers that phis are placed by follow from them.                 *)
DominatorsExact ==
  at = NoBlock =>
    /\ TreeIsDominance(flow.succ, flow.entry, ssa.idom)
    /\ TreeIsDominance(Reversed(flow.succ), VirtualExit(flow.succ), ssa.ipdom)
    /\ FrontierExact

(* place_phis gives a location with one writing block no phi: where that   *)
(* block is on some but not all paths to a read, the form is wrong.        *)
PhiNotMissing(b) ==
  Cardinality(flow.defs) = 1 =>
    \A d \in flow.defs :
      \/ b \notin Onward(flow.succ, Range(flow.succ[d]), {})
      \/ b # d /\ OnEveryPath(flow.succ, flow.entry, d, b)

FirstIsEntry == flow.entry = 1 /\ EntryHasNoPreds

(* A block reads the version of the write that reached it along the path   *)
(* taken, loops included, if blocks[0] is the entry, no edge leads back to *)
(* it and the location is written in no block or in several, or in one     *)
(* that is on every path to the read or on none (rename, place_phis).  It  *)
(* still does after simplification, if the phi it reads was not dropped as *)
(* a cycle (simplify).                                                     *)
ReadsReachingWrite ==
  (at # NoBlock /\ FirstIsEntry /\ PhiNotMissing(at)) =>
    LET v == ssa.root[ssa.in[at]]
    IN  /\ ValueOf(ssa.in[at]) = last
        /\ (v[1] = "phi" => v \in ssa.live) => ValueOf(v) = last

(* The same for a location that one block writes: a read after a path      *)
(* around that block must find the value the function was entered with.    *)
SingleWriteReached ==
  (at # NoBlock /\ FirstIsEntry /\ Cardinality(flow.defs) = 1) => ValueOf(ssa.in[at]) = last

(* What a return is shown to return is what the machine returns, or        *)
(* nothing: merges, cycles and blocks out of reach never make the          *)
(* resolver guess (reaching_register_at_return).                           *)
ReturnsReachingWrite ==
  (at # NoBlock /\ FirstIsEntry /\ flow.succ[at] = <<>>) =>
    LET v == ReachingAt(at, {})
        w == IF at \in flow.defs THEN at ELSE last
    IN  v # NoVersion => ValueOf(v) = w
=============================================================================
