----------------------------- MODULE DumpMemory -----------------------------
(***************************************************************************)
(* The memory of a dumped process (loader/dump): the map of its regions    *)
(* (memory_map.rs), the image of a module put together from it             *)
(* (module_pe.rs, up to the patching of headers) and the walk of a         *)
(* thread's stack (stackwalk.rs).  A byte is known by its place in the     *)
(* dump file; what a stack holds is read from the file and may be          *)
(* anything.  Both calls only read the map: a behaviour makes one of them. *)
(***************************************************************************)
EXTENDS Integers, Sequences, FiniteSets

CONSTANTS MemoryLists,      \* sets of disjoint regions [va, size, data]: the streams of a dump file
          TOP,              \* u64::MAX
          MAX_FRAMES_HARD,
          MAX_SCAN_SLOTS,
          PtrSize           \* bytes of a pointer of the process

RegionRecords == [va : 0..TOP, size : 0..TOP, data : Nat]

(* by_addr lists no two regions that overlap. *)
Disjoint(list) ==
  \A q, r \in list : q = r \/ q.va + q.size <= r.va \/ r.va + r.size <= q.va

ASSUME DumpAssumption ==
  /\ {TOP, MAX_SCAN_SLOTS} \subseteq Nat
  /\ MAX_FRAMES_HARD \in Nat \ {0}
  /\ PtrSize \in Nat \ {0}
  /\ \A list \in MemoryLists : /\ IsFiniteSet(list) /\ list \subseteq RegionRecords
                               /\ Disjoint(list)

VARIABLES
  memoryList,   \* the regions the dump file lists
  regions,      \* ProcessMemoryMap.regions: sorted, merged
  extracted,    \* image of a module: [base, size, image, present, state]
  walk          \* stack walk: [phase, addr, max, slots, frames, died]

dumpVars == <<memoryList, regions, extracted, walk>>

Saturated(n) == IF n > TOP THEN TOP ELSE n
End(r)       == Saturated(r.va + r.size)
Least(m, n)    == IF m <= n THEN m ELSE n
Greatest(m, n) == IF m <= n THEN n ELSE m

----------------------------------------------------------------------------
(* from_unified: regions by address, neighbours merged when their bytes    *)
(* follow one another in the file too.                                     *)

ByAddress(list) ==
  CHOOSE s \in [1..Cardinality(list) -> list] :
    \A i, j \in DOMAIN s : i < j => s[i].va < s[j].va

(* Only the addresses are compared. *)
FollowsByAddress(cur, next) == next.va = End(cur)

Follows(cur, next) == next.va = End(cur) /\ next.data = cur.data + cur.size

(* cur takes in the next region, or is pushed and the next one is cur.     *)
Grown(cur, next) == [cur EXCEPT !.size = Saturated(@ + next.size)]

Joined(out, next) ==
  IF out # <<>> /\ Follows(out[Len(out)], next)
  THEN [out EXCEPT ![Len(out)] = Grown(@, next)]
  ELSE Append(out, next)

MergedUpTo(s) ==
  LET out[i \in 0..Len(s)] == IF i = 0 THEN <<>> ELSE Joined(out[i - 1], s[i]) IN out

MergeAdjacent(s) == MergedUpTo(s)[Len(s)]

FromUnified(list) == MergeAdjacent(ByAddress({r \in list : r.size > 0}))

(* partition_point: number of leading regions that end at or before va. *)
Before(s, va) ==
  LET past == {i \in DOMAIN s : \A j \in 1..i : End(s[j]) <= va} IN Cardinality(past)

(* read_at: places in the file of the bytes read; none when unmapped.      *)
ReadAt(va, len) ==
  LET idx == Before(regions, va) + 1
  IN  IF idx > Len(regions) \/ len = 0 THEN <<>>
      ELSE LET r == regions[idx]
           IN  IF va < r.va \/ va >= End(r) THEN <<>>
               ELSE [k \in 1..Least(r.size - (va - r.va), len) |-> r.data + (va - r.va) + k - 1]

(* The sum of the numbers in a list. *)
SumUpTo(f) == LET sum[i \in 0..Len(f)] == IF i = 0 THEN 0 ELSE sum[i - 1] + f[i] IN sum
Total(f)   == SumUpTo(f)[Len(f)]

(* coverage_ratio, before the division. *)
CoveredPart(i, base, end) ==
  IF i <= Before(regions, base) \/ regions[i].va >= end THEN 0
  ELSE Greatest(Least(End(regions[i]), end) - Greatest(regions[i].va, base), 0)

Covered(base, size) ==
  Total([i \in 1..Len(regions) |-> CoveredPart(i, base, Saturated(base + size))])

NotExtracted == [base |-> 0, size |-> 0, image |-> <<>>, present |-> 0, state |-> "none"]
NotWalking   == [phase |-> "idle", addr |-> 0, max |-> 0, slots |-> 0, frames |-> <<>>, died |-> "none"]

DumpInit ==
  /\ memoryList \in MemoryLists
  /\ regions = FromUnified(memoryList)
  /\ extracted = NotExtracted
  /\ walk = NotWalking

----------------------------------------------------------------------------
(* extract_module_pe, up to the patching: a zeroed buffer, into which each *)
(* region is copied where it meets the module.                             *)

Hole == -1

CopyOf(r, base, size) ==
  LET lo == Greatest(r.va, base)
      hi == Least(End(r), Saturated(base + size))
  IN  IF End(r) <= base \/ r.va >= Saturated(base + size)
      THEN [at |-> 0, bytes |-> <<>>]
      ELSE [at |-> lo - base, bytes |-> ReadAt(lo, hi - lo)]

Copies(base, size) == [i \in 1..Len(regions) |-> CopyOf(regions[i], base, size)]

(* The copies that write offset o; the last one stays. *)
WritesAt(copy, o)   == o \in (copy.at + 1)..(copy.at + Len(copy.bytes))
Writers(copies, o)  == {i \in 1..Len(copies) : WritesAt(copies[i], o)}

ImageOf(copies, size) ==
  [o \in 1..size |->
     IF Writers(copies, o) = {} THEN Hole
     ELSE LET i == CHOOSE i \in Writers(copies, o) : \A j \in Writers(copies, o) : j <= i
          IN  copies[i].bytes[o - copies[i].at]]

PresentOf(copies) == Total([i \in 1..Len(copies) |-> Len(copies[i].bytes)])

Extract(base, size) ==
  LET copies == Copies(base, size)
  IN  /\ extracted.state = "none"
      /\ walk.phase = "idle"
      /\ size > 0
      /\ ReadAt(base, 2) # <<>>                           \* has_pe_headers
      /\ Len(ReadAt(base, 2)) = 2
      /\ \/ extracted' = [NotExtracted EXCEPT !.state = "failed"]   \* also: headers that do not parse
         \/ /\ PresentOf(copies) > 0
            /\ extracted' = [base |-> base, size |-> size, image |-> ImageOf(copies, size),
                             present |-> PresentOf(copies), state |-> "written"]
      /\ UNCHANGED <<memoryList, regions, walk>>

----------------------------------------------------------------------------
(* walk_thread_stack.  The first frame is the thread's own; max_more is    *)
(* what the caller asked for, less that one.                               *)

Readable(va) == ReadAt(va, PtrSize) # <<>>
WholePtr(va) == Len(ReadAt(va, PtrSize)) = PtrSize

StartWalk(fp, sp, maxFrames) ==
  /\ walk.phase = "idle"
  /\ extracted.state = "none"
  /\ walk' = [NotWalking EXCEPT
                !.phase = IF fp >= sp /\ Readable(fp) THEN "fp_chain" ELSE "sp_scan",
                !.addr = IF fp >= sp /\ Readable(fp) THEN fp ELSE sp,
                !.max = Greatest(1, Least(maxFrames, MAX_FRAMES_HARD)) - 1]
  /\ UNCHANGED <<memoryList, regions, extracted>>

Died(reason) == [walk EXCEPT !.phase = "done", !.died = reason]

FpDepthCap ==
  /\ walk.phase = "fp_chain"
  /\ Len(walk.frames) = walk.max
  /\ walk' = Died("depth_cap")
  /\ UNCHANGED <<memoryList, regions, extracted>>

(* The chain may stay where it is. *)
GoesUpOrStays(savedFp) == savedFp >= walk.addr

(* One frame: saved_fp at addr, the return address behind it.  Frames are  *)
(* the stack pointers they are shown with.  `seen` never holds addr: the   *)
(* chain only climbs.                                                      *)
GoesUp(savedFp) == savedFp > walk.addr

FpStep(savedFp, ret) ==
  /\ walk.phase = "fp_chain"
  /\ Len(walk.frames) < walk.max
  /\ LET pushed == Append(walk.frames, Saturated(walk.addr + 2 * PtrSize))
     IN  walk' = CASE ~WholePtr(walk.addr)                       -> Died("missing_memory")
                   [] ~WholePtr(Saturated(walk.addr + PtrSize))  -> Died("missing_memory")
                   [] ret = 0                                    -> Died("done")
                   [] ~GoesUp(savedFp) \/ ~Readable(savedFp)
                        -> [Died("broken_fp") EXCEPT !.frames = pushed]
                   [] OTHER
                        -> [walk EXCEPT !.frames = pushed, !.addr = savedFp]
  /\ UNCHANGED <<memoryList, regions, extracted>>

(* One slot of the scan: a hole, a value that is no return address (or the *)
(* one just shown), or a frame.                                            *)
ScanStep(isReturn) ==
  /\ walk.phase = "sp_scan"
  /\ Len(walk.frames) < walk.max
  /\ walk.slots < MAX_SCAN_SLOTS
  /\ LET next == Saturated(walk.addr + PtrSize)
     IN  walk' = [walk EXCEPT !.slots = @ + 1, !.addr = next,
                    !.frames = IF isReturn /\ WholePtr(walk.addr) THEN Append(@, next) ELSE @]
  /\ UNCHANGED <<memoryList, regions, extracted>>

ScanEnds ==
  /\ walk.phase = "sp_scan"
  /\ Len(walk.frames) >= walk.max \/ walk.slots >= MAX_SCAN_SLOTS
  /\ walk' = Died(IF Len(walk.frames) >= walk.max THEN "depth_cap" ELSE "done")
  /\ UNCHANGED <<memoryList, regions, extracted>>

DumpNext ==
  \/ \E base \in 0..TOP, size \in 1..TOP : Extract(base, size)
  \/ \E fp, sp \in 0..TOP, maxFrames \in 0..(MAX_FRAMES_HARD + 1) : StartWalk(fp, sp, maxFrames)
  \/ FpDepthCap
  \/ \E savedFp \in 0..TOP, ret \in 0..1 : FpStep(savedFp, ret)
  \/ \E isReturn \in BOOLEAN : ScanStep(isReturn)
  \/ ScanEnds

DumpSpec == DumpInit /\ [][DumpNext]_dumpVars

----------------------------------------------------------------------------
(* Where the dump file keeps the byte at va. *)
ListedAt(va)  == {r \in memoryList : r.va <= va /\ va < r.va + r.size}
TruePlace(va) == LET r == CHOOSE r \in ListedAt(va) : TRUE IN r.data + (va - r.va)

DumpTypeOK ==
  /\ memoryList \in MemoryLists
  /\ \A i \in DOMAIN regions : regions[i].va \in 0..TOP /\ regions[i].size > 0
  /\ extracted.state \in {"none", "failed", "written"}
  /\ walk.phase \in {"idle", "fp_chain", "sp_scan", "done"}
  /\ walk.died \in {"none", "depth_cap", "broken_fp", "missing_memory", "done"}
  /\ walk.addr \in 0..TOP

(* A written module image holds, at every offset, the byte the dump file   *)
(* lists for that address and zero where it lists none; `present` counts   *)
(* exactly the former, and so does the ratio a module was announced with   *)
(* (extract_module_pe, merge_adjacent, read_at, coverage_ratio).           *)
ImageFaithful ==
  extracted.state = "written" =>
    /\ \A o \in 1..extracted.size :
         LET va == extracted.base + o - 1
         IN  extracted.image[o] = IF va < TOP /\ ListedAt(va) # {} THEN TruePlace(va) ELSE Hole
    /\ extracted.present = Cardinality({o \in 1..extracted.size : extracted.image[o] # Hole})
    /\ extracted.present = Covered(extracted.base, extracted.size)

(* The frames of a walk lie one above the other, so no cycle in a damaged  *)
(* stack repeats one, and there are never more than were asked for         *)
(* (walk_fp_chain, walk_sp_scan).                                          *)
FramesClimb ==
  /\ Len(walk.frames) <= Least(walk.max, MAX_FRAMES_HARD - 1)
  /\ \A i \in 1..(Len(walk.frames) - 1) :
       walk.frames[i] < walk.frames[i + 1] \/ walk.frames[i] = TOP
=============================================================================
