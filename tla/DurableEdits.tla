---------------------------- MODULE DurableEdits ----------------------------
(***************************************************************************)
(* What the annotation store promises: an edit becomes durable, then its   *)
(* client is told so, and nothing durable is ever lost.  Crashes, saves,   *)
(* checkpoints and reopening are invisible at this level.                  *)
(***************************************************************************)
EXTENDS Naturals

CONSTANT MaxRequests
VARIABLES durable,   \* the edits that the files hold
          acked      \* the edits that a client was told are saved

Init == durable = {} /\ acked = {}

(* A checkpoint may also write edits whose journal append had failed. *)
Persist == /\ \E new \in SUBSET (1..MaxRequests) : durable' = durable \cup new
           /\ UNCHANGED acked

Acknowledge == /\ \E i \in durable : acked' = acked \cup {i}
               /\ UNCHANGED durable

Next == Persist \/ Acknowledge

Spec == Init /\ [][Next]_<<durable, acked>>
=============================================================================
