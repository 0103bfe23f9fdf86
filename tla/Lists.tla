------------------------------- MODULE Lists -------------------------------
(***************************************************************************)
(* What Rust's lists do where the standard modules have nothing that the   *)
(* proof system can expand.                                                *)
(***************************************************************************)
LOCAL INSTANCE Integers
LOCAL INSTANCE Sequences

Items(s) == {s[i] : i \in DOMAIN s}

(* Vec::retain and VecDeque::retain: the elements that are in keep, in     *)
(* their order.                                                            *)
RetainedUpTo(s, keep) ==
  LET F[i \in 0..Len(s)] == IF i = 0 THEN <<>>
                            ELSE IF s[i] \in keep THEN Append(F[i - 1], s[i])
                            ELSE F[i - 1]
  IN  F
Retain(s, keep) == RetainedUpTo(s, keep)[Len(s)]

=============================================================================
