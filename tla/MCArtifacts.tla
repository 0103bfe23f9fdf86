---------------------------- MODULE MCArtifacts ----------------------------
EXTENDS Artifacts

(* A result of about two default budgets. *)
MCResultBodies == {[len |-> 4200, inside |-> {}]}
=============================================================================
