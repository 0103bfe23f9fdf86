----------------------------- MODULE MCOpenJobs -----------------------------
(***************************************************************************)
(* Two ordinary files and one of the bounded pipeline.  Two jobs come to   *)
(* share a file when two starts race or one follows a failure.             *)
(***************************************************************************)
EXTENDS OpenJobs, TLC

CONSTANTS small, tiny, large,   \* files
          plain, other, big     \* paths

MCPaths   == {plain, other, big}
MCFiles   == {small, tiny, large}
MCFileOf  == plain :> small @@ other :> tiny @@ big :> large
MCBounded == {large}

=============================================================================
