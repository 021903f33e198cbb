------------------------------- MODULE MCRunner -------------------------------
(***************************************************************************)
(* Instances of Runner: a CLI and one process more.                         *)
(***************************************************************************)
EXTENDS Runner

CONSTANTS cli, k1

TwoProc == {cli, k1}

AllUnits == Tracked

Job == {"job_object"}

=============================================================================
