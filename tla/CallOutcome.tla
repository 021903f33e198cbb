----------------------------- MODULE CallOutcome -----------------------------
(***************************************************************************)
(* What a caller of the runner is promised of one call: it may start a      *)
(* process tree, which may grow and ends at most once, and it is told       *)
(* "over" only of a call whose tree never started or has ended.             *)
(***************************************************************************)

VARIABLES
  tree,    \* "none", "alive" or "gone"
  answer   \* "pending", "over" or "unsure"

ovars == <<tree, answer>>

OInit == tree = "none" /\ answer = "pending"

OStart == answer = "pending" /\ tree = "none" /\ tree' = "alive" /\ UNCHANGED answer

OEnd == tree = "alive" /\ tree' = "gone" /\ UNCHANGED answer

OReturn ==
  /\ answer = "pending"
  /\ \/ tree # "alive" /\ answer' = "over"
     \/ tree # "none" /\ answer' = "unsure"
  /\ UNCHANGED tree

ONext == OStart \/ OEnd \/ OReturn

OSpec == OInit /\ [][ONext]_ovars

=============================================================================
