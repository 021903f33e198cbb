---------------------------- MODULE MCCoordinator ----------------------------
(***************************************************************************)
(* Small instances of the coordinator.  "One" is an isolated run of two CLI *)
(* participants, the second of unverified context, and an original-app      *)
(* answer; "Two" is an isolated run of two CLI participants and a general   *)
(* run of one, so that the runs compete for slots, budget and queue places; *)
(* "Pair" is "Two" without its second participant.                          *)
(***************************************************************************)
EXTENDS CoordinatorBarrier

OneRun == {"r1"}
OnePart == {"a", "b", "m"}
OneRunOf == [p \in OnePart |-> "r1"]
OneMode == [r \in OneRun |-> "isolated"]
OnePolicy == [r \in OneRun |-> "include_unverified"]
OneMin == [r \in OneRun |-> 2]
OneTransport == [p \in OnePart |-> IF p = "m" THEN "manual" ELSE "cli"]
OneUnverified == [p \in OnePart |-> p = "b"]
OneRow == [p \in OnePart |-> IF p = "a" THEN 1 ELSE IF p = "b" THEN 2 ELSE 3]
OneAdapter == [p \in OnePart |-> IF p = "a" THEN "codex" ELSE "claude-code"]

TwoRun == {"r1", "r2"}
TwoPart == {"a", "b", "c"}
TwoRunOf == [p \in TwoPart |-> IF p = "c" THEN "r2" ELSE "r1"]
TwoMode == [r \in TwoRun |-> IF r = "r1" THEN "isolated" ELSE "general"]
TwoPolicy == [r \in TwoRun |-> IF r = "r1" THEN "independent_only" ELSE "none"]
TwoMin == [r \in TwoRun |-> IF r = "r1" THEN 1 ELSE 0]
TwoTransport == [p \in TwoPart |-> "cli"]
TwoUnverified == [p \in TwoPart |-> p = "b"]
TwoRow == [p \in TwoPart |-> IF p = "b" THEN 2 ELSE 1]
TwoAdapter == [p \in TwoPart |-> IF p = "a" THEN "codex" ELSE "claude-code"]

PairPart == {"a", "c"}
PairRunOf == [p \in PairPart |-> TwoRunOf[p]]
PairTransport == [p \in PairPart |-> "cli"]
PairUnverified == [p \in PairPart |-> FALSE]
PairRow == [p \in PairPart |-> 1]
PairAdapter == [p \in PairPart |-> TwoAdapter[p]]

NoCaps == [a \in {} |-> 1]
OnceEach == [a \in {"codex", "claude-code"} |-> 1]

NoBoard == {}
TwoBoard == {"r2"}

=============================================================================
