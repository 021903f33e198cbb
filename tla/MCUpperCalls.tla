----------------------------- MODULE MCUpperCalls -----------------------------
(***************************************************************************)
(* Small instances of the upper calls.  "Planning" is two supervised        *)
(* isolated runs of one participant each, a CLI and an original app, and a  *)
(* refinement either may be created from.  "Rounds" is an isolated run of   *)
(* two CLI participants and one of a single original-app participant.       *)
(* "Revising" is an orchestrated general run of two CLI participants, and a *)
(* split it may be created from.                                            *)
(***************************************************************************)
EXTENDS UpperCalls

PlanningRun == {"r1", "r2"}
PlanningPart == {"a", "b"}
PlanningRunOf == [p \in PlanningPart |-> IF p = "a" THEN "r1" ELSE "r2"]
PlanningMode == [r \in PlanningRun |-> "isolated"]
PlanningPolicy == [r \in PlanningRun |-> "include_unverified"]
PlanningMin == [r \in PlanningRun |-> 1]
PlanningTransport == [p \in PlanningPart |-> IF p = "a" THEN "cli" ELSE "manual"]
PlanningUnverified == [p \in PlanningPart |-> FALSE]
PlanningRow == [p \in PlanningPart |-> 1]

RoundsPart == {"a", "b", "m"}
RoundsRunOf == [p \in RoundsPart |-> IF p = "m" THEN "r2" ELSE "r1"]
RoundsMode == [r \in PlanningRun |-> "isolated"]
RoundsPolicy == [r \in PlanningRun |-> "include_unverified"]
RoundsMin == [r \in PlanningRun |-> 1]
RoundsTransport == [p \in RoundsPart |-> IF p = "m" THEN "manual" ELSE "cli"]
RoundsUnverified == [p \in RoundsPart |-> FALSE]
RoundsRow == [p \in RoundsPart |-> IF p = "b" THEN 2 ELSE 1]

RevisingRun == {"r1"}
RevisingPart == {"a", "b"}
RevisingRunOf == [p \in RevisingPart |-> "r1"]
RevisingMode == [r \in RevisingRun |-> "general"]
RevisingPolicy == [r \in RevisingRun |-> "none"]
RevisingMin == [r \in RevisingRun |-> 0]
RevisingTransport == [p \in RevisingPart |-> "cli"]
RevisingUnverified == [p \in RevisingPart |-> FALSE]
RevisingRow == [p \in RevisingPart |-> IF p = "b" THEN 2 ELSE 1]

Nothing == {}
R1 == {"r1"}
Both == {"r1", "r2"}
Q1 == {"q1"}
S1 == {"s1"}

=============================================================================
