------------------------------ MODULE Membership ------------------------------
(***************************************************************************)
(* Who takes part in a run as participants fail, come back and are replaced   *)
(* (core/membership.py): every decision gives a new roster and says whether    *)
(* the run may go on.                                                       *)
(*                                                                         *)
(* A roster is what start was given, and the decisions are the steps.  The     *)
(* reason a participant was dropped for and the notes are left out; an event   *)
(* that is refused with an error changes nothing.                            *)
(***************************************************************************)
EXTENDS Naturals, FiniteSets

CONSTANTS
  Requested,       \* the participants asked for
  Substitute,      \* alternates the user has approved beforehand
  MinIndependent   \* independent participants a run needs

ASSUME MembershipAssumption ==
  /\ IsFiniteSet(Requested) /\ IsFiniteSet(Substitute)
  /\ MinIndependent \in 1..Cardinality(Requested)
  /\ Substitute \intersect Requested = {}

VARIABLES
  phase,       \* how far the run is
  active,      \* participants that have made an independent draft or are at it
  alternates,  \* who may still be taken in
  dropped,     \* who was given up
  unknown,     \* whose call was not confirmed to have ended
  action       \* the last decision, "none" before the first

vars == <<phase, active, alternates, dropped, unknown, action>>

Phases == <<"preflight", "drafting", "revealed", "synthesis">>

\* Before the drafts are shown to each other.
Blind == {"preflight", "drafting"}

Go == {"proceed", "proceed_reduced", "keep_unknown"}

TypeOK ==
  /\ phase \in {"preflight", "drafting", "revealed", "synthesis"}
  /\ active \subseteq Requested \union Substitute
  /\ alternates \subseteq Substitute
  /\ dropped \subseteq Requested \union Substitute
  /\ unknown \subseteq Requested \union Substitute
  /\ action \in Go \union {"none", "blocked", "reject_substitute", "defer_to_next_run", "report_without_synthesis"}

\* start
Init ==
  /\ phase = "preflight"
  /\ active = Requested
  /\ alternates = Substitute
  /\ dropped = {}
  /\ unknown = {}
  /\ action = "none"

-----------------------------------------------------------------------------
Counted(members, unsure) == Cardinality(members \ unsure)

Quorum(members, unsure) == Counted(members, unsure) >= MinIndependent

\* _settle: until the reveal every change is looked at again.
Settle(decision) ==
  action' = IF phase \in Blind /\ ~Quorum(active', unknown') THEN "blocked" ELSE decision

\* advance: one step on, with a quorum before the drafts are made or shown.
Advance ==
  /\ \E i \in 1..3 : phase = Phases[i] /\ phase' = Phases[i + 1]
  /\ phase' \in {"drafting", "revealed"} => Quorum(active, unknown)
  /\ UNCHANGED <<active, alternates, dropped, unknown, action>>

\* unavailable or quota_exhausted
Drop(p) ==
  /\ p \in active
  /\ active' = active \ {p}
  /\ dropped' = dropped \union {p}
  /\ UNCHANGED <<phase, alternates, unknown>>
  /\ Settle("proceed_reduced")

CancelUnconfirmed(p) ==
  /\ p \in active
  /\ unknown' = unknown \union {p}
  /\ UNCHANGED <<phase, active, alternates, dropped>>
  /\ Settle("keep_unknown")

\* A provider that is back takes part in the next run.
Recovered ==
  /\ action' = "defer_to_next_run"
  /\ UNCHANGED <<phase, active, alternates, dropped, unknown>>

\* Fault: whoever was once approved may come in again.
JoinApproved(p) ==
  /\ phase \in Blind
  /\ p \in Substitute \ active
  /\ active' = active \union {p}
  /\ alternates' = alternates \ {p}
  /\ UNCHANGED <<phase, dropped, unknown>>
  /\ Settle("proceed")

\* substitute_requested
Join(p) ==
  /\ phase \in Blind
  /\ p \in alternates \ active
  /\ active' = active \union {p}
  /\ alternates' = alternates \ {p}
  /\ UNCHANGED <<phase, dropped, unknown>>
  /\ Settle("proceed")

RejectSubstitute(p) ==
  /\ phase \notin Blind \/ p \notin alternates
  /\ action' = "reject_substitute"
  /\ UNCHANGED <<phase, active, alternates, dropped, unknown>>

SynthesizerUnavailable ==
  /\ action' = "report_without_synthesis"
  /\ UNCHANGED <<phase, active, alternates, dropped, unknown>>

Next ==
  \/ Advance
  \/ \E p \in Requested \union Substitute : Drop(p) \/ CancelUnconfirmed(p) \/ Join(p) \/ RejectSubstitute(p)
  \/ Recovered \/ SynthesizerUnavailable

Spec == Init /\ [][Next]_vars

-----------------------------------------------------------------------------
(* Properties.                                                               *)

(***************************************************************************)
(* Nobody who was given up takes part again, by any way there is, and a call  *)
(* that may still run is remembered for good; nobody comes in once drafts     *)
(* were shown; and drafts are shown to each other, and a change before that    *)
(* is said to let the run go on, only with enough participants whose calls     *)
(* are not in doubt (the rules at the head of membership.py).                 *)
(***************************************************************************)
RosterIsHonest ==
  [][/\ active' \intersect dropped' = {}
     /\ dropped \subseteq dropped' /\ unknown \subseteq unknown'
     /\ phase \notin Blind => active' \subseteq active /\ phase' \notin Blind
     /\ phase \in Blind /\ (phase' \notin Blind \/ (action' \in Go /\ <<active, unknown>>' # <<active, unknown>>)) =>
          Cardinality(active' \ unknown') >= MinIndependent]_vars

=============================================================================
