------------------------------- MODULE RunGate -------------------------------
(***************************************************************************)
(* The gate of a run (app/state.py): every permission a run grants is       *)
(* derived from one snapshot of its participants' states and of three run   *)
(* columns, phase, cancel_requested and reduction_approved.  Nothing here   *)
(* is stored; the operators take the snapshot as arguments so that a        *)
(* transaction can ask the gate about the rows it has just written.         *)
(*                                                                         *)
(* The wording of the notes and the reveal_held event, which only records   *)
(* why a settled run is not open, are left out.                             *)
(*                                                                         *)
(* Here and in the other modules a definition introduced by "Fault:" is what *)
(* the definition after it would be with a plausible bug; nothing uses it    *)
(* but the mutation runs, which show that a property notices the bug.        *)
(***************************************************************************)
EXTENDS Naturals, FiniteSets

CONSTANTS
  Run,             \* run identifiers
  Part,            \* participants (a row of the participants table each)
  RunOf,           \* the run a participant belongs to
  Mode,            \* runs.mode: "isolated" or "general"
  Policy,          \* runs.quorum_policy
  MinIndependent,  \* runs.min_independent
  Transport,       \* how a participant answers: "cli" or "manual"
  Unverified       \* ParticipantSpec.context_unverified

Members(r) == {p \in Part : RunOf[p] = r}

(***************************************************************************)
(* What prepare_run and freeze_roles let into the ledger: a run has at      *)
(* least one participant, an isolated run asks for between one and all of   *)
(* them, a general run has CLI participants only and no quorum.             *)
(***************************************************************************)
ASSUME RosterAssumption ==
  /\ IsFiniteSet(Part)
  /\ IsFiniteSet(Run)
  /\ RunOf \in [Part -> Run]
  /\ Mode \in [Run -> {"isolated", "general"}]
  /\ Policy \in [Run -> {"independent_only", "include_unverified", "none"}]
  /\ MinIndependent \in [Run -> Nat]
  /\ Transport \in [Part -> {"cli", "manual"}]
  /\ Unverified \in [Part -> BOOLEAN]
  /\ \A r \in Run : \E p \in Part : RunOf[p] = r
  /\ \A r \in Run : Mode[r] = "isolated" => Policy[r] # "none" /\ MinIndependent[r] > 0
  /\ \A p \in Part : Mode[RunOf[p]] = "general" => Transport[p] = "cli"

PartState == {"absent", "queued", "running", "awaiting_user", "accepted", "rejected", "unknown"}

Done == {"accepted", "rejected"}

Confirmed(p) == Transport[p] = "cli" /\ ~Unverified[p]

Settled(r, state) == \A p \in Members(r) : state[p] \in Done

Dropped(r, state) == {p \in Members(r) : state[p] = "rejected"}

\* The participants that still count, or may come to count, towards the quorum.
Counted(r, state) ==
  {p \in Members(r) : /\ state[p] \notin {"rejected", "unknown"}
                      /\ Policy[r] = "independent_only" => Confirmed(p)}

\* Fault: one more than the quorum is asked for.
QuorumExceeded(r, state) == Cardinality(Counted(r, state)) > MinIndependent[r]

QuorumMet(r, state) == Cardinality(Counted(r, state)) >= MinIndependent[r]

\* Fault: an open run still takes changes.
AcceptingUntilCancelled(r, phase, cancelled) == phase[r] # "absent" /\ r \notin cancelled

\* Fault: a cancelled run still takes answers.
AcceptingWhileDrafting(r, phase, cancelled) == phase[r] = "drafting"

Accepting(r, phase, cancelled) == phase[r] = "drafting" /\ r \notin cancelled

\* Fault: the roster may still change when the user consents to it.
CanApproveEarly(r, state, phase, cancelled, approved) ==
  /\ Mode[r] = "isolated"
  /\ Accepting(r, phase, cancelled)
  /\ Dropped(r, state) # {}
  /\ r \notin approved

CanApproveReduction(r, state, phase, cancelled, approved) ==
  /\ Mode[r] = "isolated"
  /\ Accepting(r, phase, cancelled)
  /\ Settled(r, state)
  /\ Dropped(r, state) # {}
  /\ r \notin approved

\* Fault: an absence nobody consented to does not hold the reveal.
CanRevealReduced(r, state, phase, cancelled, approved) ==
  /\ Mode[r] = "isolated"
  /\ Accepting(r, phase, cancelled)
  /\ Settled(r, state)
  /\ QuorumMet(r, state)

CanReveal(r, state, phase, cancelled, approved) ==
  /\ Mode[r] = "isolated"
  /\ Accepting(r, phase, cancelled)
  /\ Settled(r, state)
  /\ Dropped(r, state) = {} \/ r \in approved
  /\ QuorumMet(r, state)

CanCollect(r, state, phase, cancelled) ==
  /\ Mode[r] = "general"
  /\ Accepting(r, phase, cancelled)
  /\ Settled(r, state)

\* _maybe_reveal: the phase of the run once the gate has been looked at again.
PhaseAfter(r, state, phase, cancelled, approved) ==
  IF CanReveal(r, state, phase, cancelled, approved) THEN "revealed"
  ELSE IF CanCollect(r, state, phase, cancelled) THEN "collected"
  ELSE phase[r]

=============================================================================
