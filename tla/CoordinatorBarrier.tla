-------------------------- MODULE CoordinatorBarrier --------------------------
(***************************************************************************)
(* The coordinator implements the blind barrier: under the mapping below    *)
(* every step of it, crashes and recoveries included, is a step of          *)
(* BlindBarrier or changes nothing a user is promised.                      *)
(***************************************************************************)
EXTENDS Coordinator

stageOf ==
  [r \in Run |-> IF r \in cancelled THEN "void"
                 ELSE IF phase[r] = "absent" THEN "unasked"
                 ELSE IF phase[r] = "drafting" THEN "asking" ELSE "open"]

outcomeOf ==
  [p \in Part |-> IF p \in drafts THEN "answered"
                  ELSE IF state[p] = "rejected" THEN "absent" ELSE "pending"]

Barrier == INSTANCE BlindBarrier WITH
  Sealed  <- {r \in Run : Mode[r] = "isolated"},
  Quorum  <- [r \in Run |->
                {A \in SUBSET Members(r) :
                   Cardinality({p \in A : Policy[r] = "independent_only" => Confirmed(p)}) >= MinIndependent[r]}],
  stage   <- stageOf,
  outcome <- outcomeOf,
  consent <- approved

\* The coordinator keeps the promise of the blind barrier (coordinator.py as a
\* whole): members are decided once, answers open together and at once, a
\* cancelled run stays sealed.
ImplementsBarrier == Barrier!BSpec

=============================================================================
