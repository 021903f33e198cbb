----------------------------- MODULE BlindBarrier -----------------------------
(***************************************************************************)
(* What a run promises the user, without processes, slots or crashes: each  *)
(* member is decided once, as an answer or as an absence, and all answers   *)
(* are opened together, in the very step that decides the last member or    *)
(* consents to the absences, never earlier and never later.  A cancelled    *)
(* run stays sealed for good.                                               *)
(***************************************************************************)
CONSTANTS
  Run, Part, RunOf,
  Sealed,   \* runs that open only with a quorum and a consent to absences
  Quorum    \* Quorum[r]: the sets of answering members that may open run r

VARIABLES
  stage,    \* "unasked", "asking", "open" or "void"
  outcome,  \* "pending", "answered" or "absent"
  consent   \* runs whose absences the user has accepted

bvars == <<stage, outcome, consent>>

Of(r) == {p \in Part : RunOf[p] = r}

Answered(r, out) == {p \in Of(r) : out[p] = "answered"}

Complete(r, out) == \A p \in Of(r) : out[p] # "pending"

Absences(r, out) == {p \in Of(r) : out[p] = "absent"}

Opens(r, out, con) ==
  /\ Complete(r, out)
  /\ r \in Sealed => /\ Absences(r, out) = {} \/ r \in con
                     /\ Answered(r, out) \in Quorum[r]

BInit ==
  /\ stage = [r \in Run |-> "unasked"]
  /\ outcome = [p \in Part |-> "pending"]
  /\ consent = {}

Ask(r) ==
  /\ stage[r] = "unasked"
  /\ stage' = [stage EXCEPT ![r] = "asking"]
  /\ UNCHANGED <<outcome, consent>>

\* One member is decided, and the run opens at once if that was what it waited for.
Decide(p, o) ==
  /\ stage[RunOf[p]] = "asking" /\ outcome[p] = "pending"
  /\ outcome' = [outcome EXCEPT ![p] = o]
  /\ stage' = [stage EXCEPT ![RunOf[p]] = IF Opens(RunOf[p], outcome', consent) THEN "open" ELSE "asking"]
  /\ UNCHANGED consent

Consent(r) ==
  /\ r \in Sealed /\ stage[r] = "asking" /\ r \notin consent
  /\ Complete(r, outcome) /\ Absences(r, outcome) # {}
  /\ consent' = consent \union {r}
  /\ stage' = [stage EXCEPT ![r] = IF Opens(r, outcome, consent') THEN "open" ELSE "asking"]
  /\ UNCHANGED outcome

\* A void run opens never; its undecided members drop out now or later.
Void(r) ==
  /\ stage[r] = "asking"
  /\ stage' = [stage EXCEPT ![r] = "void"]
  /\ \E gone \in SUBSET {p \in Of(r) : outcome[p] = "pending"} :
       outcome' = [p \in Part |-> IF p \in gone THEN "absent" ELSE outcome[p]]
  /\ UNCHANGED consent

DropOut(p) ==
  /\ stage[RunOf[p]] = "void" /\ outcome[p] = "pending"
  /\ outcome' = [outcome EXCEPT ![p] = "absent"]
  /\ UNCHANGED <<stage, consent>>

BNext ==
  \/ \E r \in Run : Ask(r) \/ Consent(r) \/ Void(r)
  \/ \E p \in Part : DropOut(p) \/ \E o \in {"answered", "absent"} : Decide(p, o)

BSpec == BInit /\ [][BNext]_bvars

=============================================================================
