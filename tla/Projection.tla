------------------------------ MODULE Projection ------------------------------
(***************************************************************************)
(* What the screen tells about runs and tasks (app/roles.py,               *)
(* app/workflow.py): pure functions of the public facts of a run.  Nothing  *)
(* here is stored; TaskPlans asks these operators about its own state, as   *)
(* the code asks them about the ledger it has just read.                    *)
(*                                                                         *)
(* Wording, titles, token sums and the number of calls are left out.        *)
(***************************************************************************)
EXTENDS Naturals, FiniteSets, Sequences

(***************************************************************************)
(* The facts of a run that the projections read, all but the frozen plan:   *)
(*   mode       "isolated" or "general"                                     *)
(*   parts      states of its participants                                  *)
(*   checked    states of its reviewers, revisions and rechecks             *)
(*   asked      states of its next-step proposals                           *)
(*   gathered   states of its collations                                    *)
(*   synth      status of its model synthesis, "none" if there is none      *)
(*   cancelled  a cancel is requested                                       *)
(*   open       revealed, or collected if the run is general                *)
(*   consent    the gate asks for consent to a reduced roster               *)
(*   blocked    the gate says quorum_blocked                                *)
(*   judged     the judgment is about the current result                    *)
(***************************************************************************)

Pending(f) == f.open = FALSE /\ f.cancelled = FALSE /\ ~(f.parts \subseteq {"accepted", "rejected"})

\* A rule is a condition and what follows; the first rule that applies decides.
FirstOf(rules) ==
  rules[CHOOSE i \in DOMAIN rules : rules[i][1] /\ \A j \in 1..(i - 1) : ~rules[j][1]][2]

IsolatedStatus(f, held) ==
  FirstOf(<< <<"unknown" \in f.parts \union f.asked \union f.checked \union {f.synth}, "problem">>,
             <<f.synth = "failed" /\ ~f.judged, "problem">>,
             <<f.cancelled \/ f.blocked, "problem">>,
             <<"queued" \in f.checked /\ held = "unsettled", "problem">>,
             <<"queued" \in f.checked /\ held = "paused", "my_turn">>,
             <<f.synth = "running" \/ "running" \in f.asked \/ {"running", "queued"} \intersect f.checked # {}, "working">>,
             <<~f.open /\ "awaiting_user" \in f.parts, "my_turn">>,
             <<f.consent, "my_turn">>,
             <<f.open, IF f.judged THEN "done" ELSE "my_turn">>,
             <<"queued" \in f.parts /\ held = "paused", "my_turn">>,
             <<"queued" \in f.parts /\ held = "unsettled", "problem">>,
             <<Pending(f) /\ {"running", "queued"} \intersect f.parts # {}, "working">>,
             <<TRUE, "problem">> >>)

\* _general_status
GeneralStatus(f, held) ==
  FirstOf(<< <<"unknown" \in f.parts \union f.gathered \union f.checked, "problem">>,
             <<f.cancelled, "problem">>,
             <<"queued" \in f.checked /\ held = "unsettled", "problem">>,
             <<"queued" \in f.checked /\ held = "paused", "my_turn">>,
             <<"running" \in f.gathered \/ {"running", "queued"} \intersect f.checked # {}, "working">>,
             <<f.open, IF f.judged THEN "done" ELSE "my_turn">>,
             <<"queued" \in f.parts /\ held = "paused", "my_turn">>,
             <<"queued" \in f.parts /\ held = "unsettled", "problem">>,
             <<Pending(f) /\ {"running", "queued"} \intersect f.parts # {}, "working">>,
             <<TRUE, "problem">> >>)

RunStatus(f, held) == IF f.mode = "general" THEN GeneralStatus(f, held) ELSE IsolatedStatus(f, held)

\* A call of the run may still be running although nobody waits for it.
Unsettled(f) == "unknown" \in f.parts \union f.asked \union f.checked \union f.gathered \union {f.synth}

\* Fault: what still runs is not counted, as in a ledger that is open.
UnsettledAsOpen(f) == Unsettled(f)

\* ledgers._unsettled: of a ledger nobody has open, what still runs is counted too.
UnsettledWhenClosed(f) ==
  {"running", "unknown"} \intersect (f.parts \union f.asked \union f.checked \union f.gathered \union {f.synth}) # {}

Active(f) ==
  \/ ~f.cancelled /\ {"running", "queued", "awaiting_user"} \intersect f.parts # {}
  \/ f.synth = "running"
  \/ {"running", "queued"} \intersect (f.asked \union f.checked) # {}
  \/ "running" \in f.gathered

-----------------------------------------------------------------------------
(* The steps of a run (workflow.steps).                                      *)

CollectStep(f, held) ==
  IF f.open THEN "done"
  ELSE IF "unknown" \in f.parts \/ f.cancelled \/ f.blocked \/ ("queued" \in f.parts /\ held # "none") THEN "blocked"
  ELSE "waiting"

Reviewing(f) == f.checked \union f.asked \union f.gathered \union ({f.synth} \ {"none"})

ReviewStep(f, held) ==
  IF Reviewing(f) = {} THEN "optional"
  ELSE IF "unknown" \in Reviewing(f) \/ ("queued" \in Reviewing(f) /\ held # "none") THEN "blocked"
  ELSE IF {"running", "queued"} \intersect Reviewing(f) # {} THEN "waiting"
  ELSE "done"

\* Fault: what is still being reviewed does not hold the decision.
DecisionStepAtOnce(f, held) == IF ~f.open THEN "waiting" ELSE IF f.judged THEN "done" ELSE "ready"

DecisionStep(f, held) ==
  IF ~f.open \/ ReviewStep(f, held) \notin {"done", "optional"} THEN "waiting"
  ELSE IF f.judged THEN "done" ELSE "ready"

-----------------------------------------------------------------------------
(* Prerequisites (workflow.project_tasks).  `tasks` are the tasks there are, *)
(* deps[t] what t depends on, which may be missing or on a cycle if the      *)
(* ledger was changed from outside, and `complete` the tasks that are done   *)
(* as far as they themselves go.                                             *)

\* The tasks settled after n rounds, and those of them that are finished.
Rounds(tasks, deps, complete) ==
  LET round[n \in 0..Cardinality(tasks)] ==
        IF n = 0 THEN [settled |-> {}, finished |-> {}]
        ELSE LET last == round[n - 1]
                 ready == {t \in tasks \ last.settled : deps[t] \intersect (tasks \ last.settled) = {}}
             IN  [settled  |-> last.settled \union ready,
                  finished |-> last.finished \union {t \in ready : t \in complete /\ deps[t] \subseteq last.finished}]
  IN  round[Cardinality(tasks)]

\* Fault: a task on a cycle is finished when it and its prerequisites are complete.
FinishedOneDeep(tasks, deps, complete) == {t \in complete : deps[t] \subseteq complete}

Finished(tasks, deps, complete) == Rounds(tasks, deps, complete).finished

\* Why a prerequisite d does not count.
Blocks(d, tasks, deps, complete, fresh) ==
  IF d \in Finished(tasks, deps, complete) THEN "none"
  ELSE IF d \notin tasks THEN "missing"
  ELSE IF d \notin fresh THEN "plan_changed"
  ELSE IF d \notin Rounds(tasks, deps, complete).settled THEN "dependency_cycle"
  ELSE "not_completed"

\* What the runs of a task make of it; "done" if there is nothing else to say.
Worst(statuses) == FirstOf(<< <<"problem" \in statuses, "problem">>, <<"my_turn" \in statuses, "my_turn">>,
                              <<"working" \in statuses, "working">>, <<TRUE, "done">> >>)

-----------------------------------------------------------------------------
(* Properties.                                                               *)

\* Everything a task rests on: itself and what its prerequisites rest on.
Under(t, deps) ==
  LET steps[n \in 0..Cardinality(DOMAIN deps)] ==
        IF n = 0 THEN {t}
        ELSE steps[n - 1] \union UNION {deps[u] : u \in steps[n - 1] \intersect DOMAIN deps}
  IN  steps[Cardinality(DOMAIN deps)]

\* What a task rests on through one prerequisite or more.
Below(t, deps) == UNION {Under(d, deps) : d \in deps[t]}

(***************************************************************************)
(* A finished task rests on nothing unfinished: all that it depends on, near *)
(* or far, is there, complete and off every cycle, for any prerequisites a   *)
(* ledger may hold, those changed from outside included (the docstring of    *)
(* project_tasks: missing and cyclic references fail closed).                *)
(***************************************************************************)
FailsClosed(tasks, deps, complete) ==
  \A t \in Finished(tasks, deps, complete) : \A u \in Under(t, deps) :
    u \in tasks /\ u \in complete /\ u \notin Below(u, deps)

(***************************************************************************)
(* The list (roles.py) and the steps of a run (workflow.steps) are written   *)
(* apart and must not contradict each other: a run is done in one exactly if *)
(* the decision is in the other, a finished run has no call that runs, waits *)
(* or may be running, a working one has, and what is blocked or a decision   *)
(* the user could make is never shown as work in progress.                   *)
(***************************************************************************)
ListAgreesWithSteps(f, held) ==
  /\ RunStatus(f, held) = "done" <=> DecisionStep(f, held) = "done"
  /\ RunStatus(f, held) = "done" => ~Active(f) /\ ~Unsettled(f)
  /\ RunStatus(f, held) = "working" => Active(f)
  /\ DecisionStep(f, held) = "ready" => RunStatus(f, held) \in {"my_turn", "problem"}
  /\ "blocked" \in {CollectStep(f, held), ReviewStep(f, held)} => RunStatus(f, held) \in {"my_turn", "problem"}

\* _recover: what still runs when the controller is gone is unknown, the same for a synthesis without a result.
Reopened(f) ==
  LET lost(states) == {IF s = "running" THEN "unknown" ELSE s : s \in states}
  IN  [f EXCEPT !.parts = lost(@), !.checked = lost(@), !.asked = lost(@), !.gathered = lost(@),
                !.synth = IF @ = "running" THEN "unknown" ELSE @]

(***************************************************************************)
(* What the app says of an earlier ledger without opening it is what it will *)
(* say once it is opened: unsettled is what will be unknown, and a problem   *)
(* for the user whatever holds the queue (ledgers._unsettled,                *)
(* coordinator._recover).                                                   *)
(***************************************************************************)
ReopensAsTold(f) ==
  /\ UnsettledWhenClosed(f) <=> Unsettled(Reopened(f))
  /\ UnsettledWhenClosed(f) => \A held \in {"none", "paused", "unsettled"} : RunStatus(Reopened(f), held) = "problem"

=============================================================================
