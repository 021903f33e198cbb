------------------------------- MODULE Workbench -------------------------------
(***************************************************************************)
(* The plans and runs of tasks, and what is kept with them, each on its own:  *)
(* `part` says which one moves, and the others stay as they began.           *)
(*   plans      plans are saved, and no run of Later is prepared             *)
(*   runs       few plans are saved, and the runs of Later come after others  *)
(*   sources    members with sources, and another hand                       *)
(*   templates  drafts are saved, taken along and taken up                    *)
(*   versions   members review each other and revise                          *)
(* Four parts take no step, they compute something from what they are given   *)
(* (`input`, chosen by Init):                                                *)
(*   graphs     prerequisites of tasks, whatever a ledger holds               *)
(*   facts      facts of a run                                               *)
(*   sealed     runs, what ended of them, and what is searched for            *)
(*   approvals  a board, a split or a question                                *)
(***************************************************************************)
EXTENDS TaskPlans

CONSTANTS
  Later,                                                                         \* TaskPlans: bound
  Participant, Name,                                                             \* Sources
  Model, Roster, Draft, MaxTemplates, MaxDrafts,                                 \* Templates
  Member, Cli, Author, Disposition, MaxRevisions, MaxChecks, MaxCollations,      \* Versions
  MaxFindings, MaxMishaps, MaxCalls,
  Card, CliCard, CardProvider, MaxTask, MaxPoints, MaxSources, MaxBytes, MaxTotal,   \* Approvals
  AnyGraph, AnyFact, AnyScreen, AnyApproval                                      \* inputs

VARIABLES
  part, input,
  (* Sources. *)
  mode, given, row, work, source, folder, attempt, call, refused, touched,
  (* Templates. *)
  roster, saving, saves, templates, files, offered, fixed, spoilt, declined,
  (* Versions. *)
  answered, calls, chosen, shown, altered

sourceVars == <<mode, given, row, work, source, folder, attempt, call, refused, touched>>

templateVars == <<roster, saving, saves, templates, files, offered, fixed, spoilt, declined>>

versionVars == <<answered, calls, chosen, shown, altered>>

workVars == <<part, input, vars, sourceVars, templateVars, versionVars>>

-----------------------------------------------------------------------------
(* The parts. *)
Input == INSTANCE Sources WITH Member <- Participant

Kept == INSTANCE Templates WITH refused <- declined, MaxSaves <- MaxDrafts

Round == INSTANCE Versions WITH spoilt <- altered

Screen == INSTANCE PublicView

Approval == INSTANCE Approvals WITH Cli <- CliCard, Provider <- CardProvider

\* What the parts are given.
ASSUME WorkbenchAssumption ==
  /\ Later \subseteq Run
  /\ Input!NameRules
  /\ Kept!LimitRules
  /\ Round!RevisionRules
  /\ Approval!ApprovalRules

GraphsAllowed == \A g \in AnyGraph : IsFiniteSet(g.known) /\ IsFiniteSet(DOMAIN g.deps)

ScreensAllowed == \A s \in AnyScreen : Screen!AreRuns(s.runs) /\ Screen!AreEnds(s.runs, s.ends)

\* What may be asked to be frozen, proposed as a split, or answered as a question.
Proposal ==
  [kind : {"board"}, board : Approval!RoleBoard, participants : Seq(STRING)]
    \union [kind : {"split"}, request : Approval!Request, reply : [extra : BOOLEAN, items : Seq(Approval!Item)]]
    \union [kind : {"question"}, reply : [extra : BOOLEAN, next : STRING, question : Approval!Text, ask : Approval!Text,
                                        points : [is : Approval!Is, items : Seq(Approval!Text)]]]

ASSUME InputsAllowed ==
  GraphsAllowed /\ AnyFact \subseteq PossibleFacts /\ ScreensAllowed /\ AnyApproval \subseteq Proposal

Inputs ==
  CASE part = "graphs" -> AnyGraph
    [] part = "facts" -> AnyFact
    [] part = "sealed" -> AnyScreen
    [] part = "approvals" -> AnyApproval
    [] OTHER -> {"none"}

-----------------------------------------------------------------------------
(* One part moves. *)
WorkInit ==
  /\ part \in {"plans", "runs", "sources", "templates", "versions", "graphs", "facts", "sealed", "approvals"}
  /\ Init
  /\ Input!Init /\ (part # "sources" => mode = "general" /\ DOMAIN source = {})
  /\ Kept!Init /\ (part # "templates" => roster = (CHOOSE x \in Roster : TRUE))
  /\ Round!Init /\ (part # "versions" => answered = {})
  /\ input \in Inputs

PlanNext ==
  /\ part \in {"plans", "runs"}
  /\ Next
  /\ part = "plans" => \A r \in Later : prepared'[r] = Nothing
  /\ part = "runs" => /\ Saves' < MaxSaves
                      /\ \A r \in Later : prepared'[r] # Nothing => Run \ Later \subseteq Created
                      /\ \A r \in Run : prepared'[r] # Nothing => ~Exists(r)
  /\ UNCHANGED <<part, input, sourceVars, templateVars, versionVars>>

SourceNext == part = "sources" /\ Input!Next /\ UNCHANGED <<part, input, vars, templateVars, versionVars>>

TemplateNext == part = "templates" /\ Kept!Next /\ UNCHANGED <<part, input, vars, sourceVars, versionVars>>

VersionNext == part = "versions" /\ Round!Next /\ UNCHANGED <<part, input, vars, sourceVars, templateVars>>

WorkNext == PlanNext \/ SourceNext \/ TemplateNext \/ VersionNext

WorkSpec == WorkInit /\ [][WorkNext]_workVars

-----------------------------------------------------------------------------
(***************************************************************************)
(* FailsClosed for any prerequisites a ledger may hold, and ListAgreesWithSteps *)
(* and ReopensAsTold for every run, whatever holds the queue                  *)
(* (workflow.project_tasks, workflow.steps, roles.task_projection,            *)
(* ledgers._unsettled).                                                     *)
(***************************************************************************)
ProjectionsAgree ==
  /\ part = "graphs" => FailsClosed(input.known, input.deps, input.complete)
  /\ part = "facts" => ReopensAsTold(input) /\ \A held \in {"none", "paused", "unsettled"} : ListAgreesWithSteps(input, held)

(***************************************************************************)
(* SealedTellsNothing for any runs, whatever order their calls ended in       *)
(* (public.view, search, usage, report, memory).                             *)
(***************************************************************************)
SealIsKept == part = "sealed" => Screen!SealedTellsNothing(input.runs, input.ends, input.needles)

(***************************************************************************)
(* A call starts on the input and the sources that were fixed for it          *)
(* (inputs._checked_assignment, _snapshot).                                  *)
(***************************************************************************)
StartsOnWhatWasFixed == Input!StartsOnWhatWasFixed

(***************************************************************************)
(* A template is offered as it was saved, or not at all (templates.load).     *)
(***************************************************************************)
TemplatesAreKept == Kept!TemplatesAreKept

(***************************************************************************)
(* A version is collated with what is still open about it                    *)
(* (reviews._collation, _review_open, _revision_open).                      *)
(***************************************************************************)
FindingsGoAlong == Round!FindingsGoAlong

(***************************************************************************)
(* What was checked can be sent, and tells what was approved: SplitCanBeSent,  *)
(* QuestionCanBeSent and BoardIsFair (roles.freeze, split.check,              *)
(* next_step.check, refine.check).                                          *)
(***************************************************************************)
ApprovalsHold ==
  part = "approvals" =>
    CASE input.kind = "board" -> Approval!BoardIsFair(input.board, input.participants)
      [] input.kind = "split" -> Approval!SplitCanBeSent(input.request, input.reply)
      [] input.kind = "question" -> Approval!QuestionCanBeSent(input.reply)

=============================================================================
