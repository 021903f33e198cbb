------------------------------- MODULE Templates -------------------------------
(***************************************************************************)
(* Templates of work (app/application/templates.py): the settings of a run,     *)
(* kept with the models its cards had, to be taken up later or elsewhere.      *)
(*                                                                         *)
(* A draft is the cards on its board, the models chosen for some of them, the  *)
(* CLIs among those that answer, and how many independent answers it needs     *)
(* (none if it counts unverified ones, or is general); what prepare_run and     *)
(* _checked_sources ask of its texts and sources is in Approvals.             *)
(* A digest is what it is taken of.  The roster and the context policy are read *)
(* when the server starts, and another hand may change a row or a file that    *)
(* was saved.                                                               *)
(***************************************************************************)
EXTENDS Naturals, FiniteSets, Functions

CONSTANTS
  Model,
  Roster,         \* [models, choices, unverified]: what the server may be started with
  Draft,          \* [cards, models, clis, needs]
  MaxTemplates,   \* templates that are kept
  MaxSaves        \* bound: saves that are begun

VARIABLES
  roster,     \* the model of each card, those that may be chosen for it, and whether the context may be unverified
  saving,     \* saves whose draft was checked, and which have no row yet
  saves,      \* saves begun
  templates,  \* work_templates
  files,      \* templates that were exported
  offered,    \* what was loaded last, with the models it would be started with
  fixed,      \* drafts that were saved by hand, with the models they had then
  spoilt,     \* rows and files another hand has changed
  refused     \* the rows of templates that were not loaded although nobody had changed them and they could be started as saved

\* The limit of work_templates.
LimitRules == MaxTemplates \in Nat

vars == <<roster, saving, saves, templates, files, offered, fixed, spoilt, refused>>

Init ==
  /\ roster \in Roster
  /\ saving = {} /\ saves = 0
  /\ templates = {} /\ files = {}
  /\ offered = {}
  /\ fixed = {} /\ spoilt = {} /\ refused = {}

-----------------------------------------------------------------------------
(* The models of the cards of a draft, in the copy of the roster chosen_models makes. *)
Actual(draft) == [c \in draft.cards |-> IF c \in DOMAIN draft.models THEN draft.models[c] ELSE roster.models[c]]

\* chosen_models
Choosable(draft) == \A c \in DOMAIN draft.models : c \in DOMAIN roster.choices /\ draft.models[c] \in roster.choices[c]

\* The answers prepare_run expects to be confirmed independent: those of CLIs, and none if the context may be unverified.
Confirmable(draft) == IF roster.unverified THEN 0 ELSE Cardinality(draft.clis)

\* The server as it runs has the cards and the models of the draft, and can confirm as many answers as it needs.
CanStart(draft) ==
  /\ draft.cards \subseteq DOMAIN roster.models
  /\ Choosable(draft)
  /\ draft.needs <= Confirmable(draft)

\* validate, without and with the models the draft was saved with.
Validates(draft) == DOMAIN draft.models \subseteq draft.cards /\ CanStart(draft)

\* Fault: the models it was saved with are not compared.
ValidatesAlone(draft, models) == Validates(draft)

ValidatesWith(draft, models) == Validates(draft) /\ Actual(draft) = models

Payload(draft, models) == [draft |-> draft, models |-> models]

Whole(item) == item.sha256 = Payload(item.draft, item.models)

-----------------------------------------------------------------------------
BeginSave(draft) ==
  /\ saves < MaxSaves
  /\ saves' = saves + 1
  /\ saving' = saving \union {[key |-> saves, draft |-> draft, models |-> Actual(draft), sha256 |-> Payload(draft, Actual(draft))]}

\* save: the draft is checked before the lock is taken.
Save(draft) ==
  /\ Validates(draft)
  /\ BeginSave(draft)
  /\ fixed' = fixed \union {Payload(draft, Actual(draft))}
  /\ UNCHANGED <<roster, templates, files, offered, spoilt, refused>>

\* import_copy
Import(file) ==
  /\ Whole(file) /\ ValidatesWith(file.draft, file.models)
  /\ BeginSave(file.draft)
  /\ UNCHANGED <<roster, templates, files, offered, fixed, spoilt, refused>>

Kept(item) ==
  /\ saving' = saving \ {item}
  /\ UNCHANGED <<roster, saves, files, offered, fixed, spoilt, refused>>

\* Fault: the templates were counted when the draft was checked.
InsertUncounted(item) == Kept(item) /\ templates' = templates \union {item}

\* Under the lock: the row is written unless there are too many.
Insert(item) ==
  /\ Kept(item)
  /\ templates' = IF Cardinality(templates) < MaxTemplates THEN templates \union {item} ELSE templates

Load(item) ==
  /\ IF Whole(item) /\ ValidatesWith(item.draft, item.models)
     THEN offered' = {Payload(item.draft, Actual(item.draft))} /\ UNCHANGED refused
     ELSE /\ refused' = IF item.key \notin spoilt /\ CanStart(item.draft) /\ Actual(item.draft) = item.models
                        THEN refused \union {item} ELSE refused
          /\ UNCHANGED offered
  /\ UNCHANGED <<roster, saving, saves, templates, files, fixed, spoilt>>

Export(item) ==
  /\ Whole(item)
  /\ files' = files \union {item}
  /\ UNCHANGED <<roster, saving, saves, templates, offered, fixed, spoilt, refused>>

Delete(item) ==
  /\ templates' = templates \ {item}
  /\ UNCHANGED <<roster, saving, saves, files, offered, fixed, spoilt, refused>>

\* The server is started again, with another roster; saves that have no row are gone.
Restart ==
  /\ roster' \in Roster
  /\ saving' = {}
  /\ UNCHANGED <<saves, templates, files, offered, fixed, spoilt, refused>>

\* The draft or the models of a row or a file become another's; its digest is left.
Spoil(item, draft, models) ==
  LET other == [item EXCEPT !.draft = draft, !.models = models]
  IN /\ spoilt = {} /\ other # item
     /\ spoilt' = {item.key}
     /\ \/ item \in templates /\ templates' = (templates \ {item}) \union {other} /\ UNCHANGED files
        \/ item \in files /\ files' = (files \ {item}) \union {other} /\ UNCHANGED templates
     /\ UNCHANGED <<roster, saving, saves, offered, fixed, refused>>

Next ==
  \/ \E d \in Draft : Save(d)
  \/ \E f \in files : Import(f)
  \/ \E i \in saving : Insert(i)
  \/ \E i \in templates : Load(i) \/ Export(i) \/ Delete(i)
  \/ Restart
  \/ \E i \in templates \union files, d \in Draft : \E models \in [d.cards -> Model] : Spoil(i, d, models)

Spec == Init /\ [][Next]_vars

-----------------------------------------------------------------------------
(* Properties.                                                               *)

(***************************************************************************)
(* What is loaded was saved by a person, even if it went through a file, and would *)
(* be started with the very models it had then, whatever the roster has become  *)
(* and whatever was changed in a row or a file.  A row nobody has changed is     *)
(* refused only where the server lacks its cards or models, has others for it,  *)
(* or cannot confirm the answers it needs.  There are never more templates than *)
(* can be kept, however many saves are under way (validate, load, import_copy,  *)
(* save 76-82).                                                             *)
(***************************************************************************)
TemplatesAreKept ==
  /\ offered \subseteq fixed
  /\ Cardinality(templates) <= MaxTemplates
  /\ refused = {}

=============================================================================
