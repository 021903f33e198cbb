------------------------------- MODULE CallPath -------------------------------
(***************************************************************************)
(* What a real call of a CLI passes before it starts: the readiness view, the *)
(* plan, the check before the reservation, and the second look just before    *)
(* the process is made (app/cli_executor.py, app/readiness.py,                *)
(* core/eligibility.py, core/contract.py, app/live_config.py,                 *)
(* app/registration.py).                                                    *)
(*                                                                         *)
(* All of it is read from files that others change at any time: the record of *)
(* observations, the registrations, the installed CLI, the personal files in  *)
(* its home, the folders of the input, and the date.  One attempt at a time   *)
(* stands for any of the attempts the coordinator makes; what it does with a  *)
(* refusal is in Coordinator.                                               *)
(***************************************************************************)
EXTENDS Integers, FiniteSets

CONSTANTS
  Record,    \* the records of observations there may be
  Choice,    \* the models a configuration lists, with their funding
  LastDay,   \* the days that pass
  MaxAge     \* how long an observation is good for (30 days)

Field == {"installed", "auth_observed", "transport_observed", "context_conformance", "permission_conformance"}

\* What a configuration may say: the default model is in the list, paid by the subscription (Provider.__post_init__).
ConfigurationRules ==
  /\ Choice \subseteq [model : STRING, funding : STRING]
  /\ [model |-> "default", funding |-> "included"] \in Choice

\* What may be wrong with the machine; one at a time (a bound).
Amiss == {"nothing", "personal", "folders", "untrusted"}

\* The default model of the provider, the others of its list, and one that is in no list.
Model == {c.model : c \in Choice} \union {"unlisted"}

Default == {c \in Choice : c.model = "default"}

VARIABLES
  (* The world: files and programs of the machine. *)
  record,      \* the content of the record's file
  registered,  \* the records registered for this machine
  installed,   \* the version of the CLI
  amiss,       \* instructions or hooks of the user in the CLI's home, input folders gone, or a bubblewrap not the system's own
  today,
  (* The process of the app. *)
  policy,      \* the context need not be verified
  choices,     \* the models of its configuration
  (* The attempt. *)
  stage,       \* how far it has come
  attempt,     \* its model and the revision of its plan
  raw,         \* the bytes of the record read last
  (* History. *)
  judged,      \* the record found eligible at the last look
  vouched,     \* the records that were registered at the last look
  ready,       \* the readiness view allowed this attempt when it began
  changed      \* the world has changed since

world == <<record, registered, installed, amiss, today>>
app == <<policy, choices>>
history == <<judged, vouched, ready, changed>>
vars == <<world, app, stage, attempt, raw, history>>

NoRecord == [label |-> "none"]

NoAttempt == [model |-> "none", revision |-> 0]

Init ==
  /\ record \in Record
  /\ registered \in SUBSET Record
  /\ installed \in {1, 2}
  /\ amiss \in Amiss
  /\ today = 0
  /\ policy \in BOOLEAN
  /\ choices \in {Choice, Default}
  /\ stage = "none"
  /\ attempt = NoAttempt
  /\ raw = NoRecord
  /\ judged = NoRecord /\ vouched = {}
  /\ ready = FALSE
  /\ changed = FALSE

-----------------------------------------------------------------------------
(* Decisions. *)

\* A model is refused if the documents call it billed by credits, whatever the list says of it, or if it is not usable in the list.
Classified(c) == IF c.model = "fable" THEN [c EXCEPT !.funding = "credits"] ELSE c

Refused(model) ==
  \/ model = "fable"
  \/ ~\E c \in choices : Classified(c).model = model /\ Classified(c).funding = "included"

\* The observations of a record bear out this plan, on this day, for this version (eligibility).
Eligible(r, revision, version, day, unverified) ==
  /\ Field \ (IF unverified THEN {"context_conformance"} ELSE {}) \subseteq r.observed
  /\ day - r.day \in 0..MaxAge
  /\ r.revision = revision
  /\ r.version = version
  /\ r.subscription

\* What problem() finds of a content: the file of registrations has it with the fingerprint of this machine.
Registered(r) == r \in registered

\* The readiness view: a plan of its own, never run; the model is the default one.
Ready(model, revision) ==
  /\ model = "default"
  /\ amiss = "nothing"
  /\ Eligible(record, revision, installed, today, policy)
  /\ Registered(record)

-----------------------------------------------------------------------------
(* An attempt. *)

\* A run with or without input folders: another set of connections, another revision.
Begin(model, revision) ==
  /\ stage = "none"
  /\ stage' = "begun"
  /\ attempt' = [model |-> model, revision |-> revision]
  /\ ready' = Ready(model, revision)
  /\ changed' = FALSE
  /\ UNCHANGED <<world, app, raw, judged, vouched>>

\* Every refusal is before the process is made; some are after the reservation.
Pass(from, ok, to) ==
  /\ stage = from
  /\ stage' = IF ok THEN to ELSE IF from \in {"begun", "read", "judged", "planned"} THEN "refused" ELSE "refused late"

\* _check_context: nothing of the user would be added to what a participant is told, or run beside it.
ContextClean == amiss # "personal"

\* plan and run read the record once each; a model or personal files that are refused end the attempt before.
Read(from, to) ==
  /\ Pass(from, ContextClean /\ (from = "begun" => ~Refused(attempt.model)), to)
  /\ raw' = record
  /\ judged' = NoRecord /\ vouched' = {}
  /\ UNCHANGED <<world, app, attempt, ready, changed>>

Judge(from, to) ==
  /\ Pass(from, Eligible(raw, attempt.revision, installed, today, policy), to)
  /\ judged' = raw
  /\ UNCHANGED <<world, app, attempt, raw, vouched, ready, changed>>

\* Fault: the registration is looked up for the file as it is by now.
ConfirmFile(from, to) ==
  /\ Pass(from, Registered(record), to)
  /\ vouched' = registered
  /\ UNCHANGED <<world, app, attempt, raw, judged, ready, changed>>

\* Fault: the second look leaves out the registration, as the attempt had one before it was reserved.
ConfirmOnce(from, to) ==
  /\ Pass(from, from = "judged again" \/ Registered(raw), to)
  /\ vouched' = registered
  /\ UNCHANGED <<world, app, attempt, raw, judged, ready, changed>>

\* The registration is looked up for the bytes that were judged.
Confirm(from, to) ==
  /\ Pass(from, Registered(raw), to)
  /\ vouched' = registered
  /\ UNCHANGED <<world, app, attempt, raw, judged, ready, changed>>

\* check: the connections of the box, before anything is reserved.
Check ==
  /\ Pass("planned", amiss # "folders", "checked")
  /\ UNCHANGED <<world, app, attempt, raw, history>>

\* The coordinator reserves the call and starts its worker.
Reserve ==
  /\ Pass("checked", TRUE, "reserved")
  /\ UNCHANGED <<world, app, attempt, raw, history>>

\* isolation.run: the connections and bubblewrap itself, then the process.
Call ==
  /\ Pass("cleared", amiss \notin {"folders", "untrusted"}, "calling")
  /\ UNCHANGED <<world, app, attempt, raw, history>>

Done ==
  /\ stage' = "none"
  /\ attempt' = NoAttempt
  /\ raw' = NoRecord
  /\ judged' = NoRecord /\ vouched' = {}
  /\ ready' = FALSE
  /\ changed' = FALSE

End ==
  /\ stage \in {"calling", "refused", "refused late"}
  /\ Done
  /\ UNCHANGED <<world, app>>

\* Another process of the app, with another configuration: the plan is gone.
Restart ==
  /\ Done
  /\ policy' \in BOOLEAN
  /\ choices' \in {Choice, Default}
  /\ UNCHANGED world

\* register, by whoever made the observation: the file is read for its label, and again for what is registered.
Register(seen) ==
  /\ seen.label = "here"
  /\ ~Registered(record)
  /\ registered' = registered \union {record}
  /\ changed' = (stage # "none")
  /\ UNCHANGED <<record, installed, amiss, today, app, stage, attempt, raw, judged, vouched, ready>>

\* Anything of the world may change at any moment (external); a registration is lost with its file, or to one that writes over it.
Change ==
  /\ \/ record' \in Record \ {record} /\ UNCHANGED <<registered, installed, amiss, today>>
     \/ \E r \in registered : registered' = registered \ {r} /\ UNCHANGED <<record, installed, amiss, today>>
     \/ installed' = 3 - installed /\ UNCHANGED <<record, registered, amiss, today>>
     \/ amiss' \in Amiss \ {amiss} /\ UNCHANGED <<record, registered, installed, today>>
     \/ today < LastDay /\ today' = today + 1 /\ UNCHANGED <<record, registered, installed, amiss>>
  /\ changed' = (stage # "none")
  /\ UNCHANGED <<app, stage, attempt, raw, judged, vouched, ready>>

Next ==
  \/ \E model \in Model, revision \in {0, 1} : Begin(model, revision)
  \/ Read("begun", "read") \/ Judge("read", "judged") \/ Confirm("judged", "planned")
  \/ Check \/ Reserve
  \/ Read("reserved", "read again") \/ Judge("read again", "judged again") \/ Confirm("judged again", "cleared")
  \/ Call \/ End \/ Restart
  \/ \E seen \in Record : Register(seen)
  \/ Change

Spec == Init /\ [][Next]_vars

-----------------------------------------------------------------------------
(* A call starts only on one and the same content of the record, which at the   *)
(* last look was found observed with this plan and good on a day, and was among *)
(* the registrations of this machine, whatever it was at an earlier look, for a  *)
(* model the configuration of this process lists as paid by the subscription    *)
(* (cli_executor._check_eligible 108-127, run 179-185, live_config.refusal      *)
(* 60-74).                                                                   *)
CallsAsObserved ==
  stage = "calling" =>
    /\ judged = raw /\ judged \in vouched
    /\ \E day \in 0..today : Eligible(judged, attempt.revision, judged.version, day, policy)
    /\ [model |-> attempt.model, funding |-> "included"] \in choices
    /\ attempt.model # "fable"

(* A call that was reserved is refused only if the world has changed since the *)
(* attempt began, or if bubblewrap is not the system's own; and what the        *)
(* readiness view had allowed is refused only if the world has changed          *)
(* (cli_executor.check 171-177, readiness.check 15-62).                        *)
RefusedByChange ==
  /\ stage = "refused late" => changed \/ amiss = "untrusted"
  /\ stage \in {"refused", "refused late"} /\ ready => changed

==============================================================================
