----------------------------- MODULE Surroundings -----------------------------
(***************************************************************************)
(* What lies around the coordinator, each on its own: `part` says which one   *)
(* moves, and the others stay as they began.                                 *)
(*   roster      membership of the participants                             *)
(*   launcher    copies of the start script and their servers                *)
(*   ledger      processes of several versions and budgets on one ledger      *)
(*   quota       threads of the server, some of which take views             *)
(*   server      connections for a few slots                                 *)
(*   call        attempts of calls while the machine changes                 *)
(*   pages       one walk through rows that change                           *)
(* Five parts take no step, they compute something from what they are given   *)
(* (`input`, chosen by Init):                                                *)
(*   boxes       any request for a sandbox                                   *)
(*   answers     any record of a CLI's output                                *)
(*   memory      earlier runs, the sections of an excerpt, or runs of an        *)
(*               earlier ledger                                             *)
(*   replies     a reply to one of the three questions, what is counted of      *)
(*               one, or the drafts excerpts are taken from                   *)
(*   sources     pages of tags, chains of responses, and lines of a text       *)
(***************************************************************************)
EXTENDS Membership, Sequences

CONSTANTS
  Script,                                                      \* Launcher
  Process, Wants, Version, App, MaxCap, Newest, PhaseSchema,   \* LedgerFile
  Thread, Viewer, LastMinute,                                  \* AccountQuota: Viewer has the threads that take views
  Connection, MaxConnections, MaxInterrupts,                   \* ControlServer
  Record, Choice, LastDay, MaxDays,                            \* CallPath
  MaxTime, RowName, MaxLimit, MaxWrites,                       \* Paging
  MaxRuns, MaxPack, Candidates, Budgets, Preferred,            \* Memory
  HandoffBytes, AnswerBytes, HeadBytes, SourceBytes,           \* Handoff: SourceBytes is the limit of one source
  MinQuote, MaxItems, MaxExcerpts, TooLong,                    \* Replies, ReplyChecks, Excerpts
  MaxBody, Deadline, MaxHops, MaxPages, MaxLines,              \* Ingestion
  AnyOutput, AnyMemory, AnyReply, AnySource                    \* inputs

VARIABLES
  part, input,
  (* Launcher. *)
  lock, record, state, request, lost, server, old, idle, pc, nonce, opened, owner, window, asked,
  (* LedgerFile. *)
  made, schema, readable, budget, stamps, used, backups, holder, process, fixed,
  (* AccountQuota. *)
  clock, refreshLock, thread, read, report, attempted, snapshot, failed,
  (* ControlServer. *)
  connection, sent, socket, timer, threads, slots, accepting, serving, interrupts, shutdown, raised, closing, working, unsettled, ledger, code,
  (* CallPath. *)
  observation, registered, installed, amiss, today, policy, choices, stage, attempt, raw, judged, vouched, ready, changed,
  (* Paging. *)
  rows, pending, own, other, memory, now, cache, shown, seen, owed

launcherVars == <<lock, record, state, request, lost, server, old, idle, pc, nonce, opened, owner, window, asked>>

ledgerVars == <<made, schema, readable, budget, stamps, used, backups, holder, process, fixed>>

quotaVars == <<clock, refreshLock, thread, read, report, attempted, snapshot, failed>>

serverVars ==
  <<connection, sent, socket, timer, threads, slots, accepting, serving, interrupts, shutdown, raised, closing, working, unsettled,
    ledger, code>>

callVars == <<observation, registered, installed, amiss, today, policy, choices, stage, attempt, raw, judged, vouched, ready, changed>>

pageVars == <<rows, pending, own, other, memory, now, cache, shown, seen, owed>>

partsVars == <<part, input, vars, launcherVars, ledgerVars, quotaVars, serverVars, callVars, pageVars>>

-----------------------------------------------------------------------------
(* The parts. *)
Launch == INSTANCE Launcher

File == INSTANCE LedgerFile WITH pc <- process

Quota == INSTANCE AccountQuota WITH now <- clock, lock <- refreshLock, pc <- thread, MaxTime <- LastMinute

Web == INSTANCE ControlServer WITH phase <- connection, request <- sent, server <- serving

Path == INSTANCE CallPath WITH record <- observation, MaxAge <- MaxDays

Index == INSTANCE Paging WITH Name <- RowName

Box == INSTANCE Isolation

Out == INSTANCE Answers

Past == INSTANCE Memory WITH MaxBytes <- MaxPack

Shelf == INSTANCE Handoff

Reply == INSTANCE Replies

Counts == INSTANCE ReplyChecks

Lines == INSTANCE Excerpts

Source == INSTANCE Ingestion WITH MaxBytes <- MaxBody

\* What the parts are given.
ASSUME PartsAllowed ==
  /\ Launch!ScriptNames
  /\ File!Configuration
  /\ Quota!ThreadNames
  /\ MaxConnections \in Nat
  /\ Path!ConfigurationRules
  /\ Index!NameRules

OutputsAllowed ==
  \A o \in AnyOutput :
    /\ o.cli \in {"codex", "claude-code"}
    /\ o.run \in Out!Run
    /\ o.out \in Seq(IF o.cli = "codex" THEN Out!CodexEvent ELSE Out!ClaudeEvent)

SourcesAllowed ==
  /\ MaxHops \in Nat \ {0} /\ Deadline \in Nat /\ MaxPages \in Nat /\ MaxLines \in Nat
  /\ \A s \in AnySource :
       IF "page" \in DOMAIN s THEN s.page \in Seq(Source!Token)
       ELSE IF "responses" \in DOMAIN s THEN s.responses \in Seq(Source!Response)
       ELSE s.lines \in Seq(Nat) /\ s.first \in Nat /\ s.last \in Nat

\* Runs are told apart by when they were made, every section has a budget, and a handoff may be as long as a source.
MemoriesAllowed ==
  /\ {MaxRuns, MaxPack, Candidates, HandoffBytes, AnswerBytes, HeadBytes, SourceBytes} \subseteq Nat
  /\ HeadBytes + HandoffBytes + Shelf!Gap <= SourceBytes
  /\ Budgets \in Seq(Nat) /\ Preferred \in Seq(1..Len(Budgets))
  /\ \A k \in 1..Len(Budgets) : \E i \in 1..Len(Preferred) : Preferred[i] = k
  /\ \A m \in AnyMemory :
       IF "runs" \in DOMAIN m
       THEN /\ IsFiniteSet(m.runs) /\ \A r, s \in m.runs : r # s => r.made # s.made
            /\ \A r \in m.runs : r.score \in Nat /\ r.made \in Nat /\ r.size \in Nat
       ELSE IF "sections" \in DOMAIN m THEN m.sections \in Seq(Seq(Nat)) /\ Len(m.sections) = Len(Budgets)
       ELSE /\ IsFiniteSet(m.shelved) /\ \A r, s \in m.shelved : r # s => r.made # s.made
            /\ \A r \in m.shelved : r.made \in Nat /\ r.question \in Nat /\ r.answers \in Seq(Nat)

ASSUME InputsAllowed == OutputsAllowed /\ SourcesAllowed /\ MemoriesAllowed

Input ==
  CASE part = "boxes" -> Box!Request
    [] part = "answers" -> AnyOutput
    [] part = "memory" -> AnyMemory
    [] part = "replies" -> AnyReply
    [] part = "sources" -> AnySource
    [] OTHER -> {"none"}

-----------------------------------------------------------------------------
(* One part moves. *)
PartsInit ==
  /\ part \in {"roster", "launcher", "ledger", "quota", "server", "call", "pages", "boxes", "answers", "memory", "replies", "sources"}
  /\ Init
  /\ Launch!Init
  /\ File!Init /\ (part # "ledger" => ~made)
  /\ Quota!Init
  /\ Web!Init
  /\ part # "server" => \A c \in Connection : sent[c].method = "GET" /\ sent[c].allowed
  /\ Path!Init
  /\ part # "call" =>
       /\ observation = (CHOOSE x \in Record : TRUE) /\ registered = {} /\ installed = 1 /\ amiss = "nothing"
       /\ ~policy /\ choices = Choice
  /\ Index!Init /\ (part # "pages" => rows = {})
  /\ input \in Input

RosterNext == part = "roster" /\ Next /\ UNCHANGED <<part, input, launcherVars, ledgerVars, quotaVars, serverVars, callVars, pageVars>>

LauncherNext == part = "launcher" /\ Launch!Next /\ UNCHANGED <<part, input, vars, ledgerVars, quotaVars, serverVars, callVars, pageVars>>

LedgerNext == part = "ledger" /\ File!Next /\ UNCHANGED <<part, input, vars, launcherVars, quotaVars, serverVars, callVars, pageVars>>

QuotaNext == part = "quota" /\ Quota!Next /\ (\A t \in Thread \ Viewer : thread'[t] # "view") /\ UNCHANGED <<part, input, vars, launcherVars, ledgerVars, serverVars, callVars, pageVars>>

ServerNext == part = "server" /\ Web!Next /\ UNCHANGED <<part, input, vars, launcherVars, ledgerVars, quotaVars, callVars, pageVars>>

CallNext == part = "call" /\ Path!Next /\ UNCHANGED <<part, input, vars, launcherVars, ledgerVars, quotaVars, serverVars, pageVars>>

PagesNext == part = "pages" /\ Index!Next /\ UNCHANGED <<part, input, vars, launcherVars, ledgerVars, quotaVars, serverVars, callVars>>

PartsNext == RosterNext \/ LauncherNext \/ LedgerNext \/ QuotaNext \/ ServerNext \/ CallNext \/ PagesNext

PartsSpec == PartsInit /\ [][PartsNext]_partsVars

-----------------------------------------------------------------------------
(***************************************************************************)
(* The files of the launcher tell of the server that lives (launch.serve).   *)
(***************************************************************************)
LiveIsRecorded == Launch!LiveIsRecorded

(***************************************************************************)
(* A server stops by itself only when it was asked itself (start.ps1,        *)
(* launch.stop, launch._watch).                                             *)
(***************************************************************************)
StopsOnlyAsked == Launch!StopsOnlyAsked

(***************************************************************************)
(* A ledger keeps the budget it was first used with, and a process leaves one  *)
(* it has to refuse as it was (store.bind_call_budget, _migrate,              *)
(* invocations.reserve).                                                    *)
(***************************************************************************)
LedgerIsKept == File!LedgerIsKept

(***************************************************************************)
(* Limits shown as observed are, and no refresh forgets or crowds another     *)
(* (account_quota.view, refresh).                                           *)
(***************************************************************************)
LimitsAreHonest == Quota!LimitsAreHonest

(***************************************************************************)
(* No slot is lost or given back twice while the server accepts, whatever       *)
(* fails or interrupts it, and the ledger is closed after its last use          *)
(* (server._Server, serve_until_stopped).                                    *)
(***************************************************************************)
ServerEndsWhole == Web!ServerEndsWhole

(***************************************************************************)
(* A call starts on what was observed, and registered at its second look, and  *)
(* is refused late only after a change (cli_executor, live_config, readiness). *)
(***************************************************************************)
GateIsExact == Path!CallsAsObserved /\ Path!RefusedByChange

(***************************************************************************)
(* Every page is fresh, and a walk shows every row once (pages.page).        *)
(***************************************************************************)
PagesAreWhole == Index!PagesAreWhole

(***************************************************************************)
(* Sealed for every request that is accepted, and the sandboxes of both CLIs  *)
(* are (isolation._validate_mounts, plan, participant_mounts).               *)
(***************************************************************************)
SealHolds == part = "boxes" => Box!Sealed(input) /\ \A cli \in {"claude-code", "codex"} : Box!Usable(cli, input.host)

(***************************************************************************)
(* Whole for every output of either CLI (adapters.interpret, claude_stream,   *)
(* domain.acceptance).                                                      *)
(***************************************************************************)
AnswersAreWhole == part = "answers" => Out!Whole(input.cli, input.run, input.out)

(***************************************************************************)
(* PackIsBest for any earlier runs, ExcerptIsFair for any sections,           *)
(* HandoffIsOpen for any runs of an earlier ledger (memory.select,            *)
(* _fair_parts, _excerpt, ledgers.handoff).                                  *)
(***************************************************************************)
MemoryIsBounded ==
  part = "memory" =>
    IF "runs" \in DOMAIN input THEN Past!PackIsBest(input.runs, "t")
    ELSE IF "sections" \in DOMAIN input THEN Past!ExcerptIsFair(input.sections)
    ELSE Shelf!HandoffIsOpen(input.shelved, "t", SourceBytes)

(***************************************************************************)
(* QuotesAreReal for any reply, ClaimsAddUp and EveryFindingAnswered for what  *)
(* is counted of it, TableIsHonest for any drafts (reply.repair_json, the      *)
(* checkers, synthesis.mock_synthesize, compare_claims).                     *)
(***************************************************************************)
QuotesAreReal ==
  part = "replies" =>
    IF "kind" \in DOMAIN input THEN Reply!QuotesAreReal(input.kind, input.drafts, input.label, input.text)
    ELSE IF "claims" \in DOMAIN input THEN Counts!ClaimsAddUp(input.claims, {"D1", "D2"})
    ELSE IF "assessment" \in DOMAIN input THEN Counts!EveryFindingAnswered(input.assessment, {"f", "g"})
    ELSE Lines!TableIsHonest(input.drafts)

(***************************************************************************)
(* PageIsShown, BodyIsWhole and NothingUnsaid for any source                 *)
(* (extract._HTML, url_fetch.fetch, source_document.document).               *)
(***************************************************************************)
ExtractsAreWhole ==
  part = "sources" =>
    IF "page" \in DOMAIN input THEN Source!PageIsShown(input.page)
    ELSE IF "responses" \in DOMAIN input THEN Source!BodyIsWhole(input.responses)
    ELSE Source!NothingUnsaid(input.first, input.last, input.lines)

=============================================================================
