------------------------------ MODULE PublicView ------------------------------
(***************************************************************************)
(* What leaves the ledger of a run before and after it is opened            *)
(* (app/queries/public.py, app/queries/catalog.py, app/usage.py,            *)
(* app/report.py, and the reading side of app/memory.py).  Pure functions   *)
(* of the rows, asked under the lock.                                       *)
(*                                                                         *)
(* A run is a record of                                                     *)
(*   mode, phase ("drafting", "revealed", "collected"), cancelled, judged,  *)
(*   parts   a row for each participant: its transport, provider, state,    *)
(*           whether it was started, the kind of execution, and             *)
(*             answer   the text of the draft, its length and digest        *)
(*             measure  tokens, duration and models of the result           *)
(*             words    what the CLI and the runner wrote about the end     *)
(*   before  the calls that led to the run: refinement turns, its split      *)
(*   after   the calls about its answers: proposals, collations, reviews,    *)
(*           revisions, rechecks, and real syntheses, each with the tokens   *)
(*           and the text of its reply                                       *)
(* Fields that are fixed before the run starts (question, sources, cards,    *)
(* assignments) are left out: nothing hides them.                           *)
(***************************************************************************)
EXTENDS Naturals, Sequences, FiniteSets, FiniteSetsExt, SequencesExt

Hidden == "hidden"

Done(p) == p.state \in {"accepted", "rejected"}

General(run) == run.mode = "general"

Revealed(run) == ~General(run) /\ run.phase = "revealed"

Collected(run) == General(run) /\ run.phase = "collected"

PartsSettled(run) == \A i \in DOMAIN run.parts : Done(run.parts[i])

\* There is a result a person may judge.
Judgeable(run) == Revealed(run) \/ Collected(run)

\* Answers and what was measured of them are shown.
AnswersShown(run) == Revealed(run) \/ General(run)

WordsShown(run) == PartsSettled(run) \/ AnswersShown(run)

IfShown(shown, value) == IF shown THEN value ELSE Hidden

\* SelectSeq, which the provers do not know, by the join of lists.
Those(list, Test(_)) == FlattenSeq([i \in DOMAIN list |-> IF Test(list[i]) THEN <<list[i]>> ELSE <<>>])

-----------------------------------------------------------------------------
(* The screen (PublicQueries.view).                                          *)

Flags(p) ==
  IF p.transport = "manual" THEN "manual"
  ELSE IF p.state = "queued" \/ ~p.started THEN "not_run"
  ELSE p.kind

\* Of the stored result of a sealed participant only the fixed keys are left, and notes once all have ended.
ShownPart(run, p) ==
  [state |-> p.state, started |-> p.started, flags |-> Flags(p),
   measure |-> IfShown(AnswersShown(run), p.measure),
   words |-> IfShown(WordsShown(run), p.words),
   draft |-> IfShown(AnswersShown(run) /\ p.state = "accepted", p.answer),
   packet |-> run.phase = "drafting" /\ ~run.cancelled /\ p.transport = "manual" /\ p.state = "awaiting_user"]

Called(p) == p.transport = "cli" /\ p.state \in {"accepted", "rejected", "unknown"} /\ p.started

Count(run, Is(_)) == Cardinality({i \in DOMAIN run.parts : Is(run.parts[i])})

Budget(run) ==
  [used |-> Count(run, LAMBDA p : Called(p) \/ p.state = "running"),
   succeeded |-> Count(run, LAMBDA p : Called(p) /\ p.state = "accepted"),
   failed |-> Count(run, LAMBDA p : Called(p) /\ p.state = "rejected"),
   unknown |-> Count(run, LAMBDA p : Called(p) /\ p.state = "unknown"),
   not_started |-> Count(run, LAMBDA p : p.transport = "cli" /\ ~p.started)]

\* The calls about the answers that the view lists; proposals and syntheses only of a revealed run.
Listed(run) ==
  Those(run.after, LAMBDA c : IF c.about \in {"proposal", "synthesis"} THEN Revealed(run)
                                  ELSE IF c.about = "collation" THEN Collected(run)
                                  ELSE Judgeable(run))

-----------------------------------------------------------------------------
(* Tokens (app/usage.py).  A call is a provider and its tokens, 0 if none    *)
(* were reported; an answer pasted from an app has no provider.              *)

PartCalls(p) ==
  IF p.transport = "manual" THEN IF p.state = "accepted" THEN <<[provider |-> "none", tokens |-> 0]>> ELSE <<>>
  ELSE IF Called(p) THEN <<[provider |-> p.provider, tokens |-> p.measure]>>
  ELSE <<>>

SeatCalls(c) ==
  IF ~c.started \/ c.state \in {"running", "queued", "skipped"} THEN <<>>
  ELSE <<[provider |-> c.provider, tokens |-> c.tokens]>>

Calls(run) ==
  FlattenSeq([i \in DOMAIN run.parts |-> PartCalls(run.parts[i])])
    \o FlattenSeq([i \in DOMAIN run.before |-> SeatCalls(run.before[i])])
    \o FlattenSeq([i \in DOMAIN Listed(run) |-> SeatCalls(Listed(run)[i])])

Provider == {"codex", "claude-code"}

\* The calls of each provider, apart; what reported no tokens is counted, not added as 0.
Total(calls) ==
  LET of(a) == Those(calls, LAMBDA c : c.provider = a)
      observed(a) == Those(of(a), LAMBDA c : c.tokens > 0)
  IN  [by |-> [a \in Provider |-> [calls |-> Len(of(a)), observed |-> Len(observed(a)),
                                   tokens |-> FoldSeq(LAMBDA c, n : n + c.tokens, 0, observed(a))]],
       manual |-> Len(Those(calls, LAMBDA c : c.provider = "none"))]

\* A sealed run has none, and is only counted in its task.
RunUsage(run) == IF AnswersShown(run) THEN Total(Calls(run)) ELSE Total(<<>>)

Combine(runs) ==
  LET add(f(_)) == FoldSeq(LAMBDA x, n : n + x, 0, [r \in DOMAIN runs |-> f(RunUsage(runs[r]))])
  IN  [by |-> [a \in Provider |-> [calls |-> add(LAMBDA u : u.by[a].calls), observed |-> add(LAMBDA u : u.by[a].observed),
                                   tokens |-> add(LAMBDA u : u.by[a].tokens)]],
       manual |-> add(LAMBDA u : u.manual),
       sealed |-> Cardinality({r \in DOMAIN runs : ~AnswersShown(runs[r])})]

-----------------------------------------------------------------------------
(* The account limit (claude_account_limit).  ends are the events of ended   *)
(* attempts, oldest first: the run, the participant or 0 for a synthesis,    *)
(* whether the execution was real, and the limit its stream reported, 0 for  *)
(* none.                                                                     *)

\* Fault: the value of an attempt is shown once that attempt has ended.
TellsLimitAlone(run, e) == e.limit > 0 /\ e.real

TellsLimit(run, e) == e.limit > 0 /\ e.real /\ (e.part = 0 \/ PartsSettled(run) \/ Revealed(run))

AccountLimit(runs, ends) ==
  LET tells == {i \in DOMAIN ends : TellsLimit(runs[ends[i].run], ends[i])}
  IN  IF tells = {} THEN 0 ELSE ends[Max(tells)].limit

-----------------------------------------------------------------------------
(* Search (PublicQueries.search, catalog.search): over the view, never over  *)
(* the rows.  An answer is found by its text, so that `needle` is a text.    *)

RunHits(run, needle) ==
  FlattenSeq([i \in DOMAIN run.parts |->
                IF ShownPart(run, run.parts[i]).draft = needle THEN <<[kind |-> "answer", ref |-> i]>> ELSE <<>>])
    \o FlattenSeq([i \in DOMAIN Listed(run) |->
                IF Listed(run)[i].reply = needle
                THEN <<[kind |-> IF Listed(run)[i].about \in {"collation", "synthesis"} THEN "synthesis" ELSE "review", ref |-> i]>>
                ELSE <<>>])
    \o (IF Judgeable(run) /\ run.judged /\ needle = "memo" THEN <<[kind |-> "decision", ref |-> 0]>> ELSE <<>>)

Search(runs, needle, kind, limit) ==
  LET all == FlattenSeq([r \in DOMAIN runs |->
               LET hits == Those(RunHits(runs[r], needle), LAMBDA h : kind \in {"any", h.kind})
               IN  [i \in DOMAIN hits |-> [run |-> r, kind |-> hits[i].kind, ref |-> hits[i].ref]]])
  IN  [items |-> SubSeq(all, 1, IF Len(all) < limit THEN Len(all) ELSE limit), total |-> Len(all)]

-----------------------------------------------------------------------------
(* Memory, reports and activity.                                             *)

\* A run later runs of the task may read, and whose answers are packed for them.
Remembered(run) == run.phase \in {"revealed", "collected"} /\ ~run.cancelled

Accepted(run) == Those(run.parts, LAMBDA p : p.state = "accepted")

MemoryOf(run) ==
  IF Remembered(run) THEN [i \in DOMAIN Accepted(run) |-> Accepted(run)[i].answer] ELSE <<Hidden>>

CallsAbout(run, kinds) == Those(Listed(run), LAMBDA c : c.about \in kinds)

ReportedParts(run) ==
  [i \in DOMAIN run.parts |-> [draft |-> ShownPart(run, run.parts[i]).draft, measure |-> run.parts[i].measure]]

NoReport == [parts |-> <<Hidden>>]

\* build_report: of an isolated run that is revealed, with nothing under way.
DraftReport(run) ==
  IF Revealed(run) /\ PartsSettled(run)
  THEN [parts |-> ReportedParts(run), reviews |-> CallsAbout(run, {"review"})]
  ELSE NoReport

\* decision_report: with the syntheses, if there is one.
DecisionReport(run) ==
  IF DraftReport(run) = NoReport \/ CallsAbout(run, {"synthesis"}) = <<>> THEN NoReport
  ELSE [parts |-> DraftReport(run).parts, syntheses |-> CallsAbout(run, {"synthesis"}), usage |-> RunUsage(run)]

\* _general_revision_report: of a general run that is collected, with nothing under way.
GeneralReport(run) ==
  IF Collected(run) /\ PartsSettled(run)
  THEN [parts |-> ReportedParts(run), history |-> CallsAbout(run, {"review", "revision", "recheck", "collation"})]
  ELSE NoReport

\* revision_report
RevisionReport(run) ==
  IF General(run) THEN GeneralReport(run)
  ELSE IF DraftReport(run) = NoReport THEN NoReport
  ELSE [drafts |-> DraftReport(run), history |-> CallsAbout(run, {"revision", "recheck"}), judged |-> run.judged]

Reports(run) == <<DraftReport(run), DecisionReport(run), RevisionReport(run)>>

\* InvocationLedger.records: every attempt, what it was for and how it ended.
Activity(run) ==
  [i \in DOMAIN run.parts |-> IF run.parts[i].transport = "cli" /\ run.parts[i].state # "queued"
                              THEN [state |-> run.parts[i].state, kind |-> run.parts[i].kind] ELSE Hidden]

RunView(run) ==
  [phase |-> run.phase, cancelled |-> run.cancelled, judged |-> Judgeable(run) /\ run.judged,
   parts |-> [i \in DOMAIN run.parts |-> ShownPart(run, run.parts[i])], budget |-> Budget(run),
   before |-> run.before, after |-> Listed(run), usage |-> RunUsage(run),
   memory |-> MemoryOf(run), reports |-> Reports(run), activity |-> Activity(run)]

\* PublicQueries.search, for any kind, with the first hit.
Found(runs, needles) == [n \in needles |-> Search(runs, n, "any", 1)]

\* All that can be asked for, of the runs of a task.
View(runs, ends, needles) ==
  [runs |-> [r \in DOMAIN runs |-> RunView(runs[r])], task |-> Combine(runs), limit |-> AccountLimit(runs, ends),
   found |-> Found(runs, needles)]

-----------------------------------------------------------------------------
(* Properties.                                                               *)

Sealed(run) == run.mode = "isolated" /\ run.phase = "drafting"

\* A row of a participant, of another call, and of a run.
PartRow ==
  [transport : {"cli", "manual"}, provider : STRING, state : STRING, started : BOOLEAN, kind : STRING, answer : STRING,
   measure : Nat, words : STRING]

CallRow == [provider : STRING, about : STRING, state : STRING, started : BOOLEAN, tokens : Nat, reply : STRING]

RunRow ==
  [mode : {"isolated", "general"}, phase : {"drafting", "revealed", "collected"}, cancelled : BOOLEAN, judged : BOOLEAN,
   parts : Seq(PartRow), before : Seq(CallRow), after : Seq(CallRow)]

\* An isolated run is revealed, a general one collected, and what ended belongs to one of the runs.
AreRuns(runs) ==
  /\ runs \in Seq(RunRow)
  /\ \A r \in DOMAIN runs : runs[r].mode = "isolated" => runs[r].phase # "collected"

AreEnds(runs, ends) == ends \in Seq([run : DOMAIN runs, part : Nat, real : BOOLEAN, limit : Nat])

\* What a sealed run must keep to itself is blanked.
BlankPart(run, p) ==
  [p EXCEPT !.answer = "blank", !.measure = 0, !.words = IF PartsSettled(run) THEN p.words ELSE "blank"]

Blank(run) ==
  IF Sealed(run) THEN [run EXCEPT !.parts = [i \in DOMAIN run.parts |-> BlankPart(run, run.parts[i])]] ELSE run

BlankEnd(runs, e) ==
  IF Sealed(runs[e.run]) /\ ~PartsSettled(runs[e.run]) /\ e.part # 0 THEN [e EXCEPT !.limit = 0] ELSE e

(***************************************************************************)
(* A sealed run tells nothing of its answers: whatever can be asked for, the *)
(* counts of a search, the tokens of its task and the last known limit of    *)
(* the account included, is what it would be if the answers, their length    *)
(* and their cost were blank; what the CLIs wrote about their ends follows    *)
(* once all have ended.  An open run tells all of it: its accepted answers    *)
(* are shown, found and, unless the run was cancelled, remembered.           *)
(***************************************************************************)
SealedTellsNothing(runs, ends, needles) ==
  /\ View(runs, ends, needles)
       = View([r \in DOMAIN runs |-> Blank(runs[r])], [i \in DOMAIN ends |-> BlankEnd(runs, ends[i])], needles)
  /\ \A r \in DOMAIN runs : ~Sealed(runs[r]) =>
       \A i \in DOMAIN runs[r].parts : runs[r].parts[i].state = "accepted" =>
         LET answer == runs[r].parts[i].answer IN
         /\ ShownPart(runs[r], runs[r].parts[i]).draft = answer
         /\ Search(runs, answer, "answer", 1).total > 0
         /\ Remembered(runs[r]) => \E k \in DOMAIN MemoryOf(runs[r]) : MemoryOf(runs[r])[k] = answer

=============================================================================
