-------------------------------- MODULE Versions --------------------------------
(***************************************************************************)
(* What the upper calls around one general run are given: the answers of its    *)
(* members, the findings of a round of cross-review, the revisions of an        *)
(* answer with their rechecks, and the versions the user picks for a collation   *)
(* (application/reviews.py, application/revisions.py).                        *)
(*                                                                         *)
(* The run is collected.  When a call may start at all, and how it ends other    *)
(* than with an answer or without one, is module UpperCalls; here one call runs  *)
(* at a time.  A round, a revision and a collation are shown to the user first,   *)
(* and start only as shown.  What was stored may be changed behind the store, and *)
(* of a row that was changed no text fits its digest any more.  The screen and    *)
(* the report of the run are functions of the rows.                            *)
(*                                                                         *)
(* A row is the member it belongs to and the number of the call that made it, 0   *)
(* for the answer of the run; those of answers and revisions are versions.  A     *)
(* finding is known by the call that found it and the version it is about; a     *)
(* reviewer finds at most one per version.                                    *)
(***************************************************************************)
EXTENDS Naturals, Sequences, FiniteSets, SequencesExt, FiniteSetsExt, Functions

CONSTANTS
  Member,
  Cli,            \* the members a CLI was called for
  Disposition,    \* cross_review.DISPOSITIONS
  MaxRevisions,   \* revisions.MAX_REVISIONS
  MaxChecks,      \* revisions.MAX_CHECKS
  MaxCollations,  \* collate.MAX_PER_RUN
  Author,         \* bound: the members whose answers are revised
  MaxFindings,    \* bound: findings of the run
  MaxMishaps,     \* bound: calls without an answer, and rows changed behind the store
  MaxCalls        \* bound: calls and mishaps

VARIABLES
  answered,  \* the members whose answer was accepted
  calls,     \* the rows of reviews, answer_revisions, revision_checks and collations
  chosen,    \* review_dispositions: the dispositions picked for findings
  shown,     \* the preview the user has on screen and has not started
  spoilt     \* the rows whose text does not fit their digest

\* With more than two revisions the third would not be asked what was found about the first (_context).
RevisionRules == MaxRevisions \in 0..2 /\ IsFiniteSet(Member)

vars == <<answered, calls, chosen, shown, spoilt>>

Nothing == [kind |-> "nothing"]

Original(m) == [pid |-> m, n |-> 0]

RowOf(n) == [pid |-> calls[n].by, n |-> n]

CallsOf(kind, states) == {n \in DOMAIN calls : calls[n].kind = kind /\ calls[n].state \in states}

Ended == {n \in DOMAIN calls : calls[n].state \notin {"queued", "running"}}

Busy == \E n \in DOMAIN calls : calls[n].state = "running"

Init ==
  /\ answered \in SUBSET Member
  /\ calls = <<>>
  /\ chosen = <<>>
  /\ shown = Nothing
  /\ spoilt = {}

-----------------------------------------------------------------------------
(* A round of cross-review: each member that answered by CLI reviews the answers  *)
(* of the others.                                                            *)

\* _answers: every answer of the run fits its digest.
AnswersFit == spoilt \cap {Original(m) : m \in answered} = {}

\* _general_round; the result revision is the events of the calls that have ended.
Round ==
  [kind |-> "review", by |-> answered \cap Cli, of |-> {Original(m) : m \in answered}, given |-> {}, seen |-> Ended]

CanReview ==
  /\ CallsOf("review", {"queued", "running", "accepted", "rejected", "skipped"}) = {}
  /\ AnswersFit
  /\ Cardinality(answered) >= 2
  /\ answered \cap Cli # {}

\* preview_cross_review
PreviewRound ==
  /\ CanReview
  /\ shown' = Round
  /\ UNCHANGED <<answered, calls, chosen, spoilt>>

Called(kind, by, of, given) ==
  [kind |-> kind, by |-> by, of |-> of, given |-> given, left |-> {}, found |-> {}, state |-> "running"]

\* _create_general_round; the reviewers are called one after the other.
StartRound ==
  /\ ~Busy
  /\ CanReview /\ shown = Round
  /\ calls' = calls \o [i \in 1..Cardinality(shown.by) |->
       LET m == SetToSeq(shown.by)[i]
       IN [Called("review", m, shown.of \ {Original(m)}, {}) EXCEPT !.state = "queued"]]
  /\ shown' = Nothing
  /\ UNCHANGED <<answered, chosen, spoilt>>

\* _advance_reviews: a reviewer that was not accepted, and one whose fixed input was changed, close the round.
NextReview ==
  /\ ~Busy
  /\ CallsOf("review", {"queued"}) # {}
  /\ LET first == Min(CallsOf("review", {"queued"})) IN
       calls' = IF CallsOf("review", {"rejected"}) # {} \/ RowOf(first) \in spoilt
                THEN [n \in DOMAIN calls |-> IF calls[n].state = "queued" THEN [calls[n] EXCEPT !.state = "skipped"] ELSE calls[n]]
                ELSE [calls EXCEPT ![first].state = "running"]
  /\ UNCHANGED <<answered, chosen, shown, spoilt>>

Findings == UNION {calls[n].found : n \in CallsOf("review", {"accepted"})}

Status(f) == IF f \in DOMAIN chosen THEN chosen[f] ELSE "unresolved"

\* set_review_disposition
Dispose(f, disposition) ==
  /\ f \in Findings
  /\ chosen' = [g \in DOMAIN chosen \union {f} |-> IF g = f THEN disposition ELSE chosen[g]]
  /\ UNCHANGED <<answered, calls, shown, spoilt>>

-----------------------------------------------------------------------------
(* Revisions and their rechecks.                                            *)

RevisionsOf(m, states) == {n \in CallsOf("revision", states) : calls[n].by = m}

ChecksOf(n, states) == {k \in CallsOf("recheck", states) : calls[k].of = {RowOf(n)}}

Accepted(S) == S \cap {n \in DOMAIN calls : calls[n].state = "accepted"}

\* The last accepted revision, or the answer of the run.
Base(m) ==
  LET done == RevisionsOf(m, {"accepted"}) IN IF done = {} THEN Original(m) ELSE RowOf(Max(done))

ChecksOfBase(m) == IF Base(m).n = 0 THEN {} ELSE ChecksOf(Base(m).n, {"running", "accepted", "rejected"})

\* Fault: the answer is revised for the reviewers only.
AskedByReviews(m) == {[finding |-> f, status |-> Status(f)] : f \in {g \in Findings : g.about = Original(m)}}

\* What the reviewers found about the answer, and the rechecks about the last revision.
Asked(m) ==
  {[finding |-> f, status |-> Status(f)] : f \in {g \in Findings : g.about = Original(m)}}
    \union {[finding |-> f, status |-> "unresolved"] : f \in UNION {calls[n].found : n \in Accepted(ChecksOfBase(m))}}

\* _context
Snapshot(m) == [kind |-> "revision", by |-> {m}, of |-> {Base(m)}, given |-> Asked(m), seen |-> Accepted(ChecksOfBase(m))]

CanRevise(m) ==
  /\ m \in answered \cap Cli
  /\ CallsOf("review", {"accepted", "rejected", "skipped"}) # {} /\ CallsOf("review", {"queued", "running"}) = {}
  /\ Cardinality(RevisionsOf(m, {"running", "accepted", "rejected"})) < MaxRevisions
  /\ RevisionsOf(m, {"running"}) = {}
  /\ Base(m).n # 0 => Accepted(ChecksOfBase(m)) = ChecksOfBase(m) \ CallsOf("recheck", {"rejected"}) /\ Accepted(ChecksOfBase(m)) # {}
  /\ Asked(m) # {}
  /\ spoilt \cap ({Original(m), Base(m)} \union {RowOf(n) : n \in Accepted(ChecksOfBase(m))}
                  \union {RowOf(n) : n \in {k \in CallsOf("review", {"accepted"}) : \E f \in calls[k].found : f.about = Original(m)}}) = {}

\* prepare
PreviewRevision(m) ==
  /\ CanRevise(m)
  /\ shown' = Snapshot(m)
  /\ UNCHANGED <<answered, calls, chosen, spoilt>>

\* revise: the answers, the findings and what the user said of them are those that were shown.
Revise(m) ==
  /\ ~Busy
  /\ CanRevise(m) /\ shown = Snapshot(m)
  /\ calls' = Append(calls, Called("revision", m, shown.of, shown.given))
  /\ shown' = Nothing
  /\ UNCHANGED <<answered, chosen, spoilt>>

\* recheck: by another member, of any accepted revision, on the findings it was given.
Recheck(n, m) ==
  /\ ~Busy
  /\ n \in CallsOf("revision", {"accepted"}) /\ RowOf(n) \notin spoilt
  /\ m \in (answered \cap Cli) \ {calls[n].by}
  /\ Cardinality(ChecksOf(n, {"running", "accepted", "rejected"})) < MaxChecks
  /\ calls' = Append(calls, Called("recheck", m, {RowOf(n)}, calls[n].given))
  /\ UNCHANGED <<answered, chosen, shown, spoilt>>

-----------------------------------------------------------------------------
(* Collation of the versions the user picked.                                *)

Item(f, from, status) == [finding |-> f, from |-> from, status |-> status]

\* _review_open
OpenOfAnswer(m) ==
  {Item(f, "review", Status(f)) : f \in {g \in Findings : g.about = Original(m) /\ Status(g) # "rejected"}}

\* Fault: what a recheck says of the findings that were given is left to the author.
OpenOfRevisionByAuthor(n) ==
  {Item(f, "revision", "open") : f \in calls[n].left}
    \union UNION {{Item(f, "recheck", "open") : f \in calls[k].found} : k \in ChecksOf(n, {"accepted"})}

\* _revision_open: what its author left, what a recheck left, and what a recheck found.
OpenOfRevision(n) ==
  {Item(f, "revision", "open") : f \in calls[n].left}
    \union UNION {{Item(f, "recheck", "open") : f \in calls[k].left \union calls[k].found} : k \in ChecksOf(n, {"accepted"})}

OpenOf(v) == IF v.n = 0 THEN OpenOfAnswer(v.pid) ELSE OpenOfRevision(v.n)

VersionsOf(m) == {Original(m)} \union {RowOf(n) : n \in RevisionsOf(m, {"accepted"})}

\* One version of each member that answered.
Picks == {{pick[m] : m \in answered} : pick \in {f \in [answered -> UNION {VersionsOf(m) : m \in answered}] : \A m \in answered : f[m] \in VersionsOf(m)}}

\* _collation
Prepared(pick) ==
  [kind |-> "collation", by |-> {}, of |-> pick, given |-> UNION {OpenOf(v) : v \in pick}, seen |-> Ended]

CanCollate(pick) ==
  /\ Cardinality(CallsOf("collation", {"running", "accepted", "rejected"})) < MaxCollations
  /\ AnswersFit
  /\ pick \cap spoilt = {}
  /\ \A v \in pick : v.n # 0 => \A k \in ChecksOf(v.n, {"accepted"}) : RowOf(k) \notin spoilt

\* preview_collation
PreviewCollation(pick) ==
  /\ CanCollate(pick)
  /\ shown' = Prepared(pick)
  /\ UNCHANGED <<answered, calls, chosen, spoilt>>

\* collate, with the confirmation of a preview
CollateShown ==
  /\ ~Busy
  /\ shown.kind = "collation"
  /\ CanCollate(shown.of) /\ shown = Prepared(shown.of)
  /\ calls' = Append(calls, Called("collation", "orchestrator", shown.of, shown.given))
  /\ shown' = Nothing
  /\ UNCHANGED <<answered, chosen, spoilt>>

\* collate without one: only where there is no version to pick.
CollateAnswers ==
  /\ ~Busy
  /\ CallsOf("revision", {"accepted"}) = {}
  /\ LET pick == {Original(m) : m \in answered} IN
       /\ CanCollate(pick)
       /\ calls' = Append(calls, Called("collation", "orchestrator", pick, Prepared(pick).given))
  /\ UNCHANGED <<answered, chosen, shown, spoilt>>

-----------------------------------------------------------------------------
(* What a call may answer, and what may happen to the rows.                   *)

Asks(call) == {item.finding : item \in call.given}

\* A review finds fault with the versions it is given, a recheck with the revision; a revision and a
\* recheck answer every finding they are given.
Answer(n) ==
  /\ calls[n].state = "running"
  /\ \E left \in IF calls[n].kind \in {"revision", "recheck"} THEN SUBSET Asks(calls[n]) ELSE {{}},
        about \in IF calls[n].kind \in {"review", "recheck"} THEN SUBSET calls[n].of ELSE {{}} :
       /\ Cardinality(about) + Cardinality(UNION {calls[k].found : k \in DOMAIN calls}) <= MaxFindings
       /\ calls' = [calls EXCEPT ![n].state = "accepted", ![n].left = left, ![n].found = {[call |-> n, about |-> v] : v \in about}]
  /\ UNCHANGED <<answered, chosen, shown, spoilt>>

Mishaps == Cardinality(spoilt) + Cardinality({n \in DOMAIN calls : calls[n].state = "rejected"})

Room == Len(calls) + Mishaps < MaxCalls

Fail(n) ==
  /\ calls[n].state = "running"
  /\ Mishaps < MaxMishaps /\ Room
  /\ calls' = [calls EXCEPT ![n].state = "rejected"]
  /\ UNCHANGED <<answered, chosen, shown, spoilt>>

\* A row was changed behind the store.
Spoil(row) ==
  /\ Mishaps < MaxMishaps /\ Room
  /\ spoilt' = spoilt \union {row}
  /\ UNCHANGED <<answered, calls, chosen, shown>>

-----------------------------------------------------------------------------
(* What is told of all this.                                                 *)

Pairs(states) == UNION {{<<n, v>> : v \in calls[n].of} : n \in CallsOf("review", states)}

\* _cross_review_view: who has reviewed whom, which of the texts are still those, and what the user said of the findings.
ShownRound ==
  [reviewed |-> Pairs({"accepted"}),
   missing |-> Pairs({"queued", "running", "rejected", "skipped"}),
   fresh |-> {p \in Pairs({"accepted", "queued", "running", "rejected", "skipped"}) : {RowOf(p[1]), p[2]} \cap spoilt = {}},
   findings |-> {[finding |-> f, disposition |-> Status(f)] : f \in Findings}]

\* Fault: the rechecks of a revision are exported as they are.
VariantsFitAlone ==
  \A n \in CallsOf("revision", {"running", "accepted", "rejected"}) :
    spoilt \cap ({RowOf(n), Original(calls[n].by)} \union calls[n].of) = {}

\* _variants: no revision, nor what it was written from, nor a recheck of it was changed.
VariantsFit ==
  \A n \in CallsOf("revision", {"running", "accepted", "rejected"}) :
    spoilt \cap ({RowOf(n), Original(calls[n].by)} \union calls[n].of
                  \union {RowOf(k) : k \in ChecksOf(n, {"running", "accepted", "rejected"})}) = {}

\* _collations: the versions each was given.
Collated == [n \in CallsOf("collation", {"running", "accepted", "rejected"}) |-> calls[n].of]

\* _general_revision_report
Report ==
  IF AnswersFit /\ VariantsFit
  THEN [kind |-> "report", versions |-> UNION {VersionsOf(m) : m \in answered}, collations |-> Collated, round |-> ShownRound]
  ELSE Nothing

Next ==
  \/ PreviewRound
  \/ Len(calls) + Mishaps + Cardinality(answered) <= MaxCalls /\ StartRound
  \/ NextReview
  \/ \E f \in Findings, disposition \in Disposition : Dispose(f, disposition)
  \/ \E m \in Author : PreviewRevision(m)
  \/ \E m \in Author : Room /\ Revise(m)
  \/ \E n \in DOMAIN calls, m \in Member : Room /\ Recheck(n, m)
  \/ \E pick \in Picks : PreviewCollation(pick)
  \/ Room /\ CollateShown
  \/ Room /\ CollateAnswers
  \/ \E n \in DOMAIN calls : Answer(n) \/ Fail(n)
  \/ \E m \in answered : Spoil(Original(m))
  \/ \E n \in DOMAIN calls \ CallsOf("collation", {"running", "accepted", "rejected"}) : Spoil(RowOf(n))

Spec == Init /\ [][Next]_vars

-----------------------------------------------------------------------------
\* The findings about a version: on its text, and on the texts it was written from, up to then.
About(v) ==
  {f \in UNION {calls[n].found : n \in DOMAIN calls} : f.about = v \/ (v.n # 0 /\ f.about.pid = v.pid /\ f.call < v.n)}

\* The user turned it down, or the author says it was dealt with and nobody who looked again disagrees.
Settled(f, v) ==
  IF v.n = 0 THEN Status(f) = "rejected"
  ELSE f \in Asks(calls[v.n]) \ calls[v.n].left /\ \A k \in ChecksOf(v.n, {"accepted"}) : f \notin calls[k].left

\* The screen shows a finding only of a review that was accepted, and as the one it is collated as.
ShownAsSent(sent) ==
  /\ \A s \in ShownRound.findings : <<s.finding.call, s.finding.about>> \in ShownRound.reviewed
  /\ \A v \in sent.of : v.n = 0 =>
       sent.given \cap {Item(f, "review", d) : f \in {g \in Findings : g.about = v}, d \in Disposition \union {"unresolved"}}
         = {Item(s.finding, "review", s.disposition) :
              s \in {t \in ShownRound.findings : t.finding.about = v /\ t.disposition # "rejected"}}

\* Whatever the report tells could be collated, and it knows the versions that were.
ReportStands ==
  LET report == Report IN
  report # Nothing =>
    /\ Cardinality(DOMAIN report.collations) < MaxCollations => \A pick \in Picks : CanCollate(pick)
    /\ \A n \in DOMAIN report.collations : report.collations[n] \subseteq report.versions
    /\ \A n \in CallsOf("revision", {"accepted"}) : calls[n].of \subseteq report.versions

(***************************************************************************)
(* Whoever collates is given one version of every member that answered,       *)
(* unchanged since it was stored, and with it every finding about that version  *)
(* or the texts it was written from which is not settled, and no other: not     *)
(* after a revision, a recheck, a second revision or a changed disposition, and  *)
(* not when any of these came after the preview (reviews.collate, _collation,   *)
(* _review_open, _revision_open; revisions._context).  The screen shows the      *)
(* findings of the round as they are collated, and the report is only given        *)
(* while every version may be (public._cross_review_view; report._variants).      *)
(***************************************************************************)
FindingsGoAlong ==
  [][/\ UNCHANGED <<calls, spoilt>> \/ ReportStands
     /\ \A k \in DOMAIN calls' \ DOMAIN calls :
          calls'[k].kind = "collation" =>
            LET sent == calls'[k] IN
            /\ {v.pid : v \in sent.of} = answered /\ Cardinality(sent.of) = Cardinality(answered)
            /\ sent.of \cap spoilt = {}
            /\ Asks(sent) = UNION {{f \in About(v) : ~Settled(f, v)} : v \in sent.of}
            /\ ShownAsSent(sent)]_vars

=============================================================================
