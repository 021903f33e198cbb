------------------------------ MODULE ReplyChecks ------------------------------
(***************************************************************************)
(* What is counted of an upper model's answer once it has been read: the four   *)
(* checks of a synthesis, a collation, a review, and a revision with its         *)
(* recheck (app/synthesis.py, app/collate.py, app/cross_review.py,             *)
(* app/revisions.py).  Replies has how it is read and how a quote is found;     *)
(* here a quote is the label it names and whether it is not_found in that draft,  *)
(* too short to say something, or substantive.  Entries - a claim, a             *)
(* disagreement, a counterexample - are written or not, and have quotes.         *)
(***************************************************************************)
EXTENDS Naturals, Sequences, FiniteSets, SequencesExt, Functions

CONSTANTS MaxItems   \* MAX_ITEMS, MAX_CLAIMS, MAX_QUOTES, MAX_FINDINGS

Refused == [ok |-> FALSE]

-----------------------------------------------------------------------------
Tally(list, T(_)) == Len(SelectSeq(list, T))

\* check_items
Listed(list) == Len(list) <= MaxItems

Readable(entry) == entry.written /\ Listed(entry.quotes)

\* A label without a draft finds nothing.
Verdict(quote, drafts) == IF quote.label \in drafts THEN quote.found ELSE "not_found"

Verdicts(entries, drafts) ==
  FlattenSeq([i \in DOMAIN entries |-> [k \in DOMAIN entries[i].quotes |-> Verdict(entries[i].quotes[k], drafts)]])

Quoted(entry, drafts) == \E i \in DOMAIN entry.quotes : Verdict(entry.quotes[i], drafts) = "substantive"

Checks(entries, claims, drafts) ==
  LET verdicts == Verdicts(entries, drafts)
  IN [quotes |-> Len(verdicts),
      exact |-> Tally(verdicts, LAMBDA v : v # "not_found"),
      short |-> Tally(verdicts, LAMBDA v : v = "short"),
      unsupported |-> Tally(claims, LAMBDA c : ~Quoted(c, drafts))]

\* check_model_synthesis: the quotes of all its entries are counted, and its claims; other fields are left alone.
Synthesis(raw, drafts) ==
  IF raw.claims # <<>> /\ \A list \in {raw.claims, raw.disagreements, raw.counter} : Listed(list) /\ \A e \in Range(list) : Readable(e)
  THEN [ok |-> TRUE, checks |-> Checks(raw.claims \o raw.disagreements \o raw.counter, raw.claims, drafts)]
  ELSE Refused

\* collate.check: an answer with other fields is refused.
Collation(raw, drafts) ==
  IF ~raw.extra /\ raw.claims # <<>> /\ Listed(raw.claims) /\ \A e \in Range(raw.claims) : Readable(e)
  THEN [ok |-> TRUE, checks |-> Checks(raw.claims, raw.claims, drafts)]
  ELSE Refused

\* cross_review.check: nothing to find fault with is an answer too; a finding about another draft than its targets' is none.
Review(raw, targets) ==
  IF ~raw.extra /\ Listed(raw.findings) /\ \A f \in Range(raw.findings) : f.written /\ f.label \in targets
  THEN [ok |-> TRUE, findings |-> Len(raw.findings), exact |-> Tally(raw.findings, LAMBDA f : f.found # "not_found")]
  ELSE Refused

\* _responses: as many as there are findings, each to one of them, and no two to the same.
Responds(responses, findings) ==
  /\ Len(responses) = Cardinality(findings)
  /\ \A r \in Range(responses) : r.written /\ r.finding \in findings
  /\ Cardinality({r.finding : r \in Range(responses)}) = Cardinality(findings)

\* check
Revision(raw, findings) ==
  IF ~raw.extra /\ raw.written /\ Responds(raw.responses, findings) THEN [ok |-> TRUE, responses |-> raw.responses] ELSE Refused

\* check_recheck: what was found before is answered, and only the new answer may be found fault with.
Recheck(raw, findings) ==
  LET review == Review([extra |-> FALSE, findings |-> raw.findings], {"D1"})
  IN IF ~raw.extra /\ review.ok /\ Responds(raw.responses, findings)
     THEN [ok |-> TRUE, responses |-> raw.responses, findings |-> review.findings, exact |-> review.exact]
     ELSE Refused

-----------------------------------------------------------------------------
(* The two checkers of claims count alike, and what they count adds up: a quote  *)
(* is found or not, what supports a claim is found and is no short quote, and no   *)
(* claim is supported from a draft that was not given.                         *)
ClaimsAddUp(claims, drafts) ==
  LET collated == Collation([extra |-> FALSE, claims |-> claims], drafts)
  IN /\ collated = Synthesis([claims |-> claims, disagreements |-> <<>>, counter |-> <<>>], drafts)
     /\ collated.ok =>
          LET checks == collated.checks IN
          /\ checks.short <= checks.exact /\ checks.exact <= checks.quotes
          /\ Len(claims) - checks.unsupported <= checks.exact - checks.short
          /\ (\A i \in DOMAIN claims : \A q \in Range(claims[i].quotes) : q.label \notin drafts)
               => checks.exact = 0 /\ checks.unsupported = Len(claims)

(* Whoever revises or looks again says one thing of every finding and nothing of   *)
(* any other, and finds fault with the new answer only.                        *)
EveryFindingAnswered(raw, findings) ==
  LET revised == Revision(raw, findings)
      checked == Recheck(raw, findings)
  IN /\ revised.ok \/ checked.ok =>
          \A f \in findings : Cardinality({i \in DOMAIN raw.responses : raw.responses[i].finding = f}) = 1
     /\ checked.ok => /\ \A f \in Range(raw.findings) : f.label = "D1"
                     /\ checked.exact <= checked.findings

=============================================================================
