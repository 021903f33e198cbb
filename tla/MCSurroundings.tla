---------------------------- MODULE MCSurroundings ----------------------------
(***************************************************************************)
(* Instances of Surroundings: three participants and two substitutes, two     *)
(* copies of the start script, processes of two versions and three budgets on  *)
(* one ledger, two threads of which one takes views, two connections for one    *)
(* slot, two models and three records, and few inputs.                       *)
(***************************************************************************)
EXTENDS Surroundings, SequencesExt, TLC

\* The app with a cap for each CLI, a run by hand with another budget, and a mock of an older version.
WantsOf == ("p1" :> [cap |-> 3, by |-> "codex" :> 2 @@ "claude-code" :> 1])
             @@ ("p2" :> [cap |-> 2, by |-> "codex" :> 0 @@ "claude-code" :> 0])
             @@ ("p3" :> [cap |-> 0, by |-> "codex" :> 0 @@ "claude-code" :> 0])

VersionOf == "p1" :> 2 @@ "p2" :> 2 @@ "p3" :> 1

\* A whole observation, a younger one of another plan without its context, and one of another machine and an account without a subscription.
Records ==
  LET fields == {"installed", "auth_observed", "transport_observed", "context_conformance", "permission_conformance"}
      whole == [label |-> "here", observed |-> fields, day |-> 0, revision |-> 0, version |-> 1, subscription |-> TRUE]
  IN {whole, [whole EXCEPT !.day = 1, !.revision = 1, !.observed = @ \ {"context_conformance"}],
      [whole EXCEPT !.label = "elsewhere", !.subscription = FALSE, !.version = 2]}

Models ==
  {[model |-> "default", funding |-> "included"], [model |-> "fable", funding |-> "included"],
   [model |-> "large", funding |-> "unconfirmed"]}

SectionBytes == <<1, 2, 3>>

SectionOrder == <<3, 2, 1>>

-----------------------------------------------------------------------------
(* An output of any events after a process that ended well, and one of two      *)
(* outputs after a process that ended in any way.                             *)
Outputs ==
  [cli : {"codex"}, run : {Out!FineRun}, out : BoundedSeq(Out!CodexEvent, 4)]
    \union [cli : {"codex"}, run : Out!Run, out : {<<"answer", "turn completed">>, <<"tool", "turn completed">>}]
    \union [cli : {"claude-code"}, run : {Out!FineRun}, out : BoundedSeq(Out!ClaudeEvent, 3)]
    \union [cli : {"claude-code"}, run : Out!Run, out : {<<"init", "answer">>, <<"init", "error">>}]

\* A run of this task, one of another, and one that still drafts.
Earlier(n) ==
  [task : {"t"}, phase : {"revealed"}, cancelled : {FALSE}, score : {0, 1, 3}, made : {n}, size : 1..3]
    \union {[task |-> "u", phase |-> "revealed", cancelled |-> FALSE, score |-> 2, made |-> n, size |-> 1],
            [task |-> "t", phase |-> "drafting", cancelled |-> FALSE, score |-> 2, made |-> n, size |-> 1]}

\* A run of an earlier ledger.
Shelved(n) ==
  [task : {"t"}, phase : {"revealed", "collected", "drafting"}, cancelled : {FALSE}, made : {n}, question : 0..1, answers : BoundedSeq(0..3, 2)]
    \union [task : {"u", "t"}, phase : {"revealed"}, cancelled : {TRUE}, made : {n}, question : {0}, answers : {<<1>>}]

Memories ==
  [shelved : {{a, b} : a \in Shelved(1), b \in Shelved(2)}]
    \union [runs : {{a, b, d, e} : a \in Earlier(1), b \in Earlier(2), d \in Earlier(3), e \in Earlier(4)}]
    \union [sections : BoundedSeq(0..3, 2) \X BoundedSeq(0..3, 2) \X BoundedSeq(0..3, 2)]

AnyQuote == [label : {"D1", "D3"}, found : {"not_found", "short", "substantive"}]

AnyEntry ==
  [written : BOOLEAN, quotes : BoundedSeq(AnyQuote, 2)]
    \union [written : {TRUE}, quotes : {[i \in 1..3 |-> [label |-> "D1", found |-> "short"]]}]

AnyAssessment ==
  [extra : BOOLEAN, written : BOOLEAN, responses : BoundedSeq([written : BOOLEAN, finding : {"f", "g", "h"}], 3),
   findings : BoundedSeq([written : {TRUE}, label : {"D1", "D2"}, found : {"short", "not_found"}], 1)]

AnyDrafts ==
  [pid : {"p"}, accepted : BOOLEAN, intact : BOOLEAN, draft : BoundedSeq(0..3, 2)]
    \X [pid : {"q"}, accepted : {TRUE}, intact : {TRUE}, draft : BoundedSeq(0..3, 3)]

\* The reply begins with a quote; of the drafts one is not given.
Replied ==
  [kind : {"synthesis", "collation", "review"},
   drafts : {[D1 |-> <<"x", "bs", "n">>, D2 |-> <<"q", "comma", "x", "nl">>]},
   label : {"D1", "D2", "D3"},
   text : {<<"q">> \o t : t \in BoundedSeq(Reply!Char, 4)}]
    \union [claims : BoundedSeq(AnyEntry, 2)] \union [assessment : AnyAssessment] \union [drafts : AnyDrafts]

AnyResponse ==
  [public : BOOLEAN, status : {"ok", "redirect", "other"}, length : {-1, 1, 2}, chunks : {<<>>, <<1>>, <<1, 1>>}, time : {0, 1}]

Sourced ==
  [page : BoundedSeq(Source!Token, 4)] \union [responses : BoundedSeq(AnyResponse, 2)]
    \union [lines : BoundedSeq(0..2, 3), first : 0..3, last : 0..3]

=============================================================================
