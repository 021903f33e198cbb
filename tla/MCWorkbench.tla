------------------------------ MODULE MCWorkbench ------------------------------
(***************************************************************************)
(* Instances of Workbench: two tasks and two runs, two members with two         *)
(* sources, drafts of one card and of two, two members who review each other    *)
(* and one who revises; and few inputs.                                      *)
(***************************************************************************)
EXTENDS Workbench, SequencesExt, TLC

Sealing == INSTANCE MCPublicView

CONSTANTS a, b, r1, r2

TwoTasks == {a, b}

TwoRuns == {r1, r2}

RunMode == (r1 :> "isolated") @@ (r2 :> "general")

RunTransport == (r1 :> "manual") @@ (r2 :> "cli")

RunTask == (r1 :> a) @@ (r2 :> "none")

OnBoard == {r2}

\* Drafts of one card, whose answer has to be confirmed, and of two.
Drafts ==
  {[cards |-> {"a"}, models |-> "a" :> 1, clis |-> {"a"}, needs |-> 1],
   [cards |-> {"a", "b"}, models |-> "b" :> 2, clis |-> {"a", "b"}, needs |-> 0]}

\* The models of the cards may change, and what may be chosen for the first; a card is missing, or the context may be unverified.
Rosters ==
  [models : {"a" :> x @@ "b" :> 1 : x \in {1, 2}}, choices : {"a" :> s @@ "b" :> {1, 2} : s \in {{2}, {1, 2}}}, unverified : {FALSE}]
    \union {[models |-> "a" :> 1, choices |-> "a" :> {1, 2}, unverified |-> FALSE],
            [models |-> "a" :> 1 @@ "b" :> 1, choices |-> "a" :> {1, 2} @@ "b" :> {1, 2}, unverified |-> TRUE]}

\* Two CLIs of one provider, one of another and an app.
ProviderOf == "c1" :> "c" @@ "c2" :> "c" @@ "d1" :> "d" @@ "app" :> "c"

-----------------------------------------------------------------------------
(* The inputs. *)
Tasks == {"t1", "t2", "t3"}

\* Any prerequisites of three tasks, one of which may be missing.
GraphsOfThree == [known : {Tasks, Tasks \ {"t3"}}, deps : [Tasks -> SUBSET Tasks], complete : SUBSET Tasks]

\* The states of at most two calls of a kind.
Some(S) == {{x, y} : x, y \in S}

SomeOrNone(S) == {{}} \union Some(S)

\* Some of what a ledger may hold of a run: what comes after the answers needs them open,
\* an open run was not cancelled, and a proposal needs an isolated run.
FactsOfRuns ==
  {f \in [mode : {"isolated", "general"}, parts : Some(CallState \union {"awaiting_user"}),
          checked : SomeOrNone(CallState \union {"skipped"}), asked : SomeOrNone(CallState \ {"queued"}),
          gathered : SomeOrNone(CallState \ {"queued"}), synth : {"none", "running", "unknown", "completed", "failed"},
          cancelled : BOOLEAN, open : BOOLEAN, consent : BOOLEAN, blocked : BOOLEAN, judged : BOOLEAN] :
     /\ f.open => f.parts \subseteq {"accepted", "rejected"} /\ ~f.cancelled
     /\ ~f.open => f.checked \union f.asked \union f.gathered = {} /\ f.synth = "none" /\ ~f.judged
     /\ f.mode = "general" => f.asked = {} /\ f.synth = "none" /\ "awaiting_user" \notin f.parts
     /\ f.mode = "isolated" => f.gathered = {}
     /\ f.consent \/ f.blocked => /\ f.mode = "isolated" /\ ~f.open /\ ~f.cancelled
                                  /\ f.consent # f.blocked
                                  /\ "rejected" \in f.parts /\ f.parts \subseteq {"accepted", "rejected"}}

\* Two runs and both orders their calls may have ended in.
Screens ==
  UNION {[runs : {x}, ends : Sealing!Ends(x[1], x[2]), needles : {{"x", "y", "memo"}}] : x \in Sealing!TwoRuns}

Word(n) == [is |-> "value", length |-> n, edge |-> FALSE, clean |-> TRUE]

Texts == {Word(0), Word(1), Word(2), Word(3), [Word(1) EXCEPT !.edge = TRUE], [Word(2) EXCEPT !.edge = TRUE],
            [Word(1) EXCEPT !.clean = FALSE], [Word(0) EXCEPT !.is = "none"], [Word(1) EXCEPT !.is = "other"]}

Seats == {<<>>, <<"c1">>, <<"app">>}

Cards == {<<>>, <<"c1">>, <<"d1">>, <<"c1", "d1">>, <<"c1", "c2">>, <<"c1", "app">>}

BoardsOfFew ==
  [kind : {"board"}, participants : Cards,
   board : [mode : {"original", "refine"}, supervisor : Seats, orchestrator : Seats, isolated : Cards, general : Cards]]

\* Sources f, g, one whose name is f in capitals, and one that is too large together with f.
Files ==
  {<<>>, <<<<"f", "f", 1>>>>, <<<<"f", "f", 0>>, <<"g", "g", 1>>>>, <<<<"f", "f", 0>>, <<"f", "F", 0>>>>,
   <<<<"f", "f", 1>>, <<"g", "g", 1>>>>}

Picked == BoundedSeq({<<"f", "f">>, <<"g", "g">>}, 2)

Assigned ==
  BoundedSeq([member : {1}, task : {Word(1), [Word(2) EXCEPT !.edge = TRUE]}, sources : Picked], 1)
    \union ([member : {1}, task : {Word(1), Word(2)}, sources : Picked]
              \X [member : {1, 2}, task : Texts \ {Word(1), [Word(0) EXCEPT !.is = "none"], [Word(1) EXCEPT !.edge = TRUE]}, sources : Picked])

Splits ==
  [kind : {"split"},
   request : [members : {<<"c1">>, <<"c1", "d1">>}, orchestrator : {<<"c2">>}, sources : Files]
               \union [members : {<<"c1", "c2">>}, orchestrator : {<<>>, <<"c2">>}, sources : Files],
   reply : [extra : {FALSE}, items : Assigned]]

Questions ==
  [kind : {"question"},
   reply : [extra : BOOLEAN, next : {"again", "stop", "else"}, question : Texts, ask : Texts,
            points : [is : {"none"}, items : {<<>>}]
                       \union [is : {"value", "other"}, items : {<<>>, <<Word(1)>>, <<Word(3)>>, <<Word(1), Word(1)>>}]]]

Proposals == BoardsOfFew \union Splits \union Questions

=============================================================================
