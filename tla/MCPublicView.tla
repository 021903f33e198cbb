----------------------------- MODULE MCPublicView -----------------------------
(***************************************************************************)
(* Ledgers of two runs for PublicView: the first with two calls whose       *)
(* answers are x or y, the second with a call or a pasted answer, each with *)
(* what the rows may be together.                                           *)
(***************************************************************************)
EXTENDS PublicView

Row(t, a, states) ==
  {[transport |-> t, provider |-> a, state |-> s, started |-> go, kind |-> "real",
    answer |-> IF s = "accepted" THEN text ELSE "none", measure |-> IF s \in {"accepted", "rejected"} /\ t = "cli" THEN n ELSE 0,
    words |-> IF s \in {"accepted", "rejected"} THEN said ELSE "none"] :
      s \in states, go \in BOOLEAN, text \in {"x", "y"}, n \in {0, 5}, said \in {"fine", "odd"}}

CliRow(a) == {p \in Row("cli", a, {"queued", "running", "accepted", "rejected", "unknown"}) : p.started <=> p.state \notin {"queued"}}
               \union {p \in Row("cli", a, {"rejected"}) : ~p.started /\ p.measure = 0}

ManualRow == {p \in Row("manual", "none", {"awaiting_user", "accepted", "rejected"}) : p.started /\ p.words # "odd"}

Turn == [provider |-> "codex", about |-> "refine", state |-> "accepted", started |-> TRUE, tokens |-> 2, reply |-> "y"]

Review(s) == [provider |-> "claude-code", about |-> "review", state |-> s, started |-> TRUE, tokens |-> 3, reply |-> IF s = "accepted" THEN "x" ELSE "none"]

Synthesis == [provider |-> "codex", about |-> "synthesis", state |-> "completed", started |-> TRUE, tokens |-> 1, reply |-> "x"]

Row1 ==
  {[mode |-> "isolated", phase |-> ph, cancelled |-> c, judged |-> ph = "revealed", parts |-> <<p, q>>, before |-> <<Turn>>,
    after |-> IF ph = "revealed" THEN <<Review("accepted"), Synthesis>> ELSE <<>>] :
      ph \in {"drafting", "revealed"}, c \in BOOLEAN, p \in CliRow("codex"),
      q \in {k \in CliRow("claude-code") : k.words # "odd"}}

Row2 ==
  {[mode |-> md, phase |-> ph, cancelled |-> FALSE, judged |-> FALSE, parts |-> <<p>>, before |-> <<>>,
    after |-> IF ph = "drafting" THEN <<>> ELSE <<Review("running")>>] :
      md \in {"isolated", "general"}, ph \in {"drafting", "revealed", "collected"}, p \in {k \in CliRow("codex") : k.words # "odd"} \union ManualRow}

\* An open run has nothing under way and, if it is isolated, an answer.
Legal(run) ==
  /\ run.phase # "drafting" => ~run.cancelled /\ PartsSettled(run)
  /\ run.phase = "revealed" => run.mode = "isolated" /\ Accepted(run) # <<>>
  /\ run.phase = "collected" => run.mode = "general"
  /\ run.mode = "general" => \A i \in DOMAIN run.parts : run.parts[i].transport = "cli"

End(r, i, run) == [run |-> r, part |-> i, real |-> TRUE, limit |-> IF run.parts[i].answer = "x" THEN 7 ELSE 8]

Ended(p) == p.transport = "cli" /\ p.state \in {"accepted", "rejected"} /\ p.started

\* The ends of both runs, those of the first before or after that of the second.
Ends(x, y) ==
  LET of(r, run) == FlattenSeq([i \in DOMAIN run.parts |-> IF Ended(run.parts[i]) THEN <<End(r, i, run)>> ELSE <<>>])
  IN  {of(1, x) \o of(2, y), of(2, y) \o of(1, x)}

TwoRuns == {k \in Row1 : Legal(k)} \X {k \in Row2 : Legal(k)}

=============================================================================
