------------------------------- MODULE Answers -------------------------------
(***************************************************************************)
(* What the output of a CLI is taken for (core/adapters.py, interpret) and    *)
(* whether the answer in it is accepted (app/domain.py, acceptance).          *)
(*                                                                         *)
(* The output is a sequence of events, read one by one.  An event stands for  *)
(* what the parser tells apart of it; the text of an answer is "answer", or   *)
(* "blank" when nothing but white space is in it.                           *)
(***************************************************************************)
EXTENDS Naturals, Sequences

CodexEvent == {"answer", "blank", "no text", "tool", "turn completed", "failure", "broken", "odd", "noise"}

\* An init with the tools, mode and servers that were asked for, or with others; results of the model that was asked
\* for, of another, or of one it does not name; uses of a tool that was given and of another.
ClaudeEvent == {"init", "other init", "answer", "blank", "other model", "no model", "error", "text", "tool", "other tool",
                "broken", "odd"}

ClaudeResult == {"answer", "blank", "other model", "no model", "error"}

\* The run as the runner reports it; "marks" are the rejected commands it counted in stderr, or that it did not count.
Run == [exited : BOOLEAN, empty : BOOLEAN, input : {"complete", "failed", "not sent"}, stdoutCut : BOOLEAN,
        stderrCut : BOOLEAN, failed : BOOLEAN, marks : {"none", "some", "not counted"}, shown : BOOLEAN]

FineRun == [exited |-> TRUE, empty |-> TRUE, input |-> "complete", stdoutCut |-> FALSE, stderrCut |-> FALSE,
            failed |-> FALSE, marks |-> "none", shown |-> FALSE]

-----------------------------------------------------------------------------
(* Codex: lines that are no JSON object are passed over; of several answers    *)
(* the last one counts.                                                      *)
CodexStep(s, e) ==
  CASE e \in {"answer", "blank", "no text"} -> [s EXCEPT !.text = e]
    [] e = "turn completed" -> [s EXCEPT !.completed = TRUE]
    [] e = "failure" -> [s EXCEPT !.failure = TRUE]
    [] e \in {"broken", "odd"} -> [s EXCEPT !.odd = TRUE]
    [] OTHER -> s

CodexRead(out) ==
  LET read[n \in 0..Len(out)] ==
        IF n = 0 THEN [text |-> "no text", completed |-> FALSE, failure |-> FALSE, odd |-> FALSE]
        ELSE CodexStep(read[n - 1], out[n])
  IN  read[Len(out)]

\* Fault: without a count, the part of stderr that was kept is searched for rejected commands, cut or not.
HiddenIgnored(run) == FALSE

\* Rejected commands leave no trace but in stderr; when it was cut and not counted, there may have been some.
Hidden(run) == run.marks = "not counted" /\ run.stderrCut

Rejected(run) == run.marks = "some" \/ (run.marks = "not counted" /\ run.shown)

CodexStatus(run, out) ==
  LET s == CodexRead(out)
  IN  IF s.odd \/ Hidden(run) THEN "format_error"
      ELSE IF Rejected(run) THEN "tools_rejected"
      ELSE IF ~run.failed /\ s.completed /\ ~s.failure /\ s.text # "no text" THEN "ok"
      ELSE IF ~s.completed /\ ~s.failure /\ ~run.failed THEN "format_error"
      ELSE "cli_error"

-----------------------------------------------------------------------------
(* Claude: one init, one result, nothing after it, and no tool but those given. *)
ClaudeStep(s, e) ==
  IF e \in {"broken", "odd"} \/ s.result # "none" THEN [s EXCEPT !.bad = TRUE]
  ELSE IF e \in {"init", "other init"} THEN IF s.init = "none" THEN [s EXCEPT !.init = e] ELSE [s EXCEPT !.bad = TRUE]
  ELSE IF e \in ClaudeResult THEN [s EXCEPT !.result = e]
  ELSE IF e = "other tool" THEN [s EXCEPT !.other = TRUE] ELSE s

ClaudeRead(out) ==
  LET read[n \in 0..Len(out)] ==
        IF n = 0 THEN [init |-> "none", result |-> "none", other |-> FALSE, bad |-> FALSE]
        ELSE ClaudeStep(read[n - 1], out[n])
  IN  read[Len(out)]

ClaudeStatus(run, out) ==
  LET s == ClaudeRead(out)
  IN  IF s.bad \/ s.init = "none" \/ s.result = "none" THEN "format_error"
      ELSE IF s.init = "other init" \/ s.other THEN "permission_mismatch"
      ELSE IF s.result = "error" \/ run.failed THEN "cli_error"
      ELSE "ok"

-----------------------------------------------------------------------------
Interpret(cli, run, out) ==
  IF ~run.exited THEN "process"
  ELSE IF run.input = "failed" THEN "input_error"
  ELSE IF run.stdoutCut THEN "format_error"
  ELSE IF cli = "codex" THEN CodexStatus(run, out) ELSE ClaudeStatus(run, out)

Text(cli, out) == IF cli = "codex" THEN CodexRead(out).text ELSE ClaudeRead(out).result

\* Codex reports no model; Claude may, and none is no mismatch.
Mismatch(cli, out) == cli = "claude-code" /\ Text(cli, out) = "other model"

Acceptance(cli, run, out) ==
  IF ~run.empty THEN "unknown"
  ELSE IF Interpret(cli, run, out) # "ok" \/ run.input # "complete" THEN "rejected"
  ELSE IF Text(cli, out) = "blank" \/ Mismatch(cli, out) THEN "rejected"
  ELSE "accepted"

-----------------------------------------------------------------------------
Occurs(e, out) == \E i \in 1..Len(out) : out[i] = e

LastOf(es, out) == CHOOSE i \in 1..Len(out) : out[i] \in es /\ \A j \in (i + 1)..Len(out) : out[j] \notin es

\* The turn of Codex ended without a failure, and its last word was an answer.
CodexAnswered(out) ==
  /\ Occurs("turn completed", out)
  /\ \A e \in {"failure", "broken", "odd"} : ~Occurs(e, out)
  /\ \E i \in 1..Len(out) : out[i] \in {"answer", "blank", "no text"}
  /\ out[LastOf({"answer", "blank", "no text"}, out)] = "answer"

\* Claude began as it was asked to, once, used nothing else, and ended with its answer.
ClaudeAnswered(out) ==
  /\ Len(out) > 0 /\ out[Len(out)] \in {"answer", "no model"}
  /\ \E i \in 1..Len(out) : out[i] = "init" /\ \A j \in 1..Len(out) : out[j] \in {"init", "other init"} => i = j
  /\ \A i \in 1..(Len(out) - 1) : out[i] \in {"init", "text", "tool"}

(* An answer is accepted exactly when the process is known to be gone, was      *)
(* sent the whole question and ended well, none of its output is missing that   *)
(* could tell otherwise, nothing it was not allowed to do was tried, and its    *)
(* whole output says that this is its answer; and what is not accepted of a     *)
(* process that is gone is never left open                                    *)
(* (adapters.interpret 336-367, domain.acceptance 75-97).                      *)
Whole(cli, run, out) ==
  /\ (Acceptance(cli, run, out) = "accepted") <=>
       /\ run.exited /\ run.empty /\ ~run.failed /\ run.input = "complete" /\ ~run.stdoutCut
       /\ cli = "codex" => /\ ~(run.stderrCut /\ run.marks = "not counted")
                           /\ ~(run.marks = "some" \/ (run.marks = "not counted" /\ run.shown))
                           /\ CodexAnswered(out)
       /\ cli = "claude-code" => ClaudeAnswered(out)
  /\ (Acceptance(cli, run, out) = "unknown") <=> ~run.empty

==============================================================================
