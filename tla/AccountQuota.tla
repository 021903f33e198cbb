----------------------------- MODULE AccountQuota -----------------------------
(***************************************************************************)
(* The limits of the accounts as the screen shows them (app/account_quota.py, *)
(* app/codex_account.py, core/quota.py).  Those of Codex are asked for by a   *)
(* short dialogue with its app-server in a sandbox, by any thread that serves  *)
(* a refresh, and any thread may take a view meanwhile: it reads the clock,    *)
(* then the limits, then whether a refresh has failed, without a lock.  (The   *)
(* limits of Claude, told by the last call that ended, are projected alike     *)
(* from one record that is replaced at once.)                                *)
(*                                                                         *)
(* A report is one limit whose percentage is told: when it was observed and   *)
(* when it is reset (0 if that is not told).  Time is counted in minutes and   *)
(* the clock may be set back.  Percentages, windows, names of models and the   *)
(* fields of messages are left out: a message may be malformed.              *)
(***************************************************************************)
EXTENDS Integers

CONSTANTS
  Thread,   \* threads of the server
  MaxTime   \* bound: the clock

VARIABLES
  now,        \* the clock
  lock,       \* the thread that holds _refresh_lock, "free" for none
  pc,         \* where each thread is
  read,       \* the clock as the view of each thread has read it
  report,     \* what the dialogue of its refresh, or its view, has of the limits
  attempted,  \* _attempted_at, -1 for never
  snapshot,   \* _snapshot
  failed      \* _failed

\* No thread is taken for a lock that is free.
ThreadNames == "free" \notin Thread /\ MaxTime \in Nat

vars == <<now, lock, pc, read, report, attempted, snapshot, failed>>

Minute == 1

MaxAge == 2

Nothing == [at |-> -1, resets |-> 0]

\* The requests of the dialogue (the first, initialize, is waited for as the account is), and the end of its sandbox.
Waits == <<"account", "limits", "models", "exit">>

Asking == {Waits[i] : i \in 1..3}

Init ==
  /\ now = 0
  /\ lock = "free"
  /\ pc = [t \in Thread |-> "idle"]
  /\ read = [t \in Thread |-> 0]
  /\ report = [t \in Thread |-> Nothing]
  /\ attempted = -1
  /\ snapshot = Nothing
  /\ failed = FALSE

Go(t, where) == pc' = [pc EXCEPT ![t] = where]

-----------------------------------------------------------------------------
(* What is shown.                                                            *)

Stale(r, clock) == clock < r.at \/ clock - r.at > MaxAge

Expired(r, clock) == r.resets > 0 /\ r.resets <= clock

Status(r, stale, clock) ==
  IF r = Nothing THEN "unknown" ELSE IF stale \/ Expired(r, clock) THEN "stale" ELSE "observed"

ReadClock(t) ==
  /\ pc[t] = "idle"
  /\ read' = [read EXCEPT ![t] = now]
  /\ Go(t, "view")
  /\ UNCHANGED <<now, lock, report, attempted, snapshot, failed>>

Copy(t) ==
  /\ pc[t] = "view"
  /\ report' = [report EXCEPT ![t] = snapshot]
  /\ Go(t, "copied")
  /\ UNCHANGED <<now, lock, read, attempted, snapshot, failed>>

\* Fault: a limit is as old as the last refresh that was tried.
LimitByAttempt(t) == Status(report[t], failed \/ read[t] - attempted > MaxAge, read[t])

\* The status a view shows: of its copy of the limits, against the clock it has read before and the failure it reads last.
Limit(t) == Status(report[t], failed \/ Stale(report[t], read[t]), read[t])

View(t) ==
  /\ pc[t] = "copied"
  /\ Go(t, "idle")
  /\ read' = [read EXCEPT ![t] = 0]
  /\ report' = [report EXCEPT ![t] = Nothing]
  /\ UNCHANGED <<now, lock, attempted, snapshot, failed>>

-----------------------------------------------------------------------------
(* A refresh.                                                                *)

\* At most one dialogue a minute by the clock; a clock that was set back has to catch up.
Rested == attempted = -1 \/ now - attempted >= Minute

\* A thread that does not get the lock, or comes too early, only takes a view.
Refresh(t) ==
  /\ pc[t] = "idle"
  /\ lock = "free"
  /\ Rested
  /\ lock' = t
  /\ attempted' = now
  /\ Go(t, Waits[1])
  /\ UNCHANGED <<now, read, report, snapshot, failed>>

GoOn(t) == \E i \in 1..3 : pc[t] = Waits[i] /\ Go(t, Waits[i + 1])

\* The expected answer.  The limits are projected at once: they are observed now.
Answered(t) ==
  /\ GoOn(t)
  /\ IF pc[t] = "limits"
     THEN \E resets \in {0, now + 1} : report' = [report EXCEPT ![t] = [at |-> now, resets |-> resets]]
     ELSE UNCHANGED report
  /\ UNCHANGED <<now, lock, read, attempted, snapshot, failed>>

\* The server refuses the list of models, or it has another shape: the limits are kept.
NoModels(t) ==
  /\ pc[t] = "models"
  /\ GoOn(t)
  /\ UNCHANGED <<now, lock, read, report, attempted, snapshot, failed>>

\* Any other refusal, another kind of account, malformed limits, a request of the server, agent
\* activity, the deadline, the bound or the end of its output: the dialogue has no result.
Broken(t) ==
  /\ pc[t] \in Asking
  /\ report' = [report EXCEPT ![t] = Nothing]
  /\ Go(t, "told")
  /\ UNCHANGED <<now, lock, read, attempted, snapshot, failed>>

\* Only a sandbox that ended by itself, its tree confirmed empty and its output whole, has a result.
SandboxEnds(t) ==
  /\ pc[t] = "exit"
  /\ \E whole \in BOOLEAN : report' = IF whole THEN report ELSE [report EXCEPT ![t] = Nothing]
  /\ Go(t, "told")
  /\ UNCHANGED <<now, lock, read, attempted, snapshot, failed>>

\* _failed is set before the limits.
Keep(t) ==
  /\ pc[t] = "told"
  /\ failed' = (report[t] = Nothing)
  /\ Go(t, "kept")
  /\ UNCHANGED <<now, lock, read, report, attempted, snapshot>>

\* A refresh without a result leaves the limits there are.
Store(t) ==
  /\ pc[t] = "kept"
  /\ snapshot' = IF report[t] = Nothing THEN snapshot ELSE report[t]
  /\ lock' = "free"
  /\ report' = [report EXCEPT ![t] = Nothing]
  /\ Go(t, "idle")
  /\ UNCHANGED <<now, read, attempted, failed>>

Tick ==
  /\ now' \in {now - 1, now + 1} \intersect 0..MaxTime
  /\ UNCHANGED <<lock, pc, read, report, attempted, snapshot, failed>>

Next ==
  \/ Tick
  \/ \E t \in Thread :
       \/ ReadClock(t) \/ Copy(t) \/ View(t)
       \/ Refresh(t) \/ Answered(t) \/ NoModels(t) \/ Broken(t) \/ SandboxEnds(t) \/ Keep(t) \/ Store(t)

Spec == Init /\ [][Next]_vars

-----------------------------------------------------------------------------
(* Properties.                                                               *)

(***************************************************************************)
(* A limit that is shown as observed was observed within two minutes before   *)
(* the view began, by a clock that was not set back meanwhile, is not reset   *)
(* yet, and nothing that was observed is ever forgotten: neither by a refresh *)
(* that fails nor by one that runs beside it.  Two dialogues are a minute     *)
(* apart by the clock, and never side by side.                              *)
(***************************************************************************)
LimitsAreHonest ==
  [][/\ \A t \in Thread : pc[t] = "copied" /\ pc'[t] = "idle" /\ Limit(t) = "observed" =>
          /\ read[t] - report[t].at \in 0..MaxAge
          /\ report[t].resets = 0 \/ report[t].resets > read[t]
     /\ snapshot # Nothing => snapshot' # Nothing
     /\ attempted' # attempted => /\ attempted >= 0 => attempted' >= attempted + Minute
                                 /\ \A t \in Thread : pc[t] \in {"idle", "view", "copied"}]_vars

=============================================================================
