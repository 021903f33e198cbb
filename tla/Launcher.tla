------------------------------- MODULE Launcher -------------------------------
(***************************************************************************)
(* Opening and closing the app (app/start.ps1 on Windows, app/launch.py in   *)
(* WSL).  Every copy of the script asks for the state, starts a server or    *)
(* opens a window on the one there is, and the copy that owns the window     *)
(* asks the server to stop once all windows are closed.  Scripts and servers  *)
(* meet in four files: the lock, the state, the stop request and the mark a   *)
(* losing server leaves.                                                    *)
(*                                                                         *)
(* A script starts at most one server, so that a server is named by its      *)
(* script; this name stands for the nonce and for the process id.  Modes,    *)
(* ports, models and the readiness check are left out (starting may always    *)
(* be refused or fail), and so is a server of a version that knew no lock.    *)
(***************************************************************************)
EXTENDS FiniteSets

CONSTANT Script   \* copies of start.ps1

ScriptNames == "none" \notin Script

VARIABLES
  (* Files of the state folder. *)
  lock,     \* who holds launcher.lock
  record,   \* the name written in launcher.lock
  state,    \* launcher.json: whose, and in what status
  request,  \* stop-request: the server it names, "none" for no file
  lost,     \* lost-<nonce>: not there, or the name of the winner ("unknown" if it was not read)
  (* The servers. *)
  server,   \* what the server of each script is doing
  old,      \* the live server a start read of before it asked for the lock
  idle,     \* controller.wait_idle(0) of the one that serves
  (* The scripts. *)
  pc,       \* what each script is about to do
  nonce,    \* $nonce: the server it will ask to stop
  opened,   \* the server its window shows
  owner,    \* $owner: it stops the server when the windows are closed
  window,   \* scripts whose window is there
  asked     \* servers a script has asked to stop since they began

files == <<lock, record, state, request, lost>>
servers == <<server, old, idle>>
scripts == <<pc, nonce, opened, owner, window>>
vars == <<files, servers, scripts, asked>>

Name == Script \union {"none"}

Running == {"serving", "deciding", "closing"}

Alive(p) == p \in Script /\ server[p] \notin {"off", "ended"}

Init ==
  /\ lock = "none" /\ record = "none" /\ request = "none"
  /\ state = [of |-> "none", status |-> "none"]
  /\ lost = [s \in Script |-> "none"]
  /\ server = [s \in Script |-> "off"]
  /\ old = [s \in Script |-> "none"]
  /\ idle = TRUE
  /\ pc = [s \in Script |-> "status"]
  /\ nonce = [s \in Script |-> "none"]
  /\ opened = [s \in Script |-> "none"]
  /\ owner = [s \in Script |-> TRUE]
  /\ window = {}
  /\ asked = {}

-----------------------------------------------------------------------------
(* The server (launch.serve).                                                *)

To(p, s) == server' = [server EXCEPT ![p] = s] /\ UNCHANGED <<old, idle>>

\* A process that ends gives up its lock.
Exit(p) ==
  /\ To(p, "ended")
  /\ lock' = IF lock = p THEN "none" ELSE lock

Written(p, status) == state' = [of |-> p, status |-> status]

\* The state is read before the lock is asked for: a server of a version that knew no lock may run.
ReadState(p) ==
  /\ server[p] = "begun"
  /\ old' = [old EXCEPT ![p] = IF Alive(state.of) /\ state.status \in {"starting", "running"} THEN state.of ELSE "none"]
  /\ server' = [server EXCEPT ![p] = "ready"]
  /\ UNCHANGED <<files, idle, scripts, asked>>

\* Whoever has read of a live server withdraws, with the lock or without it.
TakeLock(p) ==
  /\ server[p] = "ready"
  /\ lock' = IF lock = "none" THEN p ELSE lock
  /\ To(p, IF lock = "none" /\ old[p] = "none" THEN "locked" ELSE "beaten")
  /\ UNCHANGED <<record, state, request, lost, scripts, asked>>

\* The lock file names its last holder until it is cut, and nobody until the new one is written.
CutRecord(p) ==
  /\ server[p] = "locked" /\ record # "none"
  /\ record' = "none"
  /\ UNCHANGED <<lock, state, request, lost, servers, scripts, asked>>

WriteRecord(p) ==
  /\ server[p] = "locked" /\ record = "none"
  /\ record' = p
  /\ To(p, "named")
  /\ UNCHANGED <<lock, state, request, lost, scripts, asked>>

\* Fault: the start that lost writes why it failed into the state of the winner.
YieldLoudly(p) ==
  /\ server[p] = "beaten"
  /\ \E w \in {record, "unknown"} : lost' = [lost EXCEPT ![p] = IF w = "none" THEN "unknown" ELSE w]
  /\ Written(p, "failed")
  /\ Exit(p)
  /\ UNCHANGED <<record, request, scripts, asked>>

\* The wait for a name may be over before one is written.
Yield(p) ==
  /\ server[p] = "beaten"
  /\ lost' = [lost EXCEPT ![p] = IF lock = p THEN old[p] ELSE IF record = "none" THEN "unknown" ELSE record]
  /\ Exit(p)
  /\ UNCHANGED <<record, state, request, scripts, asked>>

Begin(p) ==
  /\ server[p] = "named"
  /\ request' = "none"
  /\ Written(p, "starting")
  /\ To(p, "starting")
  /\ UNCHANGED <<lock, record, lost, scripts, asked>>

\* No registered observation, not eligible, no port, or a ledger that is in use or bound otherwise.
Refuse(p) ==
  /\ server[p] = "starting"
  /\ \E s \in {"refused", "failed"} : Written(p, s)
  /\ Exit(p)
  /\ UNCHANGED <<record, request, lost, scripts, asked>>

Serve(p) ==
  /\ server[p] = "starting"
  /\ Written(p, "running")
  /\ server' = [server EXCEPT ![p] = "serving"]
  /\ idle' = TRUE
  /\ UNCHANGED <<lock, record, request, lost, old, scripts, asked>>

\* Fault: a request is taken whoever it names.
HeardAnyone(p) == request # "none"

\* _watch takes a request that names its own process (one without a name, put there by hand, is left out).
Heard(p) == request = p

\* The request is read, and the controller rests.
Decide(p) ==
  /\ server[p] = "serving"
  /\ Heard(p)
  /\ idle
  /\ To(p, "deciding")
  /\ UNCHANGED <<files, scripts, asked>>

\* The request is removed, whatever it names by now.
ShutDown(p) ==
  /\ server[p] = "deciding"
  /\ request' = "none"
  /\ To(p, "closing")
  /\ UNCHANGED <<lock, record, state, lost, scripts, asked>>

\* SIGINT, SIGTERM or SIGHUP.
Interrupt(p) ==
  /\ server[p] \in {"serving", "deciding"}
  /\ To(p, "closing")
  /\ UNCHANGED <<files, scripts, asked>>

\* serve_until_stopped waits for the calls that run.
Closed(p) ==
  /\ server[p] = "closing"
  /\ idle
  /\ Written(p, "stopped")
  /\ To(p, "stopped")
  /\ UNCHANGED <<lock, record, request, lost, scripts, asked>>

Leave(p) ==
  /\ server[p] = "stopped"
  /\ Exit(p)
  /\ UNCHANGED <<record, state, request, lost, scripts, asked>>

\* The process is killed, or WSL is shut down.
Die(p) ==
  /\ Alive(p)
  /\ Exit(p)
  /\ UNCHANGED <<record, state, request, lost, scripts, asked>>

\* A participant or a synthesis starts or ends; nothing starts once the server is closing.
Work ==
  /\ \E p \in Script : server[p] \in Running /\ (idle => server[p] # "closing")
  /\ idle' = ~idle
  /\ UNCHANGED <<files, server, old, scripts, asked>>

-----------------------------------------------------------------------------
(* The script (start.ps1), each launch command being a process of its own.   *)

Go(s, where) == pc' = [pc EXCEPT ![s] = where]

\* launch status; a server that runs is joined, otherwise one is started.
Status(s) ==
  /\ pc[s] = "status"
  /\ IF Alive(state.of) /\ state.status = "running"
     THEN /\ nonce' = [nonce EXCEPT ![s] = state.of]
          /\ Go(s, IF request # "none" THEN "uncancel" ELSE "look")
          /\ UNCHANGED server
     ELSE /\ nonce' = [nonce EXCEPT ![s] = s]
          /\ server' = [server EXCEPT ![s] = "begun"]
          /\ Go(s, "wait")
  /\ UNCHANGED <<files, old, idle, opened, owner, window, asked>>

\* launch cancel-stop
Uncancel(s) ==
  /\ pc[s] = "uncancel"
  /\ request' = "none"
  /\ Go(s, "look")
  /\ UNCHANGED <<lock, record, state, lost, servers, nonce, opened, owner, window, asked>>

\* launch url without a nonce: whatever server the state tells of.
Look(s) ==
  /\ pc[s] = "look"
  /\ IF Alive(state.of) /\ state.status = "running" /\ server[state.of] \in Running
     THEN opened' = [opened EXCEPT ![s] = state.of] /\ Go(s, "count")
     ELSE UNCHANGED opened /\ Go(s, "done")
  /\ UNCHANGED <<files, servers, nonce, owner, window, asked>>

\* An earlier copy watches the windows there are.
Count(s) ==
  /\ pc[s] = "count"
  /\ owner' = [owner EXCEPT ![s] = window = {}]
  /\ Go(s, "show")
  /\ UNCHANGED <<files, servers, nonce, opened, window, asked>>

\* The server a url of this nonce may show: its own, or the one its own has lost to.
Shown(s) == IF state.of = s THEN s ELSE IF lost[s] \in Script /\ state.of = lost[s] THEN lost[s] ELSE "none"

\* launch url with the nonce.
Wait(s) ==
  /\ pc[s] = "wait"
  /\ Shown(s) # "none"
  /\ state.status = "running" /\ server[Shown(s)] \in Running
  /\ opened' = [opened EXCEPT ![s] = Shown(s)]
  /\ owner' = [owner EXCEPT ![s] = Shown(s) = s]
  /\ lost' = [lost EXCEPT ![s] = IF Shown(s) = s THEN @ ELSE "none"]
  /\ Go(s, "show")
  /\ UNCHANGED <<lock, record, state, request, servers, nonce, window, asked>>

\* The server did not come up, was refused or has ended, the winner is gone, or the time is over.
GiveUp(s) ==
  /\ pc[s] \in {"look", "wait"}
  /\ Go(s, "done")
  /\ UNCHANGED <<files, servers, nonce, opened, owner, window, asked>>

Show(s) ==
  /\ pc[s] = "show"
  /\ window' = window \union {s}
  /\ Go(s, IF owner[s] THEN "watch" ELSE "done")
  /\ UNCHANGED <<files, servers, nonce, opened, owner, asked>>

\* The user closes a window; the copy that opened it may have ended before.
Close(s) ==
  /\ s \in window
  /\ window' = window \ {s}
  /\ UNCHANGED <<files, servers, pc, nonce, opened, owner, asked>>

\* No window of the profile is left.
AllClosed(s) ==
  /\ pc[s] = "watch"
  /\ window = {}
  /\ Go(s, "stop")
  /\ UNCHANGED <<files, servers, nonce, opened, owner, window, asked>>

\* launch stop --nonce
Stop(s) ==
  /\ pc[s] = "stop"
  /\ Go(s, IF Alive(state.of) /\ state.of = nonce[s] THEN "write" ELSE "done")
  /\ UNCHANGED <<files, servers, nonce, opened, owner, window, asked>>

\* _request_stop puts the whole file there at once.
WriteRequest(s) ==
  /\ pc[s] = "write"
  /\ request' = nonce[s]
  /\ asked' = asked \union {nonce[s]}
  /\ Go(s, "linger")
  /\ UNCHANGED <<lock, record, state, lost, servers, nonce, opened, owner, window>>

\* The server has ended, or still works and stops by itself later.
StopEnds(s) ==
  /\ pc[s] = "linger"
  /\ Go(s, "done")
  /\ UNCHANGED <<files, servers, nonce, opened, owner, window, asked>>

ServerStep(p) ==
  \/ ReadState(p) \/ TakeLock(p) \/ CutRecord(p) \/ WriteRecord(p) \/ Yield(p) \/ Begin(p) \/ Refuse(p) \/ Serve(p)
  \/ Decide(p) \/ ShutDown(p) \/ Interrupt(p) \/ Closed(p) \/ Leave(p) \/ Die(p)

ScriptStep(s) ==
  \/ Status(s) \/ Uncancel(s) \/ Look(s) \/ Count(s) \/ Wait(s) \/ GiveUp(s) \/ Show(s) \/ Close(s)
  \/ AllClosed(s) \/ Stop(s) \/ WriteRequest(s) \/ StopEnds(s)

Next == Work \/ \E s \in Script : ServerStep(s) \/ ScriptStep(s)

Spec == Init /\ [][Next]_vars

-----------------------------------------------------------------------------
(* Properties.                                                               *)

(***************************************************************************)
(* The files tell of the server that lives: while one serves, the state has   *)
(* its name and says that it runs, and the lock is its own, whatever starts   *)
(* beside it, loses or fails.                                               *)
(***************************************************************************)
LiveIsRecorded == \A p \in Script : server[p] \in Running => state = [of |-> p, status |-> "running"] /\ lock = p

(***************************************************************************)
(* A server stops by itself only if a script that had started or found this   *)
(* very server asked for it, since the server began (start.ps1: stop only the *)
(* server this window opened, not a later replacement; launch.py: another     *)
(* server does not take the request).                                       *)
(***************************************************************************)
StopsOnlyAsked ==
  [][\A p \in Script : server[p] = "deciding" /\ server'[p] = "closing" /\ request' # request =>
       /\ p \in asked
       /\ \E s \in Script : nonce[s] = p /\ pc[s] \in {"linger", "done"} /\ opened[s] # "none"]_vars

=============================================================================
