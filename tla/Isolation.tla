------------------------------ MODULE Isolation ------------------------------
(***************************************************************************)
(* The box a participant's CLI runs in (core/isolation.py): the connections   *)
(* bubblewrap is asked for, in the order it makes them, which requests are    *)
(* refused, and what is seen from the inside of the others.                  *)
(*                                                                         *)
(* A path is the sequence of its names, resolved (realpath).  The root of     *)
(* the box is empty; bubblewrap itself (external) is the rule that a name     *)
(* inside shows what the last connection above it has put there.             *)
(***************************************************************************)
EXTENDS Naturals, Sequences, SequencesExt

Home == <<"home", "u">>
Claude == Home \o <<".claude">>
Codex == Home \o <<".codex">>
Release == Codex \o <<"release">>
Work == <<"data", "work">>
Ledger == <<"data", "ledger">>
Inputs == <<"data", "inputs">>
Usr == <<"usr">>
Bin == <<"bin">>
Etc == <<"etc">>
Tmp == <<"tmp">>
Resolv == <<"mnt", "resolv">>
Opt == <<"opt", "codex">>

\* The paths of the host that tell the requests apart.
HostPath == {Home, Claude, Codex, Release, Work, Ledger, Inputs, Front(Home), Front(Work), Inputs \o <<"f">>,
             Release \o <<"bin">>, Usr, Usr \o <<"claude">>, Bin, Etc, Tmp, Tmp \o <<"w">>, Resolv, Front(Resolv)}

AtMostOne(S) == {{}} \union {{x} : x \in S}

\* The host has /bin as a link into /usr or as a folder, and the resolv.conf of /etc inside or outside of it.
Host == [merged : BOOLEAN, away : BOOLEAN]

\* What a box may ask for.
Request ==
  [work : {Work, Front(Work), Tmp \o <<"w">>, Codex},
   home : {Home, Work},
   ro : AtMostOne({Inputs, Ledger, Codex, Release}) \union {{Codex, Release}},
   rw : AtMostOne({Home, Claude, Codex, Etc}),
   never : AtMostOne({Ledger, Front(Ledger), Usr \o <<"claude">>, Resolv}),
   at : {{}, {<<Release, Opt>>}, {<<Release, Usr \o <<"x">>>>}, {<<Inputs, Claude \o <<"x">>>>}},
   exe : {Usr \o <<"claude">>, Release \o <<"bin">>},
   host : {h \in Host : h.merged = h.away}]

-----------------------------------------------------------------------------
Within(path, parent) == IsPrefix(parent, path)

Mount(path, mode) == [path |-> path, mode |-> mode, host |-> path]

\* Of one mode the outer folders come first.
InOrder(paths) == CHOOSE s \in SetToSeqs(paths) : \A i, j \in DOMAIN s : i < j => Len(s[i]) <= Len(s[j])

ByDepth(paths, mode) ==
  LET inOrder == InOrder(paths) IN [i \in 1..Len(inOrder) |-> Mount(inOrder[i], mode)]

\* The network file of /etc is connected by itself if it lies outside of everything read-only.
System(host) == <<Mount(Usr, "ro"), Mount(Etc, "ro")>> \o (IF host.merged THEN <<>> ELSE <<Mount(Bin, "ro")>>)

Network(host) == IF host.away THEN <<Mount(Resolv, "ro")>> ELSE <<>>

\* Folders connected for reading under another name.
MountAt(a) == [path |-> a[2], mode |-> "ro", host |-> a[1]]

Elsewhere(at) == LET pairs == SetToSeq(at) IN [i \in 1..Len(pairs) |-> MountAt(pairs[i])]

MountPlan(box) ==
  System(box.host)
    \o <<Mount(<<"proc">>, "proc"), Mount(<<"dev">>, "dev"), Mount(Tmp, "tmpfs"), Mount(box.home, "tmpfs")>>
    \o Network(box.host)
    \o Elsewhere(box.at)
    \o ByDepth(box.rw, "rw") \o ByDepth(box.ro, "ro")
    \o <<Mount(box.work, "rw")>>

Binds(m) == m.mode \in {"ro", "rw"}

\* Fault: a folder above a sealed path is connected.
ApartFromInside(m, n) == ~Within(m.host, n)

Apart(m, n) == ~Within(m.host, n) /\ ~Within(n, m.host)

Covers(m, previous) == Within(previous.path, m.path)

Broadens(m, previous) ==
  Within(m.path, previous.path) /\ m.mode \in {"rw", "tmpfs"} /\ previous.mode \in {"ro", "proc", "dev"}

\* A connection under another name needs a place of its own in the box.
Misplaced(m, previous) == m.path # m.host /\ Within(m.path, previous.path) /\ previous.mode # "tmpfs"

ValidMounts(mounts, never) ==
  \A i \in 1..Len(mounts) :
    /\ mounts[i].path # <<>>
    /\ Binds(mounts[i]) => \A n \in never : Apart(mounts[i], n)
    /\ \A j \in 1..(i - 1) :
         /\ ~Covers(mounts[i], mounts[j])
         /\ ~Broadens(mounts[i], mounts[j])
         /\ ~Misplaced(mounts[i], mounts[j])

\* The name of a file of the host in the box, through a connection.
NameIn(m, h) == m.path \o SubSeq(h, Len(m.host) + 1, Len(h))

\* A program in a folder shown under another name is started by that name.
ExeInside(box) ==
  LET moved == {a \in box.at : Within(box.exe, a[1])}
  IN IF moved = {} THEN box.exe
     ELSE LET a == CHOOSE x \in moved : TRUE IN a[2] \o SubSeq(box.exe, Len(a[1]) + 1, Len(box.exe))

Accepted(box) ==
  LET mounts == MountPlan(box)
  IN /\ ValidMounts(mounts, box.never)
     /\ \E m \in Range(mounts) : m.mode = "ro" /\ Within(ExeInside(box), m.path)

\* The connections a CLI needs for itself, and where a participant's Codex is shown (cli_mounts, participant_mounts).
CliMounts(cli, home) ==
  IF cli = "claude-code" THEN [ro |-> {Usr \o <<"claude">>}, rw |-> {home \o <<".claude">>}]
  ELSE [ro |-> {home \o <<".codex", "release">>}, rw |-> {home \o <<".codex">>}]

ParticipantBox(cli, host) ==
  LET own == CliMounts(cli, Home)
      moved == cli = "codex"
  IN [work |-> Work, home |-> Home, ro |-> (IF moved THEN {} ELSE own.ro) \union {Inputs}, rw |-> own.rw, never |-> {Ledger},
      at |-> IF moved THEN {<<h, Opt>> : h \in own.ro} ELSE {}, host |-> host,
      exe |-> IF moved THEN Release \o <<"bin">> ELSE Usr \o <<"claude">>]

-----------------------------------------------------------------------------
\* The connections through which a file of the host is seen.
Shows(mounts, h) ==
  {i \in 1..Len(mounts) :
     /\ Binds(mounts[i])
     /\ Within(h, mounts[i].host)
     /\ \A j \in (i + 1)..Len(mounts) : ~Within(NameIn(mounts[i], h), mounts[j].path)}

(* In a box that was not refused, nothing of a sealed path is seen by any      *)
(* name; what can be written lies in the work folder or in a folder asked for  *)
(* writing, and outside of what was asked for reading under its own name;       *)
(* everything asked for is seen, the work folder for writing; and of the host   *)
(* nothing else is seen but the system (isolation._validate_mounts 170-188).   *)
Sealed(box) ==
  LET mounts == MountPlan(box)
      asked == box.ro \union box.rw \union {box.work} \union {a[1] : a \in box.at}
      system == {m.path : m \in Range(System(box.host) \o Network(box.host))}
  IN Accepted(box) =>
       /\ \A h \in HostPath :
            LET shown == Shows(mounts, h)
                written == \E i \in shown : mounts[i].mode = "rw"
            IN /\ shown # {} => \A n \in box.never : ~Within(h, n)
               /\ shown # {} => \E p \in asked \union system : Within(h, p)
               /\ written => /\ \E p \in box.rw \union {box.work} : Within(h, p)
                             /\ \A p \in box.ro : ~Within(h, p)
       /\ \A p \in asked : Shows(mounts, p) # {}
       /\ \E i \in Shows(mounts, box.work) : mounts[i].mode = "rw"

(* The box a participant gets on a usual host is not refused                   *)
(* (isolation.participant_mounts 106-119, cli_executor.plan 160-167).          *)
Usable(cli, host) == Accepted(ParticipantBox(cli, host))

==============================================================================
