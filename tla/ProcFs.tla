------------------------------- MODULE ProcFs -------------------------------
(***************************************************************************)
(* The processes of the machine as the daemon sees them through /proc, and *)
(* the stream of exec events that execsnoop reports about them.  None of   *)
(* this is code of the repository: it is the environment, modelled from    *)
(* what daemon/src/process.rs, daemon/src/priority.rs and main.rs read.    *)
(*                                                                         *)
(* An executable path and the process name cut out of it are one value of  *)
(* Names.  Kernel threads have no exe link, are skipped by every reader    *)
(* and are left out.                                                       *)
(***************************************************************************)
EXTENDS Integers, Sequences, FiniteSets

CONSTANTS
  MaxPid,    \* pids are 1..MaxPid
  Names,     \* the names processes run under
  Cgroups,   \* the cgroups they may be in
  Boot,      \* pid -> process: the processes alive when the daemon starts
  PidReuse,  \* may the kernel hand out the pid of a dead process again?
  MaxExecs,  \* bound: exec events in flight between execsnoop and the daemon
  Mortal,    \* bound: the pids that may exit
  Execs,     \* bound: the <<pid, name>> a process may change to by an exec
  Moves      \* bound: the <<pid, cgroup>> a process may be moved to

Pid     == 1..MaxPid
NoPid   == 0            \* the parent of pid 1, and Rust's None for a pid
InitPid == 1
NoName  == ""
NoCgroup == ""

Untouched == "untouched"  \* the scheduling a process had before the daemon

Proc   == [ppid : 0..MaxPid, exe : Names, cgroup : Cgroups]
NoProc == [ppid |-> NoPid, exe |-> NoName, cgroup |-> NoCgroup]

\* What execsnoop reports, kept until the daemon's main loop gets to it.
ExecCreateEvent == [pid : Pid, parent_pid : 0..MaxPid, name : Names]

ASSUME ProcFsAssumption ==
  /\ MaxPid \in Nat \ {0}
  /\ MaxExecs \in Nat
  /\ PidReuse \in BOOLEAN
  /\ Mortal \subseteq Pid \ {InitPid}
  /\ Execs \subseteq Pid \X Names
  /\ Moves \subseteq Pid \X Cgroups
  /\ NoName \notin Names
  /\ NoCgroup \notin Cgroups

\* The processes at boot form a tree below pid 1, parents before children.
ASSUME BootAssumption ==
  /\ DOMAIN Boot \subseteq Pid
  /\ InitPid \in DOMAIN Boot
  /\ \A p \in DOMAIN Boot :
       /\ Boot[p] \in Proc
       /\ IF p = InitPid THEN Boot[p].ppid = NoPid
          ELSE Boot[p].ppid \in DOMAIN Boot /\ Boot[p].ppid < p

VARIABLES
  alive,     \* the pids in use
  proc,      \* what /proc says about each of them
  last_pid,  \* the last pid handed out
  execs      \* FIFO of exec events not yet handled by the daemon

procVars == <<alive, proc, last_pid, execs>>

ProcTypeOK ==
  /\ alive \in SUBSET Pid
  /\ proc \in [Pid -> Proc \cup {NoProc}]
  /\ last_pid \in Pid
  /\ execs \in Seq(ExecCreateEvent)

ProcInit ==
  /\ alive = DOMAIN Boot
  /\ proc = [p \in Pid |-> IF p \in DOMAIN Boot THEN Boot[p] ELSE NoProc]
  /\ last_pid \in DOMAIN Boot
  /\ \A p \in DOMAIN Boot : p <= last_pid
  /\ execs = <<>>

-----------------------------------------------------------------------------

\* Pids are handed out in increasing order; once they wrap, any free one may be.
FreePid(c) == c \notin alive /\ (PidReuse \/ c = last_pid + 1)

Fork(p, c) ==
  /\ p \in alive
  /\ FreePid(c)
  /\ alive' = alive \cup {c}
  /\ proc' = [proc EXCEPT ![c] = [proc[p] EXCEPT !.ppid = p]]
  /\ last_pid' = IF PidReuse THEN last_pid ELSE c
  /\ UNCHANGED execs

\* An exec that execsnoop reports, with the parent the process had at that time.
ExecSeen(p, n) ==
  /\ p \in alive
  /\ <<p, n>> \in Execs
  /\ Len(execs) < MaxExecs
  /\ proc' = [proc EXCEPT ![p].exe = n]
  /\ execs' = Append(execs, [pid |-> p, parent_pid |-> proc[p].ppid, name |-> n])
  /\ UNCHANGED <<alive, last_pid>>

\* An exec nobody reports: execsnoop is off, not installed, or lost the event.
ExecUnseen(p, n) ==
  /\ p \in alive
  /\ <<p, n>> \in Execs
  /\ proc[p].exe # n
  /\ proc' = [proc EXCEPT ![p].exe = n]
  /\ UNCHANGED <<alive, last_pid, execs>>

\* A process ends; its children go to its own parent (a subreaper) or to init.
Exit(p, reaper) ==
  /\ p \in alive \cap Mortal
  /\ reaper \in {InitPid, proc[p].ppid}
  /\ alive' = alive \ {p}
  /\ proc' = [q \in Pid |->
                IF q = p THEN NoProc
                ELSE IF q \in alive /\ proc[q].ppid = p
                     THEN [proc[q] EXCEPT !.ppid = reaper]
                     ELSE proc[q]]
  /\ UNCHANGED <<last_pid, execs>>

\* The service manager moves a process to another cgroup.
MoveCgroup(p, g) ==
  /\ p \in alive
  /\ <<p, g>> \in Moves
  /\ proc[p].cgroup # g
  /\ proc' = [proc EXCEPT ![p].cgroup = g]
  /\ UNCHANGED <<alive, last_pid, execs>>

\* The pids on the way from p to the root of the process tree, p excluded.
ProcAncestors(p) ==
  LET up[n \in 0..MaxPid] ==
        IF n = 0 THEN proc[p].ppid
        ELSE LET q == up[n - 1] IN IF q \in Pid THEN proc[q].ppid ELSE NoPid
  IN {up[n] : n \in 0..MaxPid} \cap Pid

\* A live process and everything below it.
ProcTree(p) == {q \in alive : p = q \/ p \in ProcAncestors(q)}
=============================================================================
