---------------------------- MODULE ServiceTimer ----------------------------
(***************************************************************************)
(* The process scheduler with the two tasks of daemon/src/main.rs that keep *)
(* it going without any client: the refresh interval (lines 187-198) and   *)
(* the forwarder of exec events (lines 387-392); and with the scan of /proc *)
(* in a refresh as the code does it, one file at a time, while processes   *)
(* fork, exec, exit and are reparented.                                    *)
(*                                                                         *)
(* Nothing looks at the process map during a scan, and the entries it reads *)
(* belong to different cells, so their insertions are left to its end.     *)
(***************************************************************************)
EXTENDS ServiceProperties

VARIABLES
  refresh_sent,  \* the interval task has sent a refresh not handled yet
  reads,         \* what the scan does next: "nothing" if there is none
  entries,       \* what it has read so far, by pid
  listed,        \* the pids in use when it began
  disturbed      \* history: the pids born, gone or changed since it began

sweepVars == <<reads, entries, listed, disturbed>>
timerVars == <<vars, refresh_sent, sweepVars>>

Reads == {"nothing", "exe", "cgroup", "status"}

\* The entry the scan is at: /proc lists pids in increasing order.
At == IF DOMAIN entries = {} THEN NoPid ELSE Max(DOMAIN entries)

TimerTypeOK ==
  /\ TypeOK
  /\ refresh_sent \in BOOLEAN
  /\ reads \in Reads
  /\ DOMAIN entries \subseteq Pid /\ entries \in [DOMAIN entries -> Observed]
  /\ reads \in {"cgroup", "status"} => DOMAIN entries # {}
  /\ listed \subseteq Pid /\ disturbed \subseteq Pid

\* interval.tick().await, then tx.send(Event::RefreshProcessMap).await
Tick ==
  /\ ~ refresh_sent
  /\ refresh_sent' = TRUE
  /\ UNCHANGED <<vars, sweepVars>>

BeginSweep ==
  /\ refresh_sent /\ reads = "nothing"
  /\ reads' = "exe"
  /\ entries' = <<>>
  /\ listed' = alive /\ disturbed' = {}
  /\ UNCHANGED <<vars, refresh_sent>>

\* Seeded fault: the scan ends at the first entry that is gone when it is read.
ToReadUntilGone == IF listed \subseteq alive THEN {p \in listed : p > At} ELSE {}

\* An entry that is gone when its exe link is read is passed over; one that has
\* come since the scan began may be.
ToRead == {p \in listed \cap alive : p > At}

\* Process::default with the exe link: all that is known of p for now.
NewEntry(p) == [ppid |-> NoPid, name |-> proc[p].exe, cgroup |-> NoCgroup]

\* Seeded fault: entries are passed over.
ReadExeAny(p) ==
  /\ reads = "exe"
  /\ p \in alive /\ p > At
  /\ reads' = "cgroup"
  /\ entries' = [q \in DOMAIN entries \cup {p} |-> IF q = p THEN NewEntry(p) ELSE entries[q]]
  /\ UNCHANGED <<vars, refresh_sent, listed, disturbed>>

ReadExe(p) ==
  /\ reads = "exe"
  /\ p \in alive /\ p > At
  /\ \A q \in ToRead : p <= q
  /\ reads' = "cgroup"
  /\ entries' = [q \in DOMAIN entries \cup {p} |-> IF q = p THEN NewEntry(p) ELSE entries[q]]
  /\ UNCHANGED <<vars, refresh_sent, listed, disturbed>>

\* A file of a process that is gone cannot be read: its field stays empty.
ReadCgroup ==
  /\ reads = "cgroup"
  /\ reads' = "status"
  /\ entries' = IF At \in alive THEN [entries EXCEPT ![At].cgroup = proc[At].cgroup]
                ELSE entries
  /\ UNCHANGED <<vars, refresh_sent, listed, disturbed>>

ReadStatus ==
  /\ reads = "status"
  /\ reads' = "exe"
  /\ entries' = IF At \in alive THEN [entries EXCEPT ![At].ppid = proc[At].ppid]
                ELSE entries
  /\ UNCHANGED <<vars, refresh_sent, listed, disturbed>>

FinishSweep ==
  /\ reads = "exe" /\ ToRead = {}
  /\ reads' = "nothing" /\ refresh_sent' = FALSE
  /\ entries' = <<>> /\ listed' = {} /\ disturbed' = {}
  /\ process_map_refresh(entries)

Sweep == BeginSweep \/ (\E p \in Pid : ReadExe(p)) \/ ReadCgroup \/ ReadStatus \/ FinishSweep

\* The processes go on during a scan; the main loop does nothing else.
Meanwhile ==
  /\ Environment
  /\ disturbed' = IF reads = "nothing" THEN {}
                  ELSE disturbed \cup {p \in Pid : proc'[p] # proc[p]}
  /\ UNCHANGED <<refresh_sent, reads, entries, listed>>

OtherEvents ==
  /\ reads = "nothing"
  /\ Requests \/ ExecCreate
  /\ UNCHANGED <<refresh_sent, sweepVars>>

TimedInit ==
  /\ Init
  /\ refresh_sent = FALSE
  /\ reads = "nothing" /\ entries = <<>>
  /\ listed = {} /\ disturbed = {}

TimedNext == Tick \/ Sweep \/ Meanwhile \/ OtherEvents

\* The runtime polls both tasks and the main loop again and again: the interval
\* ticks, its event is handled to the end, and exec events are.  (Tick and
\* FinishSweep are the only steps that change refresh_sent, ExecCreate the only
\* one that shortens execs; said of these variables, the conditions are cheap to
\* check.  The one is always enabled after finitely many steps of the daemon.)
Fairness ==
  /\ WF_refresh_sent(refresh_sent' = ~ refresh_sent)
  /\ WF_execs(execs # <<>> /\ execs' = Tail(execs))

TimedSpec == TimedInit /\ [][TimedNext]_timerVars /\ Fairness

-----------------------------------------------------------------------------
(* What a scan that is no snapshot still guarantees *)

\* A refresh records every process that went through it undisturbed just as it
\* is, in one cell with a decided priority, and drops what was gone before it
\* began, whatever else came, went or changed between its reads (the loop of
\* process_map_refresh).
SweepTruthful ==
  [][FinishSweep =>
       /\ \A p \in listed \ disturbed : LET k == <<p, proc[p].ppid>> IN
            /\ {c \in process_map'.map : c[1] = p} = {k}
            /\ [name |-> proc[p].exe, cgroup |-> proc[p].cgroup]
                 = [name |-> Cell(k)'.name, cgroup |-> Cell(k)'.cgroup]
            /\ Cell(k)'.assigned_priority # NotAssignable
       /\ \A k \in process_map'.map : k[1] \in listed \cup disturbed]_timerVars

\* If nothing happened in between, reading one file after the other comes to what
\* one look at everything would have come to: the step of Service.
QuietSweepIsOneStep ==
  [][FinishSweep /\ disturbed = {} => RefreshProcessMap]_timerVars
=============================================================================
