------------------------- MODULE ServiceTimerProofs -------------------------
(***************************************************************************)
(* The guarantees of ServiceProofs and ServicePropertyProofs hold as well   *)
(* when /proc is read one file at a time; such a scan records what went     *)
(* through it undisturbed as it is, and is, when nothing happens during it, *)
(* the one step that Service takes it to be.                                *)
(***************************************************************************)
EXTENDS ServiceTimer, ServicePropertyProofs

\* A pid that is not in use has no entry in /proc.
DeadHasNoProc == \A p \in Pid \ alive : proc[p] = NoProc

\* What the scan has read of the processes that went through it undisturbed, up
\* to the entry it is at.
SweepSound ==
  reads # "nothing" =>
    /\ DOMAIN entries # {} => At \in DOMAIN entries
    /\ \A q \in DOMAIN entries : q <= At
    /\ \A p \in Pid \ disturbed : p \in listed <=> p \in alive
    /\ \A p \in listed \ disturbed : p <= At => p \in DOMAIN entries
    /\ \A p \in DOMAIN entries \ disturbed :
         /\ p \in alive
         /\ entries[p].name = proc[p].exe
         /\ p # At \/ reads # "cgroup" => entries[p].cgroup = proc[p].cgroup
         /\ p # At \/ reads = "exe" => entries[p].ppid = proc[p].ppid

TimedInv == Inv /\ DeadHasNoProc /\ TimerTypeOK /\ SweepSound

-----------------------------------------------------------------------------
(* The entry the scan is at *)

LEMMA MaxIs ==
  ASSUME NEW S \in SUBSET Int, NEW m \in S, \A y \in S : m >= y
  PROVE  Max(S) = m
<1>1. /\ Max(S) \in S
      /\ \A y \in S : Max(S) >= y
  BY DEF Max
<1>2. m \in Int /\ Max(S) \in Int
  BY <1>1
<1>3. m >= Max(S) /\ Max(S) >= m
  BY <1>1
<1> QED BY <1>2, <1>3

LEMMA AtType ==
  ASSUME TimerTypeOK, SweepSound, reads # "nothing"
  PROVE  At \in Pid \cup {NoPid}
<1>1. CASE DOMAIN entries = {}
  BY <1>1 DEF At
<1>2. CASE DOMAIN entries # {}
  BY <1>2 DEF SweepSound, TimerTypeOK
<1> QED BY <1>1, <1>2

\* Reading the next entry moves the scan to it.
LEMMA ReadExeMoves ==
  ASSUME TimedInv, NEW p \in Pid, ReadExe(p)
  PROVE  /\ DOMAIN entries' = DOMAIN entries \cup {p}
         /\ \A q \in DOMAIN entries : entries'[q] = entries[q] /\ q < p
         /\ entries'[p] = NewEntry(p)
         /\ At' = p
<1>1. At \in Pid \cup {NoPid} /\ p > At /\ \A q \in DOMAIN entries : q <= At
  BY AtType DEF TimedInv, ReadExe, SweepSound
<1>2. DOMAIN entries \subseteq Pid
  BY DEF TimedInv, TimerTypeOK
<1>3. \A q \in DOMAIN entries : q < p
  BY <1>1, <1>2 DEF Pid, NoPid
<1>4. /\ DOMAIN entries' = DOMAIN entries \cup {p}
      /\ \A q \in DOMAIN entries : entries'[q] = entries[q]
      /\ entries'[p] = NewEntry(p)
  <2>1. p \notin DOMAIN entries
    BY <1>2, <1>3 DEF Pid
  <2> QED BY <2>1 DEF ReadExe
<1>5. Max(DOMAIN entries') = p
  <2>1. DOMAIN entries' \in SUBSET Int /\ p \in DOMAIN entries'
    BY <1>2, <1>4 DEF Pid
  <2>2. \A y \in DOMAIN entries' : p >= y
    BY <1>2, <1>3, <1>4 DEF Pid
  <2> QED BY <2>1, <2>2, MaxIs
<1>6. At' = p
  BY <1>4, <1>5 DEF At
<1> QED BY <1>3, <1>4, <1>6

-----------------------------------------------------------------------------
(* Every step keeps the invariant *)

LEMMA AliveByProc ==
  ASSUME Inv, DeadHasNoProc, NEW p \in Pid
  PROVE  p \in alive <=> proc[p] # NoProc
<1>1. proc[p] \in Proc => proc[p] # NoProc
  BY ProcFsAssumption DEF Proc, NoProc
<1> QED BY <1>1 DEF Inv, AliveHasProc, DeadHasNoProc

LEMMA EnvironmentDead ==
  ASSUME Inv, DeadHasNoProc, Environment
  PROVE  DeadHasNoProc'
<1> USE DEF DeadHasNoProc, Inv, TypeOK, ProcTypeOK
<1>1. ASSUME NEW p \in Pid, NEW c \in Pid, ForkProcess(p, c)
      PROVE  DeadHasNoProc'
  BY <1>1 DEF ForkProcess, Fork
<1>2. ASSUME NEW p \in Pid, NEW reaper \in Pid, ExitProcess(p, reaper)
      PROVE  DeadHasNoProc'
  BY <1>2 DEF ExitProcess, Exit
<1>3. ASSUME NEW p \in Pid, NEW n \in Names, ExecProcess(p, n)
      PROVE  DeadHasNoProc'
  BY <1>3 DEF ExecProcess, ExecSeen, ExecUnseen
<1>4. ASSUME NEW p \in Pid, NEW g \in Cgroups, MoveProcess(p, g)
      PROVE  DeadHasNoProc'
  BY <1>4 DEF MoveProcess, MoveCgroup
<1> QED BY <1>1, <1>2, <1>3, <1>4 DEF Environment

LEMMA EnvironmentInv ==
  ASSUME Inv, Environment
  PROVE  Inv'
BY ForkProcessInv, ExitProcessInv, ExecProcessInv, MoveProcessInv DEF Environment

LEMMA MeanwhileInv ==
  ASSUME TimedInv, Meanwhile
  PROVE  TimedInv'
<1> USE DEF TimedInv
<1>1. Inv' /\ DeadHasNoProc'
  BY EnvironmentInv, EnvironmentDead DEF Meanwhile
<1>2. TimerTypeOK'
  BY <1>1 DEF Meanwhile, TimerTypeOK, Inv
<1>3. SweepSound'
  <2> SUFFICES ASSUME reads # "nothing"
               PROVE  SweepSound'
    BY DEF SweepSound, Meanwhile
  <2>1. /\ UNCHANGED <<reads, entries, listed>>
        /\ disturbed' = disturbed \cup {p \in Pid : proc'[p] # proc[p]}
        /\ At' = At
    BY DEF Meanwhile, At
  <2>2. ASSUME NEW p \in Pid \ disturbed'
        PROVE  p \notin disturbed /\ proc'[p] = proc[p] /\ (p \in alive' <=> p \in alive)
    <3>1. p \notin disturbed /\ proc'[p] = proc[p]
      BY <2>1
    <3>2. p \in alive <=> proc[p] # NoProc
      BY AliveByProc
    <3>3. p \in alive' <=> proc'[p] # NoProc
      <4>1. proc'[p] \in Proc => proc'[p] # NoProc
        BY ProcFsAssumption DEF Proc, NoProc
      <4> QED BY <1>1, <4>1 DEF Inv, AliveHasProc, DeadHasNoProc
    <3> QED BY <3>1, <3>2, <3>3
  <2>3. DOMAIN entries \subseteq Pid /\ listed \subseteq Pid
    BY DEF TimerTypeOK
  <2> QED BY <2>1, <2>2, <2>3 DEF SweepSound
<1> QED BY <1>1, <1>2, <1>3

LEMMA TickInv ==
  ASSUME TimedInv, Tick \/ UNCHANGED timerVars
  PROVE  TimedInv'
<1> USE DEF TimedInv
<1>1. UNCHANGED <<vars, reads, entries, listed, disturbed>> /\ refresh_sent' \in BOOLEAN
  BY DEF Tick, timerVars, sweepVars, TimerTypeOK
<1>2. Inv'
  BY <1>1, NextInv
<1>3. DeadHasNoProc' /\ TimerTypeOK'
  BY <1>1, <1>2 DEF DeadHasNoProc, TimerTypeOK, Inv, vars, procVars
<1>4. SweepSound'
  BY <1>1 DEF SweepSound, At, vars, procVars
<1> QED BY <1>2, <1>3, <1>4

LEMMA BeginSweepInv ==
  ASSUME TimedInv, BeginSweep
  PROVE  TimedInv'
<1> USE DEF TimedInv
<1>1. /\ UNCHANGED <<vars, refresh_sent>>
      /\ reads' = "exe" /\ entries' = <<>> /\ listed' = alive /\ disturbed' = {}
  BY DEF BeginSweep
<1>2. Inv' /\ DeadHasNoProc'
  BY <1>1, NextInv DEF DeadHasNoProc, vars, procVars
<1>3. DOMAIN entries' = {}
  BY <1>1
<1>4. entries' \in [DOMAIN entries' -> Observed] /\ At' = NoPid
  BY <1>1, <1>3 DEF At
<1>5. alive \subseteq Pid /\ alive' = alive
  BY <1>1 DEF Inv, TypeOK, ProcTypeOK, vars, procVars
<1>6. TimerTypeOK'
  BY <1>1, <1>2, <1>3, <1>4, <1>5 DEF TimerTypeOK, Reads, Inv
<1>7. SweepSound'
  BY <1>1, <1>3, <1>4, <1>5 DEF SweepSound, Pid, NoPid
<1> QED BY <1>2, <1>6, <1>7

LEMMA ReadExeInv ==
  ASSUME TimedInv, NEW p \in Pid, ReadExe(p)
  PROVE  TimedInv'
<1> USE DEF TimedInv
<1>1. /\ DOMAIN entries' = DOMAIN entries \cup {p}
      /\ \A q \in DOMAIN entries : entries'[q] = entries[q] /\ q < p
      /\ entries'[p] = NewEntry(p)
      /\ At' = p
  BY ReadExeMoves
<1>2. /\ UNCHANGED <<vars, refresh_sent, listed, disturbed>>
      /\ reads = "exe" /\ reads' = "cgroup"
      /\ p \in alive
      /\ \A q \in ToRead : p <= q
      /\ entries' = [q \in DOMAIN entries \cup {p} |-> IF q = p THEN NewEntry(p) ELSE entries[q]]
  BY DEF ReadExe
<1>3. Inv' /\ DeadHasNoProc'
  BY <1>2, NextInv DEF DeadHasNoProc, vars, procVars
<1>4. DOMAIN entries \subseteq Pid /\ listed \subseteq Pid
  BY DEF TimerTypeOK
<1>5. NewEntry(p) \in Observed
  <2>1. proc[p] \in Proc
    BY <1>2 DEF Inv, AliveHasProc
  <2> QED BY <2>1, ProcFsAssumption DEF NewEntry, Observed, Proc, NoPid
<1>6. entries' \in [DOMAIN entries' -> Observed]
  BY <1>1, <1>2, <1>5 DEF TimerTypeOK
<1>7. TimerTypeOK'
  BY <1>1, <1>2, <1>3, <1>4, <1>6 DEF TimerTypeOK, Reads, Inv
<1>8. \A q \in listed \ disturbed : q <= p => q \in DOMAIN entries'
  <2> SUFFICES ASSUME NEW q \in listed \ disturbed, q <= p, q # p
               PROVE  q \in DOMAIN entries
    BY <1>1
  <2>1. q \in listed \cap alive /\ q \in Int /\ p \in Int
    BY <1>2, <1>4 DEF SweepSound, Pid
  <2>2. At \in Int
    BY <1>2, AtType DEF Pid, NoPid
  <2>3. q <= At
    BY <1>2, <2>1, <2>2 DEF ToRead
  <2> QED BY <1>2, <2>3 DEF SweepSound
<1>9. SweepSound'
  <2>1. \A q \in DOMAIN entries' : q <= p
    BY <1>1, <1>4 DEF Pid
  <2>2. UNCHANGED <<alive, proc, listed, disturbed>>
    BY <1>2 DEF vars, procVars
  <2>3. \A q \in DOMAIN entries \ disturbed :
          /\ q \in alive /\ q # p
          /\ entries'[q].name = proc[q].exe
          /\ entries'[q].cgroup = proc[q].cgroup
          /\ entries'[q].ppid = proc[q].ppid
    BY <1>1, <1>2, <1>4 DEF SweepSound, Pid
  <2>4. NewEntry(p).name = proc[p].exe
    BY DEF NewEntry
  <2>5. \A q \in Pid \ disturbed : q \in listed <=> q \in alive
    BY <1>2 DEF SweepSound
  <2> HIDE DEF TimedInv
  <2> QED BY <1>1, <1>2, <1>8, <2>1, <2>2, <2>3, <2>4, <2>5 DEF SweepSound
<1> QED BY <1>3, <1>7, <1>9

\* The other two files fill one field of the entry, if its process is still there.
LEMMA FillInv ==
  ASSUME TimedInv, ReadCgroup \/ ReadStatus
  PROVE  TimedInv'
<1> USE DEF TimedInv
<1>1. /\ UNCHANGED <<vars, refresh_sent, listed, disturbed>>
      /\ \/ reads = "cgroup" /\ reads' = "status"
         \/ reads = "status" /\ reads' = "exe"
      /\ entries' \in {entries, [entries EXCEPT ![At].cgroup = proc[At].cgroup],
                        [entries EXCEPT ![At].ppid = proc[At].ppid]}
  BY DEF ReadCgroup, ReadStatus
<1>2. Inv' /\ DeadHasNoProc'
  BY <1>1, NextInv DEF DeadHasNoProc, vars, procVars
<1>3. At \in DOMAIN entries /\ DOMAIN entries' = DOMAIN entries /\ At' = At
  BY <1>1 DEF TimerTypeOK, SweepSound, At
<1>4. DOMAIN entries \subseteq Pid /\ entries[At] \in Observed
  BY <1>3 DEF TimerTypeOK
<1>5. At \in alive => proc[At] \in Proc
  BY DEF Inv, AliveHasProc
<1>6. /\ entries' \in [DOMAIN entries' -> Observed]
      /\ \A q \in DOMAIN entries : q # At => entries'[q] = entries[q]
      /\ entries'[At].name = entries[At].name
  <2>1. CASE entries' = entries
    BY <2>1 DEF TimerTypeOK
  <2>2. CASE At \in alive /\ entries' = [entries EXCEPT ![At].cgroup = proc[At].cgroup]
    BY <2>2, <1>3, <1>4, <1>5 DEF TimerTypeOK, Observed, Proc
  <2>3. CASE At \in alive /\ entries' = [entries EXCEPT ![At].ppid = proc[At].ppid]
    BY <2>3, <1>3, <1>4, <1>5 DEF TimerTypeOK, Observed, Proc
  <2> QED BY <2>1, <2>2, <2>3 DEF ReadCgroup, ReadStatus
<1>7. TimerTypeOK'
  BY <1>1, <1>2, <1>3, <1>4, <1>6 DEF TimerTypeOK, Reads, Inv
<1>8. ASSUME At \in alive
      PROVE  /\ reads = "cgroup" => entries'[At].cgroup = proc[At].cgroup
             /\ reads = "status" => /\ entries'[At].cgroup = entries[At].cgroup
                                    /\ entries'[At].ppid = proc[At].ppid
  BY <1>3, <1>4, <1>8 DEF ReadCgroup, ReadStatus, Observed
<1>9. SweepSound'
  <2>1. UNCHANGED <<alive, proc, listed, disturbed>>
    BY <1>1 DEF vars, procVars
  <2> QED BY <1>1, <1>3, <1>6, <1>8, <2>1 DEF SweepSound
<1> QED BY <1>2, <1>7, <1>9

LEMMA FinishSweepInv ==
  ASSUME TimedInv, FinishSweep
  PROVE  TimedInv'
<1> USE DEF TimedInv
<1>1. IsObservation(entries)
  BY DEF TimerTypeOK, IsObservation
<1>2. process_map_refresh(entries)
  BY DEF FinishSweep
<1>3. Inv'
  BY <1>1, <1>2, SweepInv
<1>4. DeadHasNoProc'
  BY <1>2 DEF process_map_refresh, procVars, DeadHasNoProc
<1>5. /\ reads' = "nothing" /\ refresh_sent' = FALSE
      /\ entries' = <<>> /\ listed' = {} /\ disturbed' = {}
  BY DEF FinishSweep
<1>6. DOMAIN entries' = {} /\ entries' \in [DOMAIN entries' -> Observed]
  BY <1>5
<1>7. TimerTypeOK'
  BY <1>3, <1>5, <1>6 DEF TimerTypeOK, Reads, Inv
<1>8. SweepSound'
  BY <1>5 DEF SweepSound
<1> QED BY <1>3, <1>4, <1>7, <1>8

LEMMA OtherEventsInv ==
  ASSUME TimedInv, OtherEvents
  PROVE  TimedInv'
<1> USE DEF TimedInv
<1>1. /\ reads = "nothing" /\ UNCHANGED <<refresh_sent, reads, entries, listed, disturbed>>
      /\ Requests \/ ExecCreate
  BY DEF OtherEvents, sweepVars
<1>2. Inv'
  BY <1>1, NextInv DEF Next
<1>3. UNCHANGED <<alive, proc>>
  BY <1>1 DEF Requests, ExecCreate, SetForegroundProcess, PipewireAdd, PipewireRemove,
              ReloadConfiguration, procVars
<1>4. DeadHasNoProc' /\ TimerTypeOK' /\ SweepSound'
  BY <1>1, <1>2, <1>3 DEF DeadHasNoProc, TimerTypeOK, SweepSound, Inv
<1> QED BY <1>2, <1>4

LEMMA TimedInitInv == TimedInit => TimedInv
<1> SUFFICES ASSUME TimedInit
             PROVE  TimedInv
  OBVIOUS
<1>1. Inv
  BY InitInv DEF TimedInit
<1>2. DeadHasNoProc
  BY DEF TimedInit, Init, ProcInit, DeadHasNoProc
<1>3. DOMAIN entries = {} /\ entries \in [DOMAIN entries -> Observed]
  BY DEF TimedInit
<1>4. TimerTypeOK
  BY <1>1, <1>3 DEF TimedInit, TimerTypeOK, Reads, Inv
<1>5. SweepSound
  BY DEF TimedInit, SweepSound
<1> QED BY <1>1, <1>2, <1>4, <1>5 DEF TimedInv

LEMMA TimedNextInv == TimedInv /\ [TimedNext]_timerVars => TimedInv'
<1> SUFFICES ASSUME TimedInv, [TimedNext]_timerVars
             PROVE  TimedInv'
  OBVIOUS
<1>1. CASE Tick \/ UNCHANGED timerVars
  BY <1>1, TickInv
<1>2. CASE Sweep
  BY <1>2, BeginSweepInv, ReadExeInv, FillInv, FinishSweepInv DEF Sweep
<1>3. CASE Meanwhile
  BY <1>3, MeanwhileInv
<1>4. CASE OtherEvents
  BY <1>4, OtherEventsInv
<1> QED BY <1>1, <1>2, <1>3, <1>4 DEF TimedNext

-----------------------------------------------------------------------------
(* What holds while /proc is read one file at a time *)

\* The inductive invariant of the process scheduler with its timer.
THEOREM TimedInvariance == TimedSpec => []TimedInv
BY TimedInitInv, TimedNextInv, PTL DEF TimedSpec

\* Entries torn by an exit, and entries missed, leave every table well typed.
THEOREM TimedTypeCorrect == TimedSpec => []TimerTypeOK
<1>1. TimedInv => TimerTypeOK
  BY DEF TimedInv
<1> QED BY <1>1, TimedInvariance, PTL

\* They leave the pid index and the parent pointers sound, too.
THEOREM TimedMapSound == TimedSpec => [](PidMapSound /\ ParentLinkAgrees)
<1>1. TimedInv => PidMapSound /\ ParentLinkAgrees
  BY DEF TimedInv, Inv, WellFormed, PidMapSound, ParentLinkAgrees
<1> QED BY <1>1, TimedInvariance, PTL

\* A scan that nothing disturbs has read what one look at /proc would have shown.
LEMMA QuietEntries ==
  ASSUME TimedInv, reads = "exe", ToRead = {}, disturbed = {}
  PROVE  entries = Scan
<1> USE DEF TimedInv
<1>1. DOMAIN entries = alive
  <2>1. alive \subseteq Pid /\ listed = alive
    BY DEF SweepSound, TimerTypeOK, Inv, TypeOK, ProcTypeOK
  <2>2. At \in Int
    BY AtType DEF Pid, NoPid
  <2>3. \A p \in alive : p <= At
    BY <2>1, <2>2 DEF ToRead, Pid
  <2> QED BY <2>1, <2>3 DEF SweepSound
<1>2. ASSUME NEW p \in alive
      PROVE  entries[p] = Observe(p)
  <2>1. entries[p] \in Observed
    BY <1>1 DEF TimerTypeOK
  <2>2. entries[p].name = proc[p].exe /\ entries[p].cgroup = proc[p].cgroup
        /\ entries[p].ppid = proc[p].ppid
    BY <1>1 DEF SweepSound
  <2> QED BY <2>1, <2>2 DEF Observed, Observe
<1>3. entries = [p \in DOMAIN entries |-> entries[p]]
  BY DEF TimerTypeOK
<1> QED BY <1>1, <1>2, <1>3 DEF Scan

\* So the sweep is, then, the one step that Service takes it to be.
THEOREM QuietSweeps == TimedSpec => QuietSweepIsOneStep
<1>1. TimedInv /\ [TimedNext]_timerVars
        => [FinishSweep /\ disturbed = {} => RefreshProcessMap]_timerVars
  <2> SUFFICES ASSUME TimedInv, FinishSweep, disturbed = {}
               PROVE  RefreshProcessMap
    OBVIOUS
  <2>1. reads = "exe" /\ ToRead = {} /\ process_map_refresh(entries)
    BY DEF FinishSweep
  <2>2. entries = Scan
    BY <2>1, QuietEntries
  <2> QED BY <2>1, <2>2 DEF RefreshProcessMap
<1> QED BY <1>1, TimedInvariance, PTL DEF TimedSpec, QuietSweepIsOneStep

-----------------------------------------------------------------------------
(* What such a scan tells of each process *)

\* A scan that is at its end has read every process that it found undisturbed, and
\* nothing of a process that was gone before it began.
LEMMA EntriesTruthful ==
  ASSUME TimedInv, reads = "exe", ToRead = {}
  PROVE  /\ \A p \in listed \ disturbed :
              /\ p \in DOMAIN entries /\ p \in alive
              /\ entries[p].name = proc[p].exe
              /\ entries[p].cgroup = proc[p].cgroup
              /\ entries[p].ppid = proc[p].ppid
         /\ DOMAIN entries \subseteq listed \cup disturbed
         /\ alive \subseteq listed \cup disturbed
<1> USE DEF TimedInv
<1>1. alive \subseteq Pid /\ listed \subseteq Pid /\ DOMAIN entries \subseteq Pid
  BY DEF TimerTypeOK, Inv, TypeOK, ProcTypeOK
<1>2. \A p \in Pid \ disturbed : p \in listed <=> p \in alive
  BY DEF SweepSound
<1>3. ASSUME NEW p \in listed \ disturbed
      PROVE  p \in DOMAIN entries /\ p \in alive
  <2>1. p \in alive /\ p \in Int
    BY <1>1, <1>2, <1>3 DEF Pid
  <2>2. At \in Int
    BY AtType DEF Pid, NoPid
  <2>3. p <= At
    BY <1>3, <2>1, <2>2 DEF ToRead
  <2> QED BY <1>3, <2>1, <2>3 DEF SweepSound
<1>4. \A p \in DOMAIN entries \ disturbed :
        /\ p \in alive
        /\ entries[p].name = proc[p].exe
        /\ entries[p].cgroup = proc[p].cgroup
        /\ entries[p].ppid = proc[p].ppid
  BY DEF SweepSound
<1> QED BY <1>1, <1>2, <1>3, <1>4

\* Whatever has a cgroup is decided by the pass over the cells it is in.
LEMMA AssignDecides ==
  ASSUME TypeOK, NEW pm, WellFormed(pm), NEW S, NEW k \in Key, k \in S,
         assign_process_priority(pm, S).cell[k].cgroup # NoCgroup
  PROVE  assign_process_priority(pm, S).cell[k].assigned_priority # NotAssignable
<1> DEFINE res == assign_process_priority(pm, S)
<1>1. /\ SameIdentity(res.cell[k], pm.cell[k])
      /\ pm.cell[k].assigned_priority # NotAssignable => res.cell[k] = pm.cell[k]
  BY AssignShape
<1>2. pm.cell[k].cgroup # NoCgroup
  BY <1>1 DEF SameIdentity
<1>3. CASE pm.cell[k].assigned_priority # NotAssignable
  BY <1>1, <1>3
<1>4. CASE pm.cell[k].assigned_priority = NotAssignable
  <2>1. res.cell[k] = [pm.cell[k] EXCEPT !.assigned_priority = assignment(config, pm, k)]
    BY <1>4, MapFields DEF assign_process_priority, WellFormed, Map
  <2>2. pm.cell[k] \in Process
    BY MapFields
  <2>3. res.cell[k].assigned_priority = assignment(config, pm, k)
    BY <2>1, <2>2 DEF Process
  <2>4. IsConfig(config)
    BY ServiceAssumption DEF TypeOK
  <2> QED BY <1>2, <2>3, <2>4, AssignmentDecides
<1> QED BY <1>3, <1>4

LEMMA SweptDecides ==
  ASSUME Inv, NEW new, IsObservation(new), NEW k \in KeysOf(new), k \in Key,
         new[k[1]].cgroup # NoCgroup
  PROVE  Swept(new).cell[k].assigned_priority # NotAssignable
<1> USE DEF Inv
<1> DEFINE live == KeysOf(new)
           seen == insert(process_map, new)
           m1   == link(seen, {c \in live : get_pid(seen, c[1]) = c})
           m2   == drain_filter(m1, live)
<1>1. WellFormed(m2)
  BY InsertWellFormed, LinkWellFormed, DrainFilterWellFormed
<1>2. Swept(new) = assign_process_priority(m2, live)
  BY DEF Swept
<1>3. Swept(new).cell[k].cgroup # NoCgroup
  <2>1. Swept(new).map = KeysOf(new)
    BY SweptShape
  <2>2. \A c \in Key : c \in KeysOf(new) =>
          Swept(new).cell[c].cgroup = new[c[1]].cgroup
    BY SweptShape
  <2> QED BY <2>2
<1> HIDE DEF m2
<1> QED BY <1>1, <1>2, <1>3, AssignDecides

LEMMA AssignNewDecides ==
  ASSUME TypeOK, NEW pm, WellFormed(pm), NEW new, IsObservation(new),
         NEW k \in KeysOf(new), k \in Key, new[k[1]].cgroup # NoCgroup
  PROVE  assign_new_process(pm, new).cell[k].assigned_priority # NotAssignable
<1> DEFINE m2 == link(insert(pm, new), KeysOf(new))
           m3 == inherit_pipewire(m2, KeysOf(new))
<1>1. WellFormed(m3)
  BY InsertWellFormed, LinkWellFormed, InheritWellFormed
<1>2. assign_new_process(pm, new) = assign_process_priority(m3, KeysOf(new))
  BY DEF assign_new_process
<1>3. assign_new_process(pm, new).cell[k].cgroup # NoCgroup
  BY AssignNewShape
<1> HIDE DEF m3
<1> QED BY <1>1, <1>2, <1>3, AssignDecides

\* What assign_children makes of the swept cells once more says the same.
LEMMA SweepStepTruthful ==
  ASSUME TimedInv, FinishSweep
  PROVE  /\ \A p \in listed \ disturbed : LET k == <<p, proc[p].ppid>> IN
              /\ {c \in process_map'.map : c[1] = p} = {k}
              /\ [name |-> proc[p].exe, cgroup |-> proc[p].cgroup]
                   = [name |-> Cell(k)'.name, cgroup |-> Cell(k)'.cgroup]
              /\ Cell(k)'.assigned_priority # NotAssignable
         /\ \A k \in process_map'.map : k[1] \in listed \cup disturbed
<1> USE DEF TimedInv, Inv
<1> DEFINE pm   == Swept(entries)
           kids == NewChildren(pm, foreground)
           pm2  == assign_new_process(pm, kids)
<1>1. reads = "exe" /\ ToRead = {} /\ process_map_refresh(entries)
  BY DEF FinishSweep
<1>2. process_map' = pm2 /\ proc' = proc
  BY <1>1 DEF process_map_refresh, Swept, procVars
<1>3. IsObservation(entries)
  BY DEF TimerTypeOK, IsObservation
<1>4. /\ WellFormed(pm) /\ pm.map = KeysOf(entries)
      /\ \A k \in KeysOf(entries) :
           /\ pm.cell[k].name = entries[k[1]].name
           /\ pm.cell[k].cgroup = entries[k[1]].cgroup
           /\ entries[k[1]].cgroup # NoCgroup => pm.cell[k].assigned_priority # NotAssignable
  <2>1. WellFormed(pm) /\ pm.map = KeysOf(entries)
    BY <1>3, SweptShape
  <2>2. \A k \in Key : k \in KeysOf(entries) =>
          /\ pm.cell[k].name = entries[k[1]].name
          /\ pm.cell[k].cgroup = entries[k[1]].cgroup
    BY <1>3, SweptShape
  <2>3. \A k \in KeysOf(entries) : k \in Key /\ entries[k[1]].cgroup # NoCgroup =>
          pm.cell[k].assigned_priority # NotAssignable
    BY <1>3, SweptDecides
  <2> HIDE DEF pm
  <2> QED BY <1>3, <2>1, <2>2, <2>3, KeysOfType
<1> HIDE DEF pm
<1>5. IsObservation(kids)
  BY NewChildrenObserves
<1>6. /\ DOMAIN kids \subseteq alive
      /\ \A p \in DOMAIN kids : /\ kids[p].name = proc[p].exe
                                /\ kids[p].cgroup = proc[p].cgroup
                                /\ kids[p].ppid = proc[p].ppid
                                /\ kids[p].cgroup # NoCgroup
  <2>1. \A p \in alive : proc[p].cgroup # NoCgroup
    BY ProcFsAssumption DEF AliveHasProc, Proc
  <2> QED BY <2>1 DEF NewChildren, ProcTree, Observe
<1>7. /\ pm2.map = pm.map \cup KeysOf(kids)
      /\ \A k \in Key :
           /\ k \notin KeysOf(kids) => pm2.cell[k] = pm.cell[k]
           /\ k \in KeysOf(kids) => /\ pm2.cell[k].name = kids[k[1]].name
                                    /\ pm2.cell[k].cgroup = kids[k[1]].cgroup
  BY <1>4, <1>5, AssignNewShape
<1>8. \A k \in KeysOf(kids) : k \in Key /\ kids[k[1]].cgroup # NoCgroup =>
        pm2.cell[k].assigned_priority # NotAssignable
  BY <1>4, <1>5, AssignNewDecides
<1> HIDE DEF kids, pm2
<1>9. /\ \A p \in listed \ disturbed :
           /\ p \in DOMAIN entries /\ p \in alive
           /\ entries[p].name = proc[p].exe
           /\ entries[p].cgroup = proc[p].cgroup
           /\ entries[p].ppid = proc[p].ppid
           /\ proc[p].cgroup # NoCgroup
      /\ DOMAIN entries \subseteq listed \cup disturbed
      /\ alive \subseteq listed \cup disturbed
  <2>1. \A p \in alive : proc[p].cgroup # NoCgroup
    BY ProcFsAssumption DEF AliveHasProc, Proc
  <2> QED BY <1>1, <2>1, EntriesTruthful
<1>10. ASSUME NEW p \in listed \ disturbed
       PROVE  LET k == <<p, proc[p].ppid>> IN
              /\ {c \in pm2.map : c[1] = p} = {k}
              /\ pm2.cell[k].name = proc[p].exe /\ pm2.cell[k].cgroup = proc[p].cgroup
              /\ pm2.cell[k].assigned_priority # NotAssignable
  <2> DEFINE k == <<p, proc[p].ppid>>
  <2>1. k \in KeysOf(entries) /\ k \in Key /\ k[1] = p
    BY <1>3, <1>9, KeysOfType
  <2>2. ASSUME NEW c \in pm2.map, c[1] = p
        PROVE  c = k
    <3>1. CASE c \in KeysOf(entries)
      BY <1>9, <2>2, <3>1 DEF KeysOf
    <3>2. CASE c \in KeysOf(kids)
      BY <1>6, <2>2, <3>2 DEF KeysOf
    <3> QED BY <1>4, <1>7, <3>1, <3>2
  <2> HIDE DEF k
  <2>3. {c \in pm2.map : c[1] = p} = {k}
    BY <1>4, <1>7, <2>1, <2>2
  <2>4. CASE k \in KeysOf(kids)
    <3>1. p \in DOMAIN kids
      BY <1>5, <2>1, <2>4, KeysOfType
    <3> QED BY <1>6, <1>7, <1>8, <2>1, <2>3, <2>4, <3>1 DEF k
  <2>5. CASE k \notin KeysOf(kids)
    BY <1>4, <1>7, <1>9, <2>1, <2>3, <2>5 DEF k
  <2> QED BY <2>4, <2>5 DEF k
<1>11. ASSUME NEW k \in pm2.map
       PROVE  k[1] \in listed \cup disturbed
  BY <1>3, <1>4, <1>5, <1>6, <1>7, <1>9, KeysOfType
<1> QED BY <1>2, <1>10, <1>11 DEF Cell

\* A sweep records every process that went through it undisturbed just as it is,
\* in one cell, decided; and keeps none that was gone before it began.
THEOREM SweepsAlwaysTruthful == TimedSpec => SweepTruthful
<1>1. TimedInv /\ [TimedNext]_timerVars =>
        [FinishSweep =>
           /\ \A p \in listed \ disturbed : LET k == <<p, proc[p].ppid>> IN
                /\ {c \in process_map'.map : c[1] = p} = {k}
                /\ [name |-> proc[p].exe, cgroup |-> proc[p].cgroup]
                     = [name |-> Cell(k)'.name, cgroup |-> Cell(k)'.cgroup]
                /\ Cell(k)'.assigned_priority # NotAssignable
           /\ \A k \in process_map'.map : k[1] \in listed \cup disturbed]_timerVars
  BY SweepStepTruthful
<1> QED BY <1>1, TimedInvariance, PTL DEF TimedSpec, SweepTruthful

-----------------------------------------------------------------------------
(* The ancestry, the marks and the exceptions *)

\* What the scan has read names older parents, or none yet.
ElderScan == ~ PidReuse => ElderEntries(entries)

ElderInv == Elders /\ ElderScan

LEMMA EntriesElder ==
  ASSUME TimedInv, ElderInv, Sweep \/ Meanwhile \/ Tick \/ OtherEvents
  PROVE  ElderScan'
<1> USE DEF TimedInv
<1> SUFFICES ASSUME ~ PidReuse
             PROVE  ElderEntries(entries)'
  BY DEF ElderScan
<1>1. /\ \A q \in DOMAIN entries : entries[q].ppid < q /\ q <= last_pid
      /\ \A p \in alive : p <= last_pid /\ proc[p].ppid < p
  BY DEF ElderInv, Elders, ElderScan, ElderEntries
<1>2. CASE Meanwhile
  <2>1. UNCHANGED entries /\ last_pid' \in {last_pid} \cup {last_pid + 1}
    BY <1>2 DEF Meanwhile, Environment, ForkProcess, Fork, FreePid, ExitProcess, Exit,
                ExecProcess, ExecSeen, ExecUnseen, MoveProcess, MoveCgroup
  <2>2. last_pid \in Pid /\ DOMAIN entries \subseteq Pid /\ Pid \subseteq Int
    BY DEF TimerTypeOK, TypeOK, ProcTypeOK, Pid
  <2>3. \A q \in Pid : q <= last_pid => q <= last_pid'
    BY <2>1, <2>2
  <2>4. \A q \in DOMAIN entries : entries[q].ppid < q /\ q <= last_pid'
    BY <1>1, <2>2, <2>3
  <2> QED BY <2>1, <2>4 DEF ElderEntries
<1>3. CASE OtherEvents
  <2>1. UNCHANGED <<entries, last_pid>>
    BY <1>3 DEF OtherEvents, sweepVars, Requests, SetForegroundProcess, PipewireAdd,
                PipewireRemove, ReloadConfiguration, ExecCreate, procVars
  <2> QED BY <1>1, <2>1 DEF ElderEntries
<1>4. CASE Tick
  BY <1>1, <1>4 DEF Tick, vars, procVars, sweepVars, ElderEntries
<1>5. CASE BeginSweep \/ FinishSweep
  BY <1>5 DEF BeginSweep, FinishSweep, ElderEntries
<1>6. ASSUME NEW p \in Pid, ReadExe(p)
      PROVE  ElderEntries(entries)'
  <2>1. /\ DOMAIN entries' = DOMAIN entries \cup {p}
        /\ \A q \in DOMAIN entries : entries'[q] = entries[q]
        /\ entries'[p] = NewEntry(p)
    BY <1>6, ReadExeMoves
  <2>2. NewEntry(p).ppid < p
    BY DEF NewEntry, Pid, NoPid
  <2>3. UNCHANGED last_pid /\ p \in alive
    BY <1>6 DEF ReadExe, vars, procVars
  <2> QED BY <1>1, <2>1, <2>2, <2>3 DEF ElderEntries
<1>7. CASE ReadStatus
  <2>1. At \in DOMAIN entries /\ entries[At] \in Observed
    BY <1>7 DEF ReadStatus, TimerTypeOK, SweepSound
  <2>2. /\ entries' = IF At \in alive THEN [entries EXCEPT ![At].ppid = proc[At].ppid] ELSE entries
        /\ UNCHANGED last_pid
    BY <1>7 DEF ReadStatus, vars, procVars
  <2>3. /\ DOMAIN entries' = DOMAIN entries
        /\ \A q \in DOMAIN entries : q # At => entries'[q] = entries[q]
        /\ entries'[At].ppid < At
    BY <1>1, <2>1, <2>2 DEF Observed
  <2> QED BY <1>1, <2>2, <2>3 DEF ElderEntries
<1>8. CASE ReadCgroup
  <2>1. At \in DOMAIN entries /\ entries[At] \in Observed
    BY <1>8 DEF ReadCgroup, TimerTypeOK, SweepSound
  <2>2. /\ entries' = IF At \in alive THEN [entries EXCEPT ![At].cgroup = proc[At].cgroup] ELSE entries
        /\ UNCHANGED last_pid
    BY <1>8 DEF ReadCgroup, vars, procVars
  <2>3. DOMAIN entries' = DOMAIN entries
        /\ \A q \in DOMAIN entries : entries'[q].ppid = entries[q].ppid
    BY <2>1, <2>2 DEF Observed
  <2> QED BY <1>1, <2>2, <2>3 DEF ElderEntries
<1> QED BY <1>2, <1>3, <1>4, <1>5, <1>6, <1>7, <1>8 DEF Sweep

LEMMA TimedElder == TimedInv /\ ElderInv /\ [TimedNext]_timerVars => ElderInv'
<1> SUFFICES ASSUME TimedInv, ElderInv, [TimedNext]_timerVars
             PROVE  ElderInv'
  OBVIOUS
<1> USE DEF TimedInv, ElderInv
<1>1. ASSUME UNCHANGED vars
      PROVE  Elders'
  BY <1>1, NextElder
<1>2. ASSUME FinishSweep
      PROVE  Elders'
  <2>1. IsObservation(entries) /\ (~ PidReuse => ElderEntries(entries))
    BY DEF TimerTypeOK, IsObservation, ElderScan
  <2> QED BY <1>2, <2>1, RefreshElder DEF FinishSweep
<1>3. ASSUME Meanwhile \/ OtherEvents
      PROVE  Elders'
  BY <1>3, EnvironmentElder, RequestsElder, ExecCreateElder DEF Meanwhile, OtherEvents
<1>4. ElderScan'
  <2>1. CASE UNCHANGED timerVars
    BY <2>1 DEF timerVars, vars, procVars, sweepVars, ElderScan, ElderEntries
  <2> QED BY <2>1, EntriesElder DEF TimedNext
<1>5. Elders'
  BY <1>1, <1>2, <1>3
     DEF TimedNext, Tick, Sweep, BeginSweep, ReadExe, ReadCgroup, ReadStatus, timerVars
<1> QED BY <1>4, <1>5

\* The walk of Process::ancestors ends, whatever a scan read while parents died.
THEOREM TimedAncestryEnds == TimedSpec => []AncestryEnds
<1>1. TimedInit => ElderInv
  <2>1. TimedInit => ElderScan
    BY DEF TimedInit, ElderScan, ElderEntries
  <2> QED BY <2>1, InitElder DEF TimedInit, ElderInv
<1>2. TimedInv /\ ElderInv => AncestryEnds
  BY ElderEnds DEF TimedInv, ElderInv
<1> QED BY <1>1, <1>2, TimedInvariance, TimedElder, PTL DEF TimedSpec

LEMMA TimedMarks == TimedInv /\ Marks /\ [TimedNext]_timerVars => Marks'
<1> SUFFICES ASSUME TimedInv, Marks, [TimedNext]_timerVars
             PROVE  Marks'
  OBVIOUS
<1> USE DEF TimedInv
<1>1. CASE [Next]_vars
  BY <1>1, NextMarks
<1>2. CASE FinishSweep
  <2>1. IsObservation(entries)
    BY DEF TimerTypeOK, IsObservation
  <2> QED BY <1>2, <2>1, SweepMarks DEF FinishSweep
<1> QED BY <1>1, <1>2 DEF TimedNext, Tick, Sweep, BeginSweep, ReadExe, ReadCgroup, ReadStatus,
                          Meanwhile, OtherEvents, Next, timerVars

\* Nor does an entry that the scan missed leave a mark behind.
THEOREM TimedMarksOwned == TimedSpec => []PipewireMarksOwned
<1>1. TimedInit => Marks
  BY InitMarks DEF TimedInit
<1>2. TimedInv /\ Marks => PipewireMarksOwned
  BY DEF TimedInv, Inv, WellFormed, Map, Marks, MarksIn, PipewireMarksOwned, Cell
<1> QED BY <1>1, <1>2, TimedInvariance, TimedMarks, PTL DEF TimedSpec

\* Nor does a torn entry make the daemon touch a process that is excepted.
THEOREM TimedExceptionsLeftAlone == TimedSpec => ExceptionsUntouched
<1>1. TimedInv /\ [TimedNext]_timerVars =>
        [\A p \in Pid : Excepted(p) /\ Excepted(p)' => prio'[p] = prio[p]]_vars
  <2> SUFFICES ASSUME TimedInv, TimedNext, NEW p \in Pid, Excepted(p), Excepted(p)',
                      ~ UNCHANGED vars
               PROVE  prio'[p] = prio[p]
    BY DEF timerVars
  <2> USE DEF TimedInv
  <2>1. CASE Next
    BY <2>1, StepLeaves
  <2>2. CASE FinishSweep
    <3>1. IsObservation(entries)
      BY DEF TimerTypeOK, IsObservation
    <3>2. ExceptedIn(process_map', p)
      BY DEF Excepted, ExceptedIn, Registered, Cell, get_pid
    <3> QED BY <2>2, <3>1, <3>2, SweepLeaves DEF FinishSweep
  <2> QED BY <2>1, <2>2 DEF TimedNext, Tick, Sweep, BeginSweep, ReadExe, ReadCgroup, ReadStatus,
                            Meanwhile, OtherEvents, Next
<1> QED BY <1>1, TimedInvariance, PTL DEF TimedSpec, ExceptionsUntouched

\* Every entry the scan has read has the name of the process it was read from.
NamedScan == \A p \in DOMAIN entries : entries[p].name # NoName

LEMMA ScanNamed ==
  ASSUME TimedInv, NamedScan, [TimedNext]_timerVars
  PROVE  NamedScan'
<1> USE DEF TimedInv
<1>1. CASE Tick \/ Meanwhile \/ OtherEvents \/ UNCHANGED timerVars
  <2>1. UNCHANGED entries
    BY <1>1 DEF Tick, Meanwhile, OtherEvents, sweepVars, timerVars
  <2> QED BY <2>1 DEF NamedScan
<1>2. CASE BeginSweep \/ FinishSweep
  BY <1>2 DEF BeginSweep, FinishSweep, NamedScan
<1>3. ASSUME NEW p \in Pid, ReadExe(p)
      PROVE  NamedScan'
  <2>1. /\ DOMAIN entries' = DOMAIN entries \cup {p}
        /\ \A q \in DOMAIN entries : entries'[q] = entries[q]
        /\ entries'[p] = NewEntry(p)
    BY <1>3, ReadExeMoves
  <2>2. proc[p] \in Proc
    BY <1>3 DEF ReadExe, Inv, AliveHasProc
  <2>3. NewEntry(p).name # NoName
    BY <2>2, ProcFsAssumption DEF NewEntry, Proc
  <2> QED BY <2>1, <2>3 DEF NamedScan
<1>4. CASE ReadCgroup \/ ReadStatus
  <2>1. At \in DOMAIN entries /\ entries[At] \in Observed
    BY <1>4 DEF ReadCgroup, ReadStatus, TimerTypeOK, SweepSound
  <2>2. entries' \in {entries, [entries EXCEPT ![At].cgroup = proc[At].cgroup],
                      [entries EXCEPT ![At].ppid = proc[At].ppid]}
    BY <1>4 DEF ReadCgroup, ReadStatus
  <2>3. /\ DOMAIN entries' = DOMAIN entries
        /\ \A q \in DOMAIN entries : entries'[q].name = entries[q].name
    BY <2>1, <2>2 DEF Observed
  <2> QED BY <2>3 DEF NamedScan
<1> QED BY <1>1, <1>2, <1>3, <1>4 DEF TimedNext, Sweep

LEMMA TimedForce ==
  ASSUME TimedInv, Elders, Marks, Enforced, NamedScan, [TimedNext]_timerVars
  PROVE  Enforced'
<1> USE DEF TimedInv
<1>1. CASE [Next]_vars
  BY <1>1, NextForce
<1>2. CASE FinishSweep
  <2>1. IsObservation(entries) /\ \A p \in DOMAIN entries : entries[p].name # NoName
    BY DEF TimerTypeOK, IsObservation, NamedScan
  <2>2. process_map_refresh(entries)
    BY <1>2 DEF FinishSweep
  <2> QED BY <2>1, <2>2, SweepForce
<1> QED BY <1>1, <1>2 DEF TimedNext, Tick, Sweep, BeginSweep, ReadExe, ReadCgroup, ReadStatus,
                          Meanwhile, OtherEvents, Next, timerVars

\* Nor does one leave a process with a priority that is not the one on record.
THEOREM TimedPriorityInForce == TimedSpec => []PriorityInForce
<1> DEFINE Known == TimedInv /\ ElderInv /\ Marks /\ Enforced /\ NamedScan
<1>1. TimedInit => Known
  <2>1. TimedInit => ElderScan /\ NamedScan
    BY DEF TimedInit, ElderScan, ElderEntries, NamedScan
  <2> QED BY <2>1, TimedInitInv, InitElder, InitMarks, InitForce DEF TimedInit, ElderInv
<1>2. Known /\ [TimedNext]_timerVars => Known'
  BY TimedNextInv, TimedElder, TimedMarks, ScanNamed, TimedForce DEF ElderInv
<1>3. Known => PriorityInForce
  BY ForceIs DEF TimedInv
<1> HIDE DEF Known
<1> QED BY <1>1, <1>2, <1>3, PTL DEF TimedSpec
=============================================================================
