---------------------------- MODULE ServiceProofs ----------------------------
(***************************************************************************)
(* The process scheduler keeps its types, its pid index and its parent     *)
(* pointers sound, for every set of processes, names, profiles and         *)
(* configurations and every bound.                                         *)
(***************************************************************************)
EXTENDS ServiceProperties, ProcessMapProofs

\* A pid in use has an entry in /proc: a fork copies that of its parent.
AliveHasProc == \A p \in alive : proc[p] \in Proc

\* The inductive invariant: a handler reads cells through both the pid index and
\* the parent pointers, so the map is only typed if both are sound.
Inv == TypeOK /\ AliveHasProc /\ WellFormed(process_map)

-----------------------------------------------------------------------------
(* What the readers of /proc yield *)

LEMMA ObserveType ==
  ASSUME TypeOK, NEW p \in Pid
  PROVE  Observe(p) \in Observed
<1>1. proc[p] \in Proc \cup {NoProc}
  BY DEF TypeOK, ProcTypeOK
<1> QED BY <1>1, ProcFsAssumption DEF Observe, Observed, Proc, NoProc, NoPid

LEMMA ScanObserves ==
  ASSUME TypeOK
  PROVE  IsObservation(Scan) /\ IsObservation(GcScan)
<1>1. alive \subseteq Pid
  BY DEF TypeOK, ProcTypeOK
<1>2. \A p \in alive : [Observe(p) EXCEPT !.name = NoName, !.cgroup = NoCgroup] \in Observed
  BY <1>1, ObserveType DEF Observed
<1> QED BY <1>1, <1>2, ObserveType DEF IsObservation, Scan, GcScan

LEMMA NewChildrenObserves ==
  ASSUME TypeOK, NEW pm, NEW pid
  PROVE  IsObservation(NewChildren(pm, pid))
<1>1. {q \in ProcTree(pid) : get_pid(pm, q) = NoKey} \subseteq Pid
  BY DEF TypeOK, ProcTypeOK, ProcTree
<1> QED BY <1>1, ObserveType DEF IsObservation, NewChildren

-----------------------------------------------------------------------------
(* The steps of the handlers on the map *)

LEMMA PipewireAncestorFound ==
  ASSUME TypeOK, NEW pm, WellFormed(pm), NEW k \in Key
  PROVE  PipewireAncestor(pm, k) \in PipewireSet \cup {NoPid}
<1> DEFINE line == Lineage(pm, k)
           In(n) == {i \in DOMAIN pipewire_processes :
                       pipewire_processes[i] \in {line[n][1], line[n][2]}}
           hits == {n \in DOMAIN line : In(n) # {}}
<1>1. Cardinality(pm.map) \in Nat /\ DOMAIN line = 0..Cardinality(pm.map)
  BY LineageFollows
<1>2. DOMAIN line \subseteq Nat
  BY <1>1
<1>3. pipewire_processes \in Seq(Pid)
  BY DEF TypeOK
<1>4. \A n : In(n) \subseteq Nat
  BY <1>3
<1>5. hits # {} => In(Min(hits)) # {}
  <2> SUFFICES ASSUME hits # {} PROVE In(Min(hits)) # {}
    OBVIOUS
  <2>1. hits \in SUBSET Nat
    BY <1>2
  <2>2. Min(hits) \in hits
    BY <2>1, MinIsMember
  <2> QED BY <2>2
<1>6. hits # {} => Min(In(Min(hits))) \in DOMAIN pipewire_processes
  <2> SUFFICES ASSUME hits # {} PROVE Min(In(Min(hits))) \in DOMAIN pipewire_processes
    OBVIOUS
  <2>1. In(Min(hits)) \in SUBSET Nat /\ In(Min(hits)) # {}
    BY <1>4, <1>5
  <2>2. Min(In(Min(hits))) \in In(Min(hits))
    BY <2>1, MinIsMember
  <2> QED BY <2>2
<1>7. PipewireAncestor(pm, k) =
        IF hits = {} THEN NoPid ELSE pipewire_processes[Min(In(Min(hits)))]
  BY DEF PipewireAncestor
<1> HIDE DEF hits, In, line
<1> QED BY <1>6, <1>7 DEF PipewireSet, ToSet

LEMMA PipewireAncestorType ==
  ASSUME TypeOK, NEW pm, WellFormed(pm), NEW k \in Key
  PROVE  PipewireAncestor(pm, k) \in Pid \cup {NoPid}
<1>1. PipewireSet \subseteq Pid
  BY DEF PipewireSet, ToSet, TypeOK
<1> QED BY <1>1, PipewireAncestorFound

LEMMA InheritWellFormed ==
  ASSUME TypeOK, NEW pm, WellFormed(pm), NEW S
  PROVE  WellFormed(inherit_pipewire(pm, S))
<1> DEFINE found(k) == IF k \in S THEN PipewireAncestor(pm, k) ELSE NoPid
           c == [k \in Key |-> IF found(k) = NoPid THEN pm.cell[k]
                               ELSE [pm.cell[k] EXCEPT !.pipewire_ancestor = found(k)]]
<1>1. pm.cell \in [Key -> Process]
  BY DEF WellFormed, Map
<1>2. ASSUME NEW k \in Key
      PROVE  c[k] \in Process /\ c[k].parent = pm.cell[k].parent
  <2>1. found(k) \in Pid \cup {NoPid}
    BY PipewireAncestorType
  <2>2. pm.cell[k] \in Process
    BY <1>1
  <2>3. c[k] = IF found(k) = NoPid THEN pm.cell[k]
               ELSE [pm.cell[k] EXCEPT !.pipewire_ancestor = found(k)]
    OBVIOUS
  <2> HIDE DEF c, found
  <2> QED BY <2>1, <2>2, <2>3 DEF Process
<1>3. c \in [Key -> Process]
  BY <1>2
<1>4. inherit_pipewire(pm, S) = [pm EXCEPT !.cell = c]
  BY DEF inherit_pipewire
<1>5. \A k \in Key : c[k].parent # NoKey => c[k].parent \in pm.map /\ c[k].parent[1] = k[2]
  BY <1>2 DEF WellFormed, LinksSound
<1> HIDE DEF c
<1> QED BY <1>3, <1>4, <1>5, RecellWellFormed

LEMMA AssignWellFormed ==
  ASSUME TypeOK, NEW pm, WellFormed(pm), NEW S
  PROVE  WellFormed(assign_process_priority(pm, S))
<1> DEFINE c == [k \in Key |->
     IF k \in S /\ pm.cell[k].assigned_priority = NotAssignable
     THEN [pm.cell[k] EXCEPT !.assigned_priority = assignment(config, pm, k)]
     ELSE pm.cell[k]]
<1>1. pm.cell \in [Key -> Process]
  BY DEF WellFormed, Map
<1>2. IsConfig(config)
  BY ServiceAssumption DEF TypeOK
<1>3. ASSUME NEW k \in Key
      PROVE  c[k] \in Process /\ c[k].parent = pm.cell[k].parent
  <2>1. assignment(config, pm, k) \in OwnedPriority
    BY <1>2, AssignmentType
  <2>2. pm.cell[k] \in Process
    BY <1>1
  <2>3. c[k] = pm.cell[k]
        \/ c[k] = [pm.cell[k] EXCEPT !.assigned_priority = assignment(config, pm, k)]
    OBVIOUS
  <2> HIDE DEF c
  <2> QED BY <2>1, <2>2, <2>3 DEF Process
<1>4. c \in [Key -> Process]
  BY <1>3
<1>5. assign_process_priority(pm, S) = [pm EXCEPT !.cell = c]
  BY DEF assign_process_priority
<1>6. \A k \in Key : c[k].parent # NoKey => c[k].parent \in pm.map /\ c[k].parent[1] = k[2]
  BY <1>3 DEF WellFormed, LinksSound
<1> HIDE DEF c
<1> QED BY <1>4, <1>5, <1>6, RecellWellFormed

LEMMA AssignNewWellFormed ==
  ASSUME TypeOK, NEW pm, WellFormed(pm), NEW new, IsObservation(new)
  PROVE  WellFormed(assign_new_process(pm, new))
<1>1. WellFormed(insert(pm, new))
  BY InsertWellFormed
<1>2. WellFormed(link(insert(pm, new), KeysOf(new)))
  BY <1>1, LinkWellFormed
<1>3. WellFormed(inherit_pipewire(link(insert(pm, new), KeysOf(new)), KeysOf(new)))
  BY <1>2, InheritWellFormed
<1> QED BY <1>3, AssignWellFormed DEF assign_new_process

LEMMA GarbageCleanWellFormed ==
  ASSUME TypeOK, NEW pm, WellFormed(pm)
  PROVE  WellFormed(garbage_clean(pm))
BY ScanObserves, InsertWellFormed, DrainFilterWellFormed DEF garbage_clean

-----------------------------------------------------------------------------
(* The scheduling of the processes *)

LEMMA ApplyType ==
  ASSUME NEW pr \in [Pid -> Scheduling], NEW pm, NEW new, NEW fg
  PROVE  apply_process_priority(pr, pm, new, fg) \in [Pid -> Scheduling]
<1>1. ASSUME NEW k, NEW current \in Scheduling
      PROVE  ProfileFor(pm, k, current, fg) \in Scheduling
  <2> DEFINE a == pm.cell[k].assigned_priority
  <2>1. \/ a \in Profiles /\ ProfileFor(pm, k, current, fg) = a
        \/ ProfileFor(pm, k, current, fg) = current
        \/ ProfileFor(pm, k, current, fg) \in
             {"pipewire", "default", "foreground", "background"}
    BY Zenon DEF ProfileFor
  <2> HIDE DEF a
  <2> QED BY <2>1 DEF Scheduling
<1> QED BY <1>1 DEF apply_process_priority

LEMMA SetPriorityType ==
  ASSUME NEW pr \in [Pid -> Scheduling], NEW pids, NEW profile \in Scheduling
  PROVE  SetPriority(pr, pids, profile) \in [Pid -> Scheduling]
BY DEF SetPriority

LEMMA PrioritiseType ==
  ASSUME NEW pr \in [Pid -> Scheduling], NEW pm, WellFormed(pm), NEW pid \in Pid,
         Prioritise(pm, pr, pid)
  PROVE  /\ prio' \in [Pid -> Scheduling]
         /\ foreground' \in Pid \cup {NoPid}
         /\ foreground_processes' \subseteq Pid
<1>1. \A k \in pm.map : k[1] \in Pid
  BY KeyFields DEF WellFormed, Map
<1>2. "foreground" \in Scheduling /\ "background" \in Scheduling
  BY DEF Scheduling
<1>3. \E fg, bg : prio' = SetPriority(SetPriority(pr, fg, "foreground"), bg, "background")
  BY DEF Prioritise
<1>4. prio' \in [Pid -> Scheduling]
  BY <1>2, <1>3, SetPriorityType
<1> QED BY <1>1, <1>4 DEF Prioritise

-----------------------------------------------------------------------------
(* The actions *)

LEMMA NewChildrenRecorded ==
  ASSUME TypeOK, NEW pm, WellFormed(pm), NEW pid
  PROVE  WellFormed(assign_new_process(pm, NewChildren(pm, pid)))
BY NewChildrenObserves, AssignNewWellFormed

LEMMA InitInv == Init => Inv
<1> SUFFICES ASSUME Init PROVE Inv
  OBVIOUS
<1>1. ProcTypeOK
  BY ProcFsAssumption, BootAssumption DEF Init, ProcInit, ProcTypeOK, ExecCreateEvent
<1>2. prio \in [Pid -> Scheduling]
  BY DEF Init, Scheduling
<1>3. WellFormed(process_map)
  BY EmptyMapWellFormed DEF Init
<1>4. process_map \in Map
  BY <1>3 DEF WellFormed
<1>5. AliveHasProc
  BY BootAssumption DEF Init, ProcInit, AliveHasProc
<1>6. gc_counter \in 0..GcLimit
  BY ServiceAssumption DEF Init
<1> QED BY <1>1, <1>2, <1>3, <1>4, <1>5, <1>6 DEF Init, Inv, TypeOK

LEMMA CountGcType ==
  ASSUME gc_counter \in 0..GcLimit, CountGc
  PROVE  gc_counter' \in 0..GcLimit
BY ServiceAssumption DEF CountGc

LEMMA SetSinceType ==
  ASSUME released \subseteq Pid, SetSince
  PROVE  released' \subseteq Pid
BY DEF SetSince

LEMMA ExecCreateInv ==
  ASSUME Inv, ExecCreate
  PROVE  Inv'
<1> USE DEF Inv, AliveHasProc
<1> DEFINE e    == Head(execs)
           new  == [p \in {e.pid} |->
                      [ppid |-> e.parent_pid, name |-> e.name,
                       cgroup |-> IF p \in alive THEN proc[p].cgroup ELSE NoCgroup]]
           pm   == assign_new_process(process_map, new)
           kids == NewChildren(pm, e.pid)
           pm2  == assign_new_process(pm, kids)
           pr   == apply_process_priority(prio, pm, new, foreground)
<1>1. e \in ExecCreateEvent /\ execs' \in Seq(ExecCreateEvent)
  BY DEF TypeOK, ProcTypeOK, ExecCreate
<1>2. IsObservation(new)
  <2>1. \A p \in Pid : (IF p \in alive THEN proc[p].cgroup ELSE NoCgroup)
                         \in Cgroups \cup {NoCgroup}
    BY DEF TypeOK, ProcTypeOK, Proc, NoProc
  <2> QED BY <1>1, <2>1 DEF IsObservation, Observed, ExecCreateEvent
<1>3. WellFormed(pm)
  BY <1>2, AssignNewWellFormed
<1>4. WellFormed(pm2)
  BY <1>3, NewChildrenRecorded
<1>5. process_map' = garbage_clean(pm2) /\ prio' = apply_process_priority(pr, pm2, kids, foreground)
  BY DEF ExecCreate
<1>6. pr \in [Pid -> Scheduling]
  BY ApplyType DEF TypeOK
<1> HIDE DEF e, new, pm, kids, pm2, pr
<1>7. WellFormed(process_map')
  BY <1>4, <1>5, GarbageCleanWellFormed
<1>8. prio' \in [Pid -> Scheduling]
  BY <1>5, <1>6, ApplyType
<1>9. gc_counter' \in 0..GcLimit
  BY CountGcType DEF TypeOK, ExecCreate
<1>10. released' \subseteq Pid
  BY SetSinceType DEF TypeOK, ExecCreate
<1> QED BY <1>1, <1>7, <1>8, <1>9, <1>10 DEF ExecCreate, TypeOK, ProcTypeOK, WellFormed

LEMMA SetForegroundProcessInv ==
  ASSUME Inv, NEW pid \in ForegroundPids, SetForegroundProcess(pid)
  PROVE  Inv'
<1> USE DEF Inv, AliveHasProc
<1> DEFINE kids == NewChildren(process_map, pid)
           pm   == assign_new_process(process_map, kids)
           pr   == apply_process_priority(prio, pm, kids, foreground)
<1>1. WellFormed(pm)
  BY NewChildrenRecorded
<1>2. pr \in [Pid -> Scheduling]
  BY ApplyType DEF TypeOK
<1>3. /\ process_map' = garbage_clean(pm)
      /\ \/ Prioritise(pm, pr, pid)
         \/ prio' = pr /\ UNCHANGED <<foreground, foreground_processes>>
  BY DEF SetForegroundProcess
<1>4. pid \in Pid
  BY ServiceAssumption
<1> HIDE DEF kids, pm, pr
<1>5. WellFormed(process_map')
  BY <1>1, <1>3, GarbageCleanWellFormed
<1>6. /\ prio' \in [Pid -> Scheduling]
      /\ foreground' \in Pid \cup {NoPid}
      /\ foreground_processes' \subseteq Pid
  BY <1>1, <1>2, <1>3, <1>4, PrioritiseType DEF TypeOK
<1>7. gc_counter' \in 0..GcLimit
  BY CountGcType DEF TypeOK, SetForegroundProcess
<1>8. released' \subseteq Pid
  BY SetSinceType DEF TypeOK, SetForegroundProcess
<1> QED BY <1>5, <1>6, <1>7, <1>8 DEF SetForegroundProcess, procVars, TypeOK, ProcTypeOK, WellFormed

LEMMA SweepInv ==
  ASSUME NEW STATE entries, IsObservation(entries), Inv, process_map_refresh(entries)
  PROVE  Inv'
<1> USE DEF Inv, AliveHasProc
<1> DEFINE live == KeysOf(entries)
           seen == insert(process_map, entries)
           kept == drain_filter(link(seen, {k \in live : get_pid(seen, k[1]) = k}), live)
           pm   == assign_process_priority(kept, live)
           kids == NewChildren(pm, foreground)
           pm2  == assign_new_process(pm, kids)
           pr   == apply_process_priority(prio, pm, entries, foreground)
           pr2  == apply_process_priority(pr, pm2, kids, NoPid)
<1>1. WellFormed(seen)
  BY InsertWellFormed
<1>2. WellFormed(kept)
  BY <1>1, LinkWellFormed, DrainFilterWellFormed
<1>3. WellFormed(pm)
  BY <1>2, AssignWellFormed
<1>4. WellFormed(pm2)
  BY <1>3, NewChildrenRecorded
<1>5. pr \in [Pid -> Scheduling]
  BY ApplyType DEF TypeOK
<1>6. pr2 \in [Pid -> Scheduling]
  BY <1>5, ApplyType
<1>7. /\ process_map' = pm2
      /\ \/ foreground # NoPid /\ Prioritise(pm2, pr2, foreground)
         \/ prio' = pr2 /\ foreground' = NoPid /\ UNCHANGED foreground_processes
      /\ released' = {}
      /\ UNCHANGED <<procVars, config, pipewire_processes, managed, gc_counter>>
  BY DEF process_map_refresh
<1> HIDE DEF live, seen, kept, pm, kids, pm2, pr, pr2
<1>8. /\ prio' \in [Pid -> Scheduling]
      /\ foreground' \in Pid \cup {NoPid}
      /\ foreground_processes' \subseteq Pid
  <2>1. CASE foreground # NoPid /\ Prioritise(pm2, pr2, foreground)
    <3>1. foreground \in Pid
      BY <2>1 DEF TypeOK
    <3> QED BY <2>1, <3>1, <1>4, <1>6, PrioritiseType
  <2>2. CASE prio' = pr2 /\ foreground' = NoPid /\ UNCHANGED foreground_processes
    BY <2>2, <1>6 DEF TypeOK
  <2> QED BY <1>7, <2>1, <2>2
<1> QED BY <1>4, <1>7, <1>8 DEF procVars, TypeOK, ProcTypeOK, WellFormed

LEMMA RefreshProcessMapInv ==
  ASSUME Inv, RefreshProcessMap
  PROVE  Inv'
BY ScanObserves, SweepInv DEF RefreshProcessMap, Inv

LEMMA PipewireAddInv ==
  ASSUME Inv, NEW pid \in PipewirePids, PipewireAdd(pid)
  PROVE  Inv'
<1> USE DEF Inv, AliveHasProc
<1> DEFINE kids  == NewChildren(process_map, pid)
           pm    == assign_new_process(process_map, kids)
           pr    == apply_process_priority(prio, pm, kids, foreground)
           cells == {k \in pm.map : process_assignment(pm, k[1]) = Assignable}
           below == {k \in cells : k[1] # pid /\ process_descended_from(pm, k, pid)}
           c     == [k \in Key |->
                       IF k \in below THEN [pm.cell[k] EXCEPT !.pipewire_ancestor = pid]
                       ELSE pm.cell[k]]
           owned == [pm EXCEPT !.cell = c]
           piped == {k[1] : k \in {d \in cells : d[1] = pid} \cup below}
<1>1. WellFormed(pm)
  BY NewChildrenRecorded
<1>2. pr \in [Pid -> Scheduling]
  BY ApplyType DEF TypeOK
<1>3. pid \in Pid
  BY ServiceAssumption
<1>4. /\ managed' = managed \cup {pid}
      /\ pipewire_processes' \in {pipewire_processes, Append(pipewire_processes, pid)}
      /\ process_map' \in {garbage_clean(owned), garbage_clean(pm)}
      /\ prio' \in {SetPriority(pr, piped, "pipewire"), pr}
      /\ CountGc /\ SetSince
      /\ UNCHANGED <<procVars, config, foreground, foreground_processes>>
  BY DEF PipewireAdd
<1> HIDE DEF kids, pm, pr
<1>5. WellFormed(owned)
  <2>1. pm.cell \in [Key -> Process]
    BY <1>1 DEF WellFormed, Map
  <2>2. ASSUME NEW k \in Key
        PROVE  c[k] \in Process /\ c[k].parent = pm.cell[k].parent
    <3>1. pm.cell[k] \in Process
      BY <2>1
    <3>2. c[k] \in {pm.cell[k], [pm.cell[k] EXCEPT !.pipewire_ancestor = pid]}
      OBVIOUS
    <3> HIDE DEF c
    <3> QED BY <3>1, <3>2, <1>3 DEF Process
  <2>3. c \in [Key -> Process]
    BY <2>2
  <2>4. \A k \in Key : c[k].parent # NoKey => c[k].parent \in pm.map /\ c[k].parent[1] = k[2]
    BY <1>1, <2>2 DEF WellFormed, LinksSound
  <2> HIDE DEF c
  <2> QED BY <1>1, <2>3, <2>4, RecellWellFormed
<1> HIDE DEF owned, piped
<1>6. WellFormed(process_map')
  BY <1>1, <1>4, <1>5, GarbageCleanWellFormed
<1>7. prio' \in [Pid -> Scheduling]
  <2>1. "pipewire" \in Scheduling
    BY DEF Scheduling
  <2> QED BY <1>2, <1>4, <2>1, SetPriorityType
<1>8. gc_counter' \in 0..GcLimit /\ released' \subseteq Pid
  BY <1>4, CountGcType, SetSinceType DEF TypeOK
<1>9. pipewire_processes' \in Seq(Pid) /\ managed' \subseteq Pid
  BY <1>3, <1>4 DEF TypeOK
<1> QED BY <1>4, <1>6, <1>7, <1>8, <1>9 DEF procVars, TypeOK, ProcTypeOK, WellFormed

LEMMA RemoveFirstType ==
  ASSUME NEW S, NEW s \in Seq(S), NEW e
  PROVE  RemoveFirst(s, e) \in Seq(S)
<1> DEFINE I == {i \in 1..Len(s) : s[i] = e}
           m == Min(I)
<1>1. CASE I = {}
  BY <1>1 DEF RemoveFirst
<1>2. CASE I # {}
  <2>1. m \in 1..Len(s)
    <3>1. I \in SUBSET Nat
      OBVIOUS
    <3>2. m \in I
      BY <1>2, <3>1, MinIsMember
    <3> QED BY <3>2
  <2>2. RemoveFirst(s, e) = SubSeq(s, 1, m - 1) \o SubSeq(s, m + 1, Len(s))
    BY <1>2 DEF RemoveFirst, RemoveAt, SelectInSeq
  <2> HIDE DEF m, I
  <2>3. SubSeq(s, 1, m - 1) \in Seq(S) /\ SubSeq(s, m + 1, Len(s)) \in Seq(S)
    BY <2>1
  <2> QED BY <2>2, <2>3
<1> QED BY <1>1, <1>2

LEMMA PipewireRemoveInv ==
  ASSUME Inv, NEW pid \in PipewirePids, PipewireRemove(pid)
  PROVE  Inv'
<1> USE DEF Inv, AliveHasProc
<1> DEFINE freed == Freed(pid)
           c == [k \in Key |->
                   IF k \in freed THEN [process_map.cell[k] EXCEPT !.pipewire_ancestor = NoPid]
                   ELSE process_map.cell[k]]
           pids == {k[1] : k \in {d \in freed :
                                  process_assignment(process_map, d[1]) = Assignable}}
<1>1. /\ managed' = managed \ {pid}
      /\ pipewire_processes' \in {pipewire_processes, RemoveFirst(pipewire_processes, pid)}
      /\ process_map' \in {process_map, [process_map EXCEPT !.cell = c]}
      /\ \/ prio' = prio
         \/ \E bg, fg : prio' = SetPriority(SetPriority(prio, bg, "background"), fg, "foreground")
      /\ released' \in {released, released \cup (pids \cap alive)}
      /\ UNCHANGED <<procVars, config, foreground, foreground_processes, gc_counter>>
  BY DEF PipewireRemove
<1>2. WellFormed([process_map EXCEPT !.cell = c])
  <2>1. process_map.cell \in [Key -> Process]
    BY DEF WellFormed, Map
  <2>2. ASSUME NEW k \in Key
        PROVE  c[k] \in Process /\ c[k].parent = process_map.cell[k].parent
    <3>1. process_map.cell[k] \in Process
      BY <2>1
    <3>2. c[k] \in {process_map.cell[k],
                    [process_map.cell[k] EXCEPT !.pipewire_ancestor = NoPid]}
      OBVIOUS
    <3> HIDE DEF c
    <3> QED BY <3>1, <3>2 DEF Process
  <2>3. c \in [Key -> Process]
    BY <2>2
  <2>4. \A k \in Key : c[k].parent # NoKey =>
          c[k].parent \in process_map.map /\ c[k].parent[1] = k[2]
    BY <2>2 DEF WellFormed, LinksSound
  <2> HIDE DEF c
  <2> QED BY <2>3, <2>4, RecellWellFormed
<1> HIDE DEF c
<1>3. WellFormed(process_map')
  BY <1>1, <1>2
<1>4. prio' \in [Pid -> Scheduling]
  <2>1. "foreground" \in Scheduling /\ "background" \in Scheduling
    BY DEF Scheduling
  <2> QED BY <1>1, <2>1, SetPriorityType DEF TypeOK
<1>5. pipewire_processes' \in Seq(Pid)
  BY <1>1, RemoveFirstType DEF TypeOK
<1>6. released' \subseteq Pid
  BY <1>1 DEF TypeOK, ProcTypeOK
<1> QED BY <1>1, <1>3, <1>4, <1>5, <1>6 DEF procVars, TypeOK, ProcTypeOK, WellFormed

LEMMA ReloadConfigurationInv ==
  ASSUME Inv, ReloadConfiguration
  PROVE  Inv'
BY DEF Inv, AliveHasProc, ReloadConfiguration, procVars, TypeOK, ProcTypeOK, WellFormed

LEMMA ForkProcessInv ==
  ASSUME Inv, NEW p \in Pid, NEW n \in Pid, ForkProcess(p, n)
  PROVE  Inv'
<1> USE DEF Inv
<1>1. proc[p] \in Proc /\ prio[p] \in Scheduling
  BY DEF ForkProcess, Fork, TypeOK, AliveHasProc
<1>2. [proc[p] EXCEPT !.ppid = p] \in Proc
  BY <1>1 DEF Proc, Pid
<1>3. proc' \in [Pid -> Proc \cup {NoProc}] /\ AliveHasProc'
  BY <1>2 DEF ForkProcess, Fork, TypeOK, ProcTypeOK, AliveHasProc
<1>4. prio' \in [Pid -> Scheduling]
  BY <1>1 DEF ForkProcess, TypeOK
<1> QED BY <1>3, <1>4 DEF ForkProcess, Fork, TypeOK, ProcTypeOK, WellFormed

LEMMA ExitProcessInv ==
  ASSUME Inv, NEW p \in Pid, NEW reaper \in Pid, ExitProcess(p, reaper)
  PROVE  Inv'
<1> USE DEF Inv
<1>1. \A q \in alive : [proc[q] EXCEPT !.ppid = reaper] \in Proc
  BY DEF AliveHasProc, Proc, Pid
<1>2. proc' \in [Pid -> Proc \cup {NoProc}] /\ AliveHasProc'
  BY <1>1 DEF ExitProcess, Exit, TypeOK, ProcTypeOK, AliveHasProc
<1>3. prio' \in [Pid -> Scheduling]
  BY DEF ExitProcess, TypeOK, Scheduling
<1> QED BY <1>2, <1>3 DEF ExitProcess, Exit, TypeOK, ProcTypeOK, WellFormed

LEMMA ExecProcessInv ==
  ASSUME Inv, NEW p \in Pid, NEW n \in Names, ExecProcess(p, n)
  PROVE  Inv'
<1> USE DEF Inv
<1>1. proc[p] \in Proc
  BY DEF ExecProcess, ExecSeen, ExecUnseen, AliveHasProc
<1>2. [proc[p] EXCEPT !.exe = n] \in Proc
  BY <1>1 DEF Proc
<1>3. [pid |-> p, parent_pid |-> proc[p].ppid, name |-> n] \in ExecCreateEvent
  BY <1>1 DEF Proc, ExecCreateEvent
<1>4. proc' = [proc EXCEPT ![p].exe = n]
  BY DEF ExecProcess, ExecSeen, ExecUnseen
<1>5. proc' \in [Pid -> Proc \cup {NoProc}] /\ AliveHasProc'
  BY <1>2, <1>4 DEF ExecProcess, ExecSeen, ExecUnseen, TypeOK, ProcTypeOK, AliveHasProc
<1>6. execs' \in Seq(ExecCreateEvent)
  <2> DEFINE e == [pid |-> p, parent_pid |-> proc[p].ppid, name |-> n]
  <2>1. execs' = Append(execs, e) \/ execs' = execs
    BY DEF ExecProcess, ExecSeen, ExecUnseen
  <2>2. execs \in Seq(ExecCreateEvent)
    BY DEF TypeOK, ProcTypeOK
  <2> HIDE DEF e
  <2>3. e \in ExecCreateEvent
    BY <1>3 DEF e
  <2> QED BY <2>1, <2>2, <2>3
<1>7. UNCHANGED <<alive, last_pid>> /\ UNCHANGED serviceVars
  BY DEF ExecProcess, ExecSeen, ExecUnseen
<1>8. WellFormed(process_map)'
  BY <1>7 DEF serviceVars, WellFormed
<1> QED BY <1>5, <1>6, <1>7, <1>8 DEF serviceVars, TypeOK, ProcTypeOK

LEMMA MoveProcessInv ==
  ASSUME Inv, NEW p \in Pid, NEW g \in Cgroups, MoveProcess(p, g)
  PROVE  Inv'
<1> USE DEF Inv
<1>1. [proc[p] EXCEPT !.cgroup = g] \in Proc
  BY DEF MoveProcess, MoveCgroup, AliveHasProc, Proc
<1>2. proc' \in [Pid -> Proc \cup {NoProc}] /\ AliveHasProc'
  BY <1>1 DEF MoveProcess, MoveCgroup, TypeOK, ProcTypeOK, AliveHasProc
<1> QED BY <1>2 DEF MoveProcess, MoveCgroup, serviceVars, TypeOK, ProcTypeOK, WellFormed

LEMMA NextInv == Inv /\ [Next]_vars => Inv'
<1> SUFFICES ASSUME Inv, [Next]_vars
             PROVE  Inv'
  OBVIOUS
<1>1. CASE Environment
  BY <1>1, ForkProcessInv, ExitProcessInv, ExecProcessInv, MoveProcessInv DEF Environment
<1>2. CASE Requests
  BY <1>2, SetForegroundProcessInv, PipewireAddInv, PipewireRemoveInv, ReloadConfigurationInv
     DEF Requests
<1>3. CASE ExecCreate
  BY <1>3, ExecCreateInv
<1>4. CASE RefreshProcessMap
  BY <1>4, RefreshProcessMapInv
<1>5. CASE UNCHANGED vars
  BY <1>5 DEF Inv, AliveHasProc, vars, serviceVars, procVars, TypeOK, ProcTypeOK, WellFormed
<1> QED BY <1>1, <1>2, <1>3, <1>4, <1>5 DEF Next

-----------------------------------------------------------------------------
(* What holds in every reachable state *)

\* The inductive invariant of the process scheduler.
THEOREM Invariance == Spec => []Inv
BY InitInv, NextInv, PTL DEF Spec

\* Every table of the service holds what its Rust type says, for all handlers.
THEOREM TypeCorrect == Spec => []TypeOK
<1>1. Inv => TypeOK
  BY DEF Inv
<1> QED BY <1>1, Invariance, PTL

\* The pid index never names a dropped cell or one of another pid.
THEOREM PidMapAlwaysSound == Spec => []PidMapSound
<1>1. Inv => PidMapSound
  BY DEF Inv, WellFormed, PidMapSound
<1> QED BY <1>1, Invariance, PTL

\* A parent pointer never leads to a cell other than one of the recorded parent.
THEOREM ParentLinksAlwaysAgree == Spec => []ParentLinkAgrees
<1>1. Inv => ParentLinkAgrees
  BY DEF Inv, WellFormed, ParentLinkAgrees
<1> QED BY <1>1, Invariance, PTL
=============================================================================
