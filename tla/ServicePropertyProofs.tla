----------------------- MODULE ServicePropertyProofs -----------------------
(***************************************************************************)
(* Beyond the soundness of the process map: the ancestry of a process has  *)
(* an end, marks of pipewire processes do not outlive them, and a process  *)
(* that is excepted is left alone.                                         *)
(***************************************************************************)
EXTENDS ServiceProofs

-----------------------------------------------------------------------------
(* What the operations on the map leave, cell by cell *)

\* The fields of a cell that neither its parent nor a pipewire process decides.
SameIdentity(new, old) ==
  /\ new.name = old.name
  /\ new.forked_name = old.forked_name
  /\ new.cgroup = old.cgroup

LEMMA MapFields ==
  ASSUME NEW pm, WellFormed(pm)
  PROVE  /\ pm.map \subseteq Key
         /\ pm.pid_map \in [Pid -> Key \cup {NoKey}]
         /\ pm.cell \in [Key -> Process]
         /\ pm = [map |-> pm.map, pid_map |-> pm.pid_map, cell |-> pm.cell]
BY DEF WellFormed, Map

LEMMA InsertShape ==
  ASSUME NEW pm, NEW new
  PROVE  /\ insert(pm, new).map = pm.map \cup KeysOf(new)
         /\ \A p \in Pid : insert(pm, new).pid_map[p] =
              IF p \in DOMAIN new /\ <<p, new[p].ppid>> \notin pm.map
              THEN <<p, new[p].ppid>> ELSE pm.pid_map[p]
         /\ \A k \in Key : insert(pm, new).cell[k] =
              IF k \in KeysOf(new) THEN Merge(pm.cell[k], new[k[1]]) ELSE pm.cell[k]
BY DEF insert

LEMMA MergeFields ==
  ASSUME NEW old \in Process, NEW obs \in Observed
  PROVE  /\ Merge(old, obs).name = obs.name
         /\ Merge(old, obs).cgroup = obs.cgroup
         /\ Merge(old, obs).pipewire_ancestor = old.pipewire_ancestor
         /\ Merge(old, obs).assigned_priority =
              IF old.name = obs.name THEN old.assigned_priority ELSE NotAssignable
BY DEF Merge, Process, Observed

\* A parent pointer is all that link sets.
LEMMA LinkShape ==
  ASSUME NEW pm, WellFormed(pm), NEW S
  PROVE  /\ link(pm, S).map = pm.map /\ link(pm, S).pid_map = pm.pid_map
         /\ \A k \in Key :
              /\ k \notin S => link(pm, S).cell[k] = pm.cell[k]
              /\ SameIdentity(link(pm, S).cell[k], pm.cell[k])
              /\ link(pm, S).cell[k].assigned_priority = pm.cell[k].assigned_priority
              /\ link(pm, S).cell[k].pipewire_ancestor = pm.cell[k].pipewire_ancestor
<1> DEFINE c == [k \in Key |->
     IF k \in S /\ get_pid(pm, k[2]) # NoKey
     THEN [pm.cell[k] EXCEPT !.parent = get_pid(pm, k[2])]
     ELSE pm.cell[k]]
<1>1. link(pm, S) = [pm EXCEPT !.cell = c]
  BY DEF link
<1>2. /\ link(pm, S).map = pm.map /\ link(pm, S).pid_map = pm.pid_map
      /\ link(pm, S).cell = c
  BY <1>1, MapFields
<1>3. ASSUME NEW k \in Key
      PROVE  /\ k \notin S => c[k] = pm.cell[k]
             /\ SameIdentity(c[k], pm.cell[k])
             /\ c[k].assigned_priority = pm.cell[k].assigned_priority
             /\ c[k].pipewire_ancestor = pm.cell[k].pipewire_ancestor
  <2>1. pm.cell[k] \in Process
    BY MapFields
  <2>2. c[k] = pm.cell[k] \/ (k \in S /\ c[k] = [pm.cell[k] EXCEPT !.parent = get_pid(pm, k[2])])
    OBVIOUS
  <2> HIDE DEF c
  <2> QED BY <2>1, <2>2 DEF Process, SameIdentity
<1> HIDE DEF c
<1> QED BY <1>2, <1>3

\* A cell inherits the mark of a pipewire process, or keeps the one it has.
LEMMA InheritShape ==
  ASSUME TypeOK, NEW pm, WellFormed(pm), NEW S
  PROVE  /\ inherit_pipewire(pm, S).map = pm.map /\ inherit_pipewire(pm, S).pid_map = pm.pid_map
         /\ \A k \in Key :
              /\ k \notin S => inherit_pipewire(pm, S).cell[k] = pm.cell[k]
              /\ SameIdentity(inherit_pipewire(pm, S).cell[k], pm.cell[k])
              /\ inherit_pipewire(pm, S).cell[k].assigned_priority = pm.cell[k].assigned_priority
              /\ inherit_pipewire(pm, S).cell[k].pipewire_ancestor
                   \in PipewireSet \cup {pm.cell[k].pipewire_ancestor}
<1> DEFINE found(k) == IF k \in S THEN PipewireAncestor(pm, k) ELSE NoPid
           c == [k \in Key |-> IF found(k) = NoPid THEN pm.cell[k]
                               ELSE [pm.cell[k] EXCEPT !.pipewire_ancestor = found(k)]]
<1>1. inherit_pipewire(pm, S) = [pm EXCEPT !.cell = c]
  BY DEF inherit_pipewire
<1>2. /\ inherit_pipewire(pm, S).map = pm.map /\ inherit_pipewire(pm, S).pid_map = pm.pid_map
      /\ inherit_pipewire(pm, S).cell = c
  BY <1>1, MapFields
<1>3. ASSUME NEW k \in Key
      PROVE  /\ k \notin S => c[k] = pm.cell[k]
             /\ SameIdentity(c[k], pm.cell[k])
             /\ c[k].assigned_priority = pm.cell[k].assigned_priority
             /\ c[k].pipewire_ancestor \in PipewireSet \cup {pm.cell[k].pipewire_ancestor}
  <2>1. pm.cell[k] \in Process
    BY MapFields
  <2>2. found(k) # NoPid => k \in S /\ found(k) \in PipewireSet
    BY PipewireAncestorFound
  <2>3. c[k] = IF found(k) = NoPid THEN pm.cell[k]
               ELSE [pm.cell[k] EXCEPT !.pipewire_ancestor = found(k)]
    OBVIOUS
  <2> HIDE DEF c, found
  <2> QED BY <2>1, <2>2, <2>3 DEF Process, SameIdentity
<1> HIDE DEF c
<1> QED BY <1>2, <1>3

\* Only a cell without a priority is given one.
LEMMA AssignShape ==
  ASSUME TypeOK, NEW pm, WellFormed(pm), NEW S
  PROVE  LET res == assign_process_priority(pm, S) IN
         /\ res.map = pm.map /\ res.pid_map = pm.pid_map
         /\ \A k \in Key :
              /\ k \notin S \/ pm.cell[k].assigned_priority # NotAssignable
                   => res.cell[k] = pm.cell[k]
              /\ SameIdentity(res.cell[k], pm.cell[k])
              /\ res.cell[k].pipewire_ancestor = pm.cell[k].pipewire_ancestor
<1> DEFINE c == [k \in Key |->
     IF k \in S /\ pm.cell[k].assigned_priority = NotAssignable
     THEN [pm.cell[k] EXCEPT !.assigned_priority = assignment(config, pm, k)]
     ELSE pm.cell[k]]
           res == assign_process_priority(pm, S)
<1>1. res = [pm EXCEPT !.cell = c]
  BY DEF assign_process_priority
<1>2. res.map = pm.map /\ res.pid_map = pm.pid_map /\ res.cell = c
  BY <1>1, MapFields
<1>3. ASSUME NEW k \in Key
      PROVE  /\ k \notin S \/ pm.cell[k].assigned_priority # NotAssignable => c[k] = pm.cell[k]
             /\ SameIdentity(c[k], pm.cell[k])
             /\ c[k].pipewire_ancestor = pm.cell[k].pipewire_ancestor
  <2>1. pm.cell[k] \in Process
    BY MapFields
  <2>2. \/ c[k] = pm.cell[k]
        \/ /\ k \in S /\ pm.cell[k].assigned_priority = NotAssignable
           /\ c[k] = [pm.cell[k] EXCEPT !.assigned_priority = assignment(config, pm, k)]
    OBVIOUS
  <2> HIDE DEF c
  <2> QED BY <2>1, <2>2 DEF Process, SameIdentity
<1> HIDE DEF c, res
<1> QED BY <1>2, <1>3 DEF res

\* The cells that are observed join the map, under the names they were seen with.
LEMMA AssignNewShape ==
  ASSUME TypeOK, NEW pm, WellFormed(pm), NEW new, IsObservation(new)
  PROVE  LET res == assign_new_process(pm, new) IN
         /\ res.map = pm.map \cup KeysOf(new)
         /\ \A p \in Pid : res.pid_map[p] =
              IF p \in DOMAIN new /\ <<p, new[p].ppid>> \notin pm.map
              THEN <<p, new[p].ppid>> ELSE pm.pid_map[p]
         /\ \A k \in Key :
              /\ k \notin KeysOf(new) => res.cell[k] = pm.cell[k]
              /\ k \in KeysOf(new) => /\ res.cell[k].name = new[k[1]].name
                                      /\ res.cell[k].cgroup = new[k[1]].cgroup
              /\ res.cell[k].pipewire_ancestor \in PipewireSet \cup {pm.cell[k].pipewire_ancestor}
<1> DEFINE keys == KeysOf(new)
           m1 == insert(pm, new)
           m2 == link(m1, keys)
           m3 == inherit_pipewire(m2, keys)
           res == assign_process_priority(m3, keys)
<1>1. WellFormed(m1) /\ WellFormed(m2) /\ WellFormed(m3)
  BY InsertWellFormed, LinkWellFormed, InheritWellFormed
<1>2. assign_new_process(pm, new) = res
  BY DEF assign_new_process
<1>3. /\ m1.map = pm.map \cup keys
      /\ \A p \in Pid : m1.pid_map[p] =
           IF p \in DOMAIN new /\ <<p, new[p].ppid>> \notin pm.map
           THEN <<p, new[p].ppid>> ELSE pm.pid_map[p]
      /\ \A k \in Key : m1.cell[k] =
           IF k \in keys THEN Merge(pm.cell[k], new[k[1]]) ELSE pm.cell[k]
  BY InsertShape
<1>4. \A k \in Key : /\ k \in keys => /\ m1.cell[k].name = new[k[1]].name
                                      /\ m1.cell[k].cgroup = new[k[1]].cgroup
                     /\ m1.cell[k].pipewire_ancestor = pm.cell[k].pipewire_ancestor
  <2>1. \A k \in keys : new[k[1]] \in Observed
    BY KeysOfType DEF IsObservation
  <2>2. \A k \in Key : pm.cell[k] \in Process
    BY MapFields
  <2> HIDE DEF keys
  <2> QED BY <1>3, <2>1, <2>2, MergeFields
<1> HIDE DEF m1
<1>5. /\ m2.map = m1.map /\ m2.pid_map = m1.pid_map
      /\ \A k \in Key : /\ k \notin keys => m2.cell[k] = m1.cell[k]
                        /\ SameIdentity(m2.cell[k], m1.cell[k])
                        /\ m2.cell[k].pipewire_ancestor = m1.cell[k].pipewire_ancestor
  BY <1>1, LinkShape
<1> HIDE DEF m2
<1>6. /\ m3.map = m2.map /\ m3.pid_map = m2.pid_map
      /\ \A k \in Key : /\ k \notin keys => m3.cell[k] = m2.cell[k]
                        /\ SameIdentity(m3.cell[k], m2.cell[k])
                        /\ m3.cell[k].pipewire_ancestor
                             \in PipewireSet \cup {m2.cell[k].pipewire_ancestor}
  BY <1>1, InheritShape
<1> HIDE DEF m3
<1>7. /\ res.map = m3.map /\ res.pid_map = m3.pid_map
      /\ \A k \in Key : /\ k \notin keys => res.cell[k] = m3.cell[k]
                        /\ SameIdentity(res.cell[k], m3.cell[k])
                        /\ res.cell[k].pipewire_ancestor = m3.cell[k].pipewire_ancestor
  BY <1>1, AssignShape
<1> HIDE DEF keys, res
<1>8. \A k \in Key :
        /\ k \notin keys => res.cell[k] = pm.cell[k]
        /\ k \in keys => res.cell[k].name = new[k[1]].name /\ res.cell[k].cgroup = new[k[1]].cgroup
        /\ res.cell[k].pipewire_ancestor \in PipewireSet \cup {pm.cell[k].pipewire_ancestor}
  BY <1>3, <1>4, <1>5, <1>6, <1>7 DEF SameIdentity
<1> QED BY <1>2, <1>3, <1>5, <1>6, <1>7, <1>8 DEF keys

\* A cell that is not retained is as if it had never been; the others lose at most
\* their parent pointer.
LEMMA DrainShape ==
  ASSUME NEW pm, WellFormed(pm), NEW retained
  PROVE  LET res == drain_filter(pm, retained) IN
         /\ res.map = pm.map \cap retained
         /\ \A p \in Pid : res.pid_map[p] =
              IF \E k \in pm.map \ retained : k[1] = p THEN NoKey ELSE pm.pid_map[p]
         /\ \A k \in Key :
              IF k \in pm.map \ retained THEN res.cell[k] = DefaultProcess
              ELSE /\ SameIdentity(res.cell[k], pm.cell[k])
                   /\ res.cell[k].assigned_priority = pm.cell[k].assigned_priority
                   /\ res.cell[k].pipewire_ancestor = pm.cell[k].pipewire_ancestor
<1> DEFINE drain == pm.map \ retained
           res == drain_filter(pm, retained)
<1>1. /\ res.map = pm.map \ drain
      /\ \A p \in Pid : res.pid_map[p] = IF \E k \in drain : k[1] = p THEN NoKey
                                         ELSE pm.pid_map[p]
      /\ \A k \in Key : res.cell[k] =
                       IF k \in drain THEN DefaultProcess
                       ELSE IF pm.cell[k].parent \in drain
                            THEN [pm.cell[k] EXCEPT !.parent = NoKey]
                            ELSE pm.cell[k]
  BY DEF drain_filter
<1> HIDE DEF res
<1>2. ASSUME NEW k \in Key, k \notin drain
      PROVE  /\ SameIdentity(res.cell[k], pm.cell[k])
             /\ res.cell[k].assigned_priority = pm.cell[k].assigned_priority
             /\ res.cell[k].pipewire_ancestor = pm.cell[k].pipewire_ancestor
  <2>1. pm.cell[k] \in Process
    BY MapFields
  <2>2. res.cell[k] = pm.cell[k] \/ res.cell[k] = [pm.cell[k] EXCEPT !.parent = NoKey]
    BY <1>1, <1>2
  <2> QED BY <2>1, <2>2 DEF Process, SameIdentity
<1> QED BY <1>1, <1>2 DEF res

\* A garbage collection leaves the live cells, and of their names nothing.
LEMMA GarbageShape ==
  ASSUME TypeOK, NEW pm, WellFormed(pm)
  PROVE  LET res  == garbage_clean(pm)
             live == KeysOf(GcScan)
         IN
         \/ gc_counter < GcLimit /\ res = pm
         \/ /\ res.map = live
            /\ \A p \in Pid : (\E k \in pm.map \ live : k[1] = p) => res.pid_map[p] = NoKey
            /\ \A k \in Key :
                 IF k \in pm.map \ live THEN res.cell[k] = DefaultProcess
                 ELSE /\ res.cell[k].pipewire_ancestor = pm.cell[k].pipewire_ancestor
                      /\ res.cell[k].assigned_priority =
                           IF k \in live /\ pm.cell[k].name # NoName THEN NotAssignable
                           ELSE pm.cell[k].assigned_priority
                      /\ res.cell[k].name = IF k \in live THEN NoName ELSE pm.cell[k].name
<1> DEFINE live == KeysOf(GcScan)
           seen == insert(pm, GcScan)
           res  == drain_filter(seen, live)
<1>1. CASE gc_counter < GcLimit
  BY <1>1 DEF garbage_clean
<1>2. CASE ~ (gc_counter < GcLimit)
  <2>1. IsObservation(GcScan) /\ WellFormed(seen)
    BY ScanObserves, InsertWellFormed
  <2>2. /\ seen.map = pm.map \cup live
        /\ \A k \in Key : seen.cell[k] =
             IF k \in live THEN Merge(pm.cell[k], GcScan[k[1]]) ELSE pm.cell[k]
    BY InsertShape
  <2>3. \A k \in live : GcScan[k[1]] \in Observed /\ GcScan[k[1]].name = NoName
    <3>1. \A p \in alive : GcScan[p].name = NoName
      BY DEF GcScan, Observe
    <3>2. \A k \in live : k[1] \in DOMAIN GcScan
      BY <2>1, KeysOfType
    <3> QED BY <2>1, <3>1, <3>2 DEF IsObservation, GcScan
  <2>4. \A k \in Key : pm.cell[k] \in Process
    BY MapFields
  <2> HIDE DEF seen, live
  <2>5. \A k \in Key :
          /\ seen.cell[k].pipewire_ancestor = pm.cell[k].pipewire_ancestor
          /\ seen.cell[k].assigned_priority =
               IF k \in live /\ pm.cell[k].name # NoName THEN NotAssignable
               ELSE pm.cell[k].assigned_priority
          /\ seen.cell[k].name = IF k \in live THEN NoName ELSE pm.cell[k].name
    BY <2>2, <2>3, <2>4, MergeFields
  <2>6. /\ res.map = seen.map \cap live
        /\ \A p \in Pid : res.pid_map[p] =
             IF \E k \in seen.map \ live : k[1] = p THEN NoKey ELSE seen.pid_map[p]
        /\ \A k \in Key :
             IF k \in seen.map \ live THEN res.cell[k] = DefaultProcess
             ELSE /\ res.cell[k].name = seen.cell[k].name
                  /\ res.cell[k].assigned_priority = seen.cell[k].assigned_priority
                  /\ res.cell[k].pipewire_ancestor = seen.cell[k].pipewire_ancestor
    BY <2>1, DrainShape DEF SameIdentity
  <2>7. seen.map \ live = pm.map \ live /\ seen.map \cap live = live
    BY <2>2
  <2>8. garbage_clean(pm) = res
    BY <1>2 DEF garbage_clean, seen, live
  <2> HIDE DEF res
  <2>9. \A k \in Key :
          IF k \in pm.map \ live THEN res.cell[k] = DefaultProcess
          ELSE /\ res.cell[k].pipewire_ancestor = pm.cell[k].pipewire_ancestor
               /\ res.cell[k].assigned_priority =
                    IF k \in live /\ pm.cell[k].name # NoName THEN NotAssignable
                    ELSE pm.cell[k].assigned_priority
               /\ res.cell[k].name = IF k \in live THEN NoName ELSE pm.cell[k].name
    BY <2>5, <2>6, <2>7
  <2> QED BY <2>6, <2>7, <2>8, <2>9 DEF live
<1> QED BY <1>1, <1>2

\* Cells that a pipewire process brings under its profile, or leaves.
Owned(pm, S, pid) ==
  [pm EXCEPT !.cell = [k \in Key |->
     IF k \in S THEN [pm.cell[k] EXCEPT !.pipewire_ancestor = pid] ELSE pm.cell[k]]]

LEMMA OwnedShape ==
  ASSUME NEW pm, WellFormed(pm), NEW S, NEW pid \in Pid \cup {NoPid}
  PROVE  LET res == Owned(pm, S, pid) IN
         /\ WellFormed(res)
         /\ res.map = pm.map /\ res.pid_map = pm.pid_map
         /\ \A k \in Key :
              /\ SameIdentity(res.cell[k], pm.cell[k])
              /\ res.cell[k].assigned_priority = pm.cell[k].assigned_priority
              /\ res.cell[k].pipewire_ancestor =
                   IF k \in S THEN pid ELSE pm.cell[k].pipewire_ancestor
<1> DEFINE c == [k \in Key |->
     IF k \in S THEN [pm.cell[k] EXCEPT !.pipewire_ancestor = pid] ELSE pm.cell[k]]
<1>1. Owned(pm, S, pid) = [pm EXCEPT !.cell = c]
  BY DEF Owned
<1>2. ASSUME NEW k \in Key
      PROVE  /\ c[k] \in Process /\ c[k].parent = pm.cell[k].parent
             /\ SameIdentity(c[k], pm.cell[k])
             /\ c[k].assigned_priority = pm.cell[k].assigned_priority
             /\ c[k].pipewire_ancestor = IF k \in S THEN pid ELSE pm.cell[k].pipewire_ancestor
  <2>1. pm.cell[k] \in Process
    BY MapFields
  <2>2. c[k] = IF k \in S THEN [pm.cell[k] EXCEPT !.pipewire_ancestor = pid] ELSE pm.cell[k]
    OBVIOUS
  <2> HIDE DEF c
  <2> QED BY <2>1, <2>2 DEF Process, SameIdentity
<1>3. c \in [Key -> Process]
  BY <1>2
<1>4. \A k \in Key : c[k].parent # NoKey => c[k].parent \in pm.map /\ c[k].parent[1] = k[2]
  BY <1>2 DEF WellFormed, LinksSound
<1> HIDE DEF c
<1>5. WellFormed(Owned(pm, S, pid))
  BY <1>1, <1>3, <1>4, RecellWellFormed
<1>6. /\ Owned(pm, S, pid).map = pm.map /\ Owned(pm, S, pid).pid_map = pm.pid_map
      /\ Owned(pm, S, pid).cell = c
  BY <1>1, MapFields
<1> QED BY <1>2, <1>5, <1>6

\* An exec event is an observation of its process, dead or alive.
LEMMA ExecObserves ==
  ASSUME TypeOK, NEW e \in ExecCreateEvent
  PROVE  IsObservation([p \in {e.pid} |->
           [ppid |-> e.parent_pid, name |-> e.name,
            cgroup |-> IF p \in alive THEN proc[p].cgroup ELSE NoCgroup]])
<1>1. \A p \in Pid : (IF p \in alive THEN proc[p].cgroup ELSE NoCgroup)
                       \in Cgroups \cup {NoCgroup}
  BY DEF TypeOK, ProcTypeOK, Proc, NoProc
<1> QED BY <1>1 DEF IsObservation, Observed, ExecCreateEvent

\* The map after a sweep, before the foreground process is set once more.
Swept(entries) ==
  LET seen == insert(process_map, entries)
      live == KeysOf(entries)
  IN assign_process_priority(
       drain_filter(link(seen, {k \in live : get_pid(seen, k[1]) = k}), live), live)

LEMMA SweptShape ==
  ASSUME TypeOK, WellFormed(process_map), NEW entries, IsObservation(entries)
  PROVE  LET res  == Swept(entries)
             live == KeysOf(entries)
         IN
         /\ WellFormed(res)
         /\ res.map = live
         /\ \A p \in Pid : (\E k \in process_map.map \ live : k[1] = p) => res.pid_map[p] = NoKey
         /\ \A k \in Key :
              IF k \in process_map.map \ live THEN res.cell[k] = DefaultProcess
              ELSE /\ res.cell[k].pipewire_ancestor = process_map.cell[k].pipewire_ancestor
                   /\ k \in live => /\ res.cell[k].name = entries[k[1]].name
                                    /\ res.cell[k].cgroup = entries[k[1]].cgroup
                   /\ k \notin live =>
                        /\ res.cell[k].name = process_map.cell[k].name
                        /\ res.cell[k].assigned_priority = process_map.cell[k].assigned_priority
<1> DEFINE live == KeysOf(entries)
           seen == insert(process_map, entries)
           m1   == link(seen, {k \in live : get_pid(seen, k[1]) = k})
           m2   == drain_filter(m1, live)
           res  == assign_process_priority(m2, live)
<1>1. WellFormed(seen) /\ WellFormed(m1) /\ WellFormed(m2) /\ WellFormed(res)
  BY InsertWellFormed, LinkWellFormed, DrainFilterWellFormed, AssignWellFormed
<1>2. Swept(entries) = res
  BY DEF Swept
<1>3. /\ seen.map = process_map.map \cup live
      /\ \A k \in Key : seen.cell[k] =
           IF k \in live THEN Merge(process_map.cell[k], entries[k[1]]) ELSE process_map.cell[k]
  BY InsertShape
<1>4. \A k \in live : entries[k[1]] \in Observed
  BY KeysOfType DEF IsObservation
<1>5. \A k \in Key : process_map.cell[k] \in Process
  BY MapFields
<1> HIDE DEF seen
<1>6. \A k \in Key :
        /\ seen.cell[k].pipewire_ancestor = process_map.cell[k].pipewire_ancestor
        /\ k \in live => /\ seen.cell[k].name = entries[k[1]].name
                         /\ seen.cell[k].cgroup = entries[k[1]].cgroup
        /\ k \notin live => seen.cell[k] = process_map.cell[k]
  <2> HIDE DEF live
  <2> QED BY <1>3, <1>4, <1>5, MergeFields
<1>7. /\ m1.map = seen.map /\ m1.pid_map = seen.pid_map
      /\ \A k \in Key : /\ SameIdentity(m1.cell[k], seen.cell[k])
                        /\ m1.cell[k].assigned_priority = seen.cell[k].assigned_priority
                        /\ m1.cell[k].pipewire_ancestor = seen.cell[k].pipewire_ancestor
  BY <1>1, LinkShape
<1> HIDE DEF m1
<1>8. /\ m2.map = m1.map \cap live
      /\ \A p \in Pid : m2.pid_map[p] =
           IF \E k \in m1.map \ live : k[1] = p THEN NoKey ELSE m1.pid_map[p]
      /\ \A k \in Key :
           IF k \in m1.map \ live THEN m2.cell[k] = DefaultProcess
           ELSE /\ SameIdentity(m2.cell[k], m1.cell[k])
                /\ m2.cell[k].assigned_priority = m1.cell[k].assigned_priority
                /\ m2.cell[k].pipewire_ancestor = m1.cell[k].pipewire_ancestor
  BY <1>1, DrainShape
<1> HIDE DEF m2
<1>9. /\ res.map = m2.map /\ res.pid_map = m2.pid_map
      /\ \A k \in Key : /\ k \notin live => res.cell[k] = m2.cell[k]
                        /\ SameIdentity(res.cell[k], m2.cell[k])
                        /\ res.cell[k].pipewire_ancestor = m2.cell[k].pipewire_ancestor
  BY <1>1, AssignShape
<1> HIDE DEF res, live
<1>10. res.map = live
  BY <1>3, <1>7, <1>8, <1>9
<1>11. \A p \in Pid : (\E k \in process_map.map \ live : k[1] = p) => res.pid_map[p] = NoKey
  BY <1>3, <1>7, <1>8, <1>9
<1>12. \A k \in Key :
         IF k \in process_map.map \ live THEN res.cell[k] = DefaultProcess
         ELSE /\ res.cell[k].pipewire_ancestor = process_map.cell[k].pipewire_ancestor
              /\ k \in live => /\ res.cell[k].name = entries[k[1]].name
                               /\ res.cell[k].cgroup = entries[k[1]].cgroup
              /\ k \notin live =>
                   /\ res.cell[k].name = process_map.cell[k].name
                   /\ res.cell[k].assigned_priority = process_map.cell[k].assigned_priority
  BY <1>3, <1>6, <1>7, <1>8, <1>9 DEF SameIdentity
<1> QED BY <1>1, <1>2, <1>10, <1>11, <1>12 DEF live

-----------------------------------------------------------------------------
(* The ancestry of a process *)

ElderEntries(new) == \A p \in DOMAIN new : new[p].ppid < p /\ p <= last_pid
ElderCells(pm)    == \A k \in pm.map : k[2] < k[1] /\ k[1] <= last_pid

\* As long as pids are not reused, whatever names a process names one that was
\* born, and an older one as its parent: /proc, the exec events on the way, and
\* the cells of the map.
Elders ==
  ~ PidReuse =>
    /\ \A p \in alive : p <= last_pid /\ proc[p].ppid < p
    /\ \A i \in 1..Len(execs) :
         execs[i].parent_pid < execs[i].pid /\ execs[i].pid <= last_pid
    /\ ElderCells(process_map)

LEMMA InsertedElder ==
  ASSUME NEW new, ElderEntries(new), NEW k \in KeysOf(new)
  PROVE  k[2] < k[1] /\ k[1] <= last_pid
BY DEF ElderEntries, KeysOf

LEMMA AssignNewElder ==
  ASSUME TypeOK, NEW pm, WellFormed(pm), ElderCells(pm), NEW new, IsObservation(new),
         ElderEntries(new)
  PROVE  ElderCells(assign_new_process(pm, new))
BY AssignNewShape, InsertedElder DEF ElderCells

LEMMA ScansElder ==
  ASSUME TypeOK, Elders, ~ PidReuse
  PROVE  /\ ElderEntries(Scan) /\ ElderEntries(GcScan)
         /\ \A pm, pid : ElderEntries(NewChildren(pm, pid))
<1>1. \A p \in alive : Observe(p).ppid < p /\ p <= last_pid
  BY DEF Elders, Observe
<1>2. \A p \in alive : GcScan[p].ppid < p
  BY <1>1 DEF GcScan, Observe
<1> QED BY <1>1, <1>2 DEF ElderEntries, Scan, GcScan, NewChildren, ProcTree

LEMMA NewChildrenElder ==
  ASSUME TypeOK, Elders, ~ PidReuse, NEW pm, WellFormed(pm), ElderCells(pm), NEW pid
  PROVE  ElderCells(assign_new_process(pm, NewChildren(pm, pid)))
BY NewChildrenObserves, ScansElder, AssignNewElder

LEMMA GarbageElder ==
  ASSUME TypeOK, Elders, ~ PidReuse, NEW pm, WellFormed(pm), ElderCells(pm)
  PROVE  ElderCells(garbage_clean(pm))
<1>1. garbage_clean(pm) = pm \/ garbage_clean(pm).map = KeysOf(GcScan)
  BY GarbageShape
<1> QED BY <1>1, ScansElder, InsertedElder DEF ElderCells

\* The cells that a handler leaves.
LEMMA HandlersElder ==
  ASSUME Inv, Elders, ~ PidReuse
  PROVE  /\ ExecCreate => ElderCells(process_map')
         /\ \A pid : SetForegroundProcess(pid) => ElderCells(process_map')
         /\ \A pid \in Pid : PipewireAdd(pid) => ElderCells(process_map')
         /\ \A pid : PipewireRemove(pid) => ElderCells(process_map')
<1> USE DEF Inv
<1>0. ElderCells(process_map)
  BY DEF Elders
<1>1. ASSUME ExecCreate
      PROVE  ElderCells(process_map')
  <2> DEFINE e    == Head(execs)
             new  == [p \in {e.pid} |->
                        [ppid |-> e.parent_pid, name |-> e.name,
                         cgroup |-> IF p \in alive THEN proc[p].cgroup ELSE NoCgroup]]
             pm   == assign_new_process(process_map, new)
             pm2  == assign_new_process(pm, NewChildren(pm, e.pid))
  <2>1. process_map' = garbage_clean(pm2)
    BY <1>1 DEF ExecCreate
  <2>2. execs # <<>> /\ execs \in Seq(ExecCreateEvent)
    BY <1>1 DEF ExecCreate, TypeOK, ProcTypeOK
  <2>3. e \in ExecCreateEvent /\ e = execs[1] /\ 1 \in 1..Len(execs)
    BY <2>2
  <2>4. IsObservation(new)
    BY <2>3, ExecObserves
  <2>5. ElderEntries(new)
    BY <2>3 DEF ElderEntries, Elders
  <2> HIDE DEF new
  <2>6. WellFormed(pm) /\ ElderCells(pm)
    BY <1>0, <2>4, <2>5, AssignNewWellFormed, AssignNewElder
  <2> HIDE DEF pm
  <2>7. WellFormed(pm2) /\ ElderCells(pm2)
    BY <2>6, NewChildrenRecorded, NewChildrenElder
  <2> QED BY <2>1, <2>7, GarbageElder
<1>2. ASSUME NEW pid, SetForegroundProcess(pid)
      PROVE  ElderCells(process_map')
  BY <1>0, <1>2, NewChildrenRecorded, NewChildrenElder, GarbageElder DEF SetForegroundProcess
<1>3. ASSUME NEW pid \in Pid, PipewireAdd(pid)
      PROVE  ElderCells(process_map')
  <2> DEFINE pm == assign_new_process(process_map, NewChildren(process_map, pid))
  <2>1. WellFormed(pm) /\ ElderCells(pm)
    BY <1>0, NewChildrenRecorded, NewChildrenElder
  <2>2. PICK below : process_map' \in {garbage_clean(Owned(pm, below, pid)), garbage_clean(pm)}
    BY <1>3 DEF PipewireAdd, Owned
  <2> HIDE DEF pm
  <2>3. WellFormed(Owned(pm, below, pid)) /\ ElderCells(Owned(pm, below, pid))
    BY <2>1, OwnedShape DEF ElderCells
  <2> QED BY <2>1, <2>2, <2>3, GarbageElder
<1>4. ASSUME NEW pid, PipewireRemove(pid)
      PROVE  ElderCells(process_map')
  <2>1. process_map' = process_map \/ process_map' = Owned(process_map, Freed(pid), NoPid)
    BY <1>4 DEF PipewireRemove, Owned
  <2> QED BY <1>0, <2>1, OwnedShape DEF ElderCells
<1> QED BY <1>1, <1>2, <1>3, <1>4

LEMMA SweepElder ==
  ASSUME Inv, Elders, ~ PidReuse, NEW entries, IsObservation(entries), ElderEntries(entries),
         process_map_refresh(entries)
  PROVE  ElderCells(process_map')
<1> USE DEF Inv
<1> DEFINE pm == Swept(entries)
<1>1. WellFormed(pm) /\ pm.map = KeysOf(entries)
  BY SweptShape
<1>2. process_map' = assign_new_process(pm, NewChildren(pm, foreground))
  BY DEF process_map_refresh, Swept
<1> HIDE DEF pm
<1>3. ElderCells(pm)
  BY <1>1, InsertedElder DEF ElderCells
<1> QED BY <1>1, <1>2, <1>3, NewChildrenElder

LEMMA EnvironmentElder ==
  ASSUME Inv, Elders, Environment
  PROVE  Elders'
<1> SUFFICES ASSUME ~ PidReuse
             PROVE  Elders'
  BY DEF Elders
<1>0. /\ alive \subseteq Pid /\ last_pid \in Pid /\ execs \in Seq(ExecCreateEvent)
      /\ proc \in [Pid -> Proc \cup {NoProc}] /\ MaxPid \in Nat
      /\ \A p \in alive : p <= last_pid /\ proc[p].ppid < p /\ proc[p] \in Proc
      /\ \A i \in 1..Len(execs) :
           execs[i].parent_pid < execs[i].pid /\ execs[i].pid <= last_pid
      /\ ElderCells(process_map)
      /\ \A p \in Pid : p \in Int
  BY ProcFsAssumption DEF Inv, AliveHasProc, TypeOK, ProcTypeOK, Elders, Pid
<1>a. (\A i \in 1..Len(execs) : execs[i].pid \in Int) /\ (\A k \in process_map.map : k[1] \in Int)
  <2>1. \A i \in 1..Len(execs) : execs[i] \in ExecCreateEvent
    BY <1>0
  <2>2. \A i \in 1..Len(execs) : execs[i].pid \in Pid
    BY <2>1 DEF ExecCreateEvent
  <2>3. \A k \in process_map.map : k[1] \in Pid
    BY KeyFields DEF Inv, WellFormed, Map
  <2> QED BY <1>0, <2>2, <2>3
<1>1. ASSUME NEW p \in Pid, NEW c \in Pid, ForkProcess(p, c)
      PROVE  Elders'
  <2>1. /\ p \in alive /\ c \notin alive /\ c = last_pid + 1 /\ last_pid' = c
        /\ alive' = alive \cup {c} /\ UNCHANGED <<execs, process_map>>
        /\ proc' = [proc EXCEPT ![c] = [proc[p] EXCEPT !.ppid = p]]
    BY <1>1 DEF ForkProcess, Fork, FreePid
  <2>2. proc'[c].ppid = p /\ p < c
    BY <1>0, <2>1 DEF Proc
  <2>3. \A q \in alive : proc'[q] = proc[q] /\ q <= last_pid'
    BY <1>0, <2>1
  <2>4. (\A i \in 1..Len(execs) : execs[i].pid <= last_pid') /\ ElderCells(process_map)'
    BY <1>0, <1>a, <2>1 DEF ElderCells
  <2> QED BY <1>0, <2>1, <2>2, <2>3, <2>4 DEF Elders
<1>2. ASSUME NEW p \in Pid, NEW reaper \in Pid, ExitProcess(p, reaper)
      PROVE  Elders'
  <2>1. /\ p \in alive /\ reaper \in {InitPid, proc[p].ppid} /\ alive' = alive \ {p}
        /\ proc' = [q \in Pid |-> IF q = p THEN NoProc
                                  ELSE IF q \in alive /\ proc[q].ppid = p
                                       THEN [proc[q] EXCEPT !.ppid = reaper]
                                       ELSE proc[q]]
        /\ UNCHANGED <<last_pid, execs, process_map>>
    BY <1>2 DEF ExitProcess, Exit
  <2>2. reaper <= p
    BY <1>0, <2>1 DEF InitPid, Pid
  <2>3. ASSUME NEW q \in alive'
        PROVE  proc'[q].ppid < q
    <3>1. CASE proc[q].ppid = p
      <4>1. proc'[q].ppid = reaper
        BY <1>0, <2>1, <2>3, <3>1 DEF Proc
      <4> QED BY <1>0, <2>1, <2>2, <2>3, <3>1, <4>1
    <3>2. CASE proc[q].ppid # p
      BY <1>0, <2>1, <2>3, <3>2
    <3> QED BY <3>1, <3>2
  <2> QED BY <1>0, <2>1, <2>3 DEF Elders, ElderCells
<1>3. ASSUME NEW p \in Pid, NEW n \in Names, ExecProcess(p, n)
      PROVE  Elders'
  <2> DEFINE e == [pid |-> p, parent_pid |-> proc[p].ppid, name |-> n]
  <2>1. /\ p \in alive /\ proc' = [proc EXCEPT ![p].exe = n]
        /\ execs' = execs \/ execs' = Append(execs, e)
        /\ UNCHANGED <<alive, last_pid, process_map>>
    BY <1>3 DEF ExecProcess, ExecSeen, ExecUnseen, serviceVars
  <2>2. e.parent_pid < e.pid /\ e.pid <= last_pid
    BY <1>0, <2>1
  <2> HIDE DEF e
  <2>3. \A i \in 1..Len(execs') :
          execs'[i].parent_pid < execs'[i].pid /\ execs'[i].pid <= last_pid
    <3>1. CASE execs' = Append(execs, e)
      <4>1. /\ Len(execs') = Len(execs) + 1 /\ execs'[Len(execs) + 1] = e
            /\ \A i \in 1..Len(execs) : execs'[i] = execs[i]
        BY <1>0, <3>1, AppendOf
      <4> QED BY <1>0, <2>2, <4>1
    <3> QED BY <1>0, <2>1, <3>1
  <2>4. \A q \in alive : proc'[q].ppid = proc[q].ppid
    BY <1>0, <2>1 DEF Proc
  <2> QED BY <1>0, <2>1, <2>3, <2>4 DEF Elders, ElderCells
<1>4. ASSUME NEW p \in Pid, NEW g \in Cgroups, MoveProcess(p, g)
      PROVE  Elders'
  <2>1. p \in alive /\ proc' = [proc EXCEPT ![p].cgroup = g]
        /\ UNCHANGED <<alive, last_pid, execs, process_map>>
    BY <1>4 DEF MoveProcess, MoveCgroup, serviceVars
  <2>2. \A q \in alive : proc'[q].ppid = proc[q].ppid
    BY <1>0, <2>1 DEF Proc
  <2> QED BY <1>0, <2>1, <2>2 DEF Elders, ElderCells
<1> QED BY <1>1, <1>2, <1>3, <1>4 DEF Environment

\* A handler passes the exec events on, the oldest taken off.
LEMMA EventsElder ==
  ASSUME Inv, Elders, ~ PidReuse, execs # <<>>, execs' = Tail(execs)
  PROVE  \A i \in 1..Len(execs') :
           execs'[i].parent_pid < execs'[i].pid /\ execs'[i].pid <= last_pid
<1>1. execs \in Seq(ExecCreateEvent)
  BY DEF Inv, TypeOK, ProcTypeOK
<1>2. /\ Len(execs) \in Nat /\ Len(execs') = Len(execs) - 1
      /\ \A i \in 1..(Len(execs) - 1) : execs'[i] = execs[i + 1]
  BY <1>1, TailOf
<1>3. \A i \in 1..Len(execs) :
        execs[i].parent_pid < execs[i].pid /\ execs[i].pid <= last_pid
  BY DEF Elders
<1>4. \A i \in 1..(Len(execs) - 1) : i + 1 \in 1..Len(execs)
  BY <1>2
<1> QED BY <1>2, <1>3, <1>4

LEMMA InitElder ==
  ASSUME Init
  PROVE  Elders
<1>1. \A p \in alive : proc[p].ppid < p
  <2> SUFFICES ASSUME NEW p \in alive PROVE proc[p].ppid < p
    OBVIOUS
  <2>1. p \in DOMAIN Boot /\ p \in Pid /\ proc[p] = Boot[p]
    BY BootAssumption DEF Init, ProcInit
  <2> QED BY <2>1, BootAssumption DEF Pid, InitPid, NoPid
<1>2. Len(execs) = 0
  BY DEF Init, ProcInit
<1>3. process_map.map = {}
  BY DEF Init, EmptyMap
<1> QED BY <1>1, <1>2, <1>3 DEF Elders, ElderCells, Init, ProcInit

LEMMA RequestsElder ==
  ASSUME Inv, Elders, Requests
  PROVE  Elders'
<1>1. UNCHANGED procVars
  BY DEF Requests, SetForegroundProcess, PipewireAdd, PipewireRemove, ReloadConfiguration
<1>2. ~ PidReuse => ElderCells(process_map')
  <2> SUFFICES ASSUME ~ PidReuse PROVE ElderCells(process_map')
    OBVIOUS
  <2>1. CASE ReloadConfiguration
    BY <2>1 DEF ReloadConfiguration, Elders
  <2>2. CASE ~ ReloadConfiguration
    BY <2>2, HandlersElder, ServiceAssumption DEF Requests
  <2> QED BY <2>1, <2>2
<1> QED BY <1>1, <1>2 DEF Elders, procVars, ElderCells

LEMMA ExecCreateElder ==
  ASSUME Inv, Elders, ExecCreate
  PROVE  Elders'
<1>1. UNCHANGED <<alive, proc, last_pid>> /\ execs # <<>> /\ execs' = Tail(execs)
  BY DEF ExecCreate
<1> QED BY <1>1, HandlersElder, EventsElder DEF Elders, ElderCells

LEMMA RefreshElder ==
  ASSUME Inv, Elders, NEW STATE entries, IsObservation(entries),
         ~ PidReuse => ElderEntries(entries), process_map_refresh(entries)
  PROVE  Elders'
<1>1. UNCHANGED procVars
  BY DEF process_map_refresh
<1> QED BY <1>1, SweepElder DEF Elders, procVars, ElderCells

LEMMA NextElder == Inv /\ Elders /\ [Next]_vars => Elders'
<1> SUFFICES ASSUME Inv, Elders, [Next]_vars
             PROVE  Elders'
  OBVIOUS
<1>1. CASE Environment
  BY <1>1, EnvironmentElder
<1>2. CASE Requests
  BY <1>2, RequestsElder
<1>3. CASE ExecCreate
  BY <1>3, ExecCreateElder
<1>4. CASE RefreshProcessMap
  <2>1. IsObservation(Scan) /\ (~ PidReuse => ElderEntries(Scan))
    BY ScanObserves, ScansElder DEF Inv
  <2> QED BY <1>4, <2>1, RefreshElder DEF RefreshProcessMap
<1>5. CASE UNCHANGED vars
  BY <1>5 DEF vars, procVars, serviceVars, Elders, ElderCells
<1> QED BY <1>1, <1>2, <1>3, <1>4, <1>5 DEF Next

\* The link of a cell is to one of the recorded parent, and that one is older.
LEMMA ElderEnds == Inv /\ Elders => AncestryEnds
<1> SUFFICES ASSUME Inv, Elders, ~ PidReuse, NEW k \in process_map.map, Cell(k).parent # NoKey
             PROVE  Cell(k).parent[1] < k[1]
  BY DEF AncestryEnds
<1>1. k \in Key /\ k[2] < k[1]
  BY DEF Inv, WellFormed, Map, Elders, ElderCells
<1>2. Cell(k).parent[1] = k[2]
  BY <1>1 DEF Inv, WellFormed, LinksSound, Cell
<1> QED BY <1>1, <1>2

\* Without pid reuse no chain of parent pointers, which Process::ancestors follows
\* without a guard against a cycle, ever comes back to where it began.
THEOREM AncestryAlwaysEnds == Spec => []AncestryEnds
<1>1. Init => Inv /\ Elders
  BY InitInv, InitElder
<1>2. (Inv /\ Elders) /\ [Next]_vars => (Inv /\ Elders)'
  BY NextInv, NextElder
<1> QED BY <1>1, <1>2, ElderEnds, PTL DEF Spec

-----------------------------------------------------------------------------
(* The marks of pipewire processes *)

Distinct(s) == \A i, j \in 1..Len(s) : s[i] = s[j] => i = j

\* Whatever cell is marked is in the map, by a process of S.
MarksIn(pm, S) ==
  \A k \in Key :
    pm.cell[k].pipewire_ancestor \in IF k \in pm.map THEN S \cup {NoPid} ELSE {NoPid}

\* The list holds each pipewire process once: with a second entry, the one that
\* a removal leaves would keep the marks alive.
Marks ==
  /\ MarksIn(process_map, PipewireSet)
  /\ PipewireSet \subseteq managed
  /\ Distinct(pipewire_processes)

\* Removing the first of the occurrences of an element moves the others up by one.
LEMMA RemoveFirstIs ==
  ASSUME NEW S, NEW s \in Seq(S), NEW e, e \in ToSet(s)
  PROVE  \E m \in 1..Len(s) :
           /\ s[m] = e
           /\ Len(RemoveFirst(s, e)) = Len(s) - 1
           /\ \A i \in 1..(Len(s) - 1) :
                RemoveFirst(s, e)[i] = IF i < m THEN s[i] ELSE s[i + 1]
<1> DEFINE I == {i \in 1..Len(s) : s[i] = e}
           m == Min(I)
<1>1. I # {} /\ I \in SUBSET Nat
  BY DEF ToSet
<1>2. m \in 1..Len(s) /\ s[m] = e
  <2>1. m \in I
    BY <1>1, MinIsMember
  <2> QED BY <2>1
<1>3. RemoveFirst(s, e) = SubSeq(s, 1, m - 1) \o SubSeq(s, m + 1, Len(s))
  BY <1>1 DEF RemoveFirst, RemoveAt, SelectInSeq
<1> HIDE DEF m, I
<1>4. Len(s) \in Nat /\ m \in Nat /\ 1 <= m /\ m <= Len(s)
  BY <1>2
<1>5. /\ SubSeq(s, 1, m - 1) \in Seq(S) /\ Len(SubSeq(s, 1, m - 1)) = m - 1
      /\ SubSeq(s, m + 1, Len(s)) \in Seq(S) /\ Len(SubSeq(s, m + 1, Len(s))) = Len(s) - m
      /\ \A i \in 1..(m - 1) : SubSeq(s, 1, m - 1)[i] = s[i]
      /\ \A i \in 1..(Len(s) - m) : SubSeq(s, m + 1, Len(s))[i] = s[m + i]
  BY <1>4
<1>6. \A i \in 1..(Len(s) - 1) : i >= m => i - (m - 1) \in 1..(Len(s) - m) /\ m + (i - (m - 1)) = i + 1
  BY <1>4
<1>7. /\ Len(RemoveFirst(s, e)) = Len(s) - 1
      /\ \A i \in 1..(Len(s) - 1) :
           RemoveFirst(s, e)[i] = IF i < m THEN s[i] ELSE s[i + 1]
  <2> DEFINE a == SubSeq(s, 1, m - 1)
             b == SubSeq(s, m + 1, Len(s))
  <2>1. /\ a \in Seq(S) /\ b \in Seq(S) /\ Len(a) = m - 1 /\ Len(b) = Len(s) - m
        /\ \A i \in 1..(m - 1) : a[i] = s[i]
        /\ \A i \in 1..(Len(s) - m) : b[i] = s[m + i]
    BY <1>5
  <2>2. RemoveFirst(s, e) = a \o b
    BY <1>3
  <2> HIDE DEF a, b
  <2>3. /\ Len(a \o b) = Len(s) - 1
        /\ \A i \in 1..(Len(s) - 1) : (a \o b)[i] = IF i < m THEN a[i] ELSE b[i - (m - 1)]
    <3>1. /\ Len(a \o b) = Len(a) + Len(b)
          /\ \A i \in 1..(Len(a) + Len(b)) :
               (a \o b)[i] = IF i <= Len(a) THEN a[i] ELSE b[i - Len(a)]
      BY <2>1, ConcatProperties
    <3>2. Len(a) + Len(b) = Len(s) - 1 /\ \A i \in Int : i <= m - 1 <=> i < m
      BY <1>4, <2>1
    <3> QED BY <2>1, <3>1, <3>2
  <2>4. ASSUME NEW i \in 1..(Len(s) - 1)
        PROVE  (a \o b)[i] = IF i < m THEN s[i] ELSE s[i + 1]
    <3>1. CASE i < m
      <4>1. i \in 1..(m - 1)
        BY <1>4, <3>1
      <4> QED BY <2>1, <2>3, <3>1, <4>1
    <3>2. CASE ~ (i < m)
      <4>1. i - (m - 1) \in 1..(Len(s) - m) /\ m + (i - (m - 1)) = i + 1
        BY <1>4, <1>6, <3>2
      <4>2. b[i - (m - 1)] = s[i + 1]
        BY <2>1, <4>1
      <4> QED BY <2>3, <3>2, <4>2
    <3> QED BY <3>1, <3>2
  <2> QED BY <2>2, <2>3, <2>4
<1> QED BY <1>2, <1>7

\* From a list without repetitions the element itself is gone afterwards.
LEMMA RemoveFirstDistinct ==
  ASSUME NEW S, NEW s \in Seq(S), NEW e, e \in ToSet(s), Distinct(s)
  PROVE  /\ Distinct(RemoveFirst(s, e))
         /\ ToSet(RemoveFirst(s, e)) = ToSet(s) \ {e}
<1> DEFINE r == RemoveFirst(s, e)
<1>1. PICK m \in 1..Len(s) :
        /\ s[m] = e
        /\ Len(r) = Len(s) - 1
        /\ \A i \in 1..(Len(s) - 1) : r[i] = IF i < m THEN s[i] ELSE s[i + 1]
  BY RemoveFirstIs
<1>2. r \in Seq(S)
  BY RemoveFirstType
<1> HIDE DEF r
<1>3. /\ Len(s) \in Nat /\ m \in Nat /\ 1 <= m /\ m <= Len(s)
      /\ DOMAIN s = 1..Len(s) /\ DOMAIN r = 1..(Len(s) - 1)
  BY <1>1, <1>2
<1>4. Distinct(r)
  BY <1>1, <1>3 DEF Distinct
<1>5. \A i \in 1..(Len(s) - 1) : r[i] \in ToSet(s) \ {e}
  BY <1>1, <1>3 DEF Distinct, ToSet
<1>6. \A i \in 1..Len(s) : s[i] # e => s[i] \in ToSet(r)
  <2> SUFFICES ASSUME NEW i \in 1..Len(s), s[i] # e PROVE s[i] \in ToSet(r)
    OBVIOUS
  <2>1. CASE i < m
    <3>1. i \in 1..(Len(s) - 1) /\ r[i] = s[i]
      BY <1>1, <1>3, <2>1
    <3> QED BY <1>3, <3>1 DEF ToSet
  <2>2. CASE ~ (i < m)
    <3>1. i # m /\ i > m /\ i - 1 \in 1..(Len(s) - 1) /\ (i - 1) + 1 = i /\ ~ (i - 1 < m)
      BY <1>1, <1>3, <2>2
    <3>2. r[i - 1] = s[i]
      BY <1>1, <3>1
    <3> QED BY <1>3, <3>1, <3>2 DEF ToSet
  <2> QED BY <2>1, <2>2
<1>7. ToSet(r) = ToSet(s) \ {e}
  BY <1>3, <1>5, <1>6 DEF ToSet
<1> QED BY <1>4, <1>7 DEF r

LEMMA AppendDistinct ==
  ASSUME NEW S, NEW s \in Seq(S), NEW e \in S, e \notin ToSet(s), Distinct(s)
  PROVE  Distinct(Append(s, e)) /\ ToSet(Append(s, e)) = ToSet(s) \cup {e}
<1> DEFINE r == Append(s, e)
<1>1. /\ r \in Seq(S) /\ Len(r) = Len(s) + 1
      /\ \A i \in 1..Len(s) : r[i] = s[i]
      /\ r[Len(s) + 1] = e
  BY AppendOf
<1> HIDE DEF r
<1>2. /\ Len(s) \in Nat /\ DOMAIN s = 1..Len(s) /\ DOMAIN r = 1..(Len(s) + 1)
      /\ \A i \in 1..Len(s) : s[i] # e /\ i \in 1..(Len(s) + 1)
      /\ \A i \in 1..(Len(s) + 1) : i \in 1..Len(s) \/ i = Len(s) + 1
  BY <1>1 DEF ToSet
<1>3. Distinct(r)
  BY <1>1, <1>2 DEF Distinct
<1>4. ToSet(r) = ToSet(s) \cup {e}
  <2>1. \A i \in 1..(Len(s) + 1) : r[i] \in ToSet(s) \cup {e}
    BY <1>1, <1>2 DEF ToSet
  <2>2. \A i \in 1..Len(s) : s[i] \in ToSet(r)
    BY <1>1, <1>2 DEF ToSet
  <2>3. e \in ToSet(r)
    BY <1>1, <1>2 DEF ToSet
  <2> QED BY <1>2, <2>1, <2>2, <2>3 DEF ToSet
<1> QED BY <1>3, <1>4 DEF r

-----------------------------------------------------------------------------

LEMMA AssignNewMarks ==
  ASSUME TypeOK, NEW pm, WellFormed(pm), MarksIn(pm, PipewireSet), NEW new, IsObservation(new)
  PROVE  MarksIn(assign_new_process(pm, new), PipewireSet)
<1> DEFINE res == assign_new_process(pm, new)
<1>1. /\ res.map = pm.map \cup KeysOf(new)
      /\ \A k \in Key :
           /\ k \notin KeysOf(new) => res.cell[k] = pm.cell[k]
           /\ res.cell[k].pipewire_ancestor \in PipewireSet \cup {pm.cell[k].pipewire_ancestor}
  BY AssignNewShape
<1> HIDE DEF res
<1>2. MarksIn(res, PipewireSet)
  BY <1>1 DEF MarksIn
<1> QED BY <1>2 DEF res

LEMMA NewChildrenMarks ==
  ASSUME TypeOK, NEW pm, WellFormed(pm), MarksIn(pm, PipewireSet), NEW pid
  PROVE  MarksIn(assign_new_process(pm, NewChildren(pm, pid)), PipewireSet)
BY NewChildrenObserves, AssignNewMarks

LEMMA GarbageMarks ==
  ASSUME TypeOK, NEW pm, WellFormed(pm), NEW S, MarksIn(pm, S)
  PROVE  MarksIn(garbage_clean(pm), S)
<1> DEFINE res  == garbage_clean(pm)
           live == KeysOf(GcScan)
<1>1. \/ res = pm
      \/ /\ res.map = live
         /\ \A k \in Key :
              IF k \in pm.map \ live THEN res.cell[k] = DefaultProcess
              ELSE res.cell[k].pipewire_ancestor = pm.cell[k].pipewire_ancestor
  BY GarbageShape
<1> HIDE DEF res, live
<1>2. MarksIn(res, S)
  BY <1>1 DEF MarksIn, DefaultProcess
<1> QED BY <1>2 DEF res

LEMMA SweptMarks ==
  ASSUME TypeOK, WellFormed(process_map), MarksIn(process_map, PipewireSet),
         NEW entries, IsObservation(entries)
  PROVE  MarksIn(Swept(entries), PipewireSet)
<1> DEFINE res  == Swept(entries)
           live == KeysOf(entries)
<1>1. /\ res.map = live
      /\ \A k \in Key :
           IF k \in process_map.map \ live THEN res.cell[k] = DefaultProcess
           ELSE res.cell[k].pipewire_ancestor = process_map.cell[k].pipewire_ancestor
  BY SweptShape
<1> HIDE DEF res, live
<1>2. MarksIn(res, PipewireSet)
  BY <1>1 DEF MarksIn, DefaultProcess
<1> QED BY <1>2 DEF res

\* A process that is added marks cells of the map only, and one that is removed
\* takes all its marks with it.
LEMMA PipewireAddMarks ==
  ASSUME Inv, Marks, NEW pid \in Pid, PipewireAdd(pid)
  PROVE  Marks'
<1> USE DEF Inv
<1> DEFINE pm    == assign_new_process(process_map, NewChildren(process_map, pid))
           cells == {k \in pm.map : process_assignment(pm, k[1]) = Assignable}
           below == {k \in cells : k[1] # pid /\ process_descended_from(pm, k, pid)}
<1>1. WellFormed(pm) /\ MarksIn(pm, PipewireSet)
  BY NewChildrenRecorded, NewChildrenMarks DEF Marks
<1>2. /\ managed' = managed \cup {pid}
      /\ \/ UNCHANGED pipewire_processes /\ process_map' = garbage_clean(pm)
         \/ /\ pipewire_processes' = IF pid \in PipewireSet THEN pipewire_processes
                                     ELSE Append(pipewire_processes, pid)
            /\ process_map' = garbage_clean(Owned(pm, below, pid))
  BY DEF PipewireAdd, Owned
<1>3. below \subseteq pm.map
  OBVIOUS
<1> HIDE DEF pm, cells, below
<1>4. pipewire_processes \in Seq(Pid) /\ PipewireSet = ToSet(pipewire_processes)
  BY DEF TypeOK, PipewireSet
<1>5. CASE UNCHANGED pipewire_processes /\ process_map' = garbage_clean(pm)
  <2>1. MarksIn(process_map', PipewireSet)
    BY <1>1, <1>5, GarbageMarks
  <2>2. PipewireSet' = PipewireSet
    BY <1>5 DEF PipewireSet
  <2> QED BY <1>2, <1>5, <2>1, <2>2 DEF Marks, MarksIn
<1>6. CASE /\ pipewire_processes' = IF pid \in PipewireSet THEN pipewire_processes
                                    ELSE Append(pipewire_processes, pid)
           /\ process_map' = garbage_clean(Owned(pm, below, pid))
  <2> DEFINE S == PipewireSet \cup {pid}
  <2>1. ToSet(pipewire_processes') = S /\ Distinct(pipewire_processes')
    <3>1. CASE pid \in PipewireSet
      BY <1>4, <1>6, <3>1 DEF Marks
    <3>2. CASE pid \notin PipewireSet
      BY <1>4, <1>6, <3>2, AppendDistinct DEF Marks
    <3> QED BY <3>1, <3>2
  <2>2. PipewireSet' = S
    BY <2>1 DEF PipewireSet
  <2>3. WellFormed(Owned(pm, below, pid)) /\ MarksIn(Owned(pm, below, pid), S)
    <3> DEFINE own == Owned(pm, below, pid)
    <3>1. /\ WellFormed(own) /\ own.map = pm.map
          /\ \A k \in Key : own.cell[k].pipewire_ancestor =
                              IF k \in below THEN pid ELSE pm.cell[k].pipewire_ancestor
      BY <1>1, OwnedShape
    <3> HIDE DEF own
    <3>2. MarksIn(own, S)
      BY <1>1, <1>3, <3>1 DEF MarksIn
    <3> QED BY <3>1, <3>2 DEF own
  <2>4. MarksIn(process_map', S)
    BY <1>6, <2>3, GarbageMarks
  <2> HIDE DEF S
  <2>5. S \subseteq managed'
    BY <1>2 DEF Marks, S
  <2> QED BY <2>1, <2>2, <2>4, <2>5 DEF Marks, MarksIn
<1> QED BY <1>2, <1>5, <1>6

LEMMA PipewireRemoveMarks ==
  ASSUME Inv, Marks, NEW pid \in Pid, PipewireRemove(pid)
  PROVE  Marks'
<1> USE DEF Inv
<1>1. /\ managed' = managed \ {pid}
      /\ IF pid \in PipewireSet
         THEN /\ pipewire_processes' = RemoveFirst(pipewire_processes, pid)
              /\ process_map' = Owned(process_map, Freed(pid), NoPid)
         ELSE UNCHANGED <<pipewire_processes, process_map>>
  BY DEF PipewireRemove, Owned
<1>2. pipewire_processes \in Seq(Pid) /\ PipewireSet = ToSet(pipewire_processes)
  BY DEF TypeOK, PipewireSet
<1>3. CASE pid \notin PipewireSet
  <2>1. PipewireSet' = PipewireSet
    BY <1>1, <1>3 DEF PipewireSet
  <2> QED BY <1>1, <1>3, <2>1 DEF Marks, MarksIn
<1>4. CASE pid \in PipewireSet
  <2> DEFINE S == PipewireSet \ {pid}
             own == Owned(process_map, Freed(pid), NoPid)
  <2>1. ToSet(pipewire_processes') = S /\ Distinct(pipewire_processes')
    BY <1>1, <1>2, <1>4, RemoveFirstDistinct DEF Marks
  <2>2. PipewireSet' = S
    BY <2>1 DEF PipewireSet
  <2>3. /\ own.map = process_map.map
        /\ \A k \in Key : own.cell[k].pipewire_ancestor =
             IF k \in Freed(pid) THEN NoPid ELSE process_map.cell[k].pipewire_ancestor
    BY OwnedShape
  <2>4. process_map' = own
    BY <1>1, <1>4
  <2> HIDE DEF own
  <2>5. MarksIn(own, S)
    <3>1. \A k \in process_map.map \ Freed(pid) : process_map.cell[k].pipewire_ancestor # pid
      BY DEF Freed
    <3> QED BY <2>3, <3>1 DEF Marks, MarksIn
  <2> HIDE DEF S
  <2>6. S \subseteq managed'
    BY <1>1 DEF Marks, S
  <2> QED BY <2>1, <2>2, <2>4, <2>5, <2>6 DEF Marks, MarksIn
<1> QED BY <1>3, <1>4

\* The other handlers leave the list alone.
LEMMA OthersMark ==
  ASSUME Inv, Marks, UNCHANGED <<pipewire_processes, managed>>,
         MarksIn(process_map', PipewireSet)
  PROVE  Marks'
BY DEF Marks, MarksIn, PipewireSet, Distinct

LEMMA ExecCreateMarks ==
  ASSUME Inv, Marks, ExecCreate
  PROVE  Marks'
<1> USE DEF Inv
<1> DEFINE e    == Head(execs)
           new  == [p \in {e.pid} |->
                      [ppid |-> e.parent_pid, name |-> e.name,
                       cgroup |-> IF p \in alive THEN proc[p].cgroup ELSE NoCgroup]]
           pm   == assign_new_process(process_map, new)
           pm2  == assign_new_process(pm, NewChildren(pm, e.pid))
<1>1. process_map' = garbage_clean(pm2) /\ UNCHANGED <<pipewire_processes, managed>>
  BY DEF ExecCreate
<1>2. e \in ExecCreateEvent
  BY DEF ExecCreate, TypeOK, ProcTypeOK
<1>3. IsObservation(new)
  BY <1>2, ExecObserves
<1> HIDE DEF new
<1>4. WellFormed(pm) /\ MarksIn(pm, PipewireSet)
  BY <1>3, AssignNewWellFormed, AssignNewMarks DEF Marks
<1> HIDE DEF pm
<1>5. WellFormed(pm2) /\ MarksIn(pm2, PipewireSet)
  BY <1>4, NewChildrenRecorded, NewChildrenMarks
<1> QED BY <1>1, <1>5, GarbageMarks, OthersMark

LEMMA SetForegroundProcessMarks ==
  ASSUME Inv, Marks, NEW pid, SetForegroundProcess(pid)
  PROVE  Marks'
<1> USE DEF Inv
<1> DEFINE pm == assign_new_process(process_map, NewChildren(process_map, pid))
<1>1. process_map' = garbage_clean(pm) /\ UNCHANGED <<pipewire_processes, managed>>
  BY DEF SetForegroundProcess
<1>2. WellFormed(pm) /\ MarksIn(pm, PipewireSet)
  BY NewChildrenRecorded, NewChildrenMarks DEF Marks
<1> QED BY <1>1, <1>2, GarbageMarks, OthersMark

LEMMA SweepMarks ==
  ASSUME Inv, Marks, NEW STATE entries, IsObservation(entries), process_map_refresh(entries)
  PROVE  Marks'
<1> USE DEF Inv
<1> DEFINE pm == Swept(entries)
<1>1. /\ process_map' = assign_new_process(pm, NewChildren(pm, foreground))
      /\ UNCHANGED <<pipewire_processes, managed>>
  BY DEF process_map_refresh, Swept
<1>2. WellFormed(pm) /\ MarksIn(pm, PipewireSet)
  BY SweptShape, SweptMarks DEF Marks
<1> HIDE DEF pm
<1> QED BY <1>1, <1>2, NewChildrenMarks, OthersMark

LEMMA InitMarks ==
  ASSUME Init
  PROVE  Marks
<1>1. \A k \in Key : process_map.cell[k] = DefaultProcess
  BY DEF Init, EmptyMap
<1>2. pipewire_processes = <<>>
  BY DEF Init
<1> QED BY <1>1, <1>2 DEF Marks, MarksIn, Distinct, PipewireSet, ToSet, DefaultProcess

LEMMA NextMarks == Inv /\ Marks /\ [Next]_vars => Marks'
<1> SUFFICES ASSUME Inv, Marks, [Next]_vars
             PROVE  Marks'
  OBVIOUS
<1>1. CASE UNCHANGED <<process_map, pipewire_processes, managed>>
  BY <1>1, OthersMark DEF Marks
<1>2. CASE Environment
  BY <1>1, <1>2 DEF Environment, ForkProcess, ExitProcess, ExecProcess, MoveProcess, serviceVars
<1>3. CASE Requests
  <2>1. CASE ReloadConfiguration
    BY <1>1, <2>1 DEF ReloadConfiguration
  <2> QED BY <1>3, <2>1, SetForegroundProcessMarks, PipewireAddMarks, PipewireRemoveMarks,
             ServiceAssumption DEF Requests
<1>4. CASE ExecCreate
  BY <1>4, ExecCreateMarks
<1>5. CASE RefreshProcessMap
  BY <1>5, ScanObserves, SweepMarks DEF RefreshProcessMap, Inv
<1>6. CASE UNCHANGED vars
  BY <1>1, <1>6 DEF vars, serviceVars
<1> QED BY <1>2, <1>3, <1>4, <1>5, <1>6 DEF Next

\* No process keeps the mark of a pipewire process that is gone, and the monitor
\* still owes a removal for each that is not.
THEOREM MarksAlwaysOwned == Spec => []PipewireMarksOwned
<1>1. Init => Inv /\ Marks
  BY InitInv, InitMarks
<1>2. (Inv /\ Marks) /\ [Next]_vars => (Inv /\ Marks)'
  BY NextInv, NextMarks
<1>3. Inv /\ Marks => PipewireMarksOwned
  BY DEF Inv, WellFormed, Map, Marks, MarksIn, PipewireMarksOwned, Cell
<1> QED BY <1>1, <1>2, <1>3, PTL DEF Spec

-----------------------------------------------------------------------------
(* Processes that are excepted *)

\* What Excepted says of the process map alone.
ExceptedIn(pm, p) ==
  /\ pm.pid_map[p] # NoKey
  /\ \A k \in pm.map : k[1] = p => pm.cell[k].assigned_priority = Exception

LEMMA ExceptedIs ==
  ASSUME NEW p \in Pid
  PROVE  Excepted(p) <=> p \in alive /\ ExceptedIn(process_map, p)
BY DEF Excepted, ExceptedIn, Registered, Cell, get_pid

LEMMA ApplyPasses ==
  ASSUME NEW p \in Pid, NEW pr, NEW pm, NEW new, p \notin DOMAIN new, NEW fg
  PROVE  apply_process_priority(pr, pm, new, fg)[p] = pr[p]
BY DEF apply_process_priority

\* Neither a cell that is excepted nor one without a priority has one applied.
LEMMA ApplyLeaves ==
  ASSUME NEW p \in Pid, NEW pr \in [Pid -> Scheduling], NEW pm, NEW new, NEW fg,
         p \in DOMAIN new =>
           pm.cell[<<p, new[p].ppid>>].assigned_priority \in {Exception, NotAssignable}
  PROVE  apply_process_priority(pr, pm, new, fg)[p] = pr[p]
<1>1. CASE p \in DOMAIN new
  <2> DEFINE a == pm.cell[<<p, new[p].ppid>>].assigned_priority
  <2>1. a \notin Profiles /\ a # Assignable
    BY <1>1, ProfilesAssumption DEF Assignable, Exception, NotAssignable
  <2>2. ProfileFor(pm, <<p, new[p].ppid>>, pr[p], fg) = pr[p]
    BY <2>1, Zenon DEF ProfileFor
  <2> QED BY <2>2 DEF apply_process_priority
<1>2. CASE p \notin DOMAIN new
  BY <1>2, ApplyPasses
<1> QED BY <1>1, <1>2

\* Of the observations of other processes nothing reaches the cells of p.
LEMMA OthersObserved ==
  ASSUME TypeOK, NEW pm, WellFormed(pm), NEW new, IsObservation(new), NEW p \in Pid \ DOMAIN new
  PROVE  LET res == assign_new_process(pm, new) IN
         /\ res.pid_map[p] = pm.pid_map[p]
         /\ \A k \in Key : k[1] = p => /\ k \in res.map <=> k \in pm.map
                                       /\ res.cell[k] = pm.cell[k]
<1> DEFINE res == assign_new_process(pm, new)
<1>1. \A k \in KeysOf(new) : k[1] \in DOMAIN new
  BY KeysOfType
<1>2. /\ res.map = pm.map \cup KeysOf(new)
      /\ \A q \in Pid : res.pid_map[q] =
           IF q \in DOMAIN new /\ <<q, new[q].ppid>> \notin pm.map
           THEN <<q, new[q].ppid>> ELSE pm.pid_map[q]
      /\ \A k \in Key : k \notin KeysOf(new) => res.cell[k] = pm.cell[k]
  BY AssignNewShape
<1> HIDE DEF res
<1>3. res.pid_map[p] = pm.pid_map[p]
  BY <1>2
<1>4. \A k \in Key : k[1] = p => (k \in res.map <=> k \in pm.map) /\ res.cell[k] = pm.cell[k]
  BY <1>1, <1>2
<1> QED BY <1>3, <1>4 DEF res

\* assign_children passes over a process that the pid index knows.
LEMMA KnownChildren ==
  ASSUME TypeOK, NEW pm, WellFormed(pm), NEW pid, NEW p \in Pid, pm.pid_map[p] # NoKey
  PROVE  LET kids == NewChildren(pm, pid)
             res  == assign_new_process(pm, kids)
         IN
         /\ p \notin DOMAIN kids
         /\ res.pid_map[p] = pm.pid_map[p]
         /\ \A k \in Key : k[1] = p => /\ k \in res.map <=> k \in pm.map
                                       /\ res.cell[k] = pm.cell[k]
<1> DEFINE kids == NewChildren(pm, pid)
<1>1. p \notin DOMAIN kids
  BY DEF NewChildren, get_pid
<1>2. IsObservation(kids)
  BY NewChildrenObserves
<1> HIDE DEF kids
<1>3. LET res == assign_new_process(pm, kids) IN
      /\ res.pid_map[p] = pm.pid_map[p]
      /\ \A k \in Key : k[1] = p => /\ k \in res.map <=> k \in pm.map
                                    /\ res.cell[k] = pm.cell[k]
  BY <1>1, <1>2, OthersObserved
<1> QED BY <1>1, <1>3 DEF kids

LEMMA ChildrenExcepted ==
  ASSUME TypeOK, NEW pm, WellFormed(pm), NEW pid, NEW p \in Pid, ExceptedIn(pm, p),
         NEW pr \in [Pid -> Scheduling], NEW fg
  PROVE  LET kids == NewChildren(pm, pid)
             res  == assign_new_process(pm, kids)
         IN  /\ ExceptedIn(res, p)
             /\ apply_process_priority(pr, res, kids, fg)[p] = pr[p]
<1> DEFINE kids == NewChildren(pm, pid)
           res  == assign_new_process(pm, kids)
<1>1. /\ p \notin DOMAIN kids
      /\ res.pid_map[p] = pm.pid_map[p]
      /\ \A k \in Key : k[1] = p => /\ k \in res.map <=> k \in pm.map
                                    /\ res.cell[k] = pm.cell[k]
  BY KnownChildren DEF ExceptedIn
<1>2. WellFormed(res)
  BY NewChildrenRecorded
<1>3. res.map \subseteq Key
  BY <1>2, MapFields
<1> HIDE DEF kids, res
<1>4. ExceptedIn(res, p)
  BY <1>1, <1>3 DEF ExceptedIn
<1>5. apply_process_priority(pr, res, kids, fg)[p] = pr[p]
  BY <1>1, ApplyPasses
<1> QED BY <1>4, <1>5 DEF kids, res

\* Its registered cell decides for a process, so an excepted one is not Assignable.
LEMMA ExceptedNotAssignable ==
  ASSUME NEW pm, WellFormed(pm), NEW p \in Pid, ExceptedIn(pm, p)
  PROVE  process_assignment(pm, p) # Assignable
<1>1. get_pid(pm, p) # NoKey
  BY DEF ExceptedIn, get_pid
<1>2. get_pid(pm, p) \in pm.map /\ get_pid(pm, p)[1] = p
  BY <1>1, GetPidSound
<1>3. pm.cell[get_pid(pm, p)].assigned_priority = Exception
  BY <1>2 DEF ExceptedIn
<1> QED BY <1>1, <1>3 DEF process_assignment, Assignable, Exception

LEMMA SetPriorityLeaves ==
  ASSUME NEW p \in Pid, NEW pr, NEW pids, p \notin pids, NEW profile
  PROVE  SetPriority(pr, pids, profile)[p] = pr[p]
BY DEF SetPriority

LEMMA PrioritiseLeaves ==
  ASSUME NEW p \in Pid, NEW pr, NEW pm, process_assignment(pm, p) # Assignable, NEW pid,
         Prioritise(pm, pr, pid)
  PROVE  prio'[p] = pr[p]
<1> DEFINE cells == {k \in pm.map : process_assignment(pm, k[1]) = Assignable}
           below == {k \in cells : k[1] = pid \/ process_descended_from(pm, k, pid)}
           piped == {k \in cells : process_is_pipewire_assigned(pm, k)}
           fg == {k[1] : k \in below \ piped}
           bg == {k[1] : k \in cells \ (below \cup piped)}
<1>1. p \notin fg /\ p \notin bg
  OBVIOUS
<1>2. PICK last \in SUBSET (fg \cap bg) :
        prio' = SetPriority(SetPriority(pr, fg, "foreground"), bg \ last, "background")
  BY DEF Prioritise
<1> HIDE DEF fg, bg
<1>3. p \notin bg \ last
  BY <1>1
<1>4. prio'[p] = SetPriority(pr, fg, "foreground")[p]
  BY <1>2, <1>3, SetPriorityLeaves
<1> QED BY <1>1, <1>4, SetPriorityLeaves

-----------------------------------------------------------------------------

LEMMA SetForegroundProcessLeaves ==
  ASSUME Inv, NEW pid, SetForegroundProcess(pid), NEW p \in Pid, Excepted(p)
  PROVE  prio'[p] = prio[p]
<1> USE DEF Inv
<1> DEFINE kids == NewChildren(process_map, pid)
           pm   == assign_new_process(process_map, kids)
           pr   == apply_process_priority(prio, pm, kids, foreground)
<1>1. ExceptedIn(process_map, p) /\ prio \in [Pid -> Scheduling]
  BY ExceptedIs DEF TypeOK
<1>2. ExceptedIn(pm, p) /\ pr[p] = prio[p]
  BY <1>1, ChildrenExcepted
<1>3. WellFormed(pm)
  BY NewChildrenRecorded
<1>4. Prioritise(pm, pr, pid) \/ prio' = pr
  BY DEF SetForegroundProcess
<1> HIDE DEF pm, pr
<1>5. process_assignment(pm, p) # Assignable
  BY <1>2, <1>3, ExceptedNotAssignable
<1> QED BY <1>2, <1>4, <1>5, PrioritiseLeaves

LEMMA PipewireAddLeaves ==
  ASSUME Inv, NEW pid, PipewireAdd(pid), NEW p \in Pid, Excepted(p)
  PROVE  prio'[p] = prio[p]
<1> USE DEF Inv
<1> DEFINE kids  == NewChildren(process_map, pid)
           pm    == assign_new_process(process_map, kids)
           pr    == apply_process_priority(prio, pm, kids, foreground)
           cells == {k \in pm.map : process_assignment(pm, k[1]) = Assignable}
           below == {k \in cells : k[1] # pid /\ process_descended_from(pm, k, pid)}
           pids  == {k[1] : k \in {c \in cells : c[1] = pid} \cup below}
<1>1. ExceptedIn(process_map, p) /\ prio \in [Pid -> Scheduling]
  BY ExceptedIs DEF TypeOK
<1>2. ExceptedIn(pm, p) /\ pr[p] = prio[p]
  BY <1>1, ChildrenExcepted
<1>3. WellFormed(pm)
  BY NewChildrenRecorded
<1>4. prio' = SetPriority(pr, pids, "pipewire") \/ prio' = pr
  BY DEF PipewireAdd
<1> HIDE DEF pm, pr
<1>5. process_assignment(pm, p) # Assignable
  BY <1>2, <1>3, ExceptedNotAssignable
<1>6. p \notin pids
  BY <1>5
<1> HIDE DEF pids
<1> QED BY <1>2, <1>4, <1>6, SetPriorityLeaves

LEMMA PipewireRemoveLeaves ==
  ASSUME Inv, NEW pid, PipewireRemove(pid), NEW p \in Pid, Excepted(p)
  PROVE  prio'[p] = prio[p]
<1> USE DEF Inv
<1> DEFINE pids == {k[1] : k \in {c \in Freed(pid) :
                                   process_assignment(process_map, c[1]) = Assignable}}
<1>1. process_assignment(process_map, p) # Assignable
  BY ExceptedIs, ExceptedNotAssignable
<1>2. \/ prio' = prio
      \/ prio' = SetPriority(SetPriority(prio, pids, "background"),
                             pids \cap foreground_processes, "foreground")
  BY DEF PipewireRemove
<1>3. p \notin pids /\ p \notin pids \cap foreground_processes
  BY <1>1
<1> HIDE DEF pids
<1> QED BY <1>2, <1>3, SetPriorityLeaves

\* A late exec event for an excepted process may make a second cell, which decides
\* what is applied; but that cell is excepted as well if the process still is.
LEMMA ExecCreateLeaves ==
  ASSUME Inv, ExecCreate, NEW p \in Pid, Excepted(p), ExceptedIn(process_map', p)
  PROVE  prio'[p] = prio[p]
<1> USE DEF Inv
<1> DEFINE e    == Head(execs)
           pid  == e.pid
           new  == [q \in {e.pid} |->
                      [ppid |-> e.parent_pid, name |-> e.name,
                       cgroup |-> IF q \in alive THEN proc[q].cgroup ELSE NoCgroup]]
           pm   == assign_new_process(process_map, new)
           kids == NewChildren(pm, pid)
           pm2  == assign_new_process(pm, kids)
           pr   == apply_process_priority(prio, pm, new, foreground)
           kn   == <<p, e.parent_pid>>
<1>1. e \in ExecCreateEvent
  BY DEF ExecCreate, TypeOK, ProcTypeOK
<1>2. IsObservation(new)
  BY <1>1, ExecObserves
<1>3. WellFormed(pm) /\ WellFormed(pm2)
  BY <1>2, AssignNewWellFormed, NewChildrenRecorded
<1>4. /\ process_map' = garbage_clean(pm2)
      /\ prio' = apply_process_priority(pr, pm2, kids, foreground)
  BY DEF ExecCreate
<1>5. prio \in [Pid -> Scheduling] /\ pr \in [Pid -> Scheduling]
  BY ApplyType DEF TypeOK
<1>6. ExceptedIn(process_map, p)
  BY ExceptedIs
<1>7. DOMAIN new = {e.pid}
  OBVIOUS
<1>8. p = e.pid => new[p].ppid = e.parent_pid /\ new[p].name = e.name
  OBVIOUS
<1> HIDE DEF e, new
<1>9. CASE p # e.pid
  <2>1. /\ pm.pid_map[p] = process_map.pid_map[p]
        /\ \A k \in Key : k[1] = p => /\ k \in pm.map <=> k \in process_map.map
                                      /\ pm.cell[k] = process_map.cell[k]
    BY <1>2, <1>7, <1>9, OthersObserved
  <2>2. pm.map \subseteq Key
    BY <1>3, MapFields
  <2>3. pr[p] = prio[p]
    <3>1. p \notin DOMAIN new
      BY <1>7, <1>9
    <3> HIDE DEF pm
    <3> QED BY <3>1, ApplyPasses
  <2> HIDE DEF pm, pr
  <2>4. ExceptedIn(pm, p)
    BY <1>6, <2>1, <2>2 DEF ExceptedIn
  <2>5. prio'[p] = pr[p]
    <3>1. apply_process_priority(pr, pm2, kids, foreground)[p] = pr[p]
      BY <1>3, <1>5, <2>4, ChildrenExcepted
    <3> QED BY <1>4, <3>1
  <2> QED BY <2>3, <2>5
<1>10. CASE p = e.pid
  <2>1. /\ new[p].ppid = e.parent_pid /\ new[p].name = e.name
        /\ e.name # NoName /\ p \in DOMAIN new
    BY <1>1, <1>7, <1>8, <1>10, ProcFsAssumption DEF ExecCreateEvent
  <2>2. kn \in KeysOf(new) /\ kn \in Key
    BY <1>2, <2>1, KeysOfType
  <2>3. /\ pm.map = process_map.map \cup KeysOf(new)
        /\ \A q \in Pid : pm.pid_map[q] =
             IF q \in DOMAIN new /\ <<q, new[q].ppid>> \notin process_map.map
             THEN <<q, new[q].ppid>> ELSE process_map.pid_map[q]
        /\ \A k \in Key : k \in KeysOf(new) => pm.cell[k].name = new[k[1]].name
    BY <1>2, AssignNewShape
  <2> HIDE DEF pm
  <2>4. kn \in pm.map /\ pm.cell[kn].name # NoName
    BY <2>1, <2>2, <2>3
  <2>5. pm.pid_map[p] # NoKey
    BY <1>6, <2>1, <2>2, <2>3, KeyFields DEF ExceptedIn
  <2>6. /\ p \notin DOMAIN kids
        /\ kn \in pm2.map /\ pm2.cell[kn] = pm.cell[kn]
    <3>1. kn[1] = p
      OBVIOUS
    <3> HIDE DEF pid
    <3>2. /\ p \notin DOMAIN kids
          /\ \A k \in Key : k[1] = p => /\ k \in pm2.map <=> k \in pm.map
                                        /\ pm2.cell[k] = pm.cell[k]
      BY <1>3, <2>5, KnownChildren
    <3> HIDE DEF kids, pm2, kn
    <3> QED BY <2>2, <2>4, <3>1, <3>2
  <2>7. prio'[p] = pr[p]
    <3> HIDE DEF kids, pm2, pr
    <3> QED BY <1>4, <2>6, ApplyPasses
  <2>8. pm.cell[kn].assigned_priority = Exception
    <3> DEFINE live == KeysOf(GcScan)
    <3>1. \/ process_map' = pm2
          \/ /\ process_map'.map = live
             /\ (\E k \in pm2.map \ live : k[1] = p) => process_map'.pid_map[p] = NoKey
             /\ kn \in live /\ pm2.cell[kn].name # NoName =>
                  process_map'.cell[kn].assigned_priority = NotAssignable
      <4> HIDE DEF pm2, kn
      <4>1. WellFormed(pm2) /\ kn \in Key /\ process_map' = garbage_clean(pm2)
        BY <1>3, <1>4, <2>2
      <4>2. \/ process_map' = pm2
            \/ /\ process_map'.map = live
               /\ \A q \in Pid : (\E k \in pm2.map \ live : k[1] = q) =>
                                   process_map'.pid_map[q] = NoKey
               /\ \A k \in Key :
                    IF k \in pm2.map \ live THEN process_map'.cell[k] = DefaultProcess
                    ELSE k \in live /\ pm2.cell[k].name # NoName =>
                           process_map'.cell[k].assigned_priority = NotAssignable
        BY <4>1, GarbageShape
      <4> HIDE DEF live
      <4> QED BY <4>1, <4>2
    <3> HIDE DEF pm2, live
    <3>2. CASE process_map' = pm2
      BY <2>6, <3>2 DEF ExceptedIn
    <3>3. CASE process_map'.map = live /\ kn \notin live /\ process_map' # pm2
      <4>1. \E k \in pm2.map \ live : k[1] = p
        BY <2>6, <3>3
      <4> QED BY <3>1, <3>3, <4>1 DEF ExceptedIn
    <3>4. CASE process_map'.map = live /\ kn \in live /\ process_map' # pm2
      BY <2>4, <2>6, <3>1, <3>4 DEF ExceptedIn, Exception, NotAssignable
    <3> QED BY <3>1, <3>2, <3>3, <3>4
  <2>9. pr[p] = prio[p]
    <3>1. pm.cell[<<p, new[p].ppid>>].assigned_priority = Exception
      BY <2>1, <2>8
    <3> QED BY <1>5, <3>1, ApplyLeaves
  <2> QED BY <2>7, <2>9
<1> QED BY <1>9, <1>10

\* In a sweep every cell that decides is one that is left in the map, unless the
\* pid loses its place in the index.
LEMMA SweepLeaves ==
  ASSUME Inv, NEW entries, IsObservation(entries), process_map_refresh(entries),
         NEW p \in Pid, ExceptedIn(process_map', p)
  PROVE  prio'[p] = prio[p]
<1> USE DEF Inv
<1> DEFINE pm   == Swept(entries)
           kids == NewChildren(pm, foreground)
           pm2  == assign_new_process(pm, kids)
           pr   == apply_process_priority(prio, pm, entries, foreground)
           pr2  == apply_process_priority(pr, pm2, kids, NoPid)
           kn   == <<p, entries[p].ppid>>
<1>1. /\ process_map' = pm2
      /\ Prioritise(pm2, pr2, foreground) \/ prio' = pr2
  BY DEF process_map_refresh, Swept
<1>2. WellFormed(pm) /\ pm.map = KeysOf(entries)
  BY SweptShape
<1>3. prio \in [Pid -> Scheduling] /\ pr \in [Pid -> Scheduling]
  BY ApplyType DEF TypeOK
<1> HIDE DEF pm
<1>4. WellFormed(pm2) /\ IsObservation(kids)
  BY <1>2, NewChildrenObserves, NewChildrenRecorded
<1>5. /\ pm2.map = pm.map \cup KeysOf(kids)
      /\ pm2.pid_map[p] = IF p \in DOMAIN kids /\ <<p, kids[p].ppid>> \notin pm.map
                          THEN <<p, kids[p].ppid>> ELSE pm.pid_map[p]
      /\ \A k \in Key : k \notin KeysOf(kids) => pm2.cell[k] = pm.cell[k]
  BY <1>2, <1>4, AssignNewShape
<1>6. p \in DOMAIN kids => pm.pid_map[p] = NoKey
  BY DEF NewChildren, get_pid
<1>7. \A k \in KeysOf(kids) : k[1] \in DOMAIN kids /\ k = <<k[1], kids[k[1]].ppid>>
  BY DEF KeysOf
<1>8. ExceptedIn(pm2, p)
  BY <1>1
<1> HIDE DEF kids, pm2
<1>9. ASSUME p \in DOMAIN entries
      PROVE  pm.cell[kn].assigned_priority = Exception
  <2>1. kn \in pm.map /\ kn \in Key
    BY <1>2, <1>9, KeysOfType
  <2>2. CASE kn \in KeysOf(kids)
    <3>1. pm2.pid_map[p] = NoKey
      BY <1>5, <1>6, <1>7, <2>1, <2>2
    <3> QED BY <1>8, <3>1 DEF ExceptedIn
  <2>3. CASE kn \notin KeysOf(kids)
    BY <1>5, <1>8, <2>1, <2>3 DEF ExceptedIn
  <2> QED BY <2>2, <2>3
<1>10. pr[p] = prio[p]
  BY <1>3, <1>9, ApplyLeaves
<1>11. p \in DOMAIN kids => pm2.cell[<<p, kids[p].ppid>>].assigned_priority = Exception
  BY <1>4, <1>5, <1>8, KeysOfType DEF ExceptedIn
<1>12. pr2[p] = pr[p]
  BY <1>3, <1>11, ApplyLeaves
<1> HIDE DEF pr, pr2
<1>13. process_assignment(pm2, p) # Assignable
  BY <1>4, <1>8, ExceptedNotAssignable
<1> QED BY <1>1, <1>10, <1>12, <1>13, PrioritiseLeaves

LEMMA RequestsLeave ==
  ASSUME Inv, Requests, NEW p \in Pid, Excepted(p)
  PROVE  prio'[p] = prio[p]
BY SetForegroundProcessLeaves, PipewireAddLeaves, PipewireRemoveLeaves
   DEF Requests, ReloadConfiguration

\* The kernel gives a process its parent's scheduling when it is forked, no later.
LEMMA EnvironmentLeaves ==
  ASSUME Inv, Environment, NEW p \in alive, p \in alive'
  PROVE  prio'[p] = prio[p]
<1>1. prio \in [Pid -> Scheduling] /\ alive \subseteq Pid
  BY DEF Inv, TypeOK, ProcTypeOK
<1> QED BY <1>1 DEF Environment, ForkProcess, Fork, FreePid, ExitProcess, Exit, ExecProcess,
                    MoveProcess, serviceVars

\* What a step leaves to a process that is excepted before and after it.
LEMMA StepLeaves ==
  ASSUME Inv, Next, NEW p \in Pid, Excepted(p), Excepted(p)'
  PROVE  prio'[p] = prio[p]
<1>1. p \in alive /\ p \in alive' /\ ExceptedIn(process_map', p)
  BY DEF Excepted, ExceptedIn, Registered, Cell, get_pid
<1>2. CASE RefreshProcessMap
  BY <1>1, <1>2, ScanObserves, SweepLeaves DEF RefreshProcessMap, Inv
<1> QED BY <1>1, <1>2, EnvironmentLeaves, RequestsLeave, ExecCreateLeaves DEF Next

\* No handler changes the scheduling of a process while every cell there is for it
\* says that it is excepted.
THEOREM ExceptionsLeftAlone == Spec => ExceptionsUntouched
<1>1. Inv /\ [Next]_vars =>
        [\A p \in Pid : Excepted(p) /\ Excepted(p)' => prio'[p] = prio[p]]_vars
  BY StepLeaves
<1> QED BY <1>1, Invariance, PTL DEF Spec, ExceptionsUntouched

-----------------------------------------------------------------------------
(* The priority of a process is the one on record *)

\* What apply_process_priority makes of a process p with this cell, in terms of
\* the cell: fg is foreground, fgs the pids found below it, piped those under the
\* pipewire profile.
Decided(cell, p, current, fg, fgs, piped) ==
  IF cell.assigned_priority \in Profiles THEN cell.assigned_priority
  ELSE IF cell.assigned_priority # Assignable THEN current
  ELSE IF config.pipewire /\ (cell.pipewire_ancestor # NoPid \/ p \in piped) THEN "pipewire"
  ELSE IF ~ config.foreground \/ fg = NoPid THEN "default"
  ELSE IF p \in fgs \cup {fg} THEN "foreground"
  ELSE "background"

\* A process runs with that or, one of rel, with what a removal has left.
RunsRight(cell, p, sched, fg, fgs, piped, rel) ==
  LET record == Decided(cell, p, sched, fg, fgs, piped) IN
  \/ sched = record
  \/ /\ p \in rel
     /\ \/ /\ record = "default"
           /\ sched = IF config.foreground THEN "background" ELSE "pipewire"
        \/ /\ record = "pipewire" /\ config.foreground
           /\ p \in piped /\ cell.pipewire_ancestor = NoPid
           /\ sched \in {"foreground", "background"}

SettledIn(pm, p) ==
  /\ p \in alive /\ pm.pid_map[p] # NoKey
  /\ \A k \in pm.map : k[1] = p => k = pm.pid_map[p]

InForce(pm, pr, fg, fgs, piped, rel) ==
  \A p \in Pid : SettledIn(pm, p) =>
    RunsRight(pm.cell[pm.pid_map[p]], p, pr[p], fg, fgs, piped, rel)

LEMMA ProfileIsDecided ==
  ASSUME NEW pm, NEW k, NEW current, NEW fg
  PROVE  ProfileFor(pm, k, current, fg) =
           Decided(pm.cell[k], k[1], current, fg, foreground_processes, PipewireSet)
BY Zenon DEF ProfileFor, Decided, process_is_pipewire_assigned

\* Applying a decision twice is applying it once.
LEMMA DecidedRunsRight ==
  ASSUME NEW cell, NEW p, NEW current, NEW fg, NEW fgs, NEW piped, NEW rel
  PROVE  RunsRight(cell, p, Decided(cell, p, current, fg, fgs, piped), fg, fgs, piped, rel)
<1> DEFINE r == Decided(cell, p, current, fg, fgs, piped)
<1>1. Decided(cell, p, r, fg, fgs, piped) = r
  BY Zenon DEF Decided
<1> QED BY <1>1, Zenon DEF RunsRight

\* A process that is excepted or not decided yet runs with whatever it has.
LEMMA UndecidedRunsRight ==
  ASSUME NEW cell, cell.assigned_priority \in {NotAssignable, Exception},
         NEW p, NEW sched, NEW fg, NEW fgs, NEW piped, NEW rel
  PROVE  RunsRight(cell, p, sched, fg, fgs, piped, rel)
<1>1. cell.assigned_priority \notin Profiles /\ cell.assigned_priority # Assignable
  BY ProfilesAssumption DEF Assignable, NotAssignable, Exception
<1> QED BY <1>1 DEF RunsRight, Decided

\* Only what is Assignable looks at the foreground and at pipewire.
LEMMA OwnProfileRunsRight ==
  ASSUME NEW cell, cell.assigned_priority \in OwnedPriority \ {Assignable},
         NEW p, NEW sched, NEW fg, NEW fgs, NEW piped, NEW rel,
         RunsRight(cell, p, sched, fg, fgs, piped, rel),
         NEW cell2, cell2.assigned_priority = cell.assigned_priority,
         NEW fg2, NEW fgs2, NEW piped2, NEW rel2
  PROVE  RunsRight(cell2, p, sched, fg2, fgs2, piped2, rel2)
<1>1. CASE cell.assigned_priority \in Profiles
  <2>1. Decided(cell, p, sched, fg, fgs, piped) = cell.assigned_priority
    BY <1>1 DEF Decided
  <2>2. Decided(cell2, p, sched, fg2, fgs2, piped2) = cell.assigned_priority
    BY <1>1 DEF Decided
  <2>3. cell.assigned_priority \notin {"default", "pipewire"}
    BY <1>1, ServiceAssumption
  <2> QED BY <2>1, <2>2, <2>3 DEF RunsRight
<1>2. CASE cell.assigned_priority \notin Profiles
  BY <1>2, UndecidedRunsRight DEF OwnedPriority
<1> QED BY <1>1, <1>2

\* A process whose own entry in the scan decides runs with what is applied.
LEMMA AppliedRunsRight ==
  ASSUME NEW pm, NEW new, NEW p \in DOMAIN new, p \in Pid, NEW pr, NEW fg, NEW rel,
         SettledIn(pm, p), <<p, new[p].ppid>> \in pm.map
  PROVE  RunsRight(pm.cell[pm.pid_map[p]], p, apply_process_priority(pr, pm, new, fg)[p],
                   fg, foreground_processes, PipewireSet, rel)
<1> DEFINE kn == <<p, new[p].ppid>>
<1>1. kn = pm.pid_map[p] /\ p \in alive /\ kn[1] = p
  BY DEF SettledIn
<1>2. apply_process_priority(pr, pm, new, fg)[p] = ProfileFor(pm, kn, pr[p], fg)
  BY <1>1 DEF apply_process_priority
<1> HIDE DEF kn
<1>3. ProfileFor(pm, kn, pr[p], fg) =
        Decided(pm.cell[kn], p, pr[p], fg, foreground_processes, PipewireSet)
  BY <1>1, ProfileIsDecided
<1> QED BY <1>1, <1>2, <1>3, DecidedRunsRight

\* A handler that records processes applies what it has recorded.
LEMMA RecordedInForce ==
  ASSUME TypeOK, NEW pm, WellFormed(pm), NEW new, IsObservation(new), NEW pr, NEW fg,
         NEW rel, InForce(pm, pr, fg, foreground_processes, PipewireSet, rel),
         NEW rel2,
         \A p \in rel :
           apply_process_priority(pr, assign_new_process(pm, new), new, fg)[p] = pr[p]
             => p \in rel2
  PROVE  LET res == assign_new_process(pm, new) IN
         InForce(res, apply_process_priority(pr, res, new, fg), fg,
                 foreground_processes, PipewireSet, rel2)
<1> DEFINE res == assign_new_process(pm, new)
           pr2 == apply_process_priority(pr, res, new, fg)
<1> SUFFICES ASSUME NEW p \in Pid, SettledIn(res, p)
             PROVE  RunsRight(res.cell[res.pid_map[p]], p, pr2[p], fg,
                              foreground_processes, PipewireSet, rel2)
  BY DEF InForce
<1>1. WellFormed(res)
  BY AssignNewWellFormed
<1>2. CASE p \in DOMAIN new
  <2>1. <<p, new[p].ppid>> \in res.map
    BY <1>2, KeysOfType, AssignNewShape
  <2> HIDE DEF res
  <2> QED BY <1>2, <2>1, AppliedRunsRight
<1>3. CASE p \notin DOMAIN new
  <2>1. /\ res.pid_map[p] = pm.pid_map[p]
        /\ \A k \in Key : k[1] = p => /\ k \in res.map <=> k \in pm.map
                                      /\ res.cell[k] = pm.cell[k]
    BY <1>3, OthersObserved
  <2>2. pr2[p] = pr[p]
    BY <1>3, ApplyPasses
  <2>3. p \in rel => p \in rel2
    BY <2>2
  <2> HIDE DEF res, pr2
  <2>4. SettledIn(pm, p)
    BY <2>1, MapFields DEF SettledIn
  <2>5. pm.pid_map[p] \in Key /\ pm.pid_map[p][1] = p
    BY <2>4 DEF SettledIn, WellFormed, IndexSound, Map
  <2>6. RunsRight(pm.cell[pm.pid_map[p]], p, pr[p], fg,
                  foreground_processes, PipewireSet, rel)
    BY <2>4 DEF InForce
  <2> QED BY <2>1, <2>2, <2>3, <2>5, <2>6 DEF RunsRight, Decided
<1> QED BY <1>2, <1>3

-----------------------------------------------------------------------------
(* Cells without a name *)

\* A cell that the garbage collector made or emptied waits for its priority.
Nameless(pm) ==
  \A k \in Key : pm.cell[k].name = NoName => pm.cell[k].assigned_priority = NotAssignable

LEMMA AssignNewNameless ==
  ASSUME TypeOK, NEW pm, WellFormed(pm), Nameless(pm), NEW new, IsObservation(new),
         \A p \in DOMAIN new : new[p].name # NoName
  PROVE  Nameless(assign_new_process(pm, new))
<1> DEFINE res == assign_new_process(pm, new)
<1>1. \A k \in Key : /\ k \notin KeysOf(new) => res.cell[k] = pm.cell[k]
                     /\ k \in KeysOf(new) => res.cell[k].name = new[k[1]].name
  BY AssignNewShape
<1>2. \A k \in KeysOf(new) : k[1] \in DOMAIN new
  BY KeysOfType
<1> HIDE DEF res
<1>3. Nameless(res)
  BY <1>1, <1>2 DEF Nameless
<1> QED BY <1>3 DEF res

LEMMA NewChildrenNameless ==
  ASSUME Inv, NEW pm, WellFormed(pm), Nameless(pm), NEW pid
  PROVE  Nameless(assign_new_process(pm, NewChildren(pm, pid)))
<1>1. \A p \in alive : Observe(p).name # NoName
  BY ProcFsAssumption DEF Inv, AliveHasProc, Proc, Observe
<1>2. \A p \in DOMAIN NewChildren(pm, pid) : NewChildren(pm, pid)[p].name # NoName
  BY <1>1 DEF NewChildren, ProcTree
<1> QED BY <1>2, NewChildrenObserves, AssignNewNameless DEF Inv

LEMMA GarbageNameless ==
  ASSUME TypeOK, NEW pm, WellFormed(pm), Nameless(pm)
  PROVE  Nameless(garbage_clean(pm))
<1> DEFINE res  == garbage_clean(pm)
           live == KeysOf(GcScan)
<1>1. \/ res = pm
      \/ \A k \in Key :
           IF k \in pm.map \ live THEN res.cell[k] = DefaultProcess
           ELSE /\ res.cell[k].assigned_priority =
                     IF k \in live /\ pm.cell[k].name # NoName THEN NotAssignable
                     ELSE pm.cell[k].assigned_priority
                /\ res.cell[k].name = IF k \in live THEN NoName ELSE pm.cell[k].name
  BY GarbageShape
<1> HIDE DEF res, live
<1>2. Nameless(res)
  BY <1>1 DEF Nameless, DefaultProcess
<1> QED BY <1>2 DEF res

\* Nothing is decided for the cells that a garbage collection leaves.
LEMMA GarbageInForce ==
  ASSUME TypeOK, NEW pm, WellFormed(pm), Nameless(pm), NEW pr, NEW fg, NEW fgs, NEW piped,
         NEW rel, InForce(pm, pr, fg, fgs, piped, rel)
  PROVE  InForce(garbage_clean(pm), pr, fg, fgs, piped, rel)
<1> DEFINE res  == garbage_clean(pm)
           live == KeysOf(GcScan)
<1>1. \/ res = pm
      \/ /\ res.map = live
         /\ \A k \in Key :
              IF k \in pm.map \ live THEN res.cell[k] = DefaultProcess
              ELSE res.cell[k].assigned_priority =
                     IF k \in live /\ pm.cell[k].name # NoName THEN NotAssignable
                     ELSE pm.cell[k].assigned_priority
  BY GarbageShape
<1>2. WellFormed(res)
  BY GarbageCleanWellFormed
<1> HIDE DEF res, live
<1>3. CASE res # pm
  <2>1. \A k \in Key : k \in res.map => res.cell[k].assigned_priority = NotAssignable
    BY <1>1, <1>3 DEF Nameless
  <2>2. \A p \in Pid : SettledIn(res, p) => res.pid_map[p] \in Key /\ res.pid_map[p] \in res.map
    BY <1>2 DEF SettledIn, WellFormed, IndexSound, Map
  <2>3. InForce(res, pr, fg, fgs, piped, rel)
    BY <2>1, <2>2, UndecidedRunsRight DEF InForce
  <2> QED BY <2>3 DEF res
<1> QED BY <1>3 DEF res

-----------------------------------------------------------------------------
(* What a change of the foreground and of the pipewire lists does *)

\* The invariant for configurations of the same features and pids not reused.
\* What is in the foreground is among the processes found below it, and without
\* the pipewire profile nothing is under it.
Enforced ==
  ~ PidReuse /\ SameFeatures =>
    /\ InForce(process_map, prio, foreground, foreground_processes, PipewireSet, released)
    /\ Nameless(process_map)
    /\ foreground = NoPid => foreground_processes = {}
    /\ foreground # NoPid => foreground \in foreground_processes /\ config.foreground
    /\ ~ config.pipewire => PipewireSet = {}

LEMMA SetPriorityIs ==
  ASSUME NEW p \in Pid, p \in alive, NEW pr, NEW pids, NEW profile
  PROVE  SetPriority(pr, pids, profile)[p] = IF p \in pids THEN profile ELSE pr[p]
BY DEF SetPriority

\* The cell that decides for a settled process is the only one of its pid.
LEMMA SettledCell ==
  ASSUME NEW pm, WellFormed(pm), NEW p \in Pid, SettledIn(pm, p)
  PROVE  LET k == pm.pid_map[p] IN
         /\ k \in pm.map /\ k \in Key /\ k[1] = p
         /\ pm.cell[k] \in Process
         /\ process_assignment(pm, p) = pm.cell[k].assigned_priority
         /\ \A S \in SUBSET pm.map : p \in {c[1] : c \in S} <=> k \in S
<1> DEFINE k == pm.pid_map[p]
<1>1. k \in pm.map /\ k \in Key /\ k[1] = p /\ pm.cell[k] \in Process
  BY DEF SettledIn, WellFormed, IndexSound, Map
<1>2. process_assignment(pm, p) = pm.cell[k].assigned_priority
  BY DEF SettledIn, process_assignment, get_pid
<1>3. ASSUME NEW S \in SUBSET pm.map
      PROVE  p \in {c[1] : c \in S} <=> k \in S
  BY <1>1 DEF SettledIn
<1> QED BY <1>1, <1>2, <1>3

\* The new foreground process and everything below it, pipewire processes passed
\* over, runs in the foreground, and what is left in the background.
LEMMA PrioritisedRunsRight ==
  ASSUME NEW cell, cell.assigned_priority = Assignable, NEW p, NEW sched, NEW fg, NEW fgs, NEW piped,
         NEW rel, RunsRight(cell, p, sched, fg, fgs, piped, rel),
         config.foreground, NEW fg2, fg2 # NoPid, NEW fgs2, fg2 \in fgs2,
         NEW sched2, NEW rel2,
         IF cell.pipewire_ancestor # NoPid \/ p \in piped
         THEN config.pipewire /\ sched2 = sched /\ (p \in rel => p \in rel2)
         ELSE sched2 = IF p \in fgs2 THEN "foreground" ELSE "background"
  PROVE  RunsRight(cell, p, sched2, fg2, fgs2, piped, rel2)
<1>1. cell.assigned_priority \notin Profiles
  BY ProfilesAssumption
<1>2. CASE cell.pipewire_ancestor # NoPid \/ p \in piped
  <2>1. /\ Decided(cell, p, sched, fg, fgs, piped) = "pipewire"
        /\ Decided(cell, p, sched2, fg2, fgs2, piped) = "pipewire"
    BY <1>1, <1>2 DEF Decided
  <2>2. sched2 = sched
    BY <1>2
  <2> QED BY <1>2, <2>1, <2>2 DEF RunsRight
<1>3. CASE ~ (cell.pipewire_ancestor # NoPid \/ p \in piped)
  <2>1. Decided(cell, p, sched2, fg2, fgs2, piped) =
          IF p \in fgs2 THEN "foreground" ELSE "background"
    BY <1>1, <1>3 DEF Decided
  <2> QED BY <1>3, <2>1 DEF RunsRight
<1> QED BY <1>2, <1>3

\* Whatever foreground process the scheduling was right for before.
LEMMA PrioritiseInForce ==
  ASSUME TypeOK, NEW pm, WellFormed(pm), MarksIn(pm, PipewireSet), NEW pr, NEW rel,
         \A p \in Pid : SettledIn(pm, p) => \E old :
           RunsRight(pm.cell[pm.pid_map[p]], p, pr[p], old, foreground_processes, PipewireSet, rel),
         config.foreground, ~ config.pipewire => PipewireSet = {},
         NEW pid \in Pid, Prioritise(pm, pr, pid),
         NEW rel2, \A p \in rel : prio'[p] = pr[p] => p \in rel2
  PROVE  /\ InForce(pm, prio', foreground', foreground_processes', PipewireSet, rel2)
         /\ foreground' # NoPid /\ foreground' \in foreground_processes'
<1> DEFINE cells == {k \in pm.map : process_assignment(pm, k[1]) = Assignable}
           below == {k \in cells : k[1] = pid \/ process_descended_from(pm, k, pid)}
           piped == {k \in cells : process_is_pipewire_assigned(pm, k)}
           fg == {k[1] : k \in below \ piped}
           bg == {k[1] : k \in cells \ (below \cup piped)}
           fgs == {pid} \cup {k[1] : k \in below}
<1>1. PICK last \in SUBSET (fg \cap bg) :
        prio' = SetPriority(SetPriority(pr, fg, "foreground"), bg \ last, "background")
  BY DEF Prioritise
<1>2. foreground' = pid /\ foreground_processes' = fgs
  BY DEF Prioritise
<1>3. pid # NoPid /\ pid \in fgs
  BY DEF Pid, NoPid
<1>4. ASSUME NEW p \in Pid, SettledIn(pm, p)
      PROVE  RunsRight(pm.cell[pm.pid_map[p]], p, prio'[p], pid, fgs, PipewireSet, rel2)
  <2> DEFINE k == pm.pid_map[p]
  <2>1. /\ k \in pm.map /\ k \in Key /\ k[1] = p /\ pm.cell[k] \in Process
        /\ process_assignment(pm, p) = pm.cell[k].assigned_priority
        /\ \A S \in SUBSET pm.map : p \in {c[1] : c \in S} <=> k \in S
    BY <1>4, SettledCell
  <2>2. PICK old : RunsRight(pm.cell[k], p, pr[p], old, foreground_processes, PipewireSet, rel)
    BY <1>4
  <2>3. pm.cell[k].assigned_priority \in OwnedPriority /\ p \in alive
    BY <1>4, <2>1 DEF Process, SettledIn
  <2>4. /\ p \in fg <=> k \in below \ piped
        /\ p \in bg <=> k \in cells \ (below \cup piped)
        /\ p \in {c[1] : c \in below} <=> k \in below
    <3>1. below \ piped \in SUBSET pm.map /\ cells \ (below \cup piped) \in SUBSET pm.map
          /\ below \in SUBSET pm.map
      OBVIOUS
    <3> HIDE DEF cells, below, piped, k
    <3> QED BY <2>1, <3>1
  <2>5. /\ k \in cells <=> pm.cell[k].assigned_priority = Assignable
        /\ k \in below => k \in cells
        /\ k \in piped <=> k \in cells /\ process_is_pipewire_assigned(pm, k)
        /\ p = pid /\ k \in cells => k \in below
    BY <2>1
  <2>6. process_is_pipewire_assigned(pm, k) <=>
          pm.cell[k].pipewire_ancestor # NoPid \/ p \in PipewireSet
    BY <2>1 DEF process_is_pipewire_assigned
  <2>7. process_is_pipewire_assigned(pm, k) => config.pipewire
    BY <2>1, <2>6 DEF MarksIn
  <2> HIDE DEF cells, below, piped, fg, bg, k
  <2>8. prio'[p] = IF p \in bg \ last THEN "background"
                   ELSE IF p \in fg THEN "foreground" ELSE pr[p]
    BY <1>1, <2>3, SetPriorityIs
  <2>9. last \subseteq fg
    BY <1>1
  <2>10. CASE pm.cell[k].assigned_priority # Assignable
    <3>1. prio'[p] = pr[p]
      BY <2>4, <2>5, <2>8, <2>10
    <3> QED BY <2>2, <2>3, <2>10, <3>1, OwnProfileRunsRight DEF k
  <2>11. CASE pm.cell[k].assigned_priority = Assignable
    <3>1. p \in fgs <=> k \in below
      BY <2>1, <2>4, <2>5, <2>11
    <3> DEFINE marked == process_is_pipewire_assigned(pm, k)
    <3>2. prio'[p] = IF marked THEN pr[p]
                     ELSE IF p \in fgs THEN "foreground" ELSE "background"
      <4> HIDE DEF fgs
      <4> QED BY <2>4, <2>5, <2>8, <2>9, <2>11, <3>1
    <3> DEFINE cell == pm.cell[k]
    <3>3. /\ RunsRight(cell, p, pr[p], old, foreground_processes, PipewireSet, rel)
          /\ cell.assigned_priority = Assignable
      BY <2>2, <2>11
    <3>4. IF cell.pipewire_ancestor # NoPid \/ p \in PipewireSet
          THEN config.pipewire /\ prio'[p] = pr[p] /\ (p \in rel => p \in rel2)
          ELSE prio'[p] = IF p \in fgs THEN "foreground" ELSE "background"
      <4> HIDE DEF fgs
      <4> QED BY <2>6, <2>7, <3>2
    <3> HIDE DEF marked, fgs, cell
    <3>5. RunsRight(cell, p, prio'[p], pid, fgs, PipewireSet, rel2)
      BY <1>3, <3>3, <3>4, PrioritisedRunsRight
    <3> QED BY <3>5 DEF k, cell
  <2> QED BY <2>10, <2>11
<1> HIDE DEF fgs
<1>5. InForce(pm, prio', pid, fgs, PipewireSet, rel2)
  BY <1>4 DEF InForce
<1> QED BY <1>2, <1>3, <1>5

\* A set of the foreground process, with the profiles or without.
LEMMA SetForegroundProcessForce ==
  ASSUME Inv, Marks, Enforced, NEW pid \in Pid, SetForegroundProcess(pid)
  PROVE  Enforced'
<1> USE DEF Inv
<1> DEFINE kids == NewChildren(process_map, pid)
           pm   == assign_new_process(process_map, kids)
           pr   == apply_process_priority(prio, pm, kids, foreground)
           rel1 == {p \in released : pr[p] = prio[p]}
<1>1. /\ process_map' = garbage_clean(pm)
      /\ IF config.foreground THEN Prioritise(pm, pr, pid)
         ELSE prio' = pr /\ UNCHANGED <<foreground, foreground_processes>>
      /\ released' = {p \in released : prio'[p] = prio[p]}
      /\ UNCHANGED <<alive, config, pipewire_processes>>
  BY DEF SetForegroundProcess, SetSince, procVars
<1> SUFFICES ASSUME ~ PidReuse, SameFeatures
             PROVE  /\ InForce(process_map', prio', foreground', foreground_processes', PipewireSet, released')
                    /\ Nameless(process_map')
                    /\ foreground' = NoPid => foreground_processes' = {}
                    /\ foreground' # NoPid =>
                         foreground' \in foreground_processes' /\ config.foreground
                    /\ ~ config.pipewire => PipewireSet = {}
  BY <1>1 DEF Enforced, SameFeatures, InForce, SettledIn, Nameless, RunsRight, Decided, PipewireSet
<1>2. /\ InForce(process_map, prio, foreground, foreground_processes, PipewireSet, released)
      /\ Nameless(process_map)
      /\ foreground = NoPid => foreground_processes = {}
      /\ foreground # NoPid => foreground \in foreground_processes /\ config.foreground
      /\ ~ config.pipewire => PipewireSet = {}
  BY DEF Enforced
<1>3. WellFormed(pm) /\ MarksIn(pm, PipewireSet) /\ Nameless(pm)
  BY <1>2, NewChildrenRecorded, NewChildrenMarks, NewChildrenNameless DEF Marks
<1>4. InForce(pm, pr, foreground, foreground_processes, PipewireSet, rel1)
  BY <1>2, NewChildrenObserves, RecordedInForce
<1>k. \A p \in rel1 : prio'[p] = pr[p] => p \in released'
  BY <1>1
<1>s. prio' = pr => released' = rel1
  BY <1>1
<1> HIDE DEF pm, pr, rel1
<1>5. /\ InForce(pm, prio', foreground', foreground_processes', PipewireSet, released')
      /\ foreground' = NoPid => foreground_processes' = {}
      /\ foreground' # NoPid => foreground' \in foreground_processes' /\ config.foreground
  <2>1. CASE config.foreground
    <3>1. \A p \in Pid : SettledIn(pm, p) => \E old :
            RunsRight(pm.cell[pm.pid_map[p]], p, pr[p], old, foreground_processes, PipewireSet, rel1)
      BY <1>4 DEF InForce
    <3> QED BY <1>1, <1>2, <1>3, <1>k, <2>1, <3>1, PrioritiseInForce
  <2>2. CASE ~ config.foreground
    BY <1>1, <1>2, <1>4, <1>s, <2>2
  <2> QED BY <2>1, <2>2
<1> QED BY <1>1, <1>2, <1>3, <1>5, GarbageInForce, GarbageNameless

LEMMA ExecCreateForce ==
  ASSUME Inv, Marks, Enforced, ExecCreate
  PROVE  Enforced'
<1> USE DEF Inv
<1> DEFINE e    == Head(execs)
           new  == [p \in {e.pid} |->
                      [ppid |-> e.parent_pid, name |-> e.name,
                       cgroup |-> IF p \in alive THEN proc[p].cgroup ELSE NoCgroup]]
           pm   == assign_new_process(process_map, new)
           kids == NewChildren(pm, e.pid)
           pm2  == assign_new_process(pm, kids)
           pr   == apply_process_priority(prio, pm, new, foreground)
           pr2  == apply_process_priority(pr, pm2, kids, foreground)
           rel1 == {p \in released : pr[p] = prio[p]}
<1>1. /\ process_map' = garbage_clean(pm2) /\ prio' = pr2
      /\ released' = {p \in released : prio'[p] = prio[p]}
  BY DEF ExecCreate, SetSince
<1>a. UNCHANGED <<alive, config, foreground, foreground_processes, pipewire_processes>>
  BY DEF ExecCreate
<1>2. e \in ExecCreateEvent
  BY DEF ExecCreate, TypeOK, ProcTypeOK
<1>3. IsObservation(new) /\ DOMAIN new = {e.pid} /\ new[e.pid].name = e.name
  BY <1>2, ExecObserves
<1>4. \A p \in DOMAIN new : new[p].name # NoName
  BY <1>2, <1>3, ProcFsAssumption DEF ExecCreateEvent
<1> HIDE DEF e, new
<1> SUFFICES ASSUME ~ PidReuse, SameFeatures
             PROVE  /\ InForce(process_map', prio', foreground', foreground_processes', PipewireSet, released')
                    /\ Nameless(process_map')
                    /\ foreground' = NoPid => foreground_processes' = {}
                    /\ foreground' # NoPid =>
                         foreground' \in foreground_processes' /\ config.foreground
                    /\ ~ config.pipewire => PipewireSet = {}
  BY <1>a DEF Enforced, SameFeatures, InForce, SettledIn, Nameless, RunsRight, Decided, PipewireSet
<1>5. /\ InForce(process_map, prio, foreground, foreground_processes, PipewireSet, released)
      /\ Nameless(process_map)
      /\ foreground = NoPid => foreground_processes = {}
      /\ foreground # NoPid => foreground \in foreground_processes /\ config.foreground
      /\ ~ config.pipewire => PipewireSet = {}
  BY DEF Enforced
<1>6. WellFormed(pm) /\ Nameless(pm)
  BY <1>3, <1>4, <1>5, AssignNewWellFormed, AssignNewNameless
<1>7. InForce(pm, pr, foreground, foreground_processes, PipewireSet, rel1)
  BY <1>3, <1>5, RecordedInForce
<1>k. \A p \in rel1 : pr2[p] = pr[p] => p \in released'
  BY <1>1
<1> HIDE DEF pm, pr, rel1
<1>8. WellFormed(pm2) /\ Nameless(pm2)
  BY <1>6, NewChildrenRecorded, NewChildrenNameless
<1>9. InForce(pm2, pr2, foreground, foreground_processes, PipewireSet, released')
  BY <1>6, <1>7, <1>k, NewChildrenObserves, RecordedInForce
<1> HIDE DEF pm2, pr2
<1> QED BY <1>1, <1>a, <1>5, <1>8, <1>9, GarbageInForce, GarbageNameless

\* A sweep applies to every process what its entry in the scan decides, whatever
\* the scan has read; and to a process that only the second look finds what it
\* would have without a foreground process, which is put right at once.
LEMMA SweepForce ==
  ASSUME Inv, Marks, Enforced, NEW entries, IsObservation(entries),
         \A p \in DOMAIN entries : entries[p].name # NoName, process_map_refresh(entries)
  PROVE  Enforced'
<1> USE DEF Inv
<1> DEFINE pm   == Swept(entries)
           kids == NewChildren(pm, foreground)
           pm2  == assign_new_process(pm, kids)
           pr   == apply_process_priority(prio, pm, entries, foreground)
           pr2  == apply_process_priority(pr, pm2, kids, NoPid)
<1>1. /\ process_map' = pm2
      /\ IF foreground # NoPid /\ config.foreground
         THEN Prioritise(pm2, pr2, foreground)
         ELSE prio' = pr2 /\ foreground' = NoPid /\ UNCHANGED foreground_processes
  BY DEF process_map_refresh, Swept
<1>a. UNCHANGED <<alive, config, pipewire_processes>> /\ released' = {}
  BY DEF process_map_refresh, procVars
<1> SUFFICES ASSUME ~ PidReuse, SameFeatures
             PROVE  /\ InForce(process_map', prio', foreground', foreground_processes', PipewireSet, {})
                    /\ Nameless(process_map')
                    /\ foreground' = NoPid => foreground_processes' = {}
                    /\ foreground' # NoPid =>
                         foreground' \in foreground_processes' /\ config.foreground
                    /\ ~ config.pipewire => PipewireSet = {}
  BY <1>a DEF Enforced, SameFeatures, InForce, SettledIn, Nameless, RunsRight, Decided, PipewireSet
<1>2. /\ Nameless(process_map)
      /\ foreground = NoPid => foreground_processes = {}
      /\ foreground # NoPid => foreground \in foreground_processes /\ config.foreground
      /\ ~ config.pipewire => PipewireSet = {}
  BY DEF Enforced
<1>3. /\ WellFormed(pm) /\ pm.map = KeysOf(entries) /\ MarksIn(pm, PipewireSet)
      /\ \A k \in Key :
           IF k \in process_map.map \ KeysOf(entries) THEN pm.cell[k] = DefaultProcess
           ELSE /\ k \in KeysOf(entries) => pm.cell[k].name = entries[k[1]].name
                /\ k \notin KeysOf(entries) =>
                     /\ pm.cell[k].name = process_map.cell[k].name
                     /\ pm.cell[k].assigned_priority = process_map.cell[k].assigned_priority
  BY SweptShape, SweptMarks DEF Marks
<1> HIDE DEF pm
<1>4. Nameless(pm)
  <2>1. \A k \in KeysOf(entries) : entries[k[1]].name # NoName
    BY KeysOfType
  <2> QED BY <1>2, <1>3, <2>1 DEF Nameless, DefaultProcess
<1>5. InForce(pm, pr, foreground, foreground_processes, PipewireSet, {})
  <2> SUFFICES ASSUME NEW p \in Pid, SettledIn(pm, p)
               PROVE  RunsRight(pm.cell[pm.pid_map[p]], p, pr[p], foreground,
                                foreground_processes, PipewireSet, {})
    BY DEF InForce
  <2>1. pm.pid_map[p] \in KeysOf(entries) /\ pm.pid_map[p][1] = p
    BY <1>3, SettledCell
  <2>2. p \in DOMAIN entries /\ <<p, entries[p].ppid>> \in pm.map
    BY <1>3, <2>1, KeysOfType
  <2> QED BY <2>2, AppliedRunsRight
<1>6. IsObservation(kids)
  BY NewChildrenObserves
<1>7. WellFormed(pm2) /\ MarksIn(pm2, PipewireSet) /\ Nameless(pm2)
  BY <1>3, <1>4, NewChildrenRecorded, NewChildrenMarks, NewChildrenNameless
<1> HIDE DEF pr
<1>8. ASSUME NEW p \in Pid, SettledIn(pm2, p)
      PROVE  \E old \in {foreground, NoPid} :
               RunsRight(pm2.cell[pm2.pid_map[p]], p, pr2[p], old, foreground_processes, PipewireSet, {})
  <2> HIDE DEF kids
  <2>1. CASE p \in DOMAIN kids
    <3>1. <<p, kids[p].ppid>> \in pm2.map
      BY <1>3, <1>6, <2>1, KeysOfType, AssignNewShape
    <3> HIDE DEF pm2
    <3>2. RunsRight(pm2.cell[pm2.pid_map[p]], p, pr2[p], NoPid, foreground_processes, PipewireSet, {})
      BY <1>8, <2>1, <3>1, AppliedRunsRight
    <3> QED BY <3>2
  <2>2. CASE p \notin DOMAIN kids
    <3>1. /\ pm2.pid_map[p] = pm.pid_map[p]
          /\ \A k \in Key : k[1] = p => /\ k \in pm2.map <=> k \in pm.map
                                        /\ pm2.cell[k] = pm.cell[k]
      BY <1>3, <1>6, <2>2, OthersObserved
    <3>2. pr2[p] = pr[p]
      BY <2>2, ApplyPasses
    <3> HIDE DEF pm2, pr2
    <3>3. SettledIn(pm, p)
      BY <1>3, <1>8, <3>1, MapFields DEF SettledIn
    <3>4. pm.pid_map[p] \in Key /\ pm.pid_map[p][1] = p
      BY <1>3, <3>3, SettledCell
    <3>5. RunsRight(pm2.cell[pm2.pid_map[p]], p, pr2[p], foreground,
                    foreground_processes, PipewireSet, {})
      BY <1>5, <3>1, <3>2, <3>3, <3>4 DEF InForce
    <3> QED BY <3>5
  <2> QED BY <2>1, <2>2
<1> HIDE DEF pm2, pr2, kids
<1>9. CASE foreground # NoPid
  <2>1. foreground \in Pid
    BY <1>9 DEF TypeOK
  <2> QED BY <1>1, <1>2, <1>7, <1>8, <1>9, <2>1, PrioritiseInForce
<1>10. CASE foreground = NoPid
  <2>1. InForce(pm2, pr2, NoPid, foreground_processes, PipewireSet, {})
    BY <1>8, <1>10 DEF InForce
  <2> QED BY <1>1, <1>2, <1>7, <1>10, <2>1
<1> QED BY <1>9, <1>10

LEMMA RefreshForce ==
  ASSUME Inv, Marks, Enforced, RefreshProcessMap
  PROVE  Enforced'
<1>1. \A p \in DOMAIN Scan : Scan[p].name # NoName
  BY ProcFsAssumption DEF Inv, AliveHasProc, Proc, Scan, Observe
<1> QED BY <1>1, ScanObserves, SweepForce DEF RefreshProcessMap, Inv

\* A process that comes under the pipewire profile runs with it.
LEMMA PipedRunsRight ==
  ASSUME NEW cell, cell.assigned_priority = Assignable, config.pipewire,
         NEW p, NEW fg, NEW fgs, NEW piped, NEW rel, cell.pipewire_ancestor # NoPid \/ p \in piped
  PROVE  RunsRight(cell, p, "pipewire", fg, fgs, piped, rel)
<1>1. cell.assigned_priority \notin Profiles
  BY ProfilesAssumption
<1>2. Decided(cell, p, "pipewire", fg, fgs, piped) = "pipewire"
  BY <1>1 DEF Decided
<1> QED BY <1>2 DEF RunsRight

\* For a process it does not name a change of the pipewire list is none.
LEMMA BystanderRunsRight ==
  ASSUME NEW cell, NEW p, NEW sched, NEW fg, NEW fgs, NEW piped,
         NEW rel, RunsRight(cell, p, sched, fg, fgs, piped, rel),
         NEW cell2, cell2.assigned_priority = cell.assigned_priority,
         cell2.pipewire_ancestor = cell.pipewire_ancestor,
         NEW piped2, p \in piped2 <=> p \in piped,
         NEW rel2, p \in rel => p \in rel2
  PROVE  RunsRight(cell2, p, sched, fg, fgs, piped2, rel2)
<1>1. Decided(cell2, p, sched, fg, fgs, piped2) = Decided(cell, p, sched, fg, fgs, piped)
  BY Zenon DEF Decided
<1> QED BY <1>1 DEF RunsRight

\* An added process and what is below it is marked and runs with the profile; one
\* that has a priority of its own is refused.
LEMMA PipewireAddForce ==
  ASSUME Inv, Marks, Enforced, NEW pid \in Pid, PipewireAdd(pid)
  PROVE  Enforced'
<1> USE DEF Inv
<1> DEFINE kids  == NewChildren(process_map, pid)
           pm    == assign_new_process(process_map, kids)
           pr    == apply_process_priority(prio, pm, kids, foreground)
           cells == {k \in pm.map : process_assignment(pm, k[1]) = Assignable}
           below == {k \in cells : k[1] # pid /\ process_descended_from(pm, k, pid)}
           own   == {c \in cells : c[1] = pid} \cup below
           refused == /\ pid \notin PipewireSet
                      /\ get_pid(pm, pid) # NoKey
                      /\ process_assignment(pm, pid) # Assignable
           pids  == {k[1] : k \in own}
           rel1  == {p \in released : pr[p] = prio[p]}
<1>1. IF config.pipewire /\ ~ refused
      THEN /\ pipewire_processes' = IF pid \in PipewireSet THEN pipewire_processes
                                    ELSE Append(pipewire_processes, pid)
           /\ process_map' = garbage_clean(Owned(pm, below, pid))
           /\ prio' = SetPriority(pr, pids, "pipewire")
      ELSE /\ UNCHANGED pipewire_processes
           /\ process_map' = garbage_clean(pm)
           /\ prio' = pr
  BY DEF PipewireAdd, Owned
<1>2. /\ UNCHANGED <<alive, config, foreground, foreground_processes>>
      /\ released' = {p \in released : prio'[p] = prio[p]}
  BY DEF PipewireAdd, SetSince, procVars
<1>k. \A p \in rel1 : prio'[p] = pr[p] => p \in released'
  BY <1>2
<1>s. prio' = pr => released' = rel1
  BY <1>2
<1> HIDE DEF pm, pr, rel1, cells, below, own, refused, pids
<1> SUFFICES ASSUME ~ PidReuse, SameFeatures
             PROVE  /\ InForce(process_map', prio', foreground, foreground_processes, PipewireSet', released')
                    /\ Nameless(process_map')
                    /\ ~ config.pipewire => PipewireSet' = {}
  BY <1>2 DEF Enforced, SameFeatures, InForce, SettledIn, Nameless, RunsRight, Decided
<1>3. /\ InForce(process_map, prio, foreground, foreground_processes, PipewireSet, released)
      /\ Nameless(process_map)
      /\ ~ config.pipewire => PipewireSet = {}
  BY DEF Enforced
<1>4. WellFormed(pm) /\ Nameless(pm)
  BY <1>3, NewChildrenRecorded, NewChildrenNameless DEF pm
<1>5. InForce(pm, pr, foreground, foreground_processes, PipewireSet, rel1)
  BY <1>3, NewChildrenObserves, RecordedInForce DEF pm, pr, rel1
<1>6. CASE ~ (config.pipewire /\ ~ refused)
  <2>1. UNCHANGED pipewire_processes /\ process_map' = garbage_clean(pm) /\ prio' = pr
    BY <1>1, <1>6
  <2>2. PipewireSet' = PipewireSet
    BY <2>1 DEF PipewireSet
  <2> QED BY <1>3, <1>4, <1>5, <1>s, <2>1, <2>2, GarbageInForce, GarbageNameless
<1>7. CASE config.pipewire /\ ~ refused
  <2> DEFINE S  == PipewireSet \cup {pid}
             om == Owned(pm, below, pid)
             pr2 == SetPriority(pr, pids, "pipewire")
  <2>1. /\ pipewire_processes' = IF pid \in PipewireSet THEN pipewire_processes
                                 ELSE Append(pipewire_processes, pid)
        /\ process_map' = garbage_clean(om) /\ prio' = pr2
    BY <1>1, <1>7
  <2>2. PipewireSet' = S
    <3>1. pipewire_processes \in Seq(Pid) /\ PipewireSet = ToSet(pipewire_processes)
      BY DEF TypeOK, PipewireSet
    <3>2. ToSet(pipewire_processes') = S
      <4>1. CASE pid \in PipewireSet
        BY <2>1, <3>1, <4>1
      <4>2. CASE pid \notin PipewireSet
        BY <2>1, <3>1, <4>2, AppendDistinct DEF Marks
      <4> QED BY <4>1, <4>2
    <3> QED BY <3>2 DEF PipewireSet
  <2>3. /\ WellFormed(om) /\ om.map = pm.map /\ om.pid_map = pm.pid_map
        /\ \A k \in Key :
             /\ om.cell[k].name = pm.cell[k].name
             /\ om.cell[k].assigned_priority = pm.cell[k].assigned_priority
             /\ om.cell[k].pipewire_ancestor =
                  IF k \in below THEN pid ELSE pm.cell[k].pipewire_ancestor
    BY <1>4, OwnedShape DEF SameIdentity
  <2> HIDE DEF om
  <2>4. Nameless(om)
    BY <1>4, <2>3 DEF Nameless
  <2>5. ASSUME NEW p \in Pid, SettledIn(om, p)
        PROVE  RunsRight(om.cell[om.pid_map[p]], p, pr2[p], foreground, foreground_processes, S, released')
    <3> DEFINE k == pm.pid_map[p]
    <3>1. SettledIn(pm, p) /\ om.pid_map[p] = k /\ p \in alive
      BY <2>3, <2>5 DEF SettledIn
    <3>2. /\ k \in pm.map /\ k \in Key /\ k[1] = p /\ pm.cell[k] \in Process
          /\ process_assignment(pm, p) = pm.cell[k].assigned_priority
          /\ \A T \in SUBSET pm.map : p \in {c[1] : c \in T} <=> k \in T
      BY <1>4, <3>1, SettledCell
    <3>3. RunsRight(pm.cell[k], p, pr[p], foreground, foreground_processes, PipewireSet, rel1)
      BY <1>5, <3>1 DEF InForce
    <3>4. /\ k \in cells <=> pm.cell[k].assigned_priority = Assignable
          /\ k \in below => k \in cells /\ p # pid
          /\ k \in own <=> k \in cells /\ (p = pid \/ k \in below)
      BY <3>2 DEF cells, below, own
    <3>5. p \in pids <=> k \in own
      <4>1. own \in SUBSET pm.map
        BY DEF own, cells, below
      <4> HIDE DEF k
      <4> QED BY <3>2, <4>1 DEF pids
    <3>6. pr2[p] = IF p \in pids THEN "pipewire" ELSE pr[p]
      BY <3>1, SetPriorityIs
    <3>7. /\ pm.cell[k].assigned_priority \in OwnedPriority
          /\ om.cell[k].assigned_priority = pm.cell[k].assigned_priority
          /\ om.cell[k].pipewire_ancestor = IF k \in below THEN pid
                                            ELSE pm.cell[k].pipewire_ancestor
      BY <2>3, <3>2 DEF Process
    <3> HIDE DEF k, pr2
    <3>8. CASE k \in own
      <4>1. pr2[p] = "pipewire" /\ om.cell[k].assigned_priority = Assignable
        BY <3>4, <3>5, <3>6, <3>7, <3>8
      <4>2. om.cell[k].pipewire_ancestor # NoPid \/ p \in S
        BY <3>4, <3>7, <3>8 DEF Pid, NoPid
      <4> QED BY <1>7, <3>1, <4>1, <4>2, PipedRunsRight
    <3>9. CASE k \notin own /\ p = pid
      <4>1. pr2[p] = pr[p] /\ pm.cell[k].assigned_priority \in OwnedPriority \ {Assignable}
        BY <3>4, <3>5, <3>6, <3>7, <3>9
      <4> QED BY <3>1, <3>3, <3>7, <4>1, OwnProfileRunsRight
    <3>10. CASE k \notin own /\ p # pid
      <4>1. CASE k \in cells
        <5>1. /\ pr2[p] = pr[p] /\ k \notin below /\ (p \in S <=> p \in PipewireSet)
              /\ p \in rel1 => p \in released'
          BY <1>k, <2>1, <3>4, <3>5, <3>6, <3>10, <4>1
        <5> QED BY <3>1, <3>3, <3>7, <5>1, BystanderRunsRight
      <4>2. CASE k \notin cells
        <5>1. pr2[p] = pr[p] /\ pm.cell[k].assigned_priority \in OwnedPriority \ {Assignable}
          BY <3>4, <3>5, <3>6, <3>7, <3>10, <4>2
        <5> QED BY <3>1, <3>3, <3>7, <5>1, OwnProfileRunsRight
      <4> QED BY <4>1, <4>2
    <3> QED BY <3>8, <3>9, <3>10
  <2> HIDE DEF pr2, S
  <2>6. InForce(om, pr2, foreground, foreground_processes, S, released')
    BY <2>5 DEF InForce
  <2> QED BY <1>7, <2>1, <2>2, <2>3, <2>4, <2>6, GarbageInForce, GarbageNameless
<1> QED BY <1>6, <1>7

\* What is freed keeps the profile only if there is no foreground management.
LEMMA FreedRunsRight ==
  ASSUME NEW cell, cell.assigned_priority = Assignable, config.pipewire,
         NEW p, NEW sched, NEW fg, NEW fgs, NEW piped,
         cell.pipewire_ancestor # NoPid \/ p \in piped,
         NEW rel, RunsRight(cell, p, sched, fg, fgs, piped, rel),
         fg = NoPid => fgs = {}, fg # NoPid => fg \in fgs /\ config.foreground,
         NEW cell2, cell2.assigned_priority = Assignable, cell2.pipewire_ancestor = NoPid,
         NEW piped2, NEW rel2, p \in rel2, NEW sched2,
         sched2 = IF ~ config.foreground THEN sched
                  ELSE IF p \in fgs THEN "foreground" ELSE "background"
  PROVE  RunsRight(cell2, p, sched2, fg, fgs, piped2, rel2)
<1>1. cell.assigned_priority \notin Profiles /\ cell2.assigned_priority \notin Profiles
  BY ProfilesAssumption
<1>2. Decided(cell, p, sched, fg, fgs, piped) = "pipewire"
  BY <1>1 DEF Decided
<1>3. ~ config.foreground => sched2 = "pipewire"
  BY <1>2 DEF RunsRight
<1>4. CASE p \in piped2
  <2>1. Decided(cell2, p, sched2, fg, fgs, piped2) = "pipewire"
    BY <1>1, <1>4 DEF Decided
  <2>2. CASE config.foreground
    BY <1>4, <2>1, <2>2 DEF RunsRight
  <2>3. CASE ~ config.foreground
    BY <1>3, <2>1, <2>3 DEF RunsRight
  <2> QED BY <2>2, <2>3
<1>5. CASE p \notin piped2
  <2>1. Decided(cell2, p, sched2, fg, fgs, piped2) =
          IF ~ config.foreground \/ fg = NoPid THEN "default"
          ELSE IF p \in fgs THEN "foreground" ELSE "background"
    BY <1>1, <1>5 DEF Decided
  <2>2. CASE ~ config.foreground
    BY <1>3, <2>1, <2>2 DEF RunsRight
  <2>3. CASE config.foreground /\ fg = NoPid
    BY <2>1, <2>3 DEF RunsRight
  <2>4. CASE config.foreground /\ fg # NoPid
    BY <2>1, <2>4 DEF RunsRight
  <2> QED BY <2>2, <2>3, <2>4
<1> QED BY <1>4, <1>5

LEMMA PipewireRemoveForce ==
  ASSUME Inv, Marks, Enforced, NEW pid \in PipewirePids, PipewireRemove(pid)
  PROVE  Enforced'
<1> USE DEF Inv
<1> DEFINE freed == Freed(pid)
           own  == {c \in freed : process_assignment(process_map, c[1]) = Assignable}
           pids == {k[1] : k \in own}
           om   == Owned(process_map, freed, NoPid)
<1>1. IF pid \in PipewireSet
      THEN /\ pipewire_processes' = RemoveFirst(pipewire_processes, pid)
           /\ process_map' = om
           /\ prio' = IF config.foreground
                      THEN SetPriority(SetPriority(prio, pids, "background"),
                                       pids \cap foreground_processes, "foreground")
                      ELSE prio
           /\ released' = released \cup (pids \cap alive)
      ELSE UNCHANGED <<pipewire_processes, process_map, prio, released>>
  BY DEF PipewireRemove, Owned
<1>2. UNCHANGED <<alive, config, foreground, foreground_processes>>
  BY DEF PipewireRemove, procVars
<1>3. /\ WellFormed(om) /\ om.map = process_map.map /\ om.pid_map = process_map.pid_map
      /\ \A k \in Key :
           /\ om.cell[k].name = process_map.cell[k].name
           /\ om.cell[k].assigned_priority = process_map.cell[k].assigned_priority
           /\ om.cell[k].pipewire_ancestor =
                IF k \in freed THEN NoPid ELSE process_map.cell[k].pipewire_ancestor
  BY OwnedShape DEF SameIdentity
<1> HIDE DEF freed, own, pids, om
<1> SUFFICES ASSUME ~ PidReuse, SameFeatures
             PROVE  /\ InForce(process_map', prio', foreground, foreground_processes, PipewireSet', released')
                    /\ Nameless(process_map')
                    /\ ~ config.pipewire => PipewireSet' = {}
  BY <1>2 DEF Enforced, SameFeatures, InForce, SettledIn, Nameless, RunsRight, Decided
<1>4. /\ InForce(process_map, prio, foreground, foreground_processes, PipewireSet, released)
      /\ Nameless(process_map)
      /\ foreground = NoPid => foreground_processes = {}
      /\ foreground # NoPid => foreground \in foreground_processes /\ config.foreground
      /\ ~ config.pipewire => PipewireSet = {}
  BY DEF Enforced
<1>5. CASE pid \notin PipewireSet
  <2>1. PipewireSet' = PipewireSet
    BY <1>1, <1>5 DEF PipewireSet
  <2> QED BY <1>1, <1>4, <1>5, <2>1
<1>6. CASE pid \in PipewireSet
  <2> DEFINE S == PipewireSet \ {pid}
  <2>1. PipewireSet' = S
    <3>1. pipewire_processes \in Seq(Pid) /\ PipewireSet = ToSet(pipewire_processes)
      BY DEF TypeOK, PipewireSet
    <3>2. ToSet(pipewire_processes') = S
      BY <1>1, <1>6, <3>1, RemoveFirstDistinct DEF Marks
    <3> QED BY <3>2 DEF PipewireSet
  <2>2. Nameless(om)
    BY <1>3, <1>4 DEF Nameless
  <2>3. config.pipewire
    BY <1>4, <1>6
  <2>4. PICK pr2 : /\ prio' = pr2
                   /\ \A p \in alive \cap Pid : pr2[p] =
                        IF p \notin pids \/ ~ config.foreground THEN prio[p]
                        ELSE IF p \in foreground_processes THEN "foreground" ELSE "background"
    BY <1>1, <1>6, SetPriorityIs
  <2>5. ASSUME NEW p \in Pid, SettledIn(om, p)
        PROVE  RunsRight(om.cell[om.pid_map[p]], p, pr2[p], foreground, foreground_processes, S, released')
    <3> DEFINE k == process_map.pid_map[p]
    <3>1. SettledIn(process_map, p) /\ om.pid_map[p] = k /\ p \in alive
      BY <1>3, <2>5 DEF SettledIn
    <3>2. /\ k \in process_map.map /\ k \in Key /\ k[1] = p /\ process_map.cell[k] \in Process
          /\ process_assignment(process_map, p) = process_map.cell[k].assigned_priority
          /\ \A T \in SUBSET process_map.map : p \in {c[1] : c \in T} <=> k \in T
      BY <3>1, SettledCell
    <3>3. RunsRight(process_map.cell[k], p, prio[p], foreground, foreground_processes, PipewireSet, released)
      BY <1>4, <3>1 DEF InForce
    <3>4. /\ k \in freed <=> process_map.cell[k].pipewire_ancestor = pid \/ p = pid
          /\ k \in own <=> k \in freed /\ process_map.cell[k].assigned_priority = Assignable
      BY <3>2 DEF freed, own, Freed
    <3>5. p \in pids <=> k \in own
      <4>1. own \in SUBSET process_map.map
        BY DEF own, freed, Freed
      <4> HIDE DEF k
      <4> QED BY <3>2, <4>1 DEF pids
    <3>6. pr2[p] = IF p \notin pids \/ ~ config.foreground THEN prio[p]
                   ELSE IF p \in foreground_processes THEN "foreground" ELSE "background"
      BY <2>4, <3>1
    <3>7. /\ process_map.cell[k].assigned_priority \in OwnedPriority
          /\ om.cell[k].assigned_priority = process_map.cell[k].assigned_priority
          /\ om.cell[k].pipewire_ancestor = IF k \in freed THEN NoPid
                                            ELSE process_map.cell[k].pipewire_ancestor
      BY <1>3, <3>2 DEF Process
    <3> HIDE DEF k
    <3>8. CASE k \in own
      <4>1. process_map.cell[k].pipewire_ancestor # NoPid \/ p \in PipewireSet
        BY <1>6, <3>4, <3>8, ServiceAssumption DEF Pid, NoPid
      <4>2. /\ process_map.cell[k].assigned_priority = Assignable
            /\ om.cell[k].assigned_priority = Assignable /\ om.cell[k].pipewire_ancestor = NoPid
        BY <3>4, <3>7, <3>8
      <4>3. pr2[p] = IF ~ config.foreground THEN prio[p]
                     ELSE IF p \in foreground_processes THEN "foreground" ELSE "background"
        BY <3>5, <3>6, <3>8
      <4>4. p \in released'
        BY <1>1, <1>6, <3>1, <3>5, <3>8
      <4> QED BY <1>2, <1>4, <2>3, <3>1, <3>3, <4>1, <4>2, <4>3, <4>4, FreedRunsRight, SMTT(60)
    <3>9. CASE k \notin freed
      <4>1. /\ pr2[p] = prio[p] /\ (p \in S <=> p \in PipewireSet)
            /\ p \in released => p \in released'
        BY <1>1, <1>6, <3>4, <3>5, <3>6, <3>9
      <4>2. /\ om.cell[k].assigned_priority = process_map.cell[k].assigned_priority
            /\ om.cell[k].pipewire_ancestor = process_map.cell[k].pipewire_ancestor
        BY <3>7, <3>9
      <4>3. RunsRight(om.cell[k], p, prio[p], foreground, foreground_processes, S, released')
        BY <3>3, <4>1, <4>2, BystanderRunsRight
      <4> QED BY <3>1, <4>1, <4>3
    <3>10. CASE k \in freed /\ k \notin own
      <4>1. /\ pr2[p] = prio[p]
            /\ process_map.cell[k].assigned_priority \in OwnedPriority \ {Assignable}
        BY <3>4, <3>5, <3>6, <3>7, <3>10
      <4> QED BY <3>1, <3>3, <3>7, <4>1, OwnProfileRunsRight
    <3> QED BY <3>8, <3>9, <3>10
  <2> HIDE DEF S
  <2>6. InForce(om, pr2, foreground, foreground_processes, S, released')
    BY <2>5 DEF InForce
  <2>7. process_map' = om
    BY <1>1, <1>6
  <2> QED BY <2>1, <2>2, <2>3, <2>4, <2>6, <2>7
<1> QED BY <1>5, <1>6

\* Nothing is recorded of a process at its birth, and nothing applied at its end.
LEMMA EnvironmentForce ==
  ASSUME Inv, Elders, Enforced, Environment
  PROVE  Enforced'
<1> USE DEF Inv
<1>1. UNCHANGED <<config, process_map, foreground, foreground_processes, pipewire_processes>>
  BY DEF Environment, ForkProcess, ExitProcess, ExecProcess, MoveProcess, serviceVars
<1> SUFFICES ASSUME ~ PidReuse, SameFeatures,
                    InForce(process_map, prio, foreground, foreground_processes, PipewireSet, released)
             PROVE  InForce(process_map, prio, foreground, foreground_processes, PipewireSet, released)'
  BY <1>1 DEF Enforced, SameFeatures, Nameless, PipewireSet
<1>2. ASSUME NEW p \in Pid, SettledIn(process_map, p)'
      PROVE  /\ SettledIn(process_map, p) /\ prio'[p] = prio[p]
             /\ p \in released => p \in released'
  <2>1. process_map.pid_map[p] # NoKey /\ p \in alive'
    BY <1>1, <1>2 DEF SettledIn
  <2>2. process_map.pid_map[p] \in process_map.map /\ process_map.pid_map[p][1] = p
    BY <2>1 DEF WellFormed, IndexSound
  <2>3. p <= last_pid /\ last_pid \in Int
    BY <2>2 DEF Elders, ElderCells, TypeOK, ProcTypeOK, Pid
  <2>4. prio \in [Pid -> Scheduling]
    BY DEF TypeOK
  <2>5. p \in alive /\ prio'[p] = prio[p] /\ (p \in released => p \in released')
    <3>1. ASSUME NEW q \in Pid, NEW c \in Pid, ForkProcess(q, c)
          PROVE  p \in alive /\ prio'[p] = prio[p] /\ (p \in released => p \in released')
      <4>1. /\ c = last_pid + 1 /\ alive' = alive \cup {c}
            /\ prio' = [prio EXCEPT ![c] = prio[q]] /\ released' = released
        BY <3>1 DEF ForkProcess, Fork, FreePid
      <4> QED BY <2>1, <2>3, <2>4, <4>1
    <3>2. ASSUME NEW q \in Pid, NEW reaper \in Pid, ExitProcess(q, reaper)
          PROVE  p \in alive /\ prio'[p] = prio[p] /\ (p \in released => p \in released')
      BY <2>1, <2>4, <3>2 DEF ExitProcess, Exit
    <3>3. ASSUME NEW q \in Pid, NEW n \in Names, ExecProcess(q, n)
          PROVE  p \in alive /\ prio'[p] = prio[p] /\ (p \in released => p \in released')
      BY <2>1, <3>3 DEF ExecProcess, ExecSeen, ExecUnseen, serviceVars
    <3>4. ASSUME NEW q \in Pid, NEW g \in Cgroups, MoveProcess(q, g)
          PROVE  p \in alive /\ prio'[p] = prio[p] /\ (p \in released => p \in released')
      BY <2>1, <3>4 DEF MoveProcess, MoveCgroup, serviceVars
    <3> QED BY <3>1, <3>2, <3>3, <3>4 DEF Environment
  <2> QED BY <1>1, <1>2, <2>5 DEF SettledIn
<1> QED BY <1>1, <1>2 DEF InForce, RunsRight, Decided, PipewireSet

LEMMA ReloadConfigurationForce ==
  ASSUME Inv, Enforced, ReloadConfiguration
  PROVE  Enforced'
<1>1. /\ config \in Configs /\ config' \in Configs
      /\ UNCHANGED <<alive, process_map, prio, foreground, foreground_processes,
                     pipewire_processes, released>>
  BY DEF ReloadConfiguration, procVars, Inv, TypeOK
<1>2. ASSUME SameFeatures'
      PROVE  /\ SameFeatures
             /\ config'.foreground = config.foreground /\ config'.pipewire = config.pipewire
  BY <1>1, <1>2 DEF SameFeatures
<1>3. CASE ~ SameFeatures'
  BY <1>3 DEF Enforced
<1>4. CASE SameFeatures'
  BY <1>1, <1>2, <1>4
     DEF Enforced, InForce, SettledIn, Nameless, RunsRight, Decided, PipewireSet
<1> QED BY <1>3, <1>4

LEMMA InitForce ==
  ASSUME Init
  PROVE  Enforced
<1>1. \A p \in Pid : process_map.pid_map[p] = NoKey
  BY DEF Init, EmptyMap
<1>2. \A k \in Key : process_map.cell[k] = DefaultProcess
  BY DEF Init, EmptyMap
<1>3. PipewireSet = {}
  BY DEF Init, PipewireSet, ToSet
<1>4. foreground = NoPid /\ foreground_processes = {}
  BY DEF Init
<1> QED BY <1>1, <1>2, <1>3, <1>4 DEF Enforced, InForce, SettledIn, Nameless, DefaultProcess

LEMMA NextForce == Inv /\ Elders /\ Marks /\ Enforced /\ [Next]_vars => Enforced'
<1> SUFFICES ASSUME Inv, Elders, Marks, Enforced, [Next]_vars
             PROVE  Enforced'
  OBVIOUS
<1>1. CASE Environment
  BY <1>1, EnvironmentForce
<1>2. CASE Requests
  BY <1>2, SetForegroundProcessForce, PipewireAddForce, PipewireRemoveForce,
     ReloadConfigurationForce, ServiceAssumption DEF Requests
<1>3. CASE ExecCreate
  BY <1>3, ExecCreateForce
<1>4. CASE RefreshProcessMap
  BY <1>4, RefreshForce
<1>5. CASE UNCHANGED vars
  BY <1>5 DEF vars, procVars, serviceVars,
              Enforced, SameFeatures, InForce, SettledIn, Nameless, RunsRight, Decided,
              PipewireSet
<1> QED BY <1>1, <1>2, <1>3, <1>4, <1>5 DEF Next

\* The invariant says what PriorityInForce does, of the map and the cells as such.
LEMMA ForceIs == Inv /\ Enforced => PriorityInForce
<1> SUFFICES ASSUME Inv, Enforced, ~ PidReuse, SameFeatures, NEW p \in Pid, Settled(p)
             PROVE  LET record == ProfileFor(process_map, Registered(p), prio[p], foreground)
                    IN prio[p] = record \/ LeftByRemoval(p, Registered(p), record)
  BY DEF PriorityInForce
<1> DEFINE k == process_map.pid_map[p]
           record == Decided(process_map.cell[k], p, prio[p], foreground,
                             foreground_processes, PipewireSet)
<1>1. Registered(p) = k /\ SettledIn(process_map, p)
  BY DEF Settled, SettledIn, Registered, get_pid
<1>2. RunsRight(process_map.cell[k], p, prio[p], foreground, foreground_processes, PipewireSet, released)
  BY <1>1 DEF Enforced, InForce
<1>3. k[1] = p
  BY <1>1, SettledCell DEF Inv
<1>4. ProfileFor(process_map, k, prio[p], foreground) = record
  BY <1>3, ProfileIsDecided
<1>5. prio[p] = record \/ LeftByRemoval(p, k, record)
  <2>1. Cell(k) = process_map.cell[k]
    BY DEF Cell
  <2> QED BY <1>2, <2>1 DEF RunsRight, LeftByRemoval
<1> HIDE DEF k, record
<1> QED BY <1>1, <1>4, <1>5

\* Whatever handlers, forks, exits and garbage collections come in between, a
\* process with one cell runs with what that cell and the lists say.
THEOREM PriorityAlwaysInForce == Spec => []PriorityInForce
<1> DEFINE Known == Inv /\ Elders /\ Marks /\ Enforced
<1>1. Init => Known
  BY InitInv, InitElder, InitMarks, InitForce
<1>2. Known /\ [Next]_vars => Known'
  BY NextInv, NextElder, NextMarks, NextForce
<1>3. Known => PriorityInForce
  BY ForceIs
<1> HIDE DEF Known
<1> QED BY <1>1, <1>2, <1>3, PTL DEF Spec
=============================================================================
