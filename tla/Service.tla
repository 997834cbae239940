------------------------------ MODULE Service ------------------------------
(***************************************************************************)
(* The process scheduler of daemon/src/service.rs: every handler that the  *)
(* main loop (daemon/src/main.rs) runs for it, against processes that      *)
(* fork, exec, exit and move between cgroups in the meantime.              *)
(*                                                                         *)
(* A handler is one step.  It runs to completion on one thread without     *)
(* awaiting, and the only concurrent actor is the kernel; a scan of /proc  *)
(* sees one instant here, and is taken apart in ServiceTimer.              *)
(***************************************************************************)
EXTENDS Assignments, SequencesExt

CONSTANTS
  Configs,          \* the configurations the files may hold
  GcLimit,          \* events between two garbage collections (2048 in the code)
  ForegroundPids,   \* the pids a D-Bus client may name
  PipewirePids      \* the pids pipewire reports; {} if started without that profile

\* What priority::set leaves on a process: the profile applied to it last.
Scheduling == {Untouched, "foreground", "background", "pipewire", "default"} \cup Profiles

ASSUME ServiceAssumption ==
  /\ \A c \in Configs : IsConfig(c)
  /\ GcLimit \in Nat
  /\ ForegroundPids \subseteq Pid
  /\ PipewirePids \subseteq Pid
  /\ Profiles \cap {Untouched, "foreground", "background", "pipewire", "default"} = {}

VARIABLES
  config,                \* the configuration in use
  process_map,           \* what the daemon knows of the processes
  prio,                  \* the scheduling each live process runs with
  foreground,            \* the pid set as foreground, NoPid if none
  foreground_processes,  \* the pids found below it when it was set
  pipewire_processes,    \* the pids under the pipewire profile, oldest first
  managed,               \* the pids the pipewire monitor has reported
  gc_counter,            \* events since the last garbage collection
  released               \* history: the pids that run with what a removal left them

serviceVars == <<config, process_map, prio, foreground, foreground_processes,
                 pipewire_processes, managed, gc_counter, released>>
vars == <<procVars, serviceVars>>

PipewireSet == ToSet(pipewire_processes)

TypeOK ==
  /\ ProcTypeOK
  /\ config \in Configs
  /\ process_map \in Map
  /\ prio \in [Pid -> Scheduling]
  /\ foreground \in Pid \cup {NoPid}
  /\ foreground_processes \subseteq Pid
  /\ pipewire_processes \in Seq(Pid)
  /\ managed \subseteq Pid
  /\ gc_counter \in 0..GcLimit
  /\ released \subseteq Pid

Init ==
  /\ ProcInit
  /\ config \in Configs
  /\ process_map = EmptyMap
  /\ prio = [p \in Pid |-> Untouched]
  /\ foreground = NoPid
  /\ foreground_processes = {}
  /\ pipewire_processes = <<>>
  /\ managed = {}
  /\ gc_counter = 0
  /\ released = {}

-----------------------------------------------------------------------------
(* Reading /proc *)

Observe(p) == [ppid |-> proc[p].ppid, name |-> proc[p].exe, cgroup |-> proc[p].cgroup]

Scan == [p \in alive |-> Observe(p)]

\* The garbage collector reads the same entries but keeps only the pids.
GcScan == [p \in alive |-> [Observe(p) EXCEPT !.name = NoName, !.cgroup = NoCgroup]]

\* The live processes from pid downwards that the pid index does not know: those
\* that assign_children(pid) records.
NewChildren(pm, pid) ==
  [p \in {q \in ProcTree(pid) : get_pid(pm, q) = NoKey} |-> Observe(p)]

-----------------------------------------------------------------------------
(* Assigning priorities *)

\* The registered cell of a pid decides for every cell of that pid.
process_assignment(pm, p) ==
  IF get_pid(pm, p) = NoKey THEN NotAssignable ELSE pm.cell[get_pid(pm, p)].assigned_priority

process_descended_from(pm, k, pid) ==
  \/ k[2] = pid
  \/ \E a \in ancestors(pm, k) : pid \in {a[1], a[2]}

process_is_pipewire_assigned(pm, k) ==
  pm.cell[k].pipewire_ancestor # NoPid \/ k[1] \in PipewireSet

assign_process_priority(pm, S) ==
  [pm EXCEPT !.cell = [k \in Key |->
     IF k \in S /\ pm.cell[k].assigned_priority = NotAssignable
     THEN [pm.cell[k] EXCEPT !.assigned_priority = assignment(config, pm, k)]
     ELSE pm.cell[k]]]

\* Seeded fault: an exception is treated like a process to be prioritised.
ProfileForExceptions(pm, k, current, fg) ==
  IF pm.cell[k].assigned_priority = NotAssignable THEN current
  ELSE IF k[1] \in foreground_processes \cup {fg} THEN "foreground" ELSE "background"

\* The scheduling after apply_process_priority on cell k of a process that has
\* `current` while fg is foreground; an exception and a process not assigned
\* yet keep theirs.
ProfileFor(pm, k, current, fg) ==
  LET assigned == pm.cell[k].assigned_priority IN
  IF assigned \in Profiles THEN assigned
  ELSE IF assigned # Assignable THEN current
  ELSE IF config.pipewire /\ process_is_pipewire_assigned(pm, k) THEN "pipewire"
  ELSE IF ~ config.foreground \/ fg = NoPid THEN "default"
  ELSE IF k[1] \in foreground_processes \cup {fg} THEN "foreground"
  ELSE "background"

\* Setting the priority of a process that is gone fails, silently.
apply_process_priority(pr, pm, new, fg) ==
  [p \in Pid |-> IF p \in DOMAIN new \cap alive
                 THEN ProfileFor(pm, <<p, new[p].ppid>>, pr[p], fg) ELSE pr[p]]

SetPriority(pr, pids, profile) ==
  [p \in Pid |-> IF p \in pids \cap alive THEN profile ELSE pr[p]]

\* The pipewire process that the nearest ancestor with one is or comes from.
PipewireAncestor(pm, k) ==
  LET line == Lineage(pm, k)
      In(n) == {i \in DOMAIN pipewire_processes :
                  pipewire_processes[i] \in {line[n][1], line[n][2]}}
      hits == {n \in DOMAIN line : In(n) # {}}
  IN IF hits = {} THEN NoPid ELSE pipewire_processes[Min(In(Min(hits)))]

inherit_pipewire(pm, S) ==
  [pm EXCEPT !.cell = [k \in Key |->
     LET found == IF k \in S THEN PipewireAncestor(pm, k) ELSE NoPid IN
     IF found = NoPid THEN pm.cell[k] ELSE [pm.cell[k] EXCEPT !.pipewire_ancestor = found]]]

\* assign_new_process for the observations of `new`, parents before children:
\* what a cell gets depends on its ancestors, which are complete before it.
assign_new_process(pm, new) ==
  LET keys == KeysOf(new)
  IN assign_process_priority(inherit_pipewire(link(insert(pm, new), keys), keys), keys)

\* garbage_clean after an event: only every GcLimit-th call does anything.
garbage_clean(pm) ==
  IF gc_counter < GcLimit THEN pm
  ELSE drain_filter(insert(pm, GcScan), KeysOf(GcScan))

\* Seeded fault: one event more than the limit.
CountGcLate == gc_counter' = IF gc_counter <= GcLimit THEN gc_counter + 1 ELSE 0

CountGc == gc_counter' = IF gc_counter < GcLimit THEN gc_counter + 1 ELSE 0

\* What a removal has left a process with lasts until it is given something else.
SetSince == released' = {p \in released : prio'[p] = prio[p]}

-----------------------------------------------------------------------------
(* The handlers of the main loop *)

ExecCreate ==
  /\ execs # <<>>
  /\ execs' = Tail(execs)
  /\ LET e    == Head(execs)
         new  == [p \in {e.pid} |->
                    [ppid |-> e.parent_pid, name |-> e.name,
                     cgroup |-> IF p \in alive THEN proc[p].cgroup ELSE NoCgroup]]
         pm   == assign_new_process(process_map, new)
         kids == NewChildren(pm, e.pid)
         pm2  == assign_new_process(pm, kids)
         pr   == apply_process_priority(prio, pm, new, foreground)
     IN /\ process_map' = garbage_clean(pm2)
        /\ prio' = apply_process_priority(pr, pm2, kids, foreground)
  /\ CountGc /\ SetSince
  /\ UNCHANGED <<alive, proc, last_pid, config, foreground, foreground_processes,
                 pipewire_processes, managed>>

\* Seeded fault: of the pipewire processes, only those marked as brought in by
\* another are passed over.
PrioritiseTops(pm, pr, pid) ==
  LET cells == {k \in pm.map : process_assignment(pm, k[1]) = Assignable}
      below == {k \in cells : k[1] = pid \/ process_descended_from(pm, k, pid)}
      piped == {k \in cells : pm.cell[k].pipewire_ancestor # NoPid}
      PidsOf(S) == {k[1] : k \in S}
  IN /\ foreground' = pid
     /\ foreground_processes' = {pid} \cup PidsOf(below)
     /\ prio' = SetPriority(SetPriority(pr, PidsOf(cells \ piped), "background"),
                            PidsOf(below \ piped), "foreground")

\* The loop of set_foreground_process over the cells of pm.  Two cells of one
\* pid may disagree: the one the HashMap yields last decides, and `last` holds
\* the pids for which that is the cell below the foreground process.
Prioritise(pm, pr, pid) ==
  LET cells == {k \in pm.map : process_assignment(pm, k[1]) = Assignable}
      below == {k \in cells : k[1] = pid \/ process_descended_from(pm, k, pid)}
      piped == {k \in cells : process_is_pipewire_assigned(pm, k)}
      PidsOf(S) == {k[1] : k \in S}
      fg == PidsOf(below \ piped)
      bg == PidsOf(cells \ (below \cup piped))
  IN /\ foreground' = pid
     /\ foreground_processes' = {pid} \cup PidsOf(below)
     /\ \E last \in SUBSET (fg \cap bg) :
          prio' = SetPriority(SetPriority(pr, fg, "foreground"), bg \ last, "background")

SetForegroundProcess(pid) ==
  /\ LET kids == NewChildren(process_map, pid)
         pm   == assign_new_process(process_map, kids)
         pr   == apply_process_priority(prio, pm, kids, foreground)
     IN /\ process_map' = garbage_clean(pm)
        /\ IF config.foreground THEN Prioritise(pm, pr, pid)
           ELSE prio' = pr /\ UNCHANGED <<foreground, foreground_processes>>
  /\ CountGc /\ SetSince
  /\ UNCHANGED <<procVars, config, pipewire_processes, managed>>

\* What process_map_refresh makes of the entries of /proc it has read: the parent
\* pointers of the registered cells (one set on a cell that the drain then drops
\* is left out), the drain, the assignments, and the foreground process once
\* more, which is taken out of `foreground` meanwhile.
process_map_refresh(entries) ==
  /\ LET live == KeysOf(entries)
         seen == insert(process_map, entries)
         kept == drain_filter(link(seen, {k \in live : get_pid(seen, k[1]) = k}), live)
         pm   == assign_process_priority(kept, live)
         kids == NewChildren(pm, foreground)
         pm2  == assign_new_process(pm, kids)
         pr   == apply_process_priority(prio, pm, entries, foreground)
         pr2  == apply_process_priority(pr, pm2, kids, NoPid)
     IN /\ process_map' = pm2
        /\ IF foreground # NoPid /\ config.foreground
           THEN Prioritise(pm2, pr2, foreground)
           ELSE prio' = pr2 /\ foreground' = NoPid /\ UNCHANGED foreground_processes
  /\ released' = {}
  /\ UNCHANGED <<procVars, config, pipewire_processes, managed, gc_counter>>

RefreshProcessMap == process_map_refresh(Scan)

\* The monitor (daemon/src/pw.rs) reports a pid once until it is removed; the
\* event is then handled by set_pipewire_process.
PipewireAdd(pid) ==
  /\ pid \notin managed
  /\ managed' = managed \cup {pid}
  /\ LET kids  == NewChildren(process_map, pid)
         pm    == assign_new_process(process_map, kids)
         pr    == apply_process_priority(prio, pm, kids, foreground)
         cells == {k \in pm.map : process_assignment(pm, k[1]) = Assignable}
         below == {k \in cells : k[1] # pid /\ process_descended_from(pm, k, pid)}
         owned == [pm EXCEPT !.cell = [k \in Key |->
                     IF k \in below THEN [pm.cell[k] EXCEPT !.pipewire_ancestor = pid]
                     ELSE pm.cell[k]]]
         \* A process that is known to have a priority of its own is passed over.
         refused == /\ pid \notin PipewireSet
                    /\ get_pid(pm, pid) # NoKey
                    /\ process_assignment(pm, pid) # Assignable
     IN IF config.pipewire /\ ~ refused
        THEN /\ pipewire_processes' = IF pid \in PipewireSet THEN pipewire_processes
                                      ELSE Append(pipewire_processes, pid)
             /\ process_map' = garbage_clean(owned)
             /\ prio' = SetPriority(pr, {k[1] : k \in {c \in cells : c[1] = pid} \cup below},
                                    "pipewire")
        ELSE /\ UNCHANGED pipewire_processes
             /\ process_map' = garbage_clean(pm)
             /\ prio' = pr
  /\ CountGc /\ SetSince
  /\ UNCHANGED <<procVars, config, foreground, foreground_processes>>

\* Seeded fault: only the process itself is released.
FreedAlone(pid) == {k \in process_map.map : k[1] = pid}

\* The cells a pipewire process brought under the profile, its own included.
Freed(pid) ==
  {k \in process_map.map : process_map.cell[k].pipewire_ancestor = pid \/ k[1] = pid}

\* remove_pipewire_process: everything the process brought under the profile
\* returns to the foreground or background profile, if there are such.
PipewireRemove(pid) ==
  /\ pid \in managed
  /\ managed' = managed \ {pid}
  /\ IF pid \in PipewireSet
     THEN LET freed == Freed(pid)
              pids == {k[1] : k \in {c \in freed :
                                      process_assignment(process_map, c[1]) = Assignable}}
          IN /\ pipewire_processes' = RemoveFirst(pipewire_processes, pid)
             /\ process_map' = [process_map EXCEPT !.cell = [k \in Key |->
                  IF k \in freed THEN [process_map.cell[k] EXCEPT !.pipewire_ancestor = NoPid]
                  ELSE process_map.cell[k]]]
             /\ prio' = IF config.foreground
                        THEN SetPriority(SetPriority(prio, pids, "background"),
                                         pids \cap foreground_processes, "foreground")
                        ELSE prio
             /\ released' = released \cup (pids \cap alive)
     ELSE UNCHANGED <<pipewire_processes, process_map, prio, released>>
  /\ UNCHANGED <<procVars, config, foreground, foreground_processes, gc_counter>>

ReloadConfiguration ==
  /\ config' \in Configs
  /\ UNCHANGED <<procVars, process_map, prio, foreground, foreground_processes,
                 pipewire_processes, managed, gc_counter, released>>

-----------------------------------------------------------------------------
(* The processes *)

\* A fork inherits its parent's scheduling; a dead process has none.
ForkProcess(p, c) ==
  /\ Fork(p, c)
  /\ prio' = [prio EXCEPT ![c] = prio[p]]
  /\ UNCHANGED <<config, process_map, foreground, foreground_processes,
                 pipewire_processes, managed, gc_counter, released>>

ExitProcess(p, reaper) ==
  /\ Exit(p, reaper)
  /\ prio' = [prio EXCEPT ![p] = Untouched]
  /\ released' = released \ {p}
  /\ UNCHANGED <<config, process_map, foreground, foreground_processes,
                 pipewire_processes, managed, gc_counter>>

ExecProcess(p, n) ==
  /\ ExecSeen(p, n) \/ ExecUnseen(p, n)
  /\ UNCHANGED serviceVars

MoveProcess(p, g) ==
  /\ MoveCgroup(p, g)
  /\ UNCHANGED serviceVars

Environment ==
  \/ \E p, c \in Pid : ForkProcess(p, c)
  \/ \E p, reaper \in Pid : ExitProcess(p, reaper)
  \/ \E p \in Pid, n \in Names : ExecProcess(p, n)
  \/ \E p \in Pid, g \in Cgroups : MoveProcess(p, g)

Requests ==
  \/ \E pid \in ForegroundPids : SetForegroundProcess(pid)
  \/ \E pid \in PipewirePids : PipewireAdd(pid) \/ PipewireRemove(pid)
  \/ ReloadConfiguration

Next == Environment \/ Requests \/ ExecCreate \/ RefreshProcessMap

Spec == Init /\ [][Next]_vars
=============================================================================
