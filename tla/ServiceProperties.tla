------------------------- MODULE ServiceProperties -------------------------
(***************************************************************************)
(* What the process scheduler owes the processes it manages: invariants of *)
(* the process map, what a step of the daemon may never do to a process,   *)
(* and what it must get done in the end.                                   *)
(***************************************************************************)
EXTENDS Service

Cell(k)       == process_map.cell[k]
Registered(p) == get_pid(process_map, p)
HasCell(p)    == \E k \in process_map.map : k[1] = p

-----------------------------------------------------------------------------
(* The process map *)

\* The pid index never names a cell that was dropped or that belongs to another
\* pid, whatever order reparenting, late exec events, scans and drains come in
\* (Map::insert and Map::drain_filter keep two tables in step by hand).
PidMapSound == IndexSound(process_map)

\* A parent pointer always leads to a cell of the pid that was recorded as the
\* parent: conditions on parents and descendants never consult a bystander.
ParentLinkAgrees == LinksSound(process_map)

\* Without pid reuse a parent pointer leads to an older process, so the walk of
\* Process::ancestors, which has no guard against a cycle, ends.
AncestryEnds ==
  PidReuse \/ \A k \in process_map.map : Cell(k).parent # NoKey => Cell(k).parent[1] < k[1]

\* A process marked as brought in by a pipewire process never keeps the mark
\* once that process is gone from pipewire_processes, and every pipewire process
\* is one whose removal the monitor would still pass on.
PipewireMarksOwned ==
  /\ \A k \in process_map.map : Cell(k).pipewire_ancestor \in PipewireSet \cup {NoPid}
  /\ PipewireSet \subseteq managed

-----------------------------------------------------------------------------
(* Priorities *)

\* Once the daemon has excepted a process, no handler changes its scheduling for
\* as long as the exception stands, in every cell there is for it: a late exec
\* event may make a second one, which decides as well (the exceptions node of the
\* configuration).
Excepted(p) ==
  /\ p \in alive
  /\ Registered(p) # NoKey
  /\ \A k \in process_map.map : k[1] = p => Cell(k).assigned_priority = Exception

ExceptionsUntouched ==
  [][\A p \in Pid : Excepted(p) /\ Excepted(p)' => prio'[p] = prio[p]]_vars

\* A process with one cell runs with what that cell, the foreground and the
\* pipewire lists say: no handler forgets to apply what it recorded, and none
\* overwrites a profile the configuration assigned.  The exceptions are what
\* remove_pipewire_process has left a process with, until something else is set
\* or the next sweep puts it right.
Settled(p) ==
  /\ p \in alive
  /\ Registered(p) # NoKey
  /\ \A k \in process_map.map : k[1] = p => k = Registered(p)

\* A process that was freed is sent to the background although nothing is in the
\* foreground, or keeps the profile if there is no foreground management; and one
\* that still is a pipewire process itself loses it with the one above it.
LeftByRemoval(p, k, record) ==
  /\ p \in released
  /\ \/ /\ record = "default"
        /\ prio[p] = IF config.foreground THEN "background" ELSE "pipewire"
     \/ /\ record = "pipewire" /\ config.foreground
        /\ p \in PipewireSet /\ Cell(k).pipewire_ancestor = NoPid
        /\ prio[p] \in {"foreground", "background"}

\* Said of configurations that agree on whether there are a foreground and a
\* pipewire profile: a reload that turns one on or off takes effect process by
\* process, until the next sweep.
SameFeatures ==
  \A c \in Configs : c.foreground = config.foreground /\ c.pipewire = config.pipewire

PriorityInForce ==
  ~ PidReuse /\ SameFeatures =>
    \A p \in Pid : Settled(p) =>
      LET record == ProfileFor(process_map, Registered(p), prio[p], foreground)
      IN prio[p] = record \/ LeftByRemoval(p, Registered(p), record)

-----------------------------------------------------------------------------
(* Progress, with the refresh timer running *)

\* Dead processes do not stay in the map: again and again it holds none.
DeadLeave ==
  \A p \in Pid : []<>(p \in alive \/ ~ HasCell(p))

\* A process that lives on under one name is, again and again, recorded under
\* that name with a decided priority, even when exec events arrive late, are
\* lost, or a garbage collection resets its cell.
RecordedAs(p, n) ==
  \E k \in process_map.map :
    k[1] = p /\ Cell(k).name = n /\ Cell(k).assigned_priority # NotAssignable

SurvivorsRecorded ==
  \A p \in Pid, n \in Names :
    <>[](p \in alive /\ proc[p].exe = n) => []<>RecordedAs(p, n)
=============================================================================
