------------------------- MODULE ServiceDocumented -------------------------
(***************************************************************************)
(* What the README says of the process scheduler and the code does not do. *)
(* It is refuted by a run.                                                 *)
(***************************************************************************)
EXTENDS ServiceTimer

\* The processes the README promises a higher priority: the foreground process
\* and its sub-processes, unless the configuration decides otherwise.
InForeground(p) ==
  /\ config.foreground
  /\ foreground # NoPid
  /\ p \in ProcTree(foreground)
  /\ proc[p].exe \notin config.exceptions

\* README.md:3: a process that stays the foreground process, or below it, is
\* given the foreground profile, at the latest by a later sweep.  A reparented
\* process loses its entry in the pid index (Map::drain_filter) for good, and
\* with it every adjustment but the one meant for unassigned processes.
ForegroundTreePrioritised ==
  \A p \in Pid : <>[]InForeground(p) => []<>(prio[p] = "foreground")
=============================================================================
