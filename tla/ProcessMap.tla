----------------------------- MODULE ProcessMap -----------------------------
(***************************************************************************)
(* The process map of daemon/src/process.rs: one cell per (pid, parent     *)
(* pid) pair ever observed, and an index from a pid to its newest cell.    *)
(*                                                                         *)
(* A map is a record; every operation of the code is an operator from map  *)
(* to map.  Where the code applies an operation in a loop over /proc, the  *)
(* operator takes the whole batch: a scan holds each pid once, so the      *)
(* iterations touch different cells and their order does not matter.       *)
(*                                                                         *)
(* A cell is identified by the pair the code hashes (hash collisions are   *)
(* left out), cmdline and name are one value, and a Weak parent pointer is *)
(* the key of the cell it points to, NoKey once that cell is dropped.      *)
(***************************************************************************)
EXTENDS ProcFs

CONSTANT Profiles      \* the profiles the configuration files define

\* OwnedPriority: Config(profile) is the profile itself.
Assignable    == "Assignable"
Exception     == "Exception"
NotAssignable == "NotAssignable"
OwnedPriority == {Assignable, Exception, NotAssignable} \cup Profiles

ASSUME ProfilesAssumption ==
  Profiles \cap {Assignable, Exception, NotAssignable} = {}

Key   == Pid \X (0..MaxPid)
NoKey == <<NoPid, NoPid>>

Process == [name : Names \cup {NoName}, forked_name : Names \cup {NoName},
            cgroup : Cgroups \cup {NoCgroup}, parent : Key \cup {NoKey},
            assigned_priority : OwnedPriority, pipewire_ancestor : Pid \cup {NoPid}]

DefaultProcess == [name |-> NoName, forked_name |-> NoName, cgroup |-> NoCgroup,
                   parent |-> NoKey, assigned_priority |-> NotAssignable,
                   pipewire_ancestor |-> NoPid]

\* Cells that are not in the map are kept at DefaultProcess.
Map == [map : SUBSET Key, pid_map : [Pid -> Key \cup {NoKey}], cell : [Key -> Process]]

EmptyMap == [map |-> {}, pid_map |-> [p \in Pid |-> NoKey],
             cell |-> [k \in Key |-> DefaultProcess]]

\* What a reader of /proc learns of a process before it inserts it.
Observed == [ppid : 0..MaxPid, name : Names \cup {NoName}, cgroup : Cgroups \cup {NoCgroup}]

get_pid(pm, p) == IF p \in Pid THEN pm.pid_map[p] ELSE NoKey

\* The cells that the observations of `new`, by pid, belong to.
KeysOf(new) == {<<p, new[p].ppid>> : p \in DOMAIN new}

\* Seeded fault: the name of an existing cell is not brought up to date.
MergeKeepsName(old, obs) ==
  [old EXCEPT !.cgroup = obs.cgroup, !.parent = NoKey,
              !.name = IF old = DefaultProcess THEN obs.name ELSE old.name]

\* Both arms of insert on one cell, with parent = None.
Merge(old, obs) ==
  IF old.name = obs.name
  THEN [old EXCEPT !.cgroup = obs.cgroup, !.parent = NoKey]
  ELSE [old EXCEPT !.cgroup = obs.cgroup, !.parent = NoKey,
                   !.name = obs.name, !.forked_name = old.name,
                   !.assigned_priority = NotAssignable]

\* Only a vacant entry makes a cell and enters it in the pid index.
insert(pm, new) ==
  LET keys == KeysOf(new)
  IN [map     |-> pm.map \cup keys,
      pid_map |-> [p \in Pid |->
                     IF p \in DOMAIN new /\ <<p, new[p].ppid>> \notin pm.map
                     THEN <<p, new[p].ppid>> ELSE pm.pid_map[p]],
      cell    |-> [k \in Key |-> IF k \in keys THEN Merge(pm.cell[k], new[k[1]])
                                 ELSE pm.cell[k]]]

\* Seeded fault: pid and parent pid swapped.
link_to_self(pm, S) ==
  [pm EXCEPT !.cell = [k \in Key |->
     IF k \in S /\ get_pid(pm, k[1]) # NoKey
     THEN [pm.cell[k] EXCEPT !.parent = get_pid(pm, k[1])]
     ELSE pm.cell[k]]]

\* Points the cells of S at the cell registered for their parent pid, if any.
link(pm, S) ==
  [pm EXCEPT !.cell = [k \in Key |->
     IF k \in S /\ get_pid(pm, k[2]) # NoKey
     THEN [pm.cell[k] EXCEPT !.parent = get_pid(pm, k[2])]
     ELSE pm.cell[k]]]

\* Seeded faults: dead cells stay; the pid index is not drained with the map;
\* parent pointers keep a dropped cell (an Arc where the code has a Weak).
drain_nothing(pm, retained) == pm

drain_map_only(pm, retained) ==
  [pm EXCEPT !.map = @ \cap retained,
             !.cell = [k \in Key |-> IF k \in retained THEN pm.cell[k] ELSE DefaultProcess]]

drain_strong_parents(pm, retained) ==
  [drain_map_only(pm, retained) EXCEPT
     !.pid_map = [p \in Pid |-> IF \E k \in pm.map \ retained : k[1] = p THEN NoKey ELSE @[p]]]

\* Drops every cell that the scan between drain_filter_prepare and here did
\* not retain.  The pid index entry goes with it, whatever cell it names, and
\* Weak pointers to a dropped cell no longer upgrade.
drain_filter(pm, retained) ==
  LET drain == pm.map \ retained
  IN [map     |-> pm.map \ drain,
      pid_map |-> [p \in Pid |-> IF \E k \in drain : k[1] = p THEN NoKey
                                 ELSE pm.pid_map[p]],
      cell    |-> [k \in Key |->
                     IF k \in drain THEN DefaultProcess
                     ELSE IF pm.cell[k].parent \in drain
                          THEN [pm.cell[k] EXCEPT !.parent = NoKey]
                          ELSE pm.cell[k]]]

\* The parent cell, its parent cell, and so on, by distance; NoKey past the end.
Lineage(pm, k) ==
  LET cells == Cardinality(pm.map)
      up[n \in 0..cells] ==
        IF n = 0 THEN pm.cell[k].parent
        ELSE LET below == up[n - 1]
             IN IF below = NoKey THEN NoKey ELSE pm.cell[below].parent
  IN [n \in 0..cells |-> up[n]]

ancestors(pm, k) ==
  LET line == Lineage(pm, k) IN {line[n] : n \in DOMAIN line} \cap pm.map

-----------------------------------------------------------------------------
(* What the operations above keep in step *)

\* The index names cells of the map, of the pid it is asked for.
IndexSound(pm) ==
  \A p \in Pid : pm.pid_map[p] # NoKey => pm.pid_map[p] \in pm.map /\ pm.pid_map[p][1] = p

\* A parent pointer leads to a cell in the map, of the recorded parent pid.
LinksSound(pm) ==
  \A k \in Key : pm.cell[k].parent # NoKey =>
    pm.cell[k].parent \in pm.map /\ pm.cell[k].parent[1] = k[2]
=============================================================================
