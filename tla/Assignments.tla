---------------------------- MODULE Assignments ----------------------------
(***************************************************************************)
(* Which priority a process is given: the decision procedure of            *)
(* Service::assign_process_priority and process_is_exception               *)
(* (daemon/src/service.rs) over the configured assignments                 *)
(* (config/src/scheduler/assignments.rs).                                  *)
(*                                                                         *)
(* A wildcard pattern is the set of names (or cgroups) it matches, "!"     *)
(* patterns being complements; an Option is a set of at most one element,  *)
(* a Vec of alternatives the set of them.                                  *)
(***************************************************************************)
EXTENDS ProcessMap, FiniteSetsExt

NameMatch   == SUBSET (Names \cup {NoName})
CgroupMatch == SUBSET (Cgroups \cup {NoCgroup})

Condition == [descends : SUBSET NameMatch, cgroup : SUBSET CgroupMatch,
              name : SUBSET NameMatch, parent : SUBSET NameMatch]

\* The include and exclude rules of one profile.
ProfileRules == [profile : Profiles, include : SUBSET Condition, exclude : SUBSET Condition]

\* `conditions` lists the profiles in the iteration order of the HashMap;
\* profile_by_name also stands for profile_by_cmdline, and exceptions for the
\* exceptions by name and by cmdline.
IsConfig(c) ==
  /\ DOMAIN c = {"exceptions", "exceptions_conditions", "profile_by_name",
                 "conditions", "foreground", "pipewire"}
  /\ c.exceptions \subseteq Names
  /\ c.exceptions_conditions \subseteq Condition
  /\ DOMAIN c.profile_by_name \subseteq Names
  /\ \A n \in DOMAIN c.profile_by_name : c.profile_by_name[n] \in Profiles
  /\ c.conditions \in Seq(ProfileRules)
  /\ c.foreground \in BOOLEAN
  /\ c.pipewire \in BOOLEAN

\* The parent cell, if there is one, as a set.
parent(pm, k) == {pm.cell[k].parent} \ {NoKey}

\* True when all conditions for a profile are met by a process.
condition_met(c, pm, k) ==
  /\ \A m \in c.cgroup : pm.cell[k].cgroup \in m
  /\ \A m \in c.name : pm.cell[k].name \in m
  /\ c.parent # {} => \E m \in c.parent, a \in parent(pm, k) : pm.cell[a].name \in m
  /\ \A m \in c.descends : \E a \in ancestors(pm, k) : pm.cell[a].name \in m

\* An excepted ancestor counts under the name it runs and the one it forked as.
RanAs(pm, k, m) == pm.cell[k].name \in m \/ pm.cell[k].forked_name \in m

exception_met(c, pm, k) ==
  /\ \A m \in c.descends :
       \/ pm.cell[k].forked_name \in m
       \/ \E a \in ancestors(pm, k) : RanAs(pm, a, m)
  /\ c.parent # {} => \E m \in c.parent, a \in parent(pm, k) : RanAs(pm, a, m)

process_is_exception(config, pm, k) ==
  \/ pm.cell[k].name \in config.exceptions
  \/ \E c \in config.exceptions_conditions : exception_met(c, pm, k)

\* The profiles whose rules include process k and none of whose rules exclude it.
Included(rules, pm, k) ==
  /\ \E c \in rules.include : condition_met(c, pm, k)
  /\ ~ \E c \in rules.exclude : condition_met(c, pm, k)

\* The positions of `conditions` that take process k; the first one wins.
Takers(config, pm, k) ==
  {i \in DOMAIN config.conditions : Included(config.conditions[i], pm, k)}

\* The priority assign_process_priority computes for process k.
assignment(config, pm, k) ==
  IF process_is_exception(config, pm, k) THEN Exception
  ELSE IF pm.cell[k].name \in DOMAIN config.profile_by_name
       THEN config.profile_by_name[pm.cell[k].name]
  ELSE IF pm.cell[k].cgroup = NoCgroup THEN NotAssignable
  ELSE IF Takers(config, pm, k) = {} THEN Assignable
  ELSE config.conditions[Min(Takers(config, pm, k))].profile
=============================================================================
