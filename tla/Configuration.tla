---------------------------- MODULE Configuration ----------------------------
(***************************************************************************)
(* How the configuration is read (config/src/parser): config.kdl first,    *)
(* then the files of the distribution and those of the system, node after  *)
(* node.  Which nodes the files hold is left open; a step reads one.       *)
(*                                                                         *)
(* The files of one directory come in any order, and one that cannot be    *)
(* read or parsed holds no nodes.  A rule by command line is one by name,  *)
(* a pattern a value, and a list that is only searched a set.              *)
(***************************************************************************)
EXTENDS ProfileValues, Sequences

CONSTANTS
  ProfileNames,  \* the profiles the files may define
  Processes,     \* the processes their rules may name
  PropertySets,  \* what their nodes may say of a profile
  Conditions,    \* the conditions their rules may state
  Rates,         \* the refresh rates they may ask for
  MaxNodes       \* bound: the nodes of all files together

Reserved == {"foreground", "background", "pipewire"}

U16 == 0..65535

Criterion == {"cgroup", "descends", "name", "parent"}

ASSUME ConfigurationAssumption ==
  /\ Reserved \subseteq ProfileNames
  /\ PropertySets \subseteq Properties
  /\ \A c \in Conditions : DOMAIN c = Criterion
  /\ Rates \subseteq Int
  /\ MaxNodes \in Nat

VARIABLES
  stage,                  \* where the reader is
  open,                   \* the profile whose rules it is reading, if any
  enable,
  execsnoop,
  refresh_rate,
  profiles,               \* by name
  profile_by_name,        \* by process
  conditions,             \* by name of the profile: its values and its rules
  exceptions,             \* the processes excepted by name
  exceptions_conditions,
  foreground,             \* the foreground and background profiles, if both are defined
  pipewire,               \* the pipewire profile, if defined
  read,                   \* history: the profiles and rules read so far
  nodes                   \* the number of nodes read, to bound it

switches   == <<enable, execsnoop, refresh_rate>>
assigned   == <<profiles, profile_by_name, conditions>>
excepted   == <<exceptions, exceptions_conditions>>
features   == <<foreground, pipewire>>
vars == <<stage, open, switches, assigned, excepted, features, read, nodes>>

Open  == [name : ProfileNames, profile : Profile]
Rules == [profile : Profile, rules : SUBSET (Conditions \X BOOLEAN)]
Node  == [kind : {"profile", "name", "condition"}, about : ProfileNames \cup Processes,
          properties : PropertySets, stage : {"scheduler", "distribution", "system"}]

TypeOK ==
  /\ stage \in {"start", "config", "scheduler", "distribution", "system", "done"}
  /\ open \subseteq Open
  /\ enable \in BOOLEAN /\ execsnoop \in BOOLEAN
  /\ refresh_rate \in U16
  /\ DOMAIN profiles \subseteq ProfileNames
  /\ \A n \in DOMAIN profiles : profiles[n] \in Profile
  /\ DOMAIN profile_by_name \subseteq Processes
  /\ \A p \in DOMAIN profile_by_name : profile_by_name[p] \in Profile
  /\ DOMAIN conditions \subseteq ProfileNames
  /\ \A n \in DOMAIN conditions : conditions[n] \in Rules
  /\ exceptions \subseteq Processes
  /\ \A c \in exceptions_conditions : DOMAIN c = Criterion
  /\ foreground \subseteq [background : Profile, foreground : Profile]
  /\ pipewire \subseteq Profile
  /\ read \in Seq(Node)
  /\ nodes \in 0..MaxNodes

Nothing == [x \in {} |-> NewProfile]

Put(f, x, value) == [y \in DOMAIN f \cup {x} |-> IF y = x THEN value ELSE f[y]]
Drop(f, S)       == [y \in DOMAIN f \ S |-> f[y]]
Get(f, x)        == IF x \in DOMAIN f THEN {f[x]} ELSE {}

Init ==
  /\ stage = "start" /\ open = {}
  /\ enable = FALSE /\ execsnoop = FALSE /\ refresh_rate = 60
  /\ profiles = Nothing /\ profile_by_name = Nothing /\ conditions = Nothing
  /\ exceptions = {} /\ exceptions_conditions = {}
  /\ foreground = {} /\ pipewire = {}
  /\ read = <<>> /\ nodes = 0

-----------------------------------------------------------------------------
(* config.kdl *)

\* One more node.
ANode == nodes < MaxNodes /\ nodes' = nodes + 1

\* There is a config.kdl, in either place, and it parses.
OpenMain ==
  /\ stage = "start"
  /\ stage' = "config"
  /\ UNCHANGED <<open, switches, assigned, excepted, features, read, nodes>>

\* The process-scheduler node, in which nothing is read once it is disabled.
Scheduler(on) ==
  /\ stage \in {"config", "scheduler"}
  /\ ANode
  /\ enable' = on
  /\ stage' = IF on THEN "scheduler" ELSE "config"
  /\ open' = {}
  /\ UNCHANGED <<execsnoop, refresh_rate, assigned, excepted, features, read>>

Execsnoop(on) ==
  /\ stage = "scheduler"
  /\ ANode
  /\ execsnoop' = on
  /\ open' = {}
  /\ UNCHANGED <<stage, enable, refresh_rate, assigned, excepted, features, read>>

\* Seeded fault: a rate is cut to 16 bits, sign and all.
RateCut(rate) ==
  /\ stage = "scheduler"
  /\ ANode
  /\ refresh_rate' = IF rate > 65535 THEN rate - 65536 ELSE rate
  /\ open' = {}
  /\ UNCHANGED <<stage, enable, execsnoop, assigned, excepted, features, read>>

\* A rate that does not fit u16 is ignored.
RefreshRate(rate) ==
  /\ stage = "scheduler"
  /\ ANode
  /\ refresh_rate' = IF rate \in U16 THEN rate ELSE refresh_rate
  /\ open' = {}
  /\ UNCHANGED <<stage, enable, execsnoop, assigned, excepted, features, read>>

-----------------------------------------------------------------------------
(* Nodes of `assignments` and `exceptions` *)

\* A node of `assignments` or `exceptions`.
Reading == stage \in {"scheduler", "distribution", "system"}

Record(kind, about, properties) ==
  read' = Append(read, [kind |-> kind, about |-> about,
                         properties |-> properties, stage |-> stage])

\* Seeded fault: each definition replaces the one before it.
ParseProfileAnew(name, properties) ==
  /\ Reading
  /\ ANode
  /\ LET known   == Get(profiles, name)
         profile == parse(IF known = {} THEN NewProfile ELSE The(known), properties)
     IN /\ open' = {[name |-> name, profile |-> profile]}
        /\ profiles' = Put(profiles, name, profile)
  /\ Record("profile", name, properties)
  /\ UNCHANGED <<stage, switches, profile_by_name, conditions, excepted, features>>

\* The first definition is kept; a later one adds to it for its own rules only.
ParseProfile(name, properties) ==
  /\ Reading
  /\ ANode
  /\ LET known   == Get(profiles, name)
         profile == parse(IF known = {} THEN NewProfile ELSE The(known), properties)
     IN /\ open' = {[name |-> name, profile |-> profile]}
        /\ profiles' = IF known = {} THEN Put(profiles, name, profile) ELSE profiles
  /\ Record("profile", name, properties)
  /\ UNCHANGED <<stage, switches, profile_by_name, conditions, excepted, features>>

AssignByName(process, properties) ==
  /\ open # {}
  /\ ANode
  /\ profile_by_name' =
       Put(profile_by_name, process, parse(The(open).profile, properties))
  /\ Record("name", process, properties)
  /\ UNCHANGED <<stage, open, switches, profiles, conditions, excepted, features>>

HasCondition(condition) == \E c \in Criterion : condition[c] # {}

\* All rules of a profile share the values of the first.
AddRule(name, rule, profile) ==
  LET rules == Get(conditions, name) IN
  Put(conditions, name,
      IF rules = {} THEN [profile |-> profile, rules |-> {rule}]
      ELSE [The(rules) EXCEPT !.rules = @ \cup {rule}])

\* Seeded fault: a rule's own properties are read but not assigned.
AssignByConditionBare(condition, include, properties) ==
  /\ open # {}
  /\ ANode
  /\ IF HasCondition(condition)
     THEN /\ conditions' = AddRule(The(open).name, <<condition, include>>, The(open).profile)
          /\ Record("condition", The(open).name, properties)
     ELSE UNCHANGED <<conditions, read>>
  /\ UNCHANGED <<stage, open, switches, profiles, profile_by_name, excepted, features>>

\* include and exclude; a rule without a criterion is ignored.
AssignByCondition(condition, include, properties) ==
  /\ open # {}
  /\ ANode
  /\ IF HasCondition(condition)
     THEN /\ conditions' = AddRule(The(open).name, <<condition, include>>,
                                   parse(The(open).profile, properties))
          /\ Record("condition", The(open).name, properties)
     ELSE UNCHANGED <<conditions, read>>
  /\ UNCHANGED <<stage, open, switches, profiles, profile_by_name, excepted, features>>

ExceptByName(process) ==
  /\ Reading
  /\ ANode
  /\ exceptions' = exceptions \cup {process}
  /\ open' = {}
  /\ UNCHANGED <<stage, switches, assigned, exceptions_conditions, features, read>>

\* The criteria of an exception do not include the name.
ExceptByCondition(condition) ==
  /\ Reading
  /\ ANode
  /\ exceptions_conditions' = exceptions_conditions \cup {[condition EXCEPT !["name"] = {}]}
  /\ open' = {}
  /\ UNCHANGED <<stage, switches, assigned, exceptions, features, read>>

-----------------------------------------------------------------------------
(* The other files, and the end *)

\* Seeded fault: the two directories the other way round.
FollowingSwapped(s) ==
  IF s = "system" THEN "distribution" ELSE IF s = "distribution" THEN "done" ELSE "system"

Following(s) ==
  IF s = "distribution" THEN "system" ELSE IF s = "system" THEN "done" ELSE "distribution"

\* On to the files of the next directory.
NextFiles ==
  /\ stage # "done" /\ Following(stage) # "done"
  /\ stage' = Following(stage)
  /\ open' = {}
  /\ UNCHANGED <<switches, assigned, excepted, features, read, nodes>>

\* read_config: the profiles that stand for a feature are taken out.
Finish ==
  /\ stage # "done" /\ Following(stage) = "done"
  /\ stage' = "done"
  /\ open' = {}
  /\ foreground' = {[background |-> b, foreground |-> f] :
                      b \in Get(profiles, "background"), f \in Get(profiles, "foreground")}
  /\ pipewire' = Get(profiles, "pipewire")
  /\ profiles' = Drop(profiles, Reserved)
  /\ UNCHANGED <<switches, profile_by_name, conditions, excepted, read, nodes>>

Next ==
  \/ OpenMain \/ NextFiles \/ Finish
  \/ \E on \in BOOLEAN : Scheduler(on) \/ Execsnoop(on)
  \/ \E rate \in Rates : RefreshRate(rate)
  \/ \E name \in ProfileNames, ps \in PropertySets : ParseProfile(name, ps)
  \/ \E process \in Processes, ps \in PropertySets : AssignByName(process, ps)
  \/ \E c \in Conditions, include \in BOOLEAN, ps \in PropertySets :
       AssignByCondition(c, include, ps)
  \/ \E process \in Processes : ExceptByName(process)
  \/ \E c \in Conditions : ExceptByCondition(c)

Spec == Init /\ [][Next]_vars
=============================================================================
