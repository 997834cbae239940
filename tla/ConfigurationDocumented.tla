----------------------- MODULE ConfigurationDocumented -----------------------
(***************************************************************************)
(* What the README says of the configuration files and the reader does not *)
(* do.  Each is refuted by a run.                                          *)
(***************************************************************************)
EXTENDS ConfigurationProperties

\* The values of a definition that inherits those of the one before it.
Inherited(definition) ==
  LET all == Definitions(read[definition].about)
      values[i \in all] ==
        LET before == {j \in all : j < i}
        IN parse(IF before = {} THEN NewProfile ELSE values[Max(before)], read[i].properties)
  IN values[definition]

\* README.md:50, 60: a definition inherits the values of the previous one of its
\* name, plus its own; said of the processes that one rule names.  The reader
\* keeps the first definition only (scheduler.rs:79), so that a third one does not
\* have the values the second one added.
ProfilesInherit ==
  \A process \in Processes :
    \A rule \in Nodes("name", process) : Nodes("name", process) = {rule} =>
      Get(profile_by_name, process) =
        {parse(Inherited(Around(rule)), read[rule].properties)}

\* README.md:90: a rule by condition has properties of its own, which what it
\* includes is given; said where the others of its profile include what other
\* conditions hold of.  The reader keeps the properties of the first rule of a
\* profile (assignments.rs:136) and drops those of the others.
IncludeOnly(rules, condition) == \A r \in rules : r[1] # condition /\ r[2]

ConditionsHaveProperties ==
  [][\A c \in Conditions, ps \in PropertySets :
       /\ AssignByCondition(c, TRUE, ps) /\ HasCondition(c)
       /\ \A known \in Get(conditions, The(open).name) : IncludeOnly(known.rules, c)
       => conditions'[The(open).name].profile = parse(The(open).profile, ps)]_vars
=============================================================================
