----------------------- MODULE ConfigurationProperties -----------------------
(***************************************************************************)
(* What the configuration that was read has to do with what the files say. *)
(***************************************************************************)
EXTENDS Configuration, FiniteSetsExt

\* No profile in the configuration asks the kernel for what it refuses, so that
\* none of the calls of priority::set, whose results are ignored, fails for its
\* arguments, whatever numbers and words the files hold.
KernelAccepts ==
  /\ \A o \in open : KernelTakes(o.profile)
  /\ \A n \in DOMAIN profiles : KernelTakes(profiles[n])
  /\ \A p \in DOMAIN profile_by_name : KernelTakes(profile_by_name[p])
  /\ \A n \in DOMAIN conditions : KernelTakes(conditions[n].profile)
  /\ \A f \in foreground : KernelTakes(f.foreground) /\ KernelTakes(f.background)
  /\ \A p \in pipewire : KernelTakes(p)

-----------------------------------------------------------------------------
(* The nodes read, by their place in the history *)

Nodes(kind, about) ==
  {i \in DOMAIN read : read[i].kind = kind /\ read[i].about = about}

Definitions(name) == Nodes("profile", name)

\* The values the first definition of a profile gives it.
Defined(name) == parse(NewProfile, read[Min(Definitions(name))].properties)

\* The definition a rule belongs to, and the values it has for its rules: those
\* of the first definition and its own.
Around(rule) == Max({i \in 1..rule : read[i].kind = "profile"})

Values(i) ==
  IF i = Min(Definitions(read[i].about)) THEN Defined(read[i].about)
  ELSE parse(Defined(read[i].about), read[i].properties)

RuleValues(rule) == parse(Values(Around(rule)), read[rule].properties)

\* The README has a definition inherit from the one before it, the code from the
\* first (ConfigurationDocumented): of the first two they say the same.
FirstOrSecond(i) ==
  \A j \in Definitions(read[i].about) : j < i => j = Min(Definitions(read[i].about))

\* The later a place is read the more it counts.
Precedence == [scheduler |-> 1, distribution |-> 2, system |-> 3]

Deciding(rules) ==
  LET top == Max({Precedence[read[i].stage] : i \in rules})
  IN Max({i \in rules : Precedence[read[i].stage] = top})

\* A process named by several rules gets the values of the last one, those in
\* /etc before those of the distribution and those before config.kdl, on top of
\* the values of its profile there (Assignments::parse).  Rules below a third
\* definition of their profile are left out.
NameRuleDecides ==
  \A process \in Processes :
    LET rules == Nodes("name", process) IN
    IF rules = {} THEN Get(profile_by_name, process) = {}
    ELSE FirstOrSecond(Around(Deciding(rules))) =>
           Get(profile_by_name, process) = {RuleValues(Deciding(rules))}

\* The conditions of a profile assign the values that its conditional rules give
\* it, in whatever files and under whichever definitions they are, as long as the
\* rules do not disagree (assign_by_condition keeps one set of values for all).
ConditionsAssign ==
  \A name \in ProfileNames :
    LET rules == Nodes("condition", name) IN
    \A value \in {RuleValues(i) : i \in rules} :
      (\A i \in rules : FirstOrSecond(Around(i)) /\ RuleValues(i) = value)
      => {r.profile : r \in Get(conditions, name)} = {value}

\* Foreground management is on exactly if both its profiles are defined where
\* the reader looks, in whatever places, and pipewire monitoring if its profile is
\* (README.md:41).  Their values are those of the first definitions, which the
\* code alone says (Assignments::parse, which inserts a profile once).
FeaturesAsDefined ==
  stage = "done" =>
    LET Value(name) == IF Definitions(name) = {} THEN {} ELSE {Defined(name)} IN
    /\ foreground = {[background |-> b, foreground |-> f] :
                       b \in Value("background"), f \in Value("foreground")}
    /\ pipewire = Value("pipewire")
=============================================================================
