------------------------- MODULE ConfigurationProofs -------------------------
(***************************************************************************)
(* Whatever the files hold, every profile of the configuration is one that *)
(* the kernel accepts, and the configuration says what the nodes said, in  *)
(* the order in which they count.                                          *)
(***************************************************************************)
EXTENDS ConfigurationProperties, SequenceLemmas

\* A profile within all bounds.  Its priority has one even while the policy does
\* not use it: `sched="rr"` turns a profile into a realtime one as it is.
Sound(profile) ==
  /\ profile \in Profile
  /\ profile.nice \subseteq -20..19
  /\ profile.sched_priority \in 1..99
  /\ profile.io.level \in 0..7

\* The inductive invariant: every profile the reader holds is sound.
AllSound ==
  /\ \A o \in open : Sound(o.profile)
  /\ \A n \in DOMAIN profiles : Sound(profiles[n])
  /\ \A p \in DOMAIN profile_by_name : Sound(profile_by_name[p])
  /\ \A n \in DOMAIN conditions : Sound(conditions[n].profile)
  /\ \A f \in foreground : Sound(f.foreground) /\ Sound(f.background)
  /\ \A p \in pipewire : Sound(p)

-----------------------------------------------------------------------------
(* Profile values *)

LEMMA TheMember ==
  ASSUME NEW S, S # {}
  PROVE  The(S) \in S
BY DEF The

LEMMA NewProfileSound == Sound(NewProfile)
BY DEF Sound, NewProfile, Profile, IoClass, SchedPolicy

LEMMA ParseIoSound ==
  ASSUME NEW profile, Sound(profile), NEW entry \in Entry
  PROVE  Sound(parse_io(profile, entry))
<1> DEFINE class == (IF entry.ty # {} THEN entry.ty ELSE entry.word) \cap IoClass
           level == as_u8(entry) \cap 0..7
<1>1. CASE class = {}
  BY <1>1 DEF parse_io
<1>2. CASE class # {}
  <2>1. The(class) \in IoClass
    BY <1>2, TheMember
  <2>2. IoLevel(entry) \in 0..7
    BY TheMember DEF IoLevel
  <2>3. parse_io(profile, entry) =
          [profile EXCEPT !.io = [class |-> The(class),
                                  level |-> IF "idle" \in class THEN 7 ELSE IoLevel(entry)]]
    BY <1>2 DEF parse_io
  <2> HIDE DEF class
  <2> QED BY <2>1, <2>2, <2>3 DEF Sound, Profile
<1> QED BY <1>1, <1>2

LEMMA ParseNiceSound ==
  ASSUME NEW profile, Sound(profile), NEW entry \in Entry
  PROVE  Sound(parse_nice(profile, entry))
<1>1. CASE as_i8(entry) = {}
  BY <1>1 DEF parse_nice
<1>2. CASE as_i8(entry) # {}
  <2>1. The(as_i8(entry)) \in Int
    BY <1>2, TheMember DEF as_i8, Entry
  <2>2. Niceness(The(as_i8(entry))) \in -20..19
    BY <2>1 DEF Niceness, Clamp
  <2>3. parse_nice(profile, entry) =
          [profile EXCEPT !.nice = {Niceness(The(as_i8(entry)))}]
    BY <1>2 DEF parse_nice
  <2> QED BY <2>2, <2>3 DEF Sound, Profile
<1> QED BY <1>1, <1>2

LEMMA ParseSchedSound ==
  ASSUME NEW profile, Sound(profile), NEW entry \in Entry
  PROVE  Sound(parse_sched(profile, entry))
<1> DEFINE typed == entry.ty \cap SchedPolicy
           word  == entry.word \cap SchedPolicy
<1>1. CASE entry.ty # {} /\ typed # {} /\ as_u8(entry) # {}
  <2>1. The(typed) \in SchedPolicy
    BY <1>1, TheMember
  <2>2. The(as_u8(entry)) \in Int
    BY <1>1, TheMember DEF as_u8, Entry
  <2>3. SchedPriority(The(as_u8(entry))) \in 1..99
    BY <2>2 DEF SchedPriority, Clamp
  <2>4. parse_sched(profile, entry) =
          [profile EXCEPT !.sched_policy = The(typed),
                          !.sched_priority = SchedPriority(The(as_u8(entry)))]
    BY <1>1 DEF parse_sched
  <2> DEFINE policy   == The(typed)
             priority == SchedPriority(The(as_u8(entry)))
  <2>5. /\ policy \in SchedPolicy /\ priority \in 1..99
        /\ parse_sched(profile, entry) =
             [profile EXCEPT !.sched_policy = policy, !.sched_priority = priority]
    BY <2>1, <2>3, <2>4
  <2> HIDE DEF policy, priority
  <2>6. profile \in Profile
    BY DEF Sound
  <2>7. parse_sched(profile, entry) =
          [nice |-> profile.nice, io |-> profile.io,
           sched_policy |-> policy, sched_priority |-> priority]
    BY <2>5, <2>6 DEF Profile
  <2> QED BY <2>5, <2>6, <2>7 DEF Sound, Profile
<1>2. CASE entry.ty = {} /\ word # {}
  <2>1. The(word) \in SchedPolicy
    BY <1>2, TheMember
  <2>2. parse_sched(profile, entry) = [profile EXCEPT !.sched_policy = The(word)]
    BY <1>2 DEF parse_sched
  <2> HIDE DEF word
  <2> QED BY <2>1, <2>2 DEF Sound, Profile
<1>3. CASE \/ entry.ty # {} /\ (typed = {} \/ as_u8(entry) = {})
           \/ entry.ty = {} /\ word = {}
  BY <1>3 DEF parse_sched
<1> QED BY <1>1, <1>2, <1>3

\* Parsing a node never leads out of the bounds.
LEMMA ParseSound ==
  ASSUME NEW profile, Sound(profile), NEW properties \in Properties
  PROVE  Sound(parse(profile, properties))
<1> DEFINE io   == IF properties.io = {} THEN profile ELSE parse_io(profile, The(properties.io))
           nice == IF properties.nice = {} THEN io ELSE parse_nice(io, The(properties.nice))
<1>1. /\ properties.io # {} => The(properties.io) \in Entry
      /\ properties.nice # {} => The(properties.nice) \in Entry
      /\ properties.sched # {} => The(properties.sched) \in Entry
  BY TheMember DEF Properties
<1>2. Sound(io)
  BY <1>1, ParseIoSound
<1>3. Sound(nice)
  <2> HIDE DEF io
  <2> QED BY <1>1, <1>2, ParseNiceSound
<1>4. parse(profile, properties) =
        IF properties.sched = {} THEN nice ELSE parse_sched(nice, The(properties.sched))
  BY DEF parse
<1> HIDE DEF io, nice
<1> QED BY <1>1, <1>3, <1>4, ParseSchedSound

-----------------------------------------------------------------------------
(* The reader *)

LEMMA GetMember ==
  ASSUME NEW f, NEW x, Get(f, x) # {}
  PROVE  x \in DOMAIN f /\ The(Get(f, x)) = f[x]
<1>1. x \in DOMAIN f /\ Get(f, x) = {f[x]}
  BY DEF Get
<1> QED BY <1>1, TheMember

LEMMA InitSound == Init => AllSound
BY DEF Init, AllSound, Nothing

LEMMA ParseProfileSound ==
  ASSUME AllSound, NEW name \in ProfileNames, NEW ps \in PropertySets, ParseProfile(name, ps)
  PROVE  AllSound'
<1> DEFINE known   == Get(profiles, name)
           profile == parse(IF known = {} THEN NewProfile ELSE The(known), ps)
<1>1. Sound(IF known = {} THEN NewProfile ELSE The(known))
  BY GetMember, NewProfileSound DEF AllSound
<1>2. Sound(profile)
  <2> HIDE DEF known
  <2> QED BY <1>1, ParseSound, ConfigurationAssumption
<1>3. /\ open' = {[name |-> name, profile |-> profile]}
      /\ profiles' = IF known = {} THEN Put(profiles, name, profile) ELSE profiles
      /\ UNCHANGED <<profile_by_name, conditions, foreground, pipewire>>
  BY DEF ParseProfile, features
<1> HIDE DEF profile, known
<1>4. \A n \in DOMAIN profiles' : Sound(profiles'[n])
  BY <1>2, <1>3 DEF AllSound, Put
<1>5. \A o \in open' : Sound(o.profile)
  BY <1>2, <1>3
<1> QED BY <1>3, <1>4, <1>5 DEF AllSound

LEMMA AssignByNameSound ==
  ASSUME AllSound, NEW process \in Processes, NEW ps \in PropertySets,
         AssignByName(process, ps)
  PROVE  AllSound'
<1> DEFINE profile == parse(The(open).profile, ps)
<1>1. Sound(profile)
  <2>1. Sound(The(open).profile)
    BY TheMember DEF AllSound, AssignByName
  <2> QED BY <2>1, ParseSound, ConfigurationAssumption
<1>2. /\ profile_by_name' = Put(profile_by_name, process, profile)
      /\ UNCHANGED <<open, profiles, conditions, foreground, pipewire>>
  BY DEF AssignByName, features
<1> HIDE DEF profile
<1>3. \A p \in DOMAIN profile_by_name' : Sound(profile_by_name'[p])
  BY <1>1, <1>2 DEF AllSound, Put
<1> QED BY <1>2, <1>3 DEF AllSound

LEMMA AssignByConditionSound ==
  ASSUME AllSound, NEW c \in Conditions, NEW include \in BOOLEAN, NEW ps \in PropertySets,
         AssignByCondition(c, include, ps)
  PROVE  AllSound'
<1> DEFINE name    == The(open).name
           profile == parse(The(open).profile, ps)
           rules   == Get(conditions, name)
<1>1. Sound(profile)
  <2>1. Sound(The(open).profile)
    BY TheMember DEF AllSound, AssignByCondition
  <2> QED BY <2>1, ParseSound, ConfigurationAssumption
<1>2. UNCHANGED <<open, profiles, profile_by_name, foreground, pipewire>>
  BY DEF AssignByCondition, assigned, features
<1>3. conditions' = conditions \/ conditions' = AddRule(name, <<c, include>>, profile)
  BY DEF AssignByCondition
<1> HIDE DEF profile
<1>4. \A n \in DOMAIN conditions' : Sound(conditions'[n].profile)
  <2>1. CASE conditions' = conditions
    BY <2>1 DEF AllSound
  <2>2. CASE conditions' = AddRule(name, <<c, include>>, profile)
    <3> DEFINE value == IF rules = {} THEN [profile |-> profile, rules |-> {<<c, include>>}]
                        ELSE [The(rules) EXCEPT !.rules = @ \cup {<<c, include>>}]
    <3>1. conditions' = Put(conditions, name, value)
      BY <2>2 DEF AddRule
    <3>2. Sound(value.profile)
      <4>1. CASE rules = {}
        BY <4>1, <1>1
      <4>2. CASE rules # {}
        <5>1. name \in DOMAIN conditions /\ The(rules) = conditions[name]
          BY <4>2, GetMember
        <5>2. Sound(The(rules).profile)
          BY <5>1 DEF AllSound
        <5>3. value.profile = The(rules).profile
          BY <4>2
        <5> QED BY <5>2, <5>3
      <4> QED BY <4>1, <4>2
    <3> HIDE DEF value, name
    <3> QED BY <3>1, <3>2 DEF AllSound, Put
  <2> QED BY <1>3, <2>1, <2>2
<1> QED BY <1>2, <1>4 DEF AllSound

LEMMA FinishSound ==
  ASSUME AllSound, Finish
  PROVE  AllSound'
<1>1. /\ open' = {}
      /\ UNCHANGED <<profile_by_name, conditions>>
  BY DEF Finish
<1>2. \A n \in DOMAIN profiles' : Sound(profiles'[n])
  BY DEF Finish, AllSound, Drop
<1>3. \A n \in Reserved : \A p \in Get(profiles, n) : Sound(p)
  BY DEF AllSound, Get
<1>4. \A f \in foreground' : Sound(f.foreground) /\ Sound(f.background)
  BY <1>3 DEF Finish, Reserved
<1>5. \A p \in pipewire' : Sound(p)
  BY <1>3 DEF Finish, Reserved
<1> QED BY <1>1, <1>2, <1>4, <1>5 DEF AllSound

\* The other steps close the profile being read, if they touch one at all.
LEMMA OthersSound ==
  ASSUME AllSound, open' \in {open, {}}, UNCHANGED <<assigned, features>>
  PROVE  AllSound'
BY DEF AllSound, assigned, features

LEMMA NextSound == AllSound /\ [Next]_vars => AllSound'
<1> SUFFICES ASSUME AllSound, [Next]_vars PROVE AllSound'
  OBVIOUS
<1>1. CASE UNCHANGED vars
  BY <1>1, OthersSound DEF vars
<1>2. CASE OpenMain \/ NextFiles
  BY <1>2, OthersSound DEF OpenMain, NextFiles
<1>3. CASE Finish
  BY <1>3, FinishSound
<1>4. CASE \E on \in BOOLEAN : Scheduler(on) \/ Execsnoop(on)
  BY <1>4, OthersSound DEF Scheduler, Execsnoop
<1>5. CASE \E rate \in Rates : RefreshRate(rate)
  <2>1. PICK rate \in Rates : RefreshRate(rate)
    BY <1>5
  <2>2. open' = {} /\ UNCHANGED <<assigned, features>>
    BY <2>1 DEF RefreshRate
  <2> QED BY <2>2, OthersSound
<1>6. CASE \E name \in ProfileNames, ps \in PropertySets : ParseProfile(name, ps)
  BY <1>6, ParseProfileSound
<1>7. CASE \E process \in Processes, ps \in PropertySets : AssignByName(process, ps)
  BY <1>7, AssignByNameSound
<1>8. CASE \E c \in Conditions, include \in BOOLEAN, ps \in PropertySets :
             AssignByCondition(c, include, ps)
  BY <1>8, AssignByConditionSound
<1>9. CASE \E process \in Processes : ExceptByName(process)
  BY <1>9, OthersSound DEF ExceptByName
<1>10. CASE \E c \in Conditions : ExceptByCondition(c)
  BY <1>10, OthersSound DEF ExceptByCondition
<1> QED
  BY <1>1, <1>2, <1>3, <1>4, <1>5, <1>6, <1>7, <1>8, <1>9, <1>10 DEF Next

LEMMA SoundIsAccepted ==
  ASSUME NEW profile, Sound(profile)
  PROVE  KernelTakes(profile)
BY DEF Sound, KernelTakes, SchedParam

\* Whatever nodes the files hold, in whatever order, no profile of the
\* configuration makes a call of priority::set fail for its arguments.
THEOREM KernelAlwaysAccepts == Spec => []KernelAccepts
<1>1. AllSound => KernelAccepts
  BY SoundIsAccepted DEF AllSound, KernelAccepts
<1> QED BY <1>1, InitSound, NextSound, PTL DEF Spec

-----------------------------------------------------------------------------
(* The history of the nodes read *)

\* How far the reader has come in the order of precedence.
Rank(s) == IF s = "distribution" THEN 2 ELSE IF s \in {"system", "done"} THEN 3 ELSE 1

\* Nodes are read in the order in which they count, and rules within a profile.
InOrder ==
  /\ \A i, j \in DOMAIN read :
       i <= j => Precedence[read[i].stage] <= Precedence[read[j].stage]
  /\ \A i \in DOMAIN read : Precedence[read[i].stage] <= Rank(stage)
  /\ \A i \in DOMAIN read : \E d \in 1..i : read[d].kind = "profile"

\* Node d is the last definition read, that of profile o.
LastDefined(o, d) ==
  /\ read[d].kind = "profile" /\ read[d].about = o.name
  /\ Values(d) = o.profile
  /\ \A j \in DOMAIN read : read[j].kind = "profile" => j <= d

\* The profile that is open for rules is the last one read.
OpenIsLast ==
  /\ open # {} => Reading
  /\ \A o \in open : \E d \in DOMAIN read : LastDefined(o, d)
  /\ \A o, p \in open : o = p

\* What the first definition of a profile says of it.
FirstSaid(name) == IF Definitions(name) = {} THEN {} ELSE {Defined(name)}

\* The reader holds each profile as it was defined first.
FirstKept ==
  IF stage # "done" THEN \A name \in ProfileNames : Get(profiles, name) = FirstSaid(name)
  ELSE /\ foreground = {[background |-> b, foreground |-> f] :
                          b \in FirstSaid("background"), f \in FirstSaid("foreground")}
       /\ pipewire = FirstSaid("pipewire")

\* A process has the values of the last rule by name.
LastDecides ==
  \A process \in Processes :
    LET rules == Nodes("name", process) IN
    Get(profile_by_name, process) = IF rules = {} THEN {} ELSE {RuleValues(Max(rules))}

\* The conditions of a profile assign the values of its first conditional rule.
FirstAssigns ==
  \A name \in ProfileNames :
    LET rules == Nodes("condition", name) IN
    {r.profile : r \in Get(conditions, name)} =
      IF rules = {} THEN {} ELSE {RuleValues(Min(rules))}

-----------------------------------------------------------------------------
(* The first and the last of a set of places *)

LEMMA LeastPlace ==
  ASSUME NEW S \in SUBSET Nat, S # {}
  PROVE  Min(S) \in S /\ \A x \in S : Min(S) <= x
BY LeastNatural DEF Min

LEMMA MinIs ==
  ASSUME NEW S \in SUBSET Nat, NEW m \in S, \A x \in S : m <= x
  PROVE  Min(S) = m
<1>1. Min(S) \in S /\ Min(S) <= m
  BY LeastPlace
<1>2. m <= Min(S) /\ m \in Nat /\ Min(S) \in Nat
  BY <1>1
<1> QED BY <1>1, <1>2

LEMMA MaxIs ==
  ASSUME NEW S \in SUBSET Nat, NEW m \in S, \A x \in S : x <= m
  PROVE  Max(S) = m
<1>1. Max(S) \in S /\ Max(S) >= m
  BY DEF Max
<1>2. Max(S) <= m /\ m \in Nat /\ Max(S) \in Nat
  BY <1>1
<1> QED BY <1>1, <1>2

LEMMA GreatestPlace ==
  ASSUME NEW n \in Nat, NEW S \in SUBSET (1..n), S # {}
  PROVE  Max(S) \in S /\ \A x \in S : x <= Max(S)
<1> DEFINE T == {n - x : x \in S}
<1>1. T \in SUBSET Nat /\ T # {}
  <2>1. \A x \in S : n - x \in Nat
    OBVIOUS
  <2> QED BY <2>1
<1>2. PICK t \in T : \A y \in T : t <= y
  <2> HIDE DEF T
  <2> QED BY <1>1, LeastNatural
<1>3. PICK m \in S : t = n - m
  BY <1>2
<1>4. \A x \in S : x <= m
  <2> SUFFICES ASSUME NEW x \in S
               PROVE  x <= m
    OBVIOUS
  <2>1. t <= n - x
    BY <1>2
  <2> QED BY <1>3, <2>1
<1>5. Max(S) = m
  BY <1>4, MaxIs
<1> QED BY <1>4, <1>5

-----------------------------------------------------------------------------
(* One node more in the history *)

\* Node e has been read after n others.
Extended(n, e) ==
  /\ n \in Nat
  /\ DOMAIN read = 1..n /\ DOMAIN read' = 1..(n + 1)
  /\ \A i \in 1..n : read'[i] = read[i]
  /\ read'[n + 1] = e

LEMMA RecordExtends ==
  ASSUME TypeOK, Reading, NEW kind \in {"profile", "name", "condition"},
         NEW about \in ProfileNames \cup Processes, NEW ps \in PropertySets,
         Record(kind, about, ps)
  PROVE  /\ read' \in Seq(Node)
         /\ \E n \in Nat : Extended(n, [kind |-> kind, about |-> about,
                                        properties |-> ps, stage |-> stage])
<1> DEFINE e == [kind |-> kind, about |-> about, properties |-> ps, stage |-> stage]
<1>1. e \in Node /\ read \in Seq(Node) /\ read' = Append(read, e)
  BY DEF Node, Reading, TypeOK, Record
<1> HIDE DEF e
<1>2. PICK n \in Nat : n = Len(read)
  BY <1>1
<1>3. read' \in Seq(Node) /\ Len(read') = n + 1
      /\ (\A i \in 1..n : read'[i] = read[i]) /\ read'[n + 1] = e
  BY <1>1, <1>2, AppendOf
<1>4. DOMAIN read = 1..n /\ DOMAIN read' = 1..(n + 1)
  BY <1>1, <1>2, <1>3
<1>5. Extended(n, e)
  BY <1>3, <1>4 DEF Extended
<1> QED BY <1>3, <1>5 DEF e

LEMMA NodesExtended ==
  ASSUME NEW n, NEW e, Extended(n, e)
  PROVE  \A kind, about : Nodes(kind, about)' =
           Nodes(kind, about) \cup (IF e.kind = kind /\ e.about = about THEN {n + 1} ELSE {})
BY DEF Extended, Nodes

LEMMA NodesPlaced ==
  ASSUME NEW n, NEW e, Extended(n, e)
  PROVE  \A kind, about : Nodes(kind, about) \subseteq 1..n
BY DEF Extended, Nodes

LEMMA NodesSame ==
  ASSUME NEW n, NEW e, Extended(n, e), NEW kind, NEW about,
         e.kind # kind \/ e.about # about
  PROVE  Nodes(kind, about)' = Nodes(kind, about)
<1>1. \A k, a : Nodes(k, a)' =
        Nodes(k, a) \cup (IF e.kind = k /\ e.about = a THEN {n + 1} ELSE {})
  BY NodesExtended
<1>2. (IF e.kind = kind /\ e.about = about THEN {n + 1} ELSE {}) = {}
  OBVIOUS
<1>3. Nodes(kind, about)' = Nodes(kind, about) \cup {}
  BY <1>1, <1>2
<1> QED BY <1>3

\* The first definition of a profile stays the first.
LEMMA DefinedExtended ==
  ASSUME NEW n, NEW e, Extended(n, e), NEW name, Definitions(name) # {}
  PROVE  /\ Definitions(name)' # {}
         /\ Min(Definitions(name)') = Min(Definitions(name))
         /\ Defined(name)' = Defined(name)
<1> DEFINE S == Definitions(name)
           T == IF e.kind = "profile" /\ e.about = name THEN {n + 1} ELSE {}
<1>1. Definitions(name)' = S \cup T
  BY NodesExtended DEF Definitions
<1>2. n \in Nat /\ S \subseteq 1..n /\ T \subseteq {n + 1}
  BY NodesPlaced DEF Definitions, Extended
<1>3. PICK m \in S : m = Min(S)
  <2>1. S \in SUBSET Nat /\ S # {}
    BY <1>2
  <2> HIDE DEF S
  <2> QED BY <2>1, LeastPlace
<1>4. \A x \in S : m <= x
  <2>1. S \in SUBSET Nat /\ S # {}
    BY <1>2
  <2> HIDE DEF S
  <2> QED BY <1>3, <2>1, LeastPlace
<1> HIDE DEF S, T
<1>5. Min(S \cup T) = m
  <2>1. S \cup T \in SUBSET Nat /\ m \in S \cup T /\ \A x \in S \cup T : m <= x
    BY <1>2, <1>4
  <2> QED BY <2>1, MinIs
<1>6. read'[m] = read[m]
  BY <1>2 DEF Extended
<1>7. Min(Definitions(name)') = m
  BY <1>1, <1>5
<1>8. Defined(name)' = parse(NewProfile, read'[m].properties)
  BY <1>7 DEF Defined
<1>9. Defined(name) = parse(NewProfile, read[m].properties)
  BY <1>3 DEF Defined, S
<1> QED BY <1>1, <1>3, <1>6, <1>7, <1>8, <1>9 DEF S

LEMMA FirstDefinition ==
  ASSUME NEW n, NEW e, Extended(n, e), NEW name, Definitions(name) = {},
         e.kind = "profile", e.about = name
  PROVE  /\ Definitions(name)' = {n + 1}
         /\ Min(Definitions(name)') = n + 1
         /\ Defined(name)' = parse(NewProfile, e.properties)
<1>0. n + 1 \in Nat
  BY DEF Extended
<1>1. Definitions(name)' = {n + 1}
  <2>1. Nodes("profile", name)' = Nodes("profile", name) \cup {n + 1}
    BY NodesExtended
  <2> QED BY <2>1 DEF Definitions
<1>2. Min({n + 1}) = n + 1
  BY <1>0, MinIs
<1>3. Defined(name)' = parse(NewProfile, read'[n + 1].properties)
  BY <1>1, <1>2 DEF Defined
<1> QED BY <1>1, <1>2, <1>3 DEF Extended

\* What a definition or a rule that was read before said is not changed.
LEMMA ValuesExtended ==
  ASSUME NEW n, NEW e, Extended(n, e), NEW i \in 1..n, read[i].kind = "profile"
  PROVE  Values(i)' = Values(i)
<1>0. PICK name : name = read[i].about
  OBVIOUS
<1>1. read'[i] = read[i]
  BY DEF Extended
<1>2. Definitions(name) # {}
  BY <1>0 DEF Definitions, Nodes, Extended
<1>3. Min(Definitions(name)') = Min(Definitions(name)) /\ Defined(name)' = Defined(name)
  BY <1>2, DefinedExtended
<1> QED BY <1>0, <1>1, <1>3 DEF Values

LEMMA RuleValuesExtended ==
  ASSUME NEW n, NEW e, Extended(n, e), InOrder, NEW i \in 1..n
  PROVE  RuleValues(i)' = RuleValues(i)
<1> DEFINE S == {j \in 1..i : read[j].kind = "profile"}
<1>1. i \in Nat /\ n \in Nat /\ DOMAIN read = 1..n /\ \A j \in 1..i : read'[j] = read[j]
  BY DEF Extended
<1>2. Around(i)' = Around(i)
  BY <1>1 DEF Around
<1>3. S # {} /\ S \in SUBSET (1..i)
  BY <1>1 DEF InOrder
<1>4. Max(S) \in S
  <2> HIDE DEF S
  <2> QED BY <1>1, <1>3, GreatestPlace
<1>5. PICK d \in 1..n : d = Around(i) /\ read[d].kind = "profile"
  <2>1. Max(S) \in 1..n /\ read[Max(S)].kind = "profile"
    BY <1>1, <1>4
  <2>2. Around(i) = Max(S)
    BY DEF Around
  <2> HIDE DEF S
  <2> QED BY <2>1, <2>2
<1>6. Values(d)' = Values(d)
  BY <1>5, ValuesExtended
<1> QED BY <1>1, <1>2, <1>5, <1>6 DEF RuleValues

\* A rule that is read now has the values of the open profile underneath.
LEMMA NewRule ==
  ASSUME NEW n, NEW e, Extended(n, e), e.kind # "profile", OpenIsLast, NEW o \in open
  PROVE  RuleValues(n + 1)' = parse(o.profile, e.properties)
<1>1. PICK d \in 1..n : LastDefined(o, d)
  BY DEF OpenIsLast, Extended
<1>2. n \in Nat /\ \A j \in 1..n : read'[j] = read[j]
  BY DEF Extended
<1> DEFINE S == {j \in 1..(n + 1) : read'[j].kind = "profile"}
<1>3. S \in SUBSET Nat /\ d \in S /\ \A j \in S : j <= d
  BY <1>1, <1>2 DEF LastDefined, Extended
<1>4. Max(S) = d
  <2> HIDE DEF S
  <2> QED BY <1>3, MaxIs
<1>5. Around(n + 1)' = d
  <2> SUFFICES ASSUME NEW k, k = n + 1
               PROVE  Around(k)' = d
    OBVIOUS
  <2> QED BY <1>4 DEF Around
<1>6. Values(d)' = o.profile
  BY <1>1, ValuesExtended DEF LastDefined
<1>7. read'[n + 1] = e
  BY DEF Extended
<1> QED BY <1>5, <1>6, <1>7 DEF RuleValues

-----------------------------------------------------------------------------
(* What a step leaves true of the history *)

LEMMA OpenOne ==
  ASSUME OpenIsLast, open # {}
  PROVE  The(open) \in open /\ open = {The(open)}
<1>1. The(open) \in open
  BY TheMember
<1> QED BY <1>1 DEF OpenIsLast

LEMMA InOrderExtended ==
  ASSUME NEW n, NEW e, Extended(n, e), InOrder, OpenIsLast, Reading,
         e.stage = stage, stage' = stage, e.kind = "profile" \/ open # {}
  PROVE  InOrder'
<1>1. /\ n \in Nat /\ DOMAIN read = 1..n /\ DOMAIN read' = 1..(n + 1)
      /\ \A i \in 1..n : read'[i] = read[i]
      /\ read'[n + 1] = e
  BY DEF Extended
<1>2. Precedence[stage] = Rank(stage)
  BY DEF Reading, Precedence, Rank
<1>3. ASSUME NEW i \in 1..(n + 1), NEW j \in 1..(n + 1), i <= j
      PROVE  Precedence[read'[i].stage] <= Precedence[read'[j].stage]
  <2>1. CASE j \in 1..n
    <3>1. i \in 1..n
      BY <1>1, <1>3, <2>1
    <3> QED BY <1>1, <1>3, <2>1, <3>1 DEF InOrder
  <2>2. CASE j = n + 1 /\ i \in 1..n
    BY <1>1, <1>2, <2>2 DEF InOrder
  <2>3. CASE j = n + 1 /\ i = n + 1
    BY <1>1, <1>2, <2>3 DEF Rank
  <2> QED BY <1>1, <2>1, <2>2, <2>3
<1>4. ASSUME NEW i \in 1..(n + 1)
      PROVE  Precedence[read'[i].stage] <= Rank(stage)
  <2>1. CASE i \in 1..n
    BY <1>1, <2>1 DEF InOrder
  <2>2. CASE i = n + 1
    BY <1>1, <1>2, <2>2 DEF Rank
  <2> QED BY <1>1, <2>1, <2>2
<1>5. ASSUME NEW i \in 1..(n + 1)
      PROVE  \E d \in 1..i : read'[d].kind = "profile"
  <2>1. CASE i \in 1..n
    BY <1>1, <2>1 DEF InOrder
  <2>2. CASE i = n + 1 /\ e.kind = "profile"
    <3>1. i \in 1..i /\ read'[i].kind = "profile"
      BY <1>1, <2>2
    <3> QED BY <3>1
  <2>3. CASE i = n + 1 /\ open # {}
    <3>1. PICK d \in 1..n : read[d].kind = "profile"
      BY <1>1, <2>3 DEF OpenIsLast, LastDefined
    <3>2. d \in 1..i /\ read'[d].kind = "profile"
      BY <1>1, <2>3, <3>1
    <3> QED BY <3>2
  <2> QED BY <1>1, <2>1, <2>2, <2>3
<1>6. Rank(stage)' = Rank(stage)
  BY DEF Rank
<1> QED BY <1>1, <1>3, <1>4, <1>5, <1>6 DEF InOrder

\* A rule leaves the open profile and all definitions what they are.
LEMMA OpenIsLastExtended ==
  ASSUME NEW n, NEW e, Extended(n, e), OpenIsLast, e.kind # "profile",
         UNCHANGED <<open, stage>>
  PROVE  OpenIsLast'
<1>1. /\ n \in Nat /\ DOMAIN read = 1..n /\ DOMAIN read' = 1..(n + 1)
      /\ \A i \in 1..n : read'[i] = read[i]
      /\ read'[n + 1] = e
  BY DEF Extended
<1>2. ASSUME NEW o \in open
      PROVE  \E d \in 1..(n + 1) : LastDefined(o, d)'
  <2>1. PICK d \in 1..n : LastDefined(o, d)
    BY <1>1 DEF OpenIsLast
  <2>2. Values(d)' = Values(d)
    BY <2>1, ValuesExtended DEF LastDefined
  <2>3. \A j \in 1..(n + 1) : read'[j].kind = "profile" => j <= d
    <3>1. \A j \in 1..(n + 1) : j # n + 1 => j \in 1..n
      BY <1>1
    <3> QED BY <1>1, <2>1, <3>1 DEF LastDefined
  <2>4. LastDefined(o, d)' /\ d \in 1..(n + 1)
    BY <1>1, <2>1, <2>2, <2>3 DEF LastDefined
  <2> QED BY <2>4
<1>3. (open # {} => Reading)'
  BY DEF OpenIsLast, Reading
<1> QED BY <1>1, <1>2, <1>3 DEF OpenIsLast

LEMMA FirstSaidExtended ==
  ASSUME NEW n, NEW e, Extended(n, e), NEW name,
         e.kind # "profile" \/ e.about # name \/ Definitions(name) # {}
  PROVE  FirstSaid(name)' = FirstSaid(name)
<1>1. CASE Definitions(name) # {}
  <2>1. Definitions(name)' # {} /\ Defined(name)' = Defined(name)
    BY <1>1, DefinedExtended
  <2> QED BY <1>1, <2>1 DEF FirstSaid
<1>2. CASE Definitions(name) = {}
  <2>1. Definitions(name)' = {}
    <3>1. Nodes("profile", name)' = Nodes("profile", name)
      BY <1>2, NodesSame
    <3> QED BY <1>2, <3>1 DEF Definitions
  <2> QED BY <1>2, <2>1 DEF FirstSaid
<1> QED BY <1>1, <1>2

LEMMA FirstKeptExtended ==
  ASSUME NEW n, NEW e, Extended(n, e), FirstKept, e.kind # "profile", Reading,
         UNCHANGED <<stage, profiles>>
  PROVE  FirstKept'
<1>1. \A name \in ProfileNames : FirstSaid(name)' = FirstSaid(name)
  BY FirstSaidExtended
<1>2. stage # "done"
  BY DEF Reading
<1> QED BY <1>1, <1>2 DEF FirstKept

LEMMA LastDecidesExtended ==
  ASSUME NEW n, NEW e, Extended(n, e), InOrder, LastDecides, NEW process \in Processes,
         e.kind # "name" \/ e.about # process
  PROVE  LET rules == Nodes("name", process) IN
         /\ rules' = rules
         /\ rules # {} => RuleValues(Max(rules))' = RuleValues(Max(rules))
<1>1. PICK rules : rules = Nodes("name", process)
  OBVIOUS
<1>2. Nodes("name", process)' = rules
  BY <1>1, NodesSame
<1>3. n \in Nat /\ rules \in SUBSET (1..n)
  BY <1>1, NodesPlaced DEF Extended
<1>4. ASSUME rules # {}
      PROVE  RuleValues(Max(rules))' = RuleValues(Max(rules))
  <2>1. Max(rules) \in 1..n
    BY <1>3, <1>4, GreatestPlace
  <2> QED BY <2>1, RuleValuesExtended
<1> QED BY <1>1, <1>2, <1>4

LEMMA ConditionsExtended ==
  ASSUME NEW n, NEW e, Extended(n, e), InOrder, NEW name
  PROVE  LET rules == Nodes("condition", name) IN
         rules # {} =>
           /\ rules' # {} /\ Min(rules') = Min(rules)
           /\ RuleValues(Min(rules))' = RuleValues(Min(rules))
<1>1. PICK rules : rules = Nodes("condition", name)
  OBVIOUS
<1>2. n \in Nat /\ rules \in SUBSET (1..n)
  BY <1>1, NodesPlaced DEF Extended
<1>3. PICK T \in SUBSET {n + 1} : Nodes("condition", name)' = rules \cup T
  <2>1. Nodes("condition", name)' = rules \cup
          (IF e.kind = "condition" /\ e.about = name THEN {n + 1} ELSE {})
    BY <1>1, NodesExtended
  <2> QED BY <2>1
<1>4. ASSUME rules # {}
      PROVE  /\ Min(rules \cup T) = Min(rules)
             /\ RuleValues(Min(rules))' = RuleValues(Min(rules))
  <2>1. rules \in SUBSET Nat
    BY <1>2
  <2>2. PICK m \in rules : m = Min(rules) /\ \A x \in rules : m <= x
    BY <1>4, <2>1, LeastPlace
  <2>3. rules \cup T \in SUBSET Nat /\ m \in rules \cup T /\ \A x \in rules \cup T : m <= x
    BY <1>2, <2>2
  <2>4. Min(rules \cup T) = m
    BY <2>3, MinIs
  <2>5. m \in 1..n
    BY <1>2
  <2>6. RuleValues(m)' = RuleValues(m)
    BY <2>5, RuleValuesExtended
  <2> QED BY <2>2, <2>4, <2>6
<1> QED BY <1>1, <1>3, <1>4

-----------------------------------------------------------------------------
(* Types *)

\* The values that the rules of a profile share.
Shared(rules, name) == {r.profile : r \in Get(rules, name)}

LEMMA RuleAdded ==
  ASSUME TypeOK, NEW name \in ProfileNames, NEW rule \in Conditions \X BOOLEAN,
         NEW profile \in Profile
  PROVE  /\ DOMAIN AddRule(name, rule, profile) = DOMAIN conditions \cup {name}
         /\ \A n \in DOMAIN AddRule(name, rule, profile) :
              AddRule(name, rule, profile)[n] \in Rules
         /\ \A n : Shared(AddRule(name, rule, profile), n) =
              IF n = name /\ Get(conditions, name) = {} THEN {profile}
              ELSE Shared(conditions, n)
<1> DEFINE known == Get(conditions, name)
           value == IF known = {} THEN [profile |-> profile, rules |-> {rule}]
                    ELSE [The(known) EXCEPT !.rules = @ \cup {rule}]
<1>1. AddRule(name, rule, profile) = Put(conditions, name, value)
  BY DEF AddRule
<1>2. CASE known = {}
  <2>1. value = [profile |-> profile, rules |-> {rule}]
    BY <1>2
  <2>2. value \in Rules /\ value.profile = profile
    BY <2>1 DEF Rules
  <2> HIDE DEF value
  <2>3. \A n : Get(Put(conditions, name, value), n) =
                 IF n = name THEN {value} ELSE Get(conditions, n)
    BY DEF Get, Put
  <2>4. \A n : {r.profile : r \in Get(Put(conditions, name, value), n)} =
                 IF n = name THEN {profile} ELSE {r.profile : r \in Get(conditions, n)}
    BY <2>2, <2>3
  <2> QED BY <1>1, <1>2, <2>2, <2>4 DEF TypeOK, Put, Shared
<1>3. CASE known # {}
  <2>1. /\ name \in DOMAIN conditions /\ The(known) = conditions[name]
        /\ known = {conditions[name]}
    BY <1>3, GetMember DEF Get
  <2>2. PICK rules : /\ rules = conditions[name] /\ rules \in Rules
                     /\ value = [rules EXCEPT !.rules = @ \cup {rule}]
    BY <1>3, <2>1 DEF TypeOK
  <2>3. value \in Rules /\ value.profile = rules.profile
    BY <2>2 DEF Rules
  <2> HIDE DEF value
  <2>4. \A n : Get(Put(conditions, name, value), n) =
                 IF n = name THEN {value} ELSE Get(conditions, n)
    BY DEF Get, Put
  <2>5. ASSUME NEW n
        PROVE  {r.profile : r \in Get(Put(conditions, name, value), n)} =
                 {r.profile : r \in Get(conditions, n)}
    <3>1. CASE n = name
      BY <2>1, <2>2, <2>3, <2>4, <3>1
    <3>2. CASE n # name
      BY <2>4, <3>2
    <3> QED BY <3>1, <3>2
  <2> QED BY <1>1, <1>3, <2>3, <2>5 DEF TypeOK, Put, Shared
<1> QED BY <1>2, <1>3

LEMMA ConfigurationTypeInit == Init => TypeOK
<1>1. DOMAIN Nothing = {}
  BY DEF Nothing
<1>2. <<>> \in Seq(Node) /\ 60 \in U16 /\ 0 \in 0..MaxNodes
  BY ConfigurationAssumption DEF U16
<1> QED BY <1>1, <1>2 DEF Init, TypeOK

LEMMA NodeCounted ==
  ASSUME TypeOK, ANode
  PROVE  nodes' \in 0..MaxNodes
BY ConfigurationAssumption DEF TypeOK, ANode

LEMMA ParseProfileTyped ==
  ASSUME TypeOK, AllSound', NEW name \in ProfileNames, NEW ps \in PropertySets,
         ParseProfile(name, ps)
  PROVE  TypeOK'
<1> DEFINE profile == parse(IF Get(profiles, name) = {} THEN NewProfile
                            ELSE The(Get(profiles, name)), ps)
<1>1. /\ open' = {[name |-> name, profile |-> profile]}
      /\ DOMAIN profiles' \subseteq DOMAIN profiles \cup {name}
      /\ UNCHANGED <<stage, switches, profile_by_name, conditions, excepted, features>>
      /\ ANode /\ Reading /\ Record("profile", name, ps)
  BY DEF ParseProfile, Put
<1> HIDE DEF profile
<1>2. profile \in Profile
  BY <1>1 DEF AllSound, Sound
<1>3. open' \subseteq Open
  BY <1>1, <1>2 DEF Open
<1>4. read' \in Seq(Node)
  BY <1>1, RecordExtends
<1>5. \A n \in DOMAIN profiles' : profiles'[n] \in Profile
  BY DEF AllSound, Sound
<1> QED BY <1>1, <1>3, <1>4, <1>5, NodeCounted DEF TypeOK, switches, excepted, features

LEMMA AssignByNameTyped ==
  ASSUME TypeOK, AllSound', OpenIsLast, NEW process \in Processes, NEW ps \in PropertySets,
         AssignByName(process, ps)
  PROVE  TypeOK'
<1>1. /\ DOMAIN profile_by_name' = DOMAIN profile_by_name \cup {process}
      /\ UNCHANGED <<stage, open, switches, profiles, conditions, excepted, features>>
      /\ ANode /\ Reading /\ Record("name", process, ps)
  BY DEF AssignByName, Put, OpenIsLast
<1>2. read' \in Seq(Node)
  BY <1>1, RecordExtends
<1>3. \A p \in DOMAIN profile_by_name' : profile_by_name'[p] \in Profile
  BY DEF AllSound, Sound
<1> QED BY <1>1, <1>2, <1>3, NodeCounted DEF TypeOK, switches, excepted, features

LEMMA AssignByConditionTyped ==
  ASSUME TypeOK, AllSound, OpenIsLast, NEW c \in Conditions, NEW include \in BOOLEAN,
         NEW ps \in PropertySets, AssignByCondition(c, include, ps)
  PROVE  TypeOK'
<1>1. /\ UNCHANGED <<stage, open, switches, profiles, profile_by_name, excepted, features>>
      /\ open # {} /\ ANode /\ Reading
  BY DEF AssignByCondition, OpenIsLast
<1>2. CASE HasCondition(c)
  <2> DEFINE o == The(open)
             profile == parse(o.profile, ps)
  <2>1. o.name \in ProfileNames /\ Sound(o.profile)
    BY <1>1, TheMember DEF TypeOK, AllSound, Open
  <2>2. profile \in Profile
    <3>1. Sound(profile)
      BY <2>1, ParseSound, ConfigurationAssumption
    <3> QED BY <3>1 DEF Sound
  <2>3. /\ conditions' = AddRule(o.name, <<c, include>>, profile)
        /\ Record("condition", o.name, ps)
    BY <1>2 DEF AssignByCondition
  <2> HIDE DEF o, profile
  <2>4. read' \in Seq(Node)
    BY <1>1, <2>1, <2>3, RecordExtends
  <2>5. /\ DOMAIN conditions' \subseteq ProfileNames
        /\ \A n \in DOMAIN conditions' : conditions'[n] \in Rules
    <3>1. PICK rule \in Conditions \X BOOLEAN : rule = <<c, include>>
      OBVIOUS
    <3>2. conditions' = AddRule(o.name, rule, profile)
      BY <2>3, <3>1
    <3>3. PICK name \in ProfileNames, value \in Profile : name = o.name /\ value = profile
      BY <2>1, <2>2
    <3>4. /\ DOMAIN AddRule(name, rule, value) = DOMAIN conditions \cup {name}
          /\ \A n \in DOMAIN AddRule(name, rule, value) : AddRule(name, rule, value)[n] \in Rules
      BY RuleAdded
    <3>5. conditions' = AddRule(name, rule, value)
      BY <3>2, <3>3
    <3> QED BY <3>4, <3>5 DEF TypeOK
  <2> QED BY <1>1, <2>4, <2>5, NodeCounted DEF TypeOK, switches, excepted, features
<1>3. CASE ~ HasCondition(c)
  <2>1. UNCHANGED <<conditions, read>>
    BY <1>3 DEF AssignByCondition
  <2> QED BY <1>1, <2>1, NodeCounted DEF TypeOK, switches, excepted, features
<1> QED BY <1>2, <1>3

LEMMA FinishTyped ==
  ASSUME TypeOK, AllSound', Finish
  PROVE  TypeOK'
<1>1. /\ stage' = "done" /\ open' = {}
      /\ DOMAIN profiles' \subseteq DOMAIN profiles
      /\ UNCHANGED <<switches, profile_by_name, conditions, excepted, read, nodes>>
  BY DEF Finish, Drop
<1>2. \A n \in DOMAIN profiles' : profiles'[n] \in Profile
  BY DEF AllSound, Sound
<1>3. foreground' \subseteq [background : Profile, foreground : Profile]
  BY DEF Finish, Get, TypeOK
<1>4. pipewire' \subseteq Profile
  BY DEF AllSound, Sound
<1> QED BY <1>1, <1>2, <1>3, <1>4 DEF TypeOK, switches, excepted

LEMMA OthersTyped ==
  ASSUME TypeOK, UNCHANGED <<assigned, features, read>>, open' \in {open, {}},
         stage' \in {"start", "config", "scheduler", "distribution", "system", "done"},
         ANode \/ nodes' = nodes,
         enable' \in BOOLEAN, execsnoop' \in BOOLEAN, refresh_rate' \in U16,
         exceptions' \subseteq Processes,
         \A c \in exceptions_conditions' : DOMAIN c = Criterion
  PROVE  TypeOK'
<1>1. nodes' \in 0..MaxNodes
  BY NodeCounted DEF TypeOK
<1> QED BY <1>1 DEF TypeOK, assigned, features

-----------------------------------------------------------------------------
(* What the reader holds says what was read *)

Held == InOrder /\ OpenIsLast /\ FirstKept /\ LastDecides /\ FirstAssigns

LEMMA HeldInit == Init => Held
<1> SUFFICES ASSUME Init
             PROVE  Held
  OBVIOUS
<1>1. DOMAIN read = {} /\ stage = "start" /\ open = {}
  BY DEF Init
<1>2. \A kind, about : Nodes(kind, about) = {}
  BY <1>1 DEF Nodes
<1>3. \A x : Get(Nothing, x) = {}
  BY DEF Get, Nothing
<1>4. FirstKept
  BY <1>1, <1>2, <1>3 DEF Init, FirstKept, FirstSaid, Definitions
<1>5. LastDecides /\ FirstAssigns
  BY <1>2, <1>3 DEF Init, LastDecides, FirstAssigns
<1> QED BY <1>1, <1>4, <1>5 DEF Held, InOrder, OpenIsLast

\* A rule by name that is not for the process, and none at all, leave its profile.
LEMMA LastDecidesKept ==
  ASSUME Held, NEW n, NEW e, Extended(n, e), NEW process \in Processes,
         e.kind # "name" \/ e.about # process,
         Get(profile_by_name, process)' = Get(profile_by_name, process)
  PROVE  LET rules == Nodes("name", process) IN
         Get(profile_by_name, process)' =
           IF rules' = {} THEN {} ELSE {RuleValues(Max(rules))'}
<1>1. PICK rules : rules = Nodes("name", process)
  OBVIOUS
<1>2. Nodes("name", process)' = rules
  BY <1>1, NodesSame
<1>3. rules # {} => RuleValues(Max(rules))' = RuleValues(Max(rules))
  BY <1>1, <1>2, LastDecidesExtended DEF Held
<1>4. Get(profile_by_name, process) = IF rules = {} THEN {} ELSE {RuleValues(Max(rules))}
  BY <1>1 DEF Held, LastDecides
<1> QED BY <1>2, <1>3, <1>4

\* A later rule by condition leaves the values of its profile's first, and a node
\* of another kind those of all.
LEMMA ConditionsKept ==
  ASSUME Held, NEW n, NEW e, Extended(n, e), NEW name \in ProfileNames,
         \/ e.kind # "condition" \/ e.about # name
         \/ Nodes("condition", name) # {},
         {r.profile : r \in Get(conditions', name)} = {r.profile : r \in Get(conditions, name)}
  PROVE  LET rules == Nodes("condition", name) IN
         {r.profile : r \in Get(conditions', name)} =
           IF rules' = {} THEN {} ELSE {RuleValues(Min(rules))'}
<1>1. PICK rules : rules = Nodes("condition", name)
  OBVIOUS
<1>2. {r.profile : r \in Get(conditions, name)} =
        IF rules = {} THEN {} ELSE {RuleValues(Min(rules))}
  BY <1>1 DEF Held, FirstAssigns
<1>3. CASE rules = {}
  <2>1. Nodes("condition", name)' = {}
    BY <1>1, <1>3, NodesSame
  <2> QED BY <1>2, <1>3, <2>1
<1>4. CASE rules # {}
  <2>1. PICK then : then = Nodes("condition", name)'
    OBVIOUS
  <2>2. /\ then # {} /\ Min(then) = Min(rules)
        /\ RuleValues(Min(then))' = RuleValues(Min(rules))
    BY <1>1, <1>4, <2>1, ConditionsExtended DEF Held
  <2> QED BY <1>2, <1>4, <2>1, <2>2
<1> QED BY <1>3, <1>4

LEMMA ParseProfileHeld ==
  ASSUME TypeOK, Held, NEW name \in ProfileNames, NEW ps \in PropertySets,
         ParseProfile(name, ps)
  PROVE  Held'
<1>1. PICK profile :
        /\ profile = parse(IF Get(profiles, name) = {} THEN NewProfile
                           ELSE The(Get(profiles, name)), ps)
        /\ open' = {[name |-> name, profile |-> profile]}
        /\ profiles' = IF Get(profiles, name) = {} THEN Put(profiles, name, profile) ELSE profiles
  BY DEF ParseProfile
<1>2. /\ UNCHANGED <<stage, profile_by_name, conditions>>
      /\ Reading /\ Record("profile", name, ps) /\ stage # "done"
  BY DEF ParseProfile, Reading
<1>a. PICK n \in Nat : Extended(n, [kind |-> "profile", about |-> name,
                                    properties |-> ps, stage |-> stage])
  BY <1>2, RecordExtends
<1>3. PICK e : Extended(n, e) /\ e.kind = "profile" /\ e.about = name
               /\ e.properties = ps /\ e.stage = stage
  BY <1>a
<1>4. InOrder'
  BY <1>2, <1>3, InOrderExtended DEF Held
<1>5. Get(profiles, name) = FirstSaid(name)
  BY <1>2 DEF Held, FirstKept
<1>6. /\ Values(n + 1)' = profile
      /\ Definitions(name)' # {}
      /\ Definitions(name) = {} => Defined(name)' = profile
  <2>0. read'[n + 1] = e
    BY <1>3 DEF Extended
  <2>1. CASE Definitions(name) = {}
    <3>1. profile = parse(NewProfile, ps)
      BY <1>1, <1>5, <2>1 DEF FirstSaid
    <3>2. /\ Definitions(name)' # {} /\ Min(Definitions(name)') = n + 1
          /\ Defined(name)' = profile
      BY <1>3, <2>1, <3>1, FirstDefinition
    <3> QED BY <1>3, <2>0, <3>2 DEF Values
  <2>2. CASE Definitions(name) # {}
    <3>1. profile = parse(Defined(name), ps)
      <4>1. Get(profiles, name) = {Defined(name)}
        BY <1>5, <2>2 DEF FirstSaid
      <4>2. The({Defined(name)}) = Defined(name)
        BY DEF The
      <4> QED BY <1>1, <4>1, <4>2
    <3>2. /\ Definitions(name)' # {} /\ Min(Definitions(name)') = Min(Definitions(name))
          /\ Defined(name)' = Defined(name)
      BY <1>3, <2>2, DefinedExtended
    <3>3. Min(Definitions(name)) # n + 1
      <4>1. Definitions(name) \in SUBSET (1..n)
        BY <1>3, NodesPlaced DEF Definitions
      <4>2. Min(Definitions(name)) \in 1..n
        BY <2>2, <4>1, LeastPlace
      <4> QED BY <4>2
    <3> QED BY <1>3, <2>0, <2>2, <3>1, <3>2, <3>3 DEF Values
  <2> QED BY <2>1, <2>2
<1>7. OpenIsLast'
  <2>1. DOMAIN read' = 1..(n + 1) /\ read'[n + 1] = e
    BY <1>3 DEF Extended
  <2>2. \A o \in open' : o.name = name /\ o.profile = profile
    BY <1>1
  <2>3. ASSUME NEW o, o.name = name, o.profile = profile
        PROVE  n + 1 \in DOMAIN read' /\ LastDefined(o, n + 1)'
    BY <1>3, <1>6, <2>1, <2>3 DEF LastDefined
  <2>4. \A o \in open' : \E d \in DOMAIN read' : LastDefined(o, d)'
    BY <2>2, <2>3
  <2>5. \A o, p \in open' : o = p
    BY <1>1
  <2> QED BY <1>2, <2>4, <2>5 DEF OpenIsLast, Reading
<1>8. FirstKept'
  <2>1. ASSUME NEW m \in ProfileNames
        PROVE  Get(profiles', m) = FirstSaid(m)'
    <3>1. Get(profiles, m) = FirstSaid(m)
      BY <1>2 DEF Held, FirstKept
    <3>2. CASE m # name \/ Definitions(m) # {}
      <4>1. FirstSaid(m)' = FirstSaid(m)
        BY <1>3, <3>2, FirstSaidExtended
      <4>2. Get(profiles', m) = Get(profiles, m)
        <5>1. CASE Get(profiles, name) = {}
          <6>1. m # name
            BY <1>5, <3>2, <5>1 DEF FirstSaid
          <6> QED BY <1>1, <5>1, <6>1 DEF Get, Put
        <5>2. CASE Get(profiles, name) # {}
          BY <1>1, <5>2
        <5> QED BY <5>1, <5>2
      <4> QED BY <3>1, <4>1, <4>2
    <3>3. CASE m = name /\ Definitions(m) = {}
      <4>1. profiles' = Put(profiles, name, profile)
        BY <1>1, <1>5, <3>3 DEF FirstSaid
      <4>2. Get(profiles', m) = {profile}
        BY <3>3, <4>1 DEF Get, Put
      <4> QED BY <1>6, <3>3, <4>2 DEF FirstSaid
    <3> QED BY <3>2, <3>3
  <2> QED BY <1>2, <2>1 DEF FirstKept
<1>9. LastDecides'
  <2>1. \A p : Get(profile_by_name, p)' = Get(profile_by_name, p)
    BY <1>2 DEF Get
  <2> QED BY <1>3, <2>1, LastDecidesKept DEF LastDecides
<1>10. FirstAssigns'
  BY <1>2, <1>3, ConditionsKept DEF FirstAssigns
<1> QED BY <1>4, <1>7, <1>8, <1>9, <1>10 DEF Held

LEMMA AssignByNameHeld ==
  ASSUME TypeOK, Held, NEW process \in Processes, NEW ps \in PropertySets,
         AssignByName(process, ps)
  PROVE  Held'
<1>1. PICK o \in open : open = {o} /\ o = The(open)
  BY OpenOne DEF Held, AssignByName
<1>2. /\ profile_by_name' = Put(profile_by_name, process, parse(o.profile, ps))
      /\ UNCHANGED <<stage, open, profiles, conditions>>
      /\ open # {} /\ Reading /\ Record("name", process, ps)
  BY <1>1 DEF AssignByName, Held, OpenIsLast
<1>a. PICK n \in Nat : Extended(n, [kind |-> "name", about |-> process,
                                    properties |-> ps, stage |-> stage])
  BY <1>2, RecordExtends
<1>3. PICK e : Extended(n, e) /\ e.kind = "name" /\ e.about = process
               /\ e.properties = ps /\ e.stage = stage
  BY <1>a
<1>4. InOrder' /\ OpenIsLast' /\ FirstKept'
  BY <1>2, <1>3, InOrderExtended, OpenIsLastExtended, FirstKeptExtended DEF Held
<1>5. LastDecides'
  <2>1. ASSUME NEW p \in Processes, p # process
        PROVE  Get(profile_by_name, p)' = Get(profile_by_name, p)
    BY <1>2, <2>1 DEF Get, Put
  <2>2. Get(profile_by_name, process)' = {parse(o.profile, ps)}
    BY <1>2 DEF Get, Put
  <2>3. PICK rules : rules = Nodes("name", process)'
    OBVIOUS
  <2>4. n + 1 \in rules /\ rules \in SUBSET (1..(n + 1))
    <3>1. Nodes("name", process)' = Nodes("name", process) \cup {n + 1}
      BY <1>3, NodesExtended
    <3>2. Nodes("name", process) \subseteq 1..n
      BY <1>3, NodesPlaced
    <3> QED BY <2>3, <3>1, <3>2
  <2>5. Max(rules) = n + 1
    <3>1. rules \in SUBSET Nat /\ \A x \in rules : x <= n + 1
      BY <2>4
    <3> QED BY <2>4, <3>1, MaxIs
  <2>6. RuleValues(n + 1)' = parse(o.profile, ps)
    BY <1>3, NewRule DEF Held
  <2>7. Get(profile_by_name, process)' =
          IF rules = {} THEN {} ELSE {RuleValues(Max(rules))'}
    BY <2>2, <2>4, <2>5, <2>6
  <2> QED BY <1>3, <2>1, <2>3, <2>7, LastDecidesKept DEF LastDecides
<1>6. FirstAssigns'
  BY <1>2, <1>3, ConditionsKept DEF FirstAssigns
<1> QED BY <1>4, <1>5, <1>6 DEF Held

LEMMA AssignByConditionHeld ==
  ASSUME TypeOK, AllSound, Held, NEW c \in Conditions, NEW include \in BOOLEAN,
         NEW ps \in PropertySets, AssignByCondition(c, include, ps), HasCondition(c)
  PROVE  Held'
<1>1. PICK o \in open : open = {o} /\ o = The(open)
  BY OpenOne DEF Held, AssignByCondition
<1>2. PICK name \in ProfileNames, profile \in Profile, rule \in Conditions \X BOOLEAN :
        name = o.name /\ profile = parse(o.profile, ps) /\ rule = <<c, include>>
  <2>1. o.name \in ProfileNames /\ Sound(o.profile)
    BY DEF TypeOK, Open, AllSound
  <2>2. Sound(parse(o.profile, ps))
    BY <2>1, ParseSound, ConfigurationAssumption
  <2> QED BY <2>1, <2>2 DEF Sound
<1>3. /\ conditions' = AddRule(name, rule, profile)
      /\ UNCHANGED <<stage, open, profiles, profile_by_name>>
      /\ open # {} /\ Reading /\ Record("condition", name, ps)
  BY <1>1, <1>2 DEF AssignByCondition, Held, OpenIsLast
<1>a. PICK n \in Nat : Extended(n, [kind |-> "condition", about |-> name,
                                    properties |-> ps, stage |-> stage])
  BY <1>3, RecordExtends
<1>4. PICK e : Extended(n, e) /\ e.kind = "condition" /\ e.about = name
               /\ e.properties = ps /\ e.stage = stage
  BY <1>a
<1>5. InOrder' /\ OpenIsLast' /\ FirstKept'
  BY <1>3, <1>4, InOrderExtended, OpenIsLastExtended, FirstKeptExtended DEF Held
<1>6. LastDecides'
  <2>1. \A p : Get(profile_by_name, p)' = Get(profile_by_name, p)
    BY <1>3 DEF Get
  <2> QED BY <1>4, <2>1, LastDecidesKept DEF LastDecides
<1>7. \A m : {r.profile : r \in Get(conditions', m)} =
        IF m = name /\ Get(conditions, name) = {} THEN {profile}
        ELSE {r.profile : r \in Get(conditions, m)}
  <2>1. \A m : Shared(AddRule(name, rule, profile), m) =
          IF m = name /\ Get(conditions, name) = {} THEN {profile} ELSE Shared(conditions, m)
    BY RuleAdded
  <2>2. conditions' = AddRule(name, rule, profile)
    BY <1>3
  <2>3. \A m : Shared(conditions', m) =
          IF m = name /\ Get(conditions, name) = {} THEN {profile} ELSE Shared(conditions, m)
    BY <2>1, <2>2
  <2> QED BY <2>3 DEF Shared
<1>8. Get(conditions, name) = {} <=> Nodes("condition", name) = {}
  <2>1. Get(conditions, name) = {} <=> {r.profile : r \in Get(conditions, name)} = {}
    OBVIOUS
  <2> QED BY <2>1 DEF Held, FirstAssigns
<1>9. CASE Nodes("condition", name) # {}
  <2>1. \A m \in ProfileNames : {r.profile : r \in Get(conditions', m)} =
                                  {r.profile : r \in Get(conditions, m)}
    BY <1>7, <1>8, <1>9
  <2>2. \A m \in ProfileNames : e.about # m \/ Nodes("condition", m) # {}
    BY <1>4, <1>9
  <2>3. FirstAssigns'
    BY <1>4, <2>1, <2>2, ConditionsKept DEF FirstAssigns
  <2> QED BY <1>5, <1>6, <2>3 DEF Held
<1>10. CASE Nodes("condition", name) = {}
  <2>1. \A m \in ProfileNames : m # name => {r.profile : r \in Get(conditions', m)} =
                                              {r.profile : r \in Get(conditions, m)}
    BY <1>7
  <2>2. {r.profile : r \in Get(conditions', name)} = {profile}
    BY <1>7, <1>8, <1>10
  <2>3. Nodes("condition", name)' = {n + 1} /\ n + 1 \in Nat
    <3>1. Nodes("condition", name)' = Nodes("condition", name) \cup {n + 1}
      BY <1>4, NodesExtended
    <3> QED BY <1>10, <3>1
  <2>4. Min({n + 1}) = n + 1
    BY <2>3, MinIs
  <2>5. RuleValues(n + 1)' = profile
    BY <1>2, <1>4, NewRule DEF Held
  <2>6. {r.profile : r \in Get(conditions', name)} = {RuleValues(Min({n + 1}))'}
    BY <2>2, <2>4, <2>5
  <2>7. ASSUME NEW m \in ProfileNames
        PROVE  LET rules == Nodes("condition", m) IN
               {r.profile : r \in Get(conditions', m)} =
                 IF rules' = {} THEN {} ELSE {RuleValues(Min(rules))'}
    <3>1. CASE m # name
      BY <1>4, <2>1, <3>1, ConditionsKept
    <3>2. CASE m = name
      <4>1. PICK rules : rules = Nodes("condition", name)' /\ rules = {n + 1}
        BY <2>3
      <4> QED BY <2>6, <3>2, <4>1
    <3> QED BY <3>1, <3>2
  <2>8. FirstAssigns'
    BY <2>7 DEF FirstAssigns
  <2> QED BY <1>5, <1>6, <2>8 DEF Held
<1> QED BY <1>9, <1>10

\* A step that reads neither a profile nor a rule leaves the history.
LEMMA HistorySame ==
  ASSUME UNCHANGED read
  PROVE  /\ \A kind, about : Nodes(kind, about)' = Nodes(kind, about)
         /\ \A name : FirstSaid(name)' = FirstSaid(name)
         /\ \A i : Values(i)' = Values(i) /\ RuleValues(i)' = RuleValues(i)
<1>1. \A kind, about : Nodes(kind, about)' = Nodes(kind, about)
  BY DEF Nodes
<1>2. \A name : Definitions(name)' = Definitions(name)
  BY DEF Definitions, Nodes
<1>3. \A name : Defined(name)' = Defined(name)
  BY <1>2 DEF Defined
<1>4. \A i : Values(i)' = Values(i)
  BY <1>2, <1>3 DEF Values
<1>5. \A i : Around(i)' = Around(i)
  BY DEF Around
<1> QED BY <1>1, <1>2, <1>3, <1>4, <1>5 DEF FirstSaid, RuleValues

LEMMA OthersHeld ==
  ASSUME Held, UNCHANGED <<read, profile_by_name, conditions>>,
         open' = {} \/ UNCHANGED <<open, stage>>,
         Rank(stage) \in {1, 2, 3}, Rank(stage') \in {1, 2, 3}, Rank(stage) <= Rank(stage'),
         \A i \in DOMAIN read : Precedence[read[i].stage] \in {1, 2, 3},
         FirstKept'
  PROVE  Held'
<1>1. InOrder'
  <2>1. \A i \in DOMAIN read : Precedence[read[i].stage] <= Rank(stage')
    BY DEF Held, InOrder
  <2>2. Rank(stage)' = Rank(stage')
    BY DEF Rank
  <2> QED BY <2>1, <2>2 DEF Held, InOrder
<1>2. OpenIsLast'
  <2>1. CASE open' = {}
    BY <2>1 DEF OpenIsLast
  <2>2. CASE UNCHANGED <<open, stage>>
    <3>1. \A o, d : LastDefined(o, d)' <=> LastDefined(o, d)
      BY HistorySame DEF LastDefined
    <3> QED BY <2>2, <3>1 DEF Held, OpenIsLast, Reading
  <2> QED BY <2>1, <2>2
<1>3. LastDecides' /\ FirstAssigns'
  <2>1. /\ \A kind, about : Nodes(kind, about)' = Nodes(kind, about)
        /\ \A i : RuleValues(i)' = RuleValues(i)
    BY HistorySame
  <2>2. LastDecides'
    BY <2>1 DEF Held, LastDecides, Get
  <2>3. FirstAssigns'
    BY <2>1 DEF Held, FirstAssigns, Get
  <2> QED BY <2>2, <2>3
<1> QED BY <1>1, <1>2, <1>3 DEF Held

LEMMA PrecedencesTyped ==
  ASSUME TypeOK
  PROVE  \A i \in DOMAIN read : Precedence[read[i].stage] \in {1, 2, 3}
<1> SUFFICES ASSUME NEW i \in DOMAIN read
             PROVE  Precedence[read[i].stage] \in {1, 2, 3}
  OBVIOUS
<1>1. read[i] \in Node
  BY DEF TypeOK
<1> QED BY <1>1 DEF Node, Precedence

\* The steps of the reader that read neither a profile nor a rule.
LEMMA QuietHeld ==
  ASSUME TypeOK, Held, UNCHANGED <<read, assigned>>,
         open' = {} \/ UNCHANGED <<open, stage>>,
         stage # "done", stage' # "done", Rank(stage) <= Rank(stage')
  PROVE  Held'
<1>1. FirstKept'
  BY HistorySame DEF Held, FirstKept, assigned
<1>2. Rank(stage) \in {1, 2, 3} /\ Rank(stage') \in {1, 2, 3}
  BY DEF Rank
<1> QED BY <1>1, <1>2, PrecedencesTyped, OthersHeld DEF assigned

LEMMA FinishHeld ==
  ASSUME TypeOK, Held, Finish
  PROVE  Held'
<1>1. /\ stage # "done" /\ stage' = "done" /\ open' = {}
      /\ UNCHANGED <<profile_by_name, conditions, read>>
      /\ foreground' = {[background |-> b, foreground |-> f] :
                          b \in Get(profiles, "background"), f \in Get(profiles, "foreground")}
      /\ pipewire' = Get(profiles, "pipewire")
  BY DEF Finish
<1>2. \A name \in Reserved : Get(profiles, name) = FirstSaid(name)'
  BY <1>1, HistorySame, ConfigurationAssumption DEF Held, FirstKept
<1>3. FirstKept'
  BY <1>1, <1>2 DEF FirstKept, Reserved
<1>4. Rank(stage) \in {1, 2, 3} /\ Rank(stage') = 3
  BY <1>1 DEF Rank
<1> QED BY <1>1, <1>3, <1>4, PrecedencesTyped, OthersHeld

LEMMA NextHeld ==
  TypeOK /\ AllSound /\ AllSound' /\ Held /\ [Next]_vars => TypeOK' /\ Held'
<1> SUFFICES ASSUME TypeOK, AllSound, AllSound', Held, [Next]_vars
             PROVE  TypeOK' /\ Held'
  OBVIOUS
<1>1. OpenIsLast
  BY DEF Held
<1>2. CASE UNCHANGED vars
  <2>1. UNCHANGED <<stage, open, switches, assigned, excepted, features, read, nodes>>
    BY <1>2 DEF vars
  <2>2. TypeOK'
    BY <2>1, OthersTyped DEF TypeOK, switches, excepted
  <2>3. FirstKept'
    BY <2>1, HistorySame DEF Held, FirstKept, assigned, features
  <2>4. Rank(stage) \in {1, 2, 3} /\ Rank(stage') \in {1, 2, 3} /\ Rank(stage) <= Rank(stage')
    BY <2>1 DEF Rank
  <2> QED BY <2>1, <2>2, <2>3, <2>4, PrecedencesTyped, OthersHeld DEF assigned
<1>3. CASE OpenMain \/ NextFiles
  <2>1. /\ UNCHANGED <<switches, assigned, excepted, features, read, nodes>>
        /\ open' \in {open, {}} /\ (stage = "start" \/ open' = {})
        /\ stage # "done" /\ stage' \in {"config", "distribution", "system"}
        /\ Rank(stage) <= Rank(stage')
    BY <1>3 DEF OpenMain, NextFiles, Following, Rank, TypeOK
  <2>2. TypeOK'
    BY <2>1, OthersTyped DEF TypeOK, switches, excepted
  <2>3. open' = {}
    BY <1>1, <2>1 DEF OpenIsLast, Reading
  <2> QED BY <2>1, <2>2, <2>3, QuietHeld
<1>4. CASE Finish
  BY <1>4, FinishTyped, FinishHeld
<1>5. CASE \E on \in BOOLEAN : Scheduler(on) \/ Execsnoop(on)
  <2>1. /\ UNCHANGED <<refresh_rate, assigned, excepted, features, read>>
        /\ open' = {} /\ enable' \in BOOLEAN /\ execsnoop' \in BOOLEAN /\ ANode
        /\ stage \in {"config", "scheduler"} /\ stage' \in {"config", "scheduler"}
    BY <1>5 DEF Scheduler, Execsnoop, TypeOK
  <2>2. TypeOK'
    BY <2>1, OthersTyped DEF TypeOK, excepted
  <2>3. Rank(stage) <= Rank(stage')
    BY <2>1 DEF Rank
  <2> QED BY <2>1, <2>2, <2>3, QuietHeld
<1>6. CASE \E rate \in Rates : RefreshRate(rate)
  <2>1. /\ UNCHANGED <<stage, enable, execsnoop, assigned, excepted, features, read>>
        /\ open' = {} /\ refresh_rate' \in U16 /\ ANode /\ stage = "scheduler"
    BY <1>6 DEF RefreshRate, TypeOK
  <2>2. TypeOK'
    BY <2>1, OthersTyped DEF TypeOK, excepted
  <2>3. Rank(stage) <= Rank(stage')
    BY <2>1 DEF Rank
  <2> QED BY <2>1, <2>2, <2>3, QuietHeld
<1>7. CASE \E name \in ProfileNames, ps \in PropertySets : ParseProfile(name, ps)
  BY <1>7, ParseProfileTyped, ParseProfileHeld
<1>8. CASE \E process \in Processes, ps \in PropertySets : AssignByName(process, ps)
  BY <1>1, <1>8, AssignByNameTyped, AssignByNameHeld
<1>9. CASE \E c \in Conditions, include \in BOOLEAN, ps \in PropertySets :
             AssignByCondition(c, include, ps)
  <2>1. PICK c \in Conditions, include \in BOOLEAN, ps \in PropertySets :
               AssignByCondition(c, include, ps)
    BY <1>9
  <2>2. TypeOK'
    BY <1>1, <2>1, AssignByConditionTyped
  <2>3. CASE HasCondition(c)
    BY <2>1, <2>2, <2>3, AssignByConditionHeld
  <2>4. CASE ~ HasCondition(c)
    <3>1. /\ UNCHANGED <<stage, open, assigned, read>>
          /\ stage # "done"
      BY <1>1, <2>1, <2>4 DEF AssignByCondition, assigned, OpenIsLast, Reading
    <3>2. Rank(stage) <= Rank(stage')
      BY <3>1 DEF Rank
    <3> QED BY <2>2, <3>1, <3>2, QuietHeld
  <2> QED BY <2>3, <2>4
<1>10. CASE \/ \E process \in Processes : ExceptByName(process)
            \/ \E c \in Conditions : ExceptByCondition(c)
  <2>1. /\ UNCHANGED <<stage, switches, assigned, features, read>>
        /\ open' = {} /\ ANode /\ stage # "done"
        /\ exceptions' \subseteq Processes
    BY <1>10 DEF ExceptByName, ExceptByCondition, Reading, TypeOK
  <2>2. \A c \in exceptions_conditions' : DOMAIN c = Criterion
    <3>1. CASE \E process \in Processes : ExceptByName(process)
      BY <3>1 DEF ExceptByName, TypeOK
    <3>2. CASE \E c \in Conditions : ExceptByCondition(c)
      BY <3>2, ConfigurationAssumption DEF ExceptByCondition, TypeOK
    <3> QED BY <1>10, <3>1, <3>2
  <2>3. TypeOK'
    BY <2>1, <2>2, OthersTyped DEF TypeOK, switches
  <2>4. Rank(stage) <= Rank(stage')
    BY <2>1 DEF Rank
  <2> QED BY <2>1, <2>3, <2>4, QuietHeld
<1> QED
  BY <1>2, <1>3, <1>4, <1>5, <1>6, <1>7, <1>8, <1>9, <1>10 DEF Next

\* The inductive invariant: what the reader holds says what was read.
Faithful == TypeOK /\ AllSound /\ Held

THEOREM ReaderInvariance == Spec => []Faithful
<1>1. Init => Faithful
  BY ConfigurationTypeInit, InitSound, HeldInit DEF Faithful
<1>2. Faithful /\ [Next]_vars => Faithful'
  BY NextSound, NextHeld DEF Faithful
<1> QED BY <1>1, <1>2, PTL DEF Spec

\* The fields of the reader hold what their types in the code allow: a refresh
\* rate within u16, and rules and profiles of the shape the scheduler expects.
THEOREM ConfigurationTypeCorrect == Spec => []TypeOK
<1>1. Faithful => TypeOK
  BY DEF Faithful
<1> QED BY <1>1, ReaderInvariance, PTL

\* The rule that is read last is the one that counts.
LEMMA LastIsDeciding ==
  ASSUME TypeOK, InOrder, NEW rules \in SUBSET (DOMAIN read), rules # {}
  PROVE  Deciding(rules) = Max(rules)
<1>1. PICK n \in Nat : DOMAIN read = 1..n
  BY DEF TypeOK
<1>2. PICK m \in rules : m = Max(rules) /\ \A x \in rules : x <= m
  BY <1>1, GreatestPlace
<1> DEFINE all == {Precedence[read[i].stage] : i \in rules}
           top == Precedence[read[m].stage]
           last == {i \in rules : Precedence[read[i].stage] = top}
<1>3. Max(all) = top
  <2>1. all \in SUBSET Nat /\ top \in all
    BY PrecedencesTyped
  <2>2. \A x \in all : x <= top
    BY <1>1, <1>2 DEF InOrder
  <2> HIDE DEF all, top
  <2> QED BY <2>1, <2>2, MaxIs
<1>4. Max(last) = m
  <2>1. last \in SUBSET Nat /\ m \in last /\ \A x \in last : x <= m
    BY <1>1, <1>2
  <2> HIDE DEF last
  <2> QED BY <2>1, MaxIs
<1>5. Deciding(rules) = Max({i \in rules : Precedence[read[i].stage] = Max(all)})
  BY DEF Deciding
<1> QED BY <1>2, <1>3, <1>4, <1>5

\* Whatever the files say and in whatever order they come, the rule by name that
\* counts most gives a process its values, if it is below the first or the second
\* definition of its profile.
THEOREM NameRulesDecide == Spec => []NameRuleDecides
<1>1. Faithful => NameRuleDecides
  <2> SUFFICES ASSUME Faithful, NEW process \in Processes,
                      NEW rules, rules = Nodes("name", process)
               PROVE  Get(profile_by_name, process) =
                        IF rules = {} THEN {} ELSE {RuleValues(Deciding(rules))}
    BY DEF NameRuleDecides
  <2>1. rules \in SUBSET (DOMAIN read)
    BY DEF Nodes
  <2>2. rules # {} => Deciding(rules) = Max(rules)
    BY <2>1, LastIsDeciding DEF Faithful, Held
  <2> QED BY <2>2 DEF Faithful, Held, LastDecides
<1> QED BY <1>1, ReaderInvariance, PTL

\* However many conditional rules a profile has and wherever they are, what they
\* agree on is what its conditions assign.
THEOREM ConditionsAlwaysAssign == Spec => []ConditionsAssign
<1>1. Faithful => ConditionsAssign
  <2> SUFFICES ASSUME Faithful, NEW name \in ProfileNames,
                      NEW rules, rules = Nodes("condition", name),
                      NEW value, rules # {}, \A i \in rules : RuleValues(i) = value
               PROVE  {r.profile : r \in Get(conditions, name)} = {value}
    BY DEF ConditionsAssign
  <2>1. PICK n \in Nat : DOMAIN read = 1..n
    BY DEF Faithful, TypeOK
  <2>2. rules \in SUBSET (1..n)
    BY <2>1 DEF Nodes
  <2>3. Min(rules) \in rules
    BY <2>2, LeastPlace
  <2>4. RuleValues(Min(rules)) = value
    BY <2>3
  <2> QED BY <2>4 DEF Faithful, Held, FirstAssigns
<1> QED BY <1>1, ReaderInvariance, PTL

\* The foreground, background and pipewire profiles are on exactly if they were
\* defined, with the values of their first definitions.
THEOREM FeaturesAlwaysAsDefined == Spec => []FeaturesAsDefined
<1>1. Faithful => FeaturesAsDefined
  BY DEF Faithful, Held, FirstKept, FirstSaid, FeaturesAsDefined
<1> QED BY <1>1, ReaderInvariance, PTL
=============================================================================
