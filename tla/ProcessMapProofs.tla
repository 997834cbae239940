-------------------------- MODULE ProcessMapProofs --------------------------
(***************************************************************************)
(* Every operation of the process map keeps it well formed: of the right   *)
(* type, with a sound pid index and sound parent pointers.                 *)
(***************************************************************************)
EXTENDS Assignments, SequenceLemmas, FiniteSetTheorems

WellFormed(pm) == pm \in Map /\ IndexSound(pm) /\ LinksSound(pm)

\* The observations a scan hands to insert, by pid.
IsObservation(new) == new \in [DOMAIN new -> Observed] /\ DOMAIN new \subseteq Pid

-----------------------------------------------------------------------------
(* Arithmetic and sets *)

\* A non-empty set of naturals has a least element, which Min picks.
LEMMA MinIsMember ==
  ASSUME NEW S \in SUBSET Nat, S # {}
  PROVE  Min(S) \in S
<1>1. \E x \in S : \A y \in S : ~ (<<y, x>> \in OpToRel(<, Nat))
  BY NatLessThanWellFounded, WFMin
<1>2. PICK x \in S : \A y \in S : ~ (<<y, x>> \in OpToRel(<, Nat))
  BY <1>1
<1>3. \A y \in S : x <= y
  <2> SUFFICES ASSUME NEW y \in S PROVE x <= y
    OBVIOUS
  <2>1. ~ (<<y, x>> \in {ss \in Nat \X Nat : ss[1] < ss[2]})
    BY <1>2 DEF OpToRel
  <2>2. <<y, x>> \in Nat \X Nat
    OBVIOUS
  <2> QED BY <2>1, <2>2
<1> QED BY <1>3 DEF Min

LEMMA KeyFinite == IsFiniteSet(Key)
<1>1. IsFiniteSet(1..MaxPid) /\ IsFiniteSet(0..MaxPid)
  BY ProcFsAssumption, FS_Interval
<1> QED BY <1>1, FS_Product DEF Key, Pid

LEMMA KeyFields ==
  ASSUME NEW k \in Key
  PROVE  k[1] \in Pid /\ k[2] \in 0..MaxPid /\ k # NoKey /\ k = <<k[1], k[2]>>
BY ProcFsAssumption DEF Key, NoKey, Pid, NoPid

-----------------------------------------------------------------------------
(* Well-formedness, operation by operation *)

LEMMA DefaultProcessType == DefaultProcess \in Process
BY DEF DefaultProcess, Process, OwnedPriority

LEMMA EmptyMapWellFormed == WellFormed(EmptyMap)
BY DefaultProcessType DEF WellFormed, EmptyMap, Map, IndexSound, LinksSound, DefaultProcess

LEMMA MergeType ==
  ASSUME NEW old \in Process, NEW obs \in Observed
  PROVE  Merge(old, obs) \in Process /\ Merge(old, obs).parent = NoKey
BY DEF Merge, Process, Observed, OwnedPriority

LEMMA KeysOfType ==
  ASSUME NEW new, IsObservation(new)
  PROVE  /\ KeysOf(new) \subseteq Key
         /\ \A k \in KeysOf(new) : k[1] \in DOMAIN new
         /\ \A p \in DOMAIN new : <<p, new[p].ppid>> \in KeysOf(new)
BY DEF IsObservation, KeysOf, Key, Observed, Pid

LEMMA InsertWellFormed ==
  ASSUME NEW pm, WellFormed(pm), NEW new, IsObservation(new)
  PROVE  WellFormed(insert(pm, new))
<1> DEFINE res == insert(pm, new)
<1>1. pm.map \in SUBSET Key /\ pm.pid_map \in [Pid -> Key \cup {NoKey}]
      /\ pm.cell \in [Key -> Process]
  BY DEF WellFormed, Map
<1>2. KeysOf(new) \subseteq Key /\ \A k \in KeysOf(new) : k[1] \in DOMAIN new
  BY KeysOfType
<1>3. /\ res.map = pm.map \cup KeysOf(new)
      /\ res.pid_map = [p \in Pid |->
                          IF p \in DOMAIN new /\ <<p, new[p].ppid>> \notin pm.map
                          THEN <<p, new[p].ppid>> ELSE pm.pid_map[p]]
      /\ res.cell = [k \in Key |-> IF k \in KeysOf(new) THEN Merge(pm.cell[k], new[k[1]])
                                   ELSE pm.cell[k]]
      /\ res = [map |-> res.map, pid_map |-> res.pid_map, cell |-> res.cell]
  BY DEF insert
<1>4. \A k \in KeysOf(new) : new[k[1]] \in Observed
  BY <1>2 DEF IsObservation
<1>5. \A k \in Key : res.cell[k] \in Process
                     /\ res.cell[k].parent \in {pm.cell[k].parent, NoKey}
  BY <1>1, <1>3, <1>4, MergeType
<1>6. \A p \in Pid : res.pid_map[p] \in Key \cup {NoKey}
  BY <1>1, <1>2, <1>3, KeysOfType
<1>7. res \in Map
  <2>1. res.map \in SUBSET Key
    BY <1>1, <1>2, <1>3
  <2>2. res.pid_map \in [Pid -> Key \cup {NoKey}]
    BY <1>3, <1>6
  <2>3. res.cell \in [Key -> Process]
    BY <1>3, <1>5
  <2> QED BY <1>3, <2>1, <2>2, <2>3 DEF Map
<1>8. IndexSound(res)
  <2> SUFFICES ASSUME NEW p \in Pid, res.pid_map[p] # NoKey
               PROVE  res.pid_map[p] \in res.map /\ res.pid_map[p][1] = p
    BY DEF IndexSound
  <2>1. CASE p \in DOMAIN new /\ <<p, new[p].ppid>> \notin pm.map
    BY <1>3, <2>1, KeysOfType
  <2>2. CASE ~ (p \in DOMAIN new /\ <<p, new[p].ppid>> \notin pm.map)
    BY <1>3, <2>2 DEF WellFormed, IndexSound
  <2> QED BY <2>1, <2>2
<1>9. LinksSound(res)
  BY <1>3, <1>5 DEF WellFormed, LinksSound
<1> QED BY <1>7, <1>8, <1>9 DEF WellFormed

\* Replacing cells by processes whose parent pointers are sound is harmless.
LEMMA RecellWellFormed ==
  ASSUME NEW pm, WellFormed(pm), NEW c \in [Key -> Process],
         \A k \in Key : c[k].parent # NoKey => c[k].parent \in pm.map /\ c[k].parent[1] = k[2]
  PROVE  WellFormed([pm EXCEPT !.cell = c])
<1>1. pm = [map |-> pm.map, pid_map |-> pm.pid_map, cell |-> pm.cell]
  BY DEF WellFormed, Map
<1>2. [pm EXCEPT !.cell = c] = [map |-> pm.map, pid_map |-> pm.pid_map, cell |-> c]
  BY <1>1
<1> QED BY <1>2 DEF WellFormed, Map, IndexSound, LinksSound

LEMMA GetPidSound ==
  ASSUME NEW pm, WellFormed(pm), NEW p, get_pid(pm, p) # NoKey
  PROVE  get_pid(pm, p) \in pm.map /\ get_pid(pm, p)[1] = p /\ get_pid(pm, p) \in Key /\ p \in Pid
BY DEF WellFormed, IndexSound, Map, get_pid

LEMMA LinkWellFormed ==
  ASSUME NEW pm, WellFormed(pm), NEW S
  PROVE  WellFormed(link(pm, S))
<1> DEFINE c == [k \in Key |->
     IF k \in S /\ get_pid(pm, k[2]) # NoKey
     THEN [pm.cell[k] EXCEPT !.parent = get_pid(pm, k[2])]
     ELSE pm.cell[k]]
<1>1. pm.cell \in [Key -> Process]
  BY DEF WellFormed, Map
<1>2. ASSUME NEW k \in Key
      PROVE  /\ c[k] \in Process
             /\ c[k].parent # NoKey => c[k].parent \in pm.map /\ c[k].parent[1] = k[2]
  <2>1. CASE k \in S /\ get_pid(pm, k[2]) # NoKey
    <3>1. c[k] = [pm.cell[k] EXCEPT !.parent = get_pid(pm, k[2])]
      BY <2>1
    <3>2. get_pid(pm, k[2]) \in pm.map /\ get_pid(pm, k[2])[1] = k[2] /\ get_pid(pm, k[2]) \in Key
      BY <2>1, GetPidSound
    <3>3. pm.cell[k] \in Process
      BY <1>1
    <3> HIDE DEF c
    <3> QED BY <3>1, <3>2, <3>3 DEF Process
  <2>2. CASE ~ (k \in S /\ get_pid(pm, k[2]) # NoKey)
    BY <1>1, <2>2 DEF WellFormed, LinksSound
  <2> QED BY <2>1, <2>2
<1>3. c \in [Key -> Process]
  BY <1>2
<1>4. link(pm, S) = [pm EXCEPT !.cell = c]
  BY DEF link
<1> HIDE DEF c
<1> QED BY <1>2, <1>3, <1>4, RecellWellFormed

\* Dropping cells also drops every pointer to them.
LEMMA DrainFilterWellFormed ==
  ASSUME NEW pm, WellFormed(pm), NEW retained
  PROVE  WellFormed(drain_filter(pm, retained))
<1> DEFINE drain == pm.map \ retained
           res == drain_filter(pm, retained)
<1>1. /\ pm.map \in SUBSET Key
      /\ pm.pid_map \in [Pid -> Key \cup {NoKey}]
      /\ pm.cell \in [Key -> Process]
  BY DEF WellFormed, Map
<1>2. /\ res.map = pm.map \ drain
      /\ res.pid_map = [p \in Pid |-> IF \E k \in drain : k[1] = p THEN NoKey
                                      ELSE pm.pid_map[p]]
      /\ res.cell = [k \in Key |->
                       IF k \in drain THEN DefaultProcess
                       ELSE IF pm.cell[k].parent \in drain
                            THEN [pm.cell[k] EXCEPT !.parent = NoKey]
                            ELSE pm.cell[k]]
      /\ res = [map |-> res.map, pid_map |-> res.pid_map, cell |-> res.cell]
  BY DEF drain_filter
<1> HIDE DEF res
<1>3. ASSUME NEW k \in Key
      PROVE  /\ res.cell[k] \in Process
             /\ res.cell[k].parent # NoKey =>
                  res.cell[k].parent = pm.cell[k].parent /\ pm.cell[k].parent \notin drain
  <2>1. CASE k \in drain
    <3>1. res.cell[k] = DefaultProcess
      BY <1>2, <2>1
    <3> QED BY <3>1, DefaultProcessType DEF DefaultProcess
  <2>2. CASE k \notin drain /\ pm.cell[k].parent \in drain
    <3>1. res.cell[k] = [pm.cell[k] EXCEPT !.parent = NoKey]
      BY <1>2, <2>2
    <3>2. pm.cell[k] \in Process
      BY <1>1
    <3> QED BY <3>1, <3>2 DEF Process
  <2>3. CASE k \notin drain /\ pm.cell[k].parent \notin drain
    BY <1>1, <1>2, <2>3
  <2> QED BY <2>1, <2>2, <2>3
<1>4. res \in Map
  <2>1. res.map \in SUBSET Key
    BY <1>1, <1>2
  <2>2. res.pid_map \in [Pid -> Key \cup {NoKey}]
    BY <1>1, <1>2
  <2>3. res.cell \in [Key -> Process]
    BY <1>2, <1>3
  <2> QED BY <1>2, <2>1, <2>2, <2>3 DEF Map
<1>5. IndexSound(res)
  <2> SUFFICES ASSUME NEW p \in Pid, res.pid_map[p] # NoKey
               PROVE  res.pid_map[p] \in res.map /\ res.pid_map[p][1] = p
    BY DEF IndexSound
  <2>1. ~ (\E k \in drain : k[1] = p) /\ res.pid_map[p] = pm.pid_map[p]
    BY <1>2
  <2>2. pm.pid_map[p] \in pm.map /\ pm.pid_map[p][1] = p
    BY <2>1 DEF WellFormed, IndexSound
  <2> QED BY <1>2, <2>1, <2>2
<1>6. LinksSound(res)
  <2> SUFFICES ASSUME NEW k \in Key, res.cell[k].parent # NoKey
               PROVE  res.cell[k].parent \in res.map /\ res.cell[k].parent[1] = k[2]
    BY DEF LinksSound
  <2>1. res.cell[k].parent = pm.cell[k].parent /\ pm.cell[k].parent \notin drain
    BY <1>3
  <2>2. pm.cell[k].parent \in pm.map /\ pm.cell[k].parent[1] = k[2]
    BY <2>1 DEF WellFormed, LinksSound
  <2> QED BY <1>2, <2>1, <2>2
<1> QED BY <1>4, <1>5, <1>6 DEF WellFormed, res

\* Assignments only yields priorities there are.
LEMMA AssignmentType ==
  ASSUME NEW config, IsConfig(config), NEW pm, NEW k
  PROVE  assignment(config, pm, k) \in OwnedPriority
<1>1. config.conditions \in Seq(ProfileRules)
  BY DEF IsConfig
<1>2. Takers(config, pm, k) \subseteq Nat /\ Takers(config, pm, k) \subseteq DOMAIN config.conditions
  BY <1>1 DEF Takers
<1> DEFINE name == pm.cell[k].name
<1>3. name \in DOMAIN config.profile_by_name => config.profile_by_name[name] \in Profiles
  BY DEF IsConfig
<1>4. Takers(config, pm, k) # {}
        => config.conditions[Min(Takers(config, pm, k))].profile \in Profiles
  <2> SUFFICES ASSUME Takers(config, pm, k) # {}
               PROVE  config.conditions[Min(Takers(config, pm, k))].profile \in Profiles
    OBVIOUS
  <2>1. Min(Takers(config, pm, k)) \in DOMAIN config.conditions
    BY <1>2, MinIsMember
  <2>2. \A i \in DOMAIN config.conditions : config.conditions[i] \in ProfileRules
    BY <1>1
  <2>3. \A r \in ProfileRules : r.profile \in Profiles
    BY DEF ProfileRules
  <2> QED BY <2>1, <2>2, <2>3
<1>5. \/ assignment(config, pm, k) = Exception
      \/ name \in DOMAIN config.profile_by_name
         /\ assignment(config, pm, k) = config.profile_by_name[name]
      \/ assignment(config, pm, k) = NotAssignable
      \/ assignment(config, pm, k) = Assignable
      \/ Takers(config, pm, k) # {}
         /\ assignment(config, pm, k) = config.conditions[Min(Takers(config, pm, k))].profile
  BY Zenon DEF assignment
<1> HIDE DEF name
<1> QED BY <1>3, <1>4, <1>5 DEF OwnedPriority
\* Only a process without a cgroup is left undecided.
LEMMA AssignmentDecides ==
  ASSUME NEW config, IsConfig(config), NEW pm, NEW k, pm.cell[k].cgroup # NoCgroup
  PROVE  assignment(config, pm, k) # NotAssignable
<1> DEFINE name == pm.cell[k].name
<1>1. NotAssignable \notin Profiles /\ NotAssignable \notin {Exception, Assignable}
  BY ProfilesAssumption DEF NotAssignable, Exception, Assignable
<1>2. name \in DOMAIN config.profile_by_name => config.profile_by_name[name] \in Profiles
  BY DEF IsConfig
<1>3. Takers(config, pm, k) # {}
        => config.conditions[Min(Takers(config, pm, k))].profile \in Profiles
  <2> SUFFICES ASSUME Takers(config, pm, k) # {}
               PROVE  config.conditions[Min(Takers(config, pm, k))].profile \in Profiles
    OBVIOUS
  <2>1. config.conditions \in Seq(ProfileRules)
    BY DEF IsConfig
  <2>2. Takers(config, pm, k) \subseteq DOMAIN config.conditions
    BY DEF Takers
  <2>3. Min(Takers(config, pm, k)) \in DOMAIN config.conditions
    BY <2>1, <2>2, MinIsMember
  <2>4. config.conditions[Min(Takers(config, pm, k))] \in ProfileRules
    BY <2>1, <2>3
  <2> QED BY <2>4 DEF ProfileRules
<1>4. \/ assignment(config, pm, k) \in {Exception, Assignable}
      \/ name \in DOMAIN config.profile_by_name
         /\ assignment(config, pm, k) = config.profile_by_name[name]
      \/ Takers(config, pm, k) # {}
         /\ assignment(config, pm, k) = config.conditions[Min(Takers(config, pm, k))].profile
  BY Zenon DEF assignment
<1> HIDE DEF name
<1> QED BY <1>1, <1>2, <1>3, <1>4

-----------------------------------------------------------------------------
(* The ancestors of a process *)

\* The bound of the recursion in Lineage makes a function of it.
LEMMA LineageFollows ==
  ASSUME NEW pm, WellFormed(pm), NEW k \in Key
  PROVE  LET L == Cardinality(pm.map) line == Lineage(pm, k) IN
         /\ L \in Nat
         /\ line \in [0..L -> pm.map \cup {NoKey}]
         /\ line[0] = pm.cell[k].parent
         /\ \A n \in 1..L :
              line[n] = IF line[n - 1] = NoKey THEN NoKey ELSE pm.cell[line[n - 1]].parent
<1> DEFINE L == Cardinality(pm.map)
           V == pm.map \cup {NoKey}
           up(below) == IF below = NoKey THEN NoKey ELSE pm.cell[below].parent
           step == [s \in (1..L) \X V |-> up(s[2])]
           base == pm.cell[k].parent
           body(f) == [n \in 0..L |-> IF n = 0 THEN base ELSE up(f[n - 1])]
<1>1. L \in Nat
  BY KeyFinite, FS_Subset, FS_CardinalityType DEF WellFormed, Map
<1>2. \A c \in Key : pm.cell[c].parent \in V
  BY DEF WellFormed, LinksSound
<1>3. pm.map \subseteq Key
  BY DEF WellFormed, Map
<1>4. base \in V /\ \A below \in V : up(below) \in V
  BY <1>2, <1>3
<1> HIDE DEF L, V, up, base
<1>5. StepOn(step, L, V)
  BY <1>4 DEF StepOn
<1>6. \A n \in 1..L, below \in V : step[<<n, below>>] = up(below)
  OBVIOUS
<1> HIDE DEF step
<1>7. PICK f : Follows(f, step, base, L, V)
  BY <1>1, <1>4, <1>5, RecursionDefines
<1>8. f \in [0..L -> V] /\ f[0] = base /\ \A n \in 1..L : f[n] = up(f[n - 1])
  <2>1. \A n \in 1..L : f[n - 1] \in V
    BY <1>1, <1>7 DEF Follows
  <2> QED BY <1>6, <1>7, <2>1 DEF Follows
<1>9. f = body(f)
  <2>1. \A n \in 0..L : f[n] = IF n = 0 THEN base ELSE up(f[n - 1])
    BY <1>1, <1>8
  <2> QED BY <1>8, <2>1
<1> DEFINE walk == CHOOSE g : g = body(g)
           line == Lineage(pm, k)
<1>10. line = [n \in 0..L |-> walk[n]]
  BY Zenon DEF Lineage, L, up, base
<1>11. walk = body(walk)
  <2> HIDE DEF body
  <2> QED BY <1>9
<1> HIDE DEF walk
<1>12. \A n \in 0..L : walk[n] = IF n = 0 THEN base ELSE up(walk[n - 1])
  BY <1>11
<1> HIDE DEF body, line
<1>13. \A n \in 0..L : line[n] = walk[n]
  BY <1>10
<1>14. \A n \in 0..L : walk[n] = f[n]
  <2> DEFINE T == {n \in 0..L : walk[n] = f[n]}
  <2>1. 0 \in T
    BY <1>1, <1>8, <1>12
  <2>2. ASSUME NEW n \in 1..L, n - 1 \in T
        PROVE  n \in T
    BY <1>1, <1>8, <1>12, <2>2
  <2> HIDE DEF T
  <2>3. 0..L \subseteq T
    BY <1>1, <2>1, <2>2, IntervalInduction
  <2> QED BY <2>3 DEF T
<1>15. line \in [0..L -> V]
  BY <1>8, <1>10, <1>14
<1>16. line[0] = base /\ \A n \in 1..L : line[n] = up(line[n - 1])
  BY <1>1, <1>8, <1>13, <1>14
<1> QED BY <1>1, <1>15, <1>16 DEF line, up, V, L, base

\* The walk that Lineage cuts off at the size of the map has come back to where it
\* was by then, or ended: it misses no ancestor.
LEMMA AncestorsClosed ==
  ASSUME NEW pm, WellFormed(pm), NEW k \in Key
  PROVE  /\ pm.cell[k].parent # NoKey => pm.cell[k].parent \in ancestors(pm, k)
         /\ \A a \in ancestors(pm, k) :
              pm.cell[a].parent # NoKey => pm.cell[a].parent \in ancestors(pm, k)
<1> DEFINE L == Cardinality(pm.map)
           line == Lineage(pm, k)
<1>1. /\ L \in Nat
      /\ line \in [0..L -> pm.map \cup {NoKey}]
      /\ line[0] = pm.cell[k].parent
      /\ \A n \in 1..L :
           line[n] = IF line[n - 1] = NoKey THEN NoKey ELSE pm.cell[line[n - 1]].parent
  BY LineageFollows
<1>2. /\ pm.map \subseteq Key /\ NoKey \notin Key
      /\ \A c \in Key : pm.cell[c].parent # NoKey => pm.cell[c].parent \in pm.map
  BY KeyFields DEF WellFormed, LinksSound, Map
<1>3. ancestors(pm, k) = {line[n] : n \in 0..L} \cap pm.map
  BY <1>1 DEF ancestors
<1>4. IsFiniteSet(pm.map)
  BY KeyFinite, FS_Subset DEF WellFormed, Map
<1> HIDE DEF line
<1>5. pm.cell[k].parent # NoKey => pm.cell[k].parent \in ancestors(pm, k)
  BY <1>1, <1>2, <1>3
<1>6. ASSUME NEW n \in 0..L, line[n] # NoKey, pm.cell[line[n]].parent # NoKey
      PROVE  \E m \in 0..L : line[m] = pm.cell[line[n]].parent
  <2>1. CASE n < L
    <3>1. n + 1 \in 1..L /\ (n + 1) - 1 = n
      BY <1>1, <2>1
    <3>2. line[n + 1] = pm.cell[line[n]].parent
      BY <1>1, <1>6, <3>1
    <3> QED BY <3>1, <3>2
  <2>2. CASE n = L
    <3>1. \A m \in 0..L : line[m] # NoKey
      <4> DEFINE T == {m \in 0..L : line[L - m] # NoKey}
      <4>1. 0 \in T
        BY <1>1, <1>6, <2>2
      <4>2. ASSUME NEW m \in 1..L, m - 1 \in T
            PROVE  m \in T
        <5>1. L - m + 1 \in 1..L /\ L - (m - 1) = L - m + 1 /\ (L - m + 1) - 1 = L - m
          BY <1>1
        <5>2. line[L - m + 1] # NoKey
          BY <4>2, <5>1
        <5>3. line[L - m] # NoKey
          BY <1>1, <5>1, <5>2
        <5> QED BY <1>1, <5>3
      <4> HIDE DEF T
      <4>3. 0..L \subseteq T
        BY <1>1, <4>1, <4>2, IntervalInduction
      <4>4. ASSUME NEW m \in 0..L
            PROVE  line[m] # NoKey
        <5>1. L - m \in 0..L /\ L - (L - m) = m
          BY <1>1
        <5> QED BY <4>3, <5>1 DEF T
      <4> QED BY <4>4
    <3>2. \A m \in 1..L : line[m] = pm.cell[line[m - 1]].parent
      BY <1>1, <3>1
    <3>3. PICK i \in 0..L, j \in 0..L : i < j /\ line[i] = line[j]
      <4>1. line \in [0..L -> pm.map]
        BY <1>1, <3>1
      <4>2. IsFiniteSet(0..L) /\ Cardinality(0..L) = L + 1
        BY <1>1, FS_Interval
      <4>3. PICK x \in 0..L, y \in 0..L : x # y /\ line[x] = line[y]
        <5>1. Cardinality(pm.map) < Cardinality(0..L)
          BY <1>1, <4>2
        <5> HIDE DEF L
        <5> QED BY <1>4, <4>1, <4>2, <5>1, FS_PigeonHole
      <4> QED BY <1>1, <4>3
    <3>4. \A m \in 0..(L - j) : line[i + m] = line[j + m]
      <4> DEFINE T == {m \in 0..(L - j) : line[i + m] = line[j + m]}
      <4>1. 0 \in T /\ L - j \in Nat
        BY <1>1, <3>3
      <4>2. ASSUME NEW m \in 1..(L - j), m - 1 \in T
            PROVE  m \in T
        <5>1. /\ i + m \in 1..L /\ (i + m) - 1 = i + (m - 1)
              /\ j + m \in 1..L /\ (j + m) - 1 = j + (m - 1)
          BY <1>1, <3>3
        <5>2. line[i + (m - 1)] = line[j + (m - 1)]
          BY <4>2
        <5>3. line[i + m] = line[j + m]
          BY <3>2, <5>1, <5>2
        <5> QED BY <5>3
      <4> HIDE DEF T
      <4>3. 0..(L - j) \subseteq T
        BY <4>1, <4>2, IntervalInduction
      <4> QED BY <4>3 DEF T
    <3>5. L - j \in 0..(L - j) /\ j + (L - j) = L
      BY <1>1, <3>3
    <3>6. line[i + (L - j)] = line[L]
      BY <3>4, <3>5
    <3>7. i + (L - j) + 1 \in 1..L /\ (i + (L - j) + 1) - 1 = i + (L - j)
      BY <1>1, <3>3
    <3>8. line[i + (L - j) + 1] = pm.cell[line[i + (L - j)]].parent
      BY <3>2, <3>7
    <3> QED BY <2>2, <3>6, <3>7, <3>8
  <2> QED BY <1>1, <2>1, <2>2
<1>7. ASSUME NEW a \in ancestors(pm, k), pm.cell[a].parent # NoKey
      PROVE  pm.cell[a].parent \in ancestors(pm, k)
  <2>1. PICK n \in 0..L : a = line[n]
    BY <1>3
  <2>2. a \in pm.map /\ a # NoKey
    BY <1>2, <1>3
  <2>3. \E m \in 0..L : line[m] = pm.cell[a].parent
    BY <1>6, <1>7, <2>1, <2>2
  <2>4. pm.cell[a].parent \in pm.map
    BY <1>2, <1>7, <2>2
  <2> QED BY <1>3, <2>3, <2>4
<1> QED BY <1>5, <1>7

\* And it finds none that following the parent pointers would not lead to.
LEMMA AncestorsLeast ==
  ASSUME NEW pm, WellFormed(pm), NEW k \in Key, NEW U,
         pm.cell[k].parent # NoKey => pm.cell[k].parent \in U,
         \A a \in U \cap pm.map : pm.cell[a].parent # NoKey => pm.cell[a].parent \in U
  PROVE  ancestors(pm, k) \subseteq U
<1> DEFINE L == Cardinality(pm.map)
           line == Lineage(pm, k)
           T == {n \in 0..L : line[n] \in U \cup {NoKey}}
<1>1. /\ L \in Nat
      /\ line \in [0..L -> pm.map \cup {NoKey}]
      /\ line[0] = pm.cell[k].parent
      /\ \A n \in 1..L :
           line[n] = IF line[n - 1] = NoKey THEN NoKey ELSE pm.cell[line[n - 1]].parent
  BY LineageFollows
<1>2. NoKey \notin pm.map
  BY KeyFields DEF WellFormed, Map
<1>3. ancestors(pm, k) = {line[n] : n \in 0..L} \cap pm.map
  BY <1>1 DEF ancestors
<1> HIDE DEF line
<1>4. 0 \in T
  BY <1>1
<1>5. ASSUME NEW n \in 1..L, n - 1 \in T
      PROVE  n \in T
  <2>1. line[n - 1] \in pm.map \cup {NoKey}
    BY <1>1
  <2> QED BY <1>1, <1>5, <2>1
<1> HIDE DEF T
<1>6. 0..L \subseteq T
  BY <1>1, <1>4, <1>5, IntervalInduction
<1>7. \A n \in 0..L : line[n] \in U \cup {NoKey}
  BY <1>6 DEF T
<1> QED BY <1>2, <1>3, <1>7

\* A set that holds the parent cell of k, if any, and that of each of its members.
HoldsParents(pm, k, U) ==
  \A a \in (U \cap pm.map) \cup {k} : pm.cell[a].parent # NoKey => pm.cell[a].parent \in U

\* The ancestors that every condition on descendants and every mark is decided by
\* are, in a well-formed map, the least such set: all that the unbounded walk of
\* Process::ancestors comes by, and nothing else.
THEOREM AncestorsExact ==
  ASSUME NEW pm, WellFormed(pm), NEW k \in Key
  PROVE  /\ HoldsParents(pm, k, ancestors(pm, k))
         /\ \A U : HoldsParents(pm, k, U) => ancestors(pm, k) \subseteq U
<1>1. HoldsParents(pm, k, ancestors(pm, k))
  BY AncestorsClosed DEF HoldsParents
<1>2. ASSUME NEW U, HoldsParents(pm, k, U)
      PROVE  ancestors(pm, k) \subseteq U
  <2>1. /\ pm.cell[k].parent # NoKey => pm.cell[k].parent \in U
        /\ \A a \in U \cap pm.map : pm.cell[a].parent # NoKey => pm.cell[a].parent \in U
    BY <1>2 DEF HoldsParents
  <2> QED BY <2>1, AncestorsLeast
<1> QED BY <1>1, <1>2
=============================================================================
