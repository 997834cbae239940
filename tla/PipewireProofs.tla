--------------------------- MODULE PipewireProofs ---------------------------
(***************************************************************************)
(* The pipewire monitor implements the feed that the main loop relies on,  *)
(* for every number of processes, nodes, lines and events, crashes of the  *)
(* child and restarts of the server included.                              *)
(***************************************************************************)
EXTENDS PipewireMonitor, SequenceLemmas, TLAPS

\* No report about the process of the i-th event is before it, and after it.
FirstOfItsPid(i) == \A j \in 1..(i - 1) : events[j].pid # events[i].pid
LastOfItsPid(i)  == \A j \in (i + 1)..Len(events) : events[j].pid # events[i].pid

\* The reports about a process alternate: the first one contradicts what the main
\* loop takes to be the case, the last one agrees with the list of the monitor.
Alternates ==
  /\ \A i \in 1..Len(events) : FirstOfItsPid(i) =>
       (events[i].method = "add" <=> events[i].pid \notin used)
  /\ \A i, k \in 1..Len(events) :
       /\ i < k /\ events[i].pid = events[k].pid
       /\ \A j \in (i + 1)..(k - 1) : events[j].pid # events[k].pid
       => events[i].method # events[k].method
  /\ \A i \in 1..Len(events) : LastOfItsPid(i) =>
       (events[i].method = "add" <=> events[i].pid \in managed)
  /\ \A p \in Pids : (\A i \in 1..Len(events) : events[i].pid # p) =>
       (p \in used <=> p \in managed)

\* Without a connection there is nothing to listen to.
ListensIfOpen == session # "open" => listening = {}

Typed == TypeOK /\ ListensIfOpen

PipewireInv == Typed /\ Alternates

-----------------------------------------------------------------------------
(* The lines *)

LEMMA EventType ==
  ASSUME NEW p \in Pids
  PROVE  Add(p) \in ProcessEvent /\ Remove(p) \in ProcessEvent
BY DEF Add, Remove, ProcessEvent

-----------------------------------------------------------------------------
(* Types *)

LEMMA TypeInit == Init => Typed
<1> SUFFICES ASSUME Init
             PROVE  Typed
  OBVIOUS
<1>1. NoNodes \in [Ids -> Pids \cup {NoPid}]
  BY DEF NoNodes
<1>2. <<>> \in Seq(ProcessEvent) /\ Len(<<>>) = 0
  OBVIOUS
<1>3. 0 <= MaxPipe /\ 0 <= MaxEvents
  BY PipewireAssumption
<1> QED BY <1>1, <1>2, <1>3 DEF Init, Typed, TypeOK, ListensIfOpen

LEMMA TypeNext == Typed /\ [Next]_vars => Typed'
<1> SUFFICES ASSUME Typed, [Next]_vars
             PROVE  Typed'
  OBVIOUS
<1> USE PipewireAssumption DEF Typed, TypeOK, ListensIfOpen
<1>0. NoNodes \in [Ids -> Pids \cup {NoPid}]
  BY DEF NoNodes
<1>1. ASSUME NEW i \in Ids, NodeInfo(i)
      PROVE  Typed'
  <2>1. graph[i] \in Pids
    BY <1>1 DEF NodeInfo
  <2>2. pipe' \in Seq(ProcessEvent) /\ Len(pipe') <= MaxPipe
    BY <1>1, <2>1, EventType, AppendOf DEF NodeInfo
  <2> QED BY <1>1, <2>1, <2>2 DEF NodeInfo
<1>2. ASSUME NEW i \in Ids, NodeVanishes(i)
      PROVE  Typed'
  <2>1. graph[i] \in Pids /\ (reported[i] # NoPid => reported[i] \in Pids)
    BY <1>2 DEF NodeVanishes
  <2>2. pipe' \in Seq(ProcessEvent) /\ Len(pipe') <= MaxPipe
    <3>1. CASE reported[i] = NoPid
      BY <1>2, <3>1 DEF NodeVanishes
    <3>2. CASE reported[i] # NoPid
      <4>1. Len(pipe) < MaxPipe /\ pipe' = Append(pipe, Remove(reported[i]))
        BY <1>2, <3>2 DEF NodeVanishes
      <4>2. Remove(reported[i]) \in ProcessEvent
        BY <2>1, <3>2, EventType
      <4> QED BY <4>1, <4>2, AppendOf
    <3> QED BY <3>1, <3>2
  <2>3. missed' \subseteq Pids
    BY <1>2, <2>1 DEF NodeVanishes
  <2> QED BY <1>2, <2>2, <2>3 DEF NodeVanishes
<1>3. ASSUME NEW i \in Ids, NEW p \in Pids, NodeAppears(i, p)
      PROVE  Typed'
  BY <1>3 DEF NodeAppears
<1>4. CASE ServerRestarts
  BY <1>0, <1>4 DEF ServerRestarts
<1>5. CASE CollectListeners
  BY <1>5 DEF CollectListeners
<1>6. CASE Crash
  <2>1. PICK n \in 0..Len(pipe) :
          /\ pipe' = SubSeq(pipe, 1, n)
          /\ missed' = missed \cup {SubSeq(pipe, n + 1, Len(pipe))[i].pid :
                                      i \in DOMAIN SubSeq(pipe, n + 1, Len(pipe))}
    BY <1>6 DEF Crash
  <2>2. pipe' \in Seq(ProcessEvent) /\ Len(pipe') <= MaxPipe
    BY <2>1
  <2>3. SubSeq(pipe, n + 1, Len(pipe)) \in Seq(ProcessEvent)
    BY <2>1
  <2>4. \A i \in DOMAIN SubSeq(pipe, n + 1, Len(pipe)) :
          SubSeq(pipe, n + 1, Len(pipe))[i].pid \in Pids
    BY <2>3 DEF ProcessEvent
  <2> QED BY <1>0, <1>6, <2>1, <2>2, <2>4 DEF Crash
<1>7. CASE Restart \/ Connect
  BY <1>7 DEF Restart, Connect
<1>8. CASE ReadLine
  <2>1. Head(pipe) \in ProcessEvent /\ pipe' \in Seq(ProcessEvent) /\ Len(pipe') <= MaxPipe
    BY <1>8, TailOf DEF ReadLine
  <2>2. events' \in Seq(ProcessEvent) /\ Len(events') <= MaxEvents
    <3>1. \/ events' = events
          \/ Len(events) < MaxEvents /\ events' = Append(events, Head(pipe))
      BY <1>8 DEF ReadLine
    <3>2. CASE Len(events) < MaxEvents /\ events' = Append(events, Head(pipe))
      <4> DEFINE e == Head(pipe)
      <4>1. e \in ProcessEvent /\ events' = Append(events, e)
        BY <2>1, <3>2
      <4> HIDE DEF e
      <4> QED BY <3>2, <4>1, AppendOf
    <3> QED BY <3>1, <3>2
  <2>3. managed' \subseteq Pids
    BY <1>8, <2>1 DEF ReadLine, Update, ProcessEvent
  <2> QED BY <1>8, <2>1, <2>2, <2>3 DEF ReadLine, childVars
<1>9. CASE Handle
  <2>1. Head(events) \in ProcessEvent /\ events' \in Seq(ProcessEvent) /\ Len(events') <= MaxEvents
    BY <1>9, TailOf DEF Handle
  <2>2. used' \subseteq Pids
    BY <1>9, <2>1 DEF Handle, ProcessEvent
  <2> QED BY <1>9, <2>1, <2>2 DEF Handle, childVars
<1>10. CASE UNCHANGED vars
  BY <1>10 DEF vars, childVars
<1> QED BY <1>1, <1>2, <1>3, <1>4, <1>5, <1>6, <1>7, <1>8, <1>9, <1>10 DEF Next

-----------------------------------------------------------------------------
(* The reports alternate *)

LEMMA ReadLineAlternates ==
  ASSUME Typed, Alternates, ReadLine
  PROVE  Alternates'
<1> DEFINE e == Head(pipe)
           n == Len(events)
<1>1. CASE UNCHANGED <<managed, events>>
  BY <1>1 DEF ReadLine, Alternates, FirstOfItsPid, LastOfItsPid
<1>2. CASE ~ UNCHANGED <<managed, events>>
  <2>1. e \in ProcessEvent /\ n \in Nat
    BY TailOf DEF Typed, TypeOK, ReadLine
  <2>2. /\ (e.method = "add") # (e.pid \in managed)
        /\ managed' = IF e.method = "add" THEN managed \cup {e.pid} ELSE managed \ {e.pid}
        /\ events' = Append(events, e)
        /\ used' = used
    BY <1>2 DEF ReadLine, Update
  <2> HIDE DEF e
  <2>3. /\ Len(events') = n + 1
        /\ \A i \in 1..n : events'[i] = events[i]
        /\ events'[n + 1] = e
    BY <2>1, <2>2, AppendOf DEF Typed, TypeOK
  <2> HIDE DEF n
  <2>4. /\ \A i \in 1..n : FirstOfItsPid(i) =>
             (events[i].method = "add" <=> events[i].pid \notin used)
        /\ \A i, k \in 1..n :
             /\ i < k /\ events[i].pid = events[k].pid
             /\ \A j \in (i + 1)..(k - 1) : events[j].pid # events[k].pid
             => events[i].method # events[k].method
        /\ \A i \in 1..n : (\A j \in (i + 1)..n : events[j].pid # events[i].pid) =>
             (events[i].method = "add" <=> events[i].pid \in managed)
        /\ \A p \in Pids : (\A i \in 1..n : events[i].pid # p) => (p \in used <=> p \in managed)
    BY DEF Alternates, LastOfItsPid, n
  <2>5. e.method \in {"add", "rem"} /\ e.pid \in Pids
    BY <2>1 DEF ProcessEvent
  <2>6. ASSUME NEW i \in 1..(n + 1), FirstOfItsPid(i)'
        PROVE  events'[i].method = "add" <=> events'[i].pid \notin used'
    <3>1. CASE i = n + 1
      BY <2>1, <2>2, <2>3, <2>4, <2>5, <2>6, <3>1 DEF FirstOfItsPid
    <3>2. CASE i # n + 1
      BY <2>1, <2>2, <2>3, <2>4, <2>6, <3>2 DEF FirstOfItsPid
    <3> QED BY <3>1, <3>2
  <2>7. ASSUME NEW i \in 1..(n + 1), NEW k \in 1..(n + 1),
               i < k, events'[i].pid = events'[k].pid,
               \A j \in (i + 1)..(k - 1) : events'[j].pid # events'[k].pid
        PROVE  events'[i].method # events'[k].method
    <3>1. CASE k = n + 1
      <4>1. \A j \in (i + 1)..n : events[j].pid # events[i].pid
        BY <2>1, <2>3, <2>7, <3>1
      <4>2. events[i].method = "add" <=> events[i].pid \in managed
        BY <2>1, <2>4, <2>7, <3>1, <4>1
      <4> QED BY <2>1, <2>2, <2>3, <2>5, <2>7, <3>1, <4>2
    <3>2. CASE k # n + 1
      BY <2>1, <2>3, <2>4, <2>7, <3>2
    <3> QED BY <3>1, <3>2
  <2>8. ASSUME NEW i \in 1..(n + 1),
               \A j \in (i + 1)..(n + 1) : events'[j].pid # events'[i].pid
        PROVE  events'[i].method = "add" <=> events'[i].pid \in managed'
    <3>1. CASE i = n + 1
      BY <2>2, <2>3, <2>5, <3>1
    <3>2. CASE i # n + 1
      <4>1. events[i].pid # e.pid /\ events'[i] = events[i]
        BY <2>1, <2>3, <2>8, <3>2
      <4>2. \A j \in (i + 1)..n : events[j].pid # events[i].pid
        BY <2>1, <2>3, <2>8, <3>2
      <4> QED BY <2>1, <2>2, <2>4, <3>2, <4>1, <4>2
    <3> QED BY <3>1, <3>2
  <2>9. ASSUME NEW p \in Pids, \A i \in 1..(n + 1) : events'[i].pid # p
        PROVE  p \in used' <=> p \in managed'
    BY <2>1, <2>2, <2>3, <2>4, <2>9
  <2> QED BY <2>3, <2>6, <2>7, <2>8, <2>9 DEF Alternates, LastOfItsPid
<1> QED BY <1>1, <1>2

LEMMA HandleAlternates ==
  ASSUME Typed, Alternates, Handle
  PROVE  Alternates'
<1> DEFINE e == events[1]
           n == Len(events) - 1
<1>1. /\ e \in ProcessEvent /\ n \in Nat /\ Len(events) = n + 1
      /\ Head(events) = e
      /\ Len(events') = n
      /\ \A i \in 1..n : events'[i] = events[i + 1]
  BY TailOf DEF Typed, TypeOK, Handle
<1>2. /\ used' = IF e.method = "add" THEN used \cup {e.pid} ELSE used \ {e.pid}
      /\ managed' = managed
  BY <1>1 DEF Handle
<1> HIDE DEF n
<1>3. /\ \A i \in 1..(n + 1) : (\A j \in 1..(i - 1) : events[j].pid # events[i].pid) =>
           (events[i].method = "add" <=> events[i].pid \notin used)
      /\ \A i, k \in 1..(n + 1) :
           /\ i < k /\ events[i].pid = events[k].pid
           /\ \A j \in (i + 1)..(k - 1) : events[j].pid # events[k].pid
           => events[i].method # events[k].method
      /\ \A i \in 1..(n + 1) : (\A j \in (i + 1)..(n + 1) : events[j].pid # events[i].pid) =>
           (events[i].method = "add" <=> events[i].pid \in managed)
      /\ \A p \in Pids : (\A i \in 1..(n + 1) : events[i].pid # p) =>
           (p \in used <=> p \in managed)
  BY <1>1 DEF Alternates, FirstOfItsPid, LastOfItsPid
<1>4. e.method \in {"add", "rem"} /\ e.pid \in Pids
  BY <1>1 DEF ProcessEvent
<1>5. \A i \in 1..(n + 1) : events[i].method \in {"add", "rem"} /\ events[i].pid \in Pids
  <2>1. \A i \in 1..(n + 1) : events[i] \in ProcessEvent
    BY <1>1 DEF Typed, TypeOK
  <2> QED BY <2>1 DEF ProcessEvent
<1>6. ASSUME NEW i \in 1..n, \A j \in 1..(i - 1) : events'[j].pid # events'[i].pid
      PROVE  events'[i].method = "add" <=> events'[i].pid \notin used'
  <2>1. i + 1 \in 1..(n + 1) /\ events'[i] = events[i + 1] /\ 1 < i + 1 /\ 1 \in 1..(n + 1)
    BY <1>1
  <2>2. \A j \in 2..i : events[j].pid # events[i + 1].pid
    <3> SUFFICES ASSUME NEW j \in 2..i
                 PROVE  events[j].pid # events[i + 1].pid
      OBVIOUS
    <3>1. j - 1 \in 1..(i - 1) /\ j - 1 \in 1..n /\ events'[j - 1] = events[(j - 1) + 1]
      BY <1>1
    <3>2. events'[j - 1] = events[j]
      BY <3>1
    <3> QED BY <1>6, <2>1, <3>1, <3>2
  <2>3. CASE events[i + 1].pid = e.pid
    <3>1. \A j \in (1 + 1)..((i + 1) - 1) : events[j].pid # events[i + 1].pid
      BY <2>2
    <3>2. e.method # events[i + 1].method
      BY <1>3, <2>1, <2>3, <3>1
    <3> QED BY <1>2, <1>4, <1>5, <2>1, <2>3, <3>2
  <2>4. CASE events[i + 1].pid # e.pid
    <3>1. \A j \in 1..((i + 1) - 1) : events[j].pid # events[i + 1].pid
      BY <2>2, <2>4
    <3>2. events[i + 1].method = "add" <=> events[i + 1].pid \notin used
      BY <1>3, <2>1, <3>1
    <3> QED BY <1>2, <2>1, <2>4, <3>2
  <2> QED BY <2>3, <2>4
<1>7. ASSUME NEW i \in 1..n, NEW k \in 1..n,
             i < k, events'[i].pid = events'[k].pid,
             \A j \in (i + 1)..(k - 1) : events'[j].pid # events'[k].pid
      PROVE  events'[i].method # events'[k].method
  <2>1. /\ i + 1 \in 1..(n + 1) /\ k + 1 \in 1..(n + 1) /\ i + 1 < k + 1
        /\ events'[i] = events[i + 1] /\ events'[k] = events[k + 1]
    BY <1>1, <1>7
  <2>2. ASSUME NEW j \in ((i + 1) + 1)..((k + 1) - 1)
        PROVE  events[j].pid # events[k + 1].pid
    <3>1. j - 1 \in (i + 1)..(k - 1) /\ j - 1 \in 1..n /\ events'[j - 1] = events[(j - 1) + 1]
      BY <1>1
    <3>2. events'[j - 1] = events[j]
      BY <3>1
    <3> QED BY <1>7, <2>1, <3>1, <3>2
  <2> QED BY <1>3, <1>7, <2>1, <2>2
<1>8. ASSUME NEW i \in 1..n, \A j \in (i + 1)..n : events'[j].pid # events'[i].pid
      PROVE  events'[i].method = "add" <=> events'[i].pid \in managed'
  <2>1. i + 1 \in 1..(n + 1) /\ events'[i] = events[i + 1]
    BY <1>1
  <2>2. ASSUME NEW j \in ((i + 1) + 1)..(n + 1)
        PROVE  events[j].pid # events[i + 1].pid
    <3>1. j - 1 \in (i + 1)..n /\ j - 1 \in 1..n /\ events'[j - 1] = events[(j - 1) + 1]
      BY <1>1
    <3>2. events'[j - 1] = events[j]
      BY <3>1
    <3> QED BY <1>8, <2>1, <3>1, <3>2
  <2> QED BY <1>2, <1>3, <2>1, <2>2
<1>9. ASSUME NEW p \in Pids, \A i \in 1..n : events'[i].pid # p
      PROVE  p \in used' <=> p \in managed'
  <2>1. ASSUME NEW j \in 2..(n + 1)
        PROVE  events[j].pid # p
    <3>1. j - 1 \in 1..n /\ events'[j - 1] = events[(j - 1) + 1]
      BY <1>1
    <3>2. events'[j - 1] = events[j]
      BY <3>1
    <3> QED BY <1>9, <3>1, <3>2
  <2>2. CASE e.pid = p
    <3>1. 1 \in 1..(n + 1) /\ \A j \in (1 + 1)..(n + 1) : events[j].pid # events[1].pid
      BY <1>1, <2>1, <2>2
    <3>2. e.method = "add" <=> e.pid \in managed
      BY <1>3, <3>1
    <3> QED BY <1>2, <1>4, <2>2, <3>2
  <2>3. CASE e.pid # p
    <3>1. \A j \in 1..(n + 1) : events[j].pid # p
      BY <1>1, <2>1, <2>3
    <3> QED BY <1>2, <1>3, <2>3, <3>1
  <2> QED BY <2>2, <2>3
<1> QED BY <1>1, <1>6, <1>7, <1>8, <1>9 DEF Alternates, FirstOfItsPid, LastOfItsPid

LEMMA AlternatesInit == Init => Alternates
BY DEF Init, Alternates

LEMMA AlternatesNext == PipewireInv /\ [Next]_vars => Alternates'
<1> SUFFICES ASSUME Typed, Alternates, [Next]_vars
             PROVE  Alternates'
  BY DEF PipewireInv
<1>1. CASE ReadLine
  BY <1>1, ReadLineAlternates
<1>2. CASE Handle
  BY <1>2, HandleAlternates
<1>3. CASE UNCHANGED <<managed, events, used>>
  BY <1>3 DEF Alternates, FirstOfItsPid, LastOfItsPid
<1>4. \/ ReadLine \/ Handle
      \/ UNCHANGED <<managed, events, used>>
  BY DEF Next, vars, NodeInfo, NodeVanishes, NodeAppears, ServerRestarts, CollectListeners,
         Crash, Restart, Connect
<1> QED BY <1>1, <1>2, <1>3, <1>4

-----------------------------------------------------------------------------
(* What holds in every behaviour *)

\* The inductive invariant of the pipewire monitor.
THEOREM PipewireInvariance == Spec => []PipewireInv
<1>1. Init => PipewireInv
  BY TypeInit, AlternatesInit DEF PipewireInv
<1>2. PipewireInv /\ [Next]_vars => PipewireInv'
  BY TypeNext, AlternatesNext DEF PipewireInv
<1> QED BY <1>1, <1>2, PTL DEF Spec

\* The tables of the child and of the monitor hold what their types say, and no
\* line or event exceeds its channel.
THEOREM PipewireTypeCorrect == Spec => []TypeOK
<1>1. PipewireInv => TypeOK
  BY DEF PipewireInv, Typed
<1> QED BY <1>1, PipewireInvariance, PTL

\* Every line passed on is a start or a stop that the feed allows, and every event
\* handled tells the main loop something new: the monitor implements ProcessFeed.
THEOREM FeedImplemented == Spec => FeedInTurns
<1>1. Init => Feed!Init
  BY DEF Init, Feed!Init
<1>2. PipewireInv /\ [Next]_vars => [Feed!Next]_(Feed!feedVars)
  <2> SUFFICES ASSUME PipewireInv, [Next]_vars
               PROVE  Feed!Next \/ UNCHANGED <<managed, events, used>>
    BY DEF Feed!feedVars
  <2> USE DEF PipewireInv, Typed, TypeOK
  <2>1. CASE ReadLine
    <3> DEFINE e == Head(pipe)
    <3>1. e \in ProcessEvent
      BY <2>1, TailOf DEF ReadLine
    <3>2. \/ UNCHANGED <<managed, events>>
          \/ /\ (e.method = "add") # (e.pid \in managed)
             /\ managed' = IF e.method = "add" THEN managed \cup {e.pid} ELSE managed \ {e.pid}
             /\ events' = Append(events, e)
      BY <2>1 DEF ReadLine, Update
    <3>3. UNCHANGED used
      BY <2>1 DEF ReadLine
    <3> HIDE DEF e
    <3>4. e.pid \in Pids /\ e.method \in {"add", "rem"}
          /\ e = [method |-> e.method, pid |-> e.pid]
      BY <3>1 DEF ProcessEvent
    <3>5. CASE e.method = "add" /\ ~ UNCHANGED <<managed, events>>
      BY <3>2, <3>3, <3>4, <3>5 DEF Feed!Next, Feed!Start, Feed!Report
    <3>6. CASE e.method = "rem" /\ ~ UNCHANGED <<managed, events>>
      BY <3>2, <3>3, <3>4, <3>6 DEF Feed!Next, Feed!Stop, Feed!Report
    <3> QED BY <3>3, <3>4, <3>5, <3>6
  <2>2. CASE Handle
    <3> DEFINE e == Head(events)
    <3>1. e \in ProcessEvent /\ e = events[1] /\ Len(events) > 0 /\ Len(events) \in Nat
      BY <2>2, TailOf DEF Handle
    <3>2. /\ events # <<>> /\ events' = Tail(events)
          /\ used' = IF e.method = "add" THEN used \cup {e.pid} ELSE used \ {e.pid}
          /\ UNCHANGED managed
      BY <2>2 DEF Handle
    <3>3. e.method = "add" <=> e.pid \notin used
      <4>1. 1 \in 1..Len(events) /\ FirstOfItsPid(1)
        BY <3>1 DEF FirstOfItsPid
      <4> QED BY <3>1, <4>1 DEF Alternates
    <3>4. /\ e.pid \in Pids /\ e.method \in {"add", "rem"}
          /\ e = [method |-> e.method, pid |-> e.pid]
      BY <3>1 DEF ProcessEvent
    <3>5. CASE e.method = "add"
      BY <3>2, <3>3, <3>4, <3>5 DEF Feed!Next, Feed!Deliver, Feed!Report
    <3>6. CASE e.method = "rem"
      BY <3>2, <3>3, <3>4, <3>6 DEF Feed!Next, Feed!Deliver, Feed!Report
    <3> QED BY <3>4, <3>5, <3>6
  <2>3. \/ ReadLine \/ Handle
        \/ UNCHANGED <<managed, events, used>>
    BY DEF Next, vars, NodeInfo, NodeVanishes, NodeAppears, ServerRestarts, CollectListeners,
           Crash, Restart, Connect
  <2> QED BY <2>1, <2>2, <2>3
<1> QED BY <1>1, <1>2, PipewireInvariance, PTL DEF Spec, FeedInTurns, Feed!Spec

-----------------------------------------------------------------------------
(* What the lines on their way will have said *)

LastLine(n) == \A j \in (n + 1)..Len(pipe) : pipe[j].pid # pipe[n].pid

\* The monitor will take p to use pipewire once it has read the lines on their way:
\* the last one about p says so, or there is none and it does already.
Believed(p) ==
  \/ \E n \in 1..Len(pipe) : pipe[n].pid = p /\ pipe[n].method = "add" /\ LastLine(n)
  \/ p \in managed /\ \A n \in 1..Len(pipe) : pipe[n].pid # p

\* The child has reported a node as what it is.
ReportsReal == \A i \in Ids : reported[i] \in {NoPid, graph[i]}

\* Nobody is believed to use pipewire but who does, or who went unseen.
NoneInvented == \A p \in Pids : Believed(p) => p \in missed \/ \E i \in Ids : graph[i] = p

\* A process with one node is believed to use pipewire from the time the child has
\* learnt of the node until it has learnt of its end.
NoneForgotten ==
  OneNodeEach =>
    /\ \A i, j \in Ids : graph[i] # NoPid /\ graph[i] = graph[j] => i = j
    /\ \A i \in Ids, p \in Pids : reported[i] = p => Believed(p)

Tracks == ReportsReal /\ NoneInvented /\ NoneForgotten

LEMMA BelievedSame ==
  ASSUME UNCHANGED <<pipe, managed>>
  PROVE  \A p : Believed(p)' <=> Believed(p)
BY DEF Believed, LastLine

\* A new line is the last one about its process.
LEMMA BelievedAppend ==
  ASSUME Typed, NEW e \in ProcessEvent, pipe' = Append(pipe, e), managed' = managed
  PROVE  \A p : Believed(p)' <=> IF p = e.pid THEN e.method = "add" ELSE Believed(p)
<1>0. PICK n \in Nat : n = Len(pipe)
  BY DEF Typed, TypeOK
<1>1. /\ Len(pipe') = n + 1 /\ pipe'[n + 1] = e
      /\ \A i \in 1..n : pipe'[i] = pipe[i]
  BY <1>0, AppendOf DEF Typed, TypeOK
<1>2. ASSUME NEW p
      PROVE  Believed(p)' <=> IF p = e.pid THEN e.method = "add" ELSE Believed(p)
  <2>1. CASE p = e.pid
    <3>1. \A i \in 1..(n + 1) : pipe'[i].pid = p /\ LastLine(i)' => i = n + 1
      BY <1>1, <2>1 DEF LastLine
    <3>2. n + 1 \in 1..(n + 1) /\ pipe'[n + 1].pid = p
      BY <1>1, <2>1
    <3>3. LastLine(n + 1)'
      <4>1. \A j \in ((n + 1) + 1)..Len(pipe') : FALSE
        BY <1>1
      <4> QED BY <4>1 DEF LastLine
    <3>4. Believed(p)' <=>
            \/ \E i \in 1..(n + 1) : pipe'[i].pid = p /\ pipe'[i].method = "add" /\ LastLine(i)'
            \/ p \in managed' /\ \A i \in 1..(n + 1) : pipe'[i].pid # p
      BY <1>1 DEF Believed
    <3> QED BY <1>1, <2>1, <3>1, <3>2, <3>3, <3>4
  <2>2. CASE p # e.pid
    <3>1. \A i \in 1..n : pipe[i].pid = p => (LastLine(i)' <=> LastLine(i))
      BY <1>0, <1>1, <2>2 DEF LastLine
    <3>2. \A i \in 1..(n + 1) : pipe'[i].pid = p => i \in 1..n
      BY <1>1, <2>2
    <3>3. \A i \in 1..n : i \in 1..(n + 1)
      BY <1>1
    <3> QED BY <1>0, <1>1, <2>2, <3>1, <3>2, <3>3 DEF Believed
  <2> QED BY <2>1, <2>2
<1> QED BY <1>2

\* Reading a line is what was expected.
LEMMA BelievedRead ==
  ASSUME Typed, ReadLine
  PROVE  \A p : Believed(p)' <=> Believed(p)
<1> DEFINE e == pipe[1]
           n == Len(pipe) - 1
<1>1. /\ e \in ProcessEvent /\ n \in Nat /\ Len(pipe) = n + 1 /\ Head(pipe) = e
      /\ Len(pipe') = n /\ \A i \in 1..n : pipe'[i] = pipe[i + 1]
  BY TailOf DEF Typed, TypeOK, ReadLine
<1>2. \A p : p \in managed' <=> IF p = e.pid THEN e.method = "add" ELSE p \in managed
  BY <1>1 DEF ReadLine, Update
<1> HIDE DEF n
<1>3. /\ \A i \in 1..n : i + 1 \in 1..(n + 1) /\ i + 1 # 1
      /\ \A i \in 1..(n + 1) : i # 1 => i - 1 \in 1..n /\ (i - 1) + 1 = i
  BY <1>1
<1>4. \A i \in 1..n : LastLine(i)' <=> LastLine(i + 1)
  <2> SUFFICES ASSUME NEW i \in 1..n
               PROVE  LastLine(i)' <=> LastLine(i + 1)
    OBVIOUS
  <2>1. pipe'[i] = pipe[i + 1]
    BY <1>1
  <2>2. ASSUME LastLine(i)', NEW j \in ((i + 1) + 1)..(n + 1)
        PROVE  pipe[j].pid # pipe[i + 1].pid
    <3>1. j - 1 \in (i + 1)..n /\ j - 1 \in 1..n /\ (j - 1) + 1 = j
      BY <1>1
    <3>2. pipe'[j - 1] = pipe[j]
      BY <1>1, <3>1
    <3> QED BY <1>1, <2>1, <2>2, <3>1, <3>2 DEF LastLine
  <2>3. ASSUME LastLine(i + 1), NEW j \in (i + 1)..n
        PROVE  pipe'[j].pid # pipe'[i].pid
    <3>1. j \in 1..n /\ j + 1 \in ((i + 1) + 1)..(n + 1)
      BY <1>1
    <3> QED BY <1>1, <2>1, <2>3, <3>1 DEF LastLine
  <2> QED BY <1>1, <2>2, <2>3 DEF LastLine
<1>5. ASSUME NEW p
      PROVE  Believed(p)' <=> Believed(p)
  <2>1. Believed(p)' =>
          \/ \E i \in 1..n : pipe[i + 1].pid = p /\ pipe[i + 1].method = "add" /\ LastLine(i + 1)
          \/ p \in managed' /\ \A i \in 1..n : pipe[i + 1].pid # p
    BY <1>1, <1>4 DEF Believed
  <2>2. LastLine(1) <=> \A i \in 1..n : pipe[i + 1].pid # e.pid
    <3>1. LastLine(1) <=> \A j \in 2..(n + 1) : pipe[j].pid # e.pid
      BY <1>1 DEF LastLine
    <3>2. /\ \A j \in 2..(n + 1) : j - 1 \in 1..n /\ (j - 1) + 1 = j
          /\ \A i \in 1..n : i + 1 \in 2..(n + 1)
      BY <1>1
    <3> QED BY <3>1, <3>2
  <2>3. 1 \in 1..(n + 1)
    BY <1>1
  <2>4. Believed(p) <=>
          \/ \E i \in 1..(n + 1) : pipe[i].pid = p /\ pipe[i].method = "add" /\ LastLine(i)
          \/ p \in managed /\ \A i \in 1..(n + 1) : pipe[i].pid # p
    BY <1>1 DEF Believed
  <2>5. Believed(p)' <=>
          \/ \E i \in 1..n : pipe[i + 1].pid = p /\ pipe[i + 1].method = "add" /\ LastLine(i + 1)
          \/ p \in managed' /\ \A i \in 1..n : pipe[i + 1].pid # p
    BY <1>1, <1>4 DEF Believed
  <2>6. (\A i \in 1..(n + 1) : pipe[i].pid # p) <=>
          (e.pid # p /\ \A i \in 1..n : pipe[i + 1].pid # p)
    BY <1>3, <2>3
  <2>7. (\E i \in 1..(n + 1) : pipe[i].pid = p /\ pipe[i].method = "add" /\ LastLine(i)) <=>
          \/ e.pid = p /\ e.method = "add" /\ LastLine(1)
          \/ \E i \in 1..n : pipe[i + 1].pid = p /\ pipe[i + 1].method = "add" /\ LastLine(i + 1)
    BY <1>3, <2>3
  <2> QED BY <1>2, <2>2, <2>4, <2>5, <2>6, <2>7
<1> QED BY <1>5

\* Of the processes of the lost lines it is noted that they were missed.
LEMMA BelievedCrash ==
  ASSUME Typed, Crash
  PROVE  /\ missed \subseteq missed'
         /\ \A p : Believed(p)' => Believed(p) \/ p \in missed'
<1>1. PICK n \in 0..Len(pipe) :
        /\ pipe' = SubSeq(pipe, 1, n)
        /\ missed' = missed \cup {SubSeq(pipe, n + 1, Len(pipe))[i].pid :
                                    i \in DOMAIN SubSeq(pipe, n + 1, Len(pipe))}
  BY DEF Crash
<1> DEFINE L == Len(pipe)
<1>2. /\ L \in Nat /\ n \in Nat /\ n <= L
      /\ Len(pipe') = n /\ \A i \in 1..n : pipe'[i] = pipe[i]
      /\ DOMAIN SubSeq(pipe, n + 1, L) = 1..(L - n)
      /\ \A i \in 1..(L - n) : SubSeq(pipe, n + 1, L)[i] = pipe[n + i]
  BY <1>1 DEF Typed, TypeOK
<1> HIDE DEF L
<1>3. \A j \in (n + 1)..L : pipe[j].pid \in missed'
  <2> SUFFICES ASSUME NEW j \in (n + 1)..L
               PROVE  pipe[j].pid \in missed'
    OBVIOUS
  <2>1. j - n \in 1..(L - n) /\ n + (j - n) = j
    BY <1>2
  <2>2. SubSeq(pipe, n + 1, L)[j - n] = pipe[j]
    BY <1>2, <2>1
  <2> QED BY <1>1, <1>2, <2>1, <2>2 DEF L
<1>4. ASSUME NEW p, p \notin missed', Believed(p)'
      PROVE  Believed(p)
  <2>1. \A j \in (n + 1)..L : pipe[j].pid # p
    BY <1>3, <1>4
  <2>2. /\ \A j \in 1..L : j \in 1..n \/ j \in (n + 1)..L
        /\ \A j \in 1..n : j \in 1..L
    BY <1>2
  <2>3. \A i \in 1..n : pipe[i].pid = p /\ LastLine(i)' => LastLine(i)
    <3> SUFFICES ASSUME NEW i \in 1..n, pipe[i].pid = p, LastLine(i)', NEW j \in (i + 1)..L
                 PROVE  pipe[j].pid # p
      BY DEF LastLine, L
    <3>1. j \in (i + 1)..n \/ j \in (n + 1)..L
      BY <1>2
    <3>2. ASSUME j \in (i + 1)..n
          PROVE  pipe[j].pid # p
      <4>1. j \in 1..n
        BY <1>2, <3>2
      <4> QED BY <1>2, <3>2, <4>1 DEF LastLine
    <3> QED BY <2>1, <3>1, <3>2
  <2>4. managed' = managed
    BY DEF Crash
  <2>5. CASE \E i \in 1..n : pipe[i].pid = p /\ pipe[i].method = "add" /\ LastLine(i)'
    BY <2>2, <2>3, <2>5 DEF Believed, L
  <2>6. CASE p \in managed /\ \A i \in 1..n : pipe[i].pid # p
    BY <2>1, <2>2, <2>6 DEF Believed, L
  <2> QED BY <1>2, <1>4, <2>4, <2>5, <2>6 DEF Believed
<1> QED BY <1>1, <1>4

LEMMA TracksInit == Init => Tracks
<1> SUFFICES ASSUME Init
             PROVE  Tracks
  OBVIOUS
<1>1. \A p : ~ Believed(p)
  BY DEF Init, Believed
<1>2. \A i \in Ids : reported[i] = NoPid /\ graph[i] = NoPid
  BY DEF Init, NoNodes
<1> QED BY <1>1, <1>2, PipewireAssumption DEF Tracks, ReportsReal, NoneInvented, NoneForgotten

LEMMA NodeInfoTracks ==
  ASSUME Typed, Tracks, NEW i \in Ids, NodeInfo(i)
  PROVE  Tracks'
<1> USE DEF Typed, TypeOK, Tracks
<1> DEFINE p == graph[i]
<1>1. /\ p \in Pids /\ reported[i] = NoPid /\ NoPid \notin Pids
      /\ reported' = [reported EXCEPT ![i] = p]
      /\ pipe' = Append(pipe, Add(p))
      /\ missed' = missed \ {p}
      /\ UNCHANGED <<graph, managed>>
  BY PipewireAssumption DEF NodeInfo
<1>2. Add(p) \in ProcessEvent /\ Add(p).pid = p /\ Add(p).method = "add"
  BY <1>1, EventType DEF Add
<1>3. \A q : Believed(q)' <=> (q = p \/ Believed(q))
  <2> DEFINE e == Add(p)
  <2>1. e \in ProcessEvent /\ e.pid = p /\ e.method = "add" /\ pipe' = Append(pipe, e)
    BY <1>1, <1>2
  <2> HIDE DEF e, p
  <2> QED BY <1>1, <2>1, BelievedAppend
<1>4. NoneInvented'
  BY <1>1, <1>3 DEF NoneInvented
<1>5. ReportsReal'
  BY <1>1 DEF ReportsReal
<1>6. NoneForgotten'
  BY <1>1, <1>3 DEF NoneForgotten
<1> QED BY <1>4, <1>5, <1>6

LEMMA NodeVanishesTracks ==
  ASSUME Typed, Tracks, NEW i \in Ids, NodeVanishes(i)
  PROVE  Tracks'
<1> USE DEF Typed, TypeOK, Tracks
<1> DEFINE p == graph[i]
<1>1. /\ p \in Pids /\ NoPid \notin Pids
      /\ graph' = [graph EXCEPT ![i] = NoPid]
      /\ UNCHANGED managed
  BY PipewireAssumption DEF NodeVanishes
<1>2. \A q \in Pids : q # p => ((\E j \in Ids : graph[j] = q) => (\E j \in Ids : graph'[j] = q))
  BY <1>1
<1>3. CASE reported[i] = NoPid
  <2>1. missed' = missed \cup {p} /\ UNCHANGED <<reported, pipe>>
    BY <1>3 DEF NodeVanishes
  <2>2. \A q : Believed(q)' <=> Believed(q)
    BY <1>1, <2>1, BelievedSame
  <2>3. NoneInvented'
    BY <1>2, <2>1, <2>2 DEF NoneInvented
  <2>4. ReportsReal'
    BY <1>1, <1>3, <2>1 DEF ReportsReal
  <2>5. NoneForgotten'
    BY <1>1, <2>1, <2>2 DEF NoneForgotten
  <2> QED BY <2>3, <2>4, <2>5
<1>4. CASE reported[i] # NoPid
  <2>1. reported[i] = p
    BY <1>4 DEF ReportsReal
  <2>2. /\ reported' = [reported EXCEPT ![i] = NoPid]
        /\ pipe' = Append(pipe, Remove(p))
        /\ UNCHANGED missed
    BY <1>4, <2>1 DEF NodeVanishes
  <2>3. \A q : Believed(q)' <=> (q # p /\ Believed(q))
    <3> DEFINE e == Remove(p)
    <3>1. e \in ProcessEvent /\ e.pid = p /\ e.method # "add" /\ pipe' = Append(pipe, e)
      BY <1>1, <2>2, EventType DEF Remove
    <3> HIDE DEF e, p
    <3> QED BY <1>1, <3>1, BelievedAppend
  <2>4. NoneInvented'
    BY <1>2, <2>2, <2>3 DEF NoneInvented
  <2>5. ReportsReal'
    BY <1>1, <2>2 DEF ReportsReal
  <2>6. NoneForgotten'
    <3> SUFFICES ASSUME OneNodeEach
                 PROVE  /\ \A j, k \in Ids : graph'[j] # NoPid /\ graph'[j] = graph'[k] => j = k
                        /\ \A j \in Ids, q \in Pids : reported'[j] = q => Believed(q)'
      BY DEF NoneForgotten
    <3>1. \A j, k \in Ids : graph[j] # NoPid /\ graph[j] = graph[k] => j = k
      BY DEF NoneForgotten
    <3>2. \A j \in Ids : j # i => reported[j] # p
      BY <1>1, <3>1 DEF ReportsReal
    <3>3. \A j \in Ids, q \in Pids : reported[j] = q => Believed(q)
      BY DEF NoneForgotten
    <3> QED BY <1>1, <2>2, <2>3, <3>1, <3>2, <3>3
  <2> QED BY <2>4, <2>5, <2>6
<1> QED BY <1>3, <1>4

LEMMA NodeAppearsTracks ==
  ASSUME Typed, Tracks, NEW i \in Ids, NEW p \in Pids, NodeAppears(i, p)
  PROVE  Tracks'
<1> USE DEF Typed, TypeOK, Tracks
<1>1. /\ graph[i] = NoPid /\ NoPid \notin Pids
      /\ OneNodeEach => \A j \in Ids : graph[j] # p
      /\ graph' = [graph EXCEPT ![i] = p]
      /\ UNCHANGED <<reported, pipe, managed, missed>>
  BY PipewireAssumption DEF NodeAppears
<1>2. \A q : Believed(q)' <=> Believed(q)
  BY <1>1, BelievedSame
<1>3. NoneInvented'
  BY <1>1, <1>2 DEF NoneInvented
<1>4. ReportsReal'
  BY <1>1 DEF ReportsReal
<1>5. NoneForgotten'
  BY <1>1, <1>2 DEF NoneForgotten
<1> QED BY <1>3, <1>4, <1>5

\* What the child had learnt is gone with it, or with the server.
LEMMA ResetTracks ==
  ASSUME Typed, Tracks, Crash \/ ServerRestarts
  PROVE  Tracks'
<1> USE DEF Typed, TypeOK, Tracks
<1>1. /\ \A i \in Ids : reported'[i] = NoPid
      /\ \/ graph' = graph
         \/ \A i \in Ids : graph'[i] = NoPid
  BY DEF Crash, ServerRestarts, NoNodes
<1>2. /\ \A p : Believed(p)' => Believed(p) \/ p \in missed'
      /\ missed \subseteq missed'
      /\ \A i \in Ids : graph[i] \in Pids => graph[i] \in missed' \/ graph' = graph
  <2>1. CASE Crash
    BY <2>1, BelievedCrash DEF Crash
  <2>2. CASE ServerRestarts
    BY <2>2, BelievedSame, PipewireAssumption DEF ServerRestarts
  <2> QED BY <2>1, <2>2
<1>3. NoneInvented'
  BY <1>2 DEF NoneInvented
<1>4. ReportsReal'
  BY <1>1 DEF ReportsReal
<1>5. NoneForgotten'
  <2>1. \A i \in Ids, p \in Pids : reported'[i] # p
    BY <1>1, PipewireAssumption
  <2> QED BY <1>1, <2>1 DEF NoneForgotten
<1> QED BY <1>3, <1>4, <1>5

LEMMA TracksNext == Typed /\ Tracks /\ [Next]_vars => Tracks'
<1> SUFFICES ASSUME Typed, Tracks, [Next]_vars
             PROVE  Tracks'
  OBVIOUS
<1>1. CASE \E i \in Ids : NodeInfo(i) \/ NodeVanishes(i) \/ \E p \in Pids : NodeAppears(i, p)
  BY <1>1, NodeInfoTracks, NodeVanishesTracks, NodeAppearsTracks
<1>2. CASE Crash \/ ServerRestarts
  BY <1>2, ResetTracks
<1>3. CASE \/ CollectListeners \/ Restart \/ Connect \/ ReadLine \/ Handle
           \/ UNCHANGED vars
  <2>1. UNCHANGED <<graph, reported, missed>>
    BY <1>3 DEF CollectListeners, Restart, Connect, ReadLine, Handle, childVars, vars
  <2>2. \A p : Believed(p)' <=> Believed(p)
    <3>1. CASE ReadLine
      BY <3>1, BelievedRead
    <3>2. CASE UNCHANGED <<pipe, managed>>
      BY <3>2, BelievedSame
    <3> QED BY <1>3, <3>1, <3>2 DEF CollectListeners, Restart, Connect, Handle, vars
  <2> QED BY <2>1, <2>2 DEF Tracks, ReportsReal, NoneInvented, NoneForgotten
<1> QED BY <1>1, <1>2, <1>3 DEF Next

THEOREM TracksInvariance == Spec => [](PipewireInv /\ Tracks)
<1>1. PipewireInv /\ Tracks /\ [Next]_vars => Tracks'
  BY TracksNext DEF PipewireInv
<1> QED BY <1>1, TracksInit, PipewireInvariance, PTL DEF Spec

\* When no line and no event is on its way, the main loop takes those to use
\* pipewire that the monitor lists.
LEMMA QuietBelieved ==
  ASSUME PipewireInv, Quiet
  PROVE  \A p \in Pids : Believed(p) <=> p \in used
<1>1. \A p \in Pids : p \in used <=> p \in managed
  <2>1. \A n \in 1..Len(events) : FALSE
    BY DEF Quiet
  <2> QED BY <2>1 DEF PipewireInv, Alternates
<1>2. \A p : Believed(p) <=> p \in managed
  BY DEF Quiet, Believed
<1> QED BY <1>1, <1>2

\* However often the child dies and the server restarts: when all is handled, the
\* main loop knows every process that uses pipewire, if each has one node at most.
THEOREM UsersAlwaysKnown ==
  ASSUME OneNodeEach
  PROVE  Spec => []UsersKnown
<1>1. PipewireInv /\ Tracks => UsersKnown
  <2> SUFFICES ASSUME PipewireInv, Tracks, Quiet, NEW i \in Ids, graph[i] # NoPid
               PROVE  graph[i] \in used
    BY DEF UsersKnown, Users
  <2>1. graph[i] \in Pids /\ reported[i] = graph[i]
    BY DEF PipewireInv, Typed, TypeOK, Quiet
  <2>2. Believed(graph[i])
    BY <2>1 DEF Tracks, NoneForgotten
  <2> QED BY <2>1, <2>2, QuietBelieved
<1> QED BY <1>1, TracksInvariance, PTL

\* And whatever it holds to use pipewire beyond that went while nobody was looking.
THEOREM NeverGhosts == Spec => []NoGhosts
<1>1. PipewireInv /\ Tracks => NoGhosts
  <2> SUFFICES ASSUME PipewireInv, Tracks, Quiet, NEW p \in used
               PROVE  p \in Users \cup missed
    BY DEF NoGhosts
  <2>1. p \in Pids /\ p # NoPid
    BY PipewireAssumption DEF PipewireInv, Typed, TypeOK
  <2>2. Believed(p)
    BY <2>1, QuietBelieved
  <2> QED BY <2>1, <2>2 DEF Tracks, NoneInvented, Users
<1> QED BY <1>1, TracksInvariance, PTL
=============================================================================
