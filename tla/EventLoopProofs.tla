-------------------------- MODULE EventLoopProofs --------------------------
(***************************************************************************)
(* The event loop for every capacity of the channel and every number of    *)
(* tasks, calls and pids: its types, the order in which requests for the   *)
(* foreground process are served, and  the CPU profile in force.           *)
(***************************************************************************)
EXTENDS EventLoopProperties, SequenceLemmas, SequenceTheorems, FiniteSetTheorems, TLAPS

\* The two halves of TypeOK: the channel, and the rest.
ChannelType ==
  /\ queue \in Seq(Event) /\ Len(queue) + Cardinality(granted) <= Capacity
  /\ waiting \in Seq(Senders)
  /\ granted \subseteq Senders
  /\ outbox \in [Senders -> Event \cup {NoEvent}]

DaemonType ==
  /\ call \in [Clients -> Calls \cup {NoCall}]
  /\ writer \in Clients \cup {NoOne}
  /\ readers \subseteq Clients \cup {Loop}
  /\ cpu_mode \in CpuMode /\ cpu_profile \in CpuProfile
  /\ handling \in Event \cup {NoEvent}
  /\ served \in Pids \cup {""}
  /\ config \in Configs
  /\ applied \in Applied
  /\ on_battery \in Power /\ battery_changed \in BOOLEAN
  /\ asked \in [foreground : Pids \cup {""}, cpu : {"auto", "kept"} \cup Applied]

\* A task waits at one place, and has an event to push as long as it does.
Orderly ==
  /\ IsFiniteSet(granted)
  /\ \A i \in 1..Len(waiting) : waiting[i] \notin granted /\ outbox[waiting[i]] # NoEvent
  /\ \A i, j \in 1..Len(waiting) : waiting[i] = waiting[j] => i = j
  /\ \A s \in granted : outbox[s] # NoEvent

ChannelInv == ChannelType /\ Orderly

\* What a task may have to push.
WriterEvents == {"SetForegroundProcess", "SetCpuMode", "SetCustomCpuMode"}
CpuEvents    == {"OnBattery", "SetCpuMode", "SetCustomCpuMode"}

\* An event of a method with &mut self waits under the lock; the other tasks push
\* events of their own kind.  The main loop keeps a reader's lock only while it
\* asks UPower, in automatic mode.
Exclusive ==
  /\ \A s \in Senders : outbox[s].type \in WriterEvents => s = writer
  /\ \A s \in Senders : outbox[s].type = "OnBattery" => s = Battery
  /\ outbox[Battery] # NoEvent => outbox[Battery].type = "OnBattery"
  /\ handling # NoEvent => handling.type \in CpuEvents
  /\ Loop \in readers => handling.type = "SetCpuMode" /\ cpu_mode = "Auto"

LoopInv == ChannelInv /\ DaemonType /\ Exclusive

\* An event of one of these types is handled, or on its way.
Queued(types) == \E i \in 1..Len(queue) : queue[i].type \in types
Held(types)   == \E s \in Senders : outbox[s].type \in types
OnTheWay(types) == handling.type \in types \/ Queued(types) \/ Held(types)

NamedModes == {"auto", "default", "responsive"}

\* The interface holds what was asked for.
ModeAsked ==
  /\ asked.cpu = "auto" => cpu_mode = "Auto"
  /\ asked.cpu = "default" => cpu_mode = "Default"
  /\ asked.cpu = "responsive" => cpu_mode = "Responsive"
  /\ asked.cpu \in Custom => cpu_mode = "Custom" /\ cpu_profile = asked.cpu

\* What the battery monitor has told last is what UPower says.
LatestBattery ==
  ~ battery_changed =>
    /\ outbox[Battery] # NoEvent => outbox[Battery].arg = on_battery
    /\ outbox[Battery] = NoEvent =>
         \A i \in 1..Len(queue) :
           /\ queue[i].type = "OnBattery"
           /\ \A j \in (i + 1)..Len(queue) : queue[j].type # "OnBattery"
           => queue[i].arg = on_battery
    /\ outbox[Battery] = NoEvent /\ ~ Queued({"OnBattery"}) /\ handling.type = "OnBattery" =>
         handling.arg = on_battery

\* A custom profile on the way is overtaken by the mode that was asked for after it.
CustomSuperseded ==
  asked.cpu \in NamedModes =>
    /\ ~ Held({"SetCustomCpuMode"})
    /\ \A i \in 1..Len(queue) : queue[i].type = "SetCustomCpuMode" =>
         \/ \E j \in (i + 1)..Len(queue) : queue[j].type = "SetCpuMode"
         \/ Held({"SetCpuMode"})
    /\ handling.type = "SetCustomCpuMode" => Queued({"SetCpuMode"}) \/ Held({"SetCpuMode"})

InForceOrOnTheWay ==
  config.enable =>
    /\ asked.cpu = "auto" /\ ~ battery_changed =>
         OnTheWay({"SetCpuMode", "OnBattery"}) \/ applied = OnBatteryProfile(on_battery)
    /\ asked.cpu \in {"default", "responsive"} =>
         OnTheWay({"SetCpuMode"}) \/ applied = asked.cpu
    /\ asked.cpu \in Custom \cap config.profiles =>
         OnTheWay({"SetCustomCpuMode"}) \/ applied = asked.cpu

CpuInv == ModeAsked /\ LatestBattery /\ CustomSuperseded /\ InForceOrOnTheWay

-----------------------------------------------------------------------------
(* Events and calls *)

LEMMA Names ==
  /\ Feeders \cap (WriterEvents \cup CpuEvents \cup {"ReloadConfiguration", "none"}) = {}
  /\ Battery \in Senders /\ Clients \subseteq Senders /\ Feeders \subseteq Senders
  /\ Battery \notin Clients \cup Feeders /\ Clients \cap Feeders = {}
  /\ NoOne \notin Senders /\ Loop \notin Senders /\ Loop # NoOne
BY EventLoopAssumption DEF WriterEvents, CpuEvents, Senders, NoOne, Loop

LEMMA EventKinds ==
  ASSUME NEW e \in Event
  PROVE  /\ e # NoEvent
         /\ e.type \in Feeders \cup WriterEvents \cup CpuEvents \cup {"ReloadConfiguration"}
         /\ e.type = "OnBattery" => e.arg \in Power
         /\ e.type = "SetForegroundProcess" => e.arg \in Pids
<1>0. NoEvent.type = "none"
  BY DEF NoEvent
<1>1. CASE e \in [type : Feeders \cup {"SetCpuMode", "SetCustomCpuMode", "ReloadConfiguration"},
                  arg : {""}]
  <2>1. e.type \in Feeders \cup {"SetCpuMode", "SetCustomCpuMode", "ReloadConfiguration"}
    BY <1>1
  <2> QED BY <1>0, <2>1, Names DEF WriterEvents, CpuEvents
<1>2. CASE e \in [type : {"OnBattery"}, arg : Power]
  <2>1. e.type = "OnBattery" /\ e.arg \in Power
    BY <1>2
  <2> QED BY <1>0, <2>1 DEF WriterEvents, CpuEvents
<1>3. CASE e \in [type : {"SetForegroundProcess"}, arg : Pids]
  <2>1. e.type = "SetForegroundProcess" /\ e.arg \in Pids
    BY <1>3
  <2> QED BY <1>0, <2>1 DEF WriterEvents, CpuEvents
<1> QED BY <1>1, <1>2, <1>3 DEF Event

LEMMA EventOfCall ==
  ASSUME NEW r \in Calls
  PROVE  /\ EventOf(r) \in Event \cup {NoEvent}
         /\ EventOf(r) # NoEvent => EventOf(r).type \in WriterEvents \cup {"ReloadConfiguration"}
         /\ r.method = "set_foreground_process" =>
              EventOf(r) = [type |-> "SetForegroundProcess", arg |-> r.arg] /\ r.arg \in Pids
         /\ r.method = "set_cpu_mode" =>
              EventOf(r) = [type |-> "SetCpuMode", arg |-> ""] /\ r.arg \in CpuMode
         /\ r.method = "set_cpu_profile" =>
              /\ r.arg \in CpuProfile
              /\ EventOf(r) = IF r.arg = "" THEN NoEvent
                              ELSE IF r.arg \in Custom
                                   THEN [type |-> "SetCustomCpuMode", arg |-> ""]
                                   ELSE [type |-> "SetCpuMode", arg |-> ""]
         /\ r.method = "reload_configuration" =>
              EventOf(r) = [type |-> "ReloadConfiguration", arg |-> ""]
         /\ r.method = "set_foreground_process" => EventOf(r).type = "SetForegroundProcess"
         /\ r.method = "set_cpu_mode" => EventOf(r).type = "SetCpuMode"
         /\ r.method = "set_cpu_profile" /\ r.arg # "" =>
              EventOf(r).type = IF r.arg \in Custom THEN "SetCustomCpuMode" ELSE "SetCpuMode"
         /\ r.method = "reload_configuration" => EventOf(r).type = "ReloadConfiguration"
<1>0. r \in Call
  BY EventLoopAssumption
<1>1. CASE r \in [method : {"set_foreground_process"}, arg : Pids]
  BY <1>1 DEF EventOf, Event, WriterEvents
<1>2. CASE r \in [method : {"set_cpu_mode"}, arg : CpuMode]
  BY <1>2 DEF EventOf, Event, WriterEvents
<1>3. CASE r \in [method : {"set_cpu_profile"}, arg : CpuProfile]
  BY <1>3 DEF EventOf, Event, WriterEvents
<1>4. CASE r \in [method : {"reload_configuration"}, arg : {""}]
  BY <1>4 DEF EventOf, Event, WriterEvents
<1> QED BY <1>0, <1>1, <1>2, <1>3, <1>4 DEF Call
-----------------------------------------------------------------------------
(* The channel *)

LEMMA SendKeeps ==
  ASSUME ChannelInv, NEW s \in Senders, NEW e \in Event, outbox[s] = NoEvent, Send(s, e)
  PROVE  ChannelInv'
<1> USE DEF ChannelInv, ChannelType
<1>1. Cardinality(granted) \in Nat /\ Capacity \in Nat /\ e # NoEvent
  BY FS_CardinalityType, EventLoopAssumption, EventKinds DEF Orderly
<1>2. CASE HasPermit
  <2>1. queue' = Append(queue, e) /\ UNCHANGED <<waiting, granted, outbox>>
    BY <1>2 DEF Send
  <2>2. queue' \in Seq(Event) /\ Len(queue') = Len(queue) + 1
    BY <2>1, AppendOf
  <2>3. Len(queue') + Cardinality(granted') <= Capacity
    BY <1>1, <1>2, <2>1, <2>2 DEF HasPermit
  <2> QED BY <2>1, <2>2, <2>3 DEF Orderly
<1>3. CASE ~ HasPermit
  <2>1. /\ waiting' = Append(waiting, s)
        /\ outbox' = [outbox EXCEPT ![s] = e]
        /\ UNCHANGED <<queue, granted>>
    BY <1>3 DEF Send
  <2>2. /\ waiting' \in Seq(Senders) /\ Len(waiting') = Len(waiting) + 1
        /\ \A i \in 1..Len(waiting) : waiting'[i] = waiting[i]
        /\ waiting'[Len(waiting) + 1] = s
    BY <2>1, AppendOf
  <2>3. Len(waiting) \in Nat
    OBVIOUS
  <2>4. s \notin granted /\ \A i \in 1..Len(waiting) : waiting[i] # s
    BY DEF Orderly
  <2>5. outbox' \in [Senders -> Event \cup {NoEvent}] /\ \A t \in Senders :
          outbox[t] # NoEvent \/ t = s => outbox'[t] # NoEvent
    BY <1>1, <2>1
  <2>6. \A i \in 1..Len(waiting') : i \in 1..Len(waiting) \/ i = Len(waiting) + 1
    BY <2>2, <2>3
  <2>7. ChannelType'
    BY <2>1, <2>2, <2>5
  <2>8. \A i \in 1..Len(waiting') : waiting'[i] \in Senders
    BY <2>2
  <2>9. Orderly'
    <3>1. IsFiniteSet(granted')
      BY <2>1 DEF Orderly
    <3>2. \A t \in granted' : outbox'[t] # NoEvent
      BY <2>1, <2>5 DEF Orderly
    <3>3. \A i \in 1..Len(waiting') : waiting'[i] \notin granted' /\ outbox'[waiting'[i]] # NoEvent
      BY <2>1, <2>2, <2>4, <2>5, <2>6, <2>8 DEF Orderly
    <3>4. \A i, j \in 1..Len(waiting') : waiting'[i] = waiting'[j] => i = j
      BY <2>2, <2>4, <2>6 DEF Orderly
    <3> QED BY <3>1, <3>2, <3>3, <3>4 DEF Orderly
  <2> QED BY <2>7, <2>9
<1> QED BY <1>2, <1>3

LEMMA ReceiveKeeps ==
  ASSUME ChannelInv, Receive
  PROVE  ChannelInv' /\ Head(queue) \in Event
<1> USE DEF ChannelInv, ChannelType
<1>1. /\ Head(queue) \in Event /\ queue' \in Seq(Event)
      /\ Len(queue') = Len(queue) - 1 /\ Len(queue) \in Nat
  BY TailOf DEF Receive
<1>2. Cardinality(granted) \in Nat /\ Capacity \in Nat
  BY FS_CardinalityType, EventLoopAssumption DEF Orderly
<1>3. outbox' = outbox
  BY DEF Receive
<1>4. CASE waiting = <<>>
  <2>1. UNCHANGED <<waiting, granted>>
    BY <1>4 DEF Receive
  <2> QED BY <1>1, <1>2, <1>3, <2>1 DEF Orderly
<1>5. CASE waiting # <<>>
  <2>1. waiting' = Tail(waiting) /\ granted' = granted \cup {Head(waiting)}
    BY <1>5 DEF Receive
  <2>2. /\ Head(waiting) \in Senders /\ Head(waiting) = waiting[1] /\ waiting' \in Seq(Senders)
        /\ Len(waiting) \in Nat /\ Len(waiting) > 0 /\ Len(waiting') = Len(waiting) - 1
        /\ \A i \in 1..(Len(waiting) - 1) : waiting'[i] = waiting[i + 1]
    BY <1>5, <2>1, TailOf
  <2>3. /\ IsFiniteSet(granted') /\ Cardinality(granted') \in Nat
        /\ Cardinality(granted') <= Cardinality(granted) + 1
    <3> DEFINE h == Head(waiting)
    <3>1. IsFiniteSet(granted)
      BY DEF Orderly
    <3> HIDE DEF h, ChannelInv, ChannelType
    <3>2. /\ IsFiniteSet(granted \cup {h})
          /\ Cardinality(granted \cup {h}) = IF h \in granted THEN Cardinality(granted)
                                             ELSE Cardinality(granted) + 1
      BY <3>1, FS_AddElement
    <3>3. granted' = granted \cup {h}
      BY <2>1 DEF h
    <3> QED BY <1>2, <3>2, <3>3
  <2>4. ChannelType'
    BY <1>1, <1>2, <1>3, <2>1, <2>2, <2>3
  <2>5. 1 \in 1..Len(waiting) /\ \A i \in 1..Len(waiting') : i + 1 \in 1..Len(waiting) /\ i + 1 # 1
    BY <2>2
  <2>6. \A i \in 1..Len(waiting') : waiting'[i] = waiting[i + 1]
    BY <2>2
  <2>7. \A i \in 1..Len(waiting') : waiting'[i] \notin granted' /\ outbox'[waiting'[i]] # NoEvent
    BY <1>3, <2>1, <2>2, <2>5, <2>6 DEF Orderly
  <2>8. \A i, j \in 1..Len(waiting') : waiting'[i] = waiting'[j] => i = j
    <3>1. SUFFICES ASSUME NEW i \in 1..Len(waiting'), NEW j \in 1..Len(waiting'),
                          waiting'[i] = waiting'[j]
                   PROVE  i = j
      OBVIOUS
    <3>2. i + 1 = j + 1
      BY <3>1, <2>5, <2>6 DEF Orderly
    <3> QED BY <3>2
  <2>9. \A t \in granted' : outbox'[t] # NoEvent
    BY <1>3, <2>1, <2>2, <2>5 DEF Orderly
  <2> QED BY <1>1, <2>3, <2>4, <2>7, <2>8, <2>9 DEF Orderly
<1> QED BY <1>4, <1>5

LEMMA PushKeeps ==
  ASSUME ChannelInv, NEW s, Push(s)
  PROVE  ChannelInv' /\ s \in Senders /\ outbox[s] \in Event
<1> USE DEF ChannelInv, ChannelType
<1>1. s \in Senders /\ outbox[s] \in Event
  BY DEF Push, Orderly
<1>2. /\ queue' = Append(queue, outbox[s]) /\ granted' = granted \ {s} /\ waiting' = waiting
      /\ outbox' = [outbox EXCEPT ![s] = NoEvent]
  BY DEF Push
<1>3. queue' \in Seq(Event) /\ Len(queue') = Len(queue) + 1
  BY <1>1, <1>2, AppendOf
<1>4. /\ Cardinality(granted) \in Nat /\ Capacity \in Nat /\ IsFiniteSet(granted')
      /\ Cardinality(granted') = Cardinality(granted) - 1
  <2>1. IsFiniteSet(granted) /\ s \in granted /\ Capacity \in Nat
    BY EventLoopAssumption DEF Push, Orderly
  <2> HIDE DEF ChannelInv, ChannelType
  <2>2. /\ IsFiniteSet(granted \ {s})
        /\ Cardinality(granted \ {s}) = IF s \in granted THEN Cardinality(granted) - 1
                                        ELSE Cardinality(granted)
    BY <2>1, FS_RemoveElement
  <2>3. Cardinality(granted) \in Nat
    BY <2>1, FS_CardinalityType
  <2> QED BY <1>2, <2>1, <2>2, <2>3
<1>5. outbox' \in [Senders -> Event \cup {NoEvent}] /\
      \A t \in Senders : t # s => outbox'[t] = outbox[t]
  BY <1>2
<1>6. ChannelType'
  BY <1>2, <1>3, <1>4, <1>5
<1>7. \A i \in 1..Len(waiting) : waiting[i] # s /\ waiting[i] \in Senders
  BY DEF Push, Orderly
<1>8. Orderly'
  BY <1>2, <1>4, <1>5, <1>7 DEF Orderly
<1> QED BY <1>1, <1>6, <1>8

LEMMA IdleKeeps ==
  ASSUME ChannelInv, UNCHANGED channelVars
  PROVE  ChannelInv'
BY DEF ChannelInv, ChannelType, Orderly, channelVars

-----------------------------------------------------------------------------
(* Types and locks, action by action *)

LEMMA ApplyType ==
  ASSUME DaemonType, NEW profile \in Applied, Apply(profile)
  PROVE  applied' \in Applied
BY DEF DaemonType, Apply

LEMMA ProfilesAreApplied ==
  /\ \A power : OnBatteryProfile(power) \in Applied
  /\ \A c \in Configs : c.profiles \subseteq Applied
  /\ {"default", "responsive"} \subseteq Applied
BY EventLoopAssumption DEF OnBatteryProfile, Applied

LEMMA InitLoop == Init => LoopInv
<1> SUFFICES ASSUME Init
             PROVE  LoopInv
  OBVIOUS
<1>1. IsFiniteSet({}) /\ Cardinality({}) = 0
  BY FS_EmptySet
<1>2. ChannelInv
  <2>1. queue = <<>> /\ waiting = <<>> /\ granted = {} /\ outbox = [s \in Senders |-> NoEvent]
    BY DEF Init
  <2>2. queue \in Seq(Event) /\ Len(queue) = 0 /\ waiting \in Seq(Senders) /\ Len(waiting) = 0
    BY <2>1
  <2>3. 0 + 0 <= Capacity
    <3>1. Capacity \in Nat
      BY EventLoopAssumption
    <3> QED BY <3>1
  <2>4. ChannelType
    BY <1>1, <2>1, <2>2, <2>3 DEF ChannelType
  <2>5. Orderly
    BY <1>1, <2>1, <2>2 DEF Orderly
  <2> QED BY <2>4, <2>5 DEF ChannelInv
<1>3. applied \in Applied
  BY ProfilesAreApplied DEF Init, Applied
<1>4. DaemonType
  BY <1>3 DEF Init, DaemonType, CpuMode, CpuProfile, Applied
<1>5. Exclusive
  BY Names DEF Init, Exclusive, NoEvent, WriterEvents
<1> QED BY <1>2, <1>4, <1>5 DEF LoopInv

\* A task that finds its outbox empty may send an event of its own kind.
LEMMA SendExclusive ==
  ASSUME LoopInv, NEW s \in Senders, NEW e \in Event, outbox[s] = NoEvent, Send(s, e),
         e.type \in WriterEvents => s = writer,
         e.type = "OnBattery" <=> s = Battery,
         writer' = IF e.type \in WriterEvents /\ HasPermit THEN NoOne ELSE writer,
         handling' = handling, 
         (Loop \in readers') => (Loop \in readers) /\ (cpu_mode' = cpu_mode)
  PROVE  Exclusive'
<1>1. outbox' = IF HasPermit THEN outbox ELSE [outbox EXCEPT ![s] = e]
  BY DEF Send
<1>2. outbox \in [Senders -> Event \cup {NoEvent}] /\ NoEvent.type = "none"
  BY DEF LoopInv, ChannelInv, ChannelType, NoEvent
<1>3. ASSUME NEW t \in Senders, outbox'[t].type \in WriterEvents
      PROVE  t = writer'
  <2>1. CASE HasPermit
    <3>1. t = writer
      BY <1>1, <1>3, <2>1 DEF LoopInv, Exclusive
    <3>2. t # s
      BY <1>1, <1>2, <1>3, <2>1 DEF WriterEvents
    <3>3. e.type \notin WriterEvents
      BY <3>1, <3>2
    <3> QED BY <3>1, <3>3
  <2>2. CASE ~ HasPermit
    <3>1. CASE t = s
      BY <1>1, <1>2, <1>3, <2>2, <3>1
    <3>2. CASE t # s
      BY <1>1, <1>2, <1>3, <2>2, <3>2 DEF LoopInv, Exclusive
    <3> QED BY <3>1, <3>2
  <2> QED BY <2>1, <2>2
<1>4. \A t \in Senders : outbox'[t].type = "OnBattery" => t = Battery
  BY <1>1, <1>2 DEF LoopInv, Exclusive
<1>5. outbox'[Battery] # NoEvent => outbox'[Battery].type = "OnBattery"
  BY <1>1, <1>2, Names DEF LoopInv, Exclusive
<1> QED BY <1>3, <1>4, <1>5 DEF LoopInv, Exclusive

LEMMA FeedLoop ==
  ASSUME LoopInv, NEW f \in Feeders, Feed(f)
  PROVE  LoopInv'
<1> DEFINE e == [type |-> f, arg |-> ""]
<1>1. f \in Senders /\ e \in Event /\ e.type = f /\ f # Battery
  BY Names DEF Event
<1>2. e.type \notin WriterEvents /\ e.type # "OnBattery"
  BY <1>1, Names DEF CpuEvents
<1> HIDE DEF e
<1>3. outbox[f] = NoEvent /\ Send(f, e)
  BY DEF Feed, e
<1>4. ChannelInv'
  BY <1>1, <1>3, SendKeeps DEF LoopInv
<1>5. UNCHANGED <<lockVars, interfaceVars, handling, serviceVars, batteryVars>>
  BY DEF Feed
<1>6. DaemonType'
  BY <1>5 DEF LoopInv, DaemonType, lockVars, interfaceVars, serviceVars, batteryVars
<1>7. Exclusive'
  BY <1>1, <1>2, <1>3, <1>5, SendExclusive DEF lockVars, interfaceVars
<1> QED BY <1>4, <1>6, <1>7 DEF LoopInv

LEMMA BatteryMonitorLoop ==
  ASSUME LoopInv, BatteryMonitor
  PROVE  LoopInv'
<1> DEFINE e == [type |-> "OnBattery", arg |-> on_battery]
<1>1. Battery \in Senders /\ e \in Event /\ e.type = "OnBattery" /\ e.type \notin WriterEvents
  BY Names DEF Event, LoopInv, DaemonType, WriterEvents
<1> HIDE DEF e
<1>2. outbox[Battery] = NoEvent /\ Send(Battery, e)
  BY DEF BatteryMonitor, e
<1>3. ChannelInv'
  BY <1>1, <1>2, SendKeeps DEF LoopInv
<1>4. UNCHANGED <<lockVars, interfaceVars, handling, serviceVars, on_battery>> /\ battery_changed' = FALSE
  BY DEF BatteryMonitor
<1>5. DaemonType'
  BY <1>4 DEF LoopInv, DaemonType, lockVars, interfaceVars, serviceVars
<1>6. Exclusive'
  BY <1>1, <1>2, <1>4, SendExclusive DEF lockVars, interfaceVars
<1> QED BY <1>3, <1>5, <1>6 DEF LoopInv

LEMMA PlugOrUnplugLoop ==
  ASSUME LoopInv, PlugOrUnplug
  PROVE  LoopInv'
<1>1. ChannelInv'
  BY IdleKeeps DEF LoopInv, PlugOrUnplug
<1>2. DaemonType'
  BY DEF LoopInv, DaemonType, PlugOrUnplug, lockVars, interfaceVars, serviceVars
<1>3. Exclusive'
  BY DEF LoopInv, Exclusive, PlugOrUnplug, channelVars, lockVars, interfaceVars
<1> QED BY <1>1, <1>2, <1>3 DEF LoopInv

LEMMA BeginLoop ==
  ASSUME LoopInv, NEW c \in Clients, NEW r \in Calls, Begin(c, r)
  PROVE  LoopInv'
<1>1. ChannelInv'
  BY IdleKeeps DEF LoopInv, Begin
<1>2. DaemonType'
  BY DEF LoopInv, DaemonType, Begin, interfaceVars, serviceVars, batteryVars
<1>3. Exclusive'
  BY DEF LoopInv, Exclusive, Begin, channelVars, interfaceVars
<1> QED BY <1>1, <1>2, <1>3 DEF LoopInv

LEMMA AnnounceLoop ==
  ASSUME LoopInv, NEW c \in Clients, Announce(c)
  PROVE  LoopInv'
<1>1. ChannelInv'
  BY IdleKeeps DEF LoopInv, Announce
<1>2. DaemonType'
  BY DEF LoopInv, DaemonType, Announce, interfaceVars, serviceVars, batteryVars
<1>3. Exclusive'
  BY Names DEF LoopInv, Exclusive, Announce, channelVars, interfaceVars
<1> QED BY <1>1, <1>2, <1>3 DEF LoopInv

LEMMA PushLoop ==
  ASSUME LoopInv, NEW s, Push(s)
  PROVE  LoopInv'
<1>1. ChannelInv' /\ s \in Senders /\ outbox[s] \in Event
  BY PushKeeps DEF LoopInv
<1>2. DaemonType'
  BY <1>1 DEF LoopInv, DaemonType, Push, interfaceVars, serviceVars, batteryVars
<1>3. outbox \in [Senders -> Event \cup {NoEvent}] /\ NoEvent.type = "none"
  BY DEF LoopInv, ChannelInv, ChannelType, NoEvent
<1>4. outbox' = [outbox EXCEPT ![s] = NoEvent]
  BY DEF Push
<1>5. /\ writer' = IF writer = s THEN NoOne ELSE writer
      /\ Loop \in readers' => Loop \in readers
      /\ UNCHANGED <<handling, cpu_mode>>
  BY DEF Push, interfaceVars
<1>6. ASSUME NEW t \in Senders
      PROVE  /\ outbox'[t].type \in WriterEvents => t = writer'
             /\ outbox'[t].type = "OnBattery" => t = Battery
             /\ outbox'[t] # NoEvent => outbox'[t] = outbox[t]
  <2>1. CASE t = s
    BY <1>1, <1>3, <1>4, <2>1 DEF WriterEvents
  <2>2. CASE t # s
    BY <1>1, <1>3, <1>4, <1>5, <2>2 DEF LoopInv, Exclusive
  <2> QED BY <2>1, <2>2
<1>7. Exclusive'
  BY <1>5, <1>6, Names DEF LoopInv, Exclusive
<1> QED BY <1>1, <1>2, <1>7 DEF LoopInv

\* The interface after a method with &mut self has run up to where it may wait.
LEMMA WrittenType ==
  ASSUME DaemonType, NEW r \in Calls, r.method # "reload_configuration"
  PROVE  /\ AskedBy(r) \in [foreground : Pids \cup {""}, cpu : {"auto", "kept"} \cup Applied]
         /\ r.method = "set_cpu_profile" => ModeOf(r.arg) \in CpuMode /\ r.arg \in CpuProfile
         /\ r.method = "set_cpu_mode" => r.arg \in CpuMode
         /\ r.method \in {"set_foreground_process", "set_cpu_mode", "set_cpu_profile"}
<1>1. asked \in [foreground : Pids \cup {""}, cpu : {"auto", "kept"} \cup Applied]
  BY DEF DaemonType
<1>2. r.method \in {"set_foreground_process", "set_cpu_mode", "set_cpu_profile"}
  <2>1. r \in Call
    BY EventLoopAssumption
  <2> QED BY <2>1 DEF Call
<1>3. CASE r.method = "set_foreground_process"
  BY <1>1, <1>3, EventOfCall DEF AskedBy
<1>4. CASE r.method = "set_cpu_mode"
  BY <1>1, <1>4, EventOfCall DEF AskedBy, Applied
<1>5. CASE r.method = "set_cpu_profile"
  <2>1. r.arg \in CpuProfile
    BY <1>5, EventOfCall
  <2>2. ModeOf(r.arg) \in CpuMode
    BY DEF ModeOf, CpuMode, DaemonType
  <2>3. CASE r.arg = ""
    BY <1>1, <1>5, <2>3, <2>1, <2>2 DEF AskedBy
  <2>4. CASE r.arg # ""
    <3>1. r.arg \in {"auto", "kept"} \cup Applied
      BY <2>1, <2>4 DEF CpuProfile, Applied
    <3>2. AskedBy(r) = [asked EXCEPT !.cpu = r.arg]
      BY <1>5, <2>4 DEF AskedBy
    <3> QED BY <1>1, <1>5, <2>1, <2>2, <3>1, <3>2
  <2> QED BY <2>3, <2>4
<1> QED BY <1>2, <1>3, <1>4, <1>5

\* A call that writes the interface, its event, and what it does to the channel.
LEMMA WriteOf ==
  ASSUME LoopInv, NEW c \in Clients, Write(c)
  PROVE  /\ c \in Senders /\ c # Battery /\ writer = c /\ readers = {} /\ outbox[c] = NoEvent
         /\ call[c] \in Calls /\ call[c].method # "reload_configuration"
         /\ asked' = AskedBy(call[c])
         /\ \/ /\ EventOf(call[c]) = NoEvent /\ UNCHANGED channelVars /\ writer' = NoOne
            \/ /\ EventOf(call[c]) \in Event /\ EventOf(call[c]).type \in WriterEvents
               /\ EventOf(call[c]).type # "OnBattery"
               /\ Send(c, EventOf(call[c]))
               /\ writer' = IF HasPermit THEN NoOne ELSE c
<1>1. c \in Senders /\ c # Battery /\ writer = c /\ readers = {} /\ outbox[c] = NoEvent
  BY Names DEF Write
<1>2. call[c] \in Calls /\ call[c].method # "reload_configuration"
  <2>1. call[c] \in Calls \cup {NoCall} /\ NoCall.method = "none"
    BY DEF LoopInv, DaemonType, NoCall
  <2>2. call[c].method \in {"set_foreground_process", "set_cpu_mode", "set_cpu_profile"}
    BY DEF Write, Writes
  <2> QED BY <2>1, <2>2
<1>3. CASE EventOf(call[c]) = NoEvent
  BY <1>1, <1>2, <1>3 DEF Write, LockWhile
<1>4. CASE EventOf(call[c]) # NoEvent
  <2>1. EventOf(call[c]) \in Event
    BY <1>2, <1>4, EventOfCall
  <2>2. EventOf(call[c]).type \in WriterEvents
    <3>1. call[c].method \in {"set_foreground_process", "set_cpu_mode", "set_cpu_profile"}
      BY <1>2, WrittenType DEF LoopInv
    <3>2. \/ EventOf(call[c]).type = "SetForegroundProcess"
          \/ EventOf(call[c]).type = "SetCpuMode"
          \/ EventOf(call[c]).type = "SetCustomCpuMode"
      <4>1. CASE call[c].method = "set_foreground_process"
        BY <1>2, <4>1, EventOfCall
      <4>2. CASE call[c].method = "set_cpu_mode"
        BY <1>2, <4>2, EventOfCall
      <4>3. CASE call[c].method = "set_cpu_profile"
        <5>1. call[c].arg # ""
          BY <1>2, <1>4, <4>3, EventOfCall
        <5> QED BY <1>2, <4>3, <5>1, EventOfCall
      <4> QED BY <3>1, <4>1, <4>2, <4>3
    <3> QED BY <3>2 DEF WriterEvents
  <2>3. EventOf(call[c]).type # "OnBattery"
    BY <2>2 DEF WriterEvents
  <2>4. Send(c, EventOf(call[c])) /\ writer' = IF HasPermit THEN NoOne ELSE c
    BY <1>4 DEF Write, LockWhile
  <2> QED BY <1>1, <1>2, <2>1, <2>2, <2>3, <2>4 DEF Write
<1> QED BY <1>3, <1>4

LEMMA WriteLoop ==
  ASSUME LoopInv, NEW c \in Clients, Write(c)
  PROVE  LoopInv'
<1> DEFINE r == call[c]
           e == EventOf(r)
<1>1. /\ c \in Senders /\ c # Battery /\ writer = c /\ readers = {} /\ outbox[c] = NoEvent
      /\ r \in Calls /\ r.method # "reload_configuration" /\ asked' = AskedBy(r)
      /\ \/ e = NoEvent /\ UNCHANGED channelVars /\ writer' = NoOne
         \/ /\ e \in Event /\ e.type \in WriterEvents /\ e.type # "OnBattery"
            /\ Send(c, e) /\ writer' = IF HasPermit THEN NoOne ELSE c
  BY WriteOf
<1>2. /\ cpu_mode' = CASE r.method = "set_cpu_mode"    -> r.arg
                       [] r.method = "set_cpu_profile" -> ModeOf(r.arg)
                       [] OTHER                        -> cpu_mode
      /\ cpu_profile' = IF r.method = "set_cpu_profile" THEN r.arg ELSE cpu_profile
      /\ call' \in {call, [call EXCEPT ![c] = NoCall]}
      /\ UNCHANGED <<readers, handling, serviceVars, batteryVars>>
  BY DEF Write, LockWhile
<1> HIDE DEF r, e
<1>3. DaemonType'
  <2>1. asked' \in [foreground : Pids \cup {""}, cpu : {"auto", "kept"} \cup Applied]
    BY <1>1, WrittenType DEF LoopInv
  <2>2. cpu_mode' \in CpuMode /\ cpu_profile' \in CpuProfile
    <3>1. CASE r.method = "set_foreground_process"
      BY <1>2, <3>1 DEF LoopInv, DaemonType
    <3>2. CASE r.method = "set_cpu_mode"
      BY <1>1, <1>2, <3>2, WrittenType DEF LoopInv, DaemonType
    <3>3. CASE r.method = "set_cpu_profile"
      BY <1>1, <1>2, <3>3, WrittenType DEF LoopInv, DaemonType
    <3> QED BY <1>1, <3>1, <3>2, <3>3, WrittenType DEF LoopInv
  <2>3. call' \in [Clients -> Calls \cup {NoCall}]
    BY <1>2 DEF LoopInv, DaemonType
  <2>4. writer' \in Clients \cup {NoOne}
    BY <1>1
  <2> QED BY <1>2, <2>1, <2>2, <2>3, <2>4 DEF LoopInv, DaemonType, serviceVars, batteryVars
<1>4. Loop \notin readers'
  BY <1>1, <1>2
<1>5. CASE e = NoEvent /\ UNCHANGED channelVars /\ writer' = NoOne
  <2>1. ChannelInv'
    BY <1>5, IdleKeeps DEF LoopInv
  <2>2. \A s \in Senders : outbox'[s] = outbox[s] /\ outbox'[s].type \notin WriterEvents
    <3>1. NoEvent.type \notin WriterEvents
      BY DEF NoEvent, WriterEvents
    <3> QED BY <1>1, <1>5, <3>1 DEF LoopInv, Exclusive, channelVars
  <2>3. Exclusive'
    BY <1>2, <1>4, <2>2, Names DEF LoopInv, Exclusive
  <2> QED BY <1>3, <2>1, <2>3 DEF LoopInv
<1>6. CASE /\ e \in Event /\ e.type \in WriterEvents /\ e.type # "OnBattery"
           /\ Send(c, e) /\ writer' = IF HasPermit THEN NoOne ELSE c
  <2>1. ChannelInv'
    BY <1>1, <1>6, SendKeeps DEF LoopInv
  <2>2. Exclusive'
    BY <1>1, <1>2, <1>4, <1>6, SendExclusive
  <2> QED BY <1>3, <2>1, <2>2 DEF LoopInv
<1> QED BY <1>1, <1>5, <1>6

LEMMA ReadLoop ==
  ASSUME LoopInv, NEW c \in Clients, Read(c)
  PROVE  LoopInv'
<1> DEFINE e == EventOf(call[c])
<1>1. c \in Senders /\ c # Battery /\ Loop # c
  BY Names
<1>2. call[c] \in Calls /\ call[c].method = "reload_configuration"
  <2>1. call[c] \in Calls \cup {NoCall} /\ NoCall.method = "none"
    BY DEF LoopInv, DaemonType, NoCall
  <2> QED BY <2>1 DEF Read
<1>3. e = [type |-> "ReloadConfiguration", arg |-> ""]
  BY <1>2, EventOfCall
<1>4. e \in Event /\ e.type \notin WriterEvents /\ e.type # "OnBattery"
  <2>1. [type |-> "ReloadConfiguration", arg |-> ""] \in Event
    BY DEF Event
  <2>2. e.type = "ReloadConfiguration"
    BY <1>2, EventOfCall
  <2> HIDE DEF e
  <2> QED BY <1>3, <2>1, <2>2 DEF WriterEvents
<1>5. /\ outbox[c] = NoEvent /\ Send(c, e)
      /\ call' \in {call, [call EXCEPT ![c] = NoCall]} /\ readers' \in {readers, readers \cup {c}}
      /\ UNCHANGED <<writer, interfaceVars, handling, serviceVars, batteryVars>>
  BY DEF Read
<1> HIDE DEF e
<1>6. ChannelInv'
  BY <1>1, <1>4, <1>5, SendKeeps DEF LoopInv
<1>7. call' \in [Clients -> Calls \cup {NoCall}]
  BY <1>5 DEF LoopInv, DaemonType
<1>8. DaemonType'
  BY <1>5, <1>7 DEF LoopInv, DaemonType, interfaceVars, serviceVars, batteryVars
<1>9. (Loop \in readers') => (Loop \in readers) /\ (cpu_mode' = cpu_mode)
  BY <1>1, <1>5 DEF interfaceVars
<1>10. Exclusive'
  BY <1>1, <1>4, <1>5, <1>9, SendExclusive
<1> QED BY <1>6, <1>8, <1>10 DEF LoopInv

\* The steps that take an event from the channel.
LEMMA ReceiveLoop ==
  ASSUME LoopInv, Receive, handling = NoEvent, UNCHANGED lockVars, UNCHANGED batteryVars,
         UNCHANGED <<cpu_mode, cpu_profile, applied>>,
         handling' = NoEvent \/ (handling' = Head(queue) /\ Head(queue).type \in CpuEvents),
         served' \in Pids \cup {""}, config' \in Configs,
         asked' \in [foreground : Pids \cup {""}, cpu : {"auto", "kept"} \cup Applied]
  PROVE  LoopInv'
<1>1. ChannelInv' /\ Head(queue) \in Event
  BY ReceiveKeeps DEF LoopInv
<1>2. DaemonType'
  BY <1>1 DEF LoopInv, DaemonType, lockVars, batteryVars
<1>3. outbox' = outbox
  BY DEF Receive
<1>4. Loop \notin readers
  BY DEF LoopInv, Exclusive, NoEvent
<1>5. Exclusive'
  BY <1>3, <1>4 DEF LoopInv, Exclusive, lockVars
<1> QED BY <1>1, <1>2, <1>5 DEF LoopInv

LEMMA ReceivingLoop ==
  ASSUME LoopInv,
         HandleProcesses \/ HandleSetForegroundProcess \/ HandleReloadConfiguration \/ TakeCpuEvent
  PROVE  LoopInv'
<1>0. /\ served \in Pids \cup {""} /\ config \in Configs
      /\ asked \in [foreground : Pids \cup {""}, cpu : {"auto", "kept"} \cup Applied]
  BY DEF LoopInv, DaemonType
<1>1. CASE HandleProcesses
  <2>3. /\ Receive /\ handling = NoEvent /\ UNCHANGED lockVars /\ UNCHANGED batteryVars
        /\ UNCHANGED <<cpu_mode, cpu_profile, applied>>
        /\ handling' = NoEvent \/ (handling' = Head(queue) /\ Head(queue).type \in CpuEvents)
    BY <1>1 DEF HandleProcesses, interfaceVars, serviceVars, CpuEvents
  <2>4. /\ served' \in Pids \cup {""} /\ config' \in Configs
        /\ asked' \in [foreground : Pids \cup {""}, cpu : {"auto", "kept"} \cup Applied]
    BY <1>0, <1>1 DEF HandleProcesses, interfaceVars, serviceVars
  <2> QED BY <2>3, <2>4, ReceiveLoop
<1>2. CASE HandleSetForegroundProcess
  <2>1. Head(queue) \in Event /\ Head(queue).type = "SetForegroundProcess"
    BY <1>2, ReceiveKeeps DEF LoopInv, HandleSetForegroundProcess
  <2>2. Head(queue).arg \in Pids
    BY <2>1, EventKinds
  <2>3. /\ Receive /\ handling = NoEvent /\ UNCHANGED lockVars /\ UNCHANGED batteryVars
        /\ UNCHANGED <<cpu_mode, cpu_profile, applied>>
        /\ handling' = NoEvent \/ (handling' = Head(queue) /\ Head(queue).type \in CpuEvents)
    BY <1>2 DEF HandleSetForegroundProcess, interfaceVars, serviceVars, CpuEvents
  <2>4. /\ served' \in Pids \cup {""} /\ config' \in Configs
        /\ asked' \in [foreground : Pids \cup {""}, cpu : {"auto", "kept"} \cup Applied]
    BY <1>0, <1>2, <2>2 DEF HandleSetForegroundProcess, interfaceVars, serviceVars
  <2> QED BY <2>3, <2>4, ReceiveLoop
<1>3. CASE HandleReloadConfiguration
  <2>3. /\ Receive /\ handling = NoEvent /\ UNCHANGED lockVars /\ UNCHANGED batteryVars
        /\ UNCHANGED <<cpu_mode, cpu_profile, applied>>
        /\ handling' = NoEvent \/ (handling' = Head(queue) /\ Head(queue).type \in CpuEvents)
    BY <1>3 DEF HandleReloadConfiguration, interfaceVars, serviceVars, CpuEvents
  <2>4. /\ served' \in Pids \cup {""} /\ config' \in Configs
        /\ asked' \in [foreground : Pids \cup {""}, cpu : {"auto", "kept"} \cup Applied]
    BY <1>0, <1>3 DEF HandleReloadConfiguration, interfaceVars, serviceVars
  <2> QED BY <2>3, <2>4, ReceiveLoop
<1>4. CASE TakeCpuEvent
  <2>3. /\ Receive /\ handling = NoEvent /\ UNCHANGED lockVars /\ UNCHANGED batteryVars
        /\ UNCHANGED <<cpu_mode, cpu_profile, applied>>
        /\ handling' = NoEvent \/ (handling' = Head(queue) /\ Head(queue).type \in CpuEvents)
    BY <1>4 DEF TakeCpuEvent, interfaceVars, serviceVars, CpuEvents
  <2>4. /\ served' \in Pids \cup {""} /\ config' \in Configs
        /\ asked' \in [foreground : Pids \cup {""}, cpu : {"auto", "kept"} \cup Applied]
    BY <1>0, <1>4 DEF TakeCpuEvent, interfaceVars, serviceVars
  <2> QED BY <2>3, <2>4, ReceiveLoop
<1> QED BY <1>1, <1>2, <1>3, <1>4

\* The steps that handle an event for which the loop needed the interface.
LEMMA HandleLoop ==
  ASSUME LoopInv, UNCHANGED <<channelVars, call, writer, interfaceVars, served, config>>,
         UNCHANGED batteryVars, applied' \in Applied, readers' \subseteq readers \ {Loop},
         handling' = NoEvent
  PROVE  LoopInv'
<1>1. ChannelInv'
  BY IdleKeeps DEF LoopInv
<1>2. DaemonType'
  BY DEF LoopInv, DaemonType, interfaceVars, batteryVars
<1>3. Exclusive'
  BY DEF LoopInv, Exclusive, channelVars
<1> QED BY <1>1, <1>2, <1>3 DEF LoopInv

LEMMA HandlingLoop ==
  ASSUME LoopInv,
         HandleOnBattery \/ HandleSetCpuMode \/ HearUPower \/ HandleSetCustomCpuMode
  PROVE  LoopInv'
<1>1. applied' \in Applied
  <2>1. applied \in Applied /\ config \in Configs /\ DaemonType
    BY DEF LoopInv, DaemonType
  <2>2. CASE HandleOnBattery
    BY <2>1, <2>2, ApplyType, ProfilesAreApplied DEF HandleOnBattery
  <2>3. CASE HandleSetCpuMode
    <3>1. cpu_mode \in {"Default", "Responsive", "Custom"}
      BY <2>1, <2>3 DEF HandleSetCpuMode, DaemonType, CpuMode
    <3> QED BY <2>1, <2>3, <3>1, ApplyType, ProfilesAreApplied DEF HandleSetCpuMode
  <2>4. CASE HearUPower
    BY <2>1, <2>4, ApplyType, ProfilesAreApplied DEF HearUPower
  <2>5. CASE HandleSetCustomCpuMode
    BY <2>1, <2>5, ApplyType, ProfilesAreApplied DEF HandleSetCustomCpuMode
  <2> QED BY <2>2, <2>3, <2>4, <2>5
<1>2. CASE HandleOnBattery
  <2>1. Loop \notin readers
    BY <1>2 DEF LoopInv, Exclusive, HandleOnBattery
  <2> QED BY <1>1, <1>2, <2>1, HandleLoop DEF HandleOnBattery, lockVars
<1>3. CASE HandleSetCpuMode
  <2>1. Loop \notin readers
    BY <1>3 DEF LoopInv, Exclusive, HandleSetCpuMode
  <2> QED BY <1>1, <1>3, <2>1, HandleLoop DEF HandleSetCpuMode, lockVars
<1>4. CASE HearUPower
  BY <1>1, <1>4, HandleLoop DEF HearUPower
<1>5. CASE HandleSetCustomCpuMode
  <2>1. Loop \notin readers
    BY <1>5 DEF LoopInv, Exclusive, HandleSetCustomCpuMode
  <2> QED BY <1>1, <1>5, <2>1, HandleLoop DEF HandleSetCustomCpuMode, lockVars
<1> QED BY <1>2, <1>3, <1>4, <1>5

LEMMA AskUPowerLoop ==
  ASSUME LoopInv, AskUPower
  PROVE  LoopInv'
<1>1. ChannelInv'
  BY IdleKeeps DEF LoopInv, AskUPower
<1>2. DaemonType'
  BY DEF LoopInv, DaemonType, AskUPower, interfaceVars, serviceVars, batteryVars
<1>3. Exclusive'
  BY DEF LoopInv, Exclusive, AskUPower, channelVars, interfaceVars
<1> QED BY <1>1, <1>2, <1>3 DEF LoopInv

LEMMA StutterLoop ==
  ASSUME LoopInv, UNCHANGED vars
  PROVE  LoopInv'
BY DEF LoopInv, ChannelInv, ChannelType, Orderly, DaemonType, Exclusive, vars, channelVars,
       lockVars, interfaceVars, serviceVars, batteryVars

LEMMA NextLoop == LoopInv /\ [Next]_vars => LoopInv'
<1> SUFFICES ASSUME LoopInv, [Next]_vars
             PROVE  LoopInv'
  OBVIOUS
<1>1. CASE MainLoop
  BY <1>1, ReceivingLoop, HandlingLoop, AskUPowerLoop DEF MainLoop
<1>2. CASE \E s \in Senders : Push(s)
  BY <1>2, PushLoop
<1>3. CASE \E f \in Feeders : Feed(f)
  BY <1>3, FeedLoop
<1>4. CASE PlugOrUnplug \/ BatteryMonitor
  BY <1>4, PlugOrUnplugLoop, BatteryMonitorLoop
<1>5. CASE \E c \in Clients : Announce(c) \/ Write(c) \/ Read(c) \/ \E r \in Calls : Begin(c, r)
  BY <1>5, AnnounceLoop, WriteLoop, ReadLoop, BeginLoop
<1>6. CASE UNCHANGED vars
  BY <1>6, StutterLoop
<1> QED BY <1>1, <1>2, <1>3, <1>4, <1>5, <1>6 DEF Next

\* The channel never holds more than its capacity, permits that were handed out
\* included, no task waits twice, and an event of a method with &mut self waits
\* only under the lock of the interface (main.rs and dbus.rs).
THEOREM LoopInvariance == Spec => []LoopInv
BY InitLoop, NextLoop, PTL DEF Spec

\* The event loop keeps its types and the bound of the channel.
THEOREM EventLoopTypeCorrect == Spec => []TypeOK
<1>1. LoopInv => TypeOK
  BY DEF LoopInv, ChannelInv, ChannelType, DaemonType, TypeOK
<1> QED BY <1>1, LoopInvariance, PTL

-----------------------------------------------------------------------------
(* The requests in the channel *)

\* f[n] are the pids that the requests among the first n events of q name.
NamedUpTo(q, f) ==
  /\ f \in [0..Len(q) -> Seq(Pids)]
  /\ f[0] = <<>>
  /\ \A n \in 1..Len(q) :
       f[n] = IF IsRequest(q[n]) THEN f[n - 1] \o <<q[n].arg>> ELSE f[n - 1]

LEMMA RequestsDefined ==
  ASSUME NEW q \in Seq(Event)
  PROVE  \E f : NamedUpTo(q, f) /\ RequestsIn(q) = f[Len(q)]
<1> DEFINE L == Len(q)
           V == Seq(Pids)
           step == [x \in (1..L) \X V |->
                      IF IsRequest(q[x[1]]) THEN x[2] \o <<q[x[1]].arg>> ELSE x[2]]
           Body(f) == [n \in 0..L |-> IF n = 0 THEN <<>>
                                      ELSE IF IsRequest(q[n]) THEN f[n - 1] \o <<q[n].arg>>
                                      ELSE f[n - 1]]
<1>1. L \in Nat /\ <<>> \in V
  OBVIOUS
<1>2. step \in [(1..L) \X V -> V]
  <2>1. ASSUME NEW x \in (1..L) \X V
        PROVE  (IF IsRequest(q[x[1]]) THEN x[2] \o <<q[x[1]].arg>> ELSE x[2]) \in V
    <3>1. q[x[1]] \in Event /\ x[2] \in V
      OBVIOUS
    <3>2. IsRequest(q[x[1]]) => q[x[1]].arg \in Pids
      BY <3>1, EventKinds DEF IsRequest
    <3> QED BY <3>1, <3>2
  <2> QED BY <2>1
<1>3. \A n \in 1..L, v \in V :
        step[<<n, v>>] = IF IsRequest(q[n]) THEN v \o <<q[n].arg>> ELSE v
  OBVIOUS
<1> HIDE DEF step, V
<1>4. PICK f : Follows(f, step, <<>>, L, V)
  BY <1>1, <1>2, RecursionDefines DEF StepOn
<1> USE DEF Follows
<1>5. f = Body(f)
  <2>1. ASSUME NEW n \in 0..L, n # 0
        PROVE  n \in 1..L /\ f[n - 1] \in V
    <3>1. n \in 1..L /\ n - 1 \in 0..L
      BY <1>1, <2>1
    <3> QED BY <1>4, <3>1
  <2>2. ASSUME NEW n \in 0..L
        PROVE  f[n] = IF n = 0 THEN <<>>
                      ELSE IF IsRequest(q[n]) THEN f[n - 1] \o <<q[n].arg>> ELSE f[n - 1]
    BY <1>3, <1>4, <2>1
  <2> QED BY <1>4, <2>2
<1> DEFINE h == CHOOSE g : g = Body(g)
<1>6. h = Body(h)
  <2> HIDE DEF Body
  <2> QED BY <1>5
<1>7. RequestsIn(q) = h[L]
  BY Zenon DEF RequestsIn
<1> HIDE DEF h
<1>8. \A n \in 0..L : h[n] = IF n = 0 THEN <<>>
                             ELSE IF IsRequest(q[n]) THEN h[n - 1] \o <<q[n].arg>> ELSE h[n - 1]
  BY <1>6
<1>9. h[0] = <<>>
  <2>1. 0 \in 0..L
    BY <1>1
  <2> QED BY <1>8, <2>1, Zenon
<1>10. 0..L \subseteq {n \in 0..L : h[n] \in V}
  <2> DEFINE T == {n \in 0..L : h[n] \in V}
  <2>1. 0 \in T
    <3>1. 0 \in 0..L
      BY <1>1
    <3> QED BY <1>1, <1>9, <3>1
  <2>2. ASSUME NEW n \in 1..L, n - 1 \in T
        PROVE  n \in T
    <3>1. n \in 0..L /\ n # 0 /\ h[n - 1] \in V
      BY <2>2, <1>1
    <3>2. h[n] = step[<<n, h[n - 1]>>]
      BY <1>3, <1>8, <3>1
    <3> QED BY <1>2, <3>1, <3>2
  <2> HIDE DEF T
  <2>3. 0..L \subseteq T
    BY <1>1, <2>1, <2>2, IntervalInduction
  <2> QED BY <2>3 DEF T
<1>11. h \in [0..L -> V]
  BY <1>6, <1>10
<1>12. NamedUpTo(q, h)
  <2>1. \A n \in 1..L : n \in 0..L /\ n # 0
    BY <1>1
  <2> QED BY <1>8, <1>11, <1>9, <2>1 DEF NamedUpTo, V
<1> QED BY <1>7, <1>12

LEMMA RequestsType ==
  ASSUME NEW q \in Seq(Event)
  PROVE  RequestsIn(q) \in Seq(Pids)
<1>1. PICK f : NamedUpTo(q, f) /\ RequestsIn(q) = f[Len(q)]
  BY RequestsDefined
<1> QED BY <1>1 DEF NamedUpTo

\* An event that is pushed comes after all others.
LEMMA RequestsOfAppend ==
  ASSUME NEW q \in Seq(Event), NEW e \in Event
  PROVE  RequestsIn(Append(q, e)) = IF IsRequest(e) THEN RequestsIn(q) \o <<e.arg>>
                                    ELSE RequestsIn(q)
<1> DEFINE r == Append(q, e)
           L == Len(q)
<1>1. /\ L \in Nat /\ r \in Seq(Event) /\ Len(r) = L + 1 /\ r[L + 1] = e
      /\ \A i \in 1..L : r[i] = q[i]
  BY AppendOf
<1> HIDE DEF r
<1>2. PICK f : NamedUpTo(q, f) /\ RequestsIn(q) = f[L]
  BY RequestsDefined
<1>3. PICK g : NamedUpTo(r, g) /\ RequestsIn(r) = g[L + 1]
  BY <1>1, RequestsDefined
<1> DEFINE T == {n \in 0..L : f[n] = g[n]}
<1>4. 0 \in T
  BY <1>1, <1>2, <1>3 DEF NamedUpTo
<1>5. ASSUME NEW n \in 1..L, n - 1 \in T
      PROVE  n \in T
  <2>1. n \in 0..L /\ n \in 1..Len(q) /\ n \in 1..Len(r) /\ r[n] = q[n] /\ f[n - 1] = g[n - 1]
    BY <1>1, <1>5
  <2>2. f[n] = g[n]
    BY <1>2, <1>3, <2>1 DEF NamedUpTo
  <2> QED BY <2>1, <2>2
<1> HIDE DEF T
<1>6. 0..L \subseteq T
  BY <1>1, <1>4, <1>5, IntervalInduction
<1>7. f[L] = g[L]
  BY <1>1, <1>6 DEF T
<1>8. g[L + 1] = IF IsRequest(e) THEN g[L] \o <<e.arg>> ELSE g[L]
  <2>1. L + 1 \in 1..Len(r) /\ (L + 1) - 1 = L
    BY <1>1
  <2> QED BY <1>1, <1>3, <2>1 DEF NamedUpTo
<1> QED BY <1>2, <1>3, <1>7, <1>8 DEF r

\* The event at the head names the request that takes effect next.
LEMMA RequestsOfTail ==
  ASSUME NEW q \in Seq(Event), q # <<>>
  PROVE  RequestsIn(q) = IF IsRequest(Head(q)) THEN <<Head(q).arg>> \o RequestsIn(Tail(q))
                         ELSE RequestsIn(Tail(q))
<1> DEFINE r == Tail(q)
           L == Len(q) - 1
           first == IF IsRequest(q[1]) THEN <<q[1].arg>> ELSE <<>>
<1>1. /\ L \in Nat /\ r \in Seq(Event) /\ Len(r) = L /\ Head(q) = q[1] /\ q[1] \in Event
      /\ Len(q) = L + 1 /\ \A i \in 1..L : r[i] = q[i + 1]
  BY TailOf
<1>2. first \in Seq(Pids)
  BY <1>1, EventKinds DEF IsRequest
<1> HIDE DEF r, L
<1>3. PICK f : NamedUpTo(q, f) /\ RequestsIn(q) = f[L + 1]
  BY <1>1, RequestsDefined
<1>4. PICK g : NamedUpTo(r, g) /\ RequestsIn(r) = g[L]
  BY <1>1, RequestsDefined
<1> DEFINE T == {n \in 0..L : f[n + 1] = first \o g[n]}
<1>5. 0 \in T
  <2>1. f[1] = first
    <3>1. 1 \in 1..Len(q) /\ 1 - 1 = 0
      BY <1>1
    <3>2. IsRequest(q[1]) => q[1].arg \in Pids
      BY <1>1, EventKinds DEF IsRequest
    <3>3. \A x \in Pids : <<>> \o <<x>> = <<x>>
      BY ConcatEmptySeq
    <3> QED BY <1>3, <3>1, <3>2, <3>3 DEF NamedUpTo
  <2>2. g[0] = <<>> /\ first \o <<>> = first
    BY <1>2, <1>4, ConcatEmptySeq DEF NamedUpTo
  <2> HIDE DEF first
  <2>3. 0 \in 0..L /\ 0 + 1 = 1
    BY <1>1
  <2> QED BY <2>1, <2>2, <2>3
<1> HIDE DEF first
<1>6. ASSUME NEW n \in 1..L, n - 1 \in T
      PROVE  n \in T
  <2>1. /\ n + 1 \in 1..Len(q) /\ n \in 1..Len(r) /\ n - 1 \in 0..Len(r) /\ (n + 1) - 1 = n
        /\ (n - 1) + 1 = n /\ r[n] = q[n + 1] /\ r[n] \in Event
    BY <1>1
  <2>2. f[n] = first \o g[n - 1] /\ g[n - 1] \in Seq(Pids)
    BY <1>4, <1>6, <2>1 DEF NamedUpTo
  <2>3. f[n + 1] = IF IsRequest(r[n]) THEN f[n] \o <<r[n].arg>> ELSE f[n]
    BY <1>3, <2>1 DEF NamedUpTo
  <2>4. g[n] = IF IsRequest(r[n]) THEN g[n - 1] \o <<r[n].arg>> ELSE g[n - 1]
    BY <1>4, <2>1 DEF NamedUpTo
  <2>5. CASE IsRequest(r[n])
    <3>1. r[n].arg \in Pids
      BY <2>1, <2>5, EventKinds DEF IsRequest
    <3>2. (first \o g[n - 1]) \o <<r[n].arg>> = first \o (g[n - 1] \o <<r[n].arg>>)
      <4> DEFINE t == g[n - 1]
                 u == <<r[n].arg>>
      <4>1. t \in Seq(Pids) /\ u \in Seq(Pids)
        BY <2>2, <3>1
      <4> HIDE DEF t, u
      <4>2. (first \o t) \o u = first \o (t \o u)
        BY <1>2, <4>1, ConcatAssociative
      <4> QED BY <4>2 DEF t, u
    <3>3. f[n + 1] = first \o g[n]
      BY <2>2, <2>3, <2>4, <2>5, <3>2, Zenon
    <3>4. n \in 0..L
      BY <1>1
    <3> QED BY <3>3, <3>4
  <2>6. CASE ~ IsRequest(r[n])
    <3>1. f[n + 1] = first \o g[n]
      BY <2>2, <2>3, <2>4, <2>6, Zenon
    <3>2. n \in 0..L
      BY <1>1
    <3> QED BY <3>1, <3>2
  <2> QED BY <2>5, <2>6
<1> HIDE DEF T
<1>7. 0..L \subseteq T
  BY <1>1, <1>5, <1>6, IntervalInduction
<1>8. f[L + 1] = first \o g[L]
  BY <1>1, <1>7 DEF T
<1>9. g[L] \in Seq(Pids) /\ <<>> \o g[L] = g[L]
  BY <1>1, <1>4, ConcatEmptySeq DEF NamedUpTo
<1> QED BY <1>1, <1>3, <1>4, <1>8, <1>9 DEF r, first

-----------------------------------------------------------------------------
(* Requests for the foreground process are served in order *)

HeldRequest == IF RequestHeld THEN <<outbox[writer].arg>> ELSE <<>>

LEMMA SentIs == RequestsSent = RequestsIn(queue) \o HeldRequest
BY DEF RequestsSent, HeldRequest

LEMMA HeldType ==
  ASSUME LoopInv
  PROVE  HeldRequest \in Seq(Pids) /\ RequestsIn(queue) \in Seq(Pids)
<1>1. queue \in Seq(Event) /\ outbox \in [Senders -> Event \cup {NoEvent}]
  BY DEF LoopInv, ChannelInv, ChannelType
<1>2. CASE RequestHeld
  <2>1. writer \in Senders /\ IsRequest(outbox[writer])
    BY <1>2, Names DEF RequestHeld
  <2>2. outbox[writer] \in Event
    <3>1. ~ IsRequest(NoEvent)
      BY DEF IsRequest, NoEvent
    <3> QED BY <1>1, <2>1, <3>1
  <2>3. outbox[writer].arg \in Pids
    BY <2>1, <2>2, EventKinds DEF IsRequest
  <2> QED BY <1>1, <1>2, <2>3, RequestsType DEF HeldRequest
<1>3. CASE ~ RequestHeld
  BY <1>1, <1>3, RequestsType DEF HeldRequest
<1> QED BY <1>2, <1>3

\* What a step that pushes or holds back an event without a request leaves alone.
LEMMA SendWithoutRequest ==
  ASSUME LoopInv, NEW s \in Senders, NEW e \in Event, ~ IsRequest(e),
         outbox[s] = NoEvent, Send(s, e), writer' \in {writer, NoOne},
         writer' = NoOne => ~ RequestHeld
  PROVE  RequestsSent' = RequestsSent
<1>1. queue \in Seq(Event) /\ outbox \in [Senders -> Event \cup {NoEvent}]
  BY DEF LoopInv, ChannelInv, ChannelType
<1>2. RequestsIn(queue') = RequestsIn(queue)
  BY <1>1, RequestsOfAppend DEF Send
<1>3. ~ IsRequest(NoEvent)
  BY DEF IsRequest, NoEvent
<1>4. \A t \in Senders : IsRequest(outbox'[t]) <=> IsRequest(outbox[t])
  BY <1>1, <1>3 DEF Send
<1>5. \A t \in Senders : IsRequest(outbox[t]) => outbox'[t] = outbox[t]
  BY <1>1, <1>3 DEF Send
<1>6. HeldRequest' = HeldRequest
  <2>1. CASE writer' = NoOne
    BY <2>1, Names DEF HeldRequest, RequestHeld
  <2>2. CASE writer' = writer
    BY <1>4, <1>5, <2>2, Names DEF HeldRequest, RequestHeld
  <2> QED BY <2>1, <2>2
<1> QED BY <1>2, <1>6, SentIs DEF RequestsSent, HeldRequest

LEMMA IdleRequests ==
  ASSUME LoopInv, UNCHANGED channelVars, writer' = writer \/ ~ RequestHeld',
         writer' = writer \/ ~ RequestHeld
  PROVE  RequestsSent' = RequestsSent
BY DEF RequestsSent, RequestHeld, channelVars

LEMMA ReceiveRequests ==
  ASSUME LoopInv, Receive, UNCHANGED lockVars
  PROVE  RequestsSent = IF IsRequest(Head(queue)) THEN <<Head(queue).arg>> \o RequestsSent'
                        ELSE RequestsSent'
<1>1. queue \in Seq(Event) /\ queue # <<>> /\ queue' = Tail(queue) /\ outbox' = outbox
  BY DEF LoopInv, ChannelInv, ChannelType, Receive
<1>2. HeldRequest' = HeldRequest
  BY <1>1 DEF HeldRequest, RequestHeld, lockVars
<1>3. Head(queue) \in Event /\ Tail(queue) \in Seq(Event)
  BY <1>1, TailOf
<1>4. RequestsSent' = RequestsIn(Tail(queue)) \o HeldRequest
  BY <1>1, <1>2 DEF RequestsSent, HeldRequest
<1>5. CASE IsRequest(Head(queue))
  <2> DEFINE first == <<Head(queue).arg>>
             rest  == RequestsIn(Tail(queue))
  <2>1. first \in Seq(Pids) /\ rest \in Seq(Pids) /\ HeldRequest \in Seq(Pids)
    <3>1. Head(queue).arg \in Pids
      BY <1>3, <1>5, EventKinds DEF IsRequest
    <3>2. rest \in Seq(Pids)
      BY <1>3, RequestsType
    <3> QED BY <3>1, <3>2, HeldType
  <2>2. RequestsIn(queue) = first \o rest
    BY <1>1, <1>5, RequestsOfTail
  <2> HIDE DEF first, rest
  <2>3. (first \o rest) \o HeldRequest = first \o (rest \o HeldRequest)
    BY <2>1, ConcatAssociative
  <2> QED BY <1>4, <1>5, <2>2, <2>3, SentIs DEF first, rest
<1>6. CASE ~ IsRequest(Head(queue))
  BY <1>1, <1>4, <1>6, RequestsOfTail, SentIs
<1> QED BY <1>5, <1>6

LEMMA PushRequests ==
  ASSUME LoopInv, NEW s, Push(s)
  PROVE  RequestsSent' = RequestsSent
<1> DEFINE e == outbox[s]
<1>1. /\ s \in Senders /\ e \in Event /\ queue \in Seq(Event)
      /\ outbox \in [Senders -> Event \cup {NoEvent}]
  BY PushKeeps DEF LoopInv, ChannelInv, ChannelType
<1>2. /\ queue' = Append(queue, e) /\ outbox' = [outbox EXCEPT ![s] = NoEvent]
      /\ writer' = IF writer = s THEN NoOne ELSE writer
  BY DEF Push
<1>3. ~ IsRequest(NoEvent)
  BY DEF IsRequest, NoEvent
<1>4. RequestsSent' = RequestsIn(Append(queue, e)) \o HeldRequest'
  BY <1>2 DEF RequestsSent, HeldRequest
<1>5. CASE IsRequest(e)
  <2>1. s = writer
    BY <1>1, <1>5 DEF LoopInv, Exclusive, WriterEvents, IsRequest
  <2>2. writer \in Clients
    BY <1>1, <2>1, Names DEF LoopInv, DaemonType
  <2>3. HeldRequest = <<e.arg>> /\ HeldRequest' = <<>>
    BY <1>2, <1>5, <2>1, <2>2, Names DEF HeldRequest, RequestHeld
  <2>4. RequestsIn(Append(queue, e)) = RequestsIn(queue) \o <<e.arg>>
    BY <1>1, <1>5, RequestsOfAppend
  <2>5. RequestsIn(Append(queue, e)) \in Seq(Pids)
    BY <1>1, AppendOf, RequestsType
  <2> QED BY <1>4, <2>3, <2>4, <2>5, ConcatEmptySeq, SentIs
<1>6. CASE ~ IsRequest(e)
  <2>1. HeldRequest' = HeldRequest
    <3>1. CASE writer = s
      BY <1>2, <1>6, <3>1, Names DEF HeldRequest, RequestHeld
    <3>2. CASE writer # s
      <4>1. writer \in Clients => outbox'[writer] = outbox[writer]
        BY <1>1, <1>2, <3>2, Names
      <4> QED BY <1>2, <3>2, <4>1 DEF HeldRequest, RequestHeld
    <3> QED BY <3>1, <3>2
  <2>2. RequestsIn(Append(queue, e)) = RequestsIn(queue)
    BY <1>1, <1>6, RequestsOfAppend
  <2> QED BY <1>4, <2>1, <2>2, SentIs
<1> QED BY <1>5, <1>6

LEMMA WriteRequests ==
  ASSUME LoopInv, NEW c \in Clients, Write(c)
  PROVE  \/ /\ RequestsSent' = RequestsSent
            /\ asked'.foreground = asked.foreground
         \/ \E p \in Pids :
              /\ RequestsSent' = Append(RequestsSent, p)
              /\ asked'.foreground = p
<1> DEFINE r == call[c]
           e == EventOf(r)
<1>1. /\ c \in Senders /\ writer = c /\ outbox[c] = NoEvent
      /\ r \in Calls /\ r.method # "reload_configuration" /\ asked' = AskedBy(r)
      /\ \/ e = NoEvent /\ UNCHANGED channelVars /\ writer' = NoOne
         \/ /\ e \in Event /\ e.type \in WriterEvents /\ e.type # "OnBattery"
            /\ Send(c, e) /\ writer' = IF HasPermit THEN NoOne ELSE c
  BY WriteOf
<1>2. asked \in [foreground : Pids \cup {""}, cpu : {"auto", "kept"} \cup Applied]
  BY DEF LoopInv, DaemonType
<1>3. ~ RequestHeld /\ HeldRequest = <<>>
  <2>1. ~ IsRequest(NoEvent)
    BY DEF IsRequest, NoEvent
  <2> QED BY <1>1, <2>1 DEF RequestHeld, HeldRequest
<1>4. r.method \in {"set_foreground_process", "set_cpu_mode", "set_cpu_profile"}
  BY <1>1, WrittenType DEF LoopInv
<1>5. CASE r.method # "set_foreground_process"
  <2>1. AskedBy(r).foreground = asked.foreground
    BY <1>2, <1>4, <1>5 DEF AskedBy
  <2>2. RequestsSent' = RequestsSent
    <3>1. CASE e = NoEvent /\ UNCHANGED channelVars /\ writer' = NoOne
      BY <1>3, <3>1, IdleRequests, Names DEF RequestHeld
    <3>2. CASE e \in Event /\ Send(c, e) /\ writer' = IF HasPermit THEN NoOne ELSE c
      <4>1. e.type \in {"SetCpuMode", "SetCustomCpuMode"}
        <5>1. CASE r.method = "set_cpu_mode"
          BY <1>1, <5>1, EventOfCall
        <5>2. CASE r.method = "set_cpu_profile"
          <6>1. r.arg # ""
            BY <1>1, <3>2, <5>2, EventOfCall, EventKinds
          <6> QED BY <1>1, <5>2, <6>1, EventOfCall
        <5> QED BY <1>4, <1>5, <5>1, <5>2
      <4>2. ~ IsRequest(e)
        BY <4>1 DEF IsRequest
      <4> QED BY <1>1, <1>3, <3>2, <4>2, SendWithoutRequest
    <3> QED BY <1>1, <3>1, <3>2
  <2> QED BY <1>1, <2>1, <2>2
<1>6. CASE r.method = "set_foreground_process"
  <2> DEFINE p == r.arg
  <2>1. p \in Pids /\ e.type = "SetForegroundProcess" /\ e = [type |-> "SetForegroundProcess", arg |-> p]
    BY <1>1, <1>6, EventOfCall
  <2>2. e # NoEvent /\ IsRequest(e)
    <3>1. NoEvent.type = "none"
      BY DEF NoEvent
    <3> HIDE DEF e
    <3> QED BY <2>1, <3>1 DEF IsRequest
  <2>3. e.arg = p
    <3>1. [type |-> "SetForegroundProcess", arg |-> p].arg = p
      OBVIOUS
    <3> QED BY <2>1, <3>1
  <2>4. AskedBy(r).foreground = p
    BY <1>2, <1>6 DEF AskedBy
  <2>5. e \in Event /\ Send(c, e) /\ writer' = IF HasPermit THEN NoOne ELSE c
    BY <1>1, <2>2
  <2>6. queue \in Seq(Event) /\ outbox \in [Senders -> Event \cup {NoEvent}]
    BY DEF LoopInv, ChannelInv, ChannelType
  <2>7. RequestsSent' = RequestsIn(queue) \o <<p>>
    <3>1. CASE HasPermit
      <4>1. queue' = Append(queue, e)
        BY <2>5, <3>1 DEF Send
      <4>2. RequestsIn(Append(queue, e)) = RequestsIn(queue) \o <<p>>
        BY <2>2, <2>3, <2>5, <2>6, RequestsOfAppend
      <4>3. ~ RequestHeld'
        BY <2>5, <3>1, Names DEF RequestHeld
      <4>4. RequestsIn(queue) \o <<p>> \in Seq(Pids)
        BY <2>5, <2>6, <4>2, AppendOf, RequestsType
      <4> QED BY <4>1, <4>2, <4>3, <4>4, ConcatEmptySeq DEF RequestsSent
    <3>2. CASE ~ HasPermit
      <4>1. queue' = queue /\ outbox' = [outbox EXCEPT ![c] = e] /\ writer' = c
        BY <2>5, <3>2 DEF Send
      <4>2. outbox'[writer'] = e /\ RequestHeld'
        BY <1>1, <2>2, <2>6, <4>1 DEF RequestHeld
      <4> QED BY <2>3, <4>1, <4>2 DEF RequestsSent
    <3> QED BY <3>1, <3>2
  <2>8. RequestsSent = RequestsIn(queue) /\ RequestsSent \in Seq(Pids)
    BY <1>3, SentIs, HeldType, ConcatEmptySeq
  <2>9. RequestsSent' = Append(RequestsSent, p)
    BY <2>1, <2>7, <2>8, AppendIsConcat
  <2> QED BY <1>1, <2>1, <2>4, <2>9
<1> QED BY <1>5, <1>6

LEMMA ReceivingRequests ==
  ASSUME LoopInv,
         HandleProcesses \/ HandleSetForegroundProcess \/ HandleReloadConfiguration \/ TakeCpuEvent
  PROVE  Requests!Next \/ UNCHANGED Requests!requestVars
<1>1. Receive /\ UNCHANGED lockVars
  BY DEF HandleProcesses, HandleSetForegroundProcess, HandleReloadConfiguration, TakeCpuEvent
<1>2. Head(queue) \in Event
  BY <1>1, ReceiveKeeps DEF LoopInv
<1>3. CASE HandleSetForegroundProcess
  <2> DEFINE p == Head(queue).arg
  <2>1. IsRequest(Head(queue))
    BY <1>3 DEF HandleSetForegroundProcess, IsRequest
  <2>2. p \in Pids
    BY <1>2, <2>1, EventKinds DEF IsRequest
  <2>3. RequestsSent = <<p>> \o RequestsSent'
    BY <1>1, <2>1, ReceiveRequests
  <2>4. RequestsSent' \in Seq(Pids)
    <3>1. LoopInv'
      BY <1>3, ReceivingLoop
    <3>2. (RequestsIn(queue) \in Seq(Pids) /\ HeldRequest \in Seq(Pids))'
      BY <3>1, HeldType, PTL
    <3> QED BY <3>2, ConcatProperties DEF RequestsSent, HeldRequest
  <2>5. RequestsSent # <<>> /\ Head(RequestsSent) = p /\ Tail(RequestsSent) = RequestsSent'
    <3> DEFINE rest == RequestsSent'
    <3>1. rest \in Seq(Pids) /\ RequestsSent = <<p>> \o rest
      BY <2>3, <2>4
    <3> HIDE DEF rest, p
    <3>2. <<p>> \o rest # <<>> /\ Head(<<p>> \o rest) = p /\ Tail(<<p>> \o rest) = rest
      BY <2>2, <3>1
    <3> QED BY <3>1, <3>2 DEF rest
  <2>6. served' = p /\ UNCHANGED asked
    BY <1>3 DEF HandleSetForegroundProcess, interfaceVars
  <2> QED BY <2>5, <2>6 DEF Requests!Next, Requests!Serve
<1>4. CASE HandleProcesses \/ HandleReloadConfiguration \/ TakeCpuEvent
  <2>1. ~ IsRequest(Head(queue))
    <3>1. Head(queue).type # "SetForegroundProcess"
      BY <1>4, Names DEF HandleProcesses, HandleReloadConfiguration, TakeCpuEvent, WriterEvents
    <3> QED BY <3>1 DEF IsRequest
  <2>2. RequestsSent' = RequestsSent
    BY <1>1, <2>1, ReceiveRequests
  <2>3. asked'.foreground = asked.foreground /\ served' = served
    <3>1. asked \in [foreground : Pids \cup {""}, cpu : {"auto", "kept"} \cup Applied]
      BY DEF LoopInv, DaemonType
    <3> QED BY <1>4, <3>1 DEF HandleProcesses, HandleReloadConfiguration, TakeCpuEvent,
                             interfaceVars, serviceVars
  <2> QED BY <2>2, <2>3 DEF Requests!requestVars
<1> QED BY <1>3, <1>4

\* The steps that leave the channel and the lock alone, or all but the lock.
LEMMA OtherRequests ==
  ASSUME LoopInv,
         \/ HandleOnBattery \/ HandleSetCpuMode \/ AskUPower \/ HearUPower
         \/ HandleSetCustomCpuMode \/ PlugOrUnplug \/ UNCHANGED vars
         \/ \E c \in Clients : Announce(c) \/ \E r \in Calls : Begin(c, r)
  PROVE  UNCHANGED Requests!requestVars
<1>1. UNCHANGED channelVars /\ UNCHANGED <<served, asked>>
  BY DEF HandleOnBattery, HandleSetCpuMode, AskUPower, HearUPower, HandleSetCustomCpuMode,
         PlugOrUnplug, vars, Announce, Begin, interfaceVars, serviceVars
<1>2. writer' = writer \/ (writer = NoOne /\ \E c \in Clients : writer' = c)
  BY DEF HandleOnBattery, HandleSetCpuMode, AskUPower, HearUPower, HandleSetCustomCpuMode,
         PlugOrUnplug, vars, Announce, Begin, lockVars
<1>3. RequestsSent' = RequestsSent
  <2>1. CASE writer' = writer
    BY <1>1, <2>1, IdleRequests
  <2>2. CASE writer = NoOne /\ \E c \in Clients : writer' = c
    <3>1. ~ RequestHeld
      BY <2>2, Names DEF RequestHeld
    <3>2. ~ RequestHeld'
      BY <1>1, <2>2, Names DEF RequestHeld, LoopInv, Exclusive, WriterEvents, IsRequest, channelVars
    <3> QED BY <1>1, <3>1, <3>2, IdleRequests
  <2> QED BY <1>2, <2>1, <2>2
<1> QED BY <1>1, <1>3 DEF Requests!requestVars

LEMMA SendingRequests ==
  ASSUME LoopInv,
         \/ \E f \in Feeders : Feed(f)
         \/ BatteryMonitor
         \/ \E c \in Clients : Read(c)
         \/ \E s \in Senders : Push(s)
  PROVE  UNCHANGED Requests!requestVars
<1>1. CASE \E f \in Feeders : Feed(f)
  <2>1. PICK f \in Feeders : Feed(f)
    BY <1>1
  <2> DEFINE e == [type |-> f, arg |-> ""]
  <2>2. e \in Event /\ ~ IsRequest(e) /\ f \in Senders
    BY Names DEF Event, IsRequest, WriterEvents
  <2>3. outbox[f] = NoEvent /\ Send(f, e) /\ writer' = writer /\ UNCHANGED <<served, asked>>
    BY <2>1 DEF Feed, lockVars, interfaceVars, serviceVars
  <2> HIDE DEF e
  <2>4. RequestsSent' = RequestsSent
    <3>1. writer' = NoOne => ~ RequestHeld
      BY <2>3, Names DEF RequestHeld
    <3> QED BY <2>2, <2>3, <3>1, SendWithoutRequest
  <2> QED BY <2>3, <2>4 DEF Requests!requestVars
<1>2. CASE BatteryMonitor
  <2> DEFINE e == [type |-> "OnBattery", arg |-> on_battery]
  <2>2. e \in Event /\ ~ IsRequest(e) /\ Battery \in Senders
    BY Names DEF Event, IsRequest, LoopInv, DaemonType
  <2>3. /\ outbox[Battery] = NoEvent /\ Send(Battery, e) /\ writer' = writer
        /\ UNCHANGED <<served, asked>>
    BY <1>2 DEF BatteryMonitor, lockVars, interfaceVars, serviceVars
  <2> HIDE DEF e
  <2>4. RequestsSent' = RequestsSent
    <3>1. writer' = NoOne => ~ RequestHeld
      BY <2>3, Names DEF RequestHeld
    <3> QED BY <2>2, <2>3, <3>1, SendWithoutRequest
  <2> QED BY <2>3, <2>4 DEF Requests!requestVars
<1>3. CASE \E c \in Clients : Read(c)
  <2>1. PICK c \in Clients : Read(c)
    BY <1>3
  <2> DEFINE e == EventOf(call[c])
  <2>2. e \in Event /\ ~ IsRequest(e) /\ c \in Senders
    <3>1. call[c] \in Calls /\ call[c].method = "reload_configuration"
      <4>1. call[c] \in Calls \cup {NoCall} /\ NoCall.method = "none"
        BY DEF LoopInv, DaemonType, NoCall
      <4> QED BY <2>1, <4>1 DEF Read
    <3>2. e = [type |-> "ReloadConfiguration", arg |-> ""] /\ e.type = "ReloadConfiguration"
      BY <3>1, EventOfCall
    <3>3. [type |-> "ReloadConfiguration", arg |-> ""] \in Event
      BY DEF Event
    <3> HIDE DEF e
    <3> QED BY <3>2, <3>3, Names DEF IsRequest
  <2>3. outbox[c] = NoEvent /\ Send(c, e) /\ writer' = writer /\ UNCHANGED <<served, asked>>
    BY <2>1 DEF Read, interfaceVars, serviceVars
  <2> HIDE DEF e
  <2>4. RequestsSent' = RequestsSent
    <3>1. writer' = NoOne => ~ RequestHeld
      BY <2>3, Names DEF RequestHeld
    <3> QED BY <2>2, <2>3, <3>1, SendWithoutRequest
  <2> QED BY <2>3, <2>4 DEF Requests!requestVars
<1>4. CASE \E s \in Senders : Push(s)
  <2>1. PICK s \in Senders : Push(s)
    BY <1>4
  <2>2. RequestsSent' = RequestsSent
    BY <2>1, PushRequests
  <2>3. UNCHANGED <<served, asked>>
    BY <2>1 DEF Push, interfaceVars, serviceVars
  <2> QED BY <2>2, <2>3 DEF Requests!requestVars
<1> QED BY <1>1, <1>2, <1>3, <1>4

LEMMA NextRequests == LoopInv /\ [Next]_vars => [Requests!Next]_Requests!requestVars
<1> SUFFICES ASSUME LoopInv, [Next]_vars
             PROVE  Requests!Next \/ UNCHANGED Requests!requestVars
  OBVIOUS
<1>1. CASE MainLoop
  BY <1>1, ReceivingRequests, OtherRequests DEF MainLoop
<1>2. CASE \E c \in Clients : Write(c)
  <2>1. PICK c \in Clients : Write(c)
    BY <1>2
  <2>2. served' = served
    BY <2>1 DEF Write, serviceVars
  <2>3. CASE RequestsSent' = RequestsSent /\ asked'.foreground = asked.foreground
    BY <2>2, <2>3 DEF Requests!requestVars
  <2>4. CASE \E p \in Pids : RequestsSent' = Append(RequestsSent, p) /\ asked'.foreground = p
    BY <2>2, <2>4 DEF Requests!Next, Requests!Ask
  <2> QED BY <2>1, <2>3, <2>4, WriteRequests
<1>3. CASE \/ PlugOrUnplug \/ UNCHANGED vars
           \/ \E c \in Clients : Announce(c) \/ \E r \in Calls : Begin(c, r)
  BY <1>3, OtherRequests
<1>4. CASE \/ \E f \in Feeders : Feed(f)
           \/ BatteryMonitor
           \/ \E c \in Clients : Read(c)
           \/ \E s \in Senders : Push(s)
  BY <1>4, SendingRequests
<1> QED BY <1>1, <1>2, <1>3, <1>4 DEF Next

\* However full the channel, whoever waits for a place in it and however slow the
\* main loop: requests for the foreground process are served one by one, in the
\* order in which the calls got the interface, none lost and none made up
\* (Server::set_foreground_process and the arm SetForegroundProcess).
THEOREM RequestsInOrder == Spec => ForegroundInOrder
<1>1. Init => Requests!Init
  <2> SUFFICES ASSUME Init
               PROVE  Requests!Init
    OBVIOUS
  <2>1. LoopInv
    BY InitLoop
  <2>2. PICK f : NamedUpTo(queue, f) /\ RequestsIn(queue) = f[Len(queue)]
    BY <2>1, RequestsDefined DEF LoopInv, ChannelInv, ChannelType
  <2>3. Len(queue) = 0
    BY DEF Init
  <2>4. RequestsIn(queue) = <<>>
    BY <2>2, <2>3 DEF NamedUpTo
  <2>5. ~ RequestHeld
    BY Names DEF Init, RequestHeld
  <2>6. RequestsSent = <<>>
    BY <2>4, <2>5, ConcatEmptySeq DEF RequestsSent
  <2> QED BY <2>6 DEF Init, Requests!Init
<1>2. LoopInv /\ [Next]_vars => [Requests!Next]_Requests!requestVars
  BY NextRequests
<1> QED BY <1>1, <1>2, LoopInvariance, PTL DEF Spec, ForegroundInOrder, Requests!Spec

-----------------------------------------------------------------------------
(* The CPU profile in force: what is on the way *)

\* CPU events that are on the way stay so when an event is sent, which joins them.
LEMMA SendOnTheWay ==
  ASSUME LoopInv, NEW s \in Senders, NEW e \in Event, outbox[s] = NoEvent, Send(s, e),
         NEW types \in SUBSET CpuEvents
  PROVE  /\ Queued(types) => Queued(types)'
         /\ Held(types) => Held(types)'
         /\ Held(types)' => Held(types) \/ e.type \in types
         /\ e.type \in types => Queued(types)' \/ Held(types)'
<1>1. /\ queue \in Seq(Event) /\ Len(queue) \in Nat
      /\ outbox \in [Senders -> Event \cup {NoEvent}]
  BY DEF LoopInv, ChannelInv, ChannelType
<1>2. NoEvent.type \notin types
  BY DEF NoEvent, CpuEvents
<1>3. CASE HasPermit
  <2>1. queue' = Append(queue, e) /\ outbox' = outbox
    BY <1>3 DEF Send
  <2>2. /\ Len(queue') = Len(queue) + 1 /\ queue'[Len(queue) + 1] = e
        /\ \A i \in 1..Len(queue) : queue'[i] = queue[i]
    BY <1>1, <2>1, AppendOf
  <2>3. Len(queue) + 1 \in 1..Len(queue') /\ \A i \in 1..Len(queue) : i \in 1..Len(queue')
    BY <1>1, <2>2
  <2> QED BY <2>1, <2>2, <2>3 DEF Queued, Held
<1>4. CASE ~ HasPermit
  <2>1. queue' = queue /\ outbox' = [outbox EXCEPT ![s] = e]
    BY <1>4 DEF Send
  <2>2. outbox'[s] = e /\ \A t \in Senders : t # s => outbox'[t] = outbox[t]
    BY <1>1, <2>1
  <2> QED BY <1>2, <2>1, <2>2 DEF Queued, Held
<1> QED BY <1>3, <1>4

\* What the channel holds after an event was sent: the same, and perhaps that event.
LEMMA SendShape ==
  ASSUME LoopInv, NEW s \in Senders, NEW e \in Event, Send(s, e)
  PROVE  /\ Len(queue') \in Nat
         /\ \A i \in 1..Len(queue) : i \in 1..Len(queue') /\ queue'[i] = queue[i]
         /\ \A i \in 1..Len(queue) : \A j \in (i + 1)..Len(queue) :
              j \in (i + 1)..Len(queue') /\ j \in 1..Len(queue)
         /\ \A i \in 1..Len(queue') : i \in 1..Len(queue) \/ queue'[i] = e
         /\ \A t \in Senders : t # s => outbox'[t] = outbox[t]
<1>1. /\ queue \in Seq(Event) /\ Len(queue) \in Nat
      /\ outbox \in [Senders -> Event \cup {NoEvent}]
  BY DEF LoopInv, ChannelInv, ChannelType
<1>2. CASE HasPermit
  <2>1. queue' = Append(queue, e) /\ outbox' = outbox
    BY <1>2 DEF Send
  <2>2. /\ Len(queue') = Len(queue) + 1 /\ queue'[Len(queue) + 1] = e
        /\ \A i \in 1..Len(queue) : queue'[i] = queue[i]
    BY <1>1, <2>1, AppendOf
  <2>3. \A i \in 1..Len(queue') : i \in 1..Len(queue) \/ i = Len(queue) + 1
    BY <1>1, <2>2
  <2> QED BY <1>1, <2>1, <2>2, <2>3
<1>3. CASE ~ HasPermit
  <2>1. queue' = queue /\ outbox' = [outbox EXCEPT ![s] = e]
    BY <1>3 DEF Send
  <2> QED BY <1>1, <2>1
<1> QED BY <1>2, <1>3

\* Only the battery monitor says anything about the battery.
LEMMA SendLatest ==
  ASSUME LoopInv, CpuInv, NEW s \in Senders, NEW e \in Event, outbox[s] = NoEvent, Send(s, e),
         s # Battery, e.type # "OnBattery", UNCHANGED <<handling, batteryVars>>
  PROVE  LatestBattery'
<1>1. outbox'[Battery] = outbox[Battery]
  BY SendShape, Names
<1>2. /\ \A i \in 1..Len(queue) : i \in 1..Len(queue') /\ queue'[i] = queue[i]
      /\ \A i \in 1..Len(queue) : \A j \in (i + 1)..Len(queue) :
           j \in (i + 1)..Len(queue') /\ j \in 1..Len(queue)
      /\ \A i \in 1..Len(queue') : queue'[i].type = "OnBattery" => i \in 1..Len(queue)
  BY SendShape
<1>3. Queued({"OnBattery"}) => Queued({"OnBattery"})'
  BY <1>2 DEF Queued
<1> QED BY <1>1, <1>2, <1>3 DEF CpuInv, LatestBattery, batteryVars

\* An event that is neither about the battery nor a CPU mode overtakes nothing.
LEMMA SendCpu ==
  ASSUME LoopInv, CpuInv, NEW s \in Senders, NEW e \in Event, outbox[s] = NoEvent, Send(s, e),
         s # Battery, e.type \notin CpuEvents, asked'.cpu = asked.cpu,
         UNCHANGED <<cpu_mode, cpu_profile, handling, config, applied, batteryVars>>
  PROVE  CpuInv'
<1>1. /\ \A i \in 1..Len(queue) : i \in 1..Len(queue') /\ queue'[i] = queue[i]
      /\ \A i \in 1..Len(queue) : \A j \in (i + 1)..Len(queue) :
           j \in (i + 1)..Len(queue') /\ j \in 1..Len(queue)
      /\ \A i \in 1..Len(queue') : queue'[i].type \in CpuEvents => i \in 1..Len(queue)
  BY SendShape
<1>2. \A types \in SUBSET CpuEvents :
        (Queued(types) => Queued(types)') /\ (Held(types) <=> Held(types)')
  BY SendOnTheWay
<1>3. {"OnBattery"} \in SUBSET CpuEvents /\ {"SetCpuMode"} \in SUBSET CpuEvents
      /\ {"SetCustomCpuMode"} \in SUBSET CpuEvents
      /\ {"SetCpuMode", "OnBattery"} \in SUBSET CpuEvents
  BY DEF CpuEvents
<1>4. ModeAsked'
  BY DEF CpuInv, ModeAsked
<1>5. LatestBattery'
  BY <1>3, SendLatest
<1>6. CustomSuperseded'
  <2>1. "SetCustomCpuMode" \in CpuEvents
    BY DEF CpuEvents
  <2> QED BY <1>1, <1>2, <1>3, <2>1 DEF CpuInv, CustomSuperseded
<1>7. InForceOrOnTheWay'
  BY <1>2, <1>3 DEF CpuInv, InForceOrOnTheWay, OnTheWay, batteryVars
<1> QED BY <1>4, <1>5, <1>6, <1>7 DEF CpuInv

LEMMA BatteryMonitorCpu ==
  ASSUME LoopInv, CpuInv, BatteryMonitor
  PROVE  CpuInv'
<1> DEFINE e == [type |-> "OnBattery", arg |-> on_battery]
<1>1. /\ queue \in Seq(Event) /\ Len(queue) \in Nat
      /\ outbox \in [Senders -> Event \cup {NoEvent}] /\ Battery \in Senders
      /\ e \in Event /\ e.type = "OnBattery" /\ e.arg = on_battery
  <2>1. on_battery \in Power
    BY DEF LoopInv, DaemonType
  <2>2. e \in Event /\ e.type = "OnBattery" /\ e.arg = on_battery
    BY <2>1 DEF Event
  <2> HIDE DEF e
  <2> QED BY <2>2, Names DEF LoopInv, ChannelInv, ChannelType
<1> HIDE DEF e
<1>2. /\ outbox[Battery] = NoEvent /\ Send(Battery, e) /\ battery_changed' = FALSE
      /\ UNCHANGED <<cpu_mode, cpu_profile, asked, handling, config, applied, on_battery>>
  BY DEF BatteryMonitor, interfaceVars, serviceVars, e
<1>3. e # NoEvent
  BY <1>1, EventKinds
<1>4. \A types \in SUBSET CpuEvents :
        /\ Queued(types) => Queued(types)'
        /\ Held(types) => Held(types)'
        /\ Held(types)' => Held(types) \/ e.type \in types
        /\ e.type \in types => Queued(types)' \/ Held(types)'
  BY <1>1, <1>2, SendOnTheWay
<1>5. {"OnBattery"} \in SUBSET CpuEvents /\ {"SetCpuMode"} \in SUBSET CpuEvents
      /\ {"SetCustomCpuMode"} \in SUBSET CpuEvents
      /\ {"SetCpuMode", "OnBattery"} \in SUBSET CpuEvents
  BY DEF CpuEvents
<1>6. ModeAsked'
  BY <1>2 DEF CpuInv, ModeAsked
<1>7. LatestBattery' /\ CustomSuperseded'
  <2>1. CASE HasPermit
    <3>1. queue' = Append(queue, e) /\ outbox' = outbox
      BY <1>2, <2>1 DEF Send
    <3>2. /\ Len(queue') = Len(queue) + 1 /\ queue'[Len(queue) + 1] = e
          /\ \A i \in 1..Len(queue) : queue'[i] = queue[i]
      BY <1>1, <3>1, AppendOf
    <3>3. /\ Len(queue) + 1 \in 1..Len(queue')
          /\ \A i \in 1..Len(queue') : \/ i = Len(queue) + 1
                                       \/ (i \in 1..Len(queue) /\ Len(queue) + 1 \in (i + 1)..Len(queue'))
          /\ \A i \in 1..Len(queue) : \A j \in (i + 1)..Len(queue) :
               j \in (i + 1)..Len(queue') /\ j \in 1..Len(queue)
      BY <1>1, <3>2
    <3>4. LatestBattery'
      BY <1>1, <1>2, <3>1, <3>2, <3>3 DEF LatestBattery, Queued
    <3>5. CustomSuperseded'
      BY <1>1, <1>2, <1>4, <1>5, <3>2, <3>3 DEF CpuInv, CustomSuperseded
    <3> QED BY <3>4, <3>5
  <2>2. CASE ~ HasPermit
    <3>1. queue' = queue /\ outbox'[Battery] = e
      BY <1>1, <1>2, <2>2 DEF Send
    <3>2. LatestBattery'
      BY <1>1, <1>2, <1>3, <3>1 DEF LatestBattery
    <3>3. CustomSuperseded'
      BY <1>1, <1>2, <1>4, <1>5, <3>1 DEF CpuInv, CustomSuperseded
    <3> QED BY <3>2, <3>3
  <2> QED BY <2>1, <2>2
<1>8. InForceOrOnTheWay'
  BY <1>1, <1>2, <1>4, <1>5 DEF CpuInv, InForceOrOnTheWay, OnTheWay
<1> QED BY <1>6, <1>7, <1>8 DEF CpuInv

LEMMA PushCpu ==
  ASSUME LoopInv, CpuInv, NEW s, Push(s)
  PROVE  CpuInv'
<1> DEFINE e == outbox[s]
           L == Len(queue)
<1>1. /\ s \in Senders /\ e \in Event /\ queue \in Seq(Event) /\ L \in Nat
      /\ outbox \in [Senders -> Event \cup {NoEvent}] /\ Battery \in Senders
  BY PushKeeps, Names DEF LoopInv, ChannelInv, ChannelType
<1>2. /\ queue' = Append(queue, e) /\ outbox' = [outbox EXCEPT ![s] = NoEvent]
      /\ UNCHANGED <<cpu_mode, cpu_profile, asked, handling, config, applied, batteryVars>>
  BY DEF Push, interfaceVars, serviceVars
<1>3. /\ outbox'[s] = NoEvent /\ e # NoEvent /\ NoEvent.type = "none"
      /\ \A t \in Senders : t # s => outbox'[t] = outbox[t]
  BY <1>1, <1>2, EventKinds DEF NoEvent
<1>4. Len(queue') = L + 1 /\ queue'[L + 1] = e /\ \A i \in 1..L : queue'[i] = queue[i]
  BY <1>1, <1>2, AppendOf
<1>5. e.type = "OnBattery" <=> s = Battery
  BY <1>1, <1>3 DEF LoopInv, Exclusive
<1> HIDE DEF e, L
<1>6. /\ L + 1 \in 1..Len(queue')
      /\ \A i \in 1..Len(queue') : \/ i = L + 1
                                   \/ (i \in 1..L /\ L + 1 \in (i + 1)..Len(queue'))
      /\ \A i \in 1..L : i \in 1..Len(queue')
      /\ \A i \in 1..L : \A j \in (i + 1)..L : j \in (i + 1)..Len(queue') /\ j \in 1..L
  BY <1>1, <1>4
<1>7. \A types \in SUBSET CpuEvents :
        /\ Queued(types) => Queued(types)'
        /\ Held(types) => Held(types)' \/ e.type \in types
        /\ Held(types)' => Held(types)
        /\ e.type \in types => Queued(types)'
  <2>1. \A types \in SUBSET CpuEvents : NoEvent.type \notin types
    BY <1>3 DEF CpuEvents
  <2>2. \A types : Queued(types) => Queued(types)'
    BY <1>4, <1>6 DEF Queued, L
  <2>3. \A types : e.type \in types => Queued(types)'
    BY <1>4, <1>6 DEF Queued
  <2>4. \A types : Held(types) => Held(types)' \/ e.type \in types
    BY <1>3 DEF Held, e
  <2>5. \A types \in SUBSET CpuEvents : Held(types)' => Held(types)
    BY <1>3, <2>1 DEF Held
  <2> QED BY <2>2, <2>3, <2>4, <2>5
<1>8. {"OnBattery"} \in SUBSET CpuEvents /\ {"SetCpuMode"} \in SUBSET CpuEvents
      /\ {"SetCustomCpuMode"} \in SUBSET CpuEvents
      /\ {"SetCpuMode", "OnBattery"} \in SUBSET CpuEvents
  BY DEF CpuEvents
<1>9. ModeAsked'
  BY <1>2 DEF CpuInv, ModeAsked
<1>10. LatestBattery'
  <2> USE DEF CpuInv, LatestBattery, batteryVars
  <2>1. CASE s = Battery
    <3>1. ~ battery_changed => e.arg = on_battery
      BY <1>3, <2>1 DEF e
    <3>2. \A i \in 1..Len(queue') :
            (\A j \in (i + 1)..Len(queue') : queue'[j].type # "OnBattery") => i = L + 1
      BY <1>4, <1>5, <1>6, <2>1
    <3>3. Queued({"OnBattery"})'
      BY <1>5, <1>7, <1>8, <2>1
    <3> QED BY <1>2, <1>3, <1>4, <2>1, <3>1, <3>2, <3>3
  <2>2. CASE s # Battery
    <3>1. outbox'[Battery] = outbox[Battery] /\ e.type # "OnBattery"
      BY <1>1, <1>3, <1>5, <2>2
    <3>2. Queued({"OnBattery"}) => Queued({"OnBattery"})'
      BY <1>7, <1>8
    <3> QED BY <1>2, <1>4, <1>6, <3>1, <3>2 DEF L
  <2> QED BY <2>1, <2>2
<1>11. CustomSuperseded'
  <2> SUFFICES ASSUME asked.cpu \in NamedModes
               PROVE  /\ ~ Held({"SetCustomCpuMode"})'
                      /\ \A i \in 1..Len(queue') : queue'[i].type = "SetCustomCpuMode" =>
                           \/ \E j \in (i + 1)..Len(queue') : queue'[j].type = "SetCpuMode"
                           \/ Held({"SetCpuMode"})'
                      /\ handling.type = "SetCustomCpuMode" =>
                           Queued({"SetCpuMode"})' \/ Held({"SetCpuMode"})'
    BY <1>2 DEF CustomSuperseded
  <2>1. /\ ~ Held({"SetCustomCpuMode"})
        /\ \A i \in 1..L : queue[i].type = "SetCustomCpuMode" =>
             \/ \E j \in (i + 1)..L : queue[j].type = "SetCpuMode"
             \/ Held({"SetCpuMode"})
        /\ handling.type = "SetCustomCpuMode" => Queued({"SetCpuMode"}) \/ Held({"SetCpuMode"})
    BY DEF CpuInv, CustomSuperseded, L
  <2>2. e.type # "SetCustomCpuMode"
    BY <1>1, <2>1 DEF Held, e
  <2>3. ~ Held({"SetCustomCpuMode"})'
    BY <1>7, <1>8, <2>1
  <2>4. Held({"SetCpuMode"}) => Held({"SetCpuMode"})' \/ e.type = "SetCpuMode"
    BY <1>7, <1>8
  <2>5. e.type = "SetCpuMode" => Queued({"SetCpuMode"})'
    BY <1>7, <1>8
  <2>6. Queued({"SetCpuMode"}) => Queued({"SetCpuMode"})'
    BY <1>7, <1>8
  <2>7. ASSUME NEW i \in 1..Len(queue'), queue'[i].type = "SetCustomCpuMode"
        PROVE  \/ \E j \in (i + 1)..Len(queue') : queue'[j].type = "SetCpuMode"
               \/ Held({"SetCpuMode"})'
    <3>1. i \in 1..L /\ L + 1 \in (i + 1)..Len(queue') /\ queue[i].type = "SetCustomCpuMode"
      BY <1>4, <1>6, <2>2, <2>7
    <3>2. CASE \E j \in (i + 1)..L : queue[j].type = "SetCpuMode"
      BY <1>4, <1>6, <3>1, <3>2
    <3>3. CASE Held({"SetCpuMode"})
      BY <1>4, <2>4, <3>1, <3>3
    <3> QED BY <2>1, <3>1, <3>2, <3>3
  <2> QED BY <2>1, <2>3, <2>4, <2>5, <2>6, <2>7
<1>12. InForceOrOnTheWay'
  <2>1. \A types \in SUBSET CpuEvents : OnTheWay(types) => OnTheWay(types)'
    BY <1>2, <1>7 DEF OnTheWay
  <2> QED BY <1>2, <1>8, <2>1 DEF CpuInv, InForceOrOnTheWay, batteryVars
<1> QED BY <1>9, <1>10, <1>11, <1>12 DEF CpuInv

\* The head of the channel: it is handled at once, or by the steps that follow.
LEMMA ReceiveCpu ==
  ASSUME LoopInv, CpuInv, Receive, handling = NoEvent,
         UNCHANGED <<cpu_mode, cpu_profile, applied, batteryVars>>,
         UNCHANGED <<asked, config>> \/ asked'.cpu = "kept",
         \/ handling' = NoEvent /\ Head(queue).type \notin CpuEvents
         \/ handling' = Head(queue)
  PROVE  CpuInv'
<1> DEFINE L == Len(queue)
<1>1. /\ queue \in Seq(Event) /\ queue # <<>> /\ queue' = Tail(queue) /\ outbox' = outbox
      /\ NoEvent.type = "none" /\ "kept" \notin Custom \cup NamedModes
  BY EventLoopAssumption DEF LoopInv, ChannelInv, ChannelType, Receive, NoEvent, NamedModes
<1>2. /\ L \in Nat /\ L > 0 /\ Head(queue) = queue[1] /\ Len(queue') = L - 1
      /\ \A i \in 1..(L - 1) : queue'[i] = queue[i + 1]
  BY <1>1, TailOf
<1> HIDE DEF L
<1>3. /\ \A i \in 1..Len(queue') : i + 1 \in 1..L /\ queue'[i] = queue[i + 1]
      /\ \A i \in 1..L : i = 1 \/ (i - 1 \in 1..Len(queue') /\ queue'[i - 1] = queue[i])
      /\ 1 \in 1..L
      /\ \A i \in 1..Len(queue') : \A j \in (i + 2)..L : j - 1 \in (i + 1)..Len(queue')
                                                        /\ queue'[j - 1] = queue[j]
      /\ \A j \in 2..L : j - 1 \in 1..Len(queue') /\ queue'[j - 1] = queue[j]
  <2>1. ASSUME NEW i \in 1..L, i # 1
        PROVE  i - 1 \in 1..Len(queue') /\ i - 1 \in 1..(L - 1) /\ (i - 1) + 1 = i
    BY <1>2, <2>1
  <2>2. ASSUME NEW i \in 1..L, i # 1
        PROVE  i - 1 \in 1..Len(queue') /\ queue'[i - 1] = queue[i]
    BY <1>2, <2>1, <2>2
  <2>3. ASSUME NEW i \in 1..Len(queue'), NEW j \in (i + 2)..L
        PROVE  j \in 1..L /\ j # 1 /\ j - 1 \in (i + 1)..Len(queue')
    BY <1>2
  <2>4. \A j \in 2..L : j \in 1..L /\ j # 1
    BY <1>2
  <2>5. \A i \in 1..Len(queue') : i + 1 \in 1..L /\ i \in 1..(L - 1)
    BY <1>2
  <2> QED BY <1>2, <2>2, <2>3, <2>4, <2>5
<1>4. \A types \in SUBSET CpuEvents : OnTheWay(types) => OnTheWay(types)'
  <2>1. ASSUME NEW types \in SUBSET CpuEvents
        PROVE  /\ Held(types) => Held(types)'
               /\ Queued(types) => Queued(types)' \/ Head(queue).type \in types
    BY <1>1, <1>2, <1>3 DEF Held, Queued, L
  <2>2. NoEvent.type \notin CpuEvents
    BY <1>1 DEF CpuEvents
  <2> QED BY <2>1, <2>2 DEF OnTheWay
<1>5. ModeAsked'
  BY <1>1 DEF CpuInv, ModeAsked
<1>6. LatestBattery'
  <2>1. ASSUME NEW i \in 1..Len(queue'), queue'[i].type = "OnBattery",
               \A j \in (i + 1)..Len(queue') : queue'[j].type # "OnBattery"
        PROVE  /\ i + 1 \in 1..L /\ queue[i + 1].type = "OnBattery" /\ queue'[i] = queue[i + 1]
               /\ \A j \in ((i + 1) + 1)..L : queue[j].type # "OnBattery"
    <3>1. \A j \in ((i + 1) + 1)..L : j \in (i + 2)..L
      BY <1>2
    <3> QED BY <1>3, <2>1, <3>1
  <2>2. ASSUME ~ Queued({"OnBattery"})'
        PROVE  \A j \in (1 + 1)..L : queue[j].type # "OnBattery"
    <3>1. \A j \in (1 + 1)..L : j \in 2..L
      BY <1>2
    <3> QED BY <1>3, <2>2, <3>1 DEF Queued
  <2>3. handling'.type = "OnBattery" => handling' = queue[1]
    BY <1>1, <1>2
  <2> QED BY <1>1, <1>3, <2>1, <2>2, <2>3 DEF CpuInv, LatestBattery, L, batteryVars
<1>7. CustomSuperseded'
  <2>1. \A types : Held(types)' <=> Held(types)
    BY <1>1 DEF Held
  <2>2. ASSUME NEW i \in 1..Len(queue'), NEW j \in ((i + 1) + 1)..L, queue[j].type = "SetCpuMode"
        PROVE  \E k \in (i + 1)..Len(queue') : queue'[k].type = "SetCpuMode"
    <3>1. j \in (i + 2)..L
      BY <1>2
    <3> QED BY <1>3, <2>2, <3>1
  <2>3. ASSUME NEW j \in (1 + 1)..L, queue[j].type = "SetCpuMode"
        PROVE  Queued({"SetCpuMode"})'
    <3>1. j \in 2..L
      BY <1>2
    <3> QED BY <1>3, <2>3, <3>1 DEF Queued
  <2>4. handling'.type = "SetCustomCpuMode" => handling' = queue[1]
    BY <1>1, <1>2
  <2> QED BY <1>1, <1>3, <2>1, <2>2, <2>3, <2>4 DEF CpuInv, CustomSuperseded, L
<1>8. InForceOrOnTheWay'
  <2>1. {"SetCpuMode"} \in SUBSET CpuEvents /\ {"SetCustomCpuMode"} \in SUBSET CpuEvents
        /\ {"SetCpuMode", "OnBattery"} \in SUBSET CpuEvents
    BY DEF CpuEvents
  <2> QED BY <1>1, <1>4, <2>1 DEF CpuInv, InForceOrOnTheWay, batteryVars
<1> QED BY <1>5, <1>6, <1>7, <1>8 DEF CpuInv

LEMMA InitCpu == Init => CpuInv
<1> SUFFICES ASSUME Init
             PROVE  CpuInv
  OBVIOUS
<1>1. /\ asked.cpu = "auto" /\ cpu_mode = "Auto" /\ "auto" \notin Custom
      /\ handling.type = "none" /\ queue = <<>>
      /\ \A s \in Senders : outbox[s] = NoEvent /\ outbox[s].type = "none"
      /\ applied = IF config.enable THEN OnBatteryProfile(on_battery) ELSE "kernel"
  BY EventLoopAssumption DEF Init, NoEvent
<1>2. \A i \in 1..Len(queue) : FALSE
  BY <1>1
<1>3. ModeAsked /\ LatestBattery /\ CustomSuperseded
  BY <1>1, <1>2, Names DEF ModeAsked, LatestBattery, CustomSuperseded, Held
<1>4. InForceOrOnTheWay
  BY <1>1 DEF InForceOrOnTheWay
<1> QED BY <1>3, <1>4 DEF CpuInv

\* The steps that touch neither the channel nor the CPU profile.
LEMMA IdleCpu ==
  ASSUME CpuInv, UNCHANGED <<channelVars, interfaceVars, handling, config, applied, on_battery>>,
         battery_changed' = battery_changed \/ battery_changed'
  PROVE  CpuInv'
BY DEF CpuInv, ModeAsked, LatestBattery, CustomSuperseded, InForceOrOnTheWay, OnTheWay, Queued,
       Held, channelVars, interfaceVars

LEMMA PlugOrUnplugCpu ==
  ASSUME CpuInv, PlugOrUnplug
  PROVE  CpuInv'
BY DEF CpuInv, ModeAsked, LatestBattery, CustomSuperseded, InForceOrOnTheWay, OnTheWay, Queued,
       Held, PlugOrUnplug, channelVars, interfaceVars, serviceVars

LEMMA FeedCpu ==
  ASSUME LoopInv, CpuInv, NEW f \in Feeders, Feed(f)
  PROVE  CpuInv'
<1> DEFINE e == [type |-> f, arg |-> ""]
<1>1. f \in Senders /\ f # Battery /\ e \in Event /\ e.type = f
  BY Names DEF Event
<1>2. /\ outbox[f] = NoEvent /\ Send(f, e)
      /\ UNCHANGED <<cpu_mode, cpu_profile, asked, handling, config, applied, batteryVars>>
  BY DEF Feed, interfaceVars, serviceVars
<1> HIDE DEF e
<1>3. e.type \notin CpuEvents
  BY <1>1, Names
<1> QED BY <1>1, <1>2, <1>3, SendCpu

LEMMA ReadCpu ==
  ASSUME LoopInv, CpuInv, NEW c \in Clients, Read(c)
  PROVE  CpuInv'
<1> DEFINE e == EventOf(call[c])
<1>1. c \in Senders /\ c # Battery
  BY Names
<1>2. call[c] \in Calls /\ call[c].method = "reload_configuration"
  <2>1. call[c] \in Calls \cup {NoCall} /\ NoCall.method = "none"
    BY DEF LoopInv, DaemonType, NoCall
  <2> QED BY <2>1 DEF Read
<1>3. e.type = "ReloadConfiguration"
  BY <1>2, EventOfCall
<1>4. e \in Event
  <2>1. e = [type |-> "ReloadConfiguration", arg |-> ""]
    BY <1>2, EventOfCall
  <2>2. [type |-> "ReloadConfiguration", arg |-> ""] \in Event
    BY DEF Event
  <2> HIDE DEF e
  <2> QED BY <2>1, <2>2
<1>5. /\ outbox[c] = NoEvent /\ Send(c, e)
      /\ UNCHANGED <<cpu_mode, cpu_profile, asked, handling, config, applied, batteryVars>>
  BY DEF Read, interfaceVars, serviceVars
<1> HIDE DEF e
<1>6. e.type \notin CpuEvents
  BY <1>3 DEF CpuEvents
<1> QED BY <1>1, <1>4, <1>5, <1>6, SendCpu

LEMMA ReceivingCpu ==
  ASSUME LoopInv, CpuInv,
         HandleProcesses \/ HandleSetForegroundProcess \/ HandleReloadConfiguration \/ TakeCpuEvent
  PROVE  CpuInv'
<1>1. CASE HandleProcesses
  <2>1. Head(queue).type \notin CpuEvents
    BY <1>1, Names DEF HandleProcesses
  <2> QED BY <1>1, <2>1, ReceiveCpu DEF HandleProcesses, interfaceVars, serviceVars
<1>2. CASE HandleSetForegroundProcess
  <2>1. Head(queue).type \notin CpuEvents
    BY <1>2 DEF HandleSetForegroundProcess, CpuEvents
  <2> QED BY <1>2, <2>1, ReceiveCpu DEF HandleSetForegroundProcess, interfaceVars
<1>3. CASE HandleReloadConfiguration
  <2>1. Head(queue).type \notin CpuEvents
    BY <1>3 DEF HandleReloadConfiguration, CpuEvents
  <2>2. asked'.cpu = "kept"
    BY <1>3 DEF HandleReloadConfiguration, LoopInv, DaemonType
  <2> QED BY <1>3, <2>1, <2>2, ReceiveCpu DEF HandleReloadConfiguration
<1>4. CASE TakeCpuEvent
  BY <1>4, ReceiveCpu DEF TakeCpuEvent, interfaceVars, serviceVars
<1> QED BY <1>1, <1>2, <1>3, <1>4

\* A CPU mode that was asked for comes after every custom profile on the way.
LEMMA ModeSentCpu ==
  ASSUME LoopInv, CpuInv, NEW c \in Clients, NEW e \in Event, outbox[c] = NoEvent, Send(c, e),
         writer = c, e.type = "SetCpuMode", ModeAsked', asked'.cpu \notin Custom,
         UNCHANGED <<handling, config, applied, batteryVars>>
  PROVE  CpuInv'
<1>1. c \in Senders /\ c # Battery /\ queue \in Seq(Event) /\ Len(queue) \in Nat
      /\ outbox \in [Senders -> Event \cup {NoEvent}]
  BY Names DEF LoopInv, ChannelInv, ChannelType
<1>2. {"SetCpuMode"} \in SUBSET CpuEvents /\ {"SetCustomCpuMode"} \in SUBSET CpuEvents
      /\ {"SetCpuMode", "OnBattery"} \in SUBSET CpuEvents
  BY DEF CpuEvents
<1>3. Queued({"SetCpuMode"})' \/ Held({"SetCpuMode"})'
  BY <1>1, <1>2, SendOnTheWay
<1>4. LatestBattery'
  BY <1>1, SendLatest
<1>5. ~ Held({"SetCustomCpuMode"})'
  <2>1. NoEvent.type = "none" /\ "SetCustomCpuMode" \in WriterEvents
    BY DEF NoEvent, WriterEvents
  <2>2. ~ Held({"SetCustomCpuMode"})
    BY <2>1 DEF LoopInv, Exclusive, Held
  <2> QED BY <1>1, <1>2, <2>2, SendOnTheWay
<1>6. CustomSuperseded'
  <2>1. CASE HasPermit
    <3>1. queue' = Append(queue, e)
      BY <2>1 DEF Send
    <3>2. Len(queue') = Len(queue) + 1 /\ queue'[Len(queue) + 1] = e
      BY <1>1, <3>1, AppendOf
    <3>3. \A i \in 1..Len(queue') : i = Len(queue) + 1 \/ Len(queue) + 1 \in (i + 1)..Len(queue')
      BY <1>1, <3>2
    <3> QED BY <1>3, <1>5, <3>2, <3>3 DEF CustomSuperseded
  <2>2. CASE ~ HasPermit
    <3>1. outbox'[c] = e
      BY <1>1, <2>2 DEF Send
    <3>2. Held({"SetCpuMode"})'
      BY <1>1, <3>1 DEF Held
    <3> QED BY <1>5, <3>2 DEF CustomSuperseded
  <2> QED BY <2>1, <2>2
<1>7. InForceOrOnTheWay'
  <2>1. OnTheWay({"SetCpuMode"})' /\ OnTheWay({"SetCpuMode", "OnBattery"})'
    BY <1>3 DEF OnTheWay, Queued, Held
  <2> QED BY <2>1 DEF InForceOrOnTheWay
<1> QED BY <1>4, <1>6, <1>7 DEF CpuInv

\* The main loop will look the custom profile up.
LEMMA CustomSentCpu ==
  ASSUME LoopInv, CpuInv, NEW c \in Clients, NEW e \in Event, outbox[c] = NoEvent, Send(c, e),
         e.type = "SetCustomCpuMode", ModeAsked', asked'.cpu \in Custom,
         UNCHANGED <<handling, config, applied, batteryVars>>
  PROVE  CpuInv'
<1>1. asked'.cpu \notin NamedModes
  BY EventLoopAssumption DEF NamedModes
<1>2. LatestBattery'
  BY Names, SendLatest
<1>3. {"SetCustomCpuMode"} \in SUBSET CpuEvents
  BY DEF CpuEvents
<1>4. OnTheWay({"SetCustomCpuMode"})'
  BY <1>3, Names, SendOnTheWay DEF OnTheWay
<1> QED BY <1>1, <1>2, <1>4 DEF CpuInv, CustomSuperseded, InForceOrOnTheWay, NamedModes

LEMMA WriteCpu ==
  ASSUME LoopInv, CpuInv, NEW c \in Clients, Write(c)
  PROVE  CpuInv'
<1> DEFINE r == call[c]
           e == EventOf(r)
<1>1. /\ c \in Senders /\ c # Battery /\ writer = c /\ outbox[c] = NoEvent
      /\ r \in Calls /\ r.method # "reload_configuration" /\ asked' = AskedBy(r)
      /\ \/ e = NoEvent /\ UNCHANGED channelVars
         \/ e \in Event /\ Send(c, e)
  BY WriteOf
<1>2. /\ cpu_mode' = CASE r.method = "set_cpu_mode"    -> r.arg
                       [] r.method = "set_cpu_profile" -> ModeOf(r.arg)
                       [] OTHER                        -> cpu_mode
      /\ cpu_profile' = IF r.method = "set_cpu_profile" THEN r.arg ELSE cpu_profile
      /\ UNCHANGED <<handling, config, applied, batteryVars>>
  BY DEF Write, serviceVars
<1>3. asked \in [foreground : Pids \cup {""}, cpu : {"auto", "kept"} \cup Applied]
      /\ NoEvent.type = "none"
  BY DEF LoopInv, DaemonType, NoEvent
<1>4. Custom \cap {"", "auto", "default", "responsive", "kernel", "kept"} = {}
  BY EventLoopAssumption
<1>5. CASE r.method = "set_foreground_process"
  <2>1. e.type = "SetForegroundProcess" /\ e # NoEvent
    BY <1>1, <1>3, <1>5, EventOfCall
  <2>2. asked'.cpu = asked.cpu /\ cpu_mode' = cpu_mode /\ cpu_profile' = cpu_profile
    BY <1>1, <1>2, <1>3, <1>5 DEF AskedBy
  <2> HIDE DEF e
  <2>3. e \in Event /\ Send(c, e) /\ e.type \notin CpuEvents
    BY <1>1, <2>1 DEF CpuEvents
  <2> QED BY <1>1, <1>2, <2>2, <2>3, SendCpu
<1>6. CASE r.method = "set_cpu_mode"
  <2>1. e.type = "SetCpuMode" /\ e # NoEvent /\ r.arg \in CpuMode /\ cpu_mode' = r.arg
    BY <1>1, <1>2, <1>3, <1>6, EventOfCall
  <2>2. asked'.cpu = CASE r.arg = "Auto" -> "auto" [] r.arg = "Default" -> "default"
                       [] r.arg = "Responsive" -> "responsive" [] OTHER -> "kept"
    BY <1>1, <1>3, <1>6 DEF AskedBy
  <2> HIDE DEF e, r
  <2>3. ModeAsked' /\ asked'.cpu \notin Custom
    BY <1>4, <2>1, <2>2 DEF ModeAsked, CpuMode
  <2> QED BY <1>1, <1>2, <2>1, <2>3, ModeSentCpu
<1>7. CASE r.method = "set_cpu_profile" /\ r.arg = ""
  <2>1. e = NoEvent
    BY <1>1, <1>7, EventOfCall
  <2>2. UNCHANGED channelVars
    <3>1. NoEvent \notin Event
      BY EventKinds
    <3> QED BY <1>1, <2>1, <3>1
  <2>3. cpu_mode' = cpu_mode /\ cpu_profile' = ""
    BY <1>2, <1>7 DEF ModeOf
  <2>4. asked'.cpu = IF asked.cpu \in Custom THEN "kept" ELSE asked.cpu
    BY <1>1, <1>3, <1>7 DEF AskedBy
  <2> HIDE DEF e, r
  <2>5. \A types : (Queued(types)' <=> Queued(types)) /\ (Held(types)' <=> Held(types))
    BY <2>2 DEF Queued, Held, channelVars
  <2>6. ModeAsked'
    BY <1>4, <2>3, <2>4 DEF CpuInv, ModeAsked
  <2>7. LatestBattery'
    BY <1>2, <2>2, <2>5 DEF CpuInv, LatestBattery, channelVars, batteryVars
  <2>8. CustomSuperseded'
    BY <1>2, <1>4, <2>2, <2>4, <2>5 DEF CpuInv, CustomSuperseded, channelVars, NamedModes
  <2>9. InForceOrOnTheWay'
    BY <1>2, <1>4, <2>4, <2>5 DEF CpuInv, InForceOrOnTheWay, OnTheWay, batteryVars
  <2> QED BY <2>6, <2>7, <2>8, <2>9 DEF CpuInv
<1>8. CASE r.method = "set_cpu_profile" /\ r.arg # ""
  <2>1. e.type = (IF r.arg \in Custom THEN "SetCustomCpuMode" ELSE "SetCpuMode") /\ e # NoEvent
    BY <1>1, <1>3, <1>8, EventOfCall
  <2>2. r.arg \in CpuProfile
    BY <1>1, <1>8, EventOfCall
  <2>3. cpu_mode' = ModeOf(r.arg) /\ cpu_profile' = r.arg
    BY <1>2, <1>8
  <2>4. asked'.cpu = r.arg
    BY <1>1, <1>3, <1>8 DEF AskedBy
  <2> HIDE DEF e, r
  <2>5. ModeAsked'
    BY <1>4, <1>8, <2>3, <2>4 DEF ModeAsked, ModeOf
  <2>6. e \in Event /\ Send(c, e)
    BY <1>1, <2>1
  <2>7. CASE r.arg \in Custom
    BY <1>1, <1>2, <2>1, <2>4, <2>5, <2>6, <2>7, CustomSentCpu
  <2>8. CASE r.arg \notin Custom
    BY <1>1, <1>2, <2>1, <2>4, <2>5, <2>6, <2>8, ModeSentCpu
  <2> QED BY <2>7, <2>8
<1> QED BY <1>1, <1>5, <1>6, <1>7, <1>8, WrittenType DEF LoopInv

\* The main loop handles an event with what the interface holds at that moment.
LEMMA HandlingCpu ==
  ASSUME LoopInv, CpuInv,
         HandleOnBattery \/ HandleSetCpuMode \/ HearUPower \/ HandleSetCustomCpuMode
  PROVE  CpuInv'
<1>1. /\ UNCHANGED <<channelVars, interfaceVars, served, config, batteryVars>>
      /\ handling' = NoEvent /\ NoEvent.type = "none"
  BY DEF HandleOnBattery, HandleSetCpuMode, HearUPower, HandleSetCustomCpuMode, NoEvent
<1>2. \A types : (Queued(types)' <=> Queued(types)) /\ (Held(types)' <=> Held(types))
  BY <1>1 DEF Queued, Held, channelVars
<1>3. ModeAsked'
  BY <1>1 DEF CpuInv, ModeAsked, interfaceVars
<1>4. LatestBattery'
  BY <1>1, <1>2 DEF CpuInv, LatestBattery, channelVars, batteryVars
<1>5. CustomSuperseded'
  BY <1>1, <1>2 DEF CpuInv, CustomSuperseded, channelVars, interfaceVars
<1>6. InForceOrOnTheWay'
  <2>1. Custom \cap {"", "auto", "default", "responsive", "kernel", "kept"} = {}
    BY EventLoopAssumption
  <2>2. CASE HandleOnBattery
    <3>1. handling.type = "OnBattery" /\ handling # NoEvent
      BY <1>1, <2>2 DEF HandleOnBattery
    <3>2. \/ cpu_mode = "Auto" /\ Apply(OnBatteryProfile(handling.arg))
          \/ cpu_mode # "Auto" /\ applied' = applied
      BY <2>2 DEF HandleOnBattery
    <3>3. ASSUME asked.cpu = "auto", ~ battery_changed, ~ Queued({"OnBattery"}),
                 ~ Held({"OnBattery"})
          PROVE  handling.arg = on_battery
      <4>1. outbox[Battery] = NoEvent
        BY <3>3, Names DEF LoopInv, Exclusive, Held
      <4> QED BY <3>1, <3>3, <4>1 DEF CpuInv, LatestBattery
    <3>4. /\ Queued({"OnBattery"}) => Queued({"SetCpuMode", "OnBattery"})
          /\ Held({"OnBattery"}) => Held({"SetCpuMode", "OnBattery"})
      BY DEF Queued, Held
    <3> QED BY <1>1, <1>2, <2>1, <3>1, <3>2, <3>3, <3>4
            DEF CpuInv, ModeAsked, InForceOrOnTheWay, OnTheWay, Apply, interfaceVars, batteryVars
  <2>3. CASE HandleSetCpuMode
    <3>1. /\ handling.type = "SetCpuMode" /\ cpu_mode # "Auto"
          /\ cpu_mode = "Default" => Apply("default")
          /\ cpu_mode = "Responsive" => Apply("responsive")
          /\ cpu_mode = "Custom" => applied' = applied
      BY <2>3 DEF HandleSetCpuMode
    <3> QED BY <1>1, <1>2, <2>1, <3>1
            DEF CpuInv, ModeAsked, InForceOrOnTheWay, OnTheWay, Apply, interfaceVars, batteryVars
  <2>4. CASE HearUPower
    <3>1. cpu_mode = "Auto" /\ Apply(OnBatteryProfile(on_battery))
      BY <2>4 DEF HearUPower, LoopInv, Exclusive
    <3> QED BY <1>1, <2>1, <3>1
            DEF CpuInv, ModeAsked, InForceOrOnTheWay, Apply, interfaceVars, batteryVars
  <2>5. CASE HandleSetCustomCpuMode
    <3>1. /\ handling.type = "SetCustomCpuMode"
          /\ cpu_profile \in config.profiles => Apply(cpu_profile)
      BY <2>5 DEF HandleSetCustomCpuMode
    <3>2. asked.cpu \in NamedModes => Queued({"SetCpuMode"}) \/ Held({"SetCpuMode"})
      BY <3>1 DEF CpuInv, CustomSuperseded
    <3>3. /\ Queued({"SetCpuMode"}) => Queued({"SetCpuMode", "OnBattery"})
          /\ Held({"SetCpuMode"}) => Held({"SetCpuMode", "OnBattery"})
      BY DEF Queued, Held
    <3> QED BY <1>1, <1>2, <2>1, <3>1, <3>2, <3>3
            DEF CpuInv, ModeAsked, InForceOrOnTheWay, OnTheWay, Apply, NamedModes, interfaceVars,
                batteryVars
  <2> QED BY <2>2, <2>3, <2>4, <2>5
<1> QED BY <1>3, <1>4, <1>5, <1>6 DEF CpuInv

LEMMA NextCpu == LoopInv /\ CpuInv /\ [Next]_vars => CpuInv'
<1> SUFFICES ASSUME LoopInv, CpuInv, [Next]_vars
             PROVE  CpuInv'
  OBVIOUS
<1>1. CASE MainLoop
  <2>1. CASE AskUPower
    BY <2>1, IdleCpu DEF AskUPower, interfaceVars, serviceVars, batteryVars
  <2> QED BY <1>1, <2>1, ReceivingCpu, HandlingCpu DEF MainLoop
<1>2. CASE \E s \in Senders : Push(s)
  BY <1>2, PushCpu
<1>3. CASE \E f \in Feeders : Feed(f)
  BY <1>3, FeedCpu
<1>4. CASE PlugOrUnplug \/ BatteryMonitor
  BY <1>4, PlugOrUnplugCpu, BatteryMonitorCpu
<1>5. CASE \E c \in Clients : Announce(c) \/ Write(c) \/ Read(c) \/ \E r \in Calls : Begin(c, r)
  <2>1. CASE \E c \in Clients : Announce(c) \/ \E r \in Calls : Begin(c, r)
    BY <2>1, IdleCpu DEF Announce, Begin, interfaceVars, serviceVars, batteryVars
  <2> QED BY <1>5, <2>1, WriteCpu, ReadCpu
<1>6. CASE UNCHANGED vars
  BY <1>6, IdleCpu DEF vars, interfaceVars, serviceVars, batteryVars
<1> QED BY <1>1, <1>2, <1>3, <1>4, <1>5, <1>6 DEF Next

\* The interface always holds what was asked for last, and as long as the profile
\* in force is another one, an event that will change it is on its way; no event
\* behind that one undoes it.
THEOREM CpuInvariance == Spec => [](LoopInv /\ CpuInv)
<1>1. LoopInv /\ CpuInv /\ [Next]_vars => (LoopInv /\ CpuInv)'
  BY NextLoop, NextCpu
<1>2. Init => LoopInv /\ CpuInv
  BY InitLoop, InitCpu
<1> QED BY <1>1, <1>2, PTL DEF Spec

\* Once everything that was sent has been handled, the CPU profile in force is the
\* one asked for last, and in automatic mode the one for the power the machine
\* runs on, however calls, battery events and full channels interleaved.
THEOREM ProfileInForce == Spec => []CpuProfileInForce
<1>1. LoopInv /\ CpuInv => CpuProfileInForce
  <2> SUFFICES ASSUME LoopInv, CpuInv, Quiet, config.enable
               PROVE  /\ asked.cpu = "auto" => applied = OnBatteryProfile(on_battery)
                      /\ asked.cpu \in {"default", "responsive"} \cup (config.profiles \cap Custom)
                           => applied = asked.cpu
    BY DEF CpuProfileInForce
  <2>1. NoEvent.type = "none"
    BY DEF NoEvent
  <2>2. \A i \in 1..Len(queue) : FALSE
    BY DEF Quiet
  <2>3. \A types \in SUBSET CpuEvents : ~ OnTheWay(types)
    BY <2>1, <2>2 DEF Quiet, OnTheWay, Queued, Held, CpuEvents
  <2>4. {"SetCpuMode"} \in SUBSET CpuEvents /\ {"SetCustomCpuMode"} \in SUBSET CpuEvents
        /\ {"SetCpuMode", "OnBattery"} \in SUBSET CpuEvents
    BY DEF CpuEvents
  <2> QED BY <2>3, <2>4 DEF CpuInv, InForceOrOnTheWay, Quiet
<1> QED BY <1>1, CpuInvariance, PTL
=============================================================================
