----------------------------- MODULE EventLoop -----------------------------
(***************************************************************************)
(* The daemon around the process scheduler (daemon/src/main.rs and         *)
(* dbus.rs): tasks that send events over one bounded channel, D-Bus calls  *)
(* that do so while they hold the lock of the interface, and the main loop *)
(* that handles one event at a time, some of them under the same lock.     *)
(*                                                                         *)
(* All tasks share one thread: a step runs from one suspension at an await *)
(* to the next.  The channel is that of tokio (a fair semaphore of         *)
(* Capacity permits), the lock that of zbus (async-lock: a writer first    *)
(* announces itself, which keeps new readers out, then waits for those     *)
(* that are in).  What the handlers do to processes is module Service.     *)
(***************************************************************************)
EXTENDS Integers, Sequences, FiniteSets

CONSTANTS
  Capacity,   \* of the channel: 4 in the code
  Feeders,    \* the tasks that feed process events: refresh, execsnoop, pipewire
  Clients,    \* D-Bus calls that may be in progress at once
  Calls,      \* the calls clients make
  Configs,    \* the CPU part of the configurations the files may hold
  Pids,       \* the pids a client may name
  Power,      \* what the machine may run on: "ac", "battery"
  Custom      \* the names of CPU profiles that have no meaning of their own

Battery == "battery_monitor"
Loop    == "loop"
NoOne   == "no_one"
Senders == Feeders \cup Clients \cup {Battery}

CpuMode == {"Auto", "Custom", "Default", "Responsive"}
CpuProfile == {"", "auto", "default", "responsive"} \cup Custom

Call ==
  [method : {"set_foreground_process"}, arg : Pids]
    \cup [method : {"set_cpu_mode"}, arg : CpuMode]
    \cup [method : {"set_cpu_profile"}, arg : CpuProfile]
    \cup [method : {"reload_configuration"}, arg : {""}]
NoCall == [method |-> "none", arg |-> ""]

Event ==
  [type : Feeders \cup {"SetCpuMode", "SetCustomCpuMode", "ReloadConfiguration"}, arg : {""}]
    \cup [type : {"OnBattery"}, arg : Power]
    \cup [type : {"SetForegroundProcess"}, arg : Pids]
NoEvent == [type |-> "none", arg |-> ""]

ASSUME EventLoopAssumption ==
  /\ Capacity \in Nat \ {0}
  /\ Calls \subseteq Call
  /\ Configs \subseteq [enable : BOOLEAN, profiles : SUBSET (Custom \cup {"default", "responsive"})]
  /\ Power \subseteq {"ac", "battery"}
  /\ Feeders \cap Clients = {} /\ Battery \notin Feeders \cup Clients
  /\ Senders \cap {Loop, NoOne} = {}
  /\ Feeders \cap {"OnBattery", "SetForegroundProcess", "SetCpuMode", "SetCustomCpuMode",
                   "ReloadConfiguration", "none"} = {}
  /\ Custom \cap {"", "auto", "default", "responsive", "kernel", "kept"} = {}

VARIABLES
  queue,            \* the events in the channel
  waiting,          \* the tasks waiting for a permit, first come first served
  granted,          \* the tasks that were given a permit and have not pushed yet
  outbox,           \* the event each waiting task wants to push
  call,             \* the call each client is in
  writer,           \* the call that announced itself as writer of the interface
  readers,          \* who reads the interface: calls, or the main loop
  cpu_mode,         \* \  the properties of
  cpu_profile,      \* /  the interface
  handling,         \* the event for which the main loop needs the interface
  served,           \* the pid set_foreground_process was called with last, "" at first
  config,           \* the configuration in use
  applied,          \* the CPU profile in force, "kernel" if the daemon set none
  on_battery,       \* what UPower says
  battery_changed,  \* the monitor has not seen that yet
  asked             \* history: what the last call asked for; "kept" if nothing

channelVars == <<queue, waiting, granted, outbox>>
lockVars    == <<call, writer, readers>>
interfaceVars == <<cpu_mode, cpu_profile, asked>>
serviceVars == <<served, config, applied>>
batteryVars == <<on_battery, battery_changed>>
vars == <<channelVars, lockVars, interfaceVars, handling, serviceVars, batteryVars>>

Applied == {"kernel", "default", "responsive"} \cup Custom

TypeOK ==
  /\ queue \in Seq(Event) /\ Len(queue) + Cardinality(granted) <= Capacity
  /\ waiting \in Seq(Senders)
  /\ granted \subseteq Senders
  /\ outbox \in [Senders -> Event \cup {NoEvent}]
  /\ call \in [Clients -> Calls \cup {NoCall}]
  /\ writer \in Clients \cup {NoOne}
  /\ readers \subseteq Clients \cup {Loop}
  /\ cpu_mode \in CpuMode /\ cpu_profile \in CpuProfile
  /\ handling \in Event \cup {NoEvent}
  /\ served \in Pids \cup {""}
  /\ config \in Configs
  /\ applied \in Applied
  /\ on_battery \in Power /\ battery_changed \in BOOLEAN
  /\ asked \in [foreground : Pids \cup {""}, cpu : {"auto", "kept"} \cup Applied]

-----------------------------------------------------------------------------
(* CPU profiles *)

\* cfs_apply does nothing unless the feature is enabled.
Apply(profile) == applied' = IF config.enable THEN profile ELSE applied

OnBatteryProfile(power) == IF power = "battery" THEN "default" ELSE "responsive"

\* The main loop applies a profile for the battery before it serves events.
Init ==
  /\ queue = <<>> /\ waiting = <<>> /\ granted = {}
  /\ outbox = [s \in Senders |-> NoEvent]
  /\ call = [c \in Clients |-> NoCall]
  /\ writer = NoOne /\ readers = {}
  /\ cpu_mode = "Auto" /\ cpu_profile = "auto"
  /\ handling = NoEvent
  /\ served = ""
  /\ config \in Configs
  /\ on_battery \in Power
  /\ battery_changed = FALSE
  /\ applied = IF config.enable THEN OnBatteryProfile(on_battery) ELSE "kernel"
  /\ asked = [foreground |-> "", cpu |-> "auto"]

-----------------------------------------------------------------------------
(* The channel *)

HasPermit == Len(queue) + Cardinality(granted) < Capacity

\* tx.send(e).await by task s, up to where it may have to wait.
Send(s, e) ==
  IF HasPermit
  THEN queue' = Append(queue, e) /\ UNCHANGED <<waiting, granted, outbox>>
  ELSE /\ waiting' = Append(waiting, s)
       /\ outbox' = [outbox EXCEPT ![s] = e]
       /\ UNCHANGED <<queue, granted>>

\* rx.recv().await: the permit of the event goes to the task that waits longest.
Receive ==
  /\ queue # <<>>
  /\ queue' = Tail(queue)
  /\ IF waiting = <<>> THEN UNCHANGED <<waiting, granted>>
     ELSE waiting' = Tail(waiting) /\ granted' = granted \cup {Head(waiting)}
  /\ UNCHANGED outbox

\* A task that was given a permit runs again, and a call returns.
Push(s) ==
  /\ s \in granted
  /\ queue' = Append(queue, outbox[s])
  /\ granted' = granted \ {s}
  /\ outbox' = [outbox EXCEPT ![s] = NoEvent]
  /\ writer' = IF writer = s THEN NoOne ELSE writer
  /\ readers' = readers \ {s}
  /\ call' = IF s \in Clients THEN [call EXCEPT ![s] = NoCall] ELSE call
  /\ UNCHANGED <<waiting, interfaceVars, handling, serviceVars, batteryVars>>

-----------------------------------------------------------------------------
(* The tasks *)

\* Seeded fault: an event that finds the channel full is dropped (try_send).
FeedIfFree(f) ==
  /\ outbox[f] = NoEvent
  /\ HasPermit
  /\ Send(f, [type |-> f, arg |-> ""])
  /\ UNCHANGED <<lockVars, interfaceVars, handling, serviceVars, batteryVars>>

\* Seeded fault: a task sends without waiting for a place (unbounded_channel).
FeedUnbounded(f) ==
  /\ outbox[f] = NoEvent
  /\ queue' = Append(queue, [type |-> f, arg |-> ""])
  /\ UNCHANGED <<waiting, granted, outbox, lockVars, interfaceVars, handling, serviceVars,
                 batteryVars>>

\* The interval, the execsnoop forwarder and the pipewire monitor.
Feed(f) ==
  /\ outbox[f] = NoEvent
  /\ Send(f, [type |-> f, arg |-> ""])
  /\ UNCHANGED <<lockVars, interfaceVars, handling, serviceVars, batteryVars>>

PlugOrUnplug ==
  /\ on_battery' \in Power \ {on_battery}
  /\ battery_changed' = TRUE
  /\ UNCHANGED <<channelVars, lockVars, interfaceVars, handling, serviceVars>>

\* A property stream yields the latest value; changes in between are merged.
BatteryMonitor ==
  /\ battery_changed
  /\ outbox[Battery] = NoEvent
  /\ battery_changed' = FALSE
  /\ Send(Battery, [type |-> "OnBattery", arg |-> on_battery])
  /\ UNCHANGED <<lockVars, interfaceVars, handling, serviceVars, on_battery>>

-----------------------------------------------------------------------------
(* D-Bus calls *)

Begin(c, r) ==
  /\ call[c] = NoCall
  /\ call' = [call EXCEPT ![c] = r]
  /\ UNCHANGED <<channelVars, writer, readers, interfaceVars, handling, serviceVars, batteryVars>>

\* reload_configuration takes &self, the other methods &mut self.
Writes(c) == call[c].method \in {"set_foreground_process", "set_cpu_mode", "set_cpu_profile"}

Announce(c) ==
  /\ Writes(c)
  /\ writer = NoOne
  /\ writer' = c
  /\ UNCHANGED <<channelVars, call, readers, interfaceVars, handling, serviceVars, batteryVars>>

ModeOf(profile) ==
  CASE profile = "auto"       -> "Auto"
    [] profile = "default"    -> "Default"
    [] profile = "responsive" -> "Responsive"
    [] profile = ""           -> cpu_mode
    [] OTHER                  -> "Custom"

EventOf(r) ==
  CASE r.method = "set_foreground_process" -> [type |-> "SetForegroundProcess", arg |-> r.arg]
    [] r.method = "reload_configuration"   -> [type |-> "ReloadConfiguration", arg |-> ""]
    [] r.method = "set_cpu_mode"           -> [type |-> "SetCpuMode", arg |-> ""]
    [] r.method = "set_cpu_profile" ->
         IF r.arg = "" THEN NoEvent
         ELSE IF r.arg \in Custom THEN [type |-> "SetCustomCpuMode", arg |-> ""]
         ELSE [type |-> "SetCpuMode", arg |-> ""]

\* What the caller may expect once its call has returned and was handled.
\* set_cpu_mode(Custom) names no profile, and an empty name erases that of a
\* custom profile which the main loop may not have looked up yet.
AskedBy(r) ==
  CASE r.method = "set_foreground_process" -> [asked EXCEPT !.foreground = r.arg]
    [] r.method = "set_cpu_profile" /\ r.arg # "" -> [asked EXCEPT !.cpu = r.arg]
    [] r.method = "set_cpu_profile" /\ r.arg = "" /\ asked.cpu \in Custom ->
         [asked EXCEPT !.cpu = "kept"]
    [] r.method = "set_cpu_mode" ->
         [asked EXCEPT !.cpu = CASE r.arg = "Auto" -> "auto" [] r.arg = "Default" -> "default"
                                 [] r.arg = "Responsive" -> "responsive" [] OTHER -> "kept"]
    [] OTHER -> asked

\* Seeded fault: the lock is released while the call waits for the channel.
UnlockToSend(c, returned) ==
  /\ writer' = NoOne
  /\ call' = IF returned THEN [call EXCEPT ![c] = NoCall] ELSE call

\* Seeded fault: a call that need not wait returns without releasing the lock.
KeepLock(c, returned) ==
  /\ writer' = c
  /\ call' = IF returned THEN [call EXCEPT ![c] = NoCall] ELSE call

\* The lock is held until the call returns.
LockWhile(c, returned) ==
  /\ writer' = IF returned THEN NoOne ELSE c
  /\ call' = IF returned THEN [call EXCEPT ![c] = NoCall] ELSE call

\* The body of a &mut self method, up to where it may have to wait.
Write(c) ==
  /\ Writes(c)
  /\ writer = c
  /\ readers = {}
  /\ outbox[c] = NoEvent
  /\ LET r == call[c]
         e == EventOf(r)
     IN /\ cpu_mode' = CASE r.method = "set_cpu_mode"    -> r.arg
                         [] r.method = "set_cpu_profile" -> ModeOf(r.arg)
                         [] OTHER                        -> cpu_mode
        /\ cpu_profile' = IF r.method = "set_cpu_profile" THEN r.arg ELSE cpu_profile
        /\ asked' = AskedBy(r)
        /\ IF e = NoEvent THEN UNCHANGED channelVars ELSE Send(c, e)
        /\ LockWhile(c, e = NoEvent \/ HasPermit)
  /\ UNCHANGED <<readers, handling, serviceVars, batteryVars>>

\* reload_configuration
Read(c) ==
  /\ call[c].method = "reload_configuration"
  /\ outbox[c] = NoEvent
  /\ writer = NoOne
  /\ Send(c, EventOf(call[c]))
  /\ IF HasPermit
     THEN call' = [call EXCEPT ![c] = NoCall] /\ UNCHANGED readers
     ELSE readers' = readers \cup {c} /\ UNCHANGED call
  /\ UNCHANGED <<writer, interfaceVars, handling, serviceVars, batteryVars>>

-----------------------------------------------------------------------------
(* The main loop *)

HandleProcesses ==
  /\ handling = NoEvent /\ Receive
  /\ Head(queue).type \in Feeders
  /\ UNCHANGED <<lockVars, interfaceVars, handling, serviceVars, batteryVars>>

\* Whether the service keeps the pid is up to its configuration (module Service).
HandleSetForegroundProcess ==
  /\ handling = NoEvent /\ Receive
  /\ Head(queue).type = "SetForegroundProcess"
  /\ served' = Head(queue).arg
  /\ UNCHANGED <<lockVars, interfaceVars, handling, config, applied, batteryVars>>

\* Nothing is applied again; the requests made before no longer bind.
HandleReloadConfiguration ==
  /\ handling = NoEvent /\ Receive
  /\ Head(queue).type = "ReloadConfiguration"
  /\ config' \in Configs
  /\ asked' = [asked EXCEPT !.cpu = "kept"]
  /\ UNCHANGED <<lockVars, cpu_mode, cpu_profile, handling, served, applied, batteryVars>>

\* The other events need the interface: handle.get().await
TakeCpuEvent ==
  /\ handling = NoEvent /\ Receive
  /\ Head(queue).type \in {"OnBattery", "SetCpuMode", "SetCustomCpuMode"}
  /\ handling' = Head(queue)
  /\ UNCHANGED <<lockVars, interfaceVars, serviceVars, batteryVars>>

\* Seeded fault: the loop does not ask what the mode is.
BatteryAlways ==
  /\ handling.type = "OnBattery"
  /\ writer = NoOne
  /\ Apply(OnBatteryProfile(handling.arg))
  /\ handling' = NoEvent
  /\ UNCHANGED <<channelVars, lockVars, interfaceVars, served, config, batteryVars>>

HandleOnBattery ==
  /\ handling.type = "OnBattery"
  /\ writer = NoOne
  /\ IF cpu_mode = "Auto" THEN Apply(OnBatteryProfile(handling.arg)) ELSE UNCHANGED applied
  /\ handling' = NoEvent
  /\ UNCHANGED <<channelVars, lockVars, interfaceVars, served, config, batteryVars>>

HandleSetCpuMode ==
  /\ handling.type = "SetCpuMode"
  /\ writer = NoOne
  /\ cpu_mode # "Auto"
  /\ CASE cpu_mode = "Default"    -> Apply("default")
       [] cpu_mode = "Responsive" -> Apply("responsive")
       [] cpu_mode = "Custom"     -> UNCHANGED applied
  /\ handling' = NoEvent
  /\ UNCHANGED <<channelVars, lockVars, interfaceVars, served, config, batteryVars>>

\* In automatic mode the lock is held while UPower is asked.
AskUPower ==
  /\ handling.type = "SetCpuMode"
  /\ writer = NoOne
  /\ cpu_mode = "Auto"
  /\ Loop \notin readers
  /\ readers' = readers \cup {Loop}
  /\ UNCHANGED <<channelVars, call, writer, interfaceVars, handling, serviceVars, batteryVars>>

HearUPower ==
  /\ Loop \in readers
  /\ Apply(OnBatteryProfile(on_battery))
  /\ readers' = readers \ {Loop}
  /\ handling' = NoEvent
  /\ UNCHANGED <<channelVars, call, writer, interfaceVars, served, config, batteryVars>>

HandleSetCustomCpuMode ==
  /\ handling.type = "SetCustomCpuMode"
  /\ writer = NoOne
  /\ IF cpu_profile \in config.profiles THEN Apply(cpu_profile) ELSE UNCHANGED applied
  /\ handling' = NoEvent
  /\ UNCHANGED <<channelVars, lockVars, interfaceVars, served, config, batteryVars>>

MainLoop ==
  \/ HandleProcesses \/ HandleSetForegroundProcess \/ HandleReloadConfiguration
  \/ TakeCpuEvent
  \/ HandleOnBattery \/ HandleSetCpuMode \/ AskUPower \/ HearUPower \/ HandleSetCustomCpuMode

Next ==
  \/ MainLoop
  \/ \E s \in Senders : Push(s)
  \/ \E f \in Feeders : Feed(f)
  \/ PlugOrUnplug \/ BatteryMonitor
  \/ \E c \in Clients : Announce(c) \/ Write(c) \/ Read(c) \/ \E r \in Calls : Begin(c, r)

\* The runtime polls every task that can go on.  The lock is fair, and so is the
\* semaphore of the channel; nobody has to make a call or unplug the machine.
Fairness ==
  /\ WF_vars(HandleProcesses \/ HandleSetForegroundProcess \/ HandleReloadConfiguration
             \/ TakeCpuEvent)
  /\ SF_vars(HandleOnBattery \/ HandleSetCpuMode \/ AskUPower \/ HearUPower
             \/ HandleSetCustomCpuMode)
  /\ \A s \in Senders : WF_vars(Push(s))
  /\ \A f \in Feeders : WF_vars(Feed(f))
  /\ WF_vars(BatteryMonitor)
  /\ \A c \in Clients : SF_vars(Announce(c) \/ Read(c)) /\ WF_vars(Write(c))

Spec == Init /\ [][Next]_vars
FairSpec == Spec /\ Fairness
=============================================================================
