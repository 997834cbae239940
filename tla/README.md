# Verification of System76 Scheduler

TLA+ models of the `system76-scheduler` daemon (the Rust workspace under
`src/`), TLC configurations that check them on small instances, and TLAPS
proofs of every invariant, action property and refinement that those runs check:
of the process map and the priorities of processes, of the event loop, of the
pipewire monitor and of the reader of the configuration. Liveness is
model-checked.

The daemon gives processes a scheduling profile (nice level, policy, I/O
class) according to a configuration, to which process is in the foreground and
to which processes use pipewire, and tunes the kernel's scheduler for the power
source. It is one single-threaded tokio process with a few helper tasks, one
helper thread and one child process; the kernel and the D-Bus clients act
concurrently with all of it.

Paths below are relative to `src/`.

## 1. Inventory

### Process map — `daemon/src/process.rs`

* **State.** `map`: cells of type `Process` by a hash of (pid, parent pid);
  `pid_map`: pid to one of these cells; `drain`: the hashes not seen yet by the
  sweep in progress. A cell holds pid, parent pid, names, cgroup, a weak pointer
  to its parent's cell, the decided priority and a pipewire mark.
* **Operations.** `insert`, `get_pid`, `drain_filter_prepare`,
  `retain_process_tree`, `drain_filter`, and `Process::ancestors`, which follows
  the weak pointers.
* **Hard.** Two tables and a web of weak pointers are kept in step by hand. A
  reparented process has a new key, hence two cells until the next drain, and
  the drain of the old one also touches the `pid_map` entry of the pid. Nothing
  guards `ancestors` against a cycle.
* **Correct when** `pid_map` names only live cells of the right pid, a parent
  pointer leads to a cell of the recorded parent, ancestry is acyclic.

### Assignment rules — `config/src/scheduler/assignments.rs`, `daemon/src/service.rs`

* **State.** The parsed rules: exceptions (by name, by command line, by
  condition), profiles by name and command line, conditions with include and
  exclude rules.
* **Operations.** `assign_process_priority`, `process_is_exception`.
* **Hard.** First match wins among overlapping rules, over a process tree that
  keeps changing; a decision is taken once and cached in the cell.
* **Correct when** exceptions win over everything and a decision is that of the
  rules.

### Process scheduler service — `daemon/src/service.rs`

* **State.** The configuration, the process map, `foreground`,
  `foreground_processes`, `pipewire_processes`, `gc_counter`, and, in the
  kernel, the priority each process has.
* **Operations.** One per event: a new process (`assign_new_process`,
  `assign_children`), a sweep (`process_map_refresh`), a new foreground process
  (`set_foreground_process`), a pipewire process added or removed
  (`set_pipewire_process`, `remove_pipewire_process`), a reload, and
  `garbage_clean` after most of them.
* **Hard.** Every handler works on a picture of the processes that is out of
  date: exec events are handled two seconds late, sweeps are minutes apart, and
  several handlers write the same priorities, each with its own idea of which
  processes to leave alone.
* **Correct when** what runs is what the tables say, excepted processes are left
  alone, pipewire marks come and go together, dead processes leave and living
  ones are recorded.

### Event loop and timers — `daemon/src/main.rs`

* **State.** A bounded channel of 4 events; tasks that send over it (refresh
  interval, execsnoop forwarder, pipewire monitor, battery monitor, D-Bus
  methods); the loop that handles one event at a time.
* **Hard.** Senders wait while the channel is full, and the handlers of CPU
  events wait for a lock that such a sender may hold.
* **Correct when** requests are served in the order they were made, every call
  returns, sweeps go on.

### D-Bus interface — `daemon/src/dbus.rs`

* **State.** `cpu_mode`, `cpu_profile`, behind the interface's reader-writer lock.
* **Operations.** `set_foreground_process`, `set_cpu_mode`, `set_cpu_profile`,
  `reload_configuration`; an event carries only part of what it is about, the
  main loop reads the rest from the interface when it handles it.
* **Correct when** the CPU profile in force is the one asked for last.

### Pipewire monitor — `pipewire/src/lib.rs`, `daemon/src/pw.rs`

* **State.** In a child process: the active sessions, the nodes of the pipewire
  graph, their listeners and the process of each; in the daemon: the set of
  processes passed on (`managed`).
* **Operations.** Connecting to a session's socket, node information and
  removal, listener collection, the pipe of lines, the restart of the child.
* **Hard.** The child may die at any time; what it had not written is lost and
  the next one repeats what it finds. The pipewire server may restart, which the
  child does not notice. Several nodes may belong to one process.
* **Correct when** adds and removes of a process alternate and the daemon knows
  exactly the processes that use pipewire.

### Configuration parsing — `config/src/parser`, `config/src/lib.rs`

* **State.** The configuration being read: switches and refresh rate, profiles,
  rules by name, conditional rules, exceptions.
* **Operations.** One per KDL node of `process-scheduler`, `assignments` and
  `exceptions`; the move from `config.kdl` to the files of the distribution and
  to those of the system; the end, where the profiles `foreground`, `background`
  and `pipewire` are taken out.
* **Hard.** One profile may be defined and used in many places. The first
  definition is stored, later ones count for the rules under them only; rules by
  name replace one another, conditional ones share the values of the first.
* **Correct when** which values a rule gives follows from where it and its
  profile stand, and a feature is on exactly if its profiles are defined.

### Profile values — `config/src/scheduler`, `daemon/src/priority.rs`

* **State.** None: nice level, policy and priority, I/O class and level.
* **Operations.** Parsing of the properties `nice`, `sched`, `io`; the three
  system calls.
* **Hard.** Conversions to narrow types that drop what does not fit, clamps, a
  level that belongs to a policy set elsewhere; results of the calls are ignored.
* **Correct when** the kernel takes every profile.

### Others

* **execsnoop** (`execsnoop/`): parses the output of an external tool; its
  events are environment of the models (seen, late, lost).
* **CFS tuning** (`daemon/src/cfs/`), **buffers** (`daemon/src/utils.rs`): thin
  layers over I/O.

### How they interact

```
 execsnoop thread --(unbounded, 2 s later)--> forwarder \
 refresh interval ---------------------------------------\
 pipewire child --lines--> pipewire monitor --------------> channel (4) --> main loop --> Service --> kernel
 configuration files --(start-up, reload)---------------------------------------^
 UPower --property stream--> battery monitor ------------/                     |
 D-Bus methods (hold the interface lock while sending) -/ <---- interface lock-+
```

The kernel changes processes at any time; the daemon sees that only by reading
`/proc` inside a handler.

The hazards this gives rise to are listed, each with its source line and the
properties about it, in `PROJECT.json`.

## 2. Modules

| module | models | extends |
|---|---|---|
| `ProcFs` | the machine's processes, fork, exec, exit, reparenting, cgroup moves, the exec event stream | |
| `ProcessMap` | `daemon/src/process.rs`: cells, index, ancestry | `ProcFs` |
| `Assignments` | the decision procedure over a parsed configuration | `ProcessMap` |
| `Service` | every process handler of `daemon/src/service.rs`, composed with the processes | `Assignments` |
| `ServiceProperties` | what `Service` owes its processes | `Service` |
| `ServiceTimer` | `Service` with the interval task, the exec forwarder, and scans of `/proc` file by file | `ServiceProperties` |
| `ServiceDocumented` | a statement of the docs on processes that does not hold | `ServiceTimer` |
| `EventLoop` | channel, tasks, D-Bus calls, interface lock, main loop, CPU profiles | |
| `EventLoopProperties` | order of requests, progress, the CPU profile | `EventLoop` |
| `ForegroundRequests` | abstract: requests that are served one by one, in order | |
| `PipewireMonitor` | server, child, pipe, monitor, and the events handed on; with its properties | |
| `ProcessFeed` | abstract: of each process, start and stop are heard in turns | |
| `ProfileValues` | the values of a profile, their parsing and bounds | |
| `Configuration` | the reader of the configuration files, node by node | `ProfileValues` |
| `ConfigurationProperties` | what was read against what the files say | `Configuration` |
| `ConfigurationDocumented` | statements of the docs on the files that do not hold | `ConfigurationProperties` |
| `SequenceLemmas` | lemmas: sequences, induction and recursion over an interval of naturals | |
| `ProcessMapProofs` | lemmas on the operations of the map; what `ancestors` computes | `Assignments`, `SequenceLemmas` |
| `ServiceProofs` | theorems: the inductive invariant of `Service` | `ServiceProperties`, `ProcessMapProofs` |
| `ServicePropertyProofs` | theorems: ancestry, marks, exceptions, priorities | `ServiceProofs` |
| `ServiceTimerProofs` | theorems: all of that with scans in steps | `ServiceTimer`, `ServicePropertyProofs` |
| `EventLoopProofs`, `PipewireProofs`, `ConfigurationProofs` | theorems | the modules they are named after, `SequenceLemmas` |
| `MC*` | instances for TLC | |

`Service` and `EventLoop` describe the same main loop from two sides.
`Service` has what handlers do to processes and takes events from the
environment at any time; `EventLoop` has how events get to the handlers and the
handlers that concern only the CPU. Splitting them is sound for what is claimed
because the channel neither loses nor reorders events and the environment of
`Service` may produce any sequence of them.

Two abstract specifications stand between the models. `ProcessFeed` says what
the main loop may rely on in pipewire events: `Deliver` is enabled only when the
next report tells it something new. `PipewireMonitor` implements it
(`FeedInTurns`, with `managed` as what the feed believes), and it is what the
guards `pid \notin managed` and `pid \in managed` of `Service!PipewireAdd` and
`Service!PipewireRemove` presuppose. `ForegroundRequests` says what D-Bus clients
may rely on: a queue of requests of which none is lost or overtaken.
`EventLoop` implements it (`ForegroundInOrder`): what is pending is the requests
in the channel and, behind them, that of the call that holds the interface; the
last one served (`served`) is the one that `Service` was called with, which keeps
it if foreground profiles are configured.
Abstract modules are promises and have no lines of the source in the map.

`ServiceTimer` replaces one step of `Service`, `RefreshProcessMap`, by the
steps of the scan; both use the operator `process_map_refresh(entries)`, one
with all entries read at once, the other with those read file by file.
`QuietSweepIsOneStep` ties the two together.

`Configuration` produces what `Assignments` and `Service` take as given: profiles
there are names, here they are values.

### Correspondence of state

| code | model |
|---|---|
| `Map::map` (values reachable through it) | `process_map.map` (keys) and `process_map.cell` (contents) |
| `Map::pid_map` | `process_map.pid_map`; `NoKey` where there is no entry |
| hash of (pid, parent pid) | the pair itself: hash collisions of 64 bits are left out |
| `Process::parent` (`Weak`) | the key of a cell, `NoKey` when it does not upgrade; a dropped cell takes the pointers to it with it |
| `Process::name`, `cmdline` | one name: the executable; `profile_by_cmdline` and the exceptions by command line are merged with those by name |
| `forked_name` | the name before the last rename |
| `assigned_priority` | `NotAssignable`, `Assignable`, `Exception` or a configured profile |
| effect of `priority::set` | `prio[pid]`, the profile applied last; inherited by forks |
| `foreground_processes: Vec` | a set: it is only searched |
| `pipewire_processes: Vec` | a sequence: the order decides which one is found as ancestor |
| none | `released` (history): the processes whose scheduling is what `remove_pipewire_process` left them; anything applied to one of them, its exit and every sweep take it out |
| `drain` | local to a sweep, hence no variable |
| the loop over `/proc` | `reads` (the file it reads next), `entries` (what it has read), `listed` and `disturbed` (history: what was there when it began, what has changed since) |
| `active_sessions`, the thread of a session | `session`: "none", "open", or "stale" once the server has restarted |
| `Option` of a profile or of a value | a set of at most one element |
| a KDL entry `(ty)value` | its annotation, and its value as a word or a number |
| channel of tokio | `queue` and, as its semaphore is fair, `waiting`, `granted` |
| interface lock | `writer`, `readers`: a writer announces itself and keeps new readers out |

### Atomicity

A handler of `Service` is one step. The daemon runs on a single-threaded
runtime and none of these handlers awaits, so only the kernel acts during one.
In `Service` a scan of `/proc` sees one instant; in `ServiceTimer` each of the
three files of an entry is read in a step of its own and processes act between
any two of them. Cells are inserted at the end of the scan there, as nothing
looks at the map before and entries have different keys. What the kernel does
between two events is `Environment`. In `EventLoop` a step is what a task does from one
suspension to the next. In `PipewireMonitor` the pipe and the channel are
explicit, a callback of the library is one step.

Seeded faults. Definitions marked *Seeded fault* are variants of the definition
below them (a dropped guard, an off-by-one, a missed reset). No action uses
them. Substituting one for its original must make the property named for it in
`PROJECT.json` fail, which shows that the property says something about that
code.

## 3. Runs

Times are of two TLC workers.

### Process scheduler

"init" (pid 1) and "app" (pid 2) are there at boot; "app" forks pid 3. In
`service_map` pid 3 is there as well, and any of the three forks pid 4.
`Mortal` are the pids that may exit, `Execs` and `Moves` the execs and cgroup
moves that may happen, any number of times; `MaxExecs` bounds the exec events on
their way to the daemon. Without pid reuse `MaxPid` bounds the forks, with it
only the processes alive at once. `GcLimit` is 2048 in the
code: with 1 every second counted event collects garbage, so that collections
fall between any two other steps and cells live long enough to matter.

| run | states | what it shows |
|---|---|---|
| `service_map` | 130 k, 1 min | four pids and the refresh timer, scans in steps; reparenting, late and lost exec events, moves between cgroups, collections: index and pointers stay sound, ancestry acyclic; a refresh is right about every process that held still, keeps one cell of it, decided, and nothing that was gone before it began; a dead process leaves the map, and living ones are recorded again and again under their present name |
| `service_priorities` | 54 k, 2 min | what runs is what cell, foreground and pipewire list say, but for processes that a removal freed and nothing was applied to since; with a configured profile that depends on cgroup and ancestry, an exception by parent, an exec that is heard late, a child of init that is moved into the session, and two pipewire processes, one below the other; marks of a pipewire process are removed with it; an excepted process is never rescheduled |

Three pids are enough for a process with an ancestor and a descendant, for a
reparenting (3 from 2 to 1) and for two nested pipewire processes; the fourth
in `service_map` is born in the middle of a scan, as a child, sibling or
grandchild of the one that dies in it. Neither run
reuses pids: the theorems on the map hold with and without. Both have
one configuration, so that a reload changes nothing in them: that
`ExceptionsUntouched` and `PriorityInForce` hold across reloads is what their
theorems show. `service_map` has no foreground process and no pipewire, which do
not touch what it checks; the timed theorems have both.
Three names are a configured, an excepted and an indifferent process, with one
`exec` a rename. Two cgroups are one that a rule names and one that it does
not. In `service_priorities` whatever init has started is excepted, unless it was
recorded before init was: pid 2 from the start, or never, and pid 3 once it is
reparented and recorded anew; a late exec event gives it cells that disagree.

### Event loop and pipewire

| run | states | what it shows |
|---|---|---|
| `event_loop_desktop` | 19 k | two clients against a channel of 2 that the refresh task keeps full: requests are served in the order of the calls, none is lost, calls return, sweeps go on — on a machine that has no battery |
| `event_loop_laptop` | 2.8 M | the CPU profile in force, once everything has been handled, is the one asked for last or the one for the power source; with battery events, custom profiles, reloads to a configuration with the feature off |
| `pipewire_monitor` | 54 k | with any number of crashes and of restarts of the server, events about a process come in turns; while a connection lasts, every user of pipewire is known in the end, and nothing else is but processes that went while nobody was looking |

The channel holds 4 events in the code. With 2 there is already an event ahead
of a new one, one that waits, and a second waiter behind it; the permits, not
their number, order the senders. Three node ids are two processes and one id
that is given out again.

### Configuration

| run | states | what it shows |
|---|---|---|
| `configuration` | 135 k, 0.5 min | any four nodes over the three places: the kernel takes every profile; the last rule for a name decides, with the values of its profile there; the conditions of a profile assign what its rules give them; features are on exactly if their profiles are defined |

Four nodes are two definitions of a profile and a rule under each, or both
foreground profiles, defined twice. The two sets of properties
have a value below, above or outside every bound: a nice level that is clamped
and one that does not fit, a real-time level of 0 and a policy without one, an
I/O level that does not exist. What a third definition inherits and what becomes
of properties in which the conditional rules of a profile differ is left out of
these invariants: there the code and the README disagree, as two of the runs
below show.

### Statements that do not hold

Each of these runs checks one statement of a doc or a comment, and TLC refutes
it. The findings in `PROJECT.json` quote the lines.

| run | statement | what happens |
|---|---|---|
| `doc_foreground_tree` | foreground processes and their sub-processes get the higher priority | 3 is reparented when 2 dies; the sweep records it again and then drains its old cell, which removes the index entry of the pid; `get_pid` does not find it again, so it is never given the foreground profile |
| `doc_sweeps` | processes are regularly swept | a D-Bus call waits for the full channel with the interface locked, the main loop waits for the interface: both for ever |
| `doc_pipewire_crash` | a crash of the child loses no data | a process that leaves while no child runs is never removed |
| `doc_pipewire_nodes` | the processes connected to pipewire are monitored | a process with two nodes is removed with the first |
| `doc_profile_inheritance` | a definition of a profile inherits from the previous one of that name (README.md:50, 60) | the first definition alone is stored: a third one starts from it, without what the second one added |
| `doc_condition_properties` | a rule by condition has properties of its own (README.md:90) | a profile keeps the values of its first conditional rule; those of a second one are parsed and dropped |

Seen while modelling, and left to the reader of the code:

* Removing a pipewire process takes the profile from a descendant that is a
  pipewire process itself, and sends those it frees to the background even when
  nothing is in the foreground (`daemon/src/service.rs:617`). Without foreground
  management it leaves them the pipewire profile. The next sweep puts all of it
  right. `LeftByRemoval` states these deviations. It holds of the processes in
  `released` only, those that a removal has freed and to which nothing was applied
  since, and `PriorityInForce` allows no other deviation.
* A garbage collection (`daemon/src/service.rs:362`), which its comment
  (`daemon/src/service.rs:324`) says removes dead processes, inserts every live one
  with an empty name: it forgets the recorded name and the assignment of each, and
  a sweep has to record them again. `SurvivorsRecorded` is about that.
* A late exec event can give a process that was reparented a second cell, of
  which one may be excepted and the other not, and the event applies what it
  decides (`daemon/src/service.rs:207`). `ExceptionsUntouched` therefore speaks of
  processes of which every cell says so.
* A process once assigned keeps its assignment after a reload
  (`daemon/src/service.rs:45`), though `data/config.kdl:21` calls the refresh rate
  "How often to reload process assignments".
* A new sub-process of the foreground process is put in the background by its
  own exec event, until the next sweep (`daemon/src/service.rs:270`).
* The delay of exec events is two seconds (`daemon/src/main.rs:371`) where the
  comment says one (`daemon/src/main.rs:356`).
* A rule that README.md:90 writes as `*` is a rule for processes named "*"
  (`config/src/parser/scheduler.rs:93`); conditions are written `include` and
  `exclude`, as `data/pop_os.kdl` does.
* An exception may name a cgroup (`config/src/parser/scheduler.rs:171`), at which
  the service never looks (`daemon/src/service.rs:413`): with no other criterion
  it excepts every process.
* When the pipewire server restarts, the child keeps a connection that yields
  nothing and counts its session as active (`daemon/src/pw.rs:75`,
  `pipewire/src/lib.rs:204`): nobody is monitored until the child dies. The
  properties of `PipewireMonitor` therefore speak of an open connection.
* A process that dies half scanned is recorded under parent 0 until the next sweep
  (`daemon/src/service.rs:497`).
* A refresh rate of 0 makes the interval panic (`daemon/src/main.rs:192`).

## 4. Fairness

`ServiceTimer` assumes weak fairness of the interval, of the handling of its
event and of the forwarder's: they are tasks of one runtime, which polls each
task that is ready, and handlers do not block. A sweep goes on because the
event of the refresh is handled to its end: a scan reads finitely many files, of
which at most `MaxPid` are those of processes. The conditions are stated over
`refresh_sent` and `execs`, the variables only these steps change, because
deciding whether the whole handler is ENABLED is expensive for TLC. Nothing is
assumed of processes, clients or pipewire.

`EventLoop` assumes weak fairness of the main loop taking an event, of every
task that can push, feed or forward a battery change, and of a writer whose
lock is free of readers; and strong fairness of acquiring the interface lock,
by calls and by the main loop, since async-lock serves its waiters. Nobody has
to make a call or to unplug the machine.

`PipewireMonitor` assumes weak fairness of the restart of the child (every three
seconds), of its look for sockets (every minute), of the monitor and of the main
loop; and strong fairness of the information about each node, which the library
delivers in order although its thread blocks whenever the pipe is full. Nothing
is assumed of crashes, of the server or of nodes: `FeedSettles` is about a
connection that lasts. That a child can always be started again is assumed; the
code gives up when it cannot (`daemon/src/pw.rs:125`).

`Configuration` is a finite reading and has no liveness.

## 5. What is proved

Each theorem holds for every value of the constants that satisfies the named
assumptions of its module and of those it extends. None bounds pids, names,
rules, clients, nodes or the length of a behaviour. Every invariant, action
property and refinement that a passing run checks is the conclusion of one of
them; `PROJECT.json` lists them with these properties.

### The process map (`ProcessMapProofs`)

One lemma per operation of the map (`insert`, `link`, `drain_filter`): given a
well-formed map and observations of the right type, the result is well-formed.

* `AncestorsExact`: in a well-formed map `ancestors(pm, k)` is the least set with
  the parent of `k` and the parent of each of its members.

The loop of `Process::ancestors` has no bound, the recursion of `Lineage` has one,
the size of the map. The theorem says that the bound cuts nothing off. The walk
up to the bound has one step more than there are cells; if it has not ended by
then it has been at one cell twice, and from there on repeats itself.

### Process scheduler (`ServiceProofs`)

* `TypeCorrect`: `Spec => []TypeOK`
* `PidMapAlwaysSound`: `Spec => []PidMapSound`
* `ParentLinksAlwaysAgree`: `Spec => []ParentLinkAgrees`

The inductive invariant is

    Inv == TypeOK /\ AliveHasProc /\ WellFormed(process_map)

`WellFormed` joins the soundness of the index and of the parent pointers, which
are not inductive one without the other: `link` takes a pointer from the index,
so pointers are right only if the index is, and a drain must keep both in step.
`AliveHasProc`, that a live process has an entry that is not that of a dead one,
is needed because a scan turns entries into cells. `ServiceProofs` has one lemma
per operator of `Service` and one per action; `Invariance` splits `Next` into
actions and cites them. None of this assumes that pids are not reused.

### What the scheduler owes its processes (`ServicePropertyProofs`)

* `AncestryAlwaysEnds`: `Spec => []AncestryEnds`, by `Elders`: without pid reuse
  every pid anywhere (a cell, an entry of `/proc`, an exec event that is still on
  its way) is at most the last one born, and its parent's is smaller. A
  reparenting only makes it smaller.
* `MarksAlwaysOwned`: `Spec => []PipewireMarksOwned`, by `Marks`: as the property,
  of cells that are in the map; those that are not bear no mark; and the list of
  pipewire processes has no duplicates, without which a removal would leave one
  behind.
* `ExceptionsLeftAlone`: `Spec => ExceptionsUntouched`, action by action: no
  branch of a handler that sets a priority is taken for a process of which every
  cell is excepted afterwards.
* `PriorityAlwaysInForce`: `Spec => []PriorityInForce`

The invariant of the last one, `Enforced`, says the same as `PriorityInForce` with
the operands spelled out (cell, foreground, its tree, pipewire list, released
processes), so that each can change by itself, and more: cells that a collection has emptied are not
decided; the foreground process is in its own tree, and there is no tree without
one; nobody is under the pipewire profile when it is not configured. It is
inductive together with `Inv`, `Elders` (a new process has a new pid, so none
that is recorded changes under the daemon's hands) and `Marks` (a removal frees
just those whose mark it takes). The lemmas follow the passes of a handler over
the map: what `apply_process_priority` has applied is what is recorded then;
`Prioritise` makes it right for the new tree; a collection leaves what it does
not empty. `DecidedRunsRight` and `OwnProfileRunsRight` are the two facts they
share: to apply a decision twice is to apply it once, and only processes
without a profile of their own look at foreground and pipewire.

Of `released` the proof needs no more than that a removal puts in what it frees
(`FreedRunsRight`), that it keeps whatever nothing was applied to (`SetSince`), and
that a sweep, after which nothing is left in it, applies to every process that is
settled then what is recorded (`SweepForce`).

The hypotheses, no pid reuse and configurations of the same features, are those of
the property; section 6 says why they are needed.

### Scans in steps (`ServiceTimerProofs`)

* `TimedTypeCorrect`: `TimedSpec => []TimerTypeOK`
* `TimedMapSound`: `TimedSpec => [](PidMapSound /\ ParentLinkAgrees)`
* `QuietSweeps`: `TimedSpec => QuietSweepIsOneStep`
* `SweepsAlwaysTruthful`: `TimedSpec => SweepTruthful`: only cells that a collection
  has emptied are left undecided (`AssignmentDecides`), and a refresh fills them
* `TimedAncestryEnds`, `TimedMarksOwned`, `TimedExceptionsLeftAlone`,
  `TimedPriorityInForce`: the properties above, of `TimedSpec`

The lemmas on a refresh (`SweepInv`, `SweepElder`, `SweepMarks`, `SweepLeaves`,
`SweepForce`) ask of the entries that they are observations and, at most, that a
parent is older and that there is a name. They do not ask that all were true at
one moment; so what holds of `Service` holds whatever a scan reads. `SweepSound`
says what the scan knows: unless disturbed, the entries it has completed are
those of the processes listed up to where it is, and agree with the processes as
they are; the entry it is at agrees in the files already read. `QuietSweeps` and
`SweepsAlwaysTruthful` follow.

### Event loop (`EventLoopProofs`)

* `EventLoopTypeCorrect`: `Spec => []TypeOK`
* `RequestsInOrder`: `Spec => ForegroundInOrder`, the refinement of
  `ForegroundRequests`
* `ProfileInForce`: `Spec => []CpuProfileInForce`

`LoopInv` adds to the types how the channel is used: a task waits at one place, has
something to push while it does, a permit is for a task that has; and that an
event of a method with `&mut self` is that of the holder of the interface. So
at most one request is held outside the channel, which is what the refinement
mapping appends to the requests in it. `RequestsIn`, the requests among the
events of a queue, is a recursive function over positions; it is shown to exist
and to commute with `Append` and `Tail` by induction.

`CpuInv` says that unless what is asked for is in force, an event that will bring it
about is on the way: in the channel, held by a task, or being handled; that the
last battery event on the way says what UPower says; and that a custom profile
that is asked for no longer is overtaken by the event of what was asked for
after it.

### Pipewire (`PipewireProofs`)

* `PipewireTypeCorrect`: `Spec => []TypeOK`
* `FeedImplemented`: `Spec => FeedInTurns`, the refinement of `ProcessFeed`
* `UsersAlwaysKnown`: `ASSUME OneNodeEach PROVE Spec => []UsersKnown`
* `NeverGhosts`: `Spec => []NoGhosts`

`Alternates` relates the two ends of the channel: of the pending events about one
process, the first contradicts what the main loop takes to be the case, any two in
a row differ, and the last agrees with `managed`; without any, the two agree.
It speaks of positions in the queue only.

`Tracks` does the same for the pipe: a process is `Believed` to use pipewire when
the last line about it says so, or there is none and `managed` has it. Nobody is
believed to but those with a node and those who went unseen; and, if each process
has one node, everyone whose node the child has reported is. The hypothesis
`OneNodeEach` is what the code takes for granted and pipewire does not
(`doc_pipewire_nodes` refutes the property without it); the run has it, too.

### Configuration (`ConfigurationProofs`)

* `KernelAlwaysAccepts`: `Spec => []KernelAccepts`
* `ConfigurationTypeCorrect`: `Spec => []TypeOK`
* `NameRulesDecide`: `Spec => []NameRuleDecides`
* `ConditionsAlwaysAssign`: `Spec => []ConditionsAssign`
* `FeaturesAlwaysAsDefined`: `Spec => []FeaturesAsDefined`

The inductive invariant is `Faithful == TypeOK /\ AllSound /\ Held`.

`AllSound`: every profile anywhere in the state is well formed; it is a new one, or
`parse` of a well-formed one, and `parse` keeps it so property by property. The
stored priority is within 1..99 even for policies that do not use it: a later
`sched="rr"` turns the profile into a real-time one with that priority.

`Held`: what the reader holds is what the nodes read so far say. A profile is
kept as first defined, a rule by name as last decided, the open node is the one
read last, places are read in order. Each step adds one node to the history, and
the lemmas say what that leaves: the values of a rule, once read, do not change,
and the first definition stays the first.

### Induction

The library's induction theorems take an operator as a parameter, which the
installed provers cannot instantiate. `SequenceLemmas` has induction over an
interval of naturals with a set in the place of the predicate
(`IntervalInduction`), and from it that a recursion over such an interval defines
a function (`RecursionDefines`). That reaches the functions `Lineage` and
`RequestsIn`, which are written that way.

### Model-checked only

Liveness: `DeadLeave`, `SurvivorsRecorded`, `CallsReturn`, `SweepsContinue`,
`FeedSettles`. The prover has no ENABLED, hence nothing to conclude from fairness.
Nor is there a theorem that a property fails: the `doc_*` runs are
counterexamples.

## 6. Scope of the properties

* `AncestryEnds` is claimed without pid reuse only. With it, a parent pid that
  is recycled within the two seconds an exec event waits can close a cycle.
* `PriorityInForce` speaks of a pid with one cell, without pid reuse, and of
  configurations that agree on whether there are a foreground and a pipewire
  profile. A new process under an old pid is not looked at until the next sweep;
  the two cells of a reparented process may disagree; and a reload that turns one
  of the two features on or off reapplies nothing, so that it takes effect process
  by process. Other reloads are within the property: what was decided is kept.
  That the next sweep applies "default" to cells during its own foreground pass is
  modelled (`foreground` is taken meanwhile).
* The only deviation it allows is `LeftByRemoval`, for a pid in `released`. A
  process is in there from the removal that freed it until something is set on it,
  it exits, or a sweep has gone over everything. A foreground pass that treats a
  pipewire process wrongly sets something on it, so it is not excused.
* `ExceptionsUntouched` wants every cell of the process to say that it is
  excepted, before and after the step: a step that takes the exception away may
  apply what takes its place.
* `UsersKnown` is claimed of processes with one node at a time; what happens to
  others is `doc_pipewire_nodes`.
* `CpuProfileInForce` lets `set_cpu_mode("Custom")` keep what is there, and an
  empty profile name cancel a custom profile not looked up yet; a reload
  reapplies nothing, so it ends what was asked before.
* `SweepTruthful` speaks of processes that were not disturbed from the start of
  the scan to its end. One that is reparented or killed in its middle is recorded
  as it was when each file was read.
* `NameRuleDecides` takes the files of a directory in the order in which they are
  read: `read_dir` promises none (`config/src/lib.rs:53`). It leaves out rules that
  stand under a third definition of their profile, and `ConditionsAssign` those as
  well and profiles whose conditional rules have different values: there the README
  says something else than the code does (`doc_profile_inheritance`,
  `doc_condition_properties`).
* Of `FeaturesAsDefined` README.md:41 says which features are on; that their values
  are those of the first definition is what the code does.
* `KernelAccepts` is about arguments: permissions and limits of the daemon's
  user are not in it.

## 7. What is not modelled

* A `read_dir` of `/proc` that fails, and the scan of a garbage collection step by
  step: it uses only pids and parents.
* `children` reads only the children of a process's main thread; here a process
  has one thread. Zombies are not in `/proc`'s command lines and count as gone.
* The case in which `argv[0]` and the executable differ in name.
* What a profile without a nice level leaves of the present one: a profile is one
  value in `Service`.
* UPower failing (taken as mains power by the code), the interface missing
  (which ends the main loop), the short read lock zbus takes before a write lock.
* Several pipewire sessions (`daemon/src/pw.rs:42`), which share only the
  channel; lines cut in half by a crash; the ways in which the monitor gives up.
* Whether the process scheduler, execsnoop and the pipewire monitor run at all
  is decided once at start-up: the models start after that.
* Command-line entry points, autogroup, the wait for an uptime of 10 s, logging.
* The grammar of KDL, and properties given twice in one node; the nodes
  `cfs-profiles` and `autogroup-enabled`, which set values without rules.
* CFS arithmetic (`daemon/src/cfs/mod.rs`): 64-bit and floating-point numbers,
  which TLC does not hold, on constants; which CFS profile is in force is in
  `EventLoop`.
* The lines of execsnoop (`execsnoop/src/lib.rs`) and the buffers of
  `daemon/src/utils.rs`: parsing and I/O without state of their own.

## 8. Plan

Done, in this order: the process map and its environment; assignment rules; the
service with all its handlers; its priorities, exceptions and pipewire marks;
timers and liveness; the event loop; the pipewire monitor; the proofs of the
map's invariants; configuration and profile values; scans in steps; the
pipewire server and liveness of the feed; the two refinements; the theorems
about every invariant, action property and refinement of the runs.

Every safety property of the runs is a theorem. What theorems could add, in
this order:

1. The steps on which liveness rests, as `SweepTruthful` is for
   `SurvivorsRecorded`: that some task of the event loop can step unless all wait
   as in `doc_sweeps` (`CallsReturn`), that the lines about a process that are on
   their way grow fewer (`FeedSettles`).
2. The decisions of `Assignments` against the rules: an exception wins, then the
   name, then the first condition that is met.
3. `PriorityInForce` between a reload that turns a feature on or off and the next
   decision of each cell, in terms of the configuration it was decided under.
