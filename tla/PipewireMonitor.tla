-------------------------- MODULE PipewireMonitor --------------------------
(***************************************************************************)
(* How the daemon learns which processes use pipewire.  A child process    *)
(* (the "pipewire" subcommand, daemon/src/pw.rs and pipewire/src/lib.rs)   *)
(* watches the nodes of the pipewire graph and writes a line for each that *)
(* comes and goes; the monitor task of the daemon reads the lines, drops   *)
(* those that tell nothing new, and starts the child again when it dies.   *)
(*                                                                         *)
(* One user session is watched: one socket, one thread of the child.  The  *)
(* callbacks of the library run one at a time on that thread.  The loop of  *)
(* that thread is never told to quit: when the pipewire server restarts,   *)
(* the child keeps a connection that yields nothing any more, and counts   *)
(* the session as active, so it does not connect again while it lives.     *)
(***************************************************************************)
EXTENDS Integers, Sequences

CONSTANTS
  Pids,        \* the processes that may use pipewire
  Ids,         \* the ids the library gives to the nodes it has bound
  OneNodeEach, \* has a process at most one node at a time?
  Restarts,    \* may the pipewire server restart?
  MaxPipe,     \* bound: lines between the library's callbacks and the monitor
  MaxEvents    \* bound: events between the monitor and the main loop

NoPid == "no_pid"

ASSUME PipewireAssumption ==
  /\ NoPid \notin Pids
  /\ OneNodeEach \in BOOLEAN /\ Restarts \in BOOLEAN
  /\ MaxPipe \in Nat \ {0} /\ MaxEvents \in Nat \ {0}

Add(p)    == [method |-> "add", pid |-> p]
Remove(p) == [method |-> "rem", pid |-> p]
ProcessEvent == [method : {"add", "rem"}, pid : Pids]

VARIABLES
  graph,       \* the nodes of the pipewire graph: the process of each, if any
  up,          \* does the child process run?
  session,     \* its connection to the server: "none", "open", or "stale"
  listening,   \* the nodes it holds listeners for
  remove_ids,  \* those that are gone, their listeners not yet dropped
  reported,    \* the process it wrote an "add" line for, by node
  pipe,        \* the lines on their way
  managed,     \* the processes the monitor has passed on
  events,      \* the events in the channel to the main loop
  used,        \* the processes the main loop was told of
  missed       \* history: those whose last node went without a line that was read

childVars == <<up, session, listening, remove_ids, reported>>
vars == <<graph, childVars, pipe, managed, events, used, missed>>

TypeOK ==
  /\ graph \in [Ids -> Pids \cup {NoPid}]
  /\ up \in BOOLEAN /\ session \in {"none", "open", "stale"}
  /\ listening \subseteq Ids /\ remove_ids \subseteq listening
  /\ reported \in [Ids -> Pids \cup {NoPid}]
  /\ pipe \in Seq(ProcessEvent) /\ Len(pipe) <= MaxPipe
  /\ managed \subseteq Pids
  /\ events \in Seq(ProcessEvent) /\ Len(events) <= MaxEvents
  /\ used \subseteq Pids
  /\ missed \subseteq Pids

NoNodes == [i \in Ids |-> NoPid]

Init ==
  /\ graph = NoNodes
  /\ up = FALSE /\ session = "none" /\ listening = {} /\ remove_ids = {} /\ reported = NoNodes
  /\ pipe = <<>> /\ managed = {} /\ events = <<>> /\ used = {} /\ missed = {}

-----------------------------------------------------------------------------
(* The pipewire graph, as the library of the child sees it *)

\* The id of a node is free again once the listeners of the last one are gone.
NodeAppears(i, p) ==
  /\ graph[i] = NoPid
  /\ i \notin listening
  /\ OneNodeEach => \A j \in Ids : graph[j] # p
  /\ graph' = [graph EXCEPT ![i] = p]
  /\ listening' = IF session = "open" THEN listening \cup {i} ELSE listening
  /\ UNCHANGED <<up, session, remove_ids, reported, pipe, managed, events, used, missed>>

\* NodeEvent::Info, the first one of a node: which process it belongs to.
NodeInfo(i) ==
  /\ i \in listening
  /\ graph[i] # NoPid /\ reported[i] = NoPid
  /\ Len(pipe) < MaxPipe
  /\ reported' = [reported EXCEPT ![i] = graph[i]]
  /\ pipe' = Append(pipe, Add(graph[i]))
  /\ missed' = missed \ {graph[i]}
  /\ UNCHANGED <<graph, up, session, listening, remove_ids, managed, events, used>>

\* Seeded fault: the node is looked up where the code removes it.
NodeVanishesKept(i) ==
  /\ graph[i] # NoPid
  /\ graph' = [graph EXCEPT ![i] = NoPid]
  /\ remove_ids' = IF i \in listening THEN remove_ids \cup {i} ELSE remove_ids
  /\ IF reported[i] = NoPid THEN missed' = missed \cup {graph[i]} /\ UNCHANGED pipe
     ELSE Len(pipe) < MaxPipe /\ pipe' = Append(pipe, Remove(reported[i])) /\ UNCHANGED missed
  /\ UNCHANGED <<up, session, listening, reported, managed, events, used>>

\* Seeded fault: the node is forgotten, and no line is written.
NodeVanishesSilently(i) ==
  /\ graph[i] # NoPid
  /\ graph' = [graph EXCEPT ![i] = NoPid]
  /\ remove_ids' = IF i \in listening THEN remove_ids \cup {i} ELSE remove_ids
  /\ reported' = [reported EXCEPT ![i] = NoPid]
  /\ missed' = IF reported[i] = NoPid THEN missed \cup {graph[i]} ELSE missed
  /\ UNCHANGED <<up, session, listening, pipe, managed, events, used>>

\* NodeEvent::Remove; nobody hears of a node that goes while no session is open,
\* and nothing is written for one whose process the child has not learnt yet.
NodeVanishes(i) ==
  /\ graph[i] # NoPid
  /\ graph' = [graph EXCEPT ![i] = NoPid]
  /\ remove_ids' = IF i \in listening THEN remove_ids \cup {i} ELSE remove_ids
  /\ IF reported[i] = NoPid
     THEN missed' = missed \cup {graph[i]} /\ UNCHANGED <<reported, pipe>>
     ELSE /\ Len(pipe) < MaxPipe
          /\ reported' = [reported EXCEPT ![i] = NoPid]
          /\ pipe' = Append(pipe, Remove(reported[i]))
          /\ UNCHANGED missed
  /\ UNCHANGED <<up, session, listening, managed, events, used>>

\* Seeded fault: the list is read where the code drains it.
CollectAgain ==
  /\ remove_ids # {}
  /\ listening' = listening \ remove_ids
  /\ UNCHANGED <<graph, up, session, remove_ids, reported, pipe, managed, events, used, missed>>

\* The timer of the library drops the listeners of the nodes that are gone.
CollectListeners ==
  /\ remove_ids # {}
  /\ listening' = listening \ remove_ids
  /\ remove_ids' = {}
  /\ UNCHANGED <<graph, up, session, reported, pipe, managed, events, used, missed>>

\* The server goes and comes back without a node; nothing is reported of it.
ServerRestarts ==
  /\ Restarts
  /\ session # "stale"
  /\ graph' = NoNodes
  /\ session' = IF session = "open" THEN "stale" ELSE "none"
  /\ listening' = {} /\ remove_ids' = {} /\ reported' = NoNodes
  /\ missed' = missed \cup {graph[i] : i \in {j \in Ids : graph[j] # NoPid}}
  /\ UNCHANGED <<up, pipe, managed, events, used>>

-----------------------------------------------------------------------------
(* The child process and its monitor *)

\* What the child had not written yet is lost.
Crash ==
  /\ up
  /\ up' = FALSE /\ session' = "none"
  /\ listening' = {} /\ remove_ids' = {} /\ reported' = NoNodes
  /\ \E n \in 0..Len(pipe) :
       LET lost == SubSeq(pipe, n + 1, Len(pipe))
       IN /\ pipe' = SubSeq(pipe, 1, n)
          /\ missed' = missed \cup {lost[i].pid : i \in DOMAIN lost}
  /\ UNCHANGED <<graph, managed, events, used>>

\* Seeded fault: the monitor starts each child with an empty list.
RestartAnew ==
  /\ ~ up /\ pipe = <<>>
  /\ up' = TRUE
  /\ managed' = {}
  /\ UNCHANGED <<graph, session, listening, remove_ids, reported, pipe, events, used, missed>>

\* The monitor has read all lines and starts the child.
Restart ==
  /\ ~ up /\ pipe = <<>>
  /\ up' = TRUE
  /\ UNCHANGED <<graph, session, listening, remove_ids, reported, pipe, managed, events, used, missed>>

\* Seeded fault: only nodes that appear from now on are bound.
ConnectLate ==
  /\ up /\ session = "none"
  /\ session' = "open"
  /\ UNCHANGED <<graph, up, listening, remove_ids, reported, pipe, managed, events, used, missed>>

\* The scan of /run/user finds the socket of a session that is not active; the
\* server then tells of every node there is.
Connect ==
  /\ up /\ session = "none"
  /\ session' = "open"
  /\ listening' = {i \in Ids : graph[i] # NoPid}
  /\ UNCHANGED <<graph, up, remove_ids, reported, pipe, managed, events, used, missed>>

Update(e) == managed' = IF e.method = "add" THEN managed \cup {e.pid} ELSE managed \ {e.pid}

\* A line that changes nothing in the list is not passed on.
ReadLine ==
  /\ pipe # <<>>
  /\ pipe' = Tail(pipe)
  /\ LET e == Head(pipe) IN
       IF (e.method = "add") = (e.pid \in managed)
       THEN UNCHANGED <<managed, events>>
       ELSE /\ Len(events) < MaxEvents
            /\ Update(e)
            /\ events' = Append(events, e)
  /\ UNCHANGED <<graph, childVars, used, missed>>

\* The main loop calls set_pipewire_process or remove_pipewire_process.
Handle ==
  /\ events # <<>>
  /\ events' = Tail(events)
  /\ LET e == Head(events) IN
       used' = IF e.method = "add" THEN used \cup {e.pid} ELSE used \ {e.pid}
  /\ UNCHANGED <<graph, childVars, pipe, managed, missed>>

Next ==
  \/ \E i \in Ids : NodeInfo(i) \/ NodeVanishes(i) \/ \E p \in Pids : NodeAppears(i, p)
  \/ ServerRestarts
  \/ CollectListeners \/ Crash \/ Restart \/ Connect \/ ReadLine \/ Handle

\* The monitor sleeps three seconds and starts the child, which looks for sockets
\* every minute; both tasks are polled; and the library, on a thread that blocks
\* while the pipe is full, takes the messages of the server in order.
Fairness ==
  /\ WF_vars(Restart) /\ WF_vars(Connect)
  /\ WF_vars(ReadLine) /\ WF_vars(Handle)
  /\ \A i \in Ids : SF_vars(NodeInfo(i))

Spec == Init /\ [][Next]_vars
FairSpec == Spec /\ Fairness

-----------------------------------------------------------------------------
(* Properties *)

\* The main loop hears of a process as started and as stopped in turns, however
\* often the child dies and repeats itself or loses the server (monitor,
\* daemon/src/pw.rs).
Feed == INSTANCE ProcessFeed WITH believed <- managed, pending <- events

FeedInTurns == Feed!Spec

\* The child is connected, and everything it saw has been handled.
Quiet ==
  /\ session = "open" /\ reported = graph
  /\ pipe = <<>> /\ events = <<>>

Users == {graph[i] : i \in Ids} \ {NoPid}

\* When the dust has settled, the main loop knows every process that uses
\* pipewire, whatever was lost when the child died or the server restarted.
UsersKnown == Quiet => Users \subseteq used

\* Nor does it hold anything else to use pipewire, but for what went while nobody
\* was looking.
NoGhosts == Quiet => used \subseteq Users \cup missed

\* And the dust settles: as long as the connection lasts, a process that keeps
\* using pipewire is known in the end, and one that does not is not, however
\* busy the others keep the lines (blocking_send in processes_from_socket).
Watched(p, using) == session = "open" /\ (p \in Users) = using

FeedSettles ==
  \A p \in Pids :
    /\ <>[]Watched(p, TRUE) => <>[](p \in used)
    /\ <>[](Watched(p, FALSE) /\ p \notin missed) => <>[](p \notin used)
=============================================================================
