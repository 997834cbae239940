---------------------------- MODULE ProcessFeed ----------------------------
(***************************************************************************)
(* What the main loop may rely on in the reports of the pipewire monitor:  *)
(* of each process it hears that it started and that it stopped using      *)
(* pipewire, in turns, whatever becomes of the child process that watches. *)
(* Service::set_pipewire_process and remove_pipewire_process are written   *)
(* for such a feed (actions PipewireAdd and PipewireRemove of Service).    *)
(***************************************************************************)
EXTENDS Sequences

CONSTANT Pids        \* the processes that may use pipewire

VARIABLES
  believed,  \* the processes reported as started and not as stopped since
  pending,   \* the reports not handled yet, oldest first
  used       \* the processes the main loop takes to use pipewire

feedVars == <<believed, pending, used>>

Report(m, p) == [method |-> m, pid |-> p]

Init == believed = {} /\ pending = <<>> /\ used = {}

Start(p) ==
  /\ p \notin believed
  /\ believed' = believed \cup {p}
  /\ pending' = Append(pending, Report("add", p))
  /\ UNCHANGED used

Stop(p) ==
  /\ p \in believed
  /\ believed' = believed \ {p}
  /\ pending' = Append(pending, Report("rem", p))
  /\ UNCHANGED used

\* The next report always tells the main loop something new.
Deliver ==
  /\ pending # <<>>
  /\ pending' = Tail(pending)
  /\ \/ \E p \in Pids \ used : Head(pending) = Report("add", p) /\ used' = used \cup {p}
     \/ \E p \in Pids \cap used : Head(pending) = Report("rem", p) /\ used' = used \ {p}
  /\ UNCHANGED believed

Next == Deliver \/ \E p \in Pids : Start(p) \/ Stop(p)

Spec == Init /\ [][Next]_feedVars
=============================================================================
