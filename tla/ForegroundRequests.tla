------------------------- MODULE ForegroundRequests -------------------------
(***************************************************************************)
(* What D-Bus clients may rely on when they name the foreground process:   *)
(* requests are served one by one, in the order in which the calls got     *)
(* hold of the interface, however full the channel and slow the main loop. *)
(***************************************************************************)
EXTENDS Sequences

CONSTANTS
  Pids,     \* the pids a client may name
  NoOne     \* what stands for no foreground process

VARIABLES
  asked,    \* the pid the last call named
  pending,  \* the pids named and not served yet, oldest first
  current   \* the pid the scheduler was given last, to make it the foreground

requestVars == <<asked, pending, current>>

Init == asked = NoOne /\ pending = <<>> /\ current = NoOne

Ask(p) ==
  /\ asked' = p
  /\ pending' = Append(pending, p)
  /\ UNCHANGED current

Serve ==
  /\ pending # <<>>
  /\ current' = Head(pending)
  /\ pending' = Tail(pending)
  /\ UNCHANGED asked

Next == Serve \/ \E p \in Pids : Ask(p)

Spec == Init /\ [][Next]_requestVars
=============================================================================
