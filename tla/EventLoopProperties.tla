------------------------ MODULE EventLoopProperties ------------------------
(***************************************************************************)
(* What the daemon owes its D-Bus clients and the machine: the last        *)
(* request is the one in force, and neither calls nor sweeps are held up.  *)
(***************************************************************************)
EXTENDS EventLoop

\* Everything that was sent has been handled.
Quiet ==
  /\ queue = <<>> /\ handling = NoEvent /\ ~ battery_changed
  /\ \A s \in Senders : outbox[s] = NoEvent

\* The requests on the way to the main loop: those in the channel, then that of
\* the call that holds the interface and waits for a place in it.
IsRequest(e) == e.type = "SetForegroundProcess"

RequestsIn(q) ==
  LET named[n \in 0..Len(q)] ==
        IF n = 0 THEN <<>>
        ELSE IF IsRequest(q[n]) THEN named[n - 1] \o <<q[n].arg>> ELSE named[n - 1]
  IN named[Len(q)]

RequestHeld == writer \in Clients /\ IsRequest(outbox[writer])

RequestsSent == RequestsIn(queue) \o (IF RequestHeld THEN <<outbox[writer].arg>> ELSE <<>>)

Requests ==
  INSTANCE ForegroundRequests
    WITH NoOne <- "", asked <- asked.foreground, pending <- RequestsSent, current <- served

\* However the calls of several clients interleave with full channels and slow
\* handlers, the process scheduler is given the pids that calls have named, in
\* the order in which the calls got the interface, none lost and none made up
\* (Server::set_foreground_process and the arm SetForegroundProcess).
ForegroundInOrder == Requests!Spec

\* In the end the CPU profile in force is the one asked for last, and in
\* automatic mode the one for the power the machine runs on, although the main
\* loop reads mode and profile only when it gets to an event, and stale battery
\* events may still come (the arms OnBattery, SetCpuMode and SetCustomCpuMode).
CpuProfileInForce ==
  Quiet /\ config.enable =>
    /\ asked.cpu = "auto" => applied = OnBatteryProfile(on_battery)
    /\ asked.cpu \in {"default", "responsive"} \cup (config.profiles \cap Custom)
         => applied = asked.cpu

\* Every D-Bus call returns (the Server methods await a bounded channel).
CallsReturn == \A c \in Clients : call[c] # NoCall ~> call[c] = NoCall

\* README.md:3: processes are regularly swept.  The interval, and the other
\* tasks that feed process events, are served again and again.  It holds where
\* nothing makes the main loop wait for the interface, and only there: a call
\* that waits for the channel keeps the interface locked, and the main loop that
\* would drain the channel waits for the lock.
SweepsContinue ==
  \A f \in Feeders : []<><<HandleProcesses /\ Head(queue).type = f>>_queue
=============================================================================
