------------------------- MODULE MCPipewireMonitor -------------------------
(***************************************************************************)
(* Small instances of the pipewire monitor, and what comments in the code  *)
(* say of it that it does not do.                                          *)
(***************************************************************************)
EXTENDS PipewireMonitor

MCPids == {"player", "call"}

\* pw.rs:102: a crash of the child loses no data.  A process that stops using
\* pipewire before the next child runs is never removed.
NothingLostInCrash == Quiet => used \subseteq Users

\* pw.rs:41: the processes connected to pipewire are monitored.  One with two
\* nodes is removed together with the first of them.
ConnectedAreMonitored == UsersKnown
=============================================================================
