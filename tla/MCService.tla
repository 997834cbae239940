----------------------------- MODULE MCService -----------------------------
(***************************************************************************)
(* Small instances of the process scheduler: "init" (1) and a process of   *)
(* the session (2) at boot, which forks up to pid MaxPid.                  *)
(***************************************************************************)
EXTENDS ServiceProperties

MCNames    == {"init", "app", "tool"}
MCCgroups  == {"system", "session"}
MCProfiles == {"games"}

MCBoot == [p \in {1, 2} |->
             IF p = 1 THEN [ppid |-> 0, exe |-> "init", cgroup |-> "system"]
             ELSE [ppid |-> 1, exe |-> "app", cgroup |-> "session"]]

\* The process of the session has a child already.
MCSession == [p \in {1, 2, 3} |->
                IF p = 3 THEN [ppid |-> 2, exe |-> "app", cgroup |-> "session"] ELSE MCBoot[p]]

MCExecs == {<<3, "tool">>}
MCMoves == {<<4, "system">>}
\* The service manager takes a child of init into the session.
IntoSession == {<<3, "session">>}
NoMoves == {}

Anything == [descends |-> {}, cgroup |-> {}, name |-> {}, parent |-> {}]

\* Foreground and pipewire profiles, one process by name, nothing else.
Plain == [exceptions |-> {"init"}, exceptions_conditions |-> {},
          profile_by_name |-> [n \in {} |-> "games"], conditions |-> <<>>,
          foreground |-> TRUE, pipewire |-> TRUE]

\* What runs in the session cgroup below "app" but is not called "app" is a game.
Games == [Plain EXCEPT !.conditions =
  << [profile |-> "games",
      include |-> {[Anything EXCEPT !.cgroup = {{"session"}}, !.descends = {{"app"}}]},
      exclude |-> {[Anything EXCEPT !.name = {{"app"}}]}] >>]

\* What init has started is excepted as well: a process that is recorded before
\* init is, and so before its parent is known, escapes that until it is renamed.
Started == [Games EXCEPT
  !.exceptions_conditions = {[Anything EXCEPT !.parent = {{"init"}}]}]

NoExecs == {}
PlainOnly   == {Plain}
StartedOnly == {Started}
=============================================================================
