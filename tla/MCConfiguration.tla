--------------------------- MODULE MCConfiguration ---------------------------
(***************************************************************************)
(* Small documents: properties at and beyond the bounds of their values.   *)
(***************************************************************************)
EXTENDS ConfigurationDocumented

Number(n)   == {[ty |-> {}, word |-> {}, num |-> {n}]}
Word(w)     == {[ty |-> {}, word |-> {w}, num |-> {}]}
Typed(t, n) == {[ty |-> {t}, word |-> {}, num |-> {n}]}

\* nice=-100 sched=(fifo)0 io=(realtime)8, and nice=128 sched="rr" io="idle"
MCPropertySets == {
  [io |-> Typed("realtime", 8), nice |-> Number(-100), sched |-> Typed("fifo", 0)],
  [io |-> Word("idle"), nice |-> Number(128), sched |-> Word("rr")]}

\* nice=5, and io=(best-effort)2
NiceOrIo == {
  [io |-> {}, nice |-> Number(5), sched |-> {}],
  [io |-> Typed("best-effort", 2), nice |-> {}, sched |-> {}]}

MCProfileNames == {"foreground", "background", "pipewire"}
MCProcesses == {"steam"}

Any == [c \in {"cgroup", "descends", "name", "parent"} |-> {}]
MCConditions == {Any, [Any EXCEPT !["name"] = {"bitwig"}]}
NoConditions == {Any}
TwoConditions == {[Any EXCEPT !["name"] = {"bitwig"}], [Any EXCEPT !["descends"] = {"steam"}]}
MCRates == {-1, 0, 65536}
=============================================================================
