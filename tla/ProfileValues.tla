---------------------------- MODULE ProfileValues ----------------------------
(***************************************************************************)
(* The values of a scheduling profile: how the properties of a KDL node    *)
(* change them (config/src/parser/scheduler.rs), how they are held within  *)
(* bounds (config/src/scheduler/mod.rs) and what the kernel is asked for   *)
(* (daemon/src/priority.rs).                                               *)
(*                                                                         *)
(* An Option is a set of at most one element.  An entry `(ty)value` of a   *)
(* node is its annotation and its value, a string or an integer: what is   *)
(* neither is neither here.  A node has each property at most once.        *)
(***************************************************************************)
EXTENDS Integers

IoClass     == {"idle", "best-effort", "realtime"}
SchedPolicy == {"batch", "fifo", "idle", "other", "rr"}

Entry      == [ty : SUBSET STRING, word : SUBSET STRING, num : SUBSET Int]
Properties == [io : SUBSET Entry, nice : SUBSET Entry, sched : SUBSET Entry]

Profile == [nice : SUBSET Int, io : [class : IoClass, level : Int],
            sched_policy : SchedPolicy, sched_priority : Int]

The(option) == CHOOSE x \in option : TRUE

\* Profile::new
NewProfile == [nice |-> {}, io |-> [class |-> "best-effort", level |-> 7],
               sched_policy |-> "other", sched_priority |-> 1]

\* try_from: None when the integer does not fit.
as_i8(entry) == entry.num \cap (-128..127)
as_u8(entry) == entry.num \cap (0..255)

Clamp(low, high, n) == IF n > high THEN high ELSE IF n < low THEN low ELSE n

\* Seeded fault: the bounds are left out.
NicenessUnbounded(n) == n

Niceness(n) == Clamp(-20, 19, n)

SchedPriority(n) == Clamp(1, 99, n)

\* A level the class does not have is the lowest; so is one that is missing.
IoLevel(entry) ==
  LET level == as_u8(entry) \cap 0..7 IN IF level = {} THEN 7 ELSE The(level)

parse_io(profile, entry) ==
  LET class == (IF entry.ty # {} THEN entry.ty ELSE entry.word) \cap IoClass
  IN IF class = {} THEN profile
     ELSE [profile EXCEPT !.io =
            [class |-> The(class),
             level |-> IF "idle" \in class THEN 7 ELSE IoLevel(entry)]]

parse_nice(profile, entry) ==
  IF as_i8(entry) = {} THEN profile
  ELSE [profile EXCEPT !.nice = {Niceness(The(as_i8(entry)))}]

\* Without an annotation the priority stays what it was.
parse_sched(profile, entry) ==
  IF entry.ty # {}
  THEN IF entry.ty \cap SchedPolicy = {} \/ as_u8(entry) = {} THEN profile
       ELSE [profile EXCEPT !.sched_policy = The(entry.ty \cap SchedPolicy),
                            !.sched_priority = SchedPriority(The(as_u8(entry)))]
  ELSE IF entry.word \cap SchedPolicy = {} THEN profile
       ELSE [profile EXCEPT !.sched_policy = The(entry.word \cap SchedPolicy)]

\* Profile::parse; each property touches fields of its own, in any order.
parse(profile, properties) ==
  LET io   == IF properties.io = {} THEN profile ELSE parse_io(profile, The(properties.io))
      nice == IF properties.nice = {} THEN io ELSE parse_nice(io, The(properties.nice))
  IN IF properties.sched = {} THEN nice ELSE parse_sched(nice, The(properties.sched))

\* What priority::set_policy passes to sched_setscheduler beside the policy.
SchedParam(profile) ==
  IF profile.sched_policy \in {"fifo", "rr"} THEN profile.sched_priority ELSE 0

\* What setpriority, sched_setscheduler and ioprio_set do not refuse.
KernelTakes(profile) ==
  /\ profile.nice \subseteq -20..19
  /\ IF profile.sched_policy \in {"fifo", "rr"} THEN SchedParam(profile) \in 1..99
     ELSE SchedParam(profile) = 0
  /\ profile.io.level \in 0..7
=============================================================================
