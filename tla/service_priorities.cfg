SPECIFICATION Spec
CONSTANTS
  MaxPid = 3
  Names <- MCNames
  Cgroups <- MCCgroups
  Profiles <- MCProfiles
  Boot <- MCBoot
  PidReuse = FALSE
  MaxExecs = 1
  Mortal = {2}
  Execs <- MCExecs
  Moves <- IntoSession
  Configs <- StartedOnly
  GcLimit = 1
  ForegroundPids = {2}
  PipewirePids = {2, 3}
INVARIANTS PriorityInForce PipewireMarksOwned
PROPERTIES ExceptionsUntouched
