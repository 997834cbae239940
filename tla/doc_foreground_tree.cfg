SPECIFICATION TimedSpec
CONSTANTS
  MaxPid = 3
  Names <- MCNames
  Cgroups <- MCCgroups
  Profiles <- MCProfiles
  Boot <- MCBoot
  PidReuse = FALSE
  MaxExecs = 0
  Mortal = {2}
  Execs <- NoExecs
  Moves <- NoMoves
  Configs <- PlainOnly
  GcLimit = 1
  ForegroundPids = {3}
  PipewirePids = {}
PROPERTIES ForegroundTreePrioritised
