SPECIFICATION TimedSpec
CONSTANTS
  MaxPid = 4
  Names <- MCNames
  Cgroups <- MCCgroups
  Profiles <- MCProfiles
  Boot <- MCSession
  PidReuse = FALSE
  MaxExecs = 1
  Mortal = {2}
  Execs <- MCExecs
  Moves <- MCMoves
  Configs <- PlainOnly
  GcLimit = 1
  ForegroundPids = {}
  PipewirePids = {}
INVARIANTS TimerTypeOK PidMapSound AncestryEnds ParentLinkAgrees
PROPERTIES SweepTruthful QuietSweepIsOneStep DeadLeave SurvivorsRecorded
