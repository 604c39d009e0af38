SPECIFICATION FairSpec
CONSTANTS
  k1 = k1
  k2 = k2
  v1 = v1
  v2 = v2
  healer = healer
  Keys = {k1}
  MaxSessions = 1
  Views <- MCViews
  Ponging = {}
  Loop = loop
  Healers = {}
  HealKey = k1
  MaxOut = 0
  ChunkSize <- MCChunkSize
  RingMax = 1
  Grace = 1
  KillMayFail = TRUE
  ReadMayFail = TRUE
  Reaper = reaper
  Exit = exit
  None = none
PROPERTIES ViewOfDeadShellEnds DeadSessionReclaimed
