SPECIFICATION Spec
CONSTANTS
  k1 = k1
  k2 = k2
  v1 = v1
  v2 = v2
  healer = healer
  Keys = {k1}
  MaxSessions = 2
  Views <- MCOneView
  Ponging = {}
  Loop = loop
  Healers = {healer}
  HealKey = k1
  MaxOut = 0
  ChunkSize <- MCChunkSize
  RingMax = 1
  Grace = 0
  KillMayFail = FALSE
  ReadMayFail = TRUE
  Reaper = reaper
  Exit = exit
  None = none
INVARIANTS NoOrphanShell ExitFrameHonest ToldOnce
