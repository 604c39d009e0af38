SPECIFICATION Spec
CONSTANTS
  k1 = k1
  k2 = k2
  v1 = v1
  v2 = v2
  healer = healer
  Keys = {k1}
  MaxSessions = 1
  Views <- MCViews
  Ponging = {v1, v2}
  Loop = loop
  Healers = {}
  HealKey = k1
  MaxOut = 2
  ChunkSize <- MCChunkSize
  RingMax = 1
  Grace = 0
  KillMayFail = FALSE
  ReadMayFail = FALSE
  Reaper = reaper
  Exit = exit
  None = none
SYMMETRY ViewSymmetry
INVARIANTS StreamUnbroken RingIsRecent
PROPERTIES KeepsPromise OnlyOwnDetach
