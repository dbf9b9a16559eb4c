CONSTANTS
  t1 = t1
  p1 = p1
  f1 = f1
  f2 = f2
  v1 = v1
  g1 = g1
  g2 = g2
  a1 = a1
  d1 = d1
  Texts = {t1}
  Photos = {p1}
  GroupPhotos = {g1}
  Forwards = {f1}
  AlbumForwards = {a1}
  Voices = {v1}
  Documents = {d1}
  NoMsg = NoMsg
  MaxPhotos = 1
  MaxItems = 1
  QueueDepth = 1
  VoiceConfirm = TRUE
  Faults = {"invalid", "blocked", "telegram", "late", "download", "mute", "setup"}
  MaxMessages = 3
  MaxCommands = 1
SPECIFICATION FairSpec
INVARIANTS WaitingIsArmed SubmittedOnce
PROPERTIES ClearedIsNotSent NothingStaysPending
CHECK_DEADLOCK FALSE
