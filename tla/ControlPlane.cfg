SPECIFICATION Spec
CONSTANTS
  JobChanges = {j1, j2}
  OtherChanges = {o1}
  Readers = {r1, r2}
  Shas = {a, b, c}
  Keys = {k1, k2}
  Calls = {h1, h2}
  Rollbacks = {b1}
  MaxEntries = 2
  Users = {u1, u2}
  Owners = {u1}
  Challenges = {x1, x2}
  Sessions = {s1}
  AccessCalls = {q1, q2}
  Limit = 2
  Window = 2
  MaxTurns = 2
  MinAudio = 2
  SessionLimit = 4
  MaxInFlight = 3
  MaxVoiceFaults = 1
INVARIANTS DashboardShowsAnswered DeploymentInv AccessInv VoiceInv
PROPERTIES RefusalEnds RequestsAreAnswered
CHECK_DEADLOCK FALSE
