SPECIFICATION MCSpec

CONSTANTS
  c1 = c1
  c2 = c2
  c3 = c3
  n1 = n1
  n2 = n2
  Clients <- MCClients
  Names <- MCNames
  Files <- MCFiles
  FileOf <- MCFileOf
  MaxPaths = 2
  FillingMayFail = TRUE
  WorkersMayBeKilled = TRUE
  Ids = {s1, s2}
  Writers = {w1, w2}
  NoId = NoId
  MaxEvents = 3
  MaxCrashes = 1
  MaxDreams = 2
  MaxDrafts = 2
  MaxTurns = 2
  Tasks = {t1}
  Outcomes = {"accepted", "failed"}
  MaxQuestions = 2
  MaxLoads = 2
  Installers = {i1, i2}
  Skills = {"a", "b", "c"}
  NameOf <- TwoOfAName
  TitleOf <- TwoOfATitle
  MaxFiles = 3
  MaxInstalls = 2
  CopiesMayFail = TRUE

INVARIANT WritersExclude
INVARIANT SessionsStayListed
 
INVARIANT DreamsAreAtomic
 
 
PROPERTY ImplementsTable

CHECK_DEADLOCK FALSE
