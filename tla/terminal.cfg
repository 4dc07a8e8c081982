SPECIFICATION MCSpec
CONSTANTS
  Owners = {x1, x2}
  Workers = {y1, y2}
  Tasks = {x1, x2}
  Texts = {y1, y2}
  Files = {f1, f2}
  Configs = {"these", "those", "bad"}
  Unbuildable = {"bad"}
  Given = "these"
  Rules = {"rule"}
  Idents = {11, 12}
  MaxAsks = 2
  MaxTurns = 2
  MaxCommands = 1
  MaxSessions = 4
  Existing = {f1}
  Nobody = Nobody
  MaxCalls = 2
  MaxPaths = 2
  Kept = 1
  MayCrash = TRUE
  MaxMessages = 2
  MaxWrites = 5
SYMMETRY Alike
INVARIANTS
  PromotedTurnReports
  
  MessageIsKept
  
  SettingsAgree
  RewindUndoesTheTurn
  LeaseKeepsWhatWasRead
  OpenQuestionIsAnnounced
  NothingIsOverwritten
CHECK_DEADLOCK FALSE
