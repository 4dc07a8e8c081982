SPECIFICATION MCSpec
CONSTANTS
  Owners = {x1, x2}
  Workers = {y1, y2}
  Tasks = {x1, x2}
  Texts = {y1, y2}
  Files = {f1, f2}
  Configs = {"these", "those", "bad"}
  Unbuildable = {"bad"}
  Given = "these"
  Rules = {"rule"}
  Idents = {11}
  MaxAsks = 0
  MaxTurns = 0
  MaxCommands = 0
  MaxSessions = 1
  Existing = {f1}
  Nobody = Nobody
  MaxCalls = 1
  MaxPaths = 1
  Kept = 2
  MayCrash = FALSE
  MaxMessages = 0
  MaxWrites = 0
SYMMETRY Alike
INVARIANT EditsAreBackedUp
CHECK_DEADLOCK FALSE
