CONSTANTS
  a = a
  b = b
  Names = {a, b, Stray}
  Texts = {"x", "y", "z", "n", ""}
  Minuses = {"-- x"}
  Pluses = {"++ n"}
  Blank = ""
  Stray = Stray
  Absent = Absent
  DevNull = DevNull
  HeaderText = HeaderText
  Reach = 2
  Bases <- MCBases
  Ends <- MCEnds
  Plans <- MCPlans
SPECIFICATION Spec
INVARIANTS TypeOK LinesAccountedFor ChangedWhereItStands NoUnsaidChange UnderstoodDiffApplies
PROPERTIES PatchReturns
CHECK_DEADLOCK FALSE
