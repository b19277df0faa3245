CONSTANTS
  a = a
  b = b
  Names = {a, b, Stray}
  Texts = {"x", "y", "z", "n", ""}
  Minuses = {"-- x"}
  Pluses = {"++ n"}
  Blank = ""
  Stray = Stray
  Absent = Absent
  DevNull = DevNull
  HeaderText = HeaderText
  Reach = 2
  Bases <- PlainBases
  Ends <- PlainEnds
  Plans <- MCPlans
SPECIFICATION Spec
INVARIANT StandardDiffApplies
CHECK_DEADLOCK FALSE
