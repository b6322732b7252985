SPECIFICATION Spec
CONSTANTS
  None = None
  Accounts = {a1, a2}
  Labels = {"home"}
  Values = {blank, work, night}
  Blank = blank
  Contacts = {c1, c2}
  DemoAccs = {1}
  DemoIds = {1, 2}
  First = 1
  BarSize = 1
  ChatSize = 1
  Backlogs = {1}
  MaxAccountWrites = 2
  MaxEdits = 3
  MaxSaves = 2
  MaxContactWrites = 1
  MaxLapses = 1
  MaxFaults = 1
  MaxDemoWrites = 3
  MaxPages = 2
  MaxDemoActs = 1
INVARIANTS
  ListIsServer FormIsSaved OpenIsServer
  PagesShowServer DotIsLatest AccountsShown
SYMMETRY Symmetry
CHECK_DEADLOCK FALSE
