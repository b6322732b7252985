SPECIFICATION BarSpec
CONSTANTS
  Ids = {1, 2, 3, 4}
  BarSize = 2
  MaxPages = 3
  MaxChanges = 2
  MaxEvents = 1
  MaxFaults = 1
PROPERTIES MoreContinues SidebarCatchesUp
