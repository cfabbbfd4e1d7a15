SPECIFICATION PanelSpec
CONSTANTS
  None = None
  g1 = g1
  g2 = g2
  Hooks <- MCHooks
  Slots <- MCSlots
  Queries <- MCQueries
  Public <- MCPublic
  Filters <- MCFilters
  GroupsAt <- MCGroupsAt
  PagesAt <- MCPagesAt
  MaxFlight = 2
  MaxLeft = 1
  MaxNow = 1
  MaxPress = 2
INVARIANTS
  PanelTypeOK
  OneLiveCall
  ShownAnswersQuestion
  PageExists
  SettledActionOfGroup
  ResultOfLastPress
  ShownHasMyWrites
  SavedMeansWhole
PROPERTIES
  HooksAsSpecified
  LatestSpec
  EndsAtLogin
CHECK_DEADLOCK FALSE
