SPECIFICATION PanelSpec
CONSTANTS
  None = None
  g1 = g1
  g2 = g2
  Hooks <- MCHooks
  Slots <- MCSlots
  Queries <- MCQueries
  Public <- MCPublic
  Filters <- MCFilters
  GroupsAt <- MCGroupsAt
  PagesAt <- MCPagesAt
  MaxFlight = 2
  MaxLeft = 1
  MaxNow = 1
  MaxPress = 2
INVARIANT
  ActionOfGroup
CHECK_DEADLOCK FALSE
