CONSTANTS
  None = None
  Fits <- MCFits
  Starts <- MCStarts
  NewId = {1, 2}
  Proc = {p1, p2}
  Checkout = {plugin, fork}
  Plugins = {plugin}
  de = de
  Language = {de}
  Configured <- MCConfigured
  Unset = Unset
  MaxEdits = 1
  MaxCommands = 2
  MaxCalls = 2
  topics = {"panels", "hooks"}
SPECIFICATION Spec
INVARIANTS StaysLoadable EditsNamedSeat DesignMovesAloud RelayThere SettingsAreTheUsers
CHECK_DEADLOCK FALSE
SYMMETRY Symm
