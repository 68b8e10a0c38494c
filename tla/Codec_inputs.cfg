CONSTANTS
  Order = 101
  Base = 7
  ValueLen = 2
  Times = {1, 2}
  Lens = {0, 1, 3}
  ListLens = {0, 1, 255, 256}
  LicenseTypes = {0, 2}
SPECIFICATION CodecSpec
INVARIANTS CommandsReadBack PacketsReadBack LicensesSound KeysAgree
CHECK_DEADLOCK FALSE
