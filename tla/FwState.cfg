SPECIFICATION Spec
CONSTANTS
  Stas = {a, b}
  NFlows = 2
  NEntries = 2
  None = None
  Parts = {"twt", "rdd"}
INVARIANTS
  TableMatchesFlows
  FirmwareKnows
  ReportedVifIsThere
SYMMETRY Symmetry
