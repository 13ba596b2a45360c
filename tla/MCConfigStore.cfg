SPECIFICATION Spec
CONSTANTS
  Agents = {a, b}
  Panels = {"p"}
  Processes = {x, y}
  MaxQuorum = 3
  None = None
SYMMETRY Symmetry
INVARIANTS
  FileValid
  ForceRemovalWorks
PROPERTIES
  NoLostUpdate
