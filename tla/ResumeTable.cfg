SPECIFICATION Spec
CONSTANTS
  Keys = {e1, e2, e3}
  Positions = {p1}
  Cap = 2
  MaxSeq = 4
  Missing = Missing
  OldFormat = OldFormat
  Leftovers <- MCLeftovers
SYMMETRY Alike
INVARIANTS TypeOK
PROPERTIES BootFindsLastSave ImplementsLru
