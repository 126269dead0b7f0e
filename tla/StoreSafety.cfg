SPECIFICATION Spec
CONSTANTS
  w1 = w1
  w2 = w2
  Null = Null
  Writers <- TwoWriters
  Values <- Rounded
  Missing = {"missing_input"}
  Dates = {1, 2}
  Scale = 2
  Tolerance = 2
  MaxVersion = 2
  MaxChanges = 2
  Financial = TRUE
  BackDating = FALSE
  Faults = {"crash", "shadow"}
SYMMETRY Symmetry
INVARIANTS TypeOK ServedIsCurrent OverwrittenIsShadowed
PROPERTY RerunSkips
