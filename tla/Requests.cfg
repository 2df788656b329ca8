SPECIFICATION Spec
CONSTANT MaxGeneration = 4
INVARIANTS TypeOK NoWedge RefreshReports ToneVisible
PROPERTIES CancelStays PlayServed
