SPECIFICATION OtelSpec
CONSTANTS
  Goroutines = {g1}
  LabelSets = {k1}
  Amounts = {1}
PROPERTIES SetReturns
