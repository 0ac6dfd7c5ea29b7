CONSTANTS
  Keys = {1, 2, 3}
SPECIFICATION Spec
INVARIANTS CountsExact StallsTold
PROPERTIES KeepsOrder LosesNoWork
