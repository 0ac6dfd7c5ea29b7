CONSTANTS
  Channels = {0, 1, 2, 3}
SPECIFICATION Spec
INVARIANTS RulesAcyclic TablesExact
PROPERTIES ErrorNamesACycle
