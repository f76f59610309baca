CONSTANTS
  Container <- Containers
  Center <- Here
  Alias <- Aliases
  Net <- Networks
  MaxChanges = 1
SPECIFICATION Spec
INVARIANTS TypeOK NamesWereThere SteadyNamesFound OneGroupPerNetwork HeaderComplete
PROPERTY AskedUntilAnswered
