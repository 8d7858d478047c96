SPECIFICATION Spec
CONSTANTS
  Script <- TaxRules
  Bases <- MCBases
  Spent = {0, 150000}
  Salaries <- MCSalaries
  Ids = {1}
  Slots = {1}
  Seeders = {1}
  None = None
INVARIANTS
  SeededIsExact
  NeverOvercharged
