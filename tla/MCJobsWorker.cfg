SPECIFICATION Spec
CONSTANTS
  NoJob = NoJob
  Jobs = {j1, j2}
  Workers = {w1}
  MaxActive = 2
  Capacity = 3
  MaxAge = 1
  Retention = 0
  MaxOps = 2
  Outcome = {"warning", "failed"}
INVARIANTS VerdictMatchesResults
PROPERTIES EveryJobEnds QueueDrains ResultsMonotonic ErrorGathersNothing
