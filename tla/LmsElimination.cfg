SPECIFICATION Spec
CONSTANTS
  MaxTime = 3
  MaxEnd = 4
  MaxKills = 0
  MaxHits = 0
  MaxDeaths = 2
  DefaultConfig <- MCDefault
  FirstConfig <- MCElimination
  ConfigMessages = {}
  Extensions = {}
  Targets = {}
PROPERTY EliminationIsFinal
