SPECIFICATION Spec
CONSTANTS
  MaxTime = 2
  MaxEnd = 4
  MaxKills = 0
  MaxHits = 1
  MaxDeaths = 2
  DefaultConfig <- MCDefault
  FirstConfig <- MCElimination
  ConfigMessages <- MCLifeMessages
  Extensions = {}
  Targets = {}
INVARIANTS TypeOK OneDeathPerLife
PROPERTY LimboIsConfigured
