SPECIFICATION Spec
CONSTANTS
  MaxTime = 3
  MaxEnd = 4
  MaxKills = 1
  MaxHits = 1
  MaxDeaths = 0
  DefaultConfig <- MCDefault
  FirstConfig <- MCTimeConfig
  ConfigMessages <- MCClockMessages
  Extensions = {1}
  Targets = {1}
INVARIANT TimeBudget
PROPERTIES GameEndsOnlyWhenDue ImplementsMatchRound
