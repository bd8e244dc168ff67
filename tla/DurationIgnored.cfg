SPECIFICATION Spec
CONSTANTS
  MaxTime = 3
  MaxEnd = 4
  MaxKills = 0
  MaxHits = 0
  MaxDeaths = 0
  DefaultConfig <- MCDefault
  FirstConfig <- MCTimeConfig
  ConfigMessages <- MCClockMessages
  Extensions = {}
  Targets = {}
INVARIANT RoundGetsConfiguredTime
