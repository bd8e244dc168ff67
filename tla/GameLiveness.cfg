SPECIFICATION FairSpec
CONSTANTS
  MaxTime = 2
  MaxEnd = 4
  MaxKills = 0
  MaxHits = 0
  MaxDeaths = 1
  DefaultConfig <- MCDefault
  FirstConfig <- MCTimeConfig
  ConfigMessages <- MCLivenessMessages
  Extensions = {}
  Targets = {}
PROPERTIES RoundEnds RespawnCompletes
