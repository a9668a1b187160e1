SPECIFICATION FairSpec
CONSTANTS
  NumChannels = 3
  Tick = 5
  Conversion = 4
  MaxHold = 6
INVARIANTS SamplerTypeOK OwnChannel BrokenNotLogged GoodRoundsLogged
PROPERTY RoundsEnd
