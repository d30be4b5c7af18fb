CONSTANTS
  k1 = k1
  k2 = k2
  w1 = w1
  w2 = w2
  i1 = i1
  i2 = i2
  i3 = i3
  Channels <- GateChannels
  Watched = {k1}
  Checks <- Actors
  Callers <- Actors
  NoData <- Clean
  Texts = {25, 30, 90}
  MaxSpam = 3
  Ids <- ThreeIds
  Makers <- Actors
  Interval = 2
  Duration = 3
  RetryAfter = 1
  LastHour = 4
  NoId = NoId
SPECIFICATION GatesSpec
INVARIANTS GatesTypeOK VerifyIsFresh RevokedStays BannedForText StruckOutIsBanned RoundsApart
SYMMETRY GatesSymmetry
