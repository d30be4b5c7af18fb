CONSTANTS
  a1 = a1
  a2 = a2
  b1 = b1
  b2 = b2
  c1 = c1
  c2 = c2
  c3 = c3
  Proxies <- Pairs
  Feeds <- Triples
  Presses <- Actors
  Direct = Direct
  Texts <- Pairs
  Tasks <- Actors
  NoText = NoText
  MaxPosted = 2
  Banner = TRUE
  Broadcasts <- Pairs
  Rows <- Triples
  Scans <- Actors
  NoChannel = NoChannel
SPECIFICATION PanelSpec
INVARIANTS PanelTypeOK RemovedIsUnused SentOnce LatestIsSent OneRowPerChannel ScanIsMirrored
PROPERTY SpreadEvenly
SYMMETRY PanelSymmetry
