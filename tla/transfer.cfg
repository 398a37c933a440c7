SPECIFICATION FairSpec
CONSTANTS
  Bytes = 6
  Requests <- SomeRequests
  SizeMod = 16
INVARIANTS TypeOK InOrder SendReportsSent SentEnough ZeroMeansEnd IteratorsSeeContents OrderErrsOneWay
PROPERTIES LoopsEnd
