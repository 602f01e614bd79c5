CONSTANTS
  U64Max = 255
  I64Min <- MCI64Min
  I64Max = 127
  U8Max = 255
  Second <- MCSecond
  Num <- MCNum
  Scripts <- MCScripts
  Streams <- MCStreams
  Patterns <- MCPatterns
  GlobKeys <- MCGlobKeys
  ByteStrings <- MCByteStrings
  Targets <- MCTargets
  FirstCommands <- MCFirstCommands
  Numerals <- MCNumerals
  OptionSets <- MCOptionSets
  Operations <- MCOperations
  Times <- MCTimes
  ExpiryTimes <- MCExpiryTimes
SPECIFICATION Spec
CHECK_DEADLOCK FALSE
INVARIANTS
  
  NoReplyHeldBack
  InNegotiatedVersion
  OneResponseEach
  GlobMatchesMeaning
  RoutedByItsKey
  IntegersExact
  OptionOrderFree
  
  ExpiryNotEarly
