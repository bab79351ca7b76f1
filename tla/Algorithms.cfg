CONSTANTS
  Keywords = {k1, k2, k3}
  Percents = {0, 2, 67, 100}
  ColorReject = 350
  PHashReject = 300
  PHashPass = 900
  SsimPass = 920
  SsimVision = 750
  LooksSameVision = 700
  OpenCvVision = 600
  Answers <- MCAnswers
  EngineResults <- MCEngineResults
  Similarities <- MCSimilarities
  MaxKeywords = 2
  MaxAdvice = 2
  KeyOf <- MCKeyOf
  IsShort <- MCIsShort
  Words = {"ace", "Ace", "a", "bed"}
  Hints <- MCHints
  Aliases <- MCAliases
  IsLong <- MCIsLong
  InName <- MCInName
  MaxCount = 8
  Orders <- MCOrders
  FromModel <- MCFromModel
  Keyword <- MCKeyword
  Titles <- MCTitles
  Limits = {0, 1, 2}
  MaxCollected = 3
  Models = {"gpt-4.1-mini", "gpt-4.1", "other"}
  Table <- MCTable
  Includes <- MCIncludes
  PriceOf <- MCPriceOf
  Fallback = 3
  MonthDays = 2
  AttemptDays = 0
  UsageDays = 2
  BatchSize = 1
  MaxDay = 3
  MaxRows = 2
  MaxAttempts = 1
  MaxRedirects = 2
  MaxBytes = 3
  Sizes = {0, 2, 4}
  AllowHttp = TRUE
  Reached <- MCUrls
  Presets <- MCPresets
  Places <- MCPlaces
  IsRural <- MCIsRural
  Whole <- MCWhole
  Enough = 2
  MaxRural = 2
  MaxPlaces = 3
  BackOffAt = 2
  AbortAt = 4
  Regions <- MCRegions
  Listings = {"label", "far", "near", "two"}
  Usable <- MCUsable
  Tokens <- MCTokens
  Alike <- MCAlike
  Found <- MCFound
  MaxResults = 2
  RawOrders <- MCRawOrders
  IsUrl <- MCIsUrl
  Scores <- MCScores
  Measures <- MCMeasures
  Opinions <- MCOpinions
  Advices <- MCAdvices
SPECIFICATION AlgorithmsSpec
INVARIANTS UnlikeKeptOut VerdictMeaning Complete BestKept Bounded AskedAndKept ComparedAsSearched ShownAsMade
PROPERTIES Retained LoopsEnd
CHECK_DEADLOCK FALSE
