SPECIFICATION Spec
CONSTANTS
  Ids <- ThreeIds
  Numeral <- Words
  Sheets <- SmallSheets
  BatchSize = 2
  PeerSampleSize = 1
  TopFindingLimit = 1
  MaxRetries = 1
  Providers <- Backends
  Says <- TwoSayings
  Usual <- Fair
INVARIANTS CallsAreBounded EveryQuestionIsAccountedFor RejectingBackendIsUsable BadNewsCounts FiguresAddUp BandsAgree
PROPERTIES AnswersAreNotLost ScoresAreSaid
