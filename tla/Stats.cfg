CONSTANTS
  Records <- MCRecords
  Unions = {"u"}
  PackageLists <- MCPackageLists
  InfoDocs <- MCInfoDocs
  MaxCrashes = 1
SPECIFICATION PipelineSpec
INVARIANTS NoFalseAlarm FirstSearchComplete ExactOnForests ResultsFiled TableOfPackages
PROPERTIES AnswersStand RunsEnd
