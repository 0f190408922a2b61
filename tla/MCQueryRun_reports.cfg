SPECIFICATION Spec
CONSTANTS
  MaxBlock = 2
  MaxCommands = 3
  PipeItems = 2
  StderrItems = 4
  QueryLines = 3
  Answers <- MCAnswers
  Expected <- MCExpected
  NoReport = NoReport
  Files <- MCFiles
  Inherited <- MCInherited
INVARIANTS
  TypeOK
  EachInPlace
  GetsSeePuts
  SuccessIsRight
  MetricsComplete
PROPERTY
  EventuallyReported
