SPECIFICATION Spec
CONSTANTS
  MaxBlock = 2
  MaxCommands = 1
  PipeItems = 1
  StderrItems = 4
  QueryLines = 1
  Answers <- MCAnswers
  Expected <- MCExpected
  NoReport = NoReport
  Files <- MCFiles
  Inherited <- MCInherited
INVARIANT
  FailedValidationReported
