SPECIFICATION PartSpec
CONSTANTS
  Jobs <- MCJobs
  Names <- MCNames
  LetterSeq <- MCLetters
  Lassos <- MCLassos
  Keys <- MCKeys
  Home <- MCHome
  Tag <- MCTag
  FirstItems = 2
  MaxBytes = 30
  CapLimit = 16
INVARIANTS AnswersTrue Findable
CHECK_DEADLOCK FALSE
