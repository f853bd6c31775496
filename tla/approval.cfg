CONSTANTS
  None = None
  Plan = {"small", "risky"}
  Answer = {"A"}
  Token = {"auth"}
  Names <- MCNames
  Contained <- MCContained
  Setting <- MCSetting
  MaxQuestions = 1
  MaxAnswers = 2
  Start <- MCStart
  MaxEdits = 2
  Reports <- MCReports
  MaxDesign = 2
SPECIFICATION ApprovalSpec
INVARIANT ProjectCannotLoosen
PROPERTIES ApprovedAsSeen UnattendedUnrisky AutoReviewed
CONSTRAINT Bound
CHECK_DEADLOCK FALSE
