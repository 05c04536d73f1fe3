SPECIFICATION FairSpec
CONSTANTS
  Replicas = {"replica"}
  Exp <- MCExp
  Sources <- MCSources
INVARIANTS
  ReportTrustworthy
  AdviceSound
  IssuesExact
  PayloadsAnonymous
PROPERTIES
  AssessmentCompletes
CHECK_DEADLOCK FALSE
