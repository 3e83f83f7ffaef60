SPECIFICATION Spec
CONSTANTS
  Allowed <- Everything
  Others = {"hosts"}
  Aps = 1
  BootLimit = 2
  UptimeLimit = 2
INVARIANTS TypeOK BoardFollowsReboot PublishedIsAnswered
CONSTRAINT FewStragglers
