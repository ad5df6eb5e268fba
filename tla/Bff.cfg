SPECIFICATION FairSpec
CONSTANTS
  s1 = s1
  s2 = s2
  s3 = s3
  q1 = q1
  Logins = {s1, s2, s3}
  Submitted <- MCSubmitted
  Reqs = {q1}
  Asked <- MCAsked
  Configs <- MCConfigs
  None = None
  SessionTTL = 2
  BaseDelay = 2
  MaxDelay = 3
  MaxClock = 4
  MaxRestarts = 1
CHECK_DEADLOCK FALSE
INVARIANTS WritesNeedWritable CarriedOutOnce DelayFollowsFailures
PROPERTIES EndedSessionsStayOut CorrectPasswordLogsIn
