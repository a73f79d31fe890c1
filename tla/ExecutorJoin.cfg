\* A job that awaits the JoinHandle of a job it spawned.
CONSTANTS
  Root = r
  MaxPermits = 2
  TokenSpace = 4
  Jobs = {r, a}
  Joinable = {a}
  MaxEvents = 1
  TotalEvents = 2
  Oneshots = {a}
SPECIFICATION FairSpec
PROPERTY JoinerResumes
CHECK_DEADLOCK FALSE
