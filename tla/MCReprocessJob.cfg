SPECIFICATION FairSpec
CONSTANTS
  m1 = m1
  m2 = m2
  native = native
  python = python
  None = None
  Messages = {m1, m2}
  Jobs <- Job
  Builds = {native, python}
  Rejects = {python}
  MaxReceive = 3
  MaxFaults = 2
CHECK_DEADLOCK FALSE
PROPERTY RegisterSpec
PROPERTY EventuallyAnswered
