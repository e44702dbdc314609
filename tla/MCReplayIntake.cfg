SPECIFICATION FairSpec
CONSTANTS
  m1 = m1
  m2 = m2
  native = native
  newer = newer
  python = python
  None = None
  Notifications = {m1, m2}
  Builds = {native, newer, python}
  Rejects = {python}
  MaxReceive = 3
  MaxFaults = 2
INVARIANT ManifestBacked
PROPERTY CompletionIsFinal
PROPERTY RegisterSpec
PROPERTY EventuallyResolved
CHECK_DEADLOCK FALSE
