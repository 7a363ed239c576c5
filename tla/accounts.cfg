CONSTANTS
  dex = dex
  google = google
  okta = okta
  azure = azure
  Logins = {l1, l2}
  Callbacks = {c1, c2, c3}
  Subjects <- MCSubjects
  Email <- MCEmail
  Base <- MCBase
  Verified = {dex, okta, azure}
  MaxFaults = 1
  MaxRenames = 1
  MaxName = 2
SPECIFICATION Spec
CHECK_DEADLOCK FALSE
INVARIANTS ConflictIsTheEmails OneSessionPerLogin
PROPERTIES SignInsEnd
