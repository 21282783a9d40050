SPECIFICATION Spec
CONSTANTS
  Consoles = {c1, c2}
  Logins = {l1, l2}
  Requests = {r1}
  Roots = {home, work}
  Period = 1
  Lifetime = 1
  LinkTime = 1
  Leeway = 1
  MaxTime = 1
  MaxEras = 1
  None = None
SYMMETRY MCSymmetry
INVARIANTS CurrentCredentials LoggedOut PasswordlessEnds OtpOnce
CHECK_DEADLOCK FALSE
