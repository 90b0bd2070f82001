SPECIFICATION Spec
CONSTANTS
  Request = {q1, q2}
  Phone = {p1, p2}
  Key = {k1, k2, k3}
  None = None
SYMMETRY Symmetry
INVARIANTS
  TypeOK
  RowIsOneAttempt
  AgentIsLoggedIn
  UsernameIsOfAccount
PROPERTY
  RevokedStaysRevoked
