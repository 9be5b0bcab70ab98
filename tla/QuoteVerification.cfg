SPECIFICATION Spec
CONSTANTS
  p1 = p1
  p2 = p2
  c1 = c1
  c2 = c2
  f1 = f1
  f2 = f2
  Platforms = {p1, p2}
  Cas = {c1, c2}
  Fmspcs = {f1, f2}
  Svns = {0, 1}
  CaOf <- MCCaOf
  FmspcOf <- MCFmspcOf
  SvnOf <- MCSvnOf
  Evals = {1, 2}
  QeEvals = {1, 2}
  Severities = {0, 1, 4, 6}
  Revoked = 6
  TcbVerdict <- MCTcbVerdict
  QeVerdict <- MCQeVerdict
  NewEval <- MCNewEval
  Period = 1
  Horizon = 2
  Revocable = {p1, c1}
  None = None
INVARIANTS Authentic VerdictOfPlatform
PROPERTIES RevocationBites NumbersNeverFall ImplementsAttestation
CHECK_DEADLOCK FALSE
