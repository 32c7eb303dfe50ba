\* Two handlers on one account, in eleven workloads.
SPECIFICATION Spec
CONSTANTS
  Secrets = {p1, p2} MaxRow = 3
  SessionIds = {s1, s2, s3} NoSession = NoSession
  Resets = {t1, t2} Proofs = {v1, v2}
  Factors = {f1, f2} Codes = {k1, k2, k3} CodesPerSet = 2
  Nil = Nil
  Requests = {r1, r2}
  Configs <- Workloads
SYMMETRY Symmetry
INVARIANTS TypeOK OthersRevoked UsedTokensDie ShownCodesWork SecondFactorAsked
PROPERTIES PasswordProved CodeIsOneTime
CHECK_DEADLOCK FALSE
