SPECIFICATION KeyabraSpec
CHECK_DEADLOCK FALSE
CONSTANTS
  A = A
  B = B
  v = v
  w = w
  p = p
  Names = {A, B}
  Values = {v, w}
  Pointers = {p}
  InitialVaults <- MCVaults
  Owners = {o1}
  Copies = {c1}
  Texts = {v}
  Rites = {r1, r2}
  Keys = {k1, k2}
INVARIANTS
  ConcealedIsNotRecorded
  ReceiptIsTrue
PROPERTIES
  LatestSetWins
  NewerIsNotClobbered
  WatchedSecretGoes
  StoredIsValidatedAgain
