SPECIFICATION Spec
CONSTANTS
  c = c  e1 = e1  t1 = t1  n1 = n1  v1 = v1
  q1 = q1  q2 = q2  q3 = q3  q4 = q4  d1 = d1  w1 = w1  w2 = w2  o1 = o1  s1 = s1  l1 = l1  k1 = k1  m1 = m1
  Row = {c, e1, t1, n1, v1, q1, q2, q3, q4, d1, w1, w2, o1, s1, l1, k1, m1}
  KindOf <- MCKindOf
  ParentOf <- MCParentOf
  TypeOf <- MCTypeOf
  NoRow = NoRow
  TenantKey = {"key-a"}
  NoKey = NoKey
  Editor = {d1}
  Sweeper = {g1}
  Uploader = {u1, u2}  MCUploader = {u1}
  Eraser = {x1}
  Dumper = {p1, p2}  MCDumper = {p1}
  Backup = {b1, b2, b3}  MCBackup = {b1, b2}
  NoBackup = NoBackup
  ByokGranted = FALSE
  BatchSize = 1
  MaxText = 2
  MaxVersion = 2
  Retention = 1
  Instance <- MCInstance
SYMMETRY MCSymmetry
INVARIANTS
  ClientDataTypeOK
  EditsKept
  FilesPresent
  ErasureForgets
  PendingExplained
  BackupsRestorable
  VersionsBounded
CHECK_DEADLOCK FALSE
