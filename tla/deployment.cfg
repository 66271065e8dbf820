SPECIFICATION Spec
CONSTANTS
  A = A
  B = B
  r1 = r1
  weak = weak
  b1 = b1
  b2 = b2
  LegacyKid = LegacyKid
  MaxKeys = 2
  Unreadable = Unreadable
  Nil = Nil
  Lower <- MCLower
  Labels <- MCLabels
  Replicas = {p1, p2}
  Browsers = {b1, b2}
  Resources = {r1}
  Plans <- MCPlans
  WeakSecrets = {weak}
SYMMETRY MCSymmetry
INVARIANTS TypeOK RootsAgree RotationIsSeamless RemovalTakesEffect AdmittedIsServed BrowserIsUnbound
