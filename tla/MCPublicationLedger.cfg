CONSTANTS
  p1 = p1  p2 = p2  v1 = v1  v2 = v2  t1 = t1  t2 = t2  a = a  b = b
  Posts = {p1, p2}
  Revisions = {v1, v2}
  Routes = {a, b}
  RoutesOf <- MCRoutesOf
  Releases = {r1, r2, r3}
  Operations = {o1}
  Trees = {t1, t2}
  PostsOf <- MCPostsOf
  Previews = {w1}
  Digests = {d1, d2, d3, d4}
  NoDigest = NoDigest
  Times = {1, 2}
  MaxVersion = 4

SPECIFICATION Spec
SYMMETRY Interchangeable
CHECK_DEADLOCK FALSE
INVARIANTS
  TypeOK
  RowsRehydrate
  Approvals
  History
  Promises
PROPERTIES
  ClaimsPermanent
  PublicSincePermanent
  EveryReleaseLives
