CONSTANTS
  p1 = p1  p2 = p2  v1 = v1  v2 = v2  t1 = t1  t2 = t2  a = a  b = b  s1 = s1  s2 = s2
  Posts = {p1}
  Revisions = {v1, v2}
  Routes = {a, b}
  RoutesOf <- MCRoutesOf
  Releases = {r1, r2}
  Operations = {o1}
  Trees = {t1, t2}
  PostsOf <- MCPostsOf
  NoDigest = NoDigest
  Times = {1, 2, 3}
  MaxVersion = 9
  Settings = {s1, s2}
  SettingsOf <- MCSettingsOf
  Tips = {x1, x2}
  None = None
  MaxStops = 0
  MaxTipChanges = 2
  MaxRefusals = 1
  MaxBacklog = 0

SPECIFICATION FairSpec
CHECK_DEADLOCK FALSE
PROPERTIES
  ImplementsSite
  BegunIsFinished
  ServesAgain
  DueIsDecided
