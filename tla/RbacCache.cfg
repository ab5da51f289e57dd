CONSTANTS
  User = {u1}
  App = {a1, a2}
  Role = {r1}
  Permission = {p1}
  Resolver = {f1}
  Admin = {m1, m2}
  Nothing = Nothing
  AppOf <- Apart
SPECIFICATION FairSpec
INVARIANTS FreshUnlessTainted
PROPERTIES EventuallyFresh
