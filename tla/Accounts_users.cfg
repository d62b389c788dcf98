SPECIFICATION MCSpec
CONSTANTS
  Users = {u1, u2, u3}
  Owner = u1
  Calls = {c1, c2}
  Logins = {l1}
  Forgots = {f1, f2, f3}
  Resets = {r1, r2}
  MaxClock = 4
  Second <- TwoTicks
  Cooldown = 1
  LinkLife = 3
  SessionLife = 2
  None = None
SYMMETRY Symmetry
INVARIANT RevocationIsExact
INVARIANT LinksSpaced
PROPERTY OnlyNewestLinkOnce
PROPERTY GuardedKeepsAnAdmin
CHECK_DEADLOCK FALSE
