\* Two calls at a time, every failure, and the process killed at any moment.
SPECIFICATION Spec
CONSTANTS
  Proc = {p1, p2}
  Obj = {o1, o2, o3}
  Host = {h1, h2, h3}
  NoObj = NoObj
  NoHost = NoHost
  Setting = {s1, s2}
  Default = s1
  Deaths = {"kill", "swap", "install"}
  MaxHooks = 1
INVARIANTS
  TypeOK
  EnablesAccounted
  ConfigAgrees
  VersionKeptUnstrained
