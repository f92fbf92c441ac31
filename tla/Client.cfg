SPECIFICATION ClientSpec
CONSTANTS
  t1 = t1
  a = a
  b = b
  c = c
  ma = ma
  mb = mb
  mc = mc
  both = both
  p1 = p1
  c1 = c1
  NoObject = NoObject
  Tags = {t1}
  Layers = {a, b, c}
  Manifests = {ma, mb, mc}
  Indexes = {both}
  LayersOf <- MCLayersOf
  EntriesOf <- MCEntriesOf
  Foreign = {mb, both}
  Pushers = {p1}
  Signs = {p1}
  Built = {c}
  Pullers = {c1}
  Configurations = {{}, {"verifier", "descriptorcache"}}
  Refusals = TRUE
  MaxChanges = 1
VIEW MCView
INVARIANTS
  ClientInv
  RegistryClosed
  PushedIsSigned
  PulledIsVerified
  PullsOneSnapshot
  RefusedIsUnsigned
