CONSTANTS
  eth = eth
  sepolia = sepolia
  devnet = devnet
  a = a
  b = b
  none = none
  main = main
  v = v
  bad = bad
  Chains = {eth, sepolia}
  Main = main
  ad = ad
  Admins = {ad}
  Viewers = {v}
  Unparsable = bad
  Files <- FileSet
  Empty = none
  MaxEdits = 1
SPECIFICATION Spec
INVARIANTS FailedReloadChangesNothing SnapshotIsAtomic ReloadTakesEffect
PROPERTIES HupIsServed
