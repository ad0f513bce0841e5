CONSTANTS
  None = None
  Empty = Empty
  Mixed = Mixed
  p1 = p1
  p2 = p2
  r1 = r1
  r2 = r2
  r3 = r3
  engine = engine
  kit = kit
  Modules <- MCModules
  Replaces <- MCReplaces
  MaxReplaceDepth = 3
  Projects <- MCProjects
  Procs <- MCProcs
  Contents <- MCContents
  Commands <- MCCommands
  Compiles <- MCCompiles
  Checkouts <- MCCheckouts
  Starter = "one"
  NameOf <- MCNameOf
  Jobs <- MCJobs
  MaxChanges = 1
  MaxFaults = 1
SPECIFICATION Spec
INVARIANTS CacheSound NoResidue HonestCompile
