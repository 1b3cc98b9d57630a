SPECIFICATION FairSpec
CONSTANTS
  d1 = d1
  d2 = d2
  d3 = d3
  Daemons = {d1, d2, d3}
  Nobody = Nobody
  Stale = Stale
  MaxMishaps = 3
INVARIANTS
  OneListener
PROPERTIES
  NeverDisplaced
  ServesAgain
