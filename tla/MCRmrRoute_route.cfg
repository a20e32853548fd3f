SPECIFICATION FairSpec
CONSTANTS
  e1 = e1
  s1 = s1
  s2 = s2
  k0 = k0
  k1 = k1
  m1 = m1
  t1 = t1
  t2 = t2
  r1 = r1
  r2 = r2
  r3 = r3
  Senders = {s1, s2}
  Keys = {k0, k1}
  AnyKey = k0
  Meids = {m1}
  Eps = {e1}
  Routes <- MCRoutes
  Tabs = {t1, t2}
  Rtes = {r1, r2, r3}
  Nil = Nil
  MaxTables = 3
  MaxRecs = 1
  MallocFails = TRUE
INVARIANTS
  TypeOK
  TablesInUse
  EntriesCounted
  EntryStable
  ActiveAsMeant
PROPERTIES
  DrainEnds
CHECK_DEADLOCK FALSE
