\* Two KEKs and none, five starts, three failing calls, power lost at any step.
CONSTANTS
  Keys = {a1, a2, a3}
  Keks = {e1, e2}
  NoKek = NoKek
  NoFile = NoFile
  MaxStarts = 5
  MaxFaults = 3
SPECIFICATION KeySpec
INVARIANT NeverTorn
INVARIANT Reloadable
PROPERTY NeverRotates
CHECK_DEADLOCK FALSE
