\* Three workers, a table of three slots, four submitters: a table that leaks
\* a slot fills up.  Reservations of 0 .. 3 units against a budget of 4.
CONSTANTS
  Workers = {w1, w2, w3}
  Users = {u1, u2, u3, u4}
  NoUser = NoUser
  Budget = 4
  MaxReserve = 3
  Cap = 2
  TableSize = 3
SPECIFICATION Spec
SYMMETRY Symmetry
INVARIANT BudgetHeld
INVARIANT CounterExact
INVARIANT TableExact
PROPERTY RefusedOnlyAtCap
PROPERTY ContractSpec
