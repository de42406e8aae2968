\* Two workers and four numbers, so that the table runs out; units of
\* half a second, sleeps of three, three seconds for a chain, two for an attempt.
CONSTANTS
  Workers = {w1, w2}
  Nobody = Nobody
  MaxFd = 3
  Tick = 2
  PollTime = 3
  Budget = 3
  AttemptCap = 2
SPECIFICATION Spec
SYMMETRY Symmetry
INVARIANT OwnDescriptors
INVARIANT Apart
INVARIANT WinnersOutput
INVARIANT WithinBudget
