CONSTANT Runs <- MCRuns
SPECIFICATION Spec
INVARIANTS
  MembersShareTests
  EveryRequestHasOneRow
