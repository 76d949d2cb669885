SPECIFICATION Spec
CONSTANTS
  Handlers = {h1, h2}
  Links = {l1, l2}
  Keys = {k1}
  kes = kes
  onlyNGN = onlyNGN
  both = both
  thin = thin
  Corridors = {kes}
  FiatOf <- MCFiatOf
  Declarations = {onlyNGN, both, thin}
  Declares <- MCDeclares
  Provides <- MCProvides
  Required <- MCRequired
  Configs <- SandboxOrYouverify
  MaxCases = 2
  MaxDeletions = 1
  MaxFaults = 1
SYMMETRY Symmetry
CHECK_DEADLOCK FALSE
INVARIANTS LinkOpensOneSession DeletionRevokesForGood ActivationsAreApproved EntitlementsCovered
PROPERTY AdminBlockHolds
