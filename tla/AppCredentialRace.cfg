CONSTANTS
  None = None
  App = "notes"
  Exports = {"f"}
  SegsOf <- MCSegsOf
  CapturesIn <- MCCaptures
  PathOrder <- MCPathOrder
  Requests <- MCRequests
  Builds <- MCBuilds
  SlugOf <- MCSlugOf
  Core = "core"
  Declarations <- MCDeclarations
  Owner = owner
  Bot = bot
  Delegate = delegate
  Budgets <- MCBudgets
  Proc = "notes"
  c1 = c1
  c2 = c2
  Calls <- MCCalls
  Tokens <- MCTokens
  MaxOverruns = 2
  MaxRestarts = 1
SPECIFICATION Spec
INVARIANT ListedHoldsLiveToken
CHECK_DEADLOCK FALSE
