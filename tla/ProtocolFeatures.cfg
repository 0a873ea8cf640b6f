SPECIFICATION Spec
CONSTANTS
  preactivate = preactivate
  base = base
  derived = derived
  late = late
  Feature <- MCFeature
  Requires <- MCRequires
  NeedsPreactivation = {base, derived}
  Earliest <- MCEarliest
  MaxNew = 2
  MaxBlockNum = 5
INVARIANT ViewsAgree
INVARIANT PreactivatedActivateNext
INVARIANT ProducerNeverStuck
PROPERTY ScheduledIsActivated
