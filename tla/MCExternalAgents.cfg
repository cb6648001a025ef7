SPECIFICATION RunnerSpec
CONSTANTS
  r1 = r1
  r2 = r2
  Unset = Unset
  MaxCalls = 2
  Formats = {"json", "stream-json"}
  Revisions = {r1, r2}
  Current = r1
  OldConversations = 1
  MaxConversations = 2
  Reports = {"SUCCESS", "ERROR"}
  Ends = {"clean", "truncated", "held"}
  MaxFaults = 1
INVARIANTS OneWriter EvidenceSettled NeverStuck
PROPERTY SuccessIsComplete
CHECK_DEADLOCK FALSE
