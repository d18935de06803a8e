\* Every set of stored purchases, every sequence of taps.
SPECIFICATION Spec
CONSTANTS
  Purchases <- MCPurchases
  Nil = Nil
INVARIANTS BarsFollowSelection HighlightFollowsSelection BarsLeadToTheirPurchases
