SPECIFICATION Spec
CONSTANTS
  fits = fits
  edge = edge
  long = long
  nameless = nameless
  s1 = s1
  s2 = s2
  Secret = Secret
  Empty = Empty
  None = None
  Events <- MCEvents
  Size <- MCSize
  Unnamed <- MCUnnamed
  MaxWebhookBodyBytes = 2
  Slots <- MCSlots
  Entry <- MCEntry
  Posts <- MCPosts
INVARIANT OversizedNotHashed
