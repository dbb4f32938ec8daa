SPECIFICATION FairSpec
CONSTANTS
  openai = openai
  ollama = ollama
  groq = groq
  Providers = {openai, ollama, groq}
  Limited = {openai}
  Limit <- LimitOf
  MaxSpent = 6
  Clients = {c1, c2}
  Fallback <- Order
  Registered = {openai, groq}
  PoolSize <- TwoAccounts
  MaxRetries = 2
  Costs = {2, 3}
  MaxCalls = 2
INVARIANTS
  CountsAreRight
  FallbackInOrder
  ConversationsArrive
PROPERTIES
  CallsReturn
CHECK_DEADLOCK FALSE
