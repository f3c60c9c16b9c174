SPECIFICATION FairSpec
CONSTANTS
    Runs = {r1, r2}
    Contents = {seed, a, b}
    Seed = seed
    MAX_TOOL_ROUNDS = 2
    MaxCalls = 2
    MaxConversations = 1
    MaxDeaths = 1
    None = None
PROPERTIES
    WikiIsARegister
    ConversationsEnd
