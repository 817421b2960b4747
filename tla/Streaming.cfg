SPECIFICATION StreamsSpec
CONSTANTS
  Vendors = {"anthropic", "openai", "gemini"}
  Replies <- MCReplies
  MaxAttempts = 3
INVARIANT StreamingIsInvisible
CHECK_DEADLOCK FALSE
