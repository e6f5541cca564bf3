SPECIFICATION OpenAISpec
CONSTANTS
    MaxRetries = 3
    MaxTokens = 2
INVARIANT RateLimitReported
CHECK_DEADLOCK FALSE
