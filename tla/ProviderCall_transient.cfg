CONSTANTS
  MaxRetries = 2
  Providers = {"openai", "gemini"}
SPECIFICATION Spec
INVARIANT TransientRetried
CHECK_DEADLOCK FALSE
