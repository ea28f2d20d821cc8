SPECIFICATION Spec
CONSTANTS
  a = a
  b = b
  stop = stop
  length = length
  None = None
  Providers = {"openai", "google", "antigravity", "anthropic", "huggingface", "cohere", "chatgpt"}
  Calls <- TwoCalls
  Reasons <- TwoReasons
  Stop <- stop
  MaxLines <- LineBounds
SYMMETRY Symmetric
CHECK_DEADLOCK FALSE
INVARIANTS
  ResponseTrue
  EventsInPlace
  TerminalConfirmed
