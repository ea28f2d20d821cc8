SPECIFICATION Spec
CONSTANTS
  Uses <- MCUses
  StartTag <- Open
  EndTag <- Close
  Blanks = {" "}
  Inner = {"e2"}
  VendorIds = {"v", "w"}
  Tokens <- MCTokens
  None = None
CHECK_DEADLOCK FALSE
INVARIANTS
  ChunkingInvisible
  PartsFaithful
