SPECIFICATION BufferSpec
CONSTANTS
  Uris = {"a", "b"}
  Payload <- MCPayload
  Answers <- OneBlock
  Faults = {"broken", "memory"}
  Blocks = {b1, b2, b3, b4}
  NULL = NULL
  Bytes <- MCBytes
INVARIANTS
  TypeOK
  SplitExact
  StringsFit
  CapacityHonest
  HoldsContent
