SPECIFICATION MCSpec
CONSTANTS
  doc = doc
  c1 = c1
  c2 = c2
  policy = policy
  order = order
  Null = Null
  Chunk = {c1, c2}
  Document = {doc}
  ChunksOf <- MCChunksOf
  Name = {"P", "O"}
  EntityType = {policy, order}
  RelType = {"APPLIES_TO"}
  Run = {1, 2}
  MaxEntities = 1
  MaxRelations = 2
  MaxEvents = 1
INVARIANTS ExtractionTypeOK KeysInChunk SchemaChecked OnePlaceholder
PROPERTIES AuditTellsRun
CHECK_DEADLOCK FALSE
