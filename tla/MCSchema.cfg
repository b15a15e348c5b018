SPECIFICATION MCSpec
CONSTANTS
  e1 = e1
  e2 = e2
  r1 = r1
  k1 = k1
  Null = Null
  Entity = {e1, e2}
  Relation = {r1}
  Reviewer = {a}
  Syncer = {x}
  AutoSync = FALSE
  Faults = {}
  MaxRequests = 4
  MaxSyncs = 1
  OntologyChanges = FALSE
  Scopes = {"all"}
  Chunk = {k1}
  Name = {"N"}
  EntityType = {"Policy", "Order"}
  RelType = {"APPLIES_TO"}
  ChunkOf <- MCChunkOf
CHECK_DEADLOCK FALSE
INVARIANT EdgesInSchema
