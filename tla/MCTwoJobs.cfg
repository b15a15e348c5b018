SPECIFICATION MCSpec
CONSTANTS
  e1 = e1
  e2 = e2
  r1 = r1
  k1 = k1
  Null = Null
  Entity = {e1, e2}
  Relation = {r1}
  Reviewer = {a}
  Syncer = {x, y}
  AutoSync = FALSE
  Faults = {"neo4j", "crash"}
  MaxRequests = 3
  MaxSyncs = 2
  OntologyChanges = FALSE
  Scopes = {"all"}
  Chunk = {k1}
  Name = {"N"}
  EntityType = {"Policy"}
  RelType = {"APPLIES_TO"}
  ChunkOf <- MCChunkOf
CHECK_DEADLOCK FALSE
SYMMETRY SyncerSymmetry
INVARIANTS SyncTypeOK SuccessIsInGraph EdgesAfterEndpoints
PROPERTIES KeepsGovernance
