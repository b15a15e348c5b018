SPECIFICATION MCSpec
CONSTANTS
  e1 = e1
  e2 = e2
  r1 = r1
  r2 = r2
  k1 = k1
  Null = Null
  Entity = {e1, e2}
  Relation = {r1, r2}
  Reviewer = {a, b}
  MaxRequests = 5
  Chunk = {k1}
  Name = {"P"}
  EntityType = {"Policy"}
  RelType = {"APPLIES_TO"}
  ChunkOf <- MCChunkOf
INVARIANTS TypeOK ApprovalOnRecord EndpointsOnRecord VouchedEdgesOnRecord
CHECK_DEADLOCK FALSE
