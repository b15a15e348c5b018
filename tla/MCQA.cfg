SPECIFICATION Spec
CONSTANTS
    q1 = q1
    n1 = n1
    n2 = n2
    requires = requires
    refunds = refunds
    t1 = t1
    t2 = t2
    Question = {q1}
    Mentioned <- MCMentioned
    Name = {n1, n2}
    RelType = {requires, refunds}
    Triple = {t1, t2}
    TypeOf <- MCTypeOf
    LineLength <- MCLineLength
    Chunk <- MCChunk
    Length <- MCLength
    TopK = 3
    EmptyLength = 1
    Budget = 8
    Floor = 3
    Faults = {"llm", "qdrant", "postgres", "crash"}
    Null = Null
CHECK_DEADLOCK FALSE
INVARIANTS
    QATypeOK
    GroundedAnswers
    LoggedOnce
    EvidenceThenHits
    BudgetKept
