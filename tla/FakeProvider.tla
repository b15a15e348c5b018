---------------------------- MODULE FakeProvider ----------------------------
(***************************************************************************)
(* The offline LLM of app/integrations/llm/fake_provider.py, which         *)
(* get_llm_provider falls back to when a key is missing, next to the       *)
(* registry that app/seeds/ontology_seed.py fills.  A chunk is known by    *)
(* the rules whose keywords it contains, a question by the names it asks   *)
(* for.  Candidates have the form they have in Extraction.                 *)
(***************************************************************************)

Rule == {"fullCancel", "partialCancel", "refundAmount"}

Policy(name)    == [name |-> name, type |-> "Policy"]
Condition(name) == [name |-> name, type |-> "Condition"]

Requires(policy, condition) ==
    [srcKey |-> Policy(policy), type |-> "REQUIRES", tgtKey |-> Condition(condition)]
AppliesTo(policy, target) ==
    [srcKey |-> Policy(policy), type |-> "APPLIES_TO",
     tgtKey |-> [name |-> target, type |-> target]]

EntitiesOf ==
    [fullCancel    |-> {Policy("FullCancelPolicy"), Condition("PaymentCompleted"),
                        Condition("DeliveryNotStarted")},
     partialCancel |-> {Policy("PartialCancelPolicy"), Condition("PerOrderItemOnly")},
     refundAmount  |-> {Policy("RefundAmountLimit"), Condition("PaymentAmountCap")}]

RelationsOf ==
    [fullCancel    |-> {Requires("FullCancelPolicy", "PaymentCompleted"),
                        Requires("FullCancelPolicy", "DeliveryNotStarted"),
                        AppliesTo("FullCancelPolicy", "Order")},
     partialCancel |-> {AppliesTo("PartialCancelPolicy", "Order"),
                        Requires("PartialCancelPolicy", "PerOrderItemOnly")},
     refundAmount  |-> {Requires("RefundAmountLimit", "PaymentAmountCap"),
                        AppliesTo("RefundAmountLimit", "Refund")}]

\* extract: the snapshot of the registry is not looked at.
FakeEntities(rules)  == UNION {EntitiesOf[r] : r \in rules}
FakeRelations(rules) == UNION {RelationsOf[r] : r \in rules}

\* extract_intent_entities.
IntentNames == {"FullCancelPolicy", "PartialCancelPolicy", "RefundAmountLimit",
                "PaymentCompleted", "DeliveryNotStarted"}
FakeIntents(asked) == asked \cap IntentNames

\* answer: graph are the names in the graph block, evidence tells whether there
\* is any, cancels whether the question is about a cancellation or a refund.
FakeAnswer(graph, evidence, cancels) ==
    IF cancels /\ {"PaymentCompleted", "DeliveryNotStarted"} \subseteq graph
    THEN "may cancel"
    ELSE IF graph = {} /\ ~evidence THEN "insufficient" ELSE "see context"

\* get_llm_provider.
Chosen(provider, hasKey) ==
    IF provider \in {"openai", "anthropic"} /\ hasKey THEN provider ELSE "fake"

-----------------------------------------------------------------------------
(* app/seeds/ontology_seed.py *)

SeedEntityTypes ==
    {"Order", "OrderItem", "Product", "Payment", "Refund", "Delivery", "Policy",
     "Condition", "DocumentChunk"}

SeedSignatures ==
    {<<"Order", "CONTAINS", "OrderItem">>, <<"Order", "PAID_BY", "Payment">>,
     <<"Refund", "REFUNDS", "Payment">>, <<"Policy", "APPLIES_TO", "Order">>,
     <<"Policy", "REQUIRES", "Condition">>, <<"Policy", "DEFINED_IN", "DocumentChunk">>}

Violations(rules) ==
    {c \in FakeRelations(rules) :
        <<c.srcKey.type, c.type, c.tgtKey.type>> \notin SeedSignatures}

-----------------------------------------------------------------------------

\* On a seeded registry the fake's only violation is the intended one, what it
\* accepts hangs on entities of the same answer or on an Order placeholder, and
\* a question finds what it names among what can be extracted.  A graph of the
\* first rule's entities allows a cancellation, one of the others does not.
ASSUME FakeFitsSeed ==
    /\ \A rules \in SUBSET Rule :
         /\ \A e \in FakeEntities(rules) : e.type \in SeedEntityTypes
         /\ Violations(rules) = IF "refundAmount" \in rules
                                THEN {AppliesTo("RefundAmountLimit", "Refund")} ELSE {}
         /\ \A c \in FakeRelations(rules) \ Violations(rules) :
              {c.srcKey, c.tgtKey} \subseteq
                  FakeEntities(rules) \cup {[name |-> "Order", type |-> "Order"]}
    /\ \A n \in IntentNames : \E e \in FakeEntities(Rule) : e.name = n
    /\ \A rules \in SUBSET Rule :
         FakeAnswer({e.name : e \in FakeEntities(rules)}, TRUE, TRUE) = "may cancel"
             <=> "fullCancel" \in rules

=============================================================================
