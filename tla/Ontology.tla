------------------------------ MODULE Ontology ------------------------------
(***************************************************************************)
(* The ontology registry of app/services/ontology_schema_service.py: which *)
(* entity types and which (source type, relation, target type) signatures  *)
(* exist and are active.                                                   *)
(*                                                                         *)
(* A request reads one row, assigns it and commits; of two requests on one *)
(* row the later commit decides, and of two that insert the same name the  *)
(* unique index refuses one with 409.  Either way the registry is as if    *)
(* they had come one after another, so a request is one action here.       *)
(***************************************************************************)

CONSTANTS
    EntityType, \* names of entity types
    RelType     \* names of relation types

VARIABLES
    entityType,     \* ontology_entity_type: the state of each name
    relationType    \* ontology_relation_type: the state of each signature

ontologyVars == <<entityType, relationType>>

\* Rows are deactivated, never deleted.
Registration == {"absent", "active", "inactive"}

Signature == [source : EntityType, name : RelType, target : EntityType]

OntologyTypeOK ==
    /\ entityType \in [EntityType -> Registration]
    /\ relationType \in [Signature -> Registration]

\* Whatever the seed and earlier requests have registered.
OntologyInit == OntologyTypeOK

-----------------------------------------------------------------------------

\* An existing row is returned as it is: it stays inactive if it is.
CreateEntityType(t) ==
    /\ entityType' =
         [entityType EXCEPT ![t] = IF @ = "absent" THEN "active" ELSE @]
    /\ UNCHANGED relationType

UpdateEntityType(t, active) ==
    /\ entityType[t] # "absent"
    /\ entityType' =
         [entityType EXCEPT ![t] = IF active THEN "active" ELSE "inactive"]
    /\ UNCHANGED relationType

DeactivateEntityType(t) ==
    /\ entityType[t] # "absent"
    /\ entityType' = [entityType EXCEPT ![t] = "inactive"]
    /\ UNCHANGED relationType

\* The entity types it names are not looked up.
CreateRelationType(sig) ==
    /\ relationType' =
         [relationType EXCEPT ![sig] = IF @ = "absent" THEN "active" ELSE @]
    /\ UNCHANGED entityType

UpdateRelationType(sig, active) ==
    /\ relationType[sig] # "absent"
    /\ relationType' =
         [relationType EXCEPT ![sig] = IF active THEN "active" ELSE "inactive"]
    /\ UNCHANGED entityType

DeactivateRelationType(sig) ==
    /\ relationType[sig] # "absent"
    /\ relationType' = [relationType EXCEPT ![sig] = "inactive"]
    /\ UNCHANGED entityType

OntologyRequest ==
    \/ \E t \in EntityType :
         \/ CreateEntityType(t)
         \/ \E active \in BOOLEAN : UpdateEntityType(t, active)
         \/ DeactivateEntityType(t)
    \/ \E sig \in Signature :
         \/ CreateRelationType(sig)
         \/ \E active \in BOOLEAN : UpdateRelationType(sig, active)
         \/ DeactivateRelationType(sig)

-----------------------------------------------------------------------------
(* Validation, each a SELECT of its own. *)

ValidateEntityType(t) == entityType[t] = "active"

ValidateRelation(source, name, target) ==
    relationType[[source |-> source, name |-> name, target |-> target]] = "active"

=============================================================================
