-------------------------- MODULE ExtractionProofs --------------------------
(***************************************************************************)
(* Proofs about module Extraction: any number of requests, of candidates   *)
(* in an answer, of reviews and of registry requests, in any order.        *)
(***************************************************************************)
EXTENDS Extraction, FiniteSetTheorems, TLAPS

(* Type correctness.  It needs to know where a run has a chunk and an item.  *)

Resolving == {"source", "newSource", "target", "newTarget", "insert"}

Placed ==
    \A s \in Run : Running(s) =>
        /\ run[s].pc # "chunk" => run[s].chunk \in Chunk
        /\ run[s].pc \in Resolving => run[s].item \in RelationCandidate

Typed == ExtractionTypeOK /\ Placed

LEMMA RunningType ==
    ASSUME Typed, NEW s \in Run
    PROVE  Running(s) <=> run[s] \in RunState
BY DEF Typed, ExtractionTypeOK, Running, RunState, NoRun, DoneRun

LEMMA InitTyped == Init => Typed
BY DEF Init, Typed, ExtractionTypeOK, OntologyInit, Placed, Running, NoRun

\* A request goes on: its own record is replaced by one that is placed.
Steps(s) ==
    /\ run' \in [Run -> RunState \cup {NoRun, DoneRun}]
    /\ run'[s] \in RunState
    /\ run'[s].pc # "chunk" => run'[s].chunk \in Chunk
    /\ run'[s].pc \in Resolving => run'[s].item \in RelationCandidate
    /\ \A z \in Run \ {s} : run'[z] = run[z]

LEMMA Replace ==
    ASSUME Typed, NEW s \in Run, NEW r \in RunState, SetRun(s, r),
           r.pc # "chunk" => r.chunk \in Chunk,
           r.pc \in Resolving => r.item \in RelationCandidate
    PROVE  Steps(s) /\ run'[s] = r
BY DEF SetRun, Steps, Typed, ExtractionTypeOK

NoCounts == [entities |-> 0, relations |-> 0, violations |-> 0]

KeepsTally(r, o) == r.count = o.count /\ r.counters = o.counters

LEMMA StartRunSteps ==
    ASSUME Typed, NEW s \in Run, NEW chunks \in SUBSET Chunk, StartRun(s, chunks)
    PROVE  /\ Steps(s)
           /\ run'[s].pc = "chunk" /\ run'[s].todo = chunks
           /\ run'[s].entities = {} /\ run'[s].relations = {}
           /\ run'[s].count = 0 /\ run'[s].counters = NoCounts
           /\ UNCHANGED <<ontologyVars, stagingVars>>
<1> DEFINE r == [pc |-> "chunk", todo |-> chunks, chunk |-> Null,
                  idByNorm |-> NoNames, told |-> 0, asked |-> 0, count |-> 0,
                  entities |-> {}, relations |-> {},
                  item |-> Null, src |-> Null, tgt |-> Null,
                  counters |-> NoCounts]
<1>1. NoNames \in [Name -> RowId \cup {Null}]
  BY DEF NoNames
<1>2. /\ r \in RunState /\ r.pc = "chunk" /\ r.todo = chunks
      /\ r.entities = {} /\ r.relations = {}
      /\ r.count = 0 /\ r.counters = NoCounts
  BY <1>1 DEF RunState, Counters, NoCounts
<1>3. SetRun(s, r)
  BY DEF StartRun, NoCounts
<1> HIDE DEF r
<1>4. Steps(s) /\ run'[s] = r
  BY <1>2, <1>3, Replace DEF Resolving
<1> QED BY <1>2, <1>4 DEF StartRun

LEMMA NextChunkSteps ==
    ASSUME Typed, NEW s \in Run, NextChunk(s)
    PROVE  /\ Steps(s)
           /\ run[s] \in RunState
           /\ run'[s].pc = "entities"
           /\ run'[s].chunk \in run[s].todo
           /\ run'[s].todo = run[s].todo \ {run'[s].chunk}
           /\ run'[s].idByNorm = NoNames
           /\ run'[s].entities = run[s].entities
           /\ run'[s].relations = run[s].relations
           /\ KeepsTally(run'[s], run[s])
           /\ UNCHANGED <<ontologyVars, stagingVars>>
<1>1. run[s] \in RunState
  BY RunningType DEF NextChunk, At, Running
<1>2. PICK c \in run[s].todo :
        SetRun(s, [run[s] EXCEPT !.pc = "entities", !.chunk = c,
                                 !.todo = @ \ {c}, !.told = 0, !.asked = 0,
                                 !.idByNorm = NoNames])
  BY Zenon DEF NextChunk
<1> DEFINE r == [run[s] EXCEPT !.pc = "entities", !.chunk = c,
                               !.todo = @ \ {c}, !.told = 0, !.asked = 0,
                               !.idByNorm = NoNames]
<1>3. NoNames \in [Name -> RowId \cup {Null}] /\ c \in Chunk
  BY <1>1 DEF NoNames, RunState
<1>4. /\ r \in RunState /\ r.pc = "entities" /\ r.chunk = c
      /\ r.todo = run[s].todo \ {c}
      /\ r.idByNorm = NoNames
      /\ r.entities = run[s].entities /\ r.relations = run[s].relations
      /\ KeepsTally(r, run[s])
  BY <1>1, <1>3 DEF RunState, KeepsTally
<1> HIDE DEF r
<1>5. SetRun(s, r)
  BY <1>2 DEF r
<1>6. Steps(s) /\ run'[s] = r
  BY <1>3, <1>4, <1>5, Replace DEF Resolving
<1> QED BY <1>1, <1>4, <1>6 DEF NextChunk

LEMMA NewIdType ==
    ASSUME NEW s \in Run, run[s] \in RunState
    PROVE  NewId(s) \in RowId
BY DEF NewId, RowId, RunState

LEMMA VerdictType ==
    ASSUME NEW ok
    PROVE  Verdict(ok) \in {"PENDING", "REJECTED"}
BY DEF Verdict

LEMMA CountedType ==
    ASSUME NEW counters \in Counters, NEW ok \in BOOLEAN,
           NEW kind \in {"entities", "relations"}
    PROVE  Counted(counters, kind, ok) \in Counters
BY DEF Counted, Counters

\* The row that SaveEntity and CreatePlaceholder write.
NewEntity(s, key, status, placeholder) ==
    [id |-> NewId(s), chunk |-> run[s].chunk, key |-> key,
     status |-> status, placeholder |-> placeholder]

LEMMA NewEntityType ==
    ASSUME NEW s \in Run, run[s] \in RunState, run[s].chunk \in Chunk,
           NEW key \in Key, NEW status \in {"PENDING", "REJECTED"},
           NEW placeholder \in BOOLEAN
    PROVE  /\ NewEntity(s, key, status, placeholder) \in EntityRow
           /\ NewEntity(s, key, status, placeholder).id = NewId(s)
           /\ NewEntity(s, key, status, placeholder).chunk = run[s].chunk
           /\ NewEntity(s, key, status, placeholder).key = key
           /\ NewEntity(s, key, status, placeholder).status = status
           /\ NewEntity(s, key, status, placeholder).placeholder = placeholder
BY NewIdType DEF NewEntity, EntityRow

LEMMA SaveEntitySteps ==
    ASSUME Typed, NEW s \in Run, NEW key \in Key, SaveEntity(s, key)
    PROVE  LET ok == ValidateEntityType(key.type)
               e  == NewEntity(s, key, Verdict(ok), FALSE)
           IN  /\ Steps(s)
               /\ run[s] \in RunState
               /\ e \in EntityRow
               /\ run[s].pc = "entities" /\ run'[s].pc = "entities"
               /\ run'[s].chunk = run[s].chunk
               /\ run'[s].todo = run[s].todo
               /\ run'[s].idByNorm = [run[s].idByNorm EXCEPT ![key.name] = NewId(s)]
               /\ run'[s].entities = run[s].entities \cup {e}
               /\ run'[s].relations = run[s].relations
               /\ run'[s].count = run[s].count + 1
               /\ run'[s].counters = Counted(run[s].counters, "entities", ok)
               /\ UNCHANGED <<ontologyVars, stagingVars>>
<1> DEFINE ok == ValidateEntityType(key.type)
           e  == NewEntity(s, key, Verdict(ok), FALSE)
           old == run[s]
           n == NewId(s)
           cs == Counted(old.counters, "entities", ok)
           r  == [old EXCEPT !.told = @ + 1, !.count = @ + 1,
                             !.entities = @ \cup {e},
                             !.idByNorm[key.name] = n,
                             !.counters = Counted(@, "entities", ok)]
           t  == old.told + 1
           c  == old.count + 1
           q  == [old EXCEPT !.told = t, !.count = c,
                             !.entities = @ \cup {e},
                             !.idByNorm = [old.idByNorm EXCEPT ![key.name] = n],
                             !.counters = cs]
<1>1. old \in RunState /\ old.pc = "entities"
  BY RunningType DEF SaveEntity, At, Running
<1>2. SetRun(s, r)
  BY DEF SaveEntity, NewEntity
<1>3. old.chunk \in Chunk
  BY <1>1 DEF Typed, Placed, Running
<1>4. ok \in BOOLEAN /\ Verdict(ok) \in {"PENDING", "REJECTED"}
  BY VerdictType DEF ValidateEntityType
<1>5. e \in EntityRow
  BY <1>1, <1>3, <1>4, NewEntityType
<1>6. n \in RowId
  BY <1>1, NewIdType
<1> HIDE DEF e, ok, n
<1>7. cs \in Counters
  BY <1>1, <1>4, CountedType DEF RunState
<1>8. r = q /\ t \in Nat /\ c \in Nat
  BY <1>1 DEF RunState
<1> HIDE DEF cs, r, t, c
<1>9. [old.idByNorm EXCEPT ![key.name] = n] \in [Name -> RowId \cup {Null}]
  BY <1>1, <1>6 DEF RunState
<1>10. /\ q \in RunState /\ q.pc = "entities" /\ q.chunk = old.chunk
       /\ q.todo = old.todo
       /\ q.idByNorm = [old.idByNorm EXCEPT ![key.name] = n]
       /\ q.entities = old.entities \cup {e} /\ q.relations = old.relations
       /\ q.count = c /\ q.counters = cs
  BY <1>1, <1>5, <1>7, <1>8, <1>9 DEF RunState
<1> HIDE DEF q
<1>11. Steps(s) /\ run'[s] = q
  BY <1>2, <1>3, <1>8, <1>10, Replace DEF Resolving
<1> QED BY <1>1, <1>5, <1>10, <1>11 DEF SaveEntity, e, ok, n, c, cs

LEMMA SaveRelationSteps ==
    ASSUME Typed, NEW s \in Run, NEW candidate \in RelationCandidate,
           SaveRelation(s, candidate)
    PROVE  /\ Steps(s)
           /\ run[s] \in RunState
           /\ run[s].pc \in {"entities", "relations"} /\ run'[s].pc = "source"
           /\ run'[s].chunk = run[s].chunk
           /\ run'[s].todo = run[s].todo
           /\ run'[s].idByNorm = run[s].idByNorm
           /\ run'[s].entities = run[s].entities
           /\ run'[s].relations = run[s].relations
           /\ KeepsTally(run'[s], run[s])
           /\ UNCHANGED <<ontologyVars, stagingVars>>
<1> DEFINE a == run[s].asked + 1
           r == [run[s] EXCEPT !.pc = "source", !.item = candidate, !.asked = a]
<1>1. run[s] \in RunState /\ run[s].pc \in {"entities", "relations"}
  BY RunningType DEF SaveRelation, At, Running
<1>2. run[s].chunk \in Chunk
  BY <1>1 DEF Typed, Placed, Running
<1>3. a \in Nat /\ SetRun(s, r)
  BY <1>1 DEF SaveRelation, RunState
<1> HIDE DEF a
<1>4. /\ r \in RunState /\ r.pc = "source" /\ r.chunk = run[s].chunk
      /\ r.item = candidate
      /\ r.todo = run[s].todo /\ r.idByNorm = run[s].idByNorm
      /\ r.entities = run[s].entities /\ r.relations = run[s].relations
      /\ KeepsTally(r, run[s])
  BY <1>1, <1>3 DEF RunState, KeepsTally
<1> HIDE DEF r
<1>5. Steps(s) /\ run'[s] = r
  BY <1>2, <1>3, <1>4, Replace
<1> QED BY <1>1, <1>4, <1>5 DEF SaveRelation

\* What Resolved makes of a record, and a record that Resolved gives.
Same(r, o) ==
    /\ r.chunk = o.chunk /\ r.todo = o.todo /\ r.item = o.item
    /\ r.relations = o.relations /\ r.counters = o.counters

Ends(r, o, id) ==
    \/ o.pc \in {"source", "newSource"} /\ r.pc = "target" /\ r.src = id
    \/ o.pc \in {"target", "newTarget"} /\ r.pc = "insert" /\ r.tgt = id
                                        /\ r.src = o.src

LEMMA ResolvedType ==
    ASSUME NEW o \in RunState, NEW id \in RowId \cup {Null},
           o.pc \in {"source", "newSource", "target", "newTarget"}
    PROVE  LET r == Resolved(o, id)
           IN  /\ r \in RunState /\ Same(r, o) /\ Ends(r, o, id)
               /\ r.idByNorm = o.idByNorm /\ r.entities = o.entities
               /\ r.count = o.count
<1>1. CASE o.pc \in {"source", "newSource"}
  BY <1>1 DEF Resolved, RunState, Same, Ends
<1>2. CASE o.pc \in {"target", "newTarget"}
  BY <1>2 DEF Resolved, RunState, Same, Ends
<1> QED BY <1>1, <1>2

LEMMA ResolvingFacts ==
    ASSUME Typed, NEW s \in Run, run[s].pc \in Resolving
    PROVE  /\ run[s] \in RunState /\ run[s].chunk \in Chunk
           /\ run[s].item \in RelationCandidate
           /\ EndKey(s) \in Key /\ EndKey(s).name \in Name
           /\ entity \cup run[s].entities \subseteq EntityRow
<1>1. run[s] \in RunState
  BY RunningType DEF Running, Resolving
<1>2. run[s].chunk \in Chunk /\ run[s].item \in RelationCandidate
  BY <1>1 DEF Typed, Placed, Running, Resolving
<1>3. EndKey(s) \in Key
  BY <1>2 DEF EndKey, RelationCandidate
<1>4. EndKey(s).name \in Name
  BY <1>3 DEF Key
<1>5. entity \cup run[s].entities \subseteq EntityRow
  BY <1>1 DEF RunState, Typed, ExtractionTypeOK
<1> QED BY <1>1, <1>2, <1>3, <1>4, <1>5

\* An end is resolved to a row of the dict, to a row that is found, or is to be
\* given a placeholder.
ResolvesKnown(s) ==
    /\ run[s].idByNorm[EndKey(s).name] # Null
    /\ Ends(run'[s], run[s], run[s].idByNorm[EndKey(s).name])
    /\ run'[s].idByNorm = run[s].idByNorm

ResolvesFound(s) ==
    /\ run[s].idByNorm[EndKey(s).name] = Null
    /\ \E e \in FindPendingEntity(s, EndKey(s)) :
         /\ Ends(run'[s], run[s], e.id)
         /\ run'[s].idByNorm = [run[s].idByNorm EXCEPT ![EndKey(s).name] = e.id]

ResolvesLater(s) ==
    /\ run[s].idByNorm[EndKey(s).name] = Null
    /\ \/ run[s].pc = "source" /\ run'[s].pc = "newSource"
       \/ run[s].pc = "target" /\ run'[s].pc = "newTarget"
    /\ run'[s].src = run[s].src
    /\ run'[s].idByNorm = run[s].idByNorm

LEMMA ResolveSteps ==
    ASSUME Typed, NEW s \in Run, ResolveEntityId(s)
    PROVE  /\ Steps(s) /\ run[s] \in RunState /\ run[s].pc \in {"source", "target"}
           /\ Same(run'[s], run[s]) /\ run'[s].entities = run[s].entities
           /\ run'[s].count = run[s].count
           /\ ResolvesKnown(s) \/ ResolvesFound(s) \/ ResolvesLater(s)
           /\ UNCHANGED <<ontologyVars, stagingVars>>
<1> DEFINE key   == EndKey(s)
           old   == run[s]
           known == old.idByNorm[key.name]
           found == FindPendingEntity(s, key)
<1>1. old.pc \in {"source", "target"}
  BY DEF ResolveEntityId
<1>2. /\ old \in RunState /\ old.chunk \in Chunk /\ old.item \in RelationCandidate
      /\ key \in Key /\ key.name \in Name
      /\ \A e \in entity \cup old.entities : e \in EntityRow
  BY <1>1, ResolvingFacts DEF Resolving
<1>3. \/ known # Null /\ SetRun(s, Resolved(old, known))
      \/ /\ known = Null
         /\ \E e \in found :
              SetRun(s, [Resolved(old, e.id) EXCEPT !.idByNorm[key.name] = e.id])
      \/ /\ known = Null
         /\ SetRun(s, [old EXCEPT !.pc = IF @ = "source" THEN "newSource"
                                         ELSE "newTarget"])
  BY Zenon DEF ResolveEntityId
<1>4. UNCHANGED <<ontologyVars, stagingVars>>
  BY DEF ResolveEntityId
<1>5. ASSUME known # Null, SetRun(s, Resolved(old, known))
      PROVE  Steps(s) /\ Same(run'[s], old) /\ run'[s].entities = old.entities
             /\ run'[s].count = old.count
             /\ ResolvesKnown(s)
  <2> DEFINE r == Resolved(old, known)
  <2>1. known \in RowId \cup {Null}
    BY <1>2 DEF RunState
  <2>2. /\ r \in RunState /\ Same(r, old) /\ Ends(r, old, known)
        /\ r.idByNorm = old.idByNorm /\ r.entities = old.entities
        /\ r.count = old.count
    BY <1>1, <1>2, <2>1, ResolvedType
  <2>3. SetRun(s, r)
    BY <1>5
  <2> HIDE DEF r
  <2>4. Steps(s) /\ run'[s] = r
    BY <1>2, <2>2, <2>3, Replace DEF Same
  <2> QED BY <1>5, <2>2, <2>4 DEF ResolvesKnown
<1>6. ASSUME known = Null, NEW e \in found,
             SetRun(s, [Resolved(old, e.id) EXCEPT !.idByNorm[key.name] = e.id])
      PROVE  Steps(s) /\ Same(run'[s], old) /\ run'[s].entities = old.entities
             /\ run'[s].count = old.count
             /\ ResolvesFound(s)
  <2> DEFINE q == Resolved(old, e.id)
             f == [q.idByNorm EXCEPT ![key.name] = e.id]
             r == [q EXCEPT !.idByNorm = f]
  <2>1. e.id \in RowId
    BY <1>2 DEF FindPendingEntity, EntityRow
  <2>2. /\ q \in RunState /\ Same(q, old) /\ Ends(q, old, e.id)
        /\ q.idByNorm = old.idByNorm /\ q.entities = old.entities
        /\ q.count = old.count
    BY <1>1, <1>2, <2>1, ResolvedType
  <2>3. SetRun(s, r)
    BY <1>6
  <2> HIDE DEF q
  <2>4. f \in [Name -> RowId \cup {Null}]
        /\ f = [old.idByNorm EXCEPT ![key.name] = e.id]
    BY <2>1, <2>2 DEF RunState
  <2> HIDE DEF f
  <2>5. /\ r \in RunState /\ r.idByNorm = f /\ r.entities = q.entities
        /\ r.chunk = q.chunk /\ r.todo = q.todo /\ r.item = q.item
        /\ r.relations = q.relations /\ r.pc = q.pc
        /\ r.counters = q.counters /\ r.count = q.count
        /\ r.src = q.src /\ r.tgt = q.tgt
    BY <2>2, <2>4 DEF RunState
  <2> HIDE DEF r
  <2>6. Same(r, old) /\ Ends(r, old, e.id)
    BY <2>2, <2>5 DEF Same, Ends
  <2>7. Steps(s) /\ run'[s] = r
    BY <1>2, <2>3, <2>5, <2>6, Replace DEF Same
  <2> QED BY <1>6, <2>2, <2>4, <2>5, <2>6, <2>7 DEF ResolvesFound
<1>7. ASSUME known = Null,
             SetRun(s, [old EXCEPT !.pc = IF @ = "source" THEN "newSource"
                                         ELSE "newTarget"])
      PROVE  Steps(s) /\ Same(run'[s], old) /\ run'[s].entities = old.entities
             /\ run'[s].count = old.count
             /\ ResolvesLater(s)
  <2> DEFINE p == IF old.pc = "source" THEN "newSource" ELSE "newTarget"
             r == [old EXCEPT !.pc = p]
  <2>1. SetRun(s, r)
    BY <1>7
  <2>2. /\ p \in {"newSource", "newTarget"}
        /\ \/ old.pc = "source" /\ p = "newSource"
           \/ old.pc = "target" /\ p = "newTarget"
    BY <1>1
  <2> HIDE DEF p
  <2>3. /\ r \in RunState /\ r.pc = p /\ Same(r, old)
        /\ r.entities = old.entities /\ r.src = old.src
        /\ r.idByNorm = old.idByNorm /\ r.count = old.count
    BY <1>2, <2>2 DEF RunState, Same
  <2> HIDE DEF r
  <2>4. Steps(s) /\ run'[s] = r
    BY <1>2, <2>1, <2>3, Replace DEF Same
  <2> QED BY <1>7, <2>2, <2>3, <2>4 DEF ResolvesLater
<1> QED BY <1>1, <1>2, <1>3, <1>4, <1>5, <1>6, <1>7, Zenon

\* A placeholder is written and entered in the dict, or the end stays open.
LEMMA CreatePlaceholderSteps ==
    ASSUME Typed, NEW s \in Run, CreatePlaceholder(s)
    PROVE  LET key == EndKey(s)
               e   == NewEntity(s, key, "PENDING", TRUE)
           IN  /\ Steps(s) /\ run[s] \in RunState
               /\ run[s].pc \in {"newSource", "newTarget"}
               /\ Same(run'[s], run[s])
               /\ e \in EntityRow
               /\ \/ /\ ValidateEntityType(key.type)
                     /\ Ends(run'[s], run[s], e.id)
                     /\ run'[s].idByNorm = [run[s].idByNorm EXCEPT ![key.name] = e.id]
                     /\ run'[s].entities = run[s].entities \cup {e}
                     /\ run'[s].count = run[s].count + 1
                  \/ /\ Ends(run'[s], run[s], Null)
                     /\ run'[s].idByNorm = run[s].idByNorm
                     /\ run'[s].entities = run[s].entities
                     /\ run'[s].count = run[s].count
               /\ UNCHANGED <<ontologyVars, stagingVars>>
<1> DEFINE key == EndKey(s)
           e   == NewEntity(s, key, "PENDING", TRUE)
           n   == NewId(s)
           old == run[s]
<1>1. old.pc \in {"newSource", "newTarget"}
  BY DEF CreatePlaceholder
<1>2. /\ old \in RunState /\ old.chunk \in Chunk /\ old.item \in RelationCandidate
      /\ key \in Key /\ key.name \in Name
  BY <1>1, ResolvingFacts DEF Resolving
<1>3. e \in EntityRow /\ e.id = n /\ n \in RowId
  BY <1>2, NewEntityType, NewIdType
<1>4. UNCHANGED <<ontologyVars, stagingVars>>
  BY DEF CreatePlaceholder
<1>5. CASE ValidateEntityType(key.type)
  <2> DEFINE q == Resolved(old, n)
             f == [q.idByNorm EXCEPT ![key.name] = n]
             c == q.count + 1
             r == [q EXCEPT !.count = c, !.idByNorm = f, !.entities = @ \cup {e}]
  <2>1. /\ q \in RunState /\ Same(q, old) /\ Ends(q, old, n)
        /\ q.idByNorm = old.idByNorm /\ q.entities = old.entities
        /\ q.count = old.count
    BY <1>1, <1>2, <1>3, ResolvedType
  <2>2. SetRun(s, [q EXCEPT !.count = @ + 1, !.idByNorm[key.name] = n,
                            !.entities = @ \cup {e}])
    BY <1>5, <2>1 DEF CreatePlaceholder, NewEntity
  <2>3. SetRun(s, r)
    BY <2>2
  <2> HIDE DEF q, e
  <2> HIDE DEF n, key
  <2>4. q.idByNorm \in [Name -> RowId \cup {Null}] /\ c \in Nat
    BY <2>1 DEF RunState
  <2>5. f \in [Name -> RowId \cup {Null}] /\ c \in Nat
        /\ f = [old.idByNorm EXCEPT ![key.name] = n]
    BY <1>2, <1>3, <2>1, <2>4
  <2> HIDE DEF f
  <2>9. c = old.count + 1
    BY <2>1
  <2> HIDE DEF c
  <2>6. /\ r \in RunState /\ r.idByNorm = f
        /\ r.entities = q.entities \cup {e}
        /\ r.chunk = q.chunk /\ r.todo = q.todo /\ r.item = q.item
        /\ r.relations = q.relations /\ r.pc = q.pc
        /\ r.counters = q.counters /\ r.count = c
        /\ r.src = q.src /\ r.tgt = q.tgt
    BY <1>3, <2>1, <2>5 DEF RunState
  <2> HIDE DEF r
  <2>7. Same(r, old) /\ Ends(r, old, n)
    BY <2>1, <2>6 DEF Same, Ends
  <2>8. Steps(s) /\ run'[s] = r
    BY <1>2, <2>3, <2>6, <2>7, Replace DEF Same
  <2> QED BY <1>1, <1>2, <1>3, <1>4, <1>5, <2>1, <2>5, <2>6, <2>7, <2>8, <2>9 DEF e, key
<1>6. CASE ~ValidateEntityType(key.type)
  <2> DEFINE r == Resolved(old, Null)
  <2>1. /\ r \in RunState /\ Same(r, old) /\ Ends(r, old, Null)
        /\ r.idByNorm = old.idByNorm /\ r.entities = old.entities
        /\ r.count = old.count
    BY <1>1, <1>2, ResolvedType
  <2>2. SetRun(s, r)
    BY <1>6 DEF CreatePlaceholder
  <2> HIDE DEF r
  <2>3. Steps(s) /\ run'[s] = r
    BY <1>2, <2>1, <2>2, Replace DEF Same
  <2> QED BY <1>1, <1>2, <1>3, <1>4, <2>1, <2>3
<1> QED BY <1>5, <1>6

\* The row that InsertRelation writes.
NewRelation(s) ==
    LET i == run[s].item
    IN  [id |-> NewId(s), chunk |-> run[s].chunk,
         status |-> Verdict(ValidateRelation(i.srcKey.type, i.type, i.tgtKey.type)),
         srcKey |-> i.srcKey, type |-> i.type, tgtKey |-> i.tgtKey,
         src |-> run[s].src, tgt |-> run[s].tgt]

LEMMA InsertRelationSteps ==
    ASSUME Typed, NEW s \in Run, InsertRelation(s)
    PROVE  /\ Steps(s) /\ run[s] \in RunState
           /\ run[s].pc = "insert" /\ run'[s].pc = "relations"
           /\ run[s].item \in RelationCandidate
           /\ run'[s].chunk = run[s].chunk
           /\ run'[s].todo = run[s].todo
           /\ run'[s].idByNorm = run[s].idByNorm
           /\ run'[s].entities = run[s].entities
           /\ NewRelation(s) \in RelationRow
           /\ run'[s].relations = run[s].relations \cup {NewRelation(s)}
           /\ run'[s].count = run[s].count + 1
           /\ run'[s].counters = Counted(run[s].counters, "relations",
                ValidateRelation(run[s].item.srcKey.type, run[s].item.type,
                                 run[s].item.tgtKey.type))
           /\ UNCHANGED <<ontologyVars, stagingVars>>
<1> DEFINE old == run[s]
           i   == old.item
           ok  == ValidateRelation(i.srcKey.type, i.type, i.tgtKey.type)
           w   == NewRelation(s)
           cs  == Counted(old.counters, "relations", ok)
           c   == old.count + 1
           r   == [old EXCEPT !.pc = "relations", !.count = c,
                              !.item = Null, !.src = Null, !.tgt = Null,
                              !.relations = @ \cup {w},
                              !.counters = cs]
<1>1. old.pc = "insert"
  BY DEF InsertRelation, At
<1>2. old \in RunState /\ old.chunk \in Chunk /\ i \in RelationCandidate
  BY <1>1, ResolvingFacts DEF Resolving
<1>3. Verdict(ok) \in {"PENDING", "REJECTED"} /\ ok \in BOOLEAN
  BY VerdictType DEF ValidateRelation
<1>4. w \in RelationRow
  BY <1>2, <1>3, NewIdType DEF NewRelation, RelationRow, RelationCandidate, RunState
<1>5. SetRun(s, [old EXCEPT !.pc = "relations", !.count = @ + 1,
                            !.item = Null, !.src = Null, !.tgt = Null,
                            !.relations = @ \cup {w},
                            !.counters = Counted(@, "relations", ok)])
  BY DEF InsertRelation, NewRelation
<1> HIDE DEF w, ok
<1>6. cs \in Counters /\ c \in Nat /\ SetRun(s, r)
  BY <1>2, <1>3, <1>5, CountedType DEF RunState
<1> HIDE DEF cs, c
<1>7. /\ r \in RunState /\ r.pc = "relations" /\ r.chunk = old.chunk
      /\ r.todo = old.todo /\ r.idByNorm = old.idByNorm
      /\ r.entities = old.entities /\ r.relations = old.relations \cup {w}
      /\ r.count = c /\ r.counters = cs
  BY <1>2, <1>4, <1>6 DEF RunState
<1> HIDE DEF r
<1>8. Steps(s) /\ run'[s] = r
  BY <1>2, <1>6, <1>7, Replace DEF Resolving
<1> QED BY <1>1, <1>2, <1>4, <1>7, <1>8 DEF InsertRelation, w, c, cs, ok

LEMMA EndChunkSteps ==
    ASSUME Typed, NEW s \in Run, EndChunk(s)
    PROVE  /\ Steps(s) /\ run[s] \in RunState /\ run'[s].pc = "chunk"
           /\ run[s].pc \in {"entities", "relations"}
           /\ run'[s].todo = run[s].todo
           /\ run'[s].entities = run[s].entities
           /\ run'[s].relations = run[s].relations
           /\ KeepsTally(run'[s], run[s])
           /\ UNCHANGED <<ontologyVars, stagingVars>>
<1> DEFINE r == [run[s] EXCEPT !.pc = "chunk"]
<1>1. run[s] \in RunState /\ run[s].pc \in {"entities", "relations"}
  BY RunningType DEF EndChunk, At, Running
<1>2. /\ r \in RunState /\ r.pc = "chunk" /\ r.todo = run[s].todo
      /\ r.entities = run[s].entities /\ r.relations = run[s].relations
      /\ KeepsTally(r, run[s])
  BY <1>1 DEF RunState, KeepsTally
<1>3. SetRun(s, r)
  BY DEF EndChunk
<1> HIDE DEF r
<1>4. Steps(s) /\ run'[s] = r
  BY <1>2, <1>3, Replace DEF Resolving
<1> QED BY <1>1, <1>2, <1>4 DEF EndChunk

LEMMA EndsRun ==
    ASSUME Typed, NEW s \in Run, Commit(s) \/ Fail(s)
    PROVE  /\ run[s] \in RunState
           /\ run' \in [Run -> RunState \cup {NoRun, DoneRun}]
           /\ ~Running(s)'
           /\ \A z \in Run \ {s} : run'[z] = run[z]
           /\ UNCHANGED ontologyVars
<1>1. Running(s) /\ SetRun(s, DoneRun) /\ UNCHANGED ontologyVars
  BY DEF Commit, Fail, At, Running
<1> QED
  BY <1>1, RunningType
  DEF SetRun, Typed, ExtractionTypeOK, Running, DoneRun

LEMMA StepsPlaced ==
    ASSUME Typed, NEW s \in Run, Steps(s)
    PROVE  Placed'
BY DEF Typed, Placed, Running, Steps

\* Registered names stay registered.
LEMMA OntologyStep ==
    ASSUME OntologyTypeOK, OntologyRequest
    PROVE  /\ OntologyTypeOK'
           /\ \A t \in EntityType : entityType[t] # "absent" => entityType'[t] # "absent"
           /\ \A sig \in Signature :
                relationType[sig] # "absent" => relationType'[sig] # "absent"
<1>1. ASSUME NEW t \in EntityType, NEW x \in {"active", "inactive"},
             entityType' = [entityType EXCEPT ![t] = x], relationType' = relationType
      PROVE  /\ OntologyTypeOK'
             /\ \A u \in EntityType : entityType[u] # "absent" => entityType'[u] # "absent"
  BY <1>1 DEF OntologyTypeOK, Registration
<1>2. ASSUME NEW sig \in Signature, NEW x \in {"active", "inactive"},
             relationType' = [relationType EXCEPT ![sig] = x], entityType' = entityType
      PROVE  /\ OntologyTypeOK'
             /\ \A z \in Signature :
                  relationType[z] # "absent" => relationType'[z] # "absent"
  BY <1>2 DEF OntologyTypeOK, Registration
<1>3. ASSUME NEW t \in EntityType, CreateEntityType(t)
      PROVE  /\ relationType' = relationType
             /\ \E x \in {"active", "inactive"} :
                  entityType' = [entityType EXCEPT ![t] = x]
  BY <1>3 DEF CreateEntityType, OntologyTypeOK, Registration
<1>4. ASSUME NEW t \in EntityType, NEW active \in BOOLEAN,
             UpdateEntityType(t, active) \/ DeactivateEntityType(t)
      PROVE  /\ relationType' = relationType
             /\ \E x \in {"active", "inactive"} :
                  entityType' = [entityType EXCEPT ![t] = x]
  BY <1>4 DEF UpdateEntityType, DeactivateEntityType
<1>5. ASSUME NEW sig \in Signature, CreateRelationType(sig)
      PROVE  /\ entityType' = entityType
             /\ \E x \in {"active", "inactive"} :
                  relationType' = [relationType EXCEPT ![sig] = x]
  BY <1>5 DEF CreateRelationType, OntologyTypeOK, Registration
<1>6. ASSUME NEW sig \in Signature, NEW active \in BOOLEAN,
             UpdateRelationType(sig, active) \/ DeactivateRelationType(sig)
      PROVE  /\ entityType' = entityType
             /\ \E x \in {"active", "inactive"} :
                  relationType' = [relationType EXCEPT ![sig] = x]
  BY <1>6 DEF UpdateRelationType, DeactivateRelationType
<1>7. \/ \E t \in EntityType : CreateEntityType(t)
      \/ \E t \in EntityType, active \in BOOLEAN :
           UpdateEntityType(t, active) \/ DeactivateEntityType(t)
      \/ \E sig \in Signature : CreateRelationType(sig)
      \/ \E sig \in Signature, active \in BOOLEAN :
           UpdateRelationType(sig, active) \/ DeactivateRelationType(sig)
  BY DEF OntologyRequest
<1>8. \/ relationType' = relationType /\ \E t \in EntityType, x \in {"active", "inactive"} :
           entityType' = [entityType EXCEPT ![t] = x]
      \/ entityType' = entityType /\ \E sig \in Signature, x \in {"active", "inactive"} :
           relationType' = [relationType EXCEPT ![sig] = x]
  BY <1>3, <1>4, <1>5, <1>6, <1>7
<1> QED BY <1>1, <1>2, <1>8

LEMMA StepTyped == Typed /\ [Next]_vars => Typed'
<1> SUFFICES ASSUME Typed, [Next]_vars PROVE Typed'
  OBVIOUS
<1>1. CASE UNCHANGED vars
  BY <1>1
  DEF Typed, ExtractionTypeOK, OntologyTypeOK, Placed, Running, vars
<1>2. ASSUME NEW s \in Run, Steps(s), UNCHANGED <<ontologyVars, stagingVars>>
      PROVE  Typed'
  BY <1>2, StepsPlaced
  DEF Typed, ExtractionTypeOK, OntologyTypeOK, Steps, ontologyVars, stagingVars
<1>3. ASSUME NEW s \in Run, Commit(s) \/ Fail(s)
      PROVE  Typed'
  <2>1. /\ entity' \in SUBSET EntityRow /\ relation' \in SUBSET RelationRow
        /\ audit' \in [Run -> Counters \cup {NoAudit}]
    BY <1>3, EndsRun DEF Commit, Fail, Typed, ExtractionTypeOK, RunState, stagingVars
  <2>2. OntologyTypeOK'
    BY <1>3, EndsRun DEF Typed, ExtractionTypeOK, OntologyTypeOK, ontologyVars
  <2>3. Placed'
    BY <1>3, EndsRun DEF Typed, Placed, Running
  <2> QED BY <1>3, <2>1, <2>2, <2>3, EndsRun DEF Typed, ExtractionTypeOK
<1>4. ASSUME NEW e \in entity, NEW key \in Key,
             NEW status \in {"APPROVED", "REJECTED", "MODIFIED", "MERGED"},
             ReviewEntity(e, status, key)
      PROVE  Typed'
  <2>1. [e EXCEPT !.status = status, !.key = key] \in EntityRow
    BY DEF Typed, ExtractionTypeOK, EntityRow
  <2>2. entity' \in SUBSET EntityRow
    BY <1>4, <2>1 DEF ReviewEntity, Typed, ExtractionTypeOK
  <2> QED
    BY <1>4, <2>2
    DEF ReviewEntity, Typed, ExtractionTypeOK, OntologyTypeOK, Placed, Running,
        ontologyVars
<1>5. CASE OntologyRequest /\ UNCHANGED <<stagingVars, run>>
  BY <1>5, OntologyStep
  DEF Typed, ExtractionTypeOK, Placed, Running, stagingVars
<1>6. ASSUME NEW s \in Run, RunStep(s)
      PROVE  Typed'
  <2>1. CASE \E d \in Document : ExtractDocument(s, d)
    BY <1>2, <2>1, StartRunSteps, ExtractionAssumption DEF ExtractDocument
  <2>2. CASE \E c \in Chunk : ExtractChunk(s, c)
    BY <1>2, <2>2, StartRunSteps DEF ExtractChunk
  <2>3. CASE NextChunk(s)
    BY <1>2, <2>3, NextChunkSteps
  <2>4. CASE \E key \in Key : SaveEntity(s, key)
    BY <1>2, <2>4, SaveEntitySteps
  <2>5. CASE \E candidate \in RelationCandidate : SaveRelation(s, candidate)
    BY <1>2, <2>5, SaveRelationSteps
  <2>6. CASE ResolveEntityId(s)
    BY <1>2, <2>6, ResolveSteps
  <2>7. CASE CreatePlaceholder(s)
    BY <1>2, <2>7, CreatePlaceholderSteps
  <2>8. CASE InsertRelation(s)
    BY <1>2, <2>8, InsertRelationSteps
  <2>9. CASE EndChunk(s)
    BY <1>2, <2>9, EndChunkSteps
  <2>10. CASE Commit(s) \/ Fail(s)
    BY <1>3, <2>10
  <2> QED
    BY <1>6, <2>1, <2>2, <2>3, <2>4, <2>5, <2>6, <2>7, <2>8, <2>9, <2>10 DEF RunStep
<1> QED BY <1>1, <1>4, <1>5, <1>6 DEF Next

THEOREM ExtractionTyped == Spec => []Typed
BY InitTyped, StepTyped, PTL DEF Spec

\* Type correctness: rows, dicts and counters stay of their types in every run.
THEOREM ExtractionTypeCorrect == Spec => []ExtractionTypeOK
BY ExtractionTyped, PTL DEF Typed

-----------------------------------------------------------------------------
(* Foreign keys.  Every id that a run holds, in its dict, as the resolved end *)
(* of its current item or in a flushed relation, is of a row of the chunk     *)
(* that is committed or flushed by this very run; rows keep id and chunk.     *)

RunKeys(r, rows) ==
    /\ r.pc # "chunk" => \A n \in Name : KeyHolds(rows, r.chunk, r.idByNorm[n])
    /\ r.pc \in {"target", "newTarget", "insert"} => KeyHolds(rows, r.chunk, r.src)
    /\ r.pc = "insert" => KeyHolds(rows, r.chunk, r.tgt)
    /\ \A x \in r.relations : /\ KeyHolds(rows, x.chunk, x.src)
                              /\ KeyHolds(rows, x.chunk, x.tgt)

CommittedKeys ==
    \A x \in relation : /\ KeyHolds(entity, x.chunk, x.src)
                        /\ KeyHolds(entity, x.chunk, x.tgt)

RunsKeys == \A s \in Run : Running(s) => RunKeys(run[s], entity \cup run[s].entities)

KeyInv == CommittedKeys /\ RunsKeys

LEMMA KeyInvSuffices == KeyInv => KeysInChunk
BY DEF KeyInv, CommittedKeys, RunsKeys, RunKeys, KeysInChunk

\* Every row has a row of the same id and chunk in more.
Covers(more, rows) ==
    \A e \in rows : \E f \in more : f.id = e.id /\ f.chunk = e.chunk

LEMMA KeyHoldsOn ==
    ASSUME NEW rows, NEW more, Covers(more, rows), NEW c, NEW id,
           KeyHolds(rows, c, id)
    PROVE  KeyHolds(more, c, id)
BY DEF Covers, KeyHolds

LEMMA RunKeysOn ==
    ASSUME NEW rows, NEW more, Covers(more, rows), NEW r, RunKeys(r, rows)
    PROVE  RunKeys(r, more)
BY KeyHoldsOn DEF RunKeys

LEMMA InitKeys == Init => KeyInv
BY DEF Init, KeyInv, CommittedKeys, RunsKeys, Running, NoRun

\* A step of a run, which touches no committed row, needs only that run's keys.
LEMMA StepsKeys ==
    ASSUME KeyInv, NEW s \in Run, Steps(s), UNCHANGED <<ontologyVars, stagingVars>>,
           RunKeys(run'[s], entity \cup run'[s].entities)
    PROVE  KeyInv'
BY DEF KeyInv, CommittedKeys, RunsKeys, Running, Steps, stagingVars

\* An end is resolved to an id of the chunk.
LEMMA EndsKeys ==
    ASSUME NEW o, NEW r, NEW rows, NEW more, Covers(more, rows), RunKeys(o, rows),
           o.pc \in Resolving, Same(r, o),
           NEW id, Ends(r, o, id), KeyHolds(more, o.chunk, id),
           \A n \in Name : KeyHolds(more, o.chunk, r.idByNorm[n])
    PROVE  RunKeys(r, more)
<1>1. RunKeys(o, more)
  BY RunKeysOn
<1> QED BY <1>1 DEF RunKeys, Ends, Same, Resolving

LEMMA StepKeys == Typed /\ KeyInv /\ [Next]_vars => KeyInv'
<1> SUFFICES ASSUME Typed, KeyInv, [Next]_vars PROVE KeyInv'
  OBVIOUS
<1>1. CASE UNCHANGED <<entity, relation, run>>
  BY <1>1 DEF KeyInv, CommittedKeys, RunsKeys, Running
<1>2. ASSUME NEW s \in Run, run[s] \in RunState
      PROVE  RunKeys(run[s], entity \cup run[s].entities)
  BY <1>2, RunningType DEF KeyInv, RunsKeys
<1>3. ASSUME NEW s \in Run,
             (\E d \in Document : ExtractDocument(s, d))
               \/ (\E c \in Chunk : ExtractChunk(s, c))
      PROVE  KeyInv'
  <2>1. PICK chunks \in SUBSET Chunk : StartRun(s, chunks)
    BY <1>3, ExtractionAssumption DEF ExtractDocument, ExtractChunk
  <2>2. /\ Steps(s) /\ run'[s].pc = "chunk" /\ run'[s].relations = {}
        /\ UNCHANGED <<ontologyVars, stagingVars>>
    BY <2>1, StartRunSteps
  <2>3. RunKeys(run'[s], entity \cup run'[s].entities)
    BY <2>2 DEF RunKeys
  <2> QED BY <2>2, <2>3, StepsKeys
<1>4. ASSUME NEW s \in Run, NextChunk(s)
      PROVE  KeyInv'
  <2>1. \A n \in Name : NoNames[n] = Null
    BY DEF NoNames
  <2>2. RunKeys(run'[s], entity \cup run'[s].entities)
    BY <1>2, <1>4, <2>1, NextChunkSteps DEF RunKeys, KeyHolds
  <2> QED BY <1>4, <2>2, NextChunkSteps, StepsKeys
<1>5. ASSUME NEW s \in Run, NEW key \in Key, SaveEntity(s, key)
      PROVE  KeyInv'
  <2> DEFINE e == NewEntity(s, key, Verdict(ValidateEntityType(key.type)), FALSE)
             rows == entity \cup run[s].entities
             more == entity \cup run'[s].entities
  <2>1. /\ Steps(s) /\ run[s] \in RunState
        /\ run[s].pc = "entities" /\ run'[s].pc = "entities"
        /\ run'[s].chunk = run[s].chunk
        /\ run'[s].idByNorm = [run[s].idByNorm EXCEPT ![key.name] = NewId(s)]
        /\ run'[s].entities = run[s].entities \cup {e}
        /\ run'[s].relations = run[s].relations
        /\ UNCHANGED <<ontologyVars, stagingVars>>
    BY <1>5, SaveEntitySteps
  <2>2. e.id = NewId(s) /\ e.chunk = run[s].chunk
    BY DEF NewEntity
  <2> HIDE DEF e
  <2>3. Covers(more, rows) /\ e \in more
    BY <2>1 DEF Covers
  <2>4. RunKeys(run[s], more)
    BY <1>2, <2>1, <2>3, RunKeysOn
  <2>5. run[s].idByNorm \in [Name -> RowId \cup {Null}]
    BY <2>1 DEF RunState
  <2>6. \A n \in Name : run'[s].idByNorm[n] =
          IF n = key.name THEN NewId(s) ELSE run[s].idByNorm[n]
    BY <2>1, <2>5
  <2>7. \A n \in Name : KeyHolds(more, run[s].chunk, run'[s].idByNorm[n])
    BY <2>1, <2>2, <2>3, <2>4, <2>6 DEF RunKeys, KeyHolds
  <2>8. RunKeys(run'[s], more)
    BY <2>1, <2>4, <2>7 DEF RunKeys
  <2> QED BY <2>1, <2>8, StepsKeys
<1>6. ASSUME NEW s \in Run, NEW candidate \in RelationCandidate,
             SaveRelation(s, candidate)
      PROVE  KeyInv'
  <2>1. RunKeys(run'[s], entity \cup run'[s].entities)
    BY <1>2, <1>6, SaveRelationSteps DEF RunKeys
  <2> QED BY <1>6, <2>1, SaveRelationSteps, StepsKeys
<1>7. ASSUME NEW s \in Run, ResolveEntityId(s)
      PROVE  KeyInv'
  <2> DEFINE rows == entity \cup run[s].entities
  <2>1. /\ Steps(s) /\ run[s] \in RunState /\ run[s].pc \in {"source", "target"}
        /\ Same(run'[s], run[s]) /\ run'[s].entities = run[s].entities
        /\ UNCHANGED <<ontologyVars, stagingVars>>
    BY <1>7, ResolveSteps
  <2>2. RunKeys(run[s], rows) /\ EndKey(s).name \in Name
    BY <1>2, <2>1, ResolvingFacts DEF Resolving
  <2>3. /\ Covers(rows, rows)
        /\ \A n \in Name : KeyHolds(rows, run[s].chunk, run[s].idByNorm[n])
    BY <2>1, <2>2 DEF Covers, RunKeys
  <2>4. CASE ResolvesKnown(s)
    <3>1. RunKeys(run'[s], rows)
      BY <2>1, <2>2, <2>3, <2>4, EndsKeys DEF ResolvesKnown, Resolving
    <3> QED BY <2>1, <3>1, StepsKeys
  <2>5. CASE ResolvesFound(s)
    <3>1. PICK e \in FindPendingEntity(s, EndKey(s)) :
            /\ Ends(run'[s], run[s], e.id)
            /\ run'[s].idByNorm = [run[s].idByNorm EXCEPT ![EndKey(s).name] = e.id]
      BY <2>5 DEF ResolvesFound
    <3>2. KeyHolds(rows, run[s].chunk, e.id)
      BY DEF FindPendingEntity, KeyHolds
    <3>3. run[s].idByNorm \in [Name -> RowId \cup {Null}]
      BY <2>1 DEF RunState
    <3>4. \A n \in Name : run'[s].idByNorm[n] =
            IF n = EndKey(s).name THEN e.id ELSE run[s].idByNorm[n]
      BY <3>1, <3>3
    <3>5. \A n \in Name : KeyHolds(rows, run[s].chunk, run'[s].idByNorm[n])
      BY <2>3, <3>2, <3>4
    <3>6. RunKeys(run'[s], rows)
      BY <2>1, <2>2, <2>3, <3>1, <3>2, <3>5, EndsKeys DEF Resolving
    <3> QED BY <2>1, <3>6, StepsKeys
  <2>6. CASE ResolvesLater(s)
    <3>1. RunKeys(run'[s], rows)
      BY <2>1, <2>2, <2>6 DEF ResolvesLater, RunKeys, Same
    <3> QED BY <2>1, <3>1, StepsKeys
  <2> QED BY <1>7, <2>4, <2>5, <2>6, ResolveSteps
<1>8. ASSUME NEW s \in Run, CreatePlaceholder(s)
      PROVE  KeyInv'
  <2> DEFINE key == EndKey(s)
             e == NewEntity(s, key, "PENDING", TRUE)
             rows == entity \cup run[s].entities
             more == entity \cup run'[s].entities
  <2>1. /\ Steps(s) /\ run[s] \in RunState
        /\ run[s].pc \in {"newSource", "newTarget"}
        /\ Same(run'[s], run[s])
        /\ UNCHANGED <<ontologyVars, stagingVars>>
    BY <1>8, CreatePlaceholderSteps
  <2>2. \/ /\ Ends(run'[s], run[s], e.id)
           /\ run'[s].idByNorm = [run[s].idByNorm EXCEPT ![key.name] = e.id]
           /\ run'[s].entities = run[s].entities \cup {e}
        \/ /\ Ends(run'[s], run[s], Null)
           /\ run'[s].idByNorm = run[s].idByNorm
           /\ run'[s].entities = run[s].entities
    BY <1>8, CreatePlaceholderSteps
  <2>3. e.chunk = run[s].chunk
    BY DEF NewEntity
  <2> HIDE DEF e
  <2>4. RunKeys(run[s], rows) /\ Covers(more, rows)
    BY <1>2, <2>1, <2>2 DEF Covers
  <2>5. \A n \in Name : KeyHolds(more, run[s].chunk, run[s].idByNorm[n])
    BY <2>1, <2>4, KeyHoldsOn DEF RunKeys
  <2>6. PICK id : /\ Ends(run'[s], run[s], id)
                  /\ KeyHolds(more, run[s].chunk, id)
                  /\ \A n \in Name :
                       KeyHolds(more, run[s].chunk, run'[s].idByNorm[n])
    <3>1. CASE /\ Ends(run'[s], run[s], e.id)
               /\ run'[s].idByNorm = [run[s].idByNorm EXCEPT ![key.name] = e.id]
               /\ run'[s].entities = run[s].entities \cup {e}
      <4>1. KeyHolds(more, run[s].chunk, e.id)
        BY <2>3, <3>1 DEF KeyHolds
      <4>2. run[s].idByNorm \in [Name -> RowId \cup {Null}]
        BY <2>1 DEF RunState
      <4>3. \A n \in Name : run'[s].idByNorm[n] =
              IF n = key.name THEN e.id ELSE run[s].idByNorm[n]
        BY <3>1, <4>2
      <4> QED BY <2>5, <3>1, <4>1, <4>3
    <3>2. CASE /\ Ends(run'[s], run[s], Null)
               /\ run'[s].idByNorm = run[s].idByNorm
      BY <2>5, <3>2 DEF KeyHolds
    <3> QED BY <2>2, <3>1, <3>2
  <2>7. RunKeys(run'[s], more)
    BY <2>1, <2>4, <2>6, EndsKeys DEF Resolving
  <2> QED BY <2>1, <2>7, StepsKeys
<1>9. ASSUME NEW s \in Run, InsertRelation(s)
      PROVE  KeyInv'
  <2> DEFINE w == NewRelation(s)
  <2>1. w.chunk = run[s].chunk /\ w.src = run[s].src /\ w.tgt = run[s].tgt
    BY DEF NewRelation
  <2>2. /\ Steps(s) /\ run[s] \in RunState
        /\ run[s].pc = "insert" /\ run'[s].pc = "relations"
        /\ run'[s].chunk = run[s].chunk
        /\ run'[s].idByNorm = run[s].idByNorm
        /\ run'[s].entities = run[s].entities
        /\ run'[s].relations = run[s].relations \cup {w}
        /\ UNCHANGED <<ontologyVars, stagingVars>>
    BY <1>9, InsertRelationSteps
  <2> HIDE DEF w
  <2>3. RunKeys(run'[s], entity \cup run'[s].entities)
    BY <1>2, <2>1, <2>2 DEF RunKeys
  <2> QED BY <2>2, <2>3, StepsKeys
<1>10. ASSUME NEW s \in Run, EndChunk(s)
       PROVE  KeyInv'
  <2>1. RunKeys(run'[s], entity \cup run'[s].entities)
    BY <1>2, <1>10, EndChunkSteps DEF RunKeys
  <2> QED BY <1>10, <2>1, EndChunkSteps, StepsKeys
<1>11. ASSUME NEW s \in Run, Commit(s)
       PROVE  KeyInv'
  <2>1. /\ entity' = entity \cup run[s].entities
        /\ relation' = relation \cup run[s].relations
    BY <1>11 DEF Commit
  <2>2. RunKeys(run[s], entity')
    BY <1>2, <1>11, <2>1, EndsRun
  <2>3. Covers(entity', entity)
    BY <2>1 DEF Covers
  <2>4. CommittedKeys'
    <3> SUFFICES ASSUME NEW x \in relation'
                 PROVE  /\ KeyHolds(entity', x.chunk, x.src)
                        /\ KeyHolds(entity', x.chunk, x.tgt)
      BY DEF CommittedKeys
    <3>1. CASE x \in relation
      <4>1. KeyHolds(entity, x.chunk, x.src) /\ KeyHolds(entity, x.chunk, x.tgt)
        BY <3>1 DEF KeyInv, CommittedKeys
      <4> QED BY <2>3, <4>1, KeyHoldsOn
    <3>2. CASE x \in run[s].relations
      BY <2>2, <3>2 DEF RunKeys
    <3> QED BY <2>1, <3>1, <3>2
  <2>5. ASSUME NEW z \in Run, Running(z)'
        PROVE  RunKeys(run'[z], entity' \cup run'[z].entities)
    <3>1. z # s /\ run'[z] = run[z] /\ Running(z)
      BY <1>11, <2>5, EndsRun DEF Running
    <3>2. Covers(entity' \cup run[z].entities, entity \cup run[z].entities)
      BY <2>1 DEF Covers
    <3>3. RunKeys(run[z], entity \cup run[z].entities)
      BY <3>1 DEF KeyInv, RunsKeys
    <3> QED BY <3>1, <3>2, <3>3, RunKeysOn
  <2> QED BY <2>4, <2>5 DEF KeyInv, RunsKeys
<1>12. ASSUME NEW s \in Run, Fail(s)
       PROVE  KeyInv'
  <2>1. entity' = entity /\ relation' = relation
    BY <1>12 DEF Fail, stagingVars
  <2>2. ~Running(s)' /\ \A z \in Run \ {s} : run'[z] = run[z]
    BY <1>12, EndsRun
  <2> QED BY <2>1, <2>2 DEF KeyInv, CommittedKeys, RunsKeys, Running
<1>13. ASSUME NEW e \in entity, NEW key \in Key,
              NEW status \in {"APPROVED", "REJECTED", "MODIFIED", "MERGED"},
              ReviewEntity(e, status, key)
       PROVE  KeyInv'
  <2> DEFINE f == [e EXCEPT !.status = status, !.key = key]
  <2>1. f.id = e.id /\ f.chunk = e.chunk
    BY DEF Typed, ExtractionTypeOK, EntityRow
  <2>2. entity' = (entity \ {e}) \cup {f} /\ relation' = relation /\ run' = run
    BY <1>13 DEF ReviewEntity
  <2> HIDE DEF f
  <2>3. Covers(entity', entity)
    BY <2>1, <2>2 DEF Covers
  <2>4. CommittedKeys'
    BY <2>2, <2>3, KeyHoldsOn DEF KeyInv, CommittedKeys
  <2>5. ASSUME NEW z \in Run, Running(z)
        PROVE  RunKeys(run[z], entity' \cup run[z].entities)
    <3>1. Covers(entity' \cup run[z].entities, entity \cup run[z].entities)
      BY <2>3 DEF Covers
    <3> QED BY <2>5, <3>1, RunKeysOn DEF KeyInv, RunsKeys
  <2> QED BY <2>2, <2>4, <2>5 DEF KeyInv, RunsKeys, Running
<1> QED
  BY <1>1, <1>3, <1>4, <1>5, <1>6, <1>7, <1>8, <1>9, <1>10, <1>11, <1>12, <1>13
  DEF Next, RunStep, stagingVars, vars

THEOREM KeysInvariant == Spec => []KeyInv
BY ExtractionTyped, InitKeys, StepKeys, PTL DEF Spec

\* Whatever the provider answers and whoever reviews meanwhile, no relation ever
\* points to an entity of another chunk or to a row that is not there.
THEOREM RelationsStayInChunk == Spec => []KeysInChunk
BY KeysInvariant, KeyInvSuffices, PTL

-----------------------------------------------------------------------------
(* Validation.  Registered names stay registered, so what was active when a   *)
(* row was flushed is on record when it is committed and ever after.          *)

CheckedEntities(rows) ==
    \A e \in rows : e.status = "PENDING" => entityType[e.key.type] # "absent"

SignatureOf(x) ==
    [source |-> x.srcKey.type, name |-> x.type, target |-> x.tgtKey.type]

CheckedRelations(rows) ==
    \A x \in rows : x.status = "PENDING" => relationType[SignatureOf(x)] # "absent"

SchemaInv ==
    /\ CheckedEntities(entity) /\ CheckedRelations(relation)
    /\ \A s \in Run : Running(s) => /\ CheckedEntities(run[s].entities)
                                    /\ CheckedRelations(run[s].relations)

LEMMA SchemaInvSuffices == SchemaInv => SchemaChecked
BY DEF SchemaInv, CheckedEntities, CheckedRelations, SignatureOf, SchemaChecked

LEMMA InitSchema == Init => SchemaInv
BY DEF Init, SchemaInv, CheckedEntities, CheckedRelations, Running, NoRun

\* A step of a run, which touches neither the registry nor a committed row.
LEMMA StepsSchema ==
    ASSUME SchemaInv, NEW s \in Run, Steps(s), UNCHANGED <<ontologyVars, stagingVars>>,
           CheckedEntities(run'[s].entities), CheckedRelations(run'[s].relations)
    PROVE  SchemaInv'
BY DEF SchemaInv, CheckedEntities, CheckedRelations, Running, Steps, ontologyVars,
       stagingVars

LEMMA KeptSchema ==
    ASSUME SchemaInv, NEW s \in Run, Typed, run[s] \in RunState, Steps(s),
           UNCHANGED <<ontologyVars, stagingVars>>,
           run'[s].entities = run[s].entities, run'[s].relations = run[s].relations
    PROVE  SchemaInv'
BY StepsSchema, RunningType DEF SchemaInv

\* The registry only gains names.
LEMMA RegistrySchema ==
    ASSUME Typed, SchemaInv, OntologyRequest
    PROVE  /\ \A rows \in SUBSET EntityRow :
                CheckedEntities(rows) => CheckedEntities(rows)'
           /\ \A rows \in SUBSET RelationRow :
                CheckedRelations(rows) => CheckedRelations(rows)'
<1>1. /\ \A t \in EntityType : entityType[t] # "absent" => entityType'[t] # "absent"
      /\ \A sig \in Signature :
           relationType[sig] # "absent" => relationType'[sig] # "absent"
  BY OntologyStep DEF Typed, ExtractionTypeOK
<1>2. \A e \in EntityRow : e.key.type \in EntityType
  BY DEF EntityRow, Key
<1>3. \A x \in RelationRow : SignatureOf(x) \in Signature
  BY DEF RelationRow, Key, SignatureOf, Signature
<1> QED BY <1>1, <1>2, <1>3 DEF CheckedEntities, CheckedRelations, SignatureOf

LEMMA StepSchema == Typed /\ SchemaInv /\ [Next]_vars => SchemaInv'
<1> SUFFICES ASSUME Typed, SchemaInv, [Next]_vars PROVE SchemaInv'
  OBVIOUS
<1>1. CASE UNCHANGED vars
  BY <1>1 DEF SchemaInv, CheckedEntities, CheckedRelations, Running, vars
<1>2. ASSUME NEW s \in Run, run[s] \in RunState
      PROVE  CheckedEntities(run[s].entities) /\ CheckedRelations(run[s].relations)
  BY <1>2, RunningType DEF SchemaInv
<1>3. ASSUME NEW s \in Run,
             (\E d \in Document : ExtractDocument(s, d))
               \/ (\E c \in Chunk : ExtractChunk(s, c))
      PROVE  SchemaInv'
  <2>1. PICK chunks \in SUBSET Chunk : StartRun(s, chunks)
    BY <1>3, ExtractionAssumption DEF ExtractDocument, ExtractChunk
  <2>2. /\ Steps(s) /\ run'[s].entities = {} /\ run'[s].relations = {}
        /\ UNCHANGED <<ontologyVars, stagingVars>>
    BY <2>1, StartRunSteps
  <2>3. CheckedEntities(run'[s].entities) /\ CheckedRelations(run'[s].relations)
    BY <2>2 DEF CheckedEntities, CheckedRelations
  <2> QED BY <2>2, <2>3, StepsSchema
<1>4. ASSUME NEW s \in Run, NextChunk(s)
      PROVE  SchemaInv'
  BY <1>4, NextChunkSteps, KeptSchema
<1>5. ASSUME NEW s \in Run, NEW key \in Key, SaveEntity(s, key)
      PROVE  SchemaInv'
  <2> DEFINE e == NewEntity(s, key, Verdict(ValidateEntityType(key.type)), FALSE)
  <2>1. /\ Steps(s) /\ run[s] \in RunState
        /\ run'[s].entities = run[s].entities \cup {e}
        /\ run'[s].relations = run[s].relations
        /\ UNCHANGED <<ontologyVars, stagingVars>>
    BY <1>5, SaveEntitySteps
  <2>2. e.status = "PENDING" => entityType[e.key.type] # "absent"
    BY DEF NewEntity, Verdict, ValidateEntityType
  <2> HIDE DEF e
  <2>3. CheckedEntities(run'[s].entities) /\ CheckedRelations(run'[s].relations)
    BY <1>2, <2>1, <2>2 DEF CheckedEntities
  <2> QED BY <2>1, <2>3, StepsSchema
<1>6. ASSUME NEW s \in Run, NEW candidate \in RelationCandidate,
             SaveRelation(s, candidate)
      PROVE  SchemaInv'
  BY <1>6, SaveRelationSteps, KeptSchema
<1>7. ASSUME NEW s \in Run, ResolveEntityId(s)
      PROVE  SchemaInv'
  BY <1>7, ResolveSteps, KeptSchema DEF Same
<1>8. ASSUME NEW s \in Run, CreatePlaceholder(s)
      PROVE  SchemaInv'
  <2> DEFINE key == EndKey(s)
             e == NewEntity(s, key, "PENDING", TRUE)
  <2>1. /\ Steps(s) /\ run[s] \in RunState /\ Same(run'[s], run[s])
        /\ \/ /\ ValidateEntityType(key.type)
              /\ run'[s].entities = run[s].entities \cup {e}
           \/ run'[s].entities = run[s].entities
        /\ UNCHANGED <<ontologyVars, stagingVars>>
    BY <1>8, CreatePlaceholderSteps
  <2>2. ValidateEntityType(key.type) => entityType[e.key.type] # "absent"
    BY DEF NewEntity, ValidateEntityType
  <2> HIDE DEF e, key
  <2>3. CheckedEntities(run'[s].entities) /\ CheckedRelations(run'[s].relations)
    BY <1>2, <2>1, <2>2 DEF CheckedEntities, Same
  <2> QED BY <2>1, <2>3, StepsSchema
<1>9. ASSUME NEW s \in Run, InsertRelation(s)
      PROVE  SchemaInv'
  <2> DEFINE w == NewRelation(s)
  <2>1. /\ Steps(s) /\ run[s] \in RunState
        /\ run'[s].entities = run[s].entities
        /\ run'[s].relations = run[s].relations \cup {w}
        /\ UNCHANGED <<ontologyVars, stagingVars>>
    BY <1>9, InsertRelationSteps
  <2>2. w.status = "PENDING" => relationType[SignatureOf(w)] # "absent"
    BY DEF NewRelation, SignatureOf, Verdict, ValidateRelation
  <2> HIDE DEF w
  <2>3. CheckedEntities(run'[s].entities) /\ CheckedRelations(run'[s].relations)
    BY <1>2, <2>1, <2>2 DEF CheckedRelations
  <2> QED BY <2>1, <2>3, StepsSchema
<1>10. ASSUME NEW s \in Run, EndChunk(s)
       PROVE  SchemaInv'
  BY <1>10, EndChunkSteps, KeptSchema
<1>11. ASSUME NEW s \in Run, Commit(s) \/ Fail(s)
       PROVE  SchemaInv'
  <2>1. /\ run[s] \in RunState /\ ~Running(s)'
        /\ \A z \in Run \ {s} : run'[z] = run[z]
        /\ UNCHANGED ontologyVars
    BY <1>11, EndsRun
  <2>2. CheckedEntities(entity)' /\ CheckedRelations(relation)'
    BY <1>2, <1>11, <2>1
    DEF Commit, Fail, stagingVars, ontologyVars, SchemaInv, CheckedEntities,
        CheckedRelations
  <2>3. ASSUME NEW z \in Run, Running(z)'
        PROVE  CheckedEntities(run[z].entities)' /\ CheckedRelations(run[z].relations)'
    <3>1. z # s /\ run'[z] = run[z] /\ Running(z)
      BY <2>1, <2>3 DEF Running
    <3> QED BY <2>1, <3>1
            DEF SchemaInv, CheckedEntities, CheckedRelations, ontologyVars
  <2> QED BY <2>2, <2>3 DEF SchemaInv
<1>12. ASSUME NEW e \in entity, NEW key \in Key,
              NEW status \in {"APPROVED", "REJECTED", "MODIFIED", "MERGED"},
              ReviewEntity(e, status, key)
       PROVE  SchemaInv'
  <2> DEFINE f == [e EXCEPT !.status = status, !.key = key]
  <2>1. f.status # "PENDING"
    BY DEF Typed, ExtractionTypeOK, EntityRow
  <2>2. entity' = (entity \ {e}) \cup {f} /\ relation' = relation /\ run' = run
        /\ UNCHANGED ontologyVars
    BY <1>12 DEF ReviewEntity
  <2> HIDE DEF f
  <2> QED
    BY <2>1, <2>2
    DEF SchemaInv, CheckedEntities, CheckedRelations, Running, ontologyVars
<1>13. CASE OntologyRequest /\ UNCHANGED <<stagingVars, run>>
  <2>1. entity' = entity /\ relation' = relation /\ run' = run
    BY <1>13 DEF stagingVars
  <2>2. entity \in SUBSET EntityRow /\ relation \in SUBSET RelationRow
    BY DEF Typed, ExtractionTypeOK
  <2>3. CheckedEntities(entity)' /\ CheckedRelations(relation)'
    BY <1>13, <2>1, <2>2, RegistrySchema DEF SchemaInv, CheckedEntities, CheckedRelations
  <2>4. ASSUME NEW s \in Run, Running(s)'
        PROVE  CheckedEntities(run[s].entities)' /\ CheckedRelations(run[s].relations)'
    <3>1. Running(s) /\ run[s] \in RunState
      BY <2>1, <2>4, RunningType DEF Running
    <3>2. run[s].entities \in SUBSET EntityRow /\ run[s].relations \in SUBSET RelationRow
      BY <3>1 DEF RunState
    <3>3. CheckedEntities(run[s].entities) /\ CheckedRelations(run[s].relations)
      BY <3>1 DEF SchemaInv
    <3> QED BY <1>13, <2>1, <3>2, <3>3, RegistrySchema
            DEF CheckedEntities, CheckedRelations
  <2> QED BY <2>3, <2>4 DEF SchemaInv
<1> QED
  BY <1>1, <1>3, <1>4, <1>5, <1>6, <1>7, <1>8, <1>9, <1>10, <1>11, <1>12, <1>13
  DEF Next, RunStep

\* Whatever is answered, nothing waits for review under a type or a signature
\* the registry never had, a placeholder included.
THEOREM PendingIsRegistered == Spec => []SchemaChecked
<1>1. Spec => []SchemaInv
  BY ExtractionTyped, InitSchema, StepSchema, PTL DEF Spec
<1> QED BY <1>1, SchemaInvSuffices, PTL

-----------------------------------------------------------------------------
(* Placeholders.  Within one chunk the dict has every name that a flushed row *)
(* has, entities come before relations, and a placeholder is made for a name  *)
(* the dict has not; no chunk that has rows is still to do.                   *)

EndKeyOf(r) == IF r.pc \in {"source", "newSource"} THEN r.item.srcKey ELSE r.item.tgtKey

Fresh(r) ==
    /\ \A e \in r.entities : e.chunk \notin r.todo
    /\ r.pc # "chunk" => r.chunk \notin r.todo

Listed(r) ==
    r.pc # "chunk" =>
        \A e \in r.entities : e.chunk = r.chunk => r.idByNorm[e.key.name] # Null

EntitiesFirst(r) ==
    r.pc = "entities" => \A e \in r.entities : e.chunk = r.chunk => ~e.placeholder

Unlisted(r) ==
    r.pc \in {"newSource", "newTarget"} => r.idByNorm[EndKeyOf(r).name] = Null

Sole(rows) ==
    \A p, e \in rows :
        p.placeholder /\ e.chunk = p.chunk /\ e.key.name = p.key.name => e = p

RunPlaces(r) ==
    Fresh(r) /\ Listed(r) /\ EntitiesFirst(r) /\ Unlisted(r) /\ Sole(r.entities)

PlaceInv == \A s \in Run : Running(s) => RunPlaces(run[s])

LEMMA PlaceInvSuffices == PlaceInv => OnePlaceholder
BY DEF PlaceInv, RunPlaces, Sole, OnePlaceholder

LEMMA InitPlaces == Init => PlaceInv
BY DEF Init, PlaceInv, Running, NoRun

LEMMA StepsPlaces ==
    ASSUME PlaceInv, NEW s \in Run, Steps(s), RunPlaces(run'[s])
    PROVE  PlaceInv'
BY DEF PlaceInv, Running, Steps

LEMMA IdsAreNotNull == \A id \in RowId : id # Null
BY ExtractionAssumption DEF RowId

LEMMA StepPlaces == Typed /\ PlaceInv /\ [Next]_vars => PlaceInv'
<1> SUFFICES ASSUME Typed, PlaceInv, [Next]_vars PROVE PlaceInv'
  OBVIOUS
<1>1. CASE UNCHANGED run
  BY <1>1 DEF PlaceInv, Running
<1>2. ASSUME NEW s \in Run, run[s] \in RunState
      PROVE  /\ Fresh(run[s]) /\ Listed(run[s]) /\ EntitiesFirst(run[s])
             /\ Unlisted(run[s]) /\ Sole(run[s].entities)
  BY <1>2, RunningType DEF PlaceInv, RunPlaces
<1>3. ASSUME NEW s \in Run,
             (\E d \in Document : ExtractDocument(s, d))
               \/ (\E c \in Chunk : ExtractChunk(s, c))
      PROVE  PlaceInv'
  <2>1. PICK chunks \in SUBSET Chunk : StartRun(s, chunks)
    BY <1>3, ExtractionAssumption DEF ExtractDocument, ExtractChunk
  <2>2. Steps(s) /\ run'[s].pc = "chunk" /\ run'[s].entities = {}
    BY <2>1, StartRunSteps
  <2>3. RunPlaces(run'[s])
    BY <2>2 DEF RunPlaces, Fresh, Listed, EntitiesFirst, Unlisted, Sole
  <2> QED BY <2>2, <2>3, StepsPlaces
<1>4. ASSUME NEW s \in Run, NextChunk(s)
      PROVE  PlaceInv'
  <2>1. /\ Steps(s) /\ run[s] \in RunState
        /\ run'[s].pc = "entities"
        /\ run'[s].chunk \in run[s].todo
        /\ run'[s].todo = run[s].todo \ {run'[s].chunk}
        /\ run'[s].entities = run[s].entities
    BY <1>4, NextChunkSteps
  <2>2. \A e \in run[s].entities : e.chunk # run'[s].chunk /\ e.chunk \notin run[s].todo
    BY <1>2, <2>1 DEF Fresh
  <2>3. /\ Fresh(run'[s]) /\ Listed(run'[s]) /\ EntitiesFirst(run'[s])
        /\ Unlisted(run'[s]) /\ Sole(run'[s].entities)
    BY <1>2, <2>1, <2>2 DEF Fresh, Listed, EntitiesFirst, Unlisted
  <2> QED BY <2>1, <2>3, StepsPlaces DEF RunPlaces
<1>5. ASSUME NEW s \in Run, NEW key \in Key, SaveEntity(s, key)
      PROVE  PlaceInv'
  <2> DEFINE e == NewEntity(s, key, Verdict(ValidateEntityType(key.type)), FALSE)
             dict == run[s].idByNorm
  <2>1. /\ Steps(s) /\ run[s] \in RunState
        /\ run[s].pc = "entities" /\ run'[s].pc = "entities"
        /\ run'[s].chunk = run[s].chunk /\ run'[s].todo = run[s].todo
        /\ run'[s].idByNorm = [dict EXCEPT ![key.name] = NewId(s)]
        /\ run'[s].entities = run[s].entities \cup {e}
    BY <1>5, SaveEntitySteps
  <2>2. /\ e.chunk = run[s].chunk /\ e.key = key /\ ~e.placeholder
    BY DEF NewEntity
  <2> HIDE DEF e
  <2>3. /\ dict \in [Name -> RowId \cup {Null}] /\ NewId(s) # Null
        /\ \A f \in run[s].entities : f.key.name \in Name
    BY <2>1, NewIdType, IdsAreNotNull DEF RunState, EntityRow, Key
  <2>4. key.name \in Name
    BY DEF Key
  <2>5. \A n \in Name : run'[s].idByNorm[n] = IF n = key.name THEN NewId(s) ELSE dict[n]
    BY <2>1, <2>3
  <2>6. Fresh(run'[s])
    BY <1>2, <2>1, <2>2 DEF Fresh
  <2>7. Listed(run'[s])
    BY <1>2, <2>1, <2>2, <2>3, <2>4, <2>5 DEF Listed
  <2>8. EntitiesFirst(run'[s])
    BY <1>2, <2>1, <2>2 DEF EntitiesFirst
  <2>9. Sole(run'[s].entities)
    BY <1>2, <2>1, <2>2 DEF Sole, EntitiesFirst
  <2>10. Unlisted(run'[s])
    BY <2>1 DEF Unlisted
  <2> QED BY <2>1, <2>6, <2>7, <2>8, <2>9, <2>10, StepsPlaces DEF RunPlaces
<1>6. ASSUME NEW s \in Run, NEW candidate \in RelationCandidate,
             SaveRelation(s, candidate)
      PROVE  PlaceInv'
  <2>1. /\ Steps(s) /\ run[s] \in RunState
        /\ run[s].pc \in {"entities", "relations"} /\ run'[s].pc = "source"
        /\ run'[s].chunk = run[s].chunk /\ run'[s].todo = run[s].todo
        /\ run'[s].idByNorm = run[s].idByNorm
        /\ run'[s].entities = run[s].entities
    BY <1>6, SaveRelationSteps
  <2>2. RunPlaces(run'[s])
    BY <1>2, <2>1 DEF RunPlaces, Fresh, Listed, EntitiesFirst, Unlisted
  <2> QED BY <2>1, <2>2, StepsPlaces
<1>7. ASSUME NEW s \in Run, ResolveEntityId(s)
      PROVE  PlaceInv'
  <2> DEFINE dict == run[s].idByNorm
             name == EndKey(s).name
  <2>1. /\ Steps(s) /\ run[s] \in RunState /\ run[s].pc \in {"source", "target"}
        /\ Same(run'[s], run[s]) /\ run'[s].entities = run[s].entities
    BY <1>7, ResolveSteps
  <2>2. /\ dict \in [Name -> RowId \cup {Null}] /\ name \in Name
        /\ \A f \in run[s].entities : f.key.name \in Name
    BY <2>1, ResolvingFacts DEF RunState, EntityRow, Key, Resolving
  <2>3. \/ /\ run'[s].pc \in {"target", "insert"}
           /\ \A n \in Name : dict[n] # Null => run'[s].idByNorm[n] # Null
        \/ /\ run'[s].pc \in {"newSource", "newTarget"}
           /\ run'[s].idByNorm = dict /\ dict[EndKeyOf(run'[s]).name] = Null
    <3>1. CASE ResolvesKnown(s)
      BY <2>1, <3>1 DEF ResolvesKnown, Ends
    <3>2. CASE ResolvesFound(s)
      <4>1. PICK e \in FindPendingEntity(s, EndKey(s)) :
              /\ Ends(run'[s], run[s], e.id)
              /\ run'[s].idByNorm = [dict EXCEPT ![name] = e.id]
        BY <3>2 DEF ResolvesFound
      <4>2. e.id # Null
        BY <2>1, ResolvingFacts, IdsAreNotNull DEF FindPendingEntity, EntityRow, Resolving
      <4>3. run'[s].pc \in {"target", "insert"}
        BY <2>1, <4>1 DEF Ends
      <4>4. \A n \in Name : dict[n] # Null => run'[s].idByNorm[n] # Null
        BY <2>2, <4>1, <4>2
      <4> QED BY <4>3, <4>4
    <3>3. CASE ResolvesLater(s)
      <4>1. EndKeyOf(run'[s]) = EndKey(s)
        BY <2>1, <3>3 DEF ResolvesLater, EndKeyOf, EndKey, Same
      <4> QED BY <3>3, <4>1 DEF ResolvesLater
    <3> QED BY <1>7, <3>1, <3>2, <3>3, ResolveSteps
  <2>4. Fresh(run'[s]) /\ EntitiesFirst(run'[s]) /\ Sole(run'[s].entities)
    BY <1>2, <2>1, <2>3 DEF Fresh, EntitiesFirst, Same
  <2>5. Listed(run'[s])
    BY <1>2, <2>1, <2>2, <2>3 DEF Listed, Same
  <2>6. Unlisted(run'[s])
    BY <2>3 DEF Unlisted
  <2> QED BY <2>1, <2>4, <2>5, <2>6, StepsPlaces DEF RunPlaces
<1>8. ASSUME NEW s \in Run, CreatePlaceholder(s)
      PROVE  PlaceInv'
  <2> DEFINE key == EndKey(s)
             e == NewEntity(s, key, "PENDING", TRUE)
             dict == run[s].idByNorm
  <2>1. /\ Steps(s) /\ run[s] \in RunState
        /\ run[s].pc \in {"newSource", "newTarget"}
        /\ Same(run'[s], run[s]) /\ e \in EntityRow
    BY <1>8, CreatePlaceholderSteps
  <2>2. \/ /\ Ends(run'[s], run[s], e.id)
           /\ run'[s].idByNorm = [dict EXCEPT ![key.name] = e.id]
           /\ run'[s].entities = run[s].entities \cup {e}
        \/ /\ Ends(run'[s], run[s], Null)
           /\ run'[s].idByNorm = dict
           /\ run'[s].entities = run[s].entities
    BY <1>8, CreatePlaceholderSteps
  <2>3. e.chunk = run[s].chunk /\ e.key = key /\ e.placeholder
    BY DEF NewEntity
  <2>4. e.id # Null
    BY <2>1, IdsAreNotNull DEF EntityRow
  <2> HIDE DEF e
  <2>5. /\ dict \in [Name -> RowId \cup {Null}] /\ key.name \in Name
        /\ \A f \in run[s].entities : f.key.name \in Name
    BY <2>1, ResolvingFacts DEF RunState, EntityRow, Key, Resolving
  <2>6. EndKeyOf(run[s]) = key
    BY DEF EndKeyOf, EndKey
  <2> HIDE DEF key
  <2>7. \A f \in run[s].entities : f.chunk = run[s].chunk => f.key.name # key.name
    BY <1>2, <2>1, <2>6 DEF Listed, Unlisted
  <2>8. run'[s].pc \in {"target", "insert"}
    BY <2>1, <2>2 DEF Ends
  <2>9. Fresh(run'[s]) /\ EntitiesFirst(run'[s]) /\ Unlisted(run'[s])
    BY <1>2, <2>1, <2>2, <2>3, <2>8 DEF Fresh, EntitiesFirst, Unlisted, Same
  <2>10. Listed(run'[s])
    <3>1. CASE /\ run'[s].idByNorm = [dict EXCEPT ![key.name] = e.id]
               /\ run'[s].entities = run[s].entities \cup {e}
      <4>1. \A n \in Name :
              run'[s].idByNorm[n] = IF n = key.name THEN e.id ELSE dict[n]
        BY <2>5, <3>1
      <4> QED BY <1>2, <2>1, <2>3, <2>4, <2>5, <3>1, <4>1 DEF Listed, Same
    <3>2. CASE run'[s].idByNorm = dict /\ run'[s].entities = run[s].entities
      BY <1>2, <2>1, <3>2 DEF Listed, Same
    <3> QED BY <2>2, <3>1, <3>2
  <2>11. Sole(run'[s].entities)
    BY <1>2, <2>1, <2>2, <2>3, <2>7 DEF Sole
  <2> QED BY <2>1, <2>9, <2>10, <2>11, StepsPlaces DEF RunPlaces
<1>9. ASSUME NEW s \in Run, InsertRelation(s)
      PROVE  PlaceInv'
  <2>1. /\ Steps(s) /\ run[s] \in RunState
        /\ run[s].pc = "insert" /\ run'[s].pc = "relations"
        /\ run'[s].chunk = run[s].chunk /\ run'[s].todo = run[s].todo
        /\ run'[s].idByNorm = run[s].idByNorm
        /\ run'[s].entities = run[s].entities
    BY <1>9, InsertRelationSteps
  <2>2. RunPlaces(run'[s])
    BY <1>2, <2>1 DEF RunPlaces, Fresh, Listed, EntitiesFirst, Unlisted
  <2> QED BY <2>1, <2>2, StepsPlaces
<1>10. ASSUME NEW s \in Run, EndChunk(s)
       PROVE  PlaceInv'
  <2>1. /\ Steps(s) /\ run[s] \in RunState /\ run'[s].pc = "chunk"
        /\ run'[s].todo = run[s].todo /\ run'[s].entities = run[s].entities
    BY <1>10, EndChunkSteps
  <2>2. RunPlaces(run'[s])
    BY <1>2, <2>1 DEF RunPlaces, Fresh, Listed, EntitiesFirst, Unlisted
  <2> QED BY <2>1, <2>2, StepsPlaces
<1>11. ASSUME NEW s \in Run, Commit(s) \/ Fail(s)
       PROVE  PlaceInv'
  BY <1>11, EndsRun DEF PlaceInv, Running
<1>12. ASSUME NEW e, NEW key, NEW status, ReviewEntity(e, status, key)
       PROVE  run' = run
  BY <1>12 DEF ReviewEntity
<1> QED
  BY <1>1, <1>3, <1>4, <1>5, <1>6, <1>7, <1>8, <1>9, <1>10, <1>11, <1>12
  DEF Next, RunStep, vars

\* However many relations of an answer name a missing end, and whatever other
\* requests and reviewers do, one request makes one row for it.
THEOREM PlaceholdersAreSole == Spec => []OnePlaceholder
<1>1. Spec => []PlaceInv
  BY ExtractionTyped, InitPlaces, StepPlaces, PTL DEF Spec
<1> QED BY <1>1, PlaceInvSuffices, PTL

-----------------------------------------------------------------------------
(* The audit row.  The counters of a run are the numbers of its flushed rows, *)
(* which are told apart by their ids; nothing of a run is committed before    *)
(* its commit, and reviews change no ids.                                     *)

Accepted(rows) == {e \in rows : e.status = "PENDING" /\ ~e.placeholder}
Waiting(rows)  == {x \in rows : x.status = "PENDING"}
Refused(rows)  == {x \in rows : x.status = "REJECTED"}

Numbered(s, r) ==
    \A x \in r.entities \cup r.relations : x.id[1] = s /\ x.id[2] \in 1 .. r.count

Tallied(r) ==
    /\ IsFiniteSet(r.entities) /\ IsFiniteSet(r.relations)
    /\ r.counters.entities = Cardinality(Accepted(r.entities))
    /\ r.counters.relations = Cardinality(Waiting(r.relations))
    /\ r.counters.violations = Cardinality(Refused(r.entities \cup r.relations))

Unpublished(s) ==
    /\ audit[s] = NoAudit
    /\ Written(entity, s) = {} /\ Written(relation, s) = {}

TallyInv ==
    /\ \A s \in Run : Running(s) => Numbered(s, run[s]) /\ Tallied(run[s])
    /\ \A s \in Run : run[s].pc # "done" => Unpublished(s)

LEMMA InitTally == Init => TallyInv
BY DEF Init, TallyInv, Running, NoRun, Unpublished, Written

LEMMA OneMore ==
    ASSUME NEW S, IsFiniteSet(S), NEW T \in SUBSET S, NEW x, x \notin S
    PROVE  /\ Cardinality(T) \in Nat
           /\ Cardinality(T \cup {x}) = Cardinality(T) + 1
<1>1. IsFiniteSet(T) /\ x \notin T
  BY FS_Subset
<1> QED BY <1>1, FS_AddElement, FS_CardinalityType

\* A row of the next number is a new one.
LEMMA NextNumber ==
    ASSUME NEW s, NEW o, NEW r, Numbered(s, o), o.count \in Nat,
           r.count = o.count + 1, NEW x, x.id = <<s, o.count + 1>>,
           r.entities \cup r.relations = o.entities \cup o.relations \cup {x}
    PROVE  Numbered(s, r) /\ x \notin o.entities \cup o.relations
BY DEF Numbered

LEMMA AddEntityTally ==
    ASSUME NEW s, NEW o, NEW r, Numbered(s, o), Tallied(o),
           o.count \in Nat, o.counters \in Counters,
           NEW e, e.id = <<s, o.count + 1>>,
           r.count = o.count + 1, r.relations = o.relations,
           r.entities = o.entities \cup {e},
           \/ e.placeholder /\ e.status = "PENDING" /\ r.counters = o.counters
           \/ \E ok \in BOOLEAN :
                ~e.placeholder /\ e.status = Verdict(ok)
                  /\ r.counters = Counted(o.counters, "entities", ok)
    PROVE  Numbered(s, r) /\ Tallied(r)
<1> DEFINE rows == o.entities \cup o.relations
           more == r.entities \cup r.relations
<1>1. more = rows \cup {e}
  OBVIOUS
<1>2. Numbered(s, r) /\ e \notin rows
  BY <1>1, NextNumber
<1>3. /\ IsFiniteSet(o.entities) /\ IsFiniteSet(o.relations)
      /\ IsFiniteSet(rows) /\ IsFiniteSet(r.entities)
  <2>1. IsFiniteSet(o.entities) /\ IsFiniteSet(o.relations)
    BY DEF Tallied
  <2>2. IsFiniteSet(rows)
    BY <2>1, FS_Union
  <2>3. IsFiniteSet(o.entities \cup {e})
    BY <2>1, FS_AddElement
  <2> QED BY <2>1, <2>2, <2>3
<1>4. /\ Cardinality(Accepted(o.entities)) \in Nat
      /\ Cardinality(Accepted(o.entities) \cup {e}) = Cardinality(Accepted(o.entities)) + 1
  <2>1. Accepted(o.entities) \in SUBSET o.entities /\ e \notin o.entities
    BY <1>2 DEF Accepted
  <2> QED BY <1>3, <2>1, OneMore
<1>5. /\ Cardinality(Refused(rows)) \in Nat
      /\ Cardinality(Refused(rows) \cup {e}) = Cardinality(Refused(rows)) + 1
  <2>1. Refused(rows) \in SUBSET rows
    BY DEF Refused
  <2> QED BY <1>2, <1>3, <2>1, OneMore
<1>6. /\ o.counters.entities = Cardinality(Accepted(o.entities))
      /\ o.counters.relations = Cardinality(Waiting(o.relations))
      /\ o.counters.violations = Cardinality(Refused(rows))
  BY DEF Tallied
<1>7. CASE e.status = "PENDING" /\ e.placeholder /\ r.counters = o.counters
  <2>1. Accepted(r.entities) = Accepted(o.entities) /\ Refused(more) = Refused(rows)
    BY <1>1, <1>7 DEF Accepted, Refused
  <2> QED BY <1>2, <1>3, <1>6, <1>7, <2>1 DEF Tallied
<1>8. CASE /\ e.status = "PENDING" /\ ~e.placeholder
           /\ r.counters = Counted(o.counters, "entities", TRUE)
  <2>1. /\ Accepted(r.entities) = Accepted(o.entities) \cup {e}
        /\ Refused(more) = Refused(rows)
    BY <1>1, <1>8 DEF Accepted, Refused
  <2>2. /\ r.counters.entities = o.counters.entities + 1
        /\ r.counters.relations = o.counters.relations
        /\ r.counters.violations = o.counters.violations
    BY <1>8 DEF Counted, Counters
  <2> QED BY <1>2, <1>3, <1>4, <1>6, <2>1, <2>2 DEF Tallied
<1>9. CASE /\ e.status = "REJECTED" /\ ~e.placeholder
           /\ r.counters = Counted(o.counters, "entities", FALSE)
  <2>1. /\ Accepted(r.entities) = Accepted(o.entities)
        /\ Refused(more) = Refused(rows) \cup {e}
    BY <1>1, <1>9 DEF Accepted, Refused
  <2>2. /\ r.counters.entities = o.counters.entities
        /\ r.counters.relations = o.counters.relations
        /\ r.counters.violations = o.counters.violations + 1
    BY <1>9 DEF Counted, Counters
  <2> QED BY <1>2, <1>3, <1>5, <1>6, <2>1, <2>2 DEF Tallied
<1> QED BY <1>7, <1>8, <1>9 DEF Verdict

LEMMA AddRelationTally ==
    ASSUME NEW s, NEW o, NEW r, Numbered(s, o), Tallied(o),
           o.count \in Nat, o.counters \in Counters,
           NEW w, w.id = <<s, o.count + 1>>,
           r.count = o.count + 1, r.entities = o.entities,
           r.relations = o.relations \cup {w},
           NEW ok \in BOOLEAN, w.status = Verdict(ok),
           r.counters = Counted(o.counters, "relations", ok)
    PROVE  Numbered(s, r) /\ Tallied(r)
<1> DEFINE rows == o.entities \cup o.relations
           more == r.entities \cup r.relations
<1>1. more = rows \cup {w}
  OBVIOUS
<1>2. Numbered(s, r) /\ w \notin rows
  BY <1>1, NextNumber
<1>3. /\ IsFiniteSet(o.entities) /\ IsFiniteSet(o.relations)
      /\ IsFiniteSet(rows) /\ IsFiniteSet(r.relations)
  <2>1. IsFiniteSet(o.entities) /\ IsFiniteSet(o.relations)
    BY DEF Tallied
  <2>2. IsFiniteSet(rows)
    BY <2>1, FS_Union
  <2>3. IsFiniteSet(o.relations \cup {w})
    BY <2>1, FS_AddElement
  <2> QED BY <2>1, <2>2, <2>3
<1>4. /\ Cardinality(Waiting(o.relations)) \in Nat
      /\ Cardinality(Waiting(o.relations) \cup {w}) = Cardinality(Waiting(o.relations)) + 1
  <2>1. Waiting(o.relations) \in SUBSET o.relations /\ w \notin o.relations
    BY <1>2 DEF Waiting
  <2> QED BY <1>3, <2>1, OneMore
<1>5. /\ Cardinality(Refused(rows)) \in Nat
      /\ Cardinality(Refused(rows) \cup {w}) = Cardinality(Refused(rows)) + 1
  <2>1. Refused(rows) \in SUBSET rows
    BY DEF Refused
  <2> QED BY <1>2, <1>3, <2>1, OneMore
<1>6. /\ o.counters.entities = Cardinality(Accepted(o.entities))
      /\ o.counters.relations = Cardinality(Waiting(o.relations))
      /\ o.counters.violations = Cardinality(Refused(rows))
  BY DEF Tallied
<1>7. CASE ok
  <2>1. /\ Waiting(r.relations) = Waiting(o.relations) \cup {w}
        /\ Refused(more) = Refused(rows)
    BY <1>1, <1>7 DEF Waiting, Refused, Verdict
  <2>2. /\ r.counters.entities = o.counters.entities
        /\ r.counters.relations = o.counters.relations + 1
        /\ r.counters.violations = o.counters.violations
    BY <1>7 DEF Counted, Counters
  <2> QED BY <1>2, <1>3, <1>4, <1>6, <2>1, <2>2 DEF Tallied
<1>8. CASE ~ok
  <2>1. /\ Waiting(r.relations) = Waiting(o.relations)
        /\ Refused(more) = Refused(rows) \cup {w}
    BY <1>1, <1>8 DEF Waiting, Refused, Verdict
  <2>2. /\ r.counters.entities = o.counters.entities
        /\ r.counters.relations = o.counters.relations
        /\ r.counters.violations = o.counters.violations + 1
    BY <1>8 DEF Counted, Counters
  <2> QED BY <1>2, <1>3, <1>5, <1>6, <2>1, <2>2 DEF Tallied
<1> QED BY <1>7, <1>8

\* A step of a run that commits nothing.
LEMMA StepsTally ==
    ASSUME TallyInv, NEW s \in Run, Steps(s), Running(s) \/ run[s].pc = "none",
           UNCHANGED <<ontologyVars, stagingVars>>,
           Numbered(s, run'[s]), Tallied(run'[s])
    PROVE  TallyInv'
<1>1. \A z \in Run : Unpublished(z)' <=> Unpublished(z)
  BY DEF Unpublished, Written, stagingVars
<1>2. run[s].pc # "done"
  BY DEF Running
<1> QED BY <1>1, <1>2 DEF TallyInv, Running, Steps

LEMMA KeptTally ==
    ASSUME Typed, TallyInv, NEW s \in Run, run[s] \in RunState, Steps(s),
           UNCHANGED <<ontologyVars, stagingVars>>,
           run'[s].entities = run[s].entities, run'[s].relations = run[s].relations,
           KeepsTally(run'[s], run[s])
    PROVE  TallyInv'
<1>1. Running(s) /\ Numbered(s, run[s]) /\ Tallied(run[s])
  BY RunningType DEF TallyInv
<1>2. Numbered(s, run'[s]) /\ Tallied(run'[s])
  BY <1>1 DEF Numbered, Tallied, KeepsTally
<1> QED BY <1>1, <1>2, StepsTally

LEMMA StepTally == Typed /\ TallyInv /\ [Next]_vars => TallyInv'
<1> SUFFICES ASSUME Typed, TallyInv, [Next]_vars PROVE TallyInv'
  OBVIOUS
<1>1. CASE UNCHANGED <<entity, relation, audit, run>>
  BY <1>1 DEF TallyInv, Running, Unpublished, Written
<1>2. ASSUME NEW s \in Run, run[s] \in RunState
      PROVE  /\ Running(s) /\ Numbered(s, run[s]) /\ Tallied(run[s])
             /\ run[s].count \in Nat /\ run[s].counters \in Counters
  <2>1. Running(s)
    BY <1>2, RunningType
  <2> QED BY <1>2, <2>1 DEF TallyInv, RunState
<1>3. ASSUME NEW s \in Run,
             (\E d \in Document : ExtractDocument(s, d))
               \/ (\E c \in Chunk : ExtractChunk(s, c))
      PROVE  TallyInv'
  <2>1. PICK chunks \in SUBSET Chunk : StartRun(s, chunks)
    BY <1>3, ExtractionAssumption DEF ExtractDocument, ExtractChunk
  <2>2. /\ Steps(s) /\ run'[s].entities = {} /\ run'[s].relations = {}
        /\ run'[s].counters = NoCounts
        /\ UNCHANGED <<ontologyVars, stagingVars>>
    BY <2>1, StartRunSteps
  <2>3. Numbered(s, run'[s])
    BY <2>2 DEF Numbered
  <2>4. /\ Accepted({}) = {} /\ Waiting({}) = {} /\ Refused({} \cup {}) = {}
        /\ IsFiniteSet({}) /\ Cardinality({}) = 0
    BY FS_EmptySet DEF Accepted, Waiting, Refused
  <2>5. Tallied(run'[s])
    BY <2>2, <2>4 DEF Tallied, NoCounts
  <2>6. run[s].pc = "none"
    BY <2>1 DEF StartRun, At
  <2> QED BY <2>2, <2>3, <2>5, <2>6, StepsTally
<1>4. ASSUME NEW s \in Run, NextChunk(s)
      PROVE  TallyInv'
  BY <1>4, NextChunkSteps, KeptTally
<1>5. ASSUME NEW s \in Run, NEW key \in Key, SaveEntity(s, key)
      PROVE  TallyInv'
  <2> DEFINE ok == ValidateEntityType(key.type)
             e == NewEntity(s, key, Verdict(ok), FALSE)
  <2>1. /\ Steps(s) /\ run[s] \in RunState
        /\ run'[s].entities = run[s].entities \cup {e}
        /\ run'[s].relations = run[s].relations
        /\ run'[s].count = run[s].count + 1
        /\ run'[s].counters = Counted(run[s].counters, "entities", ok)
        /\ UNCHANGED <<ontologyVars, stagingVars>>
    BY <1>5, SaveEntitySteps
  <2>2. e.id = <<s, run[s].count + 1>> /\ ~e.placeholder /\ e.status = Verdict(ok)
    BY DEF NewEntity, NewId
  <2>3. ok \in BOOLEAN
    BY DEF ValidateEntityType
  <2> HIDE DEF e, ok
  <2>4. Numbered(s, run'[s]) /\ Tallied(run'[s])
    BY <1>2, <2>1, <2>2, <2>3, AddEntityTally
  <2> QED BY <1>2, <2>1, <2>4, StepsTally
<1>6. ASSUME NEW s \in Run, NEW candidate \in RelationCandidate,
             SaveRelation(s, candidate)
      PROVE  TallyInv'
  BY <1>6, SaveRelationSteps, KeptTally
<1>7. ASSUME NEW s \in Run, ResolveEntityId(s)
      PROVE  TallyInv'
  BY <1>7, ResolveSteps, KeptTally DEF Same, KeepsTally
<1>8. ASSUME NEW s \in Run, CreatePlaceholder(s)
      PROVE  TallyInv'
  <2> DEFINE key == EndKey(s)
             e == NewEntity(s, key, "PENDING", TRUE)
  <2>1. /\ Steps(s) /\ run[s] \in RunState /\ Same(run'[s], run[s])
        /\ \/ /\ run'[s].entities = run[s].entities \cup {e}
              /\ run'[s].count = run[s].count + 1
           \/ /\ run'[s].entities = run[s].entities
              /\ run'[s].count = run[s].count
        /\ UNCHANGED <<ontologyVars, stagingVars>>
    BY <1>8, CreatePlaceholderSteps
  <2>2. e.id = <<s, run[s].count + 1>> /\ e.placeholder /\ e.status = "PENDING"
    BY DEF NewEntity, NewId
  <2> HIDE DEF e, key
  <2>3. run'[s].relations = run[s].relations /\ run'[s].counters = run[s].counters
    BY <2>1 DEF Same
  <2>4. CASE run'[s].entities = run[s].entities /\ run'[s].count = run[s].count
    BY <2>1, <2>3, <2>4, KeptTally DEF KeepsTally
  <2>5. CASE /\ run'[s].entities = run[s].entities \cup {e}
             /\ run'[s].count = run[s].count + 1
    <3>1. Numbered(s, run'[s]) /\ Tallied(run'[s])
      BY <1>2, <2>1, <2>2, <2>3, <2>5, AddEntityTally
    <3> QED BY <1>2, <2>1, <3>1, StepsTally
  <2> QED BY <2>1, <2>4, <2>5
<1>9. ASSUME NEW s \in Run, InsertRelation(s)
      PROVE  TallyInv'
  <2> DEFINE w == NewRelation(s)
             ok == ValidateRelation(run[s].item.srcKey.type, run[s].item.type,
                                    run[s].item.tgtKey.type)
  <2>1. /\ Steps(s) /\ run[s] \in RunState
        /\ run'[s].entities = run[s].entities
        /\ run'[s].relations = run[s].relations \cup {w}
        /\ run'[s].count = run[s].count + 1
        /\ run'[s].counters = Counted(run[s].counters, "relations", ok)
        /\ UNCHANGED <<ontologyVars, stagingVars>>
    BY <1>9, InsertRelationSteps
  <2>2. w.id = <<s, run[s].count + 1>> /\ w.status = Verdict(ok)
    BY DEF NewRelation, NewId
  <2>3. ok \in BOOLEAN
    BY DEF ValidateRelation
  <2> HIDE DEF w, ok
  <2>4. Numbered(s, run'[s]) /\ Tallied(run'[s])
    BY <1>2, <2>1, <2>2, <2>3, AddRelationTally
  <2> QED BY <1>2, <2>1, <2>4, StepsTally
<1>10. ASSUME NEW s \in Run, EndChunk(s)
       PROVE  TallyInv'
  BY <1>10, EndChunkSteps, KeptTally
<1>11. ASSUME NEW s \in Run, Commit(s) \/ Fail(s)
       PROVE  TallyInv'
  <2>1. /\ run[s] \in RunState /\ ~Running(s)' /\ run'[s].pc = "done"
        /\ \A z \in Run \ {s} : run'[z] = run[z]
    BY <1>11, EndsRun DEF Commit, Fail, SetRun, DoneRun, Typed, ExtractionTypeOK
  <2>2. \A z \in Run : Running(z)' => Numbered(z, run'[z]) /\ Tallied(run'[z])
    BY <2>1 DEF TallyInv, Running
  <2>3. Numbered(s, run[s])
    BY <1>2, <2>1
  <2>4. ASSUME NEW z \in Run, run'[z].pc # "done"
        PROVE  Unpublished(z)'
    <3>1. z # s /\ Unpublished(z)
      BY <2>1, <2>4 DEF TallyInv
    <3>2. audit'[z] = audit[z]
      BY <1>11, <3>1 DEF Commit, Fail, stagingVars, Typed, ExtractionTypeOK
    <3>3. Written(entity', z) = {} /\ Written(relation', z) = {}
      BY <1>11, <2>3, <3>1
      DEF Commit, Fail, stagingVars, Unpublished, Written, Numbered
    <3> QED BY <3>1, <3>2, <3>3 DEF Unpublished
  <2> QED BY <2>2, <2>4 DEF TallyInv
<1>12. ASSUME NEW e \in entity, NEW key \in Key,
              NEW status \in {"APPROVED", "REJECTED", "MODIFIED", "MERGED"},
              ReviewEntity(e, status, key)
       PROVE  TallyInv'
  <2> DEFINE f == [e EXCEPT !.status = status, !.key = key]
  <2>1. f.id = e.id
    BY DEF Typed, ExtractionTypeOK, EntityRow
  <2>2. /\ entity' = (entity \ {e}) \cup {f} /\ relation' = relation
        /\ run' = run /\ audit' = audit
    BY <1>12 DEF ReviewEntity
  <2> HIDE DEF f
  <2> QED BY <2>1, <2>2 DEF TallyInv, Running, Unpublished, Written
<1> QED
  BY <1>1, <1>3, <1>4, <1>5, <1>6, <1>7, <1>8, <1>9, <1>10, <1>11, <1>12
  DEF Next, RunStep, vars, stagingVars

THEOREM TallyInvariant == Spec => []TallyInv
BY ExtractionTyped, InitTally, StepTally, PTL DEF Spec

\* What AuditTellsRun says of one request and one step.
TellsRun(s) ==
    LET es == Written(entity', s)
        rs == Written(relation', s)
    IN  IF audit'[s] = audit[s]
        THEN /\ {e.id : e \in es} = {e.id : e \in Written(entity, s)}
             /\ rs = Written(relation, s)
        ELSE /\ Cardinality({e \in es : e.status = "PENDING" /\ ~e.placeholder})
                  = audit'[s].entities
             /\ Cardinality({r \in rs : r.status = "PENDING"}) = audit'[s].relations
             /\ Cardinality({x \in es \cup rs : x.status = "REJECTED"})
                  = audit'[s].violations

LEMMA QuietTells ==
    ASSUME UNCHANGED stagingVars, NEW s \in Run
    PROVE  TellsRun(s)
BY DEF TellsRun, Written, stagingVars

LEMMA CommitTells ==
    ASSUME Typed, TallyInv, NEW s \in Run, Commit(s), NEW z \in Run
    PROVE  TellsRun(z)
<1>1. /\ run[s] \in RunState /\ Numbered(s, run[s]) /\ Tallied(run[s])
      /\ Unpublished(s)
  BY EndsRun, RunningType DEF TallyInv, Commit, At
<1>2. /\ entity' = entity \cup run[s].entities
      /\ relation' = relation \cup run[s].relations
      /\ audit' = [audit EXCEPT ![s] = run[s].counters]
  BY DEF Commit
<1>3. CASE z = s
  <2>1. Written(entity', s) = run[s].entities /\ Written(relation', s) = run[s].relations
    BY <1>1, <1>2 DEF Unpublished, Numbered, Written
  <2>2. audit'[s] = run[s].counters
    BY <1>2 DEF Typed, ExtractionTypeOK
  <2>3. audit'[s] # audit[s]
    <3>1. "relations" \in DOMAIN audit'[s]
      BY <1>1, <2>2 DEF RunState, Counters
    <3>2. "relations" \notin DOMAIN audit[s]
      BY <1>1 DEF Unpublished, NoAudit
    <3> QED BY <3>1, <3>2
  <2> QED
    BY <1>1, <1>3, <2>1, <2>2, <2>3
    DEF TellsRun, Tallied, Accepted, Waiting, Refused
<1>4. CASE z # s
  <2>1. Written(entity', z) = Written(entity, z)
        /\ Written(relation', z) = Written(relation, z)
    BY <1>1, <1>2, <1>4 DEF Numbered, Written
  <2>2. audit'[z] = audit[z]
    BY <1>2, <1>4 DEF Typed, ExtractionTypeOK
  <2> QED BY <2>1, <2>2 DEF TellsRun
<1> QED BY <1>3, <1>4

LEMMA ReviewTells ==
    ASSUME Typed, NEW e \in entity, NEW key \in Key,
           NEW status \in {"APPROVED", "REJECTED", "MODIFIED", "MERGED"},
           ReviewEntity(e, status, key), NEW s \in Run
    PROVE  TellsRun(s)
<1> DEFINE f == [e EXCEPT !.status = status, !.key = key]
<1>1. f.id = e.id
  BY DEF Typed, ExtractionTypeOK, EntityRow
<1>2. entity' = (entity \ {e}) \cup {f} /\ relation' = relation /\ audit' = audit
  BY DEF ReviewEntity
<1> HIDE DEF f
<1>3. {x.id : x \in Written(entity', s)} = {x.id : x \in Written(entity, s)}
  BY <1>1, <1>2 DEF Written
<1> QED BY <1>2, <1>3 DEF TellsRun

LEMMA StepTells == Typed /\ TallyInv /\ [Next]_vars => [\A s \in Run : TellsRun(s)]_vars
<1> SUFFICES ASSUME Typed, TallyInv, Next, NEW z \in Run PROVE TellsRun(z)
  BY DEF vars
<1>1. ASSUME NEW s \in Run, RunStep(s)
      PROVE  Commit(s) \/ UNCHANGED stagingVars
  BY <1>1
  DEF RunStep, ExtractDocument, ExtractChunk, StartRun, NextChunk, SaveEntity,
      SaveRelation, ResolveEntityId, CreatePlaceholder, InsertRelation, EndChunk,
      Fail, stagingVars
<1> QED BY <1>1, QuietTells, CommitTells, ReviewTells DEF Next, stagingVars

\* However requests and reviews interleave, the rows of a request appear with
\* its audit row, and the audit row counts them.
THEOREM AuditCountsRows == Spec => AuditTellsRun
<1>1. Typed /\ TallyInv /\ [Next]_vars => [\A s \in Run : TellsRun(s)]_vars
  BY StepTells
<1> QED BY <1>1, ExtractionTyped, TallyInvariant, PTL DEF Spec, AuditTellsRun, TellsRun

=============================================================================
