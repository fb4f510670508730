--------------------------- MODULE VectorCollections ---------------------------
(***************************************************************************)
(* QdrantVectorStore and QdrantHotelStore as their callers see them: a     *)
(* point is written to a collection that the first writer creates, with    *)
(* its payload indexes, in several calls to the Qdrant server.             *)
(*                                                                         *)
(* Writers are threads of the agent (cached replies) and of the worker     *)
(* (facts and hotels); nothing but the server orders their calls.          *)
(***************************************************************************)
EXTENDS Naturals, FiniteSets

CONSTANTS
  Callers,       \* threads that write
  Collections,   \* semantic_cache, long_term_memory, hotels_collection
  Points,        \* point ids: uuid5 of a prompt's hash, a fact or a hotel
  Documents,     \* payloads
  None,
  NumIndexes,    \* payload indexes of a collection, five in the code
  MaxFaults      \* bound: failed calls to the server and crashes of a process

ASSUME VectorAssumption ==
  NumIndexes \in Nat \ {0} /\ MaxFaults \in Nat /\ None \notin Documents

VARIABLES
  created,   \* the collections that exist
  indexed,   \* payload indexes made in each collection
  points,    \* the document of each point of each collection
  call,      \* the write each caller is at
  faults,
  abandoned  \* collections whose creator failed on the way (history)

vectorVars == <<created, indexed, points, call, faults, abandoned>>

-----------------------------------------------------------------------------
NoCall == [at |-> "idle", col |-> None, point |-> None, doc |-> None]

VectorInit ==
  /\ created = {}
  /\ indexed = [c \in Collections |-> 0]
  /\ points = [c \in Collections |-> [p \in Points |-> None]]
  /\ call = [w \in Callers |-> NoCall]
  /\ faults = 0
  /\ abandoned = {}

At(w, step) == call[w].at = step
Goto(w, step) == call' = [call EXCEPT ![w].at = step]

\* add and upsert_hotel: the collection is ensured, then the point written.
Call(w, at, c, p, d) ==
  /\ At(w, "idle")
  /\ call' = [call EXCEPT ![w] = [at |-> at, col |-> c, point |-> p, doc |-> d]]
  /\ UNCHANGED <<created, indexed, points, faults, abandoned>>

\* collection_exists
Exists_Unchecked(c) == FALSE
Exists(c) == c \in created

CheckCollection(w) ==
  /\ At(w, "check")
  /\ Goto(w, IF Exists(call[w].col) THEN "write" ELSE "create")
  /\ UNCHANGED <<created, indexed, points, faults, abandoned>>

\* create_collection raises when another caller was faster.
CreateCollection(w) ==
  /\ At(w, "create")
  /\ IF call[w].col \in created
     THEN Goto(w, "raised") /\ UNCHANGED created
     ELSE Goto(w, "index") /\ created' = created \cup {call[w].col}
  /\ UNCHANGED <<indexed, points, faults, abandoned>>

AllIndexed_OffByOne(n) == n >= NumIndexes - 1
AllIndexed(n) == n >= NumIndexes

CreateIndex(w) ==
  /\ At(w, "index")
  /\ LET c == call[w].col
     IN  /\ indexed' = [indexed EXCEPT ![c] = @ + 1]
         /\ Goto(w, IF AllIndexed(indexed[c] + 1) THEN "write" ELSE "index")
  /\ UNCHANGED <<created, points, faults, abandoned>>

Upsert(w) ==
  /\ At(w, "write")
  /\ points' = [points EXCEPT ![call[w].col][call[w].point] = call[w].doc]
  /\ Goto(w, "returned")
  /\ UNCHANGED <<created, indexed, faults, abandoned>>

\* delete_hotel: without its collection the server refuses the call.
Delete(w) ==
  /\ At(w, "delete")
  /\ IF call[w].col \in created
     THEN /\ points' = [points EXCEPT ![call[w].col][call[w].point] = None]
          /\ Goto(w, "returned")
     ELSE Goto(w, "raised") /\ UNCHANGED points
  /\ UNCHANGED <<created, indexed, faults, abandoned>>

Server(w) ==
  CheckCollection(w) \/ CreateCollection(w) \/ CreateIndex(w) \/ Upsert(w) \/ Delete(w)

Running == {"check", "create", "index", "write", "delete"}

Abandoned(ws) == {call[w].col : w \in {w \in ws : At(w, "index")}}

\* External: a call to the server fails, before or after it took effect.
CallFails(w) ==
  /\ call[w].at \in Running
  /\ faults < MaxFaults
  /\ faults' = faults + 1
  /\ Goto(w, "raised")
  /\ \/ UNCHANGED <<created, points>> /\ abandoned' = abandoned \cup Abandoned({w})
     \/ /\ At(w, "create") /\ call[w].col \notin created
        /\ created' = created \cup {call[w].col}
        /\ abandoned' = abandoned \cup {call[w].col}
        /\ UNCHANGED points
     \/ /\ At(w, "write") \/ (At(w, "delete") /\ call[w].col \in created)
        /\ points' = [points EXCEPT ![call[w].col][call[w].point] = call[w].doc]
        /\ UNCHANGED <<created, abandoned>>
  /\ UNCHANGED indexed

\* A process dies with the calls of its threads.
Die(ws) ==
  /\ faults < MaxFaults
  /\ faults' = faults + 1
  /\ abandoned' = abandoned \cup Abandoned(ws)
  /\ call' = [w \in Callers |-> IF w \in ws THEN NoCall ELSE call[w]]
  /\ UNCHANGED <<created, indexed, points>>

\* search, hybrid_search and get: a collection that is missing is empty.
Found(c) == IF c \in created THEN {p \in Points : points[c][p] # None} ELSE {}
=============================================================================
