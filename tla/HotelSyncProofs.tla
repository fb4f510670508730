--------------------------- MODULE HotelSyncProofs ---------------------------
(* Theorems about the vector store and the hotels' queue, for any number of *)
(* writers, documents, indexes, messages and faults: who creates a          *)
(* collection, that the messages settle in the order of publication, and    *)
(* that a hotel is stored as the last one settled says.                     *)
EXTENDS HotelSync, FiniteSetTheorems, SequenceTheorems, TLAPS

\* Deliveries are messages, also after a requeue.
THEOREM QueueTyped == Spec => []QueueInv
<1>1. Init => QueueInv
  BY DEF Init, QueueInv
<1>2. QueueInv /\ [Next]_vars => QueueInv'
  <2> SUFFICES ASSUME QueueInv, [Next]_vars PROVE QueueInv'
    OBVIOUS
  <2> USE DEF QueueInv
  <2>1. ASSUME NEW h \in Points, NEW d \in Documents \cup {None}, Publish(h, d)
        PROVE  QueueInv'
    <3>1. sent' \in 1..MaxMessages /\ sent' \in Nat
      BY <2>1, SyncAssumption DEF Publish
    <3>2. [hotel |-> h, doc |-> d, seq |-> sent'] \in Messages
      BY <3>1 DEF Messages
    <3>3. QED
      BY <2>1, <3>1, <3>2 DEF Publish
  <2>2. CASE Handle
    BY <2>2 DEF Handle
  <2>3. CASE Settle
    BY <2>3 DEF Settle
  <2>4. CASE WorkerDies
    <3>1. hand # None => <<hand>> \o queue \in Seq(Messages)
      OBVIOUS
    <3>2. QED
      BY <2>4, <3>1 DEF WorkerDies, Requeued
  <2>5. ASSUME UNCHANGED syncVars \/ UNCHANGED vars PROVE QueueInv'
    BY <2>5 DEF syncVars, vars
  <2>6. QED
    BY <2>1, <2>2, <2>3, <2>4, <2>5 DEF Next, CacheReply, LeaveCall, AddFact, AgentDies, syncVars
<1>3. QED
  BY <1>1, <1>2, PTL DEF Spec

-----------------------------------------------------------------------------
LEMMA GotoIs ==
  ASSUME CreatorInv, NEW w \in Callers,
         NEW to \in {"idle", "returned", "raised"} \cup Running, Goto(w, to)
  PROVE  /\ call' \in CallType
         /\ call'[w].at = to /\ call'[w].col = call[w].col
         /\ \A u \in Callers \ {w} : call'[u] = call[u]
BY DEF CreatorInv, CallType, Goto

\* A caller that is not making indexes, before or after, disturbs nothing.
LEMMA Quiet ==
  ASSUME CreatorInv, NEW w \in Callers, call' \in CallType,
         \A u \in Callers \ {w} : call'[u] = call[u],
         call[w].at # "index", call'[w].at # "index",
         call'[w].at \in Running => call'[w].col \in Collections,
         UNCHANGED <<created, indexed, abandoned>>
  PROVE  CreatorInv'
<1>1. \A u \in Callers : /\ At(u, "index")' <=> At(u, "index")
                         /\ At(u, "index") => call'[u] = call[u]
  BY DEF At
<1>2. \A u \in Callers : call'[u].at \in Running => call'[u].col \in Collections
  BY DEF CreatorInv
<1>3. IndexedUnlessCreatorFailed'
  BY <1>1 DEF CreatorInv, IndexedUnlessCreatorFailed
<1>4. QED
  BY <1>1, <1>2, <1>3 DEF CreatorInv

LEMMA QuietCall ==
  ASSUME CreatorInv, NEW w \in Callers, NEW at \in {"check", "delete"},
         NEW c \in Collections, NEW p \in Points, NEW d \in Documents \cup {None},
         Call(w, at, c, p, d)
  PROVE  CreatorInv'
<1>1. call' = [call EXCEPT ![w] = [at |-> at, col |-> c, point |-> p, doc |-> d]]
      /\ call[w].at = "idle" /\ UNCHANGED <<created, indexed, abandoned>>
  BY DEF Call, At
<1>2. call' \in CallType /\ call'[w].at = at /\ call'[w].col = c
      /\ \A u \in Callers \ {w} : call'[u] = call[u]
  BY <1>1 DEF CreatorInv, CallType, Running
<1>3. QED
  BY <1>1, <1>2, Quiet

LEMMA QuietEnd ==
  ASSUME CreatorInv, NEW w \in Callers, call[w].at \in {"returned", "raised"},
         call' = [call EXCEPT ![w] = NoCall], UNCHANGED <<created, indexed, abandoned>>
  PROVE  CreatorInv'
<1>1. call' \in CallType /\ call'[w].at = "idle"
      /\ \A u \in Callers \ {w} : call'[u] = call[u]
  BY DEF CreatorInv, CallType, NoCall
<1>2. QED
  BY <1>1, Quiet DEF Running

LEMMA CreateStep ==
  ASSUME CreatorInv, NEW w \in Callers, CreateCollection(w)
  PROVE  CreatorInv'
<1>1. call[w].at = "create" /\ call[w].col \in Collections /\ UNCHANGED <<indexed, abandoned>>
  BY DEF CreateCollection, At, CreatorInv, Running
<1>2. CASE call[w].col \in created
  <2>1. Goto(w, "raised") /\ created' = created
    BY <1>2 DEF CreateCollection
  <2>2. QED
    BY <1>1, <2>1, GotoIs, Quiet DEF Running
<1>3. CASE call[w].col \notin created
  <2>1. Goto(w, "index") /\ created' = created \cup {call[w].col}
    BY <1>3 DEF CreateCollection
  <2>2. /\ call' \in CallType /\ call'[w].at = "index" /\ call'[w].col = call[w].col
        /\ \A u \in Callers \ {w} : call'[u] = call[u]
    BY <2>1, GotoIs DEF Running
  <2>3. indexed[call[w].col] = 0 /\ 0 < NumIndexes
    BY <1>1, <1>3, VectorAssumption DEF CreatorInv
  <2>4. \A u \in Callers \ {w} : At(u, "index")' =>
          /\ call'[u].col \in created /\ call'[u].col # call[w].col
          /\ indexed[call'[u].col] < NumIndexes
    BY <1>3, <2>2 DEF CreatorInv, At
  <2>5. /\ \A u \in Callers : At(u, "index")' => /\ call'[u].col \in created'
                                                 /\ indexed'[call'[u].col] < NumIndexes
        /\ \A u, v \in Callers :
             At(u, "index")' /\ At(v, "index")' /\ call'[u].col = call'[v].col => u = v
    <3>1. \A u, v \in Callers \ {w} :
             At(u, "index")' /\ At(v, "index")' /\ call'[u].col = call'[v].col => u = v
      BY <2>2 DEF CreatorInv, At
    <3>2. QED
      BY <1>1, <2>1, <2>2, <2>3, <2>4, <3>1
  <2>6. IndexedUnlessCreatorFailed'
    <3> SUFFICES ASSUME NEW c \in created' \ abandoned'
                 PROVE  \/ indexed'[c] = NumIndexes
                        \/ \E u \in Callers : At(u, "index")' /\ call'[u].col = c
      BY DEF IndexedUnlessCreatorFailed
    <3>1. CASE c = call[w].col
      BY <2>2, <3>1 DEF At
    <3>2. CASE c # call[w].col
      <4>1. indexed[c] = NumIndexes \/ \E u \in Callers : At(u, "index") /\ call[u].col = c
        BY <1>1, <2>1, <3>2 DEF CreatorInv, IndexedUnlessCreatorFailed
      <4>2. QED
        BY <1>1, <2>2, <4>1 DEF At
    <3>3. QED
      BY <3>1, <3>2
  <2>7. /\ \A u \in Callers : call'[u].at \in Running => call'[u].col \in Collections
        /\ \A c \in Collections \ created' : indexed'[c] = 0
        /\ created' \subseteq Collections /\ indexed' \in [Collections -> 0..NumIndexes]
    BY <1>1, <2>1, <2>2 DEF CreatorInv
  <2>8. QED
    BY <2>2, <2>5, <2>6, <2>7 DEF CreatorInv
<1>4. QED
  BY <1>2, <1>3

LEMMA IndexStep ==
  ASSUME CreatorInv, NEW w \in Callers, CreateIndex(w)
  PROVE  CreatorInv'
<1>1. /\ call[w].at = "index" /\ UNCHANGED <<created, abandoned>>
      /\ indexed' = [indexed EXCEPT ![call[w].col] = @ + 1]
      /\ Goto(w, IF AllIndexed(indexed[call[w].col] + 1) THEN "write" ELSE "index")
  BY DEF CreateIndex, At
<1>2. PICK c \in created, n \in Nat :
        c = call[w].col /\ n = indexed[c] /\ n < NumIndexes /\ c \in Collections
  BY <1>1, VectorAssumption DEF CreatorInv, At
<1>3. PICK to \in {"write", "index"} :
        Goto(w, to) /\ (to = "write" => n + 1 = NumIndexes) /\ (to = "index" => n + 1 < NumIndexes)
  BY <1>1, <1>2, VectorAssumption DEF AllIndexed
<1>4. /\ call' \in CallType /\ call'[w].at = to /\ call'[w].col = c
      /\ \A u \in Callers \ {w} : call'[u] = call[u]
  BY <1>2, <1>3, GotoIs DEF Running
<1>5. /\ indexed' \in [Collections -> 0..NumIndexes] /\ indexed'[c] = n + 1
      /\ \A d \in Collections \ {c} : indexed'[d] = indexed[d]
  BY <1>1, <1>2, VectorAssumption DEF CreatorInv
<1>6. \A u \in Callers \ {w} : At(u, "index")' =>
        /\ At(u, "index") /\ call'[u].col = call[u].col /\ call[u].col # c
        /\ call[u].col \in created /\ indexed'[call[u].col] < NumIndexes
  BY <1>1, <1>2, <1>4, <1>5 DEF CreatorInv, At
<1>7. /\ \A u \in Callers : At(u, "index")' => /\ call'[u].col \in created'
                                               /\ indexed'[call'[u].col] < NumIndexes
      /\ \A u, v \in Callers :
           At(u, "index")' /\ At(v, "index")' /\ call'[u].col = call'[v].col => u = v
  <2>1. \A u, v \in Callers \ {w} :
          At(u, "index")' /\ At(v, "index")' /\ call'[u].col = call'[v].col => u = v
    BY <1>6 DEF CreatorInv
  <2>2. At(w, "index")' => call'[w].col \in created' /\ indexed'[call'[w].col] < NumIndexes
    BY <1>1, <1>2, <1>3, <1>4, <1>5 DEF At
  <2>3. QED
    BY <1>1, <1>4, <1>6, <2>1, <2>2
<1>8. IndexedUnlessCreatorFailed'
  <2> SUFFICES ASSUME NEW d \in created' \ abandoned'
               PROVE  \/ indexed'[d] = NumIndexes
                      \/ \E u \in Callers : At(u, "index")' /\ call'[u].col = d
    BY DEF IndexedUnlessCreatorFailed
  <2>1. CASE d = c
    BY <1>3, <1>4, <1>5, <2>1 DEF At
  <2>2. CASE d # c
    <3>1. d \in Collections
          /\ (indexed[d] = NumIndexes \/ \E u \in Callers : At(u, "index") /\ call[u].col = d)
      BY <1>1 DEF CreatorInv, IndexedUnlessCreatorFailed
    <3>2. CASE indexed[d] = NumIndexes
      BY <1>5, <2>2, <3>1, <3>2
    <3>3. CASE \E u \in Callers : At(u, "index") /\ call[u].col = d
      BY <1>2, <1>4, <2>2, <3>3 DEF At
    <3>4. QED
      BY <3>1, <3>2, <3>3
  <2>3. QED
    BY <2>1, <2>2
<1>9. /\ \A u \in Callers : call'[u].at \in Running => call'[u].col \in Collections
      /\ \A d \in Collections \ created' : indexed'[d] = 0
      /\ created' \subseteq Collections
  BY <1>1, <1>2, <1>4, <1>5 DEF CreatorInv
<1>10. QED
  BY <1>4, <1>5, <1>7, <1>8, <1>9 DEF CreatorInv

\* Callers that stop, with the collections they were at abandoned and others at
\* most created and abandoned at once, leave the rest as it was.
LEMMA Stopped ==
  ASSUME CreatorInv, NEW ws \in SUBSET Callers, NEW more \in SUBSET Collections,
         call' \in CallType, \A u \in Callers \ ws : call'[u] = call[u],
         \A u \in ws : call'[u].at \notin Running,
         created' = created \cup more, more \cap created = {},
         abandoned' = abandoned \cup Abandoned(ws) \cup more, indexed' = indexed
  PROVE  CreatorInv'
<1>1. \A u \in Callers : At(u, "index")' => At(u, "index") /\ call'[u] = call[u] /\ u \notin ws
  BY DEF At, Running
<1>2. \A u \in ws : At(u, "index") => call[u].col \in abandoned'
  BY DEF Abandoned
<1>3. IndexedUnlessCreatorFailed'
  <2> SUFFICES ASSUME NEW c \in created' \ abandoned'
               PROVE  \/ indexed'[c] = NumIndexes
                      \/ \E u \in Callers : At(u, "index")' /\ call'[u].col = c
    BY DEF IndexedUnlessCreatorFailed
  <2>1. indexed[c] = NumIndexes \/ \E u \in Callers : At(u, "index") /\ call[u].col = c
    BY DEF CreatorInv, IndexedUnlessCreatorFailed
  <2>2. ASSUME NEW u \in Callers, At(u, "index"), call[u].col = c
        PROVE  At(u, "index")' /\ call'[u].col = c
    BY <1>2, <2>2 DEF At
  <2>3. QED
    BY <2>1, <2>2
<1>4. \A u \in Callers : call'[u].at \in Running => call'[u].col \in Collections
  BY DEF CreatorInv
<1>5. QED
  BY <1>1, <1>3, <1>4 DEF CreatorInv

LEMMA FailStep ==
  ASSUME CreatorInv, NEW w \in Callers, CallFails(w)
  PROVE  CreatorInv'
<1>1. /\ call[w].at \in Running /\ call[w].col \in Collections /\ Goto(w, "raised")
      /\ indexed' = indexed
  BY DEF CallFails, CreatorInv
<1>2. /\ call' \in CallType /\ call'[w].at = "raised"
      /\ \A u \in Callers \ {w} : call'[u] = call[u]
      /\ {w} \in SUBSET Callers /\ \A u \in {w} : call'[u].at \notin Running
  BY <1>1, GotoIs DEF Running
<1>3. CASE created' = created /\ abandoned' = abandoned \cup Abandoned({w})
  <2>1. created' = created \cup {} /\ abandoned' = abandoned \cup Abandoned({w}) \cup {}
        /\ {} \in SUBSET Collections /\ {} \cap created = {}
    BY <1>3
  <2>2. QED
    BY <1>1, <1>2, <2>1, Stopped
<1>4. CASE /\ call[w].at = "create" /\ call[w].col \notin created
           /\ created' = created \cup {call[w].col}
           /\ abandoned' = abandoned \cup {call[w].col}
  <2>1. Abandoned({w}) = {}
    BY <1>4 DEF Abandoned, At
  <2>2. abandoned' = abandoned \cup Abandoned({w}) \cup {call[w].col}
        /\ {call[w].col} \in SUBSET Collections /\ {call[w].col} \cap created = {}
    BY <1>1, <1>4, <2>1
  <2>3. QED
    BY <1>1, <1>2, <1>4, <2>2, Stopped
<1>5. CASE call[w].at \in {"write", "delete"} /\ UNCHANGED <<created, abandoned>>
  BY <1>1, <1>2, <1>5, Quiet DEF Running
<1>6. QED
  BY <1>3, <1>4, <1>5 DEF CallFails, At

LEMMA DieStep ==
  ASSUME CreatorInv, NEW ws \in SUBSET Callers, Die(ws)
  PROVE  CreatorInv'
<1>1. /\ call' = [w \in Callers |-> IF w \in ws THEN NoCall ELSE call[w]]
      /\ abandoned' = abandoned \cup Abandoned(ws) /\ UNCHANGED <<created, indexed>>
  BY DEF Die
<1>2. call' \in CallType /\ \A u \in Callers \ ws : call'[u] = call[u]
  BY <1>1 DEF CreatorInv, CallType, NoCall
<1>3. \A u \in ws : call'[u].at \notin Running
  BY <1>1 DEF NoCall, Running
<1>4. created' = created \cup {} /\ abandoned' = abandoned \cup Abandoned(ws) \cup {}
      /\ {} \in SUBSET Collections /\ {} \cap created = {}
  BY <1>1
<1>5. QED
  BY <1>1, <1>2, <1>3, <1>4, Stopped

LEMMA ServerStep ==
  ASSUME CreatorInv, NEW w \in Callers, Server(w)
  PROVE  CreatorInv'
<1>1. CASE CheckCollection(w)
  <2>1. PICK to \in {"write", "create"} : Goto(w, to)
    BY <1>1 DEF CheckCollection
  <2>2. /\ call[w].at = "check" /\ call[w].col \in Collections
        /\ UNCHANGED <<created, indexed, abandoned>>
    BY <1>1 DEF CheckCollection, At, CreatorInv, Running
  <2>3. QED
    BY <2>1, <2>2, GotoIs, Quiet DEF Running
<1>2. CASE CreateCollection(w)
  BY <1>2, CreateStep
<1>3. CASE CreateIndex(w)
  BY <1>3, IndexStep
<1>4. CASE Upsert(w) \/ Delete(w)
  <2>1. PICK to \in {"returned", "raised"} : Goto(w, to)
    BY <1>4 DEF Upsert, Delete
  <2>2. call[w].at \in {"write", "delete"} /\ UNCHANGED <<created, indexed, abandoned>>
    BY <1>4 DEF Upsert, Delete, At
  <2>3. QED
    BY <2>1, <2>2, GotoIs, Quiet DEF Running
<1>5. QED
  BY <1>1, <1>2, <1>3, <1>4 DEF Server

\* However many writers race for a collection, one of them creates it and makes
\* its indexes; the others leave it to that one.
THEOREM CreatorsAlone == Spec => []CreatorInv
<1> USE SyncAssumption, VectorAssumption
<1>1. Init => CreatorInv
  BY DEF Init, VectorInit, CreatorInv, CallType, NoCall, At, Running, IndexedUnlessCreatorFailed
<1>2. QueueInv /\ CreatorInv /\ [Next]_vars => CreatorInv'
  <2> SUFFICES ASSUME QueueInv, CreatorInv, [Next]_vars PROVE CreatorInv'
    OBVIOUS
  <2>1. CASE (\E h \in Points, d \in Documents \cup {None} : Publish(h, d)) \/ UNCHANGED vars
    <3>1. UNCHANGED vectorVars
      BY <2>1 DEF Publish, vars
    <3>2. QED
      BY <3>1 DEF vectorVars, CreatorInv, IndexedUnlessCreatorFailed, At
  <2>2. CASE Handle
    <3>1. PICK m \in Messages :
            Call(Sync, IF m.doc = None THEN "delete" ELSE "check", Hotels, m.hotel, m.doc)
      <4>1. Head(queue) \in Messages
        BY <2>2 DEF Handle, QueueInv
      <4>2. QED
        BY <2>2, <4>1 DEF Handle
    <3>2. m.hotel \in Points /\ m.doc \in Documents \cup {None}
      BY DEF Messages
    <3>3. QED
      BY <3>1, <3>2, QuietCall
  <2>3. CASE Settle
    BY <2>3, QuietEnd DEF Settle
  <2>4. ASSUME NEW w \in Callers, CacheReply(w) PROVE CreatorInv'
    BY <2>4, QuietCall DEF CacheReply
  <2>5. CASE AddFact
    BY <2>5, QuietCall DEF AddFact
  <2>6. ASSUME NEW w \in Callers, LeaveCall(w) PROVE CreatorInv'
    BY <2>6, QuietEnd DEF LeaveCall
  <2>7. ASSUME NEW w \in Callers, Server(w) \/ CallFails(w) PROVE CreatorInv'
    BY <2>7, ServerStep, FailStep
  <2>8. CASE WorkerDies \/ AgentDies
    BY <2>8, DieStep DEF WorkerDies, AgentDies
  <2>9. QED
    BY <2>1, <2>2, <2>3, <2>4, <2>5, <2>6, <2>7, <2>8 DEF Next
<1>3. QED
  BY <1>1, <1>2, QueueTyped, PTL DEF Spec

\* A collection lacks an index only while its creator works on it or because the
\* creator failed.
THEOREM CollectionsIndexed == Spec => []IndexedUnlessCreatorFailed
<1>1. CreatorInv => IndexedUnlessCreatorFailed
  BY DEF CreatorInv
<1>2. QED
  BY <1>1, CreatorsAlone, PTL

-----------------------------------------------------------------------------
(* The messages, the hotels and who writes them *)

LEMMA Apart ==
  /\ Cache # Memory /\ Cache # Hotels /\ Memory # Hotels
  /\ Hotels \in Collections /\ Sync \in Callers /\ Sync # Facts /\ Sync \notin Agents
<1>1. ASSUME NEW x, NEW y, Collections = {x, y} PROVE FALSE
  <2>1. IsFiniteSet({x}) /\ Cardinality({x}) = 1
    BY FS_Singleton
  <2>2. {x, y} = {x} \cup {y}
    OBVIOUS
  <2>3. Cardinality({x} \cup {y}) <= 2
    <3>1. CASE y \in {x}
      <4>1. {x} \cup {y} = {x}
        BY <3>1
      <4>2. Cardinality({x} \cup {y}) = 1
        BY <2>1, <4>1, Zenon
      <4>3. QED
        BY <4>2
    <3>2. CASE y \notin {x}
      <4>1. Cardinality({x} \cup {y}) = Cardinality({x}) + 1
        BY <2>1, <3>2, FS_AddElement
      <4>2. QED
        BY <2>1, <4>1
    <3>3. QED
      BY <3>1, <3>2
  <2>4. Cardinality({x} \cup {y}) = 3
    BY <1>1, <2>2, SyncAssumption, Zenon
  <2>5. QED
    BY <2>3, <2>4
<1>2. Cache = Memory => Collections = {Memory, Hotels}
  BY SyncAssumption
<1>3. Cache = Hotels => Collections = {Memory, Hotels}
  BY SyncAssumption
<1>4. Memory = Hotels => Collections = {Cache, Hotels}
  BY SyncAssumption
<1>5. QED
  BY <1>1, <1>2, <1>3, <1>4, SyncAssumption

\* The steps by what they do to the messages: none, or of another writer.
Others(w) ==
  /\ UNCHANGED syncVars
  /\ \/ CacheReply(w)
     \/ w = Facts /\ AddFact
     \/ w # Sync /\ (LeaveCall(w) \/ Server(w) \/ CallFails(w))

LEMMA MessageKinds ==
  ASSUME [Next]_vars
  PROVE  \/ UNCHANGED vars
         \/ \E h \in Points, d \in Documents \cup {None} : Publish(h, d)
         \/ Handle \/ Settle \/ WorkerDies \/ AgentDies
         \/ \E w \in Callers : Others(w)
         \/ (Server(Sync) \/ CallFails(Sync)) /\ UNCHANGED syncVars
<1>1. CASE UNCHANGED vars
  BY <1>1
<1>2. ASSUME NEW w \in Callers, CacheReply(w) PROVE Others(w)
  <2>1. UNCHANGED syncVars
    BY <1>2 DEF CacheReply
  <2>2. QED
    BY <1>2, <2>1 DEF Others
<1>3. ASSUME NEW w \in Callers, LeaveCall(w) PROVE Others(w)
  <2>1. w # Sync /\ UNCHANGED syncVars
    BY <1>3 DEF LeaveCall
  <2>2. QED
    BY <1>3, <2>1 DEF Others
<1>4. ASSUME NEW w \in Callers, Server(w) \/ CallFails(w), UNCHANGED syncVars, w # Sync PROVE Others(w)
  BY <1>4 DEF Others
<1>5. ASSUME AddFact PROVE Others(Facts)
  BY <1>5 DEF Others, AddFact
<1>6. Facts \in Callers
  BY SyncAssumption
<1>7. CASE Next
  BY <1>2, <1>3, <1>4, <1>5, <1>6, <1>7 DEF Next
<1>8. QED
  BY <1>1, <1>7

LEMMA MembersOf ==
  ASSUME NEW q, NEW x
  PROVE  x \in ToSet(q) <=> \E i \in DOMAIN q : q[i] = x
BY DEF ToSet

\* What may change when nobody takes or settles a message.
LEMMA OrderKept ==
  ASSUME OrderInv, UNCHANGED <<queue, hand, settled, sent>>
  PROVE  OrderInv'
BY DEF OrderInv, Unsettled

\* Each message is taken when all before it are settled.
LEMMA OrderStep ==
  ASSUME QueueInv, OrderInv,
         \/ \E h \in Points, d \in Documents \cup {None} : Publish(h, d)
         \/ Handle \/ Settle \/ WorkerDies
  PROVE  OrderInv'
<1>1. /\ queue \in Seq(Messages) /\ hand \in Messages \cup {None} /\ sent \in Nat
      /\ DOMAIN queue = 1..Len(queue) /\ Len(queue) \in Nat
      /\ \A x \in Messages : x.seq \in Nat
  BY DEF QueueInv, Messages
<1>2. /\ settled \subseteq [message : Messages, outcome : {"acked", "dead"}]
      /\ \A s \in settled : s.message \in Messages /\ s.message.seq \in Nat
  BY <1>1 DEF OrderInv
<1>3. \A x : x \in Unsettled <=> (hand # None /\ x = hand) \/ \E i \in DOMAIN queue : queue[i] = x
  BY MembersOf DEF Unsettled
<1>4. /\ hand # None => hand.seq <= sent
      /\ \A i \in DOMAIN queue : queue[i].seq <= sent
      /\ \A s \in settled : /\ s.message.seq <= sent
                            /\ hand # None => s.message.seq < hand.seq
                            /\ \A i \in DOMAIN queue : s.message.seq < queue[i].seq
      /\ \A i, j \in DOMAIN queue : i < j => queue[i].seq < queue[j].seq
      /\ hand # None => \A i \in DOMAIN queue : hand.seq < queue[i].seq
  BY <1>3 DEF OrderInv
<1>5. ASSUME
        /\ settled' \subseteq [message : Messages, outcome : {"acked", "dead"}]
        /\ hand' # None => hand'.seq <= sent'
        /\ \A i \in DOMAIN queue' : queue'[i].seq <= sent'
        /\ \A s \in settled' : /\ s.message.seq <= sent'
                               /\ hand' # None => s.message.seq < hand'.seq
                               /\ \A i \in DOMAIN queue' : s.message.seq < queue'[i].seq
        /\ \A i, j \in DOMAIN queue' : i < j => queue'[i].seq < queue'[j].seq
        /\ hand' # None => \A i \in DOMAIN queue' : hand'.seq < queue'[i].seq
      PROVE OrderInv'
  <2>1. \A x : x \in Unsettled' <=> (hand' # None /\ x = hand') \/ \E i \in DOMAIN queue' : queue'[i] = x
    BY MembersOf DEF Unsettled
  <2>2. QED
    BY <1>5, <2>1 DEF OrderInv
<1>6. ASSUME NEW h \in Points, NEW d \in Documents \cup {None}, Publish(h, d)
      PROVE  OrderInv'
  <2> DEFINE x == [hotel |-> h, doc |-> d, seq |-> sent + 1]
  <2>1. /\ queue' = Append(queue, x) /\ sent' = sent + 1 /\ UNCHANGED <<hand, settled>>
        /\ x \in Messages /\ x.seq = sent + 1
    <3>1. sent + 1 \in 1..MaxMessages
      BY <1>1, <1>6, SyncAssumption DEF Publish
    <3>2. QED
      BY <1>6, <3>1 DEF Publish, Messages
  <2> HIDE DEF x
  <2>2. /\ DOMAIN queue' = DOMAIN queue \cup {Len(queue) + 1}
        /\ queue'[Len(queue) + 1] = x /\ \A i \in DOMAIN queue : queue'[i] = queue[i] /\ queue[i] \in Messages
    BY <1>1, <2>1
  <2>3. \A i \in DOMAIN queue : i < Len(queue) + 1 /\ ~(Len(queue) + 1 < i)
    BY <1>1
  <2>4. hand # None => hand.seq \in Nat
    BY <1>1
  <2>5. \A i \in DOMAIN queue' : queue'[i].seq <= sent'
    BY <1>1, <1>4, <2>1, <2>2
  <2>6. \A s \in settled' : /\ s.message.seq <= sent'
                            /\ hand' # None => s.message.seq < hand'.seq
                            /\ \A i \in DOMAIN queue' : s.message.seq < queue'[i].seq
    BY <1>1, <1>2, <1>4, <2>1, <2>2
  <2>7. \A i, j \in DOMAIN queue' : i < j => queue'[i].seq < queue'[j].seq
    BY <1>1, <1>4, <2>1, <2>2, <2>3
  <2>8. hand' # None => hand'.seq <= sent' /\ \A i \in DOMAIN queue' : hand'.seq < queue'[i].seq
    BY <1>1, <1>4, <2>1, <2>2, <2>4
  <2>9. QED
    BY <1>2, <1>5, <2>1, <2>5, <2>6, <2>7, <2>8
<1>7. CASE Handle
  <2>1. /\ hand = None /\ queue # <<>> /\ hand' = queue[1] /\ queue' = Tail(queue) /\ 1 \in DOMAIN queue
        /\ UNCHANGED <<settled, sent>>
    BY <1>1, <1>7 DEF Handle
  <2>2. \A i \in DOMAIN queue' : i + 1 \in DOMAIN queue /\ 1 < i + 1 /\ queue'[i] = queue[i + 1]
    BY <1>1, <2>1
  <2>3. \A i, j \in DOMAIN queue' : i < j => i + 1 < j + 1
    BY <1>1, <2>1
  <2>4. QED
    BY <1>2, <1>4, <1>5, <2>1, <2>2, <2>3
<1>8. CASE Settle
  <2>1. /\ hand # None /\ hand' = None /\ UNCHANGED <<queue, sent>>
        /\ settled' = settled \cup {[message |-> hand, outcome |-> Outcome(call[Sync].at)]}
    BY <1>8 DEF Settle
  <2>2. PICK o \in {"acked", "dead"} : settled' = settled \cup {[message |-> hand, outcome |-> o]}
    BY <2>1 DEF Outcome
  <2>3. [message |-> hand, outcome |-> o] \in [message : Messages, outcome : {"acked", "dead"}]
    BY <1>1, <2>1
  <2>4. \A s \in settled' : s \in settled \/ s.message = hand
    BY <2>2
  <2>5. QED
    BY <1>2, <1>4, <1>5, <2>1, <2>2, <2>3, <2>4
<1>9. CASE WorkerDies
  <2>1. hand' = None /\ UNCHANGED <<settled, sent>>
    BY <1>9 DEF WorkerDies
  <2>2. CASE hand = None
    <3>1. queue' = queue
      BY <1>9, <2>2 DEF WorkerDies
    <3>2. QED
      BY <1>2, <1>4, <1>5, <2>1, <3>1
  <2>3. CASE hand # None
    <3>1. queue' = <<hand>> \o queue
      BY <1>9, <2>3 DEF WorkerDies, Requeued
    <3>2. /\ DOMAIN queue' = 1..Len(queue)+1 /\ queue'[1] = hand
          /\ \A i \in DOMAIN queue' : i # 1 => i - 1 \in DOMAIN queue /\ queue'[i] = queue[i - 1]
      BY <1>1, <2>3, <3>1
    <3>3. \A i, j \in DOMAIN queue' : i < j => queue'[i].seq < queue'[j].seq
      <4> SUFFICES ASSUME NEW i \in DOMAIN queue', NEW j \in DOMAIN queue', i < j
                   PROVE  queue'[i].seq < queue'[j].seq
        OBVIOUS
      <4>1. j # 1 /\ i \in Int /\ j \in Int
        BY <3>2
      <4>2. CASE i = 1
        BY <1>4, <2>3, <3>2, <4>1, <4>2
      <4>3. CASE i # 1
        <5>1. i - 1 < j - 1
          BY <4>1
        <5>2. QED
          BY <1>4, <3>2, <4>1, <4>3, <5>1
      <4>4. QED
        BY <4>2, <4>3
    <3>4. \A i \in DOMAIN queue' : queue'[i] = hand \/ \E j \in DOMAIN queue : queue'[i] = queue[j]
      BY <3>2
    <3>5. QED
      BY <1>2, <1>4, <1>5, <2>1, <2>3, <3>3, <3>4
  <2>4. QED
    BY <2>2, <2>3
<1>10. QED
  BY <1>6, <1>7, <1>8, <1>9

\* Deliveries are settled in the order of publication, also after crashes.
THEOREM SettledInOrder == Spec => []OrderInv
<1>1. Init => OrderInv
  <2> SUFFICES ASSUME Init PROVE OrderInv
    OBVIOUS
  <2>1. queue = <<>> /\ hand = None /\ settled = {}
    BY DEF Init
  <2>2. Unsettled = {} /\ DOMAIN queue = {}
    BY <2>1, MembersOf DEF Unsettled
  <2>3. QED
    BY <2>1, <2>2 DEF OrderInv
<1>2. QueueInv /\ OrderInv /\ [Next]_vars => OrderInv'
  <2> SUFFICES ASSUME QueueInv, OrderInv, [Next]_vars PROVE OrderInv'
    OBVIOUS
  <2>1. CASE UNCHANGED syncVars
    BY <2>1, OrderKept DEF syncVars
  <2>2. CASE UNCHANGED vars
    BY <2>2, OrderKept DEF vars, syncVars
  <2>3. QED
    BY <2>1, <2>2, MessageKinds, OrderStep DEF Others, AgentDies
<1>3. QED
  BY <1>1, <1>2, QueueTyped, PTL DEF Spec

-----------------------------------------------------------------------------
(* The calls to the server *)

Effect(w) == points' = [points EXCEPT ![call[w].col][call[w].point] = call[w].doc]

\* What a call to the server does, by the step it is at.
LEMMA ServerKinds ==
  ASSUME NEW w \in Callers, Server(w) \/ CallFails(w),
         At(w, "delete") => call[w].doc = None
  PROVE  \E to \in {"write", "create", "index", "returned", "raised"} :
           /\ call[w].at \in Running /\ Goto(w, to)
           /\ \/ UNCHANGED points
              \/ call[w].at \in {"write", "delete"} /\ Effect(w) /\ (At(w, "write") \/ call[w].col \in created)
           /\ UNCHANGED created \/ (call[w].at = "create" /\ created' = created \cup {call[w].col})
           /\ UNCHANGED faults \/ (to = "raised" /\ faults' = faults + 1)
           /\ to \in {"write", "create", "index"} => call[w].at \in {"check", "create", "index"}
           /\ to = "write" => (call[w].at = "index" \/ call[w].col \in created) /\ UNCHANGED created
           /\ to = "create" => call[w].col \notin created /\ UNCHANGED created
           /\ to = "returned" => call[w].at \in {"write", "delete"} /\ Effect(w)
                                 /\ (At(w, "write") \/ call[w].col \in created)
           /\ to = "raised" /\ UNCHANGED faults =>
                \/ At(w, "create") /\ call[w].col \in created
                \/ At(w, "delete") /\ call[w].col \notin created /\ UNCHANGED created
<1> USE DEF At, Running
<1>1. CASE CheckCollection(w)
  <2>1. CASE call[w].col \in created
    <3>1. Goto(w, "write") /\ call[w].at = "check" /\ UNCHANGED <<created, points, faults>>
      BY <1>1, <2>1 DEF CheckCollection, Exists
    <3>2. QED
      BY <2>1, <3>1
  <2>2. CASE call[w].col \notin created
    <3>1. Goto(w, "create") /\ call[w].at = "check" /\ UNCHANGED <<created, points, faults>>
      BY <1>1, <2>2 DEF CheckCollection, Exists
    <3>2. QED
      BY <2>2, <3>1
  <2>3. QED
    BY <2>1, <2>2
<1>2. CASE CreateCollection(w)
  <2>1. CASE call[w].col \in created
    <3>1. Goto(w, "raised") /\ call[w].at = "create" /\ UNCHANGED <<created, points, faults>>
      BY <1>2, <2>1 DEF CreateCollection
    <3>2. QED
      BY <2>1, <3>1
  <2>2. CASE call[w].col \notin created
    <3>1. /\ Goto(w, "index") /\ call[w].at = "create" /\ UNCHANGED <<points, faults>>
          /\ created' = created \cup {call[w].col}
      BY <1>2, <2>2 DEF CreateCollection
    <3>2. QED
      BY <2>2, <3>1
  <2>3. QED
    BY <2>1, <2>2
<1>3. CASE CreateIndex(w)
  <2>1. PICK to \in {"write", "index"} : Goto(w, to)
    BY <1>3 DEF CreateIndex
  <2>2. call[w].at = "index" /\ UNCHANGED <<created, points, faults>>
    BY <1>3 DEF CreateIndex
  <2>3. QED
    BY <2>1, <2>2
<1>4. CASE Upsert(w)
  <2>1. Goto(w, "returned") /\ call[w].at = "write" /\ UNCHANGED <<created, faults>> /\ Effect(w)
    BY <1>4 DEF Upsert, Effect
  <2>2. QED
    BY <2>1
<1>5. CASE Delete(w)
  <2>1. call[w].at = "delete" /\ UNCHANGED <<created, faults>>
    BY <1>5 DEF Delete
  <2>2. CASE call[w].col \in created
    <3>1. Goto(w, "returned") /\ Effect(w)
      BY <1>5, <2>1, <2>2 DEF Delete, Effect
    <3>2. QED
      BY <2>1, <2>2, <3>1
  <2>3. CASE call[w].col \notin created
    <3>1. Goto(w, "raised") /\ UNCHANGED points
      BY <1>5, <2>3 DEF Delete
    <3>2. QED
      BY <2>1, <2>3, <3>1
  <2>4. QED
    BY <2>2, <2>3
<1>6. CASE CallFails(w)
  <2>1. call[w].at \in Running /\ Goto(w, "raised") /\ faults' = faults + 1 /\ faults < MaxFaults
    BY <1>6 DEF CallFails
  <2>2. \/ UNCHANGED <<created, points>>
        \/ call[w].at = "create" /\ created' = created \cup {call[w].col} /\ UNCHANGED points
        \/ call[w].at \in {"write", "delete"} /\ Effect(w) /\ (At(w, "write") \/ call[w].col \in created) /\ UNCHANGED created
    BY <1>6 DEF CallFails, Effect
  <2>3. QED
    BY <2>1, <2>2
<1>7. QED
  BY <1>1, <1>2, <1>3, <1>4, <1>5, <1>6 DEF Server

\* The documents of the collections and the count of the failures are typed.
THEOREM PointsAreTyped == Spec => []PointsInv
<1>1. Init => PointsInv
  BY DEF Init, VectorInit, PointsInv
<1>2. CreatorInv /\ PointsInv /\ [Next]_vars => PointsInv'
  <2> SUFFICES ASSUME CreatorInv, PointsInv, [Next]_vars PROVE PointsInv'
    OBVIOUS
  <2>1. faults' \in Nat
    <3>1. faults' \in {faults, faults + 1}
      BY DEF Next, Publish, Handle, Settle, CacheReply, AddFact, LeaveCall, WorkerDies, AgentDies,
             Call, Die, Server, CheckCollection, CreateCollection, CreateIndex, Upsert, Delete,
             CallFails, vars, vectorVars
    <3>2. QED
      BY <3>1 DEF PointsInv
  <2>2. CASE UNCHANGED points
    BY <2>1, <2>2 DEF PointsInv
  <2>3. ASSUME NEW w \in Callers, Server(w) \/ CallFails(w) PROVE PointsInv'
    <3>1. /\ call[w].at \in Running => call[w].col \in Collections
          /\ call[w].doc \in Documents \cup {None}
      BY DEF CreatorInv, CallType
    <3>2. ASSUME NEW c \in Collections, NEW p, NEW d \in Documents \cup {None},
                 points' = [points EXCEPT ![c][p] = d]
          PROVE  PointsInv'
      BY <2>1, <3>2 DEF PointsInv
    <3>3. CASE CheckCollection(w) \/ CreateCollection(w) \/ CreateIndex(w)
      BY <2>2, <3>3 DEF CheckCollection, CreateCollection, CreateIndex
    <3>4. CASE Upsert(w)
      BY <3>1, <3>2, <3>4 DEF Upsert, At, Running
    <3>5. CASE Delete(w)
      BY <2>2, <3>1, <3>2, <3>5 DEF Delete, At, Running
    <3>6. CASE CallFails(w)
      <4>1. UNCHANGED points \/ points' = [points EXCEPT ![call[w].col][call[w].point] = call[w].doc]
        BY <3>6 DEF CallFails
      <4>2. call[w].col \in Collections
        BY <3>1, <3>6 DEF CallFails
      <4>3. QED
        BY <2>2, <3>1, <3>2, <4>1, <4>2
    <3>7. QED
      BY <2>3, <3>3, <3>4, <3>5, <3>6 DEF Server
  <2>4. UNCHANGED points \/ \E w \in Callers : Server(w) \/ CallFails(w)
    BY DEF Next, Publish, Handle, Settle, CacheReply, AddFact, LeaveCall, WorkerDies, AgentDies,
           Call, Die, vars, vectorVars
  <2>5. QED
    BY <2>2, <2>3, <2>4
<1>3. QED
  BY <1>1, <1>2, CreatorsAlone, PTL DEF Spec

-----------------------------------------------------------------------------
(* Who is at what *)

\* Of the hotels' side nothing changes for Sync.
LEMMA HomeOthers ==
  ASSUME HomeInv, NEW ws \in SUBSET Callers, Sync \notin ws, call'[Sync] = call[Sync], hand' = hand,
         \A w \in Callers \ ws : call'[w] = call[w],
         \A w \in ws : /\ call'[w].at # "idle" => call'[w].col = Home(w) /\ call'[w].point \in Points
                       /\ call'[w].at = "delete" => call'[w].doc = None
  PROVE  HomeInv'
<1>1. \A w \in Callers : /\ At(w, "idle")' <=> call'[w].at = "idle"
                         /\ At(w, "delete")' <=> call'[w].at = "delete"
  BY DEF At
<1>2. \A w \in Callers : /\ ~At(w, "idle")' => call'[w].col = Home(w) /\ call'[w].point \in Points
                         /\ At(w, "delete")' => call'[w].doc = None
  BY <1>1 DEF HomeInv, At
<1>3. QED
  BY <1>2 DEF HomeInv, At, Home

\* A call goes on.
LEMMA HomeGoto ==
  ASSUME CreatorInv, HomeInv, hand' = hand, NEW w \in Callers, call[w].at \in Running,
         NEW to \in {"write", "create", "index", "returned", "raised"}, Goto(w, to),
         to \in {"write", "create", "index"} => call[w].at \in {"check", "create", "index"}
  PROVE  HomeInv'
<1>1. /\ call'[w].at = to /\ call'[w].col = call[w].col /\ call'[w].point = call[w].point
      /\ call'[w].doc = call[w].doc /\ \A u \in Callers \ {w} : call'[u] = call[u]
  BY DEF Goto, CreatorInv, CallType
<1>2. CASE w # Sync
  <2>1. call'[Sync] = call[Sync] /\ Sync \notin {w}
    BY <1>1, <1>2, Apart
  <2>2. call[w].col = Home(w) /\ call[w].point \in Points
    BY DEF HomeInv, At, Running
  <2>3. QED
    BY <1>1, <2>1, <2>2, HomeOthers
<1>3. CASE w = Sync
  <2>1. call[Sync].at # "idle"
    BY <1>3 DEF Running
  <2>2. QED
    BY <1>1, <1>3, <2>1, Apart DEF HomeInv, At, Home
<1>4. QED
  BY <1>2, <1>3

LEMMA CallIs ==
  ASSUME CreatorInv, NEW w \in Callers, NEW at, NEW c, NEW p, NEW d, Call(w, at, c, p, d)
  PROVE  /\ call[w].at = "idle"
         /\ call'[w] = [at |-> at, col |-> c, point |-> p, doc |-> d]
         /\ \A u \in Callers \ {w} : call'[u] = call[u]
         /\ UNCHANGED <<created, points, faults>>
BY DEF CreatorInv, CallType, Call, At

\* Every writer keeps to its collection, and Sync to the message in hand.
THEOREM OneWriter == Spec => []HomeInv
<1>1. Init => HomeInv
  BY Apart DEF Init, VectorInit, NoCall, HomeInv, At
<1>2. CreatorInv /\ QueueInv /\ HomeInv /\ [Next]_vars => HomeInv'
  <2> SUFFICES ASSUME CreatorInv, QueueInv, HomeInv, [Next]_vars PROVE HomeInv'
    OBVIOUS
  <2>1. CASE UNCHANGED <<call, hand>>
    BY <2>1 DEF HomeInv, At, Home
  <2>2. CASE Handle
    <3>1. PICK m \in Messages :
            /\ Call(Sync, IF m.doc = None THEN "delete" ELSE "check", Hotels, m.hotel, m.doc)
            /\ hand' = m
      <4>1. Head(queue) \in Messages
        BY <2>2 DEF Handle, QueueInv
      <4>2. QED
        BY <2>2, <4>1 DEF Handle
    <3>2. m # None /\ m.hotel \in Points
      BY DeliveryAssumption DEF Messages
    <3>3. PICK at \in {"delete", "check"} :
            /\ call'[Sync] = [at |-> at, col |-> Hotels, point |-> m.hotel, doc |-> m.doc]
            /\ at = "delete" <=> m.doc = None
            /\ \A u \in Callers \ {Sync} : call'[u] = call[u]
      BY <3>1, Apart, CallIs
    <3>4. QED
      BY <3>1, <3>2, <3>3, Apart DEF HomeInv, At, Home
  <2>3. CASE Settle
    <3>1. hand' = None /\ call' = [call EXCEPT ![Sync] = NoCall]
      BY <2>3 DEF Settle
    <3>2. call'[Sync].at = "idle" /\ \A u \in Callers \ {Sync} : call'[u] = call[u]
      BY <3>1, Apart DEF CreatorInv, CallType, NoCall
    <3>3. QED
      BY <3>1, <3>2, Apart DEF HomeInv, At, Home
  <2>4. ASSUME NEW w \in Callers, NEW p \in Points, w # Sync, hand' = hand,
               Call(w, "check", Home(w), p, Text)
        PROVE  HomeInv'
    <3>1. /\ call'[w] = [at |-> "check", col |-> Home(w), point |-> p, doc |-> Text]
          /\ \A u \in Callers \ {w} : call'[u] = call[u]
      BY <2>4, CallIs
    <3>2. call'[Sync] = call[Sync] /\ Sync \notin {w}
      BY <2>4, <3>1, Apart
    <3>3. \A u \in {w} : /\ call'[u].at # "idle" => call'[u].col = Home(u) /\ call'[u].point \in Points
                         /\ call'[u].at = "delete" => call'[u].doc = None
      BY <3>1
    <3>4. QED
      BY <2>4, <3>1, <3>2, <3>3, HomeOthers
  <2>5. ASSUME NEW w \in Callers, w # Sync, LeaveCall(w) PROVE HomeInv'
    <3>1. hand' = hand /\ call' = [call EXCEPT ![w] = NoCall]
      BY <2>5 DEF LeaveCall, syncVars
    <3>2. call'[w].at = "idle" /\ \A u \in Callers \ {w} : call'[u] = call[u]
      BY <3>1 DEF CreatorInv, CallType, NoCall
    <3>3. call'[Sync] = call[Sync] /\ Sync \notin {w}
      BY <2>5, <3>2, Apart
    <3>4. QED
      BY <2>5, <3>1, <3>2, <3>3, HomeOthers
  <2>6. ASSUME NEW w \in Callers, Server(w) \/ CallFails(w), UNCHANGED syncVars PROVE HomeInv'
    <3>1. hand' = hand /\ (At(w, "delete") => call[w].doc = None)
      BY <2>6 DEF syncVars, HomeInv
    <3>2. QED
      BY <2>6, <3>1, ServerKinds, HomeGoto
  <2>7. ASSUME NEW ws \in SUBSET Callers, Sync \notin ws, Die(ws), hand' = hand PROVE HomeInv'
    <3>1. /\ \A u \in ws : call'[u].at = "idle"
          /\ \A u \in Callers \ ws : call'[u] = call[u]
      BY <2>7 DEF Die, NoCall
    <3>2. call'[Sync] = call[Sync]
      BY <2>7, <3>1, Apart
    <3>3. QED
      BY <2>7, <3>1, <3>2, HomeOthers
  <2>8. CASE WorkerDies
    <3>1. hand' = None /\ Die({Facts, Sync})
      BY <2>8 DEF WorkerDies
    <3>2. call'[Sync].at = "idle" /\ call'[Facts].at = "idle"
          /\ \A u \in Callers \ {Facts, Sync} : call'[u] = call[u]
      BY <3>1, SyncAssumption DEF Die, NoCall
    <3>3. \A u \in Callers : At(u, "idle")' \/ call'[u] = call[u]
      BY <3>2 DEF At
    <3>4. QED
      BY <3>1, <3>2, <3>3 DEF HomeInv, At, Home
  <2>9. CASE AgentDies
    <3>1. Die(Agents) /\ hand' = hand
      BY <2>9 DEF AgentDies, syncVars
    <3>2. QED
      BY <2>7, <3>1, SyncAssumption
  <2>10. ASSUME NEW w \in Callers, Others(w) PROVE HomeInv'
    <3>1. UNCHANGED syncVars /\ hand' = hand
      BY <2>10 DEF Others, syncVars
    <3>2. CASE CacheReply(w)
      <4>1. w # Sync /\ Home(w) = Cache
        BY <3>2, SyncAssumption DEF CacheReply, Home
      <4>2. QED
        BY <2>4, <3>1, <3>2, <4>1 DEF CacheReply
    <3>3. CASE w = Facts /\ AddFact
      <4>1. w # Sync /\ Home(w) = Memory
        BY <3>3, SyncAssumption DEF Home
      <4>2. QED
        BY <2>4, <3>1, <3>3, <4>1 DEF AddFact
    <3>4. QED
      BY <2>5, <2>6, <2>10, <3>1, <3>2, <3>3 DEF Others
  <2>11. CASE \E h \in Points, d \in Documents \cup {None} : Publish(h, d)
    BY <2>1, <2>11 DEF Publish, vectorVars
  <2>12. CASE UNCHANGED vars
    BY <2>1, <2>12 DEF vars, vectorVars, syncVars
  <2>13. QED
    BY <2>2, <2>3, <2>6, <2>8, <2>9, <2>10, <2>11, <2>12, MessageKinds, Apart
<1>3. QED
  BY <1>1, <1>2, CreatorsAlone, QueueTyped, PTL DEF Spec

-----------------------------------------------------------------------------
(* The hotels *)

\* What the other writers, the publisher and the agent's crash leave alone.
Away ==
  /\ call'[Sync] = call[Sync] /\ points'[Hotels] = points[Hotels]
  /\ Hotels \in created' <=> Hotels \in created
  /\ UNCHANGED <<hand, settled>>
  /\ faults' = 0 => faults = 0
  /\ UNCHANGED queue \/ \E m \in Messages : queue' = Append(queue, m)

LEMMA OthersAway ==
  ASSUME CreatorInv, PointsInv, HomeInv, NEW w \in Callers, Others(w)
  PROVE  Away
<1>1. UNCHANGED <<queue, hand, settled>>
  BY DEF Others, syncVars
<1>2. faults \in Nat /\ Sync \in Callers /\ call \in CallType
  BY Apart DEF PointsInv, CreatorInv
<1>3. CASE w # Sync /\ (Server(w) \/ CallFails(w))
  <2>1. At(w, "delete") => call[w].doc = None
    BY DEF HomeInv
  <2>2. PICK to \in {"write", "create", "index", "returned", "raised"} :
           /\ call[w].at \in Running /\ Goto(w, to)
           /\ UNCHANGED points \/ Effect(w)
           /\ UNCHANGED created \/ created' = created \cup {call[w].col}
           /\ UNCHANGED faults \/ faults' = faults + 1
    BY <1>3, <2>1, ServerKinds
  <2>3. call[w].col # Hotels
    BY <1>3, <2>2, Apart DEF HomeInv, Home, At, Running
  <2>4. points'[Hotels] = points[Hotels]
    BY <2>2, <2>3, Apart DEF Effect, PointsInv
  <2>5. call'[Sync] = call[Sync]
    BY <1>2, <1>3, <2>2 DEF Goto, CallType
  <2>6. QED
    BY <1>1, <1>2, <2>2, <2>3, <2>4, <2>5 DEF Away
<1>4. CASE CacheReply(w) \/ (w = Facts /\ AddFact)
  <2>1. PICK c, p : Call(w, "check", c, p, Text) /\ w # Sync
    BY <1>4, Apart DEF CacheReply, AddFact
  <2>2. QED
    BY <1>1, <1>2, <2>1, CallIs DEF Away
<1>5. CASE w # Sync /\ LeaveCall(w)
  <2>1. call' = [call EXCEPT ![w] = NoCall] /\ UNCHANGED <<created, points, faults>>
    BY <1>5 DEF LeaveCall
  <2>2. QED
    BY <1>1, <1>2, <1>5, <2>1 DEF Away, CallType
<1>6. QED
  BY <1>3, <1>4, <1>5 DEF Others

LEMMA HotelKinds ==
  ASSUME CreatorInv, QueueInv, PointsInv, HomeInv, [Next]_vars
  PROVE  \/ Away \/ Handle \/ Settle \/ WorkerDies
         \/ (Server(Sync) \/ CallFails(Sync)) /\ UNCHANGED syncVars
<1>1. CASE UNCHANGED vars
  BY <1>1 DEF vars, vectorVars, syncVars, Away
<1>2. ASSUME NEW h \in Points, NEW d \in Documents \cup {None}, Publish(h, d) PROVE Away
  <2>1. sent' \in 1..MaxMessages
    BY <1>2, SyncAssumption DEF Publish, QueueInv
  <2>2. [hotel |-> h, doc |-> d, seq |-> sent'] \in Messages
    BY <2>1 DEF Messages
  <2>3. QED
    BY <1>2, <2>2 DEF Publish, vectorVars, Away
<1>3. CASE AgentDies
  <2>1. call'[Sync] = call[Sync]
    BY <1>3, Apart DEF AgentDies, Die
  <2>2. UNCHANGED <<points, created, queue, hand, settled>> /\ faults' = faults + 1 /\ faults \in Nat
    BY <1>3 DEF AgentDies, Die, syncVars, PointsInv
  <2>3. QED
    BY <2>1, <2>2 DEF Away
<1>4. QED
  BY <1>1, <1>2, <1>3, OthersAway, MessageKinds

\* A step of the call that stores or deletes the hotel of the message in hand.
LEMMA SyncServer ==
  ASSUME CreatorInv, PointsInv, HomeInv, ExistsInv,
         Server(Sync) \/ CallFails(Sync), UNCHANGED syncVars
  PROVE  /\ hand # None /\ UNCHANGED <<queue, hand, settled>>
         /\ call'[Sync].at \in {"write", "create", "index", "returned", "raised"}
         /\ \/ points'[Hotels] = points[Hotels]
            \/ /\ points'[Hotels] = [points[Hotels] EXCEPT ![hand.hotel] = hand.doc]
               /\ hand.doc # None => Hotels \in created
         /\ Hotels \in created => Hotels \in created'
         /\ At(Sync, "write")' => Hotels \in created'
         /\ At(Sync, "create")' => Hotels \notin created'
         /\ At(Sync, "returned")' => /\ points'[Hotels][hand.hotel] = hand.doc
                                     /\ hand.doc # None => Hotels \in created
         /\ faults' = 0 => /\ faults = 0
                           /\ At(Sync, "raised")' => hand.doc = None /\ Hotels \notin created'
<1>1. /\ UNCHANGED <<queue, hand, settled>> /\ call \in CallType /\ faults \in Nat
      /\ At(Sync, "delete") => call[Sync].doc = None
      /\ Sync \in Callers /\ Hotels \in Collections
  BY Apart DEF syncVars, CreatorInv, PointsInv, HomeInv
<1>2. PICK to \in {"write", "create", "index", "returned", "raised"} :
           /\ call[Sync].at \in Running /\ Goto(Sync, to)
           /\ \/ UNCHANGED points
              \/ call[Sync].at \in {"write", "delete"} /\ Effect(Sync) /\ (At(Sync, "write") \/ call[Sync].col \in created)
           /\ UNCHANGED created \/ (call[Sync].at = "create" /\ created' = created \cup {call[Sync].col})
           /\ UNCHANGED faults \/ (to = "raised" /\ faults' = faults + 1)
           /\ to = "write" => (call[Sync].at = "index" \/ call[Sync].col \in created) /\ UNCHANGED created
           /\ to = "create" => call[Sync].col \notin created /\ UNCHANGED created
           /\ to = "returned" => call[Sync].at \in {"write", "delete"} /\ Effect(Sync)
                                 /\ (At(Sync, "write") \/ call[Sync].col \in created)
           /\ to = "raised" /\ UNCHANGED faults =>
                \/ At(Sync, "create") /\ call[Sync].col \in created
                \/ At(Sync, "delete") /\ call[Sync].col \notin created /\ UNCHANGED created
  BY <1>1, ServerKinds
<1>3. call[Sync].at # "idle" /\ call'[Sync].at = to
  BY <1>1, <1>2 DEF Running, Goto, CallType
<1>4. /\ hand # None /\ call[Sync].col = Hotels
      /\ call[Sync].point = hand.hotel /\ call[Sync].doc = hand.doc /\ hand.hotel \in Points
  <2>1. hand # None /\ call[Sync].col = Home(Sync) /\ call[Sync].point \in Points
    BY <1>1, <1>3 DEF HomeInv, At
  <2>2. QED
    BY <2>1 DEF HomeInv, Home
<1>5. Effect(Sync) => /\ points'[Hotels] = [points[Hotels] EXCEPT ![hand.hotel] = hand.doc]
                      /\ points'[Hotels][hand.hotel] = hand.doc
  BY <1>1, <1>4 DEF Effect, PointsInv
<1>6. Effect(Sync) /\ (At(Sync, "write") \/ call[Sync].col \in created) => Hotels \in created
  BY <1>4 DEF ExistsInv
<1>7. /\ At(Sync, "create") => Hotels \notin created
      /\ At(Sync, "index") => Hotels \in created
  BY <1>1, <1>4 DEF ExistsInv, CreatorInv
<1>8. /\ At(Sync, "write")' <=> to = "write"
      /\ At(Sync, "create")' <=> to = "create"
      /\ At(Sync, "returned")' <=> to = "returned"
      /\ At(Sync, "raised")' <=> to = "raised"
  BY <1>3 DEF At
<1>9. /\ At(Sync, "write")' => Hotels \in created'
      /\ At(Sync, "create")' => Hotels \notin created'
  BY <1>2, <1>4, <1>7, <1>8 DEF At
<1>10. faults' = 0 => faults = 0 /\ UNCHANGED faults
  BY <1>1, <1>2
<1>11. faults' = 0 /\ At(Sync, "raised")' => hand.doc = None /\ Hotels \notin created'
  BY <1>1, <1>2, <1>4, <1>7, <1>8, <1>10
<1>12. \/ points'[Hotels] = points[Hotels]
       \/ /\ points'[Hotels] = [points[Hotels] EXCEPT ![hand.hotel] = hand.doc]
          /\ hand.doc # None => Hotels \in created
  BY <1>2, <1>5, <1>6
<1>13. At(Sync, "returned")' => /\ points'[Hotels][hand.hotel] = hand.doc
                                /\ hand.doc # None => Hotels \in created
  BY <1>2, <1>5, <1>6, <1>8
<1>14. Hotels \in created => Hotels \in created'
  BY <1>2
<1>15. QED
  BY <1>1, <1>3, <1>4, <1>9, <1>10, <1>11, <1>12, <1>13, <1>14

LEMMA HandleIs ==
  ASSUME CreatorInv, QueueInv, Handle
  PROVE  /\ hand = None /\ queue # <<>> /\ hand' = Head(queue) /\ hand' \in Messages
         /\ hand' # None /\ queue' = Tail(queue)
         /\ call'[Sync].at \in {"check", "delete"}
         /\ UNCHANGED <<created, points, faults, settled>>
<1>1. /\ Call(Sync, IF Head(queue).doc = None THEN "delete" ELSE "check", Hotels,
              Head(queue).hotel, Head(queue).doc)
      /\ hand = None /\ queue # <<>> /\ hand' = Head(queue) /\ queue' = Tail(queue)
      /\ UNCHANGED settled
  BY DEF Handle
<1>2. /\ call' = [call EXCEPT ![Sync] =
                   [at |-> IF Head(queue).doc = None THEN "delete" ELSE "check", col |-> Hotels,
                    point |-> Head(queue).hotel, doc |-> Head(queue).doc]]
      /\ UNCHANGED <<created, points, faults>>
  BY <1>1 DEF Call
<1>3. call'[Sync].at \in {"check", "delete"}
  BY <1>2, Apart DEF CreatorInv, CallType
<1>4. Head(queue) \in Messages /\ Head(queue) # None
  BY <1>1, DeliveryAssumption DEF QueueInv
<1>5. QED
  BY <1>1, <1>2, <1>3, <1>4

\* The collection is there before the first hotel is stored.
THEOREM CollectionBeforeHotels == Spec => []ExistsInv
<1>1. Init => ExistsInv
  BY Apart DEF Init, VectorInit, NoCall, ExistsInv, At
<1>2. CreatorInv /\ QueueInv /\ PointsInv /\ HomeInv /\ ExistsInv /\ [Next]_vars => ExistsInv'
  <2> SUFFICES ASSUME CreatorInv, QueueInv, PointsInv, HomeInv, ExistsInv, [Next]_vars
               PROVE  ExistsInv'
    OBVIOUS
  <2>1. CASE Away
    BY <2>1 DEF Away, ExistsInv, At
  <2>2. ASSUME UNCHANGED <<created, points>>,
               call'[Sync].at \in {"check", "delete", "idle"}
        PROVE  ExistsInv'
    BY <2>2 DEF ExistsInv, At
  <2>3. CASE Handle
    BY <2>2, <2>3, HandleIs
  <2>4. CASE Settle
    <3>1. call' = [call EXCEPT ![Sync] = NoCall] /\ UNCHANGED <<created, points>>
      BY <2>4 DEF Settle
    <3>2. call'[Sync].at = "idle"
      BY <3>1, Apart DEF CreatorInv, CallType, NoCall
    <3>3. QED
      BY <2>2, <3>1, <3>2
  <2>5. CASE WorkerDies
    <3>1. call'[Sync].at = "idle" /\ UNCHANGED <<created, points>>
      BY <2>5, Apart DEF WorkerDies, Die, NoCall
    <3>2. QED
      BY <2>2, <3>1
  <2>6. CASE (Server(Sync) \/ CallFails(Sync)) /\ UNCHANGED syncVars
    <3>1. /\ hand # None /\ UNCHANGED hand
          /\ \/ points'[Hotels] = points[Hotels]
             \/ /\ points'[Hotels] = [points[Hotels] EXCEPT ![hand.hotel] = hand.doc]
                /\ hand.doc # None => Hotels \in created
          /\ Hotels \in created => Hotels \in created'
          /\ At(Sync, "write")' => Hotels \in created'
          /\ At(Sync, "create")' => Hotels \notin created'
          /\ At(Sync, "returned")' /\ hand.doc # None => Hotels \in created
      BY <2>6, SyncServer
    <3>2. points[Hotels] \in [Points -> Documents \cup {None}]
      BY Apart DEF PointsInv
    <3>3. \A h \in Points : points'[Hotels][h] # None => Hotels \in created
      <4>1. CASE points'[Hotels] = points[Hotels]
        BY <4>1 DEF ExistsInv
      <4>2. CASE /\ points'[Hotels] = [points[Hotels] EXCEPT ![hand.hotel] = hand.doc]
                 /\ hand.doc # None => Hotels \in created
        BY <3>2, <4>2 DEF ExistsInv
      <4>3. QED
        BY <3>1, <4>1, <4>2
    <3>4. QED
      BY <3>1, <3>3 DEF ExistsInv
  <2>7. QED
    BY <2>1, <2>3, <2>4, <2>5, <2>6, HotelKinds
<1>3. QED
  BY <1>1, <1>2, CreatorsAlone, QueueTyped, PointsAreTyped, OneWriter, PTL DEF Spec

\* While nothing fails a dead letter is a deletion from a store without hotels.
CauseKept == CauseInv /\ DeadLetteredForCause

LEMMA CauseStep ==
  ASSUME CreatorInv, QueueInv, PointsInv, OrderInv, HomeInv, ExistsInv, CauseKept, [Next]_vars
  PROVE  CauseKept'
<1>1. faults \in Nat
  BY DEF PointsInv
<1>2. CASE Away
  BY <1>2 DEF Away, CauseKept, CauseInv, DeadLetteredForCause, At
<1>3. CASE Handle
  <2>1. call'[Sync].at \in {"check", "delete"} /\ UNCHANGED <<created, faults, settled>>
    BY <1>3, HandleIs
  <2>2. QED
    BY <2>1 DEF CauseKept, CauseInv, DeadLetteredForCause, At
<1>4. CASE Settle
  <2>1. /\ hand # None /\ call[Sync].at \in {"returned", "raised"}
        /\ settled' = settled \cup {[message |-> hand, outcome |-> Outcome(call[Sync].at)]}
        /\ call' = [call EXCEPT ![Sync] = NoCall] /\ UNCHANGED <<created, faults>>
    BY <1>4 DEF Settle
  <2>2. call'[Sync].at = "idle"
    BY <2>1, Apart DEF CreatorInv, CallType, NoCall
  <2>3. PICK o \in {"acked", "dead"} : /\ settled' = settled \cup {[message |-> hand, outcome |-> o]}
                                       /\ o = "dead" => At(Sync, "raised")
    BY <2>1 DEF Outcome, At
  <2>4. hand \in Unsettled /\ hand.seq \in Nat /\ \A s \in settled : s.message.seq < hand.seq /\ s.message.seq \in Nat
    BY <2>1 DEF Unsettled, OrderInv, QueueInv, Messages
  <2>5. \A x \in settled' : x \notin settled => x.message = hand /\ x.outcome = o
    BY <2>3
  <2>6. ASSUME faults = 0, Hotels \notin created PROVE \A s \in settled' : s.message.doc = None
    BY <2>1, <2>3, <2>6 DEF CauseKept, CauseInv, ExistsInv, At
  <2>7. CauseInv'
    BY <2>1, <2>2, <2>6 DEF CauseInv, At
  <2>8. ASSUME faults = 0, NEW s \in settled', s.outcome = "dead", NEW t \in settled',
               t.message.seq <= s.message.seq
        PROVE  t.message.doc = None
    <3>1. CASE s \in settled
      <4>1. t \in settled
        BY <2>4, <2>5, <2>8, <3>1
      <4>2. QED
        BY <2>8, <3>1, <4>1 DEF CauseKept, DeadLetteredForCause
    <3>2. CASE s \notin settled
      <4>1. At(Sync, "raised")
        BY <2>3, <2>5, <2>8, <3>2
      <4>2. Hotels \notin created
        BY <2>8, <4>1 DEF CauseKept, CauseInv
      <4>3. QED
        BY <2>6, <2>8, <4>2
    <3>3. QED
      BY <3>1, <3>2
  <2>9. DeadLetteredForCause'
    BY <2>1, <2>8 DEF DeadLetteredForCause
  <2>10. QED
    BY <2>7, <2>9 DEF CauseKept
<1>5. CASE WorkerDies
  <2>1. faults' # 0
    BY <1>1, <1>5 DEF WorkerDies, Die
  <2>2. QED
    BY <2>1 DEF CauseKept, CauseInv, DeadLetteredForCause
<1>6. CASE (Server(Sync) \/ CallFails(Sync)) /\ UNCHANGED syncVars
  <2>1. /\ UNCHANGED <<hand, settled>>
        /\ Hotels \in created => Hotels \in created'
        /\ faults' = 0 => /\ faults = 0
                          /\ At(Sync, "raised")' => hand.doc = None /\ Hotels \notin created'
    BY <1>6, SyncServer
  <2>2. QED
    BY <2>1 DEF CauseKept, CauseInv, DeadLetteredForCause
<1>7. QED
  BY <1>2, <1>3, <1>4, <1>5, <1>6, HotelKinds

\* Without failures of the server or crashes, the only message that is
\* dead-lettered deletes a hotel before the first one was ever stored: no other
\* writer makes the collection under it, and messages settle in their order.
THEOREM DeadLettersHaveCause == Spec => []DeadLetteredForCause
<1>1. Init => CauseKept
  BY Apart DEF Init, VectorInit, NoCall, CauseKept, CauseInv, DeadLetteredForCause, At
<1>2. CreatorInv /\ QueueInv /\ PointsInv /\ OrderInv /\ HomeInv /\ ExistsInv /\ CauseKept
      /\ [Next]_vars => CauseKept'
  BY CauseStep
<1>3. CauseKept => DeadLetteredForCause
  BY DEF CauseKept
<1>4. QED
  BY <1>1, <1>2, <1>3, CreatorsAlone, QueueTyped, PointsAreTyped, SettledInOrder, OneWriter,
     CollectionBeforeHotels, PTL DEF Spec

\* No message about a hotel is taken before the earlier ones are settled, so the
\* last one settled says what is stored, whatever failed or was redelivered.
LEMMA StoredStep ==
  ASSUME CreatorInv, QueueInv, PointsInv, OrderInv, HomeInv, ExistsInv, StoredInv, [Next]_vars
  PROVE  StoredInv'
<1>1. queue \in Seq(Messages) /\ points[Hotels] \in [Points -> Documents \cup {None}]
  BY Apart DEF QueueInv, PointsInv
<1>2. ASSUME NEW h \in Points, Left(h), settled' = settled, points'[Hotels][h] = points[Hotels][h]
      PROVE  Left(h)'
  BY <1>2 DEF Left, About, Said
<1>3. ASSUME settled' = settled, InTurn # <<>> => InTurn' # <<>> /\ Head(InTurn') = Head(InTurn),
             points'[Hotels] = points[Hotels], At(Sync, "returned")' => FALSE
      PROVE  StoredInv'
  <2> SUFFICES ASSUME NEW h \in Points
               PROVE  \/ Left(h)'
                      \/ InTurn' # <<>> /\ Head(InTurn').hotel = h /\ points'[Hotels][h] = Head(InTurn').doc
    BY <1>3 DEF StoredInv
  <2>1. Left(h) \/ (InTurn # <<>> /\ Head(InTurn).hotel = h /\ points[Hotels][h] = Head(InTurn).doc)
    BY DEF StoredInv
  <2>2. QED
    BY <1>2, <1>3, <2>1
<1>4. CASE Away
  <2>1. InTurn # <<>> => InTurn' # <<>> /\ Head(InTurn') = Head(InTurn)
    BY <1>1, <1>4 DEF Away, InTurn
  <2>2. settled' = settled /\ points'[Hotels] = points[Hotels] /\ hand' = hand
    BY <1>4 DEF Away
  <2>3. At(Sync, "returned")' => points'[Hotels][hand'.hotel] = hand'.doc
    BY <1>4 DEF Away, StoredInv, At
  <2>4. ASSUME NEW h \in Points
        PROVE  \/ Left(h)'
               \/ InTurn' # <<>> /\ Head(InTurn').hotel = h /\ points'[Hotels][h] = Head(InTurn').doc
    <3>1. Left(h) \/ (InTurn # <<>> /\ Head(InTurn).hotel = h /\ points[Hotels][h] = Head(InTurn).doc)
      BY DEF StoredInv
    <3>2. QED
      BY <1>2, <2>1, <2>2, <3>1
  <2>5. QED
    BY <2>3, <2>4 DEF StoredInv
<1>5. CASE Handle
  <2>1. /\ InTurn = queue /\ queue # <<>> /\ hand' = Head(queue) /\ hand' # None
        /\ call'[Sync].at \in {"check", "delete"} /\ UNCHANGED <<points, settled>>
    BY <1>5, HandleIs DEF InTurn
  <2>2. InTurn' = <<hand'>>
    BY <2>1 DEF InTurn
  <2>3. InTurn' # <<>> /\ Head(InTurn') = Head(InTurn)
    BY <2>1, <2>2
  <2>4. QED
    BY <1>3, <2>1, <2>3 DEF At
<1>6. CASE WorkerDies
  <2>1. /\ hand' = None /\ UNCHANGED <<points, settled>> /\ call'[Sync].at = "idle"
        /\ queue' = IF hand = None THEN queue ELSE <<hand>> \o queue
    BY <1>6, Apart DEF WorkerDies, Die, NoCall, Requeued
  <2>2. InTurn' = queue'
    BY <2>1 DEF InTurn
  <2>3. CASE hand = None
    <3>1. InTurn' = InTurn
      BY <2>1, <2>2, <2>3 DEF InTurn
    <3>2. QED
      BY <1>3, <2>1, <3>1 DEF At
  <2>4. CASE hand # None
    <3>1. InTurn' = <<hand>> \o queue /\ InTurn = <<hand>>
      BY <2>1, <2>2, <2>4 DEF InTurn
    <3>2. hand \in Messages
      BY <2>4 DEF QueueInv
    <3>3. InTurn' # <<>> /\ Head(InTurn') = Head(InTurn)
      BY <1>1, <3>1, <3>2
    <3>4. QED
      BY <1>3, <2>1, <3>3 DEF At
  <2>5. QED
    BY <2>3, <2>4
<1>7. CASE (Server(Sync) \/ CallFails(Sync)) /\ UNCHANGED syncVars
  <2>1. /\ hand # None /\ UNCHANGED <<queue, hand, settled>>
        /\ \/ points'[Hotels] = points[Hotels]
           \/ points'[Hotels] = [points[Hotels] EXCEPT ![hand.hotel] = hand.doc]
        /\ At(Sync, "returned")' => points'[Hotels][hand.hotel] = hand.doc
    BY <1>7, SyncServer
  <2>2. InTurn = <<hand>> /\ InTurn' = <<hand>>
    BY <2>1 DEF InTurn
  <2>3. ASSUME NEW h \in Points
        PROVE  Left(h)' \/ (hand.hotel = h /\ points'[Hotels][h] = hand.doc)
    <3>1. Left(h) \/ (hand.hotel = h /\ points[Hotels][h] = hand.doc)
      BY <2>2 DEF StoredInv
    <3>2. \/ points'[Hotels][h] = points[Hotels][h]
          \/ hand.hotel = h /\ points'[Hotels][h] = hand.doc
      BY <1>1, <2>1
    <3>3. QED
      BY <1>2, <2>1, <3>1, <3>2
  <2>4. QED
    BY <2>1, <2>2, <2>3 DEF StoredInv
<1>8. CASE Settle
  <2>1. /\ hand # None /\ hand' = None /\ call[Sync].at \in {"returned", "raised"}
        /\ settled' = settled \cup {[message |-> hand, outcome |-> Outcome(call[Sync].at)]}
        /\ call' = [call EXCEPT ![Sync] = NoCall] /\ UNCHANGED points
    BY <1>8 DEF Settle
  <2>2. call'[Sync].at = "idle"
    BY <2>1, Apart DEF CreatorInv, CallType, NoCall
  <2>3. PICK x : /\ x.message = hand /\ x.outcome \in {"acked", "dead"}
                 /\ settled' = settled \cup {x}
                 /\ x.outcome = "acked" => At(Sync, "returned")
    <3> DEFINE y == [message |-> hand, outcome |-> Outcome(call[Sync].at)]
    <3>1. y.message = hand /\ y.outcome = Outcome(call[Sync].at) /\ settled' = settled \cup {y}
      BY <2>1
    <3> HIDE DEF y
    <3>2. y.outcome \in {"acked", "dead"} /\ (y.outcome = "acked" => At(Sync, "returned"))
      BY <2>1, <3>1 DEF Outcome, At
    <3>3. QED
      BY <3>1, <3>2
  <2>4. /\ hand \in Unsettled /\ hand.seq \in Nat
        /\ \A s \in settled : s.message.seq < hand.seq /\ s.message.seq \in Nat
    BY <2>1 DEF Unsettled, OrderInv, QueueInv, Messages
  <2>5. \A h \in Points : /\ hand.hotel # h => About(h)' = About(h)
                          /\ hand.hotel = h => About(h)' = About(h) \cup {x}
    BY <2>3 DEF About
  <2>6. ASSUME NEW h \in Points, hand.hotel # h PROVE Left(h)'
    <3>1. Left(h)
      BY <2>1, <2>6 DEF StoredInv, InTurn
    <3>2. QED
      BY <2>1, <2>5, <2>6, <3>1 DEF Left, Said
  <2>7. ASSUME NEW h \in Points, hand.hotel = h PROVE Left(h)'
    <3>1. \A t \in About(h)' : t = x \/ t \in About(h)
      BY <2>5, <2>7
    <3>2. \A t \in About(h) : t.message.seq <= hand.seq
      BY <2>4 DEF About
    <3>3. hand.seq <= hand.seq
      BY <2>4
    <3>4. Said(h, x)' /\ x \in About(h)'
      BY <2>3, <2>5, <2>7, <3>1, <3>2, <3>3 DEF Said
    <3>5. CASE points[Hotels][h] = hand.doc
      BY <2>1, <2>3, <3>4, <3>5 DEF Left
    <3>6. CASE points[Hotels][h] # hand.doc
      <4>1. x.outcome = "dead"
        BY <2>3, <2>7, <3>6 DEF StoredInv
      <4>2. Left(h)
        BY <2>1, <3>6 DEF StoredInv, InTurn
      <4>3. ASSUME NEW s \in About(h), Said(h, s) PROVE s \in About(h)' /\ Said(h, s)'
        BY <2>5, <2>7, <3>1, <4>1, <4>3 DEF Said
      <4>4. QED
        BY <2>1, <3>1, <4>1, <4>2, <4>3 DEF Left
    <3>7. QED
      BY <3>5, <3>6
  <2>8. QED
    BY <2>2, <2>6, <2>7 DEF StoredInv, At
<1>9. QED
  BY <1>4, <1>5, <1>6, <1>7, <1>8, HotelKinds

\* A hotel is as its settled messages left it, or as the next message about it says.
THEOREM HotelsAreStored == Spec => []StoredInv
<1>1. Init => StoredInv
  <2> SUFFICES ASSUME Init PROVE StoredInv
    OBVIOUS
  <2>1. settled = {} /\ call[Sync].at = "idle" /\ \A h \in Points : points[Hotels][h] = None
    BY Apart DEF Init, VectorInit, NoCall
  <2>2. \A h \in Points : Left(h)
    BY <2>1 DEF Left, About
  <2>3. QED
    BY <2>1, <2>2 DEF StoredInv, At
<1>2. CreatorInv /\ QueueInv /\ PointsInv /\ OrderInv /\ HomeInv /\ ExistsInv /\ StoredInv
      /\ [Next]_vars => StoredInv'
  BY StoredStep
<1>3. QED
  BY <1>1, <1>2, CreatorsAlone, QueueTyped, PointsAreTyped, SettledInOrder, OneWriter,
     CollectionBeforeHotels, PTL DEF Spec

\* A hotel without unsettled messages is stored as its last acknowledged message
\* said, or a later one that failed, and the search finds it under that document
\* and no other (process_hotel_sync_message, upsert_hotel, hybrid_search_hotels).
THEOREM StoreFollows == Spec => []StoreFollowsQueue
<1>1. QueueInv /\ PointsInv /\ ExistsInv /\ StoredInv => StoreFollowsQueue
  <2> SUFFICES ASSUME QueueInv, PointsInv, ExistsInv, StoredInv,
                      NEW h \in Points, h \notin {m.hotel : m \in Unsettled}
               PROVE  /\ Left(h)
                      /\ \A d \in Documents : h \in HybridSearchHotels({d}) <=> points[Hotels][h] = d
    BY DEF StoreFollowsQueue, Left
  <2>1. Left(h)
    <3>1. InTurn # <<>> => Head(InTurn) \in Unsettled
      <4>1. CASE hand # None
        BY <4>1 DEF InTurn, Unsettled
      <4>2. CASE hand = None
        <5>1. queue # <<>> => 1 \in DOMAIN queue /\ queue[1] = Head(queue)
          BY DEF QueueInv
        <5>2. QED
          BY <4>2, <5>1, MembersOf DEF InTurn, Unsettled
      <4>3. QED
        BY <4>1, <4>2
    <3>2. QED
      BY <3>1 DEF StoredInv
  <2>2. ASSUME NEW d \in Documents
        PROVE  h \in HybridSearchHotels({d}) <=> points[Hotels][h] = d
    <3>1. d # None /\ (points[Hotels][h] # None => Hotels \in created)
      BY VectorAssumption DEF ExistsInv
    <3>2. QED
      BY <3>1 DEF HybridSearchHotels, Found
  <2>3. QED
    BY <2>1, <2>2
<1>2. QED
  BY <1>1, QueueTyped, PointsAreTyped, CollectionBeforeHotels, HotelsAreStored, PTL
=============================================================================
