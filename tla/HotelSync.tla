------------------------------- MODULE HotelSync -------------------------------
(***************************************************************************)
(* The vector store in use: threads of the agent cache replies, the worker *)
(* stores facts and follows hotel_sync_queue.  The handler of that queue   *)
(* holds one delivery at a time, acknowledges it when it returns and       *)
(* dead-letters it when it raises.  The system that publishes the messages *)
(* is not in the repository.                                               *)
(***************************************************************************)
EXTENDS VectorCollections, Sequences, SequencesExt

CONSTANTS
  Agents,        \* threads of the agent that cache a reply
  Facts, Sync,   \* the worker's threads: fact storage and hotel synchronisation
  Cache, Memory, Hotels,   \* their collections
  Text,          \* the document of every cached reply and fact
  MaxMessages    \* bound: messages published

ASSUME SyncAssumption ==
  /\ MaxMessages \in Nat /\ Text \in Documents
  /\ Callers = Agents \cup {Facts, Sync} /\ Facts # Sync /\ {Facts, Sync} \cap Agents = {}
  /\ Collections = {Cache, Memory, Hotels} /\ Cardinality(Collections) = 3

VARIABLES
  queue,     \* hotel_sync_queue
  hand,      \* the delivery in hand
  settled,   \* the messages acknowledged and dead-lettered (history)
  sent

syncVars == <<queue, hand, settled, sent>>
vars == <<vectorVars, syncVars>>

-----------------------------------------------------------------------------
\* A message says what the hotel's document is to be, None when it is deleted;
\* seq is its place in the order of publication, which it does not carry.
Messages == [hotel : Points, doc : Documents \cup {None}, seq : 1..MaxMessages]

ASSUME DeliveryAssumption == None \notin Messages

Init ==
  /\ VectorInit
  /\ queue = <<>>
  /\ hand = None
  /\ settled = {}
  /\ sent = 0

\* External: Create, Update and Delete of hotels.
Publish(h, d) ==
  /\ sent < MaxMessages
  /\ sent' = sent + 1
  /\ queue' = Append(queue, [hotel |-> h, doc |-> d, seq |-> sent'])
  /\ UNCHANGED <<vectorVars, hand, settled>>

\* process_hotel_sync_message
Handle ==
  /\ hand = None
  /\ queue # <<>>
  /\ hand' = Head(queue)
  /\ queue' = Tail(queue)
  /\ LET m == Head(queue)
     IN  Call(Sync, IF m.doc = None THEN "delete" ELSE "check", Hotels, m.hotel, m.doc)
  /\ UNCHANGED <<settled, sent>>

Outcome(step) == IF step = "returned" THEN "acked" ELSE "dead"

\* message.process() acknowledges or, after an exception, rejects.
Settle ==
  /\ hand # None
  /\ call[Sync].at \in {"returned", "raised"}
  /\ settled' = settled \cup {[message |-> hand, outcome |-> Outcome(call[Sync].at)]}
  /\ hand' = None
  /\ call' = [call EXCEPT ![Sync] = NoCall]
  /\ UNCHANGED <<created, indexed, points, faults, abandoned, queue, sent>>

\* The other writers log a failure and go on.
CacheReply(w) ==
  /\ w \in Agents
  /\ \E p \in Points : Call(w, "check", Cache, p, Text)
  /\ UNCHANGED syncVars

AddFact ==
  /\ \E p \in Points : points[Memory][p] = None /\ Call(Facts, "check", Memory, p, Text)
  /\ UNCHANGED syncVars

LeaveCall(w) ==
  /\ w # Sync
  /\ call[w].at \in {"returned", "raised"}
  /\ call' = [call EXCEPT ![w] = NoCall]
  /\ UNCHANGED <<created, indexed, points, faults, abandoned, syncVars>>

\* RabbitMQ puts the delivery of a dead worker back at the head of the queue.
Requeued_AtTail(q, m) == Append(q, m)
Requeued(q, m) == <<m>> \o q

WorkerDies ==
  /\ Die({Facts, Sync})
  /\ queue' = IF hand = None THEN queue ELSE Requeued(queue, hand)
  /\ hand' = None
  /\ UNCHANGED <<settled, sent>>

AgentDies == Die(Agents) /\ UNCHANGED syncVars

Next ==
  \/ \E h \in Points, d \in Documents \cup {None} : Publish(h, d)
  \/ Handle
  \/ Settle
  \/ \E w \in Callers :
       \/ CacheReply(w)
       \/ LeaveCall(w)
       \/ (Server(w) \/ CallFails(w)) /\ UNCHANGED syncVars
  \/ AddFact
  \/ WorkerDies
  \/ AgentDies

Spec == Init /\ [][Next]_vars

\* hybrid_search_hotels with a filter some documents match and room for them all.
HybridSearchHotels(match) == {h \in Found(Hotels) : points[Hotels][h] \in match}

-----------------------------------------------------------------------------
\* A collection has all its payload indexes, or a caller is still making them,
\* or the one that made the collection failed on the way: nobody makes the
\* indexes of a collection that exists (_ensure_collection).
IndexedUnlessCreatorFailed ==
  \A c \in created \ abandoned :
    \/ indexed[c] = NumIndexes
    \/ \E w \in Callers : At(w, "index") /\ call[w].col = c

\* Without failures of the server or crashes, the only message that is
\* dead-lettered deletes a hotel before the first one was ever stored.
DeadLetteredForCause ==
  faults = 0 =>
    \A s \in settled : s.outcome = "dead" =>
      \A t \in settled : t.message.seq <= s.message.seq => t.message.doc = None

\* A hotel without unsettled messages is stored as the last message about it that
\* was acknowledged said, or as a later one said that was dead-lettered, for a call
\* that failed may have taken effect; and a search finds exactly that.
Unsettled == ToSet(queue) \cup (IF hand = None THEN {} ELSE {hand})

About(h) == {s \in settled : s.message.hotel = h}

Said(h, s) ==
  \A t \in About(h) : t.outcome = "acked" => t.message.seq <= s.message.seq

StoreFollowsQueue ==
  \A h \in Points \ {m.hotel : m \in Unsettled} :
    /\ \/ \E s \in About(h) : Said(h, s) /\ points[Hotels][h] = s.message.doc
       \/ points[Hotels][h] = None /\ \A s \in About(h) : s.outcome = "dead"
    /\ \A d \in Documents : h \in HybridSearchHotels({d}) <=> points[Hotels][h] = d

-----------------------------------------------------------------------------
(* The invariants of the proofs: a collection's indexes are made by the      *)
(* caller that created it, and by nobody else.                               *)

QueueInv ==
  /\ queue \in Seq(Messages)
  /\ hand \in Messages \cup {None}
  /\ sent \in Nat

CallType == [Callers -> [at : {"idle", "returned", "raised"} \cup Running,
                         col : Collections \cup {None},
                         point : Points \cup {None}, doc : Documents \cup {None}]]

CreatorInv ==
  /\ call \in CallType
  /\ \A w \in Callers : call[w].at \in Running => call[w].col \in Collections
  /\ indexed \in [Collections -> 0..NumIndexes]
  /\ \A c \in Collections \ created : indexed[c] = 0
  /\ \A w \in Callers : At(w, "index") => /\ call[w].col \in created
                                         /\ indexed[call[w].col] < NumIndexes
  /\ \A w, u \in Callers :
       At(w, "index") /\ At(u, "index") /\ call[w].col = call[u].col => w = u
  /\ created \subseteq Collections
  /\ IndexedUnlessCreatorFailed
-----------------------------------------------------------------------------
(* The invariants of the proofs: hotels have one writer, which takes the     *)
(* messages in the order of publication.                                     *)

OrderInv ==
  /\ settled \subseteq [message : Messages, outcome : {"acked", "dead"}]
  /\ \A i, j \in DOMAIN queue : i < j => queue[i].seq < queue[j].seq
  /\ \A m \in Unsettled : m.seq <= sent
  /\ \A s \in settled : s.message.seq <= sent /\ \A m \in Unsettled : s.message.seq < m.seq
  /\ hand # None => \A i \in DOMAIN queue : hand.seq < queue[i].seq

\* Every caller writes to its own collection, Sync what the message in hand says.
Home(w) == IF w = Sync THEN Hotels ELSE IF w = Facts THEN Memory ELSE Cache

HomeInv ==
  /\ \A w \in Callers : /\ ~At(w, "idle") => call[w].col = Home(w) /\ call[w].point \in Points
                        /\ At(w, "delete") => call[w].doc = None
  /\ hand = None <=> At(Sync, "idle")
  /\ hand # None => /\ call[Sync].point = hand.hotel /\ call[Sync].doc = hand.doc
                    /\ call[Sync].at \in {"check", "create", "index", "write"} => hand.doc # None

\* The collection of the hotels exists as soon as one can be written.
ExistsInv ==
  /\ At(Sync, "create") => Hotels \notin created
  /\ At(Sync, "write") => Hotels \in created
  /\ At(Sync, "returned") /\ hand.doc # None => Hotels \in created
  /\ \A h \in Points : points[Hotels][h] # None => Hotels \in created

\* While nothing fails, nothing is refused but deletions before the first hotel.
CauseInv ==
  faults = 0 =>
    /\ At(Sync, "raised") => hand.doc = None /\ Hotels \notin created
    /\ Hotels \notin created => \A s \in settled : s.message.doc = None

\* A hotel is as its settled messages left it, or as the message that is or was
\* in hand and not settled says.
Left(h) ==
  \/ \E s \in About(h) : Said(h, s) /\ points[Hotels][h] = s.message.doc
  \/ points[Hotels][h] = None /\ \A s \in About(h) : s.outcome = "dead"

InTurn == IF hand # None THEN <<hand>> ELSE queue

PointsInv ==
  points \in [Collections -> [Points -> Documents \cup {None}]] /\ faults \in Nat

StoredInv ==
  /\ At(Sync, "returned") => points[Hotels][hand.hotel] = hand.doc
  /\ \A h \in Points :
       \/ Left(h)
       \/ InTurn # <<>> /\ Head(InTurn).hotel = h /\ points[Hotels][h] = Head(InTurn).doc

SyncInv ==
  PointsInv /\ OrderInv /\ HomeInv /\ ExistsInv /\ CauseInv /\ StoredInv /\ DeadLetteredForCause
=============================================================================
