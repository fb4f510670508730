------------------------------ MODULE Conversation ------------------------------
(***************************************************************************)
(* What the chat stream and the memory worker share: the checkpoint of     *)
(* each conversation thread in Redis and the durable queue of extraction   *)
(* tasks in RabbitMQ.  A message is what the properties tell apart: its    *)
(* type and the request that added it to the history.                      *)
(***************************************************************************)
EXTENDS Naturals, Sequences, FiniteSets, SequencesExt

CONSTANTS
  Requests,      \* chat requests
  HttpThreads,   \* thread ids of registered users who use the HTTP API
  HubThreads,    \* thread ids of SignalR connections, served over gRPC
  AnonThreads,   \* thread ids of anonymous users of the HTTP API
  None

Threads == HttpThreads \cup HubThreads \cup AnonThreads

\* A payload names user and session, which make the thread id; turn is the
\* request that published it, which the payload does not carry.
Task(th, r) == [thread |-> th, turn |-> r]

Tasks == [thread : Threads, turn : Requests]

ASSUME ConversationAssumption ==
  /\ HttpThreads \cap HubThreads = {}
  /\ (HttpThreads \cup HubThreads) \cap AnonThreads = {}
  /\ None \notin Requests \cup Threads \cup Tasks

VARIABLES
  history,   \* messages in the latest checkpoint of each thread
  mq         \* fact_extraction_queue

shared == <<history, mq>>

Human(r) == [type |-> "human", turn |-> r]
Ai(r) == [type |-> "ai", turn |-> r]

Message == [type : {"human", "ai"}, turn : Requests]

LastHuman_First(ms) == SelectInSeq(ms, LAMBDA m : m.type = "human")
LastHuman(ms) == SelectLastInSeq(ms, LAMBDA m : m.type = "human")

SharedInit ==
  /\ history = [th \in Threads |-> <<>>]
  /\ mq = <<>>
=============================================================================
