--------------------------- MODULE ChatMemoryProofs ---------------------------
(* Theorems about the chat stream and the memory worker, for any number of  *)
(* requests, threads, prompts, pieces, drafts, restarts and crashes.        *)
EXTENDS ChatMemory, FiniteSetTheorems, TLAPS

LEMMA Constants ==
  /\ None \notin Requests /\ None \notin Threads /\ None \notin Tasks
  /\ HttpThreads \subseteq Threads /\ HubThreads \subseteq Threads /\ AnonThreads \subseteq Threads
  /\ HttpThreads \cap HubThreads = {} /\ (HttpThreads \cup HubThreads) \cap AnonThreads = {}
  /\ MaxPieces \in Nat /\ MaxPieces >= 1 /\ MaxDrafts \in Nat
BY ConversationAssumption, ChatAssumption DEF Threads

-----------------------------------------------------------------------------
(* One request's generator: the records its steps lead to.                  *)

\* A step of a generator that neither begins a run nor writes a checkpoint ...
Steady(q, p) ==
  /\ q.at # "new" => p.thread = q.thread
  /\ Begun(q) => Begun(p)
  /\ p.final = q.final /\ p.overlapped = q.overlapped
  /\ q.final => p.drafts = q.drafts
  /\ Writes(p) => /\ Writes(q) /\ p.msgs = q.msgs
                  /\ p.stray \/ (p.drafts = q.drafts /\ ~q.stray)

\* ... nor publishes a task.
Calm(q, p) == Steady(q, p) /\ (p.task = "published" <=> q.task = "published")

LEMMA NewTyped == NewRequest \in Request /\ Consistent(NewRequest)
BY Constants DEF NewRequest, Request, Consistent

\* What a request is when it has been accepted.
Enters(e, th, at) ==
  /\ e \in Request /\ Consistent(e) /\ Calm(NewRequest, e)
  /\ e.at = at /\ e.thread = th

LEMMA Accepted ==
  ASSUME NEW th \in Threads, NEW p \in Prompts, NEW at \in {"lookup", "dropped"},
         at = "dropped" => th \notin HubThreads
  PROVE  /\ Enters([NewRequest EXCEPT !.at = at, !.thread = th, !.prompt = p], th, at)
         /\ Enters([NewRequest EXCEPT !.at = at, !.thread = th, !.prompt = p, !.hub = "open"],
                   th, at)
<1> DEFINE Fresh(e) ==
      /\ e \in Request /\ e.at = at /\ e.thread = th /\ e.sent = 0 /\ e.text = 0
      /\ e.counted = 0 /\ e.final = FALSE /\ e.stray = FALSE /\ e.overlapped = FALSE
      /\ e.drafts = 0 /\ e.task = "none"
<1>1. Fresh([NewRequest EXCEPT !.at = at, !.thread = th, !.prompt = p])
  BY NewTyped DEF NewRequest, Request
<1>2. Fresh([NewRequest EXCEPT !.at = at, !.thread = th, !.prompt = p, !.hub = "open"])
  BY NewTyped DEF NewRequest, Request
<1>3. ASSUME NEW e, Fresh(e) PROVE Enters(e, th, at)
  <2>1. Consistent(e)
    BY <1>3 DEF Consistent
  <2>2. /\ NewRequest.at = "new" /\ NewRequest.final = FALSE /\ NewRequest.overlapped = FALSE
        /\ NewRequest.task = "none"
    BY DEF NewRequest
  <2>3. Calm(NewRequest, e)
    BY <1>3, <2>2 DEF Calm, Steady, Begun, Writes
  <2>4. QED
    BY <1>3, <2>1, <2>3 DEF Enters
<1> HIDE DEF Fresh
<1>4. QED
  BY <1>1, <1>2, <1>3

\* Fields set to values of their sets.
LEMMA TaskSet ==
  ASSUME NEW q \in Request, NEW t \in {"none", "pending", "published"}
  PROVE  [q EXCEPT !.task = t] \in Request /\ [q EXCEPT !.task = t].receipt = q.receipt
BY DEF Request

LEMMA ReceiptSet ==
  ASSUME NEW q \in Request, NEW n \in 0..MaxPieces
  PROVE  [q EXCEPT !.receipt = n] \in Request /\ [q EXCEPT !.receipt = n].receipt = n
BY DEF Request

LEMMA GoneSet ==
  ASSUME NEW q \in Request
  PROVE  [q EXCEPT !.gone = TRUE] \in Request /\ [q EXCEPT !.gone = TRUE].receipt = q.receipt
BY DEF Request

LEMMA StraySet ==
  ASSUME NEW q \in Request, NEW b \in BOOLEAN
  PROVE  [q EXCEPT !.stray = b] \in Request /\ [q EXCEPT !.stray = b].receipt = q.receipt
BY DEF Request

LEMMA CountedUp ==
  ASSUME NEW q \in Request
  PROVE  LET p == [q EXCEPT !.counted = @ + 1]
         IN  /\ p \in Request /\ p.counted = q.counted + 1
             /\ p.thread = q.thread /\ p.msgs = q.msgs /\ p.final = q.final
             /\ p.overlapped = q.overlapped /\ p.drafts = q.drafts
             /\ p.stray = q.stray /\ p.task = q.task
<1> DEFINE p == [q EXCEPT !.counted = @ + 1]
<1>1. p \in Request
  BY DEF Request
<1>2. /\ p.counted = q.counted + 1 /\ p.thread = q.thread /\ p.msgs = q.msgs
      /\ p.final = q.final /\ p.overlapped = q.overlapped /\ p.drafts = q.drafts
      /\ p.stray = q.stray /\ p.task = q.task
  BY DEF Request
<1>3. QED
  BY <1>1, <1>2

LEMMA Missed ==
  ASSUME NEW q \in Request, Consistent(q), q.at = "lookup"
  PROVE  LET e == [q EXCEPT !.at = "start"]
         IN  e \in Request /\ Consistent(e) /\ Calm(q, e) /\ e.at = "start"
BY DEF Request, Consistent, Calm, Steady, Begun, Writes

LEMMA Overlapped ==
  ASSUME NEW q \in Request, Consistent(q), NEW o \in BOOLEAN, q.at = "new" => ~o
  PROVE  LET e == [q EXCEPT !.overlapped = o \/ @]
         IN  /\ e \in Request /\ e.overlapped = (q.overlapped \/ o)
             /\ e.at = q.at /\ e.thread = q.thread /\ e.msgs = q.msgs /\ e.drafts = q.drafts
             /\ e.final = q.final /\ e.stray = q.stray /\ e.task = q.task /\ Consistent(e)
<1>1. CASE o
  <2> DEFINE e == [q EXCEPT !.overlapped = TRUE]
  <2>1. [q EXCEPT !.overlapped = o \/ @] = e /\ q.at # "new"
    BY <1>1
  <2>2. /\ e \in Request /\ e.overlapped = TRUE /\ e.at = q.at /\ e.thread = q.thread
        /\ e.msgs = q.msgs /\ e.drafts = q.drafts /\ e.final = q.final /\ e.stray = q.stray
        /\ e.task = q.task /\ e.sent = q.sent /\ e.text = q.text /\ e.counted = q.counted
        /\ e.whole = q.whole /\ e.gone = q.gone
    BY DEF Request
  <2> HIDE DEF e
  <2>3. Consistent(e)
    BY <2>1, <2>2 DEF Consistent
  <2>4. QED
    BY <1>1, <2>1, <2>2, <2>3
<1>2. CASE ~o
  <2>1. [q EXCEPT !.overlapped = o \/ @] = q
    <3>1. q.overlapped \in BOOLEAN /\ q = [q EXCEPT !.overlapped = q.overlapped]
      BY DEF Request
    <3>2. (o \/ q.overlapped) = q.overlapped
      BY <1>2, <3>1
    <3>3. QED
      BY <3>1, <3>2
  <2>2. (q.overlapped \/ o) = q.overlapped
    BY <1>2 DEF Request
  <2>3. QED
    BY <2>1, <2>2
<1>3. QED
  BY <1>1, <1>2

LEMMA Cut ==
  ASSUME NEW q \in Request, Consistent(q), q.at = "graph", NEW ms \in Seq(Message)
  PROVE  LET e == [q EXCEPT !.msgs = ms]
         IN  /\ e \in Request /\ Consistent(e) /\ e.at = q.at /\ e.thread = q.thread
             /\ e.msgs = ms /\ e.overlapped = q.overlapped /\ e.drafts = q.drafts
             /\ e.final = q.final /\ e.stray = q.stray /\ e.task = q.task
BY DEF Request, Consistent

LEMMA Streamed ==
  ASSUME NEW q \in Request, Consistent(q), q.at \in {"graph", "final"}, q.text < MaxPieces
  PROVE  LET e == Piece([q EXCEPT !.at = "final"])
         IN  e \in Request /\ Consistent(e) /\ Calm(q, e) /\ e.at = "final"
<1> DEFINE e == Piece([q EXCEPT !.at = "final"])
<1>0. q.text + 1 \in 0..MaxPieces /\ q.sent = q.text /\ q.sent + 1 \in 0..MaxPieces
  BY Constants DEF Request, Consistent
<1>1. e \in Request /\ e.at = "final" /\ e.thread = q.thread /\ e.msgs = q.msgs
      /\ e.overlapped = q.overlapped /\ e.drafts = q.drafts /\ e.final = q.final
      /\ e.counted = q.counted /\ e.task = q.task /\ e.whole = q.whole
      /\ e.stray = q.stray /\ e.gone = q.gone /\ e.text = q.text + 1 /\ e.sent = e.text
  BY <1>0 DEF Request, Piece
<1> HIDE DEF e
<1>2. Consistent(e) /\ Calm(q, e)
  BY <1>1 DEF Consistent, Calm, Steady, Begun, Writes
<1>3. QED
  BY <1>1, <1>2 DEF e

LEMMA Finished ==
  ASSUME NEW q \in Request, Consistent(q), q.at \in {"graph", "final"}
  PROVE  LET f == [q EXCEPT !.at = "after", !.msgs = <<>>, !.final = TRUE]
         IN  \A e \in {[Piece(f) EXCEPT !.whole = 1], [f EXCEPT !.whole = f.text]} :
               e = [f EXCEPT !.whole = f.text] \/ q.text = 0 =>
                 /\ e \in Request /\ Consistent(e) /\ e.at = "after" /\ e.thread = q.thread
                 /\ e.overlapped = q.overlapped /\ e.drafts = q.drafts
                 /\ e.final = TRUE /\ e.stray = q.stray /\ e.task = q.task
<1> DEFINE f == [q EXCEPT !.at = "after", !.msgs = <<>>, !.final = TRUE]
           g == [f EXCEPT !.whole = f.text]
           h == [Piece(f) EXCEPT !.whole = 1]
<1>1. <<>> \in Seq(Message)
  OBVIOUS
<1>2. /\ f \in Request /\ f.at = "after" /\ f.final = TRUE /\ f.text = q.text /\ f.sent = q.sent
      /\ f.thread = q.thread /\ f.overlapped = q.overlapped /\ f.drafts = q.drafts
      /\ f.counted = q.counted /\ f.stray = q.stray /\ f.task = q.task
  BY <1>1 DEF Request
<1> HIDE DEF f
<1> DEFINE Ready(e) == /\ e \in Request /\ e.at = "after" /\ e.final = TRUE
                       /\ e.whole = e.text /\ e.sent = e.text
                       /\ e.thread = q.thread /\ e.overlapped = q.overlapped /\ e.drafts = q.drafts
                       /\ e.counted = q.counted /\ e.stray = q.stray /\ e.task = q.task
<1>3. Ready(g)
  BY <1>2 DEF Request, Consistent
<1>4. ASSUME q.text = 0 PROVE Ready(h)
  <2>1. f.text + 1 = 1 /\ f.sent + 1 = 1 /\ 1 \in 0..MaxPieces
    BY <1>2, <1>4, Constants DEF Consistent
  <2>2. QED
    BY <1>2, <2>1 DEF Request, Piece
<1> HIDE DEF g, h
<1>5. \A e : Ready(e) => Consistent(e)
  BY DEF Consistent
<1>6. \A e \in {h, g} : e = g \/ q.text = 0 =>
                 /\ e \in Request /\ Consistent(e) /\ e.at = "after" /\ e.thread = q.thread
                 /\ e.overlapped = q.overlapped /\ e.drafts = q.drafts
                 /\ e.final = TRUE /\ e.stray = q.stray /\ e.task = q.task
  BY <1>3, <1>4, <1>5
<1>7. QED
  BY <1>6 DEF f, g, h

LEMMA HubDoneFields ==
  ASSUME NEW q \in Request
  PROVE  LET e == HubDone(q)
         IN  /\ e \in Request /\ e.at = q.at /\ e.thread = q.thread /\ e.msgs = q.msgs
             /\ e.overlapped = q.overlapped /\ e.drafts = q.drafts /\ e.final = q.final
             /\ e.counted = q.counted /\ e.task = q.task /\ e.whole = q.whole
             /\ e.text = q.text /\ e.sent = q.sent /\ e.stray = q.stray /\ e.gone = q.gone
<1>1. CASE q.hub = "open"
  BY <1>1 DEF HubDone, Request
<1>2. CASE q.hub # "open"
  BY <1>2 DEF HubDone, Request
<1>3. QED
  BY <1>1, <1>2

LEMMA Broken ==
  ASSUME NEW q \in Request, Consistent(q), Live(q)
  PROVE  LET e == HubDone([q EXCEPT !.gone = TRUE])
         IN  e \in Request /\ Consistent(e) /\ Calm(q, e) /\ e.at = q.at
<1> DEFINE g == [q EXCEPT !.gone = TRUE]
           e == HubDone(g)
<1>1. g \in Request /\ g.at = q.at /\ g.thread = q.thread /\ g.msgs = q.msgs
      /\ g.overlapped = q.overlapped /\ g.drafts = q.drafts /\ g.final = q.final
      /\ g.counted = q.counted /\ g.task = q.task /\ g.whole = q.whole
      /\ g.text = q.text /\ g.sent = q.sent /\ g.stray = q.stray /\ g.gone
  BY DEF Request
<1> HIDE DEF g
<1>2. e \in Request /\ e.at = q.at /\ e.thread = q.thread /\ e.msgs = q.msgs
      /\ e.overlapped = q.overlapped /\ e.drafts = q.drafts /\ e.final = q.final
      /\ e.counted = q.counted /\ e.task = q.task /\ e.whole = q.whole
      /\ e.text = q.text /\ e.sent = q.sent /\ e.stray = q.stray /\ e.gone
  BY <1>1, HubDoneFields
<1> HIDE DEF e
<1>3. Consistent(e) /\ Calm(q, e)
  BY <1>2 DEF Consistent, Calm, Steady, Begun, Writes, Live
<1>4. QED
  BY <1>2, <1>3 DEF e, g

LEMMA Cancelled ==
  ASSUME NEW q \in Request, Consistent(q), q.at \in {"graph", "final"}, q.gone
  PROVE  LET e == [q EXCEPT !.at = "after", !.stray = TRUE]
         IN  e \in Request /\ Consistent(e) /\ Calm(q, e) /\ e.at = "after"
<1> DEFINE e == [q EXCEPT !.at = "after", !.stray = TRUE]
<1>1. e \in Request /\ e.at = "after" /\ e.thread = q.thread /\ e.msgs = q.msgs
      /\ e.overlapped = q.overlapped /\ e.drafts = q.drafts /\ e.final = q.final
      /\ e.counted = q.counted /\ e.task = q.task /\ e.whole = q.whole
      /\ e.text = q.text /\ e.sent = q.sent /\ e.stray /\ e.gone
  BY DEF Request, Consistent
<1> HIDE DEF e
<1>2. Consistent(e) /\ Calm(q, e)
  BY <1>1 DEF Consistent, Calm, Steady, Begun, Writes
<1>3. QED
  BY <1>1, <1>2 DEF e

LEMMA StrayDone ==
  ASSUME NEW q \in Request, Consistent(q), q.stray
  PROVE  LET e == [q EXCEPT !.stray = FALSE, !.msgs = <<>>]
         IN  e \in Request /\ Consistent(e) /\ Calm(q, e) /\ e.at = q.at
<1> DEFINE e == [q EXCEPT !.stray = FALSE, !.msgs = <<>>]
<1> <<>> \in Seq(Message)
  OBVIOUS
<1>1. e \in Request /\ e.at = q.at /\ ~e.stray /\ e.thread = q.thread
      /\ e.overlapped = q.overlapped /\ e.drafts = q.drafts /\ e.final = q.final
      /\ e.counted = q.counted /\ e.task = q.task /\ e.whole = q.whole
      /\ e.text = q.text /\ e.sent = q.sent /\ e.gone = q.gone
  BY DEF Request, Consistent
<1> HIDE DEF e
<1>2. Consistent(e) /\ Calm(q, e)
  BY <1>1 DEF Consistent, Calm, Steady, Begun, Writes
<1>3. QED
  BY <1>1, <1>2 DEF e

LEMMA Stored ==
  ASSUME NEW q \in Request, Consistent(q), q.at = "cache"
  PROVE  LET e == [q EXCEPT !.at = "receipt"]
         IN  e \in Request /\ Consistent(e) /\ Calm(q, e) /\ e.at = "receipt"
<1> DEFINE e == [q EXCEPT !.at = "receipt"]
<1>1. e \in Request /\ e.at = "receipt" /\ e.thread = q.thread /\ e.msgs = q.msgs
      /\ e.overlapped = q.overlapped /\ e.drafts = q.drafts /\ e.final = q.final
      /\ e.counted = q.counted /\ e.task = q.task /\ e.whole = q.whole
      /\ e.text = q.text /\ e.sent = q.sent /\ e.stray = q.stray /\ e.gone = q.gone
  BY DEF Request, Consistent
<1> HIDE DEF e
<1>2. Consistent(e) /\ Calm(q, e)
  BY <1>1 DEF Consistent, Calm, Steady, Begun, Writes
<1>3. QED
  BY <1>1, <1>2 DEF e

LEMMA Published ==
  ASSUME NEW q \in Request, Consistent(q), q.task = "pending", NEW t \in {"none", "published"}
  PROVE  LET e == [q EXCEPT !.task = t]
         IN  /\ e \in Request /\ Consistent(e) /\ e.at = q.at /\ e.thread = q.thread
             /\ e.msgs = q.msgs /\ e.overlapped = q.overlapped /\ e.drafts = q.drafts
             /\ e.final = q.final /\ e.stray = q.stray /\ e.task = t /\ Steady(q, e)
<1> DEFINE e == [q EXCEPT !.task = t]
<1>1. /\ e \in Request /\ Consistent(e) /\ e.at = q.at /\ e.thread = q.thread
      /\ e.msgs = q.msgs /\ e.overlapped = q.overlapped /\ e.drafts = q.drafts
      /\ e.final = q.final /\ e.stray = q.stray /\ e.task = t
  BY DEF Request, Consistent
<1> HIDE DEF e
<1>2. Steady(q, e)
  <2>1. ~(q.final /\ q.stray)
    BY DEF Consistent
  <2>2. q.final /\ q.at \in {"cache", "receipt", "closed"}
    BY DEF Consistent
  <2>3. QED
    BY <1>1, <2>1, <2>2 DEF Steady, Begun, Writes
<1>3. QED
  BY <1>1, <1>2 DEF e

LEMMA HubDoneType ==
  ASSUME NEW q \in Request
  PROVE  HubDone(q).hub \in {"none", "open", "complete"}
BY DEF HubDone, Request

LEMMA ClosedFields ==
  ASSUME NEW q \in Request
  PROVE  /\ Closed(q) \in Request /\ Closed(q).at = "closed" /\ Closed(q).thread = q.thread
         /\ Closed(q).msgs = (IF q.stray THEN q.msgs ELSE <<>>) /\ Closed(q).stray = q.stray
         /\ Closed(q).drafts = (IF q.final THEN q.drafts ELSE 0)
         /\ Closed(q).final = q.final /\ Closed(q).overlapped = q.overlapped
         /\ Closed(q).counted = q.counted /\ Closed(q).task = q.task
         /\ Closed(q).text = 0 /\ Closed(q).sent = 0
<1>1. HubDone(q).hub \in {"none", "open", "complete"}
  BY HubDoneType
<1>2. QED
  BY <1>1, Constants DEF Request, Closed

LEMMA ClosedCalm ==
  ASSUME NEW q \in Request, Consistent(q), NEW p \in Request,
         q.at \notin {"new"}, p.counted <= 1, p.thread = q.thread, p.msgs = q.msgs,
         p.final = q.final, p.overlapped = q.overlapped, p.drafts = q.drafts,
         p.stray => Writes(q),
         \/ p.task = q.task
         \/ p.task = "none" /\ q.task # "published"
         \/ p.task = "pending" /\ q.task = "none" /\ q.final /\ q.thread \notin AnonThreads
  PROVE  /\ Closed(p) \in Request /\ Consistent(Closed(p)) /\ Calm(q, Closed(p))
         /\ Closed(p).at = "closed"
<1>1. Consistent(Closed(p))
  BY ClosedFields DEF Consistent, Writes
<1>2. Calm(q, Closed(p))
  BY ClosedFields DEF Calm, Steady, Begun, Writes, Consistent
<1>3. QED
  BY <1>1, <1>2, ClosedFields

LEMMA Ended ==
  ASSUME NEW q \in Request, Consistent(q), Live(q)
  PROVE  LET e == Closed([q EXCEPT !.counted = @ + 1])
         IN  e \in Request /\ Consistent(e) /\ Calm(q, e) /\ e.at = "closed"
<1> DEFINE p == [q EXCEPT !.counted = @ + 1]
<1>1. /\ p \in Request /\ p.counted <= 1 /\ p.thread = q.thread /\ p.msgs = q.msgs
      /\ p.final = q.final /\ p.overlapped = q.overlapped /\ p.drafts = q.drafts
      /\ p.stray = q.stray /\ p.task = q.task /\ q.at # "new" /\ q.at \notin {"new"}
  BY DEF Request, Consistent, Live
<1> HIDE DEF p
<1>2. Closed(p) \in Request /\ Consistent(Closed(p)) /\ Calm(q, Closed(p)) /\ Closed(p).at = "closed"
  BY <1>1, ClosedCalm DEF Writes
<1>3. QED
  BY <1>2 DEF p

-----------------------------------------------------------------------------
(* The steps of the chat stream, by what they do to the requests.           *)

StreamsInv ==
  /\ req \in [Requests -> Request] /\ StreamInv
  /\ history \in [Threads -> Seq(Message)]

\* Of the requests only r moves, to a consistent record.
Moves(r) ==
  /\ req' \in [Requests -> Request] /\ Consistent(req'[r])
  /\ \A s \in Requests \ {r} : req'[s] = req[s]

\* ... and calmly, to at.
Advances(r, at) == Moves(r) /\ Calm(req[r], req'[r]) /\ req'[r].at = at

LEMMA UpdateIs ==
  ASSUME StreamsInv, NEW r \in Requests, NEW e \in Request, Update(r, e)
  PROVE  /\ req' \in [Requests -> Request] /\ req'[r] = e
         /\ \A s \in Requests \ {r} : req'[s] = req[s]
BY DEF StreamsInv, Update

LEMMA RequestIs ==
  ASSUME StreamsInv, NEW r \in Requests
  PROVE  req[r] \in Request /\ Consistent(req[r])
BY DEF StreamsInv, StreamInv

LEMMA AcceptSteps ==
  ASSUME StreamsInv, NEW r \in Requests, NEW th \in Threads, NEW p \in Prompts,
         \/ th \in HttpThreads \cup AnonThreads /\ AcceptHttp(r, th, p)
         \/ th \in HubThreads /\ AcceptGrpc(r, th, p)
  PROVE  /\ Advances(r, "lookup") \/ (th \notin HubThreads /\ Advances(r, "dropped"))
         /\ req[r].at = "new" /\ req'[r].thread = th
<1>1. req[r].at = "new" /\ req[r] = NewRequest
  BY RequestIs DEF AcceptHttp, AcceptGrpc, Is, Consistent
<1>2. ASSUME NEW e, NEW at, Update(r, e), Enters(e, th, at)
      PROVE  Advances(r, at) /\ req'[r].thread = th
  BY <1>1, <1>2, UpdateIs DEF Advances, Moves, Enters
<1>3. CASE th \in HubThreads /\ AcceptGrpc(r, th, p)
  BY <1>1, <1>2, <1>3, Accepted DEF AcceptGrpc
<1>4. CASE th \in HttpThreads \cup AnonThreads /\ AcceptHttp(r, th, p)
  <2>1. PICK at \in {"lookup", "dropped"} :
          Update(r, [NewRequest EXCEPT !.at = at, !.thread = th, !.prompt = p])
    BY <1>4 DEF AcceptHttp
  <2>2. th \notin HubThreads
    BY <1>4, Constants
  <2>3. QED
    BY <1>1, <1>2, <2>1, <2>2, Accepted
<1>5. QED
  BY <1>3, <1>4

LEMMA QuietSteps ==
  ASSUME StreamsInv, NEW r \in Requests
  PROVE  /\ CacheMiss(r) => Advances(r, "start") /\ req[r].at = "lookup"
         /\ StreamPiece(r) => Advances(r, "final") /\ InGraph(r)
         /\ CallBreaks(r) => Advances(r, req[r].at)
         /\ SeeCancelled(r) => Advances(r, "after") /\ InGraph(r)
         /\ StrayStep(r) => Advances(r, req[r].at) /\ req[r].stray
         /\ StoreReply(r) => Advances(r, "receipt") /\ req[r].at = "cache"
<1> USE DEF Is, InGraph, Advances, Moves
<1>1. ASSUME CacheMiss(r) PROVE Advances(r, "start") /\ req[r].at = "lookup"
  BY <1>1, RequestIs, Missed, UpdateIs DEF CacheMiss
<1>2. ASSUME StreamPiece(r) PROVE Advances(r, "final") /\ InGraph(r)
  BY <1>2, RequestIs, Streamed, UpdateIs DEF StreamPiece
<1>3. ASSUME CallBreaks(r) PROVE Advances(r, req[r].at)
  BY <1>3, RequestIs, Broken, UpdateIs DEF CallBreaks, Streaming, Live
<1>4. ASSUME SeeCancelled(r) PROVE Advances(r, "after") /\ InGraph(r)
  <2>1. req[r].at \in {"graph", "final"} /\ req[r].gone
    BY <1>4 DEF SeeCancelled
  <2> DEFINE e == [req[r] EXCEPT !.at = "after", !.stray = TRUE]
  <2>2. Update(r, e) /\ e \in Request /\ Consistent(e) /\ Calm(req[r], e) /\ e.at = "after"
    BY <1>4, <2>1, RequestIs, Cancelled DEF SeeCancelled
  <2> HIDE DEF e
  <2>3. QED
    BY <2>1, <2>2, UpdateIs
<1>5. ASSUME StrayStep(r) PROVE Advances(r, req[r].at) /\ req[r].stray
  BY <1>5, RequestIs, StrayDone, UpdateIs DEF StrayStep
<1>6. ASSUME StoreReply(r) PROVE Advances(r, "receipt") /\ req[r].at = "cache"
  BY <1>6, RequestIs, Stored, UpdateIs DEF StoreReply
<1>7. QED
  BY <1>1, <1>2, <1>3, <1>4, <1>5, <1>6

LEMMA EndSteps ==
  ASSUME StreamsInv, NEW r \in Requests
  PROVE  /\ CacheHit(r) \/ GraphFails(r) \/ Abort(r) \/ SendReceipt(r)
              => Advances(r, "closed") /\ Live(req[r])
         /\ AfterGraph(r) => /\ req[r].at = "after"
                            /\ \/ Advances(r, "cache") /\ UNCHANGED gauge
                               \/ Advances(r, "closed") /\ GaugeFalls(r)
<1>1. req[r] \in Request /\ Consistent(req[r])
  BY RequestIs
<1>2. ASSUME NEW p \in Request, Update(r, Closed(p)), Live(req[r]),
             p.counted <= 1, p.thread = req[r].thread, p.msgs = req[r].msgs,
             p.final = req[r].final, p.overlapped = req[r].overlapped,
             p.drafts = req[r].drafts, p.stray => Writes(req[r]),
             \/ p.task = req[r].task
             \/ /\ p.task = "pending" /\ req[r].task = "none" /\ req[r].final
                /\ req[r].thread \notin AnonThreads
      PROVE  Advances(r, "closed") /\ Live(req[r])
  <2>1. req[r].at \notin {"new"}
    BY <1>2 DEF Live
  <2>2. Closed(p) \in Request /\ Consistent(Closed(p)) /\ Calm(req[r], Closed(p))
        /\ Closed(p).at = "closed"
    BY <1>1, <1>2, <2>1, ClosedCalm
  <2>3. QED
    BY <1>2, <2>2, UpdateIs DEF Advances, Moves
<1>3. ASSUME Live(req[r]), End(r, req[r]) PROVE Advances(r, "closed")
  <2> DEFINE p == [req[r] EXCEPT !.counted = @ + 1]
  <2>1. /\ p \in Request /\ p.counted <= 1 /\ p.thread = req[r].thread /\ p.msgs = req[r].msgs
        /\ p.final = req[r].final /\ p.overlapped = req[r].overlapped
        /\ p.drafts = req[r].drafts /\ p.stray = req[r].stray /\ p.task = req[r].task
    <3>1. req[r] \in Request /\ req[r].counted = 0
      BY <1>1, <1>3 DEF Consistent, Live
    <3>2. req[r].counted + 1 <= 1
      BY ONLY <3>1
    <3>3. QED
      BY ONLY <3>1, <3>2, CountedUp
  <2>2. Update(r, Closed(p))
    BY <1>3 DEF End
  <2> HIDE DEF p
  <2>3. QED
    BY <1>2, <1>3, <2>1, <2>2 DEF Writes
<1>4. ASSUME CacheHit(r) \/ GraphFails(r) PROVE Advances(r, "closed") /\ Live(req[r])
  BY <1>3, <1>4 DEF CacheHit, GraphFails, Is, InGraph, Live
<1>5. ASSUME SendReceipt(r) PROVE Advances(r, "closed") /\ Live(req[r])
  <2>1. Live(req[r])
    BY <1>5 DEF SendReceipt, Is, Live
  <2>2. CASE End(r, [req[r] EXCEPT !.receipt = req[r].text])
    <3> DEFINE q == [req[r] EXCEPT !.receipt = req[r].text]
               p == [q EXCEPT !.counted = @ + 1]
    <3>0. /\ q \in Request /\ q.counted = 0 /\ q.thread = req[r].thread
          /\ q.msgs = req[r].msgs /\ q.final = req[r].final
          /\ q.overlapped = req[r].overlapped /\ q.drafts = req[r].drafts
          /\ q.stray = req[r].stray /\ q.task = req[r].task
      BY <1>1, <2>1 DEF Request, Consistent, Live
    <3>2. Update(r, Closed(p))
      BY <2>2 DEF End
    <3> HIDE DEF q
    <3>1. /\ p \in Request /\ p.counted <= 1 /\ p.thread = req[r].thread
          /\ p.msgs = req[r].msgs /\ p.final = req[r].final
          /\ p.overlapped = req[r].overlapped /\ p.drafts = req[r].drafts
          /\ p.stray = req[r].stray /\ p.task = req[r].task
      BY <3>0 DEF Request
    <3> HIDE DEF p
    <3>3. QED
      BY <1>2, <2>1, <3>1, <3>2 DEF Writes
  <2>3. QED
    BY <1>3, <1>5, <2>1, <2>2 DEF SendReceipt
<1>6. ASSUME Abort(r) PROVE Advances(r, "closed") /\ Live(req[r])
  <2>1. Live(req[r])
    BY <1>6 DEF Abort, Streaming, InGraph, Live
  <2> DEFINE q == [req[r] EXCEPT !.stray = @ \/ InGraph(r)]
             p == [q EXCEPT !.counted = @ + 1]
  <2>2. /\ q \in Request /\ q.counted <= 1 /\ q.thread = req[r].thread
        /\ q.msgs = req[r].msgs /\ q.final = req[r].final
        /\ q.overlapped = req[r].overlapped /\ q.drafts = req[r].drafts
        /\ q.stray = (req[r].stray \/ InGraph(r)) /\ q.task = req[r].task
        /\ q.counted = 0
    BY <1>1, <2>1 DEF Request, Consistent, Live
  <2>3. Update(r, Closed(q)) \/ Update(r, Closed(p))
    BY <1>6 DEF Abort, End
  <2> HIDE DEF q
  <2>4. /\ p \in Request /\ p.counted <= 1 /\ p.thread = req[r].thread
        /\ p.msgs = req[r].msgs /\ p.final = req[r].final
        /\ p.overlapped = req[r].overlapped /\ p.drafts = req[r].drafts
        /\ p.stray = q.stray /\ p.task = req[r].task
    BY <2>2 DEF Request
  <2> HIDE DEF p
  <2>5. q.stray => Writes(req[r])
    BY <2>2 DEF Writes, InGraph
  <2>6. QED
    BY <1>2, <2>1, <2>2, <2>3, <2>4, <2>5
<1>7. ASSUME AfterGraph(r)
      PROVE  /\ req[r].at = "after"
             /\ \/ Advances(r, "cache") /\ UNCHANGED gauge
                \/ Advances(r, "closed") /\ GaugeFalls(r)
  <2>1. req[r].at = "after" /\ Live(req[r]) /\ req[r].task = "none"
    BY <1>1, <1>7 DEF AfterGraph, Is, Live, Consistent, Request
  <2> DEFINE q == [req[r] EXCEPT !.task = IF Publishes(req[r]) THEN "pending" ELSE @]
             p == [q EXCEPT !.counted = @ + 1]
             e == [q EXCEPT !.at = "cache"]
  <2>2. /\ q \in Request /\ q.counted = 0 /\ q.thread = req[r].thread
        /\ q.msgs = req[r].msgs /\ q.final = req[r].final /\ q.at = "after"
        /\ q.overlapped = req[r].overlapped /\ q.drafts = req[r].drafts
        /\ q.stray = req[r].stray /\ q.text = req[r].text /\ q.sent = req[r].sent
        /\ q.whole = req[r].whole /\ q.gone = req[r].gone
        /\ q.task = req[r].task \/ (q.task = "pending" /\ Publishes(req[r]))
    <3>1. CASE Publishes(req[r])
      BY <1>1, <2>1, <3>1 DEF Request, Consistent, Live
    <3>2. CASE ~Publishes(req[r])
      BY <1>1, <2>1, <3>2 DEF Request, Consistent, Live
    <3>3. QED
      BY <3>1, <3>2
  <2>3. \/ Update(r, e) /\ UNCHANGED gauge
        \/ Update(r, Closed(p)) /\ GaugeFalls(r)
    BY <1>7 DEF AfterGraph, End
  <2> HIDE DEF q
  <2>4. /\ p \in Request /\ p.counted <= 1 /\ p.thread = req[r].thread
        /\ p.msgs = req[r].msgs /\ p.final = req[r].final
        /\ p.overlapped = req[r].overlapped /\ p.drafts = req[r].drafts
        /\ p.stray = req[r].stray /\ p.task = q.task
    BY <2>2 DEF Request
  <2>5. /\ e \in Request /\ e.counted = 0 /\ e.thread = req[r].thread
        /\ e.msgs = req[r].msgs /\ e.final = req[r].final /\ e.at = "cache"
        /\ e.overlapped = req[r].overlapped /\ e.drafts = req[r].drafts
        /\ e.stray = req[r].stray /\ e.text = req[r].text /\ e.sent = req[r].sent
        /\ e.whole = req[r].whole /\ e.gone = req[r].gone /\ e.task = q.task
    BY <2>2 DEF Request
  <2> HIDE DEF p, e
  <2>6. Consistent(e) /\ Calm(req[r], e)
    BY <1>1, <2>1, <2>2, <2>5 DEF Consistent, Calm, Steady, Begun, Writes, Publishes
  <2>7. CASE Update(r, e) /\ UNCHANGED gauge
    BY <2>1, <2>5, <2>6, <2>7, UpdateIs DEF Advances, Moves
  <2>8. CASE Update(r, Closed(p)) /\ GaugeFalls(r)
    BY <1>2, <2>1, <2>2, <2>4, <2>8 DEF Writes, Publishes
  <2>9. QED
    BY <2>3, <2>7, <2>8
<1>8. QED
  BY <1>4, <1>5, <1>6, <1>7

-----------------------------------------------------------------------------
(* Histories.                                                               *)

LEMMA MessageIs ==
  ASSUME NEW r \in Requests
  PROVE  /\ Human(r) \in Message /\ Ai(r) \in Message /\ Human(r) # Ai(r)
         /\ Human(r).type = "human" /\ Human(r).turn = r
         /\ Ai(r).type = "ai" /\ Ai(r).turn = r
         /\ \A s \in Requests : Human(s) = Human(r) => s = r
BY DEF Human, Ai, Message

LEMMA LatestUnique ==
  ASSUME NEW ms \in Seq(Message), NEW j, NEW k, Latest(ms, j), Latest(ms, k)
  PROVE  j = k
BY DEF Latest

LEMMA LastHumanIs ==
  ASSUME NEW ms \in Seq(Message), NEW k, Latest(ms, k)
  PROVE  LastHuman(ms) = k
<1> DEFINE I == {i \in 1..Len(ms) : ms[i].type = "human"}
<1>1. k \in I /\ \A i \in I : k >= i
  BY DEF Latest
<1>2. Max(I) = k
  BY <1>1 DEF Max
<1>3. QED
  BY <1>1, <1>2 DEF LastHuman, SelectLastInSeq

LEMMA AppendHuman ==
  ASSUME NEW ms \in Seq(Message), NEW r \in Requests
  PROVE  LET n == Append(ms, Human(r))
         IN  /\ n \in Seq(Message) /\ Len(n) = Len(ms) + 1
             /\ Latest(n, Len(n)) /\ n[Len(n)] = Human(r)
             /\ \A s \in Requests : Turn(ms, s, Len(ms)) => Behind(n, s) /\ Turn(n, s, Len(n))
             /\ \A s \in Requests \ {r}, d \in Nat : Short(n, s, d)
<1> DEFINE n == Append(ms, Human(r))
<1>1. /\ n \in Seq(Message) /\ Len(n) = Len(ms) + 1 /\ n[Len(n)] = Human(r)
      /\ \A i \in 1..Len(ms) : n[i] = ms[i]
  BY MessageIs
<1>2. Len(ms) \in Nat
  OBVIOUS
<1> HIDE DEF n
<1>3. Latest(n, Len(n))
  BY <1>1, <1>2, MessageIs DEF Latest
<1>4. ASSUME NEW s \in Requests, Turn(ms, s, Len(ms)) PROVE Behind(n, s) /\ Turn(n, s, Len(n))
  <2>1. Turn(n, s, Len(n))
    BY <1>1, <1>2, <1>4 DEF Turn
  <2>2. Len(n) \in 1..Len(n) /\ n[Len(n)].type = "human"
    BY <1>1, <1>2, MessageIs
  <2>3. QED
    BY <2>1, <2>2 DEF Behind
<1>5. ASSUME NEW s \in Requests \ {r}, NEW d \in Nat PROVE Short(n, s, d)
  BY <1>1, <1>3, LatestUnique, MessageIs DEF Short
<1>6. QED
  BY <1>1, <1>3, <1>4, <1>5 DEF n

LEMMA AppendAi ==
  ASSUME NEW ms \in Seq(Message), NEW r \in Requests, NEW k, Latest(ms, k)
  PROVE  LET n == Append(ms, Ai(r))
         IN  /\ n \in Seq(Message) /\ Len(n) = Len(ms) + 1
             /\ Latest(n, k) /\ n[k] = ms[k] /\ n[Len(n)] = Ai(r)
             /\ \A s \in Requests : Behind(ms, s) => Behind(n, s) /\ Turn(n, s, Len(n))
             /\ \A i \in 1..Len(ms) : n[i] = ms[i]
<1> DEFINE n == Append(ms, Ai(r))
<1>1. /\ n \in Seq(Message) /\ Len(n) = Len(ms) + 1 /\ n[Len(n)] = Ai(r)
      /\ \A i \in 1..Len(ms) : n[i] = ms[i]
  BY MessageIs
<1>2. Len(ms) \in Nat
  OBVIOUS
<1> HIDE DEF n
<1>3. Latest(n, k) /\ n[k] = ms[k]
  BY <1>1, <1>2, MessageIs DEF Latest
<1>4. ASSUME NEW s \in Requests, Behind(ms, s) PROVE Behind(n, s) /\ Turn(n, s, Len(n))
  BY <1>1, <1>2, <1>4 DEF Behind, Turn
<1>5. QED
  BY <1>1, <1>3, <1>4 DEF n

LEMMA CutToPrompt ==
  ASSUME NEW ms \in Seq(Message), NEW k, Latest(ms, k)
  PROVE  LET n == SubSeq(ms, 1, k)
         IN  /\ n \in Seq(Message) /\ Len(n) = k /\ Latest(n, k) /\ n[k] = ms[k]
             /\ \A s \in Requests : Behind(ms, s) => Behind(n, s) /\ Turn(n, s, Len(n))
             /\ \A i \in 1..k : n[i] = ms[i]
<1> DEFINE n == SubSeq(ms, 1, k)
<1>1. k \in 1..Len(ms) /\ Len(ms) \in Nat
  BY DEF Latest
<1>2. n \in Seq(Message) /\ Len(n) = k /\ \A i \in 1..k : n[i] = ms[i]
  BY <1>1
<1> HIDE DEF n
<1>3. Latest(n, k) /\ n[k] = ms[k]
  BY <1>1, <1>2 DEF Latest
<1>4. ASSUME NEW s \in Requests, Behind(ms, s) PROVE Behind(n, s) /\ Turn(n, s, Len(n))
  <2>1. PICK h \in 1..Len(ms) : ms[h].type = "human" /\ Turn(ms, s, h)
    BY <1>4 DEF Behind
  <2>2. h <= k
    BY <1>1, <2>1 DEF Latest
  <2>3. QED
    BY <1>1, <1>2, <2>1, <2>2 DEF Turn, Behind
<1>5. QED
  BY <1>2, <1>3, <1>4 DEF n

-----------------------------------------------------------------------------
(* Steps that leave the histories alone.                                    *)

HistInv == HistoryInv /\ OverlapInv /\ KeptInv /\ ReplyInv

LEMMA ProperGrows ==
  ASSUME NEW ms, ms \in Seq(Message), NEW th, NEW rq, NEW rr, Proper(ms, th, rq),
         \A s \in Requests : Begun(rq[s]) => Begun(rr[s]) /\ rr[s].thread = rq[s].thread
  PROVE  Proper(ms, th, rr)
<1>1. ASSUME NEW i \in 1..Len(ms) PROVE ms[i].turn \in Requests
  <2>1. ms[i] \in Message
    OBVIOUS
  <2>2. QED
    BY <2>1 DEF Message
<1>2. QED
  BY <1>1 DEF Proper

LEMMA SteadyAhead ==
  ASSUME NEW r, NEW q, NEW p, Steady(q, p), Writes(p), Ahead(r, q)
  PROVE  Ahead(r, p)
BY DEF Steady, Ahead

LEMMA SteadySteps ==
  ASSUME StreamsInv, HistInv, history' = history,
         req' \in [Requests -> Request], \A s \in Requests : Steady(req[s], req'[s])
  PROVE  HistInv'
<1>1. \A s \in Requests : req[s] \in Request /\ Consistent(req[s])
  BY RequestIs
<1>2. \A s \in Requests : Begun(req[s]) => Begun(req'[s]) /\ req'[s].thread = req[s].thread
  BY DEF Steady, Begun
<1>3. \A s \in Requests : Writes(req'[s]) =>
        /\ Writes(req[s]) /\ req'[s].msgs = req[s].msgs /\ req'[s].thread = req[s].thread
  <2>1. \A s \in Requests : Writes(req[s]) => req[s].at # "new"
    BY <1>1 DEF Writes, Consistent
  <2>2. QED
    BY <2>1 DEF Steady
<1>4. HistoryInv'
  <2>1. ASSUME NEW th \in Threads, Proper(history[th], th, req)
        PROVE  Proper(history[th], th, req')
    BY <1>2, <2>1, ProperGrows DEF StreamsInv
  <2>2. ASSUME NEW r \in Requests, Writes(req'[r])
        PROVE  Proper(req'[r].msgs, req'[r].thread, req') /\ Ahead(r, req'[r])
    <3>1. Proper(req[r].msgs, req[r].thread, req) /\ Ahead(r, req[r])
      BY <1>3, <2>2 DEF HistInv, HistoryInv
    <3>2. req[r].msgs \in Seq(Message)
      BY <1>1 DEF Request
    <3>3. Proper(req[r].msgs, req[r].thread, req')
      BY <1>2, <3>1, <3>2, ProperGrows
    <3>4. QED
      BY <1>3, <2>2, <3>1, <3>3, SteadyAhead
  <2>3. QED
    BY <2>1, <2>2 DEF HistInv, HistoryInv
<1>5. OverlapInv'
  <2>1. \A s \in Requests : req'[s].overlapped = req[s].overlapped
    BY DEF Steady
  <2>2. QED
    BY <1>3, <2>1 DEF HistInv, OverlapInv
<1>6. KeptInv'
  <2> SUFFICES ASSUME NEW r \in Requests, Settled(req'[r])
               PROVE  /\ Turn(history[req'[r].thread], r, Len(history[req'[r].thread]))
                      /\ \A s \in Requests : Writes(req'[s]) /\ req'[s].thread = req'[r].thread =>
                           Behind(req'[s].msgs, r)
                      /\ Short(history[req'[r].thread], r, req'[r].drafts)
    BY DEF KeptInv
  <2>1. req[r].final /\ ~req[r].overlapped /\ req'[r].drafts = req[r].drafts
    BY DEF Steady, Settled
  <2>2. req'[r].thread = req[r].thread
    BY <1>1, <2>1 DEF Steady, Consistent
  <2>3. Settled(req[r])
    BY <2>1, <2>2 DEF Settled
  <2>4. QED
    BY <1>3, <2>1, <2>2, <2>3 DEF HistInv, KeptInv
<1>7. ReplyInv'
  <2> SUFFICES ASSUME NEW r \in Requests, req'[r].final, req'[r].thread \notin AnonThreads
               PROVE  history[req'[r].thread] # <<>>
    BY DEF ReplyInv
  <2>1. req[r].final
    BY DEF Steady
  <2>2. req'[r].thread = req[r].thread
    BY <1>1, <2>1 DEF Steady, Consistent
  <2>3. QED
    BY <2>1, <2>2 DEF HistInv, ReplyInv
<1>8. QED
  BY <1>4, <1>5, <1>6, <1>7 DEF HistInv

-----------------------------------------------------------------------------
(* Steps that write a history.                                              *)

\* What r's run may checkpoint next.
Continues(ms, r) ==
  \/ ms = Append(req[r].msgs, Ai(r))
  \/ ms = SubSeq(req[r].msgs, 1, LastHuman(req[r].msgs))

LEMMA NextMessages ==
  ASSUME StreamsInv, HistInv, NEW r \in Requests, Writes(req[r]), NEW ms, Continues(ms, r)
  PROVE  /\ ms \in Seq(Message) /\ Proper(ms, req[r].thread, req)
         /\ \E k \in 1..Len(ms) :
              /\ Latest(ms, k) /\ ms[k] = Human(r)
              /\ \/ req[r].stray
                 \/ ms = Append(req[r].msgs, Ai(r)) /\ Len(ms) <= k + req[r].drafts + 1
                 \/ Len(ms) = k
         /\ \A s \in Requests :
              Settled(req[s]) /\ req[s].thread = req[r].thread =>
                Behind(ms, s) /\ Turn(ms, s, Len(ms))
         /\ \A s \in Requests \ {r}, d \in Nat : Short(ms, s, d)
<1> DEFINE old == req[r].msgs
<1>1. /\ old \in Seq(Message) /\ req[r].drafts \in Nat
      /\ Begun(req[r]) /\ req[r].thread \in Threads
  BY RequestIs, Constants DEF Request, Consistent, Writes, Begun
<1>2. Proper(old, req[r].thread, req) /\ Ahead(r, req[r])
  BY DEF HistInv, HistoryInv
<1>3. PICK k \in 1..Len(old) : /\ Latest(old, k) /\ old[k] = Human(r)
                               /\ req[r].stray \/ Len(old) <= k + req[r].drafts
  BY <1>2 DEF Ahead
<1>4. \A s \in Requests : Settled(req[s]) /\ req[s].thread = req[r].thread => Behind(old, s)
  BY DEF HistInv, KeptInv
<1> HIDE DEF old
<1>5. CASE ms = Append(old, Ai(r))
  <2>1. /\ ms \in Seq(Message) /\ Len(ms) = Len(old) + 1
        /\ Latest(ms, k) /\ ms[k] = Human(r) /\ ms[Len(ms)] = Ai(r)
        /\ \A s \in Requests : Behind(old, s) => Behind(ms, s) /\ Turn(ms, s, Len(ms))
        /\ \A i \in 1..Len(old) : ms[i] = old[i]
    BY <1>1, <1>3, <1>5, AppendAi
  <2>2. Len(old) \in Nat /\ k \in 1..Len(ms)
    BY <1>1, <2>1 DEF Latest
  <2>3. \A i \in 1..Len(ms) : Begun(req[ms[i].turn]) /\ req[ms[i].turn].thread = req[r].thread
    <3>1. TAKE i \in 1..Len(ms)
    <3>2. CASE i = Len(ms)
      BY <1>1, <2>1, <3>2, MessageIs
    <3>3. CASE i # Len(ms)
      BY <1>2, <2>1, <2>2, <3>3 DEF Proper
    <3>4. QED
      BY <3>2, <3>3
  <2>4. Proper(ms, req[r].thread, req)
    BY <2>1, <2>2, <2>3 DEF Proper
  <2>5. req[r].stray \/ Len(ms) <= k + req[r].drafts + 1
    BY <1>1, <1>3, <2>1, <2>2
  <2>6. \A s \in Requests \ {r}, d \in Nat : Short(ms, s, d)
    BY <2>1, LatestUnique, MessageIs DEF Short
  <2>7. QED
    BY <1>4, <1>5, <2>1, <2>2, <2>4, <2>5, <2>6 DEF old
<1>6. CASE ms = SubSeq(old, 1, LastHuman(old))
  <2>1. LastHuman(old) = k
    BY <1>1, <1>3, LastHumanIs
  <2>2. /\ ms \in Seq(Message) /\ Len(ms) = k
        /\ Latest(ms, k) /\ ms[k] = Human(r)
        /\ \A s \in Requests : Behind(old, s) => Behind(ms, s) /\ Turn(ms, s, Len(ms))
        /\ \A i \in 1..k : ms[i] = old[i]
    BY <1>1, <1>3, <1>6, <2>1, CutToPrompt
  <2>3. Len(old) \in Nat /\ k \in 1..Len(ms) /\ 1..Len(ms) \subseteq 1..Len(old)
    BY <1>1, <1>3, <2>2
  <2>4. Proper(ms, req[r].thread, req)
    BY <1>2, <2>2, <2>3 DEF Proper
  <2>5. \A s \in Requests \ {r}, d \in Nat : Short(ms, s, d)
    BY <2>2, LatestUnique, MessageIs DEF Short
  <2>6. QED
    BY <1>4, <2>2, <2>3, <2>4, <2>5 DEF old
<1>7. QED
  BY <1>5, <1>6 DEF Continues, old

LEMMA CheckpointIs ==
  ASSUME StreamsInv, NEW r \in Requests, req[r].thread \in Threads,
         NEW ms \in Seq(Message), Checkpoint(r, ms)
  PROVE  /\ history' \in [Threads -> Seq(Message)]
         /\ \A th \in Threads : history'[th] =
              IF th = req[r].thread /\ th \notin AnonThreads THEN ms ELSE history[th]
<1>1. CASE Anonymous(r)
  BY <1>1 DEF Checkpoint, StreamsInv, Anonymous
<1>2. CASE ~Anonymous(r)
  BY <1>2 DEF Checkpoint, StreamsInv, Anonymous
<1>3. QED
  BY <1>1, <1>2

LEMMA WriteSteps ==
  ASSUME StreamsInv, HistInv, NEW r \in Requests, Writes(req[r]), NEW ms, Continues(ms, r),
         Checkpoint(r, ms), Moves(r), Begun(req'[r]), req'[r].thread = req[r].thread,
         req'[r].overlapped = req[r].overlapped,
         Writes(req'[r]) => req'[r].msgs = ms /\ Ahead(r, req'[r]),
         req'[r].final => Turn(ms, r, Len(ms)) /\ Short(ms, r, req'[r].drafts)
  PROVE  HistInv' /\ history' \in [Threads -> Seq(Message)]
<1>1. \A s \in Requests : req[s] \in Request /\ Consistent(req[s])
  BY RequestIs
<1>2. /\ Begun(req[r]) /\ req[r].thread \in Threads
  BY <1>1 DEF Consistent, Writes, Begun
<1>3. /\ ms \in Seq(Message) /\ Proper(ms, req[r].thread, req)
      /\ \A s \in Requests :
           Settled(req[s]) /\ req[s].thread = req[r].thread =>
             Behind(ms, s) /\ Turn(ms, s, Len(ms))
      /\ \A s \in Requests \ {r}, d \in Nat : Short(ms, s, d)
  BY NextMessages
<1>4. /\ history' \in [Threads -> Seq(Message)]
      /\ \A th \in Threads : history'[th] =
           IF th = req[r].thread /\ th \notin AnonThreads THEN ms ELSE history[th]
  BY <1>2, <1>3, CheckpointIs
<1>5. \A s \in Requests : Begun(req[s]) => Begun(req'[s]) /\ req'[s].thread = req[s].thread
  BY DEF Moves
<1>6. \A s \in Requests : req'[s].overlapped = req[s].overlapped /\ req'[s].thread = req[s].thread
  BY DEF Moves
<1>7. \A s \in Requests : Writes(req'[s]) => Writes(req[s])
  BY DEF Moves
<1>8. Proper(ms, req[r].thread, req')
  BY <1>3, <1>5, ProperGrows
<1>9. HistoryInv'
  <2>1. ASSUME NEW th \in Threads PROVE history'[th] = <<>> \/ Proper(history'[th], th, req')
    <3>1. CASE history'[th] = history[th]
      <4>1. history[th] \in Seq(Message) /\ (history[th] = <<>> \/ Proper(history[th], th, req))
        BY DEF StreamsInv, HistInv, HistoryInv
      <4>2. QED
        BY <1>5, <3>1, <4>1, ProperGrows
    <3>2. CASE th = req[r].thread /\ history'[th] = ms
      BY <1>8, <3>2
    <3>3. QED
      BY <1>4, <3>1, <3>2
  <2>2. \A th \in AnonThreads : history'[th] = <<>>
    BY <1>4, Constants DEF HistInv, HistoryInv
  <2>3. ASSUME NEW s \in Requests, Writes(req'[s])
        PROVE  Proper(req'[s].msgs, req'[s].thread, req') /\ Ahead(s, req'[s])
    <3>1. CASE s = r
      BY <1>8, <2>3, <3>1
    <3>2. CASE s # r
      <4>1. req'[s] = req[s]
        BY <3>2 DEF Moves
      <4>2. Proper(req[s].msgs, req[s].thread, req) /\ Ahead(s, req[s])
        BY <2>3, <4>1 DEF HistInv, HistoryInv
      <4>3. req[s].msgs \in Seq(Message)
        BY <1>1 DEF Request
      <4>4. QED
        BY <1>5, <4>1, <4>2, <4>3, ProperGrows
    <3>3. QED
      BY <3>1, <3>2
  <2>4. QED
    BY <2>1, <2>2, <2>3 DEF HistoryInv
<1>10. OverlapInv'
  BY <1>6, <1>7 DEF HistInv, OverlapInv
<1>11. KeptInv'
  <2> SUFFICES ASSUME NEW f \in Requests, Settled(req'[f])
               PROVE  /\ Turn(history'[req'[f].thread], f, Len(history'[req'[f].thread]))
                      /\ \A s \in Requests : Writes(req'[s]) /\ req'[s].thread = req'[f].thread =>
                           Behind(req'[s].msgs, f)
                      /\ Short(history'[req'[f].thread], f, req'[f].drafts)
    BY DEF KeptInv
  <2>1. CASE f = r
    <3>1. history'[req[r].thread] = ms /\ req'[r].final /\ ~req[r].overlapped
      BY <1>2, <1>4, <1>6, <2>1 DEF Settled
    <3>2. \A s \in Requests : ~(Writes(req'[s]) /\ req'[s].thread = req[r].thread)
      <4>1. ~Writes(req'[r])
        <5>1. Consistent(req'[r])
          BY DEF Moves
        <5>2. QED
          BY <3>1, <5>1 DEF Consistent, Writes
      <4>2. QED
        BY <1>6, <1>7, <3>1, <4>1 DEF HistInv, OverlapInv
    <3>3. QED
      BY <1>6, <2>1, <3>1, <3>2
  <2>2. CASE f # r
    <3>1. req'[f] = req[f] /\ Settled(req[f]) /\ req[f].drafts \in Nat
      <4>1. req'[f] = req[f] /\ req[f] \in Request
        BY <1>1, <2>2 DEF Moves
      <4>2. QED
        BY <4>1, Constants DEF Request
    <3>2. req[f].thread \in Threads
      BY <1>1, <3>1 DEF Settled, Consistent
    <3>3. /\ Turn(history[req[f].thread], f, Len(history[req[f].thread]))
          /\ \A s \in Requests : Writes(req[s]) /\ req[s].thread = req[f].thread =>
               Behind(req[s].msgs, f)
          /\ Short(history[req[f].thread], f, req[f].drafts)
      BY <3>1 DEF HistInv, KeptInv
    <3>4. ASSUME NEW s \in Requests, Writes(req'[s]), req'[s].thread = req[f].thread
          PROVE  Behind(req'[s].msgs, f)
      <4>1. CASE s = r
        BY <1>3, <1>6, <3>1, <3>4, <4>1
      <4>2. CASE s # r
        BY <3>3, <3>4, <4>2 DEF Moves
      <4>3. QED
        BY <4>1, <4>2
    <3>5. CASE req[f].thread = req[r].thread
      BY <1>3, <1>4, <2>2, <3>1, <3>2, <3>4, <3>5 DEF Settled
    <3>6. CASE req[f].thread # req[r].thread
      BY <1>4, <3>1, <3>2, <3>3, <3>4, <3>6
    <3>7. QED
      BY <3>5, <3>6
  <2>3. QED
    BY <2>1, <2>2
<1>12. ReplyInv'
  <2> SUFFICES ASSUME NEW f \in Requests, req'[f].final, req'[f].thread \notin AnonThreads
               PROVE  history'[req'[f].thread] # <<>>
    BY DEF ReplyInv
  <2>1. ms # <<>>
    BY <1>3 DEF Proper
  <2>2. CASE f = r
    BY <1>2, <1>4, <1>6, <2>1, <2>2
  <2>3. CASE f # r
    <3>1. req'[f] = req[f] /\ history[req[f].thread] # <<>>
      BY <2>3 DEF Moves, HistInv, ReplyInv
    <3>2. req[f].thread \in Threads
      BY <1>1, <3>1 DEF Consistent
    <3>3. QED
      BY <1>4, <2>1, <3>1, <3>2
  <2>4. QED
    BY <2>2, <2>3
<1>13. QED
  BY <1>4, <1>9, <1>10, <1>11, <1>12 DEF HistInv

LEMMA BeginFields ==
  ASSUME StreamsInv, NEW r \in Requests, StartGraph(r)
  PROVE  LET before == IF Anonymous(r) THEN <<>> ELSE history[req[r].thread]
         IN  /\ Checkpoint(r, Append(before, Human(r))) /\ req[r].at = "start"
             /\ req' \in [Requests -> Request]
             /\ \A s \in Requests : Consistent(req'[s])
             /\ req'[r].at = "graph" /\ req'[r].msgs = Append(before, Human(r))
             /\ before \in Seq(Message) /\ req[r].thread \in Threads
             /\ req'[r].overlapped = (Writers(r) # {})
             /\ \A s \in Requests :
                  /\ req'[s].thread = req[s].thread /\ req'[s].drafts = req[s].drafts
                  /\ req'[s].final = req[s].final /\ req'[s].stray = req[s].stray
                  /\ req'[s].task = req[s].task
                  /\ s # r => /\ req'[s].at = req[s].at /\ req'[s].msgs = req[s].msgs
                              /\ req'[s].overlapped = (req[s].overlapped \/ s \in Writers(r))
<1> DEFINE before == IF Anonymous(r) THEN <<>> ELSE history[req[r].thread]
           ms == Append(before, Human(r))
           o == Writers(r) # {}
           a == [req[r] EXCEPT !.at = "graph", !.msgs = ms, !.overlapped = o]
           b(s) == [req[s] EXCEPT !.overlapped = @ \/ s \in Writers(r)]
<1>1. /\ req[r].at = "start" /\ Checkpoint(r, ms)
      /\ req' = [s \in Requests |-> IF s = r THEN a ELSE b(s)]
  BY DEF StartGraph, Is
<1>2. \A s \in Requests : req[s] \in Request /\ Consistent(req[s])
  BY RequestIs
<1>3. req[r].thread \in Threads
  BY <1>1, <1>2 DEF Consistent
<1>4. before \in Seq(Message)
  BY <1>3 DEF StreamsInv
<1> HIDE DEF before
<1>5. ms \in Seq(Message)
  BY <1>4, MessageIs
<1> HIDE DEF ms
<1>6. /\ a \in Request /\ Consistent(a) /\ a.at = "graph" /\ a.thread = req[r].thread
      /\ a.msgs = ms /\ a.overlapped = o /\ a.drafts = req[r].drafts
      /\ a.final = req[r].final /\ a.stray = req[r].stray /\ a.task = req[r].task
  <2>1. o \in BOOLEAN
    OBVIOUS
  <2> HIDE DEF o
  <2>2. /\ a \in Request /\ a.at = "graph" /\ a.thread = req[r].thread
        /\ a.msgs = ms /\ a.overlapped = o /\ a.drafts = req[r].drafts
        /\ a.final = req[r].final /\ a.stray = req[r].stray /\ a.task = req[r].task
        /\ a.sent = req[r].sent /\ a.text = req[r].text /\ a.counted = req[r].counted
    BY <1>2, <1>5, <2>1 DEF Request
  <2> HIDE DEF a
  <2>3. Consistent(a)
    BY <1>1, <1>2, <2>2 DEF Consistent
  <2>4. QED
    BY <2>2, <2>3
<1>7. ASSUME NEW s \in Requests \ {r}
      PROVE  /\ b(s) \in Request /\ Consistent(b(s)) /\ b(s).at = req[s].at
             /\ b(s).thread = req[s].thread
             /\ b(s).msgs = req[s].msgs /\ b(s).drafts = req[s].drafts
             /\ b(s).overlapped = (req[s].overlapped \/ s \in Writers(r))
             /\ b(s).final = req[s].final /\ b(s).stray = req[s].stray
             /\ b(s).task = req[s].task
  <2> DEFINE w == s \in Writers(r)
             c == [req[s] EXCEPT !.overlapped = w \/ @]
  <2>1. w \in BOOLEAN /\ (req[s].at = "new" => ~w)
    <3>1. req[s].at = "new" => req[s].stray = FALSE
      BY <1>2 DEF Consistent, NewRequest
    <3>2. QED
      BY <3>1 DEF Writers, InGraph
  <2>2. b(s) = c
    BY <1>2 DEF Request
  <2> HIDE DEF w
  <2>3. /\ c \in Request /\ Consistent(c) /\ c.at = req[s].at /\ c.thread = req[s].thread
        /\ c.msgs = req[s].msgs /\ c.drafts = req[s].drafts
        /\ c.overlapped = (req[s].overlapped \/ w)
        /\ c.final = req[s].final /\ c.stray = req[s].stray /\ c.task = req[s].task
    BY <1>2, <2>1, Overlapped
  <2> HIDE DEF b, c
  <2>4. QED
    BY <2>2, <2>3 DEF w
<1> HIDE DEF a, b
<1>8. /\ req'[r] = a /\ \A s \in Requests \ {r} : req'[s] = b(s)
      /\ req' \in [Requests -> Request]
  BY <1>1, <1>6, <1>7
<1>9. /\ Checkpoint(r, ms) /\ req[r].at = "start"
      /\ req' \in [Requests -> Request]
      /\ \A s \in Requests : Consistent(req'[s])
      /\ req'[r].at = "graph" /\ req'[r].msgs = ms
      /\ before \in Seq(Message) /\ req[r].thread \in Threads
      /\ req'[r].overlapped = (Writers(r) # {})
      /\ \A s \in Requests :
           /\ req'[s].thread = req[s].thread /\ req'[s].drafts = req[s].drafts
           /\ req'[s].final = req[s].final /\ req'[s].stray = req[s].stray
           /\ req'[s].task = req[s].task
           /\ s # r => /\ req'[s].at = req[s].at /\ req'[s].msgs = req[s].msgs
                       /\ req'[s].overlapped = (req[s].overlapped \/ s \in Writers(r))
  BY <1>1, <1>3, <1>4, <1>6, <1>7, <1>8
<1>10. QED
  BY <1>9 DEF ms, before

LEMMA BeginStep ==
  ASSUME StreamsInv, HistInv, NEW r \in Requests, StartGraph(r)
  PROVE  HistInv' /\ history' \in [Threads -> Seq(Message)]
<1> DEFINE th == req[r].thread
           before == IF Anonymous(r) THEN <<>> ELSE history[th]
           ms == Append(before, Human(r))
<1>0. /\ Checkpoint(r, ms) /\ req[r].at = "start" /\ req' \in [Requests -> Request]
      /\ \A s \in Requests : Consistent(req'[s])
      /\ req'[r].at = "graph" /\ req'[r].msgs = ms
      /\ before \in Seq(Message) /\ th \in Threads
      /\ req'[r].overlapped = (Writers(r) # {})
      /\ \A s \in Requests :
           /\ req'[s].thread = req[s].thread /\ req'[s].drafts = req[s].drafts
           /\ req'[s].final = req[s].final /\ req'[s].stray = req[s].stray
           /\ s # r => /\ req'[s].at = req[s].at /\ req'[s].msgs = req[s].msgs
                       /\ req'[s].overlapped = (req[s].overlapped \/ s \in Writers(r))
  BY BeginFields
<1>1. \A s \in Requests : req[s] \in Request /\ Consistent(req[s])
  BY RequestIs
<1>2. before = <<>> \/ (before = history[th] /\ Proper(before, th, req) /\ th \notin AnonThreads)
  BY <1>0 DEF HistInv, HistoryInv, Anonymous
<1>2a. th \notin AnonThreads => before = history[th]
  BY DEF Anonymous
<1> HIDE DEF before
<1>3. /\ ms \in Seq(Message) /\ Len(ms) = Len(before) + 1
      /\ Latest(ms, Len(ms)) /\ ms[Len(ms)] = Human(r)
      /\ \A s \in Requests :
           Turn(before, s, Len(before)) => Behind(ms, s) /\ Turn(ms, s, Len(ms))
      /\ \A s \in Requests \ {r}, d \in Nat : Short(ms, s, d)
      /\ \A i \in 1..Len(before) : ms[i] = before[i]
  <2>1. \A i \in 1..Len(before) : ms[i] = before[i]
    BY <1>0, MessageIs
  <2>2. QED
    BY <1>0, <2>1, AppendHuman
<1> HIDE DEF ms, th
<1>4. Len(ms) \in 1..Len(ms) /\ Len(before) \in Nat
  BY <1>0, <1>3
<1>5. /\ history' \in [Threads -> Seq(Message)]
      /\ \A h \in Threads : history'[h] = IF h = th /\ h \notin AnonThreads THEN ms ELSE history[h]
  BY <1>0, <1>3, CheckpointIs DEF th
<1>6. Begun(req'[r]) /\ ~req[r].stray /\ ~req[r].final
  BY <1>0, <1>1 DEF Begun, Consistent
<1>7. \A s \in Requests : Begun(req[s]) => Begun(req'[s]) /\ req'[s].thread = req[s].thread
  BY <1>0, <1>6 DEF Begun
<1>8. \A s \in Requests \ {r} : Writes(req'[s]) => Writes(req[s])
  BY <1>0 DEF Writes
<1>9. Proper(ms, th, req')
  <2>1. ASSUME NEW i \in 1..Len(ms)
        PROVE  Begun(req'[ms[i].turn]) /\ req'[ms[i].turn].thread = th
    <3>1. CASE i = Len(ms)
      BY <1>0, <1>3, <1>6, <3>1, MessageIs DEF th
    <3>2. CASE i # Len(ms)
      <4>1. i \in 1..Len(before) /\ before # <<>>
        BY <1>0, <1>3, <1>4, <3>2
      <4>2. Proper(before, th, req')
        BY <1>0, <1>2, <1>7, <4>1, ProperGrows
      <4>3. QED
        BY <1>3, <4>1, <4>2 DEF Proper
    <3>3. QED
      BY <3>1, <3>2
  <2>2. QED
    BY <1>3, <1>4, <2>1 DEF Proper
<1>10. HistoryInv'
  <2>1. ASSUME NEW h \in Threads PROVE history'[h] = <<>> \/ Proper(history'[h], h, req')
    <3>1. CASE history'[h] = history[h]
      <4>1. history[h] \in Seq(Message) /\ (history[h] = <<>> \/ Proper(history[h], h, req))
        BY DEF StreamsInv, HistInv, HistoryInv
      <4>2. QED
        BY <1>7, <3>1, <4>1, ProperGrows
    <3>2. CASE h = th /\ history'[h] = ms
      BY <1>9, <3>2
    <3>3. QED
      BY <1>5, <3>1, <3>2
  <2>2. \A h \in AnonThreads : history'[h] = <<>>
    BY <1>5, Constants DEF HistInv, HistoryInv
  <2>3. ASSUME NEW s \in Requests, Writes(req'[s])
        PROVE  Proper(req'[s].msgs, req'[s].thread, req') /\ Ahead(s, req'[s])
    <3>1. CASE s = r
      <4>1. req'[r].drafts \in Nat
        BY <1>0, Constants DEF Request
      <4>2. Ahead(r, req'[r])
        BY <1>0, <1>3, <1>4, <4>1 DEF Ahead
      <4>3. QED
        BY <1>0, <1>9, <3>1, <4>2 DEF th
    <3>2. CASE s # r
      <4>1. /\ Proper(req[s].msgs, req[s].thread, req) /\ Ahead(s, req[s])
            /\ req[s].msgs \in Seq(Message)
        BY <1>1, <1>8, <2>3, <3>2 DEF HistInv, HistoryInv, Request
      <4>2. Proper(req[s].msgs, req[s].thread, req')
        BY <1>7, <4>1, ProperGrows
      <4>3. QED
        BY <1>0, <3>2, <4>1, <4>2 DEF Ahead
    <3>3. QED
      BY <3>1, <3>2
  <2>4. QED
    BY <2>1, <2>2, <2>3 DEF HistoryInv
<1>11. OverlapInv'
  <2> SUFFICES ASSUME NEW a \in Requests, NEW b \in Requests, Writes(req'[a]), Writes(req'[b]),
                      a # b, req'[a].thread = req'[b].thread
               PROVE  req'[a].overlapped
    BY DEF OverlapInv
  <2>1. CASE a # r /\ b # r
    BY <1>0, <1>8, <2>1 DEF HistInv, OverlapInv
  <2>2. CASE a = r
    <3>1. b \in Writers(r)
      BY <1>0, <1>8, <2>2 DEF Writers, Writes, InGraph
    <3>2. QED
      BY <1>0, <2>2, <3>1
  <2>3. CASE b = r
    <3>1. a \in Writers(r)
      BY <1>0, <1>8, <2>3 DEF Writers, Writes, InGraph
    <3>2. QED
      BY <1>0, <2>3, <3>1
  <2>4. QED
    BY <2>1, <2>2, <2>3
<1>12. KeptInv'
  <2> SUFFICES ASSUME NEW f \in Requests, Settled(req'[f])
               PROVE  /\ Turn(history'[req'[f].thread], f, Len(history'[req'[f].thread]))
                      /\ \A s \in Requests : Writes(req'[s]) /\ req'[s].thread = req'[f].thread =>
                           Behind(req'[s].msgs, f)
                      /\ Short(history'[req'[f].thread], f, req'[f].drafts)
    BY DEF KeptInv
  <2>1. f # r /\ req[f].final /\ req[f].thread \notin AnonThreads
    BY <1>0, <1>6 DEF Settled
  <2>2. Settled(req[f]) /\ req[f].drafts \in Nat /\ req[f].thread \in Threads
    <3>1. req[f].drafts \in Nat
      BY <1>1, Constants DEF Request
    <3>2. ~req[f].overlapped
      BY <1>0, <2>1 DEF Settled
    <3>3. QED
      BY <1>1, <2>1, <3>1, <3>2 DEF Settled, Consistent
  <2>3. /\ Turn(history[req[f].thread], f, Len(history[req[f].thread]))
        /\ \A s \in Requests : Writes(req[s]) /\ req[s].thread = req[f].thread =>
             Behind(req[s].msgs, f)
        /\ Short(history[req[f].thread], f, req[f].drafts)
    BY <2>2 DEF HistInv, KeptInv
  <2>4. th = req[f].thread => Behind(ms, f) /\ Turn(ms, f, Len(ms))
    BY <1>2a, <1>3, <2>1, <2>3
  <2>5. ASSUME NEW s \in Requests, Writes(req'[s]), req'[s].thread = req[f].thread
        PROVE  Behind(req'[s].msgs, f)
    <3>1. CASE s = r
      BY <1>0, <2>4, <2>5, <3>1 DEF th
    <3>2. CASE s # r
      BY <1>0, <1>8, <2>3, <2>5, <3>2
    <3>3. QED
      BY <3>1, <3>2
  <2>6. CASE req[f].thread = th
    BY <1>0, <1>3, <1>5, <2>1, <2>2, <2>4, <2>5, <2>6
  <2>7. CASE req[f].thread # th
    BY <1>0, <1>5, <2>2, <2>3, <2>5, <2>7
  <2>8. QED
    BY <2>6, <2>7
<1>13. ReplyInv'
  <2> SUFFICES ASSUME NEW f \in Requests, req'[f].final, req'[f].thread \notin AnonThreads
               PROVE  history'[req'[f].thread] # <<>>
    BY DEF ReplyInv
  <2>1. ms # <<>>
    BY <1>3, <1>4
  <2>2. req[f].final /\ req'[f].thread = req[f].thread
    BY <1>0
  <2>3. req[f].thread \in Threads /\ history[req[f].thread] # <<>>
    BY <1>1, <2>2 DEF Consistent, HistInv, ReplyInv
  <2>4. QED
    BY <1>5, <2>1, <2>2, <2>3
<1>14. QED
  BY <1>5, <1>10, <1>11, <1>12, <1>13 DEF HistInv

-----------------------------------------------------------------------------
(* What every step of the chat stream does to a request.                    *)

\* What a request has is not taken from it ...
Onward(q, p) ==
  /\ q.at # "new" => p.at # "new" /\ p.thread = q.thread
  /\ Begun(q) => Begun(p)
  /\ q.final => p.final /\ p.drafts = q.drafts /\ (q.overlapped => p.overlapped)
  /\ q.task = "published" => p.task = "published"

\* ... and it stays where the gauges count it.
Stays(q, p) ==
  /\ p.thread = q.thread /\ (Live(p) <=> Live(q)) /\ (p.at = "dropped" <=> q.at = "dropped")

LEMMA CalmOnward ==
  ASSUME NEW q, NEW p, Consistent(q), Consistent(p), q.final \in BOOLEAN, p.final \in BOOLEAN,
         Calm(q, p), q.at # "new" => p.at # "new"
  PROVE  Onward(q, p)
BY DEF Calm, Steady, Onward

LEMMA RunSteps ==
  ASSUME StreamsInv, HistInv, NEW r \in Requests, Draft(r) \/ NextTask(r) \/ EndGraph(r)
  PROVE  /\ Moves(r) /\ HistInv' /\ history' \in [Threads -> Seq(Message)]
         /\ Onward(req[r], req'[r]) /\ Stays(req[r], req'[r]) /\ req'[r].task = req[r].task
<1>1. req[r] \in Request /\ Consistent(req[r])
  BY RequestIs
<1>2. /\ InGraph(r) /\ Writes(req[r]) /\ Begun(req[r]) /\ Live(req[r]) /\ req[r].at # "new"
      /\ req[r].at # "dropped" /\ ~req[r].final /\ ~req[r].stray
  BY <1>1 DEF Draft, NextTask, EndGraph, InGraph, Is, Writes, Begun, Live, Consistent
<1>3. ASSUME NEW ms, Continues(ms, r)
      PROVE  /\ ms \in Seq(Message)
             /\ \E k \in 1..Len(ms) :
                  /\ Latest(ms, k) /\ ms[k] = Human(r)
                  /\ \/ ms = Append(req[r].msgs, Ai(r)) /\ Len(ms) <= k + req[r].drafts + 1
                     \/ Len(ms) = k
  BY <1>2, <1>3, NextMessages
<1>4. ASSUME NEW ms, Continues(ms, r), NEW e, Update(r, e), e \in Request, Consistent(e),
             Checkpoint(r, ms),
             e.at = "graph", e.thread = req[r].thread, e.msgs = ms, e.final = req[r].final,
             e.overlapped = req[r].overlapped, e.stray = req[r].stray, e.task = req[r].task,
             \E k \in 1..Len(ms) : Latest(ms, k) /\ ms[k] = Human(r) /\ Len(ms) <= k + e.drafts
      PROVE  /\ Moves(r) /\ HistInv' /\ history' \in [Threads -> Seq(Message)]
             /\ Onward(req[r], req'[r]) /\ Stays(req[r], req'[r]) /\ req'[r].task = req[r].task
  <2>1. Moves(r) /\ req'[r] = e
    BY <1>4, UpdateIs DEF Moves
  <2>2. Ahead(r, e)
    BY <1>4 DEF Ahead
  <2>3. Begun(e) /\ Live(e) /\ ~e.final
    BY <1>2, <1>4 DEF Begun, Live
  <2>4. HistInv' /\ history' \in [Threads -> Seq(Message)]
    BY <1>2, <1>4, <2>1, <2>2, <2>3, WriteSteps
  <2>5. Onward(req[r], e) /\ Stays(req[r], e)
    BY <1>2, <1>4, <2>3 DEF Onward, Stays
  <2>6. QED
    BY <1>4, <2>1, <2>4, <2>5
<1>5. CASE Draft(r)
  <2> DEFINE ms == Append(req[r].msgs, Ai(r))
             d == req[r].drafts + 1
             e == [req[r] EXCEPT !.msgs = ms, !.drafts = d]
  <2>1. /\ req[r].at = "graph" /\ Update(r, e) /\ Checkpoint(r, ms) /\ Continues(ms, r)
        /\ d \in 0..MaxDrafts
    BY <1>1, <1>5, Constants DEF Draft, Is, Continues, Request
  <2>2. ms \in Seq(Message)
    BY <1>3, <2>1
  <2>3. PICK k \in 1..Len(ms) : Latest(ms, k) /\ ms[k] = Human(r) /\ Len(ms) <= k + d
    <3>1. PICK k \in 1..Len(ms) : /\ Latest(ms, k) /\ ms[k] = Human(r)
                                  /\ Len(ms) <= k + req[r].drafts + 1 \/ Len(ms) = k
      BY <1>3, <2>1
    <3> HIDE DEF ms
    <3>2. req[r].drafts \in Nat /\ Len(ms) \in Nat
      BY <1>1, <2>2, Constants DEF Request
    <3>3. Len(ms) <= k + d
      BY <3>1, <3>2
    <3>4. QED
      BY <3>1, <3>3
  <2> HIDE DEF ms, d
  <2>4. /\ e \in Request /\ Consistent(e) /\ e.at = req[r].at /\ e.thread = req[r].thread
        /\ e.msgs = ms /\ e.overlapped = req[r].overlapped /\ e.drafts = d
        /\ e.final = req[r].final /\ e.stray = req[r].stray /\ e.task = req[r].task
    <3>1. /\ e \in Request /\ e.at = req[r].at /\ e.thread = req[r].thread
          /\ e.msgs = ms /\ e.overlapped = req[r].overlapped /\ e.drafts = d
          /\ e.final = req[r].final /\ e.stray = req[r].stray /\ e.task = req[r].task
          /\ e.sent = req[r].sent /\ e.text = req[r].text /\ e.counted = req[r].counted
      BY <1>1, <2>1, <2>2 DEF Request
    <3> HIDE DEF e
    <3>2. Consistent(e)
      BY <1>1, <2>1, <3>1 DEF Consistent
    <3>3. QED
      BY <3>1, <3>2
  <2> HIDE DEF e
  <2>5. QED
    BY <1>4, <2>1, <2>3, <2>4
<1>6. CASE NextTask(r)
  <2> DEFINE ms == SubSeq(req[r].msgs, 1, LastHuman(req[r].msgs))
             e == [req[r] EXCEPT !.msgs = ms]
  <2>1. req[r].at = "graph" /\ Update(r, e) /\ Checkpoint(r, ms) /\ Continues(ms, r)
    BY <1>6 DEF NextTask, Is, Continues
  <2>2. ms \in Seq(Message)
    BY <1>3, <2>1
  <2>3. \E k \in 1..Len(ms) :
          Latest(ms, k) /\ ms[k] = Human(r) /\ Len(ms) <= k + req[r].drafts
    <3>1. req[r].msgs \in Seq(Message) /\ req[r].drafts \in Nat
      BY <1>1, Constants DEF Request
    <3>2. PICK k \in 1..Len(req[r].msgs) : Latest(req[r].msgs, k) /\ req[r].msgs[k] = Human(r)
      BY <1>2 DEF HistInv, HistoryInv, Ahead
    <3>3. ms = SubSeq(req[r].msgs, 1, k)
      BY <3>1, <3>2, LastHumanIs
    <3>4. Len(ms) = k /\ Latest(ms, k) /\ ms[k] = Human(r)
      BY <3>1, <3>2, <3>3, CutToPrompt
    <3> HIDE DEF ms
    <3>5. k \in 1..Len(ms) /\ Len(ms) <= k + req[r].drafts
      BY <3>1, <3>2, <3>4
    <3>6. QED
      BY <3>4, <3>5
  <2> HIDE DEF ms
  <2>4. /\ e \in Request /\ Consistent(e) /\ e.at = req[r].at /\ e.thread = req[r].thread
        /\ e.msgs = ms /\ e.overlapped = req[r].overlapped /\ e.drafts = req[r].drafts
        /\ e.final = req[r].final /\ e.stray = req[r].stray /\ e.task = req[r].task
    BY <1>1, <2>1, <2>2, Cut
  <2> HIDE DEF e
  <2>5. QED
    BY <1>4, <2>1, <2>3, <2>4
<1>7. CASE EndGraph(r)
  <2> DEFINE ms == Append(req[r].msgs, Ai(r))
             f == [req[r] EXCEPT !.at = "after", !.msgs = <<>>, !.final = TRUE]
  <2>1. /\ Checkpoint(r, ms) /\ Continues(ms, r)
        /\ \/ f.text = 0 /\ Update(r, [Piece(f) EXCEPT !.whole = 1])
           \/ Update(r, [f EXCEPT !.whole = f.text])
    BY <1>7 DEF EndGraph, Continues
  <2>2. PICK e \in {[Piece(f) EXCEPT !.whole = 1], [f EXCEPT !.whole = f.text]} :
          Update(r, e) /\ (e = [f EXCEPT !.whole = f.text] \/ req[r].text = 0)
    <3>1. f.text = req[r].text
      BY <1>1 DEF Request
    <3>2. QED
      BY <2>1, <3>1
  <2>3. /\ e \in Request /\ Consistent(e) /\ e.at = "after" /\ e.thread = req[r].thread
        /\ e.overlapped = req[r].overlapped /\ e.drafts = req[r].drafts
        /\ e.final = TRUE /\ e.stray = req[r].stray /\ e.task = req[r].task
    BY <1>1, <1>2, <2>2, Finished DEF InGraph
  <2>4. Moves(r) /\ req'[r] = e
    BY <2>2, <2>3, UpdateIs DEF Moves
  <2>5. PICK k \in 1..Len(ms) :
             /\ Latest(ms, k) /\ ms[k] = Human(r)
             /\ Len(ms) <= k + req[r].drafts + 1 \/ Len(ms) = k
    BY <1>3, <2>1
  <2>6. /\ ms \in Seq(Message) /\ Len(ms) = Len(req[r].msgs) + 1 /\ ms[Len(ms)] = Ai(r)
        /\ Len(req[r].msgs) \in Nat /\ req[r].drafts \in Nat
    BY <1>1, MessageIs, Constants DEF Request
  <2>7. ms = Append(req[r].msgs, Ai(r))
    OBVIOUS
  <2> HIDE DEF ms, f
  <2>8. k < Len(ms) /\ Len(ms) \in 1..Len(ms) /\ Len(ms) <= k + req[r].drafts + 1
    <3>1. k # Len(ms)
      BY <2>5, <2>6, MessageIs
    <3>2. QED
      BY <2>5, <2>6, <3>1
  <2>9. Turn(ms, r, Len(ms))
    BY <2>5, <2>6, <2>8 DEF Turn
  <2>10. Short(ms, r, req[r].drafts)
    <3>1. ASSUME NEW h \in 1..Len(ms), Latest(ms, h) PROVE Len(ms) <= h + req[r].drafts + 1
      <4>1. h = k
        BY <2>5, <2>6, <3>1, LatestUnique
      <4>2. QED
        BY <2>8, <4>1
    <3>2. QED
      BY <3>1 DEF Short
  <2>11. Begun(e) /\ Live(e) /\ ~Writes(e)
    BY <1>2, <2>3 DEF Begun, Live, Writes
  <2>12. HistInv' /\ history' \in [Threads -> Seq(Message)]
    BY <1>2, <2>1, <2>3, <2>4, <2>9, <2>10, <2>11, WriteSteps
  <2>13. Onward(req[r], e) /\ Stays(req[r], e)
    BY <1>2, <2>3, <2>11 DEF Onward, Stays
  <2>14. QED
    BY <2>3, <2>4, <2>12, <2>13
<1>8. QED
  BY <1>5, <1>6, <1>7

LEMMA StrayTurns ==
  ASSUME StreamsInv, HistInv, NEW r \in Requests, StrayStep(r)
  PROVE  /\ Moves(r) /\ HistInv' /\ history' \in [Threads -> Seq(Message)]
         /\ Onward(req[r], req'[r]) /\ Stays(req[r], req'[r]) /\ req'[r].task = req[r].task
<1>1. req[r] \in Request /\ Consistent(req[r]) /\ req[r].stray
  BY RequestIs DEF StrayStep
<1>2. /\ Writes(req[r]) /\ ~req[r].final /\ req[r].at # "new" /\ req[r].at # "dropped"
      /\ req[r].at \notin {"graph", "final"}
  BY <1>1 DEF Writes, Consistent
<1> DEFINE e == [req[r] EXCEPT !.stray = FALSE, !.msgs = <<>>]
<1>3. Update(r, e) /\ e \in Request /\ Consistent(e) /\ Calm(req[r], e) /\ e.at = req[r].at
  BY <1>1, StrayDone DEF StrayStep
<1>4. /\ e.stray = FALSE /\ e.task = req[r].task /\ e.final = req[r].final
      /\ e.thread = req[r].thread /\ e.overlapped = req[r].overlapped
  BY <1>1 DEF Request
<1>5. history' = history \/ Checkpoint(r, Append(req[r].msgs, Ai(r)))
  BY DEF StrayStep
<1> HIDE DEF e
<1>6. Moves(r) /\ req'[r] = e
  BY <1>3, UpdateIs DEF Moves
<1>7. Begun(e) /\ ~Writes(e)
  BY <1>1, <1>2, <1>3, <1>4 DEF Begun, Writes, Consistent
<1>8. HistInv' /\ history' \in [Threads -> Seq(Message)]
  <2>1. CASE history' = history
    <3>1. \A s \in Requests : Steady(req[s], req'[s])
      <4>1. \A s \in Requests : Steady(req[s], req[s])
        BY RequestIs DEF Steady, Consistent, Writes
      <4>2. QED
        BY <1>3, <1>6, <4>1 DEF Moves, Calm
    <3>2. QED
      BY <1>6, <2>1, <3>1, SteadySteps DEF Moves, StreamsInv
  <2>2. CASE Checkpoint(r, Append(req[r].msgs, Ai(r)))
    BY <1>2, <1>4, <1>6, <1>7, <2>2, WriteSteps DEF Continues
  <2>3. QED
    BY <1>5, <2>1, <2>2
<1>9. Onward(req[r], e) /\ Stays(req[r], e)
  BY <1>2, <1>3, <1>4, <1>7 DEF Onward, Stays, Live
<1>10. QED
  BY <1>4, <1>6, <1>8, <1>9

LEMMA PublishTurns ==
  ASSUME StreamsInv, HistInv, NEW r \in Requests, Publish(r)
  PROVE  /\ Moves(r) /\ HistInv'
         /\ Onward(req[r], req'[r]) /\ Stays(req[r], req'[r])
         /\ req[r].task = "pending" /\ req[r].thread \in Threads
         /\ \/ mq' = Append(mq, Task(req[r].thread, r)) /\ req'[r].task = "published"
            \/ mq' = mq /\ req'[r].task = "none"
<1>1. req[r] \in Request /\ Consistent(req[r]) /\ req[r].task = "pending"
  BY RequestIs DEF Publish
<1>2. PICK t \in {"none", "published"} :
        /\ Update(r, [req[r] EXCEPT !.task = t])
        /\ \/ mq' = Append(mq, Task(req[r].thread, r)) /\ t = "published"
           \/ mq' = mq /\ t = "none"
  BY DEF Publish
<1> DEFINE e == [req[r] EXCEPT !.task = t]
<1>3. /\ e \in Request /\ Consistent(e) /\ e.at = req[r].at /\ e.thread = req[r].thread
      /\ e.msgs = req[r].msgs /\ e.overlapped = req[r].overlapped /\ e.drafts = req[r].drafts
      /\ e.final = req[r].final /\ e.stray = req[r].stray /\ e.task = t /\ Steady(req[r], e)
  BY <1>1, Published
<1>4. Update(r, e)
  BY <1>2
<1> HIDE DEF e
<1>5. Moves(r) /\ req'[r] = e
  BY <1>3, <1>4, UpdateIs DEF Moves
<1>6. HistInv'
  <2>1. \A s \in Requests : Steady(req[s], req'[s])
    <3>1. \A s \in Requests : Steady(req[s], req[s])
      BY RequestIs DEF Steady, Consistent, Writes
    <3>2. QED
      BY <1>3, <1>5, <3>1 DEF Moves
  <2>2. QED
    BY <1>5, <2>1, SteadySteps DEF Moves, Publish
<1>7. Onward(req[r], e) /\ Stays(req[r], e)
  BY <1>1, <1>3 DEF Onward, Stays, Live, Begun
<1>8. req[r].thread \in Threads
  BY <1>1 DEF Consistent
<1>9. QED
  BY <1>1, <1>2, <1>3, <1>5, <1>6, <1>7, <1>8

LEMMA Orphaned ==
  ASSUME NEW q \in Request, NEW t \in {"none", "pending", "published"}
  PROVE  [q EXCEPT !.stray = FALSE, !.task = t] \in Request
<1> DEFINE m == [q EXCEPT !.stray = FALSE]
<1>1. m \in Request
  BY DEF Request
<1>2. [q EXCEPT !.stray = FALSE, !.task = t] = [m EXCEPT !.task = t]
  OBVIOUS
<1> HIDE DEF m
<1>3. [m EXCEPT !.task = t] \in Request
  BY <1>1 DEF Request
<1>4. QED
  BY <1>2, <1>3

LEMMA RestartTurns ==
  ASSUME StreamsInv, HistInv, Restart
  PROVE  /\ req' \in [Requests -> Request] /\ HistInv'
         /\ \A s \in Requests :
              /\ Consistent(req'[s]) /\ Calm(req[s], req'[s]) /\ Onward(req[s], req'[s])
              /\ ~OnHttp(req'[s]) /\ ~OnGrpc(req'[s])
<1>1. \A s \in Requests : req[s] \in Request /\ Consistent(req[s])
  BY RequestIs
<1> DEFINE p(s) == [req[s] EXCEPT !.stray = FALSE, !.task = IF @ = "pending" THEN "none" ELSE @]
<1>2. req' = [s \in Requests |-> IF req[s].at = "new" THEN req[s] ELSE Closed(p(s))]
  BY DEF Restart, Is
<1>3. ASSUME NEW s \in Requests, req[s].at # "new"
      PROVE  /\ Closed(p(s)) \in Request /\ Consistent(Closed(p(s)))
             /\ Calm(req[s], Closed(p(s))) /\ Closed(p(s)).at = "closed"
  <2>1. /\ p(s) \in Request /\ p(s).counted = req[s].counted /\ p(s).thread = req[s].thread
        /\ p(s).msgs = req[s].msgs /\ p(s).final = req[s].final
        /\ p(s).overlapped = req[s].overlapped /\ p(s).drafts = req[s].drafts
        /\ p(s).stray = FALSE
        /\ \/ p(s).task = req[s].task
           \/ p(s).task = "none" /\ req[s].task # "published"
    <3> DEFINE t == IF req[s].task = "pending" THEN "none" ELSE req[s].task
    <3>1. /\ t \in {"none", "pending", "published"}
          /\ t = req[s].task \/ (t = "none" /\ req[s].task # "published")
      BY <1>1 DEF Request
    <3>2. p(s) = [req[s] EXCEPT !.stray = FALSE, !.task = t]
      OBVIOUS
    <3> HIDE DEF p, t
    <3>3. p(s) \in Request
      <4>1. req[s] \in Request
        BY <1>1
      <4>2. [req[s] EXCEPT !.stray = FALSE, !.task = t] \in Request
        BY ONLY <4>1, <3>1, Orphaned
      <4>3. QED
        BY ONLY <4>2, <3>2
    <3>4. /\ p(s).counted = req[s].counted /\ p(s).thread = req[s].thread
          /\ p(s).msgs = req[s].msgs /\ p(s).final = req[s].final
          /\ p(s).overlapped = req[s].overlapped /\ p(s).drafts = req[s].drafts
      BY <1>1, <3>2 DEF Request
    <3>5. p(s).stray = FALSE /\ p(s).task = t
      BY <1>1, <3>2 DEF Request
    <3>6. QED
      BY <3>1, <3>3, <3>4, <3>5
  <2> HIDE DEF p
  <2>2. p(s).counted <= 1 /\ req[s].at \notin {"new"}
    BY <1>1, <1>3, <2>1 DEF Consistent
  <2>3. QED
    BY <1>1, <2>1, <2>2, ClosedCalm
<1> HIDE DEF p
<1>4. req' \in [Requests -> Request]
  BY <1>1, <1>2, <1>3
<1>5. ASSUME NEW s \in Requests
      PROVE  /\ Consistent(req'[s]) /\ Calm(req[s], req'[s]) /\ Onward(req[s], req'[s])
             /\ ~OnHttp(req'[s]) /\ ~OnGrpc(req'[s])
  <2>1. CASE req[s].at = "new"
    <3>1. req'[s] = req[s] /\ Consistent(req[s])
      BY <1>1, <1>2, <2>1
    <3>2. Calm(req[s], req[s])
      BY <3>1 DEF Calm, Steady, Writes, Consistent
    <3>3. QED
      BY <2>1, <3>1, <3>2 DEF Onward, OnHttp, OnGrpc, Live
  <2>2. CASE req[s].at # "new"
    <3>1. /\ Consistent(req'[s]) /\ Calm(req[s], req'[s]) /\ req'[s].at = "closed"
      BY <1>2, <1>3, <2>2
    <3>2. req[s].final \in BOOLEAN /\ req'[s].final \in BOOLEAN
      BY <1>1, <1>4 DEF Request
    <3>3. Onward(req[s], req'[s])
      BY <1>1, <3>1, <3>2, CalmOnward
    <3>4. QED
      BY <3>1, <3>3 DEF OnHttp, OnGrpc, Live
  <2>3. QED
    BY <2>1, <2>2
<1>6. HistInv'
  BY <1>4, <1>5, SteadySteps DEF Restart, shared, Calm
<1>7. QED
  BY <1>4, <1>5, <1>6

-----------------------------------------------------------------------------
(* The steps of the chat stream, by what the queue and the gauges make of   *)
(* them.                                                                    *)

Turned ==
  /\ req' \in [Requests -> Request] /\ history' \in [Threads -> Seq(Message)]
  /\ \A s \in Requests : Consistent(req'[s]) /\ Onward(req[s], req'[s])
  /\ HistInv'

KeepsTasks ==
  mq' = mq /\ \A s \in Requests : req'[s].task = "published" <=> req[s].task = "published"

KeepsGauges ==
  /\ gauge' = gauge
  /\ \A s \in Requests : /\ OnHttp(req'[s]) <=> OnHttp(req[s])
                         /\ OnGrpc(req'[s]) <=> OnGrpc(req[s])

LEMMA MovesTurn ==
  ASSUME StreamsInv, NEW r \in Requests, Moves(r), Onward(req[r], req'[r]), HistInv',
         history' \in [Threads -> Seq(Message)]
  PROVE  Turned
<1>1. \A s \in Requests : Consistent(req[s]) /\ Onward(req[s], req[s])
  BY RequestIs DEF Onward
<1>2. QED
  BY <1>1 DEF Turned, Moves

LEMMA StaysOn ==
  ASSUME NEW q, NEW p, Stays(q, p)
  PROVE  (OnHttp(p) <=> OnHttp(q)) /\ (OnGrpc(p) <=> OnGrpc(q))
BY DEF Stays, OnHttp, OnGrpc

LEMMA MovesKeep ==
  ASSUME NEW r \in Requests, Moves(r)
  PROVE  /\ (/\ mq' = mq
             /\ req'[r].task = "published" <=> req[r].task = "published") => KeepsTasks
         /\ Stays(req[r], req'[r]) /\ gauge' = gauge => KeepsGauges
BY StaysOn DEF Moves, KeepsTasks, KeepsGauges

LEMMA CalmTurn ==
  ASSUME StreamsInv, HistInv, NEW r \in Requests, NEW at, Advances(r, at), at # "new",
         UNCHANGED shared
  PROVE  Turned /\ KeepsTasks
<1>1. Moves(r) /\ Calm(req[r], req'[r]) /\ req'[r].at = at
  BY DEF Advances
<1>2. \A s \in Requests : Steady(req[s], req'[s])
  <2>1. \A s \in Requests : Steady(req[s], req[s])
    BY RequestIs DEF Steady, Consistent, Writes
  <2>2. QED
    BY <1>1, <2>1 DEF Moves, Calm
<1>3. HistInv'
  BY <1>1, <1>2, SteadySteps DEF Moves, shared
<1>4. Onward(req[r], req'[r])
  <2>1. req[r] \in Request /\ Consistent(req[r]) /\ req'[r] \in Request /\ Consistent(req'[r])
    BY <1>1, RequestIs DEF Moves
  <2>2. QED
    BY <1>1, <2>1, CalmOnward DEF Request
<1>5. history' \in [Threads -> Seq(Message)]
  BY DEF StreamsInv, shared
<1>6. QED
  BY <1>1, <1>3, <1>4, <1>5, MovesTurn, MovesKeep DEF Calm, shared

LEMMA AcceptTurns ==
  ASSUME StreamsInv, HistInv, NEW r \in Requests, NEW p \in Prompts, NEW th \in Threads,
         \/ th \in HttpThreads \cup AnonThreads /\ AcceptHttp(r, th, p)
         \/ th \in HubThreads /\ AcceptGrpc(r, th, p)
  PROVE  /\ Turned /\ KeepsTasks
         /\ ~OnHttp(req[r]) /\ ~OnGrpc(req[r]) /\ \A s \in Requests \ {r} : req'[s] = req[s]
         /\ \/ /\ OnHttp(req'[r]) /\ ~OnGrpc(req'[r])
               /\ gauge' = [gauge EXCEPT !["http"] = @ + 1]
            \/ /\ OnGrpc(req'[r]) /\ ~OnHttp(req'[r])
               /\ gauge' = [gauge EXCEPT !["grpc"] = @ + 1]
<1>1. /\ Advances(r, "lookup") \/ (th \notin HubThreads /\ Advances(r, "dropped"))
      /\ req[r].at = "new" /\ req'[r].thread = th
  BY AcceptSteps
<1>2. UNCHANGED shared
  BY DEF AcceptHttp, AcceptGrpc
<1>3. Turned /\ KeepsTasks
  BY <1>1, <1>2, CalmTurn
<1>4. ~OnHttp(req[r]) /\ ~OnGrpc(req[r]) /\ \A s \in Requests \ {r} : req'[s] = req[s]
  BY <1>1 DEF OnHttp, OnGrpc, Live, Advances, Moves
<1>5. CASE th \in HttpThreads \cup AnonThreads /\ AcceptHttp(r, th, p)
  <2>1. OnHttp(req'[r]) /\ ~OnGrpc(req'[r])
    BY <1>1, <1>5, Constants DEF OnHttp, OnGrpc, Live, Advances
  <2>2. QED
    BY <1>3, <1>4, <1>5, <2>1 DEF AcceptHttp
<1>6. CASE th \in HubThreads /\ AcceptGrpc(r, th, p)
  <2>1. OnGrpc(req'[r]) /\ ~OnHttp(req'[r])
    BY <1>1, <1>6 DEF OnHttp, OnGrpc, Live, Advances
  <2>2. QED
    BY <1>3, <1>4, <1>6, <2>1 DEF AcceptGrpc
<1>7. QED
  BY <1>5, <1>6

LEMMA QuietTurns ==
  ASSUME StreamsInv, HistInv, NEW r \in Requests,
         \/ CacheMiss(r) \/ StreamPiece(r) \/ CallBreaks(r) \/ SeeCancelled(r) \/ StoreReply(r)
         \/ StartGraph(r) \/ Draft(r) \/ NextTask(r) \/ EndGraph(r) \/ StrayStep(r)
  PROVE  Turned /\ KeepsTasks /\ KeepsGauges
<1>0. req[r] \in Request /\ Consistent(req[r])
  BY RequestIs
<1>1. ASSUME NEW at, Advances(r, at), Live(req[r]), at \in {"start", "final", "after", "receipt", req[r].at},
             UNCHANGED shared, gauge' = gauge
      PROVE  Turned /\ KeepsTasks /\ KeepsGauges
  <2>1. at # "new" /\ at # "dropped" /\ Live(req'[r]) /\ req[r].at # "new" /\ req[r].at # "dropped"
    BY <1>1 DEF Live, Advances
  <2>2. Moves(r) /\ Stays(req[r], req'[r])
    BY <1>1, <2>1 DEF Advances, Calm, Steady, Stays
  <2>3. QED
    BY <1>1, <2>1, <2>2, CalmTurn, MovesKeep
<1>2. CASE CacheMiss(r)
  <2>1. Live(req[r]) /\ UNCHANGED shared /\ gauge' = gauge
    BY <1>2 DEF CacheMiss, Is, Live
  <2>2. QED
    BY <1>1, <1>2, <2>1, QuietSteps
<1>3. CASE StreamPiece(r)
  <2>1. Live(req[r]) /\ UNCHANGED shared /\ gauge' = gauge
    BY <1>3 DEF StreamPiece, InGraph, Live
  <2>2. QED
    BY <1>1, <1>3, <2>1, QuietSteps
<1>4. CASE CallBreaks(r)
  <2>1. Live(req[r]) /\ UNCHANGED shared /\ gauge' = gauge
    BY <1>4 DEF CallBreaks, Streaming, InGraph, Live
  <2>2. QED
    BY <1>1, <1>4, <2>1, QuietSteps
<1>5. CASE SeeCancelled(r)
  <2>1. Live(req[r]) /\ UNCHANGED shared /\ gauge' = gauge
    BY <1>5 DEF SeeCancelled, InGraph, Live
  <2>2. QED
    BY <1>1, <1>5, <2>1, QuietSteps
<1>6. CASE StoreReply(r)
  <2>1. Live(req[r]) /\ UNCHANGED shared /\ gauge' = gauge
    BY <1>6 DEF StoreReply, Is, Live
  <2>2. QED
    BY <1>1, <1>6, <2>1, QuietSteps
<1>7. CASE StartGraph(r)
  <2>1. HistInv' /\ history' \in [Threads -> Seq(Message)]
    BY <1>7, BeginStep
  <2>2. /\ req[r].at = "start" /\ req'[r].at = "graph" /\ req' \in [Requests -> Request]
        /\ \A s \in Requests :
             /\ Consistent(req'[s])
             /\ req'[s].thread = req[s].thread /\ req'[s].drafts = req[s].drafts
             /\ req'[s].final = req[s].final /\ req'[s].task = req[s].task
             /\ s # r => /\ req'[s].at = req[s].at
                         /\ req'[s].overlapped = (req[s].overlapped \/ s \in Writers(r))
    BY <1>7, BeginFields
  <2>3. ~req[r].final
    BY <1>0, <2>2 DEF Consistent
  <2>4. mq' = mq /\ gauge' = gauge
    BY <1>7 DEF StartGraph
  <2>5. ASSUME NEW s \in Requests PROVE Onward(req[s], req'[s]) /\ Stays(req[s], req'[s])
    <3>1. CASE s = r
      BY <2>2, <2>3, <3>1 DEF Onward, Stays, Begun, Live
    <3>2. CASE s # r
      BY <2>2, <3>2 DEF Onward, Stays, Begun, Live
    <3>3. QED
      BY <3>1, <3>2
  <2>6. QED
    BY <2>1, <2>2, <2>4, <2>5, StaysOn DEF Turned, KeepsTasks, KeepsGauges
<1>8. CASE Draft(r) \/ NextTask(r) \/ EndGraph(r)
  <2>1. mq' = mq /\ gauge' = gauge
    BY <1>8 DEF Draft, NextTask, EndGraph
  <2>2. QED
    BY <1>8, <2>1, RunSteps, MovesTurn, MovesKeep
<1>9. CASE StrayStep(r)
  <2>1. mq' = mq /\ gauge' = gauge
    BY <1>9 DEF StrayStep
  <2>2. QED
    BY <1>9, <2>1, StrayTurns, MovesTurn, MovesKeep
<1>10. QED
  BY <1>2, <1>3, <1>4, <1>5, <1>6, <1>7, <1>8, <1>9

\* The stream of r ends, or is left.
Ends(r) ==
  /\ Live(req[r]) /\ GaugeFalls(r) /\ ~OnHttp(req'[r]) /\ ~OnGrpc(req'[r])
  /\ \A s \in Requests \ {r} : req'[s] = req[s]

LEMMA EndTurns ==
  ASSUME StreamsInv, HistInv, NEW r \in Requests,
         CacheHit(r) \/ GraphFails(r) \/ Abort(r) \/ SendReceipt(r) \/ AfterGraph(r)
  PROVE  Turned /\ KeepsTasks /\ (KeepsGauges \/ Ends(r))
<1>1. ASSUME Advances(r, "closed"), Live(req[r]), GaugeFalls(r), UNCHANGED shared
      PROVE  Turned /\ KeepsTasks /\ Ends(r)
  <2>1. ~OnHttp(req'[r]) /\ ~OnGrpc(req'[r])
    BY <1>1 DEF Advances, OnHttp, OnGrpc, Live
  <2>2. QED
    BY <1>1, <2>1, CalmTurn DEF Ends, Advances, Moves
<1>2. CASE CacheHit(r) \/ GraphFails(r) \/ Abort(r) \/ SendReceipt(r)
  <2>1. Advances(r, "closed") /\ Live(req[r])
    BY <1>2, EndSteps
  <2>2. GaugeFalls(r) /\ UNCHANGED shared
    BY <1>2 DEF CacheHit, GraphFails, Abort, SendReceipt, End
  <2>3. QED
    BY <1>1, <2>1, <2>2
<1>3. CASE AfterGraph(r)
  <2>1. UNCHANGED shared
    BY <1>3 DEF AfterGraph
  <2>2. /\ req[r].at = "after"
        /\ \/ Advances(r, "cache") /\ UNCHANGED gauge
           \/ Advances(r, "closed") /\ GaugeFalls(r)
    BY <1>3, EndSteps
  <2>3. CASE Advances(r, "closed") /\ GaugeFalls(r)
    BY <1>1, <2>1, <2>2, <2>3 DEF Live
  <2>4. CASE Advances(r, "cache") /\ UNCHANGED gauge
    <3>1. Moves(r) /\ Stays(req[r], req'[r])
      BY <2>2, <2>4 DEF Advances, Calm, Steady, Stays, Live
    <3>2. QED
      BY <2>1, <2>4, <3>1, CalmTurn, MovesKeep
  <2>5. QED
    BY <2>2, <2>3, <2>4
<1>4. QED
  BY <1>2, <1>3

\* A task is published for r.
Publishing(r) ==
  /\ req[r].task = "pending" /\ req[r].thread \in Threads
  /\ req'[r].task = "published" /\ req'[r].thread = req[r].thread
  /\ mq' = Append(mq, Task(req[r].thread, r))
  /\ \A s \in Requests \ {r} : req'[s] = req[s]

LEMMA PublishTurned ==
  ASSUME StreamsInv, HistInv, NEW r \in Requests, Publish(r)
  PROVE  Turned /\ KeepsGauges /\ (KeepsTasks \/ Publishing(r))
<1>1. /\ Moves(r) /\ HistInv'
      /\ Onward(req[r], req'[r]) /\ Stays(req[r], req'[r])
      /\ req[r].task = "pending" /\ req[r].thread \in Threads
      /\ \/ mq' = Append(mq, Task(req[r].thread, r)) /\ req'[r].task = "published"
         \/ mq' = mq /\ req'[r].task = "none"
  BY PublishTurns
<1>2. gauge' = gauge /\ history' \in [Threads -> Seq(Message)]
  BY DEF Publish, StreamsInv
<1>3. Turned /\ KeepsGauges
  BY <1>1, <1>2, MovesTurn, MovesKeep
<1>4. KeepsTasks \/ Publishing(r)
  BY <1>1, MovesKeep DEF Publishing, Stays, Moves
<1>5. QED
  BY <1>3, <1>4

LEMMA RestartTurned ==
  ASSUME StreamsInv, HistInv, Restart
  PROVE  Turned /\ KeepsTasks
BY RestartTurns DEF Turned, KeepsTasks, Calm, Restart, shared, StreamsInv

LEMMA ChatTurns ==
  ASSUME StreamsInv, HistInv, ChatStep
  PROVE  Turned /\ (KeepsTasks \/ \E r \in Requests : Publishing(r))
<1>1. ASSUME NEW r \in Requests, NEW p \in Prompts,
             \/ \E th \in HttpThreads \cup AnonThreads : AcceptHttp(r, th, p)
             \/ \E th \in HubThreads : AcceptGrpc(r, th, p)
      PROVE  Turned /\ KeepsTasks
  BY <1>1, AcceptTurns, Constants
<1>2. ASSUME NEW r \in Requests, Serve(r) \/ CallBreaks(r) \/ Abort(r)
      PROVE  Turned /\ (KeepsTasks \/ Publishing(r))
  BY <1>2, QuietTurns, EndTurns, PublishTurned DEF Serve
<1>3. CASE Restart
  BY <1>3, RestartTurned
<1>4. QED
  BY <1>1, <1>2, <1>3 DEF ChatStep

LEMMA TurnedStreams ==
  ASSUME Turned
  PROVE  StreamsInv' /\ HistInv'
BY DEF Turned, StreamsInv, StreamInv

LEMMA StreamsInit ==
  ASSUME Init
  PROVE  StreamsInv /\ HistInv
<1>1. req \in [Requests -> Request] /\ \A r \in Requests : req[r] = NewRequest
  BY NewTyped DEF Init, ChatInit
<1>2. history \in [Threads -> Seq(Message)] /\ \A th \in Threads : history[th] = <<>>
  BY DEF Init, SharedInit
<1>3. ~Writes(NewRequest) /\ ~Settled(NewRequest) /\ ~NewRequest.final
  BY DEF NewRequest, Writes, Settled
<1>4. StreamInv
  BY <1>1, NewTyped DEF StreamInv
<1>5. HistoryInv /\ OverlapInv /\ KeptInv /\ ReplyInv
  BY <1>1, <1>2, <1>3, Constants DEF HistoryInv, OverlapInv, KeptInv, ReplyInv
<1>6. QED
  BY <1>1, <1>2, <1>4, <1>5 DEF StreamsInv, HistInv

\* Every generator and every history is well formed: what a request's place says of
\* its fields, which messages its run can write, and that turns that ran alone stay.
THEOREM Streams == Spec => [](StreamsInv /\ HistInv)
<1>1. Init => StreamsInv /\ HistInv
  BY StreamsInit
<1>2. StreamsInv /\ HistInv /\ [Next]_vars => StreamsInv' /\ HistInv'
  <2> SUFFICES ASSUME StreamsInv, HistInv, [Next]_vars PROVE StreamsInv' /\ HistInv'
    OBVIOUS
  <2>1. CASE Chat
    BY <2>1, ChatTurns, TurnedStreams DEF Chat
  <2>2. CASE req' = req /\ history' = history
    <3>1. \A s \in Requests : Steady(req[s], req'[s])
      BY <2>2, RequestIs DEF Steady, Consistent, Writes
    <3>2. req' \in [Requests -> Request]
      BY <2>2 DEF StreamsInv
    <3>3. HistInv'
      BY <2>2, <3>1, <3>2, SteadySteps
    <3>4. StreamsInv'
      BY <2>2 DEF StreamsInv, StreamInv
    <3>5. QED
      BY <3>3, <3>4
  <2>3. CASE Memory
    BY <2>2, <2>3 DEF Memory, MemoryStep, WorkerStep, Deliver, ReadCheckpoint, Extract, AddFact,
                      Acknowledge, Reject, Crash, chatVars, shared
  <2>4. CASE UNCHANGED vars
    BY <2>2, <2>4 DEF vars, shared, chatVars
  <2>5. QED
    BY <2>1, <2>3, <2>4 DEF Next
<1>3. QED
  BY <1>1, <1>2, PTL DEF Spec

\* A turn that ran alone on its thread stays in the history: no later turn, no task
\* change and no run its client left removes its prompt or its reply.
THEOREM TurnsAreKept == Spec => []FinishedTurnKept
<1>1. StreamsInv /\ HistInv => FinishedTurnKept
  <2> SUFFICES ASSUME StreamsInv, HistInv, NEW r \in Requests,
                      req[r].final, ~req[r].overlapped, ~Anonymous(r)
               PROVE  \E i, j \in 1..Len(history[req[r].thread]) :
                        /\ i < j
                        /\ history[req[r].thread][i] = Human(r)
                        /\ history[req[r].thread][j] = Ai(r)
    BY DEF FinishedTurnKept
  <2>1. Turn(history[req[r].thread], r, Len(history[req[r].thread]))
    BY DEF HistInv, KeptInv, Settled, Anonymous
  <2>2. QED
    BY <2>1 DEF Turn
<1>2. QED
  BY <1>1, Streams, PTL

-----------------------------------------------------------------------------
(* The gauges.                                                              *)

GaugesInv == GaugeInv /\ gauge \in [{"http", "grpc"} -> Nat]

\* A finite set whose members one element joins or leaves.
LEMMA JoinOrLeave ==
  ASSUME NEW S, IsFiniteSet(S), NEW x
  PROVE  /\ x \notin S => /\ IsFiniteSet(S \cup {x})
                          /\ Cardinality(S \cup {x}) = Cardinality(S) + 1
         /\ x \in S => /\ IsFiniteSet(S \ {x}) /\ Cardinality(S) - 1 \in Nat
                       /\ Cardinality(S \ {x}) = Cardinality(S) - 1
<1>1. ASSUME x \in S PROVE Cardinality(S) - 1 \in Nat
  <2>1. Cardinality(S) \in Nat /\ Cardinality(S) # 0
    BY <1>1, FS_CardinalityType, FS_EmptySet
  <2>2. QED
    BY <2>1
<1>2. QED
  BY <1>1, FS_AddElement, FS_RemoveElement

LEMMA GaugesKept ==
  ASSUME GaugesInv, KeepsGauges
  PROVE  GaugesInv'
<1>1. HttpStreams' = HttpStreams /\ GrpcStreams' = GrpcStreams
  BY DEF KeepsGauges, HttpStreams, GrpcStreams
<1>2. QED
  BY <1>1 DEF GaugesInv, GaugeInv, KeepsGauges

LEMMA GaugesRise ==
  ASSUME GaugesInv, NEW r \in Requests, \A s \in Requests \ {r} : req'[s] = req[s],
         ~OnHttp(req[r]), ~OnGrpc(req[r]),
         \/ /\ OnHttp(req'[r]) /\ ~OnGrpc(req'[r])
            /\ gauge' = [gauge EXCEPT !["http"] = @ + 1]
         \/ /\ OnGrpc(req'[r]) /\ ~OnHttp(req'[r])
            /\ gauge' = [gauge EXCEPT !["grpc"] = @ + 1]
  PROVE  GaugesInv'
<1>1. /\ IsFiniteSet(HttpStreams) /\ gauge["http"] = Cardinality(HttpStreams)
      /\ IsFiniteSet(GrpcStreams) /\ gauge["grpc"] = Cardinality(GrpcStreams)
      /\ gauge \in [{"http", "grpc"} -> Nat]
  BY DEF GaugesInv, GaugeInv
<1>2. r \notin HttpStreams /\ r \notin GrpcStreams
  BY DEF HttpStreams, GrpcStreams
<1>3. CASE /\ OnHttp(req'[r]) /\ ~OnGrpc(req'[r])
           /\ gauge' = [gauge EXCEPT !["http"] = @ + 1]
  <2>1. HttpStreams' = HttpStreams \cup {r} /\ GrpcStreams' = GrpcStreams
    BY <1>3 DEF HttpStreams, GrpcStreams
  <2>2. QED
    BY <1>1, <1>2, <1>3, <2>1, JoinOrLeave DEF GaugesInv, GaugeInv
<1>4. CASE /\ OnGrpc(req'[r]) /\ ~OnHttp(req'[r])
           /\ gauge' = [gauge EXCEPT !["grpc"] = @ + 1]
  <2>1. GrpcStreams' = GrpcStreams \cup {r} /\ HttpStreams' = HttpStreams
    BY <1>4 DEF HttpStreams, GrpcStreams
  <2>2. QED
    BY <1>1, <1>2, <1>4, <2>1, JoinOrLeave DEF GaugesInv, GaugeInv
<1>5. QED
  BY <1>3, <1>4

LEMMA GaugesFall ==
  ASSUME GaugesInv, NEW r \in Requests, Ends(r)
  PROVE  GaugesInv'
<1>1. /\ IsFiniteSet(HttpStreams) /\ gauge["http"] = Cardinality(HttpStreams)
      /\ IsFiniteSet(GrpcStreams) /\ gauge["grpc"] = Cardinality(GrpcStreams)
      /\ gauge \in [{"http", "grpc"} -> Nat]
  BY DEF GaugesInv, GaugeInv
<1>2. CASE Source(r) = "http"
  <2>1. r \in HttpStreams /\ r \notin GrpcStreams
    BY <1>2 DEF Ends, Source, HttpStreams, GrpcStreams, OnHttp, OnGrpc
  <2>2. HttpStreams' = HttpStreams \ {r} /\ GrpcStreams' = GrpcStreams
    BY <2>1 DEF Ends, HttpStreams, GrpcStreams
  <2>3. gauge' = [gauge EXCEPT !["http"] = @ - 1]
    BY <1>2 DEF Ends, GaugeFalls
  <2>4. QED
    BY <1>1, <2>1, <2>2, <2>3, JoinOrLeave DEF GaugesInv, GaugeInv
<1>3. CASE Source(r) # "http"
  <2>1. r \in GrpcStreams /\ r \notin HttpStreams /\ Source(r) = "grpc"
    BY <1>3 DEF Ends, Source, HttpStreams, GrpcStreams, OnHttp, OnGrpc
  <2>2. GrpcStreams' = GrpcStreams \ {r} /\ HttpStreams' = HttpStreams
    BY <2>1 DEF Ends, HttpStreams, GrpcStreams
  <2>3. gauge' = [gauge EXCEPT !["grpc"] = @ - 1]
    BY <2>1 DEF Ends, GaugeFalls
  <2>4. QED
    BY <1>1, <2>1, <2>2, <2>3, JoinOrLeave DEF GaugesInv, GaugeInv
<1>4. QED
  BY <1>2, <1>3

LEMMA GaugesCleared ==
  ASSUME gauge = [s \in {"http", "grpc"} |-> 0],
         \A r \in Requests : ~OnHttp(req[r]) /\ ~OnGrpc(req[r])
  PROVE  GaugesInv
<1>1. HttpStreams = {} /\ GrpcStreams = {}
  BY DEF HttpStreams, GrpcStreams
<1>2. QED
  BY <1>1, FS_EmptySet DEF GaugesInv, GaugeInv

LEMMA GaugesRestart ==
  ASSUME StreamsInv, HistInv, Restart
  PROVE  GaugesInv'
<1>1. gauge' = [s \in {"http", "grpc"} |-> 0]
  BY DEF Restart
<1>2. \A r \in Requests : ~OnHttp(req'[r]) /\ ~OnGrpc(req'[r])
  BY RestartTurns
<1>3. HttpStreams' = {} /\ GrpcStreams' = {}
  BY <1>2 DEF HttpStreams, GrpcStreams
<1>4. QED
  BY <1>1, <1>3, FS_EmptySet DEF GaugesInv, GaugeInv

\* Each gauge counts the streams of its transport that are open: the decrements
\* of the finally blocks and a restart of the process keep it so.
THEOREM Gauges == Spec => []GaugesInv
<1>1. Init => GaugesInv
  <2>1. ~OnHttp(NewRequest) /\ ~OnGrpc(NewRequest)
    BY DEF NewRequest, OnHttp, OnGrpc, Live
  <2>2. QED
    BY <2>1, GaugesCleared DEF Init, ChatInit
<1>2. StreamsInv /\ HistInv /\ GaugesInv /\ [Next]_vars => GaugesInv'
  <2> SUFFICES ASSUME StreamsInv, HistInv, GaugesInv, [Next]_vars PROVE GaugesInv'
    OBVIOUS
  <2>1. ASSUME NEW r \in Requests, NEW p \in Prompts,
               \/ \E th \in HttpThreads \cup AnonThreads : AcceptHttp(r, th, p)
               \/ \E th \in HubThreads : AcceptGrpc(r, th, p)
        PROVE  GaugesInv'
    <3>1. ASSUME NEW th \in Threads,
                 \/ th \in HttpThreads \cup AnonThreads /\ AcceptHttp(r, th, p)
                 \/ th \in HubThreads /\ AcceptGrpc(r, th, p)
          PROVE  GaugesInv'
      BY <3>1, AcceptTurns, GaugesRise
    <3>2. QED
      BY <2>1, <3>1, Constants
  <2>2. ASSUME NEW r \in Requests, Serve(r) \/ CallBreaks(r) \/ Abort(r)
        PROVE  GaugesInv'
    BY <2>2, QuietTurns, EndTurns, PublishTurned, GaugesKept, GaugesFall DEF Serve
  <2>3. CASE Restart
    BY <2>3, GaugesRestart
  <2>4. CASE ChatStep
    BY <2>1, <2>2, <2>3, <2>4 DEF ChatStep
  <2>5. CASE req' = req /\ gauge' = gauge
    BY <2>5, GaugesKept DEF KeepsGauges
  <2>6. QED
    BY <2>4, <2>5 DEF Next, Chat, Memory, vars, chatVars
<1>3. QED
  BY <1>1, <1>2, Streams, PTL DEF Spec

\* The gauges are the number of streams on the way, HTTP responses never iterated
\* included; a stream is counted at most once, and not before it ends.
THEOREM GaugesAddUp == Spec => []MetricsAddUp
<1>1. StreamsInv /\ GaugesInv => MetricsAddUp
  <2> SUFFICES ASSUME StreamsInv, GaugesInv PROVE MetricsAddUp
    OBVIOUS
  <2>1. {r \in Requests : Source(r) = "http" /\ (Streaming(r) \/ req[r].at = "dropped")}
          = HttpStreams
    BY DEF HttpStreams, OnHttp, Live, Source, Streaming, InGraph
  <2>2. {r \in Requests : Source(r) = "grpc" /\ Streaming(r)} = GrpcStreams
    BY DEF GrpcStreams, OnGrpc, Live, Source, Streaming, InGraph
  <2>3. \A r \in Requests : req[r].counted <= 1 /\ (Streaming(r) => req[r].counted = 0)
    BY RequestIs DEF Consistent, Streaming, InGraph
  <2>4. QED
    BY <2>1, <2>2, <2>3 DEF MetricsAddUp, GaugesInv, GaugeInv
<1>2. QED
  BY <1>1, Streams, Gauges, PTL

-----------------------------------------------------------------------------
(* The queue and the worker.                                                *)

WorkerTyped ==
  /\ worker \in [at : {"idle", "delivered", "extract", "store", "done"},
                 task : Tasks \cup {None}, last : Requests \cup {None},
                 shown : SUBSET Requests, found : SUBSET Requests]
  /\ worker.found \subseteq worker.shown

MemoryTyped ==
  /\ mq \in Seq(Tasks) /\ WorkerTyped
  /\ facts \in [Requests -> Nat]
  /\ dlq \subseteq Tasks /\ acked \subseteq Tasks
  /\ crashes \in 0..MaxCrashes

\* No task is in the queue twice.
Distinct(s) == \A i, j \in 1..Len(s) : s[i] = s[j] => i = j

LEMMA RestingTyped ==
  /\ Resting \in [at : {"idle", "delivered", "extract", "store", "done"},
                  task : Tasks \cup {None}, last : Requests \cup {None},
                  shown : SUBSET Requests, found : SUBSET Requests]
  /\ Resting.at = "idle" /\ Resting.task = None /\ Resting.last = None
  /\ Resting.shown = {} /\ Resting.found = {}
BY DEF Resting

LEMMA MembersOf ==
  ASSUME NEW T, NEW s \in Seq(T)
  PROVE  ToSet(s) = {s[i] : i \in 1..Len(s)}
BY DEF ToSet

LEMMA QueueJoin ==
  ASSUME NEW T, NEW s \in Seq(T), NEW x \in T
  PROVE  /\ Append(s, x) \in Seq(T) /\ ToSet(Append(s, x)) = ToSet(s) \cup {x}
         /\ Distinct(s) /\ x \notin ToSet(s) => Distinct(Append(s, x))
<1> DEFINE n == Append(s, x)
<1>1. /\ n \in Seq(T) /\ Len(n) = Len(s) + 1 /\ n[Len(n)] = x /\ Len(s) \in Nat
      /\ \A i \in 1..Len(s) : n[i] = s[i]
  OBVIOUS
<1>2. ToSet(n) = {n[i] : i \in 1..Len(n)} /\ ToSet(s) = {s[i] : i \in 1..Len(s)}
  BY <1>1, MembersOf
<1> HIDE DEF n
<1>3. \A i \in 1..Len(n) : i \in 1..Len(s) \/ i = Len(n)
  BY <1>1
<1>4. 1..Len(s) \subseteq 1..Len(n) /\ Len(n) \in 1..Len(n)
  BY <1>1
<1>5. ToSet(n) = ToSet(s) \cup {x}
  <2>1. ToSet(n) \subseteq ToSet(s) \cup {x}
    BY <1>1, <1>2, <1>3
  <2>2. ToSet(s) \cup {x} \subseteq ToSet(n)
    BY <1>1, <1>2, <1>4
  <2>3. QED
    BY <2>1, <2>2
<1>6. ASSUME Distinct(s), x \notin ToSet(s) PROVE Distinct(n)
  BY <1>1, <1>2, <1>3, <1>6 DEF Distinct
<1>7. QED
  BY <1>1, <1>5, <1>6 DEF n

LEMMA QueueLeave ==
  ASSUME NEW T, NEW s \in Seq(T), s # <<>>, Distinct(s)
  PROVE  /\ Tail(s) \in Seq(T) /\ Head(s) \in T /\ Distinct(Tail(s))
         /\ Head(s) \notin ToSet(Tail(s)) /\ ToSet(s) = ToSet(Tail(s)) \cup {Head(s)}
<1> DEFINE n == Tail(s)
           h == Head(s)
<1>1. /\ n \in Seq(T) /\ h \in T /\ Len(s) \in Nat /\ Len(s) >= 1 /\ Len(n) = Len(s) - 1
      /\ h = s[1] /\ \A i \in 1..Len(n) : n[i] = s[i + 1]
  OBVIOUS
<1>2. ToSet(n) = {n[i] : i \in 1..Len(n)} /\ ToSet(s) = {s[i] : i \in 1..Len(s)}
  BY <1>1, MembersOf
<1> HIDE DEF n, h
<1>3. \A i \in 1..Len(n) : i + 1 \in 1..Len(s) /\ i + 1 # 1
  BY <1>1
<1>4. \A i \in 1..Len(s) : i = 1 \/ (i - 1 \in 1..Len(n) /\ s[i] = n[i - 1])
  BY <1>1
<1>5. 1 \in 1..Len(s)
  BY <1>1
<1>6. Distinct(n)
  BY <1>1, <1>3 DEF Distinct
<1>7. h \notin ToSet(n)
  BY <1>1, <1>2, <1>3, <1>5 DEF Distinct
<1>8. ToSet(s) = ToSet(n) \cup {h}
  <2>1. ASSUME NEW i \in 1..Len(s) PROVE s[i] \in ToSet(n) \cup {h}
    <3>1. CASE i = 1
      BY <1>1, <3>1
    <3>2. CASE i - 1 \in 1..Len(n) /\ s[i] = n[i - 1]
      BY <1>2, <3>2
    <3>3. QED
      BY <1>4, <3>1, <3>2
  <2>2. ToSet(n) \cup {h} \subseteq ToSet(s)
    BY <1>1, <1>2, <1>3, <1>5
  <2>3. QED
    BY <1>2, <2>1, <2>2
<1>9. QED
  BY <1>1, <1>6, <1>7, <1>8 DEF n, h

LEMMA QueueReturn ==
  ASSUME NEW T, NEW s \in Seq(T), NEW x \in T, Distinct(s), x \notin ToSet(s)
  PROVE  /\ <<x>> \o s \in Seq(T) /\ ToSet(<<x>> \o s) = ToSet(s) \cup {x}
         /\ Distinct(<<x>> \o s)
<1> DEFINE n == <<x>> \o s
<1>1. /\ n \in Seq(T) /\ Len(n) = Len(s) + 1 /\ n[1] = x /\ Len(s) \in Nat
      /\ \A i \in 1..Len(s) : n[i + 1] = s[i]
  OBVIOUS
<1> HIDE DEF n
<1>2. ToSet(n) = {n[i] : i \in 1..Len(n)} /\ ToSet(s) = {s[i] : i \in 1..Len(s)}
  BY <1>1, MembersOf
<1>3. \A i \in 1..Len(n) : i = 1 \/ (i - 1 \in 1..Len(s) /\ n[i] = s[i - 1])
  BY <1>1
<1>4. 1 \in 1..Len(n) /\ \A i \in 1..Len(s) : i + 1 \in 1..Len(n)
  BY <1>1
<1>5. ToSet(n) = ToSet(s) \cup {x}
  <2>1. ToSet(n) \subseteq ToSet(s) \cup {x}
    BY <1>1, <1>2, <1>3
  <2>2. ToSet(s) \cup {x} \subseteq ToSet(n)
    BY <1>1, <1>2, <1>4
  <2>3. QED
    BY <2>1, <2>2
<1>6. Distinct(n)
  <2> SUFFICES ASSUME NEW i \in 1..Len(n), NEW j \in 1..Len(n), n[i] = n[j] PROVE i = j
    BY DEF Distinct
  <2>1. \A k \in 1..Len(s) : s[k] # x
    BY <1>2
  <2>2. CASE i = 1 \/ j = 1
    BY <1>1, <1>3, <2>1, <2>2
  <2>3. CASE i # 1 /\ j # 1
    <3>1. i - 1 = j - 1
      BY <1>3, <2>3 DEF Distinct
    <3>2. QED
      BY <3>1
  <2>4. QED
    BY <2>2, <2>3
<1>7. QED
  BY <1>1, <1>5, <1>6 DEF n

\* Every published task, wherever it is.
Everywhere == Pending \cup dlq \cup acked

MemInv == MemoryTyped /\ TaskInv /\ ReadInv /\ FactsInv

LEMMA WorkerIs ==
  ASSUME MemInv
  PROVE  /\ worker.at \in {"idle", "delivered", "extract", "store", "done"}
         /\ worker.at # "idle" => worker.task \in Tasks
         /\ worker.at = "idle" => worker.task = None
         /\ worker.shown \subseteq Requests /\ worker.found \subseteq worker.shown
         /\ None \notin Tasks
BY Constants DEF MemInv, MemoryTyped, WorkerTyped, ReadInv

\* A task in hand is that of a finished turn of a registered user's thread.
LEMMA HandIs ==
  ASSUME StreamsInv, MemInv, worker.at # "idle"
  PROVE  /\ worker.task \in Tasks /\ worker.task.turn \in Requests
         /\ worker.task.thread \in HttpThreads \cup HubThreads
         /\ req[worker.task.turn].final /\ req[worker.task.turn].thread = worker.task.thread
         /\ worker.task \notin ToSet(mq) \cup dlq \cup acked
<1>1. worker.task \in Tasks /\ worker.task # None
  BY WorkerIs
<1>2. worker.task.turn \in Requests /\ worker.task.thread \in Threads
  BY <1>1 DEF Tasks
<1>3. worker.task \in Pending
  BY <1>1 DEF Pending
<1>4. /\ req[worker.task.turn].task = "published"
      /\ req[worker.task.turn].thread = worker.task.thread
      /\ worker.task \notin ToSet(mq) \cup dlq \cup acked
  BY <1>1, <1>3 DEF MemInv, TaskInv
<1>5. /\ req[worker.task.turn].final /\ req[worker.task.turn].thread \notin AnonThreads
  BY <1>2, <1>4, RequestIs DEF Consistent
<1>6. QED
  BY <1>1, <1>2, <1>4, <1>5 DEF Threads

\* A settling step of the worker: the task in hand goes to one other place.
LEMMA RestSteps ==
  ASSUME StreamsInv, MemInv, worker.at # "idle", worker' = Resting,
         req' = req, facts' = facts,
         \/ mq' = <<worker.task>> \o mq /\ UNCHANGED <<dlq, acked>> /\ crashes' = crashes + 1
            /\ crashes < MaxCrashes
         \/ dlq' = dlq \cup {worker.task} /\ UNCHANGED <<mq, acked, crashes>>
            /\ worker.at = "delivered"
         \/ acked' = acked \cup {worker.task} /\ UNCHANGED <<mq, dlq, crashes>>
            /\ worker.at = "done"
  PROVE  MemInv'
<1> DEFINE t == worker.task
<1>1. /\ t \in Tasks /\ t # None /\ t \notin ToSet(mq) \cup dlq \cup acked
      /\ mq \in Seq(Tasks) /\ Distinct(mq) /\ crashes \in Nat /\ MaxCrashes \in Nat
      /\ dlq \subseteq Tasks /\ acked \subseteq Tasks /\ None \notin Tasks
  BY HandIs, WorkerIs, MemoryAssumption DEF MemInv, MemoryTyped, TaskInv, Distinct
<1>1a. ToSet(mq) \subseteq Tasks
  BY <1>1, MembersOf
<1>1b. /\ ToSet(mq) \cap (dlq \cup acked) = {} /\ dlq \cap acked = {}
       /\ \A u \in Tasks : u \in Pending \cup dlq \cup acked
                          <=> req[u.turn].task = "published" /\ req[u.turn].thread = u.thread
  BY DEF MemInv, TaskInv
<1> HIDE DEF t
<1>2. /\ worker'.at = "idle" /\ worker'.task = None
      /\ worker'.shown = {} /\ worker'.found = {} /\ WorkerTyped'
  BY RestingTyped DEF WorkerTyped
<1>3. CASE mq' = <<t>> \o mq /\ UNCHANGED <<dlq, acked>> /\ crashes' = crashes + 1
           /\ crashes < MaxCrashes
  <2>1. mq' \in Seq(Tasks) /\ ToSet(mq') = ToSet(mq) \cup {t} /\ Distinct(mq')
    BY <1>1, <1>3, QueueReturn
  <2>2. MemoryTyped'
    BY <1>1, <1>2, <1>3, <2>1 DEF MemInv, MemoryTyped
  <2>3. TaskInv'
    <3>1. Pending' = Pending
      BY <1>1, <1>2, <2>1 DEF Pending, t
    <3>2. worker'.task \notin ToSet(mq') \cup dlq' \cup acked'
      BY <1>1, <1>1a, <1>2, <1>3, <2>1
    <3>3. ToSet(mq') \cap (dlq' \cup acked') = {} /\ dlq' \cap acked' = {}
      BY <1>1, <1>1b, <1>3, <2>1
    <3>4. \A i, j \in 1..Len(mq') : mq'[i] = mq'[j] => i = j
      BY <2>1 DEF Distinct
    <3>5. \A u \in Tasks : u \in Pending' \cup dlq' \cup acked'
                          <=> req'[u.turn].task = "published" /\ req'[u.turn].thread = u.thread
      BY <1>1b, <1>3, <3>1
    <3>6. QED
      BY <3>2, <3>3, <3>4, <3>5 DEF TaskInv
  <2>4. FactsInv'
    <3>1. IsFiniteSet(acked) /\ acked' = acked
      BY <1>3 DEF MemInv, FactsInv
    <3>2. ASSUME NEW r \in Requests, facts[r] > 0
          PROVE  /\ req[r].thread \in HttpThreads \cup HubThreads
                 /\ facts[r] <= Cardinality({a \in acked : a.thread = req[r].thread}) + crashes + 1
      <4>1. Cardinality({a \in acked : a.thread = req[r].thread}) \in Nat
        BY <3>1, FS_Subset, FS_CardinalityType
      <4>2. facts[r] \in Nat
        BY DEF MemInv, MemoryTyped
      <4>3. QED
        BY <1>1, <3>2, <4>1, <4>2 DEF MemInv, FactsInv
    <3>3. ASSUME NEW r \in Requests, facts[r] > 0
          PROVE  facts[r] <= Cardinality({a \in acked : a.thread = req[r].thread}) + (crashes + 1) + 0
      <4>1. Cardinality({a \in acked : a.thread = req[r].thread}) \in Nat
        BY <3>1, FS_Subset, FS_CardinalityType
      <4>2. facts[r] \in Nat
        BY DEF MemInv, MemoryTyped
      <4>3. QED
        BY <1>1, <3>2, <3>3, <4>1, <4>2
    <3>4. QED
      BY <1>2, <1>3, <3>1, <3>2, <3>3 DEF FactsInv
  <2>5. ReadInv'
    BY <1>2 DEF ReadInv
  <2>6. QED
    BY <2>2, <2>3, <2>4, <2>5 DEF MemInv
<1>4. CASE dlq' = dlq \cup {t} /\ UNCHANGED <<mq, acked, crashes>> /\ worker.at = "delivered"
  <2>1. MemoryTyped'
    BY <1>1, <1>2, <1>4 DEF MemInv, MemoryTyped
  <2>2. TaskInv'
    <3>1. (Pending \cup dlq \cup acked)' = Pending \cup dlq \cup acked
      BY <1>1, <1>2, <1>4 DEF Pending, t
    <3>2. worker'.task \notin ToSet(mq') \cup dlq' \cup acked'
      BY <1>1, <1>1a, <1>2, <1>4
    <3>3. ToSet(mq') \cap (dlq' \cup acked') = {} /\ dlq' \cap acked' = {}
      BY <1>1, <1>1b, <1>4
    <3>4. \A i, j \in 1..Len(mq') : mq'[i] = mq'[j] => i = j
      BY <1>1, <1>4 DEF Distinct
    <3>5. \A u \in Tasks : u \in Pending' \cup dlq' \cup acked'
                          <=> req'[u.turn].task = "published" /\ req'[u.turn].thread = u.thread
      BY <1>1b, <1>4, <3>1
    <3>6. QED
      BY <3>2, <3>3, <3>4, <3>5 DEF TaskInv
  <2>3. FactsInv'
    BY <1>2, <1>4 DEF MemInv, FactsInv
  <2>4. ReadInv'
    BY <1>2 DEF ReadInv
  <2>5. QED
    BY <2>1, <2>2, <2>3, <2>4 DEF MemInv
<1>5. CASE acked' = acked \cup {t} /\ UNCHANGED <<mq, dlq, crashes>> /\ worker.at = "done"
  <2>1. MemoryTyped'
    BY <1>1, <1>2, <1>5 DEF MemInv, MemoryTyped
  <2>2. TaskInv'
    <3>1. (Pending \cup dlq \cup acked)' = Pending \cup dlq \cup acked
      BY <1>1, <1>2, <1>5 DEF Pending, t
    <3>2. worker'.task \notin ToSet(mq') \cup dlq' \cup acked'
      BY <1>1, <1>1a, <1>2, <1>5
    <3>3. ToSet(mq') \cap (dlq' \cup acked') = {} /\ dlq' \cap acked' = {}
      BY <1>1, <1>1b, <1>5
    <3>4. \A i, j \in 1..Len(mq') : mq'[i] = mq'[j] => i = j
      BY <1>1, <1>5 DEF Distinct
    <3>5. \A u \in Tasks : u \in Pending' \cup dlq' \cup acked'
                          <=> req'[u.turn].task = "published" /\ req'[u.turn].thread = u.thread
      BY <1>1b, <1>5, <3>1
    <3>6. QED
      BY <3>2, <3>3, <3>4, <3>5 DEF TaskInv
  <2>3. FactsInv'
    <3>1. IsFiniteSet(acked) /\ IsFiniteSet(acked')
      BY <1>5, FS_AddElement DEF MemInv, FactsInv
    <3>2. ASSUME NEW r \in Requests, facts[r] > 0
          PROVE  /\ req[r].thread \in HttpThreads \cup HubThreads
                 /\ facts[r] <= Cardinality({a \in acked' : a.thread = req[r].thread}) + crashes + 0
      <4> DEFINE S == {a \in acked : a.thread = req[r].thread}
                 Sp == {a \in acked' : a.thread = req[r].thread}
      <4>1. IsFiniteSet(S) /\ Cardinality(S) \in Nat
        BY <3>1, FS_Subset, FS_CardinalityType
      <4>2. Cardinality(Sp) = Cardinality(S) + (IF t.thread = req[r].thread THEN 1 ELSE 0)
        <5>1. CASE t.thread = req[r].thread
          <6>1. Sp = S \cup {t} /\ t \notin S
            BY <1>1, <1>5, <5>1
          <6> HIDE DEF S, Sp
          <6>2. Cardinality(Sp) = Cardinality(S) + 1
            BY <4>1, <6>1, JoinOrLeave
          <6>3. QED
            BY <5>1, <6>2
        <5>2. CASE t.thread # req[r].thread
          <6>1. Sp = S
            BY <1>5, <5>2
          <6> HIDE DEF S, Sp
          <6>2. QED
            BY <4>1, <5>2, <6>1
        <5>3. QED
          BY <5>1, <5>2
      <4>3. /\ req[r].thread \in HttpThreads \cup HubThreads
            /\ facts[r] <= Cardinality(S) + crashes + (IF t.thread = req[r].thread THEN 1 ELSE 0)
        <5>1. facts[r] \in Nat
          BY DEF MemInv, MemoryTyped
        <5>2. QED
          BY <1>1, <1>5, <3>2, <4>1, <5>1 DEF MemInv, FactsInv, t
      <4> HIDE DEF S, Sp
      <4>4. facts[r] <= Cardinality(Sp) + crashes + 0
        <5>1. facts[r] \in Nat
          BY DEF MemInv, MemoryTyped
        <5>2. QED
          BY <1>1, <4>1, <4>2, <4>3, <5>1
      <4>5. QED
        BY <4>3, <4>4 DEF Sp
    <3>3. QED
      BY <1>2, <1>5, <3>1, <3>2 DEF FactsInv
  <2>4. ReadInv'
    BY <1>2 DEF ReadInv
  <2>5. QED
    BY <2>1, <2>2, <2>3, <2>4 DEF MemInv
<1>6. QED
  BY <1>3, <1>4, <1>5 DEF t

\* The worker moves on with its delivery.
LEMMA DeliverStep ==
  ASSUME StreamsInv, MemInv, Deliver, req' = req
  PROVE  MemInv'
<1> DEFINE t == Head(mq)
<1>1. /\ worker.at = "idle" /\ worker.task = None /\ mq # <<>> /\ mq \in Seq(Tasks) /\ Distinct(mq)
      /\ mq' = Tail(mq) /\ worker' = [Resting EXCEPT !.at = "delivered", !.task = t]
      /\ UNCHANGED <<facts, dlq, acked, crashes>>
  BY WorkerIs DEF Deliver, MemInv, MemoryTyped, TaskInv, Distinct
<1>2. /\ mq' \in Seq(Tasks) /\ t \in Tasks /\ Distinct(mq')
      /\ t \notin ToSet(mq') /\ ToSet(mq) = ToSet(mq') \cup {t}
  BY <1>1, QueueLeave
<1>3. /\ worker'.at = "delivered" /\ worker'.task = t /\ worker'.last = None
      /\ worker'.shown = {} /\ worker'.found = {} /\ WorkerTyped'
  BY <1>1, <1>2, RestingTyped DEF WorkerTyped
<1> HIDE DEF t
<1>4. None \notin Tasks /\ t # None
  BY <1>2, Constants
<1>5. MemoryTyped'
  BY <1>1, <1>2, <1>3 DEF MemInv, MemoryTyped
<1>6. TaskInv'
  <2>1. ToSet(mq) \cap (dlq \cup acked) = {} /\ dlq \cap acked = {}
    BY DEF MemInv, TaskInv
  <2>2. Pending' = Pending
    BY <1>1, <1>2, <1>3, <1>4 DEF Pending
  <2>3. \A u \in Tasks : u \in Pending' \cup dlq' \cup acked'
                          <=> req'[u.turn].task = "published" /\ req'[u.turn].thread = u.thread
    BY <1>1, <2>2 DEF MemInv, TaskInv
  <2>4. \A i, j \in 1..Len(mq') : mq'[i] = mq'[j] => i = j
    BY <1>2 DEF Distinct
  <2>5. QED
    BY <1>1, <1>2, <1>3, <2>1, <2>3, <2>4 DEF TaskInv
<1>7. ReadInv'
  BY <1>3, <1>4 DEF ReadInv
<1>8. FactsInv'
  BY <1>1, <1>3 DEF MemInv, FactsInv
<1>9. QED
  BY <1>5, <1>6, <1>7, <1>8 DEF MemInv

\* The tasks stay where they are while the worker reads and stores.
LEMMA HandStays ==
  ASSUME MemInv, UNCHANGED <<mq, dlq, acked>>, worker'.task = worker.task,
         \A u \in Tasks : (req'[u.turn].task = "published" /\ req'[u.turn].thread = u.thread)
                          <=> (req[u.turn].task = "published" /\ req[u.turn].thread = u.thread)
  PROVE  TaskInv'
<1>1. Pending' = Pending
  BY DEF Pending
<1>2. QED
  BY <1>1 DEF MemInv, TaskInv

\* What the window shows of a history whose latest prompt is the k-th message.
LEMMA ShownIs ==
  ASSUME NEW ms \in Seq(Message), NEW k, Latest(ms, k), NEW r \in Requests
  PROVE  /\ r \in Prompted(ms) => \E i \in 1..Len(ms) : ms[i] = Human(r)
         /\ ms[k] = Human(r) /\ Len(ms) <= k + 3 => r \in Prompted(ms)
<1> DEFINE n == Len(ms)
           f == IF n > 4 THEN n - 3 ELSE 1
           w == SubSeq(ms, f, n)
<1>1. k \in 1..n /\ n \in Nat /\ f \in 1..n /\ (n > 4 => f = n - 3) /\ (n <= 4 => f = 1)
  BY DEF Latest
<1>2. Windowed(ms) = w
  BY <1>1 DEF Windowed, Window
<1> HIDE DEF f
<1>3. /\ w \in Seq(Message) /\ Len(w) = n - f + 1
      /\ \A i \in 1..(n - f + 1) : w[i] = ms[f + i - 1]
  BY <1>1
<1> HIDE DEF w, n
<1>4. ASSUME NEW i \in 1..Len(w) PROVE f + i - 1 \in 1..n /\ w[i] = ms[f + i - 1]
  BY <1>1, <1>3
<1>5. ASSUME n <= k + 3 PROVE k - f + 1 \in 1..Len(w) /\ w[k - f + 1] = ms[k]
  <2>1. f <= k /\ k - f + 1 \in 1..(n - f + 1) /\ f + (k - f + 1) - 1 = k
    BY <1>1, <1>5
  <2>2. QED
    BY <1>3, <2>1
<1>6. r \in Prompted(ms) <=> \E i \in 1..Len(w) : w[i] = Human(r)
  BY <1>2 DEF Prompted, Contains
<1>7. QED
  BY <1>4, <1>5, <1>6 DEF n

LEMMA ReadStep ==
  ASSUME StreamsInv, HistInv, MemInv, ReadCheckpoint, req' = req
  PROVE  MemInv'
<1> DEFINE t == worker.task
           ms == history[t.thread]
           r == t.turn
<1>1. /\ t \in Tasks /\ t # None /\ r \in Requests /\ t.thread \in HttpThreads \cup HubThreads
      /\ req[r].final /\ req[r].thread = t.thread
  BY HandIs, WorkerIs DEF ReadCheckpoint
<1>2. t.thread \in Threads /\ t.thread \notin AnonThreads
  BY <1>1, Constants
<1>3. ms \in Seq(Message) /\ ms # <<>> /\ Proper(ms, t.thread, req)
  BY <1>1, <1>2 DEF StreamsInv, HistInv, HistoryInv, ReplyInv
<1>4. /\ worker.at = "delivered" /\ UNCHANGED <<mq, facts, dlq, acked, crashes>>
      /\ worker' = [worker EXCEPT !.at = "extract", !.shown = Prompted(ms),
                                  !.last = ms[LastHuman(ms)].turn]
  BY <1>3 DEF ReadCheckpoint, shared
<1>5. /\ worker \in [at : {"idle", "delivered", "extract", "store", "done"},
                     task : Tasks \cup {None}, last : Requests \cup {None},
                     shown : SUBSET Requests, found : SUBSET Requests]
      /\ worker.found \subseteq worker.shown /\ worker.shown = {}
  BY <1>4 DEF MemInv, MemoryTyped, WorkerTyped, ReadInv
<1> HIDE DEF ms
<1>6. PICK k \in 1..Len(ms) : Latest(ms, k)
  BY <1>3 DEF Proper
<1>7. LastHuman(ms) = k /\ ms[k] \in Message /\ ms[k].turn \in Requests
      /\ ms[k] = Human(ms[k].turn)
  <2>1. LastHuman(ms) = k
    BY <1>3, <1>6, LastHumanIs
  <2>2. ms[k] \in Message /\ ms[k].type = "human"
    BY <1>3, <1>6 DEF Latest
  <2>3. QED
    BY <2>1, <2>2 DEF Message, Human
<1>8. Prompted(ms) \subseteq Requests
  BY DEF Prompted
<1>9. /\ worker'.at = "extract" /\ worker'.task = t /\ worker'.shown = Prompted(ms)
      /\ worker'.last = ms[k].turn /\ worker'.found = {} /\ WorkerTyped'
  BY <1>4, <1>5, <1>7, <1>8 DEF WorkerTyped
<1>10. MemoryTyped'
  BY <1>4, <1>9 DEF MemInv, MemoryTyped
<1>11. TaskInv'
  BY <1>4, <1>9, HandStays
<1>12. FactsInv'
  BY <1>4, <1>9 DEF MemInv, FactsInv
<1>13. ReadInv'
  <2>1. ASSUME NEW s \in Prompted(ms) PROVE req[s].thread = t.thread
    <3>1. PICK i \in 1..Len(ms) : ms[i] = Human(s)
      BY <1>3, <1>6, <1>8, <2>1, ShownIs
    <3>2. ms[i].turn = s
      BY <1>8, <2>1, <3>1, MessageIs
    <3>3. QED
      BY <1>3, <3>2 DEF Proper
  <2>2. ASSUME ms[k].turn = r, ~req[r].overlapped, req[r].drafts <= 2 PROVE r \in Prompted(ms)
    <3>1. Short(ms, r, req[r].drafts)
      BY <1>1, <1>2, <2>2 DEF HistInv, KeptInv, Settled, ms
    <3>2. Len(ms) <= k + req[r].drafts + 1
      BY <1>6, <1>7, <2>2, <3>1 DEF Short
    <3>3. req[r].drafts \in Nat /\ Len(ms) \in Nat
      BY <1>1, <1>3, RequestIs, Constants DEF Request
    <3>4. Len(ms) <= k + 3
      BY <2>2, <3>2, <3>3
    <3>5. QED
      BY <1>1, <1>3, <1>6, <1>7, <2>2, <3>4, ShownIs
  <2>3. ms[k].turn # None
    BY <1>7, Constants
  <2>4. QED
    BY <1>1, <1>9, <2>1, <2>2, <2>3 DEF ReadInv
<1>14. QED
  BY <1>10, <1>11, <1>12, <1>13 DEF MemInv

LEMMA ExtractStep ==
  ASSUME StreamsInv, MemInv, Extract, req' = req
  PROVE  MemInv'
<1>1. PICK found \in SUBSET worker.shown :
        worker' = [worker EXCEPT !.at = IF found = {} THEN "done" ELSE "store", !.found = found]
  BY DEF Extract
<1>2. worker.at = "extract" /\ UNCHANGED <<mq, facts, dlq, acked, crashes>>
  BY DEF Extract, shared
<1>3. /\ worker' \in [at : {"idle", "delivered", "extract", "store", "done"},
                      task : Tasks \cup {None}, last : Requests \cup {None},
                      shown : SUBSET Requests, found : SUBSET Requests]
      /\ worker'.at \in {"store", "done"} /\ worker'.task = worker.task
      /\ worker'.shown = worker.shown /\ worker'.last = worker.last /\ worker'.found = found
  BY <1>1 DEF MemInv, MemoryTyped, WorkerTyped
<1>4. MemoryTyped'
  BY <1>1, <1>2, <1>3 DEF MemInv, MemoryTyped, WorkerTyped
<1>5. TaskInv'
  BY <1>2, <1>3, HandStays
<1>6. ReadInv'
  BY <1>2, <1>3 DEF MemInv, ReadInv
<1>7. FactsInv'
  <2>1. IsFiniteSet(acked')
    BY <1>2 DEF MemInv, FactsInv
  <2>2. ASSUME NEW r \in Requests, facts'[r] > 0
        PROVE  /\ req'[r].thread \in HttpThreads \cup HubThreads
               /\ facts'[r] <= Cardinality({t \in acked' : t.thread = req'[r].thread}) + crashes'
                    + (IF worker'.at \in {"store", "done"} /\ worker'.task.thread = req'[r].thread
                          /\ r \notin worker'.found THEN 1 ELSE 0)
    <3> DEFINE S == {t \in acked : t.thread = req[r].thread}
    <3>1. Cardinality(S) \in Nat /\ facts[r] \in Nat /\ crashes \in Nat
      BY FS_Subset, FS_CardinalityType, MemoryAssumption DEF MemInv, FactsInv, MemoryTyped
    <3>2. req[r].thread \in HttpThreads \cup HubThreads /\ facts[r] <= Cardinality(S) + crashes
      BY <1>2, <2>2, <3>1 DEF MemInv, FactsInv
    <3>3. S = {t \in acked' : t.thread = req'[r].thread}
      BY <1>2
    <3> HIDE DEF S
    <3>4. QED
      BY <1>2, <3>1, <3>2, <3>3
  <2>3. QED
    BY <2>1, <2>2 DEF FactsInv
<1>8. QED
  BY <1>4, <1>5, <1>6, <1>7 DEF MemInv

LEMMA AddFactStep ==
  ASSUME StreamsInv, MemInv, AddFact, req' = req
  PROVE  MemInv'
<1>1. PICK f \in worker.found :
        /\ facts' = facts \/ facts' = [facts EXCEPT ![f] = @ + 1]
        /\ worker' = [worker EXCEPT !.found = @ \ {f},
                        !.at = IF worker.found = {f} THEN "done" ELSE @]
  BY DEF AddFact, StoreFact
<1>2. worker.at = "store" /\ UNCHANGED <<mq, dlq, acked, crashes>>
  BY DEF AddFact, shared
<1>3. /\ worker' \in [at : {"idle", "delivered", "extract", "store", "done"},
                      task : Tasks \cup {None}, last : Requests \cup {None},
                      shown : SUBSET Requests, found : SUBSET Requests]
      /\ worker'.at \in {"store", "done"} /\ worker'.task = worker.task
      /\ worker'.shown = worker.shown /\ worker'.last = worker.last
      /\ worker'.found = worker.found \ {f}
  BY <1>1, <1>2 DEF MemInv, MemoryTyped, WorkerTyped
<1>4. /\ f \in Requests /\ f \in worker.shown /\ facts \in [Requests -> Nat]
      /\ facts' \in [Requests -> Nat]
  BY <1>1, WorkerIs DEF MemInv, MemoryTyped
<1>5. MemoryTyped'
  BY <1>2, <1>3, <1>4 DEF MemInv, MemoryTyped, WorkerTyped
<1>6. TaskInv'
  BY <1>2, <1>3, HandStays
<1>7. ReadInv'
  BY <1>2, <1>3 DEF MemInv, ReadInv
<1>8. req[f].thread = worker.task.thread /\ worker.task.thread \in HttpThreads \cup HubThreads
  BY <1>2, <1>4, HandIs DEF MemInv, ReadInv
<1>9. FactsInv'
  <2>1. IsFiniteSet(acked')
    BY <1>2 DEF MemInv, FactsInv
  <2>2. ASSUME NEW r \in Requests, facts'[r] > 0
        PROVE  /\ req'[r].thread \in HttpThreads \cup HubThreads
               /\ facts'[r] <= Cardinality({t \in acked' : t.thread = req'[r].thread}) + crashes'
                    + (IF worker'.at \in {"store", "done"} /\ worker'.task.thread = req'[r].thread
                          /\ r \notin worker'.found THEN 1 ELSE 0)
    <3> DEFINE S == {t \in acked : t.thread = req[r].thread}
    <3>1. Cardinality(S) \in Nat /\ facts[r] \in Nat /\ crashes \in Nat
      BY FS_Subset, FS_CardinalityType, MemoryAssumption DEF MemInv, FactsInv, MemoryTyped
    <3>2. facts[r] > 0 => /\ req[r].thread \in HttpThreads \cup HubThreads
                          /\ facts[r] <= Cardinality(S) + crashes
                               + (IF worker.task.thread = req[r].thread /\ r \notin worker.found
                                  THEN 1 ELSE 0)
      BY <1>2 DEF MemInv, FactsInv
    <3>3. S = {t \in acked' : t.thread = req'[r].thread}
      BY <1>2
    <3> HIDE DEF S
    <3>4. CASE r = f
      <4>1. facts'[r] <= facts[r] + 1
        BY <1>1, <1>4, <3>1, <3>4
      <4>2. facts[r] <= Cardinality(S) + crashes
        BY <1>1, <3>1, <3>2, <3>4
      <4>3. r \notin worker'.found /\ facts'[r] \in Nat
        BY <1>3, <1>4, <3>4
      <4>4. QED
        BY <1>2, <1>3, <1>8, <3>1, <3>3, <3>4, <4>1, <4>2, <4>3
    <3>5. CASE r # f
      <4>1. facts'[r] = facts[r]
        BY <1>1, <1>4, <3>5
      <4>2. r \in worker.found <=> r \in worker'.found
        BY <1>3, <3>5
      <4>3. QED
        BY <1>2, <1>3, <2>2, <3>1, <3>2, <3>3, <4>1, <4>2
    <3>6. QED
      BY <3>4, <3>5
  <2>3. QED
    BY <2>1, <2>2 DEF FactsInv
<1>10. QED
  BY <1>5, <1>6, <1>7, <1>9 DEF MemInv

\* The chat stream disturbs neither the worker nor what it read.
LEMMA ChatMemoryStep ==
  ASSUME StreamsInv, MemInv, Turned, UNCHANGED memoryVars,
         KeepsTasks \/ \E r \in Requests : Publishing(r)
  PROVE  MemInv'
<1>1. UNCHANGED <<worker, facts, dlq, acked, crashes>>
  BY DEF memoryVars
<1>2. \A s \in Requests : Consistent(req[s]) /\ Onward(req[s], req'[s])
  BY RequestIs DEF Turned
<1>3. \A s \in Requests : req[s].thread \in Threads => req'[s].thread = req[s].thread
  <2>1. \A s \in Requests : req[s].at = "new" => req[s].thread = None
    BY <1>2 DEF Consistent, NewRequest
  <2>2. QED
    BY <1>2, <2>1, Constants DEF Onward
<1>4. \A s \in Requests : req[s].task = "published" => req[s].thread \in Threads
  BY <1>2 DEF Consistent
<1>5. WorkerTyped' /\ facts' \in [Requests -> Nat] /\ dlq' \subseteq Tasks /\ acked' \subseteq Tasks
      /\ crashes' \in 0..MaxCrashes
  BY <1>1 DEF MemInv, MemoryTyped, WorkerTyped
<1>6. mq' \in Seq(Tasks) /\ TaskInv'
  <2>1. CASE KeepsTasks
    <3>1. \A u \in Tasks : u.turn \in Requests
      BY DEF Tasks
    <3>2. mq' = mq /\ TaskInv'
      BY <1>1, <1>3, <1>4, <2>1, <3>1, HandStays DEF KeepsTasks
    <3>3. QED
      BY <3>2 DEF MemInv, MemoryTyped
  <2>2. ASSUME NEW r \in Requests, Publishing(r) PROVE mq' \in Seq(Tasks) /\ TaskInv'
    <3> DEFINE x == Task(req[r].thread, r)
    <3>1. /\ x \in Tasks /\ x.turn = r /\ x.thread = req[r].thread /\ req[r].task # "published"
          /\ req[r].thread \in Threads /\ mq' = Append(mq, x) /\ mq \in Seq(Tasks) /\ Distinct(mq)
          /\ dlq \subseteq Tasks /\ acked \subseteq Tasks
      BY <2>2 DEF Publishing, Task, Tasks, MemInv, MemoryTyped, TaskInv, Distinct
    <3>2. \A u \in Tasks : u.turn \in Requests /\ (u.turn = r /\ u.thread = req[r].thread => u = x)
      BY DEF Tasks, Task
    <3> HIDE DEF x
    <3>3. x \notin Pending \cup dlq \cup acked
      BY <3>1 DEF MemInv, TaskInv
    <3>4. /\ mq' \in Seq(Tasks) /\ ToSet(mq') = ToSet(mq) \cup {x} /\ Distinct(mq')
      BY <3>1, <3>3, QueueJoin DEF Pending
    <3>5. Pending' = Pending \cup {x}
      BY <1>1, <3>4 DEF Pending
    <3>6. \A u \in Tasks : u \in Pending' \cup dlq' \cup acked'
                          <=> req'[u.turn].task = "published" /\ req'[u.turn].thread = u.thread
      <4>1. TAKE u \in Tasks
      <4>2. CASE u.turn = r
        BY <1>1, <2>2, <3>1, <3>2, <3>3, <3>5, <4>2 DEF MemInv, TaskInv, Publishing
      <4>3. CASE u.turn # r
        BY <1>1, <2>2, <3>1, <3>2, <3>5, <4>3 DEF MemInv, TaskInv, Publishing
      <4>4. QED
        BY <4>2, <4>3
    <3>7. x # worker.task
      <4>1. CASE worker.task = None
        BY <3>1, <4>1, Constants
      <4>2. CASE worker.task # None
        BY <3>3, <4>2 DEF Pending
      <4>3. QED
        BY <4>1, <4>2
    <3>8. worker'.task \notin ToSet(mq') \cup dlq' \cup acked'
      BY <1>1, <3>4, <3>7 DEF MemInv, TaskInv
    <3>9. ToSet(mq') \cap (dlq' \cup acked') = {} /\ dlq' \cap acked' = {}
      BY <1>1, <3>3, <3>4 DEF MemInv, TaskInv
    <3>10. \A i, j \in 1..Len(mq') : mq'[i] = mq'[j] => i = j
      BY <3>4 DEF Distinct
    <3>11. QED
      BY <3>4, <3>6, <3>8, <3>9, <3>10 DEF TaskInv
  <2>3. QED
    BY <2>1, <2>2
<1>7. ReadInv'
  <2>1. \A r \in worker.shown : req'[r].thread = worker.task.thread
    <3>1. TAKE r \in worker.shown
    <3>2. r \in Requests /\ worker.at # "idle" /\ req[r].thread = worker.task.thread
      BY WorkerIs DEF MemInv, ReadInv
    <3>3. req[r].thread \in Threads
      BY <3>2, HandIs, Constants
    <3>4. QED
      BY <1>3, <3>2, <3>3
  <2>2. ASSUME worker.at \in {"extract", "store", "done"}, worker.last = worker.task.turn,
               ~req'[worker.last].overlapped, req'[worker.last].drafts <= 2
        PROVE  worker.last \in worker.shown
    <3>1. worker.last \in Requests /\ req[worker.last].final
      BY <2>2, HandIs
    <3>2. ~req[worker.last].overlapped /\ req[worker.last].drafts <= 2
      BY <1>2, <2>2, <3>1 DEF Onward
    <3>3. QED
      BY <2>2, <3>2 DEF MemInv, ReadInv
  <2>3. QED
    BY <1>1, <2>1, <2>2 DEF MemInv, ReadInv
<1>8. FactsInv'
  <2>1. \A r \in Requests : facts[r] > 0 => req'[r].thread = req[r].thread
    BY <1>3, Constants DEF MemInv, FactsInv
  <2>2. QED
    BY <1>1, <2>1 DEF MemInv, FactsInv
<1>9. QED
  BY <1>5, <1>6, <1>7, <1>8 DEF MemInv, MemoryTyped

LEMMA MemoryInit0 ==
  ASSUME Init
  PROVE  MemInv
<1>1. /\ req = [r \in Requests |-> NewRequest] /\ mq = <<>> /\ worker = Resting
      /\ facts = [r \in Requests |-> 0] /\ dlq = {} /\ acked = {} /\ crashes = 0
  BY DEF Init, ChatInit, SharedInit, MemoryInit
<1>2. /\ mq \in Seq(Tasks) /\ Len(mq) = 0
  BY <1>1
<1>3. ToSet(mq) = {}
  <2>1. ToSet(mq) = {mq[i] : i \in 1..Len(mq)}
    BY <1>2, MembersOf
  <2>2. 1..Len(mq) = {}
    BY <1>2
  <2>3. QED
    BY <2>1, <2>2
<1>4. MemoryTyped
  BY <1>1, <1>2, RestingTyped, MemoryAssumption DEF MemoryTyped, WorkerTyped
<1>5. Pending = {} /\ worker.task = None
  BY <1>1, <1>3, RestingTyped DEF Pending
<1>6. TaskInv
  <2>1. \A u \in Tasks : req[u.turn].task = "none"
    BY <1>1 DEF Tasks, NewRequest
  <2>2. QED
    BY <1>1, <1>2, <1>3, <1>5, <2>1 DEF TaskInv
<1>7. ReadInv
  BY <1>1, RestingTyped DEF ReadInv
<1>8. FactsInv
  BY <1>1, FS_EmptySet DEF FactsInv
<1>9. QED
  BY <1>4, <1>6, <1>7, <1>8 DEF MemInv

\* The queue, the worker's hand, the dead letters and the acknowledged tasks are
\* apart, and what the worker read and stored is about its task's thread.
THEOREM MemoryIsSound == Spec => []MemInv
<1>1. Init => MemInv
  BY MemoryInit0
<1>2. StreamsInv /\ HistInv /\ MemInv /\ [Next]_vars => MemInv'
  <2> SUFFICES ASSUME StreamsInv, HistInv, MemInv, [Next]_vars PROVE MemInv'
    OBVIOUS
  <2>1. CASE Chat
    BY <2>1, ChatTurns, ChatMemoryStep DEF Chat
  <2>2. CASE Memory
    <3>1. req' = req
      BY <2>2 DEF Memory, chatVars
    <3>2. CASE Deliver \/ ReadCheckpoint \/ Extract \/ AddFact
      BY <3>1, <3>2, DeliverStep, ReadStep, ExtractStep, AddFactStep
    <3>3. CASE Acknowledge \/ Reject \/ Crash
      BY <3>1, <3>3, RestSteps DEF Acknowledge, Reject, Crash, Requeue, shared
    <3>4. QED
      BY <2>2, <3>2, <3>3 DEF Memory, MemoryStep, WorkerStep
  <2>3. CASE UNCHANGED vars
    <3>1. UNCHANGED <<req, mq, worker, facts, dlq, acked, crashes>>
      BY <2>3 DEF vars, shared, chatVars, memoryVars
    <3>2. TaskInv'
      BY <3>1, HandStays
    <3>3. QED
      BY <3>1, <3>2 DEF MemInv, MemoryTyped, WorkerTyped, ReadInv, FactsInv
  <2>4. QED
    BY <2>1, <2>2, <2>3 DEF Next
<1>3. QED
  BY <1>1, <1>2, Streams, PTL DEF Spec

\* A published task is in one place, and only there: queued, in the worker's hand,
\* dead-lettered or acknowledged; another task is nowhere.
THEOREM TasksAreConserved == Spec => []TaskConserved
<1>1. MemInv => TaskConserved
  <2> SUFFICES ASSUME MemInv, NEW t \in Tasks
               PROVE  Places(t) = IF req[t.turn].task = "published" /\ req[t.turn].thread = t.thread
                                  THEN 1 ELSE 0
    BY DEF TaskConserved
  <2> DEFINE I == {i \in 1..Len(mq) : mq[i] = t}
  <2>1. /\ mq \in Seq(Tasks) /\ Distinct(mq) /\ ToSet(mq) = {mq[i] : i \in 1..Len(mq)}
        /\ t # None
    BY MembersOf, Constants DEF MemInv, MemoryTyped, TaskInv, Distinct
  <2>2. Cardinality(I) = IF t \in ToSet(mq) THEN 1 ELSE 0
    <3>1. CASE t \in ToSet(mq)
      <4>1. PICK i \in 1..Len(mq) : mq[i] = t
        BY <2>1, <3>1
      <4>2. I = {i}
        BY <2>1, <4>1 DEF Distinct
      <4> HIDE DEF I
      <4>3. QED
        BY <3>1, <4>2, FS_Singleton
    <3>2. CASE t \notin ToSet(mq)
      <4>1. I = {}
        BY <2>1, <3>2
      <4> HIDE DEF I
      <4>2. QED
        BY <3>2, <4>1, FS_EmptySet
    <3>3. QED
      BY <3>1, <3>2
  <2>3. Places(t) = Cardinality(I) + (IF worker.task = t THEN 1 ELSE 0)
                    + (IF t \in dlq THEN 1 ELSE 0) + (IF t \in acked THEN 1 ELSE 0)
    BY DEF Places
  <2> HIDE DEF I
  <2>4. /\ worker.task \notin ToSet(mq) \cup dlq \cup acked
        /\ ToSet(mq) \cap (dlq \cup acked) = {} /\ dlq \cap acked = {}
        /\ t \in Pending \cup dlq \cup acked
             <=> req[t.turn].task = "published" /\ req[t.turn].thread = t.thread
    BY DEF MemInv, TaskInv
  <2>5. t \in Pending <=> t \in ToSet(mq) \/ worker.task = t
    BY <2>1 DEF Pending
  <2>6. QED
    BY <2>2, <2>3, <2>4, <2>5
<1>2. QED
  BY <1>1, MemoryIsSound, PTL

\* A task in the system is about a finished turn of a registered user, whose thread
\* has messages: the worker always finds a prompt to read about.
THEOREM TasksHaveConversations == Spec => []TaskHasConversation
<1>1. StreamsInv /\ HistInv /\ MemInv => TaskHasConversation
  <2> SUFFICES ASSUME StreamsInv, HistInv, MemInv PROVE TaskHasConversation
    OBVIOUS
  <2>1. ASSUME NEW t \in Pending \cup dlq
        PROVE  t.thread \notin AnonThreads /\ req[t.turn].final /\ history[t.thread] # <<>>
    <3>1. t \in Tasks /\ t.turn \in Requests
      <4>1. ToSet(mq) \subseteq Tasks
        BY MembersOf DEF MemInv, MemoryTyped
      <4>2. t \in Tasks
        BY <4>1 DEF Pending, MemInv, MemoryTyped, WorkerTyped
      <4>3. QED
        BY <4>2 DEF Tasks
    <3>2. req[t.turn].task = "published" /\ req[t.turn].thread = t.thread
      BY <3>1 DEF MemInv, TaskInv
    <3>3. req[t.turn].final /\ t.thread \notin AnonThreads
      BY <3>1, <3>2, RequestIs DEF Consistent
    <3>4. QED
      BY <3>1, <3>2, <3>3 DEF HistInv, ReplyInv
  <2>2. worker.at \in {"extract", "store", "done"} => worker.last # None
    BY DEF MemInv, ReadInv
  <2>3. \A th \in AnonThreads : history[th] = <<>>
    BY DEF HistInv, HistoryInv
  <2>4. QED
    BY <2>1, <2>2, <2>3 DEF TaskHasConversation
<1>2. QED
  BY <1>1, Streams, MemoryIsSound, PTL

\* Facts are stored at most once for every task of the thread that was read, and once
\* more for each crash of the worker; never for a user without a task.
THEOREM FactsAreBounded == Spec => []FactsPerReading
<1>1. MemInv => FactsPerReading
  <2> SUFFICES ASSUME MemInv, NEW r \in Requests, facts[r] > 0
               PROVE  /\ req[r].thread \in HttpThreads \cup HubThreads
                      /\ facts[r] <= Readings(req[r].thread) + crashes
    BY DEF FactsPerReading
  <2> DEFINE S == {t \in acked : t.thread = req[r].thread}
  <2>1. Cardinality(S) \in Nat /\ facts[r] \in Nat /\ crashes \in Nat
    BY FS_Subset, FS_CardinalityType, MemoryAssumption DEF MemInv, FactsInv, MemoryTyped
  <2>2. /\ req[r].thread \in HttpThreads \cup HubThreads
        /\ facts[r] <= Cardinality(S) + crashes
             + (IF worker.at \in {"store", "done"} /\ worker.task.thread = req[r].thread
                   /\ r \notin worker.found THEN 1 ELSE 0)
    BY DEF MemInv, FactsInv
  <2>3. Readings(req[r].thread) =
          Cardinality(S) + (IF worker.task # None /\ worker.task.thread = req[r].thread THEN 1 ELSE 0)
    BY DEF Readings
  <2>4. worker.at \in {"store", "done"} => worker.task # None
    BY WorkerIs
  <2> HIDE DEF S
  <2>5. QED
    BY <2>1, <2>2, <2>3, <2>4
<1>2. QED
  BY <1>1, MemoryIsSound, PTL

\* The extractor of an acknowledged task was shown the prompt the task is about, when
\* the turn ran alone, left at most two drafts and was the latest of its thread.
THEOREM AckedTurnsWereRead == Spec => AckedTurnWasRead
<1>1. MemInv /\ [Next]_vars => [acked' # acked =>
       LET r == worker.task.turn
       IN  worker.last = r /\ ~req[r].overlapped /\ req[r].drafts <= 2
           => r \in worker.shown]_vars
  <2> SUFFICES ASSUME MemInv, [Next]_vars, acked' # acked,
                      worker.last = worker.task.turn, ~req[worker.task.turn].overlapped,
                      req[worker.task.turn].drafts <= 2
               PROVE  worker.task.turn \in worker.shown
    OBVIOUS
  <2>1. Acknowledge
    BY DEF Next, Chat, Memory, MemoryStep, WorkerStep, Deliver, ReadCheckpoint, Extract, AddFact,
           Reject, Crash, memoryVars, vars
  <2>2. worker.at = "done"
    BY <2>1 DEF Acknowledge
  <2>3. QED
    BY <2>2 DEF MemInv, ReadInv
<1>2. QED
  BY <1>1, MemoryIsSound, PTL DEF Spec, AckedTurnWasRead

-----------------------------------------------------------------------------
(* The cache and the receipts.                                              *)

CacheInv ==
  /\ cache \in [Prompts -> [by : Requests \cup {None}, pieces : 0..MaxPieces]]
  /\ restarts \in 0..MaxRestarts

\* Only StoreReply writes the cache.
LEMMA CacheSteps ==
  ASSUME StreamsInv, ChatStep
  PROVE  \/ UNCHANGED cache
         \/ \E r \in Requests :
              /\ req[r].at = "cache"
              /\ cache' = [cache EXCEPT ![req[r].prompt] = [by |-> r, pieces |-> req[r].text]]
<1>1. ASSUME NEW r \in Requests, StoreReply(r)
      PROVE  \/ UNCHANGED cache
             \/ /\ req[r].at = "cache"
                /\ cache' = [cache EXCEPT ![req[r].prompt] = [by |-> r, pieces |-> req[r].text]]
  BY <1>1 DEF StoreReply, Is
<1>2. QED
  BY <1>1 DEF ChatStep, Serve, AcceptHttp, AcceptGrpc, CacheHit, CacheMiss, StartGraph, Draft,
       NextTask, StreamPiece, EndGraph, GraphFails, SeeCancelled, StrayStep, AfterGraph,
       SendReceipt, Publish, CallBreaks, Abort, Restart

LEMMA RestartsStep ==
  ASSUME ChatStep, restarts \in 0..MaxRestarts
  PROVE  restarts' \in 0..MaxRestarts
<1>1. CASE Restart
  <2>1. restarts' = restarts + 1 /\ restarts < MaxRestarts /\ MaxRestarts \in Nat
    BY <1>1, ChatAssumption DEF Restart
  <2>2. QED
    BY <2>1
<1>2. CASE ~Restart
  <2>1. restarts' = restarts
    BY <1>2 DEF ChatStep, Serve, AcceptHttp, AcceptGrpc, CacheHit, CacheMiss, StartGraph, Draft,
         NextTask, StreamPiece, EndGraph, GraphFails, SeeCancelled, StrayStep, AfterGraph,
         StoreReply, SendReceipt, Publish, CallBreaks, Abort
  <2>2. QED
    BY <2>1
<1>3. QED
  BY <1>1, <1>2

\* The semantic cache holds prompts with the replies of finished streams.
THEOREM CacheIsTyped == Spec => []CacheInv
<1>1. Init => CacheInv
  BY Constants, ChatAssumption DEF Init, ChatInit, CacheInv, NoReply
<1>2. StreamsInv /\ CacheInv /\ [Next]_vars => CacheInv'
  <2> SUFFICES ASSUME StreamsInv, CacheInv, [Next]_vars PROVE CacheInv'
    OBVIOUS
  <2>1. CASE ChatStep
    <3>1. ASSUME NEW r \in Requests
          PROVE  [by |-> r, pieces |-> req[r].text] \in [by : Requests \cup {None}, pieces : 0..MaxPieces]
      BY RequestIs DEF Request
    <3>2. cache' \in [Prompts -> [by : Requests \cup {None}, pieces : 0..MaxPieces]]
      BY <2>1, <3>1, CacheSteps DEF CacheInv
    <3>3. QED
      BY <2>1, <3>2, RestartsStep DEF CacheInv
  <2>2. CASE cache' = cache /\ restarts' = restarts
    BY <2>2 DEF CacheInv
  <2>3. QED
    BY <2>1, <2>2 DEF Next, Chat, Memory, vars, chatVars
<1>3. QED
  BY <1>1, <1>2, Streams, PTL DEF Spec

\* Every state has the shape the specification gives it.
THEOREM TypeCorrect == Spec => []TypeOK
<1>1. StreamsInv /\ GaugesInv /\ MemInv /\ CacheInv => TypeOK
  BY DEF StreamsInv, GaugesInv, MemInv, MemoryTyped, WorkerTyped, CacheInv, TypeOK
<1>2. QED
  BY <1>1, Streams, Gauges, MemoryIsSound, CacheIsTyped, PTL

\* The cache, which all users share, gets a reply cut short only from a run that saw its
\* gRPC call cancelled.
THEOREM CutRepliesAreCancelled == Spec => CutRepliesWereCancelled
<1>1. StreamsInv /\ CacheInv /\ [Next]_vars => [\A p \in Prompts : cache'[p] # cache[p] =>
       LET r == cache'[p].by
       IN  cache'[p].pieces = req[r].whole \/ (req[r].gone /\ ~req[r].final)]_vars
  <2> SUFFICES ASSUME StreamsInv, CacheInv, [Next]_vars, NEW p \in Prompts, cache'[p] # cache[p]
               PROVE  \/ cache'[p].pieces = req[cache'[p].by].whole
                      \/ req[cache'[p].by].gone /\ ~req[cache'[p].by].final
    OBVIOUS
  <2>1. ChatStep
    BY DEF Next, Chat, Memory, vars, chatVars
  <2>2. PICK r \in Requests :
          /\ req[r].at = "cache"
          /\ cache' = [cache EXCEPT ![req[r].prompt] = [by |-> r, pieces |-> req[r].text]]
    BY <2>1, CacheSteps
  <2>3. cache'[p] = [by |-> r, pieces |-> req[r].text]
    BY <2>2 DEF CacheInv
  <2>4. IF req[r].final THEN req[r].whole = req[r].text ELSE req[r].gone
    BY <2>2, RequestIs DEF Consistent
  <2>5. QED
    BY <2>3, <2>4
<1>2. QED
  BY <1>1, Streams, CacheIsTyped, PTL DEF Spec, CutRepliesWereCancelled

LEMMA ReceiptSteps ==
  ASSUME StreamsInv, ChatStep, NEW s \in Requests, req'[s].receipt # req[s].receipt
  PROVE  req[s].at = "receipt" /\ req'[s].receipt = req[s].text
<1>1. \A r \in Requests : req[r] \in Request /\ Consistent(req[r])
  BY RequestIs
<1>2. \A r \in Requests : \A e : Update(r, e) /\ e.receipt = req[r].receipt
                             => \A u \in Requests : req'[u].receipt = req[u].receipt
  BY DEF Update, StreamsInv
<1>3. \A q : Closed(q).receipt = q.receipt
  BY DEF Closed
<1>4. \A q \in Request : HubDone(q).receipt = q.receipt
  BY DEF HubDone, Request
<1>5. ASSUME NEW q \in Request
      PROVE  [q EXCEPT !.counted = @ + 1].receipt = q.receipt
  BY DEF Request
<1>6. \A r \in Requests, q \in Request : End(r, q) /\ q.receipt = req[r].receipt
                             => \A u \in Requests : req'[u].receipt = req[u].receipt
  BY <1>2, <1>3, <1>5 DEF End
<1>7. ASSUME NEW r \in Requests, NEW p \in Prompts, NEW th,
             AcceptHttp(r, th, p) \/ AcceptGrpc(r, th, p)
      PROVE  FALSE
  <2>1. req[r] = NewRequest
    BY <1>1, <1>7 DEF AcceptHttp, AcceptGrpc, Is, Consistent
  <2>2. \A at : /\ [NewRequest EXCEPT !.at = at, !.thread = th, !.prompt = p].receipt = NewRequest.receipt
                /\ [NewRequest EXCEPT !.at = at, !.thread = th, !.prompt = p, !.hub = "open"].receipt
                     = NewRequest.receipt
    BY DEF NewRequest
  <2>3. QED
    BY <1>2, <1>7, <2>1, <2>2 DEF AcceptHttp, AcceptGrpc
<1>8. ASSUME NEW r \in Requests, CacheHit(r) \/ GraphFails(r)
      PROVE  FALSE
  BY <1>1, <1>6, <1>8 DEF CacheHit, GraphFails
<1>9. ASSUME NEW r \in Requests, Abort(r)
      PROVE  FALSE
  <2> DEFINE o == req[r].stray \/ InGraph(r)
             q == [req[r] EXCEPT !.stray = o]
  <2>0. q = [req[r] EXCEPT !.stray = @ \/ InGraph(r)] /\ o \in BOOLEAN
    BY <1>1 DEF Request
  <2>1. q \in Request /\ q.receipt = req[r].receipt
    <3>1. req[r] \in Request
      BY <1>1
    <3> HIDE DEF o
    <3>2. QED
      BY ONLY <2>0, <3>1, StraySet
  <2>2. Update(r, Closed(q)) \/ End(r, q)
    BY <1>9, <2>0 DEF Abort
  <2> HIDE DEF q
  <2>3. QED
    BY <1>2, <1>3, <1>6, <2>1, <2>2
<1>10. ASSUME NEW r \in Requests,
              CacheMiss(r) \/ Draft(r) \/ NextTask(r) \/ SeeCancelled(r) \/ StrayStep(r) \/ StoreReply(r)
       PROVE  FALSE
  BY <1>1, <1>2, <1>10 DEF CacheMiss, Draft, NextTask, SeeCancelled, StrayStep, StoreReply, Request
<1>11. ASSUME NEW r \in Requests, StreamPiece(r) \/ EndGraph(r) \/ Publish(r)
       PROVE  FALSE
  BY <1>1, <1>2, <1>11 DEF StreamPiece, EndGraph, Publish, Piece, Request
<1>12. ASSUME NEW r \in Requests, CallBreaks(r)
       PROVE  FALSE
  <2> DEFINE g == [req[r] EXCEPT !.gone = TRUE]
  <2>1. g \in Request /\ g.receipt = req[r].receipt
    <3>1. req[r] \in Request
      BY <1>1
    <3>2. QED
      BY ONLY <3>1, GoneSet
  <2>2. Update(r, HubDone(g))
    BY <1>12 DEF CallBreaks
  <2> HIDE DEF g
  <2>3. QED
    BY <1>2, <1>4, <2>1, <2>2
<1>13. ASSUME NEW r \in Requests, AfterGraph(r)
       PROVE  FALSE
  <2> DEFINE t == IF Publishes(req[r]) THEN "pending" ELSE req[r].task
             q == [req[r] EXCEPT !.task = t]
             e == [q EXCEPT !.at = "cache"]
  <2>1. q \in Request /\ q.receipt = req[r].receipt
    <3>1. t \in {"none", "pending", "published"}
      BY <1>1 DEF Request
    <3>2. req[r] \in Request
      BY <1>1
    <3> HIDE DEF t
    <3>3. QED
      BY ONLY <3>1, <3>2, TaskSet
  <2>2. Update(r, e) \/ End(r, q)
    BY <1>13 DEF AfterGraph
  <2> HIDE DEF q
  <2>3. e.receipt = q.receipt
    BY <2>1 DEF Request
  <2> HIDE DEF e
  <2>4. QED
    BY <1>2, <1>6, <2>1, <2>2, <2>3
<1>14. ASSUME NEW r \in Requests, StartGraph(r)
       PROVE  FALSE
  BY <1>1, <1>14 DEF StartGraph, Request
<1>15. ASSUME NEW r \in Requests, SendReceipt(r)
       PROVE  req[s].at = "receipt" /\ req'[s].receipt = req[s].text
  <2> DEFINE q == [req[r] EXCEPT !.receipt = req[r].text]
  <2>1. q \in Request /\ q.receipt = req[r].text
    <3>1. req[r] \in Request
      BY <1>1
    <3>2. req[r].text \in 0..MaxPieces
      BY ONLY <3>1 DEF Request
    <3>3. QED
      BY ONLY <3>1, <3>2, ReceiptSet
  <2>2. req[r].at = "receipt" /\ (End(r, q) \/ End(r, req[r]))
    BY <1>15 DEF SendReceipt, Is
  <2> HIDE DEF q
  <2>3. End(r, q)
    BY <1>1, <1>6, <2>2
  <2>4. req'[r].receipt = req[r].text /\ \A u \in Requests \ {r} : req'[u] = req[u]
    BY <1>3, <1>5, <2>1, <2>3 DEF End, Update, StreamsInv
  <2>5. QED
    BY <2>2, <2>4
<1>16. ASSUME Restart
       PROVE  FALSE
  <2> DEFINE p(r) == [req[r] EXCEPT !.stray = FALSE, !.task = IF @ = "pending" THEN "none" ELSE @]
  <2>1. \A r \in Requests : p(r).receipt = req[r].receipt
    BY <1>1 DEF Request
  <2>2. req' = [r \in Requests |-> IF req[r].at = "new" THEN req[r] ELSE Closed(p(r))]
    BY <1>16 DEF Restart, Is
  <2> HIDE DEF p
  <2>3. QED
    BY <1>3, <2>1, <2>2
<1>17. QED
  BY <1>7, <1>8, <1>9, <1>10, <1>11, <1>12, <1>13, <1>14, <1>15, <1>16 DEF ChatStep, Serve

\* A receipt signs exactly the text its client was sent, which is the whole reply
\* unless the stream saw its gRPC call cancelled.
THEOREM ReceiptsCoverReplies == Spec => ReceiptCoversReply
<1>1. StreamsInv /\ [Next]_vars => [\A r \in Requests : req'[r].receipt # req[r].receipt =>
       /\ req'[r].receipt = req[r].sent
       /\ req[r].sent = req[r].whole \/ (req[r].gone /\ ~req[r].final)]_vars
  <2> SUFFICES ASSUME StreamsInv, [Next]_vars, NEW r \in Requests,
                      req'[r].receipt # req[r].receipt
               PROVE  /\ req'[r].receipt = req[r].sent
                      /\ req[r].sent = req[r].whole \/ (req[r].gone /\ ~req[r].final)
    OBVIOUS
  <2>1. ChatStep
    BY DEF Next, Chat, Memory, vars, chatVars
  <2>2. req[r].at = "receipt" /\ req'[r].receipt = req[r].text
    BY <2>1, ReceiptSteps
  <2>3. /\ req[r].sent = req[r].text
        /\ IF req[r].final THEN req[r].whole = req[r].text ELSE req[r].gone
    BY <2>2, RequestIs DEF Consistent
  <2>4. QED
    BY <2>2, <2>3
<1>2. QED
  BY <1>1, Streams, PTL DEF Spec, ReceiptCoversReply

=============================================================================
