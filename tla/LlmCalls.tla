------------------------------ MODULE LlmCalls ------------------------------
(***************************************************************************)
(* Model calls of one process: invoke_llm_with_limit (graph/config.py)     *)
(* under the semaphores of core/concurrency.py.  A call takes a permit of  *)
(* its tier, gives it back however the attempt ends, and asks again after  *)
(* each backoff.  The semaphore is asyncio's (Python 3.11): a permit given *)
(* back is handed to the first waiter, which takes it up later or is       *)
(* cancelled; who comes before that waits behind it, and is woken by it.   *)
(***************************************************************************)
EXTENDS Integers, Sequences, FiniteSets, SequencesExt

CONSTANTS Requests,     \* the requests, each with one call
          Tiers,        \* the tiers of the calls
          Permits,      \* the capacity of each semaphore
          MaxAttempts,  \* stop_after_attempt
          None

Guards == {1, 2}

ASSUME LlmAssumption ==
  /\ Tiers \subseteq Nat \ {0}
  /\ Permits \in [Guards -> Nat \ {0}]
  /\ MaxAttempts \in Nat \ {0}

VARIABLES call,     \* where each request's call is
          tier, attempt,
          value,    \* what each semaphore has left
          queue,    \* the requests that wait for it, in order
          granted   \* the waiters a permit was handed to

llmVars == <<call, tier, attempt, value, queue, granted>>

\* TIER2_SEMAPHORE serves every tier from 2 on.
get_semaphore(t) == IF t >= 2 THEN 2 ELSE 1

Guard(r) == get_semaphore(tier[r])

LlmInit ==
  /\ call = [r \in Requests |-> "none"]
  /\ tier = [r \in Requests |-> None]
  /\ attempt = [r \in Requests |-> 0]
  /\ value = Permits
  /\ queue = [g \in Guards |-> <<>>]
  /\ granted = {}

-----------------------------------------------------------------------------
\* Semaphore g has v permits and the waiters q: one goes to the first waiter
\* that has none yet (Semaphore._wake_up_next).  r no longer waits.
WakeUp(g, v, q, r) ==
  LET asleep == {i \in DOMAIN q : q[i] \notin granted}
  IN /\ queue' = [queue EXCEPT ![g] = q]
     /\ \/ /\ v > 0 /\ asleep # {}
           /\ value' = [value EXCEPT ![g] = v - 1]
           /\ granted' = (granted \ {r}) \cup {q[Min(asleep)]}
        \/ /\ v = 0 \/ asleep = {}
           /\ value' = [value EXCEPT ![g] = v]
           /\ granted' = granted \ {r}

\* `async with sem`: no permit is taken past a waiter.
Enter(r, g) ==
  \/ /\ value[g] > 0 /\ queue[g] = <<>>
     /\ call' = [call EXCEPT ![r] = "running"]
     /\ value' = [value EXCEPT ![g] = @ - 1]
     /\ UNCHANGED queue
  \/ /\ value[g] = 0 \/ queue[g] # <<>>
     /\ call' = [call EXCEPT ![r] = "waiting"]
     /\ queue' = [queue EXCEPT ![g] = Append(@, r)]
     /\ UNCHANGED value

StartCall(r, t) ==
  /\ call[r] = "none"
  /\ tier' = [tier EXCEPT ![r] = t]
  /\ attempt' = [attempt EXCEPT ![r] = 1]
  /\ Enter(r, get_semaphore(t))
  /\ UNCHANGED granted

\* A waiter that was handed a permit takes it up.
Resume(r) ==
  /\ call[r] = "waiting" /\ r \in granted
  /\ call' = [call EXCEPT ![r] = "running"]
  /\ WakeUp(Guard(r), value[Guard(r)], RemoveFirst(queue[Guard(r)], r), r)
  /\ UNCHANGED <<tier, attempt>>

\* What the semaphore has when the attempt has ended, by an answer or an
\* exception.
Returned_NotAfterError(r) == value[Guard(r)] + (IF call'[r] = "answered" THEN 1 ELSE 0)
Returned(r) == value[Guard(r)] + 1

Leave(r, next) ==
  /\ call[r] = "running"
  /\ call' = [call EXCEPT ![r] = next]
  /\ WakeUp(Guard(r), Returned(r), queue[Guard(r)], r)
  /\ UNCHANGED <<tier, attempt>>

Answer(r) == Leave(r, "answered")

\* An httpx.HTTPStatusError is tried again, up to MaxAttempts; every other
\* exception is raised at once.
StatusError_OffByOne(r) == Leave(r, IF attempt[r] <= MaxAttempts THEN "backoff" ELSE "failed")
StatusError(r) == Leave(r, IF attempt[r] < MaxAttempts THEN "backoff" ELSE "failed")
OtherError(r)  == Leave(r, "failed")

Retry(r) ==
  /\ call[r] = "backoff"
  /\ attempt' = [attempt EXCEPT ![r] = @ + 1]
  /\ Enter(r, Guard(r))
  /\ UNCHANGED <<tier, granted>>

\* The request's task is cancelled; a permit already handed to it goes on.
CancelCall(r) ==
  /\ call[r] \in {"waiting", "running", "backoff"}
  /\ call' = [call EXCEPT ![r] = "cancelled"]
  /\ LET rest == RemoveFirst(queue[Guard(r)], r) IN
       \/ call[r] = "backoff" /\ UNCHANGED <<value, queue, granted>>
       \/ /\ call[r] = "waiting" /\ r \notin granted
          /\ queue' = [queue EXCEPT ![Guard(r)] = rest]
          /\ UNCHANGED <<value, granted>>
       \/ /\ call[r] = "running" \/ r \in granted
          /\ WakeUp(Guard(r), value[Guard(r)] + 1, rest, r)
  /\ UNCHANGED <<tier, attempt>>

LlmStep(r) ==
  Resume(r) \/ Answer(r) \/ StatusError(r) \/ OtherError(r) \/ Retry(r)
=============================================================================
