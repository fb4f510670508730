--------------------------- MODULE BookingPayments ---------------------------
(***************************************************************************)
(* Bookings and their payments: BookingService with the controllers that   *)
(* call it, over one database and Stripe.                                  *)
(*                                                                         *)
(* A web request reads a booking through Entity Framework, decides, and    *)
(* saves in one transaction; other requests run between the read and the   *)
(* save, and the save writes the whole row without a concurrency check.    *)
(* Stripe is external: a checkout session is opened for a booking, the     *)
(* user may pay it, and the event of a paid session is delivered until the *)
(* webhook answers 200.                                                    *)
(***************************************************************************)
EXTENDS Naturals

CONSTANTS
  Bookings,     \* bookings that may be created
  Sessions,     \* checkout sessions that may be opened
  Requests,     \* web requests in progress at a time
  Price,        \* TotalPrice of a booking, in dong
  MaxVisits,    \* bound: visits of the success page
  MaxFailures,  \* bound: saves that fail and answers that get lost
  None

ASSUME PaymentsAssumption ==
  /\ Price \in Nat \ {0}
  /\ MaxVisits \in Nat
  /\ MaxFailures \in Nat
  /\ None \notin Bookings \cup Sessions

VARIABLES
  status,     \* BookingRecord.Status
  old,        \* the bookings created more than 24 hours ago
  session,    \* Stripe: state and ClientReferenceId of each session
  events,     \* Stripe: paid sessions whose event was not acknowledged
  rows,       \* Payments: the rows with the session's TransactionId
  revenue,    \* Payments: sum of Amount of a booking's rows, in hundredths
  request,    \* what each web request in progress has read and will save
  visits,
  failures,
  disturbed   \* history: bookings cancelled, or confirmed by overlapping requests

tables == <<status, rows, revenue>>
vars == <<tables, old, session, events, request, visits, failures, disturbed>>

-----------------------------------------------------------------------------
Idle == [at |-> "idle", booking |-> None, session |-> None, webhook |-> FALSE]

Opened_NoReference(b) == [state |-> "open", booking |-> None]
Opened(b) == [state |-> "open", booking |-> b]

\* The request continues after its read.
Continue(r, at, b, s, webhook) ==
  request' = [request EXCEPT
    ![r] = [at |-> at, booking |-> b, session |-> s, webhook |-> webhook]]

Finish(r) == request' = [request EXCEPT ![r] = Idle]

AlreadyConfirmed_Never(b) == FALSE
AlreadyConfirmed(b) == status[b] = "Success"

Confirming(b) == {r \in Requests : request[r].at = "confirming" /\ request[r].booking = b}

\* session.PaymentStatus == "paid"
Payable_Unchecked(s) == session[s].state # "none"
Payable(s) == session[s].state = "paid"

\* AmountTotal / 100, in hundredths: Stripe counts the dong itself.
RecordedAmount == Price

Recorded_StatusOnly(s) == rows
Recorded(s) == [rows EXCEPT ![s] = @ + 1]

-----------------------------------------------------------------------------
Init ==
  /\ status = [b \in Bookings |-> "none"]
  /\ old = {}
  /\ session = [s \in Sessions |-> [state |-> "none", booking |-> None]]
  /\ events = {}
  /\ rows = [s \in Sessions |-> 0]
  /\ revenue = [b \in Bookings |-> 0]
  /\ request = [r \in Requests |-> Idle]
  /\ visits = 0
  /\ failures = 0
  /\ disturbed = {}

\* create-checkout-session: the pending booking is saved before Stripe is asked.
CreateCheckoutSession(r, b) ==
  /\ request[r] = Idle
  /\ status[b] = "none"
  /\ status' = [status EXCEPT ![b] = "Pending"]
  /\ Continue(r, "opening", b, None, FALSE)
  /\ UNCHANGED <<rows, revenue, old, session, events, visits, failures, disturbed>>

\* pay-pending-booking: any number of sessions while the booking is read as pending.
PayPendingBooking(r, b) ==
  /\ request[r] = Idle
  /\ status[b] = "Pending"
  /\ Continue(r, "opening", b, None, FALSE)
  /\ UNCHANGED <<tables, old, session, events, visits, failures, disturbed>>

OpenSession(r) ==
  /\ request[r].at = "opening"
  /\ \/ \E s \in Sessions :
          /\ session[s].state = "none"
          /\ session' = [session EXCEPT ![s] = Opened(request[r].booking)]
     \/ UNCHANGED session                  \* StripeException
  /\ Finish(r)
  /\ UNCHANGED <<tables, old, events, visits, failures, disturbed>>

\* External: the user pays, Stripe emits checkout.session.completed.
Pay(s) ==
  /\ session[s].state = "open"
  /\ session' = [session EXCEPT ![s].state = "paid"]
  /\ events' = events \cup {s}
  /\ UNCHANGED <<tables, old, request, visits, failures, disturbed>>

\* The read of ConfirmBookingAndRecordPaymentAsync, when it goes on to save.
StartConfirm(r, s, webhook) ==
  LET b == session[s].booking
  IN  /\ ~AlreadyConfirmed(b)
      /\ Continue(r, "confirming", b, s, webhook)
      /\ disturbed' = IF Confirming(b) = {} THEN disturbed ELSE disturbed \cup {b}

\* The event stays with Stripe while it is handled: a duplicate delivery or a
\* retry may be handled at the same time.
Webhook(r, s) ==
  /\ request[r] = Idle
  /\ s \in events
  /\ \/ /\ AlreadyConfirmed(session[s].booking)
        /\ events' = events \ {s}
        /\ UNCHANGED <<request, disturbed>>
     \/ /\ StartConfirm(r, s, TRUE)
        /\ UNCHANGED events
  /\ UNCHANGED <<tables, old, session, visits, failures>>

\* Booking/Success, on the redirect or a reload; nothing happens to a confirmed one.
SuccessPage(r, s) ==
  /\ request[r] = Idle
  /\ visits < MaxVisits
  /\ Payable(s)
  /\ StartConfirm(r, s, FALSE)
  /\ visits' = visits + 1
  /\ UNCHANGED <<tables, old, session, events, failures>>

SaveConfirmation(r) ==
  LET b == request[r].booking
      s == request[r].session
  IN  /\ request[r].at = "confirming"
      /\ status' = [status EXCEPT ![b] = "Success"]
      /\ rows' = Recorded(s)
      /\ revenue' = [revenue EXCEPT ![b] = @ + RecordedAmount]
      /\ \/ /\ events' = IF request[r].webhook THEN events \ {s} ELSE events
            /\ UNCHANGED failures
         \/ /\ request[r].webhook          \* saved, but Stripe times out
            /\ failures < MaxFailures
            /\ failures' = failures + 1
            /\ UNCHANGED events
      /\ Finish(r)
      /\ UNCHANGED <<old, session, visits, disturbed>>

\* The user's cancellation: at most 24 hours after the creation, paid or not.
Cancel(r, b) ==
  /\ request[r] = Idle
  /\ status[b] \in {"Pending", "Success"}
  /\ b \notin old
  /\ Continue(r, "cancelling", b, None, FALSE)
  /\ UNCHANGED <<tables, old, session, events, visits, failures, disturbed>>

SaveCancellation(r) ==
  /\ request[r].at = "cancelling"
  /\ status' = [status EXCEPT ![request[r].booking] = "Cancelled"]
  /\ disturbed' = disturbed \cup {request[r].booking}
  /\ Finish(r)
  /\ UNCHANGED <<rows, revenue, old, session, events, visits, failures>>

\* A save that fails: the webhook answers 500 and its event stays, the success
\* page swallows the exception.
AfterFailure_Acknowledged(r) == IF request[r].webhook THEN events \ {request[r].session} ELSE events
AfterFailure(r) == events

SaveFails(r) ==
  /\ request[r].at \in {"confirming", "cancelling"}
  /\ failures < MaxFailures
  /\ failures' = failures + 1
  /\ events' = AfterFailure(r)
  /\ Finish(r)
  /\ UNCHANGED <<tables, old, session, visits, disturbed>>

Age(b) ==
  /\ status[b] # "none"
  /\ b \notin old
  /\ old' = old \cup {b}
  /\ UNCHANGED <<tables, session, events, request, visits, failures, disturbed>>

Next ==
  \/ \E r \in Requests, b \in Bookings :
       CreateCheckoutSession(r, b) \/ PayPendingBooking(r, b) \/ Cancel(r, b)
  \/ \E r \in Requests, s \in Sessions : Webhook(r, s) \/ SuccessPage(r, s)
  \/ \E r \in Requests :
       OpenSession(r) \/ SaveConfirmation(r) \/ SaveCancellation(r) \/ SaveFails(r)
  \/ \E s \in Sessions : Pay(s)
  \/ \E b \in Bookings : Age(b)

\* A request in progress runs to its end.  Stripe retries an event for days, so
\* a delivery that is possible again and again is made.
Fairness ==
  /\ \A r \in Requests :
       WF_vars(OpenSession(r) \/ SaveConfirmation(r) \/ SaveCancellation(r))
  /\ \A s \in Sessions : SF_vars(\E r \in Requests : Webhook(r, s))

Spec == Init /\ [][Next]_vars
FairSpec == Spec /\ Fairness
=============================================================================
