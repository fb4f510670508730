---------------------- MODULE BookingPaymentsProperties ----------------------
(* What the payment records promise, and what the comments promise of them. *)
EXTENDS BookingPayments

Of(b) == {s \in Sessions : session[s].booking = b}
RowsOf(b) == {s \in Of(b) : rows[s] > 0}

Step == [at : {"idle", "opening", "confirming", "cancelling"},
         booking : Bookings \cup {None}, session : Sessions \cup {None}, webhook : BOOLEAN]

\* Type invariant; a session that exists carries the booking it was opened for.
TypeOK ==
  /\ status \in [Bookings -> {"none", "Pending", "Success", "Cancelled"}]
  /\ old \subseteq Bookings
  /\ session \in [Sessions -> [state : {"none", "open", "paid"}, booking : Bookings \cup {None}]]
  /\ \A s \in Sessions : session[s].state # "none" => session[s].booking \in Bookings
  /\ events \subseteq Sessions
  /\ rows \in [Sessions -> Nat]
  /\ revenue \in [Bookings -> Nat]
  /\ request \in [Requests -> Step]
  /\ \A r \in Requests : request[r].at # "idle" => request[r].booking \in Bookings
  /\ visits \in Nat
  /\ failures \in Nat
  /\ disturbed \subseteq Bookings

\* A confirmed booking is paid: no order of webhook, success page, retry and
\* cancellation leaves Success without a row in Payments whose session Stripe
\* reports paid.
ConfirmedIsPaid ==
  \A b \in Bookings : status[b] = "Success" => \E s \in RowsOf(b) : session[s].state = "paid"

\* Where the code is idempotent: a booking that was never cancelled and whose
\* confirmations never overlapped has one payment row at most, however many
\* sessions were paid, events redelivered and success pages reloaded.
IdempotentUnlessDisturbed ==
  \A b \in Bookings \ disturbed :
    /\ \A s \in Of(b) : rows[s] <= 1
    /\ \A s, t \in RowsOf(b) : s = t

\* A booking that was charged gets a payment row, through failed saves and lost
\* answers, by Stripe's retries.
ChargeIsRecorded ==
  \A s \in Sessions, b \in Bookings :
    (session[s].state = "paid" /\ session[s].booking = b) ~> (RowsOf(b) # {})

-----------------------------------------------------------------------------
(* The invariants of the proofs *)

\* A request that confirms holds a paid session of the booking it read.
RequestInv ==
  \A r \in Requests : request[r].at = "confirming" =>
    /\ request[r].session \in Sessions
    /\ session[request[r].session] = [state |-> "paid", booking |-> request[r].booking]

EventInv == \A s \in events : session[s].state = "paid"

\* A booking that is Success has a row, and a row was charged, whichever of webhook
\* and success page recorded it; together ConfirmedIsPaid.
SuccessHasRow == \A b \in Bookings : status[b] = "Success" => RowsOf(b) # {}
PaymentIsCharged == \A s \in Sessions : rows[s] > 0 => session[s].state = "paid"

\* Why one row: while an undisturbed booking is being confirmed there is one such
\* request and no row, and afterwards the booking stays Success.
OneRowInv ==
  \A b \in Bookings \ disturbed :
    /\ \A q, r \in Confirming(b) : q = r
    /\ Confirming(b) # {} => RowsOf(b) = {}
    /\ RowsOf(b) # {} => status[b] = "Success"

-----------------------------------------------------------------------------
(* What the comments say and the code does not do *)

\* BookingController.cs: the confirmation "should be idempotent (it will just update
\* if not already updated)".  Webhook and success page both read Pending and both
\* add a row.
OneRowUnlessCancelled ==
  (\A b \in Bookings : status[b] # "Cancelled") => \A s \in Sessions : rows[s] <= 1
=============================================================================
