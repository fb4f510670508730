----------------------- MODULE BookingPaymentsProofs -----------------------
(***************************************************************************)
(* What the payment records promise, for all sets of bookings, sessions    *)
(* and requests and without the bounds of the runs.                        *)
(*                                                                         *)
(* IInv is inductive.  A step either leaves tables and sessions alone and  *)
(* only ends or starts requests that do not confirm (Aside), or starts a   *)
(* confirmation (Confirmation), or is proved conjunct by conjunct.         *)
(***************************************************************************)
EXTENDS BookingPaymentsProperties, TLAPS

RecordsInv == SuccessHasRow /\ PaymentIsCharged /\ IdempotentUnlessDisturbed

IInv == TypeOK /\ RequestInv /\ EventInv /\ OneRowInv /\ RecordsInv

\* The requests of a state satisfy the type invariant.
RequestType ==
  /\ request \in [Requests -> Step]
  /\ \A r \in Requests : request[r].at # "idle" => request[r].booking \in Bookings

-----------------------------------------------------------------------------
\* What is recorded stays as it was when neither tables nor sessions change.
LEMMA RecordsKept ==
  ASSUME RecordsInv, UNCHANGED <<status, rows, session>>, disturbed \subseteq disturbed'
  PROVE  RecordsInv'
  BY DEF RecordsInv, SuccessHasRow, PaymentIsCharged, IdempotentUnlessDisturbed, RowsOf, Of

\* Continuing a request with a step of the right type, and ending one.
LEMMA ContinueType ==
  ASSUME RequestType, NEW r \in Requests, NEW b \in Bookings, NEW s \in Sessions \cup {None},
         NEW at \in {"opening", "confirming", "cancelling"}, NEW webhook \in BOOLEAN,
         Continue(r, at, b, s, webhook)
  PROVE  RequestType'
  BY DEF RequestType, Continue, Step

LEMMA FinishType ==
  ASSUME RequestType, NEW r \in Requests, Finish(r)
  PROVE  RequestType'
  BY DEF RequestType, Finish, Step, Idle

\* A step that only ends confirmations or starts requests of another kind.
LEMMA Aside ==
  ASSUME IInv, UNCHANGED <<status, rows, session>>, disturbed \subseteq disturbed',
         events' \subseteq events,
         \A r \in Requests : request'[r].at = "confirming" => request'[r] = request[r]
  PROVE  RequestInv' /\ EventInv' /\ OneRowInv' /\ RecordsInv'
<1>1. RequestInv' /\ EventInv'
  BY DEF IInv, RequestInv, EventInv
<1>2. OneRowInv'
  <2>1. \A b \in Bookings : RowsOf(b)' = RowsOf(b)
    BY DEF RowsOf, Of
  <2>2. \A b \in Bookings : Confirming(b)' \subseteq Confirming(b)
    BY DEF Confirming
  <2> QED BY <2>1, <2>2 DEF IInv, OneRowInv
<1>3. RecordsInv'
  BY RecordsKept DEF IInv
<1> QED BY <1>1, <1>2, <1>3

\* The start of a confirmation: the booking is not Success and so has no row, and
\* a second request that confirms it makes it disturbed.
LEMMA Confirmation ==
  ASSUME IInv, NEW r \in Requests, NEW s \in Sessions, NEW webhook \in BOOLEAN,
         request[r] = Idle, session[s].state = "paid", StartConfirm(r, s, webhook),
         UNCHANGED <<status, rows, session, events>>
  PROVE  /\ RequestType' /\ disturbed' \subseteq Bookings
         /\ RequestInv' /\ EventInv' /\ OneRowInv' /\ RecordsInv'
<1> DEFINE b == session[s].booking
<1>1. b \in Bookings /\ session[s] = [state |-> "paid", booking |-> b]
  BY DEF IInv, TypeOK
<1>2. Continue(r, "confirming", b, s, webhook)
  BY DEF StartConfirm
<1>3. RequestType'
  <2> HIDE DEF b
  <2>1. RequestType
    BY DEF IInv, TypeOK, RequestType
  <2> QED BY <1>1, <1>2, <2>1, ContinueType
<1>4. /\ disturbed' \subseteq Bookings
      /\ disturbed \subseteq disturbed'
      /\ b \notin disturbed' => Confirming(b) = {}
  BY <1>1 DEF IInv, TypeOK, StartConfirm
<1>5. \A q \in Requests : q # r => request'[q] = request[q]
  BY <1>2 DEF Continue, IInv, TypeOK
<1>6. request'[r] = [at |-> "confirming", booking |-> b, session |-> s, webhook |-> webhook]
  BY <1>2 DEF Continue, IInv, TypeOK
<1>7. RequestInv'
  BY <1>1, <1>5, <1>6 DEF IInv, RequestInv
<1>8. EventInv' /\ RecordsInv'
  BY <1>4, RecordsKept DEF IInv, EventInv
<1>9. OneRowInv'
  <2>1. \A c \in Bookings : RowsOf(c)' = RowsOf(c)
    BY DEF RowsOf, Of
  <2>2. \A c \in Bookings : c # b => Confirming(c)' \subseteq Confirming(c)
    BY <1>5, <1>6 DEF Confirming
  <2>3. b \notin disturbed' => Confirming(b)' = {r} /\ RowsOf(b) = {}
    <3>1. status[b] # "Success"
      BY DEF StartConfirm, AlreadyConfirmed
    <3>2. b \notin disturbed' => RowsOf(b) = {}
      BY <1>1, <1>4, <3>1 DEF IInv, OneRowInv
    <3>3. b \notin disturbed' => Confirming(b)' = {r}
      BY <1>4, <1>5, <1>6 DEF Confirming
    <3> QED BY <3>2, <3>3
  <2>4. ASSUME NEW c \in Bookings, c \notin disturbed'
        PROVE  /\ \A p, q \in Confirming(c)' : p = q
               /\ Confirming(c)' # {} => RowsOf(c)' = {}
               /\ RowsOf(c)' # {} => status'[c] = "Success"
    <3>1. CASE c = b
      BY <1>1, <2>1, <2>3, <2>4, <3>1
    <3>2. CASE c # b
      BY <1>4, <2>1, <2>2, <2>4, <3>2 DEF IInv, OneRowInv
    <3> QED BY <3>1, <3>2
  <2> QED BY <2>4 DEF OneRowInv
<1> QED BY <1>3, <1>4, <1>7, <1>8, <1>9

-----------------------------------------------------------------------------
(* Each action preserves IInv: one lemma per action. *)

LEMMA CreateCheckoutSessionPreserves ==
  ASSUME IInv, NEW r \in Requests, NEW b \in Bookings, CreateCheckoutSession(r, b)
  PROVE  IInv'
<1>1. TypeOK'
  <2>1. RequestType
    BY DEF IInv, TypeOK, RequestType
  <2>2. RequestType'
    BY <2>1, ContinueType DEF CreateCheckoutSession
  <2> QED BY <2>2 DEF IInv, TypeOK, RequestType, CreateCheckoutSession
<1>2. RequestInv' /\ EventInv'
  BY DEF IInv, TypeOK, RequestInv, EventInv, CreateCheckoutSession, Continue
<1>3. \A c \in Bookings : RowsOf(c)' = RowsOf(c) /\ Confirming(c)' = Confirming(c)
  BY DEF IInv, TypeOK, RowsOf, Of, Confirming, CreateCheckoutSession, Continue, Idle
<1>4. \A c \in Bookings : status[c] = "Success" <=> status'[c] = "Success"
  BY DEF IInv, TypeOK, CreateCheckoutSession
<1>5. OneRowInv'
  BY <1>3, <1>4 DEF IInv, OneRowInv, CreateCheckoutSession
<1>6. RecordsInv'
  BY <1>3, <1>4 DEF IInv, RecordsInv, SuccessHasRow, PaymentIsCharged,
                    IdempotentUnlessDisturbed, RowsOf, Of, CreateCheckoutSession
<1> QED BY <1>1, <1>2, <1>5, <1>6 DEF IInv

LEMMA PayPendingBookingPreserves ==
  ASSUME IInv, NEW r \in Requests, NEW b \in Bookings, PayPendingBooking(r, b)
  PROVE  IInv'
<1>1. TypeOK'
  <2>1. RequestType
    BY DEF IInv, TypeOK, RequestType
  <2>2. RequestType'
    BY <2>1, ContinueType DEF PayPendingBooking
  <2> QED BY <2>2 DEF IInv, TypeOK, RequestType, PayPendingBooking, tables
<1>2. \A q \in Requests : request'[q].at = "confirming" => request'[q] = request[q]
  BY DEF IInv, TypeOK, PayPendingBooking, Continue
<1> QED BY <1>1, <1>2, Aside DEF PayPendingBooking, tables, IInv

LEMMA CancelPreserves ==
  ASSUME IInv, NEW r \in Requests, NEW b \in Bookings, Cancel(r, b)
  PROVE  IInv'
<1>1. TypeOK'
  <2>1. RequestType
    BY DEF IInv, TypeOK, RequestType
  <2>2. RequestType'
    BY <2>1, ContinueType DEF Cancel
  <2> QED BY <2>2 DEF IInv, TypeOK, RequestType, Cancel, tables
<1>2. \A q \in Requests : request'[q].at = "confirming" => request'[q] = request[q]
  BY DEF IInv, TypeOK, Cancel, Continue
<1> QED BY <1>1, <1>2, Aside DEF Cancel, tables, IInv

LEMMA SaveFailsPreserves ==
  ASSUME IInv, NEW r \in Requests, SaveFails(r)
  PROVE  IInv'
<1>1. TypeOK'
  <2>1. RequestType
    BY DEF IInv, TypeOK, RequestType
  <2>2. RequestType'
    BY <2>1, FinishType DEF SaveFails
  <2> QED BY <2>2 DEF IInv, TypeOK, RequestType, SaveFails, AfterFailure, tables
<1>2. \A q \in Requests : request'[q].at = "confirming" => request'[q] = request[q]
  BY DEF IInv, TypeOK, SaveFails, Finish, Idle
<1> QED BY <1>1, <1>2, Aside DEF SaveFails, AfterFailure, tables, IInv

LEMMA AgePreserves ==
  ASSUME IInv, NEW b \in Bookings, Age(b)
  PROVE  IInv'
<1>1. TypeOK'
  BY DEF IInv, TypeOK, Age, tables
<1> QED BY <1>1, Aside DEF Age, tables, IInv

LEMMA WebhookPreserves ==
  ASSUME IInv, NEW r \in Requests, NEW s \in Sessions, Webhook(r, s)
  PROVE  IInv'
<1>1. CASE UNCHANGED <<request, disturbed>> /\ events' = events \ {s}
  <2>1. TypeOK'
    BY <1>1 DEF IInv, TypeOK, Webhook, tables
  <2> QED BY <1>1, <2>1, Aside DEF Webhook, tables, IInv
<1>2. CASE StartConfirm(r, s, TRUE) /\ UNCHANGED events
  <2>1. request[r] = Idle /\ session[s].state = "paid" /\ UNCHANGED <<tables, old, session, visits, failures>>
    BY DEF Webhook, IInv, EventInv
  <2>2. /\ RequestType' /\ disturbed' \subseteq Bookings
        /\ RequestInv' /\ EventInv' /\ OneRowInv' /\ RecordsInv'
    BY <1>2, <2>1, Confirmation DEF tables
  <2>3. TypeOK'
    BY <1>2, <2>1, <2>2 DEF IInv, TypeOK, RequestType, tables
  <2> QED BY <2>2, <2>3 DEF IInv
<1> QED BY <1>1, <1>2 DEF Webhook

LEMMA SuccessPagePreserves ==
  ASSUME IInv, NEW r \in Requests, NEW s \in Sessions, SuccessPage(r, s)
  PROVE  IInv'
<1>1. /\ request[r] = Idle /\ session[s].state = "paid" /\ StartConfirm(r, s, FALSE)
      /\ UNCHANGED <<tables, old, session, events, failures>> /\ visits' = visits + 1
  BY DEF SuccessPage, Payable
<1>2. /\ RequestType' /\ disturbed' \subseteq Bookings
      /\ RequestInv' /\ EventInv' /\ OneRowInv' /\ RecordsInv'
  BY <1>1, Confirmation DEF tables
<1>3. TypeOK'
  BY <1>1, <1>2 DEF IInv, TypeOK, RequestType, tables
<1> QED BY <1>2, <1>3 DEF IInv

LEMMA PayPreserves ==
  ASSUME IInv, NEW s \in Sessions, Pay(s)
  PROVE  IInv'
<1>1. TypeOK'
  BY DEF IInv, TypeOK, Pay, tables
<1>2. \A t \in Sessions : session'[t].booking = session[t].booking
  BY DEF IInv, TypeOK, Pay
<1>3. \A b \in Bookings : RowsOf(b)' = RowsOf(b) /\ Confirming(b)' = Confirming(b)
  BY <1>2 DEF RowsOf, Of, Confirming, Pay, tables
<1>4. RequestInv' /\ EventInv'
  BY DEF IInv, TypeOK, RequestInv, EventInv, Pay, tables
<1>5. OneRowInv'
  BY <1>3 DEF IInv, OneRowInv, Pay, tables
<1>6. RecordsInv'
  BY <1>2, <1>3 DEF IInv, TypeOK, RecordsInv, SuccessHasRow, PaymentIsCharged,
                    IdempotentUnlessDisturbed, Of, Pay, tables
<1> QED BY <1>1, <1>4, <1>5, <1>6 DEF IInv

LEMMA SaveCancellationPreserves ==
  ASSUME IInv, NEW r \in Requests, SaveCancellation(r)
  PROVE  IInv'
<1> DEFINE b == request[r].booking
<1>1. b \in Bookings
  BY DEF IInv, TypeOK, SaveCancellation
<1>2. TypeOK'
  <2>1. RequestType
    BY DEF IInv, TypeOK, RequestType
  <2>2. RequestType'
    BY <2>1, FinishType DEF SaveCancellation
  <2> QED BY <1>1, <2>2 DEF IInv, TypeOK, RequestType, SaveCancellation
<1>3. RequestInv' /\ EventInv'
  BY DEF IInv, TypeOK, RequestInv, EventInv, SaveCancellation, Finish, Idle
<1>4. \A c \in Bookings : RowsOf(c)' = RowsOf(c) /\ Confirming(c)' \subseteq Confirming(c)
  BY DEF IInv, TypeOK, RowsOf, Of, Confirming, SaveCancellation, Finish, Idle
<1>5. \A c \in Bookings : c # b => status'[c] = status[c]
  BY DEF IInv, TypeOK, SaveCancellation
<1>6. status'[b] = "Cancelled" /\ disturbed' = disturbed \cup {b}
  BY <1>1 DEF IInv, TypeOK, SaveCancellation
<1>7. OneRowInv'
  BY <1>4, <1>5, <1>6 DEF IInv, OneRowInv
<1>8. RecordsInv'
  BY <1>4, <1>5, <1>6 DEF IInv, RecordsInv, SuccessHasRow, PaymentIsCharged,
                          IdempotentUnlessDisturbed, Of, SaveCancellation
<1> QED BY <1>2, <1>3, <1>7, <1>8 DEF IInv

\* The booking becomes Success and gets its row in one transaction.  If nothing
\* disturbed it, the request was the only one confirming and the row is the first.
LEMMA SaveConfirmationPreserves ==
  ASSUME IInv, NEW r \in Requests, SaveConfirmation(r)
  PROVE  IInv'
<1>1. PICK b \in Bookings, s \in Sessions :
        /\ request[r].at = "confirming"
        /\ b = request[r].booking /\ s = request[r].session
  BY DEF IInv, TypeOK, RequestInv, SaveConfirmation
<1>2. session[s].state = "paid" /\ session[s].booking = b
  <2>1. session[s] = [state |-> "paid", booking |-> b]
    BY <1>1 DEF IInv, RequestInv
  <2> QED BY <2>1
<1>3. /\ status' = [status EXCEPT ![b] = "Success"]
      /\ rows' = [rows EXCEPT ![s] = @ + 1]
      /\ revenue' = [revenue EXCEPT ![b] = @ + Price]
      /\ Finish(r)
      /\ UNCHANGED <<old, session, visits, disturbed>>
  BY <1>1 DEF SaveConfirmation, Recorded, RecordedAmount
<1>4. events' \subseteq events /\ failures' \in Nat
  BY DEF SaveConfirmation, IInv, TypeOK
<1>5. rows' \in [Sessions -> Nat] /\ revenue' \in [Bookings -> Nat]
  BY <1>1, <1>3, PaymentsAssumption DEF IInv, TypeOK
<1>6. TypeOK'
  <2>1. RequestType
    BY DEF IInv, TypeOK, RequestType
  <2>2. RequestType'
    BY <1>3, <2>1, FinishType
  <2>3. status' \in [Bookings -> {"none", "Pending", "Success", "Cancelled"}]
    BY <1>1, <1>3 DEF IInv, TypeOK
  <2> QED BY <1>3, <1>4, <1>5, <2>2, <2>3 DEF IInv, TypeOK, RequestType
<1>7. RequestInv' /\ EventInv'
  BY <1>3, <1>4 DEF IInv, TypeOK, RequestInv, EventInv, Finish, Idle
<1>8. rows'[s] = rows[s] + 1 /\ \A t \in Sessions : t # s => rows'[t] = rows[t]
  BY <1>1, <1>3 DEF IInv, TypeOK
<1>9. status'[b] = "Success" /\ \A c \in Bookings : c # b => status'[c] = status[c]
  BY <1>1, <1>3 DEF IInv, TypeOK
<1>10. RowsOf(b)' = RowsOf(b) \cup {s}
  <2>1. rows[s] \in Nat
    BY <1>1 DEF IInv, TypeOK
  <2>2. rows'[s] > 0
    BY <1>8, <2>1
  <2> QED BY <1>1, <1>2, <1>3, <1>8, <2>2 DEF RowsOf, Of
<1>11. \A c \in Bookings : c # b => RowsOf(c)' = RowsOf(c)
  BY <1>2, <1>3, <1>8 DEF RowsOf, Of
<1>12. \A c \in Bookings : Confirming(c)' = Confirming(c) \ {r}
  BY <1>3 DEF IInv, TypeOK, Confirming, Finish, Idle
<1>13. r \in Confirming(b)
  BY <1>1 DEF Confirming
<1>14. OneRowInv'
  BY <1>1, <1>3, <1>9, <1>10, <1>11, <1>12, <1>13 DEF IInv, OneRowInv
<1>15. SuccessHasRow'
  BY <1>1, <1>9, <1>10, <1>11 DEF IInv, RecordsInv, SuccessHasRow
<1>16. PaymentIsCharged'
  BY <1>2, <1>3, <1>8 DEF IInv, RecordsInv, PaymentIsCharged
<1>17. IdempotentUnlessDisturbed'
  <2> SUFFICES ASSUME NEW c \in Bookings, c \notin disturbed
               PROVE  /\ \A t \in Of(c)' : rows'[t] <= 1
                      /\ \A t, u \in RowsOf(c)' : t = u
    BY <1>3 DEF IdempotentUnlessDisturbed
  <2>1. Of(c)' = Of(c)
    BY <1>3 DEF Of
  <2>2. CASE c = b
    <3>1. RowsOf(c) = {}
      BY <1>13, <2>2 DEF IInv, OneRowInv
    <3>2. \A t \in Of(c) : rows[t] = 0
      BY <3>1 DEF IInv, TypeOK, RowsOf, Of
    <3>3. \A t \in Of(c) : rows'[t] <= 1
      BY <1>8, <3>2 DEF Of
    <3>4. RowsOf(c)' = {s}
      BY <1>10, <2>2, <3>1
    <3> QED BY <2>1, <3>3, <3>4
  <2>3. CASE c # b
    <3>1. \A t \in Of(c) : t # s
      BY <1>2, <2>3 DEF Of
    <3>2. \A t \in Of(c) : rows'[t] = rows[t]
      BY <1>8, <3>1 DEF Of
    <3> QED BY <1>11, <2>1, <2>3, <3>2 DEF IInv, RecordsInv, IdempotentUnlessDisturbed
  <2> QED BY <2>2, <2>3
<1> QED BY <1>6, <1>7, <1>14, <1>15, <1>16, <1>17 DEF IInv, RecordsInv

\* A new session has no row: rows belong to paid sessions.
LEMMA OpenSessionPreserves ==
  ASSUME IInv, NEW r \in Requests, OpenSession(r)
  PROVE  IInv'
<1>1. \A q \in Requests : request'[q].at = "confirming" => request'[q] = request[q]
  BY DEF IInv, TypeOK, OpenSession, Finish, Idle
<1>2. RequestType'
  <2>1. RequestType
    BY DEF IInv, TypeOK, RequestType
  <2> QED BY <2>1, FinishType DEF OpenSession
<1>3. CASE UNCHANGED session
  <2>1. TypeOK'
    BY <1>2, <1>3 DEF IInv, TypeOK, RequestType, OpenSession, tables
  <2> QED BY <1>1, <1>3, <2>1, Aside DEF OpenSession, tables, IInv
<1>4. ASSUME NEW s \in Sessions, session[s].state = "none",
             session' = [session EXCEPT ![s] = Opened(request[r].booking)]
      PROVE  IInv'
  <2>1. request[r].booking \in Bookings
    BY DEF IInv, TypeOK, OpenSession
  <2>2. /\ session'[s] = [state |-> "open", booking |-> request[r].booking]
        /\ \A t \in Sessions : t # s => session'[t] = session[t]
    BY <1>4 DEF Opened, IInv, TypeOK
  <2>3. TypeOK'
    <3>1. session' \in [Sessions -> [state : {"none", "open", "paid"}, booking : Bookings \cup {None}]]
      BY <1>4, <2>1 DEF Opened, IInv, TypeOK
    <3>2. \A t \in Sessions : session'[t].state # "none" => session'[t].booking \in Bookings
      BY <2>1, <2>2 DEF IInv, TypeOK
    <3> QED BY <1>2, <3>1, <3>2 DEF IInv, TypeOK, RequestType, OpenSession, tables
  <2>4. rows[s] = 0
    BY <1>4 DEF IInv, TypeOK, RecordsInv, PaymentIsCharged
  <2>5. RequestInv' /\ EventInv'
    <3>1. RequestInv'
      BY <1>1, <1>4, <2>2 DEF IInv, RequestInv
    <3>2. EventInv'
      BY <1>4, <2>2 DEF IInv, TypeOK, EventInv, OpenSession
    <3> QED BY <3>1, <3>2
  <2>6. \A b \in Bookings : RowsOf(b)' = RowsOf(b) /\ Confirming(b)' \subseteq Confirming(b)
    <3>1. \A b \in Bookings : RowsOf(b)' = RowsOf(b)
      BY <2>2, <2>4 DEF RowsOf, Of, OpenSession, tables
    <3>2. \A b \in Bookings : Confirming(b)' \subseteq Confirming(b)
      BY <1>1 DEF Confirming
    <3> QED BY <3>1, <3>2
  <2>7. OneRowInv'
    BY <2>6 DEF IInv, OneRowInv, OpenSession, tables
  <2>8. UNCHANGED <<status, rows, disturbed>>
    BY DEF OpenSession, tables
  <2>9. SuccessHasRow' /\ PaymentIsCharged'
    BY <1>4, <2>2, <2>4, <2>6, <2>8 DEF IInv, RecordsInv, SuccessHasRow, PaymentIsCharged
  <2>10. IdempotentUnlessDisturbed'
    <3>1. \A b \in Bookings : \A t \in Of(b)' : t = s \/ t \in Of(b)
      BY <2>2 DEF Of
    <3> QED BY <2>4, <2>6, <2>8, <3>1 DEF IInv, RecordsInv, IdempotentUnlessDisturbed
  <2> QED BY <2>3, <2>5, <2>7, <2>9, <2>10 DEF IInv, RecordsInv
<1> QED BY <1>3, <1>4 DEF OpenSession

-----------------------------------------------------------------------------
\* IInv is inductive: it holds before the first booking and every step keeps it.
LEMMA InitIInv == Init => IInv
  BY PaymentsAssumption DEF Init, IInv, TypeOK, Step, Idle, RequestInv, EventInv, OneRowInv,
     Confirming, RecordsInv, SuccessHasRow, PaymentIsCharged, IdempotentUnlessDisturbed,
     RowsOf, Of

LEMMA NextIInv == IInv /\ [Next]_vars => IInv'
<1> SUFFICES ASSUME IInv, [Next]_vars PROVE IInv'
  OBVIOUS
<1>1. CASE UNCHANGED vars
  BY <1>1, Aside DEF vars, tables, IInv, TypeOK
<1>2. CASE Next
  BY <1>2, CreateCheckoutSessionPreserves, PayPendingBookingPreserves, CancelPreserves,
     WebhookPreserves, SuccessPagePreserves, OpenSessionPreserves, SaveConfirmationPreserves,
     SaveCancellationPreserves, SaveFailsPreserves, PayPreserves, AgePreserves DEF Next
<1> QED BY <1>1, <1>2

\* IInv holds in every reachable state.
THEOREM PaymentsInvariant == Spec => []IInv
  BY InitIInv, NextIInv, PTL DEF Spec

\* Type correctness: a session always carries the booking it was opened for.
THEOREM PaymentsTypeCorrect == Spec => []TypeOK
<1>1. IInv => TypeOK
  BY DEF IInv
<1> QED BY <1>1, PaymentsInvariant, PTL

\* A booking whose Status is Success has a row in Payments, of a session that
\* Stripe reports paid.
THEOREM ConfirmedBookingsArePaid == Spec => []ConfirmedIsPaid
<1>1. IInv => ConfirmedIsPaid
  BY DEF IInv, RecordsInv, SuccessHasRow, PaymentIsCharged, ConfirmedIsPaid, RowsOf, Of
<1> QED BY <1>1, PaymentsInvariant, PTL

\* A row in Payments belongs to a session that Stripe reports paid.
THEOREM PaymentsAreCharged == Spec => []PaymentIsCharged
<1>1. IInv => PaymentIsCharged
  BY DEF IInv, RecordsInv
<1> QED BY <1>1, PaymentsInvariant, PTL

\* Without cancellation and overlap the confirmation is idempotent.
THEOREM ConfirmationIdempotent == Spec => []IdempotentUnlessDisturbed
<1>1. IInv => IdempotentUnlessDisturbed
  BY DEF IInv, RecordsInv
<1> QED BY <1>1, PaymentsInvariant, PTL

=============================================================================
