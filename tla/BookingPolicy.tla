--------------------------- MODULE BookingPolicy ---------------------------
(***************************************************************************)
(* The fixed rules of the booking service: how long a hold lasts, how far  *)
(* ahead a slot may be booked, what a booking costs and what a             *)
(* cancellation pays back.  All times are minutes, all amounts are minor   *)
(* currency units, as in the code.                                         *)
(***************************************************************************)
EXTENDS Integers

\* ttl_seconds = 600 of POST /slots/{id}/hold and hold_minutes = 10 of a new booking.
HoldMinutes == 10

\* WAITLIST_PROMOTION_HOLD_MINUTES: what a promoted customer gets to pay.
PromotionMinutes == 30

\* MIN_ADVANCE_HOURS and MAX_ADVANCE_DAYS.
MinAdvance == 60
MaxAdvance == 90 * 24 * 60

\* BOOKING_WINDOW_VIOLATION is raised outside these lead times, both ends included.
InBookingWindow(startsAt, now) == (startsAt - now) \in MinAdvance .. MaxAdvance

\* The surcharge build_booking_quote adds for a group of size participants.
GroupSurcharge(size) == IF size > 1 THEN (size - 1) * 100 ELSE 0

\* Decimal(amount) * 0.5 rounded to an integer with ROUND_HALF_UP, for amount >= 0.
HalfRoundedUp(amount) == (amount + 1) \div 2

FullRefundLead == 24 * 60
HalfRefundLead == 60

\* calculate_refund_amount: both cut-offs are inclusive.
RefundAmount(amount, startsAt, cancelledAt) ==
    CASE cancelledAt <= startsAt - FullRefundLead -> amount
      [] /\ cancelledAt > startsAt - FullRefundLead
         /\ cancelledAt <= startsAt - HalfRefundLead -> HalfRoundedUp(amount)
      [] cancelledAt > startsAt - HalfRefundLead -> 0
=============================================================================
