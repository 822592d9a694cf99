---------------------------- MODULE BookingLedger ----------------------------
(***************************************************************************)
(* What the booking service promises about each booking and its money,     *)
(* and nothing about slots, holds, waitlists, clocks or payment providers: *)
(* a booking is opened at a price, every confirmation credits that price   *)
(* to the provider's payouts, and a refund is given only for ending a      *)
(* confirmation, at most its price.  A cancelled booking can be confirmed  *)
(* again by a late callback, and is then credited again.  What is not      *)
(* promised is this of a booking whose cancellation other requests have    *)
(* crossed: each such cancellation may refund up to the price once more.   *)
(*                                                                         *)
(* One step may concern several bookings: a cancellation opens a booking   *)
(* for the waitlist, a recurring request opens many.                       *)
(***************************************************************************)
EXTENDS Integers

CONSTANT Bookings

VARIABLES status, price, payout, refunded, crossed

ledgerVars == <<status, price, payout, refunded, crossed>>

Same(b) == /\ status'[b] = status[b]
           /\ price'[b] = price[b]
           /\ payout'[b] = payout[b]
           /\ refunded'[b] = refunded[b]

Open(b) == /\ status[b] = "absent" /\ status'[b] = "pending"
           /\ price'[b] \in Nat
           /\ payout'[b] = payout[b]
           /\ refunded'[b] = refunded[b]

Confirm(b) == /\ status[b] # "absent" /\ status'[b] = "confirmed"
              /\ price'[b] = price[b]
              /\ payout'[b] = payout[b] + price[b]
              /\ refunded'[b] = refunded[b]

Lapse(b) == /\ status[b] = "pending" /\ status'[b] = "cancelled"
            /\ price'[b] = price[b]
            /\ payout'[b] = payout[b]
            /\ refunded'[b] = refunded[b]

Revoke(b) == /\ status[b] = "confirmed" /\ status'[b] = "cancelled"
             /\ price'[b] = price[b]
             /\ payout'[b] = payout[b]
             /\ refunded'[b] - refunded[b] \in 0 .. price[b]

RevokeAgain(b) == /\ b \in crossed'
                  /\ status[b] # "absent" /\ status'[b] = "cancelled"
                  /\ price'[b] = price[b]
                  /\ payout'[b] = payout[b]
                  /\ refunded'[b] - refunded[b] \in 0 .. price[b]

LedgerInit ==
    /\ status = [b \in Bookings |-> "absent"]
    /\ price = [b \in Bookings |-> 0]
    /\ payout = [b \in Bookings |-> 0]
    /\ refunded = [b \in Bookings |-> 0]
    /\ crossed = {}

LedgerNext ==
    /\ status' \in [Bookings -> {"absent", "pending", "confirmed", "cancelled"}]
    /\ price' \in [Bookings -> Nat]
    /\ payout' \in [Bookings -> Nat]
    /\ refunded' \in [Bookings -> Nat]
    /\ crossed \subseteq crossed' /\ crossed' \subseteq Bookings
    /\ \A b \in Bookings :
          Same(b) \/ Open(b) \/ Confirm(b) \/ Lapse(b) \/ Revoke(b) \/ RevokeAgain(b)

LedgerSpec == LedgerInit /\ [][LedgerNext]_ledgerVars
=============================================================================
