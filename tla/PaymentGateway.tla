--------------------------- MODULE PaymentGateway ---------------------------
(***************************************************************************)
(* One payment at a gateway and its payment_transactions row: initiation   *)
(* is a call to the gateway and then a commit, verification a call that    *)
(* asks for the state of the payment and then a commit of what it means.   *)
(* What a verification does to the booking is in BookingLifecycle.         *)
(*                                                                         *)
(* The gateway changes the payment whenever it likes, and its answers take *)
(* time.  The row's identifier at the gateway is never that of another.    *)
(*                                                                         *)
(* Not every answer is the gateway's.  Where eSewa's status API does not   *)
(* say anything the callback does, whoever has sent it: its signature is   *)
(* looked at only if it has one.  And a Stripe session that is complete is *)
(* taken to be paid.                                                       *)
(***************************************************************************)
CONSTANTS Verifications     \* verifications that may be in progress together

VARIABLES
    gateway,        \* the PaymentProvider of the row
    remote,         \* the payment at the gateway
    row,            \* the committed status, or "none"
    answer,         \* answer[v]: the status v is about to commit, or "none"
    paid,           \* the gateway has captured the money
    words,          \* the verifications whose answer is not the gateway's own
    unproven,       \* such an answer is what the row says
    together        \* two verifications have been in progress together

gatewayVars == <<gateway, remote, row, answer, paid, words, unproven, together>>

Gateways == {"khalti", "esewa", "stripe", "paypal"}

\* The names each gateway has for the states of a payment, and what status_map and
\* _STATUS_MAP make of them; a name that is not in the map means failed.  A pending
\* payment at Stripe is a session that is complete and unpaid: payment_status is looked
\* at only after the map has said completed.
StatusMap ==
    [khalti |-> [open |-> "failed", pending |-> "pending", paid |-> "completed",
                 expired |-> "failed", canceled |-> "cancelled", refunded |-> "refunded"],
     esewa  |-> [open |-> "failed", pending |-> "pending", paid |-> "completed",
                 expired |-> "failed", canceled |-> "cancelled", refunded |-> "refunded"],
     stripe |-> [open |-> "pending", pending |-> "completed", paid |-> "completed",
                 expired |-> "failed", canceled |-> "failed", refunded |-> "completed"]]

GatewayInit ==
    /\ gateway \in Gateways
    /\ remote = "none"
    /\ row = "none"
    /\ answer = [v \in Verifications |-> "none"]
    /\ paid = FALSE
    /\ words = {}
    /\ unproven = FALSE
    /\ together = FALSE

-----------------------------------------------------------------------------
(* POST /payments/initiate/                                                *)

\* The call.  eSewa is not called: the customer's browser submits a signed form.
CreateRemote ==
    /\ remote = "none" /\ row = "none"
    /\ gateway # "esewa"
    /\ remote' = "open"
    /\ UNCHANGED <<gateway, row, answer, paid, words, unproven, together>>

\* Khalti (which wants 1000 paisa at least) and PayPal leave a row that has failed, an
\* exception of Stripe's leaves nothing.
RefuseRemote ==
    /\ remote = "none" /\ row = "none"
    /\ gateway \in {"khalti", "paypal"}
    /\ row' = "failed"
    /\ UNCHANGED <<gateway, remote, answer, paid, words, unproven, together>>

\* The commit.  Without it the payment at the gateway stays, and nobody knows of it.
StoreTransaction ==
    /\ row = "none"
    /\ remote = "open" \/ gateway = "esewa"
    /\ row' = "initiated"
    /\ remote' = "open"
    /\ UNCHANGED <<gateway, answer, paid, words, unproven, together>>

-----------------------------------------------------------------------------
(* The customer, who has the URL once the row is there, and the gateway.   *)

Becomes(from, to) ==
    /\ row # "none"
    /\ remote \in from
    /\ remote' = to
    /\ paid' = (paid \/ to = "paid")
    /\ UNCHANGED <<gateway, row, answer, words, unproven, together>>

\* PayPal captures the money when the payment is executed, the others by themselves.
Pay ==
    \/ gateway = "paypal" /\ Becomes({"open"}, "approved")
    \/ gateway # "paypal" /\ \E to \in {"pending", "paid"} : Becomes({"open"}, to)
    \/ Becomes({"pending"}, "paid")

\* Who turns back from Stripe leaves the session open; a session that is complete
\* remains so, even if its payment fails.
Cancel == gateway # "stripe" /\ Becomes({"open"}, "canceled")
ExpireRemote ==
    \/ Becomes({"open"}, "expired")
    \/ gateway # "stripe" /\ Becomes({"pending", "approved"}, "expired")
RefundRemote == Becomes({"paid"}, "refunded")

-----------------------------------------------------------------------------
(* POST /payments/verify/                                                  *)

Learns(v, status) ==
    /\ answer[v] = "none"
    /\ row # "none" /\ remote # "none"
    /\ answer' = [answer EXCEPT ![v] = status]
    /\ together' = (together \/ \E x \in Verifications : answer[x] # "none")
    /\ UNCHANGED <<gateway, row, unproven>>

\* Khalti's lookup and Stripe's session.
LookUp(v) ==
    /\ gateway \in {"khalti", "stripe"}
    /\ Learns(v, StatusMap[gateway][remote])
    /\ words' = IF gateway = "stripe" /\ remote = "pending" THEN words \cup {v} ELSE words
    /\ UNCHANGED <<remote, paid>>

\* eSewa's callback, which may come from anywhere at any time, and the status API.  The
\* callback says what becomes of the row when the API does not answer with a status, or
\* is asked for the callback's amount instead of the payment's.
CheckCallback(v) ==
    /\ gateway = "esewa"
    /\ \/ Learns(v, StatusMap[gateway][remote]) /\ UNCHANGED words
       \/ \E status \in {"completed", "pending", "refunded", "failed", "cancelled"} :
             Learns(v, status) /\ words' = words \cup {v}
    /\ UNCHANGED <<remote, paid>>

\* Mutant: what has been approved counts as completed.
TakeApproval(v) ==
    /\ gateway = "paypal"
    /\ remote = "approved"
    /\ Learns(v, "completed")
    /\ UNCHANGED <<remote, paid, words>>

\* PayPal executes what has been approved, once; the sale is completed, or pending
\* still.  Anything else it refuses, so that a row that is pending remains so.
Execute(v) ==
    /\ gateway = "paypal"
    /\ remote = "approved"
    /\ \/ remote' = "paid" /\ paid' = TRUE /\ Learns(v, "completed")
       \/ remote' = "pending" /\ UNCHANGED paid /\ Learns(v, "pending")
    /\ UNCHANGED words

\* The commit of the row, in a transaction of its own.
CommitStatus(v) ==
    /\ answer[v] # "none"
    /\ row' = answer[v]
    /\ answer' = [answer EXCEPT ![v] = "none"]
    /\ unproven' = (v \in words)
    /\ words' = words \ {v}
    /\ UNCHANGED <<gateway, remote, paid, together>>

\* An exception, or the end of the process, between the answer and the commit.
LoseAnswer(v) ==
    /\ answer[v] # "none"
    /\ answer' = [answer EXCEPT ![v] = "none"]
    /\ words' = words \ {v}
    /\ UNCHANGED <<gateway, remote, row, paid, unproven, together>>

GatewayNext ==
    \/ CreateRemote \/ RefuseRemote \/ StoreTransaction
    \/ Pay \/ Cancel \/ ExpireRemote \/ RefundRemote
    \/ \E v \in Verifications :
          LookUp(v) \/ CheckCallback(v) \/ Execute(v) \/ CommitStatus(v) \/ LoseAnswer(v)

GatewaySpec == GatewayInit /\ [][GatewayNext]_gatewayVars

-----------------------------------------------------------------------------
(* Properties.                                                             *)

\* Whatever Khalti and PayPal are asked is answered by them; a row says what they did
\* not say only where a callback or a complete session was believed.
\*
\* A row becomes completed only when the gateway has the customer's money, and stops
\* being so only when the money has been given back, unless two verifications were in
\* progress together: the one that asked first may commit last.  The next answer of the
\* gateway puts right what was believed.
RowFollowsMoney ==
    [][/\ row' = "completed" => paid \/ unproven'
       /\ row = "completed" /\ row' # "completed" =>
             remote = "refunded" \/ together \/ unproven \/ unproven'
       /\ unproven' => gateway \in {"esewa", "stripe"}]_gatewayVars
=============================================================================
