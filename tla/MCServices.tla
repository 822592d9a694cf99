----------------------------- MODULE MCServices -----------------------------
(***************************************************************************)
(* Instances of the components that share no state with one another: each  *)
(* behaviour chooses one of them, its area, and leaves the others at rest. *)
(***************************************************************************)
EXTENDS CachedReads, LoginLockout, Deliveries, SlotGeneration, ApiClients,
        PaymentGateway, SlotHolds, TLC

CONSTANTS q1, q2, q3, tab1, tab2, email, phone

VARIABLE area

MCTab == q1 :> tab1 @@ q2 :> tab1 @@ q3 :> tab2
MCChain == email :> <<"smtp", "resend">> @@ phone :> <<"fcm", "onesignal">>
MCRuleChoices ==
    {[day |-> 0, start |-> 0, end |-> 2, duration |-> 2],
     [day |-> 0, start |-> 1, end |-> 4, duration |-> 2],
     [day |-> 1, start |-> 0, end |-> 3, duration |-> 1]}
MCClosures == {<<1, 2>>}
\* The clock shows 5 at 4 and again at 5.
MCWindows == {<<0, 4>>, <<0, 5>>, <<4, 8>>, <<5, 8>>, <<8, 2>>}

Areas ==
    {"reads", "lockout", "deliveries", "slots", "clients", "payments", "holds"}

ServicesInit ==
    /\ area \in Areas
    /\ ReadInit
    /\ LockoutInit
    /\ DeliveryInit
    /\ SlotInit
    /\ ClientInit
    /\ GatewayInit
    /\ HoldInit
    /\ area # "reads" => key = "users"
    /\ area # "deliveries" => configured = {} /\ ~printing
    /\ area # "clients" => client = "web"
    /\ area # "payments" => gateway = "esewa"

ReadsArea ==
    /\ area = "reads"
    /\ ReadNext
    /\ UNCHANGED <<area, lockoutVars, deliveryVars, slotVars, clientVars,
                   gatewayVars, holdVars>>

LockoutArea ==
    /\ area = "lockout"
    /\ LockoutNext
    /\ UNCHANGED <<area, readVars, deliveryVars, slotVars, clientVars,
                   gatewayVars, holdVars>>

DeliveriesArea ==
    /\ area = "deliveries"
    /\ DeliveryNext
    /\ UNCHANGED <<area, readVars, lockoutVars, slotVars, clientVars,
                   gatewayVars, holdVars>>

\* Once mixed, always mixed; WindowsCompose looks at the rules and exceptions only, and
\* is checked for those that a mixed state is first reached with.
SlotsArea ==
    /\ area = "slots"
    /\ ~mixed
    /\ SlotNext
    /\ UNCHANGED <<area, readVars, lockoutVars, deliveryVars, clientVars,
                   gatewayVars, holdVars>>

ClientsArea ==
    /\ area = "clients"
    /\ ClientNext
    /\ UNCHANGED <<area, readVars, lockoutVars, deliveryVars, slotVars,
                   gatewayVars, holdVars>>

PaymentsArea ==
    /\ area = "payments"
    /\ GatewayNext
    /\ UNCHANGED <<area, readVars, lockoutVars, deliveryVars, slotVars,
                   clientVars, holdVars>>

\* Once a hold has been taken away, no promise is left that later steps could break.
HoldsArea ==
    /\ area = "holds"
    /\ ~taken
    /\ HoldNext
    /\ UNCHANGED <<area, readVars, lockoutVars, deliveryVars, slotVars,
                   clientVars, gatewayVars>>

ServicesNext ==
    \/ ReadsArea
    \/ LockoutArea
    \/ DeliveriesArea
    \/ SlotsArea
    \/ ClientsArea
    \/ PaymentsArea
    \/ HoldsArea

\* The fairness of each component, in its area.
ServicesFairness ==
    /\ \A p \in Readers : WF_readVars(area = "reads" /\ Keep(p))
    /\ \A w \in Writers : WF_readVars(area = "reads" /\ Clear(w))
    /\ WF_readVars(area = "reads" /\ Expire)
    /\ WF_lockoutVars(area = "lockout" /\ GrowOlder)
    /\ \A q \in Sends : WF_clientVars(area = "clients" /\ Proceeds(q))

servicesVars == <<area, readVars, lockoutVars, deliveryVars, slotVars,
                  clientVars, gatewayVars, holdVars>>

ServicesSpec == ServicesInit /\ [][ServicesNext]_servicesVars /\ ServicesFairness
=============================================================================
