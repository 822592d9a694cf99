----------------------------- MODULE Deliveries -----------------------------
(***************************************************************************)
(* What becomes of a notification: its row is committed, a task is put on  *)
(* the Celery queue for every enabled channel, and a worker offers the     *)
(* message to the providers of the channel, one after the other, until one *)
(* of them says that it has been sent.                                     *)
(*                                                                         *)
(* Channels are "email", "sms" and one push channel for each device, and   *)
(* the mails of the accounts, which are queued with send_email_task, too.  *)
(* A mail is printed, and not sent, where mails are switched off and DEBUG *)
(* is on; else its template is rendered before any provider is called. The *)
(* broker hands a task to a worker once (acknowledged on receipt).  The    *)
(* WebSocket push goes through ConnectionManager.                          *)
(***************************************************************************)
EXTENDS Naturals, Sequences, SequencesExt

CONSTANTS
    Channels,
    Chain,          \* Chain[c]: the active provider of c and its fallbacks, in order,
                    \* each of them once (_provider_chain)
    Mails,          \* the channels whose task is send_email_task
    Templates,      \* those of them whose template the worker finds: the directory that
                    \* notification/tasks.py names for the mail of a notification
                    \* does not exist
    Retried,        \* providers whose HTTP request is sent again when it fails
    Retries         \* HTTP_RETRY_COUNT

ASSUME ChainAssumption == \A c \in Channels : Chain[c] \in Seq(STRING)
ASSUME RetriesAssumption == Retries \in Nat
ASSUME MailsAssumption == Templates \subseteq Mails /\ Mails \subseteq Channels

VARIABLES
    configured,     \* the providers whose settings are complete
    printing,       \* EMAIL_ENABLED is off and DEBUG is on
    note,           \* "none", "stored" (committed, being handed over) or "done"
    enabled,        \* the channels the preference had enabled
    task,           \* task[c]: "none", "queued", "running", "lost", or its result: TRUE as
                    \* "success" or "printed", FALSE as "failure" or "unrendered"
    chain,          \* chain[c]: the providers the task has still to try
    tries,          \* tries[c]: how often the first of them has been called
    copies,         \* copies[c]: how often the message has reached the recipient
    unheard,        \* unheard[c]: copies whose confirmation was lost
    called          \* called[c]: the providers that have been called

deliveryVars == <<configured, printing, note, enabled, task, chain, tries, copies,
                  unheard, called>>

Providers == UNION {ToSet(Chain[c]) : c \in Channels}

Tries(p) == IF p \in Retried THEN Retries + 1 ELSE 1

DeliveryInit ==
    /\ configured \in SUBSET Providers
    /\ printing \in BOOLEAN
    /\ printing => "smtp" \notin configured
    /\ note = "none"
    /\ enabled = {}
    /\ task = [c \in Channels |-> "none"]
    /\ chain = [c \in Channels |-> <<>>]
    /\ tries = [c \in Channels |-> 0]
    /\ copies = [c \in Channels |-> 0]
    /\ unheard = [c \in Channels |-> 0]
    /\ called = [c \in Channels |-> {}]

-----------------------------------------------------------------------------
(* The request.                                                            *)

\* create_notification, up to the commit of the row, and the preference.
CreateNotification ==
    /\ note = "none"
    /\ note' = "stored"
    /\ enabled' \in SUBSET Channels
    /\ UNCHANGED <<configured, printing, task, chain, tries, copies, unheard, called>>

\* _push_to_email, _push_to_devices, _push_to_sms: delay() puts the task on the queue;
\* an exception is caught for each channel by itself.
Enqueue(c) ==
    /\ note = "stored"
    /\ c \in enabled /\ task[c] = "none"
    /\ \E outcome \in {"queued", "lost"} : task' = [task EXCEPT ![c] = outcome]
    /\ UNCHANGED <<configured, printing, note, enabled, chain, tries, copies, unheard, called>>

\* All channels have been looked at, or the process has died.
HandedOver ==
    /\ note = "stored"
    /\ note' = "done"
    /\ UNCHANGED <<configured, printing, enabled, task, chain, tries, copies, unheard, called>>

-----------------------------------------------------------------------------
(* The worker.                                                             *)

\* A result, and nothing left to try.
Returns(c, result) ==
    /\ task' = [task EXCEPT ![c] = result]
    /\ chain' = [chain EXCEPT ![c] = <<>>]
    /\ tries' = [tries EXCEPT ![c] = 0]

\* send_email_task without mails: the lines on the terminal are the success.
PrintOnly(c) ==
    /\ task[c] = "queued" /\ c \in Mails /\ printing
    /\ Returns(c, "printed")
    /\ UNCHANGED <<configured, printing, note, enabled, copies, unheard, called>>

\* The template is not found or cannot be rendered, which the task turns into FALSE.
CannotRender(c) ==
    /\ task[c] = "queued" /\ c \in Mails /\ ~printing
    /\ Returns(c, "unrendered")
    /\ UNCHANGED <<configured, printing, note, enabled, copies, unheard, called>>

\* The chain of the channel, once a mail is rendered.
Start(c) ==
    /\ task[c] = "queued"
    /\ c \in Mails => ~printing /\ c \in Templates
    /\ task' = [task EXCEPT ![c] = "running"]
    /\ chain' = [chain EXCEPT ![c] = Chain[c]]
    /\ UNCHANGED <<configured, printing, note, enabled, tries, copies, unheard, called>>

\* The loop passes over a provider that is not configured.
PassesOver(c) ==
    /\ task[c] = "running"
    /\ chain[c] # <<>> /\ Head(chain[c]) \notin configured
    /\ chain' = [chain EXCEPT ![c] = Tail(@)]
    /\ UNCHANGED <<configured, printing, note, enabled, task, tries, copies, unheard, called>>

\* The first provider of the chain is called.
CallsFirst(c) ==
    /\ task[c] = "running"
    /\ chain[c] # <<>> /\ Head(chain[c]) \in configured
    /\ called' = [called EXCEPT ![c] = @ \cup {Head(chain[c])}]

TriesNext(c) ==
    /\ chain' = [chain EXCEPT ![c] = Tail(@)]
    /\ tries' = [tries EXCEPT ![c] = 0]
    /\ UNCHANGED task

\* Mutant: the message counts as sent when the provider has answered.
TakenAsSent(c) ==
    /\ CallsFirst(c)
    /\ Returns(c, "success")
    /\ UNCHANGED <<configured, printing, note, enabled, copies, unheard>>

\* The provider sends the message and says so.
Delivers(c) ==
    /\ CallsFirst(c)
    /\ copies' = [copies EXCEPT ![c] = @ + 1]
    /\ Returns(c, "success")
    /\ UNCHANGED <<configured, printing, note, enabled, unheard>>

\* It answers with an error that no retry helps against (a 4xx, a result without
\* success, an exception of its SDK): the next one is tried.
Refuses(c) ==
    /\ CallsFirst(c)
    /\ TriesNext(c)
    /\ UNCHANGED <<configured, printing, note, enabled, copies, unheard>>

\* Mutant: the last attempt is the last provider.
GivesUp(c) ==
    /\ CallsFirst(c)
    /\ \E sent \in 0..1 :
        /\ copies' = [copies EXCEPT ![c] = @ + sent]
        /\ unheard' = [unheard EXCEPT ![c] = @ + sent]
    /\ IF tries[c] + 1 < Tries(Head(chain[c]))
       THEN tries' = [tries EXCEPT ![c] = @ + 1] /\ UNCHANGED <<task, chain>>
       ELSE Returns(c, "failure")
    /\ UNCHANGED <<configured, printing, note, enabled>>

\* Nothing, or a 502, 503 or 504, comes back, be the message sent or not: retry_sync
\* calls again, and raises after the last attempt.
NoAnswer(c) ==
    /\ CallsFirst(c)
    /\ \E sent \in 0..1 :
        /\ copies' = [copies EXCEPT ![c] = @ + sent]
        /\ unheard' = [unheard EXCEPT ![c] = @ + sent]
    /\ IF tries[c] + 1 < Tries(Head(chain[c]))
       THEN tries' = [tries EXCEPT ![c] = @ + 1] /\ UNCHANGED <<task, chain>>
       ELSE TriesNext(c)
    /\ UNCHANGED <<configured, printing, note, enabled>>

\* last_result: nobody was configured, or everybody has failed.
Exhausted(c) ==
    /\ task[c] = "running" /\ chain[c] = <<>>
    /\ Returns(c, "failure")
    /\ UNCHANGED <<configured, printing, note, enabled, copies, unheard, called>>

\* The worker dies or the time limit of the task ends: no worker gets the task again.
WorkerDies(c) ==
    /\ task[c] \in {"queued", "running"}
    /\ Returns(c, "lost")
    /\ UNCHANGED <<configured, printing, note, enabled, copies, unheard, called>>

DeliveryNext ==
    \/ CreateNotification
    \/ HandedOver
    \/ \E c \in Channels :
          Enqueue(c) \/ PrintOnly(c) \/ CannotRender(c) \/ Start(c) \/ PassesOver(c)
            \/ Delivers(c) \/ Refuses(c) \/ NoAnswer(c) \/ Exhausted(c) \/ WorkerDies(c)

DeliverySpec == DeliveryInit /\ [][DeliveryNext]_deliveryVars

-----------------------------------------------------------------------------
(* Properties.                                                             *)

\* What the task has returned.
Succeeded(c) == task[c] \in {"success", "printed"}
Failed(c) == task[c] \in {"failure", "unrendered"}

\* The recipient gets the message once more than confirmations were lost, at most;
\* a task that reports success has delivered it, but for a mail that was only printed,
\* and one that reports failure has delivered nothing that was confirmed.
CopiesAccounted ==
    \A c \in Channels :
        /\ copies[c] <= unheard[c] + 1
        /\ Succeeded(c) => \/ copies[c] = unheard[c] + 1
                           \/ c \in Mails /\ printing /\ copies[c] = 0
        /\ Failed(c) => copies[c] = unheard[c]

\* A task fails only when every configured provider of its channel has been called,
\* but for a mail that could not be rendered: then none of them has been.
FailsAfterAll ==
    \A c \in Channels : Failed(c) =>
        \/ called[c] = ToSet(Chain[c]) \cap configured
        \/ c \in Mails /\ task[c] = "unrendered" /\ called[c] = {}
=============================================================================
