# Slot booking: a TLA+ verification project

This directory holds TLA+ specifications of the slot-booking service under
`src/`, the TLC configurations that check them on small instances, and proofs
checked by TLAPS. The modules are translated from the code; where a document
says something else, the difference is a run of its own (see "Disagreements").

    tlc -workers 2 -config MCBookingLifecycle_payments.cfg MCBookingLifecycle
    tlc -workers 2 -config MCTokenSessions_tokens.cfg MCTokenSessions
    tlc -workers 2 -config MCPeople_people.cfg MCPeople
    tlc -workers 2 -config MCServices_services.cfg MCServices
    tlapm BookingSafetyProofs.tla       (and the seven other *Proofs.tla)

`PROJECT.json` lists every component, run, mutant, hazard and theorem, and maps
each definition to the lines of the code it models.

## 1. Inventory

The program is a FastAPI backend (`src/backend/src/apps`), a Next.js frontend
and a Flutter app. The backend keeps its state in PostgreSQL, in redis (slot
holds and caches), in a Casbin policy table and, for WebSockets, in memory.
Every HTTP handler gets one database session and commits it itself; rows are
never locked and carry no version.

| component | state | operations | what makes it hard | what makes it correct |
|---|---|---|---|---|
| Slot holds and slot status (`booking/api/v1/slots.py`, `booking_service.py`) | `Slot.status`, `Slot.hold_expires_at`, redis key `booking:slot-hold:{id}` | hold, release, list (opens lapsed holds) | two stores, a lease that runs out, three comparisons with the clock | a held slot is held for somebody; a hold ends |
| Bookings (`bookings.py`, `booking_service.py`) | `Booking`, `BookingSlot`, idempotency key | create, group, recurring, cancel, checkout | several slots in one transaction, replays, late payments, a cancellation decided on rows that change meanwhile | one claim per slot, status moves with slot and money |
| Quotes and promo codes (`build_booking_quote`) | `PromoCode` | quote | rounding, limits | bounds of the price |
| Waitlist (`waitlist.py`, `promote_waitlist_entries_for_slots`) | `WaitlistEntry` | join, update, withdraw, promote | promotion runs inside a cancellation | waiting customers come before the public, one slot each |
| Maintenance tasks (`booking/tasks.py`) | the rows above | release expired holds, promote, remind | run beside the handlers | pending bookings expire, nothing else does |
| Payments (`finance/api/v1/payment.py`, `finance/services/*`) | `PaymentTransaction`, `PaymentWebhook`, the provider's own record | initiate, verify | two commits, crashes, duplicated and reordered callbacks, an execution that works once, answers that are not the gateway's own | confirmed means captured, or said so by eSewa or Stripe |
| Refunds and payouts | `RefundRecord`, `Payout` | appended by cancel and verify | repeated confirmations, overlapping cancellations | no more refunds than confirmations |
| Slot generation and availability (`availability.py`, `generate_slots_for_resource`) | `AvailabilityRule`, `AvailabilityException`, `Slot` | generate, enter and change rules and exceptions | minutes and time zones with hours that are skipped or come twice, repeated and overlapping runs | no overlapping slots, generating by weeks is generating at once |
| Providers, resources, reviews, disputes, analytics | one row each | create, read, update | none beyond a row | - |
| Sessions and tokens (`iam/api/v1/auth`, `token_management.py`) | `TokenTracking` | login, refresh, logout, revoke | rotation read before commit, revocation by address, row locks | an exchanged refresh token stays revoked, one live pair per exchange and address, every request ends |
| Login attempts (`login.py`, `otp.py`) | `LoginAttempt` | password and code step of a sign-in | counted before committed, errors recorded as one more failure | a bounded number of failures in a window, a lockout that ends when it says |
| One-time tokens and OTP (`password.py`, `signup.py`, `otp.py`) | `UsedToken`, user row | reset, verify email, enable, verify and disable codes | check then insert, columns written by several requests | a link works once, a secret is proven before it is asked for |
| Role-based access control (`rbac.py`, `utils/rbac.py`, Casbin) | role rows and policy tuples | assign, revoke, grant, delete a user | two stores, one transaction each; a deletion that writes one of them | rows and policy agree |
| Tenants, members, invitations (`tenant.py`) | `TenantMember`, `TenantInvitation`, policy | invite, accept, change role, leave | count then delete, compensation of the policy | an owner remains |
| WebSocket connections (`websocket/manager.py`) | connections, rooms, presence, in memory | connect, join, leave, broadcast, disconnect | coroutines interleave at every await | rooms hold only connected users |
| WebSocket encryption | session keys | encrypt, decrypt | cryptography | - |
| Notifications and devices (`notification/`) | device, preference and notification rows | register, remove, set preferences, create | three transactions for one change | the preference repeats what the devices say |
| Communications providers and mail tasks (`communications/`, `core/tasks.py`) | configuration, tasks | send through a chain of providers | retries and fallback after a lost answer, tasks lost with a worker, mails that are printed or cannot be rendered | copies are accounted for, a failure has tried everything |
| Cache (`core/cache.py` and its users) | keys in Redis with a time to live | answer from the cache, clear after a change | reader overtaken by a writer, failed or forgotten clears | an answer is right or a named reason says why not, and gets right |
| Observability (`observability/`) | `LogEntry`, `SecurityIncident` | log, count, open and review incidents, prune | signals of requests that overlap, counts before commits | one active incident, no lost occurrence, no unnoticed burst |
| Settings, storage, product analytics | write-mostly stores | read, write | I/O | - |
| Web and mobile API clients (`api-client.ts`, `dio_client.dart`) | the stored tokens, the queue of an exchange | call the API, exchange on 401 | many requests wait for one exchange, tabs share the storage | nobody is signed out by the client itself, no request waits for ever |
| Web and mobile user interface | pages | show | - | - |
| Migrations, deployment, scripts | - | - | - | - |

How the components meet: a hold, a booking, a cancellation, the listing, the
two tasks and the verification of a payment all write `Slot.status`; bookings
look at the redis key of the slot; a verification writes booking, slot and
payout; a cancellation writes the refund and runs the waitlist promotion in the
same transaction; a promotion opens bookings. That shared state is why the core
below is one module and not one per endpoint.

`src/backend/src/apps/core/celery_app.py` neither includes `booking.tasks` nor
gives them a beat schedule: the maintenance tasks exist, but nothing in the
repository runs them. They are actions here, with no fairness.

## 2. Modules

| module | what it is |
|---|---|
| `BookingPolicy` | the constants and the arithmetic of the booking rules: hold and promotion times, booking window, group surcharge, refund amount |
| `BookingLifecycle` | slots, redis holds, bookings, waitlist entries, payment transactions and the provider's charges, under every handler and task that changes them |
| `BookingLedger` | the abstract specification: what a booking and its money may do, whatever slots, clocks and callbacks do |
| `MCBookingLifecycle` | the values of the constants for TLC |
| `BookingLifecycleProofs` | type correctness, for every value of the constants |
| `BookingSafetyProofs` | the safety invariants, the action properties and the implementation of the ledger, for every value of the constants |
| `TokenSessions` | the tracked tokens of one user, under requests interleaved at their SQL statements and row locks |
| `MCTokenSessions` | the values of its constants for TLC, and the initial state of the liveness run |
| `TokenSessionsProofs` | its type correctness and safety, for every value of the constants |
| `SlotHolds` | one slot, its row and its redis key, under handlers that overlap between their reads, redis calls and commits |
| `PaymentGateway` | one payment at Khalti, eSewa, Stripe or PayPal and its transaction row |
| `SlotGeneration` | availability rules, exceptions and the slots cut from them |
| `PolicyMirror` | rows of the database and tuples of Casbin under one kind of request: write, call, commit |
| `AccessControl`, `AccessControlProofs` | the handlers of tenants, members, invitations, roles and permissions, which prepare such requests; the proofs are about both modules |
| `AccountRecords`, `AccountRecordsProofs` | one account row with its links and its one-time password |
| `LoginLockout` | failed sign-ins and the lockout |
| `CachedReads` | every cached answer with its readers and writers |
| `ConnectionManager`, `ConnectionManagerProofs` | WebSocket connections, rooms and broadcasts |
| `Notifications` | devices and the preference that follows them |
| `Deliveries` | a notification on its way through queues, workers and providers |
| `Incidents` | log entries and security incidents |
| `ApiClients` | the token interceptors of both clients |
| `ServicesProofs` | the proofs about `SlotHolds`, `CachedReads`, `PaymentGateway`, `ApiClients`, `LoginLockout` and `SlotGeneration`, a part for each |
| `NoticesProofs` | the proofs about `Deliveries`, `Incidents` and `Notifications`, a part for each |
| `MCPeople` | instances of `AccessControl`, `ConnectionManager`, `AccountRecords`, `Notifications` and `Incidents` |
| `MCServices` | instances of `CachedReads`, `LoginLockout`, `Deliveries`, `SlotGeneration`, `ApiClients`, `PaymentGateway` and `SlotHolds` |

### BookingLifecycle

State: `slot[s]` and `hold[s]` are the row and the redis key of a slot,
`booking[k]` the booking whose idempotency key is `k` (the column is unique, so
the table is a function from the possible keys; `"absent"` before the insert),
`entry[e]` a waitlist entry, `tx[t]` a payment transaction, `charge[t]` what the
provider knows of it, `believed` the transactions that were said to be completed
while the charge was not paid, `verifying` the verifications that are between
their two commits, `cancelling` the cancellations that have read their rows and
not yet committed (history: `crossed`, the bookings for which one of them found
its rows changed when it wrote), `webhookKeys` and `webhooks` the webhook rows,
`payout[k]` and `refunded[k]` the sums of the payout and refund rows of a
booking, `now` the clock in minutes.

| action | code |
|---|---|
| `HoldSlot`, `ReleaseSlot`, `ListSlots` | `POST /slots/{id}/hold`, `/release`, `GET /slots` |
| `CreateBooking`, `CreateGroupBooking`, `CreateRecurringBookings` | `POST /bookings`, `/bookings/group`, `/bookings/recurring` |
| `JoinWaitlist`, `UpdateEntry`, `WithdrawEntry` | `POST`, `PATCH`, `DELETE /waitlist` |
| `CancelBooking` | `POST /bookings/{id}/cancel` with nothing in between: refund, release, promotion |
| `StartCancel`, `FinishCancel`, `AbandonCancel` | the same request when others commit between its reads and its commit, and one that fails |
| `ReleaseExpiredHolds`, `PromoteWaitlist` | the two maintenance tasks |
| `Checkout`, `InitiatePayment` | `POST /bookings/{id}/checkout`, `/payments/initiate` |
| `VerifyFetch` | the provider service's part of `POST /payments/verify`, up to its commit of the transaction row |
| `VerifyApply` | the endpoint's part, up to its own commit |
| `VerifyCrash` | the process dies, or the second commit fails |
| `CustomerActs`, `Tick` | the customer at the provider's site, and the clock |

`Bookable`, `Reserve`, `Promote`, `IsPromotion`, `ReadBy`, `WriteCancellation`,
`CancelledBooking`, `OpenedSlot`, `Settled` carry the names of what they do in
the services; `map` gives their lines. The operators marked `Mutant:` are no
part of `Next`. Each is a plausible wrong version of the definition after it,
kept to show that the property named in `PROJECT.json` notices the mistake.

What the module abstracts, and why:

- **One action per request**, with two exceptions. The verification of a payment
  commits twice and is split. A cancellation reads the booking and its slot with
  neither lock nor version, so it is split too: `StartCancel` keeps what it has
  read (`ReadBy`) and the refund it computed, `FinishCancel` writes. Like the
  session, `WriteCancellation` writes the columns whose value the cancellation
  has changed and no others, and the promotion sees the slot open whatever the
  row says by now. `CancelBooking` is both at once, which keeps the runs small
  where nothing comes in between. Once the first statement has written, the row
  locks of the database let others wait until the commit, so writing is one step.
  What comes of other handlers that read a slot before either commits, of a crash
  between the redis call and the commit of a hold and of the two redis calls of a
  release is in `SlotHolds`; here those handlers are one step each.
- **The idempotency key of a callback** is looked up before the provider is
  asked, in the same action `VerifyFetch`; the row with the key is written in
  `VerifyApply`. Any number of fetches with the same key may therefore be in
  flight before the first of them is applied.
- **Rejected requests** change nothing and have no action: an inactive
  resource, a slot of another resource, a wrong duration, somebody else's
  booking, an unknown key.
- **Providers** are of three kinds: `"lookup"` (Khalti), where verifying reads
  the state of a charge; `"execute"` (PayPal), where verifying captures it; and
  `"return"` (eSewa, Stripe), where any answer may come whatever the state of
  the charge is: eSewa's callback counts when its status API does not answer,
  and a session of Stripe's counts as completed when it is complete, paid or
  not. Which of these a gateway says when is in `PaymentGateway`, and so is the
  status column of the transaction row, of which only absent and initiated
  matter here. The provider status *refunded*, PayPal states other than approved
  and failed, an initiation the provider refuses, and payments without a booking
  leave bookings and slots alone and are in `PaymentGateway`.
- **Amounts** come from a set, which stands for the discount of a promo code.
  The price of a group or recurring booking is computed.
- **A hold of ten minutes** is the default of the endpoint and of a booking;
  a promoted booking gets thirty.
- **Keys of derived bookings** (group, recurring, waitlist) are the tuples the
  code formats into strings.
- Audit events, invoices, notifications, `external_payment_id` and the
  development mode without redis are left out.

- No code sets `SlotStatus.BLOCKED`, so the status is left out. The key of a
  group booking is built from the slot id as the client wrote it (a hashid or a
  number); here it is the slot.

### TokenSessions

The bookings and the sessions share nothing but the user's id, so the two
modules stand side by side. Here a request is not one action: the rotation of
tokens is where the code reads rows, then changes them, and relies on the
database in between. State: `token[x]` is the committed `is_active` of a
tracking row (`"unissued"` before the insert), `issued[p]` the address of a
pair of access and refresh token and the pair it was exchanged for, `request[r]`
a handler in progress: its step, its pairs, the rows it still has to write and
the rows it has locked.

| action | code |
|---|---|
| `SignIn` | `POST /auth/login`, the OTP step, signup, the social callback, up to `revoke_tokens_for_ip` |
| `RefreshRead`, `RefreshFlush` | `POST /auth/refresh`: the token is found active; its row is set inactive, which the session flushes before its next statement |
| `Scan` | the bulk UPDATE of `revoke_tokens_for_ip` starts and sees the committed rows |
| `Authenticate` | `get_current_user` |
| `Logout`, `RevokeToken`, `RevokeAll`, `ResetPassword` | the reads of logout, revoke, revoke-all, change-password and the password reset |
| `LockRow`, `SkipRow` | an UPDATE takes a row, or finds that it no longer matches |
| `Commit` | inserts the pair, if any, and commits |
| `DeadlockVictim`, `Abort` | the database fails one of the requests that block each other; any other exception, a refused request, a crash |

`LockedByOthers`, `Wanted`, `WaitsFor` and `Deadlocked` are the database, as
PostgreSQL behaves under READ COMMITTED: an UPDATE waits for a row somebody
else has changed and looks at it again when that transaction has ended. They
are marked external. SQLite, the database of a development setup, lets one
transaction write at a time; its behaviours are among these. The rows of an
UPDATE may be taken in any order, since the plan decides it. The password row,
which a password change and a reset write as well, is not modelled: it only
makes those two wait for each other. Tokens that expire keep their row as it is,
and an expired token has no step; log events and the cached token list are left
out.

### SlotHolds

`BookingLifecycle` has each handler as one step. Here a handler of one slot
reads the row, talks to redis and commits in steps of its own, and other
handlers come in between: `doing[r]` is a request in progress with the row it
has read, `slotKey` the redis key, `shown` the row (`"lapsed"` when held until
a time past), `running` and `told` the customers with a hold and those whose
request has said so. `StartHold`, `SetKey`, `CommitHold` are `hold_slot`;
`LookAtKey`, `DeleteKey` the two calls of `release_slot_hold`, which a release
and a booking share; `StartRelease`, `ReadReleased`, `CommitOpen` the release;
`StartList`, `CommitOpen` the listing; `StartBooking`, `ReadOwner`,
`CommitBooking` the booking. `Fail` ends a request anywhere. `Confirm` and
`CancelBookingOn` are what payments and cancellations make of the slot.
`outrun`, `taken` and `late` are history: a release that acts on a key gone
since, the hold it took away, and who read the row before it was booked.

### PaymentGateway

`remote` is the payment at the gateway, `row` the transaction row, `answer[v]`
what verification `v` is about to commit, `words` the verifications whose answer
is not the gateway's own and `unproven` that such an answer is what the row
says. `CreateRemote`, `RefuseRemote` and `StoreTransaction` are an initiation
(the last one its commit), `LookUp` the status request of Khalti and Stripe,
`CheckCallback` eSewa's: what the status API says, or what the callback says
where the API says nothing, `Execute` PayPal's execution, `CommitStatus` the
commit, `LoseAnswer` a timeout or the end of the process. `Pay`, `Cancel`,
`ExpireRemote` and `RefundRemote` are the gateway and its customer. `StatusMap`
keeps the tables of states, with Stripe's session that is complete and unpaid
among the completed ones (`pending`).

### SlotGeneration

Times are units, days have `DayLength` of them. The wall clock of the resource is
put forward once (at `ForwardAt`, by `Shift`) and back once (at `BackAt`), so that
some of its times are skipped and some come twice; `Local` and `Utc` convert as
`astimezone` does, with `fold = 0` for whatever was computed on the wall clock.
`Planned(w)` is what `generate_slots_for_resource` cuts for a window of two
instants: the rules of each day, `Cut` from the later of the rule's and the
window's start, without what is closed and what is there. The first piece may
begin with the window itself, which keeps which of two equal times it is
(`Begin`); the ends of the pieces and the later ones are computed and do not
(`Piece`). `Plan` reads, `Store` commits, so two generations may overlap;
`SaveRule`, `DropRule`, `Close`, `Reopen` come at any time. `RuleAssumption` is
what the request schema and `_validate_rule_bounds` guarantee of a rule; nobody
validates that a window ends after it begins, so `Windows` may hold such a one,
which gives nothing.

### PolicyMirror and AccessControl

`rows`, `invitation` and `tenant` are the committed rows, `policy` the Casbin
tuples, `request[r]` a request between its statements. Every handler that
changes a role has the same course, which `PolicyMirror` has once: write rows,
call Casbin (each tuple is saved in a transaction of its own), commit; on a
failed call roll back, on a failed commit compensate. `AccessControl` has the
handlers (`CreateTenant`, `DeleteTenant`, `AddMemberRole`, `UpdateMemberRole`,
`RemoveMember`, `InviteMember`, `AcceptInvitation`, `AssignRole`,
`AssignPermission` and so on), each of which decides upon what it reads and
prepares a request. `DeleteUser` is one step: the session sets the `user_id` of
the memberships to NULL (so they are nobody's, and leave `rows`; one of an owner
still counts, `stray`), roles of the catalog cannot lose their user and make the
deletion fail, and the policy is not called. `Slug` is the domain of the tenant
and may be the one of the catalog, since nothing keeps a tenant from being
called "global"; `Twins` are the rows that then have one tuple. `Faults` says
what may fail: the policy call, the commit, the process. `uncertain` has the
subjects on which the stores may disagree: two requests about them have
overlapped, one was cut short after its first call, or the account was deleted.

### AccountRecords and LoginLockout

`AccountRecords` has one `User` row and the links mailed to it. A `visit` is a
request that has read the row and is about to write the columns it changed
(`Dirty`); `CommitUpdate`, `CommitInsert` and `CommitOpening` are the commits,
the last one with the unique constraint of `UsedToken`. `openings`, `proven`
and `otpCrossed` are history.

`LoginLockout` keeps `failures[a]`, the recorded failures of age `a`, and what
each sign-in has found out and not yet recorded. `TryPassword`, `TryCode` and
`AskForCode` count and decide, `Record...` commit (a request whose failure is
committed may still raise, and the handler of errors then records another),
`Refuse` answers during a
lockout and says how long it lasts (`promise`), `GrowOlder` is the clock.

### CachedReads

A behaviour watches one of the cached answers (`Keys`); `Operations` lists,
handler by handler, what each changes and which keys it clears afterwards.
`Miss` and `Keep` are a reader before and after its database read, `Change` a
commit, `Clear` the clear that follows and may fail, `Expire` the time to live,
`Settle` the moment after which nobody changes anything. `excuse` says why a
kept answer may be old: the reader was overtaken, the clear failed, the handler
clears other keys only.

### ConnectionManager

`registered` and `members` are `_user_connections` and `_rooms`; `handler[s]`
is the coroutine of socket `s`: where it waits (`at`), where it goes on after
sending (`then`), whom the two loops of a broadcast have still to reach
(`users`, `sockets`), which sockets failed (`dead`), and the rooms a disconnect
has still to leave (`todo`). Every `await` ends a step. `SendToUser` and
`SendToSocket` are the two loops, `DisconnectFrom` one round of the disconnect.
`owed` is history: who was there when the sending began.

### Notifications, Deliveries, Incidents

`Notifications`: `Register`, `RemoveDevice` and `RemoveSubscription` commit the
devices, `LoadPreference`, `LoadDevices`, `InsertPreference`, `CommitSync` the
preference that follows, `SetPush` and `CommitPush` the third transaction;
`CutShort` may come between any two. `stale` is history.

`Deliveries`: `CreateNotification` commits the row, `Enqueue` hands one task per
channel to the broker, `Start` is a worker, `PrintOnly` and `CannotRender` are the
two ways a mail ends before a provider is called, `Delivers`, `Refuses` and
`NoAnswer` are a provider (which may deliver and not be heard), `Exhausted`
ends a chain, `WorkerDies` loses a task.

`Incidents`: `WriteEntry`, `Count`, `MatchIncident`, `CommitSignal` are the
course of one signal, `Review` a superuser, `Prune` the deletion of old
entries, `Recede` time. `FailedLoginBurst`, `NewIpLogin`, `ErrorSpike` and
`TokenChurn` and `RateLimitSpike` decide what is noticed.

### ApiClients

`storage` holds the two tokens, `refreshing` the tabs whose interceptor is
exchanging, `send[q]` a request: sent, refused, waiting in the queue,
exchanging, sent again. `client` is `"web"` or `"mobile"`, whose interceptors
differ. `RestoreSession` is the exchange of a page that is opened. What an
exchange does to the other tokens of the address is taken from `TokenSessions`.

## 3. Properties and runs

### Bookings

`MCBookingLifecycle` is checked under several configurations, each of which
switches on the part of the system its properties are about (an empty set of
entries or transactions switches the others off). Bounds common to all: the
clock shows only `Instants`, and at most `MaxWebhooks` webhook rows are
written (a bound on the number of verifications that get to their second
commit, without which payouts grow for ever). `Cancellers` are the cancellations
that others may overtake; `CancelBooking` comes at any time in all runs, so that
one of them is enough for two that overlap. Slots start at minute 1500 and
2940, more than a day after minute 0: in `payments` minute 0 gives the full and
minute 100 the half refund. Deadlock is checked but for `payments`, where the one
booking may be used up while its slot stays as an overtaken cancellation left it.

| run | instance | shows |
|---|---|---|
| `holds` | 2 users, 1 slot, 2 client keys, a group size, a cancellation that others may overtake, clock at 0, 5, 10, 11, 20 | `TypeOK`; `HeldSlotHasHolder`: holds, releases, listings, bookings and expiry at, before and after the tenth minute leave no slot held for nobody |
| `payments` | 1 booking, 2 transactions of any of the three kinds, 1 verification and 1 cancellation between their steps, a webhook key, 2 webhook rows, clock at 0, 100 | `RefundsCovered`, `ConfirmedOnlyIfCaptured`, `StatusMovesWithSlotAndMoney`, and `LedgerRefinement`: the system implements `BookingLedger` |
| `waitlist` | 2 users, 1 entry whose window may cover the slot or not, 1 slot, 1 transaction, a cancellation that others may overtake, clock at 0, 31 | `WaitlistFirst`: a booked slot does not open past a customer who waits before the step and has not had it; `BookedSlotHasConfirmedBooking`: however a late payment and cancellations of two bookings cross, a slot shown as booked has a confirmed booking; `FreshBookingHasItsSlot` with booked slots: a promoted booking takes a booked slot only where a booking of it is cancelled in the same transaction (that may be another one than the slot is booked for, since `cancel_booking` opens the slot of a pending booking without looking; such a slot then has two claims, as in `overlap`) |
| `multislot` | 2 users, 2 slots, a series of two, 1 entry whose window spans both, clock at 0, 11, 31 | `FreshBookingHasItsSlot` with several slots per request: a new booking finds each of its slots unbooked, held for it from then on, and not held by another customer; `EntryServedOnce`: one cancellation or one run of the task serves an entry once |

Why the bounds are enough: every interaction in the code concerns one slot and
at most two claims on it (a hold and a booking, two bookings, two customers
waiting), one booking and at most two of its transactions, one waitlist entry
and two slots, or a cancellation and what comes between its two steps. Two
customers waiting for one slot make the promotion fail, which changes nothing;
the run `cancel_blocked` has them. Two webhook rows allow confirm, cancel and
confirm again, and a replay of the first. All of these properties are proved for
every value of the constants (section 5), so the runs serve as the first test;
this is why `HeldSlotHasHolder` is run with one slot only.

Symmetry: users, client keys, entries, transactions and requests are
interchangeable in the passing runs (the specification never orders or names
them), so `Sym` permutes them. Slots are numbered in the order of their start
and are not permuted. No liveness property is checked under symmetry.

### Sessions

| run | instance | shows |
|---|---|---|
| `tokens` | 2 requests, 4 pairs of which 2 are alive at the one address | `TypeOK`, `ExchangedTokenIsRevoked`, `OneHeirPerAddress`: one refresh token exchanged twice against logouts and revocations; `EveryRequestEnds`: also when two refreshes, or a refresh and a revocation, block each other |

Two refreshes that block each other need two old and two new pairs, which is
why the run starts after two sign-ins that overlapped. It uses no symmetry. The
safety properties are proved for any number of addresses, so one is enough
here. That a sign-in leaves one pair per address alive is not among the
properties: nothing makes two sign-ins that overlap see each other's rows.

### People and services

The other components share no state with one another. `MCPeople` and
`MCServices` put several of them into one run each: every behaviour chooses an
*area* in its initial state and leaves the others at rest. The states of a run
are then the sum of those of its areas, not their product, and a property of
one area holds trivially in the others. Temporal properties and fairness are
stated for the steps of the area (`ServicesFairness`).

| run, area | instance | shows |
|---|---|---|
| `people`, tenant | 2 requests, 2 rows, 1 invitation, 2 users who may be deleted, roles admin and owner, a failure of the policy, of the commit, or a crash | `PolicyMirrorsRows`, `MemberOnce`, `LastOwnerStays`, for every handler of tenants, members and invitations and the deletion of a user |
| `people`, catalog | 2 requests, 1 role and 1 permission | `PolicyMirrorsRows` for assigned roles and granted permissions |
| `people`, rooms | 3 connections of 2 users, 1 room, at most `MaxFrames` = 2 frames received | `MembersAreServed`: a room lists nobody whose connections have all ended; `MessagesArrive`: a broadcast passes over nobody who stays |
| `people`, accounts | 2 requests, 1 link, 1 address, 2 secrets | `LinkWorksOnce`, `OtpFlagsAgree`, `OtpSecretProven` |
| `people`, push | 2 requests, 2 devices | `PreferenceFollowsDevices`: what overlapping or interrupted requests left wrong is put right by the next one that runs alone |
| `people`, incidents | 2 signals, 3 entries, 2 incidents, threshold 2, four kinds | `OneActiveIncident`, `OccurrencesAddUp`, `BurstsAreNoticed` |
| `services`, reads | every cached answer, 1 reader, 2 writers | `KeptAnswersAreRight`; `AnswersCatchUp`: after the last change the answers get right and stay so |
| `services`, lockout | 2 sign-ins, each of which may record a second failure, 2 failures allowed, a lockout of 2 units | `FewFailuresPerWindow`, `PromiseKept`, `LockoutEnds` |
| `services`, deliveries | 2 channels with 2 providers each, one of them mails that may be printed or not rendered, 2 retries | `CopiesAccounted`, `FailsAfterAll` |
| `services`, slots | 2 days of 4 units, 2 rows for 3 different rules, 1 closure, windows that meet inside a day, at either of two equal times of the clock or not at all, and one that ends before it begins, 2 generations, the clock put forward by 1 at 3 and back at 6 | `SlotsDoNotOverlap`, `WindowsCompose` |
| `services`, clients | 3 requests, 2 tabs, web and mobile | `SessionSurvives`; `RequestsEnd`: once nothing new is sent every request of the web client ends |
| `services`, payments | each of the four gateways, 2 verifications | `RowFollowsMoney` |
| `services`, holds | 2 requests, 2 customers | `SlotIsKept`: two customers are never told at once that the slot is theirs; a booked slot opens by a cancellation or a request that read it before it was booked |

Why the bounds are enough: every safety property of these two runs is proved for
any number of requests and rows (section 5); only the liveness properties rest
on the bounds. What can go wrong in these areas goes wrong between
two requests (the only exception is a broadcast, which needs a third connection
to send to), and we know of none that needs a third request: every handler
relates what it read to one change of another. Two providers are
the least that are tried in turn, two failures the least that are counted, two
units the least a lockout lasts over a step of the clock. Two incidents are the
least for one too many and three entries one more than the threshold.

Choices made for size. `InstanceKinds` leaves out token churn and rate limit
spikes, which count as error spikes do (the operators are the same). In the
tenant area a behaviour ends once all its subjects are in `uncertain` and a user
is deleted only while none is, in the slots area it ends once something is mixed
up, and in the holds area once a release has taken another customer's hold: no
property says anything about what follows. The tenant's slug is not the domain of
the catalog in the run, whose areas hold rows of one of the two only; the proof
covers both. `Sym` of `MCPeople` uses one pair of requests
and one pair of rows for all areas; the connections among them belong to one
user. `MCServices` is checked without symmetry because of its liveness. Deadlock
is not checked in these two runs: a payment, a delivery, a lockout or a tenant
that was deleted may come to rest, and that is no fault.

Several properties name an exception, such as `uncertain`, `crossed`, `excused`
or `late`. Each stands for something the code does (section "Disagreements"),
and is set only by the steps that do it.

**Fairness.** In the bookings none. The clients' requests, the provider's
callbacks and the customer are free to stop, and the maintenance tasks are
scheduled nowhere, so nothing there must eventually happen; nor is another
verification of a captured payment scheduled by anybody. `tokens` assumes of
each request in progress that it proceeds (strong fairness: a statement that
waits for a row is enabled whenever the row is free, and PostgreSQL serves the
waiters of a row in turn, so others cannot pass it for ever) and of the database
that it resolves deadlocks (weak fairness: a deadlock lasts until its detector
fails one of the transactions). `services` assumes weak fairness of what a
program goes on with by itself: a reader that has its answer stores it, a writer
that has committed clears its keys or fails to, a key in Redis expires, the
clock of a lockout advances, and a client's request is answered or fails. No
client has to start a request. `RequestsEnd` is stated for the web client: two
requests of the mobile one may exchange in turn and refuse each other's tokens
for ever, see below.

### Disagreements

Each of these runs checks one statement of the documentation or of a comment
and finds it violated by a short behaviour of the code.

| run | statement | what the code does |
|---|---|---|
| `overlap` | `NoOverlap` (BR-02) | a booking deletes the redis key of its hold and `hold_slot` refuses only booked slots, so the slot of a pending booking can be held and booked again |
| `late_payment` | `CancelledIsFinal` | a completed verification confirms a booking that was cancelled meanwhile |
| `payout_once` | `OneChargeOnePayout` | two verifications of one charge create two payouts |
| `cancel_blocked` | `CancellationPossible` (BR-05) | two customers waiting for the slot make the waitlist query raise, and the cancellation fails with it |
| `unrefunded` | `EarlyCancellationRefunded` (BR-03) | a failed second transaction overwrites `payment_status` of a paid booking, whose cancellation then refunds nothing |

What follows was met while modelling and has no run of its own; the exceptions
of the properties name most of it.

*Bookings and holds.* Two cancellations of one booking that both read it as live
each insert a refund (`booking_service.py:368-424`), a cancellation that read the
booking before its payment was confirmed refunds nothing, and one that read the
slot as open already leaves it as others have made it since; the properties
except the bookings of such cancellations (`crossed`), and the ledger has a step
for them. A waitlist entry that was served, lost its booking and is set active
again is given the old, cancelled booking when its turn comes (`242-248`),
becomes inactive (`359`), and the slot opens to the public, although BR-05 has
the first eligible entry promoted: `WaitlistFirst` names this exception.
`list_slots` opens a lapsed hold and leaves the booking
behind it pending, where the expiry task no longer finds it, while
`docs/detailed-design/state-machine-diagram.md:26` has such a booking cancelled
by the timeout. A release or a listing that read a slot as held opens it after
a payment booked it. A hold may be answered as successful over a slot booked
meanwhile, and a booking that read the slot before another's confirmation sets
it back to held. A slow release deletes another customer's key; a failed hold
leaves a key without a held row for ten minutes; a failed booking has already
deleted its customer's key.

*Payments.* A commit that fails after an initiation leaves a payment at the
gateway without a row. Of two overlapping verifications the older answer may be
committed last. A PayPal payment whose sale is pending is never looked up again.
A Stripe session that is "complete" counts as completed whatever
`payment_status` says: the branch that looks at it (`stripe.py:145-147`) sets
what `_STATUS_MAP` has set already. The docstring `esewa.py:165-167` says "We
decode it, verify the signature, then call the eSewa status API to
double-check."; the signature is verified if there is one, and where the API
does not answer with a status the one of the callback counts (`216-218`). So a
booking may be confirmed before the money is there; `ConfirmedOnlyIfCaptured`
and `RowFollowsMoney` have this exception for the two gateways only.

*Slots.* Putting the clock forward makes slots longer, shorter or overlapping
where a rule spans it; when it is put back, a window that begins in the second
of two equal hours gives slots that overlap those of one that begins in the
first, because only the start of the window keeps its `fold`
(`booking_service.py:439,461`); windows that begin inside a slot, edited or
overlapping rules give overlapping slots; `valid_from` and `valid_to` are not
looked at; an exception entered after the slots leaves them.

*Roles and tenants.* Assigning a role twice at once leaves two rows, on which
`scalar_one_or_none` raises from then on. An invitation accepted twice at once
makes two memberships. Two overlapping role updates leave the old role in the
policy. The last owner may be demoted by a role update. A failed commit after
the policy call is not compensated. `casbin_init.py` commits the roles first: a
crash there leaves permissions unseeded, since "Roles already exist". Each
process has an enforcer of its own.

`delete_user` (`users.py:412-445`) deletes rows only. The mapper sets the
`user_id` of the user's memberships to NULL, which the column allows: the row of
an owner stays and is counted by the check for the last one
(`tenant.py:431-437`), and deleting the tenant later passes over it (`286`). A
user with roles of the catalog, or with any row whose `user_id` may not be NULL,
cannot be deleted. Nothing keeps a tenant's slug from being "global", the domain
of the catalog (`multitenancy/schemas/tenant.py:16-23`): a membership and an
assigned role of one name are then one tuple, which goes with the first of them.
`PolicyMirrorsRows` excepts both.

*Accounts and sign-ins.* `token.py:53` checks that a refresh token is active
without a lock: a second refresh that has read it before the first commits
still gets a pair. A revocation in progress may miss the pair a refresh is about
to insert. An old verification link confirms a changed address, and an admin's
change of the address keeps `is_confirmed`. Overlapping enrolment and
verification leave a secret active that the user has not proven. More failures
than the limit may be recorded by requests in progress together; a server error
counts as a failure, so that a request whose failure is committed and whose log
entry is not records two (`login.py:260-279`, `otp.py:379-399`).

*Caches.* Some handlers do not clear every answer they change; a reader that a
writer overtakes stores an old answer; a failed clear is swallowed. All of it
lasts until the key expires.

*Connections.* A failed handshake leaves its connection registered. Dropping a
dead connection may bring back an empty entry. Closing one of several
connections of a user takes the user out of all rooms.

*Notifications and incidents.* Overlapping or interrupted device requests leave
the preference out of date, and two first ones both insert it. A confirmation
that is lost is followed by a second delivery; a task is lost with its worker.
Where `EMAIL_ENABLED` is off and `DEBUG` on, as the defaults have it, a mail is
printed and its task a success (`core/tasks.py:27-41`). The mail of a notification
always fails elsewhere: `notification/tasks.py:14` names `apps/templates`, which
does not exist, while the comment before it has the templates in its module; the
exception of the template ends the task as failed before any provider is called
(`communications/service.py:136`, `core/tasks.py:55-57`).
Signals that cross open two incidents, lose counts, or leave a burst unnoticed
(where entries are counted before they are committed); two first sign-ins from
a new address both count two. Deleting old log entries fails on PostgreSQL
while an incident refers to them.

*Clients.* Two tabs, or a page that is opened and its interceptor, may exchange
the same token, and one of them is signed out. On the phone a retry that fails,
or a 401 during an exchange, clears the tokens.

## 4. The ledger

`BookingLedger` says what the service promises about a booking and its money,
with five steps: `Open` (at a price), `Confirm` (credits the price to the
payouts; also from cancelled, for late callbacks), `Lapse` (a pending booking
ends, no money moves), `Revoke` (a confirmed booking ends, at most its price
goes back) and `RevokeAgain` (the same of a booking in whatever state, if its
cancellation was overtaken: the ledger keeps these in `crossed`). The refinement
mapping of `BookingLifecycle` takes `status` and `price` from the rows and
`payout`, `refunded` and `crossed` as they are. Confirm while confirmed is
allowed by the ledger because the code does it.

## 5. Proofs

Every safety and action property that a passing run checks is a theorem here,
proved of the specification for every value of the constants. TLC found out
first whether a formula holds, and each inductive invariant was checked as an
invariant of a run before it was proved.

### Bookings

About `Spec` of `BookingLifecycle`, for arbitrary sets of users, slots, keys,
entries and transactions, under its named assumptions (slots are positive
numbers with natural start times, prices and instants are naturals, a recurrence
is a sequence of distinct slots, the null values are not members of their sets).
No theorem assumes a bound of section 3 except that the constants `Instants` and
`MaxWebhooks` occur in the guards.

| theorem | property | argument |
|---|---|---|
| `TypeCorrect` | `TypeOK` | inductive as it stands: the references in it (a booking has a slot, a transaction a booking, a verification a transaction) are needed for the types of `Settled` and `RefundDue` |
| `RefundsAreCovered` | `RefundsCovered` | `MoneyInv` = `TypeOK`, `RefundsCovered` and *PendingUnpaid*, that a pending booking does not count as paid, without which it could be refunded on cancellation; and of each cancellation in flight that it *Fits*: it refunds only what it read as confirmed, at most the price. If it is not overtaken, what it read is still there |
| `KeepsTheLedger` | `LedgerRefinement` | every step is a ledger step of each booking, using `MoneyInv` to know that a refund ends a confirmation, and that what an overtaken cancellation refunds is within the price of `RevokeAgain` |
| `BookedSlotsAreConfirmed` | `BookedSlotHasConfirmedBooking` | `BookedInv` adds that a crossed booking exists and has a slot (*CrossedExist*): only `VerifyApply` books a slot, and only a cancellation ends a confirmation, which opens the slot unless it is overtaken, and then the booking is crossed (*CrossedStay*) |
| `HeldSlotsHaveHolders` | `HeldSlotHasHolder` | a key is deleted only together with an insert of a pending booking or by opening the slot. A cancellation that read the slot open leaves it held, if it is by then, though it may end a pending booking; *Claims*, which is inductive with it, says who still holds it (`HeldBySomebody`) |
| `ConfirmedMeansCaptured` | `ConfirmedOnlyIfCaptured` | `CaptureInv` adds that a completed result in flight belongs to a transaction that is *Good*, captured or believed at a `"return"` provider, which is what survives between the two commits, and that a cancellation in flight that refunds something is of a booking with such a transaction |
| `StatusSlotAndMoneyAgree` | `StatusMovesWithSlotAndMoney` | by the kinds of step below; a refund is noted on the row exactly when the arithmetic gives more than nothing |
| `NewBookingsHaveTheirSlots` | `FreshBookingHasItsSlot` | a new booking was *Asked* for, and `Bookable` looked at its slots as they were; or it comes from a promotion, which *Serves* slots released in the same step or not booked (`Handing` for the slot of a cancellation) |
| `EntriesAreServedOnce` | `EntryServedOnce` | of two released slots with the same entry the later one's `IsPromotion` has the entry among those served already |
| `WaitlistComesFirst` | `WaitlistFirst` | only a cancellation opens a booked slot. `IsPromotion` has found an entry that waits before the step, or none; if one, the slot stays open only if its key was used before (`PromotedRow`, *NobodyIsPassedOver*) |

The proofs classify the steps once (`StepSources`, `StepKinds`): a step opens
bookings, cancels one (`Cancelling`, on rows read in the same step or in an
earlier one), expires some, applies a verification, changes holds, begins or
abandons a cancellation, or leaves bookings and slots alone; each property is
then shown of each kind. `NewBookings` does the same for the rows that come into
being. The arithmetic of a refund (`0 <= RefundAmount <= amount`) is a lemma
about `BookingPolicy`.

Three more theorems go beyond the properties of the runs:

- `LedgerCoversRefunds`: `LedgerRefinement => []RefundsCovered`. The ledger by
  itself promises enough, for the bookings that are not crossed; with
  `KeepsTheLedger` this is a second way to `RefundsAreCovered`.
- `BlockedBySeveralOnly`: the promotion inside a cancellation has a plan if and
  only if at most one entry waits for the slot. The run `cancel_blocked` shows the
  failure; this says that there is no other cause.
- `LaterRefundsAreSmaller`: `RefundAmount` never grows with the instant of the
  cancellation, so its three cases meet without a step up.

### Sessions

About `TokenSessions`, for any sets of requests, pairs and addresses:

| theorem | property | argument |
|---|---|---|
| `TypeCorrect` of `TokenSessionsProofs` | `TypeOK` | the new pair of a request is unissued, and no other request has it |
| `ExchangedTokensStayRevoked` | `ExchangedTokenIsRevoked` | *OldLocked*: from its flush to its commit a refresh holds the row of the old token, and an issued row never becomes unissued again |
| `OneHeirSurvives` | `OneHeirPerAddress` | *HeirsFound*: a refresh scans the address after its flush, when every other exchange of the same token has committed or will wait, so the pairs it must revoke are among its rows |

They share one inductive invariant, `Inv`: what holds of each request (`Fits`),
of two requests (`Apart`: no common new pair, no common locked row) and the two
properties. `RequestStep` reduces every step that changes no row to `Fits` and
`Apart` of the request afterwards; only `Commit` changes rows. `OneHeirPerAddress`
needs the order in the code, the flush of the old token before the bulk UPDATE:
`FlushNothing`, which swaps them, is the mutant of the run.

### Roles, tenants and members

About `AccessControl` and `PolicyMirror`, for any users, rows, invitations and
requests and all faults:

| theorem | property | argument |
|---|---|---|
| `AccessTypesCorrect` | - | rows, policy and requests keep their types |
| `StoresMirrorEachOther` | `PolicyMirrorsRows` | *CallsFitRows*: what the policy will be once a request has made its remaining calls is what the rows will be once it has committed (`After`), for tuples that have no twin; *OneAtATime*: while a subject is certain one request is about it. `DeleteUser` makes the subjects it touches uncertain and leaves the rows and the tuples of all others as they are |
| `MembersAreOnce` | `MemberOnce` | *OnceAfter*: the same of the rows as each request will leave them. A new tenant has no members yet (*NewIsEmpty*) |
| `LastOwnerIsKept` | `LastOwnerStays` | *StrayKnown*: the count of owners is deceived only by a deleted account; *AnotherOwner*: a request about to remove an owner has another one that it does not touch. That nobody else touches it takes the locks of rows (*RowsLockedOnce*), and that whoever changes a membership is about the owners or deletes the tenant (*ChangesKnow*) |

Every handler of the module begins a request that is `Prepared`, which one lemma
for each shows; `BeginKeepsInv` needs nothing else of it. What follows in
`PolicyMirror` (going on, giving up, the commit) is shown once for all handlers.

### Accounts and connections

| theorem | property | argument |
|---|---|---|
| `LinksWorkOnce` | `LinkWorksOnce` | *OpeningsOk*: a link had its effect as often as it has a row in `used`, which the constraint makes at most once |
| `FlagsAgree` | `OtpFlagsAgree` | *RowOk* and *VisitsOk*: what a request is about to write changes both columns, to the same value, or neither |
| `SecretsAreProven` | `OtpSecretProven` | while none have overlapped there is at most one request about the password (*OneAtATime*), and what it is about to write has been proven (*ProvenAfter*) |
| `MembersStayServed` | `MembersAreServed` | *Served*: every member of a room has a connection that receives, or one whose disconnect has that room before it. `SendingKeepsInv` covers all steps that begin a broadcast, `GoingOnKeepsInv` all that continue one coroutine |
| `MessagesReach` | `MessagesArrive` | *OwedIsReached*: whoever is owed a message is gone, has lost the entry, or is still before one of the two loops |

### The small services

In `ServicesProofs`, for any number of requests, customers, attempts, rules and
so on:

| theorem | property | argument |
|---|---|---|
| `SlotsAreKept` | `SlotIsKept` | `KeyInv`: until a release has taken another's hold, a running hold has the key, and a request about to delete a key has seen it there and it still is; `ReadersAreLate`: while the slot is booked, whoever has read the row and is in progress read it before |
| `KeptAnswersStayRight` | `KeptAnswersAreRight` | *ReadersAreRight*: a reader that was not overtaken has read what is stored |
| `RowsFollowMoney` | `RowFollowsMoney` | an answer that is not in `words` is the gateway's own, for which captured money is at the gateway or given back (*MoneyIsThere*), a completed row or answer was paid (*CompletedIsPaid*), and an answer that would take a completed row back is a refund unless two verifications were together (*LaterAnswers*) |
| `SessionAlwaysSurvives` | `SessionSurvives` | *Undisturbed*: without an excuse there is one exchange, of the token in force and with its tab's flag set, and the stored token is in force or an exchange is about to replace it |
| `FailuresStayFew` | `FewFailuresPerWindow` | *RoomLeft*: recent failures, requests in progress, each of which may still fail, and those whose own failure is not recorded yet, each of which may fail twice, are bounded together; a request begins only below the limit or with the newest failure about to leave the window |
| `PromisesAreKept` | `PromiseKept` | *PromiseCovers*: no failure is younger than the duration less what is left of the wait |
| `SlotsNeverOverlap` | `SlotsDoNotOverlap` | *SlotsOnGrid*: the slots of a rule on a day form a grid, and whatever exists while the rule is in force is on its grid; what is planned is on the grid of one rule, since rules of a day follow one another (*RulesApart*), so it is there already or is apart from everything. A window on the grid begins no piece in the second of two equal hours (`OnGrid`), so that every piece is a period of the grid (`PieceIsPeriod`). `UtcKeepsOrder`: the conversion keeps the order of times outside of the hour that is skipped, be the clock put back between them or not, and a rule is in force outside of that hour |
| `WindowsMeet` | `WindowsCompose` | `PlannedSlots`: the loop cuts exactly the slots of the grid that lie in the window (`CutFromGrid`, `GridIsCut`); no slot of the grid reaches over a time between slots (`NoSlotAcross`) |

The bound of the loop in `Cut`, `0..DayLength`, is among what `GridIsCut`
proves: no slot that fits is beyond it.

### What is sent and what is logged

In `NoticesProofs`:

| theorem | property | argument |
|---|---|---|
| `CopiesAreAccounted` | `CopiesAccounted` | *ConfirmedOnce*: only the copy that ends the task has been confirmed; *NobodyReached*: a mail that is printed or not rendered has reached nobody, and no provider was called |
| `TasksFailAfterAll` | `FailsAfterAll` | *NobodyReached*, and *NobodyLeftOut*: who has been called and who is left in the chain are together all configured providers |
| `OneIncidentIsActive` | `OneActiveIncident` | *ActiveIsOne*: unless signals have crossed, the incident a request is about to add to is the only active one |
| `CountsOfIncidentsAddUp` | `OccurrencesAddUp` | *CountsAddUp*: the request holds the count plus one, of an entry not noticed before |
| `FullWindowsAreNoticed` | `BurstsAreNoticed` | *FewUnnoticed*: of the entries in the window fewer than the threshold are and will be left unnoticed, each request looking when its own entry is in it; *FirstIsNoticed* for a sign-in from a new address |
| `PreferenceIsKept` | `PreferenceFollowsDevices` | *AloneKnows*: a request during which no other ran has read the preference as it is and computes what it shall be; *RepeatsUnlessToDo*: when no request has still to repeat a change, the preference repeats them all |

Sums are cardinalities of sets in the modules (`Total`, `Recent`, `FailuresOf`),
so that facts about finite sets take the place of an induction.

### Assumptions

Each is named in the module that declares the constant, and TLC evaluates it:
null values are no members of their sets (`NobodyAssumption`, `CallAssumption`,
`CaseAssumption`, `AbsenceAssumption` and so on); owners, tabs and chains are
functions of the right type; thresholds, limits and durations are positive;
there are finitely many sign-ins at a time (`AttemptsAssumption`), without which
the bound of `FewFailuresPerWindow` says nothing; the times of a rule are as its
schema has them (`RuleAssumption`), those of windows and of the clock change are
integers (`WindowAssumption`, `ShiftAssumption`), and the clock is put back
after it was put forward, not within an hour that it skips or repeats. Nothing
is assumed of the tenant's slug. Providers are of the three kinds
(`ViaAssumption`), and the mails with a template among the mails
(`MailsAssumption`).

### Only model-checked

`EveryRequestEnds`, `AnswersCatchUp`, `LockoutEnds` and `RequestsEnd` are
liveness under fairness, which is about `ENABLED` and out of reach of the
prover. The statements of section 3, "Disagreements", are false and so only
checked.

## 6. Not modelled

- **Providers, resources, reviews, disputes, booking analytics**: create, read
  and update of independent rows, each by one statement of its own.
- **WebSocket encryption**: cryptography.
- **Settings, storage**: settings are read once at the start, files are written
  under names of their own.
- **Web and mobile user interface**: pages; every decision they rely on is
  taken by the backend. The clients' interceptors are modelled, their
  reconnecting socket is not.
- **Migrations, deployment, scripts**: no behaviour of the running system.

Parts of modelled components that are left out: the development mode without
redis; the discount arithmetic and redemption window of a promo code (the
amount is any of a set); the expiry of tokens in `TokenSessions`; the exchange
with an identity provider; the columns of a profile; the seeding of default
roles and the enforcer of a second worker process; the relay of broadcasts
between processes over redis; marking notifications as read; the query
endpoints of observability and product analytics.

## 7. What could come next

An abstract session (what a revocation promises) that `TokenSessions` and
`ApiClients` implement together; an abstract payment that `PaymentGateway` and
the payments of `BookingLifecycle` both implement, so that the four gateways
need not be told apart above it; the relay between two processes for
`ConnectionManager`; promo codes and their redemption window in
`BookingLifecycle`.
