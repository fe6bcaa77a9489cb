# Verification of the Sleep & Journey API

TLA+ models of the hotel booking API in `src/`, the TLC runs that check them and
the theorems that TLAPS proves about them. Source paths below are relative to
`src/src/`.

## The system

An Express application over one PostgreSQL database. Every request handler runs in
one Node process (or several behind a load balancer), is cut at every `await`, and
shares nothing with the others but the database; two payment gateways call back
through webhooks, and a cron job sweeps old rows. So the interesting state is in
tables, the concurrency is that of transactions, and the failures are those of
connections, gateways and deliveries.

| component | state | operations | hard because |
|---|---|---|---|
| Booking creation, `services/bookingService.js` | `bookings`, `guests`, `idempotency_keys`, advisory locks, pool | `createBooking` | the last room is contended; a key is looked up early and inserted late; the transaction may die anywhere; `now()` is that of its BEGIN |
| Inventory count, `services/availabilityService.js` | none | `OVERLAP_COUNT_SQL`, `getAvailability` | a hold stops counting by the passing of time alone |
| Payments, `services/paymentService.js`, `routes/webhooks.js` | `payments`, `webhook_events`, `bookings.status` | `initiatePayment`, `confirmFromOmiseWebhook`, `confirmFrom2c2pWebhook` | a gateway is called inside the transaction; events are repeated, reordered, early, late; several payments per booking |
| Cancellation, `services/cancellationService.js` | `booking_cancellations`, `payments`, points | `cancelBooking` | the refund call sits inside the transaction and may fail alone |
| Loyalty, `services/loyaltyService.js` | `guests.points_balance`, `loyalty_transactions`, `bookings.total_price` | `earnPointsForBooking`, `redeemPoints` | changes a price that a payment may already have read |
| Expired-hold job, `jobs/releaseExpiredHolds.js` | `bookings.status`, `payments.status` | `releaseExpiredHolds` | races with the webhooks |
| Sessions and staff, `services/authService.js`, `staffService.js` | `refresh_tokens`, `staff`, `guests` | register, login, refresh, logout, `updateStaff` | rotation, replay, disabling an account while it logs in |
| Rate limiting, `services/rateLimitService.js`, `jobs/cleanupRateLimitLogs.js` | `login_attempts`, `registration_attempts` | assert, record, cleanup | check first, record later |
| Catalog, `services/catalogService.js` | branches, room types, images, translations | reads, single updates, cover image | two statements keep one cover per room type |
| Gateway clients, HTTP shell, reads, scripts | none | | |

They meet in the `bookings` row: booking creation inserts it, payments confirm it,
the cancellation cancels it, the job expires it, loyalty changes its price, and the
count reads it. What makes each correct:

- *booking creation*: rooms are never promised twice, a key stands for one booking,
  the answer is true, every request is answered;
- *payments*: paid means charged, confirmed means paid, a success counts once, money taken
  is recognised;
- *cancellation*: a refund leaves a trace, and the step that records it cancels the booking.
  A booking may come back from that: a second report of a refunded Omise charge pays and
  confirms it again;
- *loyalty*: one discount per booking, points are spent once, points go back with
  the money;
- *job*: it never takes a room from a booking that is paid;
- *sessions*: a refresh token is used once, a disabled account gets none but by a request
  already under way;
- *rate limiting*: the limit plus the requests in flight bounds the attempts, and only
  time undoes it;
- *catalog*: at most one cover image per room type, and a promotion loses one only when the
  promoted photo is deleted meanwhile.

## Modules

| module | models |
|---|---|
| `BookingTable` | the `bookings` table, the clock, the overlap count, and the statements other components issue against a row (`Confirm`, `Cancel`, `ExpireHolds`) |
| `Inventory` | the abstract promise: a room is booked in one step, when an on-time booking fits |
| `BookingTxn` | `createBooking`, statement by statement, many requests at once; the other components are its environment |
| `Pricing` | price, points and fee arithmetic |
| `Payments` | both gateways, both webhooks, redemption, cancellation and job around the `bookings` and `payments` rows, a transaction in one or two steps |
| `Ledger` | the abstract promise of the loyalty programme: each change of points is one step that moves the balance and writes the ledger |
| `PointsTxn` | the transactions of redemption, earning, claw-back and job, row lock by row lock |
| `AuthData`, `RateLimit`, `Sessions` | the tables of the limiter and its clean-up job; the accounts and refresh tokens; what both share |
| `SingleUse` | the abstract promise: a refresh token is exchanged once |
| `AuthRoutes` | the auth and staff routes, statement by statement, over `RateLimit` and `Sessions` |
| `Gallery` | the photos of one room type, statement by statement |
| `*Proofs` | the theorems about the module of that name (`AuthProofs`: `AuthRoutes`) |
| `MC*` | instances for TLC |

**BookingTable.** A row has its room type, guest, stay, status and hold; days and
times are integers. `Occupying` is `OVERLAP_COUNT_SQL` for a transaction whose
`now()` is a parameter, because PostgreSQL fixes it at BEGIN. `Confirm` has no guard
on the status, as the `UPDATE` in the payment service has none. `late` is a history
variable: the bookings confirmed after they had lost their hold. A booking is *on
time* when it is a live hold or was confirmed while it was one. `NoOnTimeOversell`
counts these on every night, `NoOversell` counts everything that occupies.

**BookingTxn.** One request per booking id. `pc` says which statement it has
passed, and with that what it has written but not committed; a row, a key and a guest
become visible in `Commit`, in the step that releases the lock. Waiting is a guard:
`Begin` for a connection, `Lock` for the advisory lock, `UpsertGuest` and
`RecordKey` for a transaction that wrote the same guest or key. `Crash` may end
any transaction, as does a statement that fails on its data. `CodeCollision` leads to
`RetryInsert`, which is what the retry loop does on PostgreSQL: the failed statement has
aborted the transaction (and with it given up its locks), so the second INSERT fails
with another code and is rethrown.

**Payments.** A payment's charge has the payment's id. `busy[b]` is the row lock a
transaction keeps on a booking while it waits for a gateway; every statement on that
row waits for it. `initiatePayment` and `cancelBooking` are therefore two steps each,
with an abort between them; the Omise webhook is two steps, the fetch of the charge
and the transaction; all others are one. `seen` is `webhook_events`: an event whose
transaction commits is on record even when it matched nothing. `notes` and `charge`
are the gateways' own state: 2C2P takes the money of an invoice once and repeats its
notifications, Omise delivers an event until it is answered. A webhook that PostgreSQL
fails to break a deadlock, or that crashes, is `DropDelivery`. QR payments differ from
cards only in that their charge starts pending, which cards do as well (3-D Secure).
`settledBy` and `refunds` are history: which reports made a payment paid, in order, and how
often it was refunded. They tell money that is kept from money that went back, which the
status does not: the webhook settles whatever is not 'paid', a refunded payment included, so
an Omise charge that was refunded is paid again by a report that has not settled it yet (the
answer to the charge is one, each kind of event another). `ConfirmedIsPaid` and `SettledOnce`
say how far that goes: never at 2C2P, never twice by one report, never without a refund in
between.

**PointsTxn.** What `Payments` takes for one step is cut here at every row lock: the
redemption takes the booking and then the guest, a webhook the payment, the booking and
the guest, a synchronous charge the booking and the guest, a cancellation the booking, a
paid payment and the guest, the job the lapsed bookings and then their
payments. `lock` holds who has a row; what a transaction writes shows at its commit.
`read` is the `points_balance` that the JavaScript computes with. Locks taken in
different orders do wait in circles, a webhook against the job: `Victim` is PostgreSQL's
deadlock detector, which rolls one of them back. Which bookings have lapsed (`lapsed`) is
fixed for a behaviour: a hold that runs out between the check of a payment and its commit
occurs in `Payments` only. A webhook locks one payment, as Omise's
does; 2C2P's would lock every payment of an invoice, but an invoice is paid once. The data is
reduced to the points: one guest row per booking, a total, the ledger's rows with their
`balance_after`. The unique index on redemptions (005) is left out on purpose: the locks
alone already keep `PriceFollowsPoints`.

**RateLimit, Sessions, AuthRoutes.** A request does what its route does: `CheckEmail`,
`CheckIp` (two queries, not one snapshot), the service, then `RecordFailure` or
`RecordSuccess`. A row of `login_attempts` has its age instead of a time, and the windows
and the retention are counted in ticks. A query that throws is a failed attempt
(`LimiterThrows`, `ServiceThrows`), because the routes' `catch` records whatever they
catch; an error of the recording itself is swallowed (`RecordingFails`). A refresh token
has the id of the request that issues it. `refreshTokens` is BEGIN (with its `now()`),
`SELECT ... FOR UPDATE`, the look at the account, and the COMMIT of revocation and new
token together; a COMMIT that is not acknowledged looks to a client like a failure.
`updateStaff` is a look-up, the UPDATE of the account, and the UPDATE that revokes: its
snapshot (`MarkTokens`) and its end (`RevokeMarked`) are separate steps, since it waits for
rows that a refresh has locked. It gets them all at once here, one after the other in
PostgreSQL, so two revocations of one account never wait for each other here. Account names stand for (login type, email). `family`,
`skipped` and `vouched` are history: the login a token descends from, the requests that
failed before the limiter was done with them, and the requests served while their
account was active. `AttemptsBounded` leaves the rows of `skipped` requests out: the code
records and counts them, and no limit bounds how often a query of the limiter throws.

**Gallery.** `addRoomTypeImage` and `updateRoomTypeImage` are: the look-up, the statement
that demotes other covers (its snapshot, then the rows it waits for), the photo's own row,
the unique index, COMMIT. `Blockers` are the transactions whose end the index waits for;
`IndexRefuses` is its violation, which the code does not translate and answers with 500.
`deleteRoomTypeImage` is one statement, `upsertImageAltTranslation` two, kept apart by the
foreign key. `Victim` and `Crash` are as above. `crowded` is history: requests that were
served while another one was.

**Pricing.** Rounding is `Math.round` of a quotient of naturals; for whole amounts up
to two million baht the doubles of the code round to the same integers.

**How they compose.** `BookingTxn` and `Payments` extend `BookingTable` and each implement
`Inventory`, so what one does to the table is what the other allows its environment.
`Payments` and `PointsTxn` share `Pricing`, and `PointsTxn` implements `Ledger`; it is the
justification for the single steps in which `Payments` earns and redeems. `AuthRoutes`
composes `RateLimit` and `Sessions` and implements `SingleUse`.

## Runs

| run | result | shows |
|---|---|---|
| `BookingTxn` | holds | no oversell, keys and replies true, refinement of `Inventory`, no circle of waiting, every request answered |
| `Payments` | holds | payments, bookings and refunds agree, and a payment asks for the price before or after a redemption; refinement of `Inventory` |
| `PaymentsLive` | holds | money taken is recognised: `ChargeSettles`, `InvoiceSettles`, no event is answered and lost; a success counts once; a paid payment changes only to refunded; a confirmed booking has a paid payment whose money is still there, but for a second Omise report of a refunded charge |
| `PointsTxn` | holds | balances follow the ledger, one redemption, refinement of `Ledger`, deadlocks with the job only, and resolved |
| `AuthRoutes` | holds | the limiter's bounds, single use of tokens, what only time undoes, refinement of `SingleUse`, all are answered |
| `Gallery` | holds | one cover, refusals only in races, covers not lost, deadlocks of one kind, all are answered |
| `BookingTxnKeys` | violated | `SameKeySameReply`: the second of two overlapping requests with one key gets 409 or 500 |
| `BookingTxnCodes` | violated | `CollisionIsRetried`: a code collision is a 500 |
| `PaymentsOversell` | violated | `NoOversell`: a late payment is confirmed on a room sold again, to a live hold in the shortest trace, to another confirmed booking one payment later |
| `PaymentsPrice` | violated | `ChargedIsPrice`: points redeemed under a running payment are lost |
| `PaymentsClawback` | violated | `ClawbackIsFull`: of two earnings one is kept |
| `AuthDisable` | violated | `DisableRevokesAll`: a refresh in flight leaves a disabled account with a live token |

The violated properties state comments of the code; the traces are behaviours of the
code, told in PROJECT.json under "findings".

**Bounds of BookingTxn.** Three requests through two connections, one room of each of two
types whose advisory-lock keys collide: one holds the room, one contends, one more (same
key, another stay, the other type) watches, so every kind of waiting occurs. Inputs: two
stays that share a night and one that does not, with and without a key, an unlisted room
type, a stay of no nights. Two ticks of the clock with a hold of one: a hold is live,
lapses at the boundary, is over. Requests are interchangeable, so each load is listed once
(no symmetry, because of `Answered`).

**Bounds of Payments.** One room and one night at 400 baht (471 in all, 9 points, 235 at
most redeemed). Two bookings for it, or one with two payments; two payments; hours
before check-in on both sides of a fee tier; one delivery in progress, since a
delivery's content does not depend on another one's and its effect is on record when it
ends. `Payments` has no 2C2P transaction ids: whatever can go wrong with late failures and
repeated successes is in `PaymentsLive`, which has two, one booking and two payments. The
two kinds of Omise event differ in one thing, `charge.complete` comes after the charge is
settled and `charge.create` at any time: so `Payments` delivers `create`, whose deliveries
include all that `complete` could make, and finds the charge still pending as well;
`PaymentsLive` delivers `complete`, which fairness is about; with the answer to the charge
that is two reports of one success. The instances run out of ids and of time and may stop,
so deadlock is not checked there; everywhere else it is.

**Bounds of PointsTxn.** Four transactions on two bookings of one guest with 230 points:
less than two redemptions need, so that a lost update or a balance below zero would show.
The loads are pairs of redemptions of one booking and of two, a booking paid, cancelled,
paid late and cancelled again, and two runs of the job among webhooks.

**Bounds of AuthRoutes.** Three requests, two served at once; limits of one failure per
email, one per address and one registration, windows and retention of one tick. With these
each limit is reached, exceeded by a request in flight, and falls due again; guesses at
different emails from one address, and at one email from two, tell the two limits apart. The retention in the code is much
longer than the windows; equal is the hardest case of what `RateLimitAssumption` allows.
Tokens: one issued before, presented twice and thrice, and those made from it. Three
requests are the fewest that show two in a race and a third that sees the result.

**Bounds of Gallery.** Four requests, up to three of them promotions, on two photos and two
more to be added, with and without a cover at the start.

**Fairness.** `BookingTxn`, `PointsTxn`, `AuthRoutes`, `Gallery`: weak fairness of each
request's own steps, which is what the event loop, PostgreSQL's lock queues and its
deadlock detector give; none for crashes, errors, the clock, the jobs or the environment. `Payments`: gateway calls return or time out (weak);
`charge.complete` is delivered until answered and a 2C2P success is repeated, and a
handler that can run again and again runs, that of any delivered event of Omise included
(strong, for row locks are queued in order);
handlers fail only finitely often (`DropDelivery`, which is never a delivery of a known
event, so that ignoring one is not taken for a failure). Nothing is assumed of customers
or of the job. `InvoiceSettles` is checked for notifications with a transaction id; without
one a success after a failure is taken for its duplicate.

## Proofs

TLAPS proves every invariant, action property and refinement that the passing runs check,
for every value of the constants that satisfies the named assumptions: any number of requests,
bookings, payments, deliveries, photos and accounts, any prices and limits, no bound on
time that matters. The assumptions say that ids of requests and bookings are finite sets,
that inputs are well formed, and in `PointsTxn` that a booking is dear enough to earn a
point; TLC evaluates them in the runs.

| module | theorems |
|---|---|
| `InventoryProofs` | `InventoryNeverOversells` |
| `BookingTxnProofs` | `TypesAreKept`, `RoomStaysLeft`, `BookingNeverOversells`, `KeysNameTheirBookings`, `RepliesAreTrue`, `BookingNeverDeadlocks`, `BookingImplementsInventory` |
| `PaymentsProofs` | `TypeCorrect`, `PaidIsCharged`, `ConfirmedHasPayment`, `SettlesOnce`, `PaidHasBooking`, `RefundsRecorded`, `OneDiscount`, `HandledIsSettled`, `PaidStaysPaid`, `ChargeIsAPrice`, `PaymentsImplementInventory`, `PaymentsNeverOversell`; about `Pricing`: `PriceIsNear`, `CancellingEarlierPays` |
| `PointsTxnProofs` | `TypeCorrect`, `LedgerTrue`, `PriceTrue`, `TakenBackOnce`, `OnlyJobDeadlocks`, `CirclesHavePairs`, `PointsTxnRefines` |
| `SingleUseProofs` | `OneTokenPerLogin` |
| `AuthProofs` | `TypeCorrect`, `LimitsHold`, `SingleUseHolds`, `OnlyTime`, `DisabledGetNothing`, `AuthRefines` |
| `GalleryProofs` | `TypeCorrect`, `OneCover`, `CoverStays`, `RefusedInRace`, `PromotionsDeadlock` |

The lemmas about the table are in `BookingTableProofs`. The inductive invariants:

- *BookingTxn.* `NoOnTimeOversell` is not inductive: a commit adds a row, and only the
  earlier count says there is a room for it. A request past the check holds the lock of its
  room type (`LockHeld`), so no other request commits a row of that type
  (`CommitElsewhere`); its `now()` is in the past (`TimesBounded`), so its count, taken with
  an old clock, saw every booking that is on time (`CountSeesOnTime`: too many perhaps, never
  too few); what payments, cancellations, sweeps and the clock do never puts a booking on
  time that was not (`TableStepOnTime`); hence the room is still left (`RoomLeftForInsert`)
  when the row is inserted. `InsertKeepsNights` turns that into rooms per night: all bookings
  of a night inside the stay overlap the stay, so they were counted. Keys and replies have
  invariants of their own (`KeyInv`, `ReplyInv`). That nobody waits in a circle follows
  from the order in which `createBooking` takes things: who holds a key waits for nobody,
  who has a guest row waits at most for a key, and so on down to the connections.
- *Payments.* The four statements about money need each other: a refund may take the money
  of a confirmed booking only because it cancels the booking in the same step, a sweep may
  leave a paid booking alone only because it is confirmed. Besides (`Calls`), while a gateway
  is called for a booking nobody else writes that booking, and a refund is asked for a
  payment that is paid; no payment is charged for two bookings (`Alone`); and what a webhook
  fetched before its transaction stays true (`FetchedTrue`), because a charge that has
  succeeded does not change. On top of that, `HandledMeansSettled` needs to know that events
  are recorded for what they say (`Recorded`) and that a charge which succeeds before its
  payment has a row confirms the booking with that row (`Expected`); `PaidIsFinal` follows step by step, because
  who writes a payment wrote it when it was not paid, or had its booking locked.
  `SettledInv` counts: how often a payment was settled and refunded says whether it is paid
  (`Accounted`), a report that is not on record has settled nothing yet (`Notified`), 2C2P
  pays an invoice with one notification (`OneSuccess`) and settles one row for it (`OneRow`).
  `SettlesOnce` follows, and `ConfirmedHasPayment` with it: the step that refunds the money
  of a booking cancels it, so a payment of a confirmed booking that was refunded was settled
  again since, and at 2C2P none is.
  `OneDiscount` is proved only: the run that could break it is `PointsTxn`'s
  (`PriceFollowsPoints`), where a redemption is more than one step.
  `ChargeIsAPrice` bounds what `PaymentsPrice` shows: an amount is set once, to the price of
  that moment (`AmountIsSetOnce`), and a price changes once (`PriceChangesOnce`), so a guest
  is charged the price before or after the redemption and nothing else.
  `PaymentsNeverOversell` comes through `Inventory`: every step is a step of its table, and
  a booking is created only with a room left.
- *PointsTxn.* `Held`: a transaction that has a row's lock still sees what it read, so
  `balance_after` is computed from the current balance. `EveryPaidEarned`: each paid payment
  has an `earn` row of its own that no adjustment matches yet, so that a cancellation, which
  has to turn a paid payment into a refunded one to take points, never takes them twice.
  `WaitInv` says where a transaction of each kind is when it has a lock on a guest, a booking
  or a payment: the guest comes last everywhere (`GuestComesLast`), a cancellation with its
  booking asks only for paid payments, which nobody keeps locked (`CancellationsWaitLittle`),
  and so only the job can close a circle.
- *AuthRoutes.* `LocksExclude` (of the requests past `FOR UPDATE` on one token there is one)
  and `Lineage` (a family begins with one login) give single use. `Crowd` gives
  the limits: a request is let in below the limit, so what is recorded and what is under way
  grow past it only by those served at once (`LetInWithin`), and recording moves a request
  from one to the other (`RecordedStaysWithin`). `HistoryInv` gives the two action
  properties.
- *Gallery.* `LocksCover` and `Alone`: a promotion past the index has every other cover in
  its locks and is the only one there. `Undisturbed` gives `RefusedOnlyInRace`. `Holding`
  gives the deadlocks: a promotion that has not written its photo holds covers only, of
  which there is one, so a circle goes from its holder to the holder of a photo and back.

Each refinement theorem takes the same route: the initial states map to initial states, and
under the invariant every step is one of the abstract specification or a stutter.

Only model-checked: the liveness properties (`Answered` of `BookingTxn`, `PointsTxn`,
`AuthRoutes` and `Gallery`, `ChargeSettles`, `InvoiceSettles`), since fairness
and ENABLED are out of the prover's reach. Of the arithmetic in `Pricing` it is proved that
amounts are naturals within their caps, how far rounding moves a price and which way the
fees grow, not that they equal the code's doubles.

## Not modelled

- Who may see or cancel a booking, JWTs and their claims, password hashing, formatting of
  amounts and dates, the HTTP requests to the gateways and the check of 2C2P's signature.
- Catalog reads, and the upserts of translations, details, policies and amenities: single
  statements on rows of their own that nothing else reads back. An `is_cover` that arrives
  as a string is not modelled either.
- The fields of a staff update other than `is_active`; rows of successful logins, which
  nothing counts; guest rows without a password, which bookings make.
- Rooms do not change their status: no code does that. A guest row is named by its email.
- `Payments` takes a webhook's transaction for one step; `PointsTxn` takes it apart, for
  successes that settle a payment.
- Single SELECTs for guests and staff, the HTTP shell, the scripts: they keep no state.

## What could come next

A guest's booking whose points expire with it (no document says what should happen); the
failure path of a webhook lock by lock; roles and emails of staff accounts, if routes ever
read them back from the table instead of from the token.
