# A verification of the ride-sharing service

The repository is a bike-ride sharing service: riders publish a ride with some
seats, passengers ask for a seat, pay a tip, are picked up and dropped with
one-time codes. The server (`src/backend/src`, Node.js on PostgreSQL) keeps the
rows; a browser tab (`src/frontend/src`) keeps a session, the maps' socket and a
badge. This project models that state, checks it with TLC and proves about it with
TLAPS. `src/s` holds an earlier copy of the code and is
not considered.

## 1. Inventory

| Part | State it keeps | Operations | Talks to |
| --- | --- | --- | --- |
| Status machines (`utils/stateMachine.js`) | none | `assertTransition` | every service |
| Ride requests (`rideRequest.service.js`) | `ride_requests.status` | create (ride read, duplicate check, insert) | reads the ride |
| Bookings (`booking.service.js`) | `bookings.booking_status`, `rides.available_seats` | accept, reject, withdraw (`cancelRequest`), `cancelBooking` | locks the ride, refunds |
| Payments (`payment.service.js`) | `payments.status`, `bookings.payment_status`, `rider_payout_status` | `createOrder`, `verifyPayment`, `handleWebhook`, `applySuccess`, `refundPayment` | the payment provider; writes bookings |
| Ride lifecycle (`ride.service.js`) | `rides.status` | create, update, publish, cancel, start, complete | clean-up, vehicles, licences |
| Clean-up (`tripLifecycle.service.js`, timer in `server.js`) | none of its own | `closeRide`, `dropUnpaidBookings`, `sweep` | rides, requests, bookings, refunds |
| Boarding (`boarding.service.js`) | `bookings.boarding_status`, the stored code, its attempts and expiry | send and verify the pickup and the drop code | releases the payout |
| One-time phone codes (`phoneOtp.service.js`) | `phone_otps`: code, attempts, expiry, verification token | `send`, `verify`, Firebase confirmation, `isVerified`, `consume` | SMS, accounts |
| Accounts (`auth.service.js`, `user.service.js`) | `users` | register, login, change phone, forgotten password | phone codes |
| Vehicles (`vehicle.service.js`) | `vehicles`: owner, plate, active, verification | add, edit, remove, upload RC, verify, claim a plate | OCR, registry, rides |
| Driving licences (`drivingLicence.service.js`) | `driving_licences` | submit | OCR, registry, rides |
| Road route (`ensureRoadRoute`, timer in `server.js`) | `rides.route_geog` | edit, look up, backfill | the routing service |
| Live location (`realtime/`) | positions in memory, socket rooms, persisted pings | join, update, leave, `GET live-location` | rides, bookings, the maps |
| Matching, pickup zone (`utils/pickupZone.js`, `searchCandidates`) | none (pure) | search, `joinCheck` | rides |
| Session of the web client (`AuthContext.jsx`, `api.js`, `ProfilePage.jsx`, `ProfilePhotoPicker.jsx`) | the stored token, whom each tab shows | reload, login, logout, profile and photo calls | authentication |
| Maps and badge of a tab (`LiveTrackingMap.jsx`, `AppLayout.jsx`) | joined rooms, unread count | mount, unmount; page change, socket event | sockets, notifications |
| Notifications (`notification.service.js`) | `notifications` | dispatch, mark read | sockets |
| Ratings | `ratings` | rate | bookings |
| Administration | users, vehicles | verdict on a vehicle, turn an account off | |
| Audit, HTTP, routing, SMS, OCR, images, pages and forms | side effects or presentation | | |

**How they interact.** Each HTTP request, webhook delivery and timer tick is one
asynchronous handler; handlers share nothing but database rows. A service is a
sequence of SQL statements on a connection pool at READ COMMITTED, of which some
are grouped by `withTransaction`. The only explicit lock is `SELECT ... FOR
UPDATE` of the ride row (`lockForSeatUpdate`).

**What is hard.** Nearly every operation checks on one statement and writes on a
later one, so any two handlers may act on stale reads; refunds follow the commit
that made them due; payments do not take the lock that closings hold; the
provider repeats its webhooks; the process may die between any two statements.
Section 6 says what goes wrong because of it.

**What makes the trip correct.**
* seats: free and held seats are the seats of the ride; none is promised twice;
* agreement: a request says accepted exactly if its booking holds a seat, a closed
  ride has nobody left on it, the payment and its booking say the same;
* money: nobody is confirmed or boards without paying, a cancelled booking keeps
  nobody's money, the rider is paid exactly at the drop;
* order: rides, bookings and boarding only move along their status machines;
* progress: every call is answered.

**What makes the rest correct.**
* identity: an account's number was confirmed by its holder, one confirmation makes
  one account, and a code can be guessed at only so often;
* plates and licences: a plate stays with the account that proved it, a licence
  number serves one account, a rider has one open ride, on a vehicle that exists;
* geometry: the saved route joins the ride's end points, a search agrees with the
  join rule, a detour is paid for;
* privacy: nobody's map draws a fellow passenger, the rider's position goes to
  nobody who was not let into the ride;
* the client shows what the server holds: the session, the room, the badge.

## 2. Modules

| Module | Models | Notes |
| --- | --- | --- |
| `StateMachine` | `stateMachine.js` | the three transition tables |
| `TripStore` | the rows of one ride with its requests, bookings and payments; row locks; the handlers in flight | declares all constants and variables |
| `BookingService`, `PaymentService`, `TripLifecycle`, `BoardingService` | the service of that name, one action per statement or transaction | each `...Step(p)` is the disjunction of its actions |
| `RideTrip` | the composition, the properties, fairness | `Step(p)`, `Next`, `Spec`, `FairSpec` |
| `SeatLedger` | the abstract promise of the seat counter: take, give back, call off | implemented by `RideTrip` (`LedgerSpec`) |
| `MCRideTrip` | the instances TLC runs | |
| `RideTypeProofs`, `RideInterleavingProofs`, `RideInTurnProofs`, `SeatLedgerProofs` | theorems and proofs about the trip | types; what holds of every interleaving; what holds of handlers that take turns; the ledger |
| `Callers` | what the account components share: users, handlers, the limit on guesses | |
| `OneTimeCode` | the abstract promise of a place that checks one-time codes | implemented by each row of `PhoneOtp` (`EveryCodeLimited`) and by `BoardingCode` (`BoardingCodeLimited`) |
| `PhoneOtp` | `phoneOtp.service.js` and its rows | |
| `Accounts` | `register` and `updateProfile` on top of it | extends `PhoneOtp` |
| `Vehicles`, `RideOffers` | plates and vehicles; creating and publishing rides with them | `RideOffers` extends `Vehicles` |
| `Licences` | `drivingLicence.service.js` | |
| `RideRoute` | the saved route and its background look-ups | |
| `PickupZone` | the pickup rule and the search's geometry | pure operators over bounded inputs |
| `BoardingCode` | the code of one booking: which it is, its guesses and its expiry | what the stages do to the trip is in `BoardingService` |
| `Passwords` | forgotten passwords | |
| `Sessions` | tabs sharing one stored token, the calls they have under way, and the server's check of the token | |
| `LiveLocation` | socket handlers, the store, persisted pings, the HTTP answer | |
| `RideRoom` | the maps of one tab, the socket's end at the server, and the messages between them | |
| `Badge` | a user's notifications and a tab's unread count | |
| `MCAccounts`, `MCOffers`, `MCLive` | the instances TLC runs | |
| `OneTimeCodeProofs`, `LiveProofs`, `OfferProofs`, `AccountsProofs` | theorems and proofs about the rest | `OfferProofs` follows the parts of `MCOffers`; `LiveProofs` takes boarding codes, sessions, positions, rooms, badge and passwords in turn |

**State of a trip.** `rideStatus` is `rides.status`, `availableSeats` is
`rides.available_seats`, `requestStatus[r]` is `ride_requests.status`, and
`bookingStatus`, `paymentStatus`, `payoutStatus`, `boardingStatus`, `storedOtp`
are columns of `bookings`, `payment` is `payments.status`. A booking and its
payment are keyed by the request: `bookings.ride_request_id` is UNIQUE and the
payment's idempotency key is the booking id. `"NONE"` is a row that does not
exist. `op`, `pc`, `on`, `todo` are a handler's local state: the operation, the
next statement, the request in hand and the bookings still to deal with.

**Steps.** One action is one SQL statement, or one transaction body where the
transaction reads nothing it does not lock. A transaction that reads an unlocked
row takes two actions (`CloseLock`/`CloseWrite`, `DropLock`/`DropWrite`,
`SettleTx`/`SettleConfirm`, `RefundTx`/`RefundWrite`) and holds `rideLock` or
`paymentLock[r]` in between. A statement that updates a row waits while another
handler holds it; inserting a request waits for the ride row because the foreign
key check takes a share lock on it. Validation that writes nothing (ownership,
input formats) is left out: it only refuses calls.

**Abstractions.** Amounts are reduced to "is there anything to pay"
(`paid` of `Reserve`, free because the rider may edit the tip until the accept).
Time is nondeterminism: the ride may or may not be overdue, each unpaid booking
may or may not be past its deadline. A one-time code is the stage it was made
for; which code it is, its attempts, expiry and resend wait are in `BoardingCode`.
PostgreSQL's deadlock detection (cancelling locks
booking then ride, closing locks ride then booking) rolls back one transaction:
that is a handler that dies, `Fail`. `crashed` remembers that one did.

**The account and offer modules** follow the same pattern: a handler keeps a record
(`task`, `errand`, `job`, `work`, `application`, `serving`) of the step it is at and
of what it has read; one action is one SQL statement, or the answer of a service
outside (SMS, OCR, registry, routing), which may be any it can give. Nothing here is
a transaction. Codes, tokens and reset links are random in the code and are fresh
values here; `codeFresh`, `tokenFresh`, `otpFresh`, `linkFresh` say that the expiry
is still to come. Variables that a comment calls *history* remember what happened
(who earned a token, how many handlers overlapped) and no action of the code depends
on them. The configuration is the production one: codes are sent by SMS
(`OTP_DEV_MODE` is false) and images are hosted.

**The client modules** take one action per event of the browser or message of the
network. In `Sessions` a call is sent with the token stored at that time, answered by
the server and delivered to its tab, in three steps. A tab may have any number of calls
under way (`Calls` bounds them for TLC), and they outlive a page, a logout and the next
login: a late answer to a profile or photo call makes its user the one shown. Only a
reload forgets them. A photo takes its token after it has been shrunk, which may be
later than the click. In `RideRoom` the browser appends joins and leaves to `up`, the
server takes them in order, serves a leave as it arrives and a join after two awaited
reads (so joins may be answered, and a leave served, in another order), and a join's
answer reaches the browser last; an effect that is gone ignores it. A map whose ride
changes keeps `connected`; one that unmounts is gone with it. `LiveLocation` keeps of a
position whose it is and what it says of that, the two things visibility is decided on.

## 3. Runs

| Run | Instance | Checks |
| --- | --- | --- |
| `one_at_a_time` | one handler at a time, three requests (one passenger may ask twice), two seats, one request wanting both, crashes, every operation | types, `SeatsConserved`, `RequestMatchesBooking`, `ClosedRideIsEmpty`, `OneActiveRequest`, `NobodyLeftOnBoard`, `PayoutFollowsDrop`, `NoUnpaidPassenger`, `RefundsSettled`, `FollowsStateMachines`, `BoardingForward` |
| `locked` | three handlers, two requests competing for two seats, the operations that give seats back under the ride lock only | `NeverOversold`, the refinement `LedgerSpec` |
| `concurrent` | two handlers of any operation on one request, with crashes, handlers symmetric | `ConfirmedWasPaid`, `BoardedHasPaid`, `LedgersAgree`, `ReleasedWasBoarded`, `MoneyIsIrrevocable` |
| `answers` | two handlers, the operations that take locks or loop, fair | `HandlersAnswer` |
| `accounts` | two handlers of every call of `Accounts` and `PhoneOtp`, two numbers, users, codes and tokens, one number registered, crashes and expiry, symmetric | types, `PhoneIsProved`, `OneAccountPerVerification`, `NoReplay`, `VerificationKept`, the refinement `EveryCodeLimited` |
| `offers` | five parts (`part`), one moving per behaviour: plates, rides, licences, route, pickup zone; two handlers or look-ups, two of each kind of row | `VerifiedIsProven`, `VerifiedPlateKept`, `OneOpenRide`, `OpenRideHasVehicle`, `OneLicencePerNumber`, `RouteFitsEnds`, `SearchAndJoinAgree`, `DetourIsPaid` |
| `live` | six parts, one moving per behaviour: boarding code; passwords; sessions (two tabs, users and calls under way besides the checks of reloads); location (a rider, two passengers, two handlers, a restart); room (two maps of one tab, two rides, two joins, three messages on their way); badge | the refinement `BoardingCodeLimited`, `BoardsWithPickupCode`, `LinkUsedOnce`, `ShownIsStored`, `PositionsStayPrivate`, `MapIsConnected`, `BadgeCountsUnread` |
| `bug_*` | the smallest instance that shows a disagreement | one property each, violated |

*Sequential run.* What a service promises of a call, it promises of calls that
do not overlap; `one_at_a_time` shows that the promises hold then, in every
order of calls, and even if handlers die between statements. `NoUnpaidPassenger`
and `RefundsSettled` are about handlers that ran to their end: they are stated
for trips without a crash, since the code has no recovery for either
(`RefundedIsCancelled`, the other half of `RefundsSettled`, is stated with crashes).
The same properties fail when calls overlap (section 6).

*Conditions on overlap.* The same holds outside the trip: a property that begins
with `crossed`, `overlapped` or `raced`, or is bounded by `width` or `handlers`, is
promised of calls that do not overlap, and `BadgeCountsUnread` of the times nothing
is `astray`; section 6 says what happens otherwise, and names the property without
the condition that TLC finds violated where the repository promises more. `ShownIsStored` excepts a tab that last logged in
while a call of another user was under way in it (`outlived`), and `MapIsConnected` a
map since whose join another map left (`left`) or the line dropped (`cut`). The
others hold for every interleaving.

`ConfirmedWasPaid` says that a booking that costs a tip was paid before it was
confirmed; the money may have gone back since, and `RefundedIsCancelled`, that nobody
keeps a seat whose money went back, holds of handlers in turn only (section 6).

*Concurrent runs.* What holds for every interleaving is checked in `locked` and
`concurrent`, and proved in general. Two handlers suffice to show every pairwise
race; three are used in `locked`, where an accept, a closing and a release can
meet. `concurrent` was also run with three handlers (without crashes, 9.4
million states) with the same result.

**Bounds.** Requests, passengers, seats and handlers are small sets.
`SeatBound` keeps `availableSeats` finite: no cancellation starts above that
many free seats, so seats that were given back twice are reached but do not pile
up for ever. A model request is sent at most once; asking again is another
request of the same passenger.

In `accounts` two codes and two tokens let a code be replaced and a number be
verified twice while a handler is under way; the limit on guesses is 1 there and 2
in `live` instead of the code's 5, which changes only how long counting takes.
`offers` and `live` put components side by side that share no state, so `part`
chooses which one moves (of those in `Parts`): their product would add states and no
behaviour of any of them. Because no two parts move together, the model values of
`live` serve several of them (`x1` is a handler, a tab or a map), which lets few
permutations make the parts symmetric. Two calls under way let a profile call outlive
a logout and the login that follows; two joins let one map's join cross the other's, or
the same map's for another ride, and `MaxUp` = 3 lets a leave be queued between them.
Of rides, plates, vehicles, licence numbers, links, tabs, maps and passengers
there are two, enough for one to be taken for another; in the part `rides` only one
vehicle is ever added. Boarding codes are three, so that a pickup code is resent and
a drop code follows. `MaxEdits` = 4 lets edits come before, under and after two
look-ups; `MaxRows` = 3 and `MaxFetches` = 2 let a list cross another list and
notifications cross both. `Ambiguous` is empty in `offers`: that OCR confuses
characters only widens `LookAlike`. `SomeAsks` puts points just below and above
every limit of the rule, on routes short enough for the fixed limit, at the
percentage, and beyond the maximum, free and paid.

**Fairness.** `FairSpec` is strong fairness of each handler's next step: Node
resumes a handler when its query answers, and PostgreSQL hands a row lock to
those queued for it, so a step that is enabled again and again is taken. Nothing
obliges users to call, the provider to deliver, or the sweep to find anything.
`answers` leaves out `Fail`: a handler that dies does not answer.

## 4. Proofs

The theorems about the trip are about `Spec` (or the ledger) for every value of the
constants that satisfies `RequestsAssumption` and `NamesAssumption`: requests have a
passenger and ask for at least one seat, the ride has at least one, and the two
"none" values are not handlers or requests. The sets need not be finite.

* `TypesHold`: `TypeOK`. Types are not inductive alone: `availableSeats` grows by
  `SeatsRequested[on[p]]`, so the invariant adds `KnowsRequest`, that a handler
  whose next step works on a request has one in hand.
* `NobodyConfirmedForFree`, `NobodyBoardsForFree`, `PaymentsAndBookingsAgree`,
  `OnlyBoardedPaysTheRider`, `MoneyStays`: the five promises of run `concurrent`.
  The inductive invariant `PaidInv` adds that a booking not yet made owes nothing
  (`FreshBooking`) and what each handler *remembers*: at a settling, failing or
  refunding step a payment exists; at `insertOrder` the booking costs a tip; at a
  boarding step the booking was confirmed and owes nothing. These memories are
  stale reads. They stay true because no step of any handler falsifies such a fact
  (`Irrevocable`): that is proved action by action and is a property of its own.
* `OneTransactionPerRow`: a row lock is held exactly while its owner is between the
  halves of a transaction.
* `RideImplementsLedger`, `NoSeatPromisedTwice`: if none of `cancelBooking`,
  `cancelRequest`, `verifyPayment`, `webhook` is in `Ops`, the trip implements
  `SeatLedger` (step by step: `Reserve` takes, `DropWrite` gives back, `CloseWrite`
  calls off, the rest stutters) and free plus held seats never exceed the ride's.
  The condition is necessary: `bug_double_release` and `bug_late_payment` break it
  through the operations left out. The argument: a release found the booking
  unpaid under the ride's lock, and whoever else could change it needs that lock.
* The promises of run `one_at_a_time` (`RideInTurnProofs`): `SeatsAreConserved`,
  `RequestsFollowBookings`, `ClosedRidesAreEmpty`, `NobodyAsksTwice`,
  `NobodyIsLeftOnBoard`, `PayoutComesWithDrop`, `UnpaidStayBehind`, `RefundsAreSettled`, `NobodyRidesRefunded`,
  `MachinesAreFollowed`, `BoardingGoesForward`, and `OneHandlerTakesTurns` for the run's
  own instance. They are theorems of `Spec /\ []OneAtATime`: there may be any number of
  handlers, requests and seats, but one begins only when no other is in flight. The
  premise is needed: without it TLC finds these very properties violated (section 6). Crashes
  are in. The inductive invariant (`InTurnInv`) says of a handler's next statement what
  it has read and still holds, since nobody came between (`Recalls`); which refunds it
  still has ahead of it, so that what a cancelled booking is owed is always about to be
  paid back (`Settled`); which unpaid bookings of a started ride it will still release
  (`Dropped`); and what the money columns say of each other (`MoneyAgrees`). That free
  and held seats add up is proved by counting places, as for the ledger; the held ones are
  finite although the set of requests need not be.
* `LedgerIsBalanced`: the ledger's own balance, by counting places as pairs of a
  request and a number; holders are finite because they are added one by one.

The theorems about codes, accounts and offers assume `CallersAssumption` (a limit of
at least one guess, finitely many handlers, `NoUser` is no user), `PhoneAssumption`
(registered numbers are distinct, the "none" values are none of the rest),
`BoardingCodesAssumption` (`NoCode` is no code), and for the abstract code
`CodeNumbers`, which says the same of its own constants.

* `CodeInvariant`, `GuessesLimited` (`OneTimeCode`): a code is answered "wrong" at
  most `MaxAttempts + Cardinality(Procs) - 1` times. That is not inductive, because a
  guess is counted after it is compared: the invariant counts the handlers still
  comparing with a code as if they had answered (`WithReaders`), and says that the
  counter is never behind the answers to the current code (`NotBehind`), which is what
  stops the next handler from reading it.
* `BoardingImplementsCode`, `BoardingGuessesLimited`: `BoardingCode` implements it,
  step by step; the invariant behind `CurrentCodeWasSent` is what makes a code that is
  sent one that nobody has guessed at. The bound then follows from the abstract theorem.
* `RowsAreCodePlaces`: so does the row of every number of `PhoneOtp`. The invariant
  (`CodesAtHome`) says that a code in a row, or in the hand of a handler that is to
  count a guess, was made for that number, and that a code not yet made was not guessed.
* `AccountsTypes`: `TypeOK`; besides the types, handlers at the steps that write a
  code or a token know which.
* `PhonesAreProved`: `PhoneIsProved`. The invariant (`ProofInv`) follows a token to the
  account: a token in a row was earned for that row's number, a code that was found
  right was made for the number at hand, and a handler past its checks holds a token
  of the very number it will write.
* `OneAccountEach`: `OneAccountPerVerification`. The invariant (`OnceInv`) says that a
  token one sign-up has used up is on no row and in no other sign-up's hand, and has
  created nothing yet: the delete is what lets one sign-up win.
* `VerificationsServeOnce`: `NoReplay`. The handlers that hold a token past its check are
  counted with the uses it has had (`ReplayInv`): together never more than were in flight at
  once. A handler comes to hold a token only while the token is good, and a good token has
  served nobody, because every handler that uses one has come past its `DELETE` first, and
  after that the row is gone or its time is up.
* `VerificationsAreKept`: `VerificationKept`. With `ReplayInv`'s count a second handler in
  flight shows in `width`; so a failed send that is alone removes the row it wrote
  itself, on which no verification stands yet (`OwnRowIsBare`).
* `NoSharedLicence`: `OneLicencePerNumber`; a verified number is on one row, expired or
  not.
* `ProvedPlateKept`: `VerifiedPlateKept`. A claim releases a row only if it is
  unproved at that very statement, so what the claim read before does not matter; and
  an insert takes an id without a row (`RowsHaveOwners`: an active vehicle has an owner).

* `RidersOfferOneRide`, `VehiclesStay`, `ReadingsAreProof`, from `OffersInvariant`: as long
  as handlers have not overlapped there is one errand at most (`OneErrand`), and it finds
  what it read earlier unchanged (`Remembers`).
* `RoutesFit`: `RouteFitsEnds`; a look-up that no edit has raced asks for the end points the
  ride has (`LookupsCurrent`).
* `SearchAndJoinAgreeAlways`, `DetoursArePaid`: the geometry, for every limit, rate and
  length, from lemmas on rounding (`RoundKeepsOrder`), the limit and products. They assume
  of the inputs (`ZoneAssumption`) that lengths are natural numbers, a route has a length, and
  that a point is no nearer to an end of the route than to the route, which the ends are on.

In `LiveProofs` the components are proved about one after another.

* `PickupCodeBoards`: `BoardsWithPickupCode`; the stored code is always one for the stage the
  booking waits in (`CodeFitsStage`), and a handler that is alone has matched one of the
  stage it checked (`MatchedFits`).
* `LinksAreUsedOnce`: `LinkUsedOnce`, by the count that `NoReplay` takes: the passwords a
  link has set and the handlers that found it good.
* `ShowsWhoIsStored`: `ShownIsStored`; a tab that checks its session shows no page and
  has no other call (`ChecksHoldPages`), and what the tab that logged in last asks about
  the profile, it asks by the token that is stored (`CallsAreCurrent`), unless it logged
  in over a call of somebody else's.
* `PositionsArePrivate`: `PositionsStayPrivate`; a position in memory says whose it is, a
  persisted one does not, and nobody is in the room, or past the check and about to enter
  it, whose present connection was not let in (`PositionsInv`).
* `ConnectedMapsListen`: `MapIsConnected`, with the network between the tab and the
  server. A map has one join that still counts, and it is for the ride the map shows
  (`JoinsFitMaps`); as long as no other map has left, no leave is queued behind that
  join, and once it is served none is on its way (`NothingLeaves`); and no join that is
  still to be served was sent before or after the newest map's (`NewestIsLast`).
* `BadgeIsRight`: `BadgeCountsUnread`; while nothing came or was read since the page changed,
  a list that has been read has what is unread (`ListIsCurrent`).

Beside the assumptions above these use that `NoLink` is no link (`LinksAssumption`),
`NoRide` no ride (`RoomAssumption`), and that the badge's bounds are numbers
(`BadgeAssumption`).

Every inductive invariant was an invariant of a TLC run of the same instance before it
was proved.

Only model-checked: liveness (`HandlersAnswer`), which is outside the prover's reach. The
disagreements of section 6 are counterexamples, which TLC finds.

## 5. Not modelled, and what would come next

* Ratings and safety reports: one statement each behind a check, and for ratings a
  UNIQUE index that decides what the check does not.
* The HTTP layer and its validators, rate limits and error answers: they refuse calls
  before a service runs. The check of a request's token is in `Sessions`.
* Clients of external services (routing, OCR, SMS, registries, images): their answers
  are free choices where they matter.
* Distances (PostGIS and floating point) and the ranking of search results: inputs
  of `PickupZone`, or presentation.
* Which event notifies whom, the audit table, listings: nothing reads them back.
* Pages and forms of the web client, which are most of the repository's lines: they
  show what the services return and send what the user types. What they share or
  receive asynchronously is modelled.
* `src/s`: an earlier copy of the same code.
* The sweep over several rides: one ride's sweep is modelled; a ride whose closing
  fails ends the pass, and the code leaves the others to the next one.

What would come next: each promise of `RideInTurnProofs` from the weakest premise it needs
(which operations may overlap without breaking it) instead of one premise for all, as
`NoSeatPromisedTwice` has it; the lifecycle of several rides of one rider at once; and what
remains of notifications, ratings and administration.

## 6. Where the code and its promises part

Five runs each check one property that a line of the repository states and TLC finds
violated; `PROJECT.json` quotes the lines. Two of them need no overlap at all:

| Run | What happens |
| --- | --- |
| `bug_search` | the search and `joinCheck` part, which `ride.repository.js:251` says they do not. The search compares metres with the unrounded limit; the join rule rounds both to 100 m, so it takes points up to 99 m beyond the limit that no search lists (a limit of 2550 m and a point at 2649 m are both 26 hm). And the search lets a drop lie up to 5 % of the route before the pickup, or anywhere if both points are near the ends, where the join rule allows 2 %. `SearchAndJoinAgree` says that they part in no other way |
| `bug_shared_ping` | `GET /rides/:id/live-location` falls back on the last persisted ping, which may be a fellow passenger's, against `visibility.js:3`; the maps do not draw it, which is part of `PositionsStayPrivate` |
| `bug_double_release` | two cancellations of one booking return its seats twice |
| `bug_late_payment` | a payment that read the booking just before the sweep released it confirms it again |
| `bug_second_success` | a webhook repeated after the refund records a second success |

More promises are broken by calls that overlap. The modules state each of them without a
condition, under the name below; checked in place of the property of the cfg that is
named, TLC finds it violated within seconds. In `bug_double_release.cfg`, with two
handlers, `CHECK_DEADLOCK FALSE` (no operation may be left) and the `Ops` given:

| Property | `Ops` | What happens |
| --- | --- | --- |
| `RefundedIsCancelled` | `createRequest`, `acceptRequest`, `publish`, `createOrder`, `verifyPayment`, `webhook`, `cancelBooking`, `sweep`, with three handlers | *a confirmed seat whose money went back*: the verify call and the webhook both read the payment PENDING, one settles it, the passenger cancels, and the other, which read the booking before the cancellation was written, confirms it again; the refund then writes `paymentStatus` REFUNDED over a CONFIRMED booking, against `payment.service.js:17-20` |
| `RefundsSettled` | `createRequest`, `acceptRequest`, `publish`, `createOrder`, `verifyPayment`, `cancelRide` | a payment that commits while `closeRide` is under way, after its bookings were read, is not refunded (`tripLifecycle.service.js:17`) |
| `NobodyLeftOnBoard` | `createRequest`, `acceptRequest`, `publish`, `start`, `sendPickupOtp`, `verifyPickupOtp`, `complete` | someone boards between `complete`'s count and its write (`ride.service.js:147-148`) |
| `OneActiveRequest` | `createRequest`, `publish`, with `Requests` {r1, r2}, `AliceTwice`, `OneSeatEach` | two requests of one passenger both pass the duplicate check |
| `ClosedRideIsEmpty` | `createRequest`, `publish`, `cancelRide` | a request inserted after the ride closed stays open |
| `RequestMatchesBooking` | `createRequest`, `acceptRequest`, `publish`, `rejectRequest` | a rejection written over an acceptance closes the request and leaves its booking |
| `FollowsStateMachines` | `publish`, `cancelRide` | a `publish` written after `cancelRide` revives the cancelled ride |
| `BoardingForward` | `createRequest`, `acceptRequest`, `publish`, `start`, `sendPickupOtp`, `verifyPickupOtp` | resending a pickup code while it is verified takes the passenger back to `OTP_SENT` |

In `bug_search.cfg`, with the part named in `Parts`:

| Property | Part | What happens |
| --- | --- | --- |
| `NoSecondOpenRide` | `rides` | two `create` of one rider both find no open ride (`ride.service.js:43-44`) |
| `NoRideWithoutVehicle` | `rides` | a vehicle is removed between a creation's look at it and its insert (`vehicle.service.js:269`) |
| `ProvedByMatchingRc` | `plates` | a plate edited under the OCR is verified by the RC of the former one (`vehicle.service.js:21`) |
| `RouteInStep` | `route` | a look-up that was under way saves the route of end points edited since, and no later backfill replaces it (`ride.service.js:87`) |

In `bug_shared_ping.cfg`, likewise:

| Property | Part | What happens |
| --- | --- | --- |
| `ShowsSignedInUser` | `sessions` | a profile or photo call outlives a logout and the next user's login in that tab; its answer shows the former user while requests go out with the new one's token (`ProfilePhotoPicker.jsx` calls it "the signed-in user") |
| `ShownRideIsHeard` | `room` | two maps of a tab share a socket; the one that unmounts leaves the room of whichever joined last, and the other goes on saying it is connected |
| `OnlyPassengersListen` | `location` | a passenger let into the room stays there, and gets the rider's position, after the booking has ended (`LiveTrackingMap.jsx:547`) |

The model also shows these, which no line of the repository speaks against:

* with one handler and a crash, a refund or the release of unpaid bookings at `start`
  can be lost (`RefundsSettled`, `NoUnpaidPassenger` without their condition on
  `crashed`);
* a payment may be FAILED while its booking's `paymentStatus` is SUCCESS
  (`LedgersAgree` excepts it);
* an expiring ride writes `EXPIRED` over accepted requests, a move the request machine
  of `stateMachine.js` does not list: requests are not part of `FollowsStateMachines`;
* two calls that present the same verification, or the same reset link, may both be
  served (`NoReplay` and `LinkUsedOnce` bound them by the handlers in flight);
* a drop code may complete a pickup whose stage was checked before it was sent
  (`BoardsWithPickupCode`);
* a vehicle that loses its verification while a ride is open on it can be released to
  another account's claim (`OpenRideHasVehicle`, `demotedInUse`);
* the failed check of one tab's reload drops the token another tab has stored meanwhile,
  whose user then goes on being shown without one (`ShownIsStored` is about the tab
  that logged in last, and about a token that is there);
* after a reconnection no map joins its ride's room again (`cut`).
