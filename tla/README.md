# A TLA+ verification of instagram-api

The repository is the backend of an Instagram-like site: a NestJS monorepo of
three applications that talk over TCP (`@nestjs/microservices`) and share a
PostgreSQL database through Prisma.

* `apps/instagram-gateway` serves HTTP, GraphQL and web sockets and holds nearly
  all state and logic;
* `apps/payments` opens checkout sessions and captures payments at Stripe and
  PayPal, and keeps nothing;
* `apps/files` stores images in S3 and their metadata in MongoDB.

Every handler is an asynchronous function of one Node process. Between two
awaits a handler is atomic; at an await any other handler, cron job or socket
callback may run. Prisma calls are single statements or short transactions, and
most repositories swallow database errors and return `false`, `undefined` or
`null`. The interesting behaviour is therefore in interleavings at awaits, in
errors nobody looks at, and in calls that providers and clients repeat.

Source paths below are relative to `src/`; `gateway/` abbreviates
`apps/instagram-gateway/src/`.

## Inventory

| component | state | operations | hard behaviour | what makes it correct |
|---|---|---|---|---|
| **Subscription purchase** (`gateway/features/subscriptions/.../buy-subscriptions.use-case.ts`) | transaction and order rows | `POST create-payment` | two rows and a remote session are created one after the other, each step can fail, the process can stop | whoever can pay has both rows at the price charged |
| **Payment hooks** (`stripe-hook`, `paypal-event-hook`, `paypal-hook` use cases) | transaction status, subscriber rows, account | one handler per provider endpoint | repeated, duplicated, reordered and concurrent deliveries; a failure after the account was written | a charge extends the account, no extension without a charge, repetitions are bounded by faults |
| **Subscription service** (`subscriptions.service.ts`, `users.repo.ts`) | `user.accountType`, `endDateOfSubscription`, `autoRenewal` | extend, notify, end | read-modify-write of the end date over several awaits | no day is given away; days are lost only to an overlapping writer |
| **Expiry job** (`check-subscriptions.ts`) | the list read at the start of a run | hourly run | acts on a stale list; a failing mail ends the run | ends only what is past, and in the end everything that is |
| **Payments service** (`apps/payments`) | none (the providers') | open a session, capture | calls that time out after they took effect | amount of the session equals price of the order |
| **Sessions and tokens** (`gateway/features/auth`, `users/infrastructure/devices`) | `DeviceAuthSession` rows, signed tokens in clients | login, OAuth login, refresh, logout, terminate one or all others, guards | concurrent refreshes, whole-second time stamps, sessions deleted by recovery | a refreshed token is no longer accepted, a terminated device is out, other users are unaffected |
| **Registration and password recovery** (`gateway/features/auth/.../registration`, `password`) | user, confirmation code and recovery code rows | register, confirm, resend, recover, new password | unique keys under concurrency, compensation when mail fails, expiring codes | a mailed code is a stored code, one account per email and username |
| **Notifications and sockets** (`gateway/features/notifications`, `socket`) | notification rows, map of connected sockets | create, list, mark as read, daily cron, connect and disconnect | connect awaits the user, disconnect does not; one error ends the daily job | everyone whose subscription ends is told, a connected socket misses nothing |
| **Posts and their cleanup** (`gateway/features/posts`) | post and image rows, soft deletion | create, update, delete, weekly cleanup | images deleted in another service before the rows | a visible post has its images, a deleted one goes in the end |
| **Files service** (`apps/files`) | S3 objects, Mongo rows | upload, delete, lookup | two stores without a transaction, swallowed retries | a row has its object |
| **Profile and avatar** (`gateway/features/users`) | profile columns, avatar id and url | fill out, upload and delete photo | read-await-write of the avatar, unique user names | the avatar shown exists |
| **Comments** (`gateway/features/comments`) | comment rows with parents | create, update, delete, list, replies | parents and posts deleted between check and insert; pages computed from two queries | no orphans, nothing removed unasked, pages partition the list |
| **User administration** (`gateway/resolvers/users`) | `UserBanInfo`, `isDeleted` | ban, unban, remove | bans collide on a unique key; `isDeleted` is read by no query about users | a ban or removal leaves the rest of the account alone |
| resolvers, loaders, swagger, configuration, exception filters, test endpoints | none | mappings and formatting | - | not modelled: read-only or pure I/O |

The components meet in the database: hooks, job and purchase share the user,
order and transaction rows; recovery deletes the rows sessions rely on; posts
and avatars name files of another process. The payment providers call back over
HTTP, and the hooks create notifications, which go to sockets.

## Modules


| module | models | proofs |
|---|---|---|
| `Subscriptions`, abstractly `PurchaseLifecycle` | purchase, hooks, subscription service, expiry job, the payments service as far as it is called | `Subscriptions_proofs`, `SubscriptionsSafety_proofs` |
| `Sessions`, abstractly `SessionLifecycle` | devices and refresh tokens | `Sessions_proofs` |
| `Accounts` | registration, recovery, logins, user names, bans | `Accounts_proofs` |
| `Files`, extended by `Media` | the files service; avatars, posts and the cleanup job, which call it | `Media_proofs` |
| `Comments` | comments and replies under posts that go | `Comments_proofs` |
| `Listings` | the paged listings of all components | `Listings_proofs` |
| `Notifications` | rows, daily job, message after a payment, sockets | `Notifications_proofs` |

Each `MC...` module gives the values for TLC, a `.cfg` of the run's name the
bounds. Two components that share tables are in one module where a race between
them is possible, and else meet in an action that stands for the other:
`Sessions!Recover` and `Accounts!EndSessions` for the deletion of sessions by a
recovery, `Notifications!Pay` for what the hooks do to the end date,
`Comments!DeletePost` and `FinallyDelete` for the posts of `Media`.

Operators are written without RECURSIVE, constants have named assumptions, and
each invariant is a conjunction of named parts, so that every module can be
proved about. Throughout, one action is what a handler does from one await to the
next; the first read of a request belongs to its arrival, and a request that is
refused by it leaves no trace. `None` is null or undefined. Faults are counted
and named (`FaultKinds`, `MaxFaults`), so that a property can say which it
tolerates.

## Subscriptions

### State

| variable | code |
|---|---|
| `account` | `User.accountType`, `endDateOfSubscription`, `autoRenewal`; dates are day numbers, `None` is null |
| `tx`, `order`, `subscribers` | the rows of `SubscriptionPaymentTransaction`, `SubscriptionOrder` and `Subscriber`; a purchase `p` names its own rows, because their ids are fresh and `paymentId` is unique |
| `notice` | the date in the last "activated and valid until" notification |
| `buy` | the `create-payment` requests: where each stands and its validated input |
| `session`, `emitted` | the provider: the checkout session and the deliveries it, or the buyer's browser, owes the gateway |
| `closed` | deliveries the provider will not repeat of its own accord: webhooks answered with success, redirects answered at all |
| `hook` | hook requests in flight: the step each is at, its event, and the local variables that survive an await (the order found, the end date computed) |
| `job` | the run of the hourly job, with the users read at its start that it has not reached |
| `clock`, `used` | today, and the faults that happened |
| `grants`, `credit`, `stale` | history for the properties; no action looks at them |

The statuses a provider gives an unpaid session ("open", "CREATED",
"APPROVAL_PENDING") are one value, since no code distinguishes them. The two
spellings of the paid status are kept apart, since one query does.

### Actions

`StartBuy`, `CreateTransaction`, `OpenSession`, `UpdateTransaction` and
`CreateOrder` are the stretches of `BuySubscriptionsUseCase.execute` between
awaits, each with its failure: the swallowed error of the first insert, the
refusal or late answer of the payments service, a failed update or insert.

`Pay`, `Cancel`, `Recharge`, `Deliver` and `Duplicate` are external: the buyer
at the provider's page, the provider's next charge, and deliveries. They follow
from how `src/` uses the providers. A redirect with `GET paypal-hook` is also
what a cancelled PayPal purchase ends with, because `paypal.adapter.ts:68-69`
gives one address for both.

The hooks take the steps their route names (`CheckoutRoute`, `CreatedRoute`,
`SaleRoute`, `ActivatedRoute`, `CaptureRoute`): `Capture`, `FindOrder`,
`MarkTransaction`, `ReadAccount`, `WriteAccount`, `SendMail`, `Notify`,
`UpsertSubscriber`, `DebitNotice`, `Respond`. Each has the outcomes of the
repository call it stands for; `Throw` ends the request with status 500. `Capture` may
also fail without any effect, whatever the session's state: the payments service answers
an error of PayPal's without a response, and the hook throws on it (`paypal-hook.use-case.ts:35`).

`CronStart`, `CronMail` and `CronEnd` are the hourly job; `Crash` drops all
requests and the run of the job; `Tick` is the next day.

### Faults and bounds

Faults are counted, so that a property can say what it tolerates: a failing
database call (`db`), a mail that fails at both attempts (`mail`), an answer
after the time limit (`timeout`), a crash (`crash`) and a repeated delivery
nothing asked for (`dup`). `FaultKinds` and `MaxFaults` choose how many happen
in a run. The other bounds are `MaxCharges` (charges of one recurring
subscription), `MaxCount` (periods in one purchase) and `MaxClock` (days). All
bounds are guards of external actions, none cuts a handler short.

Two handlers are enough for every race of the code, since each is between two
writers of one account or between a writer and the job; two purchases of one
user give two orders on one account, and a second user shows isolation.
`MaxClock = 2` lets a one-day subscription start, run and be past.

Deadlock checking is off: when every purchase is over, nothing is left to do.

### Runs

| run | question | result |
|---|---|---|
| `subscriptions_faults` | With every payment method and any two faults: types, rows before payment (`PayableIsBacked`), an answered webhook has done its work unless a write failed (`AckedIsGranted`), extensions beyond one per payment event are paid for by faults (`ExtraGrantsNeedFaults`) | holds |
| `subscriptions_overlap` | Two purchases with overlapping hooks and job over three days: no free days (`NoFreeDays`), exact extension unless another writer came between (`ExactUnlessStale`), the job ends only what is past unless a hook renewed it meanwhile (`EndedIsPastUnlessStale`), and the whole refines `PurchaseLifecycle` (`ImplementsLifecycle`) | holds |
| `subscriptions_live` | Under fairness, with any two faults of every kind, failing database calls included: a charge announced by webhooks is credited, or its account write failed (`PaidIsGranted`); an expired subscription is ended (`ExpiredIsEnded`) | holds |
| `subscriptions_notice` | The notified date is the end date | violated: one purchase too late |

What the passing runs tell about the code beyond "it holds": the history
variable `stale` marks exactly the read-modify-write windows, so
`ExactUnlessStale` and `EndedIsPastUnlessStale` say that those two windows are
the only way days are lost. `ExtraGrantsNeedFaults` says that without faults an
account is extended once per payment event; for a recurring PayPal purchase the
first charge is two such events (sale and activation), and the buyer gets two
periods. `AckedIsGranted` excludes failing database writes, because
`updateAccountType` swallows them and the hook answers with success anyway.

### Fairness

`FairSpec` assumes that a request that runs goes on (Node's event loop), that a
webhook not answered with success is delivered again (both providers document
retries; the code relies on it by answering 500), and that the job runs
(`@Cron('0 * * * *')`). Nobody is assumed to buy, to pay or to follow a
redirect, so captured payments are outside `PaidIsGranted`: the redirect comes
once, and a capture whose answer is late is not credited by anything.
Faults are bounded, so they end; with a mail server that fails for ever neither
property holds, since the job's run stops at the first user it cannot mail.

`PaidIsGranted` has one exception, `WriteLost`, and the code needs it: `updateAccountType`
of the repository swallows a failed write and returns `false`, which
`subscriptions.service.ts:193` does not look at. The hook answers with success, the
provider does not repeat, and the charge is never credited. The run contains that fault
(`db`), and without the exception the property is violated; with the other failing calls,
mails, late answers, crashes and duplicates alone (that one outcome of `WriteAccount` taken
out) it holds without the exception.

### Proofs of Subscriptions

All theorems are for every value of the constants under `ConstantsAssumption`:
any number of users, purchases, charges, days and faults, and any finite number of
handlers. Finiteness is needed where hooks are counted (a process has finitely many
requests in flight); that no user is a handler, and `None` no transaction, keeps apart
values that are of different kinds in the code.

* `TypeCorrect` and `PaymentsAreBacked` (`Subscriptions_proofs`) follow from the
  inductive invariant `IInv`. `TypeOK` is not inductive: `WriteAccount` needs
  that the handler holds an order and an end date. `IInv` adds that a request
  past its input has it (`BuyInv`), that session, transaction and order are
  stored in this order at one price (`RowsInv`), that an event is about a
  purchase that was offered, and a webhook about one charged (`EventInv`), and
  that a hook is at a step of its event's route, past the capture only for a
  charged purchase, and from `read` on holding that purchase's own order
  (`HookInv`). There is one lemma per action.
* `DaysAreCredited` (`SubscriptionsSafety_proofs`) adds that an end date a hook
  has computed but not yet written is covered by the credit and the order it is
  about to add; overlapping writers only make the stored date smaller.
* `Refinement` maps every step of `Subscriptions` to a step of
  `PurchaseLifecycle` or a stutter, with the stage computed from `grants`,
  `session` and `buy`; it needs that an account extended for a purchase makes
  that purchase charged, which is `HookInv` at the step `write`.

* `ExtensionsAreExact` and `EndedArePast` add `FreshInv`: the end date a hook is about
  to write is the stored one plus the days bought, and whoever is on the job's list is
  expired, unless marked in `stale`. The step that matters is another hook's write,
  which leaves a mark on everybody who has read.
* `AnswersAreTrue` and `ExtrasAreFaults` compare counts, and both rest on `Origins`:
  an event is of the kind its purchase's payment method has, a capture waits only where
  one is needed, what is closed was emitted, and only finitely much was.
  `AnswersAreTrue` (`AckInv`) counts as handled also the events of hooks past the write
  (`Handled`), and has a transaction completed from the step `mark` on (`Marked`);
  closing an event then changes neither count, and a crash only lowers the first.
* `ExtrasAreFaults` (`CountInv`) balances accounts: `grants` and the hooks that may still
  write (`Pending`) are at most the events taken (`Taken`) and the faults spent
  (`Budget`). A delivery adds to both sides; a write moves one unit from pending to
  granted; an event comes free again only when its hook threw before its write, which
  takes the hook out of `Pending`, or after it, which spends a fault; a crash frees at
  most one event for each handler, which is the product in the budget.
* `CompletedAreCharged` proves what no run checks: a transaction marked completed was
  charged (`CompletedIsCharged`). One hook believes a browser: a buyer who cancels at
  PayPal comes back to the same address as one who approves, and only the refused
  capture keeps the transaction open. By `ChargedInv`, only `MarkTransaction` completes a
  transaction, since a request leaves it empty or open; a hook at `mark` is past the
  capture and so of a charged purchase (`HookInv`), and no charge is taken back.

Only liveness (`PaidIsGranted`, `ExpiredIsEnded`) is left to TLC: it needs fairness.

### Not modelled in Subscriptions

Prices and availability are constants of the catalogue, since no code in `src/`
changes them. The listings for the administrator and the paginator are read-only.
The signature checks are commented out in the hooks (`stripe-hook.use-case.ts:34`)
and so absent here. The mail about automatic debiting is sent only in the testing
environment (`send-success-auto-renewal-message.use-case.ts`), so
`DebitNotice` has no effect but its read of the user.

## Sessions

A login gives a browser a refresh token with a device id nobody has, and stores
a row for that device. `JwtRefreshGuard` accepts a token while its device has a
row whose `lastActiveDate` does not lie after the token's `iat`; refreshing signs
a new pair for the same device and moves `lastActiveDate` to its `iat`, so that
rotation is nothing but that one date. Sessions end by deleting rows.

| variable | code |
|---|---|
| `row` | the `DeviceAuthSession` rows by device id; ip, title and `expirationDate` are left out, since nothing compares them |
| `jar` | the cookie `refreshToken` of each browser, shared by its tabs |
| `req` | requests in flight: route, next step, and what survives an await (the token's user and device, `old` and `new` iat, the session to end and the owner read for it) |
| `clock` | now, in whole seconds as in `iat` |
| `faults` | failing database calls (`db`), answers that do not arrive (`lost`), crashes (`crash`) |
| `given`, `ended`, `disturbed` | history: tokens browsers got, devices whose row was deleted, devices whose refreshes overlapped or were cut short. Only `Fresh` looks at the first two, as the memory of ids that `randomUUID` will not give again |

`Login` and `CreateDevice` are the password login and both provider logins,
which differ in the checks before and in nothing after; the pair of tokens is
signed in one instant. `Start` and `Guard` are a request with the cookie behind
the guard. `Sign`, `Lookup`, `UpdateDevice`, `Respond` are the stretches of
`refreshTokens` between awaits, in the code's order: signed first, then the
lookup, then the update, whose error is swallowed. `Find`, `FindOwn` and `Delete`
are logout and the ending of one session; `Delete` alone is 'all other devices'
and, started by `Recover`, the end of a user's sessions by password recovery.
`Lose`, `Crash` and `Tick` are the surroundings.

| run | question | result |
|---|---|---|
| `sessions` | Two users, two devices, one browser, two requests, any one fault: types; a browser that refreshes one at a time and gets its answers stays logged in (`HolderIsAccepted`); no older token than the last is accepted (`OneGeneration`); sessions are ended by their own user or by 'all other devices' (`EndedByOwner`); the rows refine `SessionLifecycle` (`ImplementsLifecycle`) | holds |
| `sessions_others` | 'All other devices' ends only sessions of the caller | violated: `deleteOthers` names no user |

`disturbed` marks where rotation is weak: two refreshes that both passed the
guard before either stored its date both answer with an accepted token, and the
browser may keep the one that is refused a moment later. Outside of that,
`HolderIsAccepted` and `OneGeneration` are what rotation is for. The generation
is a second: both dates are whole seconds (`validate-refresh-token.usecase.ts:25`),
so a token refreshed in the second it was issued in is still accepted, although
`auth.controller.ts:256` says it is revoked.

Two requests make every race of the code, since each is between a request and
one writer of the same row; a third would only repeat one of the two. Two
instants (`MaxClock = 1`) let a token be refreshed in its own second and in the
next, and be older than the last activity. No token lives to its end in the run
(`TTL = 2`); the theorems are for every `TTL` and `MaxClock`. Users, devices,
browsers and requests are symmetric. Deadlock checking is off: device ids are used up.
No liveness is stated, since a session owes nobody progress.

### Proofs of Sessions

`IInv` (`Sessions_proofs`) adds to the types what a handler knows at each step
(`Prepared`); that a device about to be created was never seen and is created by
one request (`Unborn`), without which a late insert could revive an id; that an
ended session has no row (`Buried`); and that the owner `TerminateSessionUseCase`
read is still the owner of the row, or the session has ended meanwhile
(`Judged`). `RowShape` says what a step may do to the rows, and from it follow
`OwnersEnd` (the property `EndedByOwner`) and `Implements` (the refinement), for
any number of users, devices, browsers, requests and faults. `None` is assumed
to be none of the values it stands apart from.

The other two properties, by the theorems `HoldersStayIn` and `GenerationsEnd`, rest on
`TokenInv`, in the second half of the module. Neither is inductive: whether a cookie is accepted
depends on a row, and between the update of the row and the answer they disagree. So
`TokenInv` says, of sessions not in `disturbed`, that only one refresh is between signing
and answering and that it signed the latest date there is (`Lone`), that what it is about
to answer is what the row says (`Written`), that no token is later than its row
(`NoneLater`), and that the cookie is the row's or such an answer is under way (`Kept`).
`Dated`, `Unshared` and `Owned` are what these rest on: no date lies in the future, the
device of a login in progress is known to nobody else, and a device is in one browser.

`StraysAreFaults` proves one more invariant, which no run checks: a browser has tokens of
a session that was never stored only where the insert of its row failed
(`StrayTokensNeedFaults`). The proof counts devices: `Adrift` are those
with neither row nor end whose tokens a browser has or is about to get. No row vanishes
(`NoneVanishes`, from `RowKept`), and a refresh that passed the guard found a row, so its
device stands or was ended (`Seated`). Only a login whose insert fails adds to `Adrift`
(`AdriftFrom`), one device for one fault, and the sets are compared with the library's
theorems on finite sets.

Not modelled: access tokens, which no row can revoke; the user's removal, which
deletes no session; the list of active devices, which is read-only.

## Accounts

| variable | code |
|---|---|
| `user` | the `User` rows: email, username, whether there is a password hash, `isConfirmed`, `isDeleted` |
| `code`, `recovery` | `ConfirmationCode` and `PasswordRecoveryCode`, at most one per user (`userId @unique`) |
| `providers` | `UserProviderInfo`: how many rows of each provider a user has |
| `banned` | users with a `UserBanInfo` row |
| `loggedIn` | users with a device session; what a session is afterwards is in `Sessions` |
| `mailed` | codes that arrived in a mailbox; only such a code can be brought back |
| `req` | the requests in flight with what they carry over an await |
| `clock`, `started`, `happened` | now, requests so far, faults so far |
| `issued`, `owed`, `helped`, `overlapped` | history; only `FreshCode` looks at `issued`, as the memory of `randomUUID` |

`Register`, `Confirm`, `Resend`, `Recover` (both routes), `Reset`, `OAuth`, `Login`,
`FillOut`, `Remove` and `Administer` are arrivals, with the validators' reads in
them; the other actions are the repository calls and the mail that follow, in the
code's order. Repository writes are transactions which swallow their errors, so
each has the outcome "nothing happened, go on" (`Swallowed`), by a fault or by a
unique or foreign key. `Mail` has three outcomes: delivered, refused, and
delivered with an error; the compensation of a registration (`DeleteUser`)
follows the last two. `deleteUser` fails for a banned user, since `UserBanInfo`
has no `onDelete`. `LookedAt` is the test of `validateUser`, which reads all
provider rows in no particular order and looks at the first two.

| run | question | result |
|---|---|---|
| `accounts` | Any four requests of two users, two in flight, one fault: an unconfirmed user can get a code (`UnconfirmedCanConfirm`); a stored code was mailed or is about to be (`StoredCodesAreMailed`); no more passwords are set than codes were stored, each for the code's user (`ResetsAreStored`); who is logged in was confirmed (`LoggedInAreConfirmed`); a provider is linked twice only by overlapping logins (`LinkedTwiceNeedsOverlap`); the compensation deletes no confirmed account (`ConfirmedIsKept`) | holds |
| `accounts_recovery` | A recovery mail holds a code that works | violated: the second recovery in a row stores nothing and mails all the same |

Two users give the collisions on email and name, three codes a registration, a
resend and a recovery. Four requests are the longest chain that matters: register,
confirm, and two that race. `CodeLife = 0` and `MaxClock = 1` let each code expire
while it is used. `LinkedTwiceNeedsOverlap` is worth its exception: once a provider
is there twice, the first two rows may both be of it, and every login with the
other provider adds a row. `ConfirmedIsKept` excepts the mail that fails after it
was delivered, and users somebody else wrote to meanwhile (`helped`). All requests
may be answered, so deadlock checking is off. No liveness is stated: a client that
gets no answer asks again or does not.

Every theorem of `Accounts_proofs` is for any number of users, codes, requests,
providers (at most two), bounds and faults. `IInv` is the conjunction of

* `Base`: a request knows what its step needs (`Prepared`), the rows are typed,
  and users that are gone have left no rows (`Kept`);
* `Fresh`: codes in rows and requests are pairwise different, and those not yet
  mailed are not yet issued. It is what makes `randomUUID` useful, and the
  reason why `issued` is kept;
* one part per property: `DevicesAreConfirmed` (a request about to create a
  device is of a confirmed user, unless a write failed), `RowsAreOwed`,
  `CodesAreOwn`, `Pledged` (a registration about to be undone was either mailed
  late, or has an unconfirmed user), and `MissingIsMerged` (a login about to add a
  provider row sees that the provider is missing, or another did so before it).

Seven theorems follow: `TypeCorrect`, `NobodyIsLockedOut`, `CodesReachTheirUsers`,
`PasswordsAreTheirOwners`, `SessionsAreConfirmed`, `LinksOverlap`,
`CompensationIsSafe`.

Not modelled: the display fields of the profile, which nothing depends on; the
checks of input formats; the captcha, an external call before anything is read.

## Files and Media

`Files` is the files service: `object` are the keys in S3, `file` the Mongo rows,
`call` the calls in service with their step and who waits for the answer. The
gateway's `FileServiceAdapter` gives up after ten seconds and on any error; the
service goes on all the same, so that a call can be without a waiter (`who = None`).
`Put` and `CreateFile` store a file, `FindFile`, `Unput`, `RemoveFile` and
`UnputAgain` delete it, each with the outcomes of the call it stands for: S3 throws
(`s3`), answers with another status than 204 (`status`), Mongo throws (`mongo`), the
service stops (`crash`).

`Media` extends it with the gateway: `avatar` is `User.avatarId`, `post` the posts
with the images they name, `req` the requests, `job` the weekly cleanup with the
images and posts it has left. `Upload`, `DeletePhoto` and the cleanup ask the service and
hear from it (`Hears`: an answer, or the error that the adapter makes of a late answer
or of a service that is down). `CreatePost`, `EditPost` and `DeletePost` are single
writes; `deletePost` finds the post first and writes without looking at the flag.

| run | question | result |
|---|---|---|
| `media` | One user, two files, two posts, two calls, three requests, a job, any one fault: objects and rows agree but where a fault cut a call (`ObjectsMatchRows`); a live post keeps the images that were uploaded for posts (`PostImagesStand`); an avatar without a file is on its way out, a fault's, or was named by a post (`DanglingAvatarNeedsFault`); a deletion clears the avatar it saw, or one that replaced it (`ClearTakesWhatItSaw`); only posts deleted long ago go (`GoneAreOld`), and in the end all of them (`DueIsCleaned`) | holds |

One user is enough, since users share no file; two files give a replaced avatar
and two images of one post or of two; two posts give a shared image. `Keep = 0` with
two days stands for the seven days: what matters is a day on which a post is not yet
due and one on which it is. Deadlock checking is off, because files and posts are
used up.

Fairness: a call in service goes on and is heard of (`WF` on `Serve` and `Hear`),
as Node's event loop and the adapter's `timeout(10000)` guarantee; and the job is
called every Sunday and runs through (`WF` on `Cleanup`). `DueIsCleaned` says `~Due`
and not "gone", since deleting a post again dates it anew.

`createPost` accepts any Mongo ids as images (`post.input.model.ts:20`), and so does
`CreatePost`: those an upload for posts was answered with, and those of `Strays`, which may
be of an avatar, of no file, or of a file that is uploaded later. In the run `Strays` holds
the first file's id, so that a post can name the id of the first upload and never that of
the second before its time; the proofs are for any `Strays`, all ids included.
The exceptions of two properties come from there. Two posts may name the same file, and the
cleanup of the first deletes it for both (`shared`); and the cleanup of a post deletes the
files it names whatever they are, an avatar's too (`named`). `PostImagesStand` is about ids
that an upload for posts was answered with: of any other id nobody said that it is an
image. The two properties on avatars say the same about `DeleteUserPhotoUseCase`:
the window between the read of `avatarId` and its update is the only way an avatar
loses a file that is its own.

### Proofs of Files and Media

`Media_proofs` proves every safety property of the run, for any users, files, posts,
calls, requests, days and faults; of the constants it is assumed only that `None` is no
file row, no post and no number. The invariant `MediaInv` joins what three processes
know of one another:

* of the service, `CallsKnow`: the step of a call tells whether its object and row are
  there, up to a fault. It gives `RowsHaveObjects`.
* between the two processes, `Waited` and `Ownership`: nobody waits for a call only after
  a late answer or a stop, a caller waits for one call, which is the one it asked for, a
  file being stored is nobody else's, and a deletion of an avatar is of the user's own
  avatar as he read it or a stale one. A post may have named an id before its file is
  there; then the job may have asked for its deletion, which is what the exceptions
  `ForJob` and `Arrived` are for. `ClearedAsSeen` follows from the part on deletions of
  avatars.
* of posts and the job, `DeletionsSafe`: every image that a call or the job is
  about to delete is one that was not offered to posts or that no live post needs
  (`Doomed`, which lasts: `DoomLasts`), and every image offered and
  not yet named stands. With `PostsName` (images of two posts are `shared`) it makes
  `PostImagesStand` inductive. A late deletion whose job has long ended is the case that
  needs the call, and not the job, to carry this.
* `Dated` gives `OnlyOldOnesGo`: a post deleted again while the job holds it is dated
  anew, so the invariant speaks of the first deletion, `since`.
* `Undangling` strengthens `DanglingAvatarNeedsFault`: a request of the user is not
  enough, it must be one that will clear the avatar if nothing fails, with a call past
  its read of the row or an answer of success (`WillClear`), unless a post named its id.

`DueIsCleaned` needs fairness and is model-checked only.

Not modelled of the files service:
`deleteAllFiles`, which only the testing endpoint calls, and lookups by id, which are
single reads.

## Comments

`comment` are the rows with post, author and parent, `post` what is left of each post,
`req` the requests. `FindPost`, `FindParent` and `Create` are `CreateCommentUseCase`;
`FindComment` and `Update` or `Delete` the other two. The cascade of a deletion
is `Threads`, the least set of comments closed under replies. `DeletePost` and
`FinallyDelete` are the two deletions of posts, `Fail` any error or stop under a request.

| run | question | result |
|---|---|---|
| `comments` | Three comments of two users on two posts, two requests in flight: no reply without its parent, no comment without its post (`ThreadsAreWhole`); nothing goes that nobody entitled asked to delete (`RemovalIsAsked`); a deleted post gets comments only from requests it overtook (`NewCommentsArePunctual`) | holds |

Three comments give a reply to a reply; two posts, a reply under a comment of another
post, which `findCommentById` allows. That is why `ThreadsAreWhole` does not say that a
reply is on the post of its parent, and why the final deletion of one post can take
comments from another.

`Comments_proofs` proves all four for any users, posts, comments and requests. The
invariant adds that a request past its checks names a comment that was created
before (`target <= made`), from which parents are older than their replies. The
cascade is a least fixed point written with a quantifier over sets, so that no induction
is needed: to show that a step keeps `ThreadsAreWhole` one instantiates it with the
set itself, and for `RemovalIsAsked` with the threads of each single member.

## Listings

The modules above change rows; what clients see of them are pages. `Listings` has the
twelve paged listings of the gateway as records: in which order the queries run,
whether rows can stop or start to match, what the total counts, whether the
reader's own rows come first, and whether a failing query is answered as an error or as
an empty page. A request (`Requests`) is a listing, a page size, a direction and one of
the fields that the listing's input model lets the client sort by:

| `sort` | code | what may happen to it |
|---|---|---|
| `createdAt` | every listing, `dateAdded` of payments | rows created in one instant have the same |
| `updatedAt` | comments, replies, posts | an edit makes the row the latest |
| `name` | `username` and `email` of users | no two rows have the same; a rename moves the row |
| `buyer` | `username` of the payments' buyers | all payments of a buyer have the same, and move with a rename |
| `shared` | `authorId` of posts, `amount` and `paymentMethod` of payments | rows have it in common; never changes |
| `same` | `authorId` of one user's posts, what Mongo's files do not have | all rows have the same |

`key` is a row's value of that field. A reader asks for page after page until the answer
says there is no more (`Last`), while rows are created (`Created`), leave (`Left`), enter
(`Entered`), are edited and renamed (`Edited`). `Skip`, `Slice` and `PagesCount` are the
arithmetic of the queries and of `Paginator`; `Slice` includes Prisma's negative `take`.
`Ahead` compares keys in the direction asked for, and a page is the rows whose places
(`PlaceBy`) lie in a range. The queries name no second field, so the database puts rows
of equal keys in any order, in each query anew (`Ties`).

| run | question | result |
|---|---|---|
| `listings` | Each listing by each of its fields in both directions, three rows, four keys, page sizes one and two, two changes while the client reads: every row that was there all the time and was not edited is seen, unless one before another left or moved behind it, one came before it between count and page, two had the same key, or a query failed (`NothingMissed`); no unedited row is seen twice unless one came or moved before another or two had the same key (`NothingTwice`); all own comments, and as many others as two pages have room for, are on the first two pages (`FirstTwoPagesAreWhole`) | holds |

Here the definitions are compared with the reference "the pages partition the list":
the exceptions (`left`, `slipped`, `came`, `tied`, `failed`) are exactly what offsets
without a tiebreaker cannot do. They are computed from the order itself (`Notes`: whether
the rows before some other row became fewer or more), not from the kind of change, so that a new
user in the middle of an ascending list of names counts as one that came, and one at its
end does not; an edit under `updatedAt` counts as a row that left its place and one that
came. `NothingMissed` and `NothingTwice` leave the listing with own comments first to
`FirstTwoPagesAreWhole`, which holds for any number of own comments: a `take` of zero or
less shows all own ones on both pages, and then there is no room for others. It stops at the
second page because the code is wrong from the third on (see Observations), and says
nothing about the others that a negative `take` shows from the end of the list, which are
shown although there is no room. Three rows make three pages of size one, and two of size
two, full and not; four keys leave room for a row before, between and behind the
others. The reader may be done, so deadlock checking is off. No other step of the
program depends on a listing, so nothing else is stated about them.

### Proofs of Listings

`Listings_proofs` proves all three for any number of rows, keys and changes, any page sizes
and each of the twelve listings, by any of its fields in either direction. Where own rows
do not come first, the argument is one count, `Read`, of the places the pages asked for so
far had:

* `Once`: while no row came before another, places of rows that were there only shrink, so
  what was seen stays within the first `Read` places, and the next page begins after them;
* `Unseen`: while no row left its place, places only grow, so what was there and was not
  seen stays behind them. It also keeps the two facts that make the last page right: a row
  not yet seen was counted (where the count came first and nothing slipped in), and a page
  without rows was behind everything (where it came last).

`RowsKeep` is the step of the rows, `PageTurns` that of a page. `NotesNote` says what the
flags record, for any change of rows and keys, and `NoChoice` that the database has no
choice where no two rows have the same key (`Apart`). They rest on `NoGap` (places have no
gaps, so an empty page means that nothing is behind it; its proof needs a least row, for
which the library's well-founded induction is cited) and `PagesSuffice` (the pages counted
by `PagesCount` have room for all).
Where own rows come first, `OwnFirst` says what a request holds after each of its three
queries and what the first two requests brought; `OnlyPage` is the case that the first
answer says it was the last. `IInv` joins these with `Phases` (what a request knows
at which query) and `Remembered` (rows are created in order, only created ones are seen);
`ReadingKeeps` shows that it holds always. Nothing is assumed but that there is a row and
a key and page sizes are positive.

## Notifications

| variable | code |
|---|---|
| `end` | `User.endDateOfSubscription`, as day numbers |
| `note` | the `Notification` rows in the order they are created: user, which message, the day, `isRead` |
| `job`, `ran` | the run of the daily job at seven with the list it has left; whether it was called today |
| `hook` | a payment on its way: end date stored, then the row, then the push |
| `mark` | a request to mark notifications as read |
| `client`, `clients` | the sockets, with what was pushed to each; the Map of the service |
| `steady`, `cut`, `unheard` | history: whose date did not change today, which lists an error cut short, and which rows are stored although their insert failed |

`JobStart` and `JobWeek` read the two lists, `JobCreate` and `JobEmit` are
`createNotification` for each user. `createNotification` of the repository returns its
promise unawaited, so its `catch` never applies, and a failing insert ends the job
(`CutShort`). An insert can fail without a row, or with the row stored and only its answer
lost (`RowFails`); then nobody pushes it, and `ConnectedMissNothing` names it as its one
exception. `Connect` and `Connected` are the two halves of `handleConnection`; a
socket that disconnects between them stays in the Map (`Stale`).

| run | question | result |
|---|---|---|
| `notifications` | Two users, one socket, two days, two payments or requests, any two faults: when a day ends everyone whose subscription ends tomorrow or in a week was told, unless an error cut the job short (`EveryoneIsTold`); nobody is told of an end that is not his (`NoticeIsTrue`); a socket that is on misses nothing that came after it joined and whose insert was answered (`ConnectedMissNothing`) | holds |

`Week = 2` keeps the two kinds of notice apart, also for one user on consecutive
days. Two notifications (`MaxNotes`, which bounds what job and payments create) are one for each user, or the job's and a
payment's for one; the job waits where they are used up, and then the day does not
end, so that the bound hides no property. A second socket of one user
would get what the first gets. Deadlock checking is off: the last day may be over.

No liveness is stated for the job: it is called once a day, an error or a
process that is down at seven loses the day, and nothing makes up for it. `EveryoneIsTold`
says so as a safety property of the day's end. The model has no removal of users,
because `removeUser` only sets `isDeleted`, which no query about users reads.

`Notifications_proofs` proves all four for any users, sockets, days, notifications
and faults. None is inductive as it stands; `IInv` adds what the senders know at
each step (`Prepared`: the note a job or hook is about to push exists and is its
user's, no job before seven), that whoever is on the job's list is due or paid since
(`Announced`), and that whoever is due was told, is still ahead of the job, or an
error came between (`Served`, `Pending`). `Announced` gives `NoticeIsTrue` at the
step that creates a row, `Served` gives `EveryoneIsTold` at the step that ends the
day, when nothing is pending any more.

## What is proved and what is only checked

Proved for every value of the constants: each invariant and each action property of the
runs of `Subscriptions`, `Sessions`, `Accounts`, `Media` (with `Files`), `Comments`,
`Notifications` and `Listings`, and both refinements. The theorems are listed with their properties
under "theorems" in `PROJECT.json`, and are in the eight modules `*_proofs`. Every
strengthened invariant was model-checked on the instance of its run before it was proved;
so were `CompletedIsCharged` and `StrayTokensNeedFaults`, which are proved beyond the runs.

Only model-checked are the liveness properties `PaidIsGranted`, `ExpiredIsEnded` and
`DueIsCleaned`, since reasoning about fairness and ENABLED is out of the prover's reach.

## Observations

Met while modelling, beyond the three runs that expect a violation:

* `paypal-hook.use-case.ts:42` stores PayPal's `COMPLETED`, but `getMyPayments` asks for
  `PaymentStatus.COMPLETED`, spelled differently: a captured payment is not among
  "my payments".
* `stripe-hook.use-case.ts:95` stores Stripe's interval in upper case; `WEEK` and `MONTH` are
  unknown to the computation of the next payment date.
* The expiry job ends a subscription that was renewed after the job read its list.
* A new avatar leaves the file of the old one behind; deletion answers success when S3
  throws; `users.controller.ts:138` answers success on a failed upload.
* Images two posts name go with the first of them, and the file of an avatar goes with a
  deleted post that names it: no id is checked (`create-post.use-case.ts:40`).
* A failed write of the account after a payment is answered with success, and the payment is
  never credited (`subscriptions.service.ts:193`).
* From the third page on, or as soon as the own comments fill a page, a signed-in reader
  misses comments of others; with more own comments than the page is long, `take` is
  negative and pages show others from the end of the list (`comments.query.repo.ts:47`).
* No listing has a second sort field: rows of one author, price or payment system may come
  twice or never although nothing changed.
* The total of a user's images counts his avatars too (`file.query.repo.ts:45`).
* A reply may name a parent under another post (`create-comment.use-case.ts:48`).
* The unread count counts notifications older than the listed month, which nobody can
  mark as read in the list (`notifications.query.repo.ts:68`); marking with a repeated id
  is refused as not found.
* A socket that closes while its user is looked up stays in the Map of sockets.
* Removal of a user sets a flag that neither login nor notifications look at.

## Not modelled

* GraphQL resolvers and loaders map rows to the schema; their mutations are in
  `Accounts`, their paged queries in `Listings`.
* Bootstrap, swagger, configuration, exception filters: no state.
* The testing endpoints, `deleteAllFiles` among them, run in the testing
  environment only.
* Single reads: the current subscription, the list of devices, one post, one profile,
  the unread count. Each is one query over rows the modules above keep right.
