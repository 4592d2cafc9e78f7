# ShopxIndia in TLA+

ShopxIndia is a shop made of six GraphQL services (`src/packages`): users,
products, orders, payments, sellers, notifications. Each has its own store and
they talk over RabbitMQ. What makes the shop correct is the checkout: an order is
stored, a payment is requested over a queue, a user redeems a code, the outcome
travels back over another queue, and the order is confirmed, mailed and passed on
to its seller. Every arrow of this is asynchronous, most of them are promises
nobody awaits, and the services may crash between any two steps. Beside it stand
the stores whose services talk to nobody but their clients: carts, accounts,
sellers, categories and products, where calls overlap between the statements they
are made of.

These modules specify both, and TLC checks them on small instances. TLAPS proves
the safety of the services, alone and together, and of all the stores for instances
of any size.

## Inventory

| Component | State | Operations | Hard part | Correct when |
|---|---|---|---|---|
| Payment service (`paymentservice`) | payments table (Postgres), codes with a TTL (Redis) | `validatePayment`, `cancelPayment`, `refundPayment`, consumer of `order_request_queue`, `responsePaymentStatusToOrder`, `requestPaymentConfirmationMail`, queries | checks and writes of a row are two statements at READ COMMITTED; a code is read and deleted in two round trips; publications are not awaited; a request is handled again after a nack or a crash | a success is announced only after its commit, only paid money is refunded, a row keeps its order, nobody finds a code that was accepted, only overlapping calls undo one another's writes, every request ends in a payment and every completed one is announced |
| Order service (`orderservice`) | orders and order items (Postgres) | `createOrder`, `updateOrder`, `cancelOrder`, consumer of `payment_order_queue`, `requestPaymentInitiation`, mails, `requestSellerAckAboutOrder`, queries | the consumer's update is not awaited; its handler has no try/catch, so a rejected update ends the process and the message comes back | no message can kill the consumer at every delivery; a seller ships only what was paid; a paid order reaches its seller |
| Product details RPC (`orderservice`, `productservice`) | the channel of the order service, reply queues | `requestProductDetails`, consumer of `product_request_queue` | `_channel` is set by the constructor, by the listener it starts and by the first calls; no timeout at the caller, a requeue loop at the server | no call waits for an answer that cannot come; channels are settled once the service has started |
| Catalogue (`productservice`) | products and categories, rows of one DynamoDB table | create, update, delete, batches, listings | the key is an id with a name and readers look for the id alone; batches are carried out in part; a limit counts rows before they are filtered | an id leads to one row, a batch is reported as it was carried out, a list fails only for a reason |
| Users (`userservice`) | users, settings, addresses, carts, one-time passwords (Postgres) | registration and changes, cart, `sendOTP`, consumer of `user.details.request` | a look and a write are two statements; a cart is made by its first addition; unhandled rejection in `serveUserResponse`; `generateOTP` reads a global `length` that Node does not have | a confirmed change stands, a cart changes as if each mutation were one step, an answer goes to who asked |
| Notifications (`notificationservice`) | reply queues of its queries | consumers of mail queues, `requestUserDetails` | no timeout in the RPC, requeue at once on failure, a reply queue is never taken away | every mail is written or its message is kept |
| Sellers (`sellerservice`) | sellers and addresses (Postgres), the pool of connections | `createSeller`, `updateSeller`, `deleteSeller`, `getAllSellers`, consumer of `seller_request_queue` | a transaction holds one connection while its statement waits for another; an update writes every field as it was read; the consumer only notes that it was asked | a deleted seller stays deleted, only overlapping updates undo one another, every call returns |
| Auth, rate limiter, logger, GraphQL wiring, images (S3), CDK, scripts | rate limiter: counters in Redis | - | - | - |

Interactions (queue: producer -> consumer): `product_request_queue`: orders ->
products (RPC, reply queue); `order_request_queue`: orders -> payments;
`payment_order_queue`: payments -> orders; `seller_request_queue`: orders ->
sellers; `order_confirmation_queue`, `payment_mail_queue`: orders, payments ->
notifications; `user.details.request`: notifications -> users (RPC). What the
services know of each other beside that, the gateway follows by id: `Payment.order`,
`Order.__resolveReference`, references to products and sellers.

`PROJECT.json` lists all components with what of them is modelled and, under
`hazards`, every place of the code where an order of steps, a crash, a lost
message or a stale read can hurt.

## Modules

Services that talk over RabbitMQ:

| Module | Models | Correspondence |
|---|---|---|
| `MessageQueue` | RabbitMQ as amqplib is used (external) | a queue is a bag: no consumer sets a prefetch, all of them await in the callback, so handlers overlap and redelivered messages mix with new ones |
| `PaymentService` | `qr.service.ts`, `payment.repository.ts`, `intermessage.service.ts` of `paymentservice` | a step is what runs between two awaits. `calls[cl].step` is the await a mutation stands at: `readCode` (`RedisCache.get`), `discard`/`spend` (`RedisCache.del`), `check` and `commit` (the two statements of `completePayment`), `cancelRead`/`cancelWrite`, `refundRead`/`refundWrite`. `deliveries[w].step` likewise for the consumer. `outbox`, `mailOutbox` hold the publications whose promise nobody awaits. The queries are operators, which `Checkout` states its properties with |
| `PaymentLedger` | what the exceptions of `payment.repository.ts` promise about one payment | the abstract specification: each transition atomic, with its guard |
| `OrderService` | `order.service.ts`, `order.repository.ts`, `intermessage.service.ts` of `orderservice` | the same, with `writes`: the updates the consumer issues and does not await. It has no `Init`/`Next` of its own, only `ServiceInit`/`ServiceNext`, because its queue is filled by others |
| `OrderStandalone` | the order service against a payment service that says anything | `PaymentReports(m)` sends any message about an existing order, in any order, a payment always being about one order (a payment service may never report a payment under two orders: `NewsIsTrue` is why) |
| `SellerInbox` | the consumer of `seller_request_queue` | `inHand`: delivered and not acknowledged; `asked`: handled. The call that would save the order's id is commented out, so nothing is stored |
| `Checkout` | the payment, order and seller services over `order_request_queue`, `payment_order_queue` and `seller_request_queue` | instances of the three modules sharing the queues; a step of the whole is a step of one |
| `ProductDetails` | `createConnection`, `ensureChannel`, `listenForPaymentRequests`, `requestProductDetails` of the order service; `listenForProductRequests`, `getProductsByIds` of the product service | `channel` is the field `_channel`; `opening[o]` is how far the constructor, the listener or a call got with a connection of its own; `calls[c].on` is the channel a call made its reply queue on. What `OrderService` takes as one step that may be answered or fail is spelled out here |
| `UserService` | `user.repository.ts` (what a letter needs of it), `intermessage.service.ts` of `userservice` | `answers[a].step`: `read` (`getUserDetails`), `reply` (`sendToQueue`), `ack`. The consumer has no try/catch, so a query about nobody (`Poisoned`) or a failing read ends the process |
| `NotificationService` | `setupConsumer` and `requestUserDetails` of `intermessage.service.ts`, `order.service.ts`, `payment.service.ts`, `email.service.ts` of `notificationservice` | `deliveries[w].step`: `ask` (`assertQueue` of the reply queue), `wait` (the promise of the answer), `render` (`sendEmail`), `ack`. A reply queue is named by the correlation id of its one query. "Written" means rendered: the call that would send the mail is commented out |
| `Mailing` | both over `user.details.request` and the reply queues | as `Checkout`; `AskAfresh` and `Register` see to it that a uuid is one nobody else knows |

Stores that only their own clients use:

| Module | Models | Correspondence |
|---|---|---|
| `Cart` | `cart.repository.ts` | a mutation is a look (`findUnique`) and a write in a statement of its own: `findCart`, `createCart`, `createItem`; `findItem`, `updateItem`; `findRemoved`, `deleteItem`; `findCleared`, `deleteItems` |
| `CartLedger` | what those mutations promise of the items | the abstract specification: each mutation one step, prices as they were when an item was added |
| `AccountStore` | `user.repository.ts`: users, settings, addresses | one row per user, settings and address, one field of each sort (a unique text, a text, a flag). `updateUser` and `updateAddress` are `look`, `write`, `confirm`; the other mutations are one statement. `certain` is the history of what callers were told, `contested` the fields another call named meanwhile |
| `SellerStore` | `seller.repository.ts`, `seller.service.ts` | `InTransaction(cl)` holds a connection, `Free` says whether another statement gets one, `TimeOut` is `maxWait`, the pool's timeout or the transaction's. What is written outside the transaction is stored whatever becomes of it: a statement that still waits for a connection when its transaction times out stays in the queue (`LateStatement`), and the failed call stores or deletes its row later. `orphans` are deleted sellers, whose addresses stay |
| `CategoryStore` | `category.repository.ts`, mutations | `rows` under an id and a name: a row with its id is `full`, a row that an update made of what it was given is a `ghost` |
| `ProductCatalog` | `product.repository.ts`, mutations | the keys that have a row; `batches` are the chunks a list of deletions has left (`chunkArray`), `skipped` what DynamoDB returned as unprocessed, `reported` and `confirmed` what callers were told |
| `Catalogue` | the listings and queries of both, and `resolveType` of their answers | no state of its own: each query is the set of answers it may get over every order the table may have its rows in |
| `PagedListing` | `getAllOrders`, `getAllUsers`, `getAllSellers`, `searchUserByQueryString` | a reader walks through a listing with skip and take while rows come and go; the count is a statement of its own |
| `Stores` | all of these | instances of the stores; one of them, `inUse`, is called in a behaviour. None reads the state of another, so nothing is lost by that; only `Catalogue` looks at the rows of two |

`PaymentServiceProofs`, `OrderStandaloneProofs`, `CheckoutProofs`, `MailingProofs`,
`ProductDetailsProofs`, `CartProofs`, `AccountStoreProofs` and `StoresProofs` hold the
theorems (see Proofs). `MCPaymentService`, `MCOrderStandalone`, `MCCheckout`
and `MCMailing` are instances for TLC and hold the symmetry sets.

Errors: a failing database, Redis or broker call may or may not have had its
effect (the reply is what got lost), so a fault of a writing step has both
outcomes. A crash empties the service's memory (`calls`, `deliveries`, `outbox`,
`writes`, `requests`) and the broker has its unacknowledged messages ready again;
tables, codes and queues survive, exclusive reply queues do not.

Data is abstracted to what the properties tell apart: an amount is the basket it
was computed from, a code is a member of a small set, a status message is its
type, order and payment, a product is its key. History variables (`accepted`,
`completed`, `asked`, `certain`, `overtaken`, `refused`, `reported`, `confirmed`,
`skipped`, `gone` and the like) are declared as such where they are; no
guard of an operation depends on one, but for `gone` and `orphans`, which stand for
the ids (uuid, cuid) that are never made twice, and `reported`, which is how
`OrderStandalone` describes its surroundings.

Four history variables name what failures destroy, so that a liveness property can
excuse that and nothing else. `lost` (payment service): the status messages whose
publication failed, or was still due when the process died or when the commit's
reply got lost. `unrequested`, `untold`, `lostWrites` (order service): the orders
whose payment request will never be sent, those whose announcement to the seller
failed, and the acknowledged messages whose update died with the process.

## Runs

| Run | Question | Instance |
|---|---|---|
| `payment_safety` | With two overlapping calls, an error and a crash: is news true (`NewsIsTrue`), is only paid money refunded (`RefundedWasPaid`), is there one row per delivery (`OneRowPerDelivery`), does a row keep its order and never wait again (`PaymentNeverReopened`), is a code accepted by nobody but the calls that had found it before (`AcceptedByFinders`), is a write of an overtaken call all that keeps the service from implementing `PaymentLedger` (`LedgerUnlessOvertaken`), do calls fit the rows they hold on to (`WorkFitsRows`, the inductive part)? | 1 order, 3 payment ids, 2 clients, 3 calls, 1 error, 1 crash |
| `payment_serial` | Is every request answered (`RequestsAnswered`), and every completed payment announced unless the very announcement was hit (`PaidIsAnnounced`)? | 1 client, 2 calls, 1 error, 1 crash |
| `payment_cancel_race` (violation) | Is a paid payment never cancelled, as the exception of `cancelPayment` says? | 2 clients, no errors |
| `order_safety` | Against any payment service: can a message poison the consumer, because its order is gone or its payment is linked to another order (`NotPoisoned`), can anything ship without a reported success (`ShippedOnlyIfPaid`)? | 2 orders, 2 payments, 2 messages about them, 2 clients, 2 calls, 2 handlers, 1 error, 1 crash |
| `order_cancel_undone` (violation) | Does a cancelled order stay cancelled once its user was told? | 1 order, 2 calls |
| `order_update_hangs` (violation) | Does an update of the status alone return? | 1 order, 2 calls |
| `checkout_orders` | Through the services with two orders, do the answers of one service fit those of the other (`AnswersFit`): is an order only ever linked to its own payment, and does every payment lead to its order under the same user? | 2 orders, 2 payments, 3 order calls, 1 payment call, 2 + 1 handlers, no crashes |
| `checkout_delivery` | With errors and crashes: does the order service believe, tell users and ask sellers only what the payment service stored (`PaidMeansCompleted`), does an order get its payment (`OrderGetsPayment`), does the seller service get to handle a paid order (`PaidReachesSeller`)? | 1 order, 2 payments, 1 call of each service, an error or a crash of each of any two services |
| `mailing_safety` | With overlapping letters and answers and crashes of both services: is a letter written with its own user's details (`DetailsAreTheUsers`), does no handler wait for an answer that cannot come (`WaiterIsServed`), is no letter lost or done with unread (`LettersAreKept`), is none written twice before the notification service first crashes (`WrittenOnceUnlessCrash`, which says nothing afterwards)? | 2 users, 1 letter each, 2 + 2 handlers, 2 reply queues at a time, 1 change of an account, 2 errors or crashes |
| `mailing_liveness` | Is every letter handled (`LettersAreHandled`), next to one that cannot be? | 1 user, 1 letter of an order and 1 of a payment, 2 + 1 handlers, 1 change of the account, 1 error or crash |
| `product_details` | While the order service opens two connections and calls come in: does nobody wait in vain (`WaiterIsServed`), can channels be mixed up only during the start (`SettledStaysSettled`), does a call that names a product return (`AskReturns`) beside a request that is refused for ever? | 2 calls, one of no product, 4 channels, 2 handlers, 1 error or crash |
| `stores` | See below | 2 clients at a time in every store |

`stores` asks one question of each store:

| Property | Says |
|---|---|
| `LedgerSpec` | carts change as if each mutation were one step (refinement of `CartLedger`) |
| `RefusedOnlyAtFirst` | an addition fails for the cart's sake only beside the user's first one |
| `ConfirmedChangesStand` | what a caller was told of a field stands until another call is about the same field; no update revives a deleted address |
| `DeletedStaysDeleted` | no call brings a deleted seller back, or has its address found again |
| `OnlyOverlapsUndoUpdates` | `updateSeller`, which writes every field, takes back nothing but what an overlapping update wrote |
| `CallsReturn` | calls that hold the whole pool and wait for one more connection end all the same |
| `OneFullRowPerId`, `GhostsHaveNoCategory` | whatever names updates use, one row passes for a category, and a living category is never a row without an id |
| `OneRowPerId` | the first row found under a product's id is its only one |
| `BatchAnswersAreTrue` | batches report what they did, to the unprocessed items |
| `PagesAddUp` | a walk misses at most one row for each that was deleted, repeats at most one for each that was inserted, and the total covers what was shown |
| `QueriesAgree` | what a list shows of a product is what its id leads to; a list fails only for want of rows, because others fill the page, or because of a ghost |

### Bounds

`MaxCalls`, `MaxFaults`, `MaxCrashes` cap what users, the environment and
the machine may do in a behaviour; every property is about what a few racing calls
and one or two failures can do to one row, and the smallest counterexamples of the
violated properties need two calls and one order. The number of payment ids is
orders x (1 + errors + crashes), which `OneRowPerDelivery` shows is all the
service can use, so `CreateRow` never blocks for want of an id. `Asked` bounds the
statuses an update asks for to one that the service itself never sets. Deadlock is
checked in every run: `Rest` is the only step of a quiet system and is enabled only
when nothing is left to do, so a handler that got stuck would be reported.

In `checkout_delivery`, `MaxFailuresEach` lets a service meet one error or one crash
and `MaxFailures` two failures in all; every pair of services and both kinds of
failure are among them. In `order_safety`, `MaxReports` caps the messages of the
payment service at two: one for each of two orders, which is what it takes for an
update to find its payment linked to another order, or two for one of them (of one
payment or of two), which race with each other and with the calls.

In `Mailing`, an id that has left no trace (no handler, query or answer) is used
again as if it were fresh, so two ids serve two overlapping handlers for ever; ids
held by queries of a crashed notification service make it wait for them, which
the fairness allows for. `MaxReplies` caps a reply queue: a query answered and not
acknowledged is answered again at every restart, and only the consumer of the
queue takes the copies out. It does the same in `ProductDetails`, where 4 channels
are as many as the two starters and the two calls can open; a channel that nobody
uses any more is used again.

In `stores`: 2 users, 3 cart items, 2 sellers with 2 fields and a pool of 2
connections (so that two calls can exhaust it), 2 categories under 2 names, 2
products, batches of 2 with lists of up to 3 (so that a list is cut unevenly, as 30
is by 25), 1 address, walks of pages of 1 or 2 through up to 3 rows, 1 error or
crash where a store has them. A store gets as many calls as its interesting cases
need: 3 in carts (two that race and a third that sees the outcome), 4 in
categories, 2 elsewhere. One client deletes lists of products: two lists do not
touch each other but through rows, which the other operations change already.
Sellers that are there at first hold the same value (values are interchangeable),
and stores that are not in use start empty. DynamoDB's reads are taken as
consistent.

Symmetry sets are declared only in runs without liveness properties; no module
tells members of the constant sets apart.

### Fairness

The event loop resumes every promise that settled, and the broker
delivers every ready message to a connected consumer: weak fairness of every
continuation, of every delivery and of the unawaited publications. Calls of users,
errors, crashes and the passing of time get none. In `Checkout` this is one weak
fairness for each service: while a service has a step of these to take, it takes one
some day. That asks no more, for every behaviour of the model is bounded, so a
service that never rests runs out of other steps; the news of a failure is given
none and nothing depends on it. In `Mailing`, where handlers come
back for the same letter for ever, what competes for the model's few handlers and
ids has strong fairness: the code sets no prefetch and makes a uuid when it needs
one, so nothing waits for either, and the queues are first-in first-out. The same
holds of the delivery of a request in `ProductDetails`, beside which another one is
put back for ever. `SellerStore` has weak fairness of each client's next statement
or, when there is no connection, of its timeout: Prisma sets one for every wait.

Liveness is stated up to what the code really loses:

- `PaidIsAnnounced` except when an error or a crash of the payment service hits the
  announcement of that very payment (`SuccessLost`): the commit whose reply is lost
  has a FAILED message sent in its stead, the publication fails and the error is
  swallowed, or the process dies before it is made. Errors and crashes before the
  commit and beside the announcement are no excuse.
- `PaidReachesSeller` except for `SuccessLost` and for a publication to the seller
  that failed, which the order service swallows (`untold`). Crashes of the order
  and of the seller service are no exception: the message comes back.
- `OrderGetsPayment` except when the order's request was never sent (`unrequested`)
  or the news of its pending payment was lost (`PendingLost`): its publication
  failed or died with the payment service, which acknowledges the request all the
  same, or the order service acknowledged it and died before the update that it does
  not await (`lostWrites`). No other error and no other crash is excused.
- The last two are stated as `<>[]`, "from some time on, always": both sides of
  their implications stay true once they are, so this says the same as "leads to",
  and also that the link and the seller's knowledge stay.
- `LettersAreHandled` except for what `Blocked` names, and only when it lasts for
  ever: a query about a user who does not exist (it ends the user service at every
  delivery), an order's letter to a user without an address (its mail cannot be
  rendered and is tried again at once), and a query that was sent before the user
  service ever declared its queue (the handler has no timeout).
- `AskReturns` except for a request that was sent before the product service ever
  declared its queue, and for calls that name no product, which is what
  `order_update_hangs` shows.

## What the violations show

- `payment_cancel_race`: `cancelPayment` reads the status and writes CANCELLED in
  two statements of a READ COMMITTED transaction: a completion that commits in
  between is overwritten, although the exception refuses to cancel a SUCCESS
  (`payment.repository.ts:145`). The order has been told SUCCESS by then.
- `order_cancel_undone`: a payment message sets `orderStatus` to SUCCESS whatever it
  was (`order.repository.ts:217`), so an order whose user was sent "Order Successfully
  Cancelled !" comes back to life, already by the PENDING message.
- `order_update_hangs`: `updateOrder` with a status alone asks for the details of no
  product; the product service refuses an empty list and requeues the request for
  ever, and the caller has no timeout.

Smaller disagreements are visible in the models and have no run of their own:

- Two validations can read one code before either deletes it, and both go on
  (`qr.service.ts:84`): "Code not found or already used" is not said of a used
  code. If the payment is still pending for both, it is completed twice and two
  SUCCESS messages go out. `AcceptedByFinders` says how far this goes: each call that
  had found the code accepts it once, and a call that comes later never finds it.
- `completePayment` and `refundPayment` write on an old read just as `cancelPayment`
  does: a payment that was cancelled, or paid and refunded, in between is SUCCESS
  again, and one that was refunded and cancelled is REFUNDED again. These are the
  steps `LedgerUnlessOvertaken` calls `LostUpdate`.
- `updateOrder` builds the updates of its items and never awaits or returns them;
  a Prisma query that nobody awaits is not run. The total changes, the items do
  not (`Updated` in `OrderService`).
- `cancelOrder` has no guard on the status (`errorCode.ts:27` says a processed
  order cannot be cancelled), a new order has no payment id (`schema.graphql:42`
  declares it non-null), and nothing issues a new code for an expired one
  (`errorCode.ts:73` asks the user to generate one).
- `updateCategory` under a wrong name, or after a deletion, makes a row without an
  id; one such row turns every list of categories into an error. A category by its
  name is the first row of an index that products are in as well, so a product may
  be found in its place (`getCategoryByName` in `Catalogue`).
- The token of a next page is answered as a string and never parsed again, so
  nobody gets past the first page of the catalogue.
- `searchUserByQueryString` takes no notice of the pagination it is given, and the
  total of a page of users is the length of the page.
- A list of products or of users that is empty is answered with an error, because
  `resolveType` looks at its first row.

## Proofs

All theorems hold for all constant sets and bounds that satisfy the assumptions
named with them; `PROJECT.json` lists them with the properties they state. Each
`Spec => []Inv` goes through an inductive `IInv`: the initial states satisfy it,
every step keeps it (one lemma per group of actions, one step per action, one
substep per conjunct it can disturb), and it implies `Inv`.

**`PaymentServiceProofs`**, from `BoundsAssumption` (the bounds are natural
numbers) and `NoneAssumption` (null is no id); no finiteness is assumed.

- `TypeCorrect`, `WorkFits`, `NewsIsAlwaysTrue`, `RefundsArePaid`, `NeverReopenedEver`
  go through `IInv == TypeOK /\ WorkFitsRows /\ NewsIsTrue`. None of its parts is
  inductive alone: `NewsIsTrue` needs to know, when a call commits, that the row it
  picked three awaits ago is of the order it announces; `TypeOK` needs to know, when a
  request is refused, that its handler has an order to give back; `RefundedWasPaid`
  needs to know that a call that is about to write REFUNDED saw a completed payment.
  `WorkFitsRows` says all of that: a row has an order exactly when it exists, it was
  completed if it says so, and calls and handlers hold on to rows of their own order.
  It survives the steps of others because of `Grow`: rows never change their order and
  no completion is forgotten, whoever writes.
- `OneRowPerDeliveryEver` counts the rows of an order together with the one request
  that may still make a row (`CountInv`): a request is asked once and comes back only
  for an error or a crash, so it is in one place at a time (`HeldByOne`).
- `AcceptedByFindersEver`, for finitely many clients, counts a code's acceptances
  together with the calls that have found it and not yet spent it (`FewAccept`): a call
  stops being a finder as it accepts, and nobody becomes one where a code was
  accepted, since accepting deletes it and only a new code of the same digits, which
  starts the count again, puts it back.
- `LedgerUnlessOvertakenEver` needs no assumption on the calls. Each of their writes is
  a step of `PaymentLedger` unless the call was overtaken (`LedgerWrites`), and a call is
  never overtaken by a step of its own (`OwnStep`), of the consumer, of a
  publication or of a crash (`RowsElsewhere`): it takes another call's write to the same
  payment. That the code never writes FAILED to a row (`NoneFailed`) is part of it,
  because `cancelPayment` would let a failed payment be cancelled and the ledger does
  not. With one client at a time nobody overtakes anybody, and the service implements
  the ledger as it is.

**`OrderStandaloneProofs`**: `TypeCorrect`, `NeverPoisoned`, `ShippedIsPaid`, from
natural bounds, finitely many handlers (a crash puts back what they hold, which is
counted), a null that is no id, basket or message, and `Asked` being statuses of the
schema. The invariant `OInv` follows a message: what is in the queue, in a handler or in
an update nobody awaits was reported (`NewsReported`); what a row says of its payment
was reported about that row (`RowsReported`), so no update can find the payment linked
to another order, which is what would kill the consumer (`order_safety` has the two
orders and payments this takes); what the seller and the user
are told follows from a reported success (`ShipmentsPaid`), though they are told
after the update was issued and not after it was done.

**`CheckoutProofs`**: `AnswersAlwaysFit`, `PaidWasCompleted`, from the assumptions of
both services. `CInv` is the invariant of each, which the other one is the surroundings
of: a step of the payment service keeps `OInv` because all it does to the order service
is to report what is true of its table (`TrueNews`), and the order service's requests
are about orders that exist (`OrdersKnown`). The two theorems compare two databases that
no step ever writes together.

**`MailingProofs`**: `TypeCorrect`, `DetailsAlwaysTheUsers`, `WaiterAlwaysServed`,
`LettersAlwaysKept`, `WrittenOnce`, from natural bounds, finitely many handlers and
answerers, and a null outside the records. `DetailsAreTheUsers` needs that all that
bears the correlation id of a waiting handler, on its way there or back, is about its
user (`Traces`) and that no two handlers wait under one id; this is where `AskAfresh`
is used. `WaiterIsServed` is not inductive: an answerer that only has to acknowledge
counts as a query in flight, so `Served` says that the answer is there by then.
`Balanced` has the letters posted as the sum of those dropped, ready, in a handler and
acknowledged, and, before the first crash, those rendered as the sum of those
acknowledged or about to be.

**`ProductDetailsProofs`**: `TypeCorrect`, `NobodyWaitsInVain`,
`ChannelsStaySettled`, from natural bounds and finitely many answerers (requeueing
counts them). `WaiterIsServed` counts a request as in flight until it is
acknowledged; the invariant says more (`Served`): once only the acknowledgement is
left, the answer is there. The action property needs that answers are only ever in
the queue of a call that has one (`QueueOwned`) and that nobody goes on without the
channel it waited for (`ChannelThere`).

**`CartProofs`**: `TypeCorrect`, `CartImplementsLedger`, `FewAreRefused`. The
refinement maps every step of `Cart` to one of `CartLedger` or a stutter; it needs
`PriceHeld`: what a call read before others got in between is still true of the row,
if there is such a row. `FewAreRefused` needs `FewRace`: a cart is created once, and
the calls that have not seen it by then are counted; it assumes finitely many clients,
at least one. Quantities and prices are integers.

**`AccountStoreProofs`**: `TypeCorrect`, `WhatWasConfirmedStands`. A confirmation comes
after its write; what it will say is still so (`WillBeTrue`) because two updates that
name the same field of a row know of each other (`Overlapping`) and because nothing is
certain of a field while an update that names it goes on (`StillOpen`). `KnownRows` and
`DeletedIsGone` keep updates away from rows that never were or are no more.

**`StoresProofs`** holds the theorems of the other stores and carries all of them over
to `Stores`: each store's behaviour is one of its own module, because a step of another
store leaves its variables alone.

- Sellers: `SellerStaysDeleted`, `UpdatesOnlyUndoOverlaps`. `HeldRow`: what an update
  will write, its own fields apart, is what the row holds, unless somebody wrote the row
  meanwhile; it survives creations because no id is used twice (`SellersApart`,
  `HeldIsKnown`).
- Categories: `CategoryIsOneRow`, `CategoryIsNoGhost`, from `FullWasCreated`: a full
  row is under the name its category was created with.
- Products: `ProductIsOneRow`, `AnswersAreTrue`, for every positive batch size.
  `ChunksCover` shows that `chunkArray` loses nothing; `NamedIsLeft`, that what a list
  of deletions names and is still there was returned by DynamoDB or is in a batch to
  come.
- The catalogue's queries: `QueriesAlwaysAgree`, about tables of any finite size in any
  order (`TableFacts`, `ReadFacts`: what a scan that stops at a limit has seen). A list
  is answered as a whole (`Answerable`) or fails, and it fails only for one of the
  reasons (`ReasonsOfLists`, `ReasonsOfCategories`); `RowsWereCreated` and
  `OneFullRowPerId` make what a list shows the row that its id leads to
  (`OneRowIsFound`).
- The listings: `PagesAlwaysAddUp`, for any number of rows and any size of a page.
  `Border` is how far the reader has got. A deletion moves at most one row that was not
  shown to before it (`MissesBounded`), an insertion at most one that was shown to
  behind it (`RepeatsBounded`, which counts such a row as a repeat to come), and a page
  turns what it repeats from one to come into one that came (`RepeatsAdd`).
- `TypeCorrect` of all the stores and the reader of a listing together.

The assumptions are those of `Stores`: `BoundsAssumption` (natural bounds),
`NumbersAssumption` (integer quantities and prices), `ClientsAssumption` (finitely many,
at least one), `LimitsAssumption` (a positive pool and batch), `TableAssumption`
(finitely many keys, positive limits of a list), `TextsAssumption` (there is a text;
null is no row).

Every invariant and action property that a passing run checks is thus stated by a
theorem. Only model-checked is all liveness, since fairness is beyond the prover
(`RequestsAnswered`, `PaidIsAnnounced`, `OrderGetsPayment`, `PaidReachesSeller`,
`LettersAreHandled`, `AskReturns`, `CallsReturn`), and the three violations.

## Not modelled

- One-time passwords: `generateOTP` reads a global `length` that Node does not have,
  so `sendOTP` fails before it changes anything. With it, the notification service's
  consumer of one-time passwords; and that of low stock, to which no service publishes.
- `Notification` rows, which no code writes.
- The rate limiter: no server uses `rateLimitMiddleware`.
- Authentication and permissions (predicates on a token), the gateway, servers,
  error formatting, the CloudWatch transport of the logger, images (presigned S3
  URLs), the CDK stacks and the scripts.
- Subscription events, formatting of mails, validation of inputs but for the inputs
  it lets through.
- What nothing calls: `cleanUpExpiredCodes`, `updateProductQuantity`, `saveOrderId`,
  `getProductCountByCategory`, the mail of a cancelled payment, and the pages of the
  catalogue after the first.
- A database write that is under way when the process dies and is applied after its
  restart.
- The start of channels of services other than the order service: their queues and
  consumers exist from the start. The mail exchange `order.request` has no queue before
  the notification service first ran: `Mailing` has that (`Kept`), `OrderService`
  keeps its mails.
- The half minute after which an unread answer about products is dropped: a call that
  waits reads at once.

## Plan

1. Done: `PaymentService`, `PaymentLedger`, `OrderService`, `OrderStandalone`,
   `UserService`, `NotificationService`, `Mailing`, `PaymentServiceProofs`.
2. Done: `Checkout` with the seller service; `ProductDetails` with the start of the
   order service's channel; `Cart` with `CartLedger`, `AccountStore`, `SellerStore`,
   `CategoryStore`, `ProductCatalog`, `Catalogue`, `PagedListing`, `Stores`, and the
   proofs of all of these.
3. Worth proving next: that the payment service within `Checkout` implements its ledger
   as far as it does alone, and the safety part of what liveness relies on, e.g. that a
   paid order whose announcement was not lost is in a queue or a handler.
4. Worth modelling once the code has it: passwords that can be generated, a retry of
   announcements that were lost, a timeout of the two RPCs.
