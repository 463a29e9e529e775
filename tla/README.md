# A TLA+ model of the QR restaurant backend

The repository is a Go service (gin, gorm v2, PostgreSQL, gorilla/websocket) for
restaurants whose guests scan a QR code at their table. The scan opens or joins a
*dining session*, guests place *orders* in it, staff move the orders through
their statuses, record payments and close the session, and every status change
is pushed to the guests over a *websocket hub*.

This directory holds TLA+ modules of the parts of the service in which requests
race, TLC configurations that check them on small instances, and proofs that
TLAPS checks for instances of any size. `PROJECT.json` maps each definition to
the source lines it stands for.

## 1. Inventory

State lives in PostgreSQL, except for the hub and the counters, which are in memory.
Every request runs in a goroutine of its own; several server processes may share the
database.

| Component | State | Operations | What makes it hard | What makes it correct |
|---|---|---|---|---|
| Sessions `internal/session` | `sessions` rows (table, status, payment, expiry) | `Scan`, `Close`, `UpdatePayment`, listings | a scan is up to eight statements; saves write all columns of a struct read earlier; expiry passes meanwhile; a failed commit may have been applied | one ACTIVE session per table; a scan answers with its own table's session and never ends a live one; an expired session is replaced; nothing but a request that says so closes, reopens or re-prices a session |
| Orders `internal/order` | `orders` rows (session, key, fingerprint, status) | `PlaceOrder`, `UpdateStatus`, listings | retries, concurrent use of one key, a transition tested on a stale read, broadcast after a second read | one order per key; answers name the request they answer; statuses are earned; guests hear of the final status |
| Hub `internal/websocket` | map of rooms, gauge, a buffered channel, a reader and a writer per connection | `ServeWS`, `Register`, `Unregister`, `BroadcastToSession`, `readPump`, `writePump` | channel closed by one goroutine while another sends; the lock held over a whole broadcast; full channels; vanished peers | no send on a closed channel; map, gauge and goroutines agree; no foreign, duplicated or unjustly lost update; no leak |
| Menu `internal/menu` | categories, items with price and availability | create, update, delete, public menu, the menu part of `PlaceOrder` | count-then-delete; whole-row saves that bring deleted rows back; the public menu is two statements; items are read before the order is inserted | nothing is sold or shown that was not on offer while the request ran; what is gone stays gone unless an older update saves it; an unforced deletion strands nothing but newcomers |
| Reordering a menu `internal/menu` | `sort_order` of categories and items; row locks, connections | `ReorderItems`, `ReorderCategories`, beside updates and deletions of one row | rows are locked one by one in the order of the request, so reorders deadlock; rows may be deleted between their validation and their update; a transaction keeps a connection of a limited pool while it waits | a reorder happens as a whole or not at all, and leaves out only what it finds deleted; nothing stays locked or taken; everybody is answered |
| Modifiers and prices `internal/shared/modifiers`, `internal/order` | none (JSON of an item); the total of an order | `ValidateConfig`, `BuildSnapshot`, the sum of an order | limits per group and option, quantities that default, units that multiply; ints that wrap at 64 bits, none of which bounds; a total of 64 bits in a column of 32 | a selection is accepted exactly if the contract allows it, and every unit is charged, unless a number wraps; only a sum that wraps is stored as a wrong total |
| Listings `internal/shared/pagination` | none | `ExtractPagination`, `Offset` and `Limit` | defaults, caps, a product that overflows, ties in the order | the pages of a listing hold each row once, but for rows that tie |
| Tables `internal/table` | `tables` rows with codes and QR tokens | CRUD, `RegenerateQR`, the table part of `Scan` | lookups before inserts; whole-row saves race; a deletion races a scan | codes and tokens are unique; a revoked token stays dead; a table with sessions keeps its row |
| Accounts: `internal/auth`, `restaurant`, `staff`, `theme` | users, restaurants with slugs, themes, memberships | register, log in, create, save and delete a restaurant, appoint and remove staff, upsert a theme | roles in tokens that are never looked up again; slug tested among live rows, unique among all; several inserts without a transaction | roles agree with users and memberships; a restaurant its owner was told of is whole; only owners change staff |
| Server `cmd/server`, `internal/app`, `shared/metrics`, `shared/config`, `shared/database` | the process, its listener, the counters at `/metrics` | start, listen, serve, stop; count every answer and panic | panics unwind past the counters; a shutdown races requests that wait for locks; signals before the handler is installed | every request that ended is counted once; only the deadline cuts a request off; a process told to stop does |
| Audit, logger and responses, uploads, libraries | none that is read back | | best-effort or per-request | not modelled |

How they interact: `Scan` reads the table and creates sessions; `PlaceOrder` and
`ServeWS` test a session row that scans, closes and payments write; `Close`
tallies order rows; `UpdateStatus` re-reads the order and the session and calls
the hub through the broadcaster of `internal/app/router.go`. `PlaceOrder` also reads
menu items, and the modifier configuration in them, before its transaction begins.
Every request of staff carries a token with the claims `Accounts` is about. All requests
pass the middleware of `internal/app/router.go` and share one pool of connections, and
the process may be stopped, or fail, under any of them.

## 2. How the code is modelled

* **A statement is a step.** PostgreSQL runs at READ COMMITTED and no statement
  locks a row for a later one: the two `tx.Set("gorm:query_option", "FOR UPDATE")`
  in the code are settings of gorm v1 that gorm v2 ignores. A request is a program
  counter (`pc`) with locals; each database statement is one atomic action, and
  two requests interleave between any two of them. A worker in `Scans`, `Closes`,
  ... serves one request after another. An insert and the commit that follows it
  are one step, because nobody sees the row before the commit and the unique index
  is tested against committed rows then.
* **`Save` writes every column, and inserts what it cannot update.** The
  repositories' `Update` is gorm's `Save`: a request that read a row earlier writes
  back what it read, every column. If the UPDATE matches no live row, gorm goes on
  with an INSERT that takes the place of the soft-deleted or missing row, so a stale
  save brings it back (`SaveUpdate` and `SaveInsert` in `Tables` and `Accounts`,
  `UpdateItemUpsert` and `UpdateCategoryUpsert` in `Menu`; sessions are never
  deleted). An INSERT replaces a FALSE by the column's default, so what comes back
  is available or active again (`Inserted`). In `Sessions` the struct is the local
  `copy`, and the columns kept are those anything depends on: table, status,
  payment. `expired` stands for `expires_at` in the past.
* **Failures.** With `Faults = TRUE` any statement may fail; a write or commit
  that reports an error may or may not have been applied. A client that gives up
  or a server that stops is a request that takes no further step, and a retry is
  another request. Requests that the code rejects without touching state (an unknown
  token, a foreign restaurant) are answered `"refused"` in one step.
* **Errors the code ignores are ignored in the model**: the save of an expired
  session in `Scan`, and the re-read in `UpdateStatus`, after which a nil order
  panics and the request is answered with an error although the status is written.
* **The hub.** Register and Unregister hold the write lock and are one step each;
  a broadcast takes the read lock in one step and then sends to one connection per
  step, in any order (Go's map order), and only then lets writers in. A message
  is the update it is about; the channel capacity is a constant.
* **Prices.** `Pricing` treats `ValidateConfig` and `BuildSnapshot` as functions, with
  a loop of the code as a fold over a sequence (`TakeOptions`, `TakeGroups`). Its reference
  is declarative: which multisets of options a configuration allows, and the sum over
  their units. Sums and products of the code are Go ints and wrap (`GoInt`), those of the
  reference are numbers. What the item and its lines come to is the subject of `Totals`.
  `Menu` needs only that prices differ.
* **Locks and connections** matter where a transaction updates several rows, which only
  the reorders do (`Reorder`). A row stays locked from its UPDATE to the commit; a
  statement that meets a lock waits, unless PostgreSQL finds the circle and aborts it
  (`BreakDeadlock`). A statement outside a transaction takes a connection for its step, or
  keeps one while it waits; a transaction keeps its own. A body is a sequence of pairs of
  a row and a place; the code validates no more than that each row is there and where the
  request says, row by row (`Validate`). A row that is deleted afterwards is matched by no
  UPDATE (`SkipRow`), until a stale `Save` inserts it anew (`SaveMiss`, `Upsert`).
* **The process** (`Server`) is how far `main` has come. Start-up ends with any step that
  fails, and an environment is a record of what `config.go` tests. A request is running,
  counted in the total (`Answer`), then counted by its status as well (`Record`), or
  recovered from a panic, or cut off; a connection that was accepted may still bring one
  while `Shutdown` waits. `Serving` puts `Reorder` into
  it: a panic or the end of the process abandons transactions, which are rolled back.
* **Widths.** Go ints wrap (`Words`), and a column refuses what it cannot hold. A width
  is given by the end of its range: `IntLimit` stands for the 2^31 of a column,
  `2 * IntLimit^2` for the 2^63 of the Go int that adds up a total, `WordLimit` for that of
  a selection, `PageLimit` for that of an offset. TLC takes 8, 128, 8 and 8, so that
  quantities, lines and pages go past the ends; the proofs take any.
* **Listings.** A listing is a sequence of keys (`sort_order` and name), and a query finds
  its rows in any order that agrees with the keys (`Orders`), each query in one of its own.
* **Accounts.** The tables of accounts are written by registrations and by requests of
  owners, so only these are modelled; the middleware in front of them is the action
  `Access`. A theme is there or not. A password is a fact about the person who
  logs in, so a login is a step that needs a user.
* **Left out:** texts, images, `last_seen_at` (nothing reads it), read-only requests
  that no property is about, the tenant checks' details.

## 3. Modules

| Module | Models |
|---|---|
| `Sessions` | `Scan` (`ScanFindTable` ... `ScanBuild`), `Close` (`CloseFind`, `CloseTally`, `CloseSave`), `UpdatePayment` (`PayFind`, `PaySave`); the partial unique index is `IndexAdmits` |
| `Occupancy` | abstract: a table is free or has one occupant; `Seat`, `Leave`, and `Reseat` for the sessions that payments bring back |
| `ScanHistory` | `Sessions` plus the expired sessions each scan owes its guest to replace |
| `Orders` | `PlaceOrder` (`PlaceFind` ... `PlaceReload`), `UpdateStatus` (`UpdateFind`, `UpdateWrite`, `UpdateReread`, `UpdateSend`); `SameKey` is the unique index on session and key |
| `OrderLifecycle` | abstract: an order is placed as PENDING and advances along a table of transitions |
| `PlacementHistory`, `StatusHistory` | `Orders` plus the answers customers were given, or the statuses each order had and the updates still to be told |
| `Dining` | `Sessions` and `Orders` over one database, composed with `INSTANCE`; the environment of each is the other |
| `DiningHistory` | `Dining` plus the orders that a close without force could not have counted |
| `Hub` | handler, reader and writer of each connection, and broadcasts |
| `HubHistory` | `Hub` plus what was in the channel of a connection when an update to it was dropped |
| `Pricing` | `ValidateConfig`, `BuildSnapshot` and what they call, and the contract they are compared with |
| `Totals` | the total of an order, line by line (`AddLine`), beside its true sum, and the columns it goes into |
| `Paging` | the parameters of a listing, the offset, the orders a query may find, and the rows of a page |
| `Words` | integers kept in a word |
| `Menu` | categories and items: create, update, delete, browse (`Browse...`) and order (`Order...`) |
| `MenuHistory` | `Menu` plus what each guest's request could have seen on offer since it began |
| `Reorder` | `ReorderItems` and `ReorderCategories` (`Validate` ... `Commit`), updates (`Find`, `BeginStatement`, `SaveWrite`, or `SaveMiss` and `Upsert`) and deletions (`Find`, `BeginStatement`, `RemoveRow`) of one row, with row locks, deadlocks and the pool |
| `Arrangement` | abstract: a reorder puts all its rows in their places in one step, but those it has noticed to be deleted |
| `Server` | start-up, listener, counters, signals and shutdown of the process, and the way of a request through the middleware |
| `Serving` | `Reorder` inside `Server`: handlers that return, panic, become a websocket, or end with the process |
| `Tables` | `Create...`, `Update...`, `RegenerateFind`, `Delete...`, and `ScanFind`, `ScanSeat`; sessions as a status per table |
| `Accounts` | `Register...`, `Login`, `Access`, `Create...`, `Update...`, `SoftDelete`, `Appoint...`, `Remove...`, `Theme...` |
| `MCSessions`, `MCOrders`, `MCDining`, `MCHub`, `MCPricing`, `MCMenu`, `MCTables`, `MCAccounts`, `MCServing` | symmetry sets and instances for TLC, and the documented statements that the code does not keep |
| `SessionsProofs`, `OrdersProofs`, `DiningProofs`, `HubProofs`, `MenuProofs`, `TablesProofs`, `AccountsProofs`, `ServingProofs` | proofs about the modules they are named after and their histories; `MenuProofs` also about `Paging`, `Totals` and `Pricing`, `ServingProofs` about `Reorder` |

Definitions named "Mutant of X" are deliberate mistakes in X; replacing X by one of
them makes TLC report the property it is listed with in `PROJECT.json`.

## 4. Runs

| Run | Instance | Shows |
|---|---|---|
| `sessions_core` | 2 tables, 2 sessions, one worker of each kind, failing statements | one ACTIVE session, own-table answers, who may close, reopen or re-price a session, and the refinement of `Occupancy` |
| `sessions_expiry` | 1 table, 2 sessions, 2 scans, a payment, no failures, fair scans | expired sessions are closed (liveness) and replaced |
| `orders_placing` | 1 session, 3 orders, 1 key or none, 2 bodies, 2 placing workers, failing statements | idempotency: one order per key, every answer about the request it answers, conflicts only where there is one, unkeyed requests never share |
| `orders_staff` | 1 order, 2 staff workers, failing statements | earned statuses, told statuses, the refinement of `OrderLifecycle` until two updates meet |
| `dining` | 1 table, 1 session, 1 order, with a scan, a close, a payment, a customer and a member of staff | a close without force leaves only orders it could not have counted; a sealed session stays closed and receives nothing; each component meets only the environment it assumes; 202 000 states |
| `hub` | 2 connections, 2 sessions, one with a token in two spellings, 2 updates, channels of 1 message, fair goroutines | the hub's safety, with the channel of every dropped update, and that lost connections are forgotten (liveness); 399 000 states |
| `pricing` | 9 configurations, 2 of them invalid, selections of up to 3 options in up to 2 groups, quantities around 0, the limits and the end of a word; orders of up to 5 lines at the ends of the ranges, with modifiers beyond a column; listings of up to 4 rows with and without ties | `BuildSnapshot` agrees with the contract, in acceptance and in price, except where units or prices wrap; which totals can be stored wrong; what pages hold; 333 000 states |
| `menu` | 1 category, 2 items, 2 prices, 2 members of staff, 1 guest | what is sold was on offer; what can come back, and what deletions leave; 1.8 million states |
| `tables` | 2 tables, 2 codes, 3 tokens, 2 members of staff, 1 guest | unique codes and tokens, revoked tokens, tables with sessions; 85 000 states |
| `accounts` | 3 emails, 2 restaurants, 1 slug base, 1 appointment, 2 workers | roles, whole restaurants, who changes staff; 1.0 million states |
| `serving` | 3 requests: reorders that may cross, repeat a row or name a foreign one, a deletion of a row they name, updates of the rows, a websocket; 2 connections, 3 environments, failures, panics, signals, crashes; fair goroutines | atomic reorders, nothing held by who is gone, every request counted once, a shutdown that waits, and nothing that hangs (liveness); 152 000 states |
| `dining_order_after_close` | a customer orders while staff close the session | TLC finds the violation; see section 6 |

The type invariants are in no run: they are proved.

**Bounds.** Identities of rows (`Sessions`, `Orders`, `Updates`, `Clients`) bound
how many are ever created; workers repeat requests without bound. Two sessions of
one table are what it takes for one to be closed and another opened, and for the
index to matter; two tables let an answer be the wrong table's; three orders are a
keyed one, an unkeyed one and a duplicate; two workers are a race, and every hazard
listed is a race of two requests with the help of time. Two items tell those a
deletion counted from newcomers; three tokens are two tables' and a regenerated one;
two restaurants and one slug base collide; three people are two owners, or an owner
and staff, and one more. `dining` needs no second session, because what it checks is
about one session and its orders at a time, but every kind of request to it. Selections of
three options, around each limit, are where a unit can be miscounted, and three
quantities near the end of a word add up past a whole one; five
lines of the largest price and quantity, or one modifier, take the sum around into the
column. Four rows with three keys have ties inside a page and across its end. A channel
of one message is full after one. Two reorders of two rows cross, and with
an update or a deletion they are more than two connections can serve. In `serving` a
request is made once, and what it may ask for is listed in `MCServing`: each request may be
a reorder, and each may be what disturbs the reorders of the others. In `pricing` the three parts share
nothing and are explored one after the other (`MCNext`). What is proved (section 5) does
not depend on any bound.

**Fairness.** `sessions_expiry` assumes weak fairness of each scan that has begun:
the server's goroutines are scheduled, and clients owe nothing. `hub` assumes weak
fairness of writers and of the sends of a broadcast, and strong fairness of the
reader side (`ReaderStep`): Register and Unregister wait for a lock that broadcasts
hold again and again, and Go's `RWMutex` lets no new reader in once a writer waits.
A vanished peer is noticed because the reader has a pong deadline (60 s) and the
writer pings. Nothing forces a session to be scanned, closed or paid. `serving` assumes
weak fairness of `Work` (some goroutine that can go on does, PostgreSQL answers and breaks
deadlocks), of `Expires` (the five seconds of a shutdown pass) and of `Stops` (`main` goes
on once `Shutdown` returns). No request is favoured and none is obliged to arrive, to fail
or to stop the process; as each is made once, all have their turn.

Deadlock is checked in every run but `serving`, where the process exits for good; idle
workers can always take a request.

## 5. Proofs

For any sets of rows, keys, people, workers and connections, from the assumptions on
constants alone (workers of different kinds are distinct, `Nil` is none of the
identities, requests are finitely many where they are counted).

**Sessions** (with or without failing statements)

* `TypeCorrect`: `TypeOK` is inductive.
* `OneActiveSession`, `CopiesAlwaysBelong`: one ACTIVE session per table is not
  inductive. The index is tested against the row being *saved*, and a close or a
  payment saves a struct read several steps before. The invariant `IInv` adds
  `CopiesBelong`: a copy about to be saved was read from the row it overwrites and
  names the same table (tables of rows never change). `StepSaves` shows that every
  step saves at most one row, and only one that the index admits; `OneActiveStep`
  and the refinement follow from that lemma without looking at the actions again.
* `OnlyPaymentsReopen`, `NoScanEndsLiveSession`, `PaymentsExplained`: action
  properties, from `IInv` and `WhoSaves`, which names the request behind a change.
* `ScansAnswerOwnTable`, `SessionsImplementOccupancy` and `NoPaymentsNoReseat`: the
  answers, and the refinement of `Occupancy`. Each saved row is `Seat`, `Leave`,
  `Reseat` or a stutter; without payments never `Reseat`.
* `ScansReplaceExpired`: with the history of `ScanHistory`, no scan is turned away over a
  session that it had to replace. Past its search, a scan knows of no ACTIVE session
  among those it owes except the one it is about to save (`Owes`): it found the only
  one there was, its own insert would fail if another had come, and only a payment,
  which takes the session off the history, or the failure of its save undoes that.
  `ScanMove` says where a scan goes from each label, `StillOwed` what the
  steps of others can do to what it owes.

**Orders**

* `OrdersTypeCorrect`, `OneOrder`, `AnswersAreTrue`. `IInv` adds to the types what
  requests hold: a staff update an order that was placed (`Pending`), and a placement
  past its insert or its recovery an order with its own request (`Inserted`).
  `StepEvolves` says all that a step can do to the table: nothing, insert an order
  under a key that no other has, or change a status. Hence no row changes its
  request, an answer that was true when the order was found is true when it is given,
  and orders of one key stay one. `AnswersMatchOrders` is both halves of that: what a
  customer is told was placed, or conflicts, is so.
* `UnkeyedStayApart`, with the answers of `PlacementHistory`: an order that is inserted
  and not yet answered for is in no answer, and held by its own request alone
  (`Fresh`); a recovered or replayed order was found under a key (`PlaceMove`).
* `StatusesAreEarned`: the status a request is about to write follows one that the order
  *had*, though perhaps not the one it has (`Earning`); that is all that a test on a
  stale read gives, and it is enough.
* `FinalStatusesAreSent`: every order whose last status is still untold has an update
  that is about to re-read it, or to send that very status, or failed (`Telling`). The
  theorem is the case in which nobody is under way.
* `LifecycleImplemented`: the refinement of `OrderLifecycle`. Until two updates of an
  order meet, each has the order to itself, so the status it tested is the status it
  overwrites (`Racing`); a step that makes two meet is one into the stage RACED, and
  every other is an advance, a placement or a stutter (`StepStage`).

**Dining** (sessions and orders together)

* `CompositionIsSound`: the system is an instance of `Sessions` and of `Orders`. The
  theorems above are taken over with `INSTANCE ... WITH` (`SP`, `OP`). By `StepSaves` a
  session step changes one row, which is the environment that `Orders` assumes; by
  `StepEvolves` an order step changes the unfinished orders of one session, but `Sessions`
  assumes more: that the session was created. `Linked` adds this to the invariant.
* `TogetherTheyKeepTheirPromises`: hence what holds of each holds of both together, by
  citing its theorem as it stands: the answers of scans and placements, one ACTIVE session
  per table, one order per key, the three action properties of sessions, and the
  refinement of `Occupancy`.
* `SealedForGood`: a sealed session could be reopened only by a payment that holds it as
  ACTIVE (`ReopenStep`), and could receive an order only from a placement past its test;
  the seal excludes both, and no request comes to be one of them while it is closed.
* `ClosesLeaveNewcomers`: from its tally to its save, the unfinished orders of a session
  that an unforced close is about to save are newcomers (`Counted`), because an order that
  was finished at the tally is unfinished later only by a step the history records. The
  theorems of the components are about their histories too; since these record and never
  guard, `SP` and `OP` take empty sets for them.

**Hub**

* `HubTypeCorrect`, `RegistryIsExact`, `NoSendPanics`, `UpdatesStayPrivate`,
  `LossesAreJustified`, for any number of connections and any capacity. Register and
  Unregister need the lock that a broadcast holds, so the connections that it has yet to
  come to stay in the map and have not been sent the update (`InRoom`); a channel is
  closed only once its connection has left the map (`ClosedAreGone`); what was sent is
  about the connection's own session, once each (`Sent`), so a full channel holds as many
  different updates as its capacity; and as long as its writer runs, a connection keeps
  what it got (`Reached`), so the only step to look at is the one that drops an update.
  The theorems about the lengths and elements of sequences come from `SequenceTheorems`.

**Menu**

* `MenuTypeCorrect`. `IInv` adds to the types what each staff request knows of its row
  (`Found`): it exists, since rows are marked and never removed, and the copy of an item
  names the category the item has for good. Without that a save could write a row that
  is no row.
* `GoneForGood`: a row is written only by a request that read it (`SaveStarts`), and no
  request reads one that is deleted.
* `SoldOnlyAsOffered`: what a guest has read so far was on offer since the request began
  (`Selling`): each item is read in a single step, in which it is on offer.
* `DeletionsLeaveNewcomers`: between the count and the mark, the items of the category are
  newcomers (`Counted`); a deletion starts there only after a count of zero or if it does
  not count (`MarkStarts`).

**Totals and listings** (`MenuProofs`)

* `StoredTotalsWrap`, for every width, price, quantity and modifier and any number of
  lines: the total is the sum as a Go int keeps it (`Kept`), as wrapping at each step is
  wrapping once (`WrapAdds`), so a stored total is off by whole words if at all
  (`TotalOffByWords`). Lines that fit their columns bound the sum (`Bounded`), and of two
  numbers of a word that differ by a multiple of its size, four such lines with modifiers
  smaller than a column reach only one (`TotalOfFour`): a wrong total needs more. The
  run reaches both ways to it, and section 6 says what follows.
* `PagesPartitionListings`, for every listing, page size and width of an offset: place i is
  on page `(i - 1) \div limit + 1`, whose offset fits, and on no other
  (`PlacesOfListing`); an order takes places to rows of the same key, and a row that
  shares its key with no other has one place in every order (`RowsOfListing`).

**Modifiers** (`MenuProofs`)

`BuildSnapshot` is a fold over the groups of a fold over their options, and the contract it
is compared with a sum over a set. That they agree for sequences of any length is an
induction over data, and the library's induction theorems take an operator, which the
provers cannot instantiate. The proofs use sets instead: a set of numbers that is closed
under the next one (`CountingUp`), or of finite sets that is closed under growing
(`Shrinking`), leaves no minimal element out, by `WFMin` of `WellFoundedInduction`.

* What the folds of the community modules are. They are the function that satisfies a
  recursion, chosen with CHOOSE, so nothing follows from their definition until there is
  such a function (`Recursion`) and, where two sums are compared, only one
  (`SumRuleHasNoOther`). From this, `TakeOptions` and `TakeGroups` are the loops of the code,
  element after element in order (`OptionLoop`, `GroupLoop`), and the sums of
  `FiniteSetsExt` and `Functions` may be taken in any order and part by part
  (`SumWithoutOne`, `SumOfMultiples`, `SumOverParts`).
* `PricingTypeCorrect`: with the types, a stored configuration is a valid one.
* `ContractHeldUnlessUnitsWrap`, `PricedUnlessCentsWrap`, for every configuration,
  selection, quantity and width of a Go int. Both are consequences of the types
  (`SnapshotDecides`): the code accepts what the contract would allow if units were
  counted in Go ints, and charges what a Go int keeps of the price. What the contract allows
  is within a word (`AllowedInWords`), and where the two differ, units have wrapped around
  2^64 (`WrappedIsLarge`, `ForbiddenByWords`). The invariant of the inner loop:
  after k options it has not failed exactly if these fit and differ, and then it has
  counted their units and price, in Go ints (`OptionsTaken`). The invariant of the outer loop: after k
  groups, what is left was submitted for none of the active ones among them, it has not
  failed exactly if each of them passes, and then it has added what they cost
  (`GroupsTaken`). The contract sums by option over all places of the request; the places
  where the options of a group are asked for are the parts of what was submitted for
  it, if that fits (`AskedInOneRow`). That a group submitted for an inactive one is refused
  only after the loop is why the price is right only of accepted selections
  (`NoneHidden`).

**Tables**

* `TablesTypeCorrect`, `CodesAndTokensAreUnique`, `SeatedTablesStay`: every save passes
  both unique constraints, whatever the copy holds (`Saving`), and the foreign key is
  tested by the DELETE itself, so neither lookup before matters. `IInv` adds what a
  copy is (`Request`).
* `RevokedTokensStayRevoked`: tokens on tables after a step were there before or in the
  copy saved (`TokensOnTables`); tokens in copies were in a copy, on a table, or are
  freshly drawn (`TokensInCopies`).

**Accounts**

* `RolesAreRight`, `CreatedAreWhole`, `OwnersChangeStaff`. `IInv` says that users keep
  their role once they have one, that tokens, requests and memberships name such
  users, and that slugs are distinct and a restaurant past its creation has a theme.
  The role in a token is right although nobody looks it up again because no
  request changes a user's role.

**Reordering and the server**

* `TypeCorrect`, `NothingLeaks` (about `Reorder`): the invariant ties every lock to the
  transaction that wrote the row and every connection to a request that is using it.
* `ReorderIsAtomic`: the refinement of `Arrangement`. The rows that a transaction has
  written are those of its order, each with the last place named for it among the
  entries it is past, and the others it has found deleted (`Progress`, `Faithful`); nobody
  else can have written or deleted one, since it is locked. To pass an entry is `Notice`
  (`missed` is what it maps to), a commit is `Apply`; an abort, a failure or a crash is
  `Refuse`; an update is `Look` and `Put`, which bring a deleted row back.
* `ServingKeepsItsParts`: the server with its requests is a `Server` and a `Reorder`, so
  `ServingNothingLeaks` and `ServingReordersAtomically` follow for a process that panics,
  crashes and shuts down. This needs that a handler begins only once its
  request has arrived, and has an answer of its own when it is done (`Returned`).
* `CountersAreExact`, `ShutdownWaits`: an answer, its status and a panic each move one
  request and one counter; and a request is cut off only by a step
  that ends the process, of which a clean exit finds none running (`Stages`).

Only model-checked:

* `ExpiredSessionIsClosed`, `GoneIsForgotten`, `NothingHangs`: liveness under fairness.
* `OrdersEnterActiveSession` is the property that TLC refutes.

Every other property of a run is a theorem.

## 6. Where the code departs from what it says

Found while modelling; quotations are under `findings` in `PROJECT.json`. The second has
a run in which TLC finds the violation; the others are visible in a single action, take
two steps or are delimited by a property that holds and names them, and a run would add
nothing.

1. A payment saved after a close restores status ACTIVE, so a closed session lives again
   (`docs/DECISIONS.md:11`); `ReopenedOnlyByPayment` names it as the only way.
2. `dining_order_after_close`: the "locked" session row is not locked, and an order
   enters a session closed meanwhile (`order/service.go:155`).
3. The transition of an order is tested on a stale read; a cancelled order can become
   ACCEPTED (`order/service.go:32`). `OrderLifecycle` therefore holds only until two
   updates of one order meet.
4. A close without force ends a session whose order is PREPARING
   (`scripts/test_api.sh:220`).
5. A websocket token in another spelling is accepted but never told anything
   (`websocket/hub.go:18`).
6. A forced deletion of a category leaves its items live and orderable
   (`docs/PLAN.md:163`).
7. The slug of a deleted restaurant is neither found nor free, so creations that
   arrive at it fail (`restaurant/service.go:78`).
8. Bodies of requests under one key are compared, though `docs/DECISIONS.md:7` says they
   are not yet.
9. A request whose handler panics is in none of the `http_*` counters that
   `docs/RUNBOOK.md:95` tells to watch.
10. The answer and the counter of rate-limited requests are in a handler that is called
    for errors of the store only (`middleware/ratelimit.go:28`).
11. The entries of a reorder are not validated, so the limits on `sort_order` in
    `menu/dto.go:38` have no effect.
12. Two uploads within a millisecond get one "unique" key (`pkg/storage/r2.go:83`).
13. The units of a group are a sum of Go ints that nothing bounds: three options without a
    limit, of 2^63-1, 2^63-1 and 3 units, are one unit, pass the group's maximum and are
    charged a price that wraps as well, though selections are validated
    (`README.md:98`). `AcceptsUnlessUnitsWrap` and `PricesUnlessCentsWrap` say that nothing
    smaller is accepted or priced wrong.
14. The total of an order wraps around 2^64 into its column, with five extreme lines or one
    extreme modifier, and is stored, though clients are to take it as authoritative
    (`README.md:150`). `TotalTrueUnlessSumWraps` says that nothing smaller is stored wrong.

Weaker ones, seen in the models or while reading for them, about which no document says
otherwise:

* Sessions and orders: a close that read the session before a payment was recorded
  overwrites the payment (`PaymentChangesExplained` says who); a scan may be turned away
  over an expired session when its own save failed or a payment brought the session back
  (`ScanReplacesExpiredSession` exempts these); the retry of an order is refused once
  its session is closed, before its key is looked at; a websocket opened just before a
  close stays connected.
* Menus: a stale `UpdateItem` brings a deleted item back, and makes it available; an item
  or category created as unavailable or hidden is not, because the INSERT takes the
  column's default; an update puts a row back into the place it had before a reorder; a
  reorder answers that it has updated all rows of its order, though it has skipped those
  deleted since it validated them (`Arrangement` lets it miss those, and no others).
* Listings: a page number so large that the offset wraps shows the first page again
  (`PagesPartition` ends there); rows with equal `sort_order` and name may be on two
  pages or on none (`PagesPartition` promises one page to the others only).
* Tables and restaurants: a stale update of a table restores the QR token that was just
  revoked (`RevokedStaysRevoked` begins when no such update is under way); a table that
  ever had a session cannot be deleted, the request ends in an internal error; of two
  partial updates of a theme one is lost.
* Server: a SIGTERM before `signal.Notify` ends the process at once; `Shutdown` does not
  wait for websockets; only six operations write an audit row, and their errors are
  dropped.

## 7. Not modelled, and what is left

The plan of this project is carried out for sessions, orders, their composition, the
hub, menus and their order, pricing, listings, tables, accounts and the server process.

Left out, and why:

* Audit: best-effort inserts that nobody reads. Uploads: I/O to an object store, no state
  of their own. The logger, request ids, and the formatting of answers: nothing reads
  them back. Wrappers of cryptographic and image libraries: external.
* Of what is modelled in part: the colours and images of themes, the texts of
  restaurants and items, latencies and business counters of `/metrics`, the
  window of the rate limiter (a library; any request may be turned away), and the
  settings of the pool other than its size.
* The hub and the database are composed only by the constants they share: `Hub` lets
  sessions change at any time and updates be broadcast at any time, which is all that
  `Sessions` and `Orders` can do to it, so a composition would only take behaviours away.
  The same holds of `Tables`, whose sessions come and go freely.
* The hub does not implement one in which a broadcast is a single step, so there is no
  abstract specification of it: two broadcasts hold the read lock together, and two
  connections of a room may be sent two updates in opposite orders. What it promises, it
  promises to each connection.
