# A formal model of go-azimuth

go-azimuth downloads the event logs of two Ethereum contracts, Azimuth (L1) and
Naive (L2), into an SQLite database and *plays* them: it rebuilds the state of
every Urbit point.  This directory models that program in TLA+, checks the
models with TLC on small instances, and proves the most important results with
TLAPS for every instance.

Contents: the [system](#the-system), the [modules](#the-modules),
the [runs](#the-runs), the [proofs](#the-proofs), the
[assumptions](#assumptions-and-abstractions), what is [not
modelled](#not-modelled), the [plan](#plan).

## The system

| Component | Source | State | Operations |
|---|---|---|---|
| Points and diffs tables | `pkg/db/point.go`, `diffs.go`, `schema.sql` | `points` (a row per azimuth number: owner and proxy addresses, a nonce per role, dominion, keys, life, rift, sponsorship, escape), `diffs` (append only) | `GetPoint`, `SaveDiff`, `Parent`, `Rank`, `GetEventsForPoint` |
| L1 events | `pkg/db/events.go` | the tables | `EthereumEventLog.Effects`: one handler per event of the contract |
| L2 transactions | `pkg/db/naive_parser.go` | the tables | `NaiveTx.VerifySignature`, `NaiveTx.Effects`: one handler per opcode |
| Batch parser | `naive_parser.go` | none, but where it is in the batch | `ParseNaiveBatch`: the bytes of a batch, read from the end, to transactions |
| Replay engine | `events.go`, `naive_parser.go` | `ethereum_events.is_processed`, the open database transaction | `PlayAzimuthLogs`, `PlayNaiveLogs`, `ApplyEventEffects`, `ApplyBatchEvent` |
| Scraper | `pkg/scraper/*.go`, `pkg/db/contract.go` | `ethereum_events`, `contracts.latest_block_fetched` | `CatchUpAzimuthLogs`, `CatchUpNaiveLogs`, `GetNaiveTransactionData`, `SaveEvent`, `SmuggleNaiveBatchDataIntoEvent`, `SetLatestContractBlockFetched` |
| Database open | `pkg/db/db_connect.go`, `schema.sql` | the file, its tables, `db_version` | `DBCreate`, `DBConnect`, `CheckAndUpdateVersion`, `UpgradeFromXToY` |
| Scrambler | `pkg/phonemes/scrambler.go` | none | `Fein`, `Fynd` and the Feistel rounds under them |
| Phonemes | `pkg/phonemes/phonemes.go` | none | names to numbers and back |
| Crypto | `pkg/crypto/sign.go` | a key file for each ship | signing, verifying, reading a key file |
| Command line | `cmd/main.go` | none | `catch_up_logs`, `play_logs`, `query`, `diff_roller`, ... |
| Roller diff | `cmd/subcmd_diff_roller.go` | none | compares the points table with an HTTP service |

The command line calls the others in sequence.  `get_logs`, as the README of the
program and this one call its subcommand `catch_up_logs`, runs the scraper for the Azimuth contract and then for the Naive one; both write `ethereum_events`.
`play_logs` runs the replay engine over what is in that table: events of
Azimuth before the Naive contract existed in transactions of up to 500, then
everything else one event per transaction, a Naive event being a batch of L2
transactions.  Effects handlers read and write the tables inside the open
database transaction.  There are no threads and no locks: what makes the
program hard is that **two layers write the same rows in an order fixed by the
chain**, that one number (0) is both a galaxy and "nothing", that the program
can die between any two database writes, and that each command starts from
what the one before it left.

What makes each component correct:

- *Tables*: types; the diffs tell of every change of the points but the nonces.
- *L1 events*: an event never meets a missing row, or a row that is already
  there; the dominion column is where the contract has the point; the events of
  a point that left L1 change nothing that belongs to L2.
- *L2 transactions*: nonces number what was carried out; only the roles with
  authority over a field write it; a sponsor is gained and lost by consent.
- *Replay engine*: every event takes effect once and in the order of the chain,
  whatever crashes; the replay ends.
- *Scraper*: nothing below the watermark is missing; a run that ends leaves
  every batch with its data.  A run that failed makes the file invalid, as the program's
  README says: it must be deleted, and no later run makes it good.
- *Batch parser*: what was submitted comes out, whatever zeros are cut; what is
  played is what the signature covers.
- *Database open*: one process makes the schema, in full, unless it is killed.
- *Scrambler*, *phonemes*: a name is one number's, and a number has one name.
- *Roller diff*: a mismatch is reported if and only if there is one in a field that is
  compared.

## The modules

| Module | Models |
|---|---|
| `AzimuthPoints` | the points table and the diffs of the last handler; `Parent` and `Rank`; the panic that ends the process |
| `AzimuthEvents` | `EthereumEventLog.Effects`: one action per event.  `chain` is the contract's own view of each point and only decides which events the log can hold |
| `NaiveEffects` | the loop body of `ApplyBatchEvent` and `NaiveTx.Effects`: one action per opcode, and the four ways to fail before or in them.  `spent` is a history of the transactions carried out |
| `Azimuth` | both layers on one table, interleaved in any order; the properties |
| `MCAzimuth` | the instances for TLC |
| `AzimuthWrites` | lemmas: what one event and one transaction may write, opcode by opcode |
| `AzimuthProofs` | the theorems about `Azimuth` and their proofs |
| `EventLog` | the log as numbers in the order of the chain; what the selects order and limit |
| `Replay` | the abstract specification of a replay: the database holds a prefix of the log, each event's effects in full and once, and the prefix only grows |
| `PlayLogs` | the replay engine: `PlayAzimuthLogs`, `PlayNaiveLogs`, `ApplyEventEffects`, `ApplyBatchEvent`, and the death of the process between any two database writes |
| `PlayLogsProofs` | its theorems and their proofs |
| `CatchUp` | the scraper: `CatchUpAzimuthLogs`, `CatchUpNaiveLogs`, `GetNaiveTransactionData`, the node's errors, the growing chain, and the death of the process |
| `CatchUpProofs` | its theorems and their proofs |
| `Database` | `get_db`: the schema made statement by statement, or the version read, by several processes at once |
| `Lifecycle` | the abstract specification of an event's way through both commands: absent, bare, complete, played, or lost when it was played bare |
| `Commands` | `CatchUp`, `PlayLogs` and `Database` as one system: `get_logs` and `play_logs` on one `ethereum_events` table, one at a time, and a query at any time |
| `CommandsProofs` | its theorems and their proofs |
| `NaiveBatch` | `ParseNaiveBatch`, one transaction a step |
| `NaiveBatchProofs` | its theorems and their proofs |
| `Scrambler` | `Scramble`, `Unscramble`, and the Feistel rounds under them |
| `Phonemes` | names of ships to numbers and back |
| `RollerDiff` | `CheckPointsAgainstRoller`, one request a step, against a roller and a database that move on; `DiffDBPointWithRemote` |
| `Inspect` | `query` and `diff_roller` on one points table |
| `InspectProofs` | the theorems about the scrambler, the names and the comparison, and their proofs |
| `Least` | lemmas: the least and the greatest of a set of numbers, by which the other proofs do induction |
| `MCPlayLogs`, `MCCatchUp`, `MCCommands`, `MCNaiveBatch`, `MCInspect` | the instances for TLC |

`Azimuth` composes `AzimuthEvents` and `NaiveEffects` over `AzimuthPoints`: what
one event does.  `PlayLogs` is which events are played when, and takes an event
as the number of database writes it makes.  `Commands` composes the scraper with
the replay engine and the opening of the database they share.  `PlayLogs`
implements `Replay`, and `Commands` implements `Lifecycle`, with `status` computed
from the rows that are stored, filled and marked.  `Inspect` composes the names and
the comparison with the roller, which read the tables that the others write.

How state and code correspond:

- A point is a record with the columns' own names.  The five addresses
  `owner_address` ... `transfer_address` are `addr[role]`, the five nonces
  `nonce[role]`, and the three key columns (crypto suite, auth and encryption
  key) one value `keys`.  `row = FALSE` is a number without a row.
- An *upsert* writes only the columns its SQL names, so an event of a row that
  exists leaves the others alone: `[points[n] EXCEPT ...]`.  An event of a
  row that does not exist starts from the column defaults (`NoPoint`).
- `diffs` holds what the last step appended to the diffs table, as point and
  operation.  The table is append only, so the properties about it are action
  properties.
- `panic` is "none" while the process runs.  A Go panic ends it and its open
  transaction is never committed; the step leaves `points` alone.  Whatever
  ends the process at a transaction leaves that transaction to be met again, so
  nothing follows a panic in `Azimuth`.
- A handler sees what earlier handlers of its own database transaction wrote.
  `Azimuth` is about handlers, one per step; transaction borders are the replay
  engine's.
- A signature is the pair of the address whose key made it and the nonce it
  was made over.  `VerifySignature` compares both with the row, which is what
  recovering the address from a message that contains the row's nonce does.

In the replay engine:

- `committed` and `processed` are what the database file holds, `view` and
  `marked` what the open database transaction sees: an event's writes so far
  and `is_processed`.  `Commit` copies the second pair onto the first, and the
  end of the process (`Die`) the first onto the second, which is SQLite's
  rollback.
- `todo` is the slice that the last select returned.  In phase "batch"
  (`PlayAzimuthLogs`) one transaction holds the slice; in "event"
  (`PlayNaiveLogs`) it holds one event.
- An event takes `Size[e]` writes and then its mark, one step each, so a crash
  can fall between any two.  `Poison` are the events whose handler panics, for
  any of the reasons that `Azimuth` has.

In the scraper:

- `stored`, `filled` and `fetched` are the database: the rows, those with their
  data, and the watermark of each contract.  Every write is a commit of its
  own, so every one is a step.
- `latest`, `from`, `to`, `batch_size` and `round` are the variables of the loop in
  `CatchUpAzimuthLogs`.  `check_error` returns a block for too many results and 0
  for an unavailable node, which the loop treats alike; `TooManyResults` and
  `Unavailable` keep both, negative batch size included.
- `busy` is the node's being unavailable.  It and the height of the chain change
  at any time.

In the database and the commands:

- `handle` is what `get_db` of a process is doing, or that it holds a DB;
  `made` counts how often each statement of the schema was executed, each
  a commit of its own.  A statement that fails panics, as `MustExec` does.
- A command needs its tables: `GetHasTables` and `NoTables` are a `get_logs` on a
  file that a killed command left half made.
- A query stands for every command that reads: it opens the file, and may be the one
  that makes it.

In the parser, a batch is the sequence of its bytes and `i` counts those left to
read, below 0 as in the code.  A field is the sequence of its bytes: the numbers,
addresses and keys made of them depend on nothing else.  `sent` and `cut` are what was
submitted and how many of its leading zeros are missing.

In the names, `Word` is 0x10000 and `Half` 0x100 in the program.  A word of a name is
a prefix and a suffix, each the number that stands for it in the tables of syllables.
`prf` is any function with 32-bit values.

In the comparison with the roller, a point goes through the rows of `History` on
both sides, each at its own pace; `points`, `seen` and `diffs` are what was read, when
the roller was asked, and what was printed.

The properties:

| Property | Says |
|---|---|
| `TypeOK` | every variable has its type |
| `NonceCountsSpent` | nonces 0 .. n-1 of a role are exactly the transactions carried out for it |
| `EscapeCoherent` | the two escape columns go together: without a request the target is back at 0 |
| `DominionAgrees` | the dominion column is where the contract has the point |
| `L1NeverPanics` | no event meets a missing row or inserts one that exists |
| `OneWayDominion` | L1 to spawn dominion to L2, by events only, never back |
| `OnlyWritersWrite` | on L2 an address or keys change only by a role with authority over them |
| `LayersIsolated` | an event leaves an L2 point alone, its request included, but for a sponsor that is not on L2; a transaction leaves an L1 point alone, sponsorship and requests apart; `is_active` is the contract's |
| `LifeNumbersKeys` | a life stands for one set of keys |
| `ChangesAreLogged` | every column but the nonces changes only with the operation that tells of it (proxies, requests and `is_active` included), and the diffs of breaches, keys, dominions and spawns have their change.  Proxies that an L2 transfer clears are told of by changed-owner only, one blank pair of keys for the other not at all |
| `SponsorNeedsConsent` | on L2 a sponsor is gained on request and lost by its own signature; a request is made by the point itself, to one rank above |
| `Implements` | `PlayLogs` implements `Replay` |
| `SeesThePast` | a write is made on the effects of exactly the events before its own |
| `MarkedIffPlayed` | an event is marked if and only if its effects are there, committed or not |
| `EverythingPlayed` | the replay ends with all that can be played, and without a panic that is the whole log |
| `NothingSkipped` | nothing below a watermark is missing |
| `RefetchedAtTheMark` | a row is inserted twice only in the block of the watermark or above |
| `GetLogsEnds` | however the node answers, `get_logs` ends, or reaches the retry loop |
| `PlayedAsStored` | an event is played once, and its row never changes after |
| `EachLogHasData` | a `get_logs` that came to its end leaves no batch without its data |
| `InvalidForGood` | what a `get_logs` that failed left without its data no later one fills |
| `KeepsLifecycle` | `Commands` implements `Lifecycle`: no event goes back, is played twice, or is filled after it was played; a batch is played bare only after a `get_logs` that failed |
| `SchemaOnce` | of the commands that find no file one makes the schema, once; a part of it remains only after a kill |
| `ParsedAsSent` | a batch comes out as it was submitted, also when zeros of its front are missing, and the raw bytes are those that were signed |
| `AllOrNothing` | no transaction but the last that is read suffers from missing zeros; if they were those of its signature, the batch is dropped |
| `PlayedIsVerified` | of any bytes: what is played of a transaction is what its signature covers, where its opcode is there |
| `ScrambleUndone` | `Unscramble` undoes `Scramble`, which maps planets to planets |
| `NamesItself` | a name that some number is given is that number's alone, and a query of it is of that number, below 2^32 |
| `ReportsTheDifferent` | a comparison that came to its end asked for every row it read, and printed a mismatch exactly where the roller, when asked, said nothing or something else in a field that is compared |

## The runs

All instances number galaxies below 2 and stars below 4; star 2 is of galaxy 0,
star 3 of galaxy 1, planets 4 to 7 of 0, 1, 2 and 3.  So `Parent`'s remainders
wrap as they do at 0x100 and 0x10000, including planet 4, whose natural parent
is a galaxy.  `Topics`, `Opcodes`, `Senders` and `Targets` choose which events,
opcodes and operands an instance plays; the bounds are `MaxNonce`, `MaxLife`,
`MaxRift`.  The addresses are the zero address, the deposit address and one
that somebody holds the key of: properties tell apart only whether an address
is one of these.

| Run | Instance | Shows |
|---|---|---|
| `sponsorship` | star 3, galaxies 0 and 1, all sponsorship events and opcodes, any of them deposited at any time | `TypeOK`, `EscapeCoherent`, `NonceCountsSpent`, `SponsorNeedsConsent`, `ChangesAreLogged`, `LayersIsolated` |
| `roles` | one galaxy, its five roles as senders, all address events and opcodes, both migrations, three kinds of keys, breaches, resets, malformed signatures and unknown opcodes | `NonceCountsSpent`, `DominionAgrees`, `LifeNumbersKeys`, `ChangesAreLogged`, `OnlyWritersWrite`, `LayersIsolated` |
| `spawn` | galaxy 0, star 2, planet 6, spawned on either layer, sponsors lost on L1, an unknown source; no detach, whose sponsor 0 is left to `EventsNeverPanic` | `L1NeverPanics`, `DominionAgrees`, `OneWayDominion`, `OnlyWritersWrite` |
| `replay` | ten events, four crashes between any two writes, events 6 and 8 panic or do not | `TypeOK`, `SeesThePast`, `MarkedIffPlayed`, `Implements`, `EverythingPlayed` |
| `get_logs` | six events in six blocks, both errors of the node, one death | `TypeOK`, `NothingSkipped`, `RefetchedAtTheMark`, `GetLogsEnds`, `EachLogHasData`, `InvalidForGood` |
| `commands` | both commands in any order on a chain that grows, a death of each, and queries; the database made by any of them, one kill | `PlayedAsStored`, `SchemaOnce`, `KeepsLifecycle` |
| `batch` | one or two transactions of every layout, any leading zeros cut, and other bytes | `TypeOK`, `ParsedAsSent`, `AllOrNothing`, `PlayedIsVerified` |
| `inspect` | names of up to five words, four hashes, two points in the database and at the roller | `ScrambleUndone`, `NamesItself`, `ReportsTheDifferent` |

In `sponsorship` galaxy 0 is `Linked` and galaxy 1 is not, so that 1 may ask, and be
accepted by, its peer 0 on L1.  Two transactions per sender (`MaxNonce` 1) let a request be made
and withdrawn, a replayed transaction meet a used nonce, and two sponsors act in
either order.  `roles` and `spawn` have one for each of their senders, five and
three, which act one after the other on the same point.  `roles` allows two lives and
one rift on L1, after or before which L2 adds its own.  The initial
state is the table after the Spawned, Activated and OwnerChanged events of
the `Registered` points; unregistered ones are spawned during the run.

`CHECK_DEADLOCK FALSE` is set where a panic is reachable: the process stops.

The violation runs each check one sentence of a comment that the code does not
keep:

| Run | Claim | What happens |
|---|---|---|
| `adopt_without_request` | naive_parser.go:687, "Assert tx.TargetShip has requested escape to tx.SourceShip" | only the number is compared, and it is 0 without a request: ship 0 adopts anybody |
| `endless_retry` | naive.go:86, "Try again on temporarily-unavailable errors" | the loop's condition is computed once: it retries for ever, though the node has recovered |
| `late_events` | events.go:128, "L1 and L2 txs actually do have to be processed in-order" | each contract is fetched up to a height of its own, so `play_logs` plays a batch and, after the next `get_logs`, an Azimuth event that is older; no command failed |
| `cut_opcode` | naive_parser.go:373, "leading "0x00"s could be omitted from the batch data, but they have to be added back in for the signatures to validate!" | opcode and proxy are read at `batch[max(0, i)]`, the first byte that is left and not the zero that was cut, while the signed bytes are padded: a transfer to the zero address by ship 0x08000000 is played as a set-management-proxy, and its signature verifies |

Seen on the way, and in the models, but not made runs of their own: a point
without a sponsor can be detached again by ship 0, for the reason ship 0 can
adopt anybody; a planet whose low half is a galaxy's number can be spawned by
that galaxy; an adopt, reject or detach of a number without a row panics with
its nonce unspent, and again on each restart; `CatchUpAzimuthLogs` leaves out the
last block when a range ends just before it, which is one way to `late_events`;
of two batches in one transaction only the later row gets its data; a query of a moon
answers with the point of its low 32 bits; and a `get_logs` whose watermark block holds an event panics on inserting it again.

The replay's log has ten events in four kinds of place: two slices of
`PlayAzimuthLogs` (`Limit` 4, so that the second is cut short), a batch first in
`PlayNaiveLogs`, an Azimuth event between two batches, events of no, one and two
writes.  Four crashes let each phase be cut more than once, and one be met
during the restart after another.  Each of events 6, in the second
slice, which takes an event before it along, and 8, a batch, panics or not.

The scraper's chain has six blocks, two events in one block, and ranges of two
blocks that double after few logs (`Few` 2) and shrink after an error; five
rounds reach the bound of the loop; requests of two transactions leave a last
one that is not full.  One death at any point and any number of clean
or panicking runs around it show what a resumed run meets: a clean file, or one that a
run left with rows above its watermark, which a later run panics on inserting
again (program's README, line 61).  Each batch has a transaction of
its own: of two in one transaction the map of `GetNaiveTransactionData` keeps only the
last, and the other never gets its data, so `EachLogHasData` is checked without such a
pair.  `commands` runs both commands on five events, where the last two share a
block, with a death in each and one more while the database is made, and lets a query
come in between any two steps.

`batch` takes signatures and addresses of two bytes, ships and keys of one, from the
values 0 and 8 (8 is also an opcode and a valid byte of everything else), every
opcode with a layout of its own, one and two transactions, and every number of leading
zeros that may be cut; and every sequence of up to seven bytes from 0, 8 and 130.  No
signature is all zeros, which no key makes.  `inspect` has words of two bits, so
that numbers take four and eight bits where the program's take 32 and 64, names of one
to five words, four shapes of the hash with all zeros and all ones among them,
and two points with histories of three rows and one: an escape to galaxy 0, a
change of sponsor, keys set to zeros.

No property of `Azimuth` is about liveness: a handler runs to its end, and
which events come is the chain's choice.  The
liveness properties are `EverythingPlayed` and `GetLogsEnds`.  The first assumes weak
fairness of the steps of `play_logs`, its start included: a process that runs
goes on (one goroutine, no locks, a local file), and somebody starts it again
after it ended, as its documentation asks; crashes are not fair and there are
`MaxCrashes` of them.  The second assumes weak fairness of the steps of a
running `get_logs` and of the node's recovery.  Nobody has to start `get_logs`
again and it need not die.  `endless_retry` fails under the same fairness, with a node
that has recovered for good.

## The proofs

`AzimuthProofs` proves, for any set of ships closed under `Parent`, any
addresses, keys, topics, opcodes, senders and bounds:

| Theorem | States |
|---|---|
| `TypesHold` | `Spec => []TypeOK` |
| `NoncesCount` | `Spec => []NonceCountsSpent` |
| `EscapesCohere` | `Spec => []EscapeCoherent` |
| `DominionsAgree` | `GalaxiesRegistered => (Spec => []DominionAgrees)` |
| `EventsNeverPanic` | `GalaxiesRegistered => (Spec => []L1NeverPanics)` |
| `DominionsMoveOneWay` | `GalaxiesRegistered => (Spec => OneWayDominion)` |
| `WritersOnly` | `Spec => OnlyWritersWrite` |
| `ConsentNeeded` | `Spec => SponsorNeedsConsent` |
| `LayersApart` | `Spec => LayersIsolated` |
| `LivesNumberKeys` | `Spec => LifeNumbersKeys` |
| `ChangesLogged` | `Spec => ChangesAreLogged` |

The argument about the tables has two inductive invariants.

*`Counted`* is types, nonces and escapes, and `Rowless`: a number without a row
has the column defaults, so an insert that starts from them starts a fresh
nonce.  The shape lemmas reduce every opcode to one of a few writes
(`TransactionShape`: dropped, ignored, or one row rewritten with the nonce of
the sender moved by one) and every event to a skip or one rewritten row that
keeps its nonces (`EventShape`); the induction step is then over shapes and not
over 27 actions.

*`Placed`* adds where the points are.  `DominionAgrees` is not inductive: an L2
spawn of a child of an L1 point would be met later by that child's SPAWNED
event.  The strengthening says that a point with a row that the contract has
not announced has a parent with a row that is not on L1 (it was spawned by it, and
dominions never go back), that every galaxy is announced, and that every
sponsor column names a row, 0 included, which is what LOST_SPONSOR's join
needs.  From it follows that the insert of SPAWNED never meets a row.

The last five theorems are about steps, and each rests on `StepLawful`: to a given
point a step is nothing at all, or an event about it, which logs one operation
(`LawfulEvent`), or a transaction that was carried out, and then it is signed by the
ship and role of its header with a nonce that was not spent (`Lawful`).  `Lawful` is the
conjunction of what is to be shown of a transaction, about any row before and after
and any operations logged: who may write (`Authorised`), who must have agreed
(`Consented`), what a point that is not on L2 keeps, how life and rift move, and
what is logged (`Explained`, `Readdressed`).  `AzimuthWrites` shows it for each opcode, and the like for
each event.  Two facts of `Counted` are needed beyond the types: that an adopt
compares a column which says something (`EscapeCoherent`, but for ship 0), and that
`SignedBy` is about a nonce that was not in `spent` before, which follows from
`NonceCountsSpent`.

The hypothesis `GalaxiesRegistered` (every galaxy of the instance has its row
before L2 starts) is true of the deployed contract, where all 256 galaxies
were created at launch, and it is needed: `Parent` of a galaxy is 0 and
`OP_SPAWN` does not look at ranks, so ship 0 on L2 could spawn a galaxy that has
no row.  The assumptions on the constants are `ShipsAssumption`,
`ValuesAssumption`, `L1BoundsAssumption`, `SendersAssumption` and
`GenesisAssumption`, which TLC evaluates on every run.

`PlayLogsProofs` proves, for any log, any sizes of events and slices, any poison
and any number of crashes:

| Theorem | States |
|---|---|
| `ReplayTypes` | `Spec => []TypeOK` |
| `HandlersSeeThePast` | `Spec => []SeesThePast` |
| `MarksFollowEffects` | `Spec => []MarkedIffPlayed` |
| `PlayLogsImplementsReplay` | `Spec => Implements` |

The invariant of the replay is `Frame(k, m, t)`: there are three places in
the log such that the events up to `k` are committed, those up to `m` are
marked, and the slice that was selected ends with `t`; `todo` is what is
between `m` and `t`, and only event `m + 1` may have effects without a mark.
`MarkedIffPlayed` alone is not inductive, since it does not say that the next
event to be played is the oldest that was not; that the selects of both phases
return a piece of the log without a hole is the heart of the proof.  From
`Frame` the committed tables are `Upto(k)` before and after every step, which is
the refinement of `Replay`.  The proof assumes `EventAssumption` and
`LogAssumption`.

`InspectProofs` proves, for any number of syllables, the word size that goes with it, any hash and any
histories of the points:

| Theorem | States |
|---|---|
| `NamesUndone` | `Spec => []ScrambleUndone` |
| `QueriesFindTheNamed` | `Spec => []NamesItself` |
| `DiffersWhereTheyDiffer` | `Spec => []ReportsTheDifferent` |

The argument about the scrambler is arithmetic.  Each half of a number stays below the
modulus of its round, so that adding the hash modulo it is undone by subtracting it; before the
last round is undone the halves have to be told apart again, which `Joined` and `Parted` do because a
right half of `Word - 1` is the one value that cannot be a low half.  The hash is whatever it
is, since both directions take it of the same half.

About the names: reading a name word by word (`NextWord`), a word is put below those before it
and nothing is shifted out of the 64 bits, as long as there are at most four; so the number's
digits are the words again, because the first word is not zero and the recursion of
`IntToPhonemeNonGalaxy` therefore does not end before it (`NameRead`).  That `Unscramble`
undoes `Scramble` is not enough: a name gives the scrambled number, so that it is
`Scramble` that has to undo `Unscramble`.  This is `ScrambleOnto`: `Scramble` maps the 32-bit
numbers one to one into themselves, and there are finitely many of them.  The invariant
`LookedUp` keeps the answer of the last query, while the tables go on.

About `diff_roller`: row by row, `SaysTheSame` compares the fields that are
compared, with their conditions, with all that a row says in them (the voting proxy and
`is_active` are not compared).  It needs what the schema and the
handlers allow in a row (`IsRow` in `HistoryAssumption`): the dominion is one of three, and two of
them have different names, and a requested escape is to a number and not to nothing.  The invariant `Asked` says that each row that was read is still to
be asked for, or was compared with the roller's row of that moment, or with an answer that had no result.

The proofs assume `WordAssumption`, `HalfAssumption`, `HashAssumption`, `HistoryAssumption` and
`InspectAssumption`.

`CatchUpProofs` proves, for any log and chain, any sizes of ranges and requests, any errors
of the node and any deaths:

| Theorem | States |
|---|---|
| `ScraperTypes` | `Spec => []TypeOK` |
| `RefetchesAtTheMark` | `Spec => []RefetchedAtTheMark` |
| `SkipsNothing` | `OwnTransactions => (Spec => []NothingSkipped)` |
| `EndsWithAllData` | `OwnTransactions => (Spec => EachLogHasData)` |
| `LeftBareForGood` | `Spec => InvalidForGood` |

The invariant has four parts and a fifth.  `Phases`: what is in memory in each phase.  `Advancing`: a
range begins at the watermark or above it, or, once the node was unavailable, all ranges of
this run are empty, because the batch size stays 0 or below; without the second case it is not inductive.
`AzimuthFetched`: the Azimuth events below the range are stored, those in it stored or held.
`BatchesHeld`: the batches that are to be asked for come after those that are asked for now, so that the
watermark, which follows each answer, overtakes none.  `BatchesFetched`: every
batch up to the height of this run has its data or is in one of the lists.  This last one needs the
hypothesis `OwnTransactions` (no two batches in one Ethereum transaction), which is explained
below; the first two theorems and the last do without it.  `LeftBareForGood` rests on
`Abandoned`: a batch without data that is in neither list of those to be asked for stays so,
because only a row that was new to the run gets into them.  The proofs assume
`EventAssumption` and `ChainAssumption`.

`NaiveBatchProofs` proves, for any widths of the fields, any transactions, any number of
leading zeros cut, and any other bytes:

| Theorem | States |
|---|---|
| `ParserTypes` | `Spec => []TypeOK` |
| `VerifiesWhatItPlays` | `Spec => []PlayedIsVerified` |
| `ParsesAsSent` | `Spec => []ParsedAsSent` |
| `ReadsAllOrNothing` | `Spec => []AllOrNothing` |

Of any bytes the invariant is `ReadOK`: each transaction that was read agrees with its raw
bytes, but for the last, if its arguments begin before the first byte.  Its step
(`RawLaid`) lays the fields at the positions where they were read and shows that put together again
they are those bytes.  Of a batch that was submitted it is `SentOK`: the parser is at the
end of the next transaction, counted in the batch before the cut, and has
returned those after it as they were sent (`Reading`), or it is at the end, either without the
opcode of the front one (`OpcodeLost`) or with a part of its signature only (`Dropped`).
That no more than the front transaction is missing follows from its signature's not being all
zeros, which `Tx` says: no key makes one with r or s zero (`FrontSigned`).  The concatenation of
any number of transactions is `FlattenSeq`, whose recursion is unfolded as is that of
`ReadArguments`.  The proofs assume `WidthAssumption` and `SendingsAssumption`.

`CommandsProofs` proves, for any log, chain, errors of the node, sizes and bounds, and
any deaths and kills:

| Theorem | States |
|---|---|
| `OneSchema` | `Spec => []SchemaOnce` |
| `PlaysWhatStays` | `Spec => []PlayedAsStored` |
| `CommandsKeepLifecycle` | `OwnTransactions => (Spec => KeepsLifecycle)` |

`SchemaOnce` rests on `MadeUpto(m)`: the statements that are executed are the first `m`,
a process that makes the schema is before the file, at its first statement, or at statement
`m + 1`, and only one is there.  So a second creator panics at its first statement, and
the first is never overtaken.

The other two rest on four invariants.  `OneWriter`: a command that is in the middle of
its work holds a DB, and only one of the two does.  `Fresh`: what `get_logs` still holds,
in memory or in a request, it stored itself and nobody has played; this is what lets
`SmuggleNaiveBatchDataIntoEvent` update a row without looking at `is_processed`.
`Played`: inside a transaction of `play_logs` what is marked has all its writes, and what is
not has none, but for the one event that is being played.  `Bare`: as long as no `get_logs`
has failed, every batch without data is one that the running `get_logs` is about to ask
for.  `RunWrites` reduces each step of the scraper to one of three writes; `StepOfData`
splits the steps of the whole system between the two commands.

The hypothesis `OwnTransactions` says that no two batches are in one Ethereum
transaction.  It is needed: of two in one, `LogOf` picks the later for the answers of both, and
the earlier stays bare without any failure.  `PlaysWhatStays` does without it.  The proofs
assume `EventAssumption`.

Only model-checked: the liveness properties `EverythingPlayed` and `GetLogsEnds`, and the
four claims that are violated.  Liveness under fairness and ENABLED are out of the
prover's reach.  Every invariant and every action property of the runs is proved.

Recursive definitions (the positions of the arguments in a batch, the digits of a name)
are functions and not operators.  The provers cannot use the library's induction
theorems, which take a predicate; `Least` replaces them: of the numbers for which
something fails there is a least one (`LeastOf`), and it does not fail for that one.  So it is proved
that a recursive function exists and what it computes at each number.

## Assumptions and abstractions

- The Azimuth contract is external.  What the model takes from it: a point's
  events come only after the point is announced; SPAWNED comes once per point, one
  rank below an L1 parent; a galaxy's first event is ACTIVATED, and each point
  is activated once; sponsors are known, and one rank up or, as Ecliptic's `canEscapeTo`
  allows a point that was never linked, of its own rank; life and rift grow by
  one with each event.  `Linked` are the points that had keys from the start; the
  others may escape to a peer whenever the model likes, which is more than the contract
  lets them.  It does not stop emitting events for deposited points,
  so the code's own guards are what isolates the layers.
- Cryptography is ideal: a signature verifies for one address and one nonce.
- Addresses and keys are model values.  The text, hex and hashes of messages
  and the data column of a diff are left out.
- The Ethereum node is external: the chain grows and is never reorganised, a range whose
  end is negative is an error (go-ethereum takes -1 to -4 for tags, which only a contract
  in the chain's first blocks could reach), an answer holds all events of its range up to the chain's height, or is an error.
  Of the errors, -32005 and -32603 are modelled by what the code makes of them, any
  other by the death of the process.
- The roller is external: its answer is an error, has no result, or is a point with well
  formed numbers and keys.  A field that cannot be parsed is printed as a mismatch by the
  code.
- SQLite's transactions are atomic and durable; a statement outside one is a
  transaction of its own, and so is each statement of the schema.
- `get_logs` and `play_logs` are not run at the same time, as the program's README
  runs them one after the other.  Commands that only read may run at any time.
- Nonces, life and rift are unbounded naturals in the theorems; the columns are
  64-bit SQLite integers that no chain will overflow.

## Not modelled

The cryptography, the key files and `store_key`, `sign` and `verify` around them
(libraries and one file, with no second actor), `show_logs` and `checkpoint` (they
print or copy what is there), the parsing of the command line, and the wording of
what is printed.

Migrations: `MIGRATIONS` is empty, so nothing of `UpgradeFromXToY` can run.
Of the scraper, the checks of `ParseEthereumLog`, which panic on logs that the contracts
do not emit.  `get_logs` or `play_logs` beside another of the two on one database file:
`is_processed` is not read again inside the transaction, so two replays at once would
play events twice, and a replay beside a `get_logs` would play batches before their
data.  Reorganisations of the chain: the code stores `block_hash` and never compares it.
The HTTP and database libraries' own timeouts.

## Plan

Done: the tables and both layers on them (`AzimuthPoints`, `AzimuthEvents`,
`NaiveEffects`, `Azimuth`), the replay engine and its refinement (`Replay`,
`PlayLogs`), the scraper (`CatchUp`), the opening of the database and both commands
together (`Database`, `Lifecycle`, `Commands`), the batch parser (`NaiveBatch`), the names
and the comparison with the roller (`Scrambler`, `Phonemes`, `RollerDiff`, `Inspect`), and a
proof of every invariant, action property and refinement that the runs check.

Next, in this order:

1. The theorems about `Azimuth` with the weakest form of `GalaxiesRegistered` that they
   need: who may spawn below a galaxy that is not there.
2. `Commands` without `OwnTransactions`: what exactly happens to the earlier of two
   batches in one transaction, as an invariant of its own.
3. `Commands` with the effects of `Azimuth` instead of counted writes: what a late
   Azimuth event does to the points.
