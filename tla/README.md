# Verification of chainlink-solana

TLA+ models of the parts of chainlink-solana whose correctness depends on
arithmetic at boundaries, on the order of on-chain instructions, on goroutines
that interleave, or on two programs in two languages meaning the same bytes.
TLC checks them on small instances; TLAPS proves the central invariants of
eight components for every size.

## 1. The system

| Component | State | Operations | What is hard | What makes it correct |
|---|---|---|---|---|
| Store program, feeds (`contracts/programs/store`) | header and one slot array split into a live and a historical ring | create_feed, insert (through submit), latest, fetch (through query) | cursor arithmetic over two wrapping rings for any live length, space and granularity | latest and fetch answer with what the right round inserted |
| Store program, account and access | owner, proposed owner, writer, flag, threshold | ownership transfer, set_writer, set_validator_config, lower_flag, submit, close_feed | authorisation over accounts that the caller names; a deviation test by integer division | nobody acts without a right, the flag tells of deviations |
| Access controller program | sorted list of addresses, owner | add and remove access, ownership | a bisection over a list that is changed in place, up to its capacity | has_access is membership |
| OCR2 program, proposals | proposal accounts: oracles, payees, f, off-chain config, state | create, propose_config, write_offchain_config, propose_payees, finalize, close | many instructions, any order, any number of authorities | only a valid, finalized proposal is accepted |
| OCR2 program, aggregator | oracle set, f, epoch and round, billing, vault | accept_proposal, transmit, set_billing, pay_oracles, withdraw_payment, withdraw_funds, payee transfer | debts computed lazily from round ids; saturation; oracles that leave and return | nobody is over- or underpaid, the vault covers the debts, f + 1 oracles stand behind an answer |
| Transaction manager, pending transactions (`pkg/solana/txm/pendingtx.go`) | four maps behind an RWMutex, metrics | New, Add, Remove, Expired, OnSuccess, OnError | every operation releases the read lock before it takes the write lock | the maps agree, one outcome per transaction |
| Transaction manager (`txm.go`) | two queues, the in-flight transactions | Enqueue, run, sendWithRetry, confirm, simulate, Close | six kinds of goroutine, retries, fee bumps, two timeouts, stale statuses | success is real, everything is resolved in the end, Close returns |
| Fee estimators (`pkg/solana/fees`) | the current price | CalculateFee, the block history, SetComputeUnitPrice and SetComputeUnitLimit | doubling that overflows a uint64; slices that copies of a transaction share | every copy carries its own price and the calls asked for |
| MultiNode, node life cycle (`client/multinode/node*.go`) | state, health-check subscriptions, chain info | five loops, transitions, verification | a loop overlaps with its successor; Close races redials | no illegal transition, no node without its loop |
| MultiNode, pool (`multi_node.go`, selectors) | active node | Start, SelectRPC, the lease loop, Close | counts of live nodes are stale when used | a pool with a working endpoint recovers, Close returns |
| MultiNode, transaction sender and send-only nodes | a wait group; one loop per send-only node | SendTransaction, verifyLoop, Close | the answer is returned while broadcasts run; unbuffered channels nobody may read any more; two contexts | the best answer collected is returned, everything ends |
| Caches of on-chain state (`client/cache.go`, `state_cache.go`, `transmissions_cache.go`) | last value and when it arrived | Start, Poll, Fetch, Read, Close | a feed is read in two requests; a value is dated when it arrives | no answer older than the time to live and the requests' time limits |
| Chain services (`pkg/solana/chain.go`) | client cache, verified chain IDs | getClient, the verified calls, transfers, LatestHead | clients are created without a lock; verifications overlap | one client per endpoint, none used unverified |
| Balance monitor (`monitor/balance.go`) | a cached reader | Start, updateBalances, Close | the reader it holds may fail for ever | it reports as long as an endpoint works |
| OCR2 providers: reports, digests, configuration | none | BuildReport, MedianFromReport, Transmit, OffchainConfigDigester, the config tracker | two languages, signed and unsigned widths, an unstable sort | the program reads what the oracles agreed on |
| Contract bindings (`contracts/generated`) and deployment client (`integration-tests/solclient`) | builders, transactions, a staged proposal | one builder and one decoder per instruction, account and type; Configure and the deployer's methods | slots, flags, widths, padding and sizes kept by hand in two places | an instruction Go lets through is the one the program takes |
| Monitoring (`pkg/monitoring`) | a cached price | the envelope source, ExtractEvents | events of nested programs and of failed transactions in one log | an envelope is of its feed |
| Chain reader, codec, configuration, gauntlet, test environment | none to speak of | conversions and wiring | | |

Interactions: OCR2's `transmit` writes a feed through the store program's
`submit`. The transmitter off chain enqueues transmit instructions in the
transaction manager, which asks a fee estimator for prices and sends through
an RPC client; with MultiNode enabled that client is chosen by the pool. Node
loops call back into the pool (`LatestChainInfo`) and the pool calls the
nodes' methods: these are the only shared-state cycles. The program
instructions are atomic (the runtime rolls a failed one back), so on-chain
concurrency is the order of instructions; off chain it is goroutines,
mutexes and channels.

`PROJECT.json` lists every component with its status, and under "hazards"
the places where things can go wrong, with the properties that cover them.

## 2. Modules

| Module | Models | State and actions against the code |
|---|---|---|
| `Feed` | store feed | one variable per header field, `slots` is the account data; `CreateLayout` is the layout part of create_feed, `insert`, `latest`, `fetch` keep their names. `submitted` is a history variable. |
| `StoreAccess` | the guards of the store, the access controller and the OCR2 program | the access lists as sorted sequences with their bisection (a recursive function on the number of elements left), the owners, the feed's header; one action per instruction, which succeeds. `granted`, `deviated` and `breach` are history variables. |
| `PendingTx` | abstract in-flight set | `owner` of every signature, `Track`, `Attach`, `Finish`: each operation atomic |
| `PendingTxContext` | pendingtx.go | the maps, and per goroutine the call between its two critical sections (`NewCheck`/`NewCommit` and so on); `Count` is the metrics wrapper |
| `Txm` | txm.go | extends `PendingTx`: the manager is modelled over the atomic operations that `PendingTxContext` is proved to implement. One action per step of each goroutine between blocking calls. `Answer` and `Cluster` are the RPC endpoint and the chain. |
| `Proposals` | OCR2 proposals | one action per instruction |
| `Aggregator` | OCR2 aggregator | extends `Proposals`; one action per instruction, `transmit` with its checks of the report and the signatures and what it credits. `earned`, `paid`, `answer` are history variables. |
| `NodeLifecycle` | node.go, node_fsm.go, node_lifecycle.go, multinode_client.go, poller.go | `state` per node, `loop` is its goroutine with a program counter, `leaving` counts former loops whose deferred calls have not run. `declare` is the family of declare and transition methods. |
| `MultiNode` | multi_node.go, selectors | extends `NodeLifecycle` with the active node, the lease loop and Close |
| `SendOnlyNode` | send_only_node*.go | the state, the check at the start and verifyLoop |
| `TransactionSender` | transaction_sender.go, DoAll | extends `SendOnlyNode`: one call, its broadcasts (`task`), the collector, the closer, the reporter; the caller's context, the pool's stop and Close at any moment |
| `Bindings` | the packages ocr_2, store and access_controller under contracts/generated | one definition per instruction file: parameters in encoding order, accounts in slot order with their flags; validation, encoding and decoding once for all |
| `Contexts` | context.rs and the Accounts structs of the three programs | one definition per struct: type and flags of each account, and the key or mint that another account of the context must record (`where`); the dispatch by discriminator |
| `SolClient` | integration-tests/solclient and the transmitter | one definition per method: the constructor, the keys in the order passed with what the method means each for (`as`) and what its account holds, the signers |
| `Wire` | | composes the three: a caller or a client fills a builder, the package encodes it, the transaction is signed, the program dispatches and checks. `ProgramTakesIt`: nothing is refused for types, flags, signers or recorded keys; `SlotsAsMeant`: slot by slot the account and the argument are the ones that the context names, which also tells apart those that no constraint does |
| `Layout` | Rust structs, generated types, hand-written decoders, account sizes | a struct is its leaves with offsets (repr(C) or Borsh); a decoder walks them field by field |
| `Reports` | report.go, transmitter.go, transmit_impl's parsing | bytes of a report from observations to what the program reads |
| `Digests` | config_digester.go, config_tracker.go, ocr2.go's Configure, the digests of the OCR2 program | the staged proposal with chunks and failing transactions; a digest is the sequence of what is hashed |
| `Envelope` | source_envelope.go, event/decode.go | transactions whose programs call each other and log, the parser's stack, the source's three reads |
| `Caches` | cache.go, state_cache.go, transmissions_cache.go | a clock, one goroutine per cache, a getter of one or two requests |
| `Chain` | chain.go, client.go, balance.go, the transfers | callers with a program counter, the locks, endpoints that fail and change chain |
| `Fees` | computebudget.go, block_history.go, utils.go, the building of copies in txm.go | a heap of arrays behind slices; the price arithmetic modulo its width |
| `StoreProofs`, `AggregatorProofs`, `PendingTxContextProofs`, `TxmProofs`, `MultiNodeProofs`, `TransactionSenderProofs`, `ServicesProofs`, `WireProofs` | | theorems about the modules each extends: `StoreProofs` about `Feed` and `StoreAccess`, `ServicesProofs` about `Chain`, `Caches` and `Fees`, `WireProofs` about `Envelope`, `Reports` and `Digests`, the others about the module they are named after |
| `MC*` | | values for the constants. `MCStore`, `MCServices` and `MCWire` put modules that share no state side by side: a behaviour is one of one part. |

Operators named as mutants (their comment says of what) are variants with a
plausible bug; no specification uses them. Each property of a passing run is
violated when its mutant takes the place of the original.

What is abstracted:
* a transmission, a payload and a signature are model values; a signature is a
  function of payload and fee, which is what makes bumps past the maximum fee
  share one;
* an error of SendTx means that nothing was broadcast; timers and timeouts
  fire at any moment after they are armed, except in `Caches`, which is about
  ages and has a clock;
* in `Aggregator` the config digest hashes `config_count`, so the count stands
  for it (what is hashed is in `Digests`); the destination of a payment
  (payee, or receiver when the payee's account is closed) does not matter to
  the debt; callers are authorised (who is, is in `StoreAccess`);
* in `StoreAccess` there is one feed, and of its rounds only the latest
  answer; instructions that fail leave no trace;
* in `Bindings` a discriminator is its name. The hard-coded bytes were compared
  with the SHA-256 of the names, and the orders of setters, `New...`, Validate
  and Marshal with each other, once for all files of the three packages;
* in `Reports` numbers fit three bytes and the rest is sign; in `Digests` a
  key is one number; in `Fees` a byte has 4 values and a price two of them;
* in `TransactionSender` a primary node is alive or not at its visit;
* heads and finalized heads of a node are one subscription;
  `LatestChainInfo` and `Select` read all nodes in one step;
  `EnforceRepeatableRead` is off; the first of equal nodes is any of them.
  On Solana, Dial never fails and IsSyncing is always false; the multinode
  package handles both, and the model has both.

## 3. Runs

| Run | Instance | Shows |
|---|---|---|
| store | every layout of 0 to 5 slots, granularity 1 to 3, ten rounds; beside it, without rounds, 2 keys, 2 controllers of capacity 2, one open ownership proposal; and five answers, two thresholds and a u128 of 7 over a store that stays as it is | `LatestIsLastSubmitted`, `LiveWindowExact`, `HistoricalRoundsDown`, `EvictedNotFound`: ten rounds wrap every live ring, and every historical ring except the longest at granularity 3; the proofs cover any number. `AccessListIsTheSet` up to the full list, `NoBreach`, `OwnershipKept`, `FlagTracksDeviation` with answers whose change overflows the comparison. |
| pending_tx | 3 ids, 3 signatures, 2 goroutines | `TypeOK`, `MapsAgree`, `OneOutcome`, `ImplementsPendingTx`. Two goroutines are enough for every interleaving of two critical sections; the proof covers any number. |
| txm | 1 job, 2 fee levels, 1 bump, 1 rebroadcast at a time, queues of 1, batches of 2 | `SuccessIsConfirmed`, `SuccessfulFirstInBatch`; under fairness `EventuallyResolved`, `RetryEnds`, `CloseCompletes` |
| txm_untracked | as txm | violated: a bumped copy that a later retry broadcasts is not tracked |
| ocr2 | one proposal account, 7 signers in lists that overlap and lists that are invalid, f of 1 and 2, up to 2 configurations, 2 faulty signers; either u64 of 9 and 18 tokens, or 2 authorities, payees of two mints and one that hands over | `AccountsBalance`, `StaysSolvent`: the amounts saturate and the vault runs dry. `ActiveConfigValid`. `AnswerEndorsed`: the list of seven, with f = 2, has both faulty signers and two signatures do not suffice; with f = 1 two faulty signers are more than the protocol tolerates, and nothing is claimed. |
| pool | 2 nodes; either finality tag, syncing check and lease on, or blocks 0 to 2 with threshold 1 and priority selection | `StateMachineNeverPanics`, `AlwaysWatched`, also with nodes that lag and catch up. Two is the least block range in which a node is more than one behind. |
| pool_live | 2 nodes, one of which answers | `PoolRecovers`, `PoolCloseCompletes` under fairness |
| pool_lease | as pool, without finality and syncing | violated: checkLease uses a nil best node |
| sender | 2 primary nodes, 1 send-only node; a success, a retryable and a severe error | `AnswerIsBestCollected`; under fairness `SenderDrains`, `SendOnlyRecovers`. Two primaries give every order of two answers; the third goroutine is the send-only node's. |
| services | the transmissions cache with a live ring of 2 and 3 transmissions (the ring wraps); 2 endpoints, one reliable, one other caller, 2 accounts | under fairness `CachesCatchUp`, `MonitorServes` |
| wire | 8 parts: every instruction of the three packages and 14 client methods; 16 decoders; 4 observers, one faulty; configurations of up to 5 bytes in chunks of 2 and accounts of 4; 2 transactions of 5 log lines, 2 programs deep; both caches; 2 endpoints with and without MultiNode; 5 bumps of a price below 16 | `InstructionsAgree`, `LayoutsAgree`, `ReportSurvives`, `MedianIsHonest`, `ConfiguredAsGiven`, `EnvelopeIsOfTheFeed`, `FreshReads`, `OneClientPerURL`, `VerifiedBeforeUse`, `BumpedAsConfigured`. Five bumps overflow the doubling; five bytes fill the account past its capacity; deadlock is checked. Two exceptions are stated in the properties: SetBilling of the client is refused, and its AccessController decodes 32 addresses of 64. |
| monitor_reader | services' chain with MultiNode | violated: the balance monitor calls a nil client |

The largest run is wire (4.0 million states). `pool`
uses the symmetry of the nodes, which have equal priority there, and `store`
that of the controllers; the liveness runs use none. A run says
CHECK_DEADLOCK FALSE where the system may end: a full feed, a closed pool,
a manager whose jobs are done.

Fairness, `Txm`: goroutines keep running and RPC calls return (they have
timeouts), hence weak fairness of their steps; the endpoint asked for
statuses answers in the end when asked again and again, hence strong
fairness of `ConfirmFetch`; confirm timeouts elapse. Nothing is assumed of
the cluster, of Enqueue or of simulation. Without an endpoint that answers
nothing expires (txm.go:459), as the code has it.

Fairness, `MultiNode`: weak fairness of the straight-line steps of every loop,
of the zombie check, of reacting to an ended subscription and of deferred
calls; strong fairness of `Stop`, because a loop that comes back to its select
with its context done takes that branch (the other branch is a timer that was
only just armed); for a healthy node strong fairness of the answer "alive" and
of a successful subscription. No head need ever arrive.

Fairness, `TransactionSender`: weak fairness of every goroutine; a send-only
endpoint asked again and again names its chain in the end. Nothing of the soft
timer or the caller's context.

Fairness, `Caches`: time passes; a select with two ready cases takes each in
the end (Go chooses at random); an endpoint answers within its limit now and
then. `Chain`: requests end; a lock is handed on (sync.RWMutex does not
starve); the random permutation of getClient starts with each reliable
endpoint now and then; the endpoints in `Reliable` answer.

## 4. Proofs

Every theorem is about the specification that the runs check, for all values
of the constants that the named ASSUMEs allow. These are types of the
constants and distinctness of names, and a few facts of the deployment: a
sender has a primary node (`SenderAssumption`), total difficulty is not used
with a sync threshold (`PoolAssumption`), the expected chain ID is not empty
(`ChainAssumption`), and a report has room for every oracle's id
(`ReportsAssumption`: at most MAX_ORACLES, 19). TLC
evaluates them on the runs of their modules. The inductive invariants were
checked with TLC on the instances of the runs before they were proved.

`StoreProofs`, of feeds: `FeedTypeCorrect`, `LatestCorrect`, `LiveWindowCorrect`,
`HistoricalRangeCorrect`, `EvictedCorrect`, for every space, live length,
granularity and number of rounds, from `FeedAssumption` only (the bounds are
naturals). None of the properties is inductive: they speak of what fetch
computes, not of the whole array. The inductive invariant `FeedInv` adds that
the round id counts the submissions (`RoundsCounted`), that walking back from
the live cursor gives the last rounds in order (`LiveRing`), and the same for
the recorded rounds (`HistoricalRing`). The arithmetic rests on lemmas on
quotients and remainders (`ModStep`, `BackStep`, `EndStep`, `RoundedDown`),
since no prover here reasons about `%` by a variable.

`StoreProofs`, of rights, for any keys, controllers, answers and thresholds, from
`StoreAssumption` (nobody signs for the zero key; answers are integers,
thresholds naturals):
* `OwnershipAlwaysKept` needs that whoever is proposed can sign or is the zero
  key (`OwnershipInv`), since acceptance copies the proposal.
* `FlagAlwaysTracks` rests on `ValidIsWithin`: the quotient that is_valid
  rounds down is at most the threshold exactly when the change is less than
  threshold + 1 parts.
* `AccessListExact` and `RightsRespected`: `RightsInv` says that every access
  list is sorted without duplicates and that its elements are the keys with
  access. The search is a recursion, so what it answers is proved by a least
  counterexample: `BisectExists` gives the recursive function for every
  length, `BisectFinds` says that if everything left of the range is smaller
  and everything right of it larger than the key, the search finds the key or
  the place where it belongs. `InsertedFits` and `RemovedFits` then say what
  add_access and remove_access make of a list. Both theorems hold for any
  capacity, which only forbids additions.

`AggregatorProofs`: `ConfigStaysValid`, `BooksBalance`, `MedianEndorsed`, for
any oracle lists, payees, prices, word sizes and numbers of rounds. `ConfigInv`
follows the oracle set from propose_config to the aggregator: every proposal,
not just a finalized one, has a valid size and own transmitters and the payees
it has are of its mint (`ProposalsFit`), and what was accepted still is, with
any payeeship under way (`ConfigFits`). `BooksInv` adds that no oracle counts
its rounds from a future one (`NoFutureRounds`), without which a debt computed
lazily would be negative, and the two properties themselves. `MedianEndorsed`
assumes nothing of the faulty signers. The fault model of OCR is in the property,
as a condition on the state before the transmission (`Tolerated`): at most f of
the oracles in force are faulty, with the f in force. Then f + 1 distinct signers
of the set include one that is not.

`VaultStaysSolvent` is an action property: no step but a transmission makes a
vault that covers the debts cover them no longer. The debts of all oracles are
a sum over a set, which the community modules define by a recursion, so its
lemmas come first: the sum exists and does not depend on the order (`TableExists`,
`TablesAgree`, by a smallest counterexample), and how it changes with one of its
terms, with its set, and with a common factor (`SumStep`, `SumRemove`,
`SumSame`, `SumLinear`). The heart is `LinkDueIsOwed`: what withdraw_funds holds
back, the rounds not yet settled times the price plus the reimbursements, is
the sum of what owed_payment would give each oracle. `SolventStep` then goes
through the instructions that move tokens or change the price or the oracles;
those that change the last two settle all debts first.

`PendingTxContextProofs`: `ContextTypeCorrect`, `MapsAlwaysAgree`,
`CountedOnce` and the refinement `ContextRefinement`, for any number of
goroutines, transactions and signatures. `ContextInv` adds to the properties
that an id that was removed never comes back (`RemovedForGood`) and that at
most one goroutine is about to count an id (`CountersExclusive`); without
them the second critical section of a slow goroutine could count again.

`TxmProofs`, for any number of jobs, fees, bumps, rebroadcasts and batches:
* `SuccessConfirmed`. `TxmInv` adds that a signature is tracked, or about to
  be, only for a job that has broadcast it (`OwnersHaveSent`), that only
  transactions in flight own signatures (`OwnersInFlight`), and that a batch
  knows of no success that is not on chain (`BatchesTrue`).
* `OneReport`: of the goroutines that race for a transaction one reports, and
  what it reported never changes. This is an action property, proved from
  `TxmInv`.
* `SuccessfulFirstWithinBatch`: whatever goes on in other batches, a batch
  treats a success it knows of before its failures. This is all the code has:
  batches are not sorted against each other, so a failure in one may win over a
  success that another has fetched. The run has one batch at a time, the theorem
  any number of concurrent ones.
* `UsesPendingTx`: every step of the manager is a step of `PendingTx` or
  leaves its variables alone. With `ContextRefinement` this joins txm.go to
  pendingtx.go: the manager relies on the atomic operations, and the locked
  maps provide them.

`MultiNodeProofs`: `NeverPanics` and `Watched`, for any number of nodes, any
configuration, selector and block numbers. `PoolInv` gives, for every program
counter of every loop, the states that the loop may find: the one it goes with
or Closed, because Close sets it at any moment. A loop about to declare a
state has a transition to it (`DeclareFits`), and out-of-sync loops have an
issue (`IssuesFit`).

`TransactionSenderProofs`: `BestAnswer` and `NoFalseAlarm`, for any nodes and
answers. `SenderInv` adds that the collector does not go on after a success
(`CollectorWaits`), so neither the soft timeout nor a context can hide one,
and that the reporter sees only what was collected
(`ReportedAfterCollected`).

`ServicesProofs`, of the chain: `OneClient` and `Verified`, for any number of endpoints,
callers and calls, with and without MultiNode, from `ChainAssumption` (names
are distinct, and the expected chain ID is not empty). `ChainInv` ties the
client of every caller, by its program counter, to the cache and to the
confirmed ones (`CallerFits`); a cached client is of its endpoint
(`CacheByEndpoint`), and a client that counts as verified was confirmed at
some time (`VerifiedWereConfirmed`), although a failing verification may have
cleared it since.

`ServicesProofs`, of the caches: `ReadsAreFresh`, for any live ring, time to
live, limit of a request, and number of changes on chain, for a provider with
both caches and from `CachesAssumption` (types). A cache dates its value when
the value arrives, so the property is not inductive. `CachesInv` orders the ages
of what was on chain (`AgesOrdered`: what was replaced earlier is older), and
says of every request what it has brought so far (`Fits`): a state or a header
no older than the request, and a slot of the ring no older than the request for
the header before it. Between the two the verified client makes sure of the chain
again, for as long as `VerifyDelay`, another term of the bound (`HeaderAge`). The slot is read after the header, when the cursor may
have moved on or gone round the ring; `SlotIsLater` shows that what stands there
is never older than what the header pointed to.

`ServicesProofs`, of the fees: `BumpsAreConfigured`, for any number of values of
a byte and bytes of a price, any blocks, jobs and number of bumps, from
`FeesAssumption` (the limits are prices; a transaction that is enqueued is
compiled and comes without compute budget instructions) and for limits in order:
the fixed price estimator refuses others, nothing else checks them, and with
limits out of order CalculateFee is outside one of them. The numbers are
recursive functions, which exist and are unique up to any bound (`UpToExists`,
`UpToAgree`, `BoundedRecursion`), so that induction over the naturals
(`EveryNatural`) reaches them: what parse reads is what encode wrote (`RoundTrip`),
and CalculateFee, which stops at an overflow, is the base doubled and cut to the
limits (`FeeIs`). A slice holds a sequence if its array starts with it
(`InSlice`); append writes behind a slice or moves it (`AppendedYields`) and
leaves alone what another slice holds, unless that reaches the place that is
written and has something else there (`AppendedKeeps`, `Harmless`). `FeesInv`
says of the transaction of the job and of every copy what its slices hold, and
that no copy has its instructions in the array of the keys. The keys of the
copies may share an array: what is written behind them is the same program
every time. The signatures of a transaction start as a nil slice, so that the
append of each copy allocates; what a signature is over (`signed`) is the message
as it was when the key store was asked, and the property says that it is still
the message of its copy.

`WireProofs`, of the events: `EnvelopeOfTheFeed`, for any programs, depth and
length of logs. The parser and the list of the feed's own prices are recursions
over the log, one line at a time: `OneMoreLine` says how both change with a line
(on `TakesExists`, `TakesAgree` and `AfterStep`, by least counterexamples).
`Parsing` is the invariant of the log being written: the parser's stack is the
runtime's stack of calls, and the events it has put out are among the feed's own
prices; it holds after every line of the runtime (`ParsingInvoke`,
`ParsingLog`, `ParsingSuccess`, `ParsingFailure`). `EnvelopeInv` adds the
transactions of the past (`TxsOfTheFeed`), the cached price, and what the source
has read so far (`ReadOfTheFeed`).

`WireProofs`, of the reports: `ReportsSurvive` and `MedianStaysHonest`, for any
oracles, observations and epochs of the width the model has, from
`ReportsAssumption`. What the program has read is compared with what went in: the
digest, the epoch, the round, the hash of the context and each signature in its
place with what the transmitter was given (`transmitted`), and timestamp, median
and juels per coin each with an upper median of that field of the observations
(`IsUpperMedian`, a statement by counting that knows nothing of sorting or of
bytes). `Survives` follows one report through BuildReport, the
transmitter and transmit_impl. Under it are the numbers (`Serialized`,
`ReadSigned`, `ReadUnsigned`: what is written in w bytes is read back, sign
included), where things stand in the bytes (`ReportParts`, `ContextParts`,
`DataIs`, `ReceivedParts`), and the medians: an order exists for every finite set
of observations (`ListExists`), and with more than twice as many observations
as faulty oracles some correct one stands at or before the middle and some at or
after it (`Outsider`, by the pigeonhole principle; `MiddleIsHonest`).
`ReportsInv` says that data under way was sent of the observations the leader
has, and what was read is what the program makes of such data.

`WireProofs`, of the configurations: `ConfigurationsAgree`, for any
configurations of the type that Configure takes (`DigestsAssumption`), any range
of answers, size of chunk and capacity. That a configuration has at most 19
oracles is the program's guard, not an assumption. The digests are flattenings of lists cut
differently in Go and in Rust. `FlattenSeq` of the community modules is a
recursive function on the number of parts; `FlatJoins` states what it does with one
part more, `Flattens` that it does so for parts of any number (again by least
counterexamples), `FlattenConcat` that it takes concatenations to
concatenations. From these follow the rows of
oracles, by induction on their number (`OneMoreOracle`, `CellsAreRows`), the sign
extension of an i128 to 24 bytes (`SignExtendIs`), `SameProposalDigest`,
`SameConfigDigest`, and that the chunks join to what was cut (`ChunksJoin`). The
inductive invariant `DigestsInv` says that what the proposal holds followed by
the chunks still to write is the off-chain config given, that the keys staged
are the ones given in some order, and that a state with a configuration carries
its digest. The first of these holds while no transaction was confirmed as failed
(`ignored`): TXSync returns no error then and Configure goes on. A step that was
needed stops a later one, so the oracles, f and the version are as given even
then (`OraclesAsGiven`); only a chunk of the offchain configuration can be missing
unnoticed, since makeDigest digests what the proposal holds.

Only model-checked:
* liveness (`EventuallyResolved`, `RetryEnds`, `CloseCompletes`,
  `PoolRecovers`, `PoolCloseCompletes`, `SenderDrains`, `SendOnlyRecovers`,
  `CachesCatchUp`, `MonitorServes`), which is out of the prover's reach;
* `InstructionsAgree` and `LayoutsAgree` of `MCWire`: they are finite, and TLC
  goes through all cases.

## 5. Disagreements between the code and its text

* `txm/txm.go`: a bumped copy may be broadcast and never tracked (run
  txm_untracked).
* `multinode/multi_node.go`: checkLease calls a method of a nil node (run
  pool_lease).
* `monitor/balance.go`: after a failed selection with MultiNode the monitor
  keeps a nil client and calls it (run monitor_reader).

Met while modelling, with the behaviour in the models and no run of its own.
On chain:
* fetch of a round below the first recorded one answers with an unwritten
  slot (store/src/state.rs:155; its unit test accepts this), and underflows on
  a feed without historical slots (state.rs:185);
* add_access on a full list refuses a key that is already on it;
* accept_proposal does not reset the epoch and round of the last report;
* with payees that several oracles share, withdraw_payment pays the first.

Transactions and nodes:
* statuses in different batches are not sorted against each other; Expired and
  OnError are two lookups and may see different owners of a signature
  (txm.go:405); when a bump cannot be built the retry goroutine returns
  without waiting for its rebroadcasts (txm.go:282), and the goroutine behind
  sigs.Wait stays if the bump's send failed (txm.go:322);
* a node loop's deferred cleanup may end its successor's subscription; two
  nodes that count each other as alive may both leave the pool
  (`PoolRecovers` shows that it comes back); a redial may overwrite Closed;
  the poller's context lacks the health-check flag, so its heads count as
  user observations (multinode_client.go:189); TotalDifficulty with a sync
  threshold compares a value that no Solana head has (node_lifecycle.go:374);
* SendTransaction returns no result and no error when the pool stops in the
  middle of it; the reporter misses contradictions among answers that come
  after the return, whose contexts are cancelled; classifySendError has one
  outcome.

Services:
* verifyChainID does not look again after taking the write lock, so a failing
  verification undoes one that succeeded meanwhile; an endpoint that changes
  its chain after it was verified is not noticed; GetLatestBlock is not
  wrapped, although the comment at chain.go:436 lists what is; LatestHead
  drops GetLatestBlock's error (chain.go:310); the sum in
  solanaValidateBalance may overflow (chain.go:590); requests that differ only
  in commitment or slot share a singleflight key (client.go);
* ExtractEvents fails on an event logged before any invocation; the envelope's
  price may come from an older transaction than its answer;
* TXSync of the deployment client does not look at the transaction's own
  error, queueTX does: with it Configure may report a configuration as done of
  which a chunk is missing (`Outcomes` of `Digests`); its SetBilling passes the
  owner in the place of the access controller and the controller in the place of
  the token receiver (solclient/ocr2.go:118), and the program refuses it
  (`ProgramTakesIt` of `Wire`); one hand-written AccessController type has 32
  addresses where the program has 64 (types.go:129), so that what follows the
  addresses is read from the wrong place (`LayoutsAgree`).

## 6. Not modelled, and the plan

Left out, with the reason:
* chain reader: a lookup table filled before use, then translation of values
  by codecs; codec: translation of IDL types into codecs of a library;
  configuration: parsing, merging and defaults. None keeps state, and what
  they compute is layout of data in reflection.
* relay wiring, the other monitoring sources, the link balance source: they
  read one value and pass it on.
* gauntlet and the test environment: command lines, containers and files; the
  instructions gauntlet builds are those of `Bindings`.
* the store's query instruction: it writes nothing; what it answers is `latest`
  and `fetch` of `Feed` and the layout of Round.
* EncodeToTree of the bindings, metrics and logs: output only.

Left to do, in this order:
1. `EnforceRepeatableRead` and the user observations of the RPC client; the
   poller's timer and the backoff.
2. The transmitter over `Txm`; several feeds under one store.

Abstract specifications worth stating: an append-only list of rounds that
`Feed` shows a window of; a pool that always answers with a live node when
there is one, for `MultiNode`.

Theorems worth proving next are those of the abstract specifications above; of
the safety invariants that the runs check only the two finite ones have no
theorem. Induction over data needs no operator parameter: take the least
counterexample of a set of naturals, as `BisectExists` and `BisectFinds` of
`StoreProofs` do, or put what is to be shown into a set (`EveryNatural` of
`ServicesProofs`), or take the smallest of a collection of finite sets
(`Smallest` of `WireProofs`).
