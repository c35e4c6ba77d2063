# Verification of the Perun Solana backend

TLA+ models, model-checking runs and machine-checked proofs for the Go backend that connects
go-perun payment channels to the Perun program on Solana. Paths below are relative to the
repository (`src/`).

## 1. The system

| Component | State | Operations | Talks to |
|---|---|---|---|
| `Funder` (`channel/funder/funder.go`) | none but the local variables of a running `Fund`: loop counters, the context; configuration `maxIters`, `assetAddrs` | `Fund`, `fundParty`, `openChannel`, `FundChannel`, `AbortChannel`, `needFunding`, `containsAllAssets` | calls `ContractBackend` (Open, Fund, Abort, GetChannelInfo, GetBalance) and `encoding` |
| `ContractBackend` (`client/client.go`, `client/contractbackend.go`) | `cbMutex`, the signer | `Open`, `Fund`, `InvokeSignedTx`, `InvokeAndConfirmSignedTx`, `GetChannelInfo`, `GetBalance`; `Abort`, `Dispute`, `Close`, `ForceClose` do nothing | the RPC node and its websocket, `TxSender` |
| `TxSender` (`client/buildtx.go`) | `rpcClient`, made on first use | `SendTx`, `SendAndConfirmTx`, `SetRPCClient`, `GetRPCClient` | solana-go |
| Instructions (`client/instructions.go`, `encoding/perun_instructions.go`) | none | `NewOpenInstruction`, `NewFundInstruction`, `ChannelPDA` | `encoding` |
| Encoding (`encoding/perun_types.go`, `encoding/multi_types.go`) | none (random keys for foreign assets) | `MakeParams`, `MakeChannelState`, `MakeBalances`, `MakeTokens`, ... | assets, participants |
| Assets (`channel/asset.go`, `channel/ethasset.go`) | none | constructors, `Equal`, binary codecs | |
| Channel backend (`channel/backend.go`, `channel/ethbackend.go`) | none | `CalcID`, `Sign`, `Verify` over the Ethereum ABI encoding | |
| Wallet (`wallet/`) | `EphemeralWallet.accounts` behind a mutex | `Unlock`, `AddAccount`, `AddNewAccount`; accounts sign, `VerifySignature` | |
| Adjudicator (`channel/adjudicator/`) | none | stubs | |
| Perun program (another repository) | the channel account: state, parameters, `Control.FundedA/B` | Open, Fund | |

The core logic is the funding protocol. The two parties of a channel run `Fund` in different
processes. They never talk to each other: all coordination goes through the channel account,
which each polls every four seconds, at most 30 times per loop. Party A opens the channel.
Each party deposits its share, and each waits until both flags of the account are up. Every
transaction of a signer passes one mutex, which is held until the transaction is confirmed.

What makes it hard:

* **Concurrency.** Poll and deposit are separate RPC calls; between them the other party
  opens, deposits or ends. Calls of one signer queue for `cbMutex`, and what they fetched
  before (the blockhash) ages in the queue.
* **Failure.** An error of a confirmation says nothing about the transaction. A process may
  crash between any two steps and nothing is persisted; an application that calls `Fund`
  again starts from the beginning.
* **Termination.** Iterations are bounded, contexts end, confirmations time out, but one loop
  (the wait for a balance, `funder.go:146`) is unbounded.
* **Data.** Balances are indexed by asset first; amounts must fit in a `uint64`; assets of
  other chains get a random Solana address at each encoding. A state has two forms, the signed
  one (Ethereum ABI) and the one on chain (Borsh), made by different code.

What makes each component correct:

* *Funder*: a share is taken at most once and only in an open channel; a success is justified
  and leaves nothing in flight; a call ends; if nothing fails, what is owed is deposited.
* *ContractBackend*: one transaction of the signer at a time; nil means executed; nothing is
  sent after the return; every call returns; a blockhash is used while it is valid.
* *TxSender*: a submission finds a client.
* *Encoding*: what goes on chain is the allocation, for both parties and every asset.
* *Channel backend, assets*: a signature that a peer accepts binds all that is put on chain; a
  channel that can be opened can be signed; an asset survives its codec.
* *Wallet*: an account once added is found, and never replaced; every call takes effect at one
  moment.

## 2. The modules

```
 Assets <-- Encoding <-- FundingChecks <-+        +-- FundingRefinement <-- MCFunder <--+
                                         +-- Funder <-- Node (INSTANCE ContractBackend) <-- MCNode
 PerunProgram <--------------------------+        +-- FunderProofs <-- RefinementProofs, PanicProofs
 Node, RefinementProofs <-- NodeProofs (INSTANCE QueueProofs)
 Encoding <-- Signing <-+
                        +-- Agreement <-- MCEncoding, AgreementProofs
 FundingChecks <--------+
 ContractBackend (INSTANCE TxSubmission)  <-- MCContractBackend, BackendProofs <-- QueueProofs
 Wallet          (INSTANCE AccountRegistry) <-- MCWallet, WalletProofs
```
(`A <-- B`: B extends A. `FundingRefinement` instantiates `ChannelFunding`.)

| Module | Models |
|---|---|
| `Assets` | the asset types and their binary forms |
| `Encoding` | package `encoding` as operators: an allocation, parameters and a state go in; `Fail` or `Ok(value)` comes out |
| `FundingChecks` | the pure decisions of the funder: `needFunding` as it is called, `containsAllAssets`, the checks of `FundChannel` |
| `Signing` | `CalcID`, `ToEthState`, the ABI forms, `Sign`, `Verify`, the codecs of participant and signature |
| `Agreement` | one state on its way: signed from one copy, verified against another, encoded for Open and in `FundChannel` |
| `PerunProgram` | external: the channel account and the effect of Open and Fund on it, at commitment "finalized" |
| `Funder` | `Fund` of both parties, against one account |
| `ChannelFunding` | abstract: what `Fund` promises, without transactions, polls or processes |
| `FundingRefinement` | the mapping from `Funder` to `ChannelFunding` |
| `ContractBackend` | concurrent calls on one signer, with `cbMutex`, the `TxSender`, blockhash age and confirmation timeout |
| `TxSubmission` | abstract: what a caller of `ContractBackend` may rely on; `Funder` relies on exactly this |
| `Node` | one party's `Fund` on top of a `ContractBackend` that other goroutines use too, and the peer |
| `Wallet` | goroutines that share an `EphemeralWallet` |
| `AccountRegistry` | abstract: what the wallet promises to them |
| `FunderProofs`, `PanicProofs`, `RefinementProofs`, `BackendProofs`, `QueueProofs`, `NodeProofs`, `AgreementProofs`, `WalletProofs` | theorems and their proofs |
| `MCEncoding`, `MCFunder`, `MCContractBackend`, `MCNode`, `MCWallet` | instances for TLC |

### Funder

`pc[p]` is where the `Fund` of party `p` waits, `iter[p]` the counter of the loop it is in,
`ret[p]` what it returned, `tx[p]` the transaction it waits for.

| `pc` | In the code |
|---|---|
| `open`, `openWait` | `openChannel`, before and after the submission (`funder.go:65-70`, `client.go:32-58`) |
| `pollOpen` | the loop of `Fund` (71-95) |
| `fundLoop` | the loop of `fundParty` (103-211) |
| `fund`, `fundWait` | `FundChannel`, before and after the submission (134, 178; `client.go:64-90`) |
| `balance` | party A's wait for a balance (145-155) |
| `returned`, `panicked`, `crashed` | the call is over |

A step of the model is the code between two RPC calls. A poll is one step: `GetChannelInfo`
and the branch taken on its answer read no other shared state. `lateOpen` and `lateFund` count
the transactions that nobody waits for any more: `ConfirmFails` and `Crash` put them there,
`SettleLateOpen` and `SettleLateFund` execute or expire them. The polling interval is not
modelled: a poll may come at any time. `Cancel` is the end of the context, `Crash` the end of
the process, `Call` a first or repeated call of `Fund`; the constant `Faults` says which
faults happen, and `RetryInFlight` whether the application calls again while a transaction of
its own is in flight. `deposits` is a history variable: how often the program took a share.

Assumed of the program: Open succeeds once; Fund needs an account and raises the flag of its
party. Whether it refuses a party that has deposited is the constant `RejectsRefund`, since
its code is elsewhere: the runs and theorems say which of the two they need. It may mark
parties that owe nothing as funded when it opens the channel.

### ContractBackend

One call is one goroutine: `Begin` (the RPC client and the request for a blockhash),
`Prepared`, `Lock`, `Connected`, `Sent`, `Notified` are the successes; `PrepareFails`,
`ConnectFails`, `NotSent`, `SentUnanswered`, `TimedOut`, `WatchFails` the failures. Every return goes
through `End`, which runs the deferred `Unlock`. `age[c]` is the age of the blockhash of call
`c` in blocks, `waited[c]` how long it has waited for its confirmation. `Tick` lets a block
pass only when no call can do something that takes no time: an RPC round trip (tens of
milliseconds) is less than a block (400 ms), and the model counts it as zero. Calls in
`Unconfirmed` are those of `InvokeSignedTx`, which takes a finished transaction and does not
wait. `SetRPCClient` may happen at any time. The websocket is always one of `Local`, as in
line 151.

### Node

`Funder` sees the backend as an error with nothing sent, or a transaction in flight whose fate
comes later. `Node` replaces this, for one party, by a whole `ContractBackend`: the variables
`b...` are those of the instance `B`. Each step of `Node` is a step of one of the two, or of
both where they meet: the sending of a transaction (`BackendSends`), the return of a call
(`BackendReturns`), the execution of a transaction (`AwaitedFinalized`, `LateFinalized`) and a
poll, which uses the client of the `TxSender`. The context of a backend call is the context of
the `Fund` that makes it. `Others` are goroutines that open or fund other channels through the
same backend. The peer is the one of `Funder`, since its node is another process; its context
does not end here. `SetRPCClient` is not a step of `Node`: which networks a transaction may
reach is the question of `backend`.

### Assets, Encoding, Signing, Agreement

Strings, keys and bytes are values of small sets. An asset is a record of the things the code
tests: its Go type, whether its ledger ID is missing, not a number, or a number, `IsSOL` and
`Mint`, the length of an Ethereum address. `Base58` says which ledger IDs are base58 strings,
and of which bytes. `fresh` are the keys `randomAddress` returns. `MaxUint64` stands for 2^64-1
and `Word` for 2^256: Go reads amounts as big integers, so that no other width matters.

A hash is the identity, on what is hashed: two states have one hash if and only if every field
that goes into it is the same. The ABI encoders keep every field they are given, integers
modulo `Word`. A signature is what it determines (key, digest, recovery bit) with its last
byte.

`Agreement` holds two copies of a channel, `mine` and `peer`, which the two participants may
hold after any exchange of messages, and lets the calls of go-perun happen to them once each,
in any order: `SignState`, `VerifyState`, `Open`, `FundChannel`. Its properties relate the
results. `SignatureBindsChannel` is about copies in which `Backends` says of each asset what
its Go type says (`Consistent`); go-perun makes them so.

### Wallet

A goroutine makes one call. `generate` is `NewRandomAccount`, before the lock; `lock` waits for
the mutex; `look` and `insert` are inside. `End` runs the deferred `Unlock`, also when a nil
pointer panics. The account that `AddNewAccount` makes has an address of its own, since that
comes from crypto/rand; its ECDSA key comes from the caller's math/rand, which goroutines may
share without a lock, so that it may be any key, also one made before, and the call may panic.
The map is keyed by `Participant.String`, which, unlike its comment says
(`participant.go:74`), has the Solana address only. `AccountRegistry` says so, too: whoever
asks for an address gets the first account that was added for it, even if the participant has
another key.

## 3. The runs

| Run | Properties | Shows |
|---|---|---|
| `encoding` | `SignatureBindsChannel`, `OwnSignatureVerifies`, `OpenableIsSignable` | an accepted signature means that both copies would go on chain alike; it is accepted by a peer with the same copy; what can be opened can be signed, but for a ledger ID that is not base58 |
| | `CodecRoundTrip`, `WireAssetRefused` | a cross asset survives its codec; what go-perun decodes it into instead never gets on chain |
| | `SharesExactOnChain`, `NeedFundingExactOnSwaps`, `PayerNotRefused` | what Open puts on chain is the allocation, the decision to deposit is right for swaps, and a payer is not refused for its assets |
| `funder_retry` | `TypeOK`, `AtMostOneDeposit`, `NilLeavesNothingInFlight`, `FundTxNeedsOpenChannel`, `NilReturnJustified`, `PanicOnlyOneAsset`, `FundingSpec` | with all faults and a second call each, no share is taken twice even by a program that would take it, none is sent into a channel that is not open, a nil has its reason, and `Funder` implements `ChannelFunding` |
| `funder_deposits` | `FundReturns`, `DepositedUnlessNotOpened` | without faults calls return and owed shares are deposited, but for a party B that gave up before the channel was open |
| `backend` | `TypeOK`, `ClientAtHand`, `SubmissionSpec`, `CallsReturn` | `ContractBackend` implements `TxSubmission`, and every call returns |
| | `OneAtATime`, `QueueIsBounded`, `AgedBehindConfirmations` | mutual exclusion; the wait for the mutex is bounded; only confirmations of other calls age a blockhash |
| `node` | `FatesAgree`, `NothingLeftInFlight`, `FunderSpec`, `ReturnsOrAwaitsBalance` | `Fund` over the real backend implements `Funder` with its fairness; both agree on every transaction; after a nil the network has none left to execute; a call ends or is in the unbounded balance wait |
| `wallet` | `TypeOK`, `NewAccountNeverOrphaned`, `RegistrySpec`, `CallsReturn` | the wallet implements `AccountRegistry`; an account handed out is found for ever; every call returns |

Six runs state what a comment or a message of the code says, and TLC refutes it:

| Run | Comment or message | What the code does |
|---|---|---|
| `funder_reopen` | `funder.go:57` "first calls open if the channel is not opened" | party A always sends Open: a retry after the channel was opened fails with `openErr`, so party A can never deposit again |
| `funder_nil` | `funder.go:57` "and then funds the channel" | out of iterations, `Fund` returns the nil of `Abort`, nothing deposited |
| `encoding_needfunding` | `funder.go:288` "checks if a participant needs to fund" | it reads a row of the wrong index: in a channel that can be opened, a party that owes a share is told it does not, or the reverse; right for swaps only |
| `encoding_assets` | `funder.go:265` "check if all assets ... are present" | one is enough |
| `backend_net` | `contractbackend.go:38` "the Solana network" of the signer | the confirmation is awaited on the local network |
| `backend_stale` | `client.go:37`, `70` "latest blockhash" | it is fetched before the queue for the mutex; one confirmation that times out ahead outlives it, and the call is refused |

### Bounds

* `MaxIters = 2` or `3` (30 in the code). The loop bodies carry nothing from one iteration to
  the next but the counter; two iterations allow a deposit followed by a poll, three also a
  missed poll in between. `funder_deposits` takes three, so that a party sees an account in
  which only it has deposited before it runs out.
* `MaxCalls = 2`: a call and a retry. A third call differs from the second only in how many
  transactions are late, and with `RetryInFlight = FALSE` there is never more than one. The
  theorems cover any number, and the calls that begin with a transaction in flight
  (`RetryInFlight = TRUE`), which no run of `Funder` with a retry does.
* `AllRequests`, eight shapes of channel: swaps in which both, only A, or only B deposit; one
  asset, on Solana or not (the two panics); an asset that is not served (opened and refused);
  an amount too large (never opened); a channel in which B is told to deposit nothing.
* `MaxUint64 = 2`: amounts -1, 0, 2 and 3 on one asset reach both edges; 0 and 1 on two assets
  reach every pattern of zeros; twelve kinds of asset reach every branch of `MakeTokens`.
  `Word = 4`: a nonce and amounts that differ by `Word` have one ABI form, as 2^256 and 0 have.
  `Variants` are one channel with one thing changed: a field of the parameters, a participant,
  the state, the allocation or an asset, or the index map of a sub-allocation; every pair of
  them is a pair of copies.
* `node`: one iteration, one call of `Fund` by party A, one other goroutine, timeout and
  validity of one block. That is enough for the other goroutine to be ahead of Fund or behind
  it in the queue, for Fund to fail at each of its steps, and for a transaction to be executed
  after Fund has given up on it. Of the three requests, one is never opened and one opened and
  refused. Retries over the backend are not in this run: with `MaxCalls = 2` its states are too many.
* `wallet`: three goroutines, two given accounts with one address and different keys, one key
  for the generator, so that every two new accounts share theirs.
* Two callers in `backend`: one in the mutex, one behind it; and two networks, which reach every
  change of network around the two RPC calls. That the bounds on the queue hold for any number
  of calls ahead is proved (`QueueProofs`). `Validity = 1` and `ConfirmTimeout = 2`: a unit of
  time stands for 150 blocks, the lifetime of a blockhash (about one minute), and solana-go waits
  two minutes for a confirmation. At this ratio a blockhash does expire in the queue:
  `backend_stale` shows it without any fault, and in `backend` it is one of the ways to fail.

The counters `lateOpen`, `lateFund`, `deposits` are bounded by `MaxCalls`; `age` by the mutex
and the timeouts.

### Fairness

`FairSpec` of `Funder` is weak fairness of each step of a running `Fund`: goroutines run, a
`select` finds its timer expired in the end, and a confirmation ends by its own timeout. It
asks nothing of the network. That a confirmation ends
is a property of the backend, not of the funder: `NodeFairSpec` is fair to the goroutines, to
the network's dropping a transaction past its blockhash, and to time, and `FunderSpec` shows
that the fairness of `Funder` follows from it, `ReturnsOrAwaitsBalance` that a call of `Fund` by
party A then ends, or is in the wait for a balance that has no bound. `LiveSpec` adds that
both parties call `Fund`, that transactions are finalized and that `GetBalance` answers; it is
used without faults, for the two properties about the good case. `FairSpec` of
`ContractBackend` is weak fairness of each call's steps (an RPC request is answered or fails),
of the network's dropping a transaction past its blockhash, and of time. Nothing has to break
the websocket (`WatchFails` is not fair), so that `CallsReturn` rests on the timeout. `sync.Mutex` is fair enough: a call that starts
is one of finitely many, so weak fairness of `Lock` suffices.

`FairSpec` of `Wallet` is weak fairness of each goroutine. A goroutine may wait for the lock
while others come and go, but each makes one call, so that again weak fairness suffices.

`CHECK_DEADLOCK FALSE` in all runs: the systems stop when all calls have returned.

## 4. The proofs

All theorems hold for every value of the constants that satisfies the named assumptions
(`FunderAssumption`, `BackendAssumption`, `RejectsRefundAssumption`, `NodeAssumption`,
`OthersAssumption`, `CallersAssumption`, `MaxUint64Assumption`, `WordAssumption`, `Base58Assumption`,
`InputsAssumption`, `WalletAssumption`): any set of requests, any numbers of iterations and
calls, any faults; any set of callers, networks and timeouts; any copies of a channel, any
random keys; any goroutines, accounts and keys. TLC evaluates each assumption on the runs of
its module. A theorem that needs more says so in an `ASSUME` of its own. Every safety property
of a passing run is stated by a theorem.

**Funder** (`FunderProofs`). The invariants are not inductive. `AtMostOneDeposit` fails after a
state in which a party has deposited and yet has a Fund transaction in flight. So `IInv` adds
where this can come from:

* `BodyBound`: in the body of `fundParty` the counter is below its limit (for `TypeOK`);
* `OpenInv`: a party in `fundParty`, or with a Fund transaction in flight, has an open channel;
* `ResultInv`: only a call that returned has a result, and a nil has its reason;
* `SoleInv` (if no call begins with a transaction in flight): a party about to deposit is not
  funded, a transaction is awaited or late and not both, a running or successful call has no
  late transaction;
* `CountInv` (also if the program refuses): a share taken shows as a flag.

`Init => IInv` and `IInv /\ [Next]_vars => IInv'` are proved with one step per action;
`TypeCorrect`, `SingleDeposit`, `DepositIntoOpen`, `NilIsFinal` and `NilJustified` follow.
`SingleDeposit` holds under either hypothesis, `~RetryInFlight` or `RejectsRefund`; with
neither TLC finds two deposits. `NilIsFinal` needs `~RetryInFlight`.

**Panics** (`PanicProofs`). `PanicsOnlyWithOneAsset` joins the funder to the encoding: a channel
that is open, or whose Open is in flight, was encoded (`EncodeInv`), what Open encodes has a
valid allocation and two participants (`OpenEncodes`), and `needFunding` stays in the bounds
of such an allocation when it has two assets (`NoPanic`). It assumes of the requests
(`WellFormed`) what Go's types and go-perun guarantee: balances are rows of integers, and a
state has as many participants as its parameters.

**Refinement** (`RefinementProofs!Implements`). Each action of `Funder` is one of
`ChannelFunding` or a stutter: the executions of transactions are `Open` and `Deposit`, calls
are `Start`, returns, panics and crashes are `End`, the rest stutters. It needs `IInv` and
`~RetryInFlight`.

**ContractBackend** (`BackendProofs`). `IInv` is `TypeOK` with `MutexInv` (who is inside holds
the mutex), `ClientInv` (a confirmed call under way, or done, has made a client exist) and
`TxInv` (which transactions exist at which `pc`). `TypeCorrect`, `MutualExclusion`,
`ClientPresent` and `Implements` (the refinement of `TxSubmission`) follow.

**The queue** (`QueueProofs`). `QueueIsBounded` and `AgedBehindConfirmations` speak of ages, and an age grows
while others hold the mutex; what makes them inductive is who pays for it. A block passes
only while the holder waits for its confirmation, so that `AgeInv` bounds the age of a call by
one timeout for each other call that has waited and is done (`Paid`) and the wait of the present holder
(`HolderWait`); a call that ends turns its wait into its share of `Paid`. With it go `HolderInv`
(the mutex is held by a call inside it, without which a block could pass with nobody to pay)
and `StaleInv` (a call refused for its blockhash is over, its age paid for). The calls must be
finitely many (`IsFiniteSet(Callers)`): each is a goroutine that was started.

**Node** (`NodeProofs`). `RefinesFunder` shows step by step that Fund on the real backend takes
only steps of `Funder`: `NodeSpec` implies `Spec`, so that every theorem about `Funder` holds of
the composition. For what the two agree on, `JointInv` adds to the invariant of `Funder` what is
true of the backend's calls (`BackendInv`) and the count that joins them (`FateInv`): the share of
the party has been taken as often as there are executed Fund transactions, and an executed Open
has made the channel. `FateAgreement` follows, and with `CountInv` of `Funder` `OneExecution`: however
often Fund is called, one Fund transaction at most is executed. `NothingLeft` needs the other
direction too, that every transaction the network still has is one that Funder counts as
awaited or late (`FlightInv`), and `~RetryInFlight`. `OthersAssumption` says that a call of another
goroutine is not one of Fund's. `ImplementsFunding` composes `RefinesFunder` with the refinement of
`ChannelFunding`.

The backend inside a node does not simply behave as `ContractBackend`: when Fund is called again,
the ended context of the call before is gone, which no step of `ContractBackend` can do. So its
theorems are not inherited, its invariants are: `BackendStep` shows that every step of the node is
one of the backend or leaves it `Aside` (at most a client is made, or a context renewed), and
`AsideKeeps` that the invariants do not care. `Q` is the backend of `Node` with the lemmas of
`QueueProofs`; `CallersAssumption` says that the constants are fit for it. `NodeMutex`, `NodeQueue`
(for finitely many `Others`) and `NodeSubmits` follow: mutual exclusion, the bound on the queue and
the promises of `TxSubmission`, in a node in which Fund is one client among others.

**Agreement** (`AgreementProofs`). The variables only remember which operation on which copy they
come from (`OriginInv`); the proofs are about the operators.

* *What is accepted.* `BalancesMade`, `TokensMade` and `Opened` say what `MakeBalances`,
  `MakeTokens` and `MakeOpenInstruction` return when they return: `ExactShares`, `PayerAccepted` and
  `ExactOnSwaps` follow from them and the definition of `needFunding`.
* *The codec.* `Frame`: two byte strings come out of their length-prefixed frame as they went in,
  whatever is in them; with `LIDRoundTrip` (base58 is injective) and `AssetRoundTrip` this gives
  `CrossRoundTrip`. `WireRefused` is about the type of what go-perun decodes.
* *What a signature binds.* A peer accepts only if both copies have one signed form
  (`SignAndVerify`). Field by field this form determines what goes on chain: the channel ID the
  parameters (`IDBinds`), the bytes of a cross asset the asset, because they can be decoded
  (`CrossBinds`), the form of an asset its token (`AssetBinds`), and amounts below 2^64 are not
  changed by the ABI's 2^256 (`WordHolds`, `AllocationBinds`). Together: `SignatureBinds`.
* `OpenableSignable` goes through the panics of `ToEthState` one by one: Open excludes each but the
  two that the property names.

`InputsAssumption` says of the copies what go-perun sees to (a state has the ID of its parameters
and as many participants) and what Go's types say (lists are lists, amounts integers, a Solana
asset has no other fields). It leaves the rest open: invalid allocations, any backends, offers of
any amount, two copies that have nothing to do with each other.

**Wallet** (`WalletProofs`). `TypeOK` says of the map that every account is under its own key.
`LockInv` (who looks or inserts holds the lock), `InsertInv` (the address of an account about
to be inserted is free) and `OwnInv` (the address of an account that is being made is known to
nobody else) make it inductive with `NewAccountNeverOrphaned`: nobody can have added the
address before, so that `AddAccount` does not refuse it, and nobody replaces it afterwards.
`Implements` maps the range of the map to the store of `AccountRegistry`.

Only model-checked: liveness and everything under fairness (`FundReturns`,
`ReturnsOrAwaitsBalance`, `DepositedUnlessNotOpened`, `CallsReturn` of both modules, and the
fairness half of `FunderSpec`), since TLAPS has neither `ENABLED` nor fairness. The six refuted
properties are refuted by TLC's counterexamples. TLAPS cannot do induction over data here (the
library's induction theorems take an operator as a parameter), and a module with a `RECURSIVE`
operator is closed to its SMT backend: these modules have none, and no proof needed either.

## 5. Not modelled

* The Perun program itself, beyond Open and Fund as above, and forks that are not finalized:
  every read and every confirmation of the backend is at commitment "finalized", except
  `GetAccountInfo` in `GetBalance`, whose answer is only logged.
* Bytes: Borsh and ABI layout, PDA derivation, what a hash or a curve computes.
* `Equal` of assets and participants: only go-perun calls it. `SolanaCrossAsset.Equal`
  (`asset.go:136`) is true for any two cross assets.
* The codec of `EthAsset` (`ethasset.go:172`): nothing here encodes one; assets of other chains
  enter as records.
* The wording and content of errors, among them which peer a `FundingTimeoutError` blames.
* Websocket connections, which the code never closes.
* The adjudicator and `Dispute`, `Close`, `ForceClose`: stubs without behaviour. `LockAll` and
  the usage counters of the wallet: empty.
* The index check of `Fund`: go-perun passes 0 or 1.
* The data race on `TxSender.rpcClient` beyond the interleaving of whole calls. A `SetRPCClient` that
  `GetRPCClient` overwrites looks like one followed by another, back to the local network.

## 6. Plan

Done, in the order of importance: `Encoding`, `FundingChecks`, `PerunProgram`, `Funder`, its
refinement and proofs; `ContractBackend`, its refinement and proofs; `Assets`, `Signing` and
`Agreement`; `Node`, the composition of the two; `Wallet`, its refinement and proofs; the proofs
about the queue, the composition and the agreement of the encodings.

Next:

1. Theorems about the abstract specifications themselves (`ChannelFunding`: no success with a
   deposit missing, no share taken twice; `AccountRegistry`: no account replaced), which hold of
   the detailed ones by their refinements.
2. The panics (`PanicProofs`) of a Fund on the real backend.
