# Verification of luban-api

This directory models the Go code of the luban-api repository in TLA+, checks
the models on small instances with TLC and proves theorems about them with
TLAPS. File and line numbers refer to the repository.

## 1. The system

luban-api is a client library for a preconfirmation gateway (Luban/Taiyi): a
user reserves room in an upcoming slot of the beacon chain against a deposit,
then submits the transaction that uses the reservation. On top of the HTTP
client sits a transaction manager that gets one payload on the chain per call
of `Send`.

| Component | State it keeps | Operations | Talks to |
|---|---|---|---|
| `PreconfTxMgr.Send` (txmgr/txmgr.go:147-224) | locals of each call: the signed tx, the slot picked, the fee quoted, the reservation id | `prepare`, `getSlotForCandidate`, fee, reserve, submit, wait, receipt | nonce manager, client, beacon node, execution node |
| nonce manager, `signWithNextNonce` (334-368) | `m.nonce` (nil or the last nonce handed out), `m.nonceLock` | one critical section with two network calls | execution node, remote signer |
| crafting, `craftTx`, `getBaseFees` (226-327) | none | gas estimate, fee caps, the two transaction types | execution node |
| `getHeadSlot` (70-108) | none | one HTTP request without a context | beacon node |
| `client.Client` (client/client.go) | the signing key | four requests, two of them signed | gateway |
| digests (types/types.go) | none | two hash preimages in little-endian order | - |
| generated HTTP client (internal/client/client.gen.go) | server URL, request editors | build, edit, send and parse each request | gateway |
| escrow bindings (escrow/Escrow.go, abigen) | iterators: `logs`, `sub`, `done`, `fail`; watchers: a goroutine | call, transact, filter, watch, parse | execution node |

Sends run concurrently: they share only `m.nonce`, under `m.nonceLock`. Every
call to the outside may fail before or after it took effect, or be cut off by
the caller's context (all but `getHeadSlot`).

What is hard here: concurrent allocation of nonces under a lock held across
network calls; a failed signature at the edge of the uint64 range; retries
after lost answers (a reservation or a submission that took effect and looks
failed, or takes effect only after the next attempt); fees that are fixed
before the slot is known; a listing and a head that are stale by the time they are used; a wait
loop driven by a head that skips slots; two loops that never look at the
context; a nonce that is taken and never used; answers that do not come from
the gateway; selects between the last logs of a subscription, its end and the
user's wish to stop. `PROJECT.json` lists each of
these under "hazards" with its line and the properties that would catch it.

What makes each component correct:

- nonce manager: signed nonces are unique and consecutive whatever fails; the
  lock is always released; seen from outside a call is one atomic step.
- Send: a payload runs at most once and a receipt means it ran; a reservation
  is paid for with the deposit of its own slot and has room for the
  transaction; without failures no room is paid for twice, and a failed call
  costs one deposit at most; the receipt is not asked for before the slot has
  passed; a nonce that others wait for belongs to a Send that has not succeeded; Send returns once submitted and once
  cancelled.
- client and generated client: a request is signed over what it sends; an
  error may hide an effect, and an answer is the gateway's unless something
  else answers with status 200 and JSON.
- crafting: the caps outlast the blocks they are doubled for; an attempt that
  fails spends no nonce; the attempts end; the gas is estimated for what is
  signed.
- digests: they are the gateway's, and distinct requests have distinct
  preimages.
- escrow iterators and watchers: every log up to the end of the subscription
  is delivered once and in order; an error ends the stream; nobody waits for
  ever, neither the user in `Next` nor the goroutine of a watcher.

## 2. Modules

| Module | Models | Abstracts |
|---|---|---|
| `Uint64` | `++`, `--`, `+1` of Go's uint64, for any width | - |
| `NonceAllocator` | abstract: learn the account's nonce once, then issue successors | - |
| `NonceManager` | `signWithNextNonce`, one action per statement that touches shared state or calls out | the transaction is its nonce |
| `NonceManagerProofs` | theorems about `NonceManager` | - |
| `SlotRequest` | slot selection and deposit, pure operators | u256 is unbounded (products of uint64 fit) |
| `SynchronousSend` | abstract: at most one execution per call, a receipt only after it | - |
| `PreconfEnvironment` | the gateway, the beacon chain, the account and the other customers, from how `Send` uses them | - |
| `PreconfTxMgr` | `Send`, one action per call and outcome, in that environment | payloads, hashes and signatures; `signWithNextNonce` is one step |
| `PreconfTxMgrProofs` | theorems about `PreconfTxMgr` | - |
| `RemoteCall` | abstract: a call is served at most once, a result is the gateway's unless another answer passes for it, an error says nothing | - |
| `TxPreparation` | abstract: each Send gets one transaction or an error, and no nonce is spent on anything else | - |
| `FeeMarket` | the base fee, the excess blobs and the blob fee, computed as go-ethereum does, `fakeExponential` loop by loop | blocks use no, one or two targets of gas; blob fees up to 36 blobs of excess |
| `CraftTx` | `prepare`, `craftTx`, `getBaseFees`, one action per call, on a growing chain | calldata, blob contents; `signWithNextNonce` is one step |
| `CraftTxProofs` | theorems about `CraftTx` | - |
| `Digest` | the bytes under the two digests of types.go, against the gateway's | the hash and the signature; the size of a byte and of a word |
| `DigestProofs` | theorems about `Digest` | - |
| `HttpCall` | the four methods of `client.Client` over the generated client and `getHeadSlot`, one action per step that can fail; servers and network as environment | contents of requests and answers; a body is the reply or of one of four other kinds |
| `HttpCallProofs` | theorems about `HttpCall` | - |
| `EventStream` | abstract: events in order, each once, then one end | - |
| `FuncSub` | `event.NewSubscription` of go-ethereum, which Escrow.go uses | - |
| `EscrowIterator` | `Next`, `Error`, `Close` against the producer of `FilterLogs` | a log is its position |
| `EscrowWatch` | the goroutine of `WatchDeposited` against the node and the user | a log is its position |
| `EscrowIteratorProofs`, `EscrowWatchProofs` | theorems about these two | - |
| `CommonLemmas` | no code: induction, recursive functions, division and sequences, for the proofs | - |
| `MCPreconfTxMgr`, `MCCraftTx`, `MCDigest` | values of the constants for TLC | - |

`PreconfTxMgr` EXTENDS `PreconfEnvironment`, and that `SlotRequest`, and that
`Uint64`; `CraftTx` EXTENDS `FeeMarket`. The abstract modules are instantiated
by the detailed ones and are properties of their runs. `NonceManager`,
`CraftTx` and `HttpCall` each look inside what is one step of `PreconfTxMgr`:
the signature, `prepare`, and a call of the client. Two abstract modules join
them: `NonceManager` implements `NonceAllocator` and `CraftTx` implements
`TxPreparation` step by step, and `PreconfTxMgr`, where a signature and
`prepare` are one step, implements both.

Correspondence of `PreconfTxMgr` with the code: `pc[s]` names the next call of
the `Send` run by `s`. `prepare` is `prepare` with its retry loop
(`attempts`); `getSlots`, `getHead` are the two calls of
`getSlotForCandidate`; `getFee`, `reserve`, `submit` the calls of the loop of
lines 157-204; `firstHead`, `wait` the polls of lines 206-220; `receipt` line
223. Each call has an action for every way it can end: answered, refused by
the gateway (`...Rejected`) or failed (`...Fails`). A call with a done context
fails without using up the fault budget; in `prepare` the signer may be the one
that fails, which takes the nonce and gives it back (the two values of `nonce'`
in `CraftFails`, different at the first signature).

The mapping of `PreconfTxMgr` to `TxPreparation`: a Send has its transaction
when `tx[s]` has gas, which no transaction does without; the outcome of the
others is `running` in `prepare` and `error` afterwards. The nonces spent are
read backwards from `m.nonce`: the Send whose transaction has the nonce that
`k` more were taken after is the `k`-th from the end (`TakenAfter`, which
counts across the end of the uint64 range). `NonceAllocator` gets these
Sends' nonces (`IssuedNonces`), and the nonce that follows `m.nonce`.

A reservation or a submission that failed leaves its request behind: a record
in `reserved` that is not `granted`, a transaction that is `sent`. The
environment may take it up at any later time, also after Send has returned
(`GrantLate`, `AcceptLate`), or never. An answer that was lost is a request
taken up at once. `HttpCall` justifies these outcomes: it shows that a call of
the client ends in the server's own answer, in an error that says nothing, or in
values made up from JSON that something else sent with status 200. `PreconfTxMgr`
assumes that nothing answers in the gateway's place with status 200 and JSON;
for the head slot it need not.

`NonceManager` justifies the single step that `PreconfTxMgr` takes for
`signWithNextNonce`: it refines `NonceAllocator`, in which a call that signs
is one step and a call that fails is none, except that the first call may
learn the account's nonce, alone or with its signature.

The environment is what src/ relies on and does not define. The gateway grants
a reservation while the slot is ahead of the head and has room, and may refuse
from the slot before on. It accepts a transaction for a reservation while the
slot is ahead. The chain executes a submitted transaction in its slot, one of
the next two, or also while it is the head (the execution node may be asked
before or after it has run the block the beacon node names), when its nonce is
the account's, and may leave it out. Other customers take room. The account's owner may also use the
escrow bindings, whose deposits and withdrawals take a nonce that `m.nonce`
does not know of (`EscrowTransact`). The listing is in slot order and
includes slots that are over, as the comment at txmgr.go:125 says.

Correspondence of `HttpCall`: `pc[c]` is the step call `c` is at: the signature
(client.go:57 and 88), `New...Request`, `applyEditors`, `c.Client.Do`, and in
`Parse...Response` the reading and the decoding. `Parse` includes the check of
`JSON200` in client.go and the deferred `Close`. The gateway serves or refuses
a request it has been sent, also after the client gave up on it; anything
between the two may answer instead, with any status, content type and body but
the reply. Go leaves absent fields zero (`Decodes`): openapi.yaml declares them
required, the generated code does not look. With status 200 and a JSON content
type, any object therefore passes for a fee or a commitment, any list of objects
for slots, and `null` for all of these and for a reservation id; client.go
returns the zero values (outcome `invented`). `RemoteCall` allows that only
while such an answer (`Foreign`) is what the call has at hand (`forged`), and
never for a call whose answer cannot be mistaken (`distinctive`): the head slot,
since `ParseUint` refuses the empty string. An error object of the server comes
with its own status and is never returned as an answer. What the model rules
out is that something else spells out an id or a head slot. A call of `getHeadSlot` starts at the exchange, since `http.Get` has
neither editors nor a context; it looks at the status but not at the content
type (`TakenAsJSON`).

Correspondence of `CraftTx`: `attempt` is the head of `retry.Do`'s loop and
`craftTx` up to line 281, then come the three calls of an attempt and the
signature. `AttemptRefused` is a missing recipient or a sidecar that cannot be
made: nothing changes but the count. `chain` is the execution chain; a block
records its base fee, its excess of blobs and how full it is, and the next
block's fees follow. `BlockByNumber` does not read the chain: the block is the
one numbered `bn`, and `TxMessage` prices it. `signed` stands for the nonces,
which `NonceManager` shows to be handed out in this order.

Correspondence of `Digest`: `AppendUint256`, `ReserveBytes`, `AppendUuidToLe`
and `SubmitBytes` are the functions of types.go; the gateway's bytes are those
of the Rust code its comments cite, every number by `to_le_bytes` and the id by
`to_bytes_le`. The state is a client that signs two requests in a row.

Correspondence of the escrow modules: `logs`, `done` and `fail` are the
iterator's fields, `err`, `errClosed` and `quit` the channels of its
subscription. A call of `Next` is `Call`, then one of its branches; the branch
of line 304 calls `Next` again and so leaves `calling` as it is. A select with
several ready channels takes any of them: the actions are enabled together.
The watcher's `pc` tells its outer from its inner select. `PaymentMade` and
`Withdrawn` have the same generated code as `Deposited`.

## 3. Runs

| Run | Instance | Shows |
|---|---|---|
| `nonce_manager` | 3 callers, uint64 of 5 values, every initial account nonce, 5 signatures | unique and consecutive nonces around the range, refinement of the allocator, the lock is released |
| `concurrent_sends` | 2 Sends (a blob with estimated gas; a plain transaction), 3 slots of which the first is too near, 2 failing calls with late effects | the safety properties of `Send`, whose nonces later transactions wait for, and the refinements of `SynchronousSend`, `TxPreparation` and `NonceAllocator` |
| `send_returns` | 1 Send, 1 reservation of another customer or escrow transaction, 2 failing calls, cancellation | liveness; the refinement, and the deposits that failed calls cost, also under cancellation and a nonce taken away |
| `nonce_hole` | as `concurrent_sends` | finding: a failed Send leaves a nonce nobody will sign again |
| `slot_filter` | as `send_returns` | finding: the slot filter ignores estimated gas |
| `error_cause` | as `send_returns` | finding: a failed poll is reported without its cause |
| `http_call` | 2 calls of any two endpoints, `getHeadSlot` included, any status and body | refinement of `RemoteCall`, bodies are closed |
| `escrow_iterator` | 4 logs, any malformed, a channel of 2 | refinement of `EventStream`, `Next` returns |
| `escrow_watch` | 3 logs, any malformed, a channel of 2 | refinement of `EventStream`, the goroutine ends with either side |
| `craft_tx` | 2 prepares of any of 3 candidates, 2 attempts, 6 blocks, c1 may be cancelled, any call may fail | the caps last, refinement of `TxPreparation`, prepare returns |
| `blob_value` | as `craft_tx` | finding: the gas of a blob transaction is estimated with a value it does not have |
| `digest` | 900 reservations, 36 submissions, any two of them; bytes of 4 values, words of 2 bytes | the gateway computes the same bytes; no two requests share them |

Bounds. Five uint64 values let the nonce wrap in both directions with three
callers inside; six signatures would need a nonce twice, which the assumption
`MaxSignedAssumption` excludes (a process does not sign 2^64 transactions).
Two usable slots with different fees are enough for a retry that changes slot,
for two Sends that compete for one slot and for a slot that passes while a
reservation is open; two failing calls allow a lost reservation and a lost
submission in one Send, or one of each Send, each with its effect at any later
time. Cancellation and the others' transactions are in the run of one Send,
where the state space leaves room for them; two Sends interact through slots,
nonces and the account, and there a cancelled one is like one whose calls
fail. No more Sends than uint64 values run at once (`SendersAssumption`): two
of them would otherwise get the same nonce. `MaxAttempts` is 2 instead of 30:
the attempts differ only in their number. The bounds on faults, other
customers and slots stand in guards, not in constraints, so they do not cut
behaviours that liveness depends on.

`HttpCall` needs no bounds: calls share nothing, a second one shows that they
do not, and 500 stands for every status but 200 and 400. `CraftTx`: five full blocks after the genesis are the last the base fee cap is
doubled for (8^5 < 2 * 7^5 but 8^6 > 2 * 7^6), and the genesis is chosen where
the blob fee is about to round up, its worst case. `BlobFeeCapCoversThreeBlocks`
says 3 and not 6 because the blob fee is the block's own, and a fee of 1 or 2
wei doubles faster than it should. The excess of blobs stays within `MaxExcess`,
where the Taylor terms of `fakeExponential` are over after 11 (`LoopIsOver`
proves it): `Mine` adds no block that would leave this range, and none of the
run's blocks would. Calls fail without a budget there, which the
liveness needs: every attempt may fail. What the fees do after those blocks is
not claimed: `Send` does not look at how far away its slot is. `Digest`: the
smaller base keeps every place of every field; the requests contain, for each
byte of the deposit, one where only this byte is set, and tips and limits that
coincide with parts of it. More logs than the channel holds make the producer wait, and 3 or 4
are enough for a malformed log before, between and after good ones.

Deadlock checking is on for the iterator, where a user may always call `Next`,
and for the watcher, where a user may always start or stop to read. It is off
elsewhere: calls of the client and prepares return; the client of `Digest` signs
twice; callers stop when their signatures or their one Send
are done, and the beacon chain ends at `LastSlot`.

Fairness. `NonceManager`: weak fairness of the caller inside the lock, because
both network calls run under `m.cfg.NetworkTimeout` (lines 340 and 359).
`PreconfTxMgr`: weak fairness of each Send (a goroutine that can run does) and
of the beacon chain. This assumes that each call ends, which its context sees to
for all but `http.Get` (line 74), where it is an assumption about the beacon
node. `CraftTx`: weak fairness of each prepare, whose calls all take the
context. Nothing is assumed of the caller, other customers or
proposers, nor of requests that are late. `EscrowIterator`: the producer, a `Next` or a `Close` under way run on; nothing
makes the user call them, or the producer fail. `EscrowWatch`: only its
goroutine runs on; its select may keep choosing the channel of logs, and
`NumLogs` stands for the even choice Go makes there, which makes that end.
That a Send returns in general is not claimed: its retry loop has
no bound, and the finite `LastSlot` would make the claim hold for the wrong
reason. `SubmittedSendReturns` and `CancelledSendReturns` do not depend on the
end of the chain: the slot waited for is fixed, and a done context ends the
loop at its next listing.

## 4. Proofs

All theorems hold for every value of the constants that satisfies the named
assumptions of the modules.

`NonceManagerProofs`. The inductive invariant `IInv` joins the type invariant
with: a caller is inside exactly while it holds the lock (`LockInv`); `m.nonce`
is the last signed nonce, or its successor between the increment and the
signature (`NonceInv`), without which consecutive nonces are not inductive; and
the distance between two signed nonces is that of their positions, with at most
one turn around the range (`DistanceInv`), which is the closed form of the
consecutive nonces and yields uniqueness by linear arithmetic. From it follow
`TypeCorrect`, `NoncesUnique`, `NoncesConsecutive` and `AllocatorImplemented`
(the refinement, step by step; only `Sign` issues). The type invariant is not
inductive alone: that `AssignNonce` copies a number and not the nil pointer
needs `NonceInv`.

`PreconfTxMgrProofs`. None of the safety properties is inductive. `IInv` joins
the type invariant with: the gateway's slots and the copies of them in a
listing name slots it quotes, and a copy has at least the room that is left
(`OfferInv`, `ListingInv`); the fee at hand is that of the slot at hand
(`PickInv`), which gives `DepositsQuoted` when a reservation is made; a
reservation has the gas, blobs and deposit of the one transaction the Send has
signed, and only granted ones hold it, or have it on its way (`RightFor`,
`TxInv`), hence `SubmittedTxFits` also for late submissions; the reservation a
Send holds is its last one and for its slot, and the head is past it at the
receipt (`HoldInv`); the slots of its earlier reservations are not after that one,
because no turn goes back (`BehindInv`); hence `ReceiptAfterSlot`, which says
that all of them have passed. Without faults nothing is late and earlier reservations were refused their transaction because it came too
late (`PunctualInv`), hence `NoSecondDeposit`; no slot before the one picked
fits any more, nor that one after a refusal (`TurnInv`), hence `TurnsMoveOn`; a
payload that ran has used up its nonce (`ExecutedInv`), and a Send has returned
exactly when it has a result (`ReturnInv`), which with `TxInv` and `HoldInv`
give the refinement `SendImplemented`: a second accepted submission, early or
late, carries the same nonce and cannot run.

The same module proves that `PreconfTxMgr` implements `TxPreparation`
(`PreparationImplemented`). This needs an invariant of its own, `NonceInv`:
the Sends that have a transaction are those that left `prepare` without
failing, as many as they are they have the last nonces taken, one each, and
while `m.nonce` is nil there are none. A number of Sends occurs in it, so the
proof counts (`SignersOrdered`, `CraftSigners`): `Craft` moves every place by one and
takes the last. That a failed signature disturbs nothing rests on `--` undoing
`++` also where it wraps around, and on `m.nonce` changing then only while it
is nil (`FailedCraft`). The same invariant gives `AllocatorImplemented`: a
nonce issued is the account's, as it was when it was asked for, or follows the
one issued before it, whatever the account's nonce has become since.

Three theorems bound two findings of section 5. `StatedGasHasRoom`: the slot
picked had room for the transaction when it was listed, if the candidate states
its gas; the filter then is about the transaction's gas (`RoomInv`, `TxInv`).
The finding about nonces is bounded from two sides. `NoncesHaveTheirSends`: a
nonce from the account's to the one before the next signature is that of exactly
one Send, which is running or has returned an error. No more nonces were taken
than there are signed transactions, counted from the account's (`NextInv`), by
`NonceInv` each of these nonces has its Send, and a Send whose payload ran has a
nonce below the account's (`ExecutedInv`), as has one that returned the receipt
(`ReceiptInv`). It says nothing once the account is past `m.nonce`: after a deposit or withdrawal
through the bindings the manager signs nonces that are used already, as it never
asks for the account's again. `SignsNextFreeNonce` is about the time before
anyone else came in (`others = 0`): a transaction is then signed with a nonce that the account has not used
and no other transaction has, and every nonce between belongs to an earlier
Send. Only a Send that has a transaction asks for a reservation (`AskedInv`),
so that the account moves by payloads of signed transactions only and is never
past the number of them (`AloneInv`).

`DepositsLost` bounds what failing calls cost. A reservation is at stake while
it has the transaction, or has it on its way, or its slot is not nearly over.
`StakeInv` counts those that are at stake besides the one the Send works on:
never more than `faults`. One is added only by a failed call, or by a done
context, after which the Send makes no more reservations (`Holding`, `Leaving`);
one that was refused is over by the time another is asked for.

`CraftTxProofs`. Each block follows from the one before it and its base fee
stays at 7 wei or above (`ChainInv`), where an eighth of it is never nothing;
a transaction has the caps of its block (`PriceInv`); a block number read is
that of a block (`CallInv`). One block then raises the fee by a factor of 8/7
at most (an eighth up, rounded down, or one wei; the 7 leaves room for the
latter), five of them by less than 2, which is `BaseFeeCapHolds`. The blob fee
is the sum `fakeExponential` computes, whose terms are rounded down one by one,
so it is no simple function of the excess. Each term grows with the excess, by
induction over the loop (`LoopGrows`), hence so does the fee; the proof follows
the loop at the excesses where the fee decides (`FeeValues`: 1 at 0, 2 from 18
to 26, 4 at 36), which also shows that no term is left out within the bound
(`LoopIsOver`). Three blocks add nine blobs at most, and fees nine blobs apart
differ by a factor of 2 at most: `BlobFeeCapHolds`. `PreparationImplemented`
shows that only `Sign` issues, and only to a caller that is running.

`DigestProofs`. The invariant is that the digest made last, and the one before
it, are the bytes types.go writes for their requests; the rest is about these
bytes. The four limbs of a number, each in little-endian order, are the bytes
of the number in little-endian order, since the bytes of a number after the
first m are those of its quotient; with the three turned numbers of a uuid
this is `GatewayAgrees`. `n` bytes determine a number below `Base ^ n`, by
induction on n; fields of known lengths are found again in what they are
joined to; and a reservation's bytes are a multiple of eleven, a
submission's 48: `OneRequestPerDigest`.

`CommonLemmas`. The library states induction, and recursion over the natural
numbers, as theorems with an operator for a parameter, which the provers
cannot instantiate. They are proved anew here about sets: that the numbers
with some property, as a set, are all of them (`Induction`, from the
well-foundedness of `<`), and that a function given by its first value and a
function of steps exists and is the only one (`Recursion`). `Power` of
`Digest` and the loop of `FeeMarket` are instances.

`HttpCallProofs`. `IInv` adds to the type invariant that a body is open only
between the exchange and the return, that a response with a reply means the
call was served, and that a request on its way was not served yet. From it
`TypeCorrect` and `NoBodyLeaked`. What client.go takes for an answer is then the
reply or passes for one (`JSON200IsReplyOrForged`); an answer from elsewhere
changes what is at hand for its own call only (`RespondForges`), and the
server's reply is never one of those (`ReplyIsNotForged`):
`RemoteCallImplemented`.

`EscrowIteratorProofs`. The channel holds the logs sent last (`LogsInv`), the
user has all before them unless one did not unpack (`TakenInv`); the
iterator is done only after the end of the subscription (`DoneInv`), which
comes after the last log, a Close or an error (`EndInv`); a false is final
(`FalseInv`). The head of the channel is then the next event, and a false
without an error leaves none out: `EventStreamImplemented`.

`EscrowWatchProofs`. The user is told nothing before the goroutine has returned
(`SubInv`), the channel holds the logs sent last (`LogsInv`), and the user has
all before them but for the event the goroutine holds (`TakenInv`):
`EventStreamImplemented`.

Only model-checked: liveness (`LockIsReleased`, `SubmittedSendReturns`,
`CancelledSendReturns`, `PrepareReturns`, `NextReturns`, `UnsubscribeEnds`,
`NodeErrorEnds`), because fairness and ENABLED are out of reach of the prover.
Every invariant and every safety property of a passing run, the
refinements included, is stated by a theorem.

## 5. Findings

1. `nonce_hole`: txmgr.go:329-332 promises the next available nonce and a reset
   that queries it again; no code resets `m.nonce`. A Send that fails after
   signing leaves a hole and the transactions of later Sends cannot execute.
2. `slot_filter`: txmgr.go:133 filters by `candidate.GasLimit`, zero when the
   gas is estimated, where client_test.go:244 filters by the gas itself.
3. `error_cause`: txmgr.go:218 returns an error formatted at line 207 from a
   nil cause.
4. `blob_value`: txmgr.go:282 estimates the gas "for the transaction" with
   `candidate.Value` (288), which the `BlobTx` of 308-316 leaves out and the
   `DynamicFeeTx` has (321).

## 6. Not modelled, and the plan

Done of the plan: late effects, `CraftTx`, `Digest`, `getHeadSlot` in
`HttpCall`, the proofs about all of them, `TxPreparation` between `CraftTx` and
`PreconfTxMgr`, and `NonceAllocator` between `NonceManager` and it. The
properties of two findings are proved for where they do hold. What is left: `RemoteCall` between `HttpCall` and `PreconfTxMgr`, as
the other abstract modules are, instead of `HttpCall` only for the outcomes it
justifies.

Not modelled, and why:

- URL joining, request encoding, options and constructors of the generated
  client (client.gen.go), and the constructors and forwarding methods of the
  bindings (Escrow.go:100-254): no state, no order of steps, one call of a
  library each. `PaymentMade` and `Withdrawn` (Escrow.go:402-690) repeat
  `Deposited`.
- The contract behind the bindings: an interface without code in this
  repository. Slashing (txmgr.go:200) is a TODO.
- Signature cryptography, Keccak, ABI encoding and logging: pure functions of
  libraries, or no effect.
- `ExcessBlobGas` being nil (txmgr.go:237) and a beacon node that never answers
  (74): see "hazards" in `PROJECT.json`.
- Build tools and CI: no run-time behaviour.
