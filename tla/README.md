# wakaama in TLA+

TLA+ modules for [wakaama](../src/README.md), an implementation of the OMA LwM2M
protocol over CoAP, written from the C code under `src/`. TLC checks them on small
instances; TLAPS proves the safety properties of the transaction layer, of block-wise
uploads, of the server, and of the client's registration, bootstrap and device management
for every value of the constants. `PROJECT.json` lists components, runs, the map from
definitions to source lines, findings, hazards and theorems.

## The system

wakaama is a library. The application owns the main loop: it calls `lwm2m_step`
(timers; returns in `*timeoutP` when it wants to be called again),
`lwm2m_handle_packet` (a datagram has come), and the API of its role (client,
server or bootstrap server). There are no threads. What makes it hard all the same:

- callbacks of the application run in the middle of library loops and call the API;
- messages are lost, repeated, late and reordered, and so are answers;
- state is found again by 16-bit IDs (message, client, observation) that are reused;
- lists are unlinked by ID while the pointer is freed;
- lifetimes, retransmission timers and answers race each other.

| Component | State | Operations | Interacts with |
|---|---|---|---|
| Transactions (`coap/transaction.c`, `core/packet.c`) | `transactionList`, `nextMID`; per transaction ack, counter, deadline, userData | `transaction_new/send/step/handleResponse/remove/remove_client`, clones for the next block | every request of all roles; calls back into them |
| Block-wise transfer (`coap/block.c`, `core/packet.c`) | `blockData` per peer and URI | `coap_block1_handler`, `coap_block2_handler` | transactions, request dispatch |
| Server registry (`core/registration.c`) | `clientList`: ID, name, session, end of life | Register, Update, Deregister, expiry | Block1 (temporary clients), observations, transactions, monitor callback |
| Server observations (`core/observe.c`) | `observationList` per client, status | `lwm2m_observe(_cancel)`, their callbacks, notifications | transactions, registry |
| Client registration (`core/registration.c`, `core/liblwm2m.c`) | `serverList` with status, attempts and sequences, `state` | `lwm2m_step`, register, update, deregister, close | transactions, bootstrap, Security and Server objects |
| Client observe (`core/observe.c`) | `observedList`, watchers | observe, cancel, `observe_step` | packets, objects |
| Bootstrap (`core/bootstrap.c`) | `bootstrapServerList` with status | request, write, delete, finish | registration, Security and Server objects, the main loop's backup |
| Objects, management, discover | object list, attributes | read, write, execute, create, delete | application callbacks |
| Payload formats, URI and link format, CoAP codec | none | writers and readers | every message |
| Transports, logging | sockets | I/O | |

What makes them correct: a listed node is never a freed one; a request gets exactly
one callback; timers neither stop nor run early; a block-wise payload is handed on
whole; a registration lasts as long as its lifetime and no longer; an observation
belongs to the client it was requested for; the machine of the client always comes
back to a registered or a failed state; a watcher is notified within its periods.

## Modules

| Module | Models |
|---|---|
| `Transaction` | the transaction layer and the parts of `packet.c` that drive it |
| `Outcome` | what it promises to its callers; `Transaction` implements it |
| `TransactionProofs` | inductive invariant and theorems about `Transaction` |
| `TimerProofs` | its exponential backoff |
| `OutcomeProofs` | its refinement of `Outcome` |
| `BlockHandler` | `coap_block1_handler` as operators on the block data of one URI |
| `BlockTransfer` | composes `Transaction` (sender), a network, and `BlockHandler` (receiver) |
| `BlockTransferProofs` | theorems about `BlockTransfer`, on those about the sender |
| `Server` | registry and observations of the server |
| `ServerProofs` | theorems about `Server` |
| `Accounts` | the client's Security and Server objects, and the server lists made of them |
| `Registration` | the client half of `registration.c`, on the context of `Accounts` |
| `Bootstrap` | the client half of `bootstrap.c`, on the same context |
| `Client` | composes the three with `lwm2m_step`, the main loop of the example client, servers and network |
| `ClientProofs` | theorems about `Client` |
| `ExampleObjects` | callbacks of the other objects of the example client |
| `Objects` | `objects.c`: what the library does around these callbacks |
| `Observe` | the client half of `observe.c` |
| `DeviceManagement` | composes the three: `dm_handleRequest`, resets, changes by the application, `observe_step` |
| `DeviceManagementProofs` | theorems about `DeviceManagement` |
| `Shifts` | `1 << n`, of which `Transaction` and `Registration` make their backoffs |
| `NaturalLemmas` | least numbers, sums modulo and shifts, which the proofs share |
| `Texts` | numbers, object links, base64 and paths as text |
| `RegisterRequest` | query and links of a registration, written and read |
| `Payloads` | TLV, single CBOR items, plain text, the decoders of `data.c` |
| `CoapMessage` | CoAP messages, serialised and parsed |
| `Formats` | composes the four: one side writes, the other reads |
| `MC*` | instances for TLC |

**Transaction.** `list` is `contextP->transactionList`, a set ordered by message ID
(`Before`), because `lwm2m_list_add` sorts. A record is a `lwm2m_transaction_t`; the
message is reduced to message ID, token, its Block option (`kind`) and the number of
blocks that follow (`left`). Identities stand for addresses; `freed`, `calls`,
`sent`, `lastTx` and `freedData` are history. `lwm2m_handle_packet` is one action per
outcome for the next block (`HandlePacket`, `...NextBlock`, `...NextBlockFails`,
`...BadBlock2`, `...Null`, `...Divides`), each including `transaction_handleResponse`. Packets
are arbitrary, so loss, delay and duplication need no network. `transaction_step` is one
action per list element (`StepWaits`, `StepSends`, `StepExpires`) with the cached
`nextP` in `cursor`: in between a callback may call the API (`inCallback`).
`prv_change_to_block1` with no transaction ends in `pc = "crashed"`; an answer with Block1 to
a request without it, at which `prv_send_next_block1` divides zero by zero, in `pc = "divided"`.

**BlockTransfer.** The payload is the sequence of block numbers copied to the buffer.
`late` chooses the network: FALSE loses messages, TRUE also repeats, delays and
reorders them. `HandlePacket` and the walk are those of `Transaction`.

**Server.** `clients` are the nodes of `clientList`, `inc` the identity (address) of a
structure; `NoName` marks the temporary client `packet.c` makes for the first block of
a registration. `pending` are the transactions of observe and cancel requests; their
callbacks may come in any order, and only report (error, timeout, client gone) or take
effect. `promise` is what the last 2.01 or 2.04 told an endpoint, `announced` and
`deleted` what the monitor callback was told. `fault` is set where the code goes on
with freed memory or NULL, and ends the behaviour. Refused requests change nothing and
have no action. Clients use their location while their lifetime runs, the application
uses the client IDs the monitor callback announced.

**Client.** `ctx` is the part of `lwm2m_context_t` a client registers with. `Accounts`,
`Registration` and `Bootstrap` are functions from context to context, one per C function;
`Client` makes actions of them. `lwm2m_step` is `Step` (the switch with its gotos, then
`registration_step`) followed by the walk of `transaction_step`, reduced to `Expire`: a
request that is not answered ends after `MaxTransmitWait`. Where a transaction outlives
its server the walk uses freed memory (`UseFreed`), and so does `Close`; these behaviours
end with `pc = "undefined"`. An answer is 2.xx, 4.00 for every error, or one of `OddCodes`: 4.13,
2.31 to a last block, 2.01 or 2.04 to an earlier one; these count as calls, so that they do not
come for ever. After 2.31 and 4.13, and after a success that comes early, the transaction of
`Following` takes the place of the old one, or none does (`Unfollowed`): the request has no
payload (`packet.c:352`), the blocks asked for are not smaller (`packet.c:427`), or there is no
memory for the clone (`packet.c:356`). The callbacks do not know (`registration.c:656`, `:844`);
a status that goes on waiting then waits for nothing, which `dropped` records together with the
code of the answer. An update with payload frees it in its callback although the next block's
transaction still has it: `freed` marks the second use, which is undefined, and so is the
division by zero (`AnswerUndefined`). `fate` says how the messages of a step fare (sent, or no
connection). `wake` is what `*timeoutP` makes the main loop wait; packets and calls end
the wait. `app` is the loop's memory: the state it has seen and the backup of the accounts
it restores when `lwm2m_step` fails; its fields `stale` (entries were made from accounts
newer than the backup) and `cut` (a step returned before `transaction_step`) are history, and
so is `ctx.torn` (Security instances whose write failed half way). `peer` has the registration
each server has granted. The retry delay of `registration.c:612` shifts an `int` by up to 253;
`Overshift` is whatever the build makes of it above 30. The clock is always 0 and `Tick` moves
time stamps back, which keeps the states finite without a bound on time; `Horizon` is how far
back they are told apart.

**DeviceManagement.** `ctx.store` has the instances of the objects, `ctx.observed` is
`observedList`. A request is handled in one action, with the callbacks of the objects and
the observations it begins, ends or changes; `prelude` has requests handled before the
first step, so that an instance can start with observations. `write_resources` goes through
a payload up to the item that is refused; `observe_step` is in closed form: which watchers
are notified depends on the context it finds, and each gets the message ID after those of
the watchers before it. Values are small numbers; `Bad` cannot be
decoded and `Out` is out of range. `told` (what the last notification showed), `asked`
(the URI of the request) and `silent` (a server has changed the value, which the code never
reports) are history. `accept` says whether a request leaves the code a format for its answer:
it fits, `utils_getResponseFormat` refuses it, or the answer cannot be serialised, which comes
after an observation has begun. The change command of the application writes a resource or a
resource instance and reports it, or reports only. A text that is no number makes the float of a
test instance 0 before it is refused (`FloatLost`): `utils_textToFloat` stores the result of
`strtod` before it looks at it.

**Formats.** A behaviour writes one value, may cut what was written, and reads it; a
message that carries a block is also turned into the request of the next block, from its
own buffer as `prv_create_next_block_transaction` does. That function points Uri-Host and
Location-Query to arrays of a block that has ended, so their bytes are old or anything
(`Dangling`: the old bytes, or zeros). Lengths, headers and bytes are as
in the code. 64-bit limits keep their role and not their value (`UINT64_MAX`), because
TLC's integers have 32 bits; the numbers of paths have at most nine digits, as `uri.c:72` would
let an `int` overflow.

## Runs

| Run | Shows |
|---|---|
| `transaction_safety` | two peers, two transactions, two arbitrary packets: no freed node is listed, one callback, user data shared by blocks lives long enough, the cached pointer of the walk stays valid, `*timeoutP` covers every timer, `Outcome` is implemented |
| `transaction_timers` | `COAP_MAX_RETRANSMIT` 3: transmissions are bounded, not given up early, back off exponentially, and every transaction ends |
| `block1_upload` | three blocks over both networks: the buffer is always a prefix; over the timely one the payload is whole, answers end their own transaction, and 2.04 means success |
| `server_observations` | two endpoints, two URIs, ID counter at its wrap: observation IDs and URIs are unique, observations belong to the client they were asked of, the monitor hears of beginnings and ends, requests go only with their client |
| `server_block1` | endpoints that move and register with Block1: names and IDs are unique, registrations last for their lifetime, silent clients expire |
| `client` | four sets of accounts (two servers in order; one server; one server and a bootstrap server; a bootstrap server only), lost, refused and too large messages, commands of the bootstrap server, calls of the application: a registration the client believes in has not expired at the server; a status that waits has a request that will end it, unless a 2.31 or 4.13 was followed by nothing; entries of the server lists follow the accounts; the main loop gives up only without a bootstrap server; registering and bootstrapping end |
| `device` | two servers, 20 requests, resets, five commands of the application: entries of the observed list are never empty, doubled or shared; no reported change is lost; maximal periods are kept; refused requests change nothing but that float; a change is told |
| `formats` | about 170 values on both sides of the boundaries of the encodings: buffers are filled and not overrun, what is written is read back, the requests of an upload go together, of a cut input nothing is made up |
| `too_large_null` | violation: late 4.13 ACK, NULL dereference in `prv_change_to_block1` |
| `block1_truncated` | violation: late duplicate of block 0, shortened payload handed on as complete |
| `update_instances` | violation: an update removes observations of instances it lists |
| `cancel_twice` | violation: second cancellation, then `observe_remove(NULL)` |

**Bounds.** Each bound is a constant. Two transactions are needed for a clone and its
predecessor, or for a request issued by a callback behind the walk; two packets for an
ACK and the separate answer, or for a duplicate. `MidSpace` equals the number of
message IDs that are taken, so every start value and the wrap are covered. Times are in
units of `ResponseTimeout`; `transaction_timers` runs long enough for the full backoff
(1+2+4+8 ticks) after the last packet, `transaction_safety` uses `MaxRetransmit` 0 so
that expiry and callbacks come early. Three blocks are the least with a first, an inner
and a last block. Three client structures give two endpoints and a temporary client, or
an ID that is used twice. `MaxRequests` above `IdSpace` makes the ID counter wrap.
Symmetry of peers is used in `transaction_safety` (safety only).
In `client` all waits are one or two seconds and lifetimes two or three, so that an update
falls between the two ends of a lifetime and a retry before and behind it; payloads have
two blocks; two calls or commands per behaviour, or none with two servers, are enough for
a write and a Finish, a Delete and a time limit, or an update under a pending one. In
`device` three requests, resets or changes follow a prelude that leaves one observation
with both periods; message IDs are counted modulo 2, so a notification has the ID of an
old one or of a server's request. `MaxWait` is longer than the periods. In `formats` cuts
are made in the first 40 bytes and before the last one.

**Deadlock** is checked in `device`. Elsewhere it is not: counters and the clock are
bounded, a closed context stops, and a conversion ends.

**Fairness.** `WF(Step)`: the application calls `lwm2m_step` again and again, as the
main loops of `examples/` do, and each call returns. `SF(Tick)` (`WF` in `Server`): time
passes between the calls. `transaction_timers` also assumes that `lwm2m_step` is called
when a timer is due (`Punctual`), which is what `*timeoutP` asks for; the exponential
backoff does not hold otherwise, because deadlines advance from the old deadline. In `client`
the main loop's steps and callbacks are weakly fair, and infinitely many steps find a
connection (`Step("sent")` is strongly fair: with an error for ever a retry sequence is
not counted and does not end). In `device` the steps are weakly fair and time is strongly
fair, since packets end the wait. No
fairness is assumed of the network or of requests; `Terminates` bounds the number of
packets, since a peer that keeps answering 4.01 may prolong a transaction.

**What holds only under a restriction.** `FinishedByOwnAck` is checked for a transfer
that does not cross the wrap of `nextMID`: there a clone sorts before its predecessor
and is finished by the predecessor's ACK, since both have the token.
`ObservationIsClients` and `ObsIdsUnique` are checked for endpoints that keep their
session: transactions to an abandoned session survive the client and meet the next
owner of its ID. `MonitorAgrees` and `DroppedWithOwner` are checked without Block1
registrations: temporary clients are reported as deleted when they expire, and take the
transactions of their session along. In `server_block1` a client that registers again with
Block1 from its own session is taken for its own temporary client, freed, and reset in
freed memory (`registration.c:1861`): the action `Block1ResetsFreed` ends the behaviour.

`RegistrationKept` needs a lifetime longer than `COAP_MAX_TRANSMIT_WAIT` and not longer
than the one announced (updates do not announce a lifetime a server has written), and is
not claimed after a step that returned early because a bootstrap had failed. It speaks of
the time until the update is due: an update that cannot be made, for want of memory, is
late. `PendingIsAwaited` and `Settles` except a server whose status was left waiting by a 2.31 or
4.13 that no request followed. This happens: a plain update, which has no payload, answered 4.13
is neither repeated nor failed, although `packet.c:779` says "resend with smaller block size" and
`packet.c:841` "switch to a block1 request", and TLC finds the state when the exception is taken
away. Both properties say that there is no other way to wait in vain. `AccountsMatch` excepts a Security instance whose write failed half way, for which
`prv_tagServer` is not called, and a stale backup: when a bootstrap finishes without a
usable server the next one begins in the same step, so the main loop sees no change and
keeps the old backup; such a step may fail after some of the entries; and
`lwm2m_update_registration` fills an empty server list while bootstrapping.
`GivesUpWithoutBootstrap` excepts the same stale backup, half-done writes, and accounts that
`object_getServers` refuses, at which `lwm2m_step` fails before it has a list. Its last
exception was found by the proof: a bootstrap fails and the accounts are restored, a
registration still under way then fails, and its callback (`registration.c:559`) sets
`STATE_BOOTSTRAP_REQUIRED` before the next step. `STATE_INITIAL` and its refresh are skipped,
and the main loop gives up although the restored accounts name a bootstrap server. This needs
two servers and a bootstrap server whose own account is replaced, more than the instance of
the run holds. `NoChangeLost` excepts what servers write (nobody calls
`lwm2m_resource_value_changed` for it) and watchers that `prv_findObserved` attaches to an
entry with a longer URI. `ToldInTime` excepts observations with thresholds only: a change
that crosses none is not told. `RefusedChangesNothing` excepts payloads of several
resources, written up to the one refused, the replacement of an instance, deleted
first, and the float of a test instance, which a refused text makes 0.

`ReadBack` is checked for values the encodings hold. Of the request of a later block it says
that it has type, code, token and options of the first one, and the right piece of the payload.
Options none of the library's requests has are left out of this (Max-Age and Size are lost,
Uri-Host and Location-Query are undefined), and a request without a content format gets one:
`packet.c:257` sets it to the message type. Met while modelling and kept out of
the instance: `cbor.c` writes a float as half precision when the lowest 11 instead of 13
bits of the mantissa are zero; `data.c:101` puts the separator of an object link as text at a
fixed place, right for object IDs of five digits only; `utils.c` lets a number just above
`UINT64_MAX` wrap; with an OSCORE object the payload of a registration is longer than its
buffer (`objects.c:808` skips it, `objects.c:913` does not); an option of four bytes may
take one byte more than `coap_serialize_get_size` counts; a segment of an option longer
than 255 bytes loses its length. TLV rounds floats to single precision.

## Proofs

`TransactionProofs` proves for all values of the constants that satisfy the named
assumptions (`SizeAssumption`, `TimerAssumption`, `MidAssumption`, ...) that `Spec`
implies `[]IInv`, and from it type correctness, `ListedIsLive`, `CallbackOnce`,
`CursorValid`, `UserDataLive`, `WakeupCovers`, `TransmissionBound` and, as an action
property, `NoEarlyExpiry`.

The properties are not inductive by themselves. `transaction_remove` unlinks by message
ID, so `ListedIsLive` needs that IDs are unique in the list; that needs that the ID to be
taken next is not in use, which follows from the interval of IDs issued since
`lwm2m_init` (`MidInv`) and the assumption that it does not go once around
(`MidAssumption`; the code relies on it without a check). `CallbackOnce` and
`UserDataLive` need that identities are fresh (`IdInv`, `CallInv`, `DataInv`),
`TransmissionBound` that `retrans_counter` is one more than the transmissions
(`SendInv`), `CursorValid` and `WakeupCovers` what the walk has passed and that a
callback is only running after `*timeoutP` was set to 1 (`WalkInv`). The proof has one
lemma per action, and lemmas on `FirstOf`, `ListRm` and `NextP` for finite ordered
lists.

`OutcomeProofs` proves `Spec => Outcome` under the mapping of `Transaction`, action by
action: a step that completes a request is `Complete`, one that makes the clone for its next
block hands the request over, everything else stutters.

`TimerProofs` proves `ExponentialBackoff` from `TimerInv`: no deadline is in the past, and
each leaves the backoff its time after the last transmission. Two hypotheses are needed.
`Punctual`: deadlines advance from the old deadline, so a late `lwm2m_step` shortens the next
wait. `Patience`: an ACK replaces the deadline, and the new one must not come before the
backoff is over; the lemma `DefaultsArePatient` shows it for up to 4 retransmissions and a
`COAP_SEPARATE_TIMEOUT` not below `COAP_RESPONSE_TIMEOUT`, which the defaults are.

`BlockTransferProofs` lifts the theorems about the sender to the composition (its steps are
steps of `Transaction`) and proves, for any number of blocks,
- `BufferIsPrefix` over both networks (`TransferInv`);
- `TimelyIsComplete`, `FinishedByOwnAck` and `SuccessIsReal` over the network that only loses
  messages (`TimelyInv`: at most one message is under way, it belongs to the one transaction
  listed, and its block is the receiver's last or next). Here `Punctual` is a hypothesis, since a late step
  sends a block twice at once and its second ACK finishes the next block (TLC shows this with
  three retransmissions), and `NoWrap`, that the transfer does not cross the wrap of
  `nextMID`, since a clone with a smaller ID would be found before its predecessor.

`ServerProofs` proves type correctness, `RegistryUnique` and `OnePerUri` without further
hypotheses, and the rest under those the code needs:
- `RegistrationHolds`; with Block1 registrations for `SessionOwned` endpoints, because the
  code takes the client that has the session of a last block for its temporary client;
- `ObservationIsClients` and `ObsIdsUnique` for `OneSession` endpoints, because
  `registration_freeClient` finds the transactions of a client by its present session;
- `MonitorAgrees` and, for such endpoints, `DroppedWithOwner` without Block1 registrations.
The invariants are `RegInv` (IDs, names and structures of the registry), `HoldInv` (a
promise has a client that lives as long), `OwnInv` (a request outstanding is for the
structure its client ID leads to), `IdsInv` (observation IDs issued and outstanding lie in
one window below the counter) and `MonitorInv`.

`DeviceManagementProofs` proves all five invariants of `DeviceManagement`, for any requests,
attributes, message IDs and periods that satisfy `BoundAssumption`, `AttributeAssumption`,
`RequestAssumption` and `NoneAssumption` (the mark for no value is not a number). `DmInv` adds to them the types of the context (an instance has every
resource its object lists, which reads rely on) and `WakesInTime`, which is `PmaxKept` with
the time that is left, so that `Tick` preserves it. Lemmas say what each operation does to
the observed list (`GetWatcherIs`, `CancelIs`, `ClearIs`, `PutAll`, ...) and to the objects
(`WriteIs`, `CreateIs`, ...; `WrittenExists` makes the recursion over a payload well defined,
by the least counterexample). `NoChangeLost` rests on `Unseen`: a change of one resource shows
at overlapping URIs only, the ones `lwm2m_resource_value_changed` tags. `RefusedChangesNothing`
is not a matter of one callback: `Traceless` goes through what each write may leave behind, and
`FloatLostIs` shows that the float is all of it.

`ClientProofs` proves the four invariants of `Client` and `GivesUpWithoutBootstrap`, for any
accounts, commands, faults, lifetimes and times. Assumed are the types of accounts and commands
(`ResourceAssumption`, `AccountAssumption`, `CommandAssumption`: what the decoders and the
objects let through), of the configuration (`TimerAssumption`, with `Overshift` any integer,
and `ExchangeAssumption`), and that `Horizon` goes back as far as lifetimes and transactions
(`BoundAssumption`). Each operation on contexts has a lemma that says what it keeps, in terms of
relations between the context before and after (`SameEntries`, `Renewed`, `Rewrites`,
`Answers`, ...); each action has one on top of them. The invariants are
- `ClientInv`, with `Good` (the context is well formed, and a status that waits has its
  request or is marked as dropped by an answer of `GoesOn` that nothing followed), the types of backup, wait and servers' registrations, and `Lists` (when the list of
  bootstrap servers is empty the accounts name none, except before the refresh of
  `STATE_INITIAL`). `PendingIsAwaited` alone is not inductive: an update is sent on the
  session and to the location that the registration left behind, so what each status says of
  session, location and counters is part of it (`IsServer`), and a reply is for one of the two
  lists, which must be disjoint;
- `AccountsInv` for `AccountsMatch`: entries also match the backup as long as it may be
  restored, or restoring it would bring a mismatch back;
- `Underway` for `GivesUpWithoutBootstrap`: a bootstrap that a command has begun between two
  steps, unknown to the main loop and without a backup, cannot have failed by the next step;
- `Timely` for `RegistrationKept`: a transaction is never older than `COAP_MAX_TRANSMIT_WAIT`
  because the main loop wakes every second while there are any, so a registration at the
  server is at most that much older than the client's, and `wake` covers the next update.

`TypeOK` says more than types here: the counters of attempts and sequences have 8 bits, and
the proof shows that they stay within the limits the code compares them with.

Only model-checked: liveness (`Terminates`, `SilentExpires`, `ToldInTime`, `Settles`), which is
out of the prover's reach, and the formats (`WrittenFits`, `ReadBack`, `CutIsPrefix`), whose
writers and readers are recursive over data: what a recursive definition computes for every
input needs an induction theorem with an operator as parameter, which the provers cannot
instantiate, and RECURSIVE operators.

## Not modelled

- Updates and deletions sent to a location that is not the sender's own (`Knows`):
  `registration.c:1921` checks neither name nor session. Numbers in paths that overflow an `int`.
- Failing allocations in `block.c`; a failing `lwm2m_gettime` for a clone; block sizes that
  change during a transfer in `BlockTransfer` (`Transaction` lets them change); raw Block1
  mode; reassembly of Block2; the empty ACK sent for a separate response.
- JSON, SenML JSON and SenML CBOR, floats as text: stateless conversions; composite reads,
  which use them; `lwm2m_send`; the attributes in the text of a Discover.
- The bootstrap server and the Send callback of the server: no state of their own.
- Statistics counters and setters of the connectivity and location objects, which nothing
  in the library calls; the light client, whose objects are copies.
- Sockets, DTLS, logging, command lines.

Not covered by a property: a block size changed by the peer and a division by zero
(`packet.c:384`), a wrap of the message IDs (`packet.c:355`) or of the observation IDs with
requests under way, the answer to a repeated last block whose payload was refused
(`packet.c:676`), a failing
allocation (`block.c:250`), a cancellation overtaken by a renewal (`observe.c:1059`), an update
to a location that was given to another client (`registration.c:1921`), and callbacks of
freed servers (`liblwm2m.c:198`), which the model of the client shows to be reachable.
`registration.c:559` and `registration.c:612` are covered only as said above: the skipped
refresh is an exception of the property, and the length of an undefined delay is not claimed.

## Plan

1. Done: `Transaction`, `Outcome`, `TransactionProofs`, `BlockHandler`, `BlockTransfer`,
   `Server`.
2. Done: `Accounts`, `Registration`, `Bootstrap`, `Client`; `ExampleObjects`, `Objects`,
   `Observe`, `DeviceManagement`; `Texts`, `RegisterRequest`, `Payloads`, `CoapMessage`,
   `Formats`.
3. Done: `TimerProofs`, `OutcomeProofs`, `BlockTransferProofs`, `ServerProofs`,
   `DeviceManagementProofs`, `ClientProofs`.
4. Later: `prv_coap_block_handler` with failing allocations, Block2 reassembly, composite
   reads.
