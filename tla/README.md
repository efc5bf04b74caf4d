# A TLA+ verification of the LwM2M client

The repository is an LwM2M client for Ubuntu Core devices: a Go program
(`cmd/clientlwm2miotr25`, `lwm2m/*.go`) that runs an event loop around a C
client (`lwm2m/src`) built on the Wakaama LwM2M engine (`lwm2m/wakaama`). It
registers the device with one or more LwM2M servers, keeps the registrations
alive and offers the installed snaps as LwM2M objects.

This directory holds TLA+ models of the engine, of both its client and its
server half, and of the C client around it: what is modelled, what TLC checks of
it on small instances, and what TLAPS proves for all of them.

## The system

| part | source | state | operations | talks to | model |
|---|---|---|---|---|---|
| Event loop | `cmd/clientlwm2miotr25/main.go`, `src/lwm2mclient.c` | `previousState`, the `select` timeout, the snaps last seen, the backup of the accounts | `RefreshData`, `SendData`, `WaitForTimeout`, `ReadData`, in this order for ever, in one thread | calls `lwm2m_step` and `lwm2m_handle_packet` | `Registration`, `Bootstrap` |
| Client state machine | `core/liblwm2m.c` | `contextP->state`, server and object lists | `lwm2m_step`, adding and removing objects | calls `registration_*`, `bootstrap_*`, `transaction_step` | `Registration`, `Bootstrap` |
| Registration | `core/registration.c` | per server: status, attempt, sequence, time of the next action, session, location | start, register, update, deregister, step, and a callback per request | sends transactions, is called back by them | `Registration` |
| CoAP transactions | `coap/transaction.c` | list of requests: acknowledged, retransmission counter and time | `transaction_send`, `transaction_step`, `transaction_handleResponse` | callbacks of whoever sent the request | `CoapTransaction` |
| CoAP messages | `coap/er-coap-13` | a packet and its options | setters, size, serialise, parse | packet.c, both ends | `CoapMessage`, `Codec` |
| Message dispatch | `core/packet.c` | none | `lwm2m_handle_packet`, `message_send`, switching a request to blocks | all of the others | in the actions of the others, `Codec` |
| Block-wise transfer | `coap/block.c`, `core/packet.c` | per URI: last block number, buffer | `prv_coap_block_handler` | hands complete payloads to the objects | `BlockTransfer` |
| Bootstrap | `core/bootstrap.c`, `object_getServers`, backup in `src/lwm2mclient.c` | per bootstrap server: status and timer; dirty servers; copies of the accounts | request, command, delete all, finish, time out, roll back | replaces the server list | `Bootstrap`, `AccountStore` |
| Observation | `core/observe.c` | observed URIs, per server watchers with attributes and last value | observe, cancel, reset, write attributes, value changed, step, delete | sends notifications | `Observe` |
| Device management | `core/management.c`, `core/objects.c` | object list, lifetime and binding of each server | read, discover, write, execute, create, delete | objects; asks for registration updates | `DeviceManagement` |
| Objects | `examples/client/object_*.c`, copies in `src/object_*.c` | instances with their resources | the six callbacks | the core | `Objects` |
| Data encoders | `data/*.c`, `core/uri.c`, `core/utils.c`, `core/objects.c` | none | TLV, text, opaque, base64, URIs, registration query and object list | both ends | `DataCodec`, `RegisterMessage`, `Codec` |
| Server mode | the other halves of `registration.c`, `observe.c`, `management.c` | clients, their observations, calls under way | Register, Update, Deregister, expiry, observe, cancel, notify, `lwm2m_dm_*` | devices, the user's callbacks | `LwM2mServer` |
| Snap objects, Go client | `lwm2m/callbacks_*.go`, `objects/*.go` | the cached list of snaps | read, write, execute, discover | snapd over HTTP | not modelled |
| Configuration, pivot | `lwm2m/config.go`, `pivot/pivot.go` | files in `$SNAP_DATA` | write, read, fetch assertions | the serial vault | not modelled |

What makes these parts hard:

- *Failure and ordering of messages.* Requests and answers are lost, repeated,
  late and out of order; the peers choose message ids of their own.
- *Timeouts and retries at three levels*: retransmissions of a transaction,
  attempts and sequences of a registration, and the bootstrap after that. The
  counters are reset and counted in different functions.
- *Callbacks that find another state than the one they were made for.* A
  registration callback looks at the server's status, not at its request; a
  server's observe callback finds a client by an id that may be another's now.
- *Early returns.* `lwm2m_step` runs several machines one after the other and
  returns from the middle when one of them fails.
- *Cached state*: the object list a server was sent, lifetime and binding beside
  the Server object, server lists built from accounts that a bootstrap edits.
- *Half-done requests*: several resources or instances are written one by one,
  and one of them is refused.
- *Two functions that must agree*: one counts the bytes and another writes them,
  one writes a format and another reads it, one lists resources and another
  reads them.

There is one thread. The interleavings are those of the event loop with the
network, the servers, the user of the server library and the application, and,
inside one turn, the order of callbacks.

The complete list of hazards, each with its line and the properties about it, is
`hazards` in `PROJECT.json`.

## The modules

Each component module declares its CONSTANTS with a named ASSUME, its state, one
action per operation, `Spec` (and `FairSpec`), and its properties at the end,
first of all the type invariant `TypeOK`. `MC*` modules give the constants values
for TLC; `*Proofs` modules hold the theorems. Definitions named `..._<word>` next
to a definition are faulty variants of it, with a comment that says what is
wrong: replacing the original by the variant must break the property that is
meant to catch it (`mutants` in `PROJECT.json`).

How the modules hang together:

- `AccountStore` is an abstract specification; `Bootstrap` implements it under
  the refinement mapping `Store` (`AccountsTransactional`).
- `DeviceManagement` EXTENDS `Objects`: the core calls the objects' callbacks.
- `Codec` composes `CoapMessage`, `DataCodec` and `RegisterMessage`: what one end
  writes with them the other reads.
- `Registration`, `Bootstrap`, `Observe`, `DeviceManagement` and `LwM2mServer`
  rely on `CoapTransaction` for their requests: each ends once, and does end.
- `Registration` takes the bootstrap for one step that ends either way, which
  `BootstrapEnds` shows of `Bootstrap`; there, a registration is an event.
- `Observe` takes the linked lists' operations from `Lists`; the proof modules
  share `ListLemmas`.
- `LwM2mServer` is the peer of `Observe` and `Registration`; it has a small model
  of a device (`dev`), marked external, in the place of them.

### CoapTransaction: `coap/transaction.c`

One record per message id with the fields of `lwm2m_transaction_t`. Time is
relative: `left` is `retrans_time` minus the clock. `SendRequest` is
`transaction_new` with the first `transaction_send`; `transaction_step` treats
every due transaction and computes `*timeoutP`; `Receive` is the way of an
answer through `lwm2m_handle_packet` to `transaction_handleResponse`. The peer
may deliver any answer to a request it was sent, any number of times, also after
the transaction is gone: loss, duplication, delay and reordering are this
choice. `response_timeout` is always 0 in this client. Serialisation succeeds or
fails (`SendFails`).

Properties: the callback runs exactly once (`CallbackOnce`); at most
`COAP_MAX_RETRANSMIT + 1` transmissions (`TransmitBound`); the back-off is never
shortened, although each pause is counted from when it was due
(`BackoffKept`); a transaction ends within the margin by which registrations
are renewed (`EndsInTime`); the event loop does not sleep past a due transaction
(`NoOversleep`); every request ends (`EveryRequestEnds`).

### Registration: `core/registration.c`, `lwm2m_step`, `sendData`

`context` is `lwm2m_context_t` with one `lwm2m_server_t` per server; `reqs` the
requests outstanding, in the order of the transaction list. A request ends by an
answer (`readData`) or by being given up (`GiveUp`); that each of them ends
once and does end is what CoapTransaction shows, and is assumed here. The
handlers of the code are operators from context to context under their own
names (`registration_start`, `prv_handleRegistrationReply`, ...). A turn of
`sendData` runs `Advance` (the switch in `lwm2m_step`), `registration_step`, then
one `GiveUp` per request whose last retransmission is over, then
`EndOfSendData` (`update_bootstrap_info`). Nothing else of the client happens in
between. Timers are flags that `Elapse` sets. The bootstrap is one step that
ends either way; whether there is a bootstrap server (`bootstrapServer`) is a
choice of `Init`. Servers handle a request once, may refuse anything, forget
registrations, be out of reach, or never answer.

Fields and variables that are history only: `tries`, `want`, `overlap`,
`waiting`, the servers' `remote`, and `unreachable`, the servers the last turn could
not connect to.

Properties: retry limits hold (`TriesBounded`); a pending status has its request
(`PendingHasRequest`); an update with objects that was asked for is sent
(`FullUpdateHonoured`); a server believed registered has the current object list
(`ListCurrent`); the order of registration is kept (`OrderKept`); registering
ends, unless every connection to a server fails for ever, which `prv_register` counts
as no attempt (`RegisteringEnds`); in any state requests go on ending while there are
some, but for a client that needs a bootstrap and has no bootstrap server
(`RequestsEnd`, `Stranded`).

### BlockTransfer: `coap/block.c`, `core/packet.c`

`data` is the `lwm2m_block_data_t` of one URI; `prv_coap_block_handler` and the
answer `lwm2m_handle_packet` makes of its result are translated, with the size
check that tells a short last block from a full one. The server and the network
are external: a stop-and-wait sender with retransmission, FIFO or reordering
channels that lose. `handle_request` succeeds or fails.

Properties: what is handed on is one whole payload (`DeliveredWhole`), once
(`ExecutedOnce`), the buffer has no hole (`Contiguous`), and a server that was
told of success had its payload handed on (`SuccessMeansExecuted`).

### Bootstrap, AccountStore: `core/bootstrap.c`, `object_getServers`, `src/lwm2mclient.c`

`cx` has the state of `lwm2m_step` and the `previousState` of the application, the
Security and Server Objects and their backup, the bootstrap servers with status,
timer, session and the dirty mark, the servers made from the accounts, and the
requests outstanding. An account is what counts of a Security instance: whether it
is of a bootstrap server, and its short id. `Send` is one `sendData`:
`lwm2m_step` with `bootstrap_step`, the backup on entering the bootstrap and the
rollback when a step fails. `Command` is `bootstrap_handleCommand` on any URI, with
writes of several instances that fail at one of them; `DeleteAll` and
`FinishMessage` the two other operations. `Reply` ends a bootstrap request by an
answer or without one; `Registers` stands for `Registration`. A registration that fails
for good, in `Registers` or given up by the `transaction_step` of a turn, asks for a
bootstrap if its short id is in `BootstrapOnFailure`, as by default all are. What a turn
meets is a choice: peers out of reach, a query too long for its buffer, a transaction
that cannot be made. That `transaction_send` fails at once is left out.

`AccountStore` says what it promises: the accounts are edited in a transaction. It is
committed only after a bootstrap server was accepted as finished and when all
accounts can be read, as far as the client can tell: an account whose instance it
lists is not read, so that the promise is only made when what is listed is of the
accounts (`listed`, mapped to `ListFollows`). It is aborted only if none was accepted, an
account cannot be read, or none leads to a server; an abort gives back what was
committed before. The mapping takes the backup for the committed accounts. A bootstrap can
be interrupted: a registration that is given up while it goes on, or in the turn that
starts it, and asks for one itself, takes the state out of BOOTSTRAPPING, sessions open.
`update_bootstrap_info` takes that for the end, so that what was edited stays
(`Interrupt`), what the bootstrap server writes until the next turn too (`Leak`), and the
next bootstrap takes its backup of it. The history `interrupted` marks it. An accepted bootstrap can still be undone
(`SuccessKept` does not hold); the history `undone` marks it, as the list of servers
is then not that of the accounts (`OldServersRestarted`, a finding).

Properties: that refinement (`AccountsTransactional`); until then, the list of
servers follows the accounts (`ServersMatchAccounts`); no bootstrap server keeps a
session that lets it edit accounts afterwards, unless the bootstrap was interrupted and is
about to start again (`SessionsClosed`); deleting all
accounts leaves a client that can be bootstrapped, as long as no bootstrap was interrupted
(`BootstrapAccountKept`); a bootstrap ends,
whatever the server does (`BootstrapEnds`).

### Observe: `core/observe.c`, the client's half

`observed` is `contextP->observedList`: URIs with a list of watchers, each with
server, token, active and update flags, attributes, age (the time since
`lastTime`), message id and last value. One action per operation: observe, cancel
by the request or by a reset, write attributes, value changed, deletion of an
instance, and `observe_step`, which goes through the watchers in order with the
conditions of the code under the names of what they test (`OnChange`,
`LowerThreshold`, `UpperThreshold`, `StepReached`, `MinPeriodHolds`). History:
`sub`, what the server believes.

Properties: a change is not forgotten until it is sent (`NoChangeForgotten`) and is
reported in time (`ChangeReported`); an observation stays until its own server ends
it, although ids of two servers may be the same (`SubscriptionKept`); the minimum
and the maximum period hold (`MinPeriodKept`, `MaxPeriodKept`).

### DeviceManagement, Objects: `core/management.c`, `core/objects.c`, `examples/client/object_*.c`

`Objects` has the eight objects of the example client, resource by resource: which
are there, can be read, written or executed, in which range, in which order a
write of several is applied and where it stops. An instance is a function from
its resources to values; an access control list is the linked list of its entries,
as the code adds to it and looks for an entry in it: an id that comes twice is kept
twice, and which of the two is found depends on where it is and on copies made since.
C widths are the constants `MaxUint8` to `MaxUint32`.
`DeviceManagement` is `dm_handleRequest` over them (`Request`), changes by the
application, calls of `lwm2m_update_registration`, the updates and their answers:
`carried` holds the object lists on their way, `told` what a server has. History:
`unsynced`, the Server instances whose values the core was not told, or was told and
then told those of another instance with the same short id, which it cannot tell apart.

Properties: every instance is announced to the servers (`InstancesAdvertised`); the
core's lifetime and binding are those of the Server object (`CoreInSync`); a refused
request leaves no trace (`RefusedLeavesNoTrace`); what was written is what is read
(`WrittenIsRead`); reading a whole instance, reading one resource and discovering
agree (`ReadsAgree`).

### LwM2mServer: the server's half of `registration.c`, `observe.c`, `management.c`

`clients` is the client list with the observations of each in the order of the
sorted list; `trans` the requests under way with the kind of callback; `dev` the
devices: where they believe to be registered, their objects and what they watch.
History: `serial` numbers the registrations, 0 standing for a request that was made
through another device's record; `misplaced` the calls answered with a Location-Path
that is not of the object; `untold` has the watches that a request ended or
changed without telling the user who observes (`Untold`).

Devices register, in one message or in blocks, update with or without their objects,
deregister and restart without memory. `Step` is the `registration_step` of the server: as
a device says how long it lives, any set of clients may have expired. The user observes,
cancels, reads, creates and deletes. Requests reach a device in any order, as each is sent
again on its own, and are answered or time out; a device may answer an observe without
watching (a 2.05 without the option Observe, reported as 4.05) and place what it creates
outside of the object. With `InOrder` its answers and notifications come in the order in
which it sent them. Three ways lead to a use of freed or missing memory, after which the
model stops (`crashed`, `PointersValid`): an observation that is gone when its
cancellation is answered, one whose id is another's by then, and a Register in blocks
of a device that is registered, which frees the record it found (registration.c:1857).

Properties: a path has one observation (`OneObservationPerPath`); a notification
reaches the callback of its path (`NotifiedRight`); server and device agree on what
is observed (`ObservationAgrees`); each call's callback runs or its request is still
under way, but for a create with a misplaced location, of which `prv_resultCallback`
does not tell the user (`NoCallForgotten`).

### CoapMessage, DataCodec, RegisterMessage, Codec: the formats

`CoapMessage`: the packet with its options, the setters, the option headers with
their extended deltas and lengths, the order of the options on the wire, the size
computed before, and the parser. `DataCodec`: TLV with nested containers and the
widths of integers, decimal text, base64. `RegisterMessage`: the query and the
object list of a Register on both sides, paths of requests, locations, URIs as
text. They are functions; RECURSIVE ones where the code loops over data, so no
theorem is stated in modules that use them. `Codec` lets two ends use them in five
exchanges, one step per end.

Properties: a message, data, a registration, a request path and a location are
read as they were written (`MessageRoundTrip`, `DataRoundTrip`,
`RegisterUnderstood`, `RequestUnderstood`, `PathsReturn`), and what is written fits
the size another function computed (`SizesSuffice`).

## The runs

| run | instance | distinct states | shows |
|---|---|---|---|
| `transactions` | 2 requests, 2 peers, peers' ids that collide with the client's, 2 retransmissions, a step up to 1 s late, a 4.01 answer, fair loop | 170,644 | `CallbackOnce`, `NoOversleep`, `BackoffKept`, `EndsInTime`, `EveryRequestEnds` |
| `registration_one` | 1 server that may refuse, forget, be out of reach or never answer, with and without a bootstrap server, 2 sequences, list changes twice, the calls of this client, fair loop | 228,899 | `PendingHasRequest`, `FullUpdateHonoured`, `ListCurrent`, `RegisteringEnds`, `RequestsEnd` |
| `registration_api` | 1 server, 2 attempts, 2 sequences, every call of the library, deregistration, 4.13, connections that fail | 502,838 | `TriesBounded` |
| `registration_order` | 2 ordered servers, order opposite to the list | 1,397,842 | `OrderKept` |
| `block_in_order` | transfers of 2, 3 and 2 blocks, 3 copies each, FIFO with loss | 17,805 | `DeliveredWhole`, `ExecutedOnce`, `SuccessMeansExecuted` |
| `observe_client` | 2 servers, 3 observations of a numeric resource and an instance, tokens that coincide, three attribute writes, a deletion | 251,912 | `NoChangeForgotten`, `SubscriptionKept`, `MaxPeriodKept`, `MinPeriodKept`, `ChangeReported` |
| `bootstrap_client` | 1 bootstrap server, 2 servers, 4 instance ids, 2 short ids, 15 commands of which 3 are sent, the own account rewritten too, writes that fail, requests that are lost or cannot be made, every failing registration asking for a bootstrap, fair loop | 228,053 | `AccountsTransactional`, `BootstrapEnds`, `ServersMatchAccounts`, `SessionsClosed`, `BootstrapAccountKept` |
| `management_client` | 37 requests to 8 objects, 2 servers, 3 changes with effect, 2 updates on their way | 64,438 | `InstancesAdvertised`, `CoreInSync`, `RefusedLeavesNoTrace`, `WrittenIsRead`, `ReadsAgree` |
| `server_side` | 2 devices (symmetric), 2 paths, 3 calls, 2 requests under way in any order, 2 registrations, in blocks too | 3,679,799 | `OneObservationPerPath`, `NotifiedRight`, `ObservationAgrees`, `NoCallForgotten` |
| `codec` | messages by two setters in any order, about 500 lists of data, 60 clients, URIs and locations at the boundaries | 14,335 | `MessageRoundTrip`, `DataRoundTrip`, `RegisterUnderstood`, `RequestUnderstood`, `SizesSuffice`, `PathsReturn` |

Two runs expect a violation: each states what a comment of the repository says
and finds a behaviour of the code that does otherwise. `findings` in
`PROJECT.json` quotes the lines.

| run | property | behaviour |
|---|---|---|
| `server_freed_unused` | `FreedUnused` | observing a path again tells the user to free the user data that stays in use |
| `rollback_servers` | `OldServersRestarted` | a finish is accepted and then undone, as the account of a listed server has lost its short id, which nothing looks at before that server is dropped; the client keeps a server that it made of an account the rollback took back |

Behaviours of the models, and so of the code, that bound what the properties say.
None of them is excluded by a property of a passing run; where a property would
state it, it is written down with "Not checked" and the reason.

- A separate response comes under the peer's own message id and does not finish
  its transaction, which ends by its timeout.
- 4.13 with a block size that is not smaller leaves a registration pending without
  a request (`PendingHasRequest` is checked without 4.13).
- Without any bootstrap server, a client that needs a bootstrap returns from `lwm2m_step`
  before `transaction_step` in every turn: requests outstanding are neither sent again nor
  given up, although the function is to "perform any required pending operation".
  `RequestsEnd` has this one exception (`Stranded`) and is violated without it.
- A connection that cannot be opened counts in neither retry limit: `prv_register` returns
  before it changes the status or counts the attempt, and `registration_step` ignores its
  result. A client whose server is out of reach for ever stays in REGISTERING; that is
  the premise of `RegisteringEnds`.
- After a restart of failed servers an ordered one may never get its turn
  (`NoneWaiting`).
- While an update without objects is needed, `lwm2m_update_registration(0, true)`
  does not turn it into one with objects, nor does a call without objects for a
  server that needs one with them (`ObjectListSent`).
- The answer to an older update ends the wait for a newer one, as the callback
  only looks at the status; `ListCurrent` leaves such overlaps out.
- On a network that reorders, a late copy of block 0 leads to a truncated payload
  (`DeliveredWhole` is checked in order; `Contiguous` is proved for any order).
  When the refusal of a request in blocks is lost, its last block is sent again
  and answered 2.04; `SuccessMeansExecuted` only says that the payload was handed on.
- Attributes written to a watcher that has some are stored without their flags
  (`AttributesTakeEffect`).
- A command that makes a bootstrap pending out of HOLD_OFF or INITIATED does not set its
  timer (`prv_checkServerStatus`): it is given up at the time set before.
- When two servers are tried at a time, a registration that fails during a bootstrap, and
  asks for one, which is the default, takes the state out of BOOTSTRAPPING with the
  sessions open. When it does so in the turn that starts a bootstrap, nothing is backed up
  before the bootstrap server may write, and what it wrote is in the backup made a
  turn later. The promises are stated with that: `Interrupt` and `Leak` of `AccountStore`,
  the second case of `SessionsClosed`, the premise of `BootstrapAccountKept`.
- A bootstrap that adds a bootstrap server, leads to no other server and fails the
  second time is rolled back to before the first; the added bootstrap server stays
  listed without an account. `BootstrapAccountKept` is checked without one.
- The server keeps a client's alternative path without its slash and drops one more
  character in its requests, which the client does not understand;
  `RequestUnderstood` is checked for clients without one.
- A write of several resources is applied up to the first refused one and not
  reflected in the core (`ServerWriteReflected`), and a replacement whose creation
  is refused leaves no instance.
- A server that cancels twice uses a null pointer, and a Register in blocks from a device
  that is registered frees the record it then writes (`PointersValid`); the model stops
  there, and the other properties speak of the states before.
- A create that is answered 2.01 with a Location-Path that cannot be read, is no URI or is
  not of an instance of the object ends without a call of the user's callback
  (management.c:441-463); `NoCallForgotten` has this exception.
- An observe or cancel of an earlier registration that reaches the device after one of a
  later registration changes what the device watches under the later one; the user is not
  told (`Untold`, the exception of `ObservationAgrees`). It takes three requests of two
  registrations, more than the run has under way: `ServerAndDeviceAgree` is proved for
  any number.
- A server refuses a registration with queue mode; `RegisterUnderstood` is checked
  for clients without it. Unsigned numbers whose top bit is set and containers
  without entries do not survive TLV.

### Bounds

Every bound is a constant with a name.

- *CoapTransaction*: two requests are enough for interference, as a handler only
  touches the transaction whose id it finds; peers' ids collide with the
  client's. `MaxLag` bounds how late a step is and `MaxDenied` the 4.01 answers;
  the theorems hold for any value.
- *Registration*: `MaxRequests` stops new work while two requests to a server are
  outstanding, which is enough for one to overtake another; the client itself
  never makes more than one per turn. `MaxVersion` bounds the changes of the
  object list: one during a request and one after it. Two attempts and two
  sequences reach every branch of the retry logic, first, middle and last.
  Connections that fail are not bounded.
- *BlockTransfer*: `MaxCopies` and `MaxFlight` bound the copies of one block and
  the messages in flight. Three blocks are the least with one in the middle;
  a second and a third transfer meet what the one before left in the buffer.
- *Bootstrap*: `MaxCommands` is enough for two edits and a finish, and for commands on
  both sides of a failure or an interruption; the theorems hold for any number.
  `MaxRequests` lets an old answer meet a new request. Two short ids and four instance ids give accounts
  that share a short id, change it, or lie in the place of another.
- *Observe*: `MaxWatchers` is two, so that one is before the other in a list or in
  another list; `MaxAge` is the larger period, after which more time makes no
  difference. Values 0 and 1 with limits 3, 2, 0 and steps 1 reach each side of
  each threshold.
- *DeviceManagement*: `MaxChanges` bounds the requests with an effect, after each
  of which all 37 requests are tried; `MaxInstances` is one more than there are
  at first; `MaxCarried` lets one update overtake the next's need.
- *LwM2mServer*: `MaxCalls`, `MaxTrans`, `MaxSerial`: a path is observed, cancelled
  and observed again, while a device registers twice; two devices exchange ids.
- *Codec*: `MaxCalls` setters, as the delta of an option depends on the one before
  only. Lengths and numbers lie on both sides of each boundary of the formats.
  `Byte` is 16 for TLV and the largest integer is `UIntMax`, so that the widths of
  1, 2, 4 and 8 digits are within TLC's integers; the code's values are 256 and
  2^64 - 1, and nothing depends on more than the assumption `CodecAssumption`.

`CHECK_DEADLOCK FALSE` is set where the model ends: when all of the finitely many
requests, transfers, calls or exchanges are over, or an observed instance is
gone. The others check deadlock.

### Fairness

The event loop of `main.go` never stops, so `SendData`, `GiveUp`,
`EndOfSendData`, `transaction_step` and the `Send` of Bootstrap are weakly fair, and
so is the passing of time (`Tick`, `Elapse`). In Bootstrap a request ends by an
answer or without one (`Reply`), and in Registration the oldest request comes to its
last retransmission with strong fairness, as it can only be given up inside a turn
of the loop; that a request ends is `EveryRequestEnds`, which assumes nothing of the
peer. No fairness is assumed of servers, of the network, or of the application.
`RegisteringEnds` has one premise, which is part of its statement: no server is out of
reach in every turn from some time on (`Reachable`).

## The proofs

For every value of the constants allowed by the ASSUMEs:

| module | theorem | statement |
|---|---|---|
| `CoapTransactionProofs` | `TypeCorrect`, `CallbackCorrect`, `TransmissionsBounded`, `BackoffCorrect`, `LifetimeBounded`, `SleepBounded` | `Spec` implies always `TypeOK`, `CallbackOnce`, `TransmitBound`, `BackoffKept`, `EndsInTime`, `NoOversleep` |
| `RegistrationProofs` | `TypeCorrect`, `RegistrationsBounded` | always `TypeOK`, `TriesBounded` |
| `RegistrationProofs` | `PendingServed` | always `PendingHasRequest`, if `TooLarge` is FALSE |
| `RegistrationProofs` | `OrderHolds` | always `OrderKept`, if `Deregisters` is FALSE |
| `RegistrationProofs` | `FullUpdates`, `ServersCurrent` | always `FullUpdateHonoured`, `ListCurrent`, if every call in `ApiCalls` asks for the object list |
| `BlockTransferProofs` | `TypeCorrect`, `BufferContiguous` | always `TypeOK`, `Contiguous` |
| `BlockTransferProofs` | `WholeDelivered`, `OnceExecuted`, `SuccessExecuted` | always `DeliveredWhole`, `ExecutedOnce`, `SuccessMeansExecuted`, if `Reorder` is FALSE |
| `ObserveProofs` | `TypeCorrect`, `MinPeriods`, `MaxPeriods` | always `TypeOK`, `MinPeriodKept`, `MaxPeriodKept` |
| `ObserveProofs` | `Subscriptions` | always `SubscriptionKept`, if `UrisApart` |
| `ObserveProofs` | `ChangesTagged`, `ChangesInTime` | always `NoChangeForgotten`, `ChangeReported`, if `UrisApart` and `DeletesApart` |
| `BootstrapProofs` | `TypeCorrect`, `ServersFollow` | always `TypeOK`, `ServersMatchAccounts` |
| `BootstrapProofs` | `SessionsEnd`, `Transactional` | always `SessionsClosed`, and `AccountsTransactional` (the refinement of `AccountStore`) |
| `BootstrapProofs` | `OwnAccountKept` | always `BootstrapAccountKept`, if a bootstrap server is only ever configured at one instance |
| `DeviceManagementProofs` | `TypeCorrect`, `AllAdvertised`, `InSyncAlways` | always `TypeOK`, `InstancesAdvertised`, `CoreInSync` |
| `DeviceManagementProofs` | `NoTrace`, `ReadsBack`, `ListsAgree` | always `RefusedLeavesNoTrace`, `WrittenIsRead`, `ReadsAgree` |
| `LwM2mServerProofs` | `CallsAnswered`, `OnePerPath`, `RightNotified` | always `NoCallForgotten`, `OneObservationPerPath`, `NotifiedRight` |
| `LwM2mServerProofs` | `ServerAndDeviceAgree` | always `ObservationAgrees`, if `InOrder` is TRUE |

Each module has an inductive invariant, in named parts, and one lemma per action
and part; `ListLemmas` holds what they share about sequences and induction.

- *Transactions.* None of the bounds is inductive by itself. `IInv` ties
  `retrans_counter` to the transmissions (`ctr = sent + 1` while listed), and
  age plus remaining time to the part of the schedule used so far, from below
  for `BackoffKept` and from above for `EndsInTime`. The facts about powers of
  two the shift needs are the assumption `ShiftAssumption`, which TLC evaluates.
- *Registration.* `TriesBounded` speaks of a product; `Bounded` keeps, per
  server, `tries <= (sequence - 1) * attempts + attempt` and that a server about
  to register still has an attempt or a sequence left. The proof goes function
  by function: each operator from context to context keeps a good context.
- *Pending requests.* The callbacks look at the status of a server, not at the
  request that ended, so `PendingHasRequest` depends on every order of ends. `PInv`
  states it for the three kinds at once (`Served`). Operators on the context are
  shown to make no server wait (`NoneWaits`), the end of a request to leave its
  server not waiting for one of its kind (`CallbackWaits`), and a removal from the
  list to keep every other request (`OthersStay`). Without the assumption the
  statement is false: after a 4.13 whose block size is not smaller, the status
  stays and no request follows.
- *Order, updates and object lists.* The lemmas named `...Effect` say what each
  operator may do to one server and leaves alone of the others; the properties follow
  from them. `OrderIn` is `OrderKept` with any server that was started in place of
  one that is registered or tried. It needs that no server is deregistered:
  deregistering one leaves those behind it as they are. `Honoured` adds to
  `FullUpdateHonoured` that no update without objects is needed, which holds as this
  client always passes `true`: a call for all servers leaves such an update as it is
  (the finding above).
- `ListCurrent` is far from inductive: it relates a server, the request under way, the
  answer it will get and what the client remembers of its last state. `Current` says,
  for a server none of whose updates overlap, that at most one request is held, that
  it is the one the status is about, and that when it is answered 2.04 the server has
  the client's version. It is only claimed in the phase `told`, that is when the client
  was ready already at its last turn (`previousState`); `StateFollowed` and
  `NoneRegistering` are what make a client that gets ready send its list to all.
  Requests move when one is taken out of the list: `Within` says that what a list
  holds of a server another one holds too, wherever it stands there, so that each
  step is shown on requests and not on positions. The theorem covers what the run does
  not: deregistration, 4.13, and any number of servers and of changes of the list.
- *Sleeping.* `SleepBounded` follows step by step: a step that makes or changes
  a transaction sets `timeout` to 0, so that the loop steps next, or computes it anew
  as at most each interval (`WaitKept`), and no interval is below 1
  (`IntervalPositive`).
- *Calls of the server's user.* `NoCallForgotten` is not inductive as a request
  carries its call through two callbacks; `IInv` adds that the list of requests is a
  sequence and every call is accounted for before and after a callback has run
  (`Accounted`), for any number of calls and requests; the calls with a misplaced
  location are the only ones that are not.
- *Blocks.* `Contiguous` is inductive once it is known that a block is only
  appended under the number that follows. It holds for reordering networks too.
  The other three need `OrderInv`, which speaks of every message in flight: a message
  that may still arrive is not older than what the receiver has seen, so a block that
  is treated as new is, and an answer of success is about a payload handed on. Without
  order they are false, as a late first block starts the buffer again.
- *Observations of the client.* A watcher has no name in the code: it is a place in a
  list of lists, and removals move it. `Moves` in `ObserveProofs` says, for each way in
  which the code changes the lists, which watchers of the new list are which of the
  old one; the invariants are then shown of watchers and not of positions. `TagInv`
  says that a value that was not sent is tagged, `ReportInv` that after `observe_step`
  a tagged one is held back by a period, `MidInv` that active watchers of a server
  have different message ids, without which a reset would end another observation.
  `UrisApart` is that no observed URI lies in another; `DeletesApart`, that none lies
  above an instance that can be deleted, as deleting an instance does not tag the
  watchers of its object: a theorem without it would be false.
- *Bootstrap.* Each operation is first shown to go one of a few ways: `lwm2m_step`
  starts a bootstrap, goes on, reads all accounts, or fails in one of three ways
  (`Outcome`); a command marks every listed server whose account it touches (`Edited`),
  for messages with any number of accounts. Every step is then one of three (`Sent`,
  `Edits`, `Registered`), whichever failing registrations ask for a bootstrap. `Inv` has what `ServersMatchAccounts` lacks: while a bootstrap
  is open, the servers that are not marked are of the accounts of the *backup* too, as
  the rollback brings those back and does not look at the list; and `previousState`
  follows the state, so that the backup is the one of this bootstrap. `Sessions` adds
  that a server which has finished or failed has no session; then only an open
  bootstrap edits, which the refinement needs. `OwnAccount` says that the backup of an
  open bootstrap has the bootstrap server's account. While looking for the invariant,
  the promise of `AccountStore` proved too strong: after a bootstrap that was undone
  (the finding above), a server stays listed whose account is gone; when a later
  bootstrap writes an account of that id which cannot be read, nobody reads it and it
  is committed. This takes five commands, one more than the run sends.
- *Observations of the server.* An observation has a name: the client's id, its own id
  and the registration it was made under. `NameInv` says that the names in the lists,
  the requests and the devices' tokens are not ahead of the counters and stand for one
  path each; `Distinct`, that a client's paths are distinct. `Agreed` follows the
  requests a device has answered, in the order of its answers, which need not be the order
  in which they were made: for each path it is the order of their registrations
  (`OrderInv`), and while an answer of an earlier registration is to come nothing of that
  path is REGISTERED under the current one (`EarlierInv`); the last answered request about
  a path tells what the device watches (`TakenInv`), and when there is none what is
  REGISTERED is watched (`AgreeInv`). Records and requests are of one registration each
  (`RecordsInv`, `MadeInv`). All of it leaves out the paths in `untold`, and a request that
  overtakes one of a later registration is what puts a path there (`Overtaken`). Two
  properties were wrong before they were proved and were corrected: a request with
  serial 0 names no registration (`NotifiedRight`), and one made through another device's
  record changes a watch nobody knows of (`Untold`, in `ObservationAgrees`).

- *Device management.* A write is a recursive function over its payload. That it
  exists and goes from value to value is shown by induction over the resources, with
  `NatSetInduction`, which speaks of a set of numbers; so is that each resource holds
  its last value in the end (`WrittenHolds`), and, for an access control list, that an
  entry found was written for its id (`Processed`): adding an entry anywhere leaves what
  is found of other ids (`AddedEntry`), for lists in which ids are repeated too.
  `Handled` then says what `dm_handleRequest` leaves of a context, operation by operation;
  `RefusedLeavesNoTrace`, `WrittenIsRead` and `ReadsAgree` follow from it in any state of
  the right types. `Announcing` says, for a server that the application never updates
  without objects, that every update on its way carries the list, and that the last list
  on its way, or else the one the server was told, has all instances unless a full update
  is needed; so no answer hides that the list has changed. `CoreInSync` is inductive once
  `unsynced` takes in the other instances with the same short id: a write to one of them
  replaces what the core was told of the first, also when its id is changed again
  afterwards. `RequestsAssumption` asks
  that payloads are lists of resources; `ObjectsAssumption`, that the objects the client
  starts with are of the right types and each listed server has one account.

The hypotheses are the conditions of the runs that check the same properties, or
weaker ones. Some of
what is proved (`TypeOK`, `TransmitBound`, `Contiguous`) is not among the properties
of the runs any more, as the theorems say more than an instance would.

Only model-checked are the liveness properties (`EveryRequestEnds`, `RegisteringEnds`,
`RequestsEnd`, `BootstrapEnds`), as fairness and ENABLED are outside the prover's
reach, and `Codec`, whose functions are RECURSIVE over the data.

## Not modelled

- JSON and SenML: grammars over characters; floating point numbers, whose text the
  C library makes. The setters of Location-Query and Proxy-Uri, which nothing uses.
- The bootstrap server's half of `bootstrap.c`, and the command lines of the
  example programs.
- The numbering of the blocks the client itself sends (`prv_send_next_block1`), and
  the time `select` sleeps in this client.
- The callbacks of this client's own objects (`src/lwm2m/src/object_*.c`), those of the
  snaps among them: they are written for an older library and lack the context, the
  first argument of every callback type of `liblwm2m.h`, so that all arguments are one
  place off and a call has no defined behaviour to model. `Objects` has the objects of
  the example client. Their tables are not quite the same: this client's Server Object
  ends at resource 8 and lacks 13 to 20 (so that the default of every one of them counts,
  16 among them: a registration that fails asks for a bootstrap), and its Device Object
  lacks 5 to 12 and has the software version. `Registration` has what this client
  does with the list of snaps.
- The Go configuration, the model pivot, the MQTT stub.
- DTLS and sockets, snapd, the serial vault, vendored Go code.
- Memory allocation failures, except where a request cannot be sent.

## Plan

What is left, most important first:

1. *EventLoop* (`lwm2mclient.c`, `main.go`): the timeout `lwm2m_step` computes
   against the one `select` uses; how late a step can be, which is the `MaxLag`
   of CoapTransaction.
2. *Block1Sender* (`packet.c`): the numbering of the blocks the client sends, and
   with BlockTransfer as its receiver, the payload that arrives.
3. *Config* and *Pivot*: files under crashes.
4. Proofs: the round trips of `Codec`, with its operators as recursive functions.
