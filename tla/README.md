# TLA+ models of nwep-rs

nwep-rs is a Rust binding (`nwep`, over the FFI crate `nwep-sys`) to a C
library that implements web/1 over QUIC. The C library is not part of the
repository. What the repository itself contributes is: a *driven* API, where
the application owns the loop; a *managed* API (`runtime.rs`), where an owner
thread drives the blocking handles and async callers talk to it over channels;
the ownership of C handles and of the closures C calls back; and wrappers of
the trust layer, the log, the dht and the pure codecs.

The modules here model the first three, which is where the program's own
concurrency, ordering and failure handling live; of the wrappers, the ones
whose use has a history worth checking (a log node that starts over, the
anchors' ceremony, a node's trust store across restarts); and of the
codecs, the tables that translate codes in both directions. A C call is an
action or a choice described by how `src/` uses it and by the FFI comments; the
definitions that stand for C behaviour alone are marked external in
`PROJECT.json`.

Paths below are relative to `src/nwep/src/` unless they start with `examples/`
or `tests/`.

## Inventory

| Component | State | Operations | Hard behaviour | Correct when |
|---|---|---|---|---|
| Managed client (`runtime.rs` 320-550, `poll.rs`, `client.rs` 540-600) | the handle's command sender, a channel of 64, an eventfd, the owner's table of (request id, reply sender), C's streams | `connect_async`, `request`/`send`/`dispatch`, drop; owner: `run_client_loop` | futures dropped at any await, an owner that sleeps in `poll`, `swap_remove` under an index, a connection that dies with work everywhere | no wakeup lost, each caller gets its own response or an error, no stream leaks, the thread ends with its handle |
| Managed server (`runtime.rs` 30-318) | a stop flag, a channel of 32, the owner's lookup with its deadline, the last announce | `serve`, `shutdown`, drop, `resolve`, `dht_metrics`; owner: `run_server_loop`, `resolve_on_thread` | no wakeup exists: only the poll cap bounds the wait; a lookup occupies the thread; cancellation of `serve` | stop is noticed within one poll, announces go on, every call is answered, the thread ends |
| Managed stream (`runtime.rs` 555-747) | metadata oneshot, a channel of 8 chunks, the owner's read loop and verification | `stream`, `recv`, drop | the end arrives with or without bytes, the consumer is slow or gone, the peer truncates or forges | bytes in order, an end only after a verified trailer, the thread never stuck |
| C handles and callback boxes (`client.rs`, `server.rs`, `logserver.rs`, `cache.rs`) | C objects, boxed closures C points to, shared caches | connect, `into_client`, hooks, `set_cache`, build, drop | callbacks from inside C calls and closes, closures that own other handles, half-built objects | nothing used after its free, freed twice, or leaked |
| Driven server (`server.rs` 219-640, 842-925, 1036-1174; loops of `examples/nwproxy.rs`, `examples/managed_stream.rs`) | C's parked and streaming requests, the application's own lists of them | `tick`, the trampoline, `Responder`, `respond`, `relay`, `stream_send`, `stream_end` | two tables of the same requests; panics between two effects; deadlines, back-pressure, partly attached headers | one whole answer per request, panics answered as errors, nothing left open for ever |
| Driven client (`client.rs` 100-150, 342-600, 640-964) | the handle, `RequestHandle { id, done }`, `Stream`, C's table of ids, the request-done hook | `start_connect`, `Connecting::poll`, `submit`, `poll`, `cancel`, drop, `open_stream`, `recv`, `on_request_done` | cancel on drop against retirement on completion; a hook that takes the completion under a live handle; ids used again | a drop cancels its own request or nothing; C's table and the handles agree; an end is told once and truly |
| Dht (`dht.rs`) | C node, a borrowed server | `attach`, `join`, `announce`, lookups, `tick` | lookup deadlines, a borrowed server | inside `ManagedServer` only |
| Log node (`logserver.rs`, `log.rs`, `examples/nwlog.rs`) | the log, in memory; the append hook | `dispatch`, `on_append`, start | a start is over an empty log; a hook that panics is swallowed | inside `Anchors`, `TrustStore` and `Handles` only |
| Anchors, checkpoints (`trust/anchor.rs`, `trust/checkpoint.rs`) | each anchor's replica, its collected roots; partial signatures | `collect_log_root`, `produce_partial_sig`, `request_partial_sig`, `finish_checkpoint`, `genesis_checkpoint` | several parties, a log node that came back with another log, partials late or of different roots | all checkpoints that can be made form one chain |
| Trust store (`trust/store.rs`) | anchor set, checkpoint, rollback counter, installed history; the last save | `update_checkpoint`, `observe_log_size`, `verify_key`, `save`, `load` | checkpoints in any order, two of one epoch, crashes between change and save | a restart is not behind the save; no fork installed |
| Error, status, entry, reason and range codes (`error.rs`, `wire.rs`, `log.rs`, `request.rs`) | none | conversions both ways | unknown codes, bands of fatal codes, two hand-written tables per vocabulary | the tables are inverse, and an error is never read as a value |
| Cache contents, identity, BLS, Shamir, addresses, URIs, headers, logging, FFI, build script | C state or none | one C call each | none in Rust | not modelled |

How they interact: async callers reach an owner thread through a bounded tokio
channel, and it answers through oneshots; for the client an eventfd wakes the
owner out of `poll`. An owner thread drives a driven handle (`Client`,
`Server`, `Dht`); inside its `tick` the C library calls closures back through
the trampolines. A handler and the loop around it share lists behind a mutex,
but run on one thread. A log node runs a `LogServer` inside a server's handler;
anchors fetch its entries and its root over the network, sign, and exchange
partial signatures; a trust store is fed the checkpoints made of them and asks
the log node about keys.

The hazards behind the properties are listed, with their lines, in
`PROJECT.json`.

## Modules

`RequestService` is the abstract specification of what both managed handles
promise: a call is answered at most once, with the response to that request or
an error; `NetworkClosed` only from the teardown on; every call that is not
abandoned returns. It knows no thread, channel, wakeup or stream.

`ManagedClient` (`MCManagedClient` gives its instances). `handle` is the
`connect_async` future and then the `AsyncClient`; `caller[r]` is where a
dispatch future stands (`sending` and `awaiting` are its two awaits, and the
places where it can be dropped); `queue`, `reply` and `ready` are the channel
and the oneshots; `signalled` is the eventfd; `owner` is the stage of
`run_client_loop`, `pending` and `cursor` its table and index; `flight` and
`asks` are the C client's streams. One action stands for one stage of the loop
or one segment of a future between awaits: `Enqueue` and `Wake` are two,
because another thread can run between the send and the wake; `DropSender` and
`DropWakes` likewise. `SwapRemove`, `Retire`, `CursorAfterRemoval` are the poll
pass. A `SwapRemove` of the table is Rust's: the last entry takes the free
place, and the index stays.

`ManagedServer` (`MCManagedServer`). Here time matters, and it passes only
where the owner sleeps (the poll wait and a lookup): `Elapse` counts it down
and feeds the clocks `stopAge`, `slept` and `announced`. `LoopTop`,
`ServerTick`, `DhtTick`, the command actions and `WaitEnds` are
the stages of `run_server_loop`; `StartLookup` and `EndLookup` are
`resolve_on_thread`. The announce is due by the wall clock, and that may be set: `age` is what
`secs - announced_at` means, `announced` the time that really went by, and
`SetClock` moves the one but not the other. `WrappingAge` is the `u64`
subtraction of a release build; in a build that checks overflow the same
subtraction ends the thread (`Overflow`).

`ManagedStream` models a streamed response from the server program's send loop
(`Feed`, `Finish`) over a transport that holds `Window` bytes to the owner
thread (`ReadBytes`, `ReadEnd`, `ReadFails`, `Verify`, `Send`) and the
consumer's `recv`. A byte is its position, a chunk a range of positions. The
peer is `whole`, `cut` (ends early) or `forged` (signed by another key).

`Handles` (`MCHandles`) models lifetimes. A call of the Rust API is a list of
steps (`make`, `install`, `keep`, `free`, `close`, `attach`, `hold`, `run`) in the
order the code makes them, and `todo` is the stack of what is left; while a C
call runs, C may call a hook, whose own steps go on top. The orders in
`ClientDrop`, `ServerDrop`, `LogServerDrop`, `ClearHook`, `SetCache` and
`BuildFails` are those of the code.

`DrivenServer` (`MCDrivenServer`) models a driven server and its application's
loop. `c` is C's view of each request, `listed` and `active` the
application's; `attached` is what `send` has left on a parked request.
`Dispatch` runs the handler through `Trampoline`: `HandlerRuns` is every way a
handler can end (answer, defer, stream, panic before or after any of these).
`Send` and `Relay` are the `DeferredResponder` terminals, with the header loop's
early return in `SendCode` and `Names`. The loops of the repository take an
entry off their list for good and ignore the error of its answer
(`AnswerNext`, `tests/managed_concurrency.rs`) or unwrap it (`AnswerPanics`,
`examples/nwproxy.rs`), and may leave the list for a later pass (`TickEnds`).
`RespondAgain` is no step of theirs: `Server::respond` takes ids, so an embedder
can answer again a request that a refused `send` has left parked. The `Pump`
actions are the `retain_mut` pass. C moves only in the tick, and the loop
elsewhere, as on the real thread.

`Codes` holds the tables of `error.rs`, `wire.rs`, `log.rs` and the range call
as operators, each direction apart, as the code has them. `DrivenServer`,
`DrivenClient` and the trust modules read their C results through it.

`DrivenClient` (`MCDrivenClient`) models a driven client and the handles its
application holds. `slot` and `of` are C's table of ids, `handle`, `idOf` and
`got` the application's side, `outcome` how C concluded each job. C moves only
between `EnterC` and `LeaveC`, which stand for a call that pumps the
connection, and the application only outside. `Poll` retires an id with what it
yields; `Recv` does not, and `CloseStream` closes whatever was yielded;
`Cancels` is the `done` flag. C may give a retired id again, but not on a
connection with a hook: there a handle cannot know that the hook took its
completion, so its drop cancels an id that C must not have reused.
That is the one thing the module asks of the C library which its declarations
do not spell out: a `RequestId` is "an opaque token" (`client.rs:900`) and no more.

`TransparencyLog` models a log node, as far as the trust modules see it: the
entries its `Log` holds, `Submit` (`LogServer::dispatch`), and `RestartLog`,
which is `nwlog`'s set-up over an empty `Log`. A log stands for its own root.
The append hook only hands entries to the application, and is not modelled here.

`Anchors` (`MCAnchors`) EXTENDS it with anchors that compare the log
node's root with their replica's (`Collect`), sign it (`Sign`) and restart.
What is signed stays signed; a checkpoint exists when `FinishCode` accepts its
signers. How an anchor gets its replica is in no code of the repository.
`Replicate` and `RestartAnchor` state what is assumed of it: entries
are appended and never taken off, and a replica outlives its anchor's process.

`TrustStore` (`MCTrustStore`) EXTENDS `TransparencyLog` with one node's store: `store` is its
rollback counter, checkpoint and installed history, `saved` the last `save`.
`RestartNode` is a new store that loads the save. `Publish` gives out checkpoints over whatever the
log node serves; that is more than the anchors of `Anchors` allow, so the store
is checked against more than the ceremony can produce, two checkpoints of one
epoch included.

The proofs are in `ManagedClientProofs`, `ManagedServerProofs`,
`ManagedStreamProofs`, `DrivenClientProofs`, `DrivenServerProofs`,
`HandlesProofs`, `AnchorsProofs` and `TrustStoreProofs`. The last two each begin
with what they need of the log node. The theorems about the tables of `Codes`
stand at the end of `DrivenClientProofs`.

In each module an operator marked "faulty" is a bug the code does not have. It
replaces a definition to confirm that a property would notice.

## Runs

| Run | Shows | Instance |
|---|---|---|
| `client_safety` | `NoLostWakeup`, `CompletionsDelivered`, `FlightTracked`, `OwnResponse`, `ReplyHeld` in every interleaving of callers, cancellations, drop and owner | 4 calls, 3 streams, channel of 2 |
| `client_service` | the client implements `RequestService`; the thread ends however the handle ends | 3 calls, one malformed, 2 streams, channel of 1 |
| `server` | `ReplyHeld`, `StopNoticedInTime`, `AnnounceBounded`, `StopEnds`, and the server implements `RequestService` | 2 resolves, 1 metrics call, poll cap 2, announce interval 3, lookups up to 2, the clock set back once between announces by 2 or by 100 |
| `server_cancel_serve` | counterexample: a `serve` future dropped at the wrong moment leaves its thread running | as `server`, lookups up to 3, the clock left alone |
| `stream` | `InOrder`, `FirstEndIsVerified`, `RecvAnswered`, `StreamCloses` | 6 bytes, window 3, chunks of 2, channel of 2, 7 recvs |
| `handles` | `HandlesOpen`, `CallbacksLive`, `BorrowsLive`, `FreedOnce`, `NothingLeaks` | 2 caches, 2 hooks of each kind |
| `handles_log_server` | counterexample: `LogServer::drop` uses the handle it freed | as `handles` |
| `driven` | `WireWellFormed`, `PanicIsAnError`, `EveryRequestEnds` | 3 requests on 2 connections, one parked slot, 3 body bytes over a window of 2, deadline of 2 ticks |
| `driven_headers` | counterexample: a second answer to a parked request carries the header of a send that failed | as `driven` |
| `driven_client` | `TableMatchesHandles`, `ToldTheTruth`, `EveryHandleEnds` | 2 requests, 1 stream, 3 ids, 2 streams at a time, 2 connections |
| `anchors` | `CheckpointsChain` | 3 anchors, quorum of 2, log of 2 entries, one epoch after the genesis |
| `trust_store` | `SavesBind` | a binding and its revocation, log of 2, 2 epochs and 2 checkpoints after the genesis, a warning band of one epoch |

### Why these bounds

* Client: three pending entries are the fewest for which `swap_remove` moves an
  entry over a gap, and a fourth call finds no stream free; a channel shorter
  than the number of calls makes `send` wait. The safety run uses symmetry of
  calls and streams. The temporal run does not, and is smaller for it.
* Server: two lookups that queue behind each other for longer than an announce
  interval, and that longer than a poll wait, are what the latency
  properties need. Of the clock changes one is less than an interval and one more than
  any, so that the difference wraps and so that it does not. The clocks stop at
  `ClockBound`, above every bound the properties compare them with.
* Stream: the body is longer than a window and a window longer than a chunk, so
  each of the three buffers can be the full one; a body of three chunks with a
  channel of two blocks the owner; `MaxRecv` lets the consumer read on past the
  end.
* Handles: two hooks are a hook and its replacement; two caches a cache and its
  replacement. A hook is installed at most once.
* Driven server: one parked slot sheds the second deferral; two requests of one
  connection are lost together; a body of three over a window of two needs a
  short accept and a blocked pass; a deadline of two ticks falls before or
  after an answer. Header lists: none, a good one, one refused at its first
  header, one refused at its second.
* Driven client: three ids over a limit of two let an id be used again while
  another is live; a second connection starts with an empty table, with the
  hook or without; a stream keeps its id longer than a request.
* Anchors: two quorums of two among three share one anchor, the case the
  argument rests on; two entries in either order give two logs of which neither
  is a prefix of the other; a second root in one epoch is what an anchor signs
  after a restart.
* Trust store: two checkpoints of one epoch, or of two, and of a log before and
  after it started over; a checkpoint two epochs old is stale, one epoch old
  is installed.

### Fairness, and why the code has it

* Owner threads are OS threads in loops whose waits are all capped
  (`POLL_CAP_MS`) or end with their channel: weak fairness of the owner's steps.
* A future that is ready is polled again: weak fairness of its continuation.
  Nobody has to start, cancel or drop anything.
* Of C and the network: a request that is ticked for ever is completed or failed, or
  its connection is lost (`TickSettles`, strong fairness, as each tick may choose otherwise).
  This assumes C's own timeouts.
* A lookup need not find anything: `EndLookup` is fair only once its deadline
  has come.
* `ManagedStream`: a blocking read returns in the end with data, the end or an error.
* `DrivenServer`: the loop runs, and the peer of an open stream goes on reading.
  The deadline of a parked request needs no fairness: no tick ends with an
  expired one.
* `DrivenClient`: the loop enters and leaves C for ever; of the jobs C has, it
  concludes some in some tick (its timeouts), and the loop polls after its
  ticks: strong fairness, as each can happen only on one side of `EnterC`.
* `Anchors` and `TrustStore` have no fairness and no liveness property:
  nothing in the code makes an anchor sign or a node save.

A tokio `send` is one step with respect to the drop of the receiver; the
channel's own algorithm is not modelled.

## Findings

1. `LogServer::drop` (`logserver.rs:138-139`) frees the C server and then
   passes it to `nwep_log_server_set_on_append` when a hook was registered.
   Run `handles_log_server`.
2. A `serve` future dropped between the owner's `ready_tx.send` and its own
   next poll leaves a thread that serves for ever with a stop flag nobody
   holds. Run `server_cancel_serve`.
3. `DeferredResponder::send` that fails at a later header leaves the earlier
   ones attached for whatever answer follows. Run `driven_headers`.

Met while modelling, and not the subject of a run:

* The documents promise an exit within one poll interval (`runtime.rs` 28-30);
  lookups, queued ones included, are finished first (`runtime.rs:308`).
  `StopNoticedInTime` holds for the waits alone.
* `recv` answers `None` after an error item, where the documents
  (`runtime.rs` 626-628) say `None` means a verified body. A consumer that stops at
  the first error is safe: that is `FirstEndIsVerified`.
* `Client::on_request_done` (`client.rs:505`) called from within the hook frees
  the running closure. The comment (`client.rs:498`) forbids to block and to
  re-enter tick, and not this. `Handles` lets a hook replace itself, and its
  theorems hold of it: the box is freed once and C enters it no more. That the
  closure still runs while its box is freed is outside of them.
* The comment on `Error::from_code` (`error.rs:186`) says of a code that is not
  negative that it folds to internal; the code keeps it as `Other`, and `Codes`
  follows the code. No caller passes one.
* A panic of the append hook is swallowed (`logserver.rs:154`), and the submitter
  is told Created for an entry that the hook may not have persisted
  (`logserver.rs:75`). What becomes of it is up to the application.
* `nwproxy` unwraps its relay (`examples/nwproxy.rs:104`, `109`), so a client that leaves
  between dispatch and relay ends the frontend for all; the doc
  (`server.rs:1085`) says to discard. Such a panic is `AnswerPanics`.
* `save` leaves the anchor set out (`store.rs` 120-124 says so): an anchor
  change that was applied (`store.rs:229`) must be applied again after a restart.

## What is proved

Every theorem is for all values of the constants that satisfy the assumption of
its module: `ClientAssumption`, `ServerAssumption`, `StreamAssumption`,
`DrivenClientAssumption`, `HandlesAssumption`, `LogAssumption`,
`AnchorsAssumption` (two quorums intersect: twice the threshold is more than the
anchors) and `TrustStoreAssumption`. The others ask for natural numbers,
positive capacities, finite sets where something is counted, names that are told
apart, and a `None` that is not a member.

`ManagedClientProofs`:

* `TypeCorrect`: `TypeOK` is inductive, the channel's bound included; the table's type rests on
  `SwapRemoveProperties`, what a `swap_remove` does to a sequence.
* `WakeupsNotLost`: `NoLostWakeup` speaks only of a sleeping owner and is not
  inductive. `Announced` adds what must hold on the way there: whenever the
  owner has left its drain of the channel, a command it has not seen comes with a raised
  eventfd or a caller about to raise it, and so does the drop of the handle.
* `ResponsesOwn`, `CompletionsNotSleptOn` and `StreamsTracked` come from one
  invariant, `ClientInv`: `Paired` (each entry's stream was submitted for its
  caller, and no two entries share one), `Covered` (each busy stream has an
  entry) and `PassedOpen` (behind the cursor nothing is finished). The last is
  where the index matters: after a removal the entry swapped in has not been
  looked at, and the cursor stays on it. `Source` names where each entry of the
  shortened table came from, and `RetireStep` carries the three conjuncts over
  a removal.
* `RepliesHeld`: `ReplyHeld` says that a waiting call's sender is in the
  channel or the table. `Held` adds that it is in one place once (`OnceQueued`,
  `OnceListed`), that what is there was sent and is unanswered (`QueueSent`,
  `ListSent`), and that nothing is answered before it was sent (`Unasked`).
* `Implements`: with `Held`, each step of the client is a step of
  `RequestService` or none. This is the safety half of `ImplementsService`.

`ManagedServerProofs`: `TypeCorrect`, `RepliesHeld`, `StopNoticed`,
`AnnouncesBounded` and `Implements` from `IInv`, which has four parts:

* `TypeOK`, and a `Held` of the same shape as the client's with the lookup under
  way in the place of the table;
* `Noticed` ties `slept` to what is left of the wait under way: a stop set during a
  wait can be slept on only for its rest, and the loop looks at the flag before
  it waits again;
* `Punctual`, for `AnnounceBounded`. `RoundLeft` bounds the time the owner can
  spend before it next looks at its clock: the rest of its wait, or of its
  lookup, a lookup for every caller that may still ask, and the wait to come.
  A caller asks once, so the queue that is refilled while the owner empties it
  still costs one lookup a caller. The age the code computes and the real one
  differ by what the clock was set; a change costs one such round at most, for
  a clock behind the last announce wraps the difference and makes the owner
  announce.

`ManagedStreamProofs`: `TypeCorrect`, `Ordered` and `Verified`. `FlowSound`
reads the bytes delivered and the chunks in the channel as one sequence, and says that it is
the body from its first byte, that an end item comes last, and that a verified end comes only after a whole
body whose signature was checked; `Stages` ties the owner's stage to
what it holds in hand.

`DrivenClientProofs`: `TypeCorrect`, `TableMatches` and `Truth`.
`TableMatchesHandles` needs `HookTookIt` (an id whose completion the hook took
is free and is not given again while a handle names it) and `ConcludedOnce` (a
ready or failed slot is that of a job concluded so). It proves besides, of `Codes`,
over all integers: `CodeRoundTrip` and `FromCodeInjective` (the
two tables of `error.rs`), `FatalBand`, `StatusRoundTrip` and
`UnknownTokenIsError`, `ErrorsStayErrors` (a negative result is never an entry
type or a range outcome), `ReasonRoundTrip`.

`AnchorsProofs`: `TypeCorrect` and `Chain`. For the chain, `RootsAreReplicated` says that
what an anchor signed is a prefix of its replica, and a replica only grows;
`QuorumsMeet` gives an anchor that signed both of two checkpoints, and two
prefixes of one log are prefixes one of the other. Nothing is asked of the log
node.

`TrustStoreProofs`: `TypeCorrect`, and `Bound` from `Sound` of the store and of
the save, and `NotBehind`.

`DrivenServerProofs`: `TypeCorrect`, `Wire` and `Panics`, assuming of the
requests only that they are finitely many (`FiniteRequests`, and only for the
bounds of `TypeOK`). What a client has been sent is well formed because of
what has not been sent: `Silent` says that C sent nothing for a request it
still holds parked, and `Progress` that of a stream it sent the head and exactly
the pieces the pump's entry counts, so that one more piece, the end or an error
follows on. Both need `Lists`: the application knows a request at most once, listed or
pumped, whatever C shed, expired or lost between two passes. `PanicInv` adds
to the property that something was sent at all.

`HandlesProofs`: `TypeCorrect`, `Opened`, `EntersLiveBoxes`, `BorrowsAreLive`,
`FreesOnce` and `LeaksNothing`, for any number of caches and hooks. None of the
properties is inductive: what a box or an object may be depends on the steps that
are still to be made, and the drop of a handle leaves closes and frees for
later. `IInv` therefore goes by what is in `todo`. `ClientHalf` lists the stacks
that the calls of the client and of the caches can leave, with what is true of
hooks, C objects and Rcs at each (`Replacing`, `Caching`, `Uncaching`, `Leaving`);
`ServerHalf` does so for the server, its handler and the log server
(`Building`, `Handling`, `Discarding`, `Appending`, `Unlogging`). While one half
is under way the other is quiet, and a callback puts its own steps on top of a
stack that is in the list already. In the quiet states, the open caches are
exactly those that somebody holds (`Shared`), and the live box of each kind is
the one its handle owns.

The proof has three layers: what a step does to a stack (`Making` to `Closing`,
resting on `Top` and `Prepended`), one lemma for each kind of stack, and
`Consequences`, which reads each property off the step on top (`Sound`).

Only model-checked: all liveness (`OwnerStops`, `StopEnds`, `RecvAnswered`,
`StreamCloses`, `EveryRequestEnds`, `EveryHandleEnds`,
and that calls return in `ImplementsService`), since the provers have no rules
for fairness and `ENABLED` here. Every invariant of a passing run is a theorem.

## Plan

Done, in this order: `RequestService`, `ManagedClient` and its proofs;
`ManagedServer`; `ManagedStream`; `Handles`; `DrivenServer`; `Codes`;
`DrivenClient`; `TransparencyLog`, `Anchors`, `TrustStore`; the proofs of the
managed server, the stream, the driven client, the driven server, the trust
modules, the codes and the handles.

Left, in order of worth:

1. The anchor set in `TrustStore`: `apply_anchor_change`, its quorum of the old
   set, and what a restart with the genesis anchors makes of a change.
2. `DrivenServer`: drain, notify, captured frames and their reuse; the driven
   `Dht` with its lookups.

## Not modelled

The C library beyond what its callers see of it (QUIC, handshakes, routing,
the record store, merkle trees, signatures); cryptographic wrappers; codecs
other than the tables of `Codes`; the anchor set of a trust store and
`verify_key_binding`; what an append hook does with an entry; an anchor's way to
its replica; notifications pushed to a client; a `RequestHandle` polled after
its end (`client.rs:922` calls it meaningless); the early return of
`Request::range` for an `etag` that is no C string (`server.rs:161-165`), after
which the handler answers as after any other range outcome;
the Windows and fallback wakers of `poll.rs` (same contract as the eventfd,
other system calls); `is_alive`, metrics and other reads; the success of an
announce (`runtime.rs:261` records the attempt, and so does the model); build
script and FFI declarations.
