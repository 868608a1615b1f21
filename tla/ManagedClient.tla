---------------------------- MODULE ManagedClient ----------------------------
(***************************************************************************)
(* The managed client of src/nwep/src/runtime.rs: an AsyncClient handle    *)
(* whose async callers hand requests, over a bounded tokio channel, to one *)
(* owner thread that drives the blocking Client.                           *)
(*                                                                         *)
(* Four kinds of process interleave:                                       *)
(*   - the connect_async future, which becomes the handle and is dropped;  *)
(*   - one dispatch future per request, which may be dropped at an await;  *)
(*   - the owner thread (run_client_loop), one action per loop stage;      *)
(*   - the C client, external to the repository, whose tick completes or   *)
(*     fails the requests in flight, or loses the connection.              *)
(* The eventfd of poll.rs is the flag signalled between them.              *)
(*                                                                         *)
(* An operator marked "faulty" is a bug the code does not have; it stands  *)
(* beside the definition it would replace, to test the properties with.    *)
(***************************************************************************)
EXTENDS Naturals, Sequences, FiniteSets

CONSTANTS
  Requests,    \* the dispatch futures ever created on the handle
  Ids,         \* the request ids the C client has: its concurrent-stream limit
  Capacity,    \* the bound of the command channel (64 in the code)
  Malformed,   \* the requests whose path or header holds a NUL byte
  NoRequest    \* "no request"

ASSUME ClientAssumption ==
  /\ Capacity \in Nat \ {0}
  /\ Malformed \subseteq Requests
  /\ NoRequest \notin Requests

VARIABLES
  handle,      \* the connect_async future, then the AsyncClient
  ready,       \* the connect oneshot
  caller,      \* where each dispatch future is
  reply,       \* each reply oneshot: unsent, or how it was answered
  body,        \* the request whose response a reply carries
  queue,       \* the command channel, oldest first
  signalled,   \* the eventfd is readable
  owner,       \* the stage of the owner thread
  pending,     \* the owner's Vec of (request id, reply sender)
  cursor,      \* the poll pass index (1-based)
  flight,      \* the C client: what happened to each request id
  asks         \* the C client: the request an id was submitted for

apiVars   == <<handle, ready>>
callVars  == <<caller, reply, body>>
cVars     == <<flight, asks>>
vars == <<handle, ready, caller, reply, body, queue, signalled, owner,
          pending, cursor, flight, asks>>

(* How a reply oneshot stands.  "closed" is Error::NetworkClosed, sent by  *)
(* the owner or made by map_err from a dropped sender.                     *)
Replies == {"unsent", "response", "failed", "rejected", "closed"}

(* The command sender lives in the connect_async future, then in the       *)
(* handle; the command receiver lives on the owner thread.                 *)
DisconnectUnseen == TRUE   \* faulty: every try_recv error means Empty
SenderAlive   == handle \in {"connecting", "open"}
ReceiverAlive == owner # "gone"

Entries == [id: Ids, to: Requests]

(* Vec::swap_remove: the last element takes the place of the removed one.  *)
SwapRemoveLast(s, i) == SubSeq(s, 1, Len(s) - 1)   \* faulty: pops instead
SwapRemove(s, i) ==
  [j \in 1..(Len(s) - 1) |-> IF j = i THEN s[Len(s)] ELSE s[j]]

InQueue(r)   == \E k \in DOMAIN queue : queue[k] = r
InPending(r) == \E k \in DOMAIN pending : pending[k].to = r

(* Answer every request of S the same way.                                 *)
Resolve(S, how) == reply' = [r \in Requests |-> IF r \in S THEN how ELSE reply[r]]
PendingCallers  == {r \in Requests : InPending(r)}
QueuedCallers   == {r \in Requests : InQueue(r)}

(* Every request in flight is failed, and the loop returns.                *)
FailPendingGoesOn ==   \* faulty: the loop goes on
  Resolve(PendingCallers, "closed") /\ pending' = <<>> /\ owner' = "recv"
FailPending ==
  Resolve(PendingCallers, "closed") /\ pending' = <<>> /\ owner' = "exiting"

(* try_recv takes a command off the channel.                               *)
PeekCommand == queue' = queue   \* faulty: it stays there
TakeCommand == queue' = Tail(queue)

(* The poll pass removes an entry and keeps its index for the one swapped  *)
(* in; the reply goes to the caller of the entry removed.                  *)
CursorAdvanced == cursor + 1   \* faulty: the entry swapped in is skipped
CursorAfterRemoval == cursor
SwappedInCaller(i) == pending[Len(pending)].to   \* faulty: read after swap_remove
RemovedCaller(i) == pending[i].to

(* An id is retired on completion or error (client.rs:588).                *)
Retire(i) ==
  /\ flight' = [flight EXCEPT ![pending[i].id] = "free"]
  /\ asks' = [asks EXCEPT ![pending[i].id] = NoRequest]
  /\ pending' = SwapRemove(pending, i)
  /\ cursor' = CursorAfterRemoval

Init ==
  /\ handle = "connecting"
  /\ ready = "unsent"
  /\ caller = [r \in Requests |-> "idle"]
  /\ reply = [r \in Requests |-> "unsent"]
  /\ body = [r \in Requests |-> NoRequest]
  /\ queue = <<>>
  /\ signalled = FALSE
  /\ owner = "connecting"
  /\ pending = <<>>
  /\ cursor = 1
  /\ flight = [id \in Ids |-> "free"]
  /\ asks = [id \in Ids |-> NoRequest]

-----------------------------------------------------------------------------
(* The handle: connect_async and Drop.                                     *)

(* The future resumes with the oneshot's value: the handle, or the error.  *)
ConnectReturns ==
  /\ handle = "connecting"
  /\ \/ ready = "ok"  /\ handle' = "open"
     \/ ready = "err" /\ handle' = "failed"
  /\ UNCHANGED <<ready, callVars, queue, signalled, owner, pending, cursor, cVars>>

(* The caller drops the connect_async future at its await: cmd_tx and      *)
(* ready_rx go with it, and nothing wakes the owner.                       *)
CancelConnect ==
  /\ handle = "connecting"
  /\ handle' = "cancelled"
  /\ UNCHANGED <<ready, callVars, queue, signalled, owner, pending, cursor, cVars>>

(* A dispatch future borrows the handle until it returns or is dropped.    *)
Borrowed == \E r \in Requests : caller[r] \in {"sending", "waking", "awaiting"}

DropSender ==
  /\ handle = "open"
  /\ ~Borrowed
  /\ handle' = "dropping"
  /\ UNCHANGED <<ready, callVars, queue, signalled, owner, pending, cursor, cVars>>

DropWakes ==
  /\ handle = "dropping"
  /\ handle' = "dropped"
  /\ signalled' = TRUE
  /\ UNCHANGED <<ready, callVars, queue, owner, pending, cursor, cVars>>

-----------------------------------------------------------------------------
(* A dispatch future.                                                      *)

Start(r) ==
  /\ handle = "open"
  /\ caller[r] = "idle"
  /\ caller' = [caller EXCEPT ![r] = "sending"]
  /\ UNCHANGED <<apiVars, reply, body, queue, signalled, owner, pending, cursor, cVars>>

(* cmd.send(..).await: waits for room in the channel.                      *)
RoomForOneMore == Len(queue) <= Capacity   \* faulty: off by one
ChannelHasRoom == Len(queue) < Capacity

Enqueue(r) ==
  /\ caller[r] = "sending"
  /\ ReceiverAlive
  /\ ChannelHasRoom
  /\ queue' = Append(queue, r)
  /\ caller' = [caller EXCEPT ![r] = "waking"]
  /\ UNCHANGED <<apiVars, reply, body, signalled, owner, pending, cursor, cVars>>

(* cmd.send(..).await on a closed channel: NetworkClosed.                  *)
SendFails(r) ==
  /\ caller[r] = "sending"
  /\ ~ReceiverAlive
  /\ reply' = [reply EXCEPT ![r] = "closed"]
  /\ caller' = [caller EXCEPT ![r] = "returned"]
  /\ UNCHANGED <<apiVars, body, queue, signalled, owner, pending, cursor, cVars>>

(* self.wake.wake(): runs after the send with no await in between.         *)
Wake(r) ==
  /\ caller[r] = "waking"
  /\ signalled' = TRUE
  /\ caller' = [caller EXCEPT ![r] = "awaiting"]
  /\ UNCHANGED <<apiVars, reply, body, queue, owner, pending, cursor, cVars>>

(* reply_rx.await resumes.                                                 *)
Return(r) ==
  /\ caller[r] = "awaiting"
  /\ reply[r] # "unsent"
  /\ caller' = [caller EXCEPT ![r] = "returned"]
  /\ UNCHANGED <<apiVars, reply, body, queue, signalled, owner, pending, cursor, cVars>>

(* The future is dropped at one of its awaits; the owner is not told.      *)
Cancel(r) ==
  /\ caller[r] \in {"sending", "awaiting"}
  /\ caller' = [caller EXCEPT ![r] = "cancelled"]
  /\ UNCHANGED <<apiVars, reply, body, queue, signalled, owner, pending, cursor, cVars>>

-----------------------------------------------------------------------------
(* The owner thread.                                                       *)

(* The handshake, and ready_tx.send: it fails when the future was dropped. *)
OwnerConnects ==
  /\ owner = "connecting"
  /\ \/ /\ ready' = "ok"
        /\ owner' = IF handle = "connecting" THEN "recv" ELSE "exiting"
     \/ /\ ready' = "err"
        /\ owner' = "exiting"
  /\ UNCHANGED <<handle, callVars, queue, signalled, pending, cursor, cVars>>

(* try_recv = Ok(cmd), and submit_request returned an id.                  *)
Submit ==
  /\ owner = "recv"
  /\ queue # <<>>
  /\ LET r == Head(queue) IN
       /\ r \notin Malformed
       /\ \E id \in Ids :
            /\ flight[id] = "free"
            /\ flight' = [flight EXCEPT ![id] = "open"]
            /\ asks' = [asks EXCEPT ![id] = r]
            /\ pending' = Append(pending, [id |-> id, to |-> r])
  /\ TakeCommand
  /\ UNCHANGED <<apiVars, callVars, signalled, owner, cursor>>

(* try_recv = Ok(cmd), and submit_request failed: ProtoInvalidHeader for a *)
(* NUL byte, ProtoMaxStreams with every stream taken.                      *)
Reject ==
  /\ owner = "recv"
  /\ queue # <<>>
  /\ \/ Head(queue) \in Malformed
     \/ \A id \in Ids : flight[id] # "free"
  /\ reply' = [reply EXCEPT ![Head(queue)] = "rejected"]
  /\ TakeCommand
  /\ UNCHANGED <<apiVars, caller, body, signalled, owner, pending, cursor, cVars>>

(* try_recv = Empty: leave the drain loop.                                 *)
QueueEmpty ==
  /\ owner = "recv"
  /\ queue = <<>>
  /\ SenderAlive
  /\ owner' = "tick"
  /\ UNCHANGED <<apiVars, callVars, queue, signalled, pending, cursor, cVars>>

(* try_recv = Disconnected: queued commands come first, so the queue is    *)
(* empty; every request in flight is failed.                               *)
Disconnected ==
  /\ owner = "recv"
  /\ queue = <<>>
  /\ ~SenderAlive
  /\ FailPending
  /\ UNCHANGED <<apiVars, caller, body, queue, signalled, cursor, cVars>>

(* client.tick(..) with the connection alive: the C client completes some  *)
(* open requests and fails some others.                                    *)
TickAlive(done, bad) ==
  /\ owner = "tick"
  /\ \A id \in done \cup bad : flight[id] = "open"
  /\ done \cap bad = {}
  /\ flight' = [id \in Ids |-> IF id \in done THEN "ready"
                               ELSE IF id \in bad THEN "failed" ELSE flight[id]]
  /\ owner' = "poll"
  /\ cursor' = 1
  /\ UNCHANGED <<apiVars, callVars, queue, signalled, pending, asks>>

(* client.tick(..) failed, or is_alive() is false: fail what is in flight, *)
(* the responses that arrived but were not polled included.                *)
TickDead ==
  /\ owner = "tick"
  /\ FailPending
  /\ UNCHANGED <<apiVars, caller, body, queue, signalled, cursor, cVars>>

(* poll_request(..) = Ok(None): still in flight.                           *)
PollOpen ==
  /\ owner = "poll"
  /\ cursor <= Len(pending)
  /\ flight[pending[cursor].id] = "open"
  /\ cursor' = cursor + 1
  /\ UNCHANGED <<apiVars, callVars, queue, signalled, owner, pending, cVars>>

(* poll_request(..) = Ok(Some(resp)): the id is retired, the entry removed *)
(* and the response sent; the index stays for the entry swapped in.        *)
PollReady ==
  /\ owner = "poll"
  /\ cursor <= Len(pending)
  /\ flight[pending[cursor].id] = "ready"
  /\ LET r == RemovedCaller(cursor) IN
       /\ reply' = [reply EXCEPT ![r] = "response"]
       /\ body' = [body EXCEPT ![r] = asks[pending[cursor].id]]
  /\ Retire(cursor)
  /\ UNCHANGED <<apiVars, caller, queue, signalled, owner>>

(* poll_request(..) = Err(e): likewise, with the error.                    *)
PollFailed ==
  /\ owner = "poll"
  /\ cursor <= Len(pending)
  /\ flight[pending[cursor].id] = "failed"
  /\ reply' = [reply EXCEPT ![RemovedCaller(cursor)] = "failed"]
  /\ Retire(cursor)
  /\ UNCHANGED <<apiVars, caller, body, queue, signalled, owner>>

PollPassEnds ==
  /\ owner = "poll"
  /\ cursor > Len(pending)
  /\ owner' = "wait"
  /\ UNCHANGED <<apiVars, callVars, queue, signalled, pending, cursor, cVars>>

(* wait_readable2: a readable eventfd or socket, or the timeout, which is  *)
(* POLL_CAP_MS at most, ends it.                                           *)
WaitEnds ==
  /\ owner = "wait"
  /\ owner' = "drain"
  /\ UNCHANGED <<apiVars, callVars, queue, signalled, pending, cursor, cVars>>

(* wake.drain(), then the loop starts over.                                *)
AfterReceive == "tick"   \* faulty: drained after the command loop
LoopTop == "recv"
DrainWaker ==
  /\ owner = "drain"
  /\ signalled' = FALSE
  /\ owner' = LoopTop
  /\ UNCHANGED <<apiVars, callVars, queue, pending, cursor, cVars>>

(* The thread returns: cmd_rx is dropped, and with it the queued commands  *)
(* and their reply senders.                                                *)
OwnerExits ==
  /\ owner = "exiting"
  /\ Resolve(QueuedCallers, "closed")
  /\ queue' = <<>>
  /\ owner' = "gone"
  /\ UNCHANGED <<apiVars, caller, body, signalled, pending, cursor, cVars>>

-----------------------------------------------------------------------------
Tick == \/ TickDead
        \/ \E done, bad \in SUBSET Ids : TickAlive(done, bad)

Poll == PollOpen \/ PollReady \/ PollFailed \/ PollPassEnds

Receive == Submit \/ Reject \/ QueueEmpty \/ Disconnected

OwnerStep == OwnerConnects \/ Receive \/ Tick \/ Poll \/ WaitEnds \/ DrainWaker
             \/ OwnerExits

HandleStep == ConnectReturns \/ CancelConnect \/ DropSender \/ DropWakes

CallerStep(r) == Start(r) \/ Enqueue(r) \/ SendFails(r) \/ Wake(r) \/ Return(r)
                 \/ Cancel(r)

(* Everything is over: the system may stop here, and only here.            *)
Terminated ==
  /\ owner = "gone"
  /\ handle \in {"failed", "cancelled", "dropped"}
  /\ UNCHANGED vars

Next ==
  \/ HandleStep
  \/ \E r \in Requests : CallerStep(r)
  \/ OwnerStep
  \/ Terminated

Spec == Init /\ [][Next]_vars

(* The owner is an OS thread and a ready future is polled again, so both   *)
(* take their steps; nobody has to start, cancel or drop anything.  Of the *)
(* C client: a request that keeps being ticked is completed or failed one  *)
(* day, or the connection is lost.                                         *)
TickSettles(id) ==
  /\ flight[id] = "open"
  /\ \/ TickDead
     \/ \E done, bad \in SUBSET Ids : id \in done \cup bad /\ TickAlive(done, bad)

Fairness ==
  /\ WF_vars(OwnerStep)
  /\ WF_vars(ConnectReturns)
  /\ WF_vars(DropWakes)
  /\ \A r \in Requests : /\ WF_vars(Enqueue(r))
                         /\ WF_vars(SendFails(r))
                         /\ WF_vars(Wake(r))
                         /\ WF_vars(Return(r))
  /\ \A id \in Ids : SF_vars(TickSettles(id))

FairSpec == Spec /\ Fairness

-----------------------------------------------------------------------------
(* Properties.                                                             *)

TypeOK ==
  /\ handle \in {"connecting", "open", "failed", "cancelled", "dropping", "dropped"}
  /\ ready \in {"unsent", "ok", "err"}
  /\ caller \in [Requests -> {"idle", "sending", "waking", "awaiting", "returned",
                              "cancelled"}]
  /\ reply \in [Requests -> Replies]
  /\ body \in [Requests -> Requests \cup {NoRequest}]
  /\ queue \in Seq(Requests)
  /\ Len(queue) <= Capacity
  /\ signalled \in BOOLEAN
  /\ owner \in {"connecting", "recv", "tick", "poll", "wait", "drain", "exiting", "gone"}
  /\ pending \in Seq(Entries)
  /\ cursor \in Nat \ {0}
  /\ flight \in [Ids -> {"free", "open", "ready", "failed"}]
  /\ asks \in [Ids -> Requests \cup {NoRequest}]

(* The owner never sleeps through work.  While it waits with the eventfd   *)
(* unreadable, each queued command belongs to a caller that is about to    *)
(* call wake(), and the handle's Drop has not finished: "the eventfd wakes *)
(* it the instant a new command is enqueued" (runtime.rs:414), "then wake  *)
(* it so it notices immediately rather than after a poll cap" (:406).      *)
NoLostWakeup ==
  owner = "wait" /\ ~signalled =>
    /\ \A k \in DOMAIN queue : caller[queue[k]] = "waking"
    /\ handle # "dropped"

(* The owner never goes to sleep on an answer: when the poll pass ends,    *)
(* each request still pending is in flight, whatever swap_remove did to    *)
(* the order of the entries under the index (runtime.rs:464-478).          *)
CompletionsDelivered ==
  owner = "wait" => \A k \in DOMAIN pending : flight[pending[k].id] = "open"

(* Each stream the C client keeps busy is known to the owner exactly once, *)
(* with the caller it was submitted for, and no retired id is polled: no   *)
(* stream leaks, even for the calls that were dropped at their await.      *)
FlightTracked ==
  owner \in {"recv", "tick", "poll", "wait", "drain"} =>
    /\ \A id \in Ids : flight[id] # "free" =>
         \E k \in DOMAIN pending : pending[k] = [id |-> id, to |-> asks[id]]
    /\ \A k \in DOMAIN pending :
         /\ flight[pending[k].id] # "free"
         /\ \A l \in DOMAIN pending : pending[l].id = pending[k].id => l = k

(* A reply that was sent carries the response to the request it answers,   *)
(* though responses complete out of order and entries change places.       *)
OwnResponse ==
  \A r \in Requests : reply[r] = "response" => body[r] = r

(* A command is carried out once, and no caller waits for a reply nobody   *)
(* holds: until it is answered, the reply sender of a waiting caller is in *)
(* exactly one place, the channel or the pending list (runtime.rs:430-441).*)
ReplyHeld ==
  \A r \in Requests :
    caller[r] \in {"waking", "awaiting"} /\ reply[r] = "unsent" =>
      \/ InQueue(r) /\ ~InPending(r)
      \/ InPending(r) /\ ~InQueue(r)

(* The whole is a RequestService: calls return, with their own response or *)
(* an error, and with NetworkClosed only from the teardown on.             *)
Service == INSTANCE RequestService WITH
  status <- [r \in Requests |-> IF caller[r] \in {"sending", "waking", "awaiting"}
                                THEN "called" ELSE caller[r]],
  answer <- reply,
  from   <- body,
  up     <- owner \notin {"exiting", "gone"}

ImplementsService == Service!SSpec

(* However the handle ends, dropped, failed or cancelled while connecting, *)
(* the owner thread stops: "dropping the client stops its thread"          *)
(* (runtime.rs:338).                                                       *)
OwnerStops == handle \in {"dropped", "failed", "cancelled"} ~> owner = "gone"
=============================================================================
