---------------------------- MODULE ManagedServer ----------------------------
(***************************************************************************)
(* The managed server of src/nwep/src/runtime.rs: ServerBuilder::serve     *)
(* starts an owner thread (run_server_loop) that ticks the Server and its  *)
(* managed dht, re-announces the service address and answers the resolve   *)
(* and metrics commands of a RunningServer handle; a resolve is carried    *)
(* out to its end on the owner thread (resolve_on_thread).                 *)
(*                                                                         *)
(* Time is counted in units and passes only where the owner sleeps: in the *)
(* poll wait and in a lookup.  Every other step takes no time.  The wall   *)
(* clock, by which announces are due, may meanwhile be set.                *)
(*                                                                         *)
(* An operator marked "faulty" is a bug the code does not have; it stands  *)
(* beside the definition it would replace, to test the properties with.    *)
(***************************************************************************)
EXTENDS Integers, Sequences, FiniteSets

CONSTANTS
  Callers,          \* the resolve and dht_metrics futures of the handle
  Metrics,          \* those that are dht_metrics calls
  Capacity,         \* the bound of the command channel (32 in the code)
  PollCap,          \* POLL_CAP_MS, in time units
  AnnounceInterval, \* ANNOUNCE_INTERVAL_SECS, in time units
  MaxTimeout,       \* the longest timeout a resolve is called with
  ClockChanges,     \* by how much the wall clock is set, forward or back
  MaxChanges,       \* bound on how often it is set between two announces
  NoRequest         \* "no caller"

ASSUME ServerAssumption ==
  /\ Metrics \subseteq Callers
  /\ IsFiniteSet(Callers)
  /\ {Capacity, PollCap, AnnounceInterval} \subseteq Nat \ {0}
  /\ MaxTimeout \in Nat /\ MaxChanges \in Nat
  /\ ClockChanges \subseteq Int
  /\ NoRequest \notin Callers

VARIABLES
  handle,      \* the serve future, then the RunningServer
  ready,       \* the serve oneshot
  dht,         \* a managed dht is attached
  announce,    \* it has a service address to announce
  stop,        \* the AtomicBool shared with the owner
  caller,      \* where each resolve future is
  reply,       \* each reply oneshot: unsent, or how it was answered
  queue,       \* the command channel, oldest first
  owner,       \* the stage of the owner thread
  job,         \* the resolve the owner is carrying out
  left,        \* what is left of the current sleep or lookup
  announced,   \* time since the last announce, NeverAnnounced before it
  age,         \* the same by the wall clock: now_secs() - announced_at
  changes,     \* how often the wall clock was set since then
  stopAge,     \* time since stop was set
  slept        \* the part of stopAge spent in the poll wait

config  == <<dht, announce>>
apiVars == <<handle, ready, stop>>
clocks  == <<left, announced, age, changes, stopAge, slept>>
vars == <<handle, ready, dht, announce, stop, caller, reply, queue, owner, job,
          left, announced, age, changes, stopAge, slept>>

(* The clocks stop counting where they tell nothing more.                  *)
LongestQueue == Cardinality(Callers) * MaxTimeout
LongestRound == AnnounceInterval + PollCap + LongestQueue
ClockBound == (1 + MaxChanges) * LongestRound + 1
NeverAnnounced == ClockBound + 1
Later(t) == IF t < ClockBound THEN t + 1 ELSE t

ReceiverAlive == owner # "gone"
InQueue(r) == \E k \in DOMAIN queue : queue[k] = r

Init ==
  /\ handle = "awaiting"
  /\ ready = "unsent"
  /\ dht \in BOOLEAN
  /\ announce \in {a \in BOOLEAN : a => dht}
  /\ stop = FALSE
  /\ caller = [r \in Callers |-> "idle"]
  /\ reply = [r \in Callers |-> "unsent"]
  /\ queue = <<>>
  /\ owner = "building"
  /\ job = NoRequest
  /\ left = 0
  /\ announced = NeverAnnounced
  /\ age = 0
  /\ changes = 0
  /\ stopAge = 0
  /\ slept = 0

-----------------------------------------------------------------------------
(* The handle: serve, shutdown and Drop.                                   *)

ServeReturns ==
  /\ handle = "awaiting"
  /\ \/ ready = "ok"  /\ handle' = "running"
     \/ ready = "err" /\ handle' = "failed"
  /\ UNCHANGED <<ready, config, stop, caller, reply, queue, owner, job, clocks>>

(* The caller drops the serve future at its await, with whatever ready_tx  *)
(* has put there: no RunningServer comes to be, and nothing sets stop.     *)
CancelServe ==
  /\ handle = "awaiting"
  /\ handle' = "cancelled"
  /\ UNCHANGED <<ready, config, stop, caller, reply, queue, owner, job, clocks>>

(* shutdown(self) and drop need the handle: no future borrows it any more. *)
Borrowed == \E r \in Callers : caller[r] \in {"sending", "awaiting"}

Shutdown ==
  /\ handle = "running"
  /\ ~Borrowed
  /\ handle' = "joining"
  /\ stop' = TRUE
  /\ UNCHANGED <<ready, config, caller, reply, queue, owner, job, clocks>>

JoinReturns ==
  /\ handle = "joining"
  /\ owner = "gone"
  /\ handle' = "stopped"
  /\ UNCHANGED <<ready, config, stop, caller, reply, queue, owner, job, clocks>>

DropHandle ==
  /\ handle = "running"
  /\ ~Borrowed
  /\ handle' = "detached"
  /\ stop' = TRUE
  /\ UNCHANGED <<ready, config, caller, reply, queue, owner, job, clocks>>

-----------------------------------------------------------------------------
(* A resolve or dht_metrics future.                                        *)

Start(r) ==
  /\ handle = "running"
  /\ caller[r] = "idle"
  /\ caller' = [caller EXCEPT ![r] = "sending"]
  /\ UNCHANGED <<apiVars, config, reply, queue, owner, job, clocks>>

(* Without a managed dht there is no channel: ConfigMissing.               *)
NoDht(r) ==
  /\ caller[r] = "sending"
  /\ ~dht
  /\ caller' = [caller EXCEPT ![r] = "returned"]
  /\ reply' = [reply EXCEPT ![r] = "rejected"]
  /\ UNCHANGED <<apiVars, config, queue, owner, job, clocks>>

RoomForOneMore == Len(queue) <= Capacity   \* faulty: off by one
ChannelHasRoom == Len(queue) < Capacity

Enqueue(r) ==
  /\ caller[r] = "sending"
  /\ dht
  /\ ReceiverAlive
  /\ ChannelHasRoom
  /\ queue' = Append(queue, r)
  /\ caller' = [caller EXCEPT ![r] = "awaiting"]
  /\ UNCHANGED <<apiVars, config, reply, owner, job, clocks>>

SendFails(r) ==
  /\ caller[r] = "sending"
  /\ dht
  /\ ~ReceiverAlive
  /\ reply' = [reply EXCEPT ![r] = "closed"]
  /\ caller' = [caller EXCEPT ![r] = "returned"]
  /\ UNCHANGED <<apiVars, config, queue, owner, job, clocks>>

Return(r) ==
  /\ caller[r] = "awaiting"
  /\ reply[r] # "unsent"
  /\ caller' = [caller EXCEPT ![r] = "returned"]
  /\ UNCHANGED <<apiVars, config, reply, queue, owner, job, clocks>>

(* The future is dropped at an await: its command stays with the owner.    *)
Cancel(r) ==
  /\ caller[r] \in {"sending", "awaiting"}
  /\ caller' = [caller EXCEPT ![r] = "cancelled"]
  /\ UNCHANGED <<apiVars, config, reply, queue, owner, job, clocks>>

-----------------------------------------------------------------------------
(* The owner thread.                                                       *)

(* build, attach_managed_dht and node_id, any of which may fail; then      *)
(* ready_tx.send, which fails when the future has been dropped.            *)
Build ==
  /\ owner = "building"
  /\ \/ /\ ready' = "ok"
        /\ owner' = IF handle = "awaiting" THEN "top" ELSE "exiting"
     \/ /\ ready' = "err"
        /\ owner' = "exiting"
  /\ UNCHANGED <<handle, config, stop, caller, reply, queue, job, clocks>>

StopIgnored == FALSE   \* faulty: while true
StopSeen == stop

LoopTop ==
  /\ owner = "top"
  /\ owner' = IF StopSeen THEN "exiting" ELSE "tick"
  /\ UNCHANGED <<apiVars, config, caller, reply, queue, job, clocks>>

(* The poll wait starts with the transport's and the dht's next timers,    *)
(* capped at POLL_CAP_MS.                                                  *)
UncappedWait == 2 * PollCap   \* faulty: the cap is not applied
LongestWait == PollCap
FallAsleep == owner' = "wait" /\ left' \in 0..LongestWait

(* server.tick(..): an error ends the loop.                                *)
ServerTick ==
  /\ owner = "tick"
  /\ \/ owner' = "exiting" /\ UNCHANGED left
     \/ dht /\ owner' = "dht" /\ UNCHANGED left
     \/ ~dht /\ FallAsleep
  /\ UNCHANGED <<apiVars, config, caller, reply, queue, job, announced, age, changes, stopAge, slept>>

(* secs - announced_at, a u64: below zero it wraps, to more than any        *)
(* interval.                                                               *)
SaturatingAge == IF age < 0 THEN 0 ELSE age   \* faulty: it stops at zero
WrappingAge == IF age < 0 THEN ClockBound ELSE age

Due == announced = NeverAnnounced \/ WrappingAge >= AnnounceInterval

(* dht.tick(..), its error ignored, and the announce when it is due.  A    *)
(* failed announce counts as made.                                         *)
DhtTick ==
  /\ owner = "dht"
  /\ IF announce /\ Due
     THEN announced' = 0 /\ age' = 0 /\ changes' = 0
     ELSE UNCHANGED <<announced, age, changes>>
  /\ owner' = "cmds"
  /\ UNCHANGED <<apiVars, config, caller, reply, queue, job, left, stopAge, slept>>

(* In a build with overflow checks the subtraction panics instead, and the *)
(* thread unwinds.                                                         *)
Overflow ==
  /\ owner = "dht"
  /\ announce /\ announced # NeverAnnounced /\ age < 0
  /\ owner' = "exiting"
  /\ UNCHANGED <<apiVars, config, caller, reply, queue, job, clocks>>

PeekCommand == queue' = queue   \* faulty: the command stays queued
TakeCommand == queue' = Tail(queue)

(* A metrics command, a record in the local store, or a lookup that cannot *)
(* start is answered at once.                                              *)
AnswerAtOnce ==
  /\ owner = "cmds"
  /\ queue # <<>>
  /\ \/ reply' = [reply EXCEPT ![Head(queue)] = "response"]
     \/ Head(queue) \notin Metrics /\ reply' = [reply EXCEPT ![Head(queue)] = "failed"]
  /\ TakeCommand
  /\ UNCHANGED <<apiVars, config, caller, owner, job, clocks>>

(* start_lookup, and the deadline is set.                                  *)
StartLookup ==
  /\ owner = "cmds"
  /\ queue # <<>>
  /\ Head(queue) \notin Metrics
  /\ job' = Head(queue)
  /\ left' \in 0..MaxTimeout
  /\ owner' = "lookup"
  /\ TakeCommand
  /\ UNCHANGED <<apiVars, config, caller, reply, announced, age, changes, stopAge, slept>>

DeadlineForgotten == FALSE   \* faulty: the lookup runs until a record comes
DeadlineReached == left = 0

(* The lookup loop returns a record or a tick error before the deadline,   *)
(* IdentityNotFound after it, and nothing else ends it: not stop.          *)
EndLookup ==
  /\ owner = "lookup"
  /\ \/ left > 0 /\ \E how \in {"response", "failed"} : reply' = [reply EXCEPT ![job] = how]
     \/ DeadlineReached /\ reply' = [reply EXCEPT ![job] = "failed"]
  /\ job' = NoRequest
  /\ left' = 0
  /\ owner' = "cmds"
  /\ UNCHANGED <<apiVars, config, caller, queue, announced, age, changes, stopAge, slept>>

(* try_recv = Empty or Disconnected leaves the command loop.               *)
NoMoreCommands ==
  /\ owner = "cmds"
  /\ queue = <<>>
  /\ FallAsleep
  /\ UNCHANGED <<apiVars, config, caller, reply, queue, job, announced, age, changes, stopAge, slept>>

(* A readable socket or the timeout.                                       *)
WaitEnds ==
  /\ owner = "wait"
  /\ owner' = "top"
  /\ left' = 0
  /\ UNCHANGED <<apiVars, config, caller, reply, queue, job, announced, age, changes, stopAge, slept>>

(* The closure returns: cmd_rx, the dht and the server are dropped.        *)
OwnerExits ==
  /\ owner = "exiting"
  /\ reply' = [r \in Callers |-> IF InQueue(r) THEN "closed" ELSE reply[r]]
  /\ queue' = <<>>
  /\ owner' = "gone"
  /\ UNCHANGED <<apiVars, config, caller, job, clocks>>

(* One unit of time passes while the owner sleeps.                         *)
Elapse ==
  /\ owner \in {"wait", "lookup"}
  /\ left > 0
  /\ left' = left - 1
  /\ IF announced = NeverAnnounced
     THEN UNCHANGED <<announced, age>>
     ELSE announced' = Later(announced) /\ age' = Later(age)
  /\ stopAge' = IF stop THEN Later(stopAge) ELSE stopAge
  /\ slept' = IF stop /\ owner = "wait" THEN Later(slept) ELSE slept
  /\ UNCHANGED <<apiVars, config, caller, reply, queue, owner, job, changes>>

(* Someone sets the wall clock.                                            *)
SetClock ==
  /\ owner \in {"wait", "lookup"}
  /\ announced # NeverAnnounced
  /\ changes < MaxChanges
  /\ \E d \in ClockChanges : age' = age + d
  /\ changes' = changes + 1
  /\ UNCHANGED <<apiVars, config, caller, reply, queue, owner, job, left, announced,
                 stopAge, slept>>

-----------------------------------------------------------------------------
HandleStep == ServeReturns \/ CancelServe \/ Shutdown \/ JoinReturns \/ DropHandle

CallerStep(r) == Start(r) \/ NoDht(r) \/ Enqueue(r) \/ SendFails(r) \/ Return(r)
                 \/ Cancel(r)

Commands == AnswerAtOnce \/ StartLookup \/ EndLookup \/ NoMoreCommands

OwnerStep == Build \/ LoopTop \/ ServerTick \/ DhtTick \/ Overflow \/ Commands \/ WaitEnds
             \/ OwnerExits

(* Everything is over: the system may stop here, and only here.            *)
Terminated ==
  /\ owner = "gone"
  /\ handle \in {"failed", "cancelled", "stopped", "detached"}
  /\ UNCHANGED vars

Next ==
  \/ HandleStep
  \/ \E r \in Callers : CallerStep(r)
  \/ OwnerStep
  \/ Elapse \/ SetClock
  \/ Terminated

Spec == Init /\ [][Next]_vars

(* The owner takes its steps and time passes; a ready future is resumed.   *)
(* The lookup's record may never come, so EndLookup is fair only once the  *)
(* deadline is there.                                                      *)
OwnerMoves ==
  \/ Build \/ LoopTop \/ ServerTick \/ DhtTick \/ AnswerAtOnce \/ StartLookup
  \/ NoMoreCommands \/ WaitEnds \/ OwnerExits

Fairness ==
  /\ WF_vars(OwnerMoves)
  /\ WF_vars(EndLookup /\ left = 0)
  /\ WF_vars(Elapse)
  /\ WF_vars(ServeReturns)
  /\ WF_vars(JoinReturns)
  /\ \A r \in Callers : /\ WF_vars(NoDht(r))
                        /\ WF_vars(Enqueue(r))
                        /\ WF_vars(SendFails(r))
                        /\ WF_vars(Return(r))

FairSpec == Spec /\ Fairness

-----------------------------------------------------------------------------
(* Properties.                                                             *)

TypeOK ==
  /\ handle \in {"awaiting", "running", "failed", "cancelled", "joining", "stopped",
                 "detached"}
  /\ ready \in {"unsent", "ok", "err"}
  /\ dht \in BOOLEAN /\ announce \in BOOLEAN /\ stop \in BOOLEAN
  /\ caller \in [Callers -> {"idle", "sending", "awaiting", "returned", "cancelled"}]
  /\ reply \in [Callers -> {"unsent", "response", "failed", "rejected", "closed"}]
  /\ queue \in Seq(Callers)
  /\ Len(queue) <= Capacity
  /\ owner \in {"building", "top", "tick", "dht", "cmds", "lookup", "wait", "exiting",
                "gone"}
  /\ job \in Callers \cup {NoRequest}
  /\ left \in Nat
  /\ announced \in 0..NeverAnnounced /\ age \in Int /\ changes \in 0..MaxChanges
  /\ stopAge \in 0..ClockBound /\ slept \in 0..ClockBound

(* Each waiting caller's reply sender is in one place: the channel or the  *)
(* resolve being carried out (runtime.rs:267-280).                         *)
ReplyHeld ==
  \A r \in Callers :
    caller[r] = "awaiting" /\ reply[r] = "unsent" =>
      \/ InQueue(r) /\ job # r
      \/ job = r /\ ~InQueue(r)

(* Lookups aside, the owner sleeps at most one poll interval between a     *)
(* stop request and its exit (runtime.rs:28-30).                           *)
StopNoticedInTime == slept <= PollCap

(* However many lookups are queued, a service address is announced anew    *)
(* before the interval, one poll wait and every lookup have gone by; a     *)
(* clock that is set, be it far back, costs no more than the same again    *)
(* (runtime.rs:251-280).                                                   *)
AnnounceBounded ==
  announce /\ announced # NeverAnnounced /\ owner \notin {"exiting", "gone"} =>
    announced < (1 + changes) * LongestRound

(* A stop request or a failed start ends the owner thread, and shutdown    *)
(* then returns (runtime.rs:124-143).                                      *)
StopEnds ==
  handle \in {"joining", "detached", "failed"} ~>
    owner = "gone" /\ handle \in {"stopped", "detached", "failed"}

(* Resolves return, with the record or with an error, NetworkClosed only   *)
(* from the teardown on (runtime.rs:93-122).                               *)
Service == INSTANCE RequestService WITH
  Requests <- Callers,
  status <- [r \in Callers |-> IF caller[r] \in {"sending", "awaiting"}
                               THEN "called" ELSE caller[r]],
  answer <- reply,
  from   <- [r \in Callers |-> IF reply[r] = "response" THEN r ELSE NoRequest],
  up     <- owner \notin {"exiting", "gone"}

ImplementsService == Service!SSpec

(* What the comments promise, and a cancelled serve breaks.                *)

(* "the server runs on its own thread [..] until this handle is dropped or *)
(* shutdown is called" (runtime.rs:69-70): a thread whose handle never     *)
(* reached the caller ends too.                                            *)
CancelledServeStops == handle = "cancelled" ~> owner = "gone"
=============================================================================
