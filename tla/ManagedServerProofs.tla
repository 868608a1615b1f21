------------------------- MODULE ManagedServerProofs -------------------------
(***************************************************************************)
(* ManagedServer keeps its types, holds each reply in one place, notices a *)
(* stop within a poll interval of waiting, announces in bounded time, and  *)
(* takes no step RequestService does not allow, for any number of callers, *)
(* any capacity and any clock.                                             *)
(***************************************************************************)
EXTENDS ManagedServer, FiniteSetTheorems, TLAPS

Flags ==
  /\ handle \in {"awaiting", "running", "failed", "cancelled", "joining", "stopped",
                 "detached"}
  /\ ready \in {"unsent", "ok", "err"}
  /\ dht \in BOOLEAN /\ announce \in BOOLEAN /\ stop \in BOOLEAN
  /\ owner \in {"building", "top", "tick", "dht", "cmds", "lookup", "wait", "exiting",
                "gone"}

Calls ==
  /\ caller \in [Callers -> {"idle", "sending", "awaiting", "returned", "cancelled"}]
  /\ reply \in [Callers -> {"unsent", "response", "failed", "rejected", "closed"}]
  /\ queue \in Seq(Callers) /\ Len(queue) <= Capacity
  /\ job \in Callers \cup {NoRequest}

Clocks ==
  /\ left \in Nat
  /\ announced \in 0..NeverAnnounced /\ age \in Int /\ changes \in 0..MaxChanges
  /\ stopAge \in 0..ClockBound /\ slept \in 0..ClockBound

(* A command is in the channel once, unanswered, and its caller has sent   *)
(* it; so is the resolve being carried out, which has left the channel.    *)
Sent(c, p, r) == c[r] \in {"awaiting", "cancelled"} /\ p[r] = "unsent"
Has(q, r) == \E k \in DOMAIN q : q[k] = r

Once(q) == \A k, l \in DOMAIN q : q[k] = q[l] => k = l
Pending(c, p, q, j) == \A k \in DOMAIN q : Sent(c, p, q[k]) /\ q[k] # j
Carried(c, p, j) == j # NoRequest => Sent(c, p, j)
Waiting(c, p, q, j) ==
  \A r \in Callers : c[r] = "awaiting" /\ p[r] = "unsent" => Has(q, r) \/ j = r
Unasked(c, p) == \A r \in Callers : c[r] \in {"idle", "sending"} => p[r] = "unsent"
Stages(q, j, o) == (j # NoRequest <=> o = "lookup") /\ (o = "gone" => q = <<>>)

Held ==
  /\ Once(queue) /\ Pending(caller, reply, queue, job) /\ Carried(caller, reply, job)
  /\ Waiting(caller, reply, queue, job) /\ Unasked(caller, reply)
  /\ Stages(queue, job, owner)

(* The owner waits on a stop request only in a wait that began before it,  *)
(* or the one it falls into before it next looks.                          *)
Noticed ==
  /\ slept <= PollCap
  /\ ~stop => slept = 0
  /\ owner \in {"building", "tick", "dht", "cmds", "lookup"} => slept = 0
  /\ owner = "wait" => slept + left <= PollCap


LEMMA TypeParts == TypeOK <=> Flags /\ Calls /\ Clocks
BY Zenon DEF TypeOK, Flags, Calls, Clocks

-----------------------------------------------------------------------------
(* The clocks.                                                             *)

LEMMA Bounds == ClockBound \in Nat \ {0} /\ NeverAnnounced = ClockBound + 1
<1>1. Cardinality(Callers) \in Nat
  BY ServerAssumption, FS_CardinalityType
<1>2. LongestQueue \in Nat
  BY <1>1, ServerAssumption DEF LongestQueue
<1>3. LongestRound \in Nat
  BY <1>2, ServerAssumption DEF LongestRound
<1>4. (1 + MaxChanges) * LongestRound \in Nat
  BY <1>3, ServerAssumption
<1>. QED  BY <1>4 DEF ClockBound, NeverAnnounced

LEMMA LaterTyped == \A t \in 0..ClockBound : Later(t) \in 0..ClockBound /\ Later(t) <= t + 1
BY Bounds DEF Later

LEMMA LaterAge == \A t \in Int : Later(t) \in Int
BY Bounds DEF Later

LEMMA ClocksStep == Clocks /\ [Next]_vars => Clocks'
<1> SUFFICES ASSUME Clocks, [Next]_vars PROVE Clocks'
    OBVIOUS
<1> USE DEF Clocks, config, apiVars, clocks
<1>1. CASE HandleStep \/ \E r \in Callers : CallerStep(r)
  BY <1>1 DEF HandleStep, CallerStep, ServeReturns, CancelServe, Shutdown, JoinReturns,
              DropHandle, Start, NoDht, Enqueue, SendFails, Return, Cancel
<1>2. CASE Build \/ LoopTop \/ Overflow \/ AnswerAtOnce \/ OwnerExits \/ WaitEnds \/ EndLookup
  BY <1>2 DEF Build, LoopTop, Overflow, AnswerAtOnce, OwnerExits, WaitEnds, EndLookup
<1>3. CASE ServerTick \/ NoMoreCommands
  BY <1>3, ServerAssumption DEF ServerTick, NoMoreCommands, FallAsleep, LongestWait
<1>4. CASE StartLookup
  BY <1>4, ServerAssumption DEF StartLookup
<1>5. CASE DhtTick
  BY <1>5, Bounds, ServerAssumption DEF DhtTick
<1>6. CASE Elapse
  <2>1. left' \in Nat
    BY <1>6 DEF Elapse
  <2>2. announced' \in 0..NeverAnnounced /\ age' \in Int
    BY <1>6, Bounds, LaterTyped, LaterAge DEF Elapse
  <2>3. stopAge' \in 0..ClockBound /\ slept' \in 0..ClockBound
    BY <1>6, LaterTyped DEF Elapse
  <2>. QED  BY <1>6, <2>1, <2>2, <2>3 DEF Elapse
<1>7. CASE SetClock
  BY <1>7, ServerAssumption DEF SetClock
<1>8. CASE Terminated \/ UNCHANGED vars
  BY <1>8 DEF Terminated, vars
<1>. QED
  BY <1>1, <1>2, <1>3, <1>4, <1>5, <1>6, <1>7, <1>8 DEF Next, OwnerStep, Commands

LEMMA NoticedStep == Flags /\ Clocks /\ Noticed /\ [Next]_vars => Noticed'
<1> SUFFICES ASSUME Flags, Clocks, Noticed, [Next]_vars PROVE Noticed'
    OBVIOUS
<1> USE ServerAssumption DEF Noticed, config, apiVars, clocks
<1>1. CASE HandleStep \/ \E r \in Callers : CallerStep(r)
  BY <1>1 DEF HandleStep, CallerStep, ServeReturns, CancelServe, Shutdown, JoinReturns,
              DropHandle, Start, NoDht, Enqueue, SendFails, Return, Cancel
<1>2. CASE Build \/ Overflow \/ AnswerAtOnce \/ OwnerExits \/ WaitEnds \/ EndLookup
           \/ StartLookup \/ DhtTick
  BY <1>2 DEF Build, Overflow, AnswerAtOnce, OwnerExits, WaitEnds, EndLookup,
              StartLookup, DhtTick
<1>3. CASE LoopTop
  BY <1>3 DEF LoopTop, StopSeen
<1>4. CASE ServerTick \/ NoMoreCommands
  BY <1>4 DEF ServerTick, NoMoreCommands, FallAsleep, LongestWait
<1>5. CASE Elapse
  <2>1. slept' <= slept + 1 /\ slept' \in Nat /\ (owner # "wait" \/ ~stop => slept' = slept)
    BY <1>5, LaterTyped, Bounds DEF Elapse, Clocks
  <2>2. UNCHANGED <<stop, owner>> /\ owner \in {"wait", "lookup"} /\ left' = left - 1
        /\ left > 0
    BY <1>5 DEF Elapse
  <2>3. slept \in Nat /\ left \in Nat /\ PollCap \in Nat
    BY Bounds DEF Clocks
  <2>4. slept' <= PollCap
    BY <2>1, <2>2, <2>3
  <2>5. ~stop' => slept' = 0
    <3>1. ~stop => slept' = 0
      BY <2>1
    <3>. QED  BY <3>1, <2>2, Zenon
  <2>6. owner' = "wait" => slept' + left' <= PollCap
    <3>1. \A a, b, c, d, e \in Nat :
            a <= b + 1 /\ c = d - 1 /\ b + d <= e => a + c <= e
      OBVIOUS
    <3>2. slept' \in Nat /\ left' \in Nat /\ slept' <= slept + 1 /\ left' = left - 1
      BY <2>1, <2>2, <2>3
    <3>3. owner = "wait" => slept + left <= PollCap
      BY DEF Noticed
    <3>. QED  BY <3>1, <3>2, <3>3, <2>2, <2>3, Zenon
  <2>7. owner' = "lookup" => slept' = 0
    BY <2>1, <2>2
  <2>. QED  BY <2>2, <2>4, <2>5, <2>6, <2>7
<1>6. CASE SetClock
  BY <1>6 DEF SetClock
<1>7. CASE Terminated \/ UNCHANGED vars
  BY <1>7 DEF Terminated, vars
<1>. QED
  BY <1>1, <1>2, <1>3, <1>4, <1>5, <1>6, <1>7 DEF Next, OwnerStep, Commands

-----------------------------------------------------------------------------
(* The commands.                                                           *)

LEMMA TailOf ==
  \A s \in Seq(Callers) : s # <<>> =>
    /\ Len(s) \in Nat /\ Len(s) > 0 /\ DOMAIN s = 1..Len(s)
    /\ Head(s) = s[1] /\ Head(s) \in Callers
    /\ Tail(s) \in Seq(Callers) /\ Len(Tail(s)) = Len(s) - 1
    /\ DOMAIN Tail(s) = 1..Len(s) - 1
    /\ \A k \in 1..Len(s) - 1 : Tail(s)[k] = s[k + 1]
OBVIOUS

LEMMA AppendOf ==
  \A s \in Seq(Callers), r \in Callers :
    /\ Append(s, r) \in Seq(Callers)
    /\ Len(s) \in Nat /\ DOMAIN s = 1..Len(s)
    /\ Len(Append(s, r)) = Len(s) + 1 /\ DOMAIN Append(s, r) = 1..Len(s) + 1
    /\ \A k \in 1..Len(s) : Append(s, r)[k] = s[k]
    /\ Append(s, r)[Len(s) + 1] = r
OBVIOUS

LEMMA CallsStep == Calls /\ Held /\ [Next]_vars => Calls'
<1> SUFFICES ASSUME Calls, Held, [Next]_vars PROVE Calls'
    OBVIOUS
<1> USE DEF Calls, config, apiVars, clocks
<1>1. CASE HandleStep \/ Elapse \/ SetClock \/ Terminated \/ UNCHANGED vars
  BY <1>1 DEF HandleStep, ServeReturns, CancelServe, Shutdown, JoinReturns, DropHandle,
              Elapse, SetClock, Terminated, vars
<1>2. CASE Build \/ LoopTop \/ ServerTick \/ DhtTick \/ Overflow \/ NoMoreCommands \/ WaitEnds
  BY <1>2 DEF Build, LoopTop, ServerTick, DhtTick, Overflow, NoMoreCommands, WaitEnds,
              FallAsleep
<1>3. ASSUME NEW r \in Callers, Start(r) \/ NoDht(r) \/ SendFails(r) \/ Return(r) \/ Cancel(r)
      PROVE  Calls'
  BY <1>3 DEF Start, NoDht, SendFails, Return, Cancel
<1>4. ASSUME NEW r \in Callers, Enqueue(r)
      PROVE  Calls'
  <2>1. queue' \in Seq(Callers) /\ Len(queue') <= Capacity
    BY <1>4, AppendOf, ServerAssumption DEF Enqueue, ChannelHasRoom
  <2>. QED  BY <1>4, <2>1 DEF Enqueue
<1>5. CASE AnswerAtOnce \/ StartLookup
  <2>1. Head(queue) \in Callers
    BY <1>5, TailOf DEF AnswerAtOnce, StartLookup
  <2>2. queue' \in Seq(Callers) /\ Len(queue') <= Capacity
    <3>1. queue' = Tail(queue) /\ queue # <<>>
      BY <1>5 DEF AnswerAtOnce, StartLookup, TakeCommand
    <3>2. Tail(queue) \in Seq(Callers) /\ Len(Tail(queue)) = Len(queue) - 1
          /\ Len(queue) \in Nat
      BY <3>1, TailOf
    <3>3. Len(Tail(queue)) <= Capacity
      BY <3>2, ServerAssumption
    <3>. QED  BY <3>1, <3>2, <3>3
  <2>3. CASE AnswerAtOnce
    BY <2>1, <2>2, <2>3 DEF AnswerAtOnce
  <2>4. CASE StartLookup
    BY <2>1, <2>2, <2>4 DEF StartLookup
  <2>. QED  BY <1>5, <2>3, <2>4
<1>6. CASE EndLookup
  BY <1>6 DEF EndLookup
<1>7. CASE OwnerExits
  <2>1. <<>> \in Seq(Callers) /\ Len(<<>>) <= Capacity
    BY ServerAssumption
  <2>. QED  BY <1>7, <2>1 DEF OwnerExits
<1>. QED
  BY <1>1, <1>2, <1>3, <1>4, <1>5, <1>6, <1>7 DEF Next, CallerStep, OwnerStep, Commands

LEMMA FlagsStep == Flags /\ [Next]_vars => Flags'
<1> SUFFICES ASSUME Flags, [Next]_vars PROVE Flags'
    OBVIOUS
<1> USE DEF Flags, config, apiVars, clocks
<1>1. CASE HandleStep
  BY <1>1, Zenon
     DEF HandleStep, ServeReturns, CancelServe, Shutdown, JoinReturns, DropHandle
<1>2. CASE \E r \in Callers : CallerStep(r)
  BY <1>2 DEF CallerStep, Start, NoDht, Enqueue, SendFails, Return, Cancel
<1>3. CASE Build
  BY <1>3 DEF Build
<1>4. CASE LoopTop \/ ServerTick \/ DhtTick \/ Overflow \/ WaitEnds \/ OwnerExits
  BY <1>4 DEF LoopTop, ServerTick, DhtTick, Overflow, WaitEnds, OwnerExits, FallAsleep
<1>5. CASE Commands
  BY <1>5 DEF Commands, AnswerAtOnce, StartLookup, EndLookup, NoMoreCommands, FallAsleep
<1>6. CASE Elapse \/ SetClock \/ Terminated \/ UNCHANGED vars
  BY <1>6 DEF Elapse, SetClock, Terminated, vars
<1>. QED  BY <1>1, <1>2, <1>3, <1>4, <1>5, <1>6 DEF Next, OwnerStep

LEMMA HeldStep == Calls /\ Held /\ [Next]_vars => Held'
<1> SUFFICES ASSUME Calls, Held, [Next]_vars PROVE Held'
    OBVIOUS
<1> USE DEF config, apiVars, clocks
<1>0. Len(queue) \in Nat /\ DOMAIN queue = 1..Len(queue)
      /\ \A k \in DOMAIN queue : queue[k] \in Callers
  BY DEF Calls
<1>1. CASE HandleStep \/ Elapse \/ SetClock \/ Terminated \/ UNCHANGED vars
  <2>1. UNCHANGED <<caller, reply, queue, job, owner>>
    BY <1>1 DEF HandleStep, ServeReturns, CancelServe, Shutdown, JoinReturns, DropHandle,
                Elapse, SetClock, Terminated, vars
  <2>. QED  BY <2>1 DEF Held
<1>2. CASE Build \/ LoopTop \/ ServerTick \/ DhtTick \/ Overflow \/ NoMoreCommands \/ WaitEnds
  <2>1. UNCHANGED <<caller, reply, queue, job>> /\ owner \notin {"lookup", "gone"}
        /\ owner' \notin {"lookup", "gone"}
    BY <1>2 DEF Build, LoopTop, ServerTick, DhtTick, Overflow, NoMoreCommands, WaitEnds,
                FallAsleep
  <2>2. Stages(queue', job', owner')
    BY <2>1 DEF Held, Stages
  <2>. QED  BY <2>1, <2>2 DEF Held
<1>3. ASSUME NEW r \in Callers, Start(r) \/ NoDht(r) \/ SendFails(r) \/ Return(r) \/ Cancel(r)
      PROVE  Held'
  <2>1. UNCHANGED <<queue, job, owner>>
    BY <1>3 DEF Start, NoDht, SendFails, Return, Cancel
  <2>2. \A q \in Callers : q # r => caller'[q] = caller[q] /\ reply'[q] = reply[q]
    BY <1>3 DEF Start, NoDht, SendFails, Return, Cancel, Calls
  <2>3. Sent(caller, reply, r) => Sent(caller', reply', r)
    BY <1>3 DEF Start, NoDht, SendFails, Return, Cancel, Calls, Sent
  <2>4. caller'[r] # "awaiting"
    BY <1>3 DEF Start, NoDht, SendFails, Return, Cancel, Calls
  <2>5. caller'[r] \in {"idle", "sending"} => reply'[r] = "unsent"
    BY <1>3 DEF Start, NoDht, SendFails, Return, Cancel, Calls, Held, Unasked
  <2>6. \A q \in Callers : Sent(caller, reply, q) => Sent(caller', reply', q)
    BY <2>2, <2>3 DEF Sent
  <2>7. Pending(caller', reply', queue, job)
    BY <1>0, <2>6 DEF Held, Pending
  <2>8. Carried(caller', reply', job)
    BY <2>6 DEF Held, Carried, Calls
  <2>9. Waiting(caller', reply', queue, job)
    BY <2>2, <2>4 DEF Held, Waiting
  <2>10. Unasked(caller', reply')
    BY <2>2, <2>5 DEF Held, Unasked
  <2>. QED  BY <2>1, <2>7, <2>8, <2>9, <2>10 DEF Held
<1>4. ASSUME NEW r \in Callers, Enqueue(r)
      PROVE  Held'
  <2>1. UNCHANGED <<reply, job, owner>> /\ owner # "gone" /\ caller[r] = "sending"
        /\ queue' = Append(queue, r) /\ caller'[r] = "awaiting"
        /\ \A q \in Callers : q # r => caller'[q] = caller[q]
    BY <1>4 DEF Enqueue, ReceiverAlive, Calls
  <2>2. reply[r] = "unsent" /\ ~Sent(caller, reply, r)
    BY <2>1 DEF Held, Sent, Unasked
  <2>3. job # r
    BY <2>2, ServerAssumption DEF Held, Carried
  <2>4. \A k \in DOMAIN queue : queue[k] # r
    BY <2>2 DEF Held, Pending
  <2>5. /\ DOMAIN queue' = 1..Len(queue) + 1
        /\ \A k \in 1..Len(queue) : queue'[k] = queue[k]
        /\ queue'[Len(queue) + 1] = r
    BY <2>1, AppendOf DEF Calls
  <2>6. \A q \in Callers : Sent(caller, reply, q) => Sent(caller', reply', q)
    BY <2>1, <2>2 DEF Sent
  <2>7. Sent(caller', reply', r)
    BY <2>1, <2>2 DEF Sent
  <2>8. Once(queue')
    BY <1>0, <2>4, <2>5 DEF Held, Once
  <2>9. Pending(caller', reply', queue', job)
    <3>1. ASSUME NEW k \in 1..Len(queue)
          PROVE  Sent(caller', reply', queue'[k]) /\ queue'[k] # job
      BY <1>0, <2>5, <2>6 DEF Held, Pending
    <3>. QED  BY <1>0, <2>3, <2>5, <2>7, <3>1 DEF Pending
  <2>10. \A q \in Callers : Has(queue, q) => Has(queue', q)
    BY <1>0, <2>5 DEF Has
  <2>11. Has(queue', r)
    BY <1>0, <2>5 DEF Has
  <2>12. Waiting(caller', reply', queue', job)
    BY <2>1, <2>10, <2>11 DEF Held, Waiting
  <2>13. Unasked(caller', reply')
    BY <2>1 DEF Held, Unasked
  <2>14. Carried(caller', reply', job)
    BY <2>6 DEF Held, Carried, Calls
  <2>15. Stages(queue', job, owner)
    BY <2>1 DEF Held, Stages
  <2>. QED  BY <2>1, <2>8, <2>9, <2>12, <2>13, <2>14, <2>15 DEF Held
<1>5. CASE AnswerAtOnce \/ StartLookup
  <2> DEFINE h == Head(queue)
  <2>1. queue # <<>> /\ owner = "cmds" /\ UNCHANGED caller /\ queue' = Tail(queue)
    BY <1>5 DEF AnswerAtOnce, StartLookup, TakeCommand
  <2>2. /\ h = queue[1] /\ h \in Callers /\ 1 \in DOMAIN queue
        /\ DOMAIN queue' = 1..Len(queue) - 1
        /\ \A k \in 1..Len(queue) - 1 : queue'[k] = queue[k + 1]
    BY <2>1, TailOf DEF Calls
  <2> HIDE DEF h
  <2>3. \A k \in DOMAIN queue' : queue'[k] = queue[k + 1] /\ k + 1 \in DOMAIN queue
                                 /\ queue'[k] # h
    BY <1>0, <2>2 DEF Held, Once
  <2>4. Once(queue')
    BY <1>0, <2>2, <2>3 DEF Held, Once
  <2>5. \A q \in Callers : Has(queue, q) /\ q # h => Has(queue', q)
    <3> SUFFICES ASSUME NEW q \in Callers, q # h, NEW k \in 1..Len(queue), queue[k] = q
                 PROVE  \E l \in DOMAIN queue' : queue'[l] = q
        BY <1>0 DEF Has
    <3>1. k # 1
      BY <2>2
    <3>2. k - 1 \in 1..Len(queue) - 1 /\ queue'[k - 1] = q
      BY <1>0, <2>2, <3>1
    <3>. QED  BY <2>2, <3>2
  <2>6. Sent(caller, reply, h) /\ h # NoRequest
    BY <2>2, ServerAssumption DEF Held, Pending
  <2>7. job = NoRequest
    BY <2>1 DEF Held, Stages
  <2>8. \A k \in DOMAIN queue' : Sent(caller, reply, queue'[k]) /\ queue'[k] \in Callers
    BY <1>0, <2>3 DEF Held, Pending
  <2>9. CASE AnswerAtOnce
    <3>1. UNCHANGED <<job, owner>> /\ reply'[h] # "unsent"
          /\ \A q \in Callers : q # h => reply'[q] = reply[q]
      BY <2>2, <2>9 DEF AnswerAtOnce, Calls, h
    <3>2. Pending(caller, reply', queue', job)
      BY <2>3, <2>7, <2>8, <3>1, ServerAssumption DEF Pending, Sent
    <3>3. Unasked(caller, reply')
      BY <2>6, <3>1 DEF Held, Sent, Unasked
    <3>4. Waiting(caller, reply', queue', job)
      BY <2>5, <2>7, <3>1, ServerAssumption DEF Held, Waiting
    <3>5. Carried(caller, reply', job) /\ Stages(queue', job, owner)
      BY <2>1, <2>7 DEF Carried, Stages
    <3>. QED  BY <2>1, <2>4, <3>1, <3>2, <3>3, <3>4, <3>5 DEF Held
  <2>10. CASE StartLookup
    <3>1. UNCHANGED reply /\ job' = h /\ owner' = "lookup"
      BY <2>10 DEF StartLookup, h
    <3>2. Pending(caller, reply, queue', h)
      BY <2>3, <2>8 DEF Pending
    <3>3. Carried(caller, reply, h) /\ Stages(queue', h, "lookup")
      BY <2>6 DEF Carried, Stages
    <3>4. Waiting(caller, reply, queue', h)
      BY <2>5, <2>7, ServerAssumption DEF Held, Waiting
    <3>. QED  BY <2>1, <2>4, <3>1, <3>2, <3>3, <3>4 DEF Held
  <2>. QED  BY <1>5, <2>9, <2>10
<1>6. CASE EndLookup
  <2>1. UNCHANGED <<caller, queue>> /\ owner = "lookup" /\ job' = NoRequest /\ owner' = "cmds"
    BY <1>6 DEF EndLookup
  <2>2. job \in Callers /\ Sent(caller, reply, job)
    BY <2>1 DEF Held, Calls, Stages, Carried
  <2>3. reply'[job] # "unsent" /\ \A q \in Callers : q # job => reply'[q] = reply[q]
    BY <1>6, <2>2 DEF EndLookup, Calls
  <2>4. Pending(caller, reply', queue, NoRequest)
    BY <1>0, <2>3, ServerAssumption DEF Held, Sent, Pending
  <2>5. Waiting(caller, reply', queue, NoRequest)
    BY <2>3 DEF Held, Waiting
  <2>6. Unasked(caller, reply')
    BY <2>2, <2>3 DEF Held, Sent, Unasked
  <2>7. Carried(caller, reply', NoRequest) /\ Stages(queue, NoRequest, "cmds")
    BY DEF Carried, Stages
  <2>. QED  BY <2>1, <2>4, <2>5, <2>6, <2>7 DEF Held
<1>7. CASE OwnerExits
  <2>1. UNCHANGED <<caller, job>> /\ owner = "exiting" /\ queue' = <<>> /\ owner' = "gone"
        /\ \A q \in Callers : reply'[q] = IF Has(queue, q) THEN "closed" ELSE reply[q]
    BY <1>7 DEF OwnerExits, InQueue, Has
  <2>2. job = NoRequest
    BY <2>1 DEF Held, Stages
  <2>3. Waiting(caller, reply', <<>>, job)
    BY <2>1, <2>2, ServerAssumption DEF Held, Waiting
  <2>4. \A q \in Callers : Has(queue, q) => Sent(caller, reply, q)
    BY DEF Held, Pending, Has
  <2>5. Unasked(caller, reply')
    BY <2>1, <2>4 DEF Held, Sent, Unasked
  <2>6. Once(<<>>) /\ Pending(caller, reply', <<>>, job)
    BY DEF Once, Pending
  <2>7. Carried(caller, reply', job) /\ Stages(<<>>, job, "gone")
    BY <2>2 DEF Carried, Stages
  <2>. QED  BY <2>1, <2>3, <2>5, <2>6, <2>7 DEF Held
<1>. QED
  BY <1>1, <1>2, <1>3, <1>4, <1>5, <1>6, <1>7 DEF Next, CallerStep, OwnerStep, Commands

-----------------------------------------------------------------------------
(* Every step is a step of RequestService, or none.                        *)

From(p) == [r \in Callers |-> IF p[r] = "response" THEN r ELSE NoRequest]
Up(o) == o \notin {"exiting", "gone"}

LEMMA Refines == Calls /\ Held /\ [Next]_vars => [Service!SNext]_(Service!svars)
<1> SUFFICES ASSUME Calls, Held, [Next]_vars
             PROVE  Service!SNext \/ UNCHANGED Service!svars
    OBVIOUS
<1> USE DEF config, apiVars, clocks
<1>1. CASE HandleStep \/ Elapse \/ SetClock \/ Terminated \/ UNCHANGED vars
  <2>1. UNCHANGED <<caller, reply, owner>>
    BY <1>1 DEF HandleStep, ServeReturns, CancelServe, Shutdown, JoinReturns, DropHandle,
                Elapse, SetClock, Terminated, vars
  <2>. QED  BY <2>1 DEF Service!svars
<1>2. CASE Build \/ LoopTop \/ ServerTick \/ DhtTick \/ Overflow \/ NoMoreCommands \/ WaitEnds
           \/ StartLookup
  <2>1. UNCHANGED <<caller, reply>> /\ Up(owner)
    BY <1>2 DEF Build, LoopTop, ServerTick, DhtTick, Overflow, NoMoreCommands, WaitEnds,
                StartLookup, Up
  <2>2. CASE Up(owner')
    BY <2>1, <2>2 DEF Service!svars, Up
  <2>3. CASE ~Up(owner')
    <3>1. reply = [r \in Callers |-> IF r \in {} THEN "closed" ELSE reply[r]]
      BY DEF Calls
    <3>2. {} \in SUBSET Service!Unanswered
      OBVIOUS
    <3>3. Service!Close
      BY <2>1, <2>3, <3>1, <3>2 DEF Service!Close, Up
    <3>. QED  BY <3>3 DEF Service!SNext
  <2>. QED  BY <2>2, <2>3
<1>3. ASSUME NEW r \in Callers, Start(r)
      PROVE  Service!SNext \/ UNCHANGED Service!svars
  <2>1. Service!Call(r)
    BY <1>3 DEF Start, Service!Call, Calls
  <2>. QED  BY <2>1 DEF Service!SNext
<1>4. ASSUME NEW r \in Callers, NoDht(r) \/ SendFails(r)
      PROVE  Service!SNext \/ UNCHANGED Service!svars
  <2>1. reply[r] = "unsent"
    BY <1>4 DEF NoDht, SendFails, Held, Unasked
  <2>2. Service!Refuse(r)
    BY <1>4, <2>1 DEF NoDht, SendFails, ReceiverAlive, Service!Refuse, Calls
  <2>. QED  BY <2>2 DEF Service!SNext
<1>5. ASSUME NEW r \in Callers, Enqueue(r)
      PROVE  Service!SNext \/ UNCHANGED Service!svars
  BY <1>5 DEF Enqueue, Service!svars, Calls
<1>6. ASSUME NEW r \in Callers, Return(r) \/ Cancel(r)
      PROVE  Service!SNext \/ UNCHANGED Service!svars
  <2>1. Service!Finish(r)
    BY <1>6 DEF Return, Cancel, Service!Finish, Calls
  <2>. QED  BY <2>1 DEF Service!SNext
<1>7. CASE AnswerAtOnce
  <2>1. PICK r \in Callers : r = Head(queue)
    BY <1>7, TailOf DEF AnswerAtOnce, Calls
  <2>2. Sent(caller, reply, r)
    BY <1>7, <2>1, TailOf DEF AnswerAtOnce, Calls, Held, Pending
  <2>3. Service!Serve(r)
    BY <1>7, <2>1, <2>2 DEF AnswerAtOnce, Service!Serve, Calls, Sent
  <2>. QED  BY <2>3 DEF Service!SNext
<1>8. CASE EndLookup
  <2>1. PICK r \in Callers : r = job
    BY <1>8 DEF EndLookup, Calls, Held, Stages
  <2>2. Sent(caller, reply, r)
    BY <2>1, ServerAssumption DEF Held, Carried
  <2>3. Service!Serve(r)
    BY <1>8, <2>1, <2>2 DEF EndLookup, Service!Serve, Calls, Sent
  <2>. QED  BY <2>3 DEF Service!SNext
<1>9. CASE OwnerExits
  <2> DEFINE S == {r \in Callers : InQueue(r)}
  <2>1. S \in SUBSET Service!Unanswered
    BY DEF Held, Pending, Sent, InQueue, Service!Unanswered
  <2>2. reply' = [r \in Callers |-> IF r \in S THEN "closed" ELSE reply[r]]
    BY <1>9 DEF OwnerExits
  <2>3. UNCHANGED caller /\ owner' = "gone"
    BY <1>9 DEF OwnerExits
  <2>4. From(reply') = From(reply)
    BY <2>1, <2>2 DEF From, Service!Unanswered, Calls
  <2> HIDE DEF S
  <2>5. Service!Close
    BY <2>1, <2>2, <2>3, <2>4 DEF Service!Close, From
  <2>. QED  BY <2>5 DEF Service!SNext
<1>. QED
  BY <1>1, <1>2, <1>3, <1>4, <1>5, <1>6, <1>7, <1>8, <1>9
     DEF Next, CallerStep, OwnerStep, Commands

-----------------------------------------------------------------------------
(* Announces.                                                              *)

(* The callers that may yet have a lookup made, and how long the owner may *)
(* sleep before it next looks whether an announce is due: a caller asks    *)
(* once, so the lookups of one round are bounded although the channel may  *)
(* be filled again while they run.                                         *)
Asking == {r \in Callers : caller[r] \in {"idle", "sending"} \/ Has(queue, r)}
Lookups == Cardinality(Asking) * MaxTimeout
RoundLeft ==
  CASE owner = "cmds"   -> Lookups + PollCap
    [] owner = "lookup" -> left + Lookups + PollCap
    [] owner = "wait"   -> left
    [] OTHER            -> 0

(* Each change of the clock costs one round at most: unless the clock is   *)
(* behind the last announce when the owner looks, and then it announces,   *)
(* what is left of it after the change runs as real time does.             *)
Looping == owner \notin {"exiting", "gone"}
Punctual ==
  /\ announce => dht
  /\ announced # NeverAnnounced => announce
  /\ announced # NeverAnnounced /\ Looping =>
       /\ announced + RoundLeft < (1 + changes) * LongestRound
       /\ age + RoundLeft >= 0 => announced - age <= changes * LongestRound

LEMMA Rounds ==
  /\ LongestQueue \in Nat /\ LongestRound \in Nat
  /\ LongestRound = AnnounceInterval + PollCap + LongestQueue
  /\ \A k \in 0..MaxChanges :
       /\ k * LongestRound \in Nat
       /\ (1 + k) * LongestRound = k * LongestRound + LongestRound
       /\ (1 + k) * LongestRound < ClockBound
<1>1. Cardinality(Callers) \in Nat
  BY ServerAssumption, FS_CardinalityType
<1>2. LongestQueue \in Nat
  BY <1>1, ServerAssumption DEF LongestQueue
<1>3. LongestRound \in Nat /\ LongestRound = AnnounceInterval + PollCap + LongestQueue
  BY <1>2, ServerAssumption DEF LongestRound
<1>4. ASSUME NEW k \in 0..MaxChanges
      PROVE  /\ k * LongestRound \in Nat
             /\ (1 + k) * LongestRound = k * LongestRound + LongestRound
             /\ (1 + k) * LongestRound < ClockBound
  <2>1. \A a, b, n \in Nat : a <= b => (1 + a) * n <= (1 + b) * n
    OBVIOUS
  <2>2. (1 + k) * LongestRound <= (1 + MaxChanges) * LongestRound
    BY <1>3, <2>1, ServerAssumption
  <2>3. k * LongestRound \in Nat /\ (1 + MaxChanges) * LongestRound \in Nat
        /\ (1 + k) * LongestRound = k * LongestRound + LongestRound
    BY <1>3, ServerAssumption
  <2>. QED  BY <1>3, <2>2, <2>3 DEF ClockBound
<1>. QED  BY <1>2, <1>3, <1>4

LEMMA AskingCounted ==
  /\ IsFiniteSet(Asking) /\ Cardinality(Asking) \in Nat
  /\ Lookups \in Nat /\ Lookups <= LongestQueue
<1>1. Asking \in SUBSET Callers
  BY DEF Asking
<1>2. IsFiniteSet(Asking) /\ Cardinality(Asking) <= Cardinality(Callers)
  BY <1>1, FS_Subset, ServerAssumption
<1>3. Cardinality(Asking) \in Nat /\ Cardinality(Callers) \in Nat
  BY <1>2, FS_CardinalityType, ServerAssumption
<1>4. \A m, n, t \in Nat : m <= n => m * t \in Nat /\ m * t <= n * t
  OBVIOUS
<1>. QED  BY <1>2, <1>3, <1>4, ServerAssumption DEF Lookups, LongestQueue

(* Who no longer asks takes the time of a lookup along.                    *)
LEMMA FewerLookups ==
  ASSUME Asking' \subseteq Asking
  PROVE  /\ Lookups' \in Nat /\ Lookups' <= Lookups
         /\ \A r \in Asking : r \notin Asking' => Lookups' + MaxTimeout <= Lookups
<1>1. IsFiniteSet(Asking) /\ Cardinality(Asking) \in Nat /\ Lookups \in Nat
  BY AskingCounted
<1>2. IsFiniteSet(Asking') /\ Cardinality(Asking') <= Cardinality(Asking)
  BY <1>1, FS_Subset
<1>3. Cardinality(Asking') \in Nat
  BY <1>2, FS_CardinalityType
<1>4. \A m, n, t \in Nat : m <= n => m * t \in Nat /\ m * t <= n * t
  OBVIOUS
<1>5. Lookups' \in Nat /\ Lookups' <= Lookups
  BY <1>1, <1>2, <1>3, <1>4, ServerAssumption DEF Lookups
<1>6. ASSUME NEW r \in Asking, r \notin Asking'
      PROVE  Lookups' + MaxTimeout <= Lookups
  <2>1. Asking' \in SUBSET (Asking \ {r})
    BY <1>6
  <2>2. IsFiniteSet(Asking \ {r}) /\ Cardinality(Asking \ {r}) = Cardinality(Asking) - 1
    BY <1>1, FS_RemoveElement
  <2>3. Cardinality(Asking') <= Cardinality(Asking) - 1
    BY <2>1, <2>2, FS_Subset
  <2>4. \A m, n, t \in Nat : m <= n - 1 => m * t + t <= n * t
    <3>1. \A m, n, t \in Nat : m + 1 <= n => (m + 1) * t <= n * t
      OBVIOUS
    <3>2. \A m, t \in Nat : (m + 1) * t = m * t + t
      OBVIOUS
    <3>. QED  BY <3>1, <3>2
  <2>. QED  BY <1>1, <1>3, <2>3, <2>4, ServerAssumption DEF Lookups
<1>. QED  BY <1>5, <1>6

LEMMA RoundLeftTyped == Clocks => RoundLeft \in Nat
BY AskingCounted, ServerAssumption DEF Clocks, RoundLeft

LEMMA RoundLeftTypedNext == Clocks' => (RoundLeft \in Nat)'
BY RoundLeftTyped, PTL

(* Steps that touch neither the clocks nor lengthen the round.             *)
LEMMA QuietStep ==
  ASSUME Clocks, Clocks', Punctual, UNCHANGED <<config, announced, age, changes>>,
         Looping' => Looping /\ RoundLeft' <= RoundLeft
  PROVE  Punctual'
<1>1. RoundLeft \in Nat /\ RoundLeft' \in Nat
  BY RoundLeftTyped, RoundLeftTypedNext
<1>2. announced \in Int /\ age \in Int /\ changes \in 0..MaxChanges
  BY Bounds DEF Clocks
<1>3. (1 + changes) * LongestRound \in Nat /\ changes * LongestRound \in Nat
  <2>1. changes * LongestRound \in Nat /\ LongestRound \in Nat
        /\ (1 + changes) * LongestRound = changes * LongestRound + LongestRound
    BY <1>2, Rounds, Zenon
  <2>2. \A m, n \in Nat : m + n \in Nat
    OBVIOUS
  <2>. QED  BY <2>1, <2>2, Zenon
<1>. DEFINE limit == (1 + changes) * LongestRound
            slack == changes * LongestRound
<1>4. \A n, l, a, t \in Int, m, k \in Int :
         /\ k <= m
         /\ n + m < l
         /\ a + m >= 0 => n - a <= t
         => n + k < l /\ (a + k >= 0 => n - a <= t)
  OBVIOUS
<1>. HIDE DEF limit, slack
<1>5. ASSUME announced # NeverAnnounced, Looping'
      PROVE  /\ announced + RoundLeft' < limit
             /\ age + RoundLeft' >= 0 => announced - age <= slack
  <2>1. /\ announced + RoundLeft < limit
        /\ age + RoundLeft >= 0 => announced - age <= slack
    BY <1>5 DEF Punctual, limit, slack
  <2>2. limit \in Int /\ slack \in Int
    BY <1>3 DEF limit, slack
  <2>3. RoundLeft \in Int /\ RoundLeft' \in Int /\ RoundLeft' <= RoundLeft
    BY <1>1, <1>5
  <2>. QED  BY <1>2, <1>4, <2>1, <2>2, <2>3, Zenon
<1>6. limit' = (1 + changes') * LongestRound /\ limit' = limit /\ slack' = slack
      /\ slack' = changes' * LongestRound
  BY DEF limit, slack
<1>7. (announced # NeverAnnounced)' <=> announced # NeverAnnounced
  BY DEF NeverAnnounced, ClockBound, LongestRound, LongestQueue
<1>. QED  BY <1>5, <1>6, <1>7 DEF Punctual, config, limit, slack

(* A step that adds no asker and makes no sleep longer is quiet.           *)
LEMMA PunctualQuiet ==
  ASSUME Calls, Held, Clocks, Clocks', Punctual,
         HandleStep \/ (\E r \in Callers : CallerStep(r)) \/ Build \/ LoopTop \/ Overflow
         \/ Commands \/ WaitEnds \/ OwnerExits \/ Terminated \/ UNCHANGED vars
  PROVE  Punctual'
<1>. USE DEF config, apiVars, clocks
<1>0. Lookups \in Nat /\ left \in Nat /\ PollCap \in Nat
  BY AskingCounted, ServerAssumption DEF Clocks
<1>1. CASE HandleStep \/ Terminated \/ UNCHANGED vars
  <2>1. UNCHANGED <<config, announced, age, changes, owner, left, caller, queue>>
    BY <1>1 DEF HandleStep, ServeReturns, CancelServe, Shutdown, JoinReturns, DropHandle,
                Terminated, vars
  <2>2. Asking' = Asking
    BY <2>1 DEF Asking
  <2>3. RoundLeft' = RoundLeft
    BY <2>1, <2>2 DEF RoundLeft, Lookups
  <2>4. RoundLeft' <= RoundLeft
    BY <2>3, RoundLeftTyped
  <2>. QED  BY <2>1, <2>4, QuietStep DEF Looping
<1>2. ASSUME NEW r \in Callers, CallerStep(r)
      PROVE  Punctual'
  <2>1. UNCHANGED <<config, announced, age, changes, owner, left>>
    BY <1>2 DEF CallerStep, Start, NoDht, Enqueue, SendFails, Return, Cancel
  <2>2. Asking' \subseteq Asking
    <3>1. CASE Enqueue(r)
      <4>1. caller[r] = "sending" /\ queue' = Append(queue, r)
            /\ caller' = [caller EXCEPT ![r] = "awaiting"]
        BY <3>1 DEF Enqueue
      <4>2. \A q \in Callers : Has(queue', q) => Has(queue, q) \/ q = r
        BY <4>1, AppendOf DEF Has, Calls
      <4>. QED  BY <4>1, <4>2 DEF Asking, Calls
    <3>2. CASE ~Enqueue(r)
      BY <1>2, <3>2 DEF CallerStep, Start, NoDht, SendFails, Return, Cancel, Asking, Calls, Has
    <3>. QED  BY <3>1, <3>2
  <2>3. Lookups' \in Nat /\ Lookups' <= Lookups
    BY <2>2, FewerLookups
  <2>4. RoundLeft' <= RoundLeft
    BY <1>0, <2>1, <2>3 DEF RoundLeft
  <2>. QED  BY <2>1, <2>4, QuietStep DEF Looping
<1>3. CASE Build \/ LoopTop \/ Overflow \/ WaitEnds \/ OwnerExits
  <2>1. UNCHANGED <<config, announced, age, changes>>
    BY <1>3 DEF Build, LoopTop, Overflow, WaitEnds, OwnerExits
  <2>2. ASSUME Looping'
        PROVE  Looping /\ RoundLeft' <= RoundLeft
    <3>1. owner \in {"building", "top", "wait"} /\ owner' \in {"top", "tick"}
      BY <1>3, <2>2 DEF Build, LoopTop, Overflow, WaitEnds, OwnerExits, Looping
    <3>2. RoundLeft' = 0
      BY <3>1 DEF RoundLeft
    <3>. QED  BY <3>1, <3>2, RoundLeftTyped DEF Looping
  <2>. QED  BY <2>1, <2>2, QuietStep
<1>4. CASE AnswerAtOnce \/ StartLookup
  <2> DEFINE h == Head(queue)
  <2>1. queue # <<>> /\ owner = "cmds" /\ UNCHANGED <<caller, config, announced, age, changes>>
        /\ queue' = Tail(queue)
    BY <1>4 DEF AnswerAtOnce, StartLookup, TakeCommand
  <2>2. /\ h = queue[1] /\ h \in Callers /\ 1 \in DOMAIN queue
        /\ DOMAIN queue = 1..Len(queue) /\ Len(queue) \in Nat
        /\ DOMAIN queue' = 1..Len(queue) - 1
        /\ \A k \in 1..Len(queue) - 1 : queue'[k] = queue[k + 1]
    BY <2>1, TailOf DEF Calls
  <2> HIDE DEF h
  <2>3. Asking' \subseteq Asking
    <3>1. \A q \in Callers : Has(queue', q) => Has(queue, q)
      BY <2>2 DEF Has
    <3>. QED  BY <2>1, <3>1 DEF Asking
  <2>4. h \in Asking
    BY <2>2 DEF Asking, Has
  <2>5. h \notin Asking'
    <3>1. caller[h] \in {"awaiting", "cancelled"}
      BY <2>2 DEF Held, Pending, Sent
    <3>2. ~Has(queue', h)
      BY <2>2 DEF Held, Once, Has
    <3>. QED  BY <2>1, <3>1, <3>2 DEF Asking
  <2>6. Lookups' \in Nat /\ Lookups' <= Lookups /\ Lookups' + MaxTimeout <= Lookups
    BY <2>3, <2>4, <2>5, FewerLookups
  <2>7. CASE AnswerAtOnce
    <3>1. owner' = "cmds"
      BY <2>1, <2>7 DEF AnswerAtOnce
    <3>2. RoundLeft' <= RoundLeft
      BY <1>0, <2>1, <2>6, <3>1 DEF RoundLeft
    <3>. QED  BY <2>1, <3>2, QuietStep DEF Looping
  <2>8. CASE StartLookup
    <3>1. owner' = "lookup" /\ left' \in 0..MaxTimeout
      BY <2>8 DEF StartLookup
    <3>2. RoundLeft' = left' + Lookups' + PollCap /\ RoundLeft = Lookups + PollCap
      BY <2>1, <3>1 DEF RoundLeft
    <3>3. RoundLeft' <= RoundLeft
      <4>1. MaxTimeout \in Nat
        BY ServerAssumption
      <4>2. left' \in Nat /\ left' <= MaxTimeout
        BY <3>1, <4>1
      <4>3. \A k, l, t, n, p \in Nat : k <= t /\ l + t <= n => k + l + p <= n + p
        OBVIOUS
      <4>4. left' + Lookups' + PollCap <= Lookups + PollCap
        BY <1>0, <2>6, <4>1, <4>2, <4>3, Zenon
      <4>. QED  BY <3>2, <4>4, Zenon
    <3>. QED  BY <2>1, <3>3, QuietStep DEF Looping
  <2>. QED  BY <1>4, <2>7, <2>8
<1>5. CASE EndLookup \/ NoMoreCommands
  <2>1. UNCHANGED <<caller, queue, config, announced, age, changes>>
    BY <1>5 DEF EndLookup, NoMoreCommands, FallAsleep
  <2>2. Asking' = Asking
    BY <2>1 DEF Asking
  <2>3. Lookups' = Lookups
    BY <2>2 DEF Lookups
  <2>4. CASE EndLookup
    <3>1. owner = "lookup" /\ owner' = "cmds"
      BY <2>4 DEF EndLookup
    <3>2. RoundLeft' <= RoundLeft
      BY <1>0, <2>3, <3>1 DEF RoundLeft
    <3>. QED  BY <2>1, <3>1, <3>2, QuietStep DEF Looping
  <2>5. CASE NoMoreCommands
    <3>1. owner = "cmds" /\ owner' = "wait" /\ left' \in 0..PollCap
      BY <2>5 DEF NoMoreCommands, FallAsleep, LongestWait
    <3>2. RoundLeft' = left' /\ RoundLeft = Lookups + PollCap
      BY <3>1 DEF RoundLeft
    <3>3. RoundLeft' <= RoundLeft
      BY <1>0, <3>1, <3>2
    <3>. QED  BY <2>1, <3>1, <3>3, QuietStep DEF Looping
  <2>. QED  BY <1>5, <2>4, <2>5
<1>. QED  BY <1>1, <1>2, <1>3, <1>4, <1>5 DEF Commands

(* The announce itself: when none is due, one was made less than an        *)
(* interval ago by a clock that is not behind it.                          *)
LEMMA PunctualAnnounce ==
  ASSUME Clocks, Punctual, DhtTick
  PROVE  Punctual'
<1>1. /\ owner = "dht" /\ owner' = "cmds" /\ UNCHANGED config
      /\ RoundLeft = 0 /\ RoundLeft' = Lookups' + PollCap
  BY DEF DhtTick, RoundLeft
<1>2. Lookups' \in Nat /\ Lookups' <= LongestQueue
  <2>1. UNCHANGED <<caller, queue>>
    BY DEF DhtTick
  <2>2. Asking' = Asking
    BY <2>1 DEF Asking
  <2>. QED  BY <2>2, AskingCounted DEF Lookups
<1>3. PollCap \in Nat /\ AnnounceInterval \in Nat \ {0} /\ 0 \in 0..MaxChanges
      /\ LongestQueue \in Nat
  BY Rounds, ServerAssumption
<1>4. LongestRound \in Nat /\ LongestRound = AnnounceInterval + PollCap + LongestQueue
  BY Rounds
<1>5. CASE announce /\ Due
  <2>1. announced' = 0 /\ age' = 0 /\ changes' = 0
    BY <1>5 DEF DhtTick
  <2>2. (1 + changes') * LongestRound = LongestRound /\ changes' * LongestRound = 0
    BY <1>4, <2>1
  <2>3. announced' + RoundLeft' < (1 + changes') * LongestRound
        /\ announced' - age' <= changes' * LongestRound
    <3>1. Lookups' + PollCap < LongestRound
      <4>1. \A k, l, p \in Nat, i \in Nat \ {0} : k <= l => k + p < i + p + l
        OBVIOUS
      <4>. QED  BY <1>2, <1>3, <1>4, <4>1, Zenon
    <3>2. announced' + RoundLeft' = Lookups' + PollCap /\ announced' - age' = 0
      BY <1>1, <1>2, <1>3, <2>1
    <3>. QED  BY <2>2, <3>1, <3>2
  <2>. QED  BY <1>1, <1>5, <2>3 DEF Punctual, config
<1>6. CASE ~(announce /\ Due)
  <2>1. UNCHANGED <<announced, age, changes>>
    BY <1>6 DEF DhtTick
  <2>2. ASSUME announced # NeverAnnounced
        PROVE  /\ announced + RoundLeft' < (1 + changes) * LongestRound
               /\ announced - age <= changes * LongestRound
    <3>1. changes \in 0..MaxChanges /\ announced \in Int /\ age \in Int
      BY Bounds DEF Clocks
    <3>2. changes * LongestRound \in Nat
          /\ (1 + changes) * LongestRound = changes * LongestRound + LongestRound
      BY <3>1, Rounds, Zenon
    <3>3. AnnounceInterval < ClockBound
      <4>1. (1 + 0) * LongestRound < ClockBound
        BY <1>3, Rounds, Zenon
      <4>. QED  BY <1>3, <1>4, <4>1, Bounds
    <3>4. announce /\ ~Due
      BY <1>6, <2>2 DEF Punctual
    <3>5. age >= 0 /\ age < AnnounceInterval
      BY <1>3, <3>1, <3>3, <3>4, Bounds DEF Due, WrappingAge
    <3>6. announced - age <= changes * LongestRound
      <4>1. age + RoundLeft >= 0 => announced - age <= changes * LongestRound
        BY <1>1, <2>2 DEF Punctual, Looping
      <4>. QED  BY <1>1, <3>1, <3>5, <4>1
    <3>7. \A n, a, s, i, p, q, k \in Int :
            a < i /\ n - a <= s /\ k <= q => n + (k + p) < s + (i + p + q)
      OBVIOUS
    <3>8. announced + (Lookups' + PollCap)
            < changes * LongestRound + (AnnounceInterval + PollCap + LongestQueue)
      BY <1>2, <1>3, <3>1, <3>2, <3>5, <3>6, <3>7
    <3>. QED  BY <1>1, <1>4, <3>2, <3>6, <3>8
  <2>3. (announced # NeverAnnounced)' <=> announced # NeverAnnounced
    BY <2>1 DEF NeverAnnounced, ClockBound, LongestRound, LongestQueue
  <2>. QED  BY <1>1, <2>1, <2>2, <2>3 DEF Punctual, config
<1>. QED  BY <1>5, <1>6

(* Time passes: what is left of the round shrinks as the announce ages, by *)
(* either clock, and neither has stopped counting.                         *)
LEMMA PunctualElapse ==
  ASSUME Clocks, Punctual, Elapse
  PROVE  Punctual'
<1>1. UNCHANGED <<config, owner, caller, queue, changes>> /\ owner \in {"wait", "lookup"}
      /\ left' = left - 1 /\ left > 0
  BY DEF Elapse, apiVars
<1>2. RoundLeft' = RoundLeft - 1 /\ RoundLeft \in Nat /\ RoundLeft > 0
  <2>1. Asking' = Asking
    BY <1>1 DEF Asking
  <2>2. Lookups' = Lookups
    BY <2>1 DEF Lookups
  <2>3. Lookups \in Nat /\ left \in Nat /\ PollCap \in Nat
    BY AskingCounted, ServerAssumption DEF Clocks
  <2>. QED  BY <1>1, <2>2, <2>3 DEF RoundLeft
<1>3. CASE announced = NeverAnnounced
  BY <1>1, <1>3 DEF Elapse, Punctual, config, NeverAnnounced, ClockBound, LongestRound, LongestQueue
<1>4. CASE announced # NeverAnnounced
  <2> DEFINE limit == (1 + changes) * LongestRound
             slack == changes * LongestRound
  <2>1. changes \in 0..MaxChanges /\ announced \in Int /\ age \in Int /\ ClockBound \in Nat
    BY Bounds DEF Clocks
  <2>2. slack \in Nat /\ limit \in Nat /\ limit < ClockBound
    <3>1. slack \in Nat /\ LongestRound \in Nat /\ limit = slack + LongestRound
          /\ limit < ClockBound
      BY <2>1, Rounds, Zenon
    <3>2. \A m, n \in Nat : m + n \in Nat
      OBVIOUS
    <3>. QED  BY <3>1, <3>2, Zenon
  <2>3. announced + RoundLeft < limit
        /\ (age + RoundLeft >= 0 => announced - age <= slack)
    BY <1>1, <1>4 DEF Punctual, Looping
  <2> HIDE DEF limit, slack
  <2>4. announced' = announced + 1
    BY <1>2, <1>4, <2>1, <2>2, <2>3 DEF Elapse, Later
  <2>5. age' = IF age < ClockBound THEN age + 1 ELSE age
    BY <1>4 DEF Elapse, Later
  <2>6. announced' + RoundLeft' < limit
    BY <1>2, <2>1, <2>2, <2>3, <2>4
  <2>7. age' + RoundLeft' >= 0 => announced' - age' <= slack
    <3>1. CASE age < ClockBound
      BY <1>2, <2>1, <2>2, <2>3, <2>4, <2>5, <3>1
    <3>2. CASE ~(age < ClockBound)
      BY <1>2, <2>1, <2>2, <2>3, <2>4, <2>5, <3>2
    <3>. QED  BY <3>1, <3>2
  <2>8. limit = (1 + changes') * LongestRound /\ slack = changes' * LongestRound
    BY <1>1 DEF limit, slack
  <2>9. announce' => dht'
    BY <1>1 DEF Punctual, config
  <2>10. announce'
    BY <1>1, <1>4 DEF Punctual, config
  <2>. QED  BY <2>6, <2>7, <2>8, <2>9, <2>10 DEF Punctual, Looping
<1>. QED  BY <1>3, <1>4

(* The clock is set: one round more is granted.                            *)
LEMMA PunctualSetClock ==
  ASSUME Clocks, Punctual, SetClock
  PROVE  Punctual'
<1>1. UNCHANGED <<config, owner, caller, queue, announced, left>> /\ owner \in {"wait", "lookup"}
      /\ changes' = changes + 1 /\ changes < MaxChanges /\ announced # NeverAnnounced
      /\ age' \in Int
  BY ServerAssumption DEF SetClock, apiVars, Clocks
<1>2. RoundLeft' = RoundLeft /\ RoundLeft \in Nat
  <2>1. Asking' = Asking
    BY <1>1 DEF Asking
  <2>2. Lookups' = Lookups
    BY <2>1 DEF Lookups
  <2>. QED  BY <1>1, <2>2, RoundLeftTyped DEF RoundLeft
<1>3. changes \in 0..MaxChanges /\ changes + 1 \in 0..MaxChanges /\ announced \in Int
  BY <1>1, Bounds, ServerAssumption DEF Clocks
<1>. DEFINE limit == (1 + changes) * LongestRound
            slack == changes' * LongestRound
            next  == (1 + changes') * LongestRound
<1>4. slack = limit /\ next = slack + LongestRound /\ slack \in Nat /\ LongestRound \in Nat
  <2>1. changes' \in 0..MaxChanges
    BY <1>1, <1>3
  <2>2. next = slack + LongestRound /\ slack \in Nat /\ LongestRound \in Nat
    BY <2>1, Rounds, Zenon
  <2>3. 1 + changes = changes'
    BY <1>1, <1>3
  <2>4. slack = limit
    BY <2>3
  <2>. QED  BY <2>2, <2>4
<1>5. announced + RoundLeft < limit
  BY <1>1 DEF Punctual, Looping
<1>. HIDE DEF limit, slack, next
<1>6. announced + RoundLeft' < next
  BY <1>2, <1>3, <1>4, <1>5
<1>7. age' + RoundLeft' >= 0 => announced - age' <= slack
  <2>1. \A n, m, l, a \in Int : n + m < l /\ a + m >= 0 => n - a <= l
    OBVIOUS
  <2>2. announced \in Int /\ RoundLeft \in Int /\ slack \in Int /\ age' \in Int
    BY <1>1, <1>2, <1>3, <1>4
  <2>. QED  BY <1>2, <1>4, <1>5, <2>1, <2>2, Zenon
<1>8. announce' /\ dht'
  BY <1>1 DEF Punctual, config
<1>. QED  BY <1>1, <1>6, <1>7, <1>8 DEF Punctual, slack, next

LEMMA PunctualStep ==
  Calls /\ Held /\ Clocks /\ Clocks' /\ Punctual /\ [Next]_vars => Punctual'
<1> SUFFICES ASSUME Calls, Held, Clocks, Clocks', Punctual, [Next]_vars PROVE Punctual'
    OBVIOUS
<1>1. CASE HandleStep \/ (\E r \in Callers : CallerStep(r)) \/ Build \/ LoopTop \/ Overflow
           \/ Commands \/ WaitEnds \/ OwnerExits \/ Terminated \/ UNCHANGED vars
  BY <1>1, PunctualQuiet
<1>2. CASE ServerTick
  <2>1. UNCHANGED <<config, announced, age, changes, caller, queue>> /\ owner = "tick"
        /\ owner' \in {"exiting", "dht", "wait"} /\ (owner' = "wait" => ~dht)
    BY <1>2 DEF ServerTick, FallAsleep
  <2>2. CASE owner' = "wait"
    <3>1. announced = NeverAnnounced /\ ~announce
      BY <2>1, <2>2 DEF Punctual
    <3>. QED
      BY <2>1, <3>1 DEF Punctual, config, NeverAnnounced, ClockBound, LongestRound, LongestQueue
  <2>3. CASE owner' # "wait"
    <3>1. RoundLeft' <= RoundLeft /\ Looping
      BY <2>1, <2>3 DEF RoundLeft, Looping
    <3>. QED  BY <2>1, <3>1, QuietStep
  <2>. QED  BY <2>2, <2>3
<1>3. CASE DhtTick
  BY <1>3, PunctualAnnounce
<1>4. CASE Elapse
  BY <1>4, PunctualElapse
<1>5. CASE SetClock
  BY <1>5, PunctualSetClock
<1>. QED  BY <1>1, <1>2, <1>3, <1>4, <1>5 DEF Next, OwnerStep

-----------------------------------------------------------------------------
(* The theorems.                                                           *)

IInv == TypeOK /\ Held /\ Noticed /\ Punctual

LEMMA StartInv == Init => IInv
<1> SUFFICES ASSUME Init PROVE IInv
    OBVIOUS
<1>1. Flags
  BY DEF Init, Flags
<1>2. Calls
  BY ServerAssumption DEF Init, Calls
<1>3. Clocks
  BY Bounds, ServerAssumption DEF Init, Clocks
<1>4. Held
  BY DEF Init, Held, Once, Pending, Carried, Waiting, Unasked, Stages
<1>5. Noticed
  BY ServerAssumption DEF Init, Noticed
<1>6. Punctual
  BY DEF Init, Punctual
<1>. QED  BY <1>1, <1>2, <1>3, <1>4, <1>5, <1>6, TypeParts DEF IInv

(* The inductive invariant holds in every reachable state of the server.   *)
THEOREM Invariant == Spec => []IInv
<1>1. Init => IInv
  BY StartInv
<1>2. IInv /\ [Next]_vars => IInv'
  <2> SUFFICES ASSUME IInv, [Next]_vars PROVE IInv'
      OBVIOUS
  <2>1. Flags' /\ Calls' /\ Clocks'
    BY TypeParts, FlagsStep, CallsStep, ClocksStep, Zenon DEF IInv
  <2>2. TypeOK'
    BY <2>1, Zenon DEF TypeOK, Flags, Calls, Clocks
  <2>3. Held' /\ Noticed'
    BY TypeParts, HeldStep, NoticedStep, Zenon DEF IInv
  <2>4. Punctual'
    BY <2>1, TypeParts, PunctualStep, Zenon DEF IInv
  <2>. QED  BY <2>2, <2>3, <2>4, Zenon DEF IInv
<1>. QED  BY <1>1, <1>2, PTL DEF Spec

(* Every variable keeps its type.                                          *)
THEOREM TypeCorrect == Spec => []TypeOK
BY Invariant, PTL DEF IInv

(* The reply of a waiting resolve is in the channel or with the owner, and *)
(* in one of them only: it is never lost and never answered twice.         *)
THEOREM RepliesHeld == Spec => []ReplyHeld
<1>1. IInv => ReplyHeld
  BY ServerAssumption
     DEF IInv, Held, Waiting, Pending, Has, ReplyHeld, InQueue
<1>. QED  BY <1>1, Invariant, PTL

(* A stop request waits for at most one poll interval of sleep, whatever   *)
(* the intervals, the timeouts and the load.                               *)
THEOREM StopNoticed == Spec => []StopNoticedInTime
<1>1. IInv => StopNoticedInTime
  BY DEF IInv, Noticed, StopNoticedInTime
<1>. QED  BY <1>1, Invariant, PTL

(* However many lookups the callers queue and however often the clock is   *)
(* set, the owner announces the service address again before one interval, *)
(* one poll wait and one lookup for every caller have gone by, and as much *)
(* again for each time the clock was set.                                  *)
THEOREM AnnouncesBounded == Spec => []AnnounceBounded
<1>1. IInv => AnnounceBounded
  <2> SUFFICES ASSUME IInv, announced # NeverAnnounced, Looping
               PROVE  announced < (1 + changes) * LongestRound
      BY DEF AnnounceBounded, Looping
  <2>1. Clocks
    BY TypeParts, Zenon DEF IInv
  <2>2. announced + RoundLeft < (1 + changes) * LongestRound
    BY DEF IInv, Punctual
  <2>3. RoundLeft \in Nat /\ announced \in Nat
    BY <2>1, RoundLeftTyped, Bounds DEF Clocks
  <2>4. (1 + changes) * LongestRound \in Nat
    <3>1. changes \in Nat /\ LongestRound \in Nat
      BY <2>1, Rounds DEF Clocks
    <3>. QED  BY <3>1
  <2>5. \A a, b, n \in Nat : a + b < n => a < n
    OBVIOUS
  <2>. QED  BY <2>2, <2>3, <2>4, <2>5, Zenon
<1>. QED  BY <1>1, Invariant, PTL

(* Every behaviour of the server is one RequestService allows: a resolve   *)
(* gets one answer, to itself, and after the teardown begins only          *)
(* NetworkClosed.  That calls return is left to the runs.                  *)
THEOREM Implements == Spec => Service!SInit /\ [][Service!SNext]_(Service!svars)
<1>1. Init => Service!SInit
  BY DEF Init, Service!SInit
<1>2. IInv /\ [Next]_vars => [Service!SNext]_(Service!svars)
  BY Refines, TypeParts, Zenon DEF IInv
<1>. QED  BY <1>1, <1>2, Invariant, PTL DEF Spec
=============================================================================
