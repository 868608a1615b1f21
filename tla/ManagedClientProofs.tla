------------------------ MODULE ManagedClientProofs ------------------------
(***************************************************************************)
(* Proofs about the managed client, for any number of calls and streams    *)
(* and any channel bound.                                                  *)
(***************************************************************************)
EXTENDS ManagedClient, SequenceTheorems, TLAPS

(* Vec::swap_remove yields a shorter vector of the same elements: the last *)
(* one at the place of the one removed, the others where they were.        *)
LEMMA SwapRemoveProperties ==
  ASSUME NEW S, NEW s \in Seq(S), NEW i \in 1..Len(s)
  PROVE  /\ SwapRemove(s, i) \in Seq(S)
         /\ Len(SwapRemove(s, i)) = Len(s) - 1
         /\ \A j \in 1..(Len(s) - 1) :
              SwapRemove(s, i)[j] = IF j = i THEN s[Len(s)] ELSE s[j]
<1>1. /\ Len(s) \in Nat /\ Len(s) # 0
      /\ \A j \in 1..Len(s) : s[j] \in S
  BY LenProperties, ElementOfSeq
<1> DEFINE n == Len(s) - 1
           t == [j \in 1..n |-> IF j = i THEN s[Len(s)] ELSE s[j]]
<1>2. n \in Nat
  BY <1>1
<1>3. t \in [1..n -> S]
  BY <1>1, <1>2
<1>4. t \in Seq(S) /\ Len(t) = n
  BY <1>2, <1>3
<1>5. QED
  BY <1>4 DEF SwapRemove

(***************************************************************************)
(* Type correctness.                                                       *)
(***************************************************************************)

(* Answering some requests keeps the replies well typed.                   *)
LEMMA ResolveTyped ==
  ASSUME reply \in [Requests -> Replies], NEW S, NEW how \in Replies, Resolve(S, how)
  PROVE  reply' \in [Requests -> Replies]
BY DEF Resolve

(* Removing an entry of the poll pass keeps the pending list, the streams  *)
(* and the index well typed.                                               *)
LEMMA RetireTyped ==
  ASSUME TypeOK, cursor <= Len(pending), Retire(cursor)
  PROVE  /\ pending' \in Seq(Entries)
         /\ flight' \in [Ids -> {"free", "open", "ready", "failed"}]
         /\ asks' \in [Ids -> Requests \cup {NoRequest}]
         /\ cursor' = cursor
<1>1. cursor \in 1..Len(pending)
  BY LenProperties DEF TypeOK
<1>2. pending' \in Seq(Entries)
  BY <1>1, SwapRemoveProperties DEF TypeOK, Retire
<1>3. QED
  BY <1>2 DEF TypeOK, Retire, CursorAfterRemoval

(* Each variable keeps its type in every step of the handle.               *)
LEMMA HandleTyped == TypeOK /\ HandleStep => TypeOK'
<1> SUFFICES ASSUME TypeOK, HandleStep
             PROVE  TypeOK'
  OBVIOUS
<1> USE DEF TypeOK, callVars, cVars
<1>1. CASE ConnectReturns
  BY <1>1 DEF ConnectReturns
<1>2. CASE CancelConnect
  BY <1>2 DEF CancelConnect
<1>3. CASE DropSender
  BY <1>3 DEF DropSender
<1>4. CASE DropWakes
  BY <1>4 DEF DropWakes
<1>5. QED
  BY <1>1, <1>2, <1>3, <1>4 DEF HandleStep

(* Likewise in every step of a dispatch future; the channel stays within   *)
(* its bound.                                                              *)
LEMMA CallerTyped ==
  ASSUME TypeOK, NEW r \in Requests, CallerStep(r)
  PROVE  TypeOK'
<1> USE DEF TypeOK, apiVars, callVars, cVars, Replies
<1>1. CASE Start(r)
  BY <1>1 DEF Start
<1>2. CASE Enqueue(r)
  <2>1. queue' \in Seq(Requests) /\ Len(queue') = Len(queue) + 1
    BY <1>2 DEF Enqueue
  <2>2. Len(queue') <= Capacity
    BY <1>2, <2>1, ClientAssumption, LenProperties DEF Enqueue, ChannelHasRoom
  <2>3. QED
    BY <1>2, <2>1, <2>2 DEF Enqueue
<1>3. CASE SendFails(r)
  BY <1>3 DEF SendFails
<1>4. CASE Wake(r)
  BY <1>4 DEF Wake
<1>5. CASE Return(r)
  BY <1>5 DEF Return
<1>6. CASE Cancel(r)
  BY <1>6 DEF Cancel
<1>7. QED
  BY <1>1, <1>2, <1>3, <1>4, <1>5, <1>6 DEF CallerStep

(* Likewise in every step of the owner thread.                             *)
LEMMA OwnerTyped == TypeOK /\ OwnerStep => TypeOK'
<1> SUFFICES ASSUME TypeOK, OwnerStep
             PROVE  TypeOK'
  OBVIOUS
<1>1. queue # <<>> => /\ Head(queue) \in Requests
                      /\ Tail(queue) \in Seq(Requests)
                      /\ Len(Tail(queue)) <= Capacity
  BY HeadTailProperties, LenProperties, ClientAssumption DEF TypeOK
<1>2. <<>> \in Seq(Entries) /\ <<>> \in Seq(Requests) /\ Len(<<>>) <= Capacity
  BY ClientAssumption
<1>3. CASE OwnerConnects
  BY <1>3 DEF OwnerConnects, TypeOK, callVars, cVars
<1>4. CASE Submit
  <2>1. PICK id \in Ids :
          /\ flight' = [flight EXCEPT ![id] = "open"]
          /\ asks' = [asks EXCEPT ![id] = Head(queue)]
          /\ pending' = Append(pending, [id |-> id, to |-> Head(queue)])
    BY <1>4 DEF Submit
  <2>2. [id |-> id, to |-> Head(queue)] \in Entries
    BY <1>1, <1>4 DEF Submit, Entries
  <2>3. pending' \in Seq(Entries)
    BY <2>1, <2>2 DEF TypeOK
  <2>4. QED
    BY <1>1, <1>4, <2>1, <2>3 DEF Submit, TakeCommand, TypeOK, apiVars, callVars
<1>5. CASE Reject
  BY <1>1, <1>5 DEF Reject, TakeCommand, TypeOK, apiVars, cVars, Replies
<1>6. CASE QueueEmpty
  BY <1>6 DEF QueueEmpty, TypeOK, apiVars, callVars, cVars
<1>7. CASE Disconnected
  BY <1>2, <1>7, ResolveTyped DEF Disconnected, FailPending, TypeOK, apiVars, cVars, Replies
<1>8. CASE Tick
  <2>1. CASE TickDead
    BY <1>2, <2>1, ResolveTyped DEF TickDead, FailPending, TypeOK, apiVars, cVars, Replies
  <2>2. ASSUME NEW done \in SUBSET Ids, NEW bad \in SUBSET Ids, TickAlive(done, bad)
        PROVE  TypeOK'
    BY <2>2 DEF TickAlive, TypeOK, apiVars, callVars
  <2>3. QED
    BY <1>8, <2>1, <2>2 DEF Tick
<1>9. CASE Poll
  <2>1. CASE PollOpen
    BY <2>1 DEF PollOpen, TypeOK, apiVars, callVars, cVars
  <2>2. CASE PollReady
    <3>1. cursor \in 1..Len(pending)
      BY <2>2, LenProperties DEF PollReady, TypeOK
    <3>2. pending[cursor] \in Entries
      BY <3>1, ElementOfSeq DEF TypeOK
    <3>3. reply' \in [Requests -> Replies] /\ body' \in [Requests -> Requests \cup {NoRequest}]
      BY <2>2, <3>2 DEF PollReady, RemovedCaller, TypeOK, Entries, Replies
    <3>4. QED
      BY <2>2, <3>3, RetireTyped DEF PollReady, TypeOK, apiVars
  <2>3. CASE PollFailed
    <3>1. cursor \in 1..Len(pending)
      BY <2>3, LenProperties DEF PollFailed, TypeOK
    <3>2. pending[cursor] \in Entries
      BY <3>1, ElementOfSeq DEF TypeOK
    <3>3. reply' \in [Requests -> Replies]
      BY <2>3, <3>2 DEF PollFailed, RemovedCaller, TypeOK, Entries, Replies
    <3>4. QED
      BY <2>3, <3>3, RetireTyped DEF PollFailed, TypeOK, apiVars
  <2>4. CASE PollPassEnds
    BY <2>4 DEF PollPassEnds, TypeOK, apiVars, callVars, cVars
  <2>5. QED
    BY <1>9, <2>1, <2>2, <2>3, <2>4 DEF Poll
<1>10. CASE WaitEnds
  BY <1>10 DEF WaitEnds, TypeOK, apiVars, callVars, cVars
<1>11. CASE DrainWaker
  BY <1>11 DEF DrainWaker, LoopTop, TypeOK, apiVars, callVars, cVars
<1>12. CASE OwnerExits
  BY <1>2, <1>12, ResolveTyped DEF OwnerExits, TypeOK, apiVars, cVars, Replies
<1>13. QED
  BY <1>3, <1>4, <1>5, <1>6, <1>7, <1>8, <1>9, <1>10, <1>11, <1>12
  DEF OwnerStep, Receive

(* Every variable of the managed client keeps its type; in particular the  *)
(* command channel never holds more than its bound.                        *)
THEOREM TypeCorrect == Spec => []TypeOK
<1>1. Init => TypeOK
  <2>1. <<>> \in Seq(Requests) /\ <<>> \in Seq(Entries) /\ Len(<<>>) <= Capacity
    BY ClientAssumption
  <2> SUFFICES ASSUME Init PROVE TypeOK
    OBVIOUS
  <2>2. queue \in Seq(Requests) /\ Len(queue) <= Capacity /\ pending \in Seq(Entries)
    BY <2>1 DEF Init
  <2>3. signalled \in BOOLEAN
    BY Zenon DEF Init
  <2>4. cursor \in Nat \ {0}
    BY DEF Init
  <2>5. QED
    BY <2>2, <2>3, <2>4 DEF Init, TypeOK, Replies
<1>2. TypeOK /\ [Next]_vars => TypeOK'
  <2> SUFFICES ASSUME TypeOK, [Next]_vars
               PROVE  TypeOK'
    OBVIOUS
  <2>1. CASE UNCHANGED vars
    BY <2>1 DEF TypeOK, vars
  <2>2. CASE Terminated
    BY <2>2 DEF Terminated, TypeOK, vars
  <2>3. QED
    BY <2>1, <2>2, HandleTyped, CallerTyped, OwnerTyped DEF Next
<1>3. QED
  BY <1>1, <1>2, PTL DEF Spec

(***************************************************************************)
(* No lost wakeup.                                                         *)
(***************************************************************************)

(* The strengthening: from the moment the owner has found the channel      *)
(* empty until it has drained the eventfd, an unreadable eventfd means     *)
(* that each queued command is still to be announced by its caller, and    *)
(* that the handle has not announced its end.  Without the stages before   *)
(* the wait, a command sent during the tick or the poll pass would be      *)
(* forgotten by the invariant.                                             *)
Announced ==
  owner \in {"tick", "poll", "wait"} /\ ~signalled =>
    /\ \A k \in DOMAIN queue : caller[queue[k]] = "waking"
    /\ handle # "dropped"

(* The owner never waits on an unreadable eventfd with a command queued    *)
(* whose sender has already woken it, nor with the handle dropped.         *)
THEOREM WakeupsNotLost == Spec => []NoLostWakeup
<1>1. Init => Announced
  BY DEF Init, Announced
<1>2. TypeOK /\ Announced /\ [Next]_vars => Announced'
  <2> SUFFICES ASSUME TypeOK, Announced, [Next]_vars
               PROVE  Announced'
    OBVIOUS
  <2>1. CASE UNCHANGED vars
    BY <2>1 DEF Announced, vars
  <2>2. CASE HandleStep
    BY <2>2 DEF HandleStep, ConnectReturns, CancelConnect, DropSender, DropWakes,
                Announced, callVars
  <2>3. ASSUME NEW r \in Requests, CallerStep(r)
        PROVE  Announced'
    <3>1. CASE Enqueue(r)
      <4>1. /\ caller' = [caller EXCEPT ![r] = "waking"]
            /\ queue' = Append(queue, r)
            /\ DOMAIN queue' = 1..(Len(queue) + 1)
            /\ \A k \in 1..Len(queue) : queue'[k] = queue[k] /\ queue[k] \in Requests
            /\ queue'[Len(queue) + 1] = r
            /\ DOMAIN queue = 1..Len(queue)
            /\ Len(queue) \in Nat
        BY <3>1, AppendProperties, LenProperties, ElementOfSeq DEF Enqueue, TypeOK
      <4>2. UNCHANGED <<owner, signalled, handle>>
        BY <3>1 DEF Enqueue, apiVars
      <4>3. QED
        BY <4>1, <4>2 DEF Announced, TypeOK
    <3>2. CASE Wake(r)
      BY <3>2 DEF Wake, Announced
    <3>3. CASE Start(r) \/ SendFails(r) \/ Return(r) \/ Cancel(r)
      <4>1. /\ UNCHANGED <<owner, signalled, handle, queue>>
            /\ \E p : caller' = [caller EXCEPT ![r] = p]
            /\ caller[r] # "waking"
        BY <3>3 DEF Start, SendFails, Return, Cancel, apiVars
      <4>2. \A k \in DOMAIN queue : queue[k] \in Requests
        BY LenProperties, ElementOfSeq DEF TypeOK
      <4>3. QED
        BY <4>1, <4>2 DEF Announced, TypeOK
    <3>4. QED
      BY <2>3, <3>1, <3>2, <3>3 DEF CallerStep
  <2>4. CASE OwnerStep
    <3>1. CASE QueueEmpty
      BY <3>1 DEF QueueEmpty, SenderAlive, Announced, apiVars, callVars
    <3>2. CASE OwnerConnects \/ Submit \/ Reject \/ Disconnected
      BY <3>2 DEF OwnerConnects, Submit, Reject, Disconnected, FailPending, Announced
    <3>3. CASE Tick
      BY <3>3 DEF Tick, TickDead, TickAlive, FailPending, Announced, apiVars, callVars
    <3>4. CASE Poll
      BY <3>4 DEF Poll, PollOpen, PollReady, PollFailed, PollPassEnds, Announced,
                  apiVars, callVars
    <3>5. CASE WaitEnds \/ DrainWaker \/ OwnerExits
      BY <3>5 DEF WaitEnds, DrainWaker, LoopTop, OwnerExits, Announced
    <3>6. QED
      BY <2>4, <3>1, <3>2, <3>3, <3>4, <3>5 DEF OwnerStep, Receive
  <2>5. CASE Terminated
    BY <2>5 DEF Terminated, Announced, vars
  <2>6. QED
    BY <2>1, <2>2, <2>3, <2>4, <2>5 DEF Next
<1>3. Announced => NoLostWakeup
  BY DEF Announced, NoLostWakeup
<1>4. QED
  BY <1>1, <1>2, <1>3, TypeCorrect, PTL DEF Spec

(***************************************************************************)
(* Streams, pending entries and answers.                                   *)
(***************************************************************************)

(* Each pending entry holds a stream of its own, which is working for the  *)
(* caller the entry answers.                                               *)
Paired ==
  /\ \A k \in DOMAIN pending : /\ flight[pending[k].id] # "free"
                               /\ asks[pending[k].id] = pending[k].to
  /\ \A k, l \in DOMAIN pending : pending[k].id = pending[l].id => k = l

(* Each busy stream has a pending entry, as long as the loop runs.         *)
Covered ==
  owner \notin {"exiting", "gone"} =>
    \A id \in Ids : flight[id] # "free" => \E k \in DOMAIN pending : pending[k].id = id

(* The entries the poll pass has left behind are in flight.  The index     *)
(* stays after a removal, and the entry swapped in is polled next.         *)
PassedOpen ==
  owner = "poll" =>
    \A k \in DOMAIN pending : k < cursor => flight[pending[k].id] = "open"

ClientInv == TypeOK /\ Paired /\ Covered /\ PassedOpen /\ CompletionsDelivered /\ OwnResponse

(* Where the entry found at j after swap_remove(c) was before it.          *)
Source(n, c, j) == IF j = c THEN n ELSE j

(* Every entry but the one removed is still there, once; those before the  *)
(* index have not moved.                                                   *)
LEMMA SourceProperties ==
  ASSUME NEW n \in Nat, NEW c \in 1..n
  PROVE  /\ \A j \in 1..(n - 1) : /\ Source(n, c, j) \in 1..n
                                  /\ Source(n, c, j) # c
                                  /\ j < c => Source(n, c, j) = j
         /\ \A j, l \in 1..(n - 1) : Source(n, c, j) = Source(n, c, l) => j = l
         /\ \A k \in 1..n : k # c => \E j \in 1..(n - 1) : Source(n, c, j) = k
<1>1. ASSUME NEW k \in 1..n, k # c
      PROVE  \E j \in 1..(n - 1) : Source(n, c, j) = k
  <2>1. CASE k = n
    <3>1. c \in 1..(n - 1) /\ Source(n, c, c) = k
      BY <1>1, <2>1 DEF Source
    <3>2. QED
      BY <3>1
  <2>2. CASE k # n
    <3>1. k \in 1..(n - 1) /\ Source(n, c, k) = k
      BY <1>1, <2>2 DEF Source
    <3>2. QED
      BY <3>1
  <2>3. QED
    BY <2>1, <2>2
<1>2. QED
  BY <1>1 DEF Source

(* An entry leaves the poll pass with its stream, and nothing else moves:  *)
(* every other entry keeps its stream and stays on its side of the index,  *)
(* the last one excepted, which comes under the index.                     *)
LEMMA RetireStep ==
  ASSUME ClientInv, owner = "poll", owner' = owner, cursor <= Len(pending), Retire(cursor)
  PROVE  Paired' /\ Covered' /\ PassedOpen' /\ CompletionsDelivered'
<1> DEFINE was(j) == Source(Len(pending), cursor, j)
<1>1. PICK n \in Nat : n = Len(pending)
  BY LenProperties DEF ClientInv, TypeOK
<1>2. /\ cursor \in 1..n /\ DOMAIN pending = 1..n
      /\ \A k \in 1..n : pending[k] \in Entries
  BY <1>1, LenProperties, ElementOfSeq DEF ClientInv, TypeOK
<1>3. /\ DOMAIN pending' = 1..(n - 1)
      /\ \A j \in 1..(n - 1) : pending'[j] = pending[was(j)]
  BY <1>1, <1>2, SwapRemoveProperties, LenProperties DEF ClientInv, TypeOK, Retire, Source
<1>4. /\ \A j \in 1..(n - 1) : was(j) \in 1..n /\ was(j) # cursor /\ (j < cursor => was(j) = j)
      /\ \A j, l \in 1..(n - 1) : was(j) = was(l) => j = l
      /\ \A k \in 1..n : k # cursor => \E j \in 1..(n - 1) : was(j) = k
  BY <1>1, <1>2, SourceProperties
<1> HIDE DEF was
<1>5. \A k \in 1..n : k # cursor =>
         /\ pending[k].id # pending[cursor].id
         /\ pending[k].id \in Ids
  BY <1>2 DEF ClientInv, Paired, Entries
<1>6. \A id \in Ids : id # pending[cursor].id => flight'[id] = flight[id] /\ asks'[id] = asks[id]
  BY DEF ClientInv, TypeOK, Retire
<1>7. flight'[pending[cursor].id] = "free"
  BY <1>2 DEF ClientInv, TypeOK, Retire, Entries
<1>8. \A j \in 1..(n - 1) : /\ flight'[pending'[j].id] = flight[pending[was(j)].id]
                           /\ asks'[pending'[j].id] = asks[pending[was(j)].id]
  BY <1>3, <1>4, <1>5, <1>6
<1>9. Paired'
  <2>1. \A j \in 1..(n - 1) : /\ flight'[pending'[j].id] # "free"
                             /\ asks'[pending'[j].id] = pending'[j].to
    <3>1. \A k \in 1..n : flight[pending[k].id] # "free" /\ asks[pending[k].id] = pending[k].to
      BY <1>2 DEF ClientInv, Paired
    <3>2. TAKE j \in 1..(n - 1)
    <3>3. was(j) \in 1..n /\ pending'[j] = pending[was(j)]
      BY <1>3, <1>4
    <3>4. QED
      BY <1>8, <3>1, <3>3
  <2>2. \A j, l \in 1..(n - 1) : pending'[j].id = pending'[l].id => was(j) = was(l)
    BY <1>2, <1>3, <1>4 DEF ClientInv, Paired
  <2>3. QED
    BY <1>3, <1>4, <2>1, <2>2 DEF Paired
<1>10. Covered'
  <2>1. SUFFICES ASSUME NEW id \in Ids, flight'[id] # "free"
                 PROVE  \E j \in 1..(n - 1) : pending'[j].id = id
    BY <1>3 DEF Covered
  <2>2. id # pending[cursor].id /\ flight[id] # "free"
    BY <1>6, <1>7, <2>1
  <2>3. PICK k \in 1..n : pending[k].id = id
    BY <1>2, <2>2 DEF ClientInv, Covered
  <2>4. QED
    BY <1>3, <1>4, <2>2, <2>3
<1>11. PassedOpen' /\ CompletionsDelivered'
  <2>1. cursor' = cursor
    BY DEF Retire, CursorAfterRemoval
  <2>2. \A j \in 1..(n - 1) : j < cursor => flight'[pending'[j].id] = "open"
    <3>1. \A k \in 1..n : k < cursor => flight[pending[k].id] = "open"
      BY <1>2 DEF ClientInv, PassedOpen
    <3>2. SUFFICES ASSUME NEW j \in 1..(n - 1), j < cursor
                   PROVE  flight'[pending'[j].id] = "open"
      OBVIOUS
    <3>3. was(j) = j /\ was(j) \in 1..n
      BY <1>4, <3>2
    <3>4. QED
      BY <1>8, <3>1, <3>2, <3>3
  <2>3. QED
    BY <1>3, <2>1, <2>2 DEF PassedOpen, CompletionsDelivered
<1>12. QED
  BY <1>9, <1>10, <1>11

(* The callers' and the handle's steps touch neither the pending list nor  *)
(* the streams, and give no answer but NetworkClosed.                      *)
LEMMA OutsideStep ==
  ASSUME ClientInv, HandleStep \/ \E r \in Requests : CallerStep(r)
  PROVE  Paired' /\ Covered' /\ PassedOpen' /\ CompletionsDelivered' /\ OwnResponse'
<1>1. /\ UNCHANGED <<owner, pending, cursor, flight, asks, body>>
      /\ \A r \in Requests : reply'[r] # reply[r] => reply'[r] = "closed"
  BY DEF ClientInv, TypeOK, HandleStep, ConnectReturns, CancelConnect, DropSender, DropWakes,
         CallerStep, Start, Enqueue, SendFails, Wake, Return, Cancel, callVars, cVars
<1>2. QED
  BY <1>1 DEF ClientInv, Paired, Covered, PassedOpen, CompletionsDelivered, OwnResponse

(* Failing everything in flight empties the pending list for good.         *)
LEMMA FailPendingStep ==
  ASSUME ClientInv, FailPending, UNCHANGED <<body, cVars>>
  PROVE  Paired' /\ Covered' /\ PassedOpen' /\ CompletionsDelivered' /\ OwnResponse'
<1>1. DOMAIN pending' = {}
  BY DEF FailPending
<1>2. \A r \in Requests : reply'[r] = "response" => reply[r] = "response"
  BY DEF FailPending, Resolve
<1>3. QED
  BY <1>1, <1>2 DEF ClientInv, FailPending, Paired, Covered, PassedOpen,
                    CompletionsDelivered, OwnResponse

(* The owner's steps, one by one.                                          *)
LEMMA OwnerStepKeeps ==
  ASSUME ClientInv, OwnerStep
  PROVE  Paired' /\ Covered' /\ PassedOpen' /\ CompletionsDelivered' /\ OwnResponse'
<1> USE DEF ClientInv
<1>1. /\ Len(pending) \in Nat /\ DOMAIN pending = 1..Len(pending)
      /\ \A k \in 1..Len(pending) : pending[k] \in Entries
  BY LenProperties, ElementOfSeq DEF TypeOK
<1>2. CASE OwnerConnects
  BY <1>2 DEF OwnerConnects, Paired, Covered, PassedOpen, CompletionsDelivered,
              OwnResponse, callVars, cVars
<1>3. CASE Submit
  <2>1. PICK id \in Ids :
          /\ flight[id] = "free"
          /\ flight' = [flight EXCEPT ![id] = "open"]
          /\ asks' = [asks EXCEPT ![id] = Head(queue)]
          /\ pending' = Append(pending, [id |-> id, to |-> Head(queue)])
    BY <1>3 DEF Submit
  <2>2. [id |-> id, to |-> Head(queue)] \in Entries
    BY <1>3, HeadTailProperties DEF Submit, Entries, TypeOK
  <2>3. /\ DOMAIN pending' = 1..(Len(pending) + 1)
        /\ \A k \in 1..Len(pending) : pending'[k] = pending[k]
        /\ pending'[Len(pending) + 1] = [id |-> id, to |-> Head(queue)]
    BY <2>1, <2>2, AppendProperties, LenProperties DEF TypeOK
  <2>4. \A k \in 1..Len(pending) : pending[k].id # id /\ pending[k].id \in Ids
    BY <1>1, <2>1 DEF Paired, Entries
  <2>5. \A j \in Ids : j # id => flight'[j] = flight[j] /\ asks'[j] = asks[j]
    BY <2>1 DEF TypeOK
  <2>6. flight'[id] = "open" /\ asks'[id] = Head(queue)
    BY <2>1 DEF TypeOK
  <2>7. Paired'
    BY <1>1, <2>3, <2>4, <2>5, <2>6 DEF Paired
  <2>8. Covered'
    <3>1. SUFFICES ASSUME NEW j \in Ids, flight'[j] # "free"
                   PROVE  \E k \in DOMAIN pending' : pending'[k].id = j
      BY DEF Covered
    <3>2. CASE j = id
      BY <1>1, <2>3, <3>2
    <3>3. CASE j # id
      <4>1. PICK k \in DOMAIN pending : pending[k].id = j
        BY <1>3, <2>5, <3>1, <3>3 DEF Covered, Submit
      <4>2. QED
        BY <1>1, <2>3, <4>1
    <3>4. QED
      BY <3>2, <3>3
  <2>9. QED
    BY <1>3, <2>7, <2>8 DEF Submit, PassedOpen, CompletionsDelivered, OwnResponse, callVars
<1>4. CASE Reject
  BY <1>4 DEF Reject, TypeOK, Paired, Covered, PassedOpen, CompletionsDelivered,
              OwnResponse, cVars
<1>5. CASE QueueEmpty
  BY <1>5 DEF QueueEmpty, Paired, Covered, PassedOpen, CompletionsDelivered,
              OwnResponse, callVars, cVars
<1>6. CASE Disconnected
  BY <1>6, FailPendingStep DEF Disconnected
<1>7. CASE Tick
  <2>1. CASE TickDead
    BY <2>1, FailPendingStep DEF TickDead
  <2>2. ASSUME NEW done \in SUBSET Ids, NEW bad \in SUBSET Ids, TickAlive(done, bad)
        PROVE  Paired' /\ Covered' /\ PassedOpen' /\ CompletionsDelivered' /\ OwnResponse'
    <3>1. /\ UNCHANGED <<pending, asks, reply, body>>
          /\ owner' = "poll" /\ cursor' = 1 /\ owner = "tick"
          /\ \A id \in Ids : flight'[id] = "free" <=> flight[id] = "free"
      BY <2>2 DEF TickAlive, TypeOK, callVars
    <3>2. Paired'
      BY <1>1, <3>1 DEF Paired, Entries
    <3>3. Covered'
      BY <3>1 DEF Covered
    <3>4. PassedOpen'
      BY <1>1, <3>1 DEF PassedOpen
    <3>5. CompletionsDelivered' /\ OwnResponse'
      BY <3>1 DEF CompletionsDelivered, OwnResponse
    <3>6. QED
      BY <3>2, <3>3, <3>4, <3>5
  <2>3. QED
    BY <1>7, <2>1, <2>2 DEF Tick
<1>8. CASE Poll
  <2>1. CASE PollOpen
    <3>1. /\ UNCHANGED <<pending, flight, asks, reply, body, owner>>
          /\ owner = "poll" /\ cursor' = cursor + 1 /\ cursor \in Nat
          /\ flight[pending[cursor].id] = "open"
      BY <2>1 DEF PollOpen, TypeOK, callVars, cVars
    <3>2. \A k \in 1..Len(pending) : k < cursor + 1 => k < cursor \/ k = cursor
      BY <1>1, <3>1
    <3>3. PassedOpen'
      BY <1>1, <3>1, <3>2 DEF PassedOpen
    <3>4. QED
      BY <3>1, <3>3 DEF Paired, Covered, CompletionsDelivered, OwnResponse
  <2>2. CASE PollReady
    <3>1. cursor \in 1..Len(pending)
      BY <1>1, <2>2 DEF PollReady, TypeOK
    <3>2. /\ reply' = [reply EXCEPT ![pending[cursor].to] = "response"]
          /\ body' = [body EXCEPT ![pending[cursor].to] = pending[cursor].to]
      BY <1>1, <2>2, <3>1 DEF PollReady, RemovedCaller, Paired
    <3>3. OwnResponse'
      BY <3>2 DEF OwnResponse, TypeOK
    <3>4. QED
      BY <2>2, <3>3, RetireStep DEF PollReady
  <2>3. CASE PollFailed
    <3>1. OwnResponse'
      BY <2>3 DEF PollFailed, OwnResponse, TypeOK
    <3>2. QED
      BY <2>3, <3>1, RetireStep DEF PollFailed
  <2>4. CASE PollPassEnds
    <3>1. \A k \in DOMAIN pending : k < cursor
      BY <1>1, <2>4 DEF PollPassEnds, TypeOK
    <3>2. QED
      BY <2>4, <3>1 DEF PollPassEnds, Paired, Covered, PassedOpen, CompletionsDelivered,
                        OwnResponse, callVars, cVars
  <2>5. QED
    BY <1>8, <2>1, <2>2, <2>3, <2>4 DEF Poll
<1>9. CASE WaitEnds \/ DrainWaker
  BY <1>9 DEF WaitEnds, DrainWaker, LoopTop, Paired, Covered, PassedOpen,
              CompletionsDelivered, OwnResponse, callVars, cVars
<1>10. CASE OwnerExits
  <2>1. \A r \in Requests : reply'[r] = "response" => reply[r] = "response"
    BY <1>10 DEF OwnerExits, Resolve
  <2>2. QED
    BY <1>10, <2>1 DEF OwnerExits, Paired, Covered, PassedOpen, CompletionsDelivered,
                       OwnResponse, cVars
<1>11. QED
  BY <1>2, <1>3, <1>4, <1>5, <1>6, <1>7, <1>8, <1>9, <1>10 DEF OwnerStep, Receive

(* The invariant of the poll pass holds throughout.                        *)
LEMMA ClientInvariant == Spec => []ClientInv
<1>1. Init => Paired /\ Covered /\ PassedOpen /\ CompletionsDelivered /\ OwnResponse
  BY DEF Init, Paired, Covered, PassedOpen, CompletionsDelivered, OwnResponse
<1>2. ClientInv /\ TypeOK' /\ [Next]_vars => ClientInv'
  <2> SUFFICES ASSUME ClientInv, TypeOK', [Next]_vars
               PROVE  ClientInv'
    OBVIOUS
  <2>1. CASE UNCHANGED vars \/ Terminated
    BY <2>1 DEF Terminated, vars, ClientInv, Paired, Covered, PassedOpen,
                CompletionsDelivered, OwnResponse
  <2>2. CASE HandleStep \/ \E r \in Requests : CallerStep(r)
    BY <2>2, OutsideStep DEF ClientInv
  <2>3. CASE OwnerStep
    BY <2>3, OwnerStepKeeps DEF ClientInv
  <2>4. QED
    BY <2>1, <2>2, <2>3 DEF Next
<1>3. QED
  BY <1>1, <1>2, TypeCorrect, PTL DEF Spec, ClientInv

(* Each response reaches the caller of the very request it answers.        *)
THEOREM ResponsesOwn == Spec => []OwnResponse
BY ClientInvariant, PTL DEF ClientInv

(* The owner never goes to sleep with an answer undelivered.               *)
THEOREM CompletionsNotSleptOn == Spec => []CompletionsDelivered
BY ClientInvariant, PTL DEF ClientInv

(* Busy streams and pending entries match one to one while the loop runs.  *)
THEOREM StreamsTracked == Spec => []FlightTracked
<1>1. ClientInv => FlightTracked
  <2> SUFFICES ASSUME ClientInv, owner \in {"recv", "tick", "poll", "wait", "drain"}
               PROVE  FlightTracked
    BY DEF FlightTracked
  <2>1. \A k \in DOMAIN pending : pending[k] \in Entries
    BY LenProperties, ElementOfSeq DEF ClientInv, TypeOK
  <2>2. \A k \in DOMAIN pending :
           pending[k] = [id |-> pending[k].id, to |-> asks[pending[k].id]]
    BY <2>1 DEF ClientInv, Paired, Entries
  <2>3. QED
    BY <2>2 DEF ClientInv, Paired, Covered, FlightTracked
<1>2. QED
  BY <1>1, ClientInvariant, PTL

(***************************************************************************)
(* Replies, and what the service sees.                                     *)
(***************************************************************************)

(* A command is in the channel or in the pending list, once, its call sent *)
(* and unanswered; a call that waits is in one of them.                    *)
Sent(c, p, r) == c[r] \in {"waking", "awaiting", "cancelled"} /\ p[r] = "unsent"
Queued(q, r) == \E k \in DOMAIN q : q[k] = r
Listed(s, r) == \E k \in DOMAIN s : s[k].to = r

OnceQueued(q) == \A k, l \in DOMAIN q : q[k] = q[l] => k = l
OnceListed(s) == \A k, l \in DOMAIN s : s[k].to = s[l].to => k = l
QueueSent(c, p, q, s) == \A k \in DOMAIN q : Sent(c, p, q[k]) /\ ~Listed(s, q[k])
ListSent(c, p, s) == \A k \in DOMAIN s : Sent(c, p, s[k].to)
Waits(c, p, r) == c[r] \in {"waking", "awaiting"} /\ p[r] = "unsent"
NoneLost(c, p, q, s) ==
  \A r \in Requests : Waits(c, p, r) => Queued(q, r) \/ Listed(s, r)
Unasked(c, p) == \A r \in Requests : c[r] \in {"idle", "sending"} => p[r] = "unsent"

Held ==
  /\ OnceQueued(queue) /\ OnceListed(pending)
  /\ QueueSent(caller, reply, queue, pending) /\ ListSent(caller, reply, pending)
  /\ NoneLost(caller, reply, queue, pending) /\ Unasked(caller, reply)

(* Both lists hold requests.                                               *)
LEMMA Members ==
  ASSUME TypeOK
  PROVE  /\ Len(queue) \in Nat /\ DOMAIN queue = 1..Len(queue)
         /\ \A k \in DOMAIN queue : queue[k] \in Requests
         /\ Len(pending) \in Nat /\ DOMAIN pending = 1..Len(pending)
         /\ \A k \in DOMAIN pending : pending[k] \in Entries /\ pending[k].to \in Requests
<1>1. /\ Len(queue) \in Nat /\ DOMAIN queue = 1..Len(queue)
      /\ \A k \in 1..Len(queue) : queue[k] \in Requests
  BY LenProperties, ElementOfSeq DEF TypeOK
<1>2. /\ Len(pending) \in Nat /\ DOMAIN pending = 1..Len(pending)
      /\ \A k \in 1..Len(pending) : pending[k] \in Entries
  BY LenProperties, ElementOfSeq DEF TypeOK
<1>3. \A e \in Entries : e.to \in Requests
  BY DEF Entries
<1>4. QED
  BY <1>1, <1>2, <1>3

(* The calls' steps, the send apart, keep what was sent as it was.         *)
LEMMA CallerHeld ==
  ASSUME TypeOK, Held, NEW r \in Requests,
         Start(r) \/ SendFails(r) \/ Wake(r) \/ Return(r) \/ Cancel(r)
  PROVE  Held'
<1> USE DEF Start, SendFails, Wake, Return, Cancel
<1>1. UNCHANGED <<queue, pending>>
  OBVIOUS
<1>2. \A q \in Requests : q # r => caller'[q] = caller[q] /\ reply'[q] = reply[q]
  BY DEF TypeOK
<1>3. Sent(caller, reply, r) => Sent(caller', reply', r)
  BY DEF TypeOK, Sent
<1>4. Waits(caller', reply', r) => Waits(caller, reply, r)
  BY DEF TypeOK, Waits
<1>5. caller'[r] \in {"idle", "sending"} => reply'[r] = "unsent"
  BY DEF TypeOK, Held, Unasked
<1>6. \A q \in Requests : /\ Sent(caller, reply, q) => Sent(caller', reply', q)
                          /\ Waits(caller', reply', q) => Waits(caller, reply, q)
  BY <1>2, <1>3, <1>4 DEF Sent, Waits
<1>7. QueueSent(caller', reply', queue, pending) /\ ListSent(caller', reply', pending)
  BY <1>6, Members DEF Held, QueueSent, ListSent
<1>8. NoneLost(caller', reply', queue, pending)
  BY <1>6 DEF Held, NoneLost
<1>9. Unasked(caller', reply')
  BY <1>2, <1>5 DEF Held, Unasked
<1>10. QED
  BY <1>1, <1>7, <1>8, <1>9 DEF Held

(* The send puts a call in the channel that was in neither place.          *)
LEMMA EnqueueHeld ==
  ASSUME TypeOK, Held, NEW r \in Requests, Enqueue(r)
  PROVE  Held'
<1>1. /\ UNCHANGED <<reply, pending>> /\ caller[r] = "sending" /\ caller'[r] = "waking"
      /\ queue' = Append(queue, r)
      /\ \A q \in Requests : q # r => caller'[q] = caller[q]
  BY DEF Enqueue, TypeOK
<1>2. reply[r] = "unsent" /\ ~Sent(caller, reply, r) /\ Sent(caller', reply', r)
  BY <1>1 DEF Held, Unasked, Sent
<1>3. (\A k \in DOMAIN queue : queue[k] # r) /\ ~Listed(pending, r)
  BY <1>2 DEF Held, QueueSent, ListSent, Listed
<1>4. /\ DOMAIN queue' = 1..Len(queue) + 1
      /\ \A k \in 1..Len(queue) : queue'[k] = queue[k]
      /\ queue'[Len(queue) + 1] = r
  BY <1>1, AppendProperties, LenProperties DEF TypeOK
<1>5. \A q \in Requests : Sent(caller, reply, q) => Sent(caller', reply', q)
  BY <1>1, <1>2 DEF Sent
<1>6. OnceQueued(queue')
  BY <1>3, <1>4, Members DEF Held, OnceQueued
<1>7. QueueSent(caller', reply', queue', pending)
  <2>1. ASSUME NEW k \in 1..Len(queue)
        PROVE  Sent(caller', reply', queue'[k]) /\ ~Listed(pending, queue'[k])
    BY <1>4, <1>5, Members DEF Held, QueueSent
  <2>2. QED
    BY <1>2, <1>3, <1>4, <2>1, Members DEF QueueSent
<1>8. ListSent(caller', reply', pending)
  BY <1>5, Members DEF Held, ListSent
<1>9. \A q \in Requests : Queued(queue, q) \/ q = r => Queued(queue', q)
  BY <1>4, Members DEF Queued
<1>10. NoneLost(caller', reply', queue', pending)
  BY <1>1, <1>9 DEF Held, NoneLost, Waits
<1>11. Unasked(caller', reply')
  BY <1>1 DEF Held, Unasked
<1>12. QED
  BY <1>1, <1>6, <1>7, <1>8, <1>10, <1>11 DEF Held

(* Taking the oldest command leaves the others as they were.               *)
LEMMA Dequeued ==
  ASSUME TypeOK, Held, queue # <<>>, TakeCommand, NEW r \in Requests, r = Head(queue)
  PROVE  /\ OnceQueued(queue')
         /\ \A k \in DOMAIN queue' :
              /\ queue'[k] \in Requests /\ queue'[k] # r
              /\ Sent(caller, reply, queue'[k]) /\ ~Listed(pending, queue'[k])
         /\ \A q \in Requests : Queued(queue, q) /\ q # r => Queued(queue', q)
         /\ Sent(caller, reply, r) /\ ~Listed(pending, r)
<1>1. /\ r = queue[1] /\ 1 \in DOMAIN queue /\ DOMAIN queue' = 1..Len(queue) - 1
      /\ \A k \in 1..Len(queue) - 1 : queue'[k] = queue[k + 1]
  BY HeadTailProperties, LenProperties, EmptySeq DEF TypeOK, TakeCommand
<1>2. \A k \in DOMAIN queue' : k + 1 \in DOMAIN queue /\ queue'[k] = queue[k + 1]
                               /\ queue'[k] # r
  BY <1>1, Members DEF Held, OnceQueued
<1>3. OnceQueued(queue')
  BY <1>1, <1>2, Members DEF Held, OnceQueued
<1>4. \A k \in DOMAIN queue : /\ queue[k] \in Requests /\ Sent(caller, reply, queue[k])
                              /\ ~Listed(pending, queue[k])
  BY Members DEF Held, QueueSent
<1>5. ASSUME NEW q \in Requests, q # r, NEW k \in 1..Len(queue), queue[k] = q
      PROVE  \E l \in DOMAIN queue' : queue'[l] = q
  <2>1. k # 1
    BY <1>1, <1>5
  <2>2. k - 1 \in 1..Len(queue) - 1 /\ queue'[k - 1] = q
    BY <1>1, <1>5, <2>1, Members
  <2>3. QED
    BY <1>1, <2>2
<1>6. \A q \in Requests : Queued(queue, q) /\ q # r => Queued(queue', q)
  BY <1>5, Members DEF Queued
<1>7. QED
  BY <1>1, <1>2, <1>3, <1>4, <1>6

(* Submitting moves a call from the channel to the pending list, refusing  *)
(* it answers it.                                                          *)
LEMMA ReceiveHeld ==
  ASSUME TypeOK, Held, Submit \/ Reject
  PROVE  Held'
<1>1. PICK r \in Requests : r = Head(queue)
  BY HeadTailProperties DEF Submit, Reject, TypeOK
<1>2. queue # <<>> /\ TakeCommand /\ UNCHANGED caller
  BY DEF Submit, Reject, callVars
<1>3. /\ OnceQueued(queue')
      /\ \A k \in DOMAIN queue' :
           /\ queue'[k] \in Requests /\ queue'[k] # r
           /\ Sent(caller, reply, queue'[k]) /\ ~Listed(pending, queue'[k])
      /\ \A q \in Requests : Queued(queue, q) /\ q # r => Queued(queue', q)
      /\ Sent(caller, reply, r) /\ ~Listed(pending, r)
  BY <1>1, <1>2, Dequeued
<1>4. CASE Submit
  <2>1. PICK id \in Ids : pending' = Append(pending, [id |-> id, to |-> r])
    BY <1>1, <1>4 DEF Submit
  <2>2. [id |-> id, to |-> r] \in Entries
    BY DEF Entries
  <2>3. /\ DOMAIN pending' = 1..Len(pending) + 1
        /\ \A k \in 1..Len(pending) : pending'[k] = pending[k]
        /\ pending'[Len(pending) + 1].to = r
    BY <2>1, <2>2, AppendProperties, LenProperties DEF TypeOK
  <2>4. UNCHANGED reply
    BY <1>4 DEF Submit, callVars
  <2>5. \A k \in 1..Len(pending) : pending[k].to # r
    BY <1>3, Members DEF Listed
  <2>6. OnceListed(pending')
    BY <2>3, <2>5, Members DEF Held, OnceListed
  <2>7. \A q \in Requests : Listed(pending', q) <=> Listed(pending, q) \/ q = r
    BY <2>3, Members DEF Listed
  <2>8. QueueSent(caller, reply, queue', pending')
    BY <1>3, <2>7 DEF QueueSent
  <2>9. ListSent(caller, reply, pending')
    <3>1. ASSUME NEW k \in 1..Len(pending)
          PROVE  Sent(caller, reply, pending'[k].to)
      BY <2>3, Members DEF Held, ListSent
    <3>2. QED
      BY <1>3, <2>3, <3>1, Members DEF ListSent
  <2>10. NoneLost(caller, reply, queue', pending')
    BY <1>3, <2>7 DEF Held, NoneLost
  <2>11. QED
    BY <1>2, <1>3, <2>4, <2>6, <2>8, <2>9, <2>10 DEF Held
<1>5. CASE Reject
  <2>1. /\ UNCHANGED pending /\ reply'[r] = "rejected"
        /\ \A q \in Requests : q # r => reply'[q] = reply[q]
    BY <1>1, <1>5 DEF Reject, TypeOK
  <2>2. QueueSent(caller, reply', queue', pending)
    BY <1>3, <2>1 DEF QueueSent, Sent
  <2>3. ListSent(caller, reply', pending)
    BY <1>3, <2>1, Members DEF Held, ListSent, Sent, Listed
  <2>4. NoneLost(caller, reply', queue', pending)
    BY <1>3, <2>1 DEF Held, NoneLost, Waits
  <2>5. Unasked(caller, reply')
    BY <1>3, <2>1 DEF Held, Unasked, Sent
  <2>6. QED
    BY <1>2, <1>3, <2>1, <2>2, <2>3, <2>4, <2>5 DEF Held
<1>6. QED
  BY <1>4, <1>5

(* Each entry the poll pass answers leaves the pending list with it.       *)
LEMMA PollHeld ==
  ASSUME TypeOK, Held, PollReady \/ PollFailed
  PROVE  Held'
<1>1. PICK n \in Nat : n = Len(pending)
  BY Members
<1> DEFINE was(j) == Source(n, cursor, j)
<1>2. cursor \in 1..n /\ DOMAIN pending = 1..n
  BY <1>1, Members DEF PollReady, PollFailed, TypeOK
<1>3. PICK r \in Requests : r = pending[cursor].to
  BY <1>2, Members
<1>4. /\ UNCHANGED <<caller, queue>> /\ reply'[r] # "unsent"
      /\ \A q \in Requests : q # r => reply'[q] = reply[q]
      /\ pending' = SwapRemove(pending, cursor)
  BY <1>3 DEF PollReady, PollFailed, RemovedCaller, Retire, TypeOK
<1>5. /\ DOMAIN pending' = 1..(n - 1)
      /\ \A j \in 1..(n - 1) : pending'[j] = pending[was(j)]
  <2>1. /\ pending \in Seq(Entries) /\ cursor \in 1..Len(pending)
    BY <1>1, <1>2 DEF TypeOK
  <2>2. /\ pending' \in Seq(Entries) /\ Len(pending') = Len(pending) - 1
        /\ \A j \in 1..(Len(pending) - 1) :
             pending'[j] = IF j = cursor THEN pending[Len(pending)] ELSE pending[j]
    BY <1>4, <2>1, SwapRemoveProperties
  <2>3. DOMAIN pending' = 1..Len(pending')
    BY <2>2
  <2>4. QED
    BY <1>1, <2>2, <2>3 DEF Source
<1>6. /\ \A j \in 1..(n - 1) : was(j) \in 1..n /\ was(j) # cursor
      /\ \A j, l \in 1..(n - 1) : was(j) = was(l) => j = l
      /\ \A k \in 1..n : k # cursor => \E j \in 1..(n - 1) : was(j) = k
  <2>1. n \in Nat /\ cursor \in 1..n
    BY <1>2
  <2>2. QED
    BY <2>1, SourceProperties
<1> HIDE DEF was
<1>7. Sent(caller, reply, r)
  BY <1>2, <1>3 DEF Held, ListSent
<1>8. \A k \in 1..n : k # cursor => pending[k].to # r /\ pending[k].to \in Requests
  BY <1>2, <1>3, Members DEF Held, OnceListed
<1>9. OnceListed(pending')
  <2>1. \A j, l \in 1..(n - 1) : pending'[j].to = pending'[l].to => was(j) = was(l)
    BY <1>2, <1>5, <1>6 DEF Held, OnceListed
  <2>2. QED
    BY <1>5, <1>6, <2>1 DEF OnceListed
<1>10. ListSent(caller, reply', pending')
  <2>1. \A k \in 1..n : k # cursor => Sent(caller, reply', pending[k].to)
    BY <1>2, <1>4, <1>8 DEF Held, ListSent, Sent
  <2>2. QED
    BY <1>5, <1>6, <2>1 DEF ListSent
<1>11. \A q \in Requests : q # r => (Listed(pending', q) <=> Listed(pending, q))
  <2>1. ASSUME NEW q \in Requests, q # r, NEW k \in 1..n, pending[k].to = q
        PROVE  \E j \in 1..(n - 1) : pending'[j].to = q
    BY <1>3, <1>5, <1>6, <2>1
  <2>2. QED
    BY <1>2, <1>5, <1>6, <2>1 DEF Listed
<1>12. \A k \in DOMAIN queue : queue[k] # r
  BY <1>2, <1>3 DEF Held, QueueSent, Listed
<1>13. QueueSent(caller, reply', queue, pending')
  BY <1>4, <1>11, <1>12, Members DEF Held, QueueSent, Sent
<1>14. NoneLost(caller, reply', queue, pending')
  BY <1>4, <1>11 DEF Held, NoneLost, Waits
<1>15. Unasked(caller, reply')
  BY <1>4, <1>7 DEF Held, Unasked, Sent
<1>16. QED
  BY <1>4, <1>9, <1>10, <1>13, <1>14, <1>15 DEF Held

(* Failing what is pending, and dropping what is queued, answers each call *)
(* that leaves its place.                                                  *)
LEMMA TeardownHeld ==
  ASSUME TypeOK, Held, UNCHANGED caller,
         \/ FailPending /\ UNCHANGED queue
         \/ OwnerExits
  PROVE  Held'
<1>1. \A q \in Requests : /\ Queued(queue, q) => Sent(caller, reply, q) /\ ~Listed(pending, q)
                          /\ Listed(pending, q) => Sent(caller, reply, q)
  BY DEF Held, QueueSent, ListSent, Queued, Listed
<1>2. CASE FailPending /\ UNCHANGED queue
  <2>1. /\ pending' = <<>>
        /\ \A q \in Requests : reply'[q] = IF Listed(pending, q) THEN "closed" ELSE reply[q]
    BY <1>2 DEF FailPending, Resolve, PendingCallers, InPending, Listed
  <2>2. OnceListed(<<>>) /\ ListSent(caller, reply', <<>>)
    BY DEF OnceListed, ListSent
  <2>3. QueueSent(caller, reply', queue, <<>>)
    <3>1. \A q : ~Listed(<<>>, q)
      BY DEF Listed
    <3>2. QED
      BY <2>1, <3>1, Members DEF Held, QueueSent, Sent
  <2>4. NoneLost(caller, reply', queue, <<>>)
    BY <2>1 DEF Held, NoneLost, Waits
  <2>5. Unasked(caller, reply')
    BY <1>1, <2>1 DEF Held, Unasked, Sent
  <2>6. QED
    BY <1>2, <2>1, <2>2, <2>3, <2>4, <2>5 DEF Held
<1>3. CASE OwnerExits
  <2>1. /\ queue' = <<>> /\ UNCHANGED pending
        /\ \A q \in Requests : reply'[q] = IF Queued(queue, q) THEN "closed" ELSE reply[q]
    BY <1>3 DEF OwnerExits, Resolve, QueuedCallers, InQueue, Queued
  <2>2. OnceQueued(<<>>) /\ QueueSent(caller, reply', <<>>, pending)
    BY DEF OnceQueued, QueueSent
  <2>3. ListSent(caller, reply', pending)
    <3>1. \A k \in DOMAIN pending : ~Queued(queue, pending[k].to)
      BY <1>1, Members DEF Listed
    <3>2. QED
      BY <2>1, <3>1, Members DEF Held, ListSent, Sent
  <2>4. NoneLost(caller, reply', <<>>, pending)
    BY <2>1 DEF Held, NoneLost, Waits
  <2>5. Unasked(caller, reply')
    BY <1>1, <2>1 DEF Held, Unasked, Sent
  <2>6. QED
    BY <2>1, <2>2, <2>3, <2>4, <2>5 DEF Held
<1>4. QED
  BY <1>2, <1>3

LEMMA HeldStep == TypeOK /\ Held /\ [Next]_vars => Held'
<1> SUFFICES ASSUME TypeOK, Held, [Next]_vars
             PROVE  Held'
  OBVIOUS
<1>1. CASE HandleStep \/ UNCHANGED vars \/ Terminated
  <2>1. UNCHANGED <<caller, reply, queue, pending>>
    BY <1>1 DEF HandleStep, ConnectReturns, CancelConnect, DropSender, DropWakes, callVars,
                Terminated, vars
  <2>2. QED
    BY <2>1 DEF Held
<1>2. CASE \E r \in Requests : CallerStep(r)
  BY <1>2, CallerHeld, EnqueueHeld DEF CallerStep
<1>3. CASE OwnerConnects \/ QueueEmpty \/ PollOpen \/ PollPassEnds \/ WaitEnds \/ DrainWaker
           \/ \E done, bad \in SUBSET Ids : TickAlive(done, bad)
  <2>1. UNCHANGED <<caller, reply, queue, pending>>
    BY <1>3 DEF OwnerConnects, QueueEmpty, PollOpen, PollPassEnds, WaitEnds, DrainWaker,
                TickAlive, callVars
  <2>2. QED
    BY <2>1 DEF Held
<1>4. CASE Submit \/ Reject
  BY <1>4, ReceiveHeld
<1>5. CASE PollReady \/ PollFailed
  BY <1>5, PollHeld
<1>6. CASE Disconnected \/ TickDead \/ OwnerExits
  BY <1>6, TeardownHeld DEF Disconnected, TickDead, OwnerExits
<1>7. QED
  BY <1>1, <1>2, <1>3, <1>4, <1>5, <1>6 DEF Next, OwnerStep, Receive, Tick, Poll

LEMMA HeldInvariant == Spec => []Held
<1>1. Init => Held
  BY DEF Init, Held, OnceQueued, OnceListed, QueueSent, ListSent, NoneLost, Waits, Unasked
<1>2. QED
  BY <1>1, HeldStep, TypeCorrect, PTL DEF Spec

(* The reply of a call that waits is in the channel or in the pending      *)
(* list, in one of them only: no answer is lost and none given twice.      *)
THEOREM RepliesHeld == Spec => []ReplyHeld
<1>1. Held => ReplyHeld
  BY DEF Held, NoneLost, Waits, QueueSent, Queued, Listed, ReplyHeld, InQueue, InPending
<1>2. QED
  BY <1>1, HeldInvariant, PTL

(* Every step is a step of RequestService, or none.                        *)
LEMMA Refines ==
  ClientInv /\ Held /\ [Next]_vars => [Service!SNext]_(Service!svars)
<1> SUFFICES ASSUME ClientInv, Held, [Next]_vars
             PROVE  Service!SNext \/ UNCHANGED Service!svars
  OBVIOUS
<1> USE DEF apiVars, callVars, cVars
<1>0. TypeOK
  BY DEF ClientInv
<1>1. CASE HandleStep \/ UNCHANGED vars \/ Terminated
  <2>1. UNCHANGED <<caller, reply, body, owner>>
    BY <1>1 DEF HandleStep, ConnectReturns, CancelConnect, DropSender, DropWakes,
                Terminated, vars
  <2>2. QED
    BY <2>1 DEF Service!svars
<1>2. ASSUME NEW r \in Requests, CallerStep(r)
      PROVE  Service!SNext \/ UNCHANGED Service!svars
  <2>1. CASE Start(r)
    <3>1. Service!Call(r)
      BY <1>0, <2>1 DEF Start, Service!Call, TypeOK
    <3>2. QED
      BY <3>1 DEF Service!SNext
  <2>2. CASE Enqueue(r) \/ Wake(r)
    BY <1>0, <2>2 DEF Enqueue, Wake, Service!svars, TypeOK
  <2>3. CASE SendFails(r)
    <3>1. reply[r] = "unsent"
      BY <2>3 DEF SendFails, Held, Unasked
    <3>2. Service!Refuse(r)
      BY <1>0, <2>3, <3>1 DEF SendFails, ReceiverAlive, Service!Refuse, TypeOK
    <3>3. QED
      BY <3>2 DEF Service!SNext
  <2>4. CASE Return(r) \/ Cancel(r)
    <3>1. Service!Finish(r)
      BY <1>0, <2>4 DEF Return, Cancel, Service!Finish, TypeOK
    <3>2. QED
      BY <3>1 DEF Service!SNext
  <2>5. QED
    BY <1>2, <2>1, <2>2, <2>3, <2>4 DEF CallerStep
<1>3. CASE OwnerConnects \/ QueueEmpty \/ Submit \/ PollOpen \/ PollPassEnds \/ WaitEnds
           \/ DrainWaker \/ \E done, bad \in SUBSET Ids : TickAlive(done, bad)
  <2>1. UNCHANGED <<caller, reply, body>> /\ owner \notin {"exiting", "gone"}
    BY <1>3 DEF OwnerConnects, QueueEmpty, Submit, PollOpen, PollPassEnds, WaitEnds,
                DrainWaker, TickAlive
  <2>2. CASE owner' \notin {"exiting", "gone"}
    BY <2>1, <2>2 DEF Service!svars
  <2>3. CASE owner' \in {"exiting", "gone"}
    <3>1. reply = [r \in Requests |-> IF r \in {} THEN "closed" ELSE reply[r]]
      BY <1>0 DEF TypeOK
    <3>2. {} \in SUBSET Service!Unanswered
      OBVIOUS
    <3>3. Service!Close
      BY <2>1, <2>3, <3>1, <3>2 DEF Service!Close
    <3>4. QED
      BY <3>3 DEF Service!SNext
  <2>4. QED
    BY <2>2, <2>3
<1>4. CASE Reject
  <2>1. PICK r \in Requests : r = Head(queue)
    BY <1>0, <1>4, HeadTailProperties DEF Reject, TypeOK
  <2>2. Sent(caller, reply, r)
    BY <1>0, <1>4, <2>1, Dequeued DEF Reject
  <2>3. Service!Serve(r)
    BY <1>0, <1>4, <2>1, <2>2 DEF Reject, Service!Serve, Sent, TypeOK
  <2>4. QED
    BY <2>3 DEF Service!SNext
<1>5. CASE PollReady \/ PollFailed
  <2>1. cursor \in DOMAIN pending /\ owner = "poll"
    BY <1>0, <1>5, Members DEF PollReady, PollFailed, TypeOK
  <2>2. PICK r \in Requests : r = pending[cursor].to
    BY <1>0, <2>1, Members
  <2>3. Sent(caller, reply, r) /\ asks[pending[cursor].id] = r
    BY <2>1, <2>2 DEF Held, ListSent, ClientInv, Paired
  <2>4. Service!Serve(r)
    BY <1>0, <1>5, <2>1, <2>2, <2>3
    DEF PollReady, PollFailed, RemovedCaller, Service!Serve, Sent, TypeOK
  <2>5. QED
    BY <2>4 DEF Service!SNext
<1>6. CASE Disconnected \/ TickDead \/ OwnerExits
  <2>1. PICK S \in SUBSET Requests :
          /\ S \subseteq {r \in Requests : reply[r] = "unsent"}
          /\ reply' = [r \in Requests |-> IF r \in S THEN "closed" ELSE reply[r]]
    <3>1. PendingCallers \subseteq {r \in Requests : reply[r] = "unsent"}
      BY DEF PendingCallers, InPending, Held, ListSent, Sent
    <3>2. QueuedCallers \subseteq {r \in Requests : reply[r] = "unsent"}
      BY DEF QueuedCallers, InQueue, Held, QueueSent, Sent
    <3>3. CASE Disconnected \/ TickDead
      BY <3>1, <3>3 DEF Disconnected, TickDead, FailPending, Resolve
    <3>4. CASE OwnerExits
      BY <3>2, <3>4 DEF OwnerExits, Resolve
    <3>5. QED
      BY <1>6, <3>3, <3>4
  <2>2. UNCHANGED <<caller, body>> /\ owner' \in {"exiting", "gone"}
    BY <1>6 DEF Disconnected, TickDead, FailPending, OwnerExits
  <2>3. S \in SUBSET Service!Unanswered
    BY <2>1 DEF Service!Unanswered
  <2>4. Service!Close
    BY <2>1, <2>2, <2>3 DEF Service!Close
  <2>5. QED
    BY <2>4 DEF Service!SNext
<1>7. QED
  BY <1>1, <1>2, <1>3, <1>4, <1>5, <1>6 DEF Next, OwnerStep, Receive, Tick, Poll

(* Every behaviour of the client is one RequestService allows: a call gets *)
(* one answer, its own response or an error, and after the teardown begins *)
(* only NetworkClosed.  That calls return is left to the runs.             *)
THEOREM Implements == Spec => Service!SInit /\ [][Service!SNext]_(Service!svars)
<1>1. Init => Service!SInit
  BY DEF Init, Service!SInit
<1>2. QED
  BY <1>1, Refines, ClientInvariant, HeldInvariant, PTL DEF Spec
=============================================================================
