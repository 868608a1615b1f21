------------------------- MODULE ManagedStreamProofs -------------------------
(***************************************************************************)
(* ManagedStream keeps its types, hands every byte on once and in order,   *)
(* and lets no consumer take a broken body for a whole one, whatever the   *)
(* body, the window, the chunk size and the channel's capacity.            *)
(*                                                                         *)
(* The argument follows the flow: what the consumer got, what the channel  *)
(* holds and what the owner has in hand, as one sequence.  Handing an item *)
(* from one place to the next leaves the flow as it is, so only a read, a  *)
(* verification and a recv after the end have anything to show, and each   *)
(* appends one item.                                                       *)
(***************************************************************************)
EXTENDS ManagedStream, TLAPS

(* A flow whose every end is a verified one, of the whole body.            *)
EndsAreTrue(s, honest) ==
  /\ \A k \in DOMAIN s : s[k].kind = "none" => \E j \in 1..k - 1 : s[j].kind # "chunk"
  /\ \A k \in DOMAIN s : s[k].kind = "end" => honest /\ s[k].from = Body

Sound(s, at, honest) ==
  EndOf(s) = at /\ Contiguous(s) /\ NothingAfterEnd(s) /\ EndsAreTrue(s, honest)

OnlyChunks(s) == \A k \in DOMAIN s : s[k].kind = "chunk"
Ended(s) == \E k \in DOMAIN s : s[k].kind # "chunk"

(* The first answer that is not a chunk, when it is an end.                *)
FirstEnd(s, honest) ==
  \A k \in DOMAIN s :
    /\ s[k].kind \in {"end", "none"}
    /\ \A j \in 1..k - 1 : s[j].kind = "chunk"
    => honest /\ (IF k = 1 THEN 0 ELSE s[k - 1].to) = Body

(* What each stage of the owner knows.                                     *)
Stages ==
  /\ finished => sent = Body \/ peer = "cut"
  /\ sawEnd => finished /\ read = sent
  /\ pc = "verifying" => sawEnd
  /\ pc \in {"connecting", "metadata"} => ready = "unsent"
  /\ api = "open" => ready = "ok"
  /\ waiting => api = "open"

FlowSound ==
  ReceiverAlive =>
    /\ Sound(Flow, read, Verifies)
    /\ pc # "gone" => OnlyChunks(got \o chunks)
    /\ pc = "gone" /\ ready = "ok" => Ended(got \o chunks)

IInv == TypeOK /\ Stages /\ FlowSound /\ FirstEndIsVerified

-----------------------------------------------------------------------------
(* Sequences of items.                                                     *)

Items == Seq(ItemType)

LEMMA Glue == \A s \in Items, i \in ItemType : s \o <<i>> = Append(s, i)
BY SMT DEF Items

LEMMA Keep == \A s \in Items : s \o <<>> = s
BY SMT DEF Items

LEMMA Concat == \A s \in Items, t \in Items : s \o t \in Items
BY SMT DEF Items

LEMMA HandOn ==
  \A s \in Items, t \in Items :
    t # <<>> => /\ Append(s, Head(t)) \o Tail(t) = s \o t
                /\ Head(t) \in ItemType /\ Tail(t) \in Items /\ Len(Tail(t)) = Len(t) - 1
<1> SUFFICES ASSUME NEW s \in Items, NEW t \in Items, t # <<>>
             PROVE  /\ Append(s, Head(t)) \o Tail(t) = s \o t
                    /\ Head(t) \in ItemType /\ Tail(t) \in Items /\ Len(Tail(t)) = Len(t) - 1
    OBVIOUS
<1>1. Head(t) \in ItemType /\ Tail(t) \in Items /\ Len(Tail(t)) = Len(t) - 1
  BY SMT DEF Items
<1>2. Append(s, Head(t)) \o Tail(t) = s \o t
  BY SMT DEF Items
<1>. QED  BY <1>1, <1>2

LEMMA PutIn == \A s \in Items, t \in Items, i \in ItemType :
                 s \o Append(t, i) = Append(s \o t, i)
BY SMT DEF Items

LEMMA SoundAppend ==
  ASSUME NEW s \in Items, NEW i \in ItemType, NEW at, NEW honest,
         Sound(s, at, honest), i.from = at,
         i.kind = "none" \/ OnlyChunks(s),
         i.kind = "none" => Ended(s),
         i.kind = "end" => honest /\ i.from = Body
  PROVE  Sound(Append(s, i), i.to, honest)
<1> DEFINE a == Append(s, i)
<1>1. /\ Len(a) = Len(s) + 1 /\ DOMAIN a = 1..Len(s) + 1 /\ DOMAIN s = 1..Len(s)
      /\ Len(s) \in Nat
      /\ \A k \in 1..Len(s) : a[k] = s[k]
      /\ a[Len(s) + 1] = i /\ a # <<>>
  BY SMT DEF Items
<1> HIDE DEF a
<1>2. EndOf(a) = i.to
  BY <1>1 DEF EndOf
<1>3. Contiguous(a)
  <2> SUFFICES ASSUME NEW k \in 1..Len(s) + 1
               PROVE  a[k].from = (IF k = 1 THEN 0 ELSE a[k - 1].to)
      BY <1>1 DEF Contiguous
  <2>1. CASE k \in 1..Len(s)
    <3>1. s[k].from = (IF k = 1 THEN 0 ELSE s[k - 1].to)
      BY <2>1, <1>1 DEF Sound, Contiguous
    <3>. QED  BY <2>1, <3>1, <1>1
  <2>2. CASE k = Len(s) + 1
    <3>1. CASE Len(s) = 0
      <4>1. s = <<>>
        BY <3>1, SMT DEF Items
      <4>. QED  BY <4>1, <3>1, <2>2, <1>1 DEF Sound, EndOf
    <3>2. CASE Len(s) # 0
      <4>1. s # <<>>
        BY <3>2, SMT DEF Items
      <4>2. s[Len(s)].to = at
        BY <4>1 DEF Sound, EndOf
      <4>. QED  BY <4>2, <3>2, <2>2, <1>1
    <3>. QED  BY <3>1, <3>2
  <2>. QED  BY <2>1, <2>2, <1>1
<1>4. NothingAfterEnd(a)
  <2> SUFFICES ASSUME NEW k \in 1..Len(s) + 1, a[k].kind # "chunk",
                      NEW j \in k + 1..Len(s) + 1
               PROVE  a[j].kind = "none"
      BY <1>1 DEF NothingAfterEnd
  <2>1. k \in 1..Len(s)
    BY <1>1
  <2>2. CASE j \in 1..Len(s)
    BY <2>1, <2>2, <1>1 DEF Sound, NothingAfterEnd
  <2>3. CASE j = Len(s) + 1
    BY <2>1, <2>3, <1>1 DEF OnlyChunks
  <2>. QED  BY <2>2, <2>3, <1>1
<1>5. EndsAreTrue(a, honest)
  <2>1. ASSUME NEW k \in 1..Len(s) + 1, a[k].kind = "none"
        PROVE  \E j \in 1..k - 1 : a[j].kind # "chunk"
    <3>1. CASE k \in 1..Len(s)
      <4>1. PICK j \in 1..k - 1 : s[j].kind # "chunk"
        BY <3>1, <2>1, <1>1 DEF Sound, EndsAreTrue
      <4>2. j \in 1..Len(s)
        BY <3>1, <1>1
      <4>. QED  BY <4>1, <4>2, <1>1
    <3>2. CASE k = Len(s) + 1
      <4>1. PICK j \in 1..Len(s) : s[j].kind # "chunk"
        BY <3>2, <2>1, <1>1 DEF Ended
      <4>2. j \in 1..k - 1
        BY <3>2, <1>1
      <4>. QED  BY <4>1, <4>2, <1>1
    <3>. QED  BY <3>1, <3>2, <1>1
  <2>2. ASSUME NEW k \in 1..Len(s) + 1, a[k].kind = "end"
        PROVE  honest /\ a[k].from = Body
    <3>1. CASE k \in 1..Len(s)
      BY <3>1, <2>2, <1>1 DEF Sound, EndsAreTrue
    <3>2. CASE k = Len(s) + 1
      BY <3>2, <2>2, <1>1
    <3>. QED  BY <3>1, <3>2, <1>1
  <2>. QED  BY <2>1, <2>2, <1>1 DEF EndsAreTrue
<1>. QED  BY <1>2, <1>3, <1>4, <1>5 DEF Sound, a

-----------------------------------------------------------------------------
(* The types and the stages.                                               *)

Flags ==
  /\ peer \in {"whole", "cut", "forged"}
  /\ keyKnown \in BOOLEAN /\ finished \in BOOLEAN /\ sawEnd \in BOOLEAN
  /\ waiting \in BOOLEAN
  /\ pc \in {"connecting", "metadata", "reading", "verifying", "sending", "gone"}
  /\ ready \in {"unsent", "ok", "err"}
  /\ api \in {"awaiting", "open", "failed", "cancelled", "closed"}

Counts == sent \in 0..Body /\ read \in 0..sent

Lists ==
  /\ item \in ItemType
  /\ chunks \in Seq(ItemType) /\ Len(chunks) <= Capacity
  /\ got \in Seq(ItemType)

LEMMA TypeParts == TypeOK <=> Flags /\ Counts /\ Lists
BY DEF TypeOK, Flags, Counts, Lists

LEMMA FlagsStep == Flags /\ [Next]_vars => Flags'
<1> SUFFICES ASSUME Flags, [Next]_vars PROVE Flags'
    OBVIOUS
<1> USE DEF Flags, server, owner
<1>1. CASE Feed
  BY <1>1 DEF Feed
<1>2. CASE Finish
  BY <1>2 DEF Finish
<1>3. CASE StreamReturns \/ CancelStream \/ StartRecv \/ RecvReturns \/ CancelRecv
           \/ DropStream
  BY <1>3, Zenon
     DEF StreamReturns, CancelStream, StartRecv, RecvReturns, CancelRecv, DropStream
<1>4. CASE Connect \/ Metadata \/ SendFails \/ Verify
  BY <1>4 DEF Connect, Metadata, SendFails, Verify
<1>5. CASE ReadBytes
  BY <1>5 DEF ReadBytes, Advance, AfterRead
<1>6. CASE ReadEnd
  BY <1>6 DEF ReadEnd, Advance
<1>7. CASE ReadFails
  BY <1>7 DEF ReadFails, Advance
<1>8. CASE Send
  BY <1>8 DEF Send, AfterSend
<1>9. CASE Terminated \/ UNCHANGED vars
  BY <1>9 DEF Terminated, vars
<1>. QED
  BY <1>1, <1>2, <1>3, <1>4, <1>5, <1>6, <1>7, <1>8, <1>9
     DEF Next, ServerStep, ConsumerStep, OwnerStep

LEMMA CountsStep == Counts /\ [Next]_vars => Counts'
<1> SUFFICES ASSUME Counts, [Next]_vars PROVE Counts'
    OBVIOUS
<1> USE StreamAssumption DEF Counts, server, owner
<1>1. CASE Feed
  BY <1>1 DEF Feed, Accepts
<1>2. CASE Finish \/ ConsumerStep
  BY <1>2 DEF Finish, ConsumerStep, StreamReturns, CancelStream, StartRecv, RecvReturns,
              CancelRecv, DropStream
<1>3. CASE Connect \/ Metadata \/ SendFails \/ Verify \/ Send
  BY <1>3 DEF Connect, Metadata, SendFails, Verify, Send
<1>4. CASE ReadBytes
  BY <1>4 DEF ReadBytes, Advance
<1>5. CASE ReadEnd \/ ReadFails
  BY <1>5 DEF ReadEnd, ReadFails, Advance
<1>6. CASE Terminated \/ UNCHANGED vars
  BY <1>6 DEF Terminated, vars
<1>. QED
  BY <1>1, <1>2, <1>3, <1>4, <1>5, <1>6 DEF Next, ServerStep, OwnerStep

(* The item that a read or a verification puts in the owner's hand.        *)
LEMMA EndType ==
  ASSUME Counts, NEW kind \in Kinds
  PROVE  End(kind) \in ItemType
BY StreamAssumption DEF Counts, End, Item, ItemType

LEMMA ListsStep == Counts /\ Lists /\ [Next]_vars => Lists'
<1> SUFFICES ASSUME Counts, Lists, [Next]_vars PROVE Lists'
    OBVIOUS
<1> USE DEF Lists, server, owner
<1>1. CASE ServerStep \/ StreamReturns \/ StartRecv \/ CancelRecv
  BY <1>1 DEF ServerStep, Feed, Finish, StreamReturns, StartRecv, CancelRecv
<1>2. CASE CancelStream \/ DropStream
  <2>1. <<>> \in Seq(ItemType) /\ Len(<<>>) <= Capacity
    BY StreamAssumption
  <2>. QED  BY <1>2, <2>1 DEF CancelStream, DropStream
<1>3. CASE RecvReturns
  <2>1. End("none") \in ItemType
    BY EndType DEF Kinds
  <2>2. chunks # <<>> => /\ Head(chunks) \in ItemType /\ Tail(chunks) \in Seq(ItemType)
                         /\ Len(Tail(chunks)) = Len(chunks) - 1
    BY HandOn DEF Items
  <2>3. CASE chunks # <<>> /\ got' = Append(got, Head(chunks)) /\ chunks' = Tail(chunks)
    <3>1. got' \in Seq(ItemType)
      BY <2>2, <2>3
    <3>2. Len(chunks) \in Nat
      OBVIOUS
    <3>3. chunks' \in Seq(ItemType) /\ Len(chunks') <= Capacity
      BY <2>2, <2>3, <3>2, StreamAssumption
    <3>. QED  BY <1>3, <3>1, <3>3 DEF RecvReturns
  <2>4. CASE got' = Append(got, End("none")) /\ chunks' = chunks
    <3>1. got' \in Seq(ItemType)
      <4> HIDE DEF End
      <4>. QED  BY <2>1, <2>4
    <3>. QED  BY <1>3, <2>4, <3>1 DEF RecvReturns
  <2>. QED  BY <1>3, <2>3, <2>4 DEF RecvReturns
<1>4. CASE Connect \/ Metadata \/ SendFails \/ ReadEnd
  BY <1>4 DEF Connect, Metadata, SendFails, ReadEnd
<1>5. CASE ReadBytes
  <2>1. item' \in ItemType
    BY <1>5, StreamAssumption DEF ReadBytes, Counts, Item, ItemType, Kinds
  <2>. QED  BY <1>5, <2>1 DEF ReadBytes
<1>6. CASE ReadFails
  <2>1. item' \in ItemType
    BY <1>6, EndType DEF ReadFails, Kinds
  <2>. QED  BY <1>6, <2>1 DEF ReadFails
<1>7. CASE Verify
  <2>1. item' \in ItemType
    BY <1>7, EndType DEF Verify, Kinds
  <2>. QED  BY <1>7, <2>1 DEF Verify
<1>8. CASE Send
  BY <1>8, StreamAssumption DEF Send, ChannelHasRoom
<1>9. CASE Terminated \/ UNCHANGED vars
  BY <1>9 DEF Terminated, vars
<1>. QED
  BY <1>1, <1>2, <1>3, <1>4, <1>5, <1>6, <1>7, <1>8, <1>9 DEF Next, ConsumerStep, OwnerStep

LEMMA TypeStep == TypeOK /\ [Next]_vars => TypeOK'
<1> SUFFICES ASSUME TypeOK, [Next]_vars PROVE TypeOK'
    OBVIOUS
<1>1. Flags' /\ Counts' /\ Lists'
  BY TypeParts, FlagsStep, CountsStep, ListsStep
<1>. QED  BY <1>1 DEF TypeOK, Flags, Counts, Lists

LEMMA StagesStep == TypeOK /\ Stages /\ [Next]_vars => Stages'
<1> SUFFICES ASSUME TypeOK, Stages, [Next]_vars PROVE Stages'
    OBVIOUS
<1> USE DEF Stages, server, owner
<1>1. CASE Feed
  BY <1>1 DEF Feed, Accepts, TypeOK
<1>2. CASE Finish
  BY <1>2 DEF Finish
<1>3. CASE ConsumerStep
  BY <1>3 DEF ConsumerStep, StreamReturns, CancelStream, StartRecv, RecvReturns, CancelRecv,
              DropStream
<1>4. CASE Connect \/ Metadata \/ SendFails \/ Verify
  BY <1>4 DEF Connect, Metadata, SendFails, Verify
<1>5. CASE ReadBytes
  BY <1>5 DEF ReadBytes, Advance, AfterRead
<1>6. CASE ReadEnd \/ ReadFails
  BY <1>6 DEF ReadEnd, ReadFails, Advance, TypeOK
<1>7. CASE Send
  BY <1>7 DEF Send, AfterSend
<1>8. CASE Terminated \/ UNCHANGED vars
  BY <1>8 DEF Terminated, vars
<1>. QED
  BY <1>1, <1>2, <1>3, <1>4, <1>5, <1>6, <1>7, <1>8 DEF Next, ServerStep, OwnerStep

LEMMA Start == Init => IInv
<1> SUFFICES ASSUME Init PROVE IInv
    OBVIOUS
<1>1. TypeOK
  <2>1. Flags
    BY DEF Init, Flags
  <2>2. Counts
    BY StreamAssumption DEF Init, Counts
  <2>3. item \in ItemType
    BY StreamAssumption DEF Init, Item, ItemType, Kinds
  <2>4. Lists
    BY <2>3, StreamAssumption DEF Init, Lists
  <2>. QED  BY <2>1, <2>2, <2>4, TypeParts
<1>2. Stages
  BY DEF Init, Stages
<1>3. FlowSound
  <2>1. got \o chunks = <<>> /\ Flow = <<>>
    BY DEF Init, Flow
  <2>2. Sound(<<>>, 0, Verifies) /\ OnlyChunks(<<>>)
    BY DEF Sound, EndOf, Contiguous, NothingAfterEnd, EndsAreTrue, OnlyChunks
  <2>. QED  BY <2>1, <2>2 DEF Init, FlowSound
<1>4. FirstEndIsVerified
  BY DEF Init, FirstEndIsVerified
<1>. QED  BY <1>1, <1>2, <1>3, <1>4 DEF IInv

-----------------------------------------------------------------------------
(* The flow.                                                               *)

LEMMA FirstEndOfSound ==
  ASSUME NEW s \in Items, NEW t \in Items, NEW u \in Items, NEW at, NEW honest,
         Sound((s \o t) \o u, at, honest)
  PROVE  FirstEnd(s, honest)
<1> DEFINE f == (s \o t) \o u
<1>1. /\ DOMAIN s = 1..Len(s) /\ Len(s) \in Nat
      /\ \A k \in 1..Len(s) : k \in DOMAIN f /\ f[k] = s[k]
  BY SMT DEF Items
<1> HIDE DEF f
<1> SUFFICES ASSUME NEW k \in 1..Len(s), s[k].kind \in {"end", "none"},
                    \A j \in 1..k - 1 : s[j].kind = "chunk"
             PROVE  honest /\ (IF k = 1 THEN 0 ELSE s[k - 1].to) = Body
    BY <1>1 DEF FirstEnd
<1>2. Contiguous(f) /\ EndsAreTrue(f, honest)
  BY DEF Sound, f
<1>3. f[k] = s[k] /\ k \in DOMAIN f
  BY <1>1
<1>4. \A j \in 1..k - 1 : f[j] = s[j]
  BY <1>1
<1>5. s[k].kind = "end"
  BY <1>2, <1>3, <1>4 DEF EndsAreTrue
<1>6. honest /\ s[k].from = Body
  BY <1>2, <1>3, <1>5 DEF EndsAreTrue
<1>7. f[k].from = (IF k = 1 THEN 0 ELSE f[k - 1].to)
  BY <1>2, <1>3 DEF Contiguous
<1>8. k # 1 => f[k - 1] = s[k - 1]
  BY <1>4
<1>. QED  BY <1>3, <1>6, <1>7, <1>8

LEMMA OnlyChunksAppend ==
  ASSUME NEW s \in Items, NEW i \in ItemType, OnlyChunks(s)
  PROVE  IF i.kind = "chunk" THEN OnlyChunks(Append(s, i)) ELSE Ended(Append(s, i))
<1>1. /\ DOMAIN Append(s, i) = 1..Len(s) + 1 /\ DOMAIN s = 1..Len(s) /\ Len(s) \in Nat
      /\ \A k \in 1..Len(s) : Append(s, i)[k] = s[k]
      /\ Append(s, i)[Len(s) + 1] = i
  BY SMT DEF Items
<1>2. CASE i.kind = "chunk"
  BY <1>1, <1>2 DEF OnlyChunks
<1>3. CASE i.kind # "chunk"
  BY <1>1, <1>3 DEF Ended
<1>. QED  BY <1>2, <1>3

LEMMA EndedAppend ==
  ASSUME NEW s \in Items, NEW i \in ItemType, Ended(s)
  PROVE  Ended(Append(s, i))
<1>1. /\ DOMAIN Append(s, i) = 1..Len(s) + 1 /\ DOMAIN s = 1..Len(s) /\ Len(s) \in Nat
      /\ \A k \in 1..Len(s) : Append(s, i)[k] = s[k]
  BY SMT DEF Items
<1>. QED  BY <1>1 DEF Ended

(* The flow is what was handed on, and the item in hand.                   *)
HandedOn == got \o chunks

LEMMA FlowParts ==
  ASSUME Lists
  PROVE  /\ HandedOn \in Items
         /\ pc = "sending" => Flow = Append(HandedOn, item)
         /\ pc # "sending" => Flow = HandedOn
<1>1. HandedOn \in Items
  BY Concat DEF Lists, HandedOn, Items
<1>2. pc = "sending" => Flow = Append(HandedOn, item)
  BY <1>1, Glue DEF Lists, Flow, HandedOn
<1>3. pc # "sending" => Flow = HandedOn
  BY <1>1, Keep DEF Flow, HandedOn
<1>. QED  BY <1>1, <1>2, <1>3

LEMMA FlowPartsNext ==
  ASSUME Lists'
  PROVE  /\ HandedOn' \in Items
         /\ pc' = "sending" => Flow' = Append(HandedOn', item')
         /\ pc' # "sending" => Flow' = HandedOn'
<1>1. HandedOn' \in Items
  BY Concat DEF Lists, HandedOn, Items
<1>2. pc' = "sending" => Flow' = Append(HandedOn', item')
  BY <1>1, Glue DEF Lists, Flow, HandedOn
<1>3. pc' # "sending" => Flow' = HandedOn'
  BY <1>1, Keep DEF Flow, HandedOn
<1>. QED  BY <1>1, <1>2, <1>3

LEMMA PeerKept == [Next]_vars => Verifies' = Verifies
<1> SUFFICES ASSUME [Next]_vars PROVE peer' = peer /\ keyKnown' = keyKnown
    BY DEF Verifies
<1>. QED
  BY DEF Next, ServerStep, ConsumerStep, OwnerStep, Feed, Finish, StreamReturns,
         CancelStream, StartRecv, RecvReturns, CancelRecv, DropStream, Connect, Metadata,
         ReadBytes, ReadEnd, ReadFails, Verify, Send, SendFails, Terminated, vars, server

(* An item the owner takes in hand is appended to a flow of chunks.        *)
LEMMA TakeInHand ==
  ASSUME TypeOK, TypeOK', FlowSound, ReceiverAlive, pc \notin {"gone", "sending"},
         Verifies' = Verifies, UNCHANGED <<got, chunks>>, pc' = "sending",
         item'.from = read, item'.to = read', item'.kind # "none",
         item'.kind = "end" => Verifies /\ item'.from = Body
  PROVE  FlowSound'
<1>1. Lists /\ Lists' /\ HandedOn' = HandedOn
  BY TypeParts DEF TypeOK, Lists, HandedOn
<1>2. Flow = HandedOn /\ Flow' = Append(HandedOn, item') /\ HandedOn \in Items
  BY <1>1, FlowParts, FlowPartsNext
<1>3. Sound(HandedOn, read, Verifies) /\ OnlyChunks(HandedOn)
  BY <1>2 DEF FlowSound, HandedOn
<1>4. item' \in ItemType
  BY <1>1 DEF Lists
<1>5. Sound(Append(HandedOn, item'), item'.to, Verifies)
  BY <1>2, <1>3, <1>4, SoundAppend
<1>. QED  BY <1>1, <1>2, <1>3, <1>5 DEF FlowSound, HandedOn

LEMMA FlowStep == TypeOK /\ Stages /\ FlowSound /\ [Next]_vars => FlowSound'
<1> SUFFICES ASSUME TypeOK, Stages, FlowSound, [Next]_vars PROVE FlowSound'
    OBVIOUS
<1>1. TypeOK' /\ Verifies' = Verifies
  BY TypeStep, PeerKept
<1>2. Lists /\ Lists'
  BY <1>1 DEF TypeOK, Lists
<1> USE DEF server, owner
<1>3. CASE Feed \/ Finish \/ StartRecv \/ CancelRecv
  <2>1. UNCHANGED <<read, pc, item, ready, api, chunks, got>>
    BY <1>3 DEF Feed, Finish, StartRecv, CancelRecv
  <2>. QED  BY <2>1, <1>1 DEF FlowSound, Flow, ReceiverAlive
<1>4. CASE StreamReturns
  <2>1. UNCHANGED <<read, pc, item, ready, chunks, got>> /\ ReceiverAlive
    BY <1>4 DEF StreamReturns, ReceiverAlive
  <2>. QED  BY <2>1, <1>1 DEF FlowSound, Flow
<1>5. CASE CancelStream \/ DropStream
  BY <1>5 DEF CancelStream, DropStream, FlowSound, ReceiverAlive
<1>6. CASE RecvReturns
  <2>1. UNCHANGED <<read, pc, item, ready, api>> /\ ReceiverAlive /\ ready = "ok"
    BY <1>6 DEF RecvReturns, Stages, ReceiverAlive
  <2>2. CASE chunks # <<>> /\ got' = Append(got, Head(chunks)) /\ chunks' = Tail(chunks)
    <3>1. got' \o chunks' = got \o chunks
      BY <1>2, <2>2, HandOn DEF Lists, Items
    <3>. QED  BY <3>1, <2>1, <1>1 DEF FlowSound, Flow
  <2>3. CASE chunks = <<>> /\ pc = "gone" /\ got' = Append(got, End("none"))
             /\ chunks' = chunks
    <3>1. HandedOn = got /\ HandedOn' = got' /\ got \in Items
      BY <1>2, <2>3, Keep DEF HandedOn, Lists, Items
    <3>2. Flow = got /\ Flow' = got'
      BY <1>2, <2>1, <2>3, <3>1, FlowParts, FlowPartsNext
    <3>3. Sound(got, read, Verifies) /\ Ended(got)
      BY <2>1, <2>3, <3>1, <3>2 DEF FlowSound, HandedOn
    <3>4. End("none") \in ItemType
      BY EndType DEF TypeOK, Counts, Kinds
    <3>5. End("none").kind = "none" /\ End("none").from = read /\ End("none").to = read
      BY DEF End, Item
    <3>6. Sound(got', read, Verifies)
      <4> HIDE DEF End
      <4>1. Sound(Append(got, End("none")), End("none").to, Verifies)
        BY <3>1, <3>3, <3>4, <3>5, SoundAppend
      <4>. QED  BY <4>1, <3>5, <2>3
    <3>7. Ended(got')
      BY <2>3, <3>1, <3>3, <3>4, EndedAppend
    <3>. QED  BY <1>1, <2>1, <2>3, <3>1, <3>2, <3>6, <3>7 DEF FlowSound, HandedOn
  <2>. QED  BY <1>6, <2>2, <2>3 DEF RecvReturns
<1>7. CASE Connect \/ Metadata
  <2>1. UNCHANGED <<read, api, chunks, got>> /\ pc \notin {"sending", "gone"}
        /\ pc' # "sending"
        /\ (ReceiverAlive /\ pc' = "gone" => ready' # "ok")
    BY <1>7 DEF Connect, Metadata
  <2>2. Flow' = Flow
    BY <1>2, <2>1, FlowParts, FlowPartsNext DEF HandedOn
  <2>. QED  BY <2>1, <2>2, <1>1 DEF FlowSound, ReceiverAlive
<1>8. ASSUME ReadBytes \/ ReadFails \/ Verify
      PROVE  ReceiverAlive => FlowSound'
  <2> SUFFICES ASSUME ReceiverAlive PROVE FlowSound'
      OBVIOUS
  <2>1. UNCHANGED <<got, chunks>> /\ pc' = "sending" /\ pc \notin {"gone", "sending"}
    BY <1>8 DEF ReadBytes, ReadFails, Verify, AfterRead
  <2>2. item'.from = read /\ item'.to = read' /\ item'.kind # "none"
    <3>1. CASE ReadBytes
      BY <3>1 DEF ReadBytes, Advance, Item
    <3>2. CASE ReadFails
      <4>1. read' = read
        BY <3>2 DEF ReadFails, Advance, TypeOK
      <4>2. item' = [kind |-> "error", from |-> read, to |-> read]
        BY <3>2 DEF ReadFails, End, Item
      <4>. QED  BY <4>1, <4>2
    <3>3. CASE Verify
      BY <3>3 DEF Verify, End, Item
    <3>. QED  BY <1>8, <3>1, <3>2, <3>3
  <2>3. item'.kind = "end" => Verifies /\ item'.from = Body
    <3>1. CASE ReadBytes
      BY <3>1 DEF ReadBytes, Item
    <3>2. CASE ReadFails
      <4>1. item' = [kind |-> "error", from |-> read, to |-> read]
        BY <3>2 DEF ReadFails, End, Item
      <4>. QED  BY <4>1
    <3>3. CASE Verify
      <4>1. sawEnd /\ finished /\ read = sent
        BY <3>3 DEF Verify, Stages
      <4>2. Verifies => read = Body
        BY <4>1 DEF Stages, Verifies
      <4>3. item'.kind = "end" => Verifies
        BY <3>3 DEF Verify, End, Item
      <4>. QED  BY <4>2, <4>3, <2>2
    <3>. QED  BY <1>8, <3>1, <3>2, <3>3
  <2>. QED  BY <1>1, <2>1, <2>2, <2>3, TakeInHand
<1>9. ASSUME ReadBytes \/ ReadFails \/ Verify \/ SendFails, ~ReceiverAlive
      PROVE  FlowSound'
  BY <1>9 DEF ReadBytes, ReadFails, Verify, SendFails, FlowSound, ReceiverAlive
<1>10. CASE ReadEnd
  <2>1. UNCHANGED <<api, ready, chunks, got>> /\ pc \notin {"sending", "gone"}
        /\ pc' \notin {"sending", "gone"} /\ read' = read
    BY <1>10 DEF ReadEnd, Advance, TypeOK
  <2>2. Flow' = Flow
    BY <1>2, <2>1, FlowParts, FlowPartsNext DEF HandedOn
  <2>. QED  BY <2>1, <2>2, <1>1 DEF FlowSound, ReceiverAlive
<1>11. CASE Send
  <2>1. UNCHANGED <<api, ready, read, item, got>> /\ pc = "sending" /\ ReceiverAlive
        /\ chunks' = Append(chunks, item)
    BY <1>11 DEF Send
  <2>2. pc' # "sending" /\ (pc' = "gone" <=> item.kind # "chunk")
    BY <1>11 DEF Send, AfterSend
  <2>3. HandedOn' = Append(HandedOn, item)
    BY <1>2, <2>1, PutIn DEF HandedOn, Lists, Items
  <2>4. Flow' = Flow
    BY <1>2, <2>1, <2>2, <2>3, FlowParts, FlowPartsNext
  <2>5. HandedOn \in Items /\ item \in ItemType /\ OnlyChunks(HandedOn)
    BY <1>2, <2>1, FlowParts DEF FlowSound, HandedOn, Lists
  <2>6. IF item.kind = "chunk" THEN OnlyChunks(HandedOn') ELSE Ended(HandedOn')
    BY <2>3, <2>5, OnlyChunksAppend
  <2>. QED  BY <1>1, <2>1, <2>2, <2>4, <2>6 DEF FlowSound, HandedOn
<1>12. CASE Terminated \/ UNCHANGED vars
  <2>1. UNCHANGED <<read, pc, item, ready, api, chunks, got>>
    BY <1>12 DEF Terminated, vars
  <2>. QED  BY <2>1, <1>1 DEF FlowSound, Flow, ReceiverAlive
<1>13. SendFails => ~ReceiverAlive
  BY DEF SendFails
<1>. QED
  BY <1>3, <1>4, <1>5, <1>6, <1>7, <1>8, <1>9, <1>10, <1>11, <1>12, <1>13
     DEF Next, ServerStep, ConsumerStep, OwnerStep

LEMMA FirstEndIs == FirstEndIsVerified <=> FirstEnd(got, Verifies)
BY DEF FirstEndIsVerified, FirstEnd, Verifies

LEMMA FirstEndStep ==
  TypeOK /\ Stages /\ FlowSound /\ FirstEndIsVerified /\ [Next]_vars => FirstEndIsVerified'
<1> SUFFICES ASSUME TypeOK, Stages, FlowSound, FirstEndIsVerified, [Next]_vars
             PROVE  FirstEnd(got', Verifies')
    BY DEF FirstEndIsVerified, FirstEnd, Verifies
<1>1. TypeOK' /\ FlowSound' /\ Verifies' = Verifies
  BY TypeStep, FlowStep, PeerKept
<1>2. CASE RecvReturns
  <2>1. ReceiverAlive'
    BY <1>2 DEF RecvReturns, Stages, ReceiverAlive
  <2>2. Sound(Flow', read', Verifies')
    BY <1>1, <2>1 DEF FlowSound
  <2>3. got' \in Items /\ chunks' \in Items /\ item' \in ItemType
    BY <1>1 DEF TypeOK, Items
  <2> DEFINE hand == IF pc' = "sending" THEN <<item'>> ELSE <<>>
  <2>4. hand \in Items
    BY <2>3 DEF Items
  <2>5. Flow' = (got' \o chunks') \o hand
    BY DEF Flow
  <2> HIDE DEF hand
  <2>. QED  BY <2>2, <2>3, <2>4, <2>5, FirstEndOfSound
<1>3. CASE ~RecvReturns
  <2>1. got' = got
    BY <1>3
       DEF Next, ServerStep, ConsumerStep, OwnerStep, Feed, Finish, StreamReturns,
           CancelStream, StartRecv, CancelRecv, DropStream, Connect, Metadata, ReadBytes,
           ReadEnd, ReadFails, Verify, Send, SendFails, Terminated, vars
  <2>. QED  BY <1>1, <2>1, FirstEndIs
<1>. QED  BY <1>2, <1>3

-----------------------------------------------------------------------------
(* The theorems.                                                           *)

(* The types, the stages and the sound flow hold in every state of the     *)
(* stream (runtime.rs, ClientBuilder::stream).                             *)
THEOREM Invariant == Spec => []IInv
<1>1. Init => IInv
  BY Start
<1>2. IInv /\ [Next]_vars => IInv'
  BY TypeStep, StagesStep, FlowStep, FirstEndStep DEF IInv
<1>. QED  BY <1>1, <1>2, PTL DEF Spec

(* Every variable keeps its type, and the channel never holds more than    *)
(* its capacity (runtime.rs:665).                                          *)
THEOREM TypeCorrect == Spec => []TypeOK
<1>1. IInv => TypeOK
  BY DEF IInv
<1>. QED  BY <1>1, Invariant, PTL

(* Nothing the owner reads is lost, doubled or put out of order on its way *)
(* to recv, and nothing follows an end (runtime.rs:702-725).               *)
THEOREM Ordered == Spec => []InOrder
<1>1. IInv => InOrder
  BY DEF IInv, FlowSound, InOrder, Sound
<1>. QED  BY <1>1, Invariant, PTL

(* A consumer that stops at the first answer other than a chunk never      *)
(* takes a broken body for a whole one (runtime.rs:624-638).               *)
THEOREM Verified == Spec => []FirstEndIsVerified
<1>1. IInv => FirstEndIsVerified
  BY DEF IInv
<1>. QED  BY <1>1, Invariant, PTL
=============================================================================
