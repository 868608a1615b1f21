------------------------- MODULE DrivenServerProofs -------------------------
(***************************************************************************)
(* Whatever the handlers do and whenever they panic, however C sheds,      *)
(* expires and loses requests between two passes of the loop, for any      *)
(* number of requests and any length of body: a client sees one answer or  *)
(* the bytes of one stream in order, and a panic is seen as an error.      *)
(*                                                                         *)
(* Neither is inductive.  What is: C has sent nothing for a request it     *)
(* holds parked (Silent), and of a stream just the bytes that the one      *)
(* entry the pump has for it counts (Progress); for that the application   *)
(* must know each request once (Lists).                                    *)
(***************************************************************************)
EXTENDS DrivenServer, FiniteSetTheorems, SequenceTheorems, TLAPS

(* What C has sent of a stream of which it accepted n bytes.               *)
Body(n) == [i \in 1..(n + 1) |-> IF i = 1 THEN MetaOut ELSE Data(i - 1)]

(* WireWellFormed, of the frames of one request.                           *)
Uncut(w) == IF w # <<>> /\ w[Len(w)] = ErrorOut THEN SubSeq(w, 1, Len(w) - 1) ELSE w
WellFormed(w) == Whole(Uncut(w)) /\ Streamed(Uncut(w))

HeaderNames == UNION {Names(hs) : hs \in HeaderLists}
Frames == [kind : {"head", "data", "fin", "answer", "error"}, at : Nat,
           headers : SUBSET HeaderNames, own : SUBSET HeaderNames]
Flows == [r : Requests, sent : 0..BodyLen]

CTypes ==
    /\ c \in [Requests -> States]
    /\ age \in [Requests -> 0..Deadline]
    /\ attached \in [Requests -> SUBSET HeaderNames]
    /\ room \in [Requests -> 0..Window]
    /\ wire \in [Requests -> Seq(Frames)]

LoopTypes ==
    /\ phase \in {"tick", "answer", "pump", "dead"}
    /\ listed \in Seq(Requests)
    /\ active \in Seq(Flows)
    /\ cursor \in 1..(Len(active) + 1)
    /\ panicked \subseteq Requests

(* The application knows a request at most once, listed or pumped, and     *)
(* only if C has handed it to the handler.                                 *)
In(s) == {s[i] : i \in DOMAIN s}
Pumped(a) == {a[i].r : i \in DOMAIN a}
Once(s) == \A i, j \in DOMAIN s : s[i] = s[j] => i = j
OncePumped(a) == \A i, j \in DOMAIN a : a[i].r = a[j].r => i = j

Lists ==
    /\ Once(listed) /\ OncePumped(active)
    /\ \A r \in In(listed) \cup Pumped(active) : c[r] # "new"
    /\ phase # "pump" => cursor = 1

(* What went out agrees with where C and the pump are.                     *)
Silent == \A r \in Requests : c[r] \in {"new", "parked"} => wire[r] = <<>>
Progress ==
    \A i \in DOMAIN active :
        c[active[i].r] = "streaming" => wire[active[i].r] = Body(active[i].sent)
Attached == \A r \in Requests : attached[r] # {} => c[r] = "parked"
WireInv == Silent /\ Progress /\ Attached /\ \A r \in Requests : WellFormed(wire[r])

PanicInv ==
    \A r \in panicked : /\ c[r] = "done" /\ wire[r] # <<>>
                        /\ wire[r][Len(wire[r])] = ErrorOut

IInv == CTypes /\ LoopTypes /\ Lists /\ WireInv /\ PanicInv

-----------------------------------------------------------------------------
(* Frames.                                                                 *)

LEMMA FramesTyped ==
    /\ MetaOut \in Frames /\ Fin \in Frames /\ Answer \in Frames /\ ErrorOut \in Frames
    /\ \A i \in Nat : Data(i) \in Frames
    /\ \A hs, own \in SUBSET HeaderNames : Frame("answer", 0, hs, own) \in Frames
BY DEF Frames, Frame, MetaOut, Fin, Answer, ErrorOut, Data

LEMMA ErrorIsNoOther ==
    /\ MetaOut # ErrorOut /\ Fin # ErrorOut
    /\ \A i \in Nat : Data(i) # ErrorOut
    /\ \A f : f.kind = "answer" => f # ErrorOut
BY DEF Frame, MetaOut, Fin, ErrorOut, Data

LEMMA WellFormedEmpty == WellFormed(<<>>)
BY DEF WellFormed, Uncut, Whole, Streamed

LEMMA WellFormedOne ==
    ASSUME NEW f \in Frames, f.kind = "answer" \/ f = MetaOut
    PROVE  WellFormed(<<f>>)
<1>1. <<f>> # <<>> /\ Len(<<f>>) = 1 /\ <<f>>[1] = f
  OBVIOUS
<1>2. f # ErrorOut
  BY ErrorIsNoOther
<1>3. Uncut(<<f>>) = <<f>>
  BY <1>1, <1>2 DEF Uncut
<1>. QED  BY <1>1, <1>3 DEF WellFormed, Whole, Streamed

(* An error may cut off what is well-formed without an end.                *)
LEMMA WellFormedCut ==
    ASSUME NEW w \in Seq(Frames), w = <<>> \/ w = <<MetaOut>>
    PROVE  /\ WellFormed(Append(w, ErrorOut))
           /\ Append(w, ErrorOut) # <<>>
           /\ Append(w, ErrorOut)[Len(Append(w, ErrorOut))] = ErrorOut
<1> DEFINE x == Append(w, ErrorOut)
<1>1. /\ x \in Seq(Frames) /\ x # <<>> /\ Len(x) = Len(w) + 1 /\ x[Len(w) + 1] = ErrorOut
      /\ \A i \in 1..Len(w) : x[i] = w[i]
  BY FramesTyped, AppendProperties
<1>2. Len(w) \in Nat
  BY LenProperties
<1>. HIDE DEF x
<1>3. SubSeq(x, 1, Len(x) - 1) = w
  <2>1. Len(x) - 1 = Len(w) /\ 1 \in 1..(Len(x) + 1) /\ Len(w) \in 0..Len(x)
    BY <1>1, <1>2
  <2>2. SubSeq(x, 1, Len(w)) = [i \in 1..Len(w) |-> x[i]]
    BY <1>1, <1>2 
  <2>3. w = [i \in 1..Len(w) |-> w[i]]
    BY LenProperties
  <2>. QED  BY <1>1, <2>1, <2>2, <2>3
<1>4. Uncut(x) = w
  BY <1>1, <1>2, <1>3 DEF Uncut
<1>5. Whole(w) /\ Streamed(w)
  BY DEF Whole, Streamed
<1>. QED  BY <1>1, <1>2, <1>4, <1>5 DEF WellFormed, x

LEMMA BodyProperties ==
    ASSUME NEW n \in 0..BodyLen
    PROVE  /\ Body(n) \in Seq(Frames) /\ Len(Body(n)) = n + 1 /\ Body(n) # <<>>
           /\ Body(n)[1] = MetaOut
           /\ \A i \in 2..(n + 1) : Body(n)[i] = Data(i - 1)
           /\ WellFormed(Body(n))
<1>0. BodyLen \in Nat /\ n \in Nat
  BY DrivenServerAssumption
<1>1. \A i \in 1..(n + 1) : Body(n)[i] = IF i = 1 THEN MetaOut ELSE Data(i - 1)
  BY DEF Body
<1>2. \A i \in 1..(n + 1) : Body(n)[i] \in Frames /\ Body(n)[i] # ErrorOut
  <2> SUFFICES ASSUME NEW i \in 1..(n + 1) PROVE Body(n)[i] \in Frames /\ Body(n)[i] # ErrorOut
      OBVIOUS
  <2>1. CASE i = 1
    BY <1>1, <2>1, FramesTyped, ErrorIsNoOther
  <2>2. CASE i # 1
    <3>1. i - 1 \in Nat
      BY <1>0
    <3>. QED  BY <1>1, <2>2, <3>1, FramesTyped, ErrorIsNoOther
  <2>. QED  BY <2>1, <2>2
<1>3. Body(n) \in [1..(n + 1) -> Frames]
  BY <1>2 DEF Body
<1>4. Body(n) \in Seq(Frames) /\ Len(Body(n)) = n + 1
  BY <1>0, <1>3
<1>5. Body(n) # <<>>
  BY <1>0, <1>4
<1>6. Body(n)[1] = MetaOut /\ \A i \in 2..(n + 1) : Body(n)[i] = Data(i - 1)
  BY <1>0, <1>1
<1>7. Uncut(Body(n)) = Body(n)
  <2>1. n + 1 \in 1..(n + 1)
    BY <1>0
  <2>. QED  BY <1>2, <1>4, <2>1 DEF Uncut
<1>8. Whole(Body(n)) /\ Streamed(Body(n))
  BY <1>0, <1>4, <1>6 DEF Whole, Streamed
<1>. QED  BY <1>4, <1>5, <1>6, <1>7, <1>8 DEF WellFormed

LEMMA BodyStarts == Body(0) = <<MetaOut>>
<1>1. 0 \in 0..BodyLen /\ 0 + 1 = 1
  BY DrivenServerAssumption
<1>2. Len(Body(0)) = 1 /\ Body(0)[1] = MetaOut /\ Body(0) \in Seq(Frames)
  BY <1>1, BodyProperties
<1>. QED  BY <1>2

LEMMA BodyGrows ==
    ASSUME NEW n \in 0..BodyLen, NEW k \in 1..BodyLen, n + k <= BodyLen
    PROVE  Body(n) \o [i \in 1..k |-> Data(n + i)] = Body(n + k)
<1> DEFINE new == [i \in 1..k |-> Data(n + i)]
<1>0. BodyLen \in Nat /\ n \in Nat /\ k \in Nat /\ n + k \in 0..BodyLen
  BY DrivenServerAssumption
<1>1. new \in Seq(Frames) /\ Len(new) = k /\ \A i \in 1..k : new[i] = Data(n + i)
  <2>1. \A i \in 1..k : Data(n + i) \in Frames
    BY <1>0, FramesTyped
  <2>. QED  BY <1>0, <2>1
<1>. HIDE DEF new
<1>2. /\ Body(n) \in Seq(Frames) /\ Len(Body(n)) = n + 1 /\ Body(n)[1] = MetaOut
      /\ \A i \in 2..(n + 1) : Body(n)[i] = Data(i - 1)
  BY BodyProperties
<1>3. /\ Body(n + k) \in Seq(Frames) /\ Len(Body(n + k)) = n + k + 1
      /\ Body(n + k)[1] = MetaOut
      /\ \A i \in 2..(n + k + 1) : Body(n + k)[i] = Data(i - 1)
  BY <1>0, BodyProperties
<1>4. /\ Body(n) \o new \in Seq(Frames) /\ Len(Body(n) \o new) = n + 1 + k
      /\ \A i \in 1..(n + 1 + k) :
            (Body(n) \o new)[i] = IF i <= n + 1 THEN Body(n)[i] ELSE new[i - (n + 1)]
  <2>1. Len(Body(n)) + Len(new) = n + 1 + k
    BY <1>0, <1>1, <1>2
  <2>2. /\ Body(n) \o new \in Seq(Frames)
        /\ Len(Body(n) \o new) = Len(Body(n)) + Len(new)
        /\ \A i \in 1..(Len(Body(n)) + Len(new)) :
              (Body(n) \o new)[i] = IF i <= Len(Body(n)) THEN Body(n)[i]
                                                         ELSE new[i - Len(Body(n))]
    BY <1>1, <1>2, ConcatProperties, Zenon
  <2>. QED  BY <1>2, <2>1, <2>2, Zenon
<1>5. \A i \in 1..(n + 1 + k) : (Body(n) \o new)[i] = Body(n + k)[i]
  <2> SUFFICES ASSUME NEW i \in 1..(n + 1 + k) PROVE (Body(n) \o new)[i] = Body(n + k)[i]
      OBVIOUS
  <2>1. CASE i = 1
    BY <1>0, <1>2, <1>3, <1>4, <2>1
  <2>2. CASE i \in 2..(n + 1)
    BY <1>0, <1>2, <1>3, <1>4, <2>2
  <2>3. CASE i > n + 1
    <3>1. i - (n + 1) \in 1..k /\ n + (i - (n + 1)) = i - 1 /\ i \in 2..(n + k + 1)
      BY <1>0, <2>3
    <3>2. new[i - (n + 1)] = Data(i - 1)
      BY <1>1, <3>1
    <3>3. ~(i <= n + 1)
      BY <1>0, <2>3
    <3>4. (Body(n) \o new)[i] = new[i - (n + 1)]
      BY <1>4, <3>3, Zenon
    <3>5. Body(n + k)[i] = Data(i - 1)
      BY <1>3, <3>1, Zenon
    <3>. QED  BY <3>2, <3>4, <3>5, Zenon
  <2>4. i = 1 \/ i \in 2..(n + 1) \/ i > n + 1
    BY <1>0
  <2>. QED  BY <2>1, <2>2, <2>3, <2>4
<1>6. Len(Body(n) \o new) = Len(Body(n + k))
  BY <1>0, <1>3, <1>4
<1>7. \A i \in 1..Len(Body(n) \o new) : (Body(n) \o new)[i] = Body(n + k)[i]
  BY <1>4, <1>5
<1>. QED  BY <1>3, <1>4, <1>6, <1>7, SeqEqual DEF new

LEMMA BodyEnds ==
    /\ Append(Body(BodyLen), Fin) \in Seq(Frames)
    /\ WellFormed(Append(Body(BodyLen), Fin))
<1> DEFINE b == Body(BodyLen)
           w == Append(b, Fin)
<1>0. BodyLen \in Nat /\ BodyLen \in 0..BodyLen
  BY DrivenServerAssumption
<1>1. /\ b \in Seq(Frames) /\ Len(b) = BodyLen + 1 /\ b[1] = MetaOut
      /\ \A i \in 2..(BodyLen + 1) : b[i] = Data(i - 1)
  BY <1>0, BodyProperties
<1>2. /\ w \in Seq(Frames) /\ w # <<>> /\ Len(w) = BodyLen + 2
      /\ \A i \in 1..(BodyLen + 1) : w[i] = b[i]
      /\ w[BodyLen + 2] = Fin
  BY <1>0, <1>1, FramesTyped, AppendProperties
<1>. HIDE DEF b, w
<1>3. Uncut(w) = w
  BY <1>2, ErrorIsNoOther DEF Uncut
<1>4. Whole(w)
  BY <1>0, <1>1, <1>2 DEF Whole
<1>5. Streamed(w)
  <2> SUFFICES ASSUME NEW i \in 2..(BodyLen + 2)
               PROVE  \/ w[i] = Data(i - 1) /\ i - 1 <= BodyLen
                      \/ w[i] = Fin /\ i = BodyLen + 2
      BY <1>2 DEF Streamed
  <2>1. CASE i = BodyLen + 2
    BY <1>2, <2>1
  <2>2. CASE i # BodyLen + 2
    BY <1>0, <1>1, <1>2, <2>2
  <2>. QED  BY <2>1, <2>2
<1>. QED  BY <1>2, <1>3, <1>4, <1>5 DEF WellFormed, w, b

-----------------------------------------------------------------------------
(* The application's lists.                                                *)

LEMMA AppendedOnce ==
    ASSUME NEW s \in Seq(Requests), NEW r \in Requests, r \notin In(s), Once(s)
    PROVE  /\ Append(s, r) \in Seq(Requests) /\ Once(Append(s, r))
           /\ In(Append(s, r)) = In(s) \cup {r}
<1> DEFINE t == Append(s, r)
<1>1. /\ t \in Seq(Requests) /\ Len(t) = Len(s) + 1 /\ Len(s) \in Nat
      /\ \A i \in 1..Len(s) : t[i] = s[i]
      /\ t[Len(s) + 1] = r
  BY AppendProperties, LenProperties
<1>2. DOMAIN s = 1..Len(s) /\ DOMAIN t = 1..(Len(s) + 1)
  BY <1>1, LenProperties
<1>. HIDE DEF t
<1>3. \A i \in 1..Len(s) : s[i] # r
  BY <1>2 DEF In
<1>4. Once(t)
  BY <1>1, <1>2, <1>3 DEF Once
<1>5. In(t) = In(s) \cup {r}
  <2>1. In(t) \subseteq In(s) \cup {r}
    BY <1>1, <1>2 DEF In
  <2>2. In(s) \cup {r} \subseteq In(t)
    <3>1. r \in In(t)
      <4>1. Len(s) + 1 \in DOMAIN t
        BY <1>1, <1>2
      <4>. QED  BY <1>1, <4>1, Zenon DEF In
    <3>2. \A i \in 1..Len(s) : s[i] \in In(t)
      <4> SUFFICES ASSUME NEW i \in 1..Len(s) PROVE t[i] \in In(t)
          BY <1>1
      <4>1. i \in DOMAIN t
        BY <1>1, <1>2
      <4>. QED  BY <4>1, Zenon DEF In
    <3>. QED  BY <1>2, <3>1, <3>2 DEF In
  <2>. QED  BY <2>1, <2>2
<1>. QED  BY <1>1, <1>4, <1>5 DEF t

LEMMA TailOnce ==
    ASSUME NEW s \in Seq(Requests), s # <<>>, Once(s)
    PROVE  /\ Head(s) \in Requests /\ Head(s) \in In(s)
           /\ Tail(s) \in Seq(Requests) /\ Once(Tail(s))
           /\ In(Tail(s)) = In(s) \ {Head(s)}
<1> DEFINE t == Tail(s)
<1>1. /\ t \in Seq(Requests) /\ Len(t) = Len(s) - 1 /\ Len(s) \in Nat /\ Len(s) > 0
      /\ \A i \in 1..Len(t) : t[i] = s[i + 1]
  BY HeadTailProperties, LenProperties, EmptySeq
<1>2. DOMAIN s = 1..Len(s) /\ DOMAIN t = 1..(Len(s) - 1)
  BY <1>1, LenProperties
<1>3. Head(s) = s[1] /\ 1 \in DOMAIN s /\ Head(s) \in Requests
  BY <1>1, <1>2
<1>. HIDE DEF t
<1>4. Once(t)
  BY <1>1, <1>2 DEF Once
<1>5. In(t) = In(s) \ {s[1]}
  <2>1. \A i \in DOMAIN t : t[i] = s[i + 1] /\ i + 1 \in DOMAIN s /\ i + 1 # 1
    BY <1>1, <1>2
  <2>2. In(t) \subseteq In(s) \ {s[1]}
    BY <1>3, <2>1 DEF In, Once
  <2>3. \A k \in DOMAIN s : k # 1 => k - 1 \in DOMAIN t /\ t[k - 1] = s[k]
    BY <1>1, <1>2
  <2>4. In(s) \ {s[1]} \subseteq In(t)
    BY <2>3 DEF In
  <2>. QED  BY <2>2, <2>4
<1>. QED  BY <1>1, <1>3, <1>4, <1>5 DEF t, In

LEMMA FlowAppended ==
    ASSUME NEW a \in Seq(Flows), NEW r \in Requests, r \notin Pumped(a), OncePumped(a)
    PROVE  LET t == Append(a, [r |-> r, sent |-> 0])
           IN  /\ t \in Seq(Flows) /\ OncePumped(t) /\ Pumped(t) = Pumped(a) \cup {r}
               /\ Len(t) = Len(a) + 1
               /\ \A i \in DOMAIN t : (i \in DOMAIN a /\ t[i] = a[i])
                                      \/ t[i] = [r |-> r, sent |-> 0]
<1> DEFINE e == [r |-> r, sent |-> 0]
           t == Append(a, e)
<1>0. e \in Flows /\ e.r = r
  BY DrivenServerAssumption DEF Flows
<1>. HIDE DEF e
<1>1. /\ t \in Seq(Flows) /\ Len(t) = Len(a) + 1 /\ Len(a) \in Nat
      /\ \A i \in 1..Len(a) : t[i] = a[i]
      /\ t[Len(a) + 1] = e
  BY <1>0, AppendProperties, LenProperties
<1>2. DOMAIN a = 1..Len(a) /\ DOMAIN t = 1..(Len(a) + 1)
  BY <1>1, LenProperties
<1>. HIDE DEF t
<1>3. \A i \in 1..Len(a) : a[i].r # r
  BY <1>2 DEF Pumped
<1>4. OncePumped(t)
  BY <1>0, <1>1, <1>2, <1>3 DEF OncePumped
<1>5. \A i \in DOMAIN t : (i \in DOMAIN a /\ t[i] = a[i]) \/ t[i] = e
  BY <1>1, <1>2
<1>6. Pumped(t) = Pumped(a) \cup {r}
  <2>1. Pumped(t) \subseteq Pumped(a) \cup {r}
    BY <1>0, <1>5 DEF Pumped
  <2>2. r \in Pumped(t)
    <3>1. Len(a) + 1 \in DOMAIN t
      BY <1>1, <1>2
    <3>. QED  BY <1>0, <1>1, <3>1 DEF Pumped
  <2>3. \A i \in DOMAIN a : a[i].r \in Pumped(t)
    <3> SUFFICES ASSUME NEW i \in DOMAIN a PROVE a[i].r \in Pumped(t)
        OBVIOUS
    <3>1. i \in DOMAIN t /\ t[i] = a[i]
      BY <1>1, <1>2
    <3>. QED  BY <3>1, Zenon DEF Pumped
  <2>. QED  BY <2>1, <2>2, <2>3 DEF Pumped
<1>. QED  BY <1>1, <1>4, <1>5, <1>6 DEF t, e

LEMMA FlowDropped ==
    ASSUME active \in Seq(Flows), cursor \in 1..Len(active), OncePumped(active)
    PROVE  /\ Dropped \in Seq(Flows) /\ Len(Dropped) = Len(active) - 1
           /\ OncePumped(Dropped)
           /\ Pumped(Dropped) \subseteq Pumped(active) \ {Current.r}
           /\ \A i \in DOMAIN Dropped :
                 \E j \in DOMAIN active : j # cursor /\ Dropped[i] = active[j]
<1> DEFINE n == Len(active) - 1
           k(i) == IF i < cursor THEN i ELSE i + 1
<1>1. Len(active) \in Nat /\ n \in Nat /\ DOMAIN active = 1..Len(active) /\ cursor \in Int
  BY LenProperties
<1>2. Dropped = [i \in 1..n |-> active[k(i)]]
  BY DEF Dropped
<1>3. \A i \in 1..n : k(i) \in DOMAIN active /\ k(i) # cursor
  BY <1>1
<1>4. \A i, j \in 1..n : k(i) = k(j) => i = j
  BY <1>1
<1>5. \A i \in 1..n : active[k(i)] \in Flows
  BY <1>1, <1>3, ElementOfSeq
<1>. HIDE DEF n, k
<1>6. Dropped \in [1..n -> Flows]
  BY <1>2, <1>5
<1>7. Dropped \in Seq(Flows) /\ Len(Dropped) = n /\ DOMAIN Dropped = 1..n
  BY <1>1, <1>6
<1>8. \A i \in DOMAIN Dropped :
         \E j \in DOMAIN active : j # cursor /\ Dropped[i] = active[j]
  BY <1>2, <1>3, <1>7
<1>9. OncePumped(Dropped)
  BY <1>2, <1>3, <1>4, <1>7 DEF OncePumped
<1>10. Pumped(Dropped) \subseteq Pumped(active) \ {active[cursor].r}
  <2> SUFFICES ASSUME NEW i \in DOMAIN Dropped
               PROVE  Dropped[i].r \in Pumped(active) /\ Dropped[i].r # active[cursor].r
      BY DEF Pumped
  <2>1. PICK j \in DOMAIN active : j # cursor /\ Dropped[i] = active[j]
    BY <1>8
  <2>. QED  BY <1>1, <2>1 DEF OncePumped, Pumped
<1>. QED  BY <1>7, <1>8, <1>9, <1>10 DEF Current, n

(* The list of streams after k bytes of the current one.                   *)
LEMMA FlowAdvanced ==
    ASSUME active \in Seq(Flows), cursor \in 1..Len(active), OncePumped(active),
           NEW k \in Nat, Current.sent + k <= BodyLen
    PROVE  LET t == [active EXCEPT ![cursor] = Advance(Current, k)]
           IN  /\ t \in Seq(Flows) /\ Len(t) = Len(active) /\ DOMAIN t = DOMAIN active
               /\ OncePumped(t) /\ Pumped(t) = Pumped(active)
               /\ t[cursor] = [r |-> Current.r, sent |-> Current.sent + k]
               /\ \A i \in DOMAIN active : i # cursor => t[i] = active[i]
<1> DEFINE e == Advance(Current, k)
           t == [active EXCEPT ![cursor] = e]
<1>0. BodyLen \in Nat
  BY DrivenServerAssumption
<1>1. Len(active) \in Nat /\ DOMAIN active = 1..Len(active) /\ active \in [1..Len(active) -> Flows]
  BY LenProperties
<1>2. Current \in Flows /\ Current = active[cursor]
  BY <1>1 DEF Current
<1>3. e = [r |-> Current.r, sent |-> Current.sent + k] /\ e \in Flows /\ e.r = active[cursor].r
  BY <1>0, <1>2 DEF Advance, Flows
<1>. HIDE DEF e
<1>4. /\ t \in [1..Len(active) -> Flows] /\ t[cursor] = e
      /\ \A i \in DOMAIN active : i # cursor => t[i] = active[i]
  BY <1>1, <1>3
<1>5. t \in Seq(Flows) /\ Len(t) = Len(active) /\ DOMAIN t = DOMAIN active
  BY <1>1, <1>4
<1>. HIDE DEF t
<1>6. \A i \in DOMAIN active : t[i].r = active[i].r
  BY <1>3, <1>4
<1>7. OncePumped(t) /\ Pumped(t) = Pumped(active)
  BY <1>5, <1>6 DEF OncePumped, Pumped
<1>. QED  BY <1>3, <1>4, <1>5, <1>7 DEF t, e

-----------------------------------------------------------------------------
(* What a step leaves alone.                                               *)

LEMMA Members ==
    ASSUME LoopTypes
    PROVE  /\ \A i \in DOMAIN active : /\ i \in 1..Len(active) /\ active[i] \in Flows
                                       /\ active[i].r \in Requests
                                       /\ active[i].sent \in 0..BodyLen
           /\ Pumped(active) \subseteq Requests
           /\ In(listed) \subseteq Requests
<1>1. \A s \in Seq(Flows) : \A i \in DOMAIN s : i \in 1..Len(s) /\ s[i] \in Flows
  OBVIOUS
<1>2. \A s \in Seq(Requests) : \A i \in DOMAIN s : s[i] \in Requests
  OBVIOUS
<1>3. \A i \in DOMAIN active : i \in 1..Len(active) /\ active[i] \in Flows
  BY <1>1 DEF LoopTypes
<1>4. In(listed) \subseteq Requests
  BY <1>2 DEF LoopTypes, In
<1>. QED  BY <1>3, <1>4 DEF Flows, Pumped

(* A step of C alone, which never makes a request new again.               *)
LEMMA ListsKept ==
    ASSUME CTypes, LoopTypes, Lists, UNCHANGED <<listed, active, cursor>>,
           phase' = "answer" \/ phase # "answer",
           phase' = "pump" \/ phase # "pump",
           \A r \in Requests : c'[r] = "new" => c[r] = "new"
    PROVE  Lists'
<1>1. \A r \in In(listed) \cup Pumped(active) : r \in Requests
  BY Members
<1>2. \A r \in In(listed) \cup Pumped(active) : c'[r] # "new"
  BY <1>1 DEF Lists
<1>. QED  BY <1>2 DEF Lists, In, Pumped, Once, OncePumped

(* No byte goes out, no stream begins, nothing is parked, and what is no   *)
(* longer parked has no headers waiting.                                   *)
LEMMA WireKept ==
    ASSUME CTypes, LoopTypes, WireInv, UNCHANGED <<wire, active>>,
           \A r \in Requests : /\ c'[r] \in {"new", "parked", "streaming"} => c'[r] = c[r]
                               /\ attached'[r] # {} => attached[r] # {} /\ c'[r] = "parked"
    PROVE  WireInv'
<1>1. \A i \in DOMAIN active : active[i].r \in Requests
  BY Members
<1>2. Silent'
  BY DEF WireInv, Silent
<1>3. Progress'
  BY <1>1 DEF WireInv, Progress
<1>4. Attached'
  BY DEF Attached
<1>. QED  BY <1>2, <1>3, <1>4 DEF WireInv

LEMMA PanicsKept ==
    ASSUME LoopTypes, PanicInv, UNCHANGED panicked,
           \A r \in Requests : c[r] = "done" => c'[r] = "done" /\ wire'[r] = wire[r]
    PROVE  PanicInv'
BY DEF LoopTypes, PanicInv

(* C takes one request on: what it sends for that one is well-formed, and  *)
(* the pump has nothing to send for it any more.                           *)
LEMMA WireEnded ==
    ASSUME CTypes, LoopTypes, WireInv, UNCHANGED active,
           NEW r \in Requests, NEW w, WellFormed(w),
           c' = [c EXCEPT ![r] = "done"],
           wire' = [wire EXCEPT ![r] = w],
           attached' = [attached EXCEPT ![r] = {}]
    PROVE  WireInv'
<1>1. \A i \in DOMAIN active : active[i].r \in Requests
  BY Members
<1>2. \A q \in Requests : q # r => c'[q] = c[q] /\ wire'[q] = wire[q] /\ attached'[q] = attached[q]
  BY DEF CTypes
<1>3. c'[r] = "done" /\ wire'[r] = w /\ attached'[r] = {}
  BY DEF CTypes
<1>4. Silent'
  BY <1>2, <1>3 DEF WireInv, Silent
<1>5. Progress'
  BY <1>1, <1>2, <1>3 DEF WireInv, Progress
<1>6. Attached'
  BY <1>2, <1>3 DEF WireInv, Attached
<1>7. \A q \in Requests : WellFormed(wire'[q])
  BY <1>2, <1>3 DEF WireInv
<1>. QED  BY <1>4, <1>5, <1>6, <1>7 DEF WireInv, WellFormed, Uncut, Whole, Streamed

-----------------------------------------------------------------------------
(* The tick.                                                               *)

(* What a handler's call can come to: one of the answers C gives in its    *)
(* place or an error, a parked request, or a stream that the pump knows;   *)
(* and after a panic an error whatever the handler had done.               *)
LEMMA HandlerEffect ==
    ASSUME CTypes, NEW r \in Requests, NEW h \in HandlerRuns,
           AfterHandler(r, h, Trampoline(h))
    PROVE  \E s \in {"done", "parked", "streaming"}, w \in Seq(Frames), n \in 0..Window :
             /\ c' = [c EXCEPT ![r] = s]
             /\ wire' = [wire EXCEPT ![r] = w]
             /\ room' = [room EXCEPT ![r] = n]
             /\ WellFormed(w)
             /\ s = "parked" => w = <<>>
             /\ s = "streaming" => w = Body(0) /\ h.noted = "active"
             /\ h.panics => s = "done" /\ w # <<>> /\ w[Len(w)] = ErrorOut
<1> DEFINE rc    == Trampoline(h)
           begun == h.did = "stream" /\ h.rc = 0
           shed  == rc = NWEP_DEFER /\ Cardinality(Parked) >= MaxParked
           fails == rc < 0 \/ shed
           head  == IF begun THEN <<MetaOut>> ELSE <<>>
           s == IF fails THEN "done"
                ELSE IF rc = NWEP_DEFER THEN "parked"
                ELSE IF begun THEN "streaming" ELSE "done"
           rest == IF fails THEN <<ErrorOut>>
                   ELSE IF rc = NWEP_DEFER \/ begun THEN <<>> ELSE <<Answer>>
           n == IF begun THEN Window ELSE 0
<1>1. c' = [c EXCEPT ![r] = s] /\ wire' = [wire EXCEPT ![r] = head \o rest]
      /\ room' = [room EXCEPT ![r] = n]
  BY DEF AfterHandler
<1>2. /\ h.panics => rc = -801
      /\ ~h.panics => rc = h.rc
      /\ h.rc \in {0, 1, -203} /\ h.panics \in BOOLEAN
      /\ \/ h.did = "nothing" /\ h.panics
         \/ h.did = "answer" /\ h.rc # 1
         \/ h.did = "defer" /\ h.rc = 1
         \/ h.did = "stream" /\ h.noted = "active" /\ h.rc # 1
  BY DEF HandlerRuns, Outcomes, Nothing, InPlace, Defers, Streams, Trampoline, INTERNAL,
         NWEP_DEFER, NETWORK_CLOSED
<1>3. n \in 0..Window
  BY DrivenServerAssumption
<1>. HIDE DEF rc
<1>4. CASE fails
  <2>1. s = "done" /\ head \in Seq(Frames) /\ (head = <<>> \/ head = <<MetaOut>>)
        /\ rest = <<ErrorOut>>
    BY <1>4, FramesTyped
  <2>2. head \o <<ErrorOut>> = Append(head, ErrorOut)
    BY <2>1, FramesTyped, AppendIsConcat
  <2>. HIDE DEF head, rest, s, n
  <2>3. Append(head, ErrorOut) \in Seq(Frames)
    BY <2>1, FramesTyped, AppendProperties
  <2>4. /\ WellFormed(Append(head, ErrorOut)) /\ Append(head, ErrorOut) # <<>>
        /\ Append(head, ErrorOut)[Len(Append(head, ErrorOut))] = ErrorOut
    BY <2>1, WellFormedCut
  <2>5. wire' = [wire EXCEPT ![r] = Append(head, ErrorOut)]
    BY <1>1, <2>1, <2>2
  <2>. QED  BY <1>1, <1>3, <2>1, <2>3, <2>4, <2>5
<1>5. CASE ~fails /\ rc = 1
  <2>1. s = "parked" /\ ~begun
    BY <1>2, <1>5 DEF NWEP_DEFER
  <2>2. head \o rest = <<>> /\ <<>> \in Seq(Frames)
    BY <1>5, <2>1 DEF NWEP_DEFER
  <2>3. ~h.panics
    BY <1>2, <1>5
  <2>. HIDE DEF head, rest, s, n
  <2>4. wire' = [wire EXCEPT ![r] = <<>>]
    BY <1>1, <2>2
  <2>. QED  BY <1>1, <1>3, <2>1, <2>2, <2>3, <2>4, WellFormedEmpty
<1>6. CASE ~fails /\ rc # 1 /\ begun
  <2>1. s = "streaming" /\ h.noted = "active" /\ ~h.panics
    BY <1>2, <1>6 DEF NWEP_DEFER
  <2>2. head \o rest = <<MetaOut>> /\ <<MetaOut>> \in Seq(Frames)
    BY <1>6, FramesTyped DEF NWEP_DEFER
  <2>. HIDE DEF head, rest, s, n
  <2>3. wire' = [wire EXCEPT ![r] = Body(0)] /\ Body(0) \in Seq(Frames) /\ WellFormed(Body(0))
    <3>1. 0 \in 0..BodyLen
      BY DrivenServerAssumption
    <3>. QED  BY <1>1, <2>2, <3>1, BodyStarts, BodyProperties
  <2>. QED  BY <1>1, <1>3, <2>1, <2>3
<1>7. CASE ~fails /\ rc # 1 /\ ~begun
  <2>1. s = "done" /\ ~h.panics
    BY <1>2, <1>7 DEF NWEP_DEFER
  <2>2. head \o rest = <<Answer>> /\ <<Answer>> \in Seq(Frames)
    <3>1. head = <<>> /\ rest = <<Answer>> /\ <<Answer>> \in Seq(Frames)
      BY <1>7, FramesTyped DEF NWEP_DEFER
    <3>. HIDE DEF head, rest
    <3>2. \A x \in Seq(Frames) : <<>> \o x = x
      BY ConcatEmptySeq
    <3>. QED  BY <3>1, <3>2
  <2>. HIDE DEF head, rest, s, n
  <2>3. WellFormed(<<Answer>>)
    BY WellFormedOne, FramesTyped DEF Answer, Frame
  <2>4. wire' = [wire EXCEPT ![r] = <<Answer>>]
    BY <1>1, <2>2
  <2>. QED  BY <1>1, <1>3, <2>1, <2>2, <2>3, <2>4
<1>. QED  BY <1>4, <1>5, <1>6, <1>7

LEMMA Dispatching ==
    ASSUME IInv, NEW r \in Requests, Dispatch(r)
    PROVE  IInv'
<1>0. CTypes /\ LoopTypes /\ Lists /\ WireInv /\ PanicInv
  BY DEF IInv
<1>1. PICK h \in HandlerRuns :
        /\ AfterHandler(r, h, Trampoline(h))
        /\ listed' = IF h.noted = "listed" THEN Append(listed, r) ELSE listed
        /\ active' = IF h.noted = "active" THEN Append(active, [r |-> r, sent |-> 0]) ELSE active
        /\ panicked' = IF h.panics THEN panicked \cup {r} ELSE panicked
  BY DEF Dispatch
<1>2. c[r] = "new" /\ phase = "tick" /\ UNCHANGED <<phase, age, attached, cursor>>
  BY DEF Dispatch
<1>3. PICK s \in {"done", "parked", "streaming"}, w \in Seq(Frames), n \in 0..Window :
        /\ c' = [c EXCEPT ![r] = s]
        /\ wire' = [wire EXCEPT ![r] = w]
        /\ room' = [room EXCEPT ![r] = n]
        /\ WellFormed(w)
        /\ s = "parked" => w = <<>>
        /\ s = "streaming" => w = Body(0) /\ h.noted = "active"
        /\ h.panics => s = "done" /\ w # <<>> /\ w[Len(w)] = ErrorOut
  BY <1>0, <1>1, HandlerEffect
<1>4. /\ c'[r] = s /\ wire'[r] = w /\ s # "new"
      /\ \A q \in Requests : q # r => c'[q] = c[q] /\ wire'[q] = wire[q]
  BY <1>0, <1>3 DEF CTypes
<1>5. CTypes'
  BY <1>0, <1>2, <1>3 DEF CTypes, States
<1>6. r \notin In(listed) /\ r \notin Pumped(active)
  BY <1>0, <1>2 DEF Lists
<1>7. /\ listed' \in Seq(Requests) /\ Once(listed') /\ In(listed') \subseteq In(listed) \cup {r}
  BY <1>0, <1>1, <1>6, AppendedOnce DEF LoopTypes, Lists
<1>8. /\ active' \in Seq(Flows) /\ OncePumped(active') /\ Len(active') >= Len(active)
      /\ Pumped(active') \subseteq Pumped(active) \cup {r}
      /\ \A i \in DOMAIN active' : \/ i \in DOMAIN active /\ active'[i] = active[i]
                                   \/ active'[i] = [r |-> r, sent |-> 0]
      /\ h.noted # "active" => active' = active
  <2>1. CASE h.noted = "active"
    BY <1>0, <1>1, <1>6, <2>1, FlowAppended, LenProperties DEF LoopTypes, Lists
  <2>2. CASE h.noted # "active"
    BY <1>0, <1>1, <2>2, LenProperties DEF LoopTypes, Lists
  <2>. QED  BY <2>1, <2>2
<1>9. LoopTypes'
  <2>1. cursor' = 1 /\ Len(active') \in Nat
    BY <1>0, <1>2, <1>8, LenProperties DEF Lists
  <2>2. panicked' \subseteq Requests
    BY <1>0, <1>1 DEF LoopTypes
  <2>. QED  BY <1>0, <1>2, <1>7, <1>8, <2>1, <2>2 DEF LoopTypes
<1>10. Lists'
  <2>1. \A q \in In(listed') \cup Pumped(active') : c'[q] # "new"
    <3>1. \A q \in In(listed) \cup Pumped(active) : q \in Requests /\ c[q] # "new"
      BY <1>0, Members DEF Lists
    <3>. QED  BY <1>4, <1>7, <1>8, <3>1
  <2>3. cursor' = 1
    BY <1>0, <1>2, <1>6 DEF Lists
  <2>4. Once(listed)' /\ OncePumped(active)'
    BY <1>7, <1>8 DEF Once, OncePumped, In
  <2>5. (\A q \in In(listed) \cup Pumped(active) : c[q] # "new")'
    BY <2>1 DEF In, Pumped
  <2>. QED  BY <2>3, <2>4, <2>5 DEF Lists
<1>11. WireInv'
  <2>1. Silent'
    BY <1>0, <1>3, <1>4 DEF WireInv, Silent
  <2>2. Progress'
    <3> SUFFICES ASSUME NEW i \in DOMAIN active', c'[active'[i].r] = "streaming"
                 PROVE  wire'[active'[i].r] = Body(active'[i].sent)
        BY DEF Progress
    <3>1. CASE active'[i].r = r
      <4>1. active'[i] = [r |-> r, sent |-> 0]
        BY <1>6, <1>8, <3>1 DEF Pumped
      <4>. QED  BY <1>3, <1>4, <4>1, <3>1
    <3>2. CASE active'[i].r # r
      <4>1. i \in DOMAIN active /\ active'[i] = active[i]
        BY <1>8, <3>2
      <4>2. active[i].r \in Requests
        BY <1>0, <4>1, Members
      <4>. QED  BY <1>0, <1>4, <3>2, <4>1, <4>2 DEF WireInv, Progress
    <3>. QED  BY <3>1, <3>2
  <2>3. Attached'
    BY <1>0, <1>2, <1>4 DEF WireInv, Attached
  <2>4. \A q \in Requests : WellFormed(wire'[q])
    BY <1>0, <1>3, <1>4 DEF WireInv
  <2>. QED  BY <2>1, <2>2, <2>3, <2>4 DEF WireInv, WellFormed, Uncut, Whole, Streamed
<1>12. PanicInv'
  <2>1. r \notin panicked
    BY <1>0, <1>2 DEF PanicInv
  <2>2. \A q \in panicked : q \in Requests
    BY <1>0 DEF LoopTypes
  <2>. QED  BY <1>0, <1>1, <1>3, <1>4, <2>1, <2>2 DEF PanicInv
<1>. QED  BY <1>5, <1>9, <1>10, <1>11, <1>12 DEF IInv

LEMMA Losing ==
    ASSUME IInv, NEW k \in Conns, ConnLost(k)
    PROVE  IInv'
<1> DEFINE lost == {r \in Requests : ConnOf[r] = k /\ c[r] # "done"}
<1>0. CTypes /\ LoopTypes /\ Lists /\ WireInv /\ PanicInv
  BY DEF IInv
<1>1. /\ c' = [r \in Requests |-> IF r \in lost THEN "gone" ELSE c[r]]
      /\ attached' = [r \in Requests |-> IF r \in lost THEN {} ELSE attached[r]]
      /\ room' = [r \in Requests |-> IF r \in lost THEN 0 ELSE room[r]]
      /\ UNCHANGED <<phase, age, wire, listed, active, cursor, panicked>>
  BY DEF ConnLost, loopVars
<1>2. CTypes'
  BY <1>0, <1>1, DrivenServerAssumption DEF CTypes, States
<1>3. \A r \in lost : c[r] # "done"
  OBVIOUS
<1>. HIDE DEF lost
<1>4. LoopTypes'
  BY <1>0, <1>1 DEF LoopTypes
<1>5. Lists'
  BY <1>0, <1>1, ListsKept
<1>6. WireInv'
  BY <1>0, <1>1, WireKept DEF WireInv, Attached
<1>7. PanicInv'
  BY <1>0, <1>1, <1>3, PanicsKept
<1>. QED  BY <1>2, <1>4, <1>5, <1>6, <1>7 DEF IInv

LEMMA Expiring ==
    ASSUME IInv, NEW r \in Requests, DeadlinePasses(r)
    PROVE  IInv'
<1>0. CTypes /\ LoopTypes /\ Lists /\ WireInv /\ PanicInv
  BY DEF IInv
<1>1. /\ c[r] = "parked" /\ c' = [c EXCEPT ![r] = "done"]
      /\ wire' = [wire EXCEPT ![r] = Append(wire[r], ErrorOut)]
      /\ attached' = [attached EXCEPT ![r] = {}]
      /\ UNCHANGED <<phase, age, room, listed, active, cursor, panicked>>
  BY DEF DeadlinePasses, loopVars
<1>2. wire[r] = <<>> /\ wire[r] \in Seq(Frames)
  BY <1>0, <1>1 DEF WireInv, Silent, CTypes
<1>3. Append(wire[r], ErrorOut) \in Seq(Frames) /\ WellFormed(Append(wire[r], ErrorOut))
  BY <1>2, FramesTyped, AppendProperties, WellFormedCut
<1>4. CTypes'
  BY <1>0, <1>1, <1>3 DEF CTypes, States
<1>5. LoopTypes'
  BY <1>0, <1>1 DEF LoopTypes
<1>6. Lists'
  BY <1>0, <1>1, ListsKept DEF CTypes
<1>7. WireInv'
  BY <1>0, <1>1, <1>3, WireEnded
<1>8. PanicInv'
  BY <1>0, <1>1, PanicsKept DEF CTypes
<1>. QED  BY <1>4, <1>5, <1>6, <1>7, <1>8 DEF IInv

LEMMA Ticking ==
    ASSUME IInv, TickEnds \/ (\E r \in Requests : PeerReads(r)) \/ UNCHANGED vars
    PROVE  IInv'
<1>0. CTypes /\ LoopTypes /\ Lists /\ WireInv /\ PanicInv
  BY DEF IInv
<1>1. /\ UNCHANGED <<c, attached, wire, listed, active, cursor, panicked>>
      /\ phase' = phase \/ (phase = "tick" /\ phase' \in {"answer", "pump"})
  BY DEF TickEnds, PeerReads, vars, cVars, loopVars
<1>2. CTypes'
  <2>1. CASE TickEnds
    <3>1. age' \in [Requests -> 0..Deadline]
      <4>1. PICK away \in 1..Deadline :
              age' = [r \in Requests |-> IF r \notin Parked THEN 0
                        ELSE IF age[r] + away <= Deadline THEN age[r] + away ELSE Deadline]
        BY <2>1 DEF TickEnds
      <4>2. Deadline \in Nat
        BY DrivenServerAssumption
      <4>3. \A r \in Requests : age[r] \in 0..Deadline
        BY <1>0 DEF CTypes
      <4>. QED  BY <4>1, <4>2, <4>3
    <3>. QED  BY <1>0, <1>1, <2>1, <3>1 DEF CTypes, TickEnds
  <2>2. CASE \E r \in Requests : PeerReads(r)
    <3>1. Window \in Nat
      BY DrivenServerAssumption
    <3>. QED  BY <1>0, <1>1, <2>2, <3>1 DEF CTypes, PeerReads
  <2>3. CASE UNCHANGED vars
    BY <1>0, <2>3 DEF CTypes, vars, cVars
  <2>. QED  BY <2>1, <2>2, <2>3
<1>3. LoopTypes'
  BY <1>0, <1>1 DEF LoopTypes
<1>4. Lists'
  BY <1>0, <1>1 DEF Lists
<1>5. WireInv'
  BY <1>0, <1>1 DEF WireInv, Silent, Progress, Attached
<1>6. PanicInv'
  BY <1>0, <1>1 DEF PanicInv
<1>. QED  BY <1>2, <1>3, <1>4, <1>5, <1>6 DEF IInv

(* The Server is dropped.                                                  *)
LEMMA Closing ==
    ASSUME IInv, Close
    PROVE  IInv'
<1>0. CTypes /\ LoopTypes /\ Lists /\ WireInv /\ PanicInv
  BY DEF IInv
<1>1. CTypes'
  BY <1>0, DrivenServerAssumption DEF Close, CTypes, States
<1>2. LoopTypes' /\ Lists'
  <2>1. phase' = "dead" /\ listed' = <<>> /\ active' = <<>> /\ cursor' = 1
        /\ panicked' = panicked
    BY DEF Close
  <2>2. LoopTypes'
    BY <1>0, <2>1 DEF LoopTypes
  <2>3. Lists'
    BY <2>1 DEF Lists, Once, In, OncePumped, Pumped
  <2>. QED  BY <2>2, <2>3
<1>3. WireInv'
  BY <1>0 DEF Close, WireInv, Silent, Progress, Attached
<1>4. PanicInv'
  BY <1>0, PanicsKept DEF Close, LoopTypes
<1>. QED  BY <1>1, <1>2, <1>3, <1>4 DEF IInv

-----------------------------------------------------------------------------
(* The answers.                                                            *)

(* Only what C holds parked takes an answer, and what it does not hold has *)
(* no headers waiting.                                                     *)
LEMMA Checked ==
    /\ \A r, hs : Check(SendCode(r, hs)) = "Ok" => c[r] = "parked"
    /\ \A r : Check(RelayCode(r)) = "Ok" => c[r] = "parked"
BY SMTT(60) DEF Check, SendCode, RelayCode, FromCode, Named, APP_NOT_FOUND, PROTO_INVALID_HEADER

LEMMA NamesTyped ==
    /\ \A hs \in HeaderLists : Names(hs) \subseteq HeaderNames
    /\ Names(<<>>) = {}
BY DEF HeaderNames, Names, Prefix

(* The head of the list leaves it.                                         *)
LEMMA Taken ==
    ASSUME CTypes, LoopTypes, Lists, Answering, listed' = Tail(listed),
           UNCHANGED <<phase, active, cursor>>,
           \A q \in Requests : c'[q] = "new" => c[q] = "new"
    PROVE  Lists' /\ listed' \in Seq(Requests)
<1>1. listed # <<>> /\ phase = "answer" /\ listed \in Seq(Requests)
  BY DEF Answering, LoopTypes
<1>2. listed' \in Seq(Requests) /\ Once(listed') /\ In(listed') \subseteq In(listed)
  BY <1>1, TailOnce DEF Lists
<1>3. \A q \in In(listed') \cup Pumped(active') : c'[q] # "new"
  BY <1>2, Members DEF Lists
<1>4. (\A q \in In(listed) \cup Pumped(active) : c[q] # "new")' /\ Once(listed)' /\ OncePumped(active)'
  BY <1>2, <1>3 DEF In, Pumped, Once, OncePumped, Lists
<1>5. phase' = "answer" /\ cursor' = 1
  BY <1>1 DEF Lists
<1>. QED  BY <1>2, <1>4, <1>5 DEF Lists

(* A step of the application that answers r, from its list or again.       *)
Answered(r) ==
    /\ r \in Requests
    /\ UNCHANGED <<phase, age, room, active, cursor, panicked>>
    /\ listed' = listed \/ (Answering /\ listed' = Tail(listed))

LEMMA ListsAnswered ==
    ASSUME CTypes, LoopTypes, Lists, NEW r, Answered(r),
           \A q \in Requests : c'[q] = "new" => c[q] = "new"
    PROVE  Lists' /\ LoopTypes'
<1>1. CASE listed' = listed
  BY <1>1, ListsKept DEF Answered, LoopTypes
<1>2. CASE Answering /\ listed' = Tail(listed)
  BY <1>2, Taken DEF Answered, LoopTypes
<1>. QED  BY <1>1, <1>2 DEF Answered

LEMMA Delivering ==
    ASSUME IInv, NEW r, Answered(r), NEW f \in Frames, f.kind = "answer",
           c[r] = "parked", Deliver(r, f)
    PROVE  IInv'
<1>0. CTypes /\ LoopTypes /\ Lists /\ WireInv /\ PanicInv
  BY DEF IInv
<1>1. r \in Requests /\ UNCHANGED <<phase, age, room, active, cursor, panicked>>
  BY DEF Answered
<1>2. /\ c' = [c EXCEPT ![r] = "done"]
      /\ wire' = [wire EXCEPT ![r] = Append(wire[r], f)]
      /\ attached' = [attached EXCEPT ![r] = {}]
  BY DEF Deliver
<1>3. wire[r] = <<>> /\ Append(wire[r], f) = <<f>>
  <2>1. wire[r] = <<>>
    BY <1>0, <1>1 DEF WireInv, Silent
  <2>2. Append(<<>>, f) = <<f>>
    OBVIOUS
  <2>. QED  BY <2>1, <2>2
<1>4. <<f>> \in Seq(Frames) /\ WellFormed(<<f>>)
  BY WellFormedOne
<1>5. CTypes'
  BY <1>0, <1>1, <1>2, <1>3, <1>4 DEF CTypes, States
<1>6. \A q \in Requests : /\ c'[q] = "new" => c[q] = "new"
                          /\ c[q] = "done" => c'[q] = "done" /\ wire'[q] = wire[q]
  BY <1>0, <1>1, <1>2 DEF CTypes
<1>7. Lists' /\ LoopTypes'
  BY <1>0, <1>6, ListsAnswered
<1>8. WireInv'
  BY <1>0, <1>1, <1>2, <1>3, <1>4, WireEnded
<1>9. PanicInv'
  BY <1>0, <1>1, <1>6, PanicsKept
<1>. QED  BY <1>5, <1>7, <1>8, <1>9 DEF IInv

(* The answer fails, and some headers may stay with a parked request.      *)
LEMMA Failing ==
    ASSUME IInv, NEW r, Answered(r), UNCHANGED <<c, wire>>,
           NEW heads \in SUBSET HeaderNames, heads # {} => c[r] = "parked",
           attached' = [attached EXCEPT ![r] = heads]
    PROVE  IInv'
<1>0. CTypes /\ LoopTypes /\ Lists /\ WireInv /\ PanicInv
  BY DEF IInv
<1>1. r \in Requests /\ UNCHANGED <<phase, age, room, active, cursor, panicked>>
  BY DEF Answered
<1>2. CTypes'
  BY <1>0, <1>1 DEF CTypes
<1>3. Lists' /\ LoopTypes'
  BY <1>0, ListsAnswered
<1>4. WireInv'
  <2>1. Attached'
    BY <1>0, <1>1 DEF WireInv, Attached, CTypes
  <2>. QED  BY <1>0, <1>1, <2>1 DEF WireInv, Silent, Progress
<1>5. PanicInv'
  BY <1>0, <1>1 DEF PanicInv
<1>. QED  BY <1>2, <1>3, <1>4, <1>5 DEF IInv

LEMMA Responding ==
    ASSUME IInv, NEW r, Answered(r), Relay(r) \/ \E hs \in HeaderLists : Send(r, hs)
    PROVE  IInv'
<1>1. /\ r \in Requests /\ attached[r] \in SUBSET HeaderNames
      /\ c[r] # "parked" => attached[r] = {}
  BY DEF Answered, IInv, CTypes, WireInv, Attached
<1>2. ASSUME NEW hs \in HeaderLists, Send(r, hs) PROVE IInv'
  <2> DEFINE heads == IF c[r] = "parked" THEN attached[r] \cup Names(hs) ELSE {}
             f     == Frame("answer", 0, heads, Names(hs))
  <2>1. IF Check(SendCode(r, hs)) = "Ok" THEN Deliver(r, f)
        ELSE attached' = [attached EXCEPT ![r] = heads] /\ UNCHANGED <<c, wire>>
    BY <1>2 DEF Send
  <2>2. Names(hs) \in SUBSET HeaderNames
    BY NamesTyped
  <2>3. heads \in SUBSET HeaderNames /\ (heads # {} => c[r] = "parked")
    BY <1>1, <2>2
  <2>. HIDE DEF heads
  <2>4. f \in Frames /\ f.kind = "answer"
    BY <2>2, <2>3, FramesTyped DEF Frame
  <2>. HIDE DEF f
  <2>5. CASE Check(SendCode(r, hs)) = "Ok"
    BY <2>1, <2>4, <2>5, Checked, Delivering
  <2>6. CASE Check(SendCode(r, hs)) # "Ok"
    BY <2>1, <2>3, <2>6, Failing
  <2>. QED  BY <2>5, <2>6
<1>3. CASE Relay(r)
  <2>1. Answer \in Frames /\ Answer.kind = "answer"
    BY FramesTyped DEF Answer, Frame
  <2>2. CASE Check(RelayCode(r)) = "Ok"
    <3>1. Deliver(r, Answer) /\ c[r] = "parked"
      BY <1>3, <2>2, Checked DEF Relay
    <3>. QED  BY <2>1, <3>1, Delivering
  <2>3. CASE Check(RelayCode(r)) # "Ok"
    <3>1. UNCHANGED <<c, attached, wire>>
      BY <1>3, <2>3 DEF Relay
    <3>2. attached' = [attached EXCEPT ![r] = attached[r]]
      BY <3>1 DEF IInv, CTypes
    <3>. QED  BY <1>1, <3>1, <3>2, Failing
  <2>. QED  BY <2>2, <2>3
<1>. QED  BY <1>2, <1>3

LEMMA Answers ==
    ASSUME IInv, AnswerNext \/ \E r \in Requests : RespondAgain(r)
    PROVE  IInv'
<1>1. CASE AnswerNext
  <2>1. Head(listed) \in Requests
    BY <1>1, TailOnce DEF AnswerNext, Answering, IInv, LoopTypes, Lists
  <2>2. Answered(Head(listed))
    BY <1>1, <2>1 DEF AnswerNext, Respond, Answered
  <2>. QED  BY <1>1, <2>2, Responding DEF AnswerNext, Respond
<1>2. ASSUME NEW r \in Requests, RespondAgain(r) PROVE IInv'
  <2>1. Answered(r)
    BY <1>2 DEF RespondAgain, Respond, Answered
  <2>. QED  BY <1>2, <2>1, Responding DEF RespondAgain, Respond
<1>. QED  BY <1>1, <1>2

LEMMA Turning ==
    ASSUME IInv, AnswersEnd \/ PumpBlocked \/ PumpPassEnds
    PROVE  IInv'
<1>0. CTypes /\ LoopTypes /\ Lists /\ WireInv /\ PanicInv
  BY DEF IInv
<1>1. UNCHANGED <<c, age, attached, room, wire, listed, active, panicked>>
  BY DEF AnswersEnd, PumpBlocked, PumpPassEnds, cVars, loopVars
<1>2. CTypes' /\ WireInv' /\ PanicInv'
  BY <1>0, <1>1 DEF CTypes, WireInv, Silent, Progress, Attached, PanicInv
<1>3. CASE AnswersEnd
  <2>1. phase = "answer" /\ phase' = "pump" /\ cursor' = cursor
    BY <1>3 DEF AnswersEnd, loopVars
  <2>2. LoopTypes'
    BY <1>0, <1>1, <2>1 DEF LoopTypes
  <2>3. Lists'
    BY <1>0, <1>1, <2>1 DEF Lists, Once, In
  <2>. QED  BY <1>2, <2>2, <2>3 DEF IInv
<1>4. CASE PumpBlocked
  <2>1. UNCHANGED <<phase, listed>> /\ phase = "pump" /\ cursor' = cursor + 1
        /\ cursor <= Len(active)
    BY <1>4 DEF PumpBlocked, Pumping
  <2>2. Len(active) \in Nat
    BY <1>0, LenProperties DEF LoopTypes
  <2>3. LoopTypes'
    BY <1>0, <1>1, <2>1, <2>2 DEF LoopTypes
  <2>4. Lists'
    BY <1>0, <1>1, <2>1 DEF Lists
  <2>. QED  BY <1>2, <2>3, <2>4 DEF IInv
<1>5. CASE PumpPassEnds
  <2>1. UNCHANGED listed /\ phase = "pump" /\ phase' = "tick" /\ cursor' = 1
    BY <1>5 DEF PumpPassEnds
  <2>2. Len(active) \in Nat
    BY <1>0, LenProperties DEF LoopTypes
  <2>3. LoopTypes'
    BY <1>0, <1>1, <2>1, <2>2 DEF LoopTypes
  <2>4. Lists'
    BY <1>0, <1>1, <2>1 DEF Lists
  <2>. QED  BY <1>2, <2>3, <2>4 DEF IInv
<1>. QED  BY <1>3, <1>4, <1>5

-----------------------------------------------------------------------------
(* The pump.                                                               *)

LEMMA Sending ==
    ASSUME IInv, PumpSends
    PROVE  IInv'
<1> DEFINE r == Current.r
           s == Current.sent
<1>0. CTypes /\ LoopTypes /\ Lists /\ WireInv /\ PanicInv
  BY DEF IInv
<1>1. PICK n \in Accepted(Current) :
        /\ wire' = [wire EXCEPT ![r] = wire[r] \o [i \in 1..n |-> Data(s + i)]]
        /\ room' = [room EXCEPT ![r] = room[r] - n]
        /\ active' = [active EXCEPT ![cursor] = Advance(Current, n)]
  BY DEF PumpSends
<1>2. /\ phase = "pump" /\ cursor <= Len(active) /\ c[r] = "streaming"
      /\ UNCHANGED <<phase, c, age, attached, listed, cursor, panicked>>
  BY DEF PumpSends, Pumping
<1>3. BodyLen \in Nat /\ Window \in Nat /\ Len(active) \in Nat
  BY <1>0, DrivenServerAssumption, LenProperties DEF LoopTypes
<1>4. /\ cursor \in 1..Len(active) /\ cursor \in DOMAIN active
      /\ r \in Requests /\ s \in 0..BodyLen /\ Current = active[cursor]
  <2>1. cursor \in 1..Len(active)
    BY <1>0, <1>2, <1>3 DEF LoopTypes
  <2>2. cursor \in DOMAIN active
    BY <1>0, <2>1, LenProperties DEF LoopTypes
  <2>. QED  BY <1>0, <2>1, <2>2, Members DEF Current
<1>5. n \in 1..BodyLen /\ n <= BodyLen - s /\ n <= room[r]
  BY DEF Accepted
<1>6. n \in Nat /\ s + n <= BodyLen /\ s + n \in 0..BodyLen
  BY <1>3, <1>4, <1>5
<1>7. /\ active' \in Seq(Flows) /\ Len(active') = Len(active) /\ DOMAIN active' = DOMAIN active
      /\ OncePumped(active') /\ Pumped(active') = Pumped(active)
      /\ active'[cursor] = [r |-> r, sent |-> s + n]
      /\ \A i \in DOMAIN active : i # cursor => active'[i] = active[i]
  BY <1>0, <1>1, <1>4, <1>6, FlowAdvanced DEF LoopTypes, Lists
<1>8. wire[r] = Body(s)
  BY <1>0, <1>2, <1>4 DEF WireInv, Progress
<1>9. /\ wire' = [wire EXCEPT ![r] = Body(s + n)]
      /\ Body(s + n) \in Seq(Frames) /\ WellFormed(Body(s + n))
  <2>1. Body(s) \o [i \in 1..n |-> Data(s + i)] = Body(s + n)
    BY <1>4, <1>5, <1>6, BodyGrows
  <2>2. Body(s + n) \in Seq(Frames) /\ WellFormed(Body(s + n))
    BY <1>6, BodyProperties
  <2>. QED  BY <1>1, <1>8, <2>1, <2>2
<1>. HIDE DEF r, s
<1>10. CTypes'
  <2>1. room[r] - n \in 0..Window
    BY <1>0, <1>3, <1>4, <1>5, <1>6 DEF CTypes
  <2>. QED  BY <1>0, <1>1, <1>2, <1>4, <1>9, <2>1 DEF CTypes
<1>11. LoopTypes'
  BY <1>0, <1>2, <1>7 DEF LoopTypes
<1>12. Lists'
  <2>1. OncePumped(active)' /\ Pumped(active)' = Pumped(active)
    BY <1>7 DEF OncePumped, Pumped
  <2>. QED  BY <1>0, <1>2, <2>1 DEF Lists, In, Once
<1>13. WireInv'
  <2>1. /\ wire'[r] = Body(s + n)
        /\ \A q \in Requests : q # r => wire'[q] = wire[q]
    BY <1>0, <1>4, <1>9 DEF CTypes
  <2>2. Silent'
    BY <1>0, <1>2, <2>1 DEF WireInv, Silent
  <2>3. Progress'
    <3> SUFFICES ASSUME NEW i \in DOMAIN active, c[active'[i].r] = "streaming"
                 PROVE  wire'[active'[i].r] = Body(active'[i].sent)
        BY <1>2, <1>7 DEF Progress
    <3>1. CASE i = cursor
      BY <1>7, <2>1, <3>1
    <3>2. CASE i # cursor
      <4>1. active'[i] = active[i] /\ active[i].r \in Requests
        BY <1>0, <1>7, <3>2, Members
      <4>2. active[i].r # r
        BY <1>0, <1>4, <3>2 DEF Lists, OncePumped, r
      <4>. QED  BY <1>0, <2>1, <4>1, <4>2 DEF WireInv, Progress
    <3>. QED  BY <3>1, <3>2
  <2>4. \A q \in Requests : WellFormed(wire'[q])
    BY <1>0, <1>9, <2>1 DEF WireInv
  <2>5. Attached'
    BY <1>0, <1>2 DEF WireInv, Attached
  <2>. QED  BY <2>2, <2>3, <2>4, <2>5 DEF WireInv, WellFormed, Uncut, Whole, Streamed
<1>14. PanicInv'
  <2>1. \A q \in Requests : c[q] = "done" => c'[q] = "done" /\ wire'[q] = wire[q]
    BY <1>0, <1>2, <1>9 DEF CTypes
  <2>. QED  BY <1>0, <1>2, <2>1, PanicsKept
<1>. QED  BY <1>10, <1>11, <1>12, <1>13, <1>14 DEF IInv

LEMMA Ending ==
    ASSUME IInv, PumpEnds
    PROVE  IInv'
<1> DEFINE r == Current.r
<1>0. CTypes /\ LoopTypes /\ Lists /\ WireInv /\ PanicInv
  BY DEF IInv
<1>1. /\ wire' = [wire EXCEPT ![r] = Append(wire[r], Fin)]
      /\ c' = [c EXCEPT ![r] = "done"]
      /\ room' = [room EXCEPT ![r] = 0]
      /\ active' = Dropped
      /\ UNCHANGED <<phase, age, attached, listed, cursor, panicked>>
  BY DEF PumpEnds
<1>2. phase = "pump" /\ cursor <= Len(active) /\ c[r] = "streaming" /\ Current.sent = BodyLen
  BY DEF PumpEnds, Pumping
<1>3. Window \in Nat /\ Len(active) \in Nat
  BY <1>0, DrivenServerAssumption, LenProperties DEF LoopTypes
<1>4. /\ cursor \in 1..Len(active) /\ cursor \in DOMAIN active
      /\ r \in Requests /\ Current = active[cursor]
  <2>1. cursor \in 1..Len(active)
    BY <1>0, <1>2, <1>3 DEF LoopTypes
  <2>2. cursor \in DOMAIN active
    BY <1>0, <2>1, LenProperties DEF LoopTypes
  <2>. QED  BY <1>0, <2>1, <2>2, Members DEF Current
<1>5. /\ active' \in Seq(Flows) /\ Len(active') = Len(active) - 1
      /\ OncePumped(active') /\ Pumped(active') \subseteq Pumped(active) \ {r}
      /\ \A i \in DOMAIN active' :
            \E j \in DOMAIN active : j # cursor /\ active'[i] = active[j]
  BY <1>0, <1>1, <1>4, FlowDropped DEF LoopTypes, Lists
<1>6. wire[r] = Body(BodyLen)
  BY <1>0, <1>2, <1>4 DEF WireInv, Progress
<1>. HIDE DEF r
<1>7. /\ Append(wire[r], Fin) \in Seq(Frames) /\ WellFormed(Append(wire[r], Fin))
  BY <1>6, BodyEnds
<1>8. CTypes'
  BY <1>0, <1>1, <1>3, <1>4, <1>7 DEF CTypes, States
<1>9. /\ c'[r] = "done" /\ wire'[r] = Append(wire[r], Fin)
      /\ \A q \in Requests : q # r => c'[q] = c[q] /\ wire'[q] = wire[q]
  BY <1>0, <1>1, <1>4 DEF CTypes
<1>10. LoopTypes'
  <2>1. cursor' \in 1..(Len(active') + 1)
    BY <1>1, <1>3, <1>4, <1>5
  <2>. QED  BY <1>0, <1>1, <1>5, <2>1 DEF LoopTypes
<1>11. Lists'
  <2>1. OncePumped(active)' /\ Pumped(active)' \subseteq Pumped(active)
    BY <1>5 DEF OncePumped, Pumped
  <2>2. \A q \in In(listed) \cup Pumped(active) : q \in Requests /\ c[q] # "new"
    BY <1>0, Members DEF Lists
  <2>3. \A q \in In(listed) \cup Pumped(active)' : c'[q] # "new"
    BY <1>9, <2>1, <2>2
  <2>. QED  BY <1>0, <1>1, <1>2, <2>1, <2>3 DEF Lists, In, Once
<1>12. WireInv'
  <2>1. Silent'
    BY <1>0, <1>9 DEF WireInv, Silent
  <2>2. Progress'
    <3> SUFFICES ASSUME NEW i \in DOMAIN active', c'[active'[i].r] = "streaming"
                 PROVE  wire'[active'[i].r] = Body(active'[i].sent)
        BY DEF Progress
    <3>1. PICK j \in DOMAIN active : j # cursor /\ active'[i] = active[j]
      BY <1>5
    <3>2. active[j].r \in Requests /\ active[j].r # r
      BY <1>0, <1>4, <3>1, Members DEF Lists, OncePumped, r
    <3>. QED  BY <1>0, <1>9, <3>1, <3>2 DEF WireInv, Progress
  <2>3. Attached'
    BY <1>0, <1>1, <1>2, <1>9 DEF WireInv, Attached, r
  <2>4. \A q \in Requests : WellFormed(wire'[q])
    BY <1>0, <1>7, <1>9 DEF WireInv
  <2>. QED  BY <2>1, <2>2, <2>3, <2>4 DEF WireInv, WellFormed, Uncut, Whole, Streamed
<1>13. PanicInv'
  <2>1. \A q \in Requests : c[q] = "done" => c'[q] = "done" /\ wire'[q] = wire[q]
    BY <1>2, <1>9 DEF r
  <2>. QED  BY <1>0, <1>1, <2>1, PanicsKept
<1>. QED  BY <1>8, <1>10, <1>11, <1>12, <1>13 DEF IInv

-----------------------------------------------------------------------------
(* The theorems.                                                           *)

LEMMA StartInv == Init => IInv
<1> SUFFICES ASSUME Init PROVE IInv
    OBVIOUS
<1>1. CTypes
  BY DrivenServerAssumption DEF Init, CTypes, States
<1>2. LoopTypes
  BY DEF Init, LoopTypes
<1>3. Lists
  BY DEF Init, Lists, Once, In, OncePumped, Pumped
<1>4. WireInv
  BY WellFormedEmpty DEF Init, WireInv, Silent, Progress, Attached
<1>5. PanicInv
  BY DEF Init, PanicInv
<1>. QED  BY <1>1, <1>2, <1>3, <1>4, <1>5 DEF IInv

(* The inductive invariant holds in every reachable state of the loop.     *)
THEOREM Invariant == Spec => []IInv
<1>1. Init => IInv
  BY StartInv
<1>2. IInv /\ [Next]_vars => IInv'
  <2> SUFFICES ASSUME IInv, [Next]_vars PROVE IInv'
      OBVIOUS
  <2>1. CASE \E r \in Requests : Dispatch(r)
    BY <2>1, Dispatching
  <2>2. CASE \E k \in Conns : ConnLost(k)
    BY <2>2, Losing
  <2>3. CASE \E r \in Requests : DeadlinePasses(r)
    BY <2>3, Expiring
  <2>4. CASE TickEnds \/ (\E r \in Requests : PeerReads(r)) \/ Terminated \/ UNCHANGED vars
    BY <2>4, Ticking DEF Terminated
  <2>5. CASE Stop \/ AnswerPanics \/ PumpPanics
    BY <2>5, Closing DEF Stop, AnswerPanics, PumpPanics
  <2>6. CASE AnswerNext \/ \E r \in Requests : RespondAgain(r)
    BY <2>6, Answers
  <2>7. CASE AnswersEnd \/ PumpBlocked \/ PumpPassEnds
    BY <2>7, Turning
  <2>8. CASE PumpSends
    BY <2>8, Sending
  <2>9. CASE PumpEnds
    BY <2>9, Ending
  <2>. QED
    BY <2>1, <2>2, <2>3, <2>4, <2>5, <2>6, <2>7, <2>8, <2>9 DEF Next, Loop, Tick
<1>. QED  BY <1>1, <1>2, PTL DEF Spec

(* Clients see one answer, or the bytes of one stream in order and its fin *)
(* after the last, or an error in the place of either: whatever the        *)
(* handlers do, however many streams the pump has, of whatever length, and *)
(* however few bytes C accepts at a time.                                  *)
THEOREM Wire == Spec => []WireWellFormed
<1>1. IInv => WireWellFormed
  BY DEF IInv, WireInv, WellFormed, Uncut, WireWellFormed
<1>. QED  BY <1>1, Invariant, PTL

(* A request whose handler panicked is over and its client has an error,   *)
(* also when the handler had deferred it or begun its stream before.       *)
THEOREM Panics == Spec => []PanicIsAnError
<1>1. IInv => PanicIsAnError
  BY DEF IInv, PanicInv, PanicIsAnError
<1>. QED  BY <1>1, Invariant, PTL

(* Each request is in the lists of the loop once, so that they stay as     *)
(* short as there are requests.                                            *)
LEMMA ListsShort ==
    ASSUME NEW s, NEW n \in Nat, DOMAIN s = 1..n, In(s) \subseteq Requests, Once(s)
    PROVE  n <= Cardinality(Requests)
<1> DEFINE f == [i \in 1..n |-> s[i]]
<1>1. f \in Injection(1..n, Requests)
  BY DEF In, Once, Injection, IsInjective
<1>2. Cardinality(1..n) <= Cardinality(Requests)
  BY <1>1, FiniteRequests, FS_Injection
<1>3. Cardinality(1..n) = n
  BY FS_Interval
<1>. QED  BY <1>2, <1>3

(* Every variable keeps its type: no stream counts more bytes than its     *)
(* body has, and the loop's lists hold no request twice.                   *)
THEOREM TypeCorrect == Spec => []TypeOK
<1>1. IInv => TypeOK
  <2> SUFFICES ASSUME IInv PROVE TypeOK
      OBVIOUS
  <2>1. CTypes /\ LoopTypes /\ Lists /\ Attached
    BY DEF IInv, WireInv
  <2> DEFINE N == Cardinality(Requests)
  <2>2. N \in Nat
    BY FiniteRequests, FS_CardinalityType
  <2>3. \A s \in Seq(Requests) : Once(s) => s \in Seqs(Requests, N)
    <3> SUFFICES ASSUME NEW s \in Seq(Requests), Once(s) PROVE s \in Seqs(Requests, N)
        OBVIOUS
    <3>1. Len(s) \in Nat /\ DOMAIN s = 1..Len(s) /\ s \in [1..Len(s) -> Requests]
      BY LenProperties
    <3>2. Len(s) <= N
      BY <3>1, ListsShort DEF In
    <3>. QED  BY <2>2, <3>1, <3>2 DEF Seqs
  <2>4. Len(active) <= N /\ Len(active) \in Nat
    <3> DEFINE s == [i \in 1..Len(active) |-> active[i].r]
    <3>1. Len(active) \in Nat /\ DOMAIN active = 1..Len(active)
      BY <2>1, LenProperties DEF LoopTypes
    <3>2. In(s) \subseteq Requests
      BY <2>1, <3>1, Members DEF In
    <3>3. Once(s)
      BY <2>1, <3>1 DEF Lists, Once, OncePumped
    <3>. QED  BY <3>1, <3>2, <3>3, ListsShort
  <2>5. cursor \in 1..(N + 1)
    BY <2>1, <2>2, <2>4 DEF LoopTypes
  <2>6. \A i \in DOMAIN active : active[i] \in Flows
    BY <2>1, Members
  <2>. QED  BY <2>1, <2>3, <2>5, <2>6 DEF TypeOK, CTypes, LoopTypes, Lists, Attached, Flows
<1>. QED  BY <1>1, Invariant, PTL
=============================================================================
