---------------------------- MODULE DrivenServer ----------------------------
(***************************************************************************)
(* A driven Server (server.rs) and the loop of its application.            *)
(*                                                                         *)
(* One thread runs the loop: Server::tick, inside which the C library      *)
(* calls the handler through the trampoline; then the deferred requests    *)
(* are answered with Server::respond; then the streamed responses are      *)
(* pumped with stream_send and stream_end.  A handler answers in place,    *)
(* defers, begins a stream, or panics before or after any of these.        *)
(* The C side moves only inside the tick: requests arrive, connections     *)
(* are lost, a parked request meets its deadline, the peer reads.  The     *)
(* application's list of deferred requests and C's table of parked ones    *)
(* are two records of the same thing, and nothing keeps them equal: a      *)
(* request that was shed, panicked over, timed out or lost its connection  *)
(* is still in the list.                                                   *)
(*                                                                         *)
(* The loops are those of examples/nwproxy.rs and of the tests deferred.rs *)
(* and managed_concurrency.rs (the deferred requests), and of              *)
(* examples/managed_stream.rs (the pump).  Each takes an entry off its     *)
(* list for good; an error of the answer is unwrapped or ignored.  Besides *)
(* them an embedder may answer a request again that is still parked:       *)
(* Server::respond takes ids, and a refused send leaves the request as it  *)
(* was (RespondAgain).                                                     *)
(*                                                                         *)
(* An operator marked "faulty" is a bug the code does not have; it stands  *)
(* beside the definition it would replace, to test the properties with.    *)
(***************************************************************************)
EXTENDS Integers, Sequences, FiniteSets, Codes

CONSTANTS
    Requests,   \* the requests clients send
    Conns,      \* the connections they arrive on
    ConnOf,     \* [Requests -> Conns]
    HeaderLists,\* the header lists a deferred send is given: [name, ok]
    MaxParked,  \* ServerBuilder::max_parked
    BodyLen,    \* bytes of a streamed body
    Window,     \* bytes C buffers for a stream before it pushes back
    Deadline    \* ticks after which C answers a parked request itself

ASSUME DrivenServerAssumption ==
    /\ ConnOf \in [Requests -> Conns]
    /\ {MaxParked, BodyLen, Window, Deadline} \subseteq Nat \ {0}

ASSUME FiniteRequests == IsFiniteSet(Requests)

VARIABLES
    phase,    \* what the loop is doing: "tick", "answer", "pump", "dead"
    c,        \* C's state of each request
    age,      \* ticks a parked request has waited
    attached, \* headers C holds for the next deferred response of a request
    room,     \* bytes C would accept for each stream now
    wire,     \* what C has sent for each request
    listed,   \* the application's deferred requests
    active,   \* the application's streams: [r, sent]
    cursor,   \* the pump's position in active
    panicked  \* requests whose handler panicked

cVars    == <<c, age, attached, room, wire>>
loopVars == <<listed, active, cursor>>
vars     == <<phase, cVars, loopVars, panicked>>

States == {"new", "parked", "streaming", "done", "gone"}
Parked == {r \in Requests : c[r] = "parked"}

(***************************************************************************)
(* Frames.  A data frame carries the body's byte number `at`; a deferred   *)
(* answer carries the headers it went out with and those of its own send.  *)
(***************************************************************************)
Frame(kind, at, hs, own) == [kind |-> kind, at |-> at, headers |-> hs, own |-> own]
MetaOut  == Frame("head", 0, {}, {})
Data(i)  == Frame("data", i, {}, {})
Fin      == Frame("fin", 0, {}, {})
Answer   == Frame("answer", 0, {}, {})
ErrorOut == Frame("error", 0, {}, {})

(***************************************************************************)
(* The library's return codes the loop can meet; Codes says how they read. *)
(***************************************************************************)
NWEP_DEFER           == 1
NETWORK_CLOSED       == -203
PROTO_INVALID_HEADER == -403
APP_NOT_FOUND        == -601
INTERNAL             == -801

Init ==
    /\ phase = "tick"
    /\ c = [r \in Requests |-> "new"]
    /\ age = [r \in Requests |-> 0]
    /\ attached = [r \in Requests |-> {}]
    /\ room = [r \in Requests |-> 0]
    /\ wire = [r \in Requests |-> <<>>]
    /\ listed = <<>>
    /\ active = <<>>
    /\ cursor = 1
    /\ panicked = {}

(***************************************************************************)
(* The handler.  `did` is the responder method it reached: "nothing" only  *)
(* when it panicked first.  Recording the request for the loop comes       *)
(* before defer() or stream(), so a panic may fall between the two.        *)
(***************************************************************************)
Outcomes == [did : {"nothing", "answer", "defer", "stream"}, rc : {0, NWEP_DEFER, NETWORK_CLOSED},
             noted : {"", "listed", "active"}, panics : BOOLEAN]

(* A panic before any method of the responder: its code is still 0.        *)
Nothing(h)  == h.did = "nothing" /\ h.rc = 0 /\ h.panics
(* Any terminal that answers in place writes the code of the C call it is. *)
InPlace(h)  == h.did = "answer" /\ h.noted = "" /\ h.rc # NWEP_DEFER
Defers(h)   == h.did = "defer"  /\ h.noted = "listed" /\ h.rc = NWEP_DEFER
Streams(h)  == h.did = "stream" /\ h.noted = "active" /\ h.rc # NWEP_DEFER

HandlerRuns == {h \in Outcomes : Nothing(h) \/ InPlace(h) \/ Defers(h) \/ Streams(h)}

TrampolineKeepsCode(h) == h.rc   \* faulty: the code the responder wrote stands

(* trampoline: a panic is caught and becomes an error whatever was written. *)
Trampoline(h) == IF h.panics THEN INTERNAL ELSE h.rc

(* What C does with the handler's return code.                             *)
AfterHandler(r, h, rc) ==
    LET begun == h.did = "stream" /\ h.rc = 0
        shed  == rc = NWEP_DEFER /\ Cardinality(Parked) >= MaxParked
        fails == rc < 0 \/ shed
        head  == IF begun THEN <<MetaOut>> ELSE <<>>
    IN  /\ c' = [c EXCEPT ![r] = IF fails THEN "done"
                                  ELSE IF rc = NWEP_DEFER THEN "parked"
                                  ELSE IF begun THEN "streaming" ELSE "done"]
        /\ wire' = [wire EXCEPT ![r] = head \o (IF fails THEN <<ErrorOut>>
                                                ELSE IF rc = NWEP_DEFER \/ begun THEN <<>>
                                                ELSE <<Answer>>)]
        /\ room' = [room EXCEPT ![r] = IF begun THEN Window ELSE 0]

Dispatch(r) ==
    /\ phase = "tick" /\ c[r] = "new"
    /\ \E h \in HandlerRuns :
          /\ AfterHandler(r, h, Trampoline(h))
          /\ listed' = IF h.noted = "listed" THEN Append(listed, r) ELSE listed
          /\ active' = IF h.noted = "active" THEN Append(active, [r |-> r, sent |-> 0]) ELSE active
          /\ panicked' = IF h.panics THEN panicked \cup {r} ELSE panicked
    /\ UNCHANGED <<phase, age, attached, cursor>>

(***************************************************************************)
(* The rest of the tick: C alone.                                          *)
(***************************************************************************)
ConnLost(k) ==
    /\ phase = "tick"
    /\ LET lost == {r \in Requests : ConnOf[r] = k /\ c[r] # "done"}
       IN  /\ lost # {} /\ \E r \in lost : c[r] # "gone"
           /\ c' = [r \in Requests |-> IF r \in lost THEN "gone" ELSE c[r]]
           /\ attached' = [r \in Requests |-> IF r \in lost THEN {} ELSE attached[r]]
           /\ room' = [r \in Requests |-> IF r \in lost THEN 0 ELSE room[r]]
    /\ UNCHANGED <<phase, age, wire, loopVars, panicked>>

DeadlinePasses(r) ==
    /\ phase = "tick" /\ c[r] = "parked" /\ age[r] >= Deadline
    /\ c' = [c EXCEPT ![r] = "done"]
    /\ wire' = [wire EXCEPT ![r] = Append(@, ErrorOut)]
    /\ attached' = [attached EXCEPT ![r] = {}]
    /\ UNCHANGED <<phase, age, room, loopVars, panicked>>

PeerReads(r) ==
    /\ phase = "tick" /\ c[r] = "streaming" /\ room[r] < Window
    /\ room' = [room EXCEPT ![r] = Window]
    /\ UNCHANGED <<phase, c, age, attached, wire, loopVars, panicked>>

(* A tick leaves no parked request past its deadline.  How long the loop is *)
(* away until the next one is up to its fetches, which block.  It goes on  *)
(* with its list, or leaves it for a later pass (managed_concurrency.rs    *)
(* waits for two entries).                                                 *)
TickEnds ==
    /\ phase = "tick"
    /\ \A r \in Parked : age[r] < Deadline
    /\ \E away \in 1..Deadline :
          age' = [r \in Requests |-> IF r \notin Parked THEN 0
                     ELSE IF age[r] + away <= Deadline THEN age[r] + away ELSE Deadline]
    /\ phase' \in {"answer", "pump"}
    /\ UNCHANGED <<c, attached, room, wire, loopVars, panicked>>

(***************************************************************************)
(* The loop stops, or a call it unwraps fails: the Server is dropped and   *)
(* every connection closes with it.                                        *)
(***************************************************************************)
Close ==
    /\ phase' = "dead"
    /\ c' = [r \in Requests |-> IF c[r] = "done" THEN "done" ELSE "gone"]
    /\ attached' = [r \in Requests |-> {}]
    /\ room' = [r \in Requests |-> 0]
    /\ age' = [r \in Requests |-> 0]
    /\ listed' = <<>>
    /\ active' = <<>>
    /\ cursor' = 1
    /\ UNCHANGED <<wire, panicked>>

(* The stop flag is seen, or the tick itself fails.                        *)
Stop == phase = "tick" /\ Close

(***************************************************************************)
(* Answering the deferred requests.  DeferredResponder::send attaches its  *)
(* headers to the parked stream one by one and returns at the first that   *)
(* cannot be a C string; those before it stay attached.                    *)
(***************************************************************************)
Prefix(hs) == {i \in DOMAIN hs : \A k \in 1..i : hs[k].ok}
Names(hs)  == {hs[i].name : i \in Prefix(hs)}

SendCode(r, hs) ==
    IF hs # <<>> /\ ~hs[1].ok THEN PROTO_INVALID_HEADER
    ELSE IF c[r] # "parked" THEN APP_NOT_FOUND
    ELSE IF Prefix(hs) # DOMAIN hs THEN PROTO_INVALID_HEADER
    ELSE 0

Deliver(r, frame) ==
    /\ c' = [c EXCEPT ![r] = "done"]
    /\ wire' = [wire EXCEPT ![r] = Append(@, frame)]
    /\ attached' = [attached EXCEPT ![r] = {}]

Send(r, hs) ==
    LET heads == IF c[r] = "parked" THEN attached[r] \cup Names(hs) ELSE {}
    IN  IF Check(SendCode(r, hs)) = "Ok"
        THEN Deliver(r, Frame("answer", 0, heads, Names(hs)))
        ELSE attached' = [attached EXCEPT ![r] = heads] /\ UNCHANGED <<c, wire>>

RelayCode(r) == IF c[r] = "parked" THEN 0 ELSE APP_NOT_FOUND

(* relay and blit: the origin's frame verbatim, queued headers ignored.    *)
Relay(r) ==
    IF Check(RelayCode(r)) = "Ok" THEN Deliver(r, Answer) ELSE UNCHANGED <<c, attached, wire>>

(* Server::respond and a terminal, for any request whose ids are known.    *)
Respond(r) ==
    /\ Relay(r) \/ \E hs \in HeaderLists : Send(r, hs)
    /\ UNCHANGED <<phase, age, room, active, cursor, panicked>>

Answering == phase = "answer" /\ listed # <<>>

(* An entry leaves the list and is answered; an error is ignored.          *)
AnswerNext == Answering /\ Respond(Head(listed)) /\ listed' = Tail(listed)

(* The fetch from the origin, or an answer, is unwrapped and fails.        *)
AnswerPanics == Answering /\ Close

AnswersEnd ==
    /\ phase = "answer" /\ listed = <<>>
    /\ phase' = "pump"
    /\ UNCHANGED <<cVars, loopVars, panicked>>

(* An embedder's call, no step of the repository's loops: a request that   *)
(* was answered without success and is still parked is answered again.     *)
RespondAgain(r) ==
    /\ phase = "answer" /\ c[r] = "parked"
    /\ \A i \in DOMAIN listed : listed[i] # r
    /\ Respond(r)
    /\ UNCHANGED listed

(***************************************************************************)
(* The pump: one pass over the active streams, each sent as far as C will  *)
(* take it.                                                                *)
(***************************************************************************)
Current == active[cursor]
Pumping == phase = "pump" /\ cursor <= Len(active)

(* The bytes a stream_send accepts of those that are left.                 *)
Accepted(e) == {n \in 1..BodyLen : n <= BodyLen - e.sent /\ n <= room[e.r]}

AdvanceWhole(e, n)   == [e EXCEPT !.sent = BodyLen]     \* faulty: a short accept is taken for all
AdvancePastEnd(e, n) == [e EXCEPT !.sent = @ + n + 1]   \* faulty: off by one

(* What the loop notes of n accepted bytes.                                *)
Advance(e, n) == [e EXCEPT !.sent = @ + n]

PumpSends ==
    /\ Pumping /\ c[Current.r] = "streaming"
    /\ \E n \in Accepted(Current) :
          /\ wire' = [wire EXCEPT ![Current.r] =
                          @ \o [i \in 1..n |-> Data(Current.sent + i)]]
          /\ room' = [room EXCEPT ![Current.r] = @ - n]
          /\ active' = [active EXCEPT ![cursor] = Advance(Current, n)]
    /\ UNCHANGED <<phase, c, age, attached, listed, cursor, panicked>>

(* active without the entry at the cursor.                                 *)
Dropped == [i \in 1..(Len(active) - 1) |-> active[IF i < cursor THEN i ELSE i + 1]]

PumpBlockedDrops ==   \* faulty: retain_mut returns false under back-pressure
    /\ Pumping /\ c[Current.r] = "streaming"
    /\ Current.sent < BodyLen /\ room[Current.r] = 0
    /\ active' = Dropped
    /\ UNCHANGED <<phase, cVars, listed, cursor, panicked>>

(* Nothing accepted: the entry stays, the pass goes on.                    *)
PumpBlocked ==
    /\ Pumping /\ c[Current.r] = "streaming"
    /\ Current.sent < BodyLen /\ room[Current.r] = 0
    /\ cursor' = cursor + 1
    /\ UNCHANGED <<phase, cVars, listed, active, panicked>>

(* retain_mut returns false: the stream has its fin and leaves the list.   *)
PumpEnds ==
    /\ Pumping /\ c[Current.r] = "streaming" /\ Current.sent = BodyLen
    /\ wire' = [wire EXCEPT ![Current.r] = Append(@, Fin)]
    /\ c' = [c EXCEPT ![Current.r] = "done"]
    /\ room' = [room EXCEPT ![Current.r] = 0]
    /\ active' = Dropped
    /\ UNCHANGED <<phase, age, attached, listed, cursor, panicked>>

(* The stream is no longer C's: the unwrapped send or end fails.           *)
PumpPanics == Pumping /\ c[Current.r] # "streaming" /\ Close

PumpPassEnds ==
    /\ phase = "pump" /\ cursor > Len(active)
    /\ cursor' = 1
    /\ phase' = "tick"
    /\ UNCHANGED <<cVars, listed, active, panicked>>

Terminated == phase = "dead" /\ UNCHANGED vars

Tick == TickEnds \/ \E r \in Requests : DeadlinePasses(r)
Loop ==
    \/ Tick
    \/ AnswerNext \/ AnswersEnd
    \/ PumpSends \/ PumpBlocked \/ PumpEnds \/ PumpPanics \/ PumpPassEnds

Next ==
    \/ Loop \/ AnswerPanics \/ Stop \/ Terminated
    \/ \E r \in Requests : Dispatch(r) \/ PeerReads(r) \/ RespondAgain(r)
    \/ \E k \in Conns : ConnLost(k)

(***************************************************************************)
(* The thread runs its loop; the peer of an open stream goes on reading    *)
(* (its reads are taken inside a tick, hence the strong fairness).         *)
(***************************************************************************)
Fairness ==
    /\ WF_vars(Loop)
    /\ \A r \in Requests : SF_vars(PeerReads(r))

Spec == Init /\ [][Next]_vars
FairSpec == Spec /\ Fairness

(***************************************************************************)
(* Properties                                                              *)
(***************************************************************************)
Seqs(S, n) == UNION {[1..k -> S] : k \in 0..n}

(* The state is well typed, and each stream's progress within its body.    *)
TypeOK ==
    /\ phase \in {"tick", "answer", "pump", "dead"}
    /\ c \in [Requests -> States]
    /\ age \in [Requests -> 0..Deadline]
    /\ room \in [Requests -> 0..Window]
    /\ \A r \in Requests : attached[r] # {} => c[r] = "parked"
    /\ listed \in Seqs(Requests, Cardinality(Requests))
    /\ \A i \in DOMAIN active : active[i] \in [r : Requests, sent : 0..BodyLen]
    /\ cursor \in 1..(Cardinality(Requests) + 1)
    /\ panicked \subseteq Requests

(***************************************************************************)
(* Every client sees one of three things: one frame that answers; or the   *)
(* head of a stream, then the bytes of the body from the first, each once  *)
(* and in order, and fin only after the last; or any beginning of these    *)
(* cut off by an error.  Across a deadline that answers first, an entry    *)
(* whose request C no longer holds, a second answer, back-pressure and     *)
(* short accepts (Responder, Server::stream_send, DeferredResponder).      *)
(***************************************************************************)
Whole(w) == w = <<>> \/ w[1] = MetaOut \/ (Len(w) = 1 /\ w[1].kind = "answer")
Streamed(w) ==
    \A i \in 2..Len(w) :
        \/ w[i] = Data(i - 1) /\ i - 1 <= BodyLen
        \/ w[i] = Fin /\ i = BodyLen + 2 /\ i = Len(w)

WireWellFormed ==
    \A r \in Requests :
        LET w == wire[r]
            v == IF w # <<>> /\ w[Len(w)] = ErrorOut THEN SubSeq(w, 1, Len(w) - 1) ELSE w
        IN  Whole(v) /\ Streamed(v)

(***************************************************************************)
(* A request whose handler panicked is never left parked or answered with  *)
(* success, whatever the handler had done before: its client gets an       *)
(* error, and a later respond for the entry it left in the list finds      *)
(* nothing to answer (the trampoline's catch_unwind).                      *)
(***************************************************************************)
PanicIsAnError ==
    \A r \in panicked : c[r] = "done" /\ wire[r][Len(wire[r])] = ErrorOut

(***************************************************************************)
(* A deferred or streamed request gets its answer or its fin, or its       *)
(* connection is gone: no stream stays open because the pump forgot it, no *)
(* deferred one because the loop ignored the error of its answer           *)
(* (Responder::defer, Responder::stream).                                  *)
(***************************************************************************)
EveryRequestEnds ==
    \A r \in Requests :
        c[r] \in {"parked", "streaming"} ~> c[r] \in {"done", "gone"}

(***************************************************************************)
(* A deferred answer goes out with the headers of the send that delivers   *)
(* it.  server.rs:1095 says a header is queued "for the send terminal";    *)
(* the code hands C the headers before an invalid one and returns, and C   *)
(* keeps them for the next response of that request.                       *)
(***************************************************************************)
HeadersOfItsSend ==
    \A r \in Requests : \A i \in DOMAIN wire[r] : wire[r][i].headers = wire[r][i].own

=============================================================================
