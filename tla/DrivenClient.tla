---------------------------- MODULE DrivenClient ----------------------------
(***************************************************************************)
(* A driven Client (client.rs): the non-blocking connect, and the handles  *)
(* an application holds on the requests and streams it has open.           *)
(*                                                                         *)
(* One thread.  C moves only while a call that pumps the connection runs   *)
(* (tick, poll_notify, a blocking send or recv).  What the application     *)
(* knows of its jobs (RequestHandle, Stream) and what C's table says of    *)
(* them are two records of the same thing.  C retires a request's id with  *)
(* the poll that ends it or the callback that reports it, and keeps a      *)
(* stream's until it is closed; so a RequestHandle must remember that it   *)
(* is done, and a Stream must not.                                         *)
(*                                                                         *)
(* An id is an opaque token.  C may give a retired id to a new request,    *)
(* except on a connection with a request-done hook: there a handle is not  *)
(* told that the hook took its completion, and only ids that are never     *)
(* used again keep its drop from cancelling somebody else's request.       *)
(*                                                                         *)
(* An operator marked "faulty" is a bug the code does not have; it stands  *)
(* beside the definition it would replace, to test the properties with.    *)
(***************************************************************************)
EXTENDS Integers, FiniteSets, Codes

CONSTANTS
    Requests,    \* requests the application submits
    Streams,     \* streams it opens
    Ids,         \* ids C hands out
    MaxStreams,  \* C's limit on concurrent streams
    MaxConnects, \* how often the application connects
    None         \* no job, no id

ASSUME DrivenClientAssumption ==
    /\ Requests \cap Streams = {}
    /\ None \notin Requests \cup Streams /\ None \notin Ids
    /\ IsFiniteSet(Ids)
    /\ MaxStreams \in Nat /\ MaxConnects \in Nat

Jobs == Requests \cup Streams

VARIABLES
    own,      \* what the application holds: "nothing", "connecting", "client"
    link,     \* C's connection: "none", "handshake", "up", "down"
    inC,      \* a call that pumps the connection is running
    connects, \* connections begun
    hook,     \* a request-done hook is installed
    slot,     \* C's table: each id "free", "open", "ready" or "failed"
    of,       \* the job an id was given to
    given,    \* ids given on this connection
    outcome,  \* how C concluded each job
    fired,    \* requests whose conclusion C gave to the hook
    handle,   \* each handle: "none", "held", "done", "dropped"
    idOf,     \* the id in the handle
    got       \* what the application was told, and of which job

connVars == <<own, link, connects>>
cVars    == <<slot, of, given, outcome, fired>>
jobVars  == <<handle, idOf, got>>
vars     == <<inC, hook, connVars, cVars, jobVars>>

NETWORK_TIMEOUT == -202
NETWORK_CLOSED  == -203
APP_NOT_FOUND   == -601
WOULD_BLOCK     == -803

Nothing == [how |-> "nothing", whose |-> None]
Told(how, j) == [how |-> how, whose |-> j]

Live == {id \in Ids : slot[id] # "free"}

(* C retires ids: those it does not hold are no matter to it.              *)
Retire(D) ==
    /\ slot' = [id \in Ids |-> IF id \in D THEN "free" ELSE slot[id]]
    /\ of' = [id \in Ids |-> IF id \in D THEN None ELSE of[id]]

Init ==
    /\ own = "nothing" /\ link = "none" /\ connects = 0
    /\ inC = FALSE /\ hook = FALSE
    /\ slot = [id \in Ids |-> "free"]
    /\ of = [id \in Ids |-> None]
    /\ given = {}
    /\ outcome = [j \in Jobs |-> "none"]
    /\ fired = {}
    /\ handle = [j \in Jobs |-> "none"]
    /\ idOf = [j \in Jobs |-> None]
    /\ got = [j \in Jobs |-> Nothing]

(***************************************************************************)
(* Connecting.                                                             *)
(***************************************************************************)

(* connect, connect_fd and connect_by_node_id return a Client or an error; *)
(* start_connect and start_connect_fd a Connecting.                        *)
Connect ==
    /\ own = "nothing" /\ connects < MaxConnects
    /\ connects' = connects + 1
    /\ \/ own' = "client" /\ link' = "up"
       \/ own' = "connecting" /\ link' = "handshake"
       \/ UNCHANGED <<own, link>>
    /\ UNCHANGED <<inC, hook, cVars, jobVars>>

PollCode ==
    CASE link = "up" -> 1 [] link = "handshake" -> 0 [] OTHER -> NETWORK_CLOSED

(* Connecting::poll after a tick: 1 and the loop takes the Client with     *)
(* into_client; an error and it drops the handle, which closes; 0 and it   *)
(* comes back.                                                             *)
ConnectPoll ==
    /\ own = "connecting" /\ ~inC /\ PollCode # 0
    /\ IF PollCode = 1
       THEN own' = "client" /\ UNCHANGED link
       ELSE own' = "nothing" /\ link' = "none"
    /\ UNCHANGED <<inC, connects, hook, cVars, jobVars>>

GiveUp ==
    /\ own = "connecting" /\ ~inC
    /\ own' = "nothing" /\ link' = "none"
    /\ UNCHANGED <<inC, connects, hook, cVars, jobVars>>

(***************************************************************************)
(* Calls that pump the connection, and what C does in them.                *)
(***************************************************************************)
EnterC == own # "nothing" /\ ~inC /\ inC' = TRUE /\ UNCHANGED <<hook, connVars, cVars, jobVars>>
LeaveC == inC /\ inC' = FALSE /\ UNCHANGED <<hook, connVars, cVars, jobVars>>

Handshake ==
    /\ inC /\ link = "handshake"
    /\ link' \in {"up", "down"}
    /\ UNCHANGED <<inC, hook, own, connects, cVars, jobVars>>

ResultIgnoresStatus(status) == "response"   \* faulty: the status is not looked at

(* done_trampoline: the result the hook is called with.                    *)
HookResult(status) == IF status = 0 THEN "response" ELSE FromCode(status).is

(* The hooks of the requests in S run.  Those in P panic: the panic is     *)
(* swallowed, the result dropped, the application not told.                *)
HooksRun(S, P, status) ==
    /\ fired' = fired \cup S
    /\ got' = [j \in Jobs |-> IF j \in S \ P THEN Told(HookResult(status), j) ELSE got[j]]

(* C concludes the jobs of the ids in D, in one way.                       *)
Conclude(D, status) ==
    LET jobs == {of[id] : id \in D}
        told == IF hook THEN jobs \cap Requests ELSE {}
    IN  /\ outcome' = [j \in Jobs |-> IF j \notin jobs THEN outcome[j]
                                      ELSE IF status = 0 THEN "ok" ELSE "failed"]
        /\ slot' = [id \in Ids |-> IF id \notin D THEN slot[id]
                                   ELSE IF of[id] \in told THEN "free"
                                   ELSE IF status = 0 THEN "ready" ELSE "failed"]
        /\ of' = [id \in Ids |-> IF id \in D /\ of[id] \in told THEN None ELSE of[id]]
        /\ \E P \in SUBSET told : HooksRun(told, P, status)
        /\ UNCHANGED given

Finish(id) ==
    /\ inC /\ link = "up" /\ slot[id] = "open"
    /\ \E status \in {0, NETWORK_TIMEOUT} : Conclude({id}, status)
    /\ UNCHANGED <<inC, hook, connVars, handle, idOf>>

ConnLost ==
    /\ inC /\ link = "up"
    /\ link' = "down"
    /\ Conclude({id \in Ids : slot[id] = "open"}, NETWORK_CLOSED)
    /\ UNCHANGED <<inC, hook, own, connects, handle, idOf>>

(***************************************************************************)
(* The application, between two such calls.                                *)
(***************************************************************************)
AtHome == own = "client" /\ ~inC

OnRequestDone ==
    /\ AtHome /\ ~hook
    /\ hook' = TRUE
    /\ UNCHANGED <<inC, connVars, cVars, jobVars>>

(* C takes a job.  At its limit the error is ProtoMaxStreams and the       *)
(* application tries again later.                                          *)
Begin(j) ==
    /\ AtHome /\ link = "up" /\ handle[j] = "none"
    /\ Cardinality(Live) < MaxStreams
    /\ \E id \in Ids \ Live :
          /\ hook => id \notin given
          /\ slot' = [slot EXCEPT ![id] = "open"]
          /\ of' = [of EXCEPT ![id] = j]
          /\ given' = given \cup {id}
          /\ idOf' = [idOf EXCEPT ![j] = id]
    /\ handle' = [handle EXCEPT ![j] = "held"]
    /\ UNCHANGED <<inC, hook, connVars, outcome, fired, got>>

Submit(r)     == Begin(r)
OpenStream(s) == Begin(s)

(* An interior NUL in the path or a header, or a connection that is gone:  *)
(* an error and no handle.                                                 *)
SubmitRefused(j) ==
    /\ AtHome /\ handle[j] = "none"
    /\ handle' = [handle EXCEPT ![j] = "dropped"]
    /\ UNCHANGED <<inC, hook, connVars, cVars, idOf, got>>

(* What nwep_client_request_poll, or a stream_recv that reached the end,   *)
(* returns for the id in a handle.                                         *)
AnswerCode(j) ==
    CASE slot[idOf[j]] = "ready"  -> 0
      [] slot[idOf[j]] = "open"   -> WOULD_BLOCK
      [] slot[idOf[j]] = "failed" -> IF link = "up" THEN NETWORK_TIMEOUT ELSE NETWORK_CLOSED
      [] OTHER                    -> APP_NOT_FOUND

PendingIsAnError(j) ==   \* faulty: the would-block arm is missing
    handle[j] = "held" /\ got[j] = Nothing

OnlySuccessEnds(j) ==    \* faulty: an error reads as still pending
    handle[j] = "held" /\ got[j] = Nothing /\ AnswerCode(j) = 0

(* The poll yields something: an application that has its answer from the  *)
(* hook does not poll, and none leaves the handle as it is.                *)
Yields(j) ==
    handle[j] = "held" /\ got[j] = Nothing /\ AnswerCode(j) # WOULD_BLOCK

Report(j) ==
    /\ AtHome /\ Yields(j)
    /\ LET rc == AnswerCode(j)
       IN  got' = [got EXCEPT ![j] = Told(IF rc = 0 THEN "response" ELSE FromCode(rc).is,
                                          of[idOf[j]])]
    /\ handle' = [handle EXCEPT ![j] = "done"]
    /\ UNCHANGED <<inC, hook, connVars, given, outcome, fired, idOf>>

(* RequestHandle::poll: the id is retired with what it yields.             *)
Poll(r) == Report(r) /\ Retire({idOf[r]})

(* Stream::response and recv, to the end or to an error.                   *)
Recv(s) == Report(s) /\ UNCHANGED <<slot, of>>

(* The handle goes, and with it what was known of the job.                 *)
Release(j) ==
    /\ AtHome /\ handle[j] \in {"held", "done"}
    /\ handle' = [handle EXCEPT ![j] = "dropped"]
    /\ idOf' = [idOf EXCEPT ![j] = None]
    /\ got' = [got EXCEPT ![j] = Nothing]
    /\ outcome' = [outcome EXCEPT ![j] = "none"]
    /\ fired' = fired \ {j}
    /\ UNCHANGED <<inC, hook, connVars, given>>

CancelsAnyway(r) == TRUE   \* faulty: done is not consulted

(* cancel_inner: a request that is done is not C's any more.               *)
Cancels(r) == handle[r] # "done"

(* RequestHandle::cancel, and its drop.                                    *)
DropHandle(r) ==
    /\ Release(r)
    /\ IF Cancels(r) THEN Retire({idOf[r]}) ELSE UNCHANGED <<slot, of>>

(* Stream's drop closes, whether or not it has ended.                      *)
CloseStream(s) == Release(s) /\ Retire({idOf[s]})

(* Handles and streams borrow the Client: it is dropped after the last.    *)
DropClient ==
    /\ AtHome /\ \A j \in Jobs : handle[j] \notin {"held", "done"}
    /\ own' = "nothing" /\ link' = "none" /\ hook' = FALSE
    /\ Retire(Ids)
    /\ given' = {}
    /\ UNCHANGED <<inC, connects, outcome, fired, jobVars>>

Terminated == own = "nothing" /\ connects = MaxConnects /\ UNCHANGED vars

Next ==
    \/ Connect \/ ConnectPoll \/ GiveUp
    \/ EnterC \/ LeaveC \/ Handshake \/ ConnLost
    \/ \E id \in Ids : Finish(id)
    \/ OnRequestDone \/ DropClient \/ Terminated
    \/ \E j \in Jobs : SubmitRefused(j)
    \/ \E r \in Requests : Submit(r) \/ Poll(r) \/ DropHandle(r)
    \/ \E s \in Streams : OpenStream(s) \/ Recv(s) \/ CloseStream(s)

(***************************************************************************)
(* The loop ticks for ever and polls its handles after each tick; within   *)
(* some tick C concludes a job it has (an answer, a reset, a timeout).     *)
(***************************************************************************)
Fairness ==
    /\ WF_vars(EnterC) /\ WF_vars(LeaveC)
    /\ SF_vars(\E id \in Ids : Finish(id))
    /\ SF_vars((\E r \in Requests : Poll(r)) \/ (\E s \in Streams : Recv(s)))

Spec == Init /\ [][Next]_vars
FairSpec == Spec /\ Fairness

(***************************************************************************)
(* Properties                                                              *)
(***************************************************************************)

(* What a handle reports is an answer or an error of its request, never    *)
(* the would-block of one that is pending; C's limit is kept.              *)
Errors == {"NetworkTimeout", "NetworkClosed", "AppNotFound"}

TypeOK ==
    /\ own \in {"nothing", "connecting", "client"}
    /\ link \in {"none", "handshake", "up", "down"}
    /\ inC \in BOOLEAN /\ hook \in BOOLEAN
    /\ connects \in 0..MaxConnects
    /\ slot \in [Ids -> {"free", "open", "ready", "failed"}]
    /\ of \in [Ids -> Jobs \cup {None}]
    /\ given \subseteq Ids /\ fired \subseteq Requests
    /\ outcome \in [Jobs -> {"none", "ok", "failed"}]
    /\ handle \in [Jobs -> {"none", "held", "done", "dropped"}]
    /\ idOf \in [Jobs -> Ids \cup {None}]
    /\ got \in [Jobs -> [how : {"nothing", "response"} \cup Errors, whose : Jobs \cup {None}]]

(***************************************************************************)
(* C's table is exactly the jobs the application still has a handle on:    *)
(* no id is left behind that nobody will poll, cancel or close, and no     *)
(* handle's poll, cancel or drop retires a request that is not its own,    *)
(* even when the id has been given to another (RequestHandle::cancel_inner *)
(* and Drop, Stream's Drop, client.rs:927-964).  A poll of a handle that   *)
(* is done, which client.rs:922 calls meaningless, is left out.            *)
(***************************************************************************)
Open(j) ==
    \/ handle[j] = "held" /\ j \notin fired
    \/ handle[j] = "done" /\ j \in Streams

TableMatchesHandles ==
    /\ \A j \in Jobs : Open(j) => idOf[j] \in Live /\ of[idOf[j]] = j
    /\ \A id \in Live : Open(of[id]) /\ idOf[of[id]] = id

(***************************************************************************)
(* Whatever the application is told of a request, by a poll or by the      *)
(* hook, is told of that request and is how C concluded it.  The one       *)
(* exception is a hook that panicked over the result: the handle is then   *)
(* told there is no such request (RequestHandle::poll, done_trampoline).   *)
(***************************************************************************)
ToldTheTruth ==
    \A j \in Jobs : got[j] # Nothing =>
        \/ /\ got[j].how = "response" <=> outcome[j] = "ok"
           /\ got[j].whose = j
        \/ j \in fired /\ got[j].how = "AppNotFound"

(***************************************************************************)
(* A handle that is polled gets an end, answer or error, whether the       *)
(* connection lives, dies or the hook takes the completion and panics;     *)
(* unless the application drops it first.                                  *)
(***************************************************************************)
EveryHandleEnds ==
    \A j \in Jobs : (handle[j] = "held") ~> (handle[j] # "held" \/ got[j] # Nothing)

=============================================================================
