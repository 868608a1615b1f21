--------------------------- MODULE RequestService ---------------------------
(***************************************************************************)
(* What a managed client or server promises the callers of its handle,     *)
(* with no thread, channel, wakeup or stream in sight: each call is        *)
(* answered at most once, with the response to that very request or with   *)
(* an error; after the service goes down nothing but NetworkClosed is      *)
(* answered; and every call that is not abandoned returns (AsyncClient and *)
(* RunningServer, src/nwep/src/runtime.rs).                                *)
(***************************************************************************)
EXTENDS Naturals

CONSTANTS Requests, NoRequest

VARIABLES
  status,   \* where each call is
  answer,   \* how it was answered
  from,     \* the request whose response it got
  up        \* the connection is served

svars == <<status, answer, from, up>>

Unanswered == {r \in Requests : answer[r] = "unsent"}

SInit ==
  /\ status = [r \in Requests |-> "idle"]
  /\ answer = [r \in Requests |-> "unsent"]
  /\ from = [r \in Requests |-> NoRequest]
  /\ up = TRUE

Call(r) ==
  /\ status[r] = "idle"
  /\ status' = [status EXCEPT ![r] = "called"]
  /\ UNCHANGED <<answer, from, up>>

(* An abandoned call may still be served: nobody tells the owner.          *)
Serve(r) ==
  /\ up
  /\ status[r] \in {"called", "cancelled"}
  /\ answer[r] = "unsent"
  /\ \/ /\ answer' = [answer EXCEPT ![r] = "response"]
        /\ from' = [from EXCEPT ![r] = r]
     \/ /\ \E how \in {"failed", "rejected"} : answer' = [answer EXCEPT ![r] = how]
        /\ UNCHANGED from
  /\ UNCHANGED <<status, up>>

(* Going down, and each later step of the teardown, closes some calls.     *)
Close ==
  /\ up' = FALSE
  /\ \E S \in SUBSET Unanswered :
       answer' = [r \in Requests |-> IF r \in S THEN "closed" ELSE answer[r]]
  /\ UNCHANGED <<status, from>>

(* A call on a service that is down, or that does not offer the operation, *)
(* returns at once.                                                        *)
Refuse(r) ==
  /\ status[r] = "called"
  /\ answer[r] = "unsent"
  /\ \/ ~up /\ answer' = [answer EXCEPT ![r] = "closed"]
     \/ answer' = [answer EXCEPT ![r] = "rejected"]
  /\ status' = [status EXCEPT ![r] = "returned"]
  /\ UNCHANGED <<from, up>>

Finish(r) ==
  /\ status[r] = "called"
  /\ \/ answer[r] # "unsent" /\ status' = [status EXCEPT ![r] = "returned"]
     \/ status' = [status EXCEPT ![r] = "cancelled"]
  /\ UNCHANGED <<answer, from, up>>

SNext == Close \/ \E r \in Requests : Call(r) \/ Serve(r) \/ Refuse(r) \/ Finish(r)

Returns == \A r \in Requests : (status[r] = "called") ~> (status[r] # "called")

SSpec == SInit /\ [][SNext]_svars /\ Returns
=============================================================================
