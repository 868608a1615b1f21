------------------------------- MODULE Handles -------------------------------
(***************************************************************************)
(* Who frees what, and when: the Rust handles over the C library and the   *)
(* callback boxes C keeps pointers to.  Connecting becomes a Client with a *)
(* request-done hook and a shared Cache (client.rs, cache.rs); a Server    *)
(* owns its handler (server.rs), which may own a LogServer with an append  *)
(* hook over a Log (logserver.rs).                                         *)
(*                                                                         *)
(* One thread.  A call of the Rust API is the sequence of C calls, frees   *)
(* and stores it makes; "todo" is what is left of the calls on the stack,  *)
(* the innermost first.  While a C call runs, C may call back into a hook, *)
(* whose own calls then come first.                                        *)
(*                                                                         *)
(* An operator marked "faulty" is a bug the code does not have; it stands  *)
(* beside the definition it would replace, to test the properties with.    *)
(***************************************************************************)
EXTENDS Naturals, Sequences

CONSTANTS
  Caches,       \* the Rc<Cache> objects of the embedder
  DoneHooks,    \* request-done closures
  AppendHooks,  \* append closures
  None

VARIABLES
  raw,      \* each C object: not made, open, closed
  box,      \* each callback box: not made, live, freed
  cb,       \* the box C holds a pointer to, per object
  own,      \* the box the Rust handle owns, per object
  attached, \* the cache the C client borrows
  kept,     \* the cache in the Client's cell
  holds,    \* the caches the embedder has an Rc of
  stage,    \* each Rust handle: not made, made, dropped
  todo

cbVars == <<cb, own>>
cacheVars == <<attached, kept, holds>>
vars == <<raw, box, cb, own, attached, kept, holds, stage, todo>>

Hooked  == {"client", "server", "logServer"}
Objects == Hooked \cup {"log"} \cup Caches
Boxes   == DoneHooks \cup AppendHooks \cup {"handler"}

(* Objects and boxes are told apart: each is its own allocation.           *)
ASSUME HandlesAssumption ==
  /\ Caches \cap (Hooked \cup {"log"}) = {}
  /\ DoneHooks \cap AppendHooks = {} /\ "handler" \notin DoneHooks \cup AppendHooks
  /\ None \notin Caches \cup Boxes

Step(do, on, what) == [do |-> do, on |-> on, what |-> what]

Init ==
  /\ raw = [o \in Objects |-> "none"]
  /\ box = [b \in Boxes |-> "none"]
  /\ cb = [o \in Hooked |-> None] /\ own = [o \in Hooked |-> None]
  /\ attached = None /\ kept = None /\ holds = {}
  /\ stage = [o \in Hooked |-> "none"]
  /\ todo = <<>>

-----------------------------------------------------------------------------
(* The calls, as the steps they make.                                      *)

Free(b) == IF b = None THEN <<>> ELSE <<Step("free", None, b)>>
Install(o, b) == <<Step("make", None, b), Step("install", o, b), Step("keep", o, b)>>

(* Client::on_request_done: free the previous hook, then install the new.  *)
NeverFreed(h) == Install("client", h)   \* faulty: the previous box is forgotten
OnRequestDone(h) == Free(own["client"]) \o Install("client", h)

(* Client::set_cache: attach in C, which may fail; then hold the new Rc    *)
(* and drop the old one (Attach below).                                    *)
HoldFirst(k) == <<Step("hold", None, k), Step("attach", "client", k)>>   \* faulty: wrong order
SetCache(k) == <<Step("attach", "client", k)>>

(* Drop of a Client: close, free the hook's box, drop the cache's Rc.      *)
FreeThenClose ==   \* faulty: wrong order
  Free(own["client"]) \o <<Step("close", "client", None), Step("hold", None, None)>>
ClientDrop ==
  <<Step("close", "client", None)>> \o Free(own["client"]) \o <<Step("hold", None, None)>>

(* Connecting::into_client forgets the Connecting; its Drop closes.        *)
ConnectingDrop == <<Step("close", "client", None)>>
NotForgotten == ConnectingDrop   \* faulty: the Connecting is dropped as well
IntoClientDrops == <<>>

(* ServerBuilder::finish_build, after the socket is bound.                 *)
FinishBuild == Install("server", "handler")
FreedTwice ==   \* faulty: the half-built Server is dropped as well
  <<Step("free", None, "handler"), Step("close", "server", None), Step("free", None, "handler")>>
BuildFails == <<Step("free", None, "handler"), Step("close", "server", None)>>

(* Drop of a Server: close, then free the handler's box.                   *)
ServerDrop == <<Step("close", "server", None)>> \o Free(own["server"])

(* LogServer::clear_hook takes the hook, unsets it in C and frees it.      *)
ClearHook ==
  IF own["logServer"] = None THEN <<>>
  ELSE <<Step("keep", "logServer", None), Step("install", "logServer", None)>>
         \o Free(own["logServer"])

WrongHandle(h) == ClearHook \o Install("client", h)   \* faulty: set on another handle
OnAppend(h) == ClearHook \o Install("logServer", h)

(* Drop of a LogServer: free the server, clear the hook, drop the Log.     *)
LogServerDrop ==
  <<Step("close", "logServer", None)>> \o ClearHook \o <<Step("close", "log", None)>>

-----------------------------------------------------------------------------
(* The steps.                                                              *)

Now(do) == todo # <<>> /\ Head(todo).do = do
on   == Head(todo).on
what == Head(todo).what
Rest == Tail(todo)

Make ==
  /\ Now("make")
  /\ box' = [box EXCEPT ![what] = "live"]
  /\ todo' = Rest
  /\ UNCHANGED <<raw, cbVars, cacheVars, stage>>

(* nwep_*_set_*: only nwep_server_set_handler is checked for failure.      *)
InstallHook ==
  /\ Now("install")
  /\ \/ cb' = [cb EXCEPT ![on] = what] /\ todo' = Rest /\ UNCHANGED stage
     \/ /\ on = "server"
        /\ todo' = BuildFails
        /\ stage' = [stage EXCEPT !["server"] = "dropped"]
        /\ UNCHANGED cb
  /\ UNCHANGED <<raw, box, own, cacheVars>>

Keep ==
  /\ Now("keep")
  /\ own' = [own EXCEPT ![on] = what]
  /\ todo' = Rest
  /\ UNCHANGED <<raw, box, cb, cacheVars, stage>>

(* Freeing the handler's box drops the LogServer its closure owns.         *)
FreeBox ==
  /\ Now("free")
  /\ box' = [box EXCEPT ![what] = "freed"]
  /\ IF what = "handler" /\ stage["logServer"] = "moved"
     THEN /\ todo' = LogServerDrop \o Rest
          /\ stage' = [stage EXCEPT !["logServer"] = "dropped"]
     ELSE todo' = Rest /\ UNCHANGED stage
  /\ UNCHANGED <<raw, cbVars, cacheVars>>

Close ==
  /\ Now("close")
  /\ raw' = [raw EXCEPT ![on] = "closed"]
  /\ todo' = Rest
  /\ UNCHANGED <<box, cbVars, cacheVars, stage>>

(* The last Rc of a cache frees it.                                        *)
LastRc(k, others) ==
  IF k = None \/ k \in others THEN <<>> ELSE <<Step("close", k, None)>>

(* nwep_client_set_cache; on an error the caller's Rc is dropped unused.   *)
Attach ==
  /\ Now("attach")
  /\ \/ attached' = what /\ todo' = <<Step("hold", None, what)>> \o Rest
     \/ /\ todo' = LastRc(what, holds \cup {kept}) \o Rest
        /\ UNCHANGED attached
  /\ UNCHANGED <<raw, box, cbVars, kept, holds, stage>>

Hold ==
  /\ Now("hold")
  /\ kept' = what
  /\ todo' = LastRc(kept, holds \cup {what}) \o Rest
  /\ UNCHANGED <<raw, box, cbVars, attached, holds, stage>>

(* A C call that only runs callbacks, or a hook, is over.                  *)
Over ==
  /\ Now("run") \/ Now("return")
  /\ todo' = Rest
  /\ UNCHANGED <<raw, box, cbVars, cacheVars, stage>>

-----------------------------------------------------------------------------
(* C calls back.  It may do so inside tick and dispatch, and inside close  *)
(* for what is still pending; it does not enter a hook that is running.    *)

Running(b) == \E n \in DOMAIN todo : todo[n] = Step("return", None, b)
InC(o) == todo # <<>> /\ on = o /\ Head(todo).do \in {"run", "close"} /\ raw[o] = "open"
Return(b) == <<Step("return", None, b)>>

Fire(o, calls) ==
  /\ InC(o)
  /\ cb[o] # None /\ ~Running(cb[o])
  /\ todo' = calls \o Return(cb[o]) \o todo
  /\ UNCHANGED <<raw, box, cbVars, cacheVars, stage>>

(* The hook may use its client, not re-enter its tick.                     *)
RequestDone ==
  \/ Fire("client", <<>>)
  \/ /\ Now("run")
     /\ \/ \E k \in holds \cup {None} : Fire("client", SetCache(k))
        \/ \E h \in DoneHooks : box[h] = "none" /\ Fire("client", OnRequestDone(h))

(* trampoline: the handler may dispatch the request to its LogServer.      *)
HandleRequest ==
  \/ Fire("server", <<>>)
  \/ stage["logServer"] = "moved" /\ Fire("server", <<Step("run", "logServer", None)>>)

EntryAppended == Fire("logServer", <<>>)

-----------------------------------------------------------------------------
(* The embedder's calls.                                                   *)

Call(steps) == todo = <<>> /\ todo' = steps
Becomes(o, from, to) == stage[o] = from /\ stage' = [stage EXCEPT ![o] = to]

Connect ==
  /\ Call(<<>>) /\ Becomes("client", "none", "connecting")
  /\ raw' = [raw EXCEPT !["client"] = "open"]
  /\ UNCHANGED <<box, cbVars, cacheVars>>

IntoClient ==
  /\ Call(IntoClientDrops) /\ Becomes("client", "connecting", "made")
  /\ UNCHANGED <<raw, box, cbVars, cacheVars>>

DropConnecting ==
  /\ Call(ConnectingDrop) /\ Becomes("client", "connecting", "dropped")
  /\ UNCHANGED <<raw, box, cbVars, cacheVars>>

UseClient ==
  /\ stage["client"] = "made"
  /\ \/ Call(<<Step("run", "client", None)>>)
     \/ \E h \in DoneHooks : box[h] = "none" /\ Call(OnRequestDone(h))
  /\ UNCHANGED <<raw, box, cbVars, cacheVars, stage>>

(* The embedder clones its Rc into the call, or moves it.                  *)
ShareCache ==
  /\ stage["client"] = "made"
  /\ \E k \in holds \cup {None} :
       Call(SetCache(k)) /\ holds' \in {holds, holds \ {k}}
  /\ UNCHANGED <<raw, box, cbVars, attached, kept, stage>>

DropClient ==
  /\ Call(ClientDrop) /\ Becomes("client", "made", "dropped")
  /\ UNCHANGED <<raw, box, cbVars, cacheVars>>

NewCache(k) ==
  /\ Call(<<>>) /\ raw[k] = "none"
  /\ raw' = [raw EXCEPT ![k] = "open"] /\ holds' = holds \cup {k}
  /\ UNCHANGED <<box, cbVars, attached, kept, stage>>

DropCache(k) ==
  /\ k \in holds
  /\ Call(LastRc(k, {kept})) /\ holds' = holds \ {k}
  /\ UNCHANGED <<raw, box, cbVars, attached, kept, stage>>

(* A LogServer takes its Log by value; if it cannot be made the Log drops. *)
NewLogServer ==
  /\ \/ /\ Call(<<>>) /\ Becomes("logServer", "none", "made")
        /\ raw' = [raw EXCEPT !["logServer"] = "open", !["log"] = "open"]
     \/ /\ Call(<<Step("close", "log", None)>>) /\ Becomes("logServer", "none", "dropped")
        /\ raw' = [raw EXCEPT !["log"] = "open"]
  /\ UNCHANGED <<box, cbVars, cacheVars>>

UseLogServer ==
  /\ stage["logServer"] = "made"
  /\ \/ Call(<<Step("run", "logServer", None)>>)
     \/ \E h \in AppendHooks : box[h] = "none" /\ Call(OnAppend(h))
  /\ UNCHANGED <<raw, box, cbVars, cacheVars, stage>>

DropLogServer ==
  /\ Call(LogServerDrop) /\ Becomes("logServer", "made", "dropped")
  /\ UNCHANGED <<raw, box, cbVars, cacheVars>>

(* The handler given to the builder may own the LogServer.                 *)
BuildServer ==
  /\ Call(FinishBuild)
  /\ \/ Becomes("server", "none", "made")
     \/ /\ stage["server"] = "none" /\ stage["logServer"] = "made"
        /\ stage' = [stage EXCEPT !["server"] = "made", !["logServer"] = "moved"]
  /\ raw' = [raw EXCEPT !["server"] = "open"]
  /\ UNCHANGED <<box, cbVars, cacheVars>>

(* The socket cannot be bound: the builder drops the closure.              *)
BindFails ==
  /\ stage["server"] = "none" /\ stage["logServer"] = "made"
  /\ Call(LogServerDrop)
  /\ stage' = [stage EXCEPT !["server"] = "dropped", !["logServer"] = "dropped"]
  /\ UNCHANGED <<raw, box, cbVars, cacheVars>>

TickServer ==
  /\ stage["server"] = "made"
  /\ Call(<<Step("run", "server", None)>>)
  /\ UNCHANGED <<raw, box, cbVars, cacheVars, stage>>

DropServer ==
  /\ Call(ServerDrop) /\ Becomes("server", "made", "dropped")
  /\ UNCHANGED <<raw, box, cbVars, cacheVars>>

-----------------------------------------------------------------------------
Steps == Make \/ InstallHook \/ Keep \/ FreeBox \/ Close \/ Attach \/ Hold \/ Over

Callbacks == RequestDone \/ HandleRequest \/ EntryAppended

Calls ==
  \/ Connect \/ IntoClient \/ DropConnecting \/ UseClient \/ ShareCache \/ DropClient
  \/ \E k \in Caches : NewCache(k) \/ DropCache(k)
  \/ NewLogServer \/ UseLogServer \/ DropLogServer
  \/ BuildServer \/ BindFails \/ TickServer \/ DropServer

AllGone == todo = <<>> /\ holds = {} /\ \A o \in Hooked : stage[o] \in {"none", "dropped"}

Terminated == AllGone /\ UNCHANGED vars

Next == Steps \/ Callbacks \/ Calls \/ Terminated

Spec == Init /\ [][Next]_vars

-----------------------------------------------------------------------------
(* Properties.                                                             *)

TypeOK ==
  /\ raw \in [Objects -> {"none", "open", "closed"}]
  /\ box \in [Boxes -> {"none", "live", "freed"}]
  /\ {cb["client"], own["client"]} \subseteq DoneHooks \cup {None}
  /\ {cb["server"], own["server"]} \subseteq {"handler", None}
  /\ {cb["logServer"], own["logServer"]} \subseteq AppendHooks \cup {None}
  /\ attached \in Caches \cup {None} /\ kept \in Caches \cup {None}
  /\ holds \subseteq Caches
  /\ \A o \in Hooked : stage[o] \in {"none", "connecting", "made", "moved", "dropped"}

(* The C calls: the next one is made on an object that is open.            *)
CCalls == {"install", "attach", "close", "run"}
CallsOpen(objects) ==
  todo # <<>> /\ Head(todo).do \in CCalls /\ on \in objects => raw[on] = "open"

(* No handle but the log server's is used or closed after it was closed    *)
(* (client.rs:809-896, server.rs:794-823, 1219-1229, cache.rs:140-145).    *)
HandlesOpen == CallsOpen(Objects \ {"logServer"})

(* Whenever C may call back, the box it would enter is live: handles are   *)
(* closed before their boxes are freed (client.rs:811-819,                 *)
(* server.rs:1221-1227, logserver.rs:122-140).                             *)
CallbacksLive == \A o \in Hooked : InC(o) /\ cb[o] # None => box[cb[o]] = "live"

(* While the C client is open and in use, the cache it borrows is too, and *)
(* so is the log behind an open log server (client.rs:475-492,             *)
(* logserver.rs:37-39).                                                    *)
BorrowsLive ==
  /\ InC("client") /\ attached # None => raw[attached] = "open"
  /\ raw["logServer"] = "open" => raw["log"] = "open"

(* A box is freed once (client.rs:500-513, 816-819, logserver.rs:122-130). *)
FreedOnce == Now("free") => box[what] = "live"

(* With every handle dropped nothing is left behind: no open C object, no  *)
(* live box, whatever failed on the way.                                   *)
NothingLeaks ==
  AllGone => /\ \A o \in Objects : raw[o] # "open"
             /\ \A b \in Boxes : box[b] # "live"

(* What a comment claims, and the code does not keep.                      *)

(* "SAFETY: all pointers are valid" of set_on_append in clear_hook         *)
(* (logserver.rs:124).                                                     *)
LogServerOpen == CallsOpen({"logServer"})
=============================================================================
