---------------------------- MODULE HandlesProofs ----------------------------
(***************************************************************************)
(* Every C handle is closed once and before the box its callbacks enter is *)
(* freed, every box is freed once, and nothing is left: for any number of  *)
(* caches and hooks, and wherever a callback cuts in.                      *)
(*                                                                         *)
(* What a box or an object may be depends on what the calls under way have *)
(* still to do to it.  The invariant says for each stack of steps that the *)
(* calls can leave in todo what is true when it is there: of the client    *)
(* and the caches (ClientBusy), or of the server and the log server        *)
(* (ServerBusy), while the other half is quiet.                            *)
(***************************************************************************)
EXTENDS Handles, SequenceTheorems, TLAPS

(* A stack, from the top.                                                  *)
Push(s, t) == <<s>> \o t

Makes(b)       == Step("make", None, b)
Installs(o, b) == Step("install", o, b)
Keeps(o, b)    == Step("keep", o, b)
Frees(b)       == Step("free", None, b)
Closes(o)      == Step("close", o, None)
Attaches(k)    == Step("attach", "client", k)
Holds(k)       == Step("hold", None, k)
Runs(o)        == Step("run", o, None)
Returns(b)     == Step("return", None, b)

-----------------------------------------------------------------------------
(* The client, its hooks and the caches.                                   *)

DoneLive(L) == \A h \in DoneHooks : box[h] = "live" <=> h \in L
Shared(K) == \A k \in Caches : raw[k] = "open" <=> k \in K
Holders == holds \cup {kept}

Unmade ==
  /\ \/ stage["client"] = "none" /\ raw["client"] = "none"
     \/ stage["client"] = "connecting" /\ raw["client"] = "open"
  /\ cb["client"] = None /\ own["client"] = None /\ attached = None /\ kept = None
  /\ DoneLive({})
InUse == stage["client"] = "made" /\ raw["client"] = "open"
Hooking == cb["client"] = own["client"] /\ DoneLive({own["client"]})
Made == InUse /\ Hooking /\ attached = kept
Gone == stage["client"] = "dropped" /\ raw["client"] = "closed" /\ DoneLive({}) /\ kept = None

ClientQuiet == (Unmade \/ Made \/ Gone) /\ Shared(Holders)

(* A hook of the client is entered from its tick.                          *)
Tick == Push(Runs("client"), <<>>)
Afters == {<<>>} \cup {Push(Returns(b), Tick) : b \in DoneHooks}

Ticking == Made /\ Shared(Holders) /\ todo \in {Tick} \cup (Afters \ {<<>>})

Replacing ==
  /\ InUse /\ attached = kept /\ Shared(Holders)
  /\ \E t \in Afters, h \in DoneHooks :
       LET keep == Push(Keeps("client", h), t)
           install == Push(Installs("client", h), keep)
           make == Push(Makes(h), install)
       IN \/ \E b \in DoneHooks : todo = Push(Frees(b), make) /\ DoneLive({b})
          \/ todo = make /\ DoneLive({})
          \/ todo = install /\ DoneLive({h})
          \/ todo = keep /\ DoneLive({h}) /\ cb["client"] = h

Caching ==
  /\ InUse /\ Hooking
  /\ \E t \in Afters, k \in Caches \cup {None} :
       /\ Shared(Holders \cup {k})
       /\ \/ todo = Push(Attaches(k), t) /\ attached = kept
          \/ todo = Push(Holds(k), t) /\ attached = k

Uncaching ==
  \E t \in Afters, k \in Caches \ Holders :
    /\ todo = Push(Closes(k), t)
    /\ Made \/ (t = <<>> /\ (Unmade \/ Gone))
    /\ Shared(Holders \cup {k})

Unhold == Push(Holds(None), <<>>)
Leaving ==
  /\ stage["client"] = "dropped" /\ Shared(Holders)
  /\ \/ /\ raw["client"] = "open" /\ Hooking /\ attached = kept
        /\ \E free \in {Unhold} \cup {Push(Frees(b), Unhold) : b \in DoneHooks} :
             /\ free = IF own["client"] = None THEN Unhold ELSE Push(Frees(own["client"]), Unhold)
             /\ \/ todo = Push(Closes("client"), free)
                \/ \E b \in DoneHooks : todo = Push(Returns(b), Push(Closes("client"), free))
     \/ /\ raw["client"] = "closed"
        /\ \/ \E b \in DoneHooks : todo = Push(Frees(b), Unhold) /\ DoneLive({b})
           \/ todo = Unhold /\ DoneLive({})
     \/ /\ raw["client"] = "open" /\ todo = Push(Closes("client"), <<>>)
        /\ cb["client"] = None /\ attached = None /\ kept = None /\ DoneLive({})

ClientBusy == Ticking \/ Replacing \/ Caching \/ Uncaching \/ Leaving

-----------------------------------------------------------------------------
(* The log server and its hooks.                                           *)

AppendLive(L) == \A a \in AppendHooks : box[a] = "live" <=> a \in L
LogOpen == raw["logServer"] = "open" /\ raw["log"] = "open"
LogShut == raw["logServer"] # "open" /\ raw["log"] # "open"
LogHooking == cb["logServer"] = own["logServer"] /\ AppendLive({own["logServer"]})

LogQuiet ==
  \/ /\ stage["logServer"] = "none" /\ LogShut
     /\ cb["logServer"] = None /\ own["logServer"] = None /\ AppendLive({})
  \/ stage["logServer"] \in {"made", "moved"} /\ LogOpen /\ LogHooking
  \/ stage["logServer"] = "dropped" /\ LogShut /\ AppendLive({})

(* The server and its handler.                                             *)
Closure == box["handler"] = "live"
Up == raw["server"] = "open" /\ cb["server"] = "handler" /\ Closure

ServerIdle ==
  \/ /\ stage["server"] = "none" /\ raw["server"] # "open" /\ ~Closure
     /\ cb["server"] = None /\ own["server"] = None
  \/ stage["server"] = "made" /\ Up /\ own["server"] = "handler"
  \/ stage["server"] = "dropped" /\ raw["server"] # "open" /\ ~Closure

ServerQuiet ==
  /\ ServerIdle /\ LogQuiet
  /\ stage["logServer"] = "moved" => stage["server"] = "made"

(* The handler is entered from tick and from close, and may dispatch to    *)
(* its log server, whose hook is entered in turn.                          *)
Serve == Push(Runs("server"), <<>>)
Shut == Push(Closes("server"), Push(Frees("handler"), <<>>))
Handling ==
  /\ Up /\ own["server"] = "handler" /\ LogQuiet
  /\ \E t \in {Serve, Shut} :
       LET handler == Push(Returns("handler"), t)
           dispatch == Push(Runs("logServer"), handler)
       IN /\ stage["server"] = IF t = Serve THEN "made" ELSE "dropped"
          /\ \/ todo \in {t, handler}
             \/ /\ stage["logServer"] = "moved"
                /\ \/ todo = dispatch
                   \/ \E a \in AppendHooks : todo = Push(Returns(a), dispatch)

Building ==
  /\ stage["server"] = "made" /\ raw["server"] = "open" /\ LogQuiet
  /\ LET keep == Push(Keeps("server", "handler"), <<>>)
         install == Push(Installs("server", "handler"), keep)
     IN \/ todo = Push(Makes("handler"), install) /\ ~Closure /\ cb["server"] = None
        \/ todo = install /\ Closure /\ cb["server"] = None
        \/ todo = keep /\ Closure /\ cb["server"] = "handler"

(* The closure is dropped, and the log server with it if it has it: after  *)
(* the server was closed, or before when the build fails.                  *)
Unbound == stage["server"] = "dropped" /\ raw["server"] = "open" /\ cb["server"] = None
Discarding ==
  /\ LogQuiet /\ Closure
  /\ \/ /\ stage["server"] = "dropped" /\ raw["server"] = "closed"
        /\ todo = Push(Frees("handler"), <<>>)
     \/ Unbound /\ todo = Push(Frees("handler"), Push(Closes("server"), <<>>))

Then(t) ==
  \/ t = <<>> /\ ServerIdle
  \/ t = Push(Closes("server"), <<>>) /\ Unbound /\ ~Closure
Rests == {<<>>, Push(Closes("server"), <<>>)}

Logging ==
  /\ ServerIdle /\ stage["logServer"] = "made" /\ LogOpen /\ LogHooking
  /\ LET run == Push(Runs("logServer"), <<>>)
     IN todo = run \/ \E a \in AppendHooks : todo = Push(Returns(a), run)

Appending ==
  /\ ServerIdle /\ stage["logServer"] = "made" /\ LogOpen
  /\ \E h \in AppendHooks :
       LET keep == Push(Keeps("logServer", h), <<>>)
           install == Push(Installs("logServer", h), keep)
           make == Push(Makes(h), install)
       IN \/ \E a \in AppendHooks :
               LET free == Push(Frees(a), make)
                   unset == Push(Installs("logServer", None), free)
               IN todo \in {free, unset, Push(Keeps("logServer", None), unset)} /\ AppendLive({a})
          \/ todo = make /\ AppendLive({})
          \/ todo = install /\ AppendLive({h})
          \/ todo = keep /\ AppendLive({h}) /\ cb["logServer"] = h

Unlogging ==
  /\ stage["logServer"] = "dropped" /\ raw["log"] = "open"
  /\ \E t \in Rests :
       LET close == Push(Closes("log"), t)
       IN /\ Then(t)
          /\ \/ \E a \in AppendHooks :
                  LET free == Push(Frees(a), close)
                      unset == Push(Installs("logServer", None), free)
                      clear == Push(Keeps("logServer", None), unset)
                      all == Push(Closes("logServer"), clear)
                  IN /\ AppendLive({a})
                     /\ \/ todo \in {free, unset, clear} /\ raw["logServer"] # "open"
                        \/ /\ cb["logServer"] = a /\ raw["logServer"] = "open"
                           /\ todo = all \/ \E b \in AppendHooks : todo = Push(Returns(b), all)
             \/ /\ AppendLive({})
                /\ \/ todo = close /\ raw["logServer"] # "open"
                   \/ /\ todo = Push(Closes("logServer"), close)
                      /\ cb["logServer"] = None /\ raw["logServer"] = "open"

Unserving == LogQuiet /\ stage["logServer"] # "moved" /\ Then(todo) /\ todo # <<>>

ServerBusy ==
  Handling \/ Building \/ Discarding \/ Logging \/ Appending \/ Unlogging \/ Unserving

-----------------------------------------------------------------------------
Typed ==
  /\ TypeOK
  /\ cb \in [Hooked -> Boxes \cup {None}] /\ own \in [Hooked -> Boxes \cup {None}]
  /\ stage \in [Hooked -> {"none", "connecting", "made", "moved", "dropped"}]

ClientHalf == (todo = <<>> /\ ClientQuiet) \/ ClientBusy
ServerHalf == (todo = <<>> /\ ServerQuiet) \/ ServerBusy

IInv == Typed /\ ((ClientHalf /\ ServerQuiet) \/ (ClientQuiet /\ ServerHalf))

-----------------------------------------------------------------------------
(* Stacks.                                                                 *)
Verbs == {"make", "install", "keep", "free", "close", "attach", "hold", "run", "return"}
Moves == [do : Verbs, on : Objects \cup {None}, what : Boxes \cup Caches \cup {None}]
Stacks == Seq(Moves)

LEMMA Top ==
    ASSUME NEW s \in Moves, NEW t \in Stacks
    PROVE  /\ Push(s, t) \in Stacks /\ Push(s, t) # <<>>
           /\ Head(Push(s, t)) = s /\ Tail(Push(s, t)) = t
<1>1. /\ <<s>> \in Stacks /\ Len(<<s>>) = 1 /\ <<s>>[1] = s
  BY DEF Stacks
<1>2. /\ Push(s, t) \in Stacks /\ Len(Push(s, t)) = Len(t) + 1
      /\ \A i \in 1..(Len(t) + 1) : Push(s, t)[i] = IF i <= 1 THEN <<s>>[i] ELSE t[i - 1]
  BY <1>1, ConcatProperties DEF Push, Stacks
<1>3. Len(t) \in Nat
  BY LenProperties DEF Stacks
<1>4. Push(s, t) # <<>> /\ Head(Push(s, t)) = s
  BY <1>1, <1>2, <1>3 DEF Stacks
<1>5. /\ Tail(Push(s, t)) \in Stacks /\ Len(Tail(Push(s, t))) = Len(t)
      /\ \A i \in 1..Len(t) : Tail(Push(s, t))[i] = t[i]
  BY <1>1, <1>2, <1>3, <1>4, HeadTailProperties DEF Stacks
<1>. QED  BY <1>2, <1>4, <1>5, SeqEqual DEF Stacks

LEMMA Listed ==
    ASSUME NEW a \in Moves, NEW b \in Moves, NEW d \in Moves
    PROVE  /\ <<a>> = Push(a, <<>>)
           /\ <<a, b>> = Push(a, Push(b, <<>>))
           /\ <<a, b, d>> = Push(a, Push(b, Push(d, <<>>)))
<1>1. <<>> \in Stacks /\ <<a>> \in Stacks /\ <<b>> \in Stacks /\ <<d>> \in Stacks
  BY DEF Stacks
<1>2. <<a>> = Push(a, <<>>) /\ <<d>> = Push(d, <<>>) /\ <<b>> = Push(b, <<>>)
  BY <1>1, ConcatEmptySeq DEF Push, Stacks
<1>3. \A x, y \in Moves : <<x, y>> = <<x>> \o <<y>>
  <2> SUFFICES ASSUME NEW x \in Moves, NEW y \in Moves PROVE <<x, y>> = <<x>> \o <<y>>
      OBVIOUS
  <2>1. <<x>> \in Seq(Moves) /\ <<y>> \in Seq(Moves) /\ <<x, y>> \in Seq(Moves)
    OBVIOUS
  <2>2. Len(<<x, y>>) = 2 /\ <<x, y>>[1] = x /\ <<x, y>>[2] = y
    OBVIOUS
  <2>3. /\ <<x>> \o <<y>> \in Seq(Moves) /\ Len(<<x>> \o <<y>>) = 2
        /\ (<<x>> \o <<y>>)[1] = x /\ (<<x>> \o <<y>>)[2] = y
    BY <2>1, ConcatProperties
  <2>4. \A i \in 1..2 : <<x, y>>[i] = (<<x>> \o <<y>>)[i]
    <3>1. \A i \in 1..2 : i = 1 \/ i = 2
      OBVIOUS
    <3>. QED  BY <2>2, <2>3, <3>1, Zenon
  <2>. QED  BY <2>1, <2>2, <2>3, <2>4, SeqEqual, Zenon
<1>4. <<a, b, d>> = <<a>> \o <<b, d>>
  BY DEF Stacks
<1>. QED  BY <1>2, <1>3, <1>4 DEF Push

Cat(s, t) == s \o t

LEMMA Prepended ==
    /\ <<>> \in Stacks
    /\ \A t \in Stacks : Cat(<<>>, t) = t /\ Cat(t, <<>>) = t
    /\ \A a \in Moves : <<a>> \in Stacks
    /\ \A a \in Moves, t \in Stacks : Cat(<<a>>, t) = Push(a, t) /\ Push(a, t) \in Stacks
    /\ \A s, t \in Stacks : Cat(s, t) \in Stacks
    /\ \A s, t, u \in Stacks : Cat(Cat(s, t), u) = Cat(s, Cat(t, u))
<1>1. <<>> \in Stacks /\ \A a \in Moves : <<a>> \in Stacks
  BY DEF Stacks
<1>2. \A a \in Moves, t \in Stacks : Cat(<<a>>, t) = Push(a, t) /\ Push(a, t) \in Stacks
  BY Top DEF Cat, Push
<1>. QED  BY <1>1, <1>2, ConcatEmptySeq, ConcatAssociative, ConcatProperties DEF Stacks, Cat

LEMMA PushCat ==
    \A a \in Moves, s, t \in Stacks : Cat(Push(a, s), t) = Push(a, Cat(s, t))
<1> SUFFICES ASSUME NEW a \in Moves, NEW s \in Stacks, NEW t \in Stacks
             PROVE  Cat(Push(a, s), t) = Push(a, Cat(s, t))
    OBVIOUS
<1>1. Push(a, s) = Cat(<<a>>, s) /\ Push(a, Cat(s, t)) = Cat(<<a>>, Cat(s, t))
  BY Prepended
<1>. QED  BY <1>1, Prepended

LEMMA Rows ==
    ASSUME NEW a \in Moves, NEW b \in Moves, NEW d \in Moves, NEW t \in Stacks
    PROVE  /\ Cat(Push(a, <<>>), t) = Push(a, t)
           /\ Cat(Push(a, Push(b, <<>>)), t) = Push(a, Push(b, t))
           /\ Cat(Push(a, Push(b, Push(d, <<>>))), t) = Push(a, Push(b, Push(d, t)))
           /\ Push(a, Push(b, <<>>)) \in Stacks
           /\ Push(a, Push(b, Push(d, <<>>))) \in Stacks
<1>1. <<>> \in Stacks /\ Cat(<<>>, t) = t
  BY Prepended
<1>2. Push(d, <<>>) \in Stacks /\ Push(b, <<>>) \in Stacks
  BY <1>1, Prepended
<1>3. Push(b, Push(d, <<>>)) \in Stacks /\ Push(a, Push(b, <<>>)) \in Stacks
  BY <1>2, Prepended
<1>4. \A e \in Moves : Cat(Push(e, <<>>), t) = Push(e, t)
  BY <1>1, PushCat
<1>5. \A e, f \in Moves : Cat(Push(e, Push(f, <<>>)), t) = Push(e, Push(f, t))
  <2> SUFFICES ASSUME NEW e \in Moves, NEW f \in Moves
               PROVE  Cat(Push(e, Push(f, <<>>)), t) = Push(e, Push(f, t))
      OBVIOUS
  <2>1. Push(f, <<>>) \in Stacks
    BY <1>1, Prepended
  <2>2. Cat(Push(e, Push(f, <<>>)), t) = Push(e, Cat(Push(f, <<>>), t))
    BY <2>1, PushCat
  <2>. QED  BY <1>4, <2>2
<1>6. Cat(Push(a, Push(b, Push(d, <<>>))), t) = Push(a, Cat(Push(b, Push(d, <<>>)), t))
  BY <1>3, PushCat
<1>. QED  BY <1>3, <1>4, <1>5, <1>6, Prepended

LEMMA Constructors ==
    /\ \A b \in Boxes : Makes(b) \in Moves /\ Frees(b) \in Moves /\ Returns(b) \in Moves
    /\ \A o \in Hooked, b \in Boxes \cup {None} : Installs(o, b) \in Moves /\ Keeps(o, b) \in Moves
    /\ \A o \in Objects : Closes(o) \in Moves /\ Runs(o) \in Moves
    /\ \A k \in Caches \cup {None} : Attaches(k) \in Moves /\ Holds(k) \in Moves
BY DEF Moves, Verbs, Objects, Hooked, Step, Makes, Frees, Returns, Installs, Keeps, Closes, Runs,
       Attaches, Holds

(* The pieces the calls are put together from.                             *)
LEMMA Stacked ==
    ASSUME NEW t \in Stacks
    PROVE  /\ \A o \in Hooked, b \in Boxes :
                /\ Install(o, b) \in Stacks
                /\ Cat(Install(o, b), t)
                     = Push(Makes(b), Push(Installs(o, b), Push(Keeps(o, b), t)))
           /\ \A b \in Boxes : Free(b) \in Stacks /\ Cat(Free(b), t) = Push(Frees(b), t)
           /\ Free(None) = <<>>
<1>1. ASSUME NEW o \in Hooked, NEW b \in Boxes
      PROVE  /\ Install(o, b) \in Stacks
             /\ Cat(Install(o, b), t)
                  = Push(Makes(b), Push(Installs(o, b), Push(Keeps(o, b), t)))
  <2>1. Makes(b) \in Moves /\ Installs(o, b) \in Moves /\ Keeps(o, b) \in Moves
    BY Constructors
  <2>2. Install(o, b) = Push(Makes(b), Push(Installs(o, b), Push(Keeps(o, b), <<>>)))
    BY <2>1, Listed DEF Install, Makes, Installs, Keeps
  <2>. QED  BY <2>1, <2>2, Rows
<1>2. \A b \in Boxes : Free(b) = <<Frees(b)>>
  BY HandlesAssumption DEF Free, Frees
<1>3. \A b \in Boxes : Frees(b) \in Moves
  BY Constructors
<1>. QED  BY <1>1, <1>2, <1>3, Prepended DEF Free

-----------------------------------------------------------------------------
(* With steps left nothing but the next one runs, or a hook C calls.       *)
LEMMA Busy ==
    ASSUME [Next]_vars, NEW s \in Moves, NEW t \in Stacks, todo = Push(s, t)
    PROVE  /\ UNCHANGED vars \/ Steps \/ Callbacks
           /\ todo # <<>> /\ on = s.on /\ what = s.what /\ Rest = t /\ Head(todo).do = s.do
           /\ todo \in Stacks
<1>1. /\ todo # <<>> /\ on = s.on /\ what = s.what /\ Rest = t /\ Head(todo).do = s.do
      /\ todo \in Stacks
  BY Top DEF on, what, Rest
<1>2. ~Calls /\ ~Terminated
  BY <1>1 DEF Calls, Call, Connect, IntoClient, DropConnecting, UseClient, ShareCache, DropClient,
       NewCache, DropCache, NewLogServer, UseLogServer, DropLogServer, BuildServer, BindFails,
       TickServer, DropServer, Terminated, AllGone
<1>. QED  BY <1>1, <1>2 DEF Next

LEMMA Quietly ==
    ASSUME [Next]_vars, NEW s \in Moves, NEW t \in Stacks, todo = Push(s, t),
           s.do \notin {"run", "close"}
    PROVE  ~Callbacks
BY Busy DEF Callbacks, RequestDone, HandleRequest, EntryAppended, Fire, InC, Now

LEMMA Making ==
    ASSUME [Next]_vars, NEW b \in Boxes, NEW t \in Stacks, todo = Push(Makes(b), t)
    PROVE  \/ UNCHANGED vars
           \/ /\ box' = [box EXCEPT ![b] = "live"] /\ todo' = t
              /\ UNCHANGED <<raw, cb, own, attached, kept, holds, stage>>
<1>1. Makes(b) \in Moves /\ Makes(b).do = "make" /\ Makes(b).what = b
  BY Constructors DEF Makes, Step
<1>2. (UNCHANGED vars \/ Steps) /\ Head(todo).do = "make" /\ what = b /\ Rest = t
  BY <1>1, Busy, Quietly
<1>. QED  BY <1>2 DEF Steps, Now, Make, InstallHook, Keep, FreeBox, Close, Attach, Hold, Over,
                      cbVars, cacheVars

LEMMA Installing ==
    ASSUME [Next]_vars, NEW o \in Hooked, NEW b \in Boxes \cup {None}, NEW t \in Stacks,
           todo = Push(Installs(o, b), t)
    PROVE  \/ UNCHANGED vars
           \/ /\ cb' = [cb EXCEPT ![o] = b] /\ todo' = t
              /\ UNCHANGED <<raw, box, own, attached, kept, holds, stage>>
           \/ /\ o = "server" /\ todo' = Push(Frees("handler"), Push(Closes("server"), <<>>))
              /\ stage' = [stage EXCEPT !["server"] = "dropped"]
              /\ UNCHANGED <<raw, box, cb, own, attached, kept, holds>>
<1>1. /\ Installs(o, b) \in Moves /\ Installs(o, b).do = "install"
      /\ Installs(o, b).on = o /\ Installs(o, b).what = b
  BY Constructors DEF Installs, Step
<1>2. (UNCHANGED vars \/ Steps) /\ Head(todo).do = "install" /\ on = o /\ what = b /\ Rest = t
  BY <1>1, Busy, Quietly
<1>3. BuildFails = Push(Frees("handler"), Push(Closes("server"), <<>>))
  BY Constructors, Listed DEF BuildFails, Frees, Closes, Boxes, Objects, Hooked
<1>. QED  BY <1>2, <1>3 DEF Steps, Now, Make, InstallHook, Keep, FreeBox, Close, Attach, Hold, Over,
                      cbVars, cacheVars

LEMMA Keeping ==
    ASSUME [Next]_vars, NEW o \in Hooked, NEW b \in Boxes \cup {None}, NEW t \in Stacks,
           todo = Push(Keeps(o, b), t)
    PROVE  \/ UNCHANGED vars
           \/ /\ own' = [own EXCEPT ![o] = b] /\ todo' = t
              /\ UNCHANGED <<raw, box, cb, attached, kept, holds, stage>>
<1>1. /\ Keeps(o, b) \in Moves /\ Keeps(o, b).do = "keep"
      /\ Keeps(o, b).on = o /\ Keeps(o, b).what = b
  BY Constructors DEF Keeps, Step
<1>2. (UNCHANGED vars \/ Steps) /\ Head(todo).do = "keep" /\ on = o /\ what = b /\ Rest = t
  BY <1>1, Busy, Quietly
<1>. QED  BY <1>2 DEF Steps, Now, Make, InstallHook, Keep, FreeBox, Close, Attach, Hold, Over,
                      cbVars, cacheVars

LEMMA Attaching ==
    ASSUME [Next]_vars, NEW k \in Caches \cup {None}, NEW t \in Stacks, todo = Push(Attaches(k), t)
    PROVE  \/ UNCHANGED vars
           \/ /\ attached' = k /\ todo' = Push(Holds(k), t)
              /\ UNCHANGED <<raw, box, cb, own, kept, holds, stage>>
           \/ /\ todo' = Cat(LastRc(k, holds \cup {kept}), t)
              /\ UNCHANGED <<raw, box, cb, own, attached, kept, holds, stage>>
<1>1. Attaches(k) \in Moves /\ Attaches(k).do = "attach" /\ Attaches(k).what = k
  BY Constructors DEF Attaches, Step
<1>2. (UNCHANGED vars \/ Steps) /\ Head(todo).do = "attach" /\ what = k /\ Rest = t
  BY <1>1, Busy, Quietly
<1>3. <<Step("hold", None, k)>> \o t = Push(Holds(k), t)
  BY DEF Push, Holds
<1>. QED  BY <1>2, <1>3 DEF Cat, Steps, Now, Make, InstallHook, Keep, FreeBox, Close, Attach, Hold, Over,
                      cbVars, cacheVars

LEMMA Holding ==
    ASSUME [Next]_vars, NEW k \in Caches \cup {None}, NEW t \in Stacks, todo = Push(Holds(k), t)
    PROVE  \/ UNCHANGED vars
           \/ /\ kept' = k /\ todo' = Cat(LastRc(kept, holds \cup {k}), t)
              /\ UNCHANGED <<raw, box, cb, own, attached, holds, stage>>
<1>1. Holds(k) \in Moves /\ Holds(k).do = "hold" /\ Holds(k).what = k
  BY Constructors DEF Holds, Step
<1>2. (UNCHANGED vars \/ Steps) /\ Head(todo).do = "hold" /\ what = k /\ Rest = t
  BY <1>1, Busy, Quietly
<1>. QED  BY <1>2 DEF Cat, Steps, Now, Make, InstallHook, Keep, FreeBox, Close, Attach, Hold, Over,
                      cbVars, cacheVars

LEMMA Returning ==
    ASSUME [Next]_vars, NEW b \in Boxes, NEW t \in Stacks, todo = Push(Returns(b), t)
    PROVE  \/ UNCHANGED vars
           \/ todo' = t /\ UNCHANGED <<raw, box, cb, own, attached, kept, holds, stage>>
<1>1. Returns(b) \in Moves /\ Returns(b).do = "return"
  BY Constructors DEF Returns, Step
<1>2. (UNCHANGED vars \/ Steps) /\ Head(todo).do = "return" /\ Rest = t
  BY <1>1, Busy, Quietly
<1>. QED  BY <1>2 DEF Steps, Now, Make, InstallHook, Keep, FreeBox, Close, Attach, Hold, Over,
                      cbVars, cacheVars

(* A box is freed; the handler's takes its log server along.               *)
Clearing(t) ==
  IF own["logServer"] = None THEN t
  ELSE Push(Keeps("logServer", None), Push(Installs("logServer", None),
         Push(Frees(own["logServer"]), t)))
Unloading(t) == Push(Closes("logServer"), Clearing(Push(Closes("log"), t)))

LEMMA Cleared ==
    ASSUME NEW t \in Stacks, own["logServer"] \in Boxes \cup {None}
    PROVE  /\ ClearHook \in Stacks /\ Cat(ClearHook, t) = Clearing(t)
           /\ LogServerDrop \in Stacks /\ Cat(LogServerDrop, t) = Unloading(t)
<1> DEFINE a == own["logServer"]
           k == Keeps("logServer", None)
           i == Installs("logServer", None)
           f == Frees(a)
<1>1. k \in Moves /\ i \in Moves /\ Closes("logServer") \in Moves /\ Closes("log") \in Moves
  BY Constructors DEF Hooked, Objects
<1>2. \A s \in Stacks : ClearHook \in Stacks /\ Cat(ClearHook, s) = Clearing(s)
  <2> SUFFICES ASSUME NEW s \in Stacks
               PROVE  ClearHook \in Stacks /\ Cat(ClearHook, s) = Clearing(s)
      OBVIOUS
  <2>1. CASE a = None
    BY <2>1, Prepended DEF ClearHook, Clearing
  <2>2. CASE a # None
    <3>1. f \in Moves /\ Free(a) = Push(f, <<>>)
      BY <2>2, Constructors, Listed DEF Free, Frees
    <3>2. ClearHook = Cat(<<k, i>>, Free(a))
      BY <2>2 DEF ClearHook, Keeps, Installs, Cat
    <3>3. <<k, i>> = Push(k, Push(i, <<>>))
      BY <1>1, Listed
    <3>. HIDE DEF k, i, f
    <3>4. ClearHook = Push(k, Push(i, Push(f, <<>>)))
      <4>1. Push(f, <<>>) \in Stacks
        BY <3>1, Prepended
      <4>2. Cat(Push(k, Push(i, <<>>)), Push(f, <<>>)) = Push(k, Push(i, Push(f, <<>>)))
        BY <1>1, <4>1, Rows
      <4>. QED  BY <3>1, <3>2, <3>3, <4>2
    <3>5. ClearHook \in Stacks /\ Cat(ClearHook, s) = Push(k, Push(i, Push(f, s)))
      BY <1>1, <3>1, <3>4, Rows
    <3>. QED  BY <2>2, <3>5 DEF Clearing, k, i, f
  <2>. QED  BY <2>1, <2>2
<1>. HIDE DEF k, i, f, a
<1>3. LogServerDrop = Cat(Cat(<<Closes("logServer")>>, ClearHook), <<Closes("log")>>)
  BY DEF LogServerDrop, Closes, Cat
<1>4. LogServerDrop = Push(Closes("logServer"), Cat(ClearHook, <<Closes("log")>>))
  BY <1>1, <1>2, <1>3, Prepended, PushCat
<1>5. LogServerDrop \in Stacks /\ Cat(LogServerDrop, t)
        = Push(Closes("logServer"), Cat(ClearHook, Cat(<<Closes("log")>>, t)))
  <2>1. <<Closes("log")>> \in Stacks /\ ClearHook \in Stacks
    BY <1>1, <1>2, Prepended
  <2>2. Cat(ClearHook, <<Closes("log")>>) \in Stacks
    BY <2>1, Prepended
  <2>3. Cat(LogServerDrop, t) = Push(Closes("logServer"), Cat(Cat(ClearHook, <<Closes("log")>>), t))
    BY <1>1, <1>4, <2>2, PushCat
  <2>4. Cat(Cat(ClearHook, <<Closes("log")>>), t) = Cat(ClearHook, Cat(<<Closes("log")>>, t))
    BY <2>1, Prepended
  <2>. QED  BY <1>1, <1>4, <2>2, <2>3, <2>4, Prepended
<1>. QED  BY <1>1, <1>2, <1>5, Prepended DEF Unloading

LEMMA Freeing ==
    ASSUME Typed, [Next]_vars, NEW b \in Boxes, NEW t \in Stacks, todo = Push(Frees(b), t)
    PROVE  \/ UNCHANGED vars
           \/ /\ box' = [box EXCEPT ![b] = "freed"]
              /\ UNCHANGED <<raw, cb, own, attached, kept, holds>>
              /\ \/ /\ b = "handler" /\ stage["logServer"] = "moved"
                    /\ todo' = Unloading(t) /\ stage' = [stage EXCEPT !["logServer"] = "dropped"]
                 \/ /\ b # "handler" \/ stage["logServer"] # "moved"
                    /\ todo' = t /\ UNCHANGED stage
<1>1. Frees(b) \in Moves /\ Frees(b).do = "free" /\ Frees(b).what = b
  BY Constructors DEF Frees, Step
<1>2. (UNCHANGED vars \/ Steps) /\ Head(todo).do = "free" /\ what = b /\ Rest = t
  BY <1>1, Busy, Quietly
<1>3. LogServerDrop \o t = Unloading(t)
  BY Cleared DEF Typed, Cat, Hooked
<1>. QED  BY <1>2, <1>3 DEF Steps, Now, Make, InstallHook, Keep, FreeBox, Close, Attach, Hold, Over,
                      cbVars, cacheVars

(* C calls a hook: its return, and before it the calls the hook makes.     *)
Fired(o) ==
  /\ raw[o] = "open" /\ cb[o] # None
  /\ UNCHANGED <<raw, box, cb, own, attached, kept, holds, stage>>

LEMMA Firing ==
    ASSUME Typed, todo \in Stacks, NEW o \in Hooked, NEW calls \in Stacks, Fire(o, calls)
    PROVE  /\ Fired(o) /\ InC(o) /\ todo' = Cat(calls, Push(Returns(cb[o]), todo))
           /\ Push(Returns(cb[o]), todo) \in Stacks
<1>1. cb[o] \in Boxes /\ Fired(o) /\ InC(o) /\ todo' = Cat(Cat(calls, Return(cb[o])), todo)
  BY DEF Fire, Fired, InC, cbVars, cacheVars, Typed, Cat
<1>2. Returns(cb[o]) \in Moves /\ Return(cb[o]) = <<Returns(cb[o])>>
  BY <1>1, Constructors DEF Return, Returns
<1>3. Return(cb[o]) \in Stacks /\ Cat(Return(cb[o]), todo) = Push(Returns(cb[o]), todo)
  BY <1>2, Prepended
<1>. QED  BY <1>1, <1>3, Prepended

LEMMA FiringNothing ==
    ASSUME Typed, todo \in Stacks, NEW o \in Hooked, Fire(o, <<>>)
    PROVE  Fired(o) /\ InC(o) /\ todo' = Push(Returns(cb[o]), todo)
<1>1. /\ Fired(o) /\ InC(o) /\ todo' = Cat(<<>>, Push(Returns(cb[o]), todo))
      /\ Push(Returns(cb[o]), todo) \in Stacks
  BY Firing, Prepended
<1>. QED  BY <1>1, Prepended

LEMMA FiringOne ==
    ASSUME Typed, todo \in Stacks, NEW o \in Hooked, NEW s \in Moves, Fire(o, <<s>>)
    PROVE  Fired(o) /\ InC(o) /\ todo' = Push(s, Push(Returns(cb[o]), todo))
<1>1. /\ Fired(o) /\ InC(o) /\ todo' = Cat(<<s>>, Push(Returns(cb[o]), todo))
      /\ Push(Returns(cb[o]), todo) \in Stacks
  BY Firing, Prepended
<1>. QED  BY <1>1, Prepended

(* What OnRequestDone and OnAppend leave to do before t.                   *)
Replacement(o, h, t) == Push(Makes(h), Push(Installs(o, h), Push(Keeps(o, h), t)))
Renewing(h, t) ==
  IF own["client"] = None THEN Replacement("client", h, t)
  ELSE Push(Frees(own["client"]), Replacement("client", h, t))

LEMMA Renewed ==
    ASSUME Typed, NEW h \in DoneHooks, NEW t \in Stacks
    PROVE  OnRequestDone(h) \in Stacks /\ Cat(OnRequestDone(h), t) = Renewing(h, t)
<1>1. /\ Install("client", h) \in Stacks /\ Cat(Install("client", h), t) = Replacement("client", h, t)
      /\ Replacement("client", h, t) \in Stacks
  BY Stacked, Prepended, Constructors DEF Hooked, Boxes, Replacement
<1>2. own["client"] \in Boxes \cup {None}
  BY DEF Typed, Hooked
<1>3. Free(own["client"]) \in Stacks
  BY <1>2, Stacked, Prepended
<1>4. OnRequestDone(h) = Cat(Free(own["client"]), Install("client", h))
  BY DEF OnRequestDone, Cat
<1>5. /\ OnRequestDone(h) \in Stacks
      /\ Cat(OnRequestDone(h), t) = Cat(Free(own["client"]), Replacement("client", h, t))
  BY <1>1, <1>3, <1>4, Prepended
<1>6. CASE own["client"] = None
  BY <1>1, <1>5, <1>6, Stacked, Prepended DEF Renewing
<1>7. CASE own["client"] \in Boxes
  BY <1>1, <1>5, <1>7, Stacked, HandlesAssumption DEF Renewing
<1>. QED  BY <1>2, <1>6, <1>7

LEMMA CalledBack ==
    ASSUME Typed, [Next]_vars, NEW s \in Moves, NEW t \in Stacks, todo = Push(s, t),
           NEW o \in Objects, s.on = o, s.do \in {"run", "close"}, Callbacks
    PROVE  /\ o \in Hooked /\ Fired(o)
           /\ \/ todo' = Push(Returns(cb[o]), todo)
              \/ /\ o = "server" /\ stage["logServer"] = "moved"
                 /\ todo' = Push(Runs("logServer"), Push(Returns(cb[o]), todo))
              \/ /\ o = "client" /\ s.do = "run"
                 /\ \/ \E k \in holds \cup {None} :
                         todo' = Push(Attaches(k), Push(Returns(cb[o]), todo))
                    \/ \E h \in DoneHooks : todo' = Renewing(h, Push(Returns(cb[o]), todo))
<1>1. todo \in Stacks /\ on = o /\ Head(todo).do = s.do
  BY Busy
<1>2. \A q \in Hooked : \A calls : Fire(q, calls) => q = o
  BY <1>1 DEF Fire, InC
<1>3. CASE RequestDone
  <2>1. CASE Fire("client", <<>>)
    BY <1>1, <1>2, <2>1, FiringNothing DEF Hooked
  <2>2. ASSUME Now("run"), NEW k \in holds \cup {None}, Fire("client", SetCache(k))
        PROVE  o = "client" /\ Fired(o) /\ todo' = Push(Attaches(k), Push(Returns(cb[o]), todo))
    <3>1. SetCache(k) = <<Attaches(k)>> /\ Attaches(k) \in Moves
      BY Constructors DEF SetCache, Attaches, Typed, TypeOK
    <3>. QED  BY <1>1, <1>2, <2>2, <3>1, FiringOne DEF Hooked
  <2>3. ASSUME Now("run"), NEW h \in DoneHooks, Fire("client", OnRequestDone(h))
        PROVE  o = "client" /\ Fired(o) /\ todo' = Renewing(h, Push(Returns(cb[o]), todo))
    <3>1. /\ o = "client" /\ Fired(o) /\ OnRequestDone(h) \in Stacks
          /\ todo' = Cat(OnRequestDone(h), Push(Returns(cb[o]), todo))
      BY <1>1, <1>2, <2>3, Renewed, Firing DEF Hooked
    <3>2. Push(Returns(cb[o]), todo) \in Stacks
      BY <1>1, <1>2, <2>3, Renewed, Firing DEF Hooked
    <3>. QED  BY <3>1, <3>2, Renewed
  <2>. QED  BY <1>1, <1>3, <2>1, <2>2, <2>3 DEF RequestDone, Now, Hooked
<1>4. CASE HandleRequest
  <2>1. <<Step("run", "logServer", None)>> = <<Runs("logServer")>> /\ Runs("logServer") \in Moves
    BY Constructors DEF Runs, Objects, Hooked
  <2>. QED  BY <1>1, <1>2, <1>4, <2>1, FiringNothing, FiringOne DEF HandleRequest, Hooked
<1>5. CASE EntryAppended
  BY <1>1, <1>2, <1>5, FiringNothing DEF EntryAppended, Hooked
<1>. QED  BY <1>3, <1>4, <1>5 DEF Callbacks

LEMMA Ticks ==
    ASSUME Typed, [Next]_vars, NEW o \in Hooked, NEW t \in Stacks, todo = Push(Runs(o), t)
    PROVE  \/ UNCHANGED vars
           \/ todo' = t /\ UNCHANGED <<raw, box, cb, own, attached, kept, holds, stage>>
           \/ /\ Fired(o)
              /\ \/ todo' = Push(Returns(cb[o]), todo)
                 \/ /\ o = "server" /\ stage["logServer"] = "moved"
                    /\ todo' = Push(Runs("logServer"), Push(Returns(cb[o]), todo))
                 \/ /\ o = "client"
                    /\ \/ \E k \in holds \cup {None} :
                            todo' = Push(Attaches(k), Push(Returns(cb[o]), todo))
                       \/ \E h \in DoneHooks : todo' = Renewing(h, Push(Returns(cb[o]), todo))
<1>1. Runs(o) \in Moves /\ Runs(o).do = "run" /\ Runs(o).on = o /\ o \in Objects
  BY Constructors DEF Runs, Step, Objects
<1>2. /\ UNCHANGED vars \/ Steps \/ Callbacks
      /\ Head(todo).do = "run" /\ on = o /\ Rest = t
  BY <1>1, Busy
<1>3. CASE Callbacks
  BY <1>1, <1>3, CalledBack
<1>4. CASE Steps
  BY <1>2, <1>4 DEF Steps, Now, Make, InstallHook, Keep, FreeBox, Close, Attach, Hold, Over,
                    cbVars, cacheVars
<1>. QED  BY <1>2, <1>3, <1>4

LEMMA Closing ==
    ASSUME Typed, [Next]_vars, NEW o \in Objects, NEW t \in Stacks, todo = Push(Closes(o), t)
    PROVE  \/ UNCHANGED vars
           \/ /\ raw' = [raw EXCEPT ![o] = "closed"] /\ todo' = t
              /\ UNCHANGED <<box, cb, own, attached, kept, holds, stage>>
           \/ /\ o \in Hooked /\ Fired(o)
              /\ \/ todo' = Push(Returns(cb[o]), todo)
                 \/ /\ o = "server" /\ stage["logServer"] = "moved"
                    /\ todo' = Push(Runs("logServer"), Push(Returns(cb[o]), todo))
<1>1. Closes(o) \in Moves /\ Closes(o).do = "close" /\ Closes(o).on = o
  BY Constructors DEF Closes, Step
<1>2. /\ UNCHANGED vars \/ Steps \/ Callbacks
      /\ Head(todo).do = "close" /\ on = o /\ Rest = t
  BY <1>1, Busy
<1>3. CASE Callbacks
  BY <1>1, <1>3, CalledBack
<1>4. CASE Steps
  BY <1>2, <1>4 DEF Steps, Now, Make, InstallHook, Keep, FreeBox, Close, Attach, Hold, Over,
                    cbVars, cacheVars
<1>. QED  BY <1>2, <1>3, <1>4

-----------------------------------------------------------------------------
(* A step of the client's calls leaves the server's half as it is.         *)
ServerKept ==
  /\ \A o \in {"server", "logServer", "log"} : raw'[o] = raw[o]
  /\ \A b \in AppendHooks \cup {"handler"} : box'[b] = box[b]
  /\ \A o \in {"server", "logServer"} :
        cb'[o] = cb[o] /\ own'[o] = own[o] /\ stage'[o] = stage[o]

LEMMA ServerFrame == ServerQuiet /\ ServerKept => ServerQuiet'
<1> SUFFICES ASSUME ServerQuiet, ServerKept PROVE ServerQuiet'
    OBVIOUS
<1>1. ServerIdle'
  BY DEF ServerQuiet, ServerIdle, ServerKept, Up, Closure
<1>2. LogQuiet'
  BY DEF ServerQuiet, LogQuiet, ServerKept, LogShut, LogOpen, LogHooking, AppendLive
<1>. QED  BY <1>1, <1>2 DEF ServerQuiet, ServerKept

LEMMA ClientMakes ==
    ASSUME Typed, [Next]_vars, NEW h \in DoneHooks, NEW t \in Stacks, todo = Push(Makes(h), t)
    PROVE  \/ UNCHANGED vars
           \/ /\ Typed' /\ ServerKept /\ todo' = t
              /\ UNCHANGED <<raw, cb, own, attached, kept, holds, stage>>
              /\ DoneLive({}) => DoneLive({h})'
<1>1. h \in Boxes
  BY DEF Boxes
<1>2. CASE box' = [box EXCEPT ![h] = "live"] /\ UNCHANGED <<raw, cb, own, attached, kept, holds, stage>>
  <2>1. Typed'
    BY <1>1, <1>2 DEF Typed, TypeOK
  <2>2. ServerKept
    BY <1>2, HandlesAssumption DEF ServerKept
  <2>3. DoneLive({}) => DoneLive({h})'
    BY <1>1, <1>2 DEF DoneLive, Typed, TypeOK, Boxes
  <2>. QED  BY <1>1, <2>1, <2>2, <2>3, <1>2, Making
<1>. QED  BY <1>1, <1>2, Making

LEMMA ClientInstalls ==
    ASSUME Typed, [Next]_vars, NEW h \in DoneHooks, NEW t \in Stacks,
           todo = Push(Installs("client", h), t)
    PROVE  \/ UNCHANGED vars
           \/ /\ Typed' /\ ServerKept /\ todo' = t /\ cb'["client"] = h
              /\ UNCHANGED <<raw, box, own, attached, kept, holds, stage>>
<1>1. h \in Boxes /\ "client" \in Hooked
  BY DEF Boxes, Hooked
<1>2. CASE cb' = [cb EXCEPT !["client"] = h] /\ UNCHANGED <<raw, box, own, attached, kept, holds, stage>>
  <2>1. Typed'
    BY <1>1, <1>2 DEF Typed, TypeOK
  <2>2. ServerKept /\ cb'["client"] = h
    BY <1>1, <1>2 DEF ServerKept, Typed
  <2>. QED  BY <1>1, <1>2, <2>1, <2>2, Installing
<1>. QED  BY <1>1, <1>2, Installing

LEMMA ClientKeeps ==
    ASSUME Typed, [Next]_vars, NEW h \in DoneHooks, NEW t \in Stacks,
           todo = Push(Keeps("client", h), t)
    PROVE  \/ UNCHANGED vars
           \/ /\ Typed' /\ ServerKept /\ todo' = t /\ own'["client"] = h
              /\ UNCHANGED <<raw, box, cb, attached, kept, holds, stage>>
<1>1. h \in Boxes /\ "client" \in Hooked
  BY DEF Boxes, Hooked
<1>2. CASE own' = [own EXCEPT !["client"] = h] /\ UNCHANGED <<raw, box, cb, attached, kept, holds, stage>>
  <2>1. Typed'
    BY <1>1, <1>2 DEF Typed, TypeOK
  <2>2. ServerKept /\ own'["client"] = h
    BY <1>1, <1>2 DEF ServerKept, Typed
  <2>. QED  BY <1>1, <1>2, <2>1, <2>2, Keeping
<1>. QED  BY <1>1, <1>2, Keeping

LEMMA ClientFrees ==
    ASSUME Typed, [Next]_vars, NEW b \in DoneHooks, NEW t \in Stacks, todo = Push(Frees(b), t)
    PROVE  \/ UNCHANGED vars
           \/ /\ Typed' /\ ServerKept /\ todo' = t
              /\ UNCHANGED <<raw, cb, own, attached, kept, holds, stage>>
              /\ DoneLive({b}) => DoneLive({})'
<1>1. b \in Boxes /\ b # "handler"
  BY HandlesAssumption DEF Boxes
<1>2. CASE box' = [box EXCEPT ![b] = "freed"] /\ UNCHANGED <<raw, cb, own, attached, kept, holds, stage>>
  <2>1. Typed'
    BY <1>1, <1>2 DEF Typed, TypeOK
  <2>2. ServerKept
    BY <1>2, HandlesAssumption DEF ServerKept
  <2>3. DoneLive({b}) => DoneLive({})'
    BY <1>1, <1>2 DEF DoneLive, Typed, TypeOK, Boxes
  <2>. QED  BY <1>1, <2>1, <2>2, <2>3, <1>2, Freeing
<1>. QED  BY <1>1, <1>2, Freeing

LEMMA ClientReturns ==
    ASSUME Typed, [Next]_vars, NEW b \in DoneHooks, NEW t \in Stacks, todo = Push(Returns(b), t)
    PROVE  \/ UNCHANGED vars
           \/ /\ Typed' /\ ServerKept /\ todo' = t
              /\ UNCHANGED <<raw, box, cb, own, attached, kept, holds, stage>>
BY Returning DEF Boxes, Typed, TypeOK, ServerKept

LEMMA Unfired ==
    ASSUME Typed, UNCHANGED <<raw, box, cb, own, attached, kept, holds, stage>>
    PROVE  Typed' /\ ServerKept
BY DEF Typed, TypeOK, ServerKept

LEMMA RcDrops ==
    ASSUME NEW k \in Caches \cup {None}, NEW others, NEW t \in Stacks
    PROVE  Cat(LastRc(k, others), t) = IF k = None \/ k \in others THEN t ELSE Push(Closes(k), t)
BY Prepended, Constructors DEF LastRc, Closes, Objects

LEMMA ClientHolds ==
    ASSUME Typed, [Next]_vars, NEW k \in Caches \cup {None}, NEW t \in Stacks, todo = Push(Holds(k), t)
    PROVE  \/ UNCHANGED vars
           \/ /\ Typed' /\ ServerKept /\ kept' = k
              /\ todo' = IF kept = None \/ kept \in holds \cup {k} THEN t ELSE Push(Closes(kept), t)
              /\ UNCHANGED <<raw, box, cb, own, attached, holds, stage>>
<1>1. CASE UNCHANGED <<raw, box, cb, own, attached, holds, stage>> /\ kept' = k
  <2>1. Typed' /\ ServerKept
    BY <1>1 DEF Typed, TypeOK, ServerKept
  <2>2. kept \in Caches \cup {None}
    BY DEF Typed, TypeOK
  <2>3. Cat(LastRc(kept, holds \cup {k}), t)
          = IF kept = None \/ kept \in holds \cup {k} THEN t ELSE Push(Closes(kept), t)
    BY <2>2, RcDrops
  <2>4. UNCHANGED vars \/ todo' = Cat(LastRc(kept, holds \cup {k}), t)
    BY Holding
  <2>. QED  BY <1>1, <2>1, <2>3, <2>4
<1>. QED  BY <1>1, Holding

LEMMA ClientAttaches ==
    ASSUME Typed, [Next]_vars, NEW k \in Caches \cup {None}, NEW t \in Stacks,
           todo = Push(Attaches(k), t)
    PROVE  \/ UNCHANGED vars
           \/ /\ Typed' /\ ServerKept
              /\ UNCHANGED <<raw, box, cb, own, kept, holds, stage>>
              /\ \/ attached' = k /\ todo' = Push(Holds(k), t)
                 \/ /\ attached' = attached
                    /\ todo' = IF k = None \/ k \in Holders THEN t ELSE Push(Closes(k), t)
<1>1. CASE UNCHANGED <<raw, box, cb, own, kept, holds, stage>> /\ attached' \in {k, attached}
  <2>1. Typed' /\ ServerKept
    BY <1>1 DEF Typed, TypeOK, ServerKept
  <2>. QED  BY <1>1, <2>1, Attaching, RcDrops DEF Holders
<1>. QED  BY <1>1, Attaching

LEMMA ClientCloses ==
    ASSUME Typed, [Next]_vars, NEW o \in Caches \cup {"client"}, NEW t \in Stacks,
           todo = Push(Closes(o), t)
    PROVE  \/ UNCHANGED vars
           \/ /\ Typed' /\ ServerKept /\ todo' = t /\ raw' = [raw EXCEPT ![o] = "closed"]
              /\ UNCHANGED <<box, cb, own, attached, kept, holds, stage>>
           \/ o = "client" /\ Fired(o) /\ todo' = Push(Returns(cb[o]), todo)
<1>1. o \in Objects /\ o \notin {"server", "logServer", "log"} /\ (o \in Hooked => o = "client")
  BY HandlesAssumption DEF Objects, Hooked
<1>2. CASE raw' = [raw EXCEPT ![o] = "closed"] /\ UNCHANGED <<box, cb, own, attached, kept, holds, stage>>
  <2>1. Typed'
    BY <1>1, <1>2 DEF Typed, TypeOK
  <2>2. ServerKept
    BY <1>1, <1>2 DEF ServerKept
  <2>. QED  BY <1>1, <1>2, <2>1, <2>2, Closing
<1>. QED  BY <1>1, <1>2, Closing

(* The stacks of the client's calls, step by step.                         *)
LEMMA AftersAreStacks == Tick \in Stacks /\ \A t \in Afters : t \in Stacks
<1>1. Tick \in Stacks
  BY Prepended, Constructors DEF Tick, Objects, Hooked
<1>2. \A b \in DoneHooks : Push(Returns(b), Tick) \in Stacks
  BY <1>1, Prepended, Constructors DEF Boxes
<1>. QED  BY <1>1, <1>2, Prepended DEF Afters

LEMMA Resumed == Made /\ Shared(Holders) /\ todo \in Afters => ClientHalf
BY DEF ClientHalf, ClientQuiet, ClientBusy, Ticking

LEMMA ResumedNext == (Made /\ Shared(Holders) /\ todo \in Afters => ClientHalf)'
BY Resumed, PTL

LEMMA Replaces ==
    ASSUME Typed, Replacing, [Next]_vars
    PROVE  UNCHANGED vars \/ (Typed' /\ ServerKept /\ ClientHalf')
<1>1. PICK t \in Afters, h \in DoneHooks :
        LET keep == Push(Keeps("client", h), t)
            install == Push(Installs("client", h), keep)
            make == Push(Makes(h), install)
        IN \/ \E b \in DoneHooks : todo = Push(Frees(b), make) /\ DoneLive({b})
           \/ todo = make /\ DoneLive({})
           \/ todo = install /\ DoneLive({h})
           \/ todo = keep /\ DoneLive({h}) /\ cb["client"] = h
  BY DEF Replacing
<1> DEFINE keep == Push(Keeps("client", h), t)
           install == Push(Installs("client", h), keep)
           make == Push(Makes(h), install)
<1>2. t \in Stacks /\ keep \in Stacks /\ install \in Stacks /\ make \in Stacks
  BY AftersAreStacks, Prepended, Constructors DEF Boxes, Hooked
<1>3. ASSUME UNCHANGED <<raw, attached, kept, holds, stage>>
      PROVE  InUse' /\ attached' = kept' /\ Shared(Holders)'
  BY <1>3 DEF Replacing, InUse, Shared, Holders
<1>4. CASE \E b \in DoneHooks : todo = Push(Frees(b), make) /\ DoneLive({b})
  <2>1. PICK b \in DoneHooks : todo = Push(Frees(b), make) /\ DoneLive({b})
    BY <1>4
  <2>2. CASE Typed' /\ ServerKept /\ todo' = make /\ DoneLive({})'
             /\ UNCHANGED <<raw, cb, own, attached, kept, holds, stage>>
    BY <1>3, <2>2 DEF Replacing, ClientHalf, ClientBusy
  <2>. QED  BY <1>2, <2>1, <2>2, ClientFrees
<1>5. CASE todo = make /\ DoneLive({})
  <2>1. CASE Typed' /\ ServerKept /\ todo' = install /\ DoneLive({h})'
             /\ UNCHANGED <<raw, cb, own, attached, kept, holds, stage>>
    BY <1>3, <2>1 DEF Replacing, ClientHalf, ClientBusy
  <2>. QED  BY <1>2, <1>5, <2>1, ClientMakes
<1>6. CASE todo = install /\ DoneLive({h})
  <2>1. CASE Typed' /\ ServerKept /\ todo' = keep /\ cb'["client"] = h
             /\ UNCHANGED <<raw, box, own, attached, kept, holds, stage>>
    <3>1. DoneLive({h})'
      BY <1>6, <2>1 DEF DoneLive
    <3>. QED  BY <1>3, <2>1, <3>1 DEF Replacing, ClientHalf, ClientBusy
  <2>. QED  BY <1>2, <1>6, <2>1, ClientInstalls
<1>7. CASE todo = keep /\ DoneLive({h}) /\ cb["client"] = h
  <2>1. CASE Typed' /\ ServerKept /\ todo' = t /\ own'["client"] = h
             /\ UNCHANGED <<raw, box, cb, attached, kept, holds, stage>>
    <3>1. Hooking'
      BY <1>7, <2>1 DEF DoneLive, Hooking
    <3>. QED  BY <1>3, <2>1, <3>1, ResumedNext DEF Made
  <2>. QED  BY <1>2, <1>7, <2>1, ClientKeeps
<1>. QED  BY <1>1, <1>4, <1>5, <1>6, <1>7

LEMMA Recaches ==
    ASSUME Typed, Caching, [Next]_vars
    PROVE  UNCHANGED vars \/ (Typed' /\ ServerKept /\ ClientHalf')
<1>1. PICK t \in Afters, k \in Caches \cup {None} :
        /\ Shared(Holders \cup {k})
        /\ \/ todo = Push(Attaches(k), t) /\ attached = kept
           \/ todo = Push(Holds(k), t) /\ attached = k
  BY DEF Caching
<1>2. t \in Stacks
  BY AftersAreStacks
<1>3. ASSUME UNCHANGED <<raw, box, cb, own, holds, stage>>
      PROVE  /\ InUse' /\ Hooking'
             /\ attached' = kept' => Made'
             /\ kept' = kept => Shared(Holders \cup {k})'
  BY <1>1, <1>3 DEF Caching, InUse, Hooking, DoneLive, Shared, Holders, Made
<1>4. CASE todo = Push(Attaches(k), t) /\ attached = kept
  <2>1. CASE /\ Typed' /\ ServerKept /\ UNCHANGED <<raw, box, cb, own, kept, holds, stage>>
             /\ attached' = k /\ todo' = Push(Holds(k), t)
    BY <1>3, <2>1 DEF Caching, ClientHalf, ClientBusy
  <2>2. CASE /\ Typed' /\ ServerKept /\ UNCHANGED <<raw, box, cb, own, kept, holds, stage>>
             /\ attached' = attached
             /\ todo' = IF k = None \/ k \in Holders THEN t ELSE Push(Closes(k), t)
    <3>1. Made'
      BY <1>3, <1>4, <2>2
    <3>2. CASE k = None \/ k \in Holders
      <4>1. Shared(Holders)'
        BY <1>1, <2>2, <3>2, HandlesAssumption DEF Shared, Holders
      <4>. QED  BY <2>2, <3>1, <3>2, <4>1, ResumedNext
    <3>3. CASE k \in Caches \ Holders
      <4>1. Uncaching'
        BY <1>3, <2>2, <3>1, <3>3, HandlesAssumption DEF Uncaching, Holders
      <4>. QED  BY <2>2, <4>1 DEF ClientHalf, ClientBusy
    <3>. QED  BY <3>2, <3>3
  <2>. QED  BY <1>2, <1>4, <2>1, <2>2, ClientAttaches
<1>5. CASE todo = Push(Holds(k), t) /\ attached = k
  <2>1. CASE /\ Typed' /\ ServerKept /\ kept' = k
             /\ todo' = IF kept = None \/ kept \in holds \cup {k} THEN t ELSE Push(Closes(kept), t)
             /\ UNCHANGED <<raw, box, cb, own, attached, holds, stage>>
    <3>1. Made'
      BY <1>3, <1>5, <2>1
    <3>2. CASE kept = None \/ kept \in holds \cup {k}
      <4>1. Shared(Holders)'
        BY <1>1, <2>1, <3>2, HandlesAssumption DEF Shared, Holders
      <4>. QED  BY <2>1, <3>1, <3>2, <4>1, ResumedNext
    <3>3. CASE ~(kept = None \/ kept \in holds \cup {k})
      <4>1. kept \in Caches /\ kept \in (Caches \ Holders')
        BY <2>1, <3>3 DEF Typed, TypeOK, Holders
      <4>2. \A c \in Caches : raw'[c] = "open" <=> c \in Holders' \cup {kept}
        BY <1>1, <2>1 DEF Shared, Holders
      <4>3. Uncaching'
        BY <2>1, <3>1, <3>3, <4>1, <4>2 DEF Uncaching, Shared
      <4>. QED  BY <2>1, <4>3 DEF ClientHalf, ClientBusy
    <3>. QED  BY <3>2, <3>3
  <2>. QED  BY <1>2, <1>5, <2>1, ClientHolds
<1>. QED  BY <1>1, <1>4, <1>5

LEMMA Uncaches ==
    ASSUME Typed, Uncaching, [Next]_vars
    PROVE  UNCHANGED vars \/ (Typed' /\ ServerKept /\ ClientHalf')
<1>1. PICK t \in Afters, k \in Caches \ Holders :
        /\ todo = Push(Closes(k), t)
        /\ Made \/ (t = <<>> /\ (Unmade \/ Gone))
        /\ Shared(Holders \cup {k})
  BY DEF Uncaching
<1>2. k # "client" /\ k \in Objects
  BY HandlesAssumption DEF Hooked, Objects
<1>3. CASE /\ Typed' /\ ServerKept /\ todo' = t /\ raw' = [raw EXCEPT ![k] = "closed"]
           /\ UNCHANGED <<box, cb, own, attached, kept, holds, stage>>
  <2>1. Shared(Holders)'
    BY <1>1, <1>2, <1>3 DEF Shared, Holders, Typed, TypeOK, Objects
  <2>2. raw'["client"] = raw["client"]
    BY <1>2, <1>3 DEF Typed, TypeOK, Objects
  <2>3. /\ Made => Made'
        /\ Unmade => Unmade'
        /\ Gone => Gone'
    BY <1>3, <2>2 DEF Made, InUse, Hooking, DoneLive, Unmade, Gone
  <2>. QED  BY <1>1, <1>3, <2>1, <2>3, ResumedNext DEF ClientHalf, ClientQuiet
<1>. QED  BY <1>1, <1>2, <1>3, AftersAreStacks, ClientCloses

(* A hook is installed, by the embedder or by the hook that runs.          *)
LEMMA Renews ==
    ASSUME Typed, Made, Shared(Holders), NEW t \in Afters, NEW h \in DoneHooks,
           UNCHANGED <<raw, box, cb, own, attached, kept, holds, stage>>, todo' = Renewing(h, t)
    PROVE  Replacing'
<1>1. InUse' /\ attached' = kept' /\ Shared(Holders)' /\ DoneLive({own["client"]})'
  BY DEF Made, InUse, Hooking, Shared, Holders, DoneLive
<1>2. own["client"] \in DoneHooks \cup {None}
  BY DEF Typed, TypeOK
<1>3. CASE own["client"] = None
  <2>1. DoneLive({})'
    BY <1>1, <1>3, HandlesAssumption DEF DoneLive, Boxes
  <2>. QED  BY <1>1, <1>3, <2>1 DEF Replacing, Renewing, Replacement
<1>4. CASE own["client"] \in DoneHooks
  <2>1. own["client"] # None
    BY <1>4, HandlesAssumption DEF Boxes
  <2>. QED  BY <1>1, <1>4, <2>1 DEF Replacing, Renewing, Replacement
<1>. QED  BY <1>2, <1>3, <1>4

LEMMA TicksOn ==
    ASSUME Typed, Ticking, [Next]_vars
    PROVE  UNCHANGED vars \/ (Typed' /\ ServerKept /\ ClientHalf')
<1>1. Tick \in Stacks /\ <<>> \in Stacks /\ "client" \in Hooked
  BY AftersAreStacks, Prepended DEF Hooked
<1>2. Made /\ Shared(Holders)
  BY DEF Ticking
<1>3. ASSUME UNCHANGED <<raw, box, cb, own, attached, kept, holds, stage>>
      PROVE  Typed' /\ ServerKept /\ Made' /\ Shared(Holders)'
  BY <1>2, <1>3, Unfired DEF Made, InUse, Hooking, DoneLive, Shared, Holders
<1>4. CASE todo = Tick
  <2>1. CASE todo' = <<>> /\ UNCHANGED <<raw, box, cb, own, attached, kept, holds, stage>>
    BY <1>3, <2>1, ResumedNext DEF Afters
  <2>2. CASE Fired("client")
    <3> DEFINE t == Push(Returns(cb["client"]), todo)
    <3>1. t \in Afters
      BY <1>4, <2>2 DEF Afters, Fired, Typed, TypeOK
    <3>2. Typed' /\ ServerKept /\ Made' /\ Shared(Holders)'
      BY <1>3, <2>2 DEF Fired
    <3>. HIDE DEF t
    <3>3. CASE todo' = t
      BY <3>1, <3>2, <3>3, ResumedNext
    <3>4. ASSUME NEW k \in holds \cup {None}, todo' = Push(Attaches(k), t)
          PROVE  ClientHalf'
      <4>1. k \in Caches \cup {None} /\ Shared(Holders \cup {k})' /\ (k \in holds' \/ k = None)
        BY <1>2, <2>2, HandlesAssumption DEF Typed, TypeOK, Fired, Shared, Holders
      <4>2. Caching'
        BY <3>1, <3>2, <3>4, <4>1 DEF Caching, Made
      <4>. QED  BY <4>2 DEF ClientHalf, ClientBusy
    <3>5. ASSUME NEW h \in DoneHooks, todo' = Renewing(h, t)
          PROVE  ClientHalf'
      BY <1>2, <2>2, <3>1, <3>5, Renews DEF Fired, ClientHalf, ClientBusy
    <3>6. \/ todo' = t
          \/ \E k \in holds \cup {None} : todo' = Push(Attaches(k), t)
          \/ \E h \in DoneHooks : todo' = Renewing(h, t)
          \/ todo' = <<>> \/ UNCHANGED vars
      BY <1>1, <1>4, Ticks DEF t, Tick
    <3>7. CASE todo' = <<>>
      BY <3>2, <3>7, ResumedNext DEF Afters
    <3>. QED  BY <3>2, <3>3, <3>4, <3>5, <3>6, <3>7
  <2>. QED  BY <1>1, <1>4, <2>1, <2>2, Ticks DEF Tick
<1>5. CASE todo \in Afters \ {<<>>}
  <2>1. PICK b \in DoneHooks : todo = Push(Returns(b), Tick)
    BY <1>5 DEF Afters
  <2>2. CASE todo' = Tick /\ UNCHANGED <<raw, box, cb, own, attached, kept, holds, stage>>
    BY <1>3, <2>2 DEF ClientHalf, ClientBusy, Ticking
  <2>. QED  BY <1>1, <2>1, <2>2, ClientReturns
<1>. QED  BY <1>4, <1>5 DEF Ticking

LEMMA Leaves ==
    ASSUME Typed, Leaving, [Next]_vars
    PROVE  UNCHANGED vars \/ (Typed' /\ ServerKept /\ ClientHalf')
<1>1. /\ <<>> \in Stacks /\ Unhold \in Stacks
      /\ \A b \in DoneHooks : Push(Frees(b), Unhold) \in Stacks /\ Returns(b) \in Moves
      /\ Closes("client") \in Moves
  BY Prepended, Constructors DEF Unhold, Boxes, Objects, Hooked
<1>2. stage["client"] = "dropped" /\ Shared(Holders) /\ "client" \in Hooked
  BY DEF Leaving, Hooked
<1>3. ASSUME UNCHANGED <<box, cb, own, attached, kept, holds, stage>>,
             \A k \in Caches : raw'[k] = raw[k]
      PROVE  /\ stage'["client"] = "dropped" /\ Shared(Holders)'
             /\ \A L \in SUBSET Boxes : DoneLive(L) => DoneLive(L)'
             /\ Hooking => Hooking'
  BY <1>2, <1>3 DEF Shared, Holders, DoneLive, Hooking
<1>4. ASSUME raw' = [raw EXCEPT !["client"] = "closed"]
      PROVE  raw'["client"] = "closed" /\ \A k \in Caches : raw'[k] = raw[k]
  BY <1>4, HandlesAssumption DEF Typed, TypeOK, Objects, Hooked
<1>5. ASSUME raw["client"] = "open", Hooking, attached = kept,
             NEW free \in {Unhold} \cup {Push(Frees(b), Unhold) : b \in DoneHooks},
             free = IF own["client"] = None THEN Unhold ELSE Push(Frees(own["client"]), Unhold),
             \/ todo = Push(Closes("client"), free)
             \/ \E b \in DoneHooks : todo = Push(Returns(b), Push(Closes("client"), free))
      PROVE  UNCHANGED vars \/ (Typed' /\ ServerKept /\ ClientHalf')
  <2> DEFINE close == Push(Closes("client"), free)
  <2>1. free \in Stacks /\ close \in Stacks
    BY <1>1, <1>5, Prepended
  <2>2. ASSUME UNCHANGED <<raw, box, cb, own, attached, kept, holds, stage>>,
               \/ todo' = close \/ \E b \in DoneHooks : todo' = Push(Returns(b), close)
        PROVE  Typed' /\ ServerKept /\ ClientHalf'
    <3>1. Typed' /\ ServerKept /\ Hooking' /\ Shared(Holders)' /\ stage'["client"] = "dropped"
      BY <1>3, <1>5, <2>2, Unfired
    <3>2. Leaving'
      BY <1>5, <2>2, <3>1 DEF Leaving
    <3>. QED  BY <3>1, <3>2 DEF ClientHalf, ClientBusy
  <2>3. CASE todo = close
    <3>1. CASE Fired("client") /\ todo' = Push(Returns(cb["client"]), todo)
      <4>1. cb["client"] \in DoneHooks
        BY <3>1 DEF Fired, Typed, TypeOK
      <4>. QED  BY <2>2, <2>3, <3>1, <4>1 DEF Fired
    <3>2. CASE /\ Typed' /\ ServerKept /\ todo' = free /\ raw' = [raw EXCEPT !["client"] = "closed"]
               /\ UNCHANGED <<box, cb, own, attached, kept, holds, stage>>
      <4>1. raw'["client"] = "closed" /\ Shared(Holders)' /\ stage'["client"] = "dropped"
        BY <1>3, <1>4, <3>2
      <4>2. own["client"] \in DoneHooks \cup {None} /\ DoneLive({own["client"]})
        BY <1>5 DEF Typed, TypeOK, Hooking
      <4>3. CASE own["client"] = None
        <5>1. DoneLive({})'
          BY <3>2, <4>2, <4>3, HandlesAssumption DEF DoneLive, Boxes
        <5>. QED  BY <1>5, <3>2, <4>1, <4>3, <5>1 DEF Leaving, ClientHalf, ClientBusy
      <4>4. CASE own["client"] # None
        <5>1. DoneLive({own["client"]})'
          BY <3>2, <4>2 DEF DoneLive
        <5>. QED  BY <1>5, <3>2, <4>1, <4>2, <4>4, <5>1 DEF Leaving, ClientHalf, ClientBusy
      <4>. QED  BY <4>3, <4>4
    <3>. QED  BY <2>1, <2>3, <3>1, <3>2, ClientCloses
  <2>4. ASSUME NEW b \in DoneHooks, todo = Push(Returns(b), close)
        PROVE  UNCHANGED vars \/ (Typed' /\ ServerKept /\ ClientHalf')
    BY <2>1, <2>2, <2>4, ClientReturns
  <2>. QED  BY <1>5, <2>3, <2>4
<1>6. ASSUME raw["client"] = "closed", NEW b \in DoneHooks, todo = Push(Frees(b), Unhold), DoneLive({b})
      PROVE  UNCHANGED vars \/ (Typed' /\ ServerKept /\ ClientHalf')
  <2>1. CASE Typed' /\ ServerKept /\ todo' = Unhold /\ DoneLive({})'
             /\ UNCHANGED <<raw, cb, own, attached, kept, holds, stage>>
    <3>1. raw'["client"] = "closed" /\ Shared(Holders)' /\ stage'["client"] = "dropped"
      BY <1>2, <1>6, <2>1 DEF Shared, Holders
    <3>. QED  BY <2>1, <3>1 DEF Leaving, ClientHalf, ClientBusy
  <2>. QED  BY <1>1, <1>6, <2>1, ClientFrees
<1>7. ASSUME raw["client"] = "closed", todo = Unhold, DoneLive({})
      PROVE  UNCHANGED vars \/ (Typed' /\ ServerKept /\ ClientHalf')
  <2>1. CASE /\ Typed' /\ ServerKept /\ kept' = None
             /\ todo' = IF kept = None \/ kept \in holds \cup {None} THEN <<>>
                        ELSE Push(Closes(kept), <<>>)
             /\ UNCHANGED <<raw, box, cb, own, attached, holds, stage>>
    <3>1. Gone'
      BY <1>2, <1>7, <2>1 DEF Gone, DoneLive
    <3>2. CASE kept = None \/ kept \in holds \cup {None}
      <4>1. Shared(Holders)'
        BY <1>2, <2>1, <3>2, HandlesAssumption DEF Shared, Holders
      <4>. QED  BY <2>1, <3>1, <3>2, <4>1 DEF ClientHalf, ClientQuiet
    <3>3. CASE ~(kept = None \/ kept \in holds \cup {None})
      <4>1. kept \in (Caches \ Holders')
        BY <2>1, <3>3 DEF Typed, TypeOK, Holders
      <4>2. \A c \in Caches : raw'[c] = "open" <=> c \in Holders' \cup {kept}
        BY <1>2, <2>1, HandlesAssumption DEF Shared, Holders
      <4>3. <<>> \in Afters
        BY DEF Afters
      <4>4. Uncaching'
        BY <2>1, <3>1, <3>3, <4>1, <4>2, <4>3 DEF Uncaching, Shared
      <4>. QED  BY <2>1, <4>4 DEF ClientHalf, ClientBusy
    <3>. QED  BY <3>2, <3>3
  <2>. QED  BY <1>1, <1>7, <2>1, ClientHolds DEF Unhold
<1>8. ASSUME raw["client"] = "open", todo = Push(Closes("client"), <<>>),
             cb["client"] = None, attached = None, kept = None, DoneLive({})
      PROVE  UNCHANGED vars \/ (Typed' /\ ServerKept /\ ClientHalf')
  <2>1. CASE /\ Typed' /\ ServerKept /\ todo' = <<>> /\ raw' = [raw EXCEPT !["client"] = "closed"]
             /\ UNCHANGED <<box, cb, own, attached, kept, holds, stage>>
    <3>1. raw'["client"] = "closed" /\ Shared(Holders)' /\ stage'["client"] = "dropped" /\ DoneLive({})'
      BY <1>3, <1>4, <1>8, <2>1
    <3>. QED  BY <1>8, <2>1, <3>1 DEF ClientHalf, ClientQuiet, Gone
  <2>. QED  BY <1>1, <1>8, <2>1, ClientCloses DEF Fired
<1>. QED  BY <1>5, <1>6, <1>7, <1>8 DEF Leaving

LEMMA ClientSteps ==
    ASSUME Typed, ClientBusy, [Next]_vars
    PROVE  UNCHANGED vars \/ (Typed' /\ ServerKept /\ ClientHalf')
BY Replaces, Recaches, Uncaches, TicksOn, Leaves DEF ClientBusy

-----------------------------------------------------------------------------
(* The same for the other half, of which a step moves the server or the    *)
(* log server.                                                             *)
ClientKept ==
  /\ \A o \in Caches \cup {"client"} : raw'[o] = raw[o]
  /\ \A h \in DoneHooks : box'[h] = box[h]
  /\ cb'["client"] = cb["client"] /\ own'["client"] = own["client"]
  /\ stage'["client"] = stage["client"]
  /\ UNCHANGED <<attached, kept, holds>>

LEMMA ClientFrame == ClientQuiet /\ ClientKept => ClientQuiet'
BY DEF ClientQuiet, ClientKept, Unmade, Made, Gone, InUse, Hooking, DoneLive, Shared, Holders

LogKept ==
  /\ raw'["logServer"] = raw["logServer"] /\ raw'["log"] = raw["log"]
  /\ \A a \in AppendHooks : box'[a] = box[a]
  /\ cb'["logServer"] = cb["logServer"] /\ own'["logServer"] = own["logServer"]
  /\ stage'["logServer"] = stage["logServer"]

LEMMA LogFrame ==
    LogKept => /\ LogQuiet => LogQuiet'
               /\ stage'["logServer"] = stage["logServer"]
BY DEF LogQuiet, LogKept, LogShut, LogOpen, LogHooking, AppendLive

IdleKept ==
  /\ raw'["server"] = raw["server"] /\ box'["handler"] = box["handler"]
  /\ cb'["server"] = cb["server"] /\ own'["server"] = own["server"]
  /\ stage'["server"] = stage["server"]

LEMMA IdleFrame ==
    IdleKept => /\ ServerIdle => ServerIdle'
                /\ Unbound => Unbound'
                /\ ~Closure => ~Closure'
BY DEF ServerIdle, IdleKept, Up, Closure, Unbound

LEMMA AllKept ==
    ASSUME Typed, UNCHANGED <<raw, box, cb, own, attached, kept, holds, stage>>
    PROVE  Typed' /\ ClientKept /\ LogKept /\ IdleKept
BY DEF Typed, TypeOK, ClientKept, LogKept, IdleKept

LEMMA HandlerMakes ==
    ASSUME Typed, [Next]_vars, NEW t \in Stacks, todo = Push(Makes("handler"), t)
    PROVE  \/ UNCHANGED vars
           \/ /\ Typed' /\ ClientKept /\ LogKept /\ todo' = t /\ Closure'
              /\ UNCHANGED <<raw, cb, own, stage>>
<1>1. "handler" \in Boxes
  BY DEF Boxes
<1>2. CASE /\ box' = [box EXCEPT !["handler"] = "live"]
           /\ UNCHANGED <<raw, cb, own, attached, kept, holds, stage>>
  <2>1. Typed' /\ Closure'
    BY <1>1, <1>2 DEF Typed, TypeOK, Closure
  <2>2. ClientKept /\ LogKept
    BY <1>2, HandlesAssumption DEF ClientKept, LogKept
  <2>. QED  BY <1>1, <1>2, <2>1, <2>2, Making
<1>. QED  BY <1>1, <1>2, Making

LEMMA HandlerInstalls ==
    ASSUME Typed, [Next]_vars, NEW t \in Stacks, todo = Push(Installs("server", "handler"), t)
    PROVE  \/ UNCHANGED vars
           \/ /\ Typed' /\ ClientKept /\ LogKept /\ UNCHANGED <<raw, box, own>>
              /\ \/ todo' = t /\ cb'["server"] = "handler" /\ UNCHANGED stage
                 \/ /\ todo' = Push(Frees("handler"), Push(Closes("server"), <<>>))
                    /\ stage'["server"] = "dropped" /\ UNCHANGED cb
<1>1. "handler" \in Boxes /\ "server" \in Hooked
  BY DEF Boxes, Hooked
<1>2. CASE /\ cb' = [cb EXCEPT !["server"] = "handler"] /\ todo' = t
           /\ UNCHANGED <<raw, box, own, attached, kept, holds, stage>>
  <2>1. Typed' /\ ClientKept /\ LogKept
    BY <1>1, <1>2 DEF Typed, TypeOK, ClientKept, LogKept
  <2>2. cb'["server"] = "handler"
    BY <1>1, <1>2 DEF Typed
  <2>. QED  BY <1>2, <2>1, <2>2
<1>3. CASE /\ todo' = Push(Frees("handler"), Push(Closes("server"), <<>>))
           /\ stage' = [stage EXCEPT !["server"] = "dropped"]
           /\ UNCHANGED <<raw, box, cb, own, attached, kept, holds>>
  <2>1. Typed' /\ ClientKept /\ LogKept
    BY <1>1, <1>3 DEF Typed, TypeOK, ClientKept, LogKept
  <2>2. stage'["server"] = "dropped"
    BY <1>1, <1>3 DEF Typed
  <2>. QED  BY <1>3, <2>1, <2>2
<1>. QED  BY <1>1, <1>2, <1>3, Installing

LEMMA HandlerKeeps ==
    ASSUME Typed, [Next]_vars, NEW t \in Stacks, todo = Push(Keeps("server", "handler"), t)
    PROVE  \/ UNCHANGED vars
           \/ /\ Typed' /\ ClientKept /\ LogKept /\ todo' = t /\ own'["server"] = "handler"
              /\ UNCHANGED <<raw, box, cb, stage>>
<1>1. "handler" \in Boxes /\ "server" \in Hooked
  BY DEF Boxes, Hooked
<1>2. CASE /\ own' = [own EXCEPT !["server"] = "handler"] /\ todo' = t
           /\ UNCHANGED <<raw, box, cb, attached, kept, holds, stage>>
  <2>1. Typed' /\ ClientKept /\ LogKept
    BY <1>1, <1>2 DEF Typed, TypeOK, ClientKept, LogKept
  <2>2. own'["server"] = "handler"
    BY <1>1, <1>2 DEF Typed
  <2>. QED  BY <1>2, <2>1, <2>2
<1>. QED  BY <1>1, <1>2, Keeping

LEMMA HandlerFrees ==
    ASSUME Typed, [Next]_vars, NEW t \in Stacks, todo = Push(Frees("handler"), t)
    PROVE  \/ UNCHANGED vars
           \/ /\ Typed' /\ ClientKept /\ ~Closure' /\ UNCHANGED <<raw, cb, own>>
              /\ \A a \in AppendHooks : box'[a] = box[a]
              /\ stage'["server"] = stage["server"]
              /\ \/ /\ stage["logServer"] = "moved" /\ todo' = Unloading(t)
                    /\ stage'["logServer"] = "dropped"
                 \/ stage["logServer"] # "moved" /\ todo' = t /\ LogKept
<1>1. "handler" \in Boxes /\ "logServer" \in Hooked
  BY DEF Boxes, Hooked
<1>2. ASSUME /\ box' = [box EXCEPT !["handler"] = "freed"]
             /\ UNCHANGED <<raw, cb, own, attached, kept, holds>>
             /\ stage' = [stage EXCEPT !["logServer"] = "dropped"] \/ stage' = stage
      PROVE  /\ Typed' /\ ClientKept /\ ~Closure'
             /\ \A a \in AppendHooks : box'[a] = box[a]
             /\ stage'["server"] = stage["server"]
             /\ stage' = stage => LogKept
             /\ stage' = [stage EXCEPT !["logServer"] = "dropped"] => stage'["logServer"] = "dropped"
  <2>1. Typed' /\ ~Closure'
    BY <1>1, <1>2 DEF Typed, TypeOK, Closure
  <2>2. \A b \in AppendHooks \cup DoneHooks : box'[b] = box[b]
    BY <1>2, HandlesAssumption
  <2>3. /\ stage'["server"] = stage["server"] /\ stage'["client"] = stage["client"]
        /\ stage' = [stage EXCEPT !["logServer"] = "dropped"] => stage'["logServer"] = "dropped"
    BY <1>1, <1>2 DEF Typed, Hooked
  <2>. QED  BY <1>2, <2>1, <2>2, <2>3 DEF ClientKept, LogKept
<1>. QED  BY <1>1, <1>2, Freeing

LEMMA ServerCloses ==
    ASSUME Typed, [Next]_vars, NEW t \in Stacks, todo = Push(Closes("server"), t)
    PROVE  \/ UNCHANGED vars
           \/ /\ Typed' /\ ClientKept /\ LogKept /\ todo' = t /\ raw'["server"] = "closed"
              /\ UNCHANGED <<box, cb, own, stage>>
           \/ /\ Fired("server")
              /\ \/ todo' = Push(Returns(cb["server"]), todo)
                 \/ /\ stage["logServer"] = "moved"
                    /\ todo' = Push(Runs("logServer"), Push(Returns(cb["server"]), todo))
<1>1. "server" \in Objects /\ "server" \notin Caches
  BY HandlesAssumption DEF Objects, Hooked
<1>2. CASE /\ raw' = [raw EXCEPT !["server"] = "closed"]
           /\ UNCHANGED <<box, cb, own, attached, kept, holds, stage>>
  <2>1. Typed' /\ raw'["server"] = "closed"
    BY <1>1, <1>2 DEF Typed, TypeOK
  <2>2. ClientKept /\ LogKept
    BY <1>1, <1>2 DEF ClientKept, LogKept
  <2>. QED  BY <1>1, <1>2, <2>1, <2>2, Closing
<1>. QED  BY <1>1, <1>2, Closing

LEMMA LogMakes ==
    ASSUME Typed, [Next]_vars, NEW a \in AppendHooks, NEW t \in Stacks, todo = Push(Makes(a), t)
    PROVE  \/ UNCHANGED vars
           \/ /\ Typed' /\ ClientKept /\ IdleKept /\ todo' = t /\ UNCHANGED <<raw, cb, own, stage>>
              /\ AppendLive({}) => AppendLive({a})'
<1>1. a \in Boxes
  BY DEF Boxes
<1>2. CASE box' = [box EXCEPT ![a] = "live"] /\ UNCHANGED <<raw, cb, own, attached, kept, holds, stage>>
  <2>1. Typed'
    BY <1>1, <1>2 DEF Typed, TypeOK
  <2>2. ClientKept /\ IdleKept
    BY <1>2, HandlesAssumption DEF ClientKept, IdleKept
  <2>3. AppendLive({}) => AppendLive({a})'
    BY <1>1, <1>2 DEF AppendLive, Typed, TypeOK, Boxes
  <2>. QED  BY <1>1, <1>2, <2>1, <2>2, <2>3, Making
<1>. QED  BY <1>1, <1>2, Making

LEMMA LogInstalls ==
    ASSUME Typed, [Next]_vars, NEW a \in AppendHooks \cup {None}, NEW t \in Stacks,
           todo = Push(Installs("logServer", a), t)
    PROVE  \/ UNCHANGED vars
           \/ /\ Typed' /\ ClientKept /\ IdleKept /\ todo' = t /\ cb'["logServer"] = a
              /\ UNCHANGED <<raw, box, own, stage>>
<1>1. a \in Boxes \cup {None} /\ "logServer" \in Hooked
  BY DEF Boxes, Hooked
<1>2. CASE /\ cb' = [cb EXCEPT !["logServer"] = a]
           /\ UNCHANGED <<raw, box, own, attached, kept, holds, stage>>
  <2>1. Typed'
    BY <1>1, <1>2 DEF Typed, TypeOK
  <2>2. ClientKept /\ IdleKept /\ cb'["logServer"] = a
    BY <1>1, <1>2 DEF ClientKept, IdleKept, Typed
  <2>. QED  BY <1>1, <1>2, <2>1, <2>2, Installing
<1>. QED  BY <1>1, <1>2, Installing

LEMMA LogKeeps ==
    ASSUME Typed, [Next]_vars, NEW a \in AppendHooks \cup {None}, NEW t \in Stacks,
           todo = Push(Keeps("logServer", a), t)
    PROVE  \/ UNCHANGED vars
           \/ /\ Typed' /\ ClientKept /\ IdleKept /\ todo' = t /\ own'["logServer"] = a
              /\ UNCHANGED <<raw, box, cb, stage>>
<1>1. a \in Boxes \cup {None} /\ "logServer" \in Hooked
  BY DEF Boxes, Hooked
<1>2. CASE /\ own' = [own EXCEPT !["logServer"] = a]
           /\ UNCHANGED <<raw, box, cb, attached, kept, holds, stage>>
  <2>1. Typed'
    BY <1>1, <1>2 DEF Typed, TypeOK
  <2>2. ClientKept /\ IdleKept /\ own'["logServer"] = a
    BY <1>1, <1>2 DEF ClientKept, IdleKept, Typed
  <2>. QED  BY <1>1, <1>2, <2>1, <2>2, Keeping
<1>. QED  BY <1>1, <1>2, Keeping

LEMMA LogFrees ==
    ASSUME Typed, [Next]_vars, NEW a \in AppendHooks, NEW t \in Stacks, todo = Push(Frees(a), t)
    PROVE  \/ UNCHANGED vars
           \/ /\ Typed' /\ ClientKept /\ IdleKept /\ todo' = t /\ UNCHANGED <<raw, cb, own, stage>>
              /\ AppendLive({a}) => AppendLive({})'
<1>1. a \in Boxes /\ a # "handler"
  BY HandlesAssumption DEF Boxes
<1>2. CASE box' = [box EXCEPT ![a] = "freed"] /\ UNCHANGED <<raw, cb, own, attached, kept, holds, stage>>
  <2>1. Typed'
    BY <1>1, <1>2 DEF Typed, TypeOK
  <2>2. ClientKept /\ IdleKept
    BY <1>2, HandlesAssumption DEF ClientKept, IdleKept
  <2>3. AppendLive({a}) => AppendLive({})'
    BY <1>1, <1>2 DEF AppendLive, Typed, TypeOK, Boxes
  <2>. QED  BY <1>1, <1>2, <2>1, <2>2, <2>3, Freeing
<1>. QED  BY <1>1, <1>2, Freeing

LEMMA LogCloses ==
    ASSUME Typed, [Next]_vars, NEW o \in {"logServer", "log"}, NEW t \in Stacks,
           todo = Push(Closes(o), t)
    PROVE  \/ UNCHANGED vars
           \/ /\ Typed' /\ ClientKept /\ IdleKept /\ todo' = t
              /\ raw'[o] = "closed" /\ \A q \in {"logServer", "log"} \ {o} : raw'[q] = raw[q]
              /\ UNCHANGED <<box, cb, own, stage>>
           \/ o = "logServer" /\ Fired(o) /\ todo' = Push(Returns(cb[o]), todo)
<1>1. o \in Objects /\ o \notin Caches /\ (o \in Hooked => o = "logServer")
  BY HandlesAssumption DEF Objects, Hooked
<1>2. CASE raw' = [raw EXCEPT ![o] = "closed"] /\ UNCHANGED <<box, cb, own, attached, kept, holds, stage>>
  <2>1. Typed'
    BY <1>1, <1>2 DEF Typed, TypeOK
  <2>2. /\ ClientKept /\ IdleKept /\ raw'[o] = "closed"
        /\ \A q \in {"logServer", "log"} \ {o} : raw'[q] = raw[q]
    BY <1>1, <1>2 DEF ClientKept, IdleKept, Typed, TypeOK
  <2>. QED  BY <1>1, <1>2, <2>1, <2>2, Closing
<1>. QED  BY <1>1, <1>2, Closing

(* The stacks of the server's and the log server's calls, step by step.    *)
LEMMA QuietIsHalf == ServerQuiet /\ todo = <<>> => ServerHalf
BY DEF ServerHalf

LEMMA QuietIsHalfNext == (ServerQuiet /\ todo = <<>> => ServerHalf)'
BY QuietIsHalf, PTL

LEMMA ThenFrame ==
    ASSUME IdleKept, NEW t PROVE Then(t) => Then(t)'
BY IdleFrame DEF Then

(* The log server is dropped, whoever owned it.                            *)
LEMMA Unloads ==
    ASSUME Typed, LogOpen, LogHooking, NEW t \in Rests, Then(t)', todo' = Unloading(t),
           UNCHANGED <<raw, cb, own>>, \A a \in AppendHooks : box'[a] = box[a],
           stage'["logServer"] = "dropped"
    PROVE  Unlogging'
<1>1. own["logServer"] \in AppendHooks \cup {None} /\ None \notin AppendHooks
  BY HandlesAssumption DEF Typed, TypeOK, Boxes
<1>2. raw'["log"] = "open" /\ raw'["logServer"] = "open" /\ cb'["logServer"] = own["logServer"]
  BY DEF LogOpen, LogHooking
<1>3. CASE own["logServer"] = None
  <2>1. AppendLive({})'
    BY <1>1, <1>3 DEF LogHooking, AppendLive
  <2>2. todo' = Push(Closes("logServer"), Push(Closes("log"), t))
    BY <1>3 DEF Unloading, Clearing
  <2>. QED  BY <1>2, <1>3, <2>1, <2>2 DEF Unlogging
<1>4. CASE own["logServer"] \in AppendHooks
  <2>1. AppendLive({own["logServer"]})'
    BY DEF LogHooking, AppendLive
  <2>2. todo' = Push(Closes("logServer"), Push(Keeps("logServer", None),
                  Push(Installs("logServer", None), Push(Frees(own["logServer"]),
                    Push(Closes("log"), t)))))
    BY <1>1, <1>4 DEF Unloading, Clearing
  <2>. QED  BY <1>2, <1>4, <2>1, <2>2 DEF Unlogging
<1>. QED  BY <1>1, <1>3, <1>4

LEMMA Handled ==
    ASSUME Typed, Handling, [Next]_vars
    PROVE  UNCHANGED vars \/ (Typed' /\ ClientKept /\ ServerHalf')
<1>1. PICK t \in {Serve, Shut} :
        LET handler == Push(Returns("handler"), t)
            dispatch == Push(Runs("logServer"), handler)
        IN /\ stage["server"] = IF t = Serve THEN "made" ELSE "dropped"
           /\ \/ todo \in {t, handler}
              \/ /\ stage["logServer"] = "moved"
                 /\ \/ todo = dispatch
                    \/ \E a \in AppendHooks : todo = Push(Returns(a), dispatch)
  BY DEF Handling
<1> DEFINE handler == Push(Returns("handler"), t)
           dispatch == Push(Runs("logServer"), handler)
<1>2. /\ <<>> \in Stacks /\ t \in Stacks /\ handler \in Stacks /\ dispatch \in Stacks
      /\ "handler" \in Boxes /\ {"server", "logServer"} \subseteq Hooked /\ AppendHooks \subseteq Boxes
      /\ Push(Frees("handler"), <<>>) \in Stacks
  BY Prepended, Constructors DEF Serve, Shut, Boxes, Objects, Hooked
<1>3. Up /\ own["server"] = "handler" /\ LogQuiet
  BY DEF Handling
<1>4. ASSUME UNCHANGED <<raw, box, cb, own, attached, kept, holds, stage>>
      PROVE  /\ Typed' /\ ClientKept /\ Up' /\ own'["server"] = "handler" /\ LogQuiet'
             /\ stage' = stage
  BY <1>3, <1>4, AllKept, LogFrame DEF Up, Closure
<1>5. ASSUME UNCHANGED <<raw, box, cb, own, attached, kept, holds, stage>>,
             \/ todo' \in {t, handler}
             \/ /\ stage["logServer"] = "moved"
                /\ todo' = dispatch \/ (\E a \in AppendHooks : todo' = Push(Returns(a), dispatch))
      PROVE  Typed' /\ ClientKept /\ ServerHalf'
  <2>1. Handling'
    BY <1>1, <1>4, <1>5 DEF Handling
  <2>. QED  BY <1>4, <1>5, <2>1 DEF ServerHalf, ServerBusy
<1>6. CASE todo = t /\ t = Serve
  <2>1. CASE todo' = <<>> /\ UNCHANGED <<raw, box, cb, own, attached, kept, holds, stage>>
    <3>1. ServerQuiet'
      <4>1. stage'["server"] = "made"
        BY <1>1, <1>6, <2>1
      <4>. QED  BY <1>4, <2>1, <4>1 DEF ServerQuiet, ServerIdle
    <3>. QED  BY <1>4, <2>1, <3>1, QuietIsHalfNext
  <2>2. CASE /\ Fired("server")
             /\ \/ todo' = Push(Returns(cb["server"]), todo)
                \/ /\ stage["logServer"] = "moved"
                   /\ todo' = Push(Runs("logServer"), Push(Returns(cb["server"]), todo))
    BY <1>3, <1>5, <1>6, <2>2 DEF Fired, Up
  <2>. QED  BY <1>2, <1>6, <2>1, <2>2, Ticks DEF Serve
<1>7. CASE todo = t /\ t = Shut
  <2>1. CASE /\ Typed' /\ ClientKept /\ LogKept /\ todo' = Push(Frees("handler"), <<>>)
             /\ raw'["server"] = "closed" /\ UNCHANGED <<box, cb, own, stage>>
    <3>1. Serve # Shut
      <4>1. /\ Head(Serve) = Runs("server") /\ Head(Shut) = Closes("server")
        BY <1>2, Top, Constructors DEF Serve, Shut, Objects, Hooked
      <4>. QED  BY <4>1 DEF Runs, Closes, Step
    <3>2. Discarding'
      BY <1>1, <1>3, <1>7, <2>1, <3>1, LogFrame DEF Discarding, Up, Closure
    <3>. QED  BY <2>1, <3>2 DEF ServerHalf, ServerBusy
  <2>2. CASE /\ Fired("server")
             /\ \/ todo' = Push(Returns(cb["server"]), todo)
                \/ /\ stage["logServer"] = "moved"
                   /\ todo' = Push(Runs("logServer"), Push(Returns(cb["server"]), todo))
    BY <1>3, <1>5, <1>7, <2>2 DEF Fired, Up
  <2>. QED  BY <1>2, <1>7, <2>1, <2>2, ServerCloses DEF Shut
<1>8. CASE todo = handler
  <2>1. \/ UNCHANGED vars
        \/ todo' = t /\ UNCHANGED <<raw, box, cb, own, attached, kept, holds, stage>>
    BY <1>2, <1>8, Returning
  <2>. QED  BY <1>5, <2>1
<1>9. CASE stage["logServer"] = "moved" /\ todo = dispatch
  <2>1. CASE todo' = handler /\ UNCHANGED <<raw, box, cb, own, attached, kept, holds, stage>>
    BY <1>5, <2>1
  <2>2. CASE Fired("logServer") /\ todo' = Push(Returns(cb["logServer"]), todo)
    <3>1. cb["logServer"] \in AppendHooks
      BY <2>2 DEF Fired, Typed, TypeOK
    <3>. QED  BY <1>5, <1>9, <2>2, <3>1 DEF Fired
  <2>. QED  BY <1>2, <1>9, <2>1, <2>2, Ticks
<1>10. ASSUME stage["logServer"] = "moved", NEW a \in AppendHooks, todo = Push(Returns(a), dispatch)
       PROVE  UNCHANGED vars \/ (Typed' /\ ClientKept /\ ServerHalf')
  <2>1. \/ UNCHANGED vars
        \/ todo' = dispatch /\ UNCHANGED <<raw, box, cb, own, attached, kept, holds, stage>>
    BY <1>2, <1>10, Returning
  <2>. QED  BY <1>5, <1>10, <2>1
<1>. QED  BY <1>1, <1>6, <1>7, <1>8, <1>9, <1>10

LEMMA Builds ==
    ASSUME Typed, Building, [Next]_vars
    PROVE  UNCHANGED vars \/ (Typed' /\ ClientKept /\ ServerHalf')
<1> DEFINE keep == Push(Keeps("server", "handler"), <<>>)
           install == Push(Installs("server", "handler"), keep)
           make == Push(Makes("handler"), install)
<1>1. <<>> \in Stacks /\ keep \in Stacks /\ install \in Stacks
  BY Prepended, Constructors DEF Boxes, Hooked
<1>2. /\ stage["server"] = "made" /\ raw["server"] = "open" /\ LogQuiet
      /\ \/ todo = make /\ ~Closure /\ cb["server"] = None
         \/ todo = install /\ Closure /\ cb["server"] = None
         \/ todo = keep /\ Closure /\ cb["server"] = "handler"
  BY DEF Building
<1>3. CASE todo = make /\ ~Closure /\ cb["server"] = None
  <2>1. CASE Typed' /\ ClientKept /\ LogKept /\ todo' = install /\ Closure'
             /\ UNCHANGED <<raw, cb, own, stage>>
    BY <1>2, <1>3, <2>1, LogFrame DEF Building, ServerHalf, ServerBusy
  <2>. QED  BY <1>1, <1>3, <2>1, HandlerMakes
<1>4. CASE todo = install /\ Closure /\ cb["server"] = None
  <2>1. CASE /\ Typed' /\ ClientKept /\ LogKept /\ UNCHANGED <<raw, box, own, stage>>
             /\ todo' = keep /\ cb'["server"] = "handler"
    BY <1>2, <1>4, <2>1, LogFrame DEF Building, Closure, ServerHalf, ServerBusy
  <2>2. CASE /\ Typed' /\ ClientKept /\ LogKept /\ UNCHANGED <<raw, box, own, cb>>
             /\ todo' = Push(Frees("handler"), Push(Closes("server"), <<>>))
             /\ stage'["server"] = "dropped"
    BY <1>2, <1>4, <2>2, LogFrame DEF Discarding, Unbound, Closure, ServerHalf, ServerBusy
  <2>. QED  BY <1>1, <1>4, <2>1, <2>2, HandlerInstalls
<1>5. CASE todo = keep /\ Closure /\ cb["server"] = "handler"
  <2>1. CASE /\ Typed' /\ ClientKept /\ LogKept /\ todo' = <<>> /\ own'["server"] = "handler"
             /\ UNCHANGED <<raw, box, cb, stage>>
    <3>1. ServerQuiet'
      BY <1>2, <1>5, <2>1, LogFrame DEF ServerQuiet, ServerIdle, Up, Closure
    <3>. QED  BY <2>1, <3>1, QuietIsHalfNext
  <2>. QED  BY <1>1, <1>5, <2>1, HandlerKeeps
<1>. QED  BY <1>2, <1>3, <1>4, <1>5

LEMMA Discards ==
    ASSUME Typed, Discarding, [Next]_vars
    PROVE  UNCHANGED vars \/ (Typed' /\ ClientKept /\ ServerHalf')
<1>1. PICK t \in Rests :
        /\ todo = Push(Frees("handler"), t)
        /\ \/ t = <<>> /\ stage["server"] = "dropped" /\ raw["server"] = "closed"
           \/ t = Push(Closes("server"), <<>>) /\ Unbound
  BY DEF Discarding, Rests
<1>2. t \in Stacks /\ Push(Closes("server"), <<>>) # <<>>
  <2>1. <<>> \in Stacks /\ Closes("server") \in Moves
    BY Prepended, Constructors DEF Objects, Hooked
  <2>. QED  BY <2>1, Top DEF Rests
<1>3. ASSUME ~Closure', UNCHANGED <<raw, cb, own>>, stage'["server"] = stage["server"]
      PROVE  Then(t)'
  BY <1>1, <1>3 DEF Then, ServerIdle, Unbound, Closure
<1>4. CASE /\ Typed' /\ ClientKept /\ ~Closure' /\ UNCHANGED <<raw, cb, own>>
           /\ \A a \in AppendHooks : box'[a] = box[a]
           /\ stage'["server"] = stage["server"]
           /\ stage["logServer"] = "moved" /\ todo' = Unloading(t)
           /\ stage'["logServer"] = "dropped"
  <2>1. LogOpen /\ LogHooking
    BY <1>4 DEF Discarding, LogQuiet
  <2>. QED  BY <1>3, <1>4, <2>1, Unloads DEF ServerHalf, ServerBusy
<1>5. CASE /\ Typed' /\ ClientKept /\ ~Closure' /\ UNCHANGED <<raw, cb, own>>
           /\ stage'["server"] = stage["server"]
           /\ stage["logServer"] # "moved" /\ todo' = t /\ LogKept
  <2>1. Then(t)' /\ LogQuiet' /\ stage'["logServer"] # "moved"
    BY <1>3, <1>5, LogFrame DEF Discarding
  <2>2. CASE t = <<>>
    <3>1. ServerQuiet'
      BY <1>1, <1>2, <1>5, <2>1, <2>2 DEF ServerQuiet, ServerIdle
    <3>. QED  BY <1>5, <2>2, <3>1, QuietIsHalfNext
  <2>3. CASE t # <<>>
    BY <1>5, <2>1, <2>3 DEF Unserving, ServerHalf, ServerBusy
  <2>. QED  BY <2>2, <2>3
<1>. QED  BY <1>1, <1>2, <1>4, <1>5, HandlerFrees

LEMMA Logs ==
    ASSUME Typed, Logging, [Next]_vars
    PROVE  UNCHANGED vars \/ (Typed' /\ ClientKept /\ ServerHalf')
<1> DEFINE run == Push(Runs("logServer"), <<>>)
<1>1. /\ <<>> \in Stacks /\ run \in Stacks /\ "logServer" \in Hooked
      /\ AppendHooks \subseteq Boxes
  BY Prepended, Constructors DEF Objects, Hooked, Boxes
<1>2. /\ ServerIdle /\ stage["logServer"] = "made" /\ LogOpen /\ LogHooking
      /\ todo = run \/ \E a \in AppendHooks : todo = Push(Returns(a), run)
  BY DEF Logging
<1>3. ASSUME UNCHANGED <<raw, box, cb, own, attached, kept, holds, stage>>
      PROVE  /\ Typed' /\ ClientKept /\ ServerIdle' /\ stage'["logServer"] = "made"
             /\ LogOpen' /\ LogHooking'
  BY <1>2, <1>3, AllKept, IdleFrame DEF LogOpen, LogHooking, AppendLive
<1>4. CASE todo = run
  <2>1. CASE todo' = <<>> /\ UNCHANGED <<raw, box, cb, own, attached, kept, holds, stage>>
    <3>1. ServerQuiet'
      BY <1>3, <2>1 DEF ServerQuiet, LogQuiet
    <3>. QED  BY <1>3, <2>1, <3>1, QuietIsHalfNext
  <2>2. CASE Fired("logServer") /\ todo' = Push(Returns(cb["logServer"]), todo)
    <3>1. cb["logServer"] \in AppendHooks
      BY <2>2 DEF Fired, Typed, TypeOK
    <3>. QED  BY <1>3, <1>4, <2>2, <3>1 DEF Fired, Logging, ServerHalf, ServerBusy
  <2>. QED  BY <1>1, <1>4, <2>1, <2>2, Ticks
<1>5. ASSUME NEW a \in AppendHooks, todo = Push(Returns(a), run)
      PROVE  UNCHANGED vars \/ (Typed' /\ ClientKept /\ ServerHalf')
  <2>1. \/ UNCHANGED vars
        \/ todo' = run /\ UNCHANGED <<raw, box, cb, own, attached, kept, holds, stage>>
    BY <1>1, <1>5, Returning
  <2>. QED  BY <1>3, <2>1 DEF Logging, ServerHalf, ServerBusy
<1>. QED  BY <1>2, <1>4, <1>5

LEMMA Appends ==
    ASSUME Typed, Appending, [Next]_vars
    PROVE  UNCHANGED vars \/ (Typed' /\ ClientKept /\ ServerHalf')
<1>1. PICK h \in AppendHooks :
       LET keep == Push(Keeps("logServer", h), <<>>)
           install == Push(Installs("logServer", h), keep)
           make == Push(Makes(h), install)
       IN \/ \E a \in AppendHooks :
               LET free == Push(Frees(a), make)
                   unset == Push(Installs("logServer", None), free)
               IN todo \in {free, unset, Push(Keeps("logServer", None), unset)} /\ AppendLive({a})
          \/ todo = make /\ AppendLive({})
          \/ todo = install /\ AppendLive({h})
          \/ todo = keep /\ AppendLive({h}) /\ cb["logServer"] = h
  BY DEF Appending
<1> DEFINE keep == Push(Keeps("logServer", h), <<>>)
           install == Push(Installs("logServer", h), keep)
           make == Push(Makes(h), install)
           free(a) == Push(Frees(a), make)
           unset(a) == Push(Installs("logServer", None), free(a))
           clear(a) == Push(Keeps("logServer", None), unset(a))
<1>2. /\ <<>> \in Stacks /\ keep \in Stacks /\ install \in Stacks /\ make \in Stacks
      /\ \A a \in AppendHooks : free(a) \in Stacks /\ unset(a) \in Stacks
  BY Prepended, Constructors DEF Boxes, Hooked
<1>3. ServerIdle /\ stage["logServer"] = "made" /\ LogOpen
  BY DEF Appending
<1>4. ASSUME IdleKept, UNCHANGED <<raw, stage>>
      PROVE  ServerIdle' /\ stage'["logServer"] = "made" /\ LogOpen'
  BY <1>3, <1>4, IdleFrame DEF LogOpen
<1>5. ASSUME NEW a \in AppendHooks, AppendLive({a}), todo = clear(a)
      PROVE  UNCHANGED vars \/ (Typed' /\ ClientKept /\ ServerHalf')
  <2>1. CASE Typed' /\ ClientKept /\ IdleKept /\ todo' = unset(a) /\ UNCHANGED <<raw, box, cb, stage>>
    <3>1. AppendLive({a})'
      BY <1>5, <2>1 DEF AppendLive
    <3>. QED  BY <1>4, <2>1, <3>1 DEF Appending, ServerHalf, ServerBusy
  <2>. QED  BY <1>2, <1>5, <2>1, LogKeeps
<1>6. ASSUME NEW a \in AppendHooks, AppendLive({a}), todo = unset(a)
      PROVE  UNCHANGED vars \/ (Typed' /\ ClientKept /\ ServerHalf')
  <2>1. CASE Typed' /\ ClientKept /\ IdleKept /\ todo' = free(a) /\ UNCHANGED <<raw, box, own, stage>>
    <3>1. AppendLive({a})'
      BY <1>6, <2>1 DEF AppendLive
    <3>. QED  BY <1>4, <2>1, <3>1 DEF Appending, ServerHalf, ServerBusy
  <2>. QED  BY <1>2, <1>6, <2>1, LogInstalls
<1>7. ASSUME NEW a \in AppendHooks, AppendLive({a}), todo = free(a)
      PROVE  UNCHANGED vars \/ (Typed' /\ ClientKept /\ ServerHalf')
  <2>1. CASE /\ Typed' /\ ClientKept /\ IdleKept /\ todo' = make /\ UNCHANGED <<raw, cb, own, stage>>
             /\ AppendLive({})'
    BY <1>4, <2>1 DEF Appending, ServerHalf, ServerBusy
  <2>. QED  BY <1>2, <1>7, <2>1, LogFrees
<1>8. CASE todo = make /\ AppendLive({})
  <2>1. CASE /\ Typed' /\ ClientKept /\ IdleKept /\ todo' = install /\ UNCHANGED <<raw, cb, own, stage>>
             /\ AppendLive({h})'
    BY <1>4, <2>1 DEF Appending, ServerHalf, ServerBusy
  <2>. QED  BY <1>2, <1>8, <2>1, LogMakes
<1>9. CASE todo = install /\ AppendLive({h})
  <2>1. CASE /\ Typed' /\ ClientKept /\ IdleKept /\ todo' = keep /\ UNCHANGED <<raw, box, own, stage>>
             /\ cb'["logServer"] = h
    <3>1. AppendLive({h})'
      BY <1>9, <2>1 DEF AppendLive
    <3>. QED  BY <1>4, <2>1, <3>1 DEF Appending, ServerHalf, ServerBusy
  <2>. QED  BY <1>2, <1>9, <2>1, LogInstalls
<1>10. CASE todo = keep /\ AppendLive({h}) /\ cb["logServer"] = h
  <2>1. CASE /\ Typed' /\ ClientKept /\ IdleKept /\ todo' = <<>> /\ UNCHANGED <<raw, box, cb, stage>>
             /\ own'["logServer"] = h
    <3>1. LogHooking'
      BY <1>10, <2>1 DEF LogHooking, AppendLive
    <3>2. ServerQuiet'
      BY <1>4, <2>1, <3>1 DEF ServerQuiet, LogQuiet
    <3>. QED  BY <2>1, <3>2, QuietIsHalfNext
  <2>. QED  BY <1>2, <1>10, <2>1, LogKeeps
<1>. QED  BY <1>1, <1>5, <1>6, <1>7, <1>8, <1>9, <1>10

LEMMA Unlogs ==
    ASSUME Typed, Unlogging, [Next]_vars
    PROVE  UNCHANGED vars \/ (Typed' /\ ClientKept /\ ServerHalf')
<1>1. PICK t \in Rests :
       LET close == Push(Closes("log"), t)
       IN /\ Then(t)
          /\ \/ \E a \in AppendHooks :
                  LET free == Push(Frees(a), close)
                      unset == Push(Installs("logServer", None), free)
                      clear == Push(Keeps("logServer", None), unset)
                      all == Push(Closes("logServer"), clear)
                  IN /\ AppendLive({a})
                     /\ \/ todo \in {free, unset, clear} /\ raw["logServer"] # "open"
                        \/ /\ cb["logServer"] = a /\ raw["logServer"] = "open"
                           /\ todo = all \/ \E b \in AppendHooks : todo = Push(Returns(b), all)
             \/ /\ AppendLive({})
                /\ \/ todo = close /\ raw["logServer"] # "open"
                   \/ /\ todo = Push(Closes("logServer"), close)
                      /\ cb["logServer"] = None /\ raw["logServer"] = "open"
  BY DEF Unlogging
<1> DEFINE close == Push(Closes("log"), t)
           free(a) == Push(Frees(a), close)
           unset(a) == Push(Installs("logServer", None), free(a))
           clear(a) == Push(Keeps("logServer", None), unset(a))
           all(a) == Push(Closes("logServer"), clear(a))
<1>2. t \in Stacks
  <2>1. <<>> \in Stacks /\ Closes("server") \in Moves
    BY Prepended, Constructors DEF Objects, Hooked
  <2>. QED  BY <2>1, Top DEF Rests
<1>3. /\ close \in Stacks
      /\ \A a \in AppendHooks : /\ free(a) \in Stacks /\ unset(a) \in Stacks
                                /\ clear(a) \in Stacks /\ all(a) \in Stacks
  <2>1. close \in Stacks
    BY <1>2, Prepended, Constructors DEF Objects
  <2>. QED  BY <2>1, Prepended, Constructors DEF Boxes, Objects, Hooked
<1>4. stage["logServer"] = "dropped" /\ raw["log"] = "open" /\ Then(t)
  BY <1>1 DEF Unlogging
<1>5. ASSUME IdleKept, UNCHANGED stage
      PROVE  Then(t)' /\ stage'["logServer"] = "dropped"
  BY <1>4, <1>5, ThenFrame
<1>6. ASSUME NEW a \in AppendHooks, AppendLive({a}), cb["logServer"] = a, raw["logServer"] = "open",
             todo = all(a)
      PROVE  UNCHANGED vars \/ (Typed' /\ ClientKept /\ ServerHalf')
  <2>1. CASE /\ Typed' /\ ClientKept /\ IdleKept /\ todo' = clear(a) /\ UNCHANGED <<box, cb, own, stage>>
             /\ raw'["logServer"] = "closed" /\ raw'["log"] = raw["log"]
    <3>1. AppendLive({a})'
      BY <1>6, <2>1 DEF AppendLive
    <3>. QED  BY <1>4, <1>5, <2>1, <3>1 DEF Unlogging, ServerHalf, ServerBusy
  <2>2. CASE Fired("logServer") /\ todo' = Push(Returns(cb["logServer"]), todo)
    <3>1. Typed' /\ ClientKept /\ IdleKept /\ AppendLive({a})'
      BY <1>6, <2>2, AllKept DEF Fired, AppendLive
    <3>. QED  BY <1>4, <1>5, <1>6, <2>2, <3>1 DEF Fired, Unlogging, ServerHalf, ServerBusy
  <2>. QED  BY <1>3, <1>6, <2>1, <2>2, LogCloses
<1>7. ASSUME NEW a \in AppendHooks, AppendLive({a}), cb["logServer"] = a, raw["logServer"] = "open",
             NEW b \in AppendHooks, todo = Push(Returns(b), all(a))
      PROVE  UNCHANGED vars \/ (Typed' /\ ClientKept /\ ServerHalf')
  <2>1. \/ UNCHANGED vars
        \/ todo' = all(a) /\ UNCHANGED <<raw, box, cb, own, attached, kept, holds, stage>>
    BY <1>3, <1>7, Returning DEF Boxes
  <2>2. CASE todo' = all(a) /\ UNCHANGED <<raw, box, cb, own, attached, kept, holds, stage>>
    <3>1. Typed' /\ ClientKept /\ IdleKept /\ AppendLive({a})'
      BY <1>7, <2>2, AllKept DEF AppendLive
    <3>. QED  BY <1>4, <1>5, <1>7, <2>2, <3>1 DEF Unlogging, ServerHalf, ServerBusy
  <2>. QED  BY <2>1, <2>2
<1>8. ASSUME NEW a \in AppendHooks, AppendLive({a}), raw["logServer"] # "open",
             todo \in {free(a), unset(a), clear(a)}
      PROVE  UNCHANGED vars \/ (Typed' /\ ClientKept /\ ServerHalf')
  <2>1. ASSUME Typed', ClientKept, IdleKept, UNCHANGED <<raw, box, stage>>,
               todo' = free(a) \/ todo' = unset(a)
        PROVE  ServerHalf'
    <3>1. AppendLive({a})'
      BY <1>8, <2>1 DEF AppendLive
    <3>. QED  BY <1>4, <1>5, <1>8, <2>1, <3>1 DEF Unlogging, ServerHalf, ServerBusy
  <2>2. CASE todo = clear(a)
    BY <1>3, <2>1, <2>2, LogKeeps
  <2>3. CASE todo = unset(a)
    BY <1>3, <2>1, <2>3, LogInstalls
  <2>4. CASE todo = free(a)
    <3>1. CASE /\ Typed' /\ ClientKept /\ IdleKept /\ todo' = close /\ UNCHANGED <<raw, cb, own, stage>>
               /\ AppendLive({})'
      BY <1>4, <1>5, <1>8, <3>1 DEF Unlogging, ServerHalf, ServerBusy
    <3>. QED  BY <1>3, <1>8, <2>4, <3>1, LogFrees
  <2>. QED  BY <1>8, <2>2, <2>3, <2>4
<1>9. CASE AppendLive({}) /\ todo = close /\ raw["logServer"] # "open"
  <2>1. CASE /\ Typed' /\ ClientKept /\ IdleKept /\ todo' = t /\ UNCHANGED <<box, cb, own, stage>>
             /\ raw'["log"] = "closed" /\ raw'["logServer"] = raw["logServer"]
    <3>1. LogQuiet' /\ Then(t)' /\ stage'["logServer"] = "dropped"
      BY <1>5, <1>9, <2>1 DEF LogQuiet, LogShut, AppendLive
    <3>2. CASE t = <<>>
      <4>1. ServerIdle'
        <5>1. Closes("server") \in Moves /\ <<>> \in Stacks
          BY Prepended, Constructors DEF Objects, Hooked
        <5>2. Push(Closes("server"), <<>>) # <<>>
          BY <5>1, Top
        <5>. QED  BY <3>1, <3>2, <5>2 DEF Then
      <4>. QED  BY <2>1, <3>1, <3>2, <4>1, QuietIsHalfNext DEF ServerQuiet
    <3>3. CASE t # <<>>
      BY <2>1, <3>1, <3>3 DEF Unserving, ServerHalf, ServerBusy
    <3>. QED  BY <2>1, <3>2, <3>3
  <2>. QED  BY <1>2, <1>9, <2>1, LogCloses
<1>10. CASE /\ AppendLive({}) /\ todo = Push(Closes("logServer"), close)
            /\ cb["logServer"] = None /\ raw["logServer"] = "open"
  <2>1. CASE /\ Typed' /\ ClientKept /\ IdleKept /\ todo' = close /\ UNCHANGED <<box, cb, own, stage>>
             /\ raw'["logServer"] = "closed" /\ raw'["log"] = raw["log"]
    <3>1. AppendLive({})'
      BY <1>10, <2>1 DEF AppendLive
    <3>. QED  BY <1>4, <1>5, <2>1, <3>1 DEF Unlogging, ServerHalf, ServerBusy
  <2>. QED  BY <1>3, <1>10, <2>1, LogCloses DEF Fired
<1>. QED  BY <1>1, <1>6, <1>7, <1>8, <1>9, <1>10

LEMMA Unserves ==
    ASSUME Typed, Unserving, [Next]_vars
    PROVE  UNCHANGED vars \/ (Typed' /\ ClientKept /\ ServerHalf')
<1>1. /\ todo = Push(Closes("server"), <<>>) /\ Unbound /\ ~Closure
      /\ LogQuiet /\ stage["logServer"] # "moved" /\ <<>> \in Stacks
  BY Prepended DEF Unserving, Then
<1>2. CASE /\ Typed' /\ ClientKept /\ LogKept /\ todo' = <<>> /\ raw'["server"] = "closed"
           /\ UNCHANGED <<box, cb, own, stage>>
  <2>1. ServerQuiet'
    BY <1>1, <1>2, LogFrame DEF Unbound, Closure, ServerQuiet, ServerIdle
  <2>. QED  BY <1>2, <2>1, QuietIsHalfNext
<1>. QED  BY <1>1, <1>2, ServerCloses DEF Fired, Unbound

LEMMA ServerSteps ==
    ASSUME Typed, ServerBusy, [Next]_vars
    PROVE  UNCHANGED vars \/ (Typed' /\ ClientKept /\ ServerHalf')
BY Handled, Builds, Discards, Logs, Appends, Unlogs, Unserves DEF ServerBusy

-----------------------------------------------------------------------------
(* The embedder's calls, made when nothing is under way.                   *)
Idle == Typed /\ todo = <<>> /\ ClientQuiet /\ ServerQuiet

LEMMA ClientCalls ==
    ASSUME Idle, Connect \/ IntoClient \/ DropConnecting \/ UseClient \/ ShareCache \/ DropClient
    PROVE  Typed' /\ ServerKept /\ ClientHalf'
<1>1. /\ <<>> \in Stacks /\ <<>> \in Afters /\ "client" \in Hooked /\ "client" \in Objects
      /\ "client" \notin Caches
  BY Prepended, HandlesAssumption DEF Afters, Hooked, Objects
<1>2. Typed /\ Shared(Holders)
  BY DEF Idle, ClientQuiet
<1>3. ASSUME NEW from, NEW to \in {"connecting", "made", "dropped"}, Becomes("client", from, to),
             UNCHANGED <<raw, box, cb, own, attached, kept, holds>>
      PROVE  /\ Typed' /\ ServerKept /\ stage["client"] = from /\ stage'["client"] = to
             /\ Shared(Holders)' /\ \A L \in SUBSET (DoneHooks \cup {None}) : DoneLive(L) => DoneLive(L)'
  <2>1. stage' = [stage EXCEPT !["client"] = to] /\ stage["client"] = from
    BY <1>3 DEF Becomes
  <2>2. Typed' /\ stage'["client"] = to
    BY <1>1, <1>2, <1>3, <2>1 DEF Typed, TypeOK
  <2>3. ServerKept
    BY <1>3, <2>1 DEF ServerKept
  <2>. QED  BY <1>2, <1>3, <2>1, <2>2, <2>3 DEF Shared, Holders, DoneLive
<1>4. CASE Connect
  <2>1. /\ stage["client"] = "none" /\ stage' = [stage EXCEPT !["client"] = "connecting"]
        /\ raw' = [raw EXCEPT !["client"] = "open"] /\ todo' = <<>>
        /\ UNCHANGED <<box, cb, own, attached, kept, holds>>
    BY <1>4 DEF Connect, Call, Becomes, cbVars, cacheVars
  <2>2. Typed' /\ stage'["client"] = "connecting" /\ raw'["client"] = "open"
    BY <1>1, <1>2, <2>1 DEF Typed, TypeOK
  <2>3. ServerKept
    BY <2>1 DEF ServerKept
  <2>4. Unmade
    BY <2>1 DEF Idle, ClientQuiet, Made, InUse, Gone
  <2>5. Unmade' /\ Shared(Holders)'
    BY <1>1, <1>2, <2>1, <2>2, <2>4 DEF Unmade, Shared, Holders, DoneLive
  <2>. QED  BY <2>1, <2>2, <2>3, <2>5 DEF ClientHalf, ClientQuiet
<1>5. CASE IntoClient
  <2>1. /\ Becomes("client", "connecting", "made") /\ todo' = <<>>
        /\ UNCHANGED <<raw, box, cb, own, attached, kept, holds>>
    BY <1>5 DEF IntoClient, IntoClientDrops, Call, cbVars, cacheVars
  <2>2. /\ Typed' /\ ServerKept /\ stage["client"] = "connecting" /\ stage'["client"] = "made"
        /\ Shared(Holders)'
    BY <1>3, <2>1
  <2>3. Unmade
    BY <2>2 DEF Idle, ClientQuiet, Made, InUse, Gone
  <2>4. DoneLive({None})'
    BY <2>1, <2>3, HandlesAssumption DEF Unmade, DoneLive, Boxes
  <2>5. Made'
    BY <2>1, <2>2, <2>3, <2>4 DEF Unmade, Made, InUse, Hooking
  <2>. QED  BY <2>1, <2>2, <2>5 DEF ClientHalf, ClientQuiet
<1>6. CASE DropConnecting
  <2>1. /\ Becomes("client", "connecting", "dropped") /\ todo' = ConnectingDrop
        /\ UNCHANGED <<raw, box, cb, own, attached, kept, holds>>
    BY <1>6 DEF DropConnecting, Call, cbVars, cacheVars
  <2>2. /\ Typed' /\ ServerKept /\ stage["client"] = "connecting" /\ stage'["client"] = "dropped"
        /\ Shared(Holders)' /\ (DoneLive({}) => DoneLive({})')
    BY <1>3, <2>1
  <2>3. Unmade
    BY <2>2 DEF Idle, ClientQuiet, Made, InUse, Gone
  <2>4. ConnectingDrop = Push(Closes("client"), <<>>)
    BY <1>1, Listed, Constructors DEF ConnectingDrop, Closes
  <2>5. Leaving'
    BY <2>1, <2>2, <2>3, <2>4 DEF Unmade, Leaving
  <2>. QED  BY <2>2, <2>5 DEF ClientHalf, ClientBusy
<1>7. CASE UseClient
  <2>1. /\ stage["client"] = "made" /\ UNCHANGED <<raw, box, cb, own, attached, kept, holds, stage>>
        /\ \/ todo' = <<Step("run", "client", None)>>
           \/ \E h \in DoneHooks : todo' = OnRequestDone(h)
    BY <1>7 DEF UseClient, Call, cbVars, cacheVars
  <2>2. Made
    BY <2>1 DEF Idle, ClientQuiet, Unmade, Gone
  <2>3. Typed' /\ ServerKept /\ Made' /\ Shared(Holders)'
    BY <1>2, <2>1, <2>2, Unfired DEF Made, InUse, Hooking, DoneLive, Shared, Holders
  <2>4. CASE todo' = <<Step("run", "client", None)>>
    <3>1. todo' = Tick
      BY <1>1, <2>4, Listed, Constructors DEF Tick, Runs
    <3>. QED  BY <2>3, <3>1 DEF Ticking, ClientHalf, ClientBusy
  <2>5. ASSUME NEW h \in DoneHooks, todo' = OnRequestDone(h) PROVE ClientHalf'
    <3>1. todo' = Renewing(h, <<>>)
      BY <1>1, <1>2, <2>5, Renewed, Prepended
    <3>. QED  BY <1>1, <1>2, <2>1, <2>2, <3>1, Renews DEF ClientHalf, ClientBusy
  <2>. QED  BY <2>1, <2>3, <2>4, <2>5
<1>8. CASE ShareCache
  <2>1. PICK k \in holds \cup {None} :
          /\ todo' = SetCache(k) /\ holds' \in {holds, holds \ {k}}
          /\ stage["client"] = "made" /\ UNCHANGED <<raw, box, cb, own, attached, kept, stage>>
    BY <1>8 DEF ShareCache, Call, cbVars
  <2>2. Made
    BY <2>1 DEF Idle, ClientQuiet, Unmade, Gone
  <2>3. k \in Caches \cup {None} /\ todo' = Push(Attaches(k), <<>>)
    <3>1. k \in Caches \cup {None}
      BY <1>2 DEF Typed, TypeOK
    <3>. QED  BY <1>1, <2>1, <3>1, Listed, Constructors DEF SetCache, Attaches
  <2>4. Typed' /\ ServerKept
    BY <1>2, <2>1 DEF Typed, TypeOK, ServerKept
  <2>5. Made' /\ Shared(Holders \cup {k})'
    BY <1>2, <2>1, <2>2, HandlesAssumption DEF Made, InUse, Hooking, DoneLive, Shared, Holders
  <2>6. Caching'
    BY <1>1, <2>3, <2>5 DEF Caching, Made
  <2>. QED  BY <2>4, <2>6 DEF ClientHalf, ClientBusy
<1>9. CASE DropClient
  <2>1. /\ Becomes("client", "made", "dropped") /\ todo' = ClientDrop
        /\ UNCHANGED <<raw, box, cb, own, attached, kept, holds>>
    BY <1>9 DEF DropClient, Call, cbVars, cacheVars
  <2>2. own["client"] \in DoneHooks \cup {None} /\ None \notin Boxes /\ DoneHooks \subseteq Boxes
    BY <1>2, HandlesAssumption DEF Typed, TypeOK, Boxes
  <2>3. /\ Typed' /\ ServerKept /\ stage["client"] = "made" /\ stage'["client"] = "dropped"
        /\ Shared(Holders)' /\ (DoneLive({own["client"]}) => \A h \in DoneHooks : box'[h] = "live" <=> h \in {own["client"]})
    BY <1>3, <2>1 DEF DoneLive
  <2>4. Made
    BY <2>3 DEF Idle, ClientQuiet, Unmade, Gone
  <2>5. Hooking'
    BY <2>1, <2>3, <2>4 DEF Made, Hooking, DoneLive
  <2> DEFINE free == IF own["client"] = None THEN Unhold ELSE Push(Frees(own["client"]), Unhold)
  <2>6. todo' = Push(Closes("client"), free) /\ free \in {Unhold} \cup {Push(Frees(b), Unhold) : b \in DoneHooks}
    <3>1. /\ Closes("client") \in Moves /\ Holds(None) \in Moves
          /\ <<Closes("client")>> \in Stacks /\ <<Holds(None)>> = Unhold /\ Unhold \in Stacks
      BY <1>1, Constructors, Prepended, Listed DEF Unhold
    <3>2. /\ ClientDrop = Cat(Cat(<<Closes("client")>>, Free(own["client"])), <<Holds(None)>>)
          /\ Free(own["client"]) \in Stacks
      BY <1>1, <2>2, Stacked DEF ClientDrop, Closes, Holds, Cat
    <3>3. ClientDrop = Push(Closes("client"), Cat(Free(own["client"]), Unhold))
      <4>1. ClientDrop = Cat(<<Closes("client")>>, Cat(Free(own["client"]), Unhold))
        BY <3>1, <3>2, Prepended
      <4>. QED  BY <3>1, <3>2, <4>1, Prepended
    <3>4. Cat(Free(own["client"]), Unhold) = free
      BY <2>2, <3>1, Stacked, Prepended
    <3>. QED  BY <2>1, <2>2, <3>3, <3>4
  <2>7. own'["client"] = own["client"] /\ raw'["client"] = "open" /\ attached' = kept'
    BY <2>1, <2>4 DEF Made, InUse
  <2>8. Leaving'
    BY <2>3, <2>5, <2>6, <2>7 DEF Leaving
  <2>. QED  BY <2>3, <2>8 DEF ClientHalf, ClientBusy
<1>. QED  BY <1>4, <1>5, <1>6, <1>7, <1>8, <1>9

LEMMA CacheCalls ==
    ASSUME Idle, NEW k \in Caches, NewCache(k) \/ DropCache(k)
    PROVE  Typed' /\ ServerKept /\ ClientHalf'
<1>1. /\ <<>> \in Stacks /\ <<>> \in Afters /\ k \in Objects /\ k # None
      /\ k \notin {"client", "server", "logServer", "log"}
  BY Prepended, HandlesAssumption DEF Afters, Hooked, Objects
<1>2. Typed /\ Shared(Holders)
  BY DEF Idle, ClientQuiet
<1>3. CASE NewCache(k)
  <2>1. /\ raw' = [raw EXCEPT ![k] = "open"] /\ holds' = holds \cup {k} /\ todo' = <<>>
        /\ UNCHANGED <<box, cb, own, attached, kept, stage>>
    BY <1>3 DEF NewCache, Call, cbVars
  <2>2. Typed'
    BY <1>1, <1>2, <2>1 DEF Typed, TypeOK
  <2>3. ServerKept /\ raw'["client"] = raw["client"]
    BY <1>1, <2>1 DEF ServerKept
  <2>4. Shared(Holders)'
    BY <1>1, <1>2, <2>1 DEF Shared, Holders, Typed, TypeOK
  <2>5. (Unmade \/ Made \/ Gone)'
    BY <2>1, <2>3 DEF Idle, ClientQuiet, Unmade, Made, Gone, InUse, Hooking, DoneLive
  <2>. QED  BY <2>1, <2>2, <2>3, <2>4, <2>5 DEF ClientHalf, ClientQuiet
<1>4. CASE DropCache(k)
  <2>1. /\ k \in holds /\ todo' = LastRc(k, {kept}) /\ holds' = holds \ {k}
        /\ UNCHANGED <<raw, box, cb, own, attached, kept, stage>>
    BY <1>4 DEF DropCache, Call, cbVars
  <2>2. Typed' /\ ServerKept
    BY <1>2, <2>1 DEF Typed, TypeOK, ServerKept
  <2>3. (Unmade => Unmade') /\ (Made => Made') /\ (Gone => Gone')
    BY <2>1 DEF Unmade, Made, Gone, InUse, Hooking, DoneLive
  <2>4. CASE k = kept
    <3>1. todo' = <<>>
      BY <2>1, <2>4 DEF LastRc
    <3>2. Shared(Holders)'
      BY <1>2, <2>1, <2>4 DEF Shared, Holders
    <3>. QED  BY <2>2, <2>3, <3>1, <3>2 DEF Idle, ClientHalf, ClientQuiet
  <2>5. CASE k # kept
    <3>1. todo' = Push(Closes(k), <<>>)
      BY <1>1, <2>1, <2>5, Listed, Constructors DEF LastRc, Closes
    <3>2. Shared(Holders \cup {k})' /\ k \in (Caches \ Holders')
      BY <1>2, <2>1, <2>5 DEF Shared, Holders
    <3>3. Uncaching'
      BY <1>1, <2>3, <3>1, <3>2 DEF Idle, ClientQuiet, Uncaching
    <3>. QED  BY <2>2, <3>3 DEF ClientHalf, ClientBusy
  <2>. QED  BY <2>4, <2>5
<1>. QED  BY <1>3, <1>4

LEMMA LogCalls ==
    ASSUME Idle, NewLogServer \/ UseLogServer \/ DropLogServer \/ BindFails
    PROVE  Typed' /\ ClientKept /\ ServerHalf'
<1>1. /\ <<>> \in Stacks /\ <<>> \in Rests /\ {"server", "logServer"} \subseteq Hooked
      /\ Hooked \subseteq Objects /\ "log" \in Objects /\ Caches \cap {"client", "server", "logServer", "log"} = {}
      /\ AppendHooks \subseteq Boxes /\ None \notin Boxes
  BY Prepended, HandlesAssumption DEF Rests, Hooked, Objects, Boxes
<1>2. Typed /\ ServerIdle /\ LogQuiet
  BY DEF Idle, ServerQuiet
<1>3. own["logServer"] \in AppendHooks \cup {None}
  BY <1>2 DEF Typed, TypeOK
<1>4. LogServerDrop = Unloading(<<>>)
  BY <1>1, <1>2, Cleared, Prepended DEF Typed
<1>5. CASE NewLogServer
  <2>1. CASE /\ todo' = <<>> /\ Becomes("logServer", "none", "made")
             /\ raw' = [raw EXCEPT !["logServer"] = "open", !["log"] = "open"]
             /\ UNCHANGED <<box, cb, own, attached, kept, holds>>
    <3>1. stage' = [stage EXCEPT !["logServer"] = "made"] /\ stage["logServer"] = "none"
      BY <2>1 DEF Becomes
    <3>2. Typed' /\ stage'["logServer"] = "made" /\ LogOpen'
      BY <1>1, <1>2, <2>1, <3>1 DEF Typed, TypeOK, LogOpen
    <3>3. ClientKept /\ IdleKept
      <4>1. stage'["client"] = stage["client"] /\ stage'["server"] = stage["server"]
        BY <1>2, <3>1 DEF Typed, Hooked
      <4>2. ASSUME NEW o \in Caches \cup {"client", "server"} PROVE raw'[o] = raw[o]
        <5>1. o \in Objects /\ o # "logServer" /\ o # "log"
          BY <1>1 DEF Objects, Hooked
        <5>. QED  BY <1>2, <2>1, <5>1 DEF Typed, TypeOK
      <4>. QED  BY <2>1, <4>1, <4>2 DEF ClientKept, IdleKept
    <3>4. LogHooking'
      BY <1>1, <1>2, <2>1, <3>1 DEF LogQuiet, LogHooking, AppendLive
    <3>5. ServerQuiet'
      BY <1>2, <3>2, <3>3, <3>4, IdleFrame DEF ServerQuiet, LogQuiet
    <3>. QED  BY <2>1, <3>2, <3>3, <3>5, QuietIsHalfNext
  <2>2. CASE /\ todo' = <<Step("close", "log", None)>> /\ Becomes("logServer", "none", "dropped")
             /\ raw' = [raw EXCEPT !["log"] = "open"]
             /\ UNCHANGED <<box, cb, own, attached, kept, holds>>
    <3>1. stage' = [stage EXCEPT !["logServer"] = "dropped"] /\ stage["logServer"] = "none"
      BY <2>2 DEF Becomes
    <3>2. Typed' /\ stage'["logServer"] = "dropped" /\ raw'["log"] = "open"
      BY <1>1, <1>2, <2>2, <3>1 DEF Typed, TypeOK
    <3>3. ClientKept /\ IdleKept /\ raw'["logServer"] = raw["logServer"]
      <4>1. /\ \A o \in Caches \cup {"client", "server", "logServer"} : raw'[o] = raw[o]
            /\ stage'["client"] = stage["client"] /\ stage'["server"] = stage["server"]
        BY <1>1, <1>2, <2>2, <3>1 DEF Typed, TypeOK, Hooked
      <4>. QED  BY <2>2, <4>1 DEF ClientKept, IdleKept
    <3>4. AppendLive({})' /\ raw'["logServer"] # "open"
      BY <1>2, <2>2, <3>1, <3>3 DEF LogQuiet, LogShut, AppendLive
    <3>5. todo' = Push(Closes("log"), <<>>) /\ Then(<<>>)'
      BY <1>1, <1>2, <2>2, <3>3, Listed, Constructors, IdleFrame DEF Closes, Then
    <3>6. Unlogging'
      BY <1>1, <3>2, <3>4, <3>5 DEF Unlogging
    <3>. QED  BY <3>2, <3>3, <3>6 DEF ServerHalf, ServerBusy
  <2>. QED  BY <1>5, <2>1, <2>2 DEF NewLogServer, Call, cbVars, cacheVars
<1>6. CASE UseLogServer
  <2>1. /\ stage["logServer"] = "made" /\ UNCHANGED <<raw, box, cb, own, attached, kept, holds, stage>>
        /\ \/ todo' = <<Step("run", "logServer", None)>>
           \/ \E h \in AppendHooks : todo' = OnAppend(h)
    BY <1>6 DEF UseLogServer, Call, cbVars, cacheVars
  <2>2. LogOpen /\ LogHooking
    BY <1>2, <2>1 DEF LogQuiet
  <2>3. /\ Typed' /\ ClientKept /\ ServerIdle' /\ LogOpen' /\ LogHooking'
        /\ stage'["logServer"] = "made" /\ own' = own
    BY <1>2, <2>1, <2>2, AllKept, IdleFrame DEF LogOpen, LogHooking, AppendLive
  <2>4. CASE todo' = <<Step("run", "logServer", None)>>
    <3>1. todo' = Push(Runs("logServer"), <<>>)
      BY <1>1, <2>4, Listed, Constructors DEF Runs
    <3>. QED  BY <2>3, <3>1 DEF Logging, ServerHalf, ServerBusy
  <2>5. ASSUME NEW h \in AppendHooks, todo' = OnAppend(h) PROVE ServerHalf'
    <3> DEFINE make == Replacement("logServer", h, <<>>)
    <3>1. Install("logServer", h) = make /\ make \in Stacks
      <4>1. /\ Install("logServer", h) \in Stacks
            /\ Cat(Install("logServer", h), <<>>) = make
        BY <1>1, Stacked DEF Replacement
      <4>. QED  BY <4>1, Prepended
    <3>2. OnAppend(h) = Cat(ClearHook, Install("logServer", h))
      BY DEF OnAppend, Cat
    <3>3. todo' = Clearing(make)
      BY <1>2, <2>5, <3>1, <3>2, Cleared DEF Typed, Hooked
    <3>4. CASE own["logServer"] = None
      <4>1. AppendLive({})' /\ todo' = make
        BY <1>1, <2>3, <3>3, <3>4 DEF Clearing, LogHooking, AppendLive
      <4>. QED  BY <2>3, <4>1 DEF Replacement, Appending, ServerHalf, ServerBusy
    <3>5. CASE own["logServer"] \in AppendHooks
      <4>1. AppendLive({own["logServer"]})'
        BY <2>1, <2>2 DEF LogHooking, AppendLive
      <4>2. todo' = Push(Keeps("logServer", None), Push(Installs("logServer", None),
                      Push(Frees(own["logServer"]), make)))
        BY <1>1, <3>3, <3>5 DEF Clearing
      <4>. QED  BY <2>3, <3>5, <4>1, <4>2 DEF Replacement, Appending, ServerHalf, ServerBusy
    <3>. QED  BY <1>3, <3>4, <3>5
  <2>. QED  BY <2>1, <2>3, <2>4, <2>5
<1>7. CASE DropLogServer
  <2>1. /\ stage["logServer"] = "made" /\ stage' = [stage EXCEPT !["logServer"] = "dropped"]
        /\ todo' = Unloading(<<>>) /\ UNCHANGED <<raw, box, cb, own, attached, kept, holds>>
    BY <1>4, <1>7 DEF DropLogServer, Call, Becomes, cbVars, cacheVars
  <2>2. Typed' /\ stage'["logServer"] = "dropped"
    BY <1>1, <1>2, <2>1 DEF Typed, TypeOK
  <2>3. ClientKept /\ IdleKept
    BY <2>1 DEF ClientKept, IdleKept
  <2>4. LogOpen /\ LogHooking /\ Then(<<>>)'
    BY <1>2, <2>1, <2>3, IdleFrame DEF LogQuiet, Then
  <2>5. Unlogging'
    BY <1>1, <1>2, <2>1, <2>2, <2>4, Unloads
  <2>. QED  BY <2>2, <2>3, <2>5 DEF ServerHalf, ServerBusy
<1>8. CASE BindFails
  <2>1. /\ stage["server"] = "none" /\ stage["logServer"] = "made"
        /\ stage' = [stage EXCEPT !["server"] = "dropped", !["logServer"] = "dropped"]
        /\ todo' = Unloading(<<>>) /\ UNCHANGED <<raw, box, cb, own, attached, kept, holds>>
    BY <1>4, <1>8 DEF BindFails, Call, cbVars, cacheVars
  <2>2. Typed' /\ stage'["logServer"] = "dropped" /\ stage'["server"] = "dropped"
    BY <1>1, <1>2, <2>1 DEF Typed, TypeOK
  <2>3. ClientKept
    <3>1. stage'["client"] = stage["client"]
      BY <1>2, <2>1 DEF Typed, Hooked
    <3>. QED  BY <2>1, <3>1 DEF ClientKept
  <2>4. LogOpen /\ LogHooking /\ Then(<<>>)'
    BY <1>2, <2>1, <2>2 DEF LogQuiet, Then, ServerIdle, Closure
  <2>5. Unlogging'
    BY <1>1, <1>2, <2>1, <2>2, <2>4, Unloads
  <2>. QED  BY <2>2, <2>3, <2>5 DEF ServerHalf, ServerBusy
<1>. QED  BY <1>5, <1>6, <1>7, <1>8

LEMMA ServerCalls ==
    ASSUME Idle, BuildServer \/ TickServer \/ DropServer
    PROVE  Typed' /\ ClientKept /\ ServerHalf'
<1>1. /\ <<>> \in Stacks /\ {"server", "logServer"} \subseteq Hooked
      /\ Hooked \subseteq Objects /\ Caches \cap {"client", "server", "logServer", "log"} = {}
      /\ "handler" \in Boxes /\ None \notin Boxes
  BY Prepended, HandlesAssumption DEF Hooked, Objects, Boxes
<1>2. Typed /\ ServerIdle /\ LogQuiet
  BY DEF Idle, ServerQuiet
<1>3. CASE BuildServer
  <2>1. /\ raw' = [raw EXCEPT !["server"] = "open"] /\ stage["server"] = "none"
        /\ todo' = Install("server", "handler")
        /\ UNCHANGED <<box, cb, own, attached, kept, holds>>
        /\ \/ stage' = [stage EXCEPT !["server"] = "made"]
           \/ /\ stage["logServer"] = "made"
              /\ stage' = [stage EXCEPT !["server"] = "made", !["logServer"] = "moved"]
    BY <1>3 DEF BuildServer, FinishBuild, Call, Becomes, cbVars, cacheVars
  <2>2. Typed' /\ raw'["server"] = "open" /\ stage'["server"] = "made"
    BY <1>1, <1>2, <2>1 DEF Typed, TypeOK
  <2>3. /\ ClientKept /\ raw'["logServer"] = raw["logServer"] /\ raw'["log"] = raw["log"]
        /\ \/ stage'["logServer"] = stage["logServer"]
           \/ stage["logServer"] = "made" /\ stage'["logServer"] = "moved"
    <3>1. \/ stage'["logServer"] = stage["logServer"]
          \/ stage["logServer"] = "made" /\ stage'["logServer"] = "moved"
      BY <1>1, <1>2, <2>1 DEF Typed
    <3>2. stage'["client"] = stage["client"]
      BY <1>2, <2>1 DEF Typed, Hooked
    <3>3. \A o \in Caches \cup {"client", "logServer", "log"} : raw'[o] = raw[o]
      BY <1>1, <1>2, <2>1 DEF Typed, TypeOK
    <3>. QED  BY <2>1, <3>1, <3>2, <3>3 DEF ClientKept
  <2>4. LogQuiet'
    BY <1>2, <2>1, <2>3 DEF LogQuiet, LogOpen, LogShut, LogHooking, AppendLive
  <2>5. ~Closure' /\ cb'["server"] = None
    BY <1>2, <2>1 DEF ServerIdle, Closure
  <2>6. todo' = Push(Makes("handler"), Push(Installs("server", "handler"),
                  Push(Keeps("server", "handler"), <<>>)))
    <3>1. Install("server", "handler") \in Stacks
      BY <1>1, Stacked
    <3>2. Cat(Install("server", "handler"), <<>>) = Install("server", "handler")
      BY <3>1, Prepended
    <3>. QED  BY <1>1, <2>1, <3>2, Stacked
  <2>7. Building'
    BY <2>2, <2>4, <2>5, <2>6 DEF Building
  <2>. QED  BY <2>2, <2>3, <2>7 DEF ServerHalf, ServerBusy
<1>4. CASE TickServer
  <2>1. /\ stage["server"] = "made" /\ todo' = <<Step("run", "server", None)>>
        /\ UNCHANGED <<raw, box, cb, own, attached, kept, holds, stage>>
    BY <1>4 DEF TickServer, Call, cbVars, cacheVars
  <2>2. /\ Typed' /\ ClientKept /\ Up' /\ own'["server"] = "handler" /\ LogQuiet'
        /\ stage'["server"] = "made"
    BY <1>2, <2>1, AllKept, LogFrame DEF ServerIdle, Up, Closure
  <2>3. todo' = Serve
    BY <1>1, <2>1, Listed, Constructors DEF Serve, Runs
  <2>4. Handling'
    BY <2>2, <2>3 DEF Handling
  <2>. QED  BY <2>2, <2>4 DEF ServerHalf, ServerBusy
<1>5. CASE DropServer
  <2>1. /\ stage["server"] = "made" /\ stage' = [stage EXCEPT !["server"] = "dropped"]
        /\ todo' = ServerDrop /\ UNCHANGED <<raw, box, cb, own, attached, kept, holds>>
    BY <1>5 DEF DropServer, Call, Becomes, cbVars, cacheVars
  <2>2. Typed' /\ stage'["server"] = "dropped"
    BY <1>1, <1>2, <2>1 DEF Typed, TypeOK
  <2>3. ClientKept /\ LogKept
    BY <2>1 DEF ClientKept, LogKept
  <2>4. Up /\ own["server"] = "handler"
    BY <1>2, <2>1 DEF ServerIdle
  <2>5. Up' /\ own'["server"] = "handler" /\ LogQuiet'
    BY <1>2, <2>1, <2>3, <2>4, LogFrame DEF Up, Closure
  <2>6. todo' = Shut
    <3>1. /\ Closes("server") \in Moves /\ Frees("handler") \in Moves
          /\ Free("handler") = Push(Frees("handler"), <<>>)
          /\ Free("handler") \in Stacks
      BY <1>1, Constructors, Stacked, Listed, Prepended DEF Free, Frees
    <3>2. ServerDrop = Cat(<<Closes("server")>>, Free("handler"))
      BY <2>4 DEF ServerDrop, Closes, Cat
    <3>. QED  BY <2>1, <3>1, <3>2, Prepended DEF Shut
  <2>7. Serve # Shut
    <3>1. /\ Head(Serve) = Runs("server") /\ Head(Shut) = Closes("server")
      BY <1>1, Top, Prepended, Constructors DEF Serve, Shut
    <3>. QED  BY <3>1 DEF Runs, Closes, Step
  <2>8. Handling'
    BY <2>2, <2>5, <2>6, <2>7 DEF Handling
  <2>. QED  BY <2>2, <2>3, <2>8 DEF ServerHalf, ServerBusy
<1>. QED  BY <1>3, <1>4, <1>5
-----------------------------------------------------------------------------
(* The invariant holds at the start and is kept.                           *)
LEMMA Initially == Init => IInv
<1> SUFFICES ASSUME Init PROVE IInv
    OBVIOUS
<1>1. Typed
  BY DEF Init, Typed, TypeOK, Hooked
<1>2. ClientQuiet
  <2>1. Unmade
    BY DEF Init, Unmade, DoneLive, Hooked, Objects, Boxes
  <2>2. Shared(Holders)
    BY HandlesAssumption DEF Init, Shared, Holders, Objects
  <2>. QED  BY <2>1, <2>2 DEF ClientQuiet
<1>3. ServerQuiet
  BY DEF Init, ServerQuiet, ServerIdle, LogQuiet, LogShut, Closure, AppendLive, Hooked, Objects, Boxes
<1>4. todo = <<>>
  BY DEF Init
<1>. QED  BY <1>1, <1>2, <1>3, <1>4 DEF IInv, ClientHalf

LEMMA Stutters == IInv /\ UNCHANGED vars => IInv'
<1> SUFFICES ASSUME IInv, UNCHANGED vars PROVE IInv'
    OBVIOUS
<1>1. UNCHANGED <<raw, box, cb, own, attached, kept, holds, stage>> /\ todo' = todo
  BY DEF vars
<1>2. Typed' /\ ClientKept /\ LogKept /\ IdleKept
  BY <1>1, AllKept DEF IInv
<1>3. (ClientQuiet => ClientQuiet') /\ (ServerQuiet => ServerQuiet')
  BY <1>2, ClientFrame, LogFrame, IdleFrame DEF ServerQuiet, IdleKept
<1>4. ClientHalf => ClientHalf'
  BY <1>1, <1>3 DEF ClientHalf, ClientBusy, Ticking, Replacing, Caching, Uncaching, Leaving, Made,
       InUse, Hooking, Unmade, Gone, Shared, Holders, DoneLive
<1>5. ServerHalf => ServerHalf'
  BY <1>1, <1>3 DEF ServerHalf, ServerBusy, Handling, Building, Discarding, Logging, Appending,
       Unlogging, Unserving, Then, Unbound, ServerIdle, Up, Closure, LogQuiet, LogOpen, LogShut,
       LogHooking, AppendLive
<1>. QED  BY <1>2, <1>3, <1>4, <1>5 DEF IInv

LEMMA Called == todo = <<>> /\ [Next]_vars => Calls \/ UNCHANGED vars
BY DEF Next, Terminated, Steps, Make, InstallHook, Keep, FreeBox, Close, Attach, Hold, Over, Now,
       Callbacks, RequestDone, HandleRequest, EntryAppended, Fire, InC

LEMMA Inductive == IInv /\ [Next]_vars => IInv'
<1> SUFFICES ASSUME IInv, [Next]_vars, ~UNCHANGED vars PROVE IInv'
    BY Stutters
<1>1. Typed
  BY DEF IInv
<1>2. CASE ClientBusy /\ ServerQuiet
  BY <1>1, <1>2, ClientSteps, ServerFrame DEF IInv
<1>3. CASE ClientQuiet /\ ServerBusy
  BY <1>1, <1>3, ServerSteps, ClientFrame DEF IInv
<1>4. CASE todo = <<>> /\ ClientQuiet /\ ServerQuiet
  <2>1. Idle /\ Calls
    BY <1>1, <1>4, Called DEF Idle
  <2>2. \/ Typed' /\ ServerKept /\ ClientHalf'
        \/ Typed' /\ ClientKept /\ ServerHalf'
    BY <2>1, ClientCalls, CacheCalls, LogCalls, ServerCalls DEF Calls
  <2>. QED  BY <1>4, <2>2, ServerFrame, ClientFrame DEF IInv
<1>. QED  BY <1>2, <1>3, <1>4 DEF IInv, ClientHalf, ServerHalf

(* The invariant holds in every behaviour of the handles, whatever the     *)
(* embedder calls and wherever C calls back.                               *)
THEOREM Invariant == Spec => []IInv
BY Initially, Inductive, PTL DEF Spec

-----------------------------------------------------------------------------
(* What the next step needs to be safe.                                    *)
Answers(o) ==
  /\ o # "logServer" => raw[o] = "open"
  /\ o \in Hooked => cb[o] = None \/ box[cb[o]] = "live"
  /\ o = "client" => attached = None \/ raw[attached] = "open"

Sound(s) ==
  /\ s.do \in {"run", "close"} => Answers(s.on)
  /\ s.do \in {"install", "attach"} => s.on = "logServer" \/ raw[s.on] = "open"
  /\ s.do = "free" => box[s.what] = "live"

Pending == \E s \in Moves, t \in Stacks : todo = Push(s, t) /\ Sound(s)
Borrowed == raw["logServer"] = "open" => raw["log"] = "open"

LEMMA Sounds ==
    /\ \A b : Sound(Makes(b)) /\ Sound(Returns(b)) /\ (box[b] = "live" => Sound(Frees(b)))
    /\ \A o, b : Sound(Keeps(o, b)) /\ (o = "logServer" \/ raw[o] = "open" => Sound(Installs(o, b)))
    /\ \A o : Answers(o) => Sound(Runs(o)) /\ Sound(Closes(o))
    /\ \A k : Sound(Holds(k)) /\ (raw["client"] = "open" => Sound(Attaches(k)))
BY DEF Sound, Makes, Returns, Frees, Keeps, Installs, Runs, Closes, Holds, Attaches, Step

LEMMA Safely ==
    ASSUME Typed, Pending \/ todo = <<>>, Borrowed
    PROVE  HandlesOpen /\ CallbacksLive /\ BorrowsLive /\ FreedOnce /\ (Pending => todo # <<>>)
<1>1. CASE todo = <<>>
  <2>1. ~Pending
    BY <1>1, Top DEF Pending
  <2>. QED
    BY <1>1, <2>1 DEF HandlesOpen, CallsOpen, CallbacksLive, InC, BorrowsLive, Borrowed, FreedOnce, Now
<1>2. CASE Pending
  <2>1. PICK s \in Moves, t \in Stacks : todo = Push(s, t) /\ Sound(s)
    BY <1>2 DEF Pending
  <2>2. todo # <<>> /\ Head(todo).do = s.do /\ on = s.on /\ what = s.what
    BY <2>1, Top DEF on, what
  <2>3. HandlesOpen /\ FreedOnce
    BY <2>1, <2>2 DEF HandlesOpen, CallsOpen, CCalls, FreedOnce, Now, Sound, Answers
  <2>4. CallbacksLive /\ BorrowsLive
    BY <2>1, <2>2 DEF CallbacksLive, InC, BorrowsLive, Borrowed, Sound, Answers, Hooked
  <2>. QED  BY <2>2, <2>3, <2>4
<1>. QED  BY <1>1, <1>2
LEMMA ClientAnswers ==
    ASSUME Typed, raw["client"] = "open", Hooking, attached = kept, Shared(Holders)
    PROVE  Answers("client")
<1>1. cb["client"] \in DoneHooks \cup {None} /\ attached \in Caches \cup {None}
  BY DEF Typed, TypeOK
<1>2. cb["client"] = None \/ box[cb["client"]] = "live"
  BY <1>1 DEF Hooking, DoneLive
<1>3. attached = None \/ raw[attached] = "open"
  BY <1>1 DEF Shared, Holders
<1>. QED  BY <1>2, <1>3 DEF Answers

LEMMA ClientPending ==
    ASSUME Typed, ClientBusy
    PROVE  Pending
<1>1. /\ <<>> \in Stacks /\ Tick \in Stacks /\ \A t \in Afters : t \in Stacks
      /\ \A s \in Moves, t \in Stacks : Push(s, t) \in Stacks
      /\ DoneHooks \subseteq Boxes /\ "client" \in Hooked /\ Caches \cup {"client"} \subseteq Objects
      /\ Caches \cap Hooked = {} /\ None \notin Boxes
  BY Prepended, AftersAreStacks, HandlesAssumption DEF Boxes, Objects, Hooked
<1>2. Runs("client") \in Moves /\ Closes("client") \in Moves
  BY <1>1, Constructors
<1>3. CASE Ticking
  <2>1. Sound(Runs("client"))
    BY <1>3, ClientAnswers, Sounds DEF Ticking, Made, InUse
  <2>2. CASE todo = Tick
    BY <1>1, <1>2, <2>1, <2>2 DEF Tick, Pending
  <2>3. ASSUME NEW b \in DoneHooks, todo = Push(Returns(b), Tick) PROVE Pending
    BY <1>1, <2>3, Constructors, Sounds DEF Pending
  <2>. QED  BY <1>3, <2>2, <2>3 DEF Ticking, Afters
<1>4. CASE Replacing
  <2>1. PICK t \in Afters, h \in DoneHooks :
          LET keep == Push(Keeps("client", h), t)
              install == Push(Installs("client", h), keep)
              make == Push(Makes(h), install)
          IN \/ \E b \in DoneHooks : todo = Push(Frees(b), make) /\ DoneLive({b})
             \/ todo = make
             \/ todo = install
             \/ todo = keep
    BY <1>4 DEF Replacing
  <2>2. /\ Keeps("client", h) \in Moves /\ Installs("client", h) \in Moves /\ Makes(h) \in Moves
        /\ \A b \in DoneHooks : Frees(b) \in Moves
    BY <1>1, Constructors
  <2>3. /\ Sound(Keeps("client", h)) /\ Sound(Installs("client", h)) /\ Sound(Makes(h))
        /\ \A b \in DoneHooks : DoneLive({b}) => Sound(Frees(b))
    BY <1>4, Sounds DEF Replacing, InUse, DoneLive
  <2> DEFINE keep == Push(Keeps("client", h), t)
             install == Push(Installs("client", h), keep)
             make == Push(Makes(h), install)
  <2>4. keep \in Stacks /\ install \in Stacks /\ make \in Stacks
    BY <1>1, <2>2
  <2>. QED  BY <1>1, <2>1, <2>2, <2>3, <2>4 DEF Pending
<1>5. CASE Caching
  <2>1. PICK t \in Afters, k \in Caches \cup {None} :
          todo = Push(Attaches(k), t) \/ todo = Push(Holds(k), t)
    BY <1>5 DEF Caching
  <2>2. Sound(Attaches(k)) /\ Sound(Holds(k)) /\ Attaches(k) \in Moves /\ Holds(k) \in Moves
    BY <1>5, Sounds, Constructors DEF Caching, InUse
  <2>. QED  BY <1>1, <2>1, <2>2 DEF Pending
<1>6. CASE Uncaching
  <2>1. PICK t \in Afters, k \in Caches \ Holders :
          todo = Push(Closes(k), t) /\ Shared(Holders \cup {k})
    BY <1>6 DEF Uncaching
  <2>2. Sound(Closes(k)) /\ Closes(k) \in Moves
    BY <1>1, <2>1, Sounds, Constructors DEF Answers, Shared
  <2>. QED  BY <1>1, <2>1, <2>2 DEF Pending
<1>7. CASE Leaving
  <2>1. /\ Unhold \in Stacks /\ Sound(Holds(None)) /\ Holds(None) \in Moves
        /\ \A b \in DoneHooks : Push(Frees(b), Unhold) \in Stacks /\ Frees(b) \in Moves
                                /\ Returns(b) \in Moves /\ Sound(Returns(b))
                                /\ (DoneLive({b}) => Sound(Frees(b)))
    BY <1>1, Constructors, Sounds DEF Unhold, DoneLive
  <2>2. CASE /\ raw["client"] = "open" /\ Hooking /\ attached = kept
             /\ \E free \in Stacks :
                  \/ todo = Push(Closes("client"), free)
                  \/ \E b \in DoneHooks : todo = Push(Returns(b), Push(Closes("client"), free))
    <3>1. Sound(Closes("client"))
      BY <1>7, <2>2, ClientAnswers, Sounds DEF Leaving
    <3>. QED  BY <1>1, <1>2, <2>1, <2>2, <3>1 DEF Pending
  <2>3. CASE \/ \E b \in DoneHooks : todo = Push(Frees(b), Unhold) /\ DoneLive({b})
             \/ todo = Unhold
    BY <1>1, <2>1, <2>3 DEF Unhold, Pending
  <2>4. CASE /\ raw["client"] = "open" /\ todo = Push(Closes("client"), <<>>)
             /\ cb["client"] = None /\ attached = None
    <3>1. Sound(Closes("client"))
      BY <2>4, Sounds DEF Answers
    <3>. QED  BY <1>1, <1>2, <2>4, <3>1 DEF Pending
  <2>5. \A free \in {Unhold} \cup {Push(Frees(b), Unhold) : b \in DoneHooks} : free \in Stacks
    BY <2>1
  <2>. QED  BY <1>7, <2>2, <2>3, <2>4, <2>5 DEF Leaving
<1>. QED  BY <1>3, <1>4, <1>5, <1>6, <1>7 DEF ClientBusy
LEMMA Pends == \A s \in Moves, t \in Stacks : todo = Push(s, t) /\ Sound(s) => Pending
BY DEF Pending

LEMMA ServerPending ==
    ASSUME Typed, ServerBusy
    PROVE  Pending /\ Borrowed
<1>1. /\ <<>> \in Stacks /\ \A s \in Moves, t \in Stacks : Push(s, t) \in Stacks
      /\ AppendHooks \cup {"handler"} \subseteq Boxes /\ {"server", "logServer"} \subseteq Hooked
      /\ {"server", "logServer", "log"} \subseteq Objects /\ "log" \notin Hooked
      /\ None \notin Boxes
  BY Prepended, HandlesAssumption DEF Boxes, Objects, Hooked
<1>2. /\ \A b \in AppendHooks \cup {"handler"} :
           Makes(b) \in Moves /\ Frees(b) \in Moves /\ Returns(b) \in Moves
      /\ \A b \in AppendHooks \cup {"handler", None}, o \in {"server", "logServer"} :
           Keeps(o, b) \in Moves /\ Installs(o, b) \in Moves
      /\ \A o \in {"server", "logServer"} : Runs(o) \in Moves
      /\ \A o \in {"server", "logServer", "log"} : Closes(o) \in Moves
  BY <1>1, Constructors
<1>3. LogQuiet => Borrowed
  BY DEF LogQuiet, LogOpen, LogShut, Borrowed
<1>4. LogOpen /\ LogHooking => Answers("logServer")
  BY <1>1 DEF Typed, TypeOK, LogHooking, AppendLive, Answers
<1>5. CASE Handling
  <2>1. PICK t \in {Serve, Shut} :
          LET handler == Push(Returns("handler"), t)
              dispatch == Push(Runs("logServer"), handler)
          IN \/ todo \in {t, handler}
             \/ /\ stage["logServer"] = "moved"
                /\ \/ todo = dispatch
                   \/ \E a \in AppendHooks : todo = Push(Returns(a), dispatch)
    BY <1>5 DEF Handling
  <2> DEFINE handler == Push(Returns("handler"), t)
             dispatch == Push(Runs("logServer"), handler)
  <2>2. t \in Stacks /\ handler \in Stacks /\ dispatch \in Stacks
    BY <1>1, <1>2 DEF Serve, Shut
  <2>3. Sound(Runs("server")) /\ Sound(Closes("server"))
    BY <1>5, Sounds DEF Handling, Up, Closure, Answers
  <2>4. ASSUME todo = t PROVE Pending
    <3>1. Push(Frees("handler"), <<>>) \in Stacks
      BY <1>1, <1>2
    <3>2. \/ todo = Push(Runs("server"), <<>>)
          \/ todo = Push(Closes("server"), Push(Frees("handler"), <<>>))
      BY <2>4 DEF Serve, Shut
    <3>. QED  BY <1>1, <1>2, <2>3, <3>1, <3>2, Pends, Zenon
  <2>5. ASSUME todo = handler PROVE Pending
    <3>1. Returns("handler") \in Moves /\ Sound(Returns("handler"))
      BY <1>2, Sounds
    <3>. QED  BY <2>2, <2>5, <3>1, Pends, Zenon
  <2>6. ASSUME stage["logServer"] = "moved", todo = dispatch PROVE Pending
    <3>1. Sound(Runs("logServer")) /\ Runs("logServer") \in Moves
      BY <1>2, <1>4, <1>5, <2>6, Sounds DEF Handling, LogQuiet
    <3>. QED  BY <2>2, <2>6, <3>1, Pends, Zenon
  <2>7. ASSUME NEW a \in AppendHooks, todo = Push(Returns(a), dispatch) PROVE Pending
    BY <1>2, <2>2, <2>7, Sounds DEF Pending
  <2>8. Pending
    BY <2>1, <2>4, <2>5, <2>6, <2>7
  <2>. QED  BY <1>3, <1>5, <2>8 DEF Handling
<1>6. CASE Building
  <2> DEFINE keep == Push(Keeps("server", "handler"), <<>>)
             install == Push(Installs("server", "handler"), keep)
             make == Push(Makes("handler"), install)
  <2>1. todo \in {make, install, keep} /\ raw["server"] = "open" /\ LogQuiet
    BY <1>6 DEF Building
  <2>2. keep \in Stacks /\ install \in Stacks
    BY <1>1, <1>2
  <2>3. Sound(Keeps("server", "handler")) /\ Sound(Installs("server", "handler"))
        /\ Sound(Makes("handler"))
    BY <2>1, Sounds
  <2>. QED  BY <1>1, <1>2, <1>3, <2>1, <2>2, <2>3 DEF Pending
<1>7. CASE Discarding
  <2>1. Sound(Frees("handler")) /\ LogQuiet
        /\ todo \in {Push(Frees("handler"), <<>>), Push(Frees("handler"), Push(Closes("server"), <<>>))}
    BY <1>7, Sounds DEF Discarding, Closure
  <2>. QED  BY <1>1, <1>2, <1>3, <2>1 DEF Pending
<1>8. CASE Logging
  <2> DEFINE run == Push(Runs("logServer"), <<>>)
  <2>1. Sound(Runs("logServer")) /\ Borrowed
    BY <1>4, <1>8, Sounds DEF Logging, LogOpen, Borrowed
  <2>2. run \in Stacks
    BY <1>1, <1>2
  <2>3. todo = run \/ \E a \in AppendHooks : todo = Push(Returns(a), run)
    BY <1>8 DEF Logging
  <2>. QED  BY <1>1, <1>2, <2>1, <2>2, <2>3, Sounds DEF Pending
<1>9. CASE Appending
  <2>1. PICK h \in AppendHooks :
          LET keep == Push(Keeps("logServer", h), <<>>)
              install == Push(Installs("logServer", h), keep)
              make == Push(Makes(h), install)
          IN \/ \E a \in AppendHooks :
                  LET free == Push(Frees(a), make)
                      unset == Push(Installs("logServer", None), free)
                  IN todo \in {free, unset, Push(Keeps("logServer", None), unset)} /\ AppendLive({a})
             \/ todo \in {make, install, keep}
    BY <1>9 DEF Appending
  <2> DEFINE keep == Push(Keeps("logServer", h), <<>>)
             install == Push(Installs("logServer", h), keep)
             make == Push(Makes(h), install)
             free(a) == Push(Frees(a), make)
             unset(a) == Push(Installs("logServer", None), free(a))
  <2>2. keep \in Stacks /\ install \in Stacks /\ make \in Stacks
    BY <1>1, <1>2
  <2>3. /\ Sound(Keeps("logServer", h)) /\ Sound(Installs("logServer", h)) /\ Sound(Makes(h))
        /\ Sound(Keeps("logServer", None)) /\ Sound(Installs("logServer", None))
    BY Sounds
  <2>4. ASSUME NEW a \in AppendHooks, AppendLive({a}),
               todo \in {free(a), unset(a), Push(Keeps("logServer", None), unset(a))}
        PROVE  Pending
    <3>1. free(a) \in Stacks /\ unset(a) \in Stacks
      BY <1>1, <1>2, <2>2
    <3>2. Sound(Frees(a)) /\ Frees(a) \in Moves
      BY <1>2, <2>4, Sounds DEF AppendLive
    <3>. QED  BY <1>2, <2>2, <2>3, <2>4, <3>1, <3>2 DEF Pending
  <2>5. ASSUME todo \in {make, install, keep} PROVE Pending
    <3>1. /\ Makes(h) \in Moves /\ Installs("logServer", h) \in Moves
          /\ Keeps("logServer", h) \in Moves
      BY <1>2
    <3>. QED  BY <1>1, <2>2, <2>3, <2>5, <3>1, Pends
  <2>6. Pending
    BY <2>1, <2>4, <2>5
  <2>. QED  BY <1>9, <2>6 DEF Appending, LogOpen, Borrowed
<1>10. CASE Unlogging
  <2>1. PICK t \in Rests :
          LET close == Push(Closes("log"), t)
          IN \/ \E a \in AppendHooks :
                  LET free == Push(Frees(a), close)
                      unset == Push(Installs("logServer", None), free)
                      clear == Push(Keeps("logServer", None), unset)
                      all == Push(Closes("logServer"), clear)
                  IN /\ AppendLive({a})
                     /\ \/ todo \in {free, unset, clear}
                        \/ /\ cb["logServer"] = a
                           /\ todo = all \/ \E b \in AppendHooks : todo = Push(Returns(b), all)
             \/ todo = close
             \/ /\ todo = Push(Closes("logServer"), close)
                /\ cb["logServer"] = None
    BY <1>10 DEF Unlogging
  <2> DEFINE close == Push(Closes("log"), t)
             free(a) == Push(Frees(a), close)
             unset(a) == Push(Installs("logServer", None), free(a))
             clear(a) == Push(Keeps("logServer", None), unset(a))
             all(a) == Push(Closes("logServer"), clear(a))
  <2>2. t \in Stacks /\ close \in Stacks
    BY <1>1, <1>2 DEF Rests
  <2>3. Sound(Closes("log")) /\ Borrowed
    BY <1>1, <1>10, Sounds DEF Unlogging, Answers, Borrowed
  <2>4. ASSUME NEW a \in AppendHooks, AppendLive({a}),
               \/ todo \in {free(a), unset(a), clear(a)}
               \/ /\ cb["logServer"] = a
                  /\ todo = all(a) \/ \E b \in AppendHooks : todo = Push(Returns(b), all(a))
        PROVE  Pending
    <3>1. free(a) \in Stacks /\ unset(a) \in Stacks /\ clear(a) \in Stacks
      BY <1>1, <1>2, <2>2
    <3>2. all(a) \in Stacks
      BY <1>1, <1>2, <3>1
    <3>3. /\ Sound(Frees(a)) /\ Sound(Keeps("logServer", None))
          /\ Sound(Installs("logServer", None))
          /\ (cb["logServer"] = a => Sound(Closes("logServer")))
          /\ \A b \in AppendHooks : Sound(Returns(b))
      BY <2>4, Sounds DEF AppendLive, Answers
    <3>. QED  BY <1>2, <2>2, <2>4, <3>1, <3>2, <3>3 DEF Pending
  <2>5. CASE todo = close
    BY <1>2, <2>2, <2>3, <2>5 DEF Pending
  <2>6. ASSUME todo = Push(Closes("logServer"), close), cb["logServer"] = None PROVE Pending
    <3>1. Sound(Closes("logServer")) /\ Closes("logServer") \in Moves
      BY <1>2, <2>6, Sounds DEF Answers
    <3>. QED  BY <2>2, <2>6, <3>1, Pends, Zenon
  <2>. QED  BY <2>1, <2>3, <2>4, <2>5, <2>6
<1>11. CASE Unserving
  <2>1. todo = Push(Closes("server"), <<>>) /\ raw["server"] = "open" /\ cb["server"] = None
    BY <1>11 DEF Unserving, Then, Unbound
  <2>2. Sound(Closes("server"))
    BY <2>1, Sounds DEF Answers
  <2>. QED  BY <1>1, <1>2, <1>3, <1>11, <2>1, <2>2 DEF Pending, Unserving
<1>. QED  BY <1>5, <1>6, <1>7, <1>8, <1>9, <1>10, <1>11 DEF ServerBusy
LEMMA Consequences ==
    ASSUME IInv
    PROVE  HandlesOpen /\ CallbacksLive /\ BorrowsLive /\ FreedOnce /\ NothingLeaks
<1>1. Typed
  BY DEF IInv
<1>2. ServerQuiet => Borrowed
  BY DEF ServerQuiet, LogQuiet, LogOpen, LogShut, Borrowed
<1>3. \/ ClientBusy /\ ServerQuiet /\ Pending
      \/ ClientQuiet /\ ServerBusy /\ Pending
      \/ ClientQuiet /\ ServerQuiet /\ todo = <<>>
  BY <1>1, ClientPending, ServerPending DEF IInv, ClientHalf, ServerHalf
<1>4. Borrowed
  BY <1>1, <1>2, <1>3, ServerPending
<1>5. HandlesOpen /\ CallbacksLive /\ BorrowsLive /\ FreedOnce /\ (Pending => todo # <<>>)
  BY <1>1, <1>3, <1>4, Safely
<1>6. ASSUME AllGone
      PROVE  (\A o \in Objects : raw[o] # "open") /\ \A b \in Boxes : box[b] # "live"
  <2>1. ClientQuiet /\ ServerIdle /\ LogQuiet /\ holds = {}
        /\ \A o \in Hooked : stage[o] \in {"none", "dropped"}
    BY <1>3, <1>5, <1>6 DEF AllGone, ServerQuiet
  <2>2. raw["client"] # "open" /\ DoneLive({}) /\ kept = None
    BY <2>1 DEF ClientQuiet, Unmade, Made, InUse, Gone, Hooked
  <2>3. \A k \in Caches : raw[k] # "open"
    BY <2>1, <2>2, HandlesAssumption DEF ClientQuiet, Shared, Holders
  <2>4. raw["server"] # "open" /\ box["handler"] # "live"
    BY <2>1 DEF ServerIdle, Closure, Hooked
  <2>5. raw["logServer"] # "open" /\ raw["log"] # "open" /\ AppendLive({})
    BY <2>1 DEF LogQuiet, LogShut, Hooked
  <2>6. \A o \in Objects : raw[o] # "open"
    BY <2>2, <2>3, <2>4, <2>5 DEF Objects, Hooked
  <2>7. \A b \in Boxes : box[b] # "live"
    BY <2>2, <2>4, <2>5 DEF Boxes, DoneLive, AppendLive
  <2>. QED  BY <2>6, <2>7
<1>. QED  BY <1>5, <1>6 DEF NothingLeaks

-----------------------------------------------------------------------------
(* The handles' state stays well formed: each handle owns, and C points    *)
(* at, hooks of its own kind only.                                         *)
THEOREM TypeCorrect == Spec => []TypeOK
BY Invariant, PTL DEF IInv, Typed

(* No C function is called on a client, server, log or cache that was      *)
(* closed, or was never made: Drop, the setters and tick always come       *)
(* before the one close (client.rs:809-896, server.rs:794-823, 1219-1229). *)
THEOREM Opened == Spec => []HandlesOpen
<1>1. IInv => HandlesOpen
  BY Consequences
<1>. QED  BY <1>1, Invariant, PTL

(* Wherever C may call back, from tick or from close, it enters a box that *)
(* is live, whatever hooks were replaced on the way and in whichever order *)
(* the handles were dropped (client.rs:811-819, server.rs:1221-1227,       *)
(* logserver.rs:122-140).                                                  *)
THEOREM EntersLiveBoxes == Spec => []CallbacksLive
<1>1. IInv => CallbacksLive
  BY Consequences
<1>. QED  BY <1>1, Invariant, PTL

(* A client that is ticked or closed borrows an open cache, also while     *)
(* set_cache replaces it, succeeds in C or fails; an open log server has   *)
(* its log (client.rs:475-492, logserver.rs:37-39).                        *)
THEOREM BorrowsAreLive == Spec => []BorrowsLive
<1>1. IInv => BorrowsLive
  BY Consequences
<1>. QED  BY <1>1, Invariant, PTL

(* A box is freed when it is live, hence once, also when a build fails or  *)
(* a handler takes its log server along (client.rs:500-513, 816-819,       *)
(* logserver.rs:122-130).                                                  *)
THEOREM FreesOnce == Spec => []FreedOnce
<1>1. IInv => FreedOnce
  BY Consequences
<1>. QED  BY <1>1, Invariant, PTL

(* When every handle and every Rc has been dropped no C object is open and *)
(* no box is live, whichever calls failed before.                          *)
THEOREM LeaksNothing == Spec => []NothingLeaks
<1>1. IInv => NothingLeaks
  BY Consequences
<1>. QED  BY <1>1, Invariant, PTL
=============================================================================
