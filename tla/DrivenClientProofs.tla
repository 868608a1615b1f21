------------------------- MODULE DrivenClientProofs -------------------------
(***************************************************************************)
(* DrivenClient's type invariant, and that the handles and C's table never *)
(* come apart, for any number of requests, streams, ids and connections.   *)
(*                                                                         *)
(* TableMatchesHandles is not inductive by itself: the drop of a handle    *)
(* whose completion went to the hook cancels an id that is no longer its   *)
(* own.  HookTookIt says why that is harmless: the id is given out, not    *)
(* live, and on a connection with a hook an id is given out once.          *)
(* ConcludedOnce ties what a slot says to how C concluded its job.         *)
(*                                                                         *)
(* The theorems about the tables of Codes, which the driven API hands to   *)
(* its callers, are at the end.                                            *)
(***************************************************************************)
EXTENDS DrivenClient, TLAPS

HookTookIt ==
    /\ fired # {} => hook
    /\ \A j \in fired : handle[j] \in {"held", "done"} /\ idOf[j] \in given \ Live

ConcludedOnce ==
    /\ \A id \in Live :
          /\ of[id] \in Jobs
          /\ slot[id] = "open" => outcome[of[id]] = "none" /\ got[of[id]] = Nothing
          /\ slot[id] = "ready" => outcome[of[id]] = "ok"
          /\ slot[id] = "failed" => outcome[of[id]] = "failed"
    /\ \A j \in Jobs : handle[j] \in {"none", "dropped"} => outcome[j] = "none" /\ got[j] = Nothing
    /\ \A j \in Jobs : handle[j] = "held" => idOf[j] \in Ids
    /\ Live \subseteq given

IInv == TypeOK /\ TableMatchesHandles /\ HookTookIt /\ ConcludedOnce /\ ToldTheTruth

LEMMA Messages ==
    /\ FromCode(NETWORK_TIMEOUT).is = "NetworkTimeout"
    /\ FromCode(NETWORK_CLOSED).is = "NetworkClosed"
    /\ FromCode(APP_NOT_FOUND).is = "AppNotFound"
BY SMTT(60) DEF FromCode, Named, NETWORK_TIMEOUT, NETWORK_CLOSED, APP_NOT_FOUND

LEMMA InitInv == Init => IInv
<1> SUFFICES ASSUME Init PROVE IInv
  OBVIOUS
<1>1. TypeOK
  <2>1. Nothing \in [how : {"nothing", "response"} \cup Errors, whose : Jobs \cup {None}]
    BY DEF Nothing
  <2>2. 0 \in 0..MaxConnects
    BY DrivenClientAssumption
  <2>. QED  BY <2>1, <2>2 DEF Init, TypeOK
<1>2. Live = {}
  BY DEF Init, Live
<1>3. TableMatchesHandles /\ HookTookIt /\ ConcludedOnce /\ ToldTheTruth
  BY <1>2 DEF Init, TableMatchesHandles, HookTookIt, ConcludedOnce, ToldTheTruth, Open
<1>. QED  BY <1>1, <1>3 DEF IInv

(***************************************************************************)
(* Steps that leave the jobs alone.                                        *)
(***************************************************************************)
LEMMA Idle ==
    ASSUME IInv, UNCHANGED <<cVars, jobVars>>, hook' \in BOOLEAN, hook => hook',
           own' \in {"nothing", "connecting", "client"},
           link' \in {"none", "handshake", "up", "down"},
           inC' \in BOOLEAN, connects' \in 0..MaxConnects
    PROVE  IInv'
<1>1. /\ slot' = slot /\ of' = of /\ given' = given /\ outcome' = outcome /\ fired' = fired
      /\ handle' = handle /\ idOf' = idOf /\ got' = got
  BY DEF cVars, jobVars
<1>2. TypeOK'
  BY <1>1 DEF IInv, TypeOK
<1>3. Live' = Live /\ \A j : Open(j)' <=> Open(j)
  BY <1>1 DEF Live, Open
<1>4. TableMatchesHandles' /\ HookTookIt' /\ ConcludedOnce' /\ ToldTheTruth'
  BY <1>1, <1>3 DEF IInv, TableMatchesHandles, HookTookIt, ConcludedOnce, ToldTheTruth
<1>. QED  BY <1>2, <1>4 DEF IInv

(***************************************************************************)
(* C concludes the jobs of some open ids.                                  *)
(***************************************************************************)
LEMMA Concluding ==
    ASSUME IInv, NEW D \in SUBSET Ids, \A id \in D : slot[id] = "open",
           NEW status \in {0, NETWORK_TIMEOUT, NETWORK_CLOSED}, Conclude(D, status),
           UNCHANGED <<hook, handle, idOf>>,
           own' = own, link' \in {"none", "handshake", "up", "down"},
           inC' = inC, connects' = connects
    PROVE  IInv'
<1> DEFINE jobs == {of[id] : id \in D}
           told == IF hook THEN jobs \cap Requests ELSE {}
<1>1. PICK P \in SUBSET told : HooksRun(told, P, status)
  BY DEF Conclude
<1>2. /\ outcome' = [j \in Jobs |-> IF j \notin jobs THEN outcome[j]
                                    ELSE IF status = 0 THEN "ok" ELSE "failed"]
      /\ slot' = [id \in Ids |-> IF id \notin D THEN slot[id]
                                 ELSE IF of[id] \in told THEN "free"
                                 ELSE IF status = 0 THEN "ready" ELSE "failed"]
      /\ of' = [id \in Ids |-> IF id \in D /\ of[id] \in told THEN None ELSE of[id]]
      /\ given' = given
  BY DEF Conclude
<1>3. /\ fired' = fired \cup told
      /\ got' = [j \in Jobs |-> IF j \in told \ P THEN Told(HookResult(status), j) ELSE got[j]]
  BY <1>1 DEF HooksRun
<1>a. told \subseteq Requests /\ told \subseteq jobs
  OBVIOUS
<1>b. \A j : j \in jobs <=> \E id \in D : of[id] = j
  OBVIOUS
<1>. HIDE DEF jobs, told
<1>4. HookResult(status) \in {"response"} \cup Errors
      /\ (HookResult(status) = "response" <=> status = 0)
  BY Messages DEF HookResult, Errors, NETWORK_TIMEOUT, NETWORK_CLOSED
<1>5. \A id \in D : /\ id \in Live /\ of[id] \in Jobs /\ Open(of[id]) /\ idOf[of[id]] = id
                    /\ outcome[of[id]] = "none" /\ got[of[id]] = Nothing
  <2>1. \A id \in D : id \in Live
    BY DEF Live
  <2>2. \A id \in D : of[id] \in Jobs
    BY <2>1 DEF IInv, ConcludedOnce
  <2>. QED  BY <2>1, <2>2 DEF IInv, TableMatchesHandles, ConcludedOnce
<1>6. jobs \subseteq Jobs /\ told \subseteq Requests /\ told \subseteq jobs
  BY <1>5, <1>a, <1>b
<1>c. \A id \in Live : of[id] \in jobs <=> id \in D
  BY <1>5, <1>b DEF IInv, TableMatchesHandles
<1>7. ASSUME NEW id \in Ids
      PROVE  /\ id \notin D => slot'[id] = slot[id] /\ of'[id] = of[id]
             /\ id \in D /\ of[id] \in told => slot'[id] = "free" /\ of'[id] = None
             /\ id \in D /\ of[id] \notin told =>
                   slot'[id] = (IF status = 0 THEN "ready" ELSE "failed") /\ of'[id] = of[id]
  BY <1>2
<1>8. TypeOK'
  <2>1. slot' \in [Ids -> {"free", "open", "ready", "failed"}]
    BY <1>2, <1>7 DEF IInv, TypeOK
  <2>2. got' \in [Jobs -> [how : {"nothing", "response"} \cup Errors, whose : Jobs \cup {None}]]
    BY <1>3, <1>4, <1>6 DEF IInv, TypeOK, Told
  <2>. QED  BY <1>2, <1>3, <1>6, <2>1, <2>2 DEF IInv, TypeOK
<1>9. Live' = Live \ {id \in D : of[id] \in told}
  BY <1>5, <1>7 DEF Live
<1>10. \A j \in Jobs : Open(j)' <=> Open(j) /\ j \notin told
  BY <1>3, <1>5, <1>6, DrivenClientAssumption DEF Open, Jobs
<1>11. TableMatchesHandles'
  <2>1. ASSUME NEW j \in Jobs, Open(j)' PROVE idOf'[j] \in Live' /\ of'[idOf'[j]] = j
    <3>1. Open(j) /\ j \notin told /\ idOf[j] \in Live /\ of[idOf[j]] = j
      BY <1>10, <2>1 DEF IInv, TableMatchesHandles
    <3>. QED  BY <1>7, <1>9, <3>1 DEF Live
  <2>2. ASSUME NEW id \in Live' PROVE Open(of[id])' /\ idOf'[of'[id]] = id
    <3>1. id \in Live /\ of'[id] = of[id] /\ of[id] \notin told /\ of[id] \in Jobs
      <4>1. id \in Live /\ (id \in D => of[id] \notin told)
        BY <1>9
      <4>2. Open(of[id]) /\ idOf[of[id]] = id
        BY <4>1 DEF IInv, TableMatchesHandles
      <4>3. of[id] \in Jobs
        BY <4>1 DEF IInv, ConcludedOnce
      <4>4. of[id] \notin told
        BY <1>6, <1>c, <4>1
      <4>. QED  BY <1>7, <4>1, <4>3, <4>4 DEF Live
    <3>. QED  BY <1>10, <3>1 DEF IInv, TableMatchesHandles, Open
  <2>. QED  BY <2>1, <2>2 DEF TableMatchesHandles, Open
<1>12. HookTookIt'
  <2>1. \A j \in told : handle[j] = "held" /\ idOf[j] \in D /\ of[idOf[j]] = j
    BY <1>5, <1>6, <1>b, DrivenClientAssumption DEF Open, Jobs
  <2>2. \A j \in told : idOf[j] \in given \ Live'
    BY <1>9, <2>1 DEF IInv, ConcludedOnce, Live
  <2>3. Live' \subseteq Live
    BY <1>9
  <2>4. told # {} => hook
    BY DEF told
  <2>. QED  BY <1>2, <1>3, <2>1, <2>2, <2>3, <2>4 DEF IInv, HookTookIt
<1>13. ConcludedOnce'
  <2>1. \A j \in jobs : handle[j] \notin {"none", "dropped"}
    BY <1>5, <1>b DEF Open
  <2>2. \A id \in Live' : of'[id] \in Jobs /\ id \in Live /\ of'[id] = of[id]
                          /\ of[id] \notin told /\ (of[id] \in jobs <=> id \in D)
    <3>1. ASSUME NEW id \in Live', id \notin D PROVE of[id] \notin told
      BY <1>6, <1>9, <1>c, <3>1
    <3>2. \A id \in Live' : id \in Live /\ of[id] \notin told
      BY <1>9, <3>1
    <3>. QED  BY <1>7, <1>c, <3>2 DEF IInv, ConcludedOnce, Live
  <2>3. ASSUME NEW id \in Live'
        PROVE  /\ slot'[id] = "open" => outcome'[of'[id]] = "none" /\ got'[of'[id]] = Nothing
               /\ slot'[id] = "ready" => outcome'[of'[id]] = "ok"
               /\ slot'[id] = "failed" => outcome'[of'[id]] = "failed"
    BY <1>2, <1>3, <1>7, <2>2 DEF IInv, ConcludedOnce, Live
  <2>4. ASSUME NEW j \in Jobs, handle'[j] \in {"none", "dropped"}
        PROVE  outcome'[j] = "none" /\ got'[j] = Nothing
    BY <1>2, <1>3, <1>6, <2>1, <2>4 DEF IInv, ConcludedOnce
  <2>5. Live' \subseteq given'
    BY <1>2, <1>9 DEF IInv, ConcludedOnce
  <2>. QED  BY <2>2, <2>3, <2>4, <2>5 DEF IInv, ConcludedOnce
<1>14. ToldTheTruth'
  <2>1. SUFFICES ASSUME NEW j \in Jobs, got'[j] # Nothing
                 PROVE  \/ /\ got'[j].how = "response" <=> outcome'[j] = "ok"
                           /\ got'[j].whose = j
                        \/ j \in fired' /\ got'[j].how = "AppNotFound"
    BY DEF ToldTheTruth
  <2>2. CASE j \in told \ P
    BY <1>2, <1>3, <1>4, <1>6, <2>2 DEF Told
  <2>3. CASE j \notin told \ P
    <3>1. got'[j] = got[j] /\ j \notin jobs
      BY <1>3, <1>5, <1>b, <2>1, <2>3
    <3>. QED  BY <1>2, <1>3, <2>1, <3>1 DEF IInv, ToldTheTruth
  <2>. QED  BY <2>2, <2>3
<1>. QED  BY <1>8, <1>11, <1>12, <1>13, <1>14 DEF IInv

(***************************************************************************)
(* The application's own steps.                                            *)
(***************************************************************************)
LEMMA Submitting ==
    ASSUME IInv, NEW j \in Jobs, Begin(j)
    PROVE  IInv'
<1>1. PICK id \in Ids \ Live :
        /\ hook => id \notin given
        /\ slot' = [slot EXCEPT ![id] = "open"]
        /\ of' = [of EXCEPT ![id] = j]
        /\ given' = given \cup {id}
        /\ idOf' = [idOf EXCEPT ![j] = id]
  BY DEF Begin
<1>2. /\ handle[j] = "none" /\ handle' = [handle EXCEPT ![j] = "held"]
      /\ hook' = hook /\ outcome' = outcome /\ fired' = fired /\ got' = got
      /\ own' = own /\ link' = link /\ connects' = connects /\ inC' = inC
  BY DEF Begin, connVars
<1>3. TypeOK'
  BY <1>1, <1>2 DEF IInv, TypeOK
<1>4. Live' = Live \cup {id}
  BY <1>1 DEF IInv, TypeOK, Live
<1>5. j \notin fired /\ ~Open(j) /\ outcome[j] = "none" /\ got[j] = Nothing
  BY <1>2 DEF IInv, HookTookIt, ConcludedOnce, Open
<1>6. \A k \in Jobs : Open(k)' <=> Open(k) \/ k = j
  BY <1>2, <1>5 DEF IInv, TypeOK, Open
<1>7. \A i \in Live : i # id /\ of[i] # j /\ of[i] \in Jobs /\ of'[i] = of[i] /\ slot'[i] = slot[i]
  BY <1>1, <1>5 DEF IInv, TypeOK, TableMatchesHandles, ConcludedOnce, Live
<1>8. of'[id] = j /\ slot'[id] = "open" /\ idOf'[j] = id
      /\ \A k \in Jobs \ {j} : idOf'[k] = idOf[k]
  BY <1>1 DEF IInv, TypeOK
<1>9. TableMatchesHandles'
  <2>1. ASSUME NEW k \in Jobs, Open(k)' PROVE idOf'[k] \in Live' /\ of'[idOf'[k]] = k
    BY <1>4, <1>6, <1>7, <1>8, <2>1 DEF IInv, TableMatchesHandles
  <2>2. ASSUME NEW i \in Live' PROVE Open(of[i])' /\ idOf'[of'[i]] = i
    BY <1>4, <1>6, <1>7, <1>8 DEF IInv, TableMatchesHandles, Open
  <2>. QED  BY <2>1, <2>2 DEF TableMatchesHandles, Open
<1>10. HookTookIt'
  BY <1>1, <1>2, <1>4, <1>5, <1>8 DEF IInv, TypeOK, HookTookIt, Jobs
<1>11. ConcludedOnce'
  BY <1>1, <1>2, <1>4, <1>5, <1>7, <1>8 DEF IInv, TypeOK, ConcludedOnce
<1>12. ToldTheTruth'
  BY <1>2 DEF IInv, ToldTheTruth
<1>. QED  BY <1>3, <1>9, <1>10, <1>11, <1>12 DEF IInv

LEMMA Refusing ==
    ASSUME IInv, NEW j \in Jobs, SubmitRefused(j)
    PROVE  IInv'
<1>1. /\ handle[j] = "none" /\ handle' = [handle EXCEPT ![j] = "dropped"]
      /\ hook' = hook /\ outcome' = outcome /\ fired' = fired /\ got' = got
      /\ own' = own /\ link' = link /\ connects' = connects /\ inC' = inC
      /\ slot' = slot /\ of' = of /\ given' = given /\ idOf' = idOf
  BY DEF SubmitRefused, connVars, cVars
<1>2. TypeOK' /\ Live' = Live
  BY <1>1 DEF IInv, TypeOK, Live
<1>3. j \notin fired /\ ~Open(j)
  BY <1>1 DEF IInv, HookTookIt, Open
<1>4. \A k \in Jobs : Open(k)' <=> Open(k)
  BY <1>1, <1>3 DEF IInv, TypeOK, Open
<1>5. TableMatchesHandles'
  BY <1>1, <1>2, <1>4 DEF IInv, TableMatchesHandles, ConcludedOnce, Open
<1>6. HookTookIt' /\ ConcludedOnce' /\ ToldTheTruth'
  BY <1>1, <1>2, <1>3 DEF IInv, TypeOK, HookTookIt, ConcludedOnce, ToldTheTruth, Jobs
<1>. QED  BY <1>2, <1>5, <1>6 DEF IInv

(* What a poll reads is C's conclusion of the very job, or that the hook   *)
(* has taken it.                                                           *)
LEMMA Answered ==
    ASSUME IInv, NEW j \in Jobs, Yields(j)
    PROVE  LET rc  == AnswerCode(j)
               how == IF rc = 0 THEN "response" ELSE FromCode(rc).is
           IN  /\ how \in {"response"} \cup Errors
               /\ idOf[j] \in Ids
               /\ j \notin fired => /\ of[idOf[j]] = j /\ idOf[j] \in Live
                                    /\ how = "response" <=> outcome[j] = "ok"
               /\ j \in fired => how = "AppNotFound"
<1>1. handle[j] = "held" /\ idOf[j] \in Ids
  BY DEF Yields, IInv, ConcludedOnce
<1>2. CASE j \in fired
  <2>1. slot[idOf[j]] = "free"
    BY <1>1, <1>2 DEF IInv, HookTookIt, Live
  <2>2. AnswerCode(j) = APP_NOT_FOUND
    BY <2>1 DEF AnswerCode
  <2>. QED  BY <1>1, <1>2, <2>2, Messages DEF APP_NOT_FOUND, Errors
<1>3. CASE j \notin fired
  <2>1. idOf[j] \in Live /\ of[idOf[j]] = j
    BY <1>1, <1>3 DEF IInv, TableMatchesHandles, Open
  <2>2. slot[idOf[j]] \in {"ready", "failed"}
    BY <1>1, <2>1 DEF IInv, TypeOK, Live, Yields, AnswerCode
  <2>3. CASE slot[idOf[j]] = "ready"
    <3>1. AnswerCode(j) = 0 /\ outcome[j] = "ok"
      BY <2>1, <2>3 DEF AnswerCode, IInv, ConcludedOnce
    <3>. QED  BY <1>1, <1>3, <2>1, <3>1
  <2>4. CASE slot[idOf[j]] = "failed"
    <3>1. AnswerCode(j) \in {NETWORK_TIMEOUT, NETWORK_CLOSED} /\ outcome[j] = "failed"
      BY <2>1, <2>4 DEF AnswerCode, IInv, ConcludedOnce
    <3>. QED  BY <1>1, <1>3, <2>1, <3>1, Messages DEF Errors, NETWORK_TIMEOUT, NETWORK_CLOSED
  <2>. QED  BY <2>2, <2>3, <2>4
<1>. QED  BY <1>2, <1>3

(* Retiring an id that is not live changes nothing but, perhaps, `of`.     *)
LEMMA Retired ==
    ASSUME TypeOK, NEW D \in SUBSET Ids, Retire(D)
    PROVE  /\ Live' = Live \ D
           /\ \A id \in Live' : slot'[id] = slot[id] /\ of'[id] = of[id]
           /\ slot' \in [Ids -> {"free", "open", "ready", "failed"}]
           /\ of' \in [Ids -> Jobs \cup {None}]
BY DEF TypeOK, Retire, Live

LEMMA Polling ==
    ASSUME IInv, NEW j \in Jobs, Report(j),
           IF j \in Requests THEN Retire({idOf[j]}) ELSE UNCHANGED <<slot, of>>
    PROVE  IInv'
<1> DEFINE rc  == AnswerCode(j)
           how == IF rc = 0 THEN "response" ELSE FromCode(rc).is
           gone == IF j \in Requests THEN {idOf[j]} ELSE {}
<1>1. Yields(j) /\ handle[j] = "held" /\ got[j] = Nothing
  BY DEF Report, Yields
<1>2. /\ got' = [got EXCEPT ![j] = Told(how, of[idOf[j]])]
      /\ handle' = [handle EXCEPT ![j] = "done"]
      /\ hook' = hook /\ outcome' = outcome /\ fired' = fired /\ given' = given /\ idOf' = idOf
      /\ own' = own /\ link' = link /\ connects' = connects /\ inC' = inC
  BY DEF Report, connVars
<1>3. /\ how \in {"response"} \cup Errors
      /\ idOf[j] \in Ids
      /\ j \notin fired => /\ of[idOf[j]] = j /\ idOf[j] \in Live
                           /\ how = "response" <=> outcome[j] = "ok"
      /\ j \in fired => how = "AppNotFound"
  BY <1>1, Answered
<1>. HIDE DEF how, rc
<1>4. /\ Live' = Live \ gone
      /\ \A id \in Live' : slot'[id] = slot[id] /\ of'[id] = of[id]
      /\ slot' \in [Ids -> {"free", "open", "ready", "failed"}]
      /\ of' \in [Ids -> Jobs \cup {None}]
  <2>1. CASE j \in Requests
    <3>1. Retire(gone)
      BY <2>1
    <3>. QED  BY <1>3, <2>1, <3>1, Retired DEF IInv
  <2>2. CASE j \notin Requests
    BY <2>2 DEF IInv, TypeOK, Live
  <2>. QED  BY <2>1, <2>2
<1>5. TypeOK'
  <2>1. Told(how, of[idOf[j]]) \in [how : {"nothing", "response"} \cup Errors, whose : Jobs \cup {None}]
    BY <1>3 DEF Told, IInv, TypeOK
  <2>. QED  BY <1>2, <1>4, <2>1 DEF IInv, TypeOK
<1>6. \A k \in Jobs : Open(k)' <=> Open(k) /\ ~(k = j /\ j \in Requests)
  <2>1. j \in fired => j \in Requests
    BY DEF IInv, TypeOK
  <2>. QED  BY <1>1, <1>2, <2>1, DrivenClientAssumption DEF IInv, TypeOK, Open, Jobs
<1>7. \A id \in Live : of[id] = j => id = idOf[j]
  BY DEF IInv, TableMatchesHandles
<1>8. \A k \in Jobs : Open(k)' => idOf[k] # idOf[j] \/ j \notin Requests
  BY <1>3, <1>6 DEF IInv, TableMatchesHandles, HookTookIt
<1>9. TableMatchesHandles'
  <2>1. ASSUME NEW k \in Jobs, Open(k)' PROVE idOf'[k] \in Live' /\ of'[idOf'[k]] = k
    <3>1. Open(k) /\ idOf[k] \in Live /\ of[idOf[k]] = k
      BY <1>6, <2>1 DEF IInv, TableMatchesHandles
    <3>. QED  BY <1>2, <1>4, <1>8, <2>1, <3>1
  <2>2. ASSUME NEW id \in Live' PROVE Open(of[id])' /\ idOf'[of'[id]] = id
    <3>1. id \in Live /\ of'[id] = of[id] /\ of[id] \in Jobs /\ Open(of[id]) /\ idOf[of[id]] = id
      BY <1>4 DEF IInv, TableMatchesHandles, ConcludedOnce
    <3>2. ~(of[id] = j /\ j \in Requests)
      BY <1>4, <1>7, <3>1
    <3>. QED  BY <1>2, <1>6, <3>1, <3>2 DEF Open
  <2>. QED  BY <2>1, <2>2, <1>4 DEF TableMatchesHandles, Open
<1>10. HookTookIt'
  BY <1>2, <1>4 DEF IInv, TypeOK, HookTookIt, Jobs
<1>11. ConcludedOnce'
  <2>1. \A id \in Live' : slot'[id] = "open" => of[id] # j
    BY <1>1, <1>3, <1>4, <1>7 DEF IInv, TypeOK, Yields, AnswerCode, TableMatchesHandles, Open
  <2>2. \A k \in Jobs \ {j} : got'[k] = got[k] /\ handle'[k] = handle[k]
    BY <1>2 DEF IInv, TypeOK
  <2>3. handle'[j] = "done"
    BY <1>2 DEF IInv, TypeOK
  <2>. QED  BY <1>2, <1>4, <2>1, <2>2, <2>3 DEF IInv, ConcludedOnce
<1>12. ToldTheTruth'
  BY <1>2, <1>3 DEF IInv, TypeOK, ToldTheTruth, Told
<1>. QED  BY <1>5, <1>9, <1>10, <1>11, <1>12 DEF IInv

LEMMA Dropping ==
    ASSUME IInv, NEW j \in Jobs, Release(j),
           NEW cancels \in BOOLEAN, cancels <=> j \in Streams \/ Cancels(j),
           IF cancels THEN Retire({idOf[j]}) ELSE UNCHANGED <<slot, of>>
    PROVE  IInv'
<1> DEFINE gone == IF cancels THEN {idOf[j]} ELSE {}
<1>1. handle[j] \in {"held", "done"}
  BY DEF Release
<1>2. /\ handle' = [handle EXCEPT ![j] = "dropped"]
      /\ idOf' = [idOf EXCEPT ![j] = None]
      /\ got' = [got EXCEPT ![j] = Nothing]
      /\ outcome' = [outcome EXCEPT ![j] = "none"]
      /\ fired' = fired \ {j}
      /\ hook' = hook /\ given' = given
      /\ own' = own /\ link' = link /\ connects' = connects /\ inC' = inC
  BY DEF Release, connVars
<1>3. cancels => idOf[j] \in Ids
  <2>1. CASE Open(j)
    BY <2>1 DEF IInv, TableMatchesHandles, Live
  <2>2. CASE j \in fired
    BY <2>2 DEF IInv, TypeOK, HookTookIt
  <2>. QED  BY <1>1, <2>1, <2>2 DEF Cancels, Open
<1>4. /\ Live' = Live \ gone
      /\ \A id \in Live' : slot'[id] = slot[id] /\ of'[id] = of[id]
      /\ slot' \in [Ids -> {"free", "open", "ready", "failed"}]
      /\ of' \in [Ids -> Jobs \cup {None}]
  <2>1. CASE cancels
    <3>1. Retire(gone)
      BY <2>1
    <3>. QED  BY <1>3, <2>1, <3>1, Retired DEF IInv
  <2>2. CASE ~cancels
    BY <2>2 DEF IInv, TypeOK, Live
  <2>. QED  BY <2>1, <2>2
<1>5. TypeOK'
  <2>1. Nothing \in [how : {"nothing", "response"} \cup Errors, whose : Jobs \cup {None}]
    BY DEF Nothing
  <2>. QED  BY <1>2, <1>4, <2>1 DEF IInv, TypeOK
<1>6. \A k \in Jobs : Open(k)' <=> Open(k) /\ k # j
  BY <1>2 DEF IInv, TypeOK, Open
<1>7. \A id \in Live : /\ of[id] = j => id \in gone
                       /\ id \in gone => of[id] = j
  <2>1. CASE Open(j)
    BY <2>1 DEF Open, Cancels, IInv, TableMatchesHandles
  <2>2. CASE ~Open(j)
    <3>1. \A id \in Live : of[id] # j
      BY <2>2 DEF IInv, TableMatchesHandles
    <3>2. CASE j \in fired
      BY <3>1, <3>2 DEF IInv, HookTookIt
    <3>3. CASE j \notin fired
      BY <1>1, <2>2, <3>1, <3>3 DEF Open, Cancels
    <3>. QED  BY <3>2, <3>3
  <2>. QED  BY <2>1, <2>2
<1>. HIDE DEF gone
<1>8. TableMatchesHandles'
  <2>1. ASSUME NEW k \in Jobs, Open(k)' PROVE idOf'[k] \in Live' /\ of'[idOf'[k]] = k
    <3>1. k # j /\ idOf[k] \in Live /\ of[idOf[k]] = k
      BY <1>6, <2>1 DEF IInv, TableMatchesHandles
    <3>2. idOf'[k] = idOf[k]
      BY <1>2, <3>1 DEF IInv, TypeOK
    <3>. QED  BY <1>4, <1>7, <3>1, <3>2
  <2>2. ASSUME NEW id \in Live' PROVE Open(of[id])' /\ idOf'[of'[id]] = id
    <3>1. id \in Live /\ of'[id] = of[id] /\ of[id] \in Jobs /\ Open(of[id]) /\ idOf[of[id]] = id
      BY <1>4 DEF IInv, TableMatchesHandles, ConcludedOnce
    <3>2. of[id] # j
      BY <1>4, <1>7, <3>1
    <3>3. idOf'[of[id]] = idOf[of[id]]
      BY <1>2, <3>1, <3>2 DEF IInv, TypeOK
    <3>. QED  BY <1>6, <3>1, <3>2, <3>3 DEF Open
  <2>. QED  BY <2>1, <2>2, <1>4 DEF TableMatchesHandles, Open
<1>9. HookTookIt'
  <2>1. \A k \in Jobs \ {j} : handle'[k] = handle[k] /\ idOf'[k] = idOf[k]
    BY <1>2 DEF IInv, TypeOK
  <2>. QED  BY <1>2, <1>4, <2>1 DEF IInv, TypeOK, HookTookIt, Jobs
<1>10. ConcludedOnce'
  <2>1. \A id \in Live' : of[id] # j
    BY <1>4, <1>7
  <2>2. \A k \in Jobs \ {j} : /\ got'[k] = got[k] /\ handle'[k] = handle[k]
                              /\ outcome'[k] = outcome[k] /\ idOf'[k] = idOf[k]
    BY <1>2 DEF IInv, TypeOK
  <2>3. handle'[j] = "dropped" /\ outcome'[j] = "none" /\ got'[j] = Nothing
    BY <1>2 DEF IInv, TypeOK
  <2>. QED  BY <1>2, <1>4, <2>1, <2>2, <2>3 DEF IInv, ConcludedOnce
<1>11. ToldTheTruth'
  BY <1>2 DEF IInv, TypeOK, ToldTheTruth
<1>. QED  BY <1>5, <1>8, <1>9, <1>10, <1>11 DEF IInv

LEMMA Closing ==
    ASSUME IInv, DropClient
    PROVE  IInv'
<1>1. /\ \A j \in Jobs : handle[j] \notin {"held", "done"}
      /\ own' = "nothing" /\ link' = "none" /\ hook' = FALSE /\ given' = {}
      /\ inC' = inC /\ connects' = connects /\ outcome' = outcome /\ fired' = fired
      /\ handle' = handle /\ idOf' = idOf /\ got' = got
  BY DEF DropClient, jobVars
<1>2. Live' = {} /\ slot' \in [Ids -> {"free", "open", "ready", "failed"}]
      /\ of' \in [Ids -> Jobs \cup {None}]
  BY Retired DEF DropClient, IInv, Live
<1>3. TypeOK'
  BY <1>1, <1>2 DEF IInv, TypeOK
<1>4. fired = {} /\ \A j \in Jobs : ~Open(j)'
  BY <1>1 DEF IInv, TypeOK, HookTookIt, Open, Jobs
<1>5. TableMatchesHandles' /\ HookTookIt' /\ ConcludedOnce' /\ ToldTheTruth'
  BY <1>1, <1>2, <1>4 DEF IInv, TableMatchesHandles, HookTookIt, ConcludedOnce, ToldTheTruth
<1>. QED  BY <1>3, <1>5 DEF IInv

(***************************************************************************)
(* The invariant.                                                          *)
(***************************************************************************)
LEMMA NextInv == IInv /\ [Next]_vars => IInv'
<1> SUFFICES ASSUME IInv, [Next]_vars PROVE IInv'
  OBVIOUS
<1>1. CASE Connect
  BY <1>1, Idle, DrivenClientAssumption DEF Connect, IInv, TypeOK
<1>2. CASE ConnectPoll \/ GiveUp \/ Handshake
  BY <1>2, Idle DEF ConnectPoll, GiveUp, Handshake, IInv, TypeOK
<1>3. CASE EnterC \/ LeaveC
  BY <1>3, Idle DEF EnterC, LeaveC, connVars, IInv, TypeOK
<1>4. CASE OnRequestDone
  BY <1>4, Idle DEF OnRequestDone, connVars, IInv, TypeOK
<1>5. ASSUME NEW id \in Ids, Finish(id) PROVE IInv'
  <2>1. PICK status \in {0, NETWORK_TIMEOUT} : Conclude({id}, status)
    BY <1>5 DEF Finish
  <2>. QED  BY <1>5, <2>1, Concluding DEF Finish, connVars, IInv, TypeOK
<1>6. CASE ConnLost
  <2> DEFINE D == {id \in Ids : slot[id] = "open"}
  <2>1. Conclude(D, NETWORK_CLOSED) /\ D \in SUBSET Ids /\ \A id \in D : slot[id] = "open"
    BY <1>6 DEF ConnLost
  <2>. HIDE DEF D
  <2>. QED  BY <1>6, <2>1, Concluding DEF ConnLost
<1>7. ASSUME NEW j \in Jobs, SubmitRefused(j) PROVE IInv'
  BY <1>7, Refusing
<1>8. ASSUME NEW r \in Requests, Submit(r) \/ Poll(r) \/ DropHandle(r)
      PROVE  IInv'
  <2>1. r \in Jobs /\ r \notin Streams
    BY DrivenClientAssumption DEF Jobs
  <2>2. CASE Submit(r)
    BY <2>1, <2>2, Submitting DEF Submit
  <2>3. CASE Poll(r)
    BY <2>1, <2>3, Polling DEF Poll
  <2>4. CASE DropHandle(r)
    <3>1. CASE Cancels(r)
      BY <2>1, <2>4, <3>1, Dropping DEF DropHandle
    <3>2. CASE ~Cancels(r)
      BY <2>1, <2>4, <3>2, Dropping DEF DropHandle
    <3>. QED  BY <3>1, <3>2
  <2>. QED  BY <1>8, <2>2, <2>3, <2>4
<1>9. ASSUME NEW s \in Streams, OpenStream(s) \/ Recv(s) \/ CloseStream(s)
      PROVE  IInv'
  <2>1. s \in Jobs /\ s \notin Requests
    BY DrivenClientAssumption DEF Jobs
  <2>2. CASE OpenStream(s)
    BY <2>1, <2>2, Submitting DEF OpenStream
  <2>3. CASE Recv(s)
    BY <2>1, <2>3, Polling DEF Recv
  <2>4. CASE CloseStream(s)
    BY <2>1, <2>4, Dropping DEF CloseStream
  <2>. QED  BY <1>9, <2>2, <2>3, <2>4
<1>10. CASE DropClient
  BY <1>10, Closing
<1>11. CASE Terminated \/ UNCHANGED vars
  BY <1>11, Idle DEF Terminated, vars, connVars, IInv, TypeOK
<1>. QED  BY <1>1, <1>2, <1>3, <1>4, <1>5, <1>6, <1>7, <1>8, <1>9, <1>10, <1>11 DEF Next

THEOREM Invariant == Spec => []IInv
BY InitInv, NextInv, PTL DEF Spec

(***************************************************************************)
(* The state is well typed: no handle ever reports the would-block of a    *)
(* request that is pending (RequestHandle::poll).                          *)
(***************************************************************************)
THEOREM TypeCorrect == Spec => []TypeOK
BY Invariant, PTL DEF IInv

(***************************************************************************)
(* The handles and C's table agree, whatever ids C gives again             *)
(* (RequestHandle::cancel_inner, client.rs:942).                           *)
(***************************************************************************)
THEOREM TableMatches == Spec => []TableMatchesHandles
BY Invariant, PTL DEF IInv

(***************************************************************************)
(* What the application is told of a request is how that request ended     *)
(* (RequestHandle::poll, done_trampoline).                                 *)
(***************************************************************************)
THEOREM Truth == Spec => []ToldTheTruth
BY Invariant, PTL DEF IInv

-----------------------------------------------------------------------------
(***************************************************************************)
(* What the results mean that the handles report: the tables of Codes      *)
(* agree in both directions, for every integer and every token.  Each      *)
(* table is first compared with one list of its rows; the theorems then    *)
(* speak of rows only.                                                     *)
(***************************************************************************)

ErrorRows ==
    {
        <<-101, "ConfigInvalid">>, <<-102, "ConfigMissing">>, <<-201, "NetworkConnect">>,
        <<-202, "NetworkTimeout">>, <<-203, "NetworkClosed">>, <<-204, "NetworkQuic">>,
        <<-205, "NetworkTls">>, <<-301, "CryptoKeygen">>, <<-302, "CryptoRand">>,
        <<-303, "CryptoSign">>, <<-304, "CryptoVerify">>, <<-381, "CryptoFatalCert">>,
        <<-382, "CryptoFatalNodeIdMismatch">>, <<-383, "CryptoFatalChallenge">>,
        <<-384, "CryptoFatalServerSig">>, <<-385, "CryptoFatalClientSig">>,
        <<-401, "ProtoInvalidMessage">>, <<-402, "ProtoInvalidMethod">>,
        <<-403, "ProtoInvalidHeader">>, <<-404, "ProtoConnectRequired">>,
        <<-405, "ProtoStreamReuse">>, <<-406, "ProtoMaxStreams">>,
        <<-407, "ProtoFlowControl">>, <<-408, "ProtoMessageTooLarge">>,
        <<-481, "ProtoFatalVersion">>, <<-501, "IdentityGenerate">>,
        <<-502, "IdentityMismatch">>, <<-503, "IdentityNotFound">>,
        <<-504, "IdentityRevoked">>, <<-601, "AppNotFound">>, <<-602, "AppConflict">>,
        <<-603, "AppRateLimited">>, <<-604, "AppForbidden">>,
        <<-701, "TrustInvalidEntry">>, <<-702, "TrustInvalidAnchor">>,
        <<-703, "TrustStaleCheckpoint">>, <<-704, "TrustThreshold">>,
        <<-705, "TrustRevoked">>, <<-706, "TrustNoCheckpoint">>,
        <<-781, "TrustFatalEquivocation">>, <<-782, "TrustFatalLogCorrupt">>,
        <<-801, "Internal">>, <<-802, "InternalAlloc">>, <<-803, "WouldBlock">>
    }

LEMMA FromCodeRows == \A r \in ErrorRows : FromCode(r[1]) = Named(r[2])
BY SMTT(60) DEF ErrorRows, FromCode

LEMMA CodeRows == \A r \in ErrorRows : Code(Named(r[2])) = r[1]
BY SMTT(60) DEF ErrorRows, Code, Named

LEMMA FromCodeUnnamed ==
    ASSUME NEW c \in Int, \A r \in ErrorRows : r[1] # c
    PROVE  FromCode(c) = Other(c)
BY SMTT(60) DEF ErrorRows, FromCode

LEMMA CodeOfOther == ASSUME NEW c \in Int PROVE Code(Other(c)) = c
BY SMTT(60) DEF Code, Other

(***************************************************************************)
(* A code survives the crossing: the number a C call returned is what      *)
(* Error::code gives back, named or not (error.rs, code and from_code).    *)
(***************************************************************************)
THEOREM CodeRoundTrip ==
    ASSUME NEW c \in Int
    PROVE  Code(FromCode(c)) = c
<1>1. CASE \E r \in ErrorRows : r[1] = c
  BY <1>1, FromCodeRows, CodeRows
<1>2. CASE \A r \in ErrorRows : r[1] # c
  BY <1>2, FromCodeUnnamed, CodeOfOther
<1>. QED  BY <1>1, <1>2

(***************************************************************************)
(* Two codes never read as one error, so a loop that branches on the error *)
(* has branched on the code (error.rs, from_code).                         *)
(***************************************************************************)
THEOREM FromCodeInjective ==
    ASSUME NEW c \in Int, NEW d \in Int, FromCode(c) = FromCode(d)
    PROVE  c = d
BY CodeRoundTrip

(***************************************************************************)
(* The fatal errors are those numbered from 81 in their hundred: every     *)
(* fatal code is, and every named code of that band is fatal.  A code of   *)
(* the band without a name (a newer library's) is not (error.rs is_fatal). *)
(***************************************************************************)
THEOREM FatalBand ==
    ASSUME NEW c \in Int
    PROVE  IsFatal(FromCode(c)) <=> FromCode(c).is # "Other" /\ (-c) % 100 >= 81
<1>1. \A r \in ErrorRows : IsFatal(Named(r[2])) <=> (-r[1]) % 100 >= 81
  BY SMTT(60) DEF ErrorRows, IsFatal, Named
<1>2. \A r \in ErrorRows : Named(r[2]).is # "Other"
  BY SMTT(60) DEF ErrorRows, Named
<1>3. ~IsFatal(Other(c)) /\ Other(c).is = "Other"
  BY DEF IsFatal, Other
<1>4. CASE \E r \in ErrorRows : r[1] = c
  BY <1>1, <1>2, <1>4, FromCodeRows
<1>5. CASE \A r \in ErrorRows : r[1] # c
  BY <1>3, <1>5, FromCodeUnnamed
<1>. QED  BY <1>4, <1>5

StatusRows ==
    {
        <<"Ok", "ok">>, <<"Created", "created">>, <<"Accepted", "accepted">>,
        <<"NoContent", "no-content">>, <<"PartialContent", "partial-content">>,
        <<"Moved", "moved">>, <<"NotModified", "not-modified">>,
        <<"BadRequest", "bad-request">>, <<"Unauthorized", "unauthorized">>,
        <<"Forbidden", "forbidden">>, <<"NotFound", "not-found">>,
        <<"NotAllowed", "not-allowed">>, <<"Conflict", "conflict">>, <<"Gone", "gone">>,
        <<"TooLarge", "too-large">>, <<"PreconditionFailed", "precondition-failed">>,
        <<"RangeNotSatisfiable", "range-not-satisfiable">>,
        <<"RateLimited", "rate-limited">>, <<"Error", "error">>,
        <<"Unavailable", "unavailable">>, <<"Timeout", "timeout">>,
        <<"NotImplemented", "not-implemented">>
    }

LEMMA TokenRows == \A r \in StatusRows : StatusToken(r[1]) = r[2]
BY SMTT(60) DEF StatusRows, StatusToken

LEMMA FromTokenRows == \A r \in StatusRows : FromToken(r[2]) = r[1]
BY SMTT(60) DEF StatusRows, FromToken

(***************************************************************************)
(* A status a handler answers with is the status the client reads          *)
(* (wire.rs, Status::from_token against the library's tokens).             *)
(***************************************************************************)
THEOREM StatusRoundTrip ==
    ASSUME NEW s \in Status
    PROVE  FromToken(StatusToken(s)) = s
<1>1. \E r \in StatusRows : r[1] = s
  BY SMTT(60) DEF Status, StatusRows
<1>. QED  BY <1>1, TokenRows, FromTokenRows

(***************************************************************************)
(* A token that reads as anything but Error is the token of that status:   *)
(* a status of a newer peer never passes for one of today's (wire.rs).     *)
(***************************************************************************)
THEOREM UnknownTokenIsError ==
    ASSUME NEW t, FromToken(t) # "Error"
    PROVE  t = StatusToken(FromToken(t))
<1>1. \E r \in StatusRows : r[2] = t
  BY SMTT(60) DEF StatusRows, FromToken
<1>. QED  BY <1>1, TokenRows, FromTokenRows

(***************************************************************************)
(* No error passes for a kind of result: a code below zero is handed on as *)
(* the error of that very code, by the entry type and by the range alike   *)
(* (log.rs EntryType::of, server.rs Request::range).                       *)
(***************************************************************************)
THEOREM ErrorsStayErrors ==
    ASSUME NEW c \in Int, c < 0, NEW result \in {EntryTypeOf(c), RangeOutcome(c)}
    PROVE  ~result.ok /\ Code(result.value) = c
<1>1. result = Failed(c)
  BY SMT DEF EntryTypeOf, RangeOutcome
<1>2. Code(FromCode(c)) = c
  BY CodeRoundTrip
<1>. QED  BY <1>1, <1>2 DEF Failed

(***************************************************************************)
(* The reason a key is revoked for is the one a reader of the entry finds, *)
(* and a byte that is no reason's is never read as one (log.rs, code and   *)
(* from_code of RevocationReason).                                         *)
(***************************************************************************)
THEOREM ReasonRoundTrip ==
    /\ \A r \in Reasons : ReasonFrom(ReasonCode(r)) = r
    /\ \A b \in Int : ReasonFrom(b) # "None" => ReasonCode(ReasonFrom(b)) = b
<1>1. \A r \in Reasons : ReasonFrom(ReasonCode(r)) = r
  BY SMT DEF Reasons, ReasonFrom, ReasonCode
<1>2. \A b \in Int : ReasonFrom(b) # "None" => ReasonCode(ReasonFrom(b)) = b
  BY SMT DEF ReasonFrom, ReasonCode
<1>. QED  BY <1>1, <1>2

=============================================================================
