------------------------- MODULE AdminAccessProofs -------------------------
(***************************************************************************)
(* Theorems about AdminAccess for any number of usernames, passwords,      *)
(* tokens, browsers, tabs and requests and any number of restarts.  Most   *)
(* steps move one request and leave the tables of the server alone; the    *)
(* three that do not are treated one by one.                               *)
(***************************************************************************)
EXTENDS AdminAccess, TLAPS

-----------------------------------------------------------------------------
(* Requests.                                                               *)

\* None is no username, password, token or tab.
LEMMA AbsentIsNoValue ==
  None \notin Usernames /\ None \notin Passwords /\ None \notin Tokens /\ None \notin Tabs
  BY NoneIsNothing

\* A request slot nobody uses is sound.
LEMMA FreeSound == Free \in Request /\ RequestSound(Free) /\ Earned(Free)
  BY NoneIsNothing DEF Free, Request, Running, Replies, RequestSound, Earned

\* The fields of a request have their types.
LEMMA RequestTypes ==
  ASSUME TypeOK, NEW r \in Requests
  PROVE  /\ req[r] \in Request
         /\ req[r].st \in {"free"} \cup Running \cup Replies
         /\ req[r].kind \in {"status", "probe", "setup", "login", "page", None}
         /\ req[r].tab \in Tabs \cup {None}
         /\ req[r].user \in Usernames \cup {None}
         /\ req[r].pass \in Passwords \cup {None}
         /\ req[r].token \in Tokens \cup {None}
<1>1. req[r] \in Request
  BY DEF TypeOK
<1> QED BY <1>1 DEF Request

\* A request with another place in its handler has the type of a request.
LEMMA MovedRequest ==
  ASSUME TypeOK, NEW r \in Requests, NEW st \in {"free"} \cup Running \cup Replies
  PROVE  LET q == [req[r] EXCEPT !.st = st] IN
         /\ q \in Request
         /\ q.st = st /\ q.kind = req[r].kind /\ q.user = req[r].user /\ q.pass = req[r].pass
<1>1. req[r] \in Request
  BY RequestTypes
<1> QED BY <1>1 DEF Request

\* A request that was just sent is sound: its handler has done nothing yet.
LEMMA SentSound ==
  ASSUME NEW kind \in {"status", "probe", "setup", "login", "page"}, NEW t \in Tabs,
         NEW u \in Usernames \cup {None}, NEW p \in Passwords \cup {None},
         NEW k \in Tokens \cup {None},
         kind \in {"setup", "login"} => u \in Usernames /\ p \in Passwords
  PROVE  LET q == Sent(kind, t, u, p, k) IN q \in Request /\ RequestSound(q) /\ Earned(q)
  BY DEF Sent, Request, Running, Replies, RequestSound, Earned

-----------------------------------------------------------------------------
(* Steps that leave accounts and sessions alone.                           *)

BrowserTypes ==
  /\ up' \in BOOLEAN
  /\ token' \in [Browsers -> Tokens \cup {None}]
  /\ gate' \in [Tabs -> {"closed", "loading", "setup", "login", "authenticated"}]
  /\ restarts' \in Nat

\* If every request is sound after a step that leaves the tables alone, the
\* invariant holds after it.
LEMMA TablesStay ==
  ASSUME AccessInv, UNCHANGED <<accounts, sessions, owner>>, BrowserTypes,
         req' \in [Requests -> Request],
         \A r \in Requests : RequestSound(req'[r]) /\ Earned(req'[r])
  PROVE  AccessInv'
<1>1. TypeOK'
  BY DEF AccessInv, TypeOK, BrowserTypes
<1>2. SessionsHaveAccounts'
  BY DEF AccessInv, SessionsHaveAccounts
<1>3. \A r \in Requests : RequestSound(req[r])' /\ Earned(req[r])'
  BY DEF RequestSound, Earned
<1> QED BY <1>1, <1>2, <1>3 DEF AccessInv

\* The same of a step that replaces one request by a sound one.
LEMMA OneRequest ==
  ASSUME AccessInv, UNCHANGED <<accounts, sessions, owner>>, BrowserTypes,
         NEW r \in Requests, NEW q \in Request, RequestSound(q), Earned(q),
         req' = [req EXCEPT ![r] = q]
  PROVE  AccessInv'
<1>1. req' \in [Requests -> Request]
  BY DEF AccessInv, TypeOK
<1>2. \A s \in Requests : RequestSound(req'[s]) /\ Earned(req'[s])
  BY DEF AccessInv, TypeOK
<1> QED BY <1>1, <1>2, TablesStay

\* A step that changes no request and no table.
LEMMA NoRequest ==
  ASSUME AccessInv, UNCHANGED <<accounts, sessions, owner, req>>, BrowserTypes
  PROVE  AccessInv'
<1>1. req' \in [Requests -> Request]
  BY DEF AccessInv, TypeOK
<1>2. \A s \in Requests : RequestSound(req'[s]) /\ Earned(req'[s])
  BY DEF AccessInv
<1> QED BY <1>1, <1>2, TablesStay

\* What the browser keeps has its type when it is left alone.
LEMMA BrowserStays == ASSUME AccessInv, UNCHANGED <<up, browser, restarts>> PROVE BrowserTypes
  BY DEF AccessInv, TypeOK, BrowserTypes, browser

\* What a tab finds in localStorage is a token or nothing.
LEMMA StoredIsToken == ASSUME AccessInv, NEW t \in Tabs PROVE Stored(t) \in Tokens \cup {None}
  BY BrowserOfIsFunction DEF AccessInv, TypeOK, Stored

\* A handler that only goes on.
LEMMA HandlerMoves ==
  ASSUME AccessInv, NEW r \in Requests, NEW st \in Running \cup Replies, Becomes(r, st),
         UNCHANGED <<server, browser, restarts>>,
         RequestSound([req[r] EXCEPT !.st = st]), Earned([req[r] EXCEPT !.st = st])
  PROVE  AccessInv'
<1> DEFINE q == [req[r] EXCEPT !.st = st]
<1>1. q \in Request
  BY MovedRequest DEF AccessInv
<1>2. req' = [req EXCEPT ![r] = q]
  BY DEF Becomes
<1>3. BrowserTypes
  BY BrowserStays DEF server
<1>4. UNCHANGED <<accounts, sessions, owner>>
  BY DEF server
<1> HIDE DEF q
<1>5. RequestSound(q) /\ Earned(q)
  BY DEF q
<1> QED BY <1>1, <1>2, <1>3, <1>4, <1>5, OneRequest
-----------------------------------------------------------------------------
(* The server.                                                             *)

\* Starting the server keeps the invariant.
LEMMA StepServerStart == ASSUME AccessInv, ServerStart PROVE AccessInv'
<1>1. BrowserTypes
  BY DEF ServerStart, AccessInv, TypeOK, BrowserTypes, browser
<1>2. UNCHANGED <<accounts, sessions, owner, req>>
  BY DEF ServerStart
<1> QED BY <1>1, <1>2, NoRequest

\* A crash forgets the sessions, and the handlers lose their requests.
LEMMA StepServerCrash == ASSUME AccessInv, ServerCrash PROVE AccessInv'
<1>1. UNCHANGED <<accounts, owner, token, gate>> /\ sessions' = {}
      /\ up' = FALSE /\ restarts' = restarts + 1
  BY DEF ServerCrash, browser
<1>2. ASSUME NEW r \in Requests
      PROVE  req'[r] \in Request /\ RequestSound(req'[r]) /\ Earned(req'[r])
  <2>1. CASE req[r].st \in Running
    <3>1. req'[r] = [req[r] EXCEPT !.st = "lost"]
      BY <2>1 DEF ServerCrash
    <3>2. /\ req'[r] \in Request /\ req'[r].st = "lost"
          /\ req'[r].kind = req[r].kind /\ req'[r].user = req[r].user
          /\ req'[r].pass = req[r].pass
      BY <3>1, MovedRequest DEF AccessInv, Replies
    <3>3. RequestSound(req[r])
      BY DEF AccessInv
    <3> QED BY <3>2, <3>3 DEF RequestSound, Earned
  <2>2. CASE req[r].st \notin Running
    <3>1. req'[r] = req[r]
      BY <2>2 DEF ServerCrash
    <3> QED BY <3>1, RequestTypes DEF AccessInv
  <2> QED BY <2>1, <2>2
<1>3. req' \in [Requests -> Request]
  BY <1>2 DEF ServerCrash
<1>4. restarts' \in Nat
  BY <1>1 DEF AccessInv, TypeOK
<1>5. TypeOK'
  BY <1>1, <1>3, <1>4 DEF AccessInv, TypeOK
<1>6. SessionsHaveAccounts'
  BY <1>1 DEF SessionsHaveAccounts
<1>7. \A r \in Requests : RequestSound(req[r])' /\ Earned(req[r])'
  BY <1>1, <1>2 DEF RequestSound, Earned
<1> QED BY <1>5, <1>6, <1>7 DEF AccessInv

\* Answering whether there is an admin keeps the invariant.
LEMMA StepAuthStatus == ASSUME AccessInv, NEW r \in Requests, AuthStatus(r) PROVE AccessInv'
<1> DEFINE st == IF AdminExists THEN "exists" ELSE "none"
<1>1. st \in Running \cup Replies /\ Becomes(r, st) /\ UNCHANGED <<server, browser, restarts>>
      /\ req[r].kind = "status"
  BY DEF AuthStatus, Replies
<1>2. LET q == [req[r] EXCEPT !.st = st] IN q.st = st /\ q.kind = "status"
  BY <1>1, MovedRequest DEF AccessInv, Replies
<1>3. RequestSound([req[r] EXCEPT !.st = st]) /\ Earned([req[r] EXCEPT !.st = st])
  BY <1>2 DEF RequestSound, Earned
<1> QED BY <1>1, <1>3, HandlerMoves

\* The first look of create_admin keeps the invariant.
LEMMA StepSetupCheck == ASSUME AccessInv, NEW r \in Requests, SetupCheck(r) PROVE AccessInv'
<1> DEFINE st == IF AdminExists THEN "conflict" ELSE "checked"
<1>1. st \in Running \cup Replies /\ Becomes(r, st) /\ UNCHANGED <<server, browser, restarts>>
      /\ req[r].kind = "setup"
  BY DEF SetupCheck, Running, Replies
<1>2. LET q == [req[r] EXCEPT !.st = st] IN
      q.st = st /\ q.kind = "setup" /\ q.user = req[r].user /\ q.pass = req[r].pass
  BY <1>1, MovedRequest DEF AccessInv
<1>3. RequestSound(req[r])
  BY DEF AccessInv
<1>4. RequestSound([req[r] EXCEPT !.st = st]) /\ Earned([req[r] EXCEPT !.st = st])
  BY <1>1, <1>2, <1>3 DEF RequestSound, Earned
<1> QED BY <1>1, <1>4, HandlerMoves

\* The session of an answered setup or login is of an account: the invariant
\* says that the request's password is the stored one.
LEMMA EarnedHasAccount ==
  ASSUME AccessInv, NEW r \in Requests, req[r].st \in {"inserted", "verified"}
  PROVE  /\ req[r].kind \in {"setup", "login"}
         /\ req[r].user \in Usernames /\ accounts[req[r].user] # None
         /\ accounts[req[r].user] = req[r].pass
<1>1. RequestSound(req[r]) /\ Earned(req[r])
  BY DEF AccessInv
<1>2. req[r].kind \in {"setup", "login"} /\ req[r].user \in Usernames /\ req[r].pass \in Passwords
  BY <1>1 DEF RequestSound
<1> QED BY <1>1, <1>2, AbsentIsNoValue DEF Earned

\* The insert of create_admin keeps the invariant: it writes a row that was
\* not there, so no other request's password is replaced.
LEMMA StepSetupInsert == ASSUME AccessInv, NEW r \in Requests, SetupInsert(r) PROVE AccessInv'
<1>1. /\ req[r].st = "checked" /\ req[r].kind = "setup"
      /\ req[r].user \in Usernames /\ req[r].pass \in Passwords
  BY DEF SetupInsert, AccessInv, RequestSound
<1>2. UNCHANGED <<sessions, owner, up, browser, restarts>>
  BY DEF SetupInsert
<1>3. CASE accounts[req[r].user] = None
  <2> DEFINE q == [req[r] EXCEPT !.st = "inserted"]
  <2>1. /\ accounts' = [accounts EXCEPT ![req[r].user] = req[r].pass]
        /\ req' = [req EXCEPT ![r] = q]
    BY <1>3 DEF SetupInsert, Becomes
  <2>2. /\ q \in Request /\ q.st = "inserted" /\ q.kind = "setup"
        /\ q.user = req[r].user /\ q.pass = req[r].pass
    BY <1>1, MovedRequest DEF AccessInv, Running
  <2> HIDE DEF q
  <2>3. req' \in [Requests -> Request] /\ req'[r] = q
        /\ \A s \in Requests : s # r => req'[s] = req[s]
    BY <2>1, <2>2 DEF AccessInv, TypeOK
  <2>4. /\ accounts' \in [Usernames -> Passwords \cup {None}]
        /\ accounts'[req[r].user] = req[r].pass
        /\ \A u \in Usernames : accounts[u] # None => accounts'[u] = accounts[u]
    BY <1>1, <1>3, <2>1 DEF AccessInv, TypeOK
  <2>5. TypeOK'
    BY <1>2, <2>3, <2>4 DEF AccessInv, TypeOK, browser
  <2>6. SessionsHaveAccounts'
    <3>1. ASSUME NEW k \in sessions PROVE owner[k] # None /\ accounts'[owner[k]] # None
      <4>1. owner[k] \in Usernames /\ accounts[owner[k]] # None
        BY <3>1 DEF AccessInv, TypeOK, SessionsHaveAccounts
      <4> QED BY <2>4, <4>1, AbsentIsNoValue
    <3> QED BY <1>2, <3>1 DEF SessionsHaveAccounts
  <2>7. ASSUME NEW s \in Requests PROVE RequestSound(req[s])' /\ Earned(req[s])'
    <3>1. CASE s = r
      BY <1>1, <2>2, <2>3, <2>4, <3>1 DEF RequestSound, Earned
    <3>2. CASE s # r
      <4>1. req'[s] = req[s] /\ RequestSound(req[s]) /\ Earned(req[s])
        BY <2>3, <3>2 DEF AccessInv
      <4>2. ASSUME req[s].kind \in {"setup", "login"},
                   req[s].st \in {"inserted", "verified", "token"}
            PROVE  accounts'[req[s].user] = req[s].pass
        <5>1. req[s].user \in Usernames /\ req[s].pass \in Passwords
          BY <4>1, <4>2 DEF RequestSound
        <5>2. accounts[req[s].user] = req[s].pass
          BY <4>1, <4>2 DEF Earned
        <5> QED BY <2>4, <5>1, <5>2, AbsentIsNoValue
      <4> QED BY <4>1, <4>2 DEF RequestSound, Earned
    <3> QED BY <3>1, <3>2
  <2> QED BY <2>5, <2>6, <2>7 DEF AccessInv
<1>4. CASE accounts[req[r].user] # None
  <2>1. Becomes(r, "conflict") /\ UNCHANGED <<server, browser, restarts>>
    BY <1>2, <1>4 DEF SetupInsert, server
  <2>2. LET q == [req[r] EXCEPT !.st = "conflict"] IN
        /\ q.st = "conflict" /\ q.kind = "setup"
        /\ q.user = req[r].user /\ q.pass = req[r].pass
    BY <1>1, MovedRequest DEF AccessInv, Replies
  <2>3. RequestSound([req[r] EXCEPT !.st = "conflict"]) /\ Earned([req[r] EXCEPT !.st = "conflict"])
    BY <1>1, <2>2 DEF RequestSound, Earned
  <2> QED BY <2>1, <2>3, HandlerMoves DEF Replies
<1> QED BY <1>3, <1>4

\* Comparing the password keeps the invariant.
LEMMA StepVerifyLogin == ASSUME AccessInv, NEW r \in Requests, VerifyLogin(r) PROVE AccessInv'
<1> DEFINE st == IF accounts[req[r].user] = req[r].pass THEN "verified" ELSE "unauthorized"
<1>1. st \in Running \cup Replies /\ Becomes(r, st) /\ UNCHANGED <<server, browser, restarts>>
      /\ req[r].kind = "login"
  BY DEF VerifyLogin, Running, Replies
<1>2. LET q == [req[r] EXCEPT !.st = st] IN
      q.st = st /\ q.kind = "login" /\ q.user = req[r].user /\ q.pass = req[r].pass
  BY <1>1, MovedRequest DEF AccessInv
<1>3. RequestSound(req[r])
  BY DEF AccessInv
<1>4. RequestSound([req[r] EXCEPT !.st = st]) /\ Earned([req[r] EXCEPT !.st = st])
  BY <1>1, <1>2, <1>3 DEF RequestSound, Earned
<1> QED BY <1>1, <1>4, HandlerMoves

\* A new session is of the account whose password the request gave.
LEMMA StepNewSession == ASSUME AccessInv, NEW r \in Requests, NewSession(r) PROVE AccessInv'
<1>1. PICK k \in Tokens :
        /\ owner[k] = None
        /\ owner' = [owner EXCEPT ![k] = req[r].user]
        /\ sessions' = sessions \cup {k}
        /\ req' = [req EXCEPT ![r].st = "token", ![r].token = k]
  BY DEF NewSession
<1>2. UNCHANGED <<accounts, up, browser, restarts>> /\ req[r].st \in {"inserted", "verified"}
  BY DEF NewSession
<1>3. /\ req[r].kind \in {"setup", "login"}
      /\ req[r].user \in Usernames /\ accounts[req[r].user] # None
      /\ accounts[req[r].user] = req[r].pass
  BY <1>2, EarnedHasAccount
<1> DEFINE q == [req[r] EXCEPT !.st = "token", !.token = k]
<1>4. req[r] \in Request
  BY RequestTypes DEF AccessInv
<1>5. /\ q \in Request /\ q.st = "token" /\ q.kind = req[r].kind
      /\ q.user = req[r].user /\ q.pass = req[r].pass
  BY <1>4 DEF Request, Replies
<1>6. req' = [req EXCEPT ![r] = q]
  BY <1>1
<1> HIDE DEF q
<1>7. req' \in [Requests -> Request] /\ req'[r] = q
      /\ \A s \in Requests : s # r => req'[s] = req[s]
  BY <1>5, <1>6 DEF AccessInv, TypeOK
<1>8. /\ owner' \in [Tokens -> Usernames \cup {None}] /\ sessions' \subseteq Tokens
      /\ owner'[k] = req[r].user
      /\ \A l \in Tokens : l # k => owner'[l] = owner[l]
  BY <1>1, <1>3 DEF AccessInv, TypeOK
<1>9. TypeOK'
  BY <1>2, <1>7, <1>8 DEF AccessInv, TypeOK, browser
<1>10. SessionsHaveAccounts'
  <2>1. ASSUME NEW l \in sessions' PROVE owner'[l] # None /\ accounts'[owner'[l]] # None
    <3>1. CASE l = k
      BY <1>2, <1>3, <1>8, <3>1, AbsentIsNoValue
    <3>2. CASE l # k
      BY <1>1, <1>2, <1>8, <3>2 DEF AccessInv, TypeOK, SessionsHaveAccounts
    <3> QED BY <3>1, <3>2
  <2> QED BY <2>1 DEF SessionsHaveAccounts
<1>11. ASSUME NEW s \in Requests PROVE RequestSound(req[s])' /\ Earned(req[s])'
  <2>1. CASE s = r
    <3>1. RequestSound(req[r])
      BY DEF AccessInv
    <3> QED BY <1>2, <1>3, <1>5, <1>7, <2>1, <3>1 DEF RequestSound, Earned
  <2>2. CASE s # r
    BY <1>2, <1>7, <2>2 DEF AccessInv, RequestSound, Earned
  <2> QED BY <2>1, <2>2
<1> QED BY <1>9, <1>10, <1>11 DEF AccessInv

\* Checking a token keeps the invariant.
LEMMA StepRequireAuth == ASSUME AccessInv, NEW r \in Requests, RequireAuth(r) PROVE AccessInv'
<1> DEFINE st == IF req[r].token \in sessions THEN "data" ELSE "unauthorized"
<1>1. st \in Running \cup Replies /\ Becomes(r, st) /\ UNCHANGED <<server, browser, restarts>>
      /\ req[r].kind \in {"probe", "page"}
  BY DEF RequireAuth, Replies
<1>2. LET q == [req[r] EXCEPT !.st = st] IN q.st = st /\ q.kind = req[r].kind
  BY <1>1, MovedRequest DEF AccessInv
<1>3. RequestSound([req[r] EXCEPT !.st = st]) /\ Earned([req[r] EXCEPT !.st = st])
  BY <1>1, <1>2 DEF RequestSound, Earned
<1> QED BY <1>1, <1>3, HandlerMoves
-----------------------------------------------------------------------------
(* The browser.                                                            *)

\* A slot that is given up keeps the invariant, whatever the tab shows and
\* stores.
LEMMA SlotFreed ==
  ASSUME AccessInv, NEW r \in Requests, UNCHANGED <<server, restarts>>, BrowserTypes,
         req' = [req EXCEPT ![r] = Free]
  PROVE  AccessInv'
<1>1. UNCHANGED <<accounts, sessions, owner>>
  BY DEF server
<1> QED BY <1>1, FreeSound, OneRequest

\* A request that is sent keeps the invariant, whatever the tab shows and stores.
LEMMA SlotUsed ==
  ASSUME AccessInv, NEW r \in Requests, UNCHANGED <<server, restarts>>, BrowserTypes,
         NEW kind \in {"status", "probe", "setup", "login", "page"}, NEW t \in Tabs,
         NEW u \in Usernames \cup {None}, NEW p \in Passwords \cup {None},
         NEW k \in Tokens \cup {None},
         kind \in {"setup", "login"} => u \in Usernames /\ p \in Passwords,
         req' = [req EXCEPT ![r] = Sent(kind, t, u, p, k)]
  PROVE  AccessInv'
<1>1. UNCHANGED <<accounts, sessions, owner>>
  BY DEF server
<1> DEFINE q == Sent(kind, t, u, p, k)
<1>2. q \in Request /\ RequestSound(q) /\ Earned(q)
  BY SentSound
<1> HIDE DEF q
<1>3. req' = [req EXCEPT ![r] = q]
  BY DEF q
<1> QED BY <1>1, <1>2, <1>3, OneRequest

\* Storing a token, or none, and showing a screen keep the browser's types.
LEMMA StoreTypes ==
  ASSUME AccessInv, NEW t \in Tabs, NEW k \in Tokens \cup {None},
         Store(t, k) \/ UNCHANGED token,
         (\E g \in {"closed", "loading", "setup", "login", "authenticated"} : Show(t, g))
           \/ UNCHANGED gate,
         UNCHANGED <<server, restarts>>
  PROVE  BrowserTypes
<1>1. up' \in BOOLEAN /\ restarts' \in Nat
  BY DEF AccessInv, TypeOK, server
<1>2. token' \in [Browsers -> Tokens \cup {None}]
  BY DEF AccessInv, TypeOK, Store
<1>3. gate' \in [Tabs -> {"closed", "loading", "setup", "login", "authenticated"}]
  BY DEF AccessInv, TypeOK, Show
<1> QED BY <1>1, <1>2, <1>3 DEF BrowserTypes

\* Opening or reloading a tab keeps the invariant: the requests it leaves
\* behind lose their tab and nothing else.
LEMMA StepOpenTab == ASSUME AccessInv, NEW t \in Tabs, NEW r \in Requests, OpenTab(t, r) PROVE AccessInv'
<1>1. UNCHANGED <<server, token, restarts>> /\ Show(t, "loading")
  BY DEF OpenTab
<1>2. BrowserTypes
  BY <1>1, StoreTypes
<1>3. ASSUME NEW q \in Requests
      PROVE  req'[q] \in Request /\ RequestSound(req'[q]) /\ Earned(req'[q])
  <2>1. req[q] \in Request /\ RequestSound(req[q]) /\ Earned(req[q])
    BY RequestTypes DEF AccessInv
  <2>2. CASE q = r
    <3>1. req'[q] = Sent("status", t, None, None, None)
      BY <2>2 DEF OpenTab
    <3> QED BY <3>1, SentSound
  <2>3. CASE q # r /\ req[q].tab = t
    <3>1. req'[q] = [req[q] EXCEPT !.tab = None]
      BY <2>3 DEF OpenTab
    <3>2. /\ req'[q] \in Request /\ req'[q].st = req[q].st /\ req'[q].kind = req[q].kind
          /\ req'[q].user = req[q].user /\ req'[q].pass = req[q].pass
      BY <2>1, <3>1 DEF Request
    <3> QED BY <2>1, <3>2 DEF RequestSound, Earned
  <2>4. CASE q # r /\ req[q].tab # t
    BY <2>1, <2>4 DEF OpenTab
  <2> QED BY <2>2, <2>3, <2>4
<1>4. req' \in [Requests -> Request]
  BY <1>3 DEF OpenTab
<1> QED BY <1>1, <1>2, <1>3, <1>4, TablesStay DEF server

\* Forgetting an answer nobody waits for keeps the invariant.
LEMMA StepDiscard == ASSUME AccessInv, NEW r \in Requests, Discard(r) PROVE AccessInv'
<1>1. UNCHANGED <<server, browser, restarts>> /\ req' = [req EXCEPT ![r] = Free]
  BY DEF Discard
<1>2. BrowserTypes
  BY <1>1, BrowserStays DEF server
<1> QED BY <1>1, <1>2, SlotFreed

\* Sending a form keeps the invariant.
LEMMA StepSubmit ==
  ASSUME AccessInv, NEW t \in Tabs, NEW r \in Requests, NEW u \in Usernames, NEW p \in Passwords,
         SubmitSetup(t, r, u, p) \/ SubmitLogin(t, r, u, p)
  PROVE  AccessInv'
<1>1. UNCHANGED <<server, browser, restarts>>
  BY DEF SubmitSetup, SubmitLogin
<1>2. BrowserTypes
  BY <1>1, BrowserStays DEF server
<1>3. CASE SubmitSetup(t, r, u, p)
  BY <1>1, <1>2, <1>3, SlotUsed DEF SubmitSetup
<1>4. CASE SubmitLogin(t, r, u, p)
  BY <1>1, <1>2, <1>4, SlotUsed DEF SubmitLogin
<1> QED BY <1>3, <1>4

\* Opening a page keeps the invariant.
LEMMA StepOpenPage == ASSUME AccessInv, NEW t \in Tabs, NEW r \in Requests, OpenPage(t, r) PROVE AccessInv'
<1>1. UNCHANGED <<server, browser, restarts>>
      /\ req' = [req EXCEPT ![r] = Sent("page", t, None, None, Stored(t))]
  BY DEF OpenPage
<1>2. BrowserTypes
  BY <1>1, BrowserStays DEF server
<1> QED BY <1>1, <1>2, SlotUsed, StoredIsToken

\* Logging out keeps the invariant.
LEMMA StepHandleLogout == ASSUME AccessInv, NEW t \in Tabs, HandleLogout(t) PROVE AccessInv'
<1>1. UNCHANGED <<server, req, restarts>> /\ Store(t, None) /\ Show(t, "login")
  BY DEF HandleLogout
<1>2. BrowserTypes
  BY <1>1, StoreTypes
<1> QED BY <1>1, <1>2, NoRequest DEF server

\* What a tab makes of the answer about the status keeps the invariant.
LEMMA StepReceiveStatus ==
  ASSUME AccessInv, NEW t \in Tabs, NEW r \in Requests, ReceiveStatus(t, r) PROVE AccessInv'
<1>1. UNCHANGED <<server, token, restarts>>
  BY DEF ReceiveStatus
<1>2. CASE /\ UNCHANGED gate
           /\ req' = [req EXCEPT ![r] = Sent("probe", t, None, None, Stored(t))]
  <2>1. BrowserTypes
    BY <1>1, <1>2, BrowserStays DEF server, browser
  <2> QED BY <1>1, <1>2, <2>1, SlotUsed, StoredIsToken
<1>3. CASE /\ Show(t, IF req[r].st = "none" THEN "setup" ELSE "login")
           /\ req' = [req EXCEPT ![r] = Free]
  <2>1. BrowserTypes
    BY <1>1, <1>3, StoreTypes
  <2> QED BY <1>1, <1>3, <2>1, SlotFreed
<1> QED BY <1>2, <1>3 DEF ReceiveStatus

\* What a tab makes of an answer that is no session keeps the invariant.
LEMMA StepReceiveProbe ==
  ASSUME AccessInv, NEW t \in Tabs, NEW r \in Requests, ReceiveProbe(t, r) PROVE AccessInv'
<1>1. UNCHANGED <<server, restarts>> /\ req' = [req EXCEPT ![r] = Free]
  BY DEF ReceiveProbe
<1>2. Store(t, None) \/ UNCHANGED token
  BY DEF ReceiveProbe, Unauthorized
<1>3. Show(t, IF req[r].st = "data" THEN "authenticated" ELSE "login")
  BY DEF ReceiveProbe
<1>4. BrowserTypes
  BY <1>1, <1>2, <1>3, StoreTypes
<1> QED BY <1>1, <1>4, SlotFreed

\* The same of a page: it shows what went wrong and stays.
LEMMA StepReceivePage ==
  ASSUME AccessInv, NEW t \in Tabs, NEW r \in Requests, ReceivePage(t, r) PROVE AccessInv'
<1>1. UNCHANGED <<server, gate, restarts>> /\ req' = [req EXCEPT ![r] = Free]
  BY DEF ReceivePage
<1>2. Store(t, None) \/ UNCHANGED token
  BY DEF ReceivePage, Unauthorized
<1>3. BrowserTypes
  BY <1>1, <1>2, StoreTypes
<1> QED BY <1>1, <1>3, SlotFreed

\* Storing the token a setup or login earned keeps the invariant.
LEMMA StepReceiveSession ==
  ASSUME AccessInv, NEW t \in Tabs, NEW r \in Requests, ReceiveSession(t, r) PROVE AccessInv'
<1>1. UNCHANGED <<server, gate, restarts>>
  BY DEF ReceiveSession
<1>2. CASE /\ Store(t, req[r].token)
           /\ req' = [req EXCEPT ![r] = Sent("status", t, None, None, None)]
  <2>1. req[r].token \in Tokens \cup {None}
    BY RequestTypes DEF AccessInv
  <2>2. BrowserTypes
    BY <1>1, <1>2, <2>1, StoreTypes
  <2> QED BY <1>1, <1>2, <2>2, SlotUsed
<1>3. CASE Unauthorized(t, r) /\ req' = [req EXCEPT ![r] = Free]
  <2>1. Store(t, None) \/ UNCHANGED token
    BY <1>3 DEF Unauthorized
  <2>2. BrowserTypes
    BY <1>1, <2>1, StoreTypes
  <2> QED BY <1>1, <1>3, <2>2, SlotFreed
<1> QED BY <1>2, <1>3 DEF ReceiveSession

-----------------------------------------------------------------------------
(* Init, and every step.                                                   *)

\* The invariant holds at the start.
LEMMA InitAccessInv == Init => AccessInv
<1> SUFFICES ASSUME Init PROVE AccessInv
  OBVIOUS
<1>1. \A r \in Requests : req[r] = Free
  BY DEF Init
<1>2. TypeOK
  BY FreeSound DEF Init, TypeOK
<1>3. SessionsHaveAccounts
  BY DEF Init, SessionsHaveAccounts
<1> QED BY <1>1, <1>2, <1>3, FreeSound DEF AccessInv

\* Every step keeps it.
LEMMA StepAccessInv == AccessInv /\ [Next]_vars => AccessInv'
<1> SUFFICES ASSUME AccessInv, [Next]_vars PROVE AccessInv'
  OBVIOUS
<1>1. CASE ServerStart \/ ServerCrash
  BY <1>1, StepServerStart, StepServerCrash
<1>2. ASSUME NEW r \in Requests, Handle(r) \/ Discard(r) PROVE AccessInv'
  BY <1>2, StepAuthStatus, StepSetupCheck, StepSetupInsert, StepVerifyLogin, StepNewSession,
     StepRequireAuth, StepDiscard DEF Handle
<1>3. ASSUME NEW r \in Requests, NEW t \in Tabs, Receive(t, r) PROVE AccessInv'
  BY <1>3, StepReceiveStatus, StepReceiveProbe, StepReceivePage, StepReceiveSession DEF Receive
<1>4. ASSUME NEW t \in Tabs, UserStep(t) PROVE AccessInv'
  BY <1>4, StepHandleLogout, StepOpenTab, StepOpenPage, StepSubmit DEF UserStep
<1>5. CASE UNCHANGED vars
  <2>1. UNCHANGED <<accounts, sessions, owner, req>> /\ BrowserTypes
    BY <1>5, BrowserStays DEF vars, server, browser
  <2> QED BY <2>1, NoRequest
<1> QED BY <1>1, <1>2, <1>3, <1>4, <1>5 DEF Next

-----------------------------------------------------------------------------
(* What a tab that is checking waits for.                                  *)

\* No tab is None, and a request of a tab asks for no other.
LEMMA AsksForOne ==
  ASSUME NEW q, NEW t \in Tabs, NEW u \in Tabs, Asks(q, t)
  PROVE  /\ q.tab # None /\ q.st # "free" /\ (Asks(q, u) => u = t)
         /\ q.kind \in {"status", "probe"}
  BY AbsentIsNoValue DEF Asks, Replies

\* If a step leaves every tab that is checking a request of its own, all of them
\* have one after it.
LEMMA AskingKept ==
  ASSUME IInv,
         \A t \in Tabs : gate'[t] = "loading" =>
           \/ \E r \in Requests : Asks(req'[r], t)
           \/ /\ gate[t] = "loading"
              /\ \A r \in Requests : Asks(req[r], t) => Asks(req'[r], t)
  PROVE  CheckingIsAsking'
<1>1. \A t \in Tabs : gate'[t] = "loading" => \E r \in Requests : Asks(req'[r], t)
  BY DEF IInv, CheckingIsAsking
<1>2. \A q, t : Asks(q, t)' = Asks(q, t)
  BY DEF Asks
<1> QED BY <1>1 DEF CheckingIsAsking, Asks

\* A step that changes one request which is not asking, and shows no "Loading".
LEMMA AskingApart ==
  ASSUME IInv, NEW r \in Requests, NEW q, req' = [req EXCEPT ![r] = q],
         \A t \in Tabs : gate'[t] = "loading" => gate[t] = "loading",
         \A t \in Tabs : gate'[t] = "loading" => ~Asks(req[r], t) \/ Asks(q, t)
  PROVE  CheckingIsAsking'
<1>1. req \in [Requests -> Request]
  BY DEF IInv, AccessInv, TypeOK
<1>2. req'[r] = q /\ \A s \in Requests : s # r => req'[s] = req[s]
  BY <1>1
<1>3. \A t \in Tabs : gate'[t] = "loading" =>
        \A s \in Requests : Asks(req[s], t) => Asks(req'[s], t)
  BY <1>2
<1> QED BY <1>3, AskingKept

\* A handler that answers, or goes on with a form, keeps who asked and why.
LEMMA HandlerKeepsAsking ==
  ASSUME IInv, NEW r \in Requests, Handle(r)
  PROVE  CheckingIsAsking'
<1>1. req[r] \in Request /\ gate' = gate
  BY RequestTypes DEF IInv, AccessInv, Handle, AuthStatus, SetupCheck, SetupInsert, VerifyLogin,
     NewSession, RequireAuth, browser
<1>2. ASSUME NEW st \in Replies, Becomes(r, st) PROVE CheckingIsAsking'
  <2> DEFINE q == [req[r] EXCEPT !.st = st]
  <2>1. q.tab = req[r].tab /\ q.kind = req[r].kind /\ q.st = st
    BY <1>1 DEF Request
  <2>2. req' = [req EXCEPT ![r] = q]
    BY <1>2 DEF Becomes
  <2> HIDE DEF q
  <2>3. \A t \in Tabs : ~Asks(req[r], t) \/ Asks(q, t)
    BY <2>1 DEF Asks
  <2> QED BY <1>1, <2>2, <2>3, AskingApart
<1>3. CASE AuthStatus(r) \/ RequireAuth(r)
  <2>1. \E st \in Replies : Becomes(r, st)
    BY <1>3 DEF AuthStatus, RequireAuth, Replies
  <2> QED BY <1>2, <2>1
<1>4. CASE SetupCheck(r) \/ SetupInsert(r) \/ VerifyLogin(r) \/ NewSession(r)
  <2>1. req[r].kind \in {"setup", "login"}
    <3>1. RequestSound(req[r])
      BY DEF IInv, AccessInv
    <3> QED BY <1>4, <3>1 DEF SetupCheck, SetupInsert, VerifyLogin, NewSession, RequestSound
  <2>2. \A t \in Tabs : ~Asks(req[r], t)
    BY <2>1 DEF Asks
  <2>3. \E q : req' = [req EXCEPT ![r] = q]
    <3>1. CASE NewSession(r)
      <4>1. PICK k \in Tokens : req' = [req EXCEPT ![r].st = "token", ![r].token = k]
        BY <3>1 DEF NewSession
      <4>2. req' = [req EXCEPT ![r] = [req[r] EXCEPT !.st = "token", !.token = k]]
        BY <4>1
      <4> QED BY <4>2
    <3>2. CASE SetupCheck(r) \/ SetupInsert(r) \/ VerifyLogin(r)
      <4>1. \E st : Becomes(r, st)
        BY <3>2 DEF SetupCheck, SetupInsert, VerifyLogin
      <4>2. PICK st : req' = [req EXCEPT ![r].st = st]
        BY <4>1 DEF Becomes
      <4>3. req' = [req EXCEPT ![r] = [req[r] EXCEPT !.st = st]]
        BY <4>2
      <4> QED BY <4>3
    <3> QED BY <1>4, <3>1, <3>2
  <2> QED BY <1>1, <2>2, <2>3, AskingApart
<1> QED BY <1>3, <1>4 DEF Handle

\* A crash answers "lost" to every request that was under way.
LEMMA CrashKeepsAsking ==
  ASSUME IInv, ServerCrash
  PROVE  CheckingIsAsking'
<1>1. gate' = gate
  BY DEF ServerCrash, browser
<1>2. ASSUME NEW r \in Requests, NEW t \in Tabs, Asks(req[r], t) PROVE Asks(req'[r], t)
  <2>1. req[r] \in Request
    BY RequestTypes DEF IInv, AccessInv
  <2>2. CASE req[r].st \in Running
    <3>1. req'[r] = [req[r] EXCEPT !.st = "lost"]
      BY <2>2 DEF ServerCrash
    <3>2. req'[r].tab = req[r].tab /\ req'[r].kind = req[r].kind /\ req'[r].st = "lost"
      BY <2>1, <3>1 DEF Request
    <3> QED BY <1>2, <3>2 DEF Asks, Replies
  <2>3. CASE req[r].st \notin Running
    <3>1. req'[r] = req[r]
      BY <2>3 DEF ServerCrash
    <3> QED BY <1>2, <3>1
  <2> QED BY <2>2, <2>3
<1> QED BY <1>1, <1>2, AskingKept

\* A tab that is opened or reloaded asks for the status.
LEMMA OpenTabAsks ==
  ASSUME IInv, NEW t \in Tabs, NEW r \in Requests, OpenTab(t, r)
  PROVE  CheckingIsAsking'
<1>1. Asks(req'[r], t)
  <2>1. req'[r] = Sent("status", t, None, None, None)
    BY DEF OpenTab
  <2> QED BY <2>1 DEF Sent, Asks, Replies
<1>2. ASSUME NEW u \in Tabs, u # t, NEW s \in Requests, Asks(req[s], u)
      PROVE  Asks(req'[s], u)
  <2>1. s # r /\ req[s].tab = u
    BY <1>2 DEF OpenTab, Asks, Replies
  <2>2. req'[s] = req[s]
    BY <1>2, <2>1 DEF OpenTab
  <2> QED BY <1>2, <2>2
<1>3. \A u \in Tabs : u # t => gate'[u] = gate[u]
  BY DEF OpenTab, Show, IInv, AccessInv, TypeOK
<1> QED BY <1>1, <1>2, <1>3, AskingKept

\* A tab that has its answer asks on, or shows a screen.
LEMMA ReceiveKeepsAsking ==
  ASSUME IInv, NEW t \in Tabs, NEW r \in Requests, Receive(t, r)
  PROVE  CheckingIsAsking'
<1>1. gate \in [Tabs -> {"closed", "loading", "setup", "login", "authenticated"}]
  BY DEF IInv, AccessInv, TypeOK
<1>2. req[r].tab = t
  BY DEF Receive, ReceiveStatus, ReceiveProbe, ReceivePage, ReceiveSession
<1>3. \A u \in Tabs : Asks(req[r], u) => u = t
  BY <1>2 DEF Asks
<1>4. ASSUME NEW g \in {"setup", "login", "authenticated"}, Show(t, g), NEW q,
             req' = [req EXCEPT ![r] = q]
      PROVE  CheckingIsAsking'
  <2>1. gate'[t] = g /\ \A u \in Tabs : u # t => gate'[u] = gate[u]
    BY <1>1, <1>4 DEF Show
  <2> QED BY <1>3, <1>4, <2>1, AskingApart
<1>5. CASE ReceiveStatus(t, r)
  <2>1. CASE /\ UNCHANGED gate
             /\ req' = [req EXCEPT ![r] = Sent("probe", t, None, None, Stored(t))]
    <3> DEFINE q == Sent("probe", t, None, None, Stored(t))
    <3>1. Asks(q, t)
      BY DEF Sent, Asks, Replies
    <3>2. req' = [req EXCEPT ![r] = q]
      BY <2>1
    <3> HIDE DEF q
    <3>3. \A u \in Tabs : ~Asks(req[r], u) \/ Asks(q, u)
      BY <1>3, <3>1
    <3>4. gate' = gate
      BY <2>1
    <3> QED BY <3>2, <3>3, <3>4, AskingApart
  <2>2. CASE /\ Show(t, IF req[r].st = "none" THEN "setup" ELSE "login")
             /\ req' = [req EXCEPT ![r] = Free]
    BY <1>4, <2>2
  <2> QED BY <1>5, <2>1, <2>2 DEF ReceiveStatus
<1>6. CASE ReceiveProbe(t, r)
  BY <1>4, <1>6 DEF ReceiveProbe
<1>7. CASE ReceivePage(t, r) \/ ReceiveSession(t, r)
  <2>1. req[r].kind \in {"page", "setup", "login"} /\ gate' = gate
    BY <1>7 DEF ReceivePage, ReceiveSession
  <2>2. \A u \in Tabs : ~Asks(req[r], u)
    BY <2>1 DEF Asks
  <2>3. \E q : req' = [req EXCEPT ![r] = q]
    BY <1>7 DEF ReceivePage, ReceiveSession
  <2> QED BY <2>1, <2>2, <2>3, AskingApart
<1> QED BY <1>5, <1>6, <1>7 DEF Receive

\* Every step keeps it.
LEMMA StepAsking == IInv /\ [Next]_vars => CheckingIsAsking'
<1> SUFFICES ASSUME IInv, [Next]_vars PROVE CheckingIsAsking'
  OBVIOUS
<1>1. CASE UNCHANGED <<gate, req>>
  BY <1>1, AskingKept
<1>2. CASE ServerStart \/ UNCHANGED vars
  BY <1>1, <1>2 DEF ServerStart, browser, vars
<1>3. ASSUME NEW r \in Requests, Discard(r) PROVE CheckingIsAsking'
  <2>1. gate' = gate /\ req' = [req EXCEPT ![r] = Free] /\ req[r].tab = None
    BY <1>3 DEF Discard, browser
  <2>2. \A t \in Tabs : ~Asks(req[r], t)
    BY <2>1, AbsentIsNoValue DEF Asks
  <2> QED BY <2>1, <2>2, AskingApart
<1>4. ASSUME NEW t \in Tabs, UserStep(t) PROVE CheckingIsAsking'
  <2>1. CASE HandleLogout(t)
    <3>1. req' = req /\ \A u \in Tabs : gate'[u] = "loading" => gate[u] = "loading"
      BY <2>1 DEF HandleLogout, Show, IInv, AccessInv, TypeOK
    <3> QED BY <3>1, AskingKept
  <2>2. ASSUME NEW r \in Requests, req[r].st = "free", gate' = gate,
               NEW q, req' = [req EXCEPT ![r] = q]
        PROVE  CheckingIsAsking'
    <3>1. \A u \in Tabs : ~Asks(req[r], u)
      BY <2>2 DEF Asks, Replies
    <3> QED BY <2>2, <3>1, AskingApart
  <2>3. ASSUME NEW r \in Requests, NEW u \in Usernames, NEW p \in Passwords,
               OpenPage(t, r) \/ SubmitSetup(t, r, u, p) \/ SubmitLogin(t, r, u, p)
        PROVE  CheckingIsAsking'
    BY <2>2, <2>3 DEF OpenPage, SubmitSetup, SubmitLogin, browser
  <2>4. ASSUME NEW r \in Requests, OpenPage(t, r) PROVE CheckingIsAsking'
    BY <2>2, <2>4 DEF OpenPage, browser
  <2> QED BY <1>4, <2>1, <2>3, <2>4, OpenTabAsks DEF UserStep
<1> QED BY <1>2, <1>3, <1>4, CrashKeepsAsking, HandlerKeepsAsking, ReceiveKeepsAsking DEF Next

-----------------------------------------------------------------------------
(* The theorems.                                                           *)

\* In every reachable state of server and browsers the invariant holds.
THEOREM AccessInvariant == Spec => []IInv
<1>1. Init => IInv
  <2>1. Init => \A t \in Tabs : gate[t] # "loading"
    BY DEF Init
  <2> QED BY <2>1, InitAccessInv DEF IInv, CheckingIsAsking
<1>2. IInv /\ [Next]_vars => IInv'
  BY StepAccessInv, StepAsking DEF IInv
<1> QED BY <1>1, <1>2, PTL DEF Spec

\* Accounts, sessions, requests and tabs keep their types.
THEOREM AccessTypes == Spec => []TypeOK
<1>1. IInv => TypeOK
  BY DEF IInv, AccessInv
<1> QED BY <1>1, AccessInvariant, PTL

\* A session the server accepts is of an account in the database, however
\* setups, logins and crashes interleave.
THEOREM EverySessionHasAnAccount == Spec => []SessionsHaveAccounts
<1>1. IInv => SessionsHaveAccounts
  BY DEF IInv, AccessInv
<1> QED BY <1>1, AccessInvariant, PTL

\* Nobody gets a session without having given the stored password, not even
\* the second of two concurrent setups.
THEOREM EverySessionIsEarned == Spec => []TokensAreEarned
<1>1. IInv => TokensAreEarned
  BY DEF IInv, AccessInv, TokensAreEarned
<1> QED BY <1>1, AccessInvariant, PTL

\* A tab that is checking always has a request of checkAuth under way
\* (App.tsx:16-34), whatever is reloaded, restarted or answered meanwhile.
THEOREM CheckingAwaitsAnAnswer == Spec => []CheckingIsAsking
<1>1. IInv => CheckingIsAsking
  BY DEF IInv
<1> QED BY <1>1, AccessInvariant, PTL

\* Only the insert of create_admin writes an account, and only a new one.
LEMMA StepKeepsCredentials ==
  IInv /\ [Next]_vars => \A u \in Usernames : accounts[u] # None => accounts'[u] = accounts[u]
<1> SUFFICES ASSUME IInv, [Next]_vars, NEW u \in Usernames, accounts[u] # None
             PROVE  accounts'[u] = accounts[u]
  OBVIOUS
<1>1. ASSUME NEW r \in Requests, SetupInsert(r) PROVE accounts'[u] = accounts[u]
  BY <1>1 DEF SetupInsert, IInv, AccessInv, TypeOK
<1>2. CASE ServerStart \/ ServerCrash
  BY <1>2 DEF ServerStart, ServerCrash
<1>3. ASSUME NEW r \in Requests, Handle(r) \/ Discard(r) PROVE accounts'[u] = accounts[u]
  BY <1>1, <1>3 DEF Handle, AuthStatus, SetupCheck, VerifyLogin, NewSession, RequireAuth,
                    Discard, server
<1>4. ASSUME NEW r \in Requests, NEW t \in Tabs, Receive(t, r) PROVE accounts'[u] = accounts[u]
  BY <1>4 DEF Receive, ReceiveStatus, ReceiveProbe, ReceivePage, ReceiveSession, server
<1>5. ASSUME NEW t \in Tabs, UserStep(t) PROVE accounts'[u] = accounts[u]
  BY <1>5 DEF UserStep, HandleLogout, OpenTab, OpenPage, SubmitSetup, SubmitLogin, server
<1>6. CASE UNCHANGED vars
  BY <1>6 DEF vars, server
<1> QED BY <1>2, <1>3, <1>4, <1>5, <1>6 DEF Next

\* No interleaving of setups changes the password of an existing account.
THEOREM CredentialsNeverChange == Spec => CredentialsStay
<1>1. IInv /\ [Next]_vars => [\A u \in Usernames : accounts[u] # None => accounts'[u] = accounts[u]]_vars
  BY StepKeepsCredentials
<1> QED BY <1>1, AccessInvariant, PTL DEF Spec, CredentialsStay
=============================================================================
