----------------------------- MODULE AdminAccess -----------------------------
(***************************************************************************)
(* Who gets into the admin console: accounts and sessions on the server,   *)
(* the token a browser keeps for all its tabs, and the screen each tab     *)
(* shows.  A handler of the server takes several steps; a tab that is      *)
(* reloaded no longer hears of the requests it made, their handlers run    *)
(* on.  A restart of the server forgets the sessions and nothing else.     *)
(***************************************************************************)
EXTENDS Naturals, FiniteSets

CONSTANTS
  Usernames, Passwords,
  Tokens,       \* session tokens new_session may draw
  Browsers,     \* each keeps one token in its localStorage
  Tabs,
  BrowserOf,    \* the browser of each tab
  Requests,     \* requests under way at a time (bound)
  None,
  MaxRestarts   \* bound: server crashes

ASSUME BrowserOfIsFunction == BrowserOf \in [Tabs -> Browsers]
ASSUME NoneIsNothing ==
  None \notin Usernames \cup Passwords \cup Tokens \cup Tabs \cup
               {"status", "probe", "setup", "login", "page"}
ASSUME RestartsAreNumbered == MaxRestarts \in Nat

VARIABLES
  accounts,   \* table admin_accounts: the password of each username, or None
  sessions,   \* the tokens the running process accepts
  owner,      \* history: the username each drawn token was drawn for
  up,         \* whether the server process runs
  req,        \* requests under way, and where their handlers are
  token,      \* localStorage of each browser
  gate,       \* the screen of each tab
  restarts

server  == <<accounts, sessions, owner, up>>
browser == <<token, gate>>
vars    == <<server, browser, req, restarts>>

Running == {"sent", "checked", "inserted", "verified"}
Replies == {"exists", "none", "token", "data", "unauthorized", "conflict", "lost"}
Free    == [st |-> "free", kind |-> None, tab |-> None, user |-> None, pass |-> None, token |-> None]
Request == [st : {"free"} \cup Running \cup Replies,
            kind : {"status", "probe", "setup", "login", "page", None}, tab : Tabs \cup {None},
            user : Usernames \cup {None}, pass : Passwords \cup {None}, token : Tokens \cup {None}]

TypeOK ==
  /\ accounts \in [Usernames -> Passwords \cup {None}]
  /\ sessions \subseteq Tokens
  /\ owner \in [Tokens -> Usernames \cup {None}]
  /\ up \in BOOLEAN
  /\ req \in [Requests -> Request]
  /\ token \in [Browsers -> Tokens \cup {None}]
  /\ gate \in [Tabs -> {"closed", "loading", "setup", "login", "authenticated"}]
  /\ restarts \in Nat

Init ==
  /\ accounts = [u \in Usernames |-> None]
  /\ sessions = {}
  /\ owner = [k \in Tokens |-> None]
  /\ up = FALSE
  /\ req = [r \in Requests |-> Free]
  /\ token = [b \in Browsers |-> None]
  /\ gate = [t \in Tabs |-> "closed"]
  /\ restarts = 0

-----------------------------------------------------------------------------
(* The server.                                                             *)

AdminExists == \E u \in Usernames : accounts[u] # None

Becomes(r, st) == req' = [req EXCEPT ![r].st = st]

ServerStart ==
  /\ ~up
  /\ up' = TRUE
  /\ UNCHANGED <<accounts, sessions, owner, browser, req, restarts>>

ServerCrash ==
  /\ up /\ restarts < MaxRestarts
  /\ restarts' = restarts + 1
  /\ up' = FALSE
  /\ sessions' = {}
  /\ req' = [r \in Requests |-> IF req[r].st \in Running
                                THEN [req[r] EXCEPT !.st = "lost"] ELSE req[r]]
  /\ UNCHANGED <<accounts, owner, browser>>

AuthStatus(r) ==
  /\ req[r].kind = "status" /\ req[r].st = "sent"
  /\ Becomes(r, IF AdminExists THEN "exists" ELSE "none")
  /\ UNCHANGED <<server, browser, restarts>>

(* create_admin asks whether there is an account, hashes the password, and *)
(* then inserts; the primary key refuses a username that is taken.         *)
SetupCheck(r) ==
  /\ req[r].kind = "setup" /\ req[r].st = "sent"
  /\ Becomes(r, IF AdminExists THEN "conflict" ELSE "checked")
  /\ UNCHANGED <<server, browser, restarts>>

(* Variants with a bug: the conflict overwrites; the conflict goes unseen. *)
SetupInsertOverwrites(r) ==
  /\ req[r].st = "checked"
  /\ accounts' = [accounts EXCEPT ![req[r].user] = req[r].pass]
  /\ Becomes(r, "inserted")
  /\ UNCHANGED <<sessions, owner, up, browser, restarts>>

SetupInsertIgnoresConflict(r) ==
  /\ req[r].st = "checked"
  /\ accounts' = [accounts EXCEPT ![req[r].user] = IF @ = None THEN req[r].pass ELSE @]
  /\ Becomes(r, "inserted")
  /\ UNCHANGED <<sessions, owner, up, browser, restarts>>

SetupInsert(r) ==
  /\ req[r].st = "checked"
  /\ IF accounts[req[r].user] = None
     THEN /\ accounts' = [accounts EXCEPT ![req[r].user] = req[r].pass]
          /\ Becomes(r, "inserted")
     ELSE /\ Becomes(r, "conflict")
          /\ UNCHANGED accounts
  /\ UNCHANGED <<sessions, owner, up, browser, restarts>>

(* Variant with a bug: the account is looked up, the password not checked. *)
VerifyLoginByName(r) ==
  /\ req[r].kind = "login" /\ req[r].st = "sent"
  /\ Becomes(r, IF accounts[req[r].user] # None THEN "verified" ELSE "unauthorized")
  /\ UNCHANGED <<server, browser, restarts>>

VerifyLogin(r) ==
  /\ req[r].kind = "login" /\ req[r].st = "sent"
  /\ Becomes(r, IF accounts[req[r].user] = req[r].pass THEN "verified" ELSE "unauthorized")
  /\ UNCHANGED <<server, browser, restarts>>

(* Variant with a bug: the session is there before the account.            *)
NewSessionBeforeInsert(r) ==
  /\ req[r].st \in {"checked", "verified"}
  /\ \E k \in Tokens :
       /\ owner[k] = None
       /\ owner' = [owner EXCEPT ![k] = req[r].user]
       /\ sessions' = sessions \cup {k}
       /\ req' = [req EXCEPT ![r].st = "token", ![r].token = k]
  /\ UNCHANGED <<accounts, up, browser, restarts>>

NewSession(r) ==
  /\ req[r].st \in {"inserted", "verified"}
  /\ \E k \in Tokens :
       /\ owner[k] = None
       /\ owner' = [owner EXCEPT ![k] = req[r].user]
       /\ sessions' = sessions \cup {k}
       /\ req' = [req EXCEPT ![r].st = "token", ![r].token = k]
  /\ UNCHANGED <<accounts, up, browser, restarts>>

(* RequireAuth before every page's data and before the probe of checkAuth. *)
RequireAuth(r) ==
  /\ req[r].kind \in {"probe", "page"} /\ req[r].st = "sent"
  /\ Becomes(r, IF req[r].token \in sessions THEN "data" ELSE "unauthorized")
  /\ UNCHANGED <<server, browser, restarts>>

-----------------------------------------------------------------------------
(* The browser.  Every request carries the token the browser has by then.  *)

Sent(kind, t, u, p, k) ==
  [st |-> IF up THEN "sent" ELSE "lost", kind |-> kind, tab |-> t, user |-> u, pass |-> p,
   token |-> k]

(* Bound: a form is sent only while a token is left for its session.       *)
TokensLeft ==
  Cardinality({k \in Tokens : owner[k] = None}) >
    Cardinality({q \in Requests : req[q].kind \in {"setup", "login"} /\ req[q].st \in Running})

Stored(t) == token[BrowserOf[t]]
Store(t, k) == token' = [token EXCEPT ![BrowserOf[t]] = k]
Show(t, g) == gate' = [gate EXCEPT ![t] = g]

(* A tab is opened or reloaded: the requests it made have nobody waiting.  *)
OpenTab(t, r) ==
  /\ req[r].st = "free"
  /\ Show(t, "loading")
  /\ req' = [q \in Requests |->
               IF q = r THEN Sent("status", t, None, None, None)
               ELSE IF req[q].tab = t THEN [req[q] EXCEPT !.tab = None] ELSE req[q]]
  /\ UNCHANGED <<server, token, restarts>>

Discard(r) ==
  /\ req[r].tab = None /\ req[r].st \in Replies
  /\ req' = [req EXCEPT ![r] = Free]
  /\ UNCHANGED <<server, browser, restarts>>

SubmitSetup(t, r, u, p) ==
  /\ gate[t] = "setup" /\ req[r].st = "free" /\ TokensLeft
  /\ \A q \in Requests : req[q].tab = t => req[q].kind # "setup"
  /\ req' = [req EXCEPT ![r] = Sent("setup", t, u, p, None)]
  /\ UNCHANGED <<server, browser, restarts>>

SubmitLogin(t, r, u, p) ==
  /\ gate[t] = "login" /\ req[r].st = "free" /\ TokensLeft
  /\ \A q \in Requests : req[q].tab = t => req[q].kind # "login"
  /\ req' = [req EXCEPT ![r] = Sent("login", t, u, p, None)]
  /\ UNCHANGED <<server, browser, restarts>>

OpenPage(t, r) ==
  /\ gate[t] = "authenticated" /\ req[r].st = "free"
  /\ req' = [req EXCEPT ![r] = Sent("page", t, None, None, Stored(t))]
  /\ UNCHANGED <<server, browser, restarts>>

HandleLogout(t) ==
  /\ gate[t] = "authenticated"
  /\ Store(t, None)
  /\ Show(t, "login")
  /\ UNCHANGED <<server, req, restarts>>

-----------------------------------------------------------------------------
(* What a tab makes of an answer.  checkAuth asks for the status, then, if *)
(* there is an admin and a token, tries the token on a request.            *)

(* Variant with a bug: an error while checking is not caught.              *)
ReceiveStatusUncaught(t, r) ==
  /\ req[r].tab = t /\ req[r].kind = "status" /\ req[r].st \in Replies
  /\ \/ /\ req[r].st = "exists" /\ Stored(t) # None
        /\ req' = [req EXCEPT ![r] = Sent("probe", t, None, None, Stored(t))]
        /\ UNCHANGED gate
     \/ /\ req[r].st = "none" \/ (req[r].st = "exists" /\ Stored(t) = None)
        /\ Show(t, IF req[r].st = "none" THEN "setup" ELSE "login")
        /\ req' = [req EXCEPT ![r] = Free]
     \/ /\ req[r].st = "lost"
        /\ req' = [req EXCEPT ![r] = Free]
        /\ UNCHANGED gate
  /\ UNCHANGED <<server, token, restarts>>

ReceiveStatus(t, r) ==
  /\ req[r].tab = t /\ req[r].kind = "status" /\ req[r].st \in Replies
  /\ \/ /\ req[r].st = "exists" /\ Stored(t) # None
        /\ req' = [req EXCEPT ![r] = Sent("probe", t, None, None, Stored(t))]
        /\ UNCHANGED gate
     \/ /\ req[r].st # "exists" \/ Stored(t) = None
        /\ Show(t, IF req[r].st = "none" THEN "setup" ELSE "login")
        /\ req' = [req EXCEPT ![r] = Free]
  /\ UNCHANGED <<server, token, restarts>>

(* request(): an answer 401 clears the token the browser has by now.       *)
Unauthorized(t, r) ==
  IF req[r].st = "unauthorized" THEN Store(t, None) ELSE UNCHANGED token

ReceiveProbe(t, r) ==
  /\ req[r].tab = t /\ req[r].kind = "probe" /\ req[r].st \in Replies
  /\ Show(t, IF req[r].st = "data" THEN "authenticated" ELSE "login")
  /\ Unauthorized(t, r)
  /\ req' = [req EXCEPT ![r] = Free]
  /\ UNCHANGED <<server, restarts>>

(* A page shows what went wrong and stays; so does a form.                 *)
ReceivePage(t, r) ==
  /\ req[r].tab = t /\ req[r].kind = "page" /\ req[r].st \in Replies
  /\ Unauthorized(t, r)
  /\ req' = [req EXCEPT ![r] = Free]
  /\ UNCHANGED <<server, gate, restarts>>

ReceiveSession(t, r) ==
  /\ req[r].tab = t /\ req[r].kind \in {"setup", "login"} /\ req[r].st \in Replies
  /\ \/ /\ req[r].st = "token"
        /\ Store(t, req[r].token)
        /\ req' = [req EXCEPT ![r] = Sent("status", t, None, None, None)]
     \/ /\ req[r].st # "token"
        /\ Unauthorized(t, r)
        /\ req' = [req EXCEPT ![r] = Free]
  /\ UNCHANGED <<server, gate, restarts>>

-----------------------------------------------------------------------------
Handle(r) == \/ AuthStatus(r) \/ SetupCheck(r) \/ SetupInsert(r) \/ VerifyLogin(r)
             \/ NewSession(r) \/ RequireAuth(r)

Receive(t, r) == ReceiveStatus(t, r) \/ ReceiveProbe(t, r) \/ ReceivePage(t, r) \/ ReceiveSession(t, r)

UserStep(t) ==
  \/ HandleLogout(t)
  \/ \E r \in Requests : \/ OpenTab(t, r) \/ OpenPage(t, r)
                         \/ \E u \in Usernames, p \in Passwords :
                              SubmitSetup(t, r, u, p) \/ SubmitLogin(t, r, u, p)

Next == \/ ServerStart \/ ServerCrash
        \/ \E r \in Requests : Handle(r) \/ Discard(r) \/ \E t \in Tabs : Receive(t, r)
        \/ \E t \in Tabs : UserStep(t)

Spec == Init /\ [][Next]_vars

(* The runtime polls every handler, the browser every answer; nothing      *)
(* obliges a user.                                                         *)
Fairness == \A r \in Requests : /\ WF_vars(Handle(r))
                                /\ \A t \in Tabs : WF_vars(Receive(t, r))

FairSpec == Spec /\ Fairness

-----------------------------------------------------------------------------
\* A session the server accepts is of an account that is in the database:
\* create_admin and verify_login draw the token last (auth.rs:56, 69), and a
\* crash between insert and token leaves no session without an account.
SessionsHaveAccounts ==
  \A k \in sessions : owner[k] # None /\ accounts[owner[k]] # None

\* Whoever is given a token gave the password that is stored: of two setups
\* for one username that both saw no account, the second gets no session
\* (auth.rs:47-49).
Earned(q) ==
  q.kind \in {"setup", "login"} /\ q.st \in {"inserted", "verified", "token"} =>
    accounts[q.user] = q.pass

TokensAreEarned == \A r \in Requests : Earned(req[r])

\* A handler past its first step is of the kind that gets there, and a form
\* was sent with a username and a password.
RequestSound(q) ==
  /\ q.st \in {"checked", "inserted"} => q.kind = "setup"
  /\ q.st = "verified" => q.kind = "login"
  /\ q.kind \in {"setup", "login"} => q.user \in Usernames /\ q.pass \in Passwords

\* Why sessions have accounts and are earned.
AccessInv ==
  /\ TypeOK
  /\ SessionsHaveAccounts
  /\ \A r \in Requests : RequestSound(req[r]) /\ Earned(req[r])

\* A tab that shows "Loading" has a request of checkAuth under way, whose answer
\* it will take: neither a reload, nor a crash of the server, nor what other tabs
\* do leaves it waiting for nothing (App.tsx:16-34).
Asks(q, t) == q.tab = t /\ q.kind \in {"status", "probe"} /\ q.st \in {"sent"} \cup Replies

CheckingIsAsking ==
  \A t \in Tabs : gate[t] = "loading" => \E r \in Requests : Asks(req[r], t)

\* The inductive invariant.
IInv == AccessInv /\ CheckingIsAsking

\* No setup, however late, changes the password of an account that is there.
CredentialsStay ==
  [][\A u \in Usernames : accounts[u] # None => accounts'[u] = accounts[u]]_vars

Reload(t) == \E r \in Requests : OpenTab(t, r)

\* A tab that is checking arrives at a screen, whether the server answers,
\* restarts or is down (App.tsx:16-34): whoever stops reloading it stops seeing "Loading".
LoadingEnds ==
  \A t \in Tabs :
    <>[][~Reload(t)]_vars => (gate[t] = "loading" ~> gate[t] # "loading")

\* "Whoever completes setup first becomes the (single) admin" (auth.rs:9-10).
SingleAdmin ==
  \A u, v \in Usernames : accounts[u] # None /\ accounts[v] # None => u = v
=============================================================================
