---------------------------- MODULE ConsolePage ----------------------------
(***************************************************************************)
(* The Workspaces page of the console: the list it fetched, the fetches    *)
(* under way, and the changes it sends.  useApiData starts a fetch when    *)
(* the page is shown and after each refetch(), and drops the answers of    *)
(* the fetches before.  Other administrators change the table meanwhile.   *)
(*                                                                         *)
(* A version numbers the states of the table of workspaces: how old a list *)
(* is, is the version it was read at.                                      *)
(***************************************************************************)
EXTENDS Naturals, FiniteSets

CONSTANTS
  Workspaces, None,
  MaxMounts,     \* bound: how often the page is opened
  MaxChanges,    \* bound: changes this page sends
  MaxOthers      \* bound: changes by others

ASSUME NoneIsNoWorkspace == None \notin Workspaces
ASSUME NoneIsNoList      == None \notin [at : Nat, rows : SUBSET Workspaces]
ASSUME BoundsAreNumbers  == MaxMounts \in Nat /\ MaxChanges \in Nat /\ MaxOthers \in Nat

VARIABLES
  exists,      \* the table: workspaces that are there
  drawn,       \* history: ids that were drawn
  version,     \* how often the table changed
  page,        \* the state of the component
  data,        \* the list it shows, or None
  fetches,     \* list requests that are not delivered
  changes,     \* create, rename and delete requests that are not answered
  count        \* how many mounts, fetches, changes and foreign changes there were

table == <<exists, drawn, version>>
vars  == <<table, page, data, fetches, changes, count>>

Max2(m, n) == IF m >= n THEN m ELSE n

\* "run" counts the mounts and tells the components apart; "pending" is a
\* refreshIndex whose effect has not run; "current" is the fetch whose answer
\* counts, 0 if none does; "own" is history: the newest version that this
\* component was told is its own doing.
Page   == [run : Nat, mounted : BOOLEAN, pending : BOOLEAN, current : Nat, loading : BOOLEAN,
           error : BOOLEAN, creating : BOOLEAN, renaming : Workspaces \cup {None}, own : Nat]
List   == [at : Nat, rows : SUBSET Workspaces]
Fetch  == [id : Nat, st : {"sent", "answered", "failed"}, at : Nat, rows : SUBSET Workspaces]
Change == [id : Nat, run : Nat, kind : {"create", "rename", "delete"}, w : Workspaces \cup {None},
           st : {"sent", "done", "failed"}, at : Nat]

TypeOK ==
  /\ exists \subseteq Workspaces /\ drawn \subseteq Workspaces /\ version \in Nat
  /\ page \in Page
  /\ data \in List \cup {None}
  /\ fetches \subseteq Fetch
  /\ changes \subseteq Change
  /\ count \in [mounts : Nat, fetches : Nat, changes : Nat, others : Nat]

Init ==
  /\ exists \in SUBSET Workspaces /\ drawn = exists /\ version = 0
  /\ page = [run |-> 0, mounted |-> FALSE, pending |-> FALSE, current |-> 0, loading |-> TRUE,
             error |-> FALSE, creating |-> FALSE, renaming |-> None, own |-> 0]
  /\ data = None
  /\ fetches = {} /\ changes = {}
  /\ count = [mounts |-> 0, fetches |-> 0, changes |-> 0, others |-> 0]

-----------------------------------------------------------------------------
(* The component and useApiData.                                           *)
Mount ==
  /\ ~page.mounted /\ count.mounts < MaxMounts
  /\ page' = [run |-> page.run + 1, mounted |-> TRUE, pending |-> TRUE, current |-> 0,
              loading |-> TRUE, error |-> FALSE, creating |-> FALSE, renaming |-> None, own |-> 0]
  /\ data' = None
  /\ count' = [count EXCEPT !.mounts = @ + 1]
  /\ UNCHANGED <<table, fetches, changes>>

(* Leaving the page cancels the fetch that counts.                         *)
Unmount ==
  /\ page.mounted
  /\ page' = [page EXCEPT !.mounted = FALSE, !.pending = FALSE, !.current = 0]
  /\ UNCHANGED <<table, data, fetches, changes, count>>

(* The effect runs some time after refreshIndex was set; it cancels the    *)
(* fetch before and starts one.                                            *)
Effect ==
  /\ page.mounted /\ page.pending
  /\ count' = [count EXCEPT !.fetches = @ + 1]
  /\ page' = [page EXCEPT !.pending = FALSE, !.loading = TRUE, !.current = count'.fetches]
  /\ fetches' = fetches \cup {[id |-> count'.fetches, st |-> "sent", at |-> 0, rows |-> {}]}
  /\ UNCHANGED <<table, data, changes>>

(* Variant with a bug: the answer of a fetch that was cancelled is taken.  *)
DeliverAny(f) ==
  /\ f.st # "sent"
  /\ fetches' = fetches \ {f}
  /\ IF f.st = "answered"
     THEN /\ data' = [at |-> f.at, rows |-> f.rows]
          /\ page' = [page EXCEPT !.error = FALSE, !.loading = FALSE]
     ELSE /\ page' = [page EXCEPT !.error = TRUE, !.loading = FALSE]
          /\ UNCHANGED data
  /\ UNCHANGED <<table, changes, count>>

(* Variant with a bug: a failure leaves the page loading.                  *)
DeliverUnfinished(f) ==
  /\ f.st # "sent"
  /\ fetches' = fetches \ {f}
  /\ IF f.id # page.current
     THEN UNCHANGED <<page, data>>
     ELSE IF f.st = "answered"
     THEN /\ data' = [at |-> f.at, rows |-> f.rows]
          /\ page' = [page EXCEPT !.error = FALSE, !.loading = FALSE]
     ELSE /\ page' = [page EXCEPT !.error = TRUE]
          /\ UNCHANGED data
  /\ UNCHANGED <<table, changes, count>>

Deliver(f) ==
  /\ f.st # "sent"
  /\ fetches' = fetches \ {f}
  /\ \/ /\ f.id # page.current
        /\ UNCHANGED <<page, data>>
     \/ /\ f.id = page.current /\ f.st = "answered"
        /\ data' = [at |-> f.at, rows |-> f.rows]
        /\ page' = [page EXCEPT !.error = FALSE, !.loading = FALSE]
     \/ /\ f.id = page.current /\ f.st = "failed"
        /\ page' = [page EXCEPT !.error = TRUE, !.loading = FALSE]
        /\ UNCHANGED data
  /\ UNCHANGED <<table, changes, count>>

-----------------------------------------------------------------------------
(* What the administrator does on the page.                                *)
Send(kind, w) ==
  /\ count.changes < MaxChanges
  /\ count' = [count EXCEPT !.changes = @ + 1]
  /\ changes' = changes \cup {[id |-> count'.changes, run |-> page.run, kind |-> kind, w |-> w,
                               st |-> "sent", at |-> 0]}

Shown(w) == page.mounted /\ data # None /\ w \in data.rows

HandleCreate ==
  /\ page.mounted /\ ~page.creating
  /\ Send("create", None)
  /\ page' = [page EXCEPT !.creating = TRUE]
  /\ UNCHANGED <<table, data, fetches>>

HandleDelete(w) ==
  /\ Shown(w)
  /\ Send("delete", w)
  /\ UNCHANGED <<table, page, data, fetches>>

EditName(w) ==
  /\ Shown(w) /\ page.renaming # w
  /\ page' = [page EXCEPT !.renaming = w]
  /\ UNCHANGED <<table, data, fetches, changes, count>>

CancelEdit ==
  /\ page.renaming # None /\ Shown(page.renaming)
  /\ page' = [page EXCEPT !.renaming = None]
  /\ UNCHANGED <<table, data, fetches, changes, count>>

HandleRenameSubmit(w) ==
  /\ Shown(w) /\ page.renaming = w
  /\ Send("rename", w)
  /\ UNCHANGED <<table, page, data, fetches>>

(* Variant with a bug: the list is not fetched again.                      *)
AnsweredKeepsList(c) ==
  /\ c.st # "sent"
  /\ changes' = changes \ {c}
  /\ IF c.run = page.run /\ page.mounted
     THEN page' = [page EXCEPT !.creating = @ /\ c.kind # "create",
                               !.renaming = IF c.kind = "rename" THEN None ELSE @,
                               !.own = IF c.st = "done" THEN Max2(@, c.at) ELSE @]
     ELSE UNCHANGED page
  /\ UNCHANGED <<table, data, fetches, count>>

(* Variant with a bug: a failure does not reach the finally of the form.    *)
AnsweredKeepsLock(c) ==
  /\ c.st # "sent"
  /\ changes' = changes \ {c}
  /\ IF c.run = page.run /\ page.mounted /\ c.st = "done"
     THEN page' = [page EXCEPT !.creating = @ /\ c.kind # "create",
                               !.renaming = IF c.kind = "rename" THEN None ELSE @,
                               !.own = Max2(@, c.at), !.pending = TRUE]
     ELSE UNCHANGED page
  /\ UNCHANGED <<table, data, fetches, count>>

(* The answer reaches the component that asked, if it is still there.      *)
(* Only a creation handles its errors; a failed rename or delete ends the  *)
(* handler before it fetches again.                                        *)
Answered(c) ==
  /\ c.st # "sent"
  /\ changes' = changes \ {c}
  /\ \/ /\ c.run # page.run \/ ~page.mounted
        /\ UNCHANGED page
     \/ /\ c.run = page.run /\ page.mounted /\ c.st = "done"
        /\ page' = [page EXCEPT !.creating = @ /\ c.kind # "create",
                                !.renaming = IF c.kind = "rename" THEN None ELSE @,
                                !.own = Max2(@, c.at), !.pending = TRUE]
     \/ /\ c.run = page.run /\ page.mounted /\ c.st = "failed"
        /\ page' = [page EXCEPT !.creating = @ /\ c.kind # "create"]
  /\ UNCHANGED <<table, data, fetches, count>>

-----------------------------------------------------------------------------
(* The server.                                                             *)
Create == \E w \in Workspaces \ drawn : exists' = exists \cup {w} /\ drawn' = drawn \cup {w}

Delete(w) == w \in exists /\ exists' = exists \ {w} /\ UNCHANGED drawn

Rename(w) == w \in exists /\ UNCHANGED <<exists, drawn>>

Becomes(c, st, at) == changes' = (changes \ {c}) \cup {[c EXCEPT !.st = st, !.at = at]}

ApplyChange(c) ==
  /\ c.st = "sent"
  /\ CASE c.kind = "create" -> Create
       [] c.kind = "delete" -> Delete(c.w)
       [] OTHER             -> Rename(c.w)
  /\ version' = version + 1
  /\ Becomes(c, "done", version')
  /\ UNCHANGED <<page, data, fetches, count>>

(* 404 because the workspace is gone, 401, 500, or no answer at all; the   *)
(* answer of a change that was made can be lost too.                       *)
ChangeFails(c) ==
  /\ c.st # "failed"
  /\ Becomes(c, "failed", c.at)
  /\ UNCHANGED <<table, page, data, fetches, count>>

ListWorkspaces(f) ==
  /\ f.st = "sent"
  /\ fetches' = (fetches \ {f}) \cup {[f EXCEPT !.st = "answered", !.at = version, !.rows = exists]}
  /\ UNCHANGED <<table, page, data, changes, count>>

ListFails(f) ==
  /\ f.st # "failed"
  /\ fetches' = (fetches \ {f}) \cup {[f EXCEPT !.st = "failed"]}
  /\ UNCHANGED <<table, page, data, changes, count>>

OtherChange ==
  /\ count.others < MaxOthers
  /\ count' = [count EXCEPT !.others = @ + 1]
  /\ Create \/ \E w \in Workspaces : Delete(w) \/ Rename(w)
  /\ version' = version + 1
  /\ UNCHANGED <<page, data, fetches, changes>>

-----------------------------------------------------------------------------
Settle(c) == ApplyChange(c) \/ ChangeFails(c) \/ Answered(c)
Serve(f)  == ListWorkspaces(f) \/ ListFails(f) \/ Deliver(f)

User == \/ Mount \/ Unmount \/ HandleCreate \/ CancelEdit
        \/ \E w \in Workspaces : HandleDelete(w) \/ EditName(w) \/ HandleRenameSubmit(w)

Next == \/ User \/ Effect \/ OtherChange
        \/ \E c \in changes : Settle(c)
        \/ \E f \in fetches : Serve(f)

Spec == Init /\ [][Next]_vars

(* React runs its effects; each request is answered or fails, since the    *)
(* browser gives up on a connection that breaks.                           *)
Fairness ==
  /\ WF_vars(Effect)
  /\ \A n \in 1..MaxChanges : WF_vars(\E c \in changes : c.id = n /\ Settle(c))
  /\ \A n \in 1..(MaxMounts + MaxChanges) : WF_vars(\E f \in fetches : f.id = n /\ Serve(f))

FairSpec == Spec /\ Fairness

-----------------------------------------------------------------------------
\* A page that neither loads nor reports an error shows a list that was read
\* after every change it was told is done: what the administrator did is
\* there, whatever answers are still under way (Workspaces.tsx:22-43, hooks.ts:11-31).
AtRest == page.mounted /\ ~page.pending /\ ~page.loading /\ ~page.error

OwnChangesAreShown == AtRest => data # None /\ data.at >= page.own

\* Requests are numbered, and no version is newer than the table.
FetchesAreApart ==
  /\ \A f \in fetches : f.id > 0 /\ f.id <= count.fetches
  /\ \A f, g \in fetches : f.id = g.id => f = g

VersionsAreReal ==
  /\ page.own <= version
  /\ data # None => data.at <= version
  /\ \A f \in fetches : f.at <= version
  /\ \A c \in changes : c.at <= version

\* The answer that will be taken is no older than the list shown nor, unless
\* another fetch is about to start, than what this page did.
NextListIsNewer ==
  \A f \in fetches : f.id = page.current /\ f.st = "answered" =>
    /\ data # None => f.at >= data.at
    /\ page.pending \/ f.at >= page.own

\* A page that is loading awaits something that will come: its effect is due, or
\* the fetch whose answer counts is under way (hooks.ts:11-31).
LoadingIsFetching ==
  page.mounted /\ page.loading => page.pending \/ \E f \in fetches : f.id = page.current

Creations(run) == {c \in changes : c.run = run /\ c.kind = "create"}

\* The form is locked exactly while its one creation is under way: it becomes
\* usable again whatever the answer, and is never sent twice (Workspaces.tsx:22-32).
FormIsLockedForOne ==
  /\ \A c \in changes : c.run <= page.run
  /\ page.mounted => (page.creating <=> Creations(page.run) # {})
  /\ \A c, d \in changes : c.run = d.run /\ c.kind = "create" /\ d.kind = "create" => c = d

\* Why OwnChangesAreShown and ListNeverGoesBack hold: the inductive invariant
\* (hooks.ts:11-31: the cleanup of each effect cancels the fetch before).
PageInv ==
  /\ TypeOK /\ FetchesAreApart /\ VersionsAreReal /\ NextListIsNewer /\ OwnChangesAreShown
  /\ LoadingIsFetching /\ FormIsLockedForOne

\* The list never goes back to an older state of the table, in whichever order
\* the answers arrive (hooks.ts:17-30).
ListNeverGoesBack ==
  [][page'.run = page.run /\ data # None => data' # None /\ data'.at >= data.at]_vars

\* A page that is loading comes to a list or an error, unless it is left.
PageLoads == page.mounted /\ page.loading ~> ~page.loading \/ ~page.mounted
=============================================================================
