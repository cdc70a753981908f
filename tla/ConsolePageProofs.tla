------------------------- MODULE ConsolePageProofs -------------------------
(***************************************************************************)
(* Proofs about the Workspaces page: it shows what it changed, its list    *)
(* never goes back, and neither the list nor the form waits for something  *)
(* that will not come, however many fetches and changes are under way.     *)
(***************************************************************************)
EXTENDS ConsolePage, TLAPS

\* A step keeps what the list and the requests rely on.
Kept ==
  /\ FetchesAreApart' /\ VersionsAreReal' /\ NextListIsNewer' /\ OwnChangesAreShown'
  /\ page'.run = page.run /\ data # None => data' # None /\ data'.at >= data.at

-----------------------------------------------------------------------------
(* Lemmas about the records.                                               *)

\* The larger of two numbers is one of them and below neither.
LEMMA MaxBounds ==
  ASSUME NEW m \in Nat, NEW n \in Nat
  PROVE  Max2(m, n) \in Nat /\ Max2(m, n) >= m /\ Max2(m, n) >= n /\ Max2(m, n) \in {m, n}
BY DEF Max2

\* The fields of the state have their types.
LEMMA Fields ==
  ASSUME TypeOK
  PROVE  /\ version \in Nat
         /\ page.run \in Nat /\ page.current \in Nat /\ page.own \in Nat
         /\ page.mounted \in BOOLEAN /\ page.pending \in BOOLEAN
         /\ page.loading \in BOOLEAN /\ page.error \in BOOLEAN /\ page.creating \in BOOLEAN
         /\ page.renaming \in Workspaces \cup {None}
         /\ data # None => data \in List /\ data.at \in Nat /\ data.rows \subseteq Workspaces
         /\ count.mounts \in Nat /\ count.fetches \in Nat
         /\ count.changes \in Nat /\ count.others \in Nat
BY DEF TypeOK, Page, List

\* So have those of a fetch,
LEMMA FetchFields ==
  ASSUME TypeOK, NEW f \in fetches
  PROVE  /\ f \in Fetch /\ f.id \in Nat /\ f.at \in Nat /\ f.rows \subseteq Workspaces
         /\ f.st \in {"sent", "answered", "failed"}
BY DEF TypeOK, Fetch

\* and of a change.
LEMMA ChangeFields ==
  ASSUME TypeOK, NEW c \in changes
  PROVE  /\ c \in Change /\ c.id \in Nat /\ c.run \in Nat /\ c.at \in Nat
         /\ c.w \in Workspaces \cup {None}
         /\ c.st \in {"sent", "done", "failed"} /\ c.kind \in {"create", "rename", "delete"}
BY DEF TypeOK, Change

\* None is no list.
LEMMA NoneApart == \A l \in List : l # None
BY NoneIsNoList DEF List

-----------------------------------------------------------------------------
(* Steps that touch neither the list nor what it depends on.               *)

LEMMA QuietStep ==
  ASSUME PageInv, data' = data, fetches' = fetches, version' \in Nat, version' >= version,
         count'.fetches = count.fetches,
         page'.mounted = page.mounted, page'.pending = page.pending,
         page'.current = page.current, page'.loading = page.loading,
         page'.error = page.error, page'.own = page.own,
         \A c \in changes' : c.at <= version'
  PROVE  Kept
<1> USE DEF PageInv
<1>1. FetchesAreApart'
  BY DEF FetchesAreApart
<1>2. VersionsAreReal'
  BY Fields, FetchFields DEF VersionsAreReal
<1>3. NextListIsNewer'
  BY DEF NextListIsNewer
<1>4. OwnChangesAreShown'
  BY DEF OwnChangesAreShown, AtRest
<1>5. data # None => data' # None /\ data'.at >= data.at
  BY Fields
<1>6. QED
  BY <1>1, <1>2, <1>3, <1>4, <1>5 DEF Kept

\* The requests that a page sends.
LEMMA SendStep ==
  ASSUME PageInv, NEW kind \in {"create", "rename", "delete"}, NEW w \in Workspaces \cup {None},
         Send(kind, w), UNCHANGED version
  PROVE  /\ changes' \subseteq Change
         /\ count' \in [mounts : Nat, fetches : Nat, changes : Nat, others : Nat]
         /\ count'.fetches = count.fetches
         /\ \A c \in changes' : c.at <= version'
<1>1. count' \in [mounts : Nat, fetches : Nat, changes : Nat, others : Nat]
      /\ count'.fetches = count.fetches /\ count'.changes \in Nat
  BY DEF Send, PageInv, TypeOK
<1> DEFINE c0 == [id |-> count'.changes, run |-> page.run, kind |-> kind, w |-> w,
                  st |-> "sent", at |-> 0]
<1>2. c0 \in Change /\ c0.at = 0
  BY <1>1, Fields DEF PageInv, Change
<1>3. changes' = changes \cup {c0}
  BY DEF Send
<1> HIDE DEF c0
<1>4. version' \in Nat /\ changes \subseteq Change /\ \A c \in changes : c.at <= version
  BY DEF PageInv, TypeOK, VersionsAreReal
<1>5. QED
  BY <1>1, <1>2, <1>3, <1>4

-----------------------------------------------------------------------------
(* The actions of the page.                                                *)

LEMMA MountStep ==
  ASSUME PageInv, Mount
  PROVE  TypeOK' /\ Kept
<1> USE DEF PageInv
<1>1. page'.run = page.run + 1 /\ page'.mounted = TRUE /\ page'.pending = TRUE
      /\ page'.own = 0 /\ page'.current = 0 /\ data' = None
      /\ fetches' = fetches /\ changes' = changes /\ version' = version
      /\ exists' = exists /\ drawn' = drawn
  BY DEF Mount, table
<1>2. page' \in Page
  BY Fields DEF Mount, Page
<1>3. count' \in [mounts : Nat, fetches : Nat, changes : Nat, others : Nat]
      /\ count'.fetches = count.fetches
  BY DEF Mount, TypeOK
<1>4. TypeOK'
  BY <1>1, <1>2, <1>3 DEF TypeOK
<1>5. FetchesAreApart'
  BY <1>1, <1>3 DEF FetchesAreApart
<1>6. VersionsAreReal'
  BY <1>1, Fields DEF VersionsAreReal
<1>7. NextListIsNewer'
  BY <1>1 DEF NextListIsNewer
<1>8. OwnChangesAreShown'
  BY <1>1 DEF OwnChangesAreShown, AtRest
<1>9. page'.run # page.run
  BY <1>1, Fields
<1>10. QED
  BY <1>4, <1>5, <1>6, <1>7, <1>8, <1>9 DEF Kept

LEMMA UnmountStep ==
  ASSUME PageInv, Unmount
  PROVE  TypeOK' /\ Kept
<1> USE DEF PageInv
<1>1. data' = data /\ fetches' = fetches /\ changes' = changes /\ count' = count
      /\ version' = version /\ exists' = exists /\ drawn' = drawn
  BY DEF Unmount, table
<1>2. page' \in Page /\ page'.mounted = FALSE /\ page'.current = 0 /\ page'.own = page.own
  BY DEF Unmount, TypeOK, Page
<1>3. TypeOK'
  BY <1>1, <1>2 DEF TypeOK
<1>4. FetchesAreApart'
  BY <1>1 DEF FetchesAreApart
<1>5. VersionsAreReal'
  BY <1>1, <1>2 DEF VersionsAreReal
<1>6. NextListIsNewer'
  <2>1. \A f \in fetches : f.id # 0
    BY FetchFields DEF FetchesAreApart
  <2>2. QED
    BY <1>1, <1>2, <2>1 DEF NextListIsNewer
<1>7. OwnChangesAreShown'
  BY <1>2 DEF OwnChangesAreShown, AtRest
<1>8. data # None => data' # None /\ data'.at >= data.at
  BY <1>1, Fields
<1>9. QED
  BY <1>3, <1>4, <1>5, <1>6, <1>7, <1>8 DEF Kept

\* A fetch starts: its number is new, and nothing else has it.
LEMMA EffectStep ==
  ASSUME PageInv, Effect
  PROVE  TypeOK' /\ Kept
<1> USE DEF PageInv
<1>1. data' = data /\ changes' = changes /\ version' = version
      /\ exists' = exists /\ drawn' = drawn
  BY DEF Effect, table
<1>2. count' \in [mounts : Nat, fetches : Nat, changes : Nat, others : Nat]
      /\ count'.fetches = count.fetches + 1
  BY DEF Effect, TypeOK
<1> DEFINE n == count.fetches + 1
           f0 == [id |-> n, st |-> "sent", at |-> 0, rows |-> {}]
<1>3. fetches' = fetches \cup {f0}
  BY <1>2 DEF Effect
<1>4. n \in Nat /\ n > count.fetches /\ n > 0
  BY Fields
<1>5. f0 \in Fetch /\ f0.id = n /\ f0.st = "sent" /\ f0.at = 0
  BY <1>4 DEF Fetch
<1>6. page' = [page EXCEPT !.pending = FALSE, !.loading = TRUE, !.current = n]
  BY <1>2 DEF Effect
<1>7. page' \in Page /\ page'.current = n /\ page'.own = page.own /\ page'.loading = TRUE
  BY <1>4, <1>6 DEF TypeOK, Page
<1>8. \A f \in fetches : f.id # n /\ f.id <= n /\ f.id > 0
  BY <1>4, Fields, FetchFields DEF FetchesAreApart
<1>9. TypeOK'
  BY <1>1, <1>2, <1>3, <1>5, <1>7 DEF TypeOK
<1> HIDE DEF f0
<1>10. FetchesAreApart'
  <2>1. \A f \in fetches' : f.id > 0 /\ f.id <= count'.fetches
    BY <1>2, <1>3, <1>4, <1>5, <1>8
  <2>2. \A f, g \in fetches' : f.id = g.id => f = g
    BY <1>3, <1>5, <1>8 DEF FetchesAreApart
  <2>3. QED
    BY <2>1, <2>2 DEF FetchesAreApart
<1>11. VersionsAreReal'
  BY <1>1, <1>3, <1>5, <1>7, Fields DEF VersionsAreReal
<1>12. NextListIsNewer'
  BY <1>3, <1>5, <1>7, <1>8 DEF NextListIsNewer
<1>13. OwnChangesAreShown'
  BY <1>7 DEF OwnChangesAreShown, AtRest
<1>14. data # None => data' # None /\ data'.at >= data.at
  BY <1>1, Fields
<1>15. QED
  BY <1>9, <1>10, <1>11, <1>12, <1>13, <1>14 DEF Kept

LEMMA HandleCreateStep ==
  ASSUME PageInv, HandleCreate
  PROVE  TypeOK' /\ Kept
<1> USE DEF PageInv
<1>1. Send("create", None) /\ data' = data /\ fetches' = fetches
      /\ version' = version /\ exists' = exists /\ drawn' = drawn
  BY DEF HandleCreate, table
<1>2. changes' \subseteq Change
      /\ count' \in [mounts : Nat, fetches : Nat, changes : Nat, others : Nat]
      /\ count'.fetches = count.fetches /\ \A c \in changes' : c.at <= version'
  BY <1>1, SendStep
<1>3. page' = [page EXCEPT !.creating = TRUE]
  BY DEF HandleCreate
<1>4. page' \in Page
  BY <1>3 DEF TypeOK, Page
<1>5. page'.mounted = page.mounted /\ page'.pending = page.pending
      /\ page'.current = page.current /\ page'.loading = page.loading
      /\ page'.error = page.error /\ page'.own = page.own
  BY <1>3 DEF TypeOK, Page
<1>6. TypeOK'
  BY <1>1, <1>2, <1>4 DEF TypeOK
<1>7. version' >= version /\ version' \in Nat
  BY <1>1, Fields
<1>8. QED
  BY <1>1, <1>2, <1>5, <1>6, <1>7, QuietStep

LEMMA SendOnlyStep ==
  ASSUME PageInv, NEW kind \in {"create", "rename", "delete"}, NEW w \in Workspaces,
         Send(kind, w), UNCHANGED <<table, page, data, fetches>>
  PROVE  TypeOK' /\ Kept
<1> USE DEF PageInv
<1>1. page' = page /\ data' = data /\ fetches' = fetches
      /\ version' = version /\ exists' = exists /\ drawn' = drawn
  BY DEF table
<1>2. changes' \subseteq Change
      /\ count' \in [mounts : Nat, fetches : Nat, changes : Nat, others : Nat]
      /\ count'.fetches = count.fetches /\ \A c \in changes' : c.at <= version'
  BY <1>1, SendStep
<1>3. TypeOK'
  BY <1>1, <1>2 DEF TypeOK
<1>4. version' >= version /\ version' \in Nat
  BY <1>1, Fields
<1>5. QED
  BY <1>1, <1>2, <1>3, <1>4, QuietStep

LEMMA RenamingStep ==
  ASSUME PageInv, NEW w \in Workspaces \cup {None},
         page' = [page EXCEPT !.renaming = w], UNCHANGED <<table, data, fetches, changes, count>>
  PROVE  TypeOK' /\ Kept
<1> USE DEF PageInv
<1>1. data' = data /\ fetches' = fetches /\ changes' = changes /\ count' = count
      /\ version' = version /\ exists' = exists /\ drawn' = drawn
  BY DEF table
<1>2. page' \in Page
      /\ page'.mounted = page.mounted /\ page'.pending = page.pending
      /\ page'.current = page.current /\ page'.loading = page.loading
      /\ page'.error = page.error /\ page'.own = page.own
  BY DEF TypeOK, Page
<1>3. TypeOK'
  BY <1>1, <1>2 DEF TypeOK
<1>4. version' >= version /\ version' \in Nat
  BY <1>1, Fields
<1>5. \A c \in changes' : c.at <= version'
  BY <1>1 DEF VersionsAreReal
<1>6. QED
  BY <1>1, <1>2, <1>3, <1>4, <1>5, QuietStep

\* What the administrator does.
LEMMA UserStep ==
  ASSUME PageInv, User
  PROVE  TypeOK' /\ Kept
<1>1. CASE Mount
  BY <1>1, MountStep
<1>2. CASE Unmount
  BY <1>2, UnmountStep
<1>3. CASE HandleCreate
  BY <1>3, HandleCreateStep
<1>4. CASE CancelEdit
  BY <1>4, RenamingStep DEF CancelEdit
<1>5. CASE \E w \in Workspaces : HandleDelete(w) \/ EditName(w) \/ HandleRenameSubmit(w)
  <2>1. PICK w \in Workspaces : HandleDelete(w) \/ EditName(w) \/ HandleRenameSubmit(w)
    BY <1>5
  <2>2. CASE HandleDelete(w)
    BY <2>2, SendOnlyStep DEF HandleDelete
  <2>3. CASE EditName(w)
    BY <2>3, RenamingStep DEF EditName
  <2>4. CASE HandleRenameSubmit(w)
    BY <2>4, SendOnlyStep DEF HandleRenameSubmit
  <2>5. QED
    BY <2>1, <2>2, <2>3, <2>4
<1>6. QED
  BY <1>1, <1>2, <1>3, <1>4, <1>5 DEF User

-----------------------------------------------------------------------------
(* The answers to changes.                                                 *)

\* What the server does to the table keeps its type.
LEMMA TableTypes ==
  ASSUME TypeOK, Create \/ \E w \in Workspaces \cup {None} : Delete(w) \/ Rename(w)
  PROVE  exists' \subseteq Workspaces /\ drawn' \subseteq Workspaces
BY DEF TypeOK, Create, Delete, Rename

\* A step of the server's that makes the table newer.
LEMMA NewVersionStep ==
  ASSUME PageInv, NEW c \in changes, ApplyChange(c)
  PROVE  TypeOK' /\ Kept
<1> USE DEF PageInv
<1>1. page' = page /\ data' = data /\ fetches' = fetches /\ count' = count
      /\ version' = version + 1
  BY DEF ApplyChange
<1>2. version' \in Nat /\ version' >= version
  BY <1>1, Fields
<1>3. exists' \subseteq Workspaces /\ drawn' \subseteq Workspaces
  BY TableTypes, ChangeFields DEF ApplyChange
<1> DEFINE v == version + 1
           d == [c EXCEPT !.st = "done", !.at = v]
<1>4. changes' = (changes \ {c}) \cup {d}
  BY <1>1 DEF ApplyChange, Becomes
<1>5. d \in Change /\ d.at = v
  <2>1. c \in Change /\ v \in Nat
    BY <1>1, <1>2, ChangeFields
  <2>2. QED
    BY <2>1 DEF Change
<1> HIDE DEF d
<1>6. TypeOK'
  BY <1>1, <1>2, <1>3, <1>4, <1>5 DEF TypeOK
<1>7. \A x \in changes' : x.at <= version'
  <2>1. \A x \in changes : x.at <= version /\ x.at \in Nat
    BY ChangeFields DEF VersionsAreReal
  <2>2. QED
    BY <1>1, <1>2, <1>4, <1>5, <2>1, Fields
<1>8. QED
  BY <1>1, <1>2, <1>6, <1>7, QuietStep

LEMMA ChangeFailsStep ==
  ASSUME PageInv, NEW c \in changes, ChangeFails(c)
  PROVE  TypeOK' /\ Kept
<1> USE DEF PageInv
<1>1. page' = page /\ data' = data /\ fetches' = fetches /\ count' = count
      /\ version' = version /\ exists' = exists /\ drawn' = drawn
  BY DEF ChangeFails, table
<1>2. version' \in Nat /\ version' >= version
  BY <1>1, Fields
<1> DEFINE d == [c EXCEPT !.st = "failed", !.at = c.at]
<1>3. changes' = (changes \ {c}) \cup {d}
  BY DEF ChangeFails, Becomes
<1>4. d \in Change /\ d.at = c.at
  <2>1. c \in Change
    BY ChangeFields
  <2>2. QED
    BY <2>1 DEF Change
<1> HIDE DEF d
<1>5. TypeOK'
  BY <1>1, <1>3, <1>4 DEF TypeOK
<1>6. \A x \in changes' : x.at <= version'
  BY <1>1, <1>3, <1>4 DEF VersionsAreReal
<1>7. QED
  BY <1>1, <1>2, <1>5, <1>6, QuietStep

\* The page is told: if the change was made, another fetch is due, so what
\* the page did may now be newer than the list and than any answer.
LEMMA AnsweredStep ==
  ASSUME PageInv, NEW c \in changes, Answered(c)
  PROVE  TypeOK' /\ Kept
<1> USE DEF PageInv
<1>1. data' = data /\ fetches' = fetches /\ count' = count
      /\ version' = version /\ exists' = exists /\ drawn' = drawn
      /\ changes' = changes \ {c}
  BY DEF Answered, table
<1>2. version' \in Nat /\ version' >= version
  BY <1>1, Fields
<1>3. changes' \subseteq Change /\ \A x \in changes' : x.at <= version'
  BY <1>1 DEF TypeOK, VersionsAreReal
<1>4. CASE page' = page
  <2>1. TypeOK'
    BY <1>1, <1>3, <1>4 DEF TypeOK
  <2>2. QED
    BY <1>1, <1>2, <1>3, <1>4, <2>1, QuietStep
<1>5. CASE page' = [page EXCEPT !.creating = @ /\ c.kind # "create"]
  <2>1. page' \in Page
        /\ page'.mounted = page.mounted /\ page'.pending = page.pending
        /\ page'.current = page.current /\ page'.loading = page.loading
        /\ page'.error = page.error /\ page'.own = page.own
    BY <1>5 DEF TypeOK, Page
  <2>2. TypeOK'
    BY <1>1, <1>3, <2>1 DEF TypeOK
  <2>3. QED
    BY <1>1, <1>2, <1>3, <2>1, <2>2, QuietStep
<1>6. CASE page' = [page EXCEPT !.creating = @ /\ c.kind # "create",
                                !.renaming = IF c.kind = "rename" THEN None ELSE @,
                                !.own = Max2(@, c.at), !.pending = TRUE]
  <2> DEFINE m == Max2(page.own, c.at)
  <2>1. m \in Nat /\ m <= version
    BY Fields, ChangeFields, MaxBounds DEF VersionsAreReal
  <2>2. page' = [page EXCEPT !.creating = page.creating /\ c.kind # "create",
                             !.renaming = IF c.kind = "rename" THEN None ELSE page.renaming,
                             !.own = m, !.pending = TRUE]
    BY <1>6 DEF TypeOK, Page
  <2> HIDE DEF m
  <2>3. (IF c.kind = "rename" THEN None ELSE page.renaming) \in Workspaces \cup {None}
    BY Fields
  <2>4. page' \in Page
    <3>1. page \in Page /\ (page.creating /\ c.kind # "create") \in BOOLEAN
      BY DEF TypeOK
    <3> QED BY <2>1, <2>2, <2>3, <3>1 DEF Page
  <2>5. page'.own = m /\ page'.pending = TRUE /\ page'.current = page.current
    BY <2>2 DEF TypeOK, Page
  <2>6. TypeOK'
    BY <1>1, <1>3, <2>4 DEF TypeOK
  <2>7. FetchesAreApart'
    BY <1>1 DEF FetchesAreApart
  <2>8. VersionsAreReal'
    BY <1>1, <1>3, <2>1, <2>5 DEF VersionsAreReal
  <2>9. NextListIsNewer'
    BY <1>1, <2>5 DEF NextListIsNewer
  <2>10. OwnChangesAreShown'
    BY <2>5 DEF OwnChangesAreShown, AtRest
  <2>11. data # None => data' # None /\ data'.at >= data.at
    BY <1>1, Fields
  <2>12. QED
    BY <2>6, <2>7, <2>8, <2>9, <2>10, <2>11 DEF Kept
<1>7. QED
  BY <1>4, <1>5, <1>6 DEF Answered

-----------------------------------------------------------------------------
(* The answers to fetches.                                                 *)

\* The server reads the table: the answer is as new as anything.
LEMMA ListWorkspacesStep ==
  ASSUME PageInv, NEW f \in fetches, ListWorkspaces(f)
  PROVE  TypeOK' /\ Kept
<1> USE DEF PageInv
<1>1. page' = page /\ data' = data /\ changes' = changes /\ count' = count
      /\ version' = version /\ exists' = exists /\ drawn' = drawn
  BY DEF ListWorkspaces, table
<1> DEFINE g == [f EXCEPT !.st = "answered", !.at = version, !.rows = exists]
<1>2. fetches' = (fetches \ {f}) \cup {g}
  BY DEF ListWorkspaces
<1>3. g \in Fetch /\ g.id = f.id /\ g.at = version
  <2>1. f \in Fetch /\ version \in Nat /\ exists \in SUBSET Workspaces
    BY FetchFields DEF TypeOK
  <2>2. QED
    BY <2>1 DEF Fetch
<1> HIDE DEF g
<1>4. TypeOK'
  BY <1>1, <1>2, <1>3 DEF TypeOK
<1>5. FetchesAreApart'
  BY <1>1, <1>2, <1>3 DEF FetchesAreApart
<1>6. VersionsAreReal'
  BY <1>1, <1>2, <1>3, Fields DEF VersionsAreReal
<1>7. NextListIsNewer'
  BY <1>1, <1>2, <1>3, Fields DEF NextListIsNewer, VersionsAreReal
<1>8. OwnChangesAreShown'
  BY <1>1 DEF OwnChangesAreShown, AtRest
<1>9. data # None => data' # None /\ data'.at >= data.at
  BY <1>1, Fields
<1>10. QED
  BY <1>4, <1>5, <1>6, <1>7, <1>8, <1>9 DEF Kept

LEMMA ListFailsStep ==
  ASSUME PageInv, NEW f \in fetches, ListFails(f)
  PROVE  TypeOK' /\ Kept
<1> USE DEF PageInv
<1>1. page' = page /\ data' = data /\ changes' = changes /\ count' = count
      /\ version' = version /\ exists' = exists /\ drawn' = drawn
  BY DEF ListFails, table
<1> DEFINE g == [f EXCEPT !.st = "failed"]
<1>2. fetches' = (fetches \ {f}) \cup {g}
  BY DEF ListFails
<1>3. g \in Fetch /\ g.id = f.id /\ g.at = f.at /\ g.st = "failed"
  <2>1. f \in Fetch
    BY FetchFields
  <2>2. QED
    BY <2>1 DEF Fetch
<1> HIDE DEF g
<1>4. TypeOK'
  BY <1>1, <1>2, <1>3 DEF TypeOK
<1>5. FetchesAreApart'
  BY <1>1, <1>2, <1>3 DEF FetchesAreApart
<1>6. VersionsAreReal'
  BY <1>1, <1>2, <1>3 DEF VersionsAreReal
<1>7. NextListIsNewer'
  BY <1>1, <1>2, <1>3 DEF NextListIsNewer
<1>8. OwnChangesAreShown'
  BY <1>1 DEF OwnChangesAreShown, AtRest
<1>9. data # None => data' # None /\ data'.at >= data.at
  BY <1>1, Fields
<1>10. QED
  BY <1>4, <1>5, <1>6, <1>7, <1>8, <1>9 DEF Kept

\* An answer is dropped, or it is the one that counts: then no fetch that is
\* left has its number, so no later answer can undo it.
LEMMA DeliverStep ==
  ASSUME PageInv, NEW f \in fetches, Deliver(f)
  PROVE  TypeOK' /\ Kept
<1> USE DEF PageInv
<1>1. changes' = changes /\ count' = count /\ fetches' = fetches \ {f}
      /\ version' = version /\ exists' = exists /\ drawn' = drawn
  BY DEF Deliver, table
<1>2. FetchesAreApart'
  BY <1>1 DEF FetchesAreApart
<1>3. CASE f.id # page.current /\ page' = page /\ data' = data
  <2>1. TypeOK'
    BY <1>1, <1>3 DEF TypeOK
  <2>2. VersionsAreReal'
    BY <1>1, <1>3 DEF VersionsAreReal
  <2>3. NextListIsNewer'
    BY <1>1, <1>3 DEF NextListIsNewer
  <2>4. OwnChangesAreShown'
    BY <1>3 DEF OwnChangesAreShown, AtRest
  <2>5. data # None => data' # None /\ data'.at >= data.at
    BY <1>3, Fields
  <2>6. QED
    BY <1>2, <2>1, <2>2, <2>3, <2>4, <2>5 DEF Kept
<1>4. CASE /\ f.id = page.current /\ f.st = "answered"
           /\ data' = [at |-> f.at, rows |-> f.rows]
           /\ page' = [page EXCEPT !.error = FALSE, !.loading = FALSE]
  <2>1. page' \in Page /\ page'.own = page.own /\ page'.current = page.current
        /\ page'.pending = page.pending
    BY <1>4 DEF TypeOK, Page
  <2>2. data' \in List /\ data' # None /\ data'.at = f.at
    BY <1>4, FetchFields, NoneApart DEF List
  <2>3. TypeOK'
    BY <1>1, <2>1, <2>2 DEF TypeOK
  <2>4. VersionsAreReal'
    BY <1>1, <2>1, <2>2 DEF VersionsAreReal
  <2>5. NextListIsNewer'
    <3>1. \A g \in fetches' : g.id # page.current
      BY <1>1, <1>4 DEF FetchesAreApart
    <3>2. QED
      BY <2>1, <3>1 DEF NextListIsNewer
  <2>6. OwnChangesAreShown'
    BY <1>4, <2>1, <2>2 DEF OwnChangesAreShown, AtRest, NextListIsNewer
  <2>7. data # None => data' # None /\ data'.at >= data.at
    BY <1>4, <2>2 DEF NextListIsNewer
  <2>8. QED
    BY <1>2, <2>3, <2>4, <2>5, <2>6, <2>7 DEF Kept
<1>5. CASE /\ f.id = page.current /\ f.st = "failed" /\ data' = data
           /\ page' = [page EXCEPT !.error = TRUE, !.loading = FALSE]
  <2>1. page' \in Page /\ page'.own = page.own /\ page'.current = page.current
        /\ page'.pending = page.pending /\ page'.error = TRUE
    BY <1>5 DEF TypeOK, Page
  <2>2. TypeOK'
    BY <1>1, <1>5, <2>1 DEF TypeOK
  <2>3. VersionsAreReal'
    BY <1>1, <1>5, <2>1 DEF VersionsAreReal
  <2>4. NextListIsNewer'
    BY <1>1, <1>5, <2>1 DEF NextListIsNewer
  <2>5. OwnChangesAreShown'
    BY <2>1 DEF OwnChangesAreShown, AtRest
  <2>6. data # None => data' # None /\ data'.at >= data.at
    BY <1>5, Fields
  <2>7. QED
    BY <1>2, <2>2, <2>3, <2>4, <2>5, <2>6 DEF Kept
<1>6. QED
  BY <1>3, <1>4, <1>5 DEF Deliver

LEMMA OtherChangeStep ==
  ASSUME PageInv, OtherChange
  PROVE  TypeOK' /\ Kept
<1> USE DEF PageInv
<1>1. page' = page /\ data' = data /\ fetches' = fetches /\ changes' = changes
      /\ version' = version + 1
  BY DEF OtherChange
<1>2. version' \in Nat /\ version' >= version
  BY <1>1, Fields
<1>3. count' \in [mounts : Nat, fetches : Nat, changes : Nat, others : Nat]
      /\ count'.fetches = count.fetches
  BY DEF OtherChange, TypeOK
<1>4. exists' \subseteq Workspaces /\ drawn' \subseteq Workspaces
  BY TableTypes DEF OtherChange
<1>5. TypeOK'
  BY <1>1, <1>2, <1>3, <1>4 DEF TypeOK
<1>6. \A c \in changes' : c.at <= version'
  BY <1>1, <1>2, Fields, ChangeFields DEF VersionsAreReal
<1>7. QED
  BY <1>1, <1>2, <1>3, <1>5, <1>6, QuietStep

-----------------------------------------------------------------------------
(* Every step.                                                             *)

LEMMA InitHolds == Init => PageInv
<1> SUFFICES ASSUME Init PROVE PageInv
  OBVIOUS
<1>1. page \in Page /\ page.mounted = FALSE /\ page.own = 0
  BY DEF Init, Page
<1>2. count \in [mounts : Nat, fetches : Nat, changes : Nat, others : Nat]
  BY DEF Init
<1>3. TypeOK
  BY <1>1, <1>2 DEF Init, TypeOK
<1>4. FetchesAreApart /\ VersionsAreReal /\ NextListIsNewer
  BY <1>1 DEF Init, FetchesAreApart, VersionsAreReal, NextListIsNewer
<1>5. OwnChangesAreShown
  BY <1>1 DEF OwnChangesAreShown, AtRest
<1>6. LoadingIsFetching /\ FormIsLockedForOne
  BY <1>1 DEF Init, LoadingIsFetching, FormIsLockedForOne
<1>7. QED
  BY <1>3, <1>4, <1>5, <1>6 DEF PageInv

LEMMA StutterStep ==
  ASSUME PageInv, UNCHANGED vars
  PROVE  TypeOK' /\ Kept
<1> USE DEF PageInv
<1>1. page' = page /\ data' = data /\ fetches' = fetches /\ changes' = changes
      /\ count' = count /\ version' = version /\ exists' = exists /\ drawn' = drawn
  BY DEF vars, table
<1>2. TypeOK'
  BY <1>1 DEF TypeOK
<1>3. version' >= version /\ version' \in Nat
  BY <1>1, Fields
<1>4. \A c \in changes' : c.at <= version'
  BY <1>1 DEF VersionsAreReal
<1>5. QED
  BY <1>1, <1>2, <1>3, <1>4, QuietStep

LEMMA NextStep ==
  ASSUME PageInv, [Next]_vars
  PROVE  TypeOK' /\ Kept
<1>1. CASE User
  BY <1>1, UserStep
<1>2. CASE Effect
  BY <1>2, EffectStep
<1>3. CASE OtherChange
  BY <1>3, OtherChangeStep
<1>4. CASE \E c \in changes : Settle(c)
  <2>1. PICK c \in changes : Settle(c)
    BY <1>4
  <2>2. QED
    BY <2>1, NewVersionStep, ChangeFailsStep, AnsweredStep DEF Settle
<1>5. CASE \E f \in fetches : Serve(f)
  <2>1. PICK f \in fetches : Serve(f)
    BY <1>5
  <2>2. QED
    BY <2>1, ListWorkspacesStep, ListFailsStep, DeliverStep DEF Serve
<1>6. CASE UNCHANGED vars
  BY <1>6, StutterStep
<1>7. QED
  BY <1>1, <1>2, <1>3, <1>4, <1>5, <1>6 DEF Next

-----------------------------------------------------------------------------
(* What the page waits for.                                                *)

\* The fetches and what happens to them: the one that counts stays until its
\* answer ends the loading.
LEMMA ServeKeepsLoading ==
  ASSUME PageInv, NEW f \in fetches, Serve(f)
  PROVE  LoadingIsFetching'
<1>1. TypeOK /\ f \in Fetch /\ LoadingIsFetching
  BY FetchFields DEF PageInv
<1>2. ASSUME NEW g, g.id = f.id, page' = page, fetches' = (fetches \ {f}) \cup {g}
      PROVE  LoadingIsFetching'
  BY <1>1, <1>2 DEF LoadingIsFetching
<1>3. CASE ListWorkspaces(f)
  <2> DEFINE g == [f EXCEPT !.st = "answered", !.at = version, !.rows = exists]
  <2>1. g.id = f.id
    BY <1>1 DEF Fetch
  <2>2. page' = page /\ fetches' = (fetches \ {f}) \cup {g}
    BY <1>3 DEF ListWorkspaces
  <2> HIDE DEF g
  <2> QED BY <1>2, <2>1, <2>2
<1>4. CASE ListFails(f)
  <2> DEFINE g == [f EXCEPT !.st = "failed"]
  <2>1. g.id = f.id
    BY <1>1 DEF Fetch
  <2>2. page' = page /\ fetches' = (fetches \ {f}) \cup {g}
    BY <1>4 DEF ListFails
  <2> HIDE DEF g
  <2> QED BY <1>2, <2>1, <2>2
<1>5. CASE Deliver(f)
  <2>1. CASE f.id # page.current /\ page' = page
    BY <1>1, <1>5, <2>1 DEF Deliver, LoadingIsFetching
  <2>2. CASE \/ page' = [page EXCEPT !.error = FALSE, !.loading = FALSE]
             \/ page' = [page EXCEPT !.error = TRUE, !.loading = FALSE]
    <3>1. page'.loading = FALSE
      BY <1>1, <2>2 DEF TypeOK, Page
    <3> QED BY <3>1 DEF LoadingIsFetching
  <2> QED BY <1>5, <2>1, <2>2 DEF Deliver
<1> QED BY <1>3, <1>4, <1>5 DEF Serve

\* The answer of a change leaves the fetches alone, and may ask for another.
LEMMA AnsweredKeepsLoading ==
  ASSUME PageInv, NEW c \in changes, Answered(c)
  PROVE  LoadingIsFetching'
<1>1. TypeOK /\ LoadingIsFetching /\ fetches' = fetches
  BY DEF PageInv, Answered
<1>2. CASE page' = page
  BY <1>1, <1>2 DEF LoadingIsFetching
<1>3. CASE page' = [page EXCEPT !.creating = @ /\ c.kind # "create"]
  <2>1. /\ page'.mounted = page.mounted /\ page'.loading = page.loading
        /\ page'.current = page.current /\ page'.pending = page.pending
    BY <1>1, <1>3 DEF TypeOK, Page
  <2> QED BY <1>1, <2>1 DEF LoadingIsFetching
<1>4. CASE page'.pending = TRUE
  BY <1>4 DEF LoadingIsFetching
<1>5. \/ page' = page
      \/ page' = [page EXCEPT !.creating = @ /\ c.kind # "create"]
      \/ page'.pending = TRUE
  BY <1>1 DEF Answered, TypeOK, Page
<1> QED BY <1>2, <1>3, <1>4, <1>5

\* What the administrator does starts no loading without its effect.
LEMMA UserKeepsLoading ==
  ASSUME PageInv, User
  PROVE  LoadingIsFetching'
<1>1. TypeOK /\ LoadingIsFetching
  BY DEF PageInv
<1>2. CASE Mount
  <2>1. page'.pending = TRUE
    BY <1>2 DEF Mount
  <2> QED BY <2>1 DEF LoadingIsFetching
<1>3. CASE Unmount
  <2>1. page'.mounted = FALSE
    BY <1>1, <1>3 DEF Unmount, TypeOK, Page
  <2> QED BY <2>1 DEF LoadingIsFetching
<1>4. ASSUME fetches' = fetches,
             \/ page' = page
             \/ page' = [page EXCEPT !.creating = TRUE]
             \/ \E w \in Workspaces \cup {None} : page' = [page EXCEPT !.renaming = w]
      PROVE  LoadingIsFetching'
  <2>1. /\ page'.mounted = page.mounted /\ page'.loading = page.loading
        /\ page'.current = page.current /\ page'.pending = page.pending
    BY <1>1, <1>4 DEF TypeOK, Page
  <2> QED BY <1>1, <1>4, <2>1 DEF LoadingIsFetching
<1>5. CASE HandleCreate \/ CancelEdit
  BY <1>4, <1>5 DEF HandleCreate, CancelEdit
<1>6. CASE \E w \in Workspaces : HandleDelete(w) \/ EditName(w) \/ HandleRenameSubmit(w)
  BY <1>4, <1>6 DEF HandleDelete, EditName, HandleRenameSubmit
<1> QED BY <1>2, <1>3, <1>5, <1>6 DEF User

LEMMA LoadingStep ==
  ASSUME PageInv, [Next]_vars
  PROVE  LoadingIsFetching'
<1>1. TypeOK /\ LoadingIsFetching
  BY DEF PageInv
<1>2. CASE Effect
  <2> DEFINE n == count.fetches + 1
             f0 == [id |-> n, st |-> "sent", at |-> 0, rows |-> {}]
  <2>1. count'.fetches = n /\ n \in Nat
    BY <1>1, <1>2, Fields DEF Effect, TypeOK
  <2>2. f0 \in fetches' /\ f0.id = n
    BY <1>2, <2>1 DEF Effect
  <2>3. page' = [page EXCEPT !.pending = FALSE, !.loading = TRUE, !.current = n]
    BY <1>2, <2>1 DEF Effect
  <2>4. page'.current = n
    BY <1>1, <2>1, <2>3 DEF TypeOK, Page
  <2> QED BY <2>2, <2>4 DEF LoadingIsFetching
<1>3. CASE UNCHANGED <<page, fetches>>
  BY <1>1, <1>3 DEF LoadingIsFetching
<1>4. CASE OtherChange \/ UNCHANGED vars
  BY <1>3, <1>4 DEF OtherChange, vars
<1>5. CASE \E c \in changes : Settle(c)
  <2>1. PICK c \in changes : Settle(c)
    BY <1>5
  <2>2. CASE ApplyChange(c) \/ ChangeFails(c)
    BY <1>3, <2>2 DEF ApplyChange, ChangeFails
  <2> QED BY <2>1, <2>2, AnsweredKeepsLoading DEF Settle
<1> QED BY <1>2, <1>4, <1>5, UserKeepsLoading, ServeKeepsLoading DEF Next

\* A change goes on: it keeps its run and its kind.
LEMMA FormAwaitsOn ==
  ASSUME PageInv, UNCHANGED page, NEW c \in changes, NEW d, d.run = c.run, d.kind = c.kind,
         changes' = (changes \ {c}) \cup {d}
  PROVE  FormIsLockedForOne'
<1>1. FormIsLockedForOne
  BY DEF PageInv
<1>2. \A x \in changes' : x.run <= page.run
  BY <1>1 DEF FormIsLockedForOne
<1>3. Creations(page.run)' # {} <=> Creations(page.run) # {}
  <2>1. Creations(page.run)' = {x \in changes' : x.run = page.run /\ x.kind = "create"}
    BY DEF Creations
  <2>2. \A x \in changes : x # c => x \in changes'
    OBVIOUS
  <2>3. d \in changes' /\ \A x \in changes' : x = d \/ x \in changes
    OBVIOUS
  <2> QED BY <2>1, <2>2, <2>3 DEF Creations
<1>4. \A x, y \in changes' : x.run = y.run /\ x.kind = "create" /\ y.kind = "create" => x = y
  <2> SUFFICES ASSUME NEW x \in changes', NEW y \in changes', x.run = y.run,
                      x.kind = "create", y.kind = "create"
               PROVE  x = y
    OBVIOUS
  <2>1. CASE x = d \/ y = d
    BY <1>1, <2>1 DEF FormIsLockedForOne
  <2>2. CASE x # d /\ y # d
    BY <1>1, <2>2 DEF FormIsLockedForOne
  <2> QED BY <2>1, <2>2
<1> QED BY <1>1, <1>2, <1>3, <1>4 DEF FormIsLockedForOne

\* The page sends a change: one more creation only where there is none.
LEMMA SendKeepsForm ==
  ASSUME PageInv, NEW kind \in {"create", "rename", "delete"}, NEW w \in Workspaces \cup {None},
         Send(kind, w), page'.run = page.run, page'.mounted = page.mounted,
         kind = "create" => page.mounted /\ page.creating = FALSE /\ page'.creating = TRUE,
         kind # "create" => page'.creating = page.creating
  PROVE  FormIsLockedForOne'
<1> DEFINE n == count'.changes
           c0 == [id |-> n, run |-> page.run, kind |-> kind, w |-> w, st |-> "sent", at |-> 0]
<1>1. changes' = changes \cup {c0} /\ c0.run = page.run /\ c0.kind = kind
  BY DEF Send
<1> HIDE DEF c0, n
<1>2. FormIsLockedForOne /\ page.run \in Nat
  BY Fields DEF PageInv
<1>3. \A x \in changes' : x.run <= page.run
  BY <1>1, <1>2 DEF FormIsLockedForOne
<1>4. kind = "create" => Creations(page.run) = {}
  BY <1>2 DEF FormIsLockedForOne
<1>5. /\ kind = "create" => c0 \in Creations(page.run)'
      /\ kind # "create" => Creations(page.run)' = Creations(page.run)
  <2>1. Creations(page.run)' = {x \in changes' : x.run = page'.run /\ x.kind = "create"}
    BY DEF Creations
  <2> QED BY <1>1, <2>1 DEF Creations
<1>6. page'.mounted => (page'.creating <=> Creations(page.run)' # {})
  BY <1>2, <1>5 DEF FormIsLockedForOne
<1>7. \A x, y \in changes' : x.run = y.run /\ x.kind = "create" /\ y.kind = "create" => x = y
  <2> SUFFICES ASSUME NEW x \in changes', NEW y \in changes', x.run = y.run,
                      x.kind = "create", y.kind = "create"
               PROVE  x = y
    OBVIOUS
  <2>1. CASE x \in changes /\ y \in changes
    BY <1>2, <2>1 DEF FormIsLockedForOne
  <2>2. CASE x = c0 \/ y = c0
    <3>1. kind = "create" /\ x.run = page.run /\ y.run = page.run
      BY <1>1, <2>2
    <3>2. x \notin changes /\ y \notin changes
      BY <1>4, <3>1 DEF Creations
    <3> QED BY <1>1, <3>2
  <2> QED BY <1>1, <2>1, <2>2
<1> QED BY <1>3, <1>6, <1>7 DEF FormIsLockedForOne

\* The form is told: its one creation is over, and the form is free.
LEMMA AnsweredKeepsForm ==
  ASSUME PageInv, NEW c \in changes, Answered(c)
  PROVE  FormIsLockedForOne'
<1>1. TypeOK /\ FormIsLockedForOne /\ changes' = changes \ {c} /\ page.creating \in BOOLEAN
  BY Fields DEF PageInv, Answered
<1>2. \/ page' = page /\ (c.run # page.run \/ ~page.mounted)
      \/ /\ c.run = page.run /\ page'.run = page.run /\ page'.mounted = page.mounted
         /\ page'.creating = (page.creating /\ c.kind # "create")
  <2>1. CASE c.st = "done" /\ c.run = page.run /\ page.mounted
    BY <1>1, <2>1 DEF Answered, TypeOK, Page
  <2>2. CASE c.st = "failed" /\ c.run = page.run /\ page.mounted
    BY <1>1, <2>2 DEF Answered, TypeOK, Page
  <2> QED BY <2>1, <2>2 DEF Answered
<1>3. page'.run = page.run /\ page'.mounted = page.mounted
  BY <1>2
<1>4. Creations(page.run)' = {x \in changes \ {c} : x.run = page.run /\ x.kind = "create"}
  BY <1>1, <1>3 DEF Creations
<1>5. ASSUME page.mounted PROVE page'.creating <=> Creations(page.run)' # {}
  <2>1. page.creating <=> Creations(page.run) # {}
    BY <1>1, <1>5 DEF FormIsLockedForOne
  <2>2. CASE c.run = page.run /\ c.kind = "create"
    <3>1. Creations(page.run)' = {}
      BY <1>1, <1>4, <2>2 DEF FormIsLockedForOne
    <3>2. page'.creating = FALSE
      BY <1>2, <1>5, <2>2
    <3> QED BY <3>1, <3>2
  <2>3. CASE ~(c.run = page.run /\ c.kind = "create")
    <3>1. Creations(page.run)' = Creations(page.run)
      BY <1>4, <2>3 DEF Creations
    <3>2. page'.creating = page.creating
      BY <1>1, <1>2, <2>3
    <3> QED BY <2>1, <3>1, <3>2
  <2> QED BY <2>2, <2>3
<1>6. /\ \A x \in changes' : x.run <= page'.run
      /\ \A x, y \in changes' : x.run = y.run /\ x.kind = "create" /\ y.kind = "create" => x = y
  BY <1>1, <1>3 DEF FormIsLockedForOne
<1> QED BY <1>3, <1>5, <1>6 DEF FormIsLockedForOne

\* A page that is opened has sent nothing yet.
LEMMA MountKeepsForm ==
  ASSUME PageInv, Mount
  PROVE  FormIsLockedForOne'
<1>1. /\ FormIsLockedForOne /\ page.run \in Nat /\ \A c \in changes : c.run \in Nat
      /\ changes' = changes /\ page'.run = page.run + 1 /\ page'.creating = FALSE
  BY Fields, ChangeFields DEF PageInv, Mount
<1>2. \A c \in changes' : c.run <= page'.run /\ c.run # page'.run
  BY <1>1 DEF FormIsLockedForOne
<1>3. Creations(page.run)' = {}
  BY <1>2 DEF Creations
<1> QED BY <1>1, <1>2, <1>3 DEF FormIsLockedForOne

LEMMA FormStep ==
  ASSUME PageInv, [Next]_vars
  PROVE  FormIsLockedForOne'
<1>1. TypeOK /\ FormIsLockedForOne
  BY DEF PageInv
<1>2. ASSUME changes' = changes, page'.run = page.run, page'.creating = page.creating,
             page'.mounted => page.mounted
      PROVE  FormIsLockedForOne'
  BY <1>1, <1>2 DEF FormIsLockedForOne, Creations
<1>3. CASE Unmount
  <2>1. page'.mounted = FALSE /\ page'.run = page.run /\ page'.creating = page.creating
    BY <1>1, <1>3 DEF Unmount, TypeOK, Page
  <2> QED BY <1>2, <1>3, <2>1 DEF Unmount
<1>4. CASE HandleCreate
  <2>1. page'.run = page.run /\ page'.mounted = page.mounted /\ page'.creating = TRUE
    BY <1>1, <1>4 DEF HandleCreate, TypeOK, Page
  <2>2. page.mounted /\ page.creating = FALSE /\ Send("create", None)
    BY <1>4, <1>1, Fields DEF HandleCreate
  <2> QED BY <2>1, <2>2, SendKeepsForm
<1>5. CASE CancelEdit \/ \E w \in Workspaces : EditName(w)
  <2>1. page'.run = page.run /\ page'.mounted = page.mounted /\ page'.creating = page.creating
    BY <1>1, <1>5 DEF CancelEdit, EditName, TypeOK, Page
  <2> QED BY <1>2, <1>5, <2>1 DEF CancelEdit, EditName
<1>6. CASE \E w \in Workspaces : HandleDelete(w) \/ HandleRenameSubmit(w)
  <2>1. PICK w \in Workspaces : HandleDelete(w) \/ HandleRenameSubmit(w)
    BY <1>6
  <2>2. page' = page /\ (Send("delete", w) \/ Send("rename", w))
    BY <2>1 DEF HandleDelete, HandleRenameSubmit
  <2> QED BY <2>2, SendKeepsForm
<1>7. CASE Effect
  <2>1. page'.run = page.run /\ page'.mounted = page.mounted /\ page'.creating = page.creating
    BY <1>1, <1>7 DEF Effect, TypeOK, Page
  <2> QED BY <1>2, <1>7, <2>1 DEF Effect
<1>8. CASE OtherChange \/ UNCHANGED vars
  BY <1>2, <1>8 DEF OtherChange, vars
<1>9. CASE \E c \in changes : Settle(c)
  <2>1. PICK c \in changes : Settle(c)
    BY <1>9
  <2>2. ASSUME NEW st, NEW n, page' = page, Becomes(c, st, n)
        PROVE  FormIsLockedForOne'
    <3> DEFINE d == [c EXCEPT !.st = st, !.at = n]
    <3>1. d.run = c.run /\ d.kind = c.kind
      BY <1>1, ChangeFields DEF Change
    <3>2. changes' = (changes \ {c}) \cup {d}
      BY <2>2 DEF Becomes
    <3> HIDE DEF d
    <3> QED BY <2>2, <3>1, <3>2, FormAwaitsOn
  <2>3. CASE ApplyChange(c)
    <3>1. page' = page /\ Becomes(c, "done", version + 1)
      BY <2>3 DEF ApplyChange, Becomes
    <3> QED BY <2>2, <3>1
  <2>4. CASE ChangeFails(c)
    <3>1. page' = page /\ Becomes(c, "failed", c.at)
      BY <2>4 DEF ChangeFails
    <3> QED BY <2>2, <3>1
  <2> QED BY <2>1, <2>3, <2>4, AnsweredKeepsForm DEF Settle
<1>10. CASE \E f \in fetches : Serve(f)
  <2>1. PICK f \in fetches : Serve(f)
    BY <1>10
  <2>2. changes' = changes
    BY <2>1 DEF Serve, ListWorkspaces, ListFails, Deliver
  <2>3. \/ page' = page
        \/ page' = [page EXCEPT !.error = FALSE, !.loading = FALSE]
        \/ page' = [page EXCEPT !.error = TRUE, !.loading = FALSE]
    BY <2>1 DEF Serve, ListWorkspaces, ListFails, Deliver
  <2>4. page'.run = page.run /\ page'.mounted = page.mounted /\ page'.creating = page.creating
    BY <1>1, <2>3 DEF TypeOK, Page
  <2> QED BY <1>2, <2>2, <2>4
<1> QED BY <1>3, <1>4, <1>5, <1>6, <1>7, <1>8, <1>9, <1>10, MountKeepsForm DEF Next, User

-----------------------------------------------------------------------------
(* The theorems.                                                           *)

\* The answer that will be taken is newer than the list shown, and the list
\* of a page at rest is newer than its own changes (hooks.ts:11-31).
THEOREM PageInvariant == Spec => []PageInv
<1>1. PageInv /\ [Next]_vars => PageInv'
  BY NextStep, LoadingStep, FormStep DEF Kept, PageInv
<1>2. QED
  BY InitHolds, <1>1, PTL DEF Spec

\* Every variable of the page keeps its type.
THEOREM PageTypes == Spec => []TypeOK
<1>1. PageInv => TypeOK
  BY DEF PageInv
<1>2. QED
  BY PageInvariant, <1>1, PTL

\* What the administrator did is in the list of a page at rest, whatever
\* answers are under way (Workspaces.tsx:22-43, hooks.ts:11-31).
THEOREM OwnChangesStayShown == Spec => []OwnChangesAreShown
<1>1. PageInv => OwnChangesAreShown
  BY DEF PageInv
<1>2. QED
  BY PageInvariant, <1>1, PTL

\* A page that is loading always awaits an effect or a fetch that is under way
\* (hooks.ts:11-31): no order of refetches, answers and visits leaves it loading
\* with nothing to come.
THEOREM LoadingAwaitsAFetch == Spec => []LoadingIsFetching
<1>1. PageInv => LoadingIsFetching
  BY DEF PageInv
<1>2. QED
  BY PageInvariant, <1>1, PTL

\* The form of a page that is shown is locked exactly while its creation is under
\* way, and no page has two (Workspaces.tsx:14-28): nothing leaves it locked, and
\* no answer of an earlier visit unlocks it.
THEOREM FormAwaitsItsCreation == Spec => []FormIsLockedForOne
<1>1. PageInv => FormIsLockedForOne
  BY DEF PageInv
<1>2. QED
  BY PageInvariant, <1>1, PTL

\* No answer, in whichever order the answers come, takes the list back to an
\* older state of the table (hooks.ts:17-30).
THEOREM ListStaysMonotone == Spec => ListNeverGoesBack
<1>1. PageInv /\ [Next]_vars =>
        [page'.run = page.run /\ data # None => data' # None /\ data'.at >= data.at]_vars
  BY NextStep DEF Kept
<1>2. QED
  BY PageInvariant, <1>1, PTL DEF Spec, ListNeverGoesBack
=============================================================================
