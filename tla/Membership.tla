----------------------------- MODULE Membership -----------------------------
(***************************************************************************)
(* What the server promises about membership, without handlers, sessions,  *)
(* crashes or files.  A workspace is created once, may be renamed and is   *)
(* deleted once; a device is a member of at most one workspace, joins only *)
(* one that exists, and is heard only while it is a member.  Deleting a    *)
(* workspace ends the membership of all its devices in the same instant.   *)
(***************************************************************************)
CONSTANTS Workspaces, Names, Keys, None

VARIABLES
  name,      \* the name of each existing workspace
  born,      \* the workspaces that were ever created
  member,    \* the workspace each device belongs to
  heard      \* the devices whose check-in the server has recorded

vars == <<name, born, member, heard>>

Init ==
  /\ name = [w \in Workspaces |-> None]
  /\ born = {}
  /\ member = [k \in Keys |-> None]
  /\ heard = {}

Create(w, n) ==
  /\ w \notin born
  /\ born' = born \cup {w}
  /\ name' = [name EXCEPT ![w] = n]
  /\ UNCHANGED <<member, heard>>

Rename(w, n) ==
  /\ name[w] # None
  /\ name' = [name EXCEPT ![w] = n]
  /\ UNCHANGED <<born, member, heard>>

Delete(w) ==
  LET gone == {k \in Keys : member[k] = w} IN
  /\ name[w] # None
  /\ name' = [name EXCEPT ![w] = None]
  /\ member' = [k \in Keys |-> IF k \in gone THEN None ELSE member[k]]
  /\ heard' = heard \ gone
  /\ UNCHANGED born

Join(k, w) ==
  /\ name[w] # None
  /\ member' = [member EXCEPT ![k] = w]
  /\ UNCHANGED <<name, born, heard>>

Hear(k) ==
  /\ member[k] # None
  /\ heard' = heard \cup {k}
  /\ UNCHANGED <<name, born, member>>

Next ==
  \/ \E w \in Workspaces : \/ Delete(w)
                           \/ \E n \in Names : Create(w, n) \/ Rename(w, n)
  \/ \E k \in Keys : \/ Hear(k)
                     \/ \E w \in Workspaces : Join(k, w)

Spec == Init /\ [][Next]_vars
=============================================================================
