---------------------------- MODULE FleetProofs ----------------------------
(***************************************************************************)
(* Theorems about Fleet for every set of workspaces, clients, keys and     *)
(* connections and every bound: the safety invariants, from the inductive  *)
(* invariant IInv of module Fleet, and the refinement of Membership.       *)
(*                                                                         *)
(* A step changes one task, one agent, the server process or the           *)
(* workspaces table.  The frame lemmas say what the invariant of the parts *)
(* it does not change needs; the step lemmas, one per action, show the     *)
(* part it does change.                                                    *)
(***************************************************************************)
EXTENDS Fleet, TLAPS

-----------------------------------------------------------------------------
(* Types.                                                                  *)

\* An absent row, file or value is no certificate, key, name or row.
LEMMA AbsentIsNoValue ==
  /\ None # Torn
  /\ None \notin Keys /\ None \notin ServerKeys /\ None \notin Workspaces
  /\ None \notin Names /\ None \notin Clients
  /\ Torn \notin Keys /\ Torn \notin ServerKeys
  /\ None \notin Cert /\ Torn \notin Cert /\ None \notin Row
  BY ConstantsDistinct, AbsentIsNoRecord

\* The record of a free connection has the type of a task.
LEMMA FreeIsTask == Free \in Task
  BY DEF Free, Task, Stage

\* The memory of an agent that is not running has the type of a memory.
LEMMA NoMemIsMemory == NoMem \in Memory
  BY DEF NoMem, Memory

\* The fields of a task have the types its record type gives them.
LEMMA TaskTypes ==
  ASSUME TypeOK, NEW s \in Sessions
  PROVE  /\ sess[s] \in Task
         /\ sess[s].st \in Stage
         /\ sess[s].owner \in Clients \cup {None}
         /\ sess[s].key \in Keys \cup {None}
         /\ sess[s].ws \in Workspaces \cup {None}
         /\ sess[s].cert \in Cert \cup {None}
         /\ sess[s].name \in Names \cup {"", None}
<1>1. sess[s] \in Task
  BY DEF TypeOK
<1> QED BY <1>1 DEF Task

\* The fields of an agent's files and memory have their types.
LEMMA AgentTypes ==
  ASSUME TypeOK, NEW c \in Clients
  PROVE  /\ disk[c] \in Files /\ mem[c] \in Memory /\ pc[c] \in Location
         /\ disk[c].key \in Keys \cup {None, Torn}
         /\ disk[c].cert \in Cert \cup {None, Torn}
         /\ disk[c].pin \in ServerKeys \cup {None, Torn}
         /\ mem[c].key \in Keys \cup {None}
         /\ mem[c].pin \in ServerKeys \cup {None, Torn}
         /\ mem[c].cert \in Cert \cup {None}
         /\ mem[c].name \in Names \cup {"", None}
<1>1. disk[c] \in Files /\ mem[c] \in Memory /\ pc[c] \in Location
  BY DEF TypeOK
<1> QED BY <1>1 DEF Files, Memory

\* The types of the tables, taken apart for the leaves below.
LEMMA TableTypes ==
  ASSUME TypeOK
  PROVE  /\ identity \in ServerKeys \cup {None} /\ issued \in Nat /\ upsets \in Nat
         /\ created \subseteq Workspaces /\ usedKeys \subseteq Keys
         /\ srv \in Process
         /\ srv.pc \in {"down", "load", "store", "up"} /\ srv.key \in ServerKeys \cup {None}
         /\ \A k \in Keys : devices[k] \in Row \cup {None}
         /\ \A w \in Workspaces : workspaces[w] \in Names \cup {None}
<1>1. srv \in Process
  BY DEF TypeOK
<1>2. srv.pc \in {"down", "load", "store", "up"} /\ srv.key \in ServerKeys \cup {None}
  BY <1>1 DEF Process
<1> QED BY <1>1, <1>2 DEF TypeOK

\* The initial state is well typed.
LEMMA TypeInit == Init => TypeOK
<1> SUFFICES ASSUME Init PROVE TypeOK
  OBVIOUS
<1>1. sess \in [Sessions -> Task]
  BY FreeIsTask DEF Init
<1>2. mem \in [Clients -> Memory]
  BY NoMemIsMemory DEF Init
<1>3. disk \in [Clients -> Files]
  BY DEF Files, Init
<1>4. srv \in Process
  BY DEF Process, Init
<1>5. pc \in [Clients -> Location]
  BY DEF Location, Init
<1> QED BY <1>1, <1>2, <1>3, <1>4, <1>5 DEF TypeOK, Init

\* The invariant holds when nothing has run yet.
LEMMA InitIInv == Init => IInv
<1> SUFFICES ASSUME Init PROVE IInv
  OBVIOUS
<1>1. TypeOK
  BY TypeInit
<1>2. RowsAreBorn /\ DevicesHaveWorkspace /\ RegistryVerifies
  BY DEF Init, RowsAreBorn, DevicesHaveWorkspace, RegistryVerifies, Live
<1>3. ServerServesIdentity
  BY DEF Init, ServerServesIdentity
<1>4. \A s \in Sessions : TaskSound(s) /\ OwnerWaits(s)
  BY DEF Init, Free, TaskSound, OwnerWaits, Working, Issued, Looked
<1>5. \A c \in Clients : DiskSound(c) /\ AgentSound(c)
  BY DEF Init, DiskSound, AgentSound, HoldsKey, Saving
<1> QED BY <1>1, <1>2, <1>3, <1>4, <1>5 DEF IInv

-----------------------------------------------------------------------------
(* Frames.                                                                 *)

\* What a step may do to the tables so that what others know stays true: the
\* identity, once stored, stays; a row goes only with a workspace.
KeepsIdentity == identity # None => identity' = identity
KeepsKnown ==
  NothingDeleted' =>
    NothingDeleted /\ \A k \in Keys : devices[k] # None => devices'[k] # None

\* A step that leaves the database alone forgets no identity and no device.
LEMMA SameTablesKeep ==
  ASSUME UNCHANGED db
  PROVE  KeepsIdentity /\ KeepsKnown /\ UNCHANGED <<workspaces, created, devices, identity>>
  BY DEF db, KeepsIdentity, KeepsKnown, NothingDeleted, Live

\* A step that leaves the database alone keeps what is said of its tables.
LEMMA SameTablesSound ==
  ASSUME RowsAreBorn, DevicesHaveWorkspace, RegistryVerifies, UNCHANGED db
  PROVE  RowsAreBorn' /\ DevicesHaveWorkspace' /\ RegistryVerifies'
  BY DEF db, RowsAreBorn, DevicesHaveWorkspace, RegistryVerifies, Live

\* A device that is known stays known while rows are only added.
LEMMA KnownStays ==
  ASSUME NEW cert \in Cert, Known(cert), KeepsKnown
  PROVE  NothingDeleted' => devices'[cert.key] # None
<1>1. cert.key \in Keys
  BY DEF Cert
<1> QED BY <1>1 DEF Known, KeepsKnown

\* A task no step touches stays sound while the server it runs in is up.
LEMMA TaskStays ==
  ASSUME TypeOK, NEW s \in Sessions, TaskSound(s), sess'[s] = sess[s],
         sess[s].st \in Working => srv'.pc = "up", KeepsIdentity, KeepsKnown
  PROVE  TaskSound(s)'
<1>1. sess[s].st \in Issued => identity # None /\ identity' = identity
  <2> SUFFICES ASSUME sess[s].st \in Issued PROVE identity # None
    BY DEF KeepsIdentity
  <2>1. sess[s].cert \in Cert /\ sess[s].cert.by = identity
    BY TaskTypes DEF TaskSound
  <2>2. sess[s].cert.by \in ServerKeys
    BY <2>1 DEF Cert
  <2> QED BY <2>1, <2>2, AbsentIsNoValue
<1>2. sess[s].st \in {"enroll_inserted", "enroll_answered"} => Known(sess[s].cert)'
  <2> SUFFICES ASSUME sess[s].st \in {"enroll_inserted", "enroll_answered"}
               PROVE  Known(sess[s].cert)'
    OBVIOUS
  <2>1. sess[s].cert \in Cert /\ Known(sess[s].cert)
    BY TaskTypes DEF TaskSound, Issued
  <2> QED BY <2>1, KnownStays DEF Known
<1> QED BY <1>1, <1>2 DEF TaskSound

\* An agent no step touches stays sound.
LEMMA AgentStays ==
  ASSUME TypeOK, NEW c \in Clients, DiskSound(c), AgentSound(c), disk'[c] = disk[c],
         mem'[c] = mem[c], pc'[c] = pc[c], config'[c] = config[c], KeepsIdentity, KeepsKnown
  PROVE  DiskSound(c)' /\ AgentSound(c)'
<1>1. DiskSound(c)'
  <2>1. disk[c].pin \notin {None, Torn} => disk[c].pin = identity'
    BY AgentTypes, AbsentIsNoValue DEF DiskSound, KeepsIdentity
  <2>2. disk[c].cert \notin {None, Torn} => Known(disk[c].cert)'
    <3> SUFFICES ASSUME disk[c].cert \notin {None, Torn} PROVE Known(disk[c].cert)'
      OBVIOUS
    <3>1. disk[c].cert \in Cert /\ Known(disk[c].cert)
      BY AgentTypes DEF DiskSound
    <3> QED BY <3>1, KnownStays DEF Known
  <2> QED BY <2>1, <2>2 DEF DiskSound
<1>2. AgentSound(c)'
  <2>1. pc[c] \in Saving => Known(mem[c].cert)'
    <3> SUFFICES ASSUME pc[c] \in Saving PROVE Known(mem[c].cert)'
      OBVIOUS
    <3>1. mem[c].cert \in Cert /\ Known(mem[c].cert)
      BY AgentTypes DEF AgentSound
    <3> QED BY <3>1, KnownStays DEF Known
  <2> QED BY <2>1 DEF AgentSound, KeepsIdentity
<1> QED BY <1>1, <1>2

\* A client's task whose record and whose client do not change.
LEMMA OwnerStays ==
  ASSUME NEW s \in Sessions, OwnerWaits(s), sess'[s] = sess[s],
         LET c == sess[s].owner IN
           c # None => /\ pc'[c] = pc[c] /\ mem'[c].key = mem[c].key
                       /\ \A t \in Sessions : sess'[t].owner = c => sess[t].owner = c
  PROVE  OwnerWaits(s)'
  BY DEF OwnerWaits

\* The agents, when none of them takes part in a step.
LEMMA AgentsStay ==
  ASSUME IInv, UNCHANGED <<disk, mem, pc, config>>, KeepsIdentity, KeepsKnown
  PROVE  \A c \in Clients : DiskSound(c)' /\ AgentSound(c)'
  BY AgentStays DEF IInv

\* The tasks and their clients, when only tables or the server process change.
LEMMA TasksStay ==
  ASSUME IInv, UNCHANGED <<sess, mem, pc>>, KeepsIdentity, KeepsKnown,
         (\E s \in Sessions : sess[s].st \in Working) => srv'.pc = "up"
  PROVE  \A s \in Sessions : TaskSound(s)' /\ OwnerWaits(s)'
<1> SUFFICES ASSUME NEW s \in Sessions PROVE TaskSound(s)' /\ OwnerWaits(s)'
  OBVIOUS
<1>1. TaskSound(s)'
  BY TaskStays DEF IInv
<1>2. OwnerWaits(s)'
  BY OwnerStays DEF IInv
<1> QED BY <1>1, <1>2

-----------------------------------------------------------------------------
(* The server process.                                                     *)

\* Starting the server process keeps the invariant.
LEMMA StepServerStart ==
  ASSUME IInv, ServerStart
  PROVE  IInv'
<1>1. UNCHANGED <<db, sess, issued, settings, disk, mem, pc, usedKeys, upsets>>
  BY DEF ServerStart, agent
<1>2. KeepsIdentity /\ KeepsKnown /\ UNCHANGED <<workspaces, created, devices, identity>>
  BY <1>1, SameTablesKeep
<1>3. RowsAreBorn' /\ DevicesHaveWorkspace' /\ RegistryVerifies'
  BY <1>1, SameTablesSound DEF IInv
<1>4. srv' \in Process
  BY DEF ServerStart, Process
<1>5. TypeOK'
  BY <1>1, <1>2, <1>4 DEF IInv, TypeOK, settings
<1>6. ServerServesIdentity'
  BY DEF ServerStart, ServerServesIdentity
<1>7. \A s \in Sessions : TaskSound(s)' /\ OwnerWaits(s)'
  BY <1>1, <1>2, TasksStay DEF IInv, ServerStart, TaskSound
<1>8. \A c \in Clients : DiskSound(c)' /\ AgentSound(c)'
  BY <1>1, <1>2, AgentsStay DEF settings
<1> QED BY <1>3, <1>5, <1>6, <1>7, <1>8 DEF IInv

\* Loading the identity, or drawing a key when none is stored, keeps the
\* invariant.
LEMMA StepLoadIdentity ==
  ASSUME IInv, LoadIdentity
  PROVE  IInv'
<1>1. UNCHANGED <<db, sess, issued, settings, disk, mem, pc, usedKeys, upsets>>
  BY DEF LoadIdentity, agent
<1>2. KeepsIdentity /\ KeepsKnown /\ UNCHANGED <<workspaces, created, devices, identity>>
  BY <1>1, SameTablesKeep
<1>3. RowsAreBorn' /\ DevicesHaveWorkspace' /\ RegistryVerifies'
  BY <1>1, SameTablesSound DEF IInv
<1>4. srv' \in Process
  BY TableTypes DEF LoadIdentity, Process, IInv
<1>5. TypeOK'
  BY <1>1, <1>2, <1>4 DEF IInv, TypeOK, settings
<1>6. ServerServesIdentity'
  BY <1>2, AbsentIsNoValue DEF LoadIdentity, ServerServesIdentity
<1>7. \A s \in Sessions : TaskSound(s)' /\ OwnerWaits(s)'
  BY <1>1, <1>2, TasksStay DEF IInv, LoadIdentity, TaskSound
<1>8. \A c \in Clients : DiskSound(c)' /\ AgentSound(c)'
  BY <1>1, <1>2, AgentsStay DEF settings
<1> QED BY <1>3, <1>5, <1>6, <1>7, <1>8 DEF IInv

\* Storing the drawn key keeps the invariant: no identity was stored before.
LEMMA StepStoreIdentity ==
  ASSUME IInv, StoreIdentity
  PROVE  IInv'
<1>1. UNCHANGED <<workspaces, created, devices, sess, issued, settings, disk, mem, pc,
                  usedKeys, upsets>>
  BY DEF StoreIdentity, agent
<1>2. srv.pc = "store" /\ srv.key # None /\ identity = None /\ identity' = srv.key
  BY DEF IInv, ServerServesIdentity, StoreIdentity
<1>3. KeepsIdentity /\ KeepsKnown
  BY <1>1, <1>2 DEF KeepsIdentity, KeepsKnown, NothingDeleted, Live
<1>4. \A k \in Keys : devices[k] = None
  <2> SUFFICES ASSUME NEW k \in Keys, devices[k] # None PROVE FALSE
    OBVIOUS
  <2>1. devices[k] \in Row /\ devices[k].cert.by = None
    BY <1>2, TableTypes DEF IInv, RegistryVerifies
  <2> QED BY <2>1, AbsentIsNoValue DEF Row, Cert
<1>5. RowsAreBorn' /\ DevicesHaveWorkspace' /\ RegistryVerifies'
  BY <1>1, <1>4 DEF IInv, RowsAreBorn, DevicesHaveWorkspace, RegistryVerifies, Live
<1>6. srv' \in Process /\ srv'.pc = "up" /\ srv'.key = srv.key
  BY TableTypes DEF StoreIdentity, Process, IInv
<1>7. TypeOK'
  BY <1>1, <1>2, <1>6, TableTypes DEF IInv, TypeOK, settings
<1>8. ServerServesIdentity'
  BY <1>2, <1>6 DEF ServerServesIdentity
<1>9. \A s \in Sessions : TaskSound(s)' /\ OwnerWaits(s)'
  BY <1>1, <1>3, <1>6, TasksStay
<1>10. \A c \in Clients : DiskSound(c)' /\ AgentSound(c)'
  BY <1>1, <1>3, AgentsStay DEF settings
<1> QED BY <1>5, <1>7, <1>8, <1>9, <1>10 DEF IInv

\* The record of a task that ends: it keeps its owner, or has none and is free.
LEMMA FailedTask ==
  ASSUME TypeOK, NEW s \in Sessions
  PROVE  /\ Failed(s) \in Task
         /\ Failed(s).owner = sess[s].owner
         /\ Failed(s).st = IF sess[s].owner = None THEN "free" ELSE "failed"
<1>1. sess[s] \in Task
  BY TaskTypes
<1>2. CASE sess[s].owner = None
  BY <1>2, FreeIsTask DEF Failed, Free
<1>3. CASE sess[s].owner # None
  BY <1>1, <1>3 DEF Failed, Task, Stage
<1> QED BY <1>2, <1>3

\* A crash of the server ends its tasks and keeps the invariant.
LEMMA StepServerCrash ==
  ASSUME IInv, ServerCrash
  PROVE  IInv'
<1>1. UNCHANGED <<db, issued, settings, disk, mem, pc, usedKeys>> /\ upsets' = upsets + 1
  BY DEF ServerCrash, agent, Upset
<1>2. KeepsIdentity /\ KeepsKnown /\ UNCHANGED <<workspaces, created, devices, identity>>
  BY <1>1, SameTablesKeep
<1>3. RowsAreBorn' /\ DevicesHaveWorkspace' /\ RegistryVerifies'
  BY <1>1, SameTablesSound DEF IInv
<1>4. srv' \in Process /\ srv'.pc = "down"
  BY DEF ServerCrash, Process
<1>5. ASSUME NEW s \in Sessions
      PROVE  /\ sess'[s] \in Task
             /\ sess'[s].owner = sess[s].owner
             /\ \/ sess'[s] = sess[s] /\ sess[s].st \notin Working
                \/ sess'[s].st = "free" /\ sess[s].owner = None
                \/ sess'[s].st = "failed"
  BY FailedTask, TaskTypes DEF IInv, ServerCrash, Answered, Working
<1>6. TypeOK'
  <2>1. sess' \in [Sessions -> Task]
    BY <1>5 DEF ServerCrash
  <2>2. upsets' \in Nat
    BY <1>1, TableTypes DEF IInv
  <2> QED BY <1>1, <1>2, <1>4, <2>1, <2>2 DEF IInv, TypeOK, settings
<1>7. ServerServesIdentity'
  BY <1>4 DEF ServerServesIdentity
<1>8. ASSUME NEW s \in Sessions PROVE TaskSound(s)'
  <2>1. CASE sess'[s] = sess[s] /\ sess[s].st \notin Working
    BY <1>2, <2>1, TaskStays DEF IInv
  <2>2. CASE sess'[s].st \in {"free", "failed"}
    BY <2>2 DEF TaskSound, Working, Issued, Looked
  <2> QED BY <1>5, <2>1, <2>2
<1>9. ASSUME NEW s \in Sessions PROVE OwnerWaits(s)'
  <2>1. OwnerWaits(s)
    BY DEF IInv
  <2> QED BY <1>1, <1>5, <2>1 DEF OwnerWaits, Issued, Looked
<1>10. \A c \in Clients : DiskSound(c)' /\ AgentSound(c)'
  BY <1>1, <1>2, AgentsStay DEF settings
<1> QED BY <1>3, <1>6, <1>7, <1>8, <1>9, <1>10 DEF IInv

-----------------------------------------------------------------------------
(* The administrator.                                                      *)

\* Creating a workspace keeps the invariant.
LEMMA StepCreateWorkspace ==
  ASSUME IInv, NEW w \in Workspaces, NEW n \in Names, CreateWorkspace(w, n)
  PROVE  IInv'
<1>1. UNCHANGED <<devices, identity, srv, sess, issued, settings, disk, mem, pc, usedKeys, upsets>>
  BY DEF CreateWorkspace, server, agent
<1>2. /\ created' = created \cup {w} /\ w \notin created
      /\ workspaces' = [workspaces EXCEPT ![w] = n]
      /\ workspaces \in [Workspaces -> Names \cup {None}]
      /\ n # None
  BY AbsentIsNoValue DEF CreateWorkspace, IInv, TypeOK
<1>3. \A v \in Workspaces : Live(v)' <=> Live(v) \/ v = w
  BY <1>2 DEF Live
<1>4. KeepsIdentity /\ KeepsKnown
  BY <1>1, <1>2, <1>3, TableTypes DEF KeepsIdentity, KeepsKnown, NothingDeleted, IInv
<1>5. RowsAreBorn'
  BY <1>2, <1>3 DEF IInv, RowsAreBorn
<1>6. DevicesHaveWorkspace'
  <2> SUFFICES ASSUME NEW k \in Keys, devices[k] # None PROVE Live(devices[k].cert.ws)'
    BY <1>1 DEF DevicesHaveWorkspace
  <2>1. devices[k].cert.ws \in Workspaces
    BY TableTypes DEF IInv, Row, Cert
  <2> QED BY <1>1, <1>3, <2>1 DEF IInv, DevicesHaveWorkspace, Live
<1>7. RegistryVerifies' /\ ServerServesIdentity'
  BY <1>1 DEF IInv, RegistryVerifies, ServerServesIdentity
<1>8. TypeOK'
  BY <1>1, <1>2 DEF IInv, TypeOK, settings
<1>9. \A s \in Sessions : TaskSound(s)' /\ OwnerWaits(s)'
  BY <1>1, <1>4, TasksStay DEF IInv, TaskSound
<1>10. \A c \in Clients : DiskSound(c)' /\ AgentSound(c)'
  BY <1>1, <1>4, AgentsStay DEF settings
<1> QED BY <1>5, <1>6, <1>7, <1>8, <1>9, <1>10 DEF IInv

\* Renaming a workspace keeps the invariant.
LEMMA StepRenameWorkspace ==
  ASSUME IInv, NEW w \in Workspaces, NEW n \in Names, RenameWorkspace(w, n)
  PROVE  IInv'
<1>1. UNCHANGED <<created, devices, identity, srv, sess, issued, settings, disk, mem, pc,
                  usedKeys, upsets>>
  BY DEF RenameWorkspace, server, agent
<1>2. /\ workspaces' = [workspaces EXCEPT ![w] = n] /\ Live(w)
      /\ workspaces \in [Workspaces -> Names \cup {None}]
      /\ n # None
  BY AbsentIsNoValue DEF RenameWorkspace, IInv, TypeOK
<1>3. \A v \in Workspaces : Live(v)' <=> Live(v)
  BY <1>2 DEF Live
<1>4. KeepsIdentity /\ KeepsKnown
  BY <1>1, <1>3, TableTypes DEF KeepsIdentity, KeepsKnown, NothingDeleted, IInv
<1>5. RowsAreBorn'
  BY <1>1, <1>3 DEF IInv, RowsAreBorn
<1>6. DevicesHaveWorkspace'
  <2> SUFFICES ASSUME NEW k \in Keys, devices[k] # None PROVE Live(devices[k].cert.ws)'
    BY <1>1 DEF DevicesHaveWorkspace
  <2>1. devices[k].cert.ws \in Workspaces
    BY TableTypes DEF IInv, Row, Cert
  <2> QED BY <1>1, <1>3, <2>1 DEF IInv, DevicesHaveWorkspace, Live
<1>7. RegistryVerifies' /\ ServerServesIdentity'
  BY <1>1 DEF IInv, RegistryVerifies, ServerServesIdentity
<1>8. TypeOK'
  BY <1>1, <1>2 DEF IInv, TypeOK, settings
<1>9. \A s \in Sessions : TaskSound(s)' /\ OwnerWaits(s)'
  BY <1>1, <1>4, TasksStay DEF IInv, TaskSound
<1>10. \A c \in Clients : DiskSound(c)' /\ AgentSound(c)'
  BY <1>1, <1>4, AgentsStay DEF settings
<1> QED BY <1>5, <1>6, <1>7, <1>8, <1>9, <1>10 DEF IInv

\* The cascade takes the rows of the deleted workspace in the same statement.
LEMMA StepDeleteWorkspace ==
  ASSUME IInv, NEW w \in Workspaces, DeleteWorkspace(w)
  PROVE  IInv'
<1>1. UNCHANGED <<created, identity, srv, sess, issued, settings, disk, mem, pc, usedKeys, upsets>>
  BY DEF DeleteWorkspace, server, agent
<1>2. /\ workspaces' = [workspaces EXCEPT ![w] = None] /\ Live(w)
      /\ workspaces \in [Workspaces -> Names \cup {None}]
  BY DEF DeleteWorkspace, IInv, TypeOK
<1>3. \A v \in Workspaces : Live(v)' <=> Live(v) /\ v # w
  BY <1>2 DEF Live
<1>4. \A k \in Keys : \/ devices'[k] = None
                      \/ devices'[k] = devices[k] /\ devices[k].cert.ws # w
  BY DEF DeleteWorkspace
<1>5. w \in created
  BY <1>2 DEF IInv, RowsAreBorn
<1>6. KeepsIdentity /\ KeepsKnown
  BY <1>1, <1>3, <1>5 DEF KeepsIdentity, KeepsKnown, NothingDeleted
<1>7. RowsAreBorn'
  BY <1>1, <1>3 DEF IInv, RowsAreBorn
<1>8. DevicesHaveWorkspace'
  <2> SUFFICES ASSUME NEW k \in Keys, devices'[k] # None
               PROVE  workspaces'[devices'[k].cert.ws] # None
    BY DEF DevicesHaveWorkspace, Live
  <2>1. devices'[k] = devices[k] /\ devices[k].cert.ws # w /\ devices[k] # None
    BY <1>4
  <2>2. devices[k].cert.ws \in Workspaces
    BY <2>1, TableTypes DEF IInv, Row, Cert
  <2> QED BY <1>3, <2>1, <2>2 DEF IInv, DevicesHaveWorkspace, Live
<1>9. RegistryVerifies' /\ ServerServesIdentity'
  BY <1>1, <1>4 DEF IInv, RegistryVerifies, ServerServesIdentity
<1>10. TypeOK'
  <2>1. devices' \in [Keys -> Row \cup {None}]
    BY <1>4, TableTypes DEF DeleteWorkspace, IInv
  <2> QED BY <1>1, <1>2, <2>1 DEF IInv, TypeOK, settings
<1>11. \A s \in Sessions : TaskSound(s)' /\ OwnerWaits(s)'
  BY <1>1, <1>6, TasksStay DEF IInv, TaskSound
<1>12. \A c \in Clients : DiskSound(c)' /\ AgentSound(c)'
  BY <1>1, <1>6, AgentsStay DEF settings
<1> QED BY <1>7, <1>8, <1>9, <1>10, <1>11, <1>12 DEF IInv

-----------------------------------------------------------------------------
(* The connection tasks.                                                   *)

\* One task moves on for the same client: within its kind, or to its end.
SameTask(s) ==
  /\ \A t \in Sessions : t # s => sess'[t] = sess[t]
  /\ sess'[s] \in Task
  /\ sess'[s].owner = sess[s].owner
  /\ \/ /\ sess'[s].key = sess[s].key
        /\ sess[s].st \in Issued \cup {"enroll_req"} /\ sess'[s].st \in Issued
     \/ /\ sess'[s].key = sess[s].key
        /\ sess[s].st \in Looked \cup {"checkin_req"} /\ sess'[s].st \in Looked
     \/ sess'[s].st = "failed" /\ sess[s].st # "free"
     \/ sess'[s].st = "free" /\ sess[s].owner = None

\* Clients go on waiting for the right answer when one task takes a step.
LEMMA OwnersWaitAfterTask ==
  ASSUME IInv, NEW s \in Sessions, SameTask(s), UNCHANGED <<pc, mem>>
  PROVE  \A t \in Sessions : OwnerWaits(t)'
<1> SUFFICES ASSUME NEW t \in Sessions PROVE OwnerWaits(t)'
  OBVIOUS
<1>1. \A u \in Sessions : sess'[u].owner = sess[u].owner
  BY DEF SameTask
<1>2. CASE t # s
  BY <1>1, <1>2, OwnerStays DEF SameTask, IInv
<1>3. CASE t = s
  <2>1. OwnerWaits(s)
    BY DEF IInv
  <2>2. CASE sess'[s].st \in Issued
    BY <1>1, <1>3, <2>1, <2>2 DEF SameTask, OwnerWaits, Issued, Looked
  <2>3. CASE sess'[s].st \in Looked
    BY <1>1, <1>3, <2>1, <2>3 DEF SameTask, OwnerWaits, Issued, Looked
  <2>4. CASE sess'[s].st = "failed"
    BY <1>1, <1>3, <2>1, <2>4 DEF SameTask, OwnerWaits, Issued, Looked
  <2>5. CASE sess'[s].st = "free" /\ sess[s].owner = None
    BY <1>1, <1>3, <2>1, <2>5 DEF SameTask, OwnerWaits, Issued, Looked
  <2> QED BY <2>2, <2>3, <2>4, <2>5 DEF SameTask
<1> QED BY <1>2, <1>3

\* The tasks that take no step stay sound when one does.
LEMMA OtherTasksStay ==
  ASSUME IInv, NEW s \in Sessions, \A t \in Sessions : t # s => sess'[t] = sess[t],
         UNCHANGED srv, KeepsIdentity, KeepsKnown
  PROVE  \A t \in Sessions : t # s => TaskSound(t)'
<1> SUFFICES ASSUME NEW t \in Sessions, t # s PROVE TaskSound(t)'
  OBVIOUS
<1>1. TypeOK /\ TaskSound(t)
  BY DEF IInv
<1>2. sess[t].st \in Working => srv'.pc = "up"
  BY <1>1 DEF TaskSound
<1> QED BY <1>1, <1>2, TaskStays

\* A step of a task that touches no table.
LEMMA TaskStep ==
  ASSUME IInv, NEW s \in Sessions, SameTask(s), sess' \in [Sessions -> Task], TaskSound(s)',
         UNCHANGED <<db, srv, settings, agent>>, issued' \in Nat, upsets' \in Nat
  PROVE  IInv'
<1>1. KeepsIdentity /\ KeepsKnown /\ UNCHANGED <<workspaces, created, devices, identity>>
  BY SameTablesKeep
<1>2. UNCHANGED <<disk, mem, pc, usedKeys, config, synced>>
  BY DEF agent, settings
<1>3. TypeOK'
  BY <1>1, <1>2 DEF IInv, TypeOK
<1>4. RowsAreBorn' /\ DevicesHaveWorkspace' /\ RegistryVerifies'
  BY SameTablesSound DEF IInv
<1>5. ServerServesIdentity'
  BY <1>1 DEF IInv, ServerServesIdentity
<1>6. \A t \in Sessions : TaskSound(t)'
  BY <1>1, OtherTasksStay DEF SameTask
<1>7. \A t \in Sessions : OwnerWaits(t)'
  BY <1>2, OwnersWaitAfterTask
<1>8. \A c \in Clients : DiskSound(c)' /\ AgentSound(c)'
  BY <1>1, <1>2, AgentsStay DEF settings
<1> QED BY <1>3, <1>4, <1>5, <1>6, <1>7, <1>8 DEF IInv

\* The same where nothing goes wrong.
LEMMA QuietTaskStep ==
  ASSUME IInv, NEW s \in Sessions, SameTask(s), sess' \in [Sessions -> Task], TaskSound(s)',
         UNCHANGED <<db, srv, settings, agent, upsets>>, issued' \in Nat
  PROVE  IInv'
<1>1. upsets' \in Nat
  BY DEF IInv, TypeOK
<1> QED BY <1>1, TaskStep

\* The task's own record after a step, from the update of sess.
LEMMA TaskUpdate ==
  ASSUME TypeOK, NEW s \in Sessions, NEW t \in Task, sess' = [sess EXCEPT ![s] = t]
  PROVE  /\ sess' \in [Sessions -> Task] /\ sess'[s] = t
         /\ \A u \in Sessions : u # s => sess'[u] = sess[u]
  BY DEF TypeOK

\* A task that ends is sound whatever it was doing.
LEMMA EndedTask ==
  ASSUME IInv, NEW s \in Sessions, sess[s].st # "free", sess' = [sess EXCEPT ![s] = Failed(s)]
  PROVE  SameTask(s) /\ TaskSound(s)' /\ sess' \in [Sessions -> Task]
<1>1. /\ sess' \in [Sessions -> Task] /\ sess'[s] = Failed(s)
      /\ \A u \in Sessions : u # s => sess'[u] = sess[u]
  BY FailedTask, TaskUpdate DEF IInv
<1>2. /\ Failed(s) \in Task
      /\ Failed(s).owner = sess[s].owner
      /\ Failed(s).st = IF sess[s].owner = None THEN "free" ELSE "failed"
  BY FailedTask DEF IInv
<1>3. SameTask(s)
  BY <1>1, <1>2 DEF SameTask
<1>4. TaskSound(s)'
  BY <1>1, <1>2 DEF TaskSound, Working, Issued, Looked
<1> QED BY <1>1, <1>3, <1>4

\* The certificate handle_enrollment signs has the type of a certificate.
LEMMA NewCertIsCert ==
  ASSUME IInv, NEW s \in Sessions, sess[s].st = "enroll_req"
  PROVE  /\ NewCert(s) \in Cert /\ NewCert(s).no = issued + 1 /\ NewCert(s).key = sess[s].key
         /\ NewCert(s).ws = sess[s].ws /\ NewCert(s).by = identity
<1>1. /\ srv.pc = "up" /\ sess[s].key # None /\ sess[s].ws # None
      /\ srv.key = identity /\ identity # None
  BY DEF IInv, TaskSound, ServerServesIdentity, Working
<1>2. sess[s].key \in Keys /\ sess[s].ws \in Workspaces /\ srv.key \in ServerKeys
  BY <1>1, TaskTypes, TableTypes DEF IInv
<1>3. issued \in Nat
  BY TableTypes DEF IInv
<1>4. issued + 1 \in Nat
  BY <1>3
<1> QED BY <1>1, <1>2, <1>4 DEF NewCert, Cert

\* Finding the workspace and signing the certificate keeps the invariant.
LEMMA StepEnrollFind ==
  ASSUME IInv, NEW s \in Sessions, EnrollFind(s)
  PROVE  IInv'
<1>1. UNCHANGED <<db, srv, settings, agent, upsets>> /\ sess[s].st = "enroll_req"
  BY DEF EnrollFind
<1>2. CASE Live(sess[s].ws)
  <2> DEFINE t == [sess[s] EXCEPT !.st = "enroll_found", !.cert = NewCert(s)]
  <2>1. sess[s] \in Task /\ NewCert(s) \in Cert /\ NewCert(s).key = sess[s].key
        /\ NewCert(s).by = identity
    BY <1>1, TaskTypes, NewCertIsCert DEF IInv
  <2>2. /\ t \in Task /\ t.st = "enroll_found" /\ t.cert = NewCert(s)
        /\ t.owner = sess[s].owner /\ t.key = sess[s].key
    BY <2>1 DEF Task, Stage
  <2>3. sess' = [sess EXCEPT ![s] = t] /\ issued' = issued + 1
    BY <1>2 DEF EnrollFind
  <2>4. /\ sess' \in [Sessions -> Task] /\ sess'[s] = t
        /\ \A u \in Sessions : u # s => sess'[u] = sess[u]
    BY <2>2, <2>3, TaskUpdate DEF IInv
  <2>5. SameTask(s)
    BY <1>1, <2>2, <2>4 DEF SameTask, Issued
  <2>6. UNCHANGED <<srv, identity>>
    BY <1>1, SameTablesKeep
  <2>7. TaskSound(s)'
    <3>1. sess[s].key # None /\ srv.pc = "up"
      BY <1>1 DEF IInv, TaskSound, Working
    <3> QED BY <2>1, <2>2, <2>4, <2>6, <3>1, AbsentIsNoValue DEF TaskSound, Working, Issued, Looked
  <2>8. issued' \in Nat
    BY <2>3, TableTypes DEF IInv
  <2> QED BY <1>1, <2>4, <2>5, <2>7, <2>8, QuietTaskStep
<1>3. CASE ~Live(sess[s].ws)
  <2>1. sess' = [sess EXCEPT ![s] = Failed(s)] /\ issued' = issued
    BY <1>3 DEF EnrollFind
  <2>2. issued' \in Nat
    BY <2>1, TableTypes DEF IInv
  <2> QED BY <1>1, <2>1, <2>2, EndedTask, QuietTaskStep
<1> QED BY <1>2, <1>3

\* A step of a task that writes one row, for a certificate the row may hold.
LEMMA RowTaskStep ==
  ASSUME IInv, NEW s \in Sessions, NEW k \in Keys, NEW r \in Row,
         devices' = [devices EXCEPT ![k] = r],
         Live(r.cert.ws), r.cert.key = k, r.cert.by = identity,
         SameTask(s), sess' \in [Sessions -> Task], TaskSound(s)',
         UNCHANGED <<workspaces, created, identity, srv, issued, settings, agent, upsets>>
  PROVE  IInv'
<1>1. devices \in [Keys -> Row \cup {None}]
  BY DEF IInv, TypeOK
<1>2. /\ devices' \in [Keys -> Row \cup {None}] /\ devices'[k] = r
      /\ \A j \in Keys : j # k => devices'[j] = devices[j]
  BY <1>1
<1>3. UNCHANGED <<disk, mem, pc, usedKeys, config, synced>>
  BY DEF agent, settings
<1>4. KeepsIdentity /\ KeepsKnown
  BY <1>2, AbsentIsNoValue DEF KeepsIdentity, KeepsKnown, NothingDeleted, Live
<1>5. TypeOK'
  BY <1>2, <1>3 DEF IInv, TypeOK
<1>6. RowsAreBorn'
  BY DEF IInv, RowsAreBorn, Live
<1>7. DevicesHaveWorkspace'
  BY <1>2 DEF IInv, DevicesHaveWorkspace, Live
<1>8. RegistryVerifies'
  BY <1>2 DEF IInv, RegistryVerifies
<1>9. ServerServesIdentity'
  BY DEF IInv, ServerServesIdentity
<1>10. \A t \in Sessions : TaskSound(t)'
  BY <1>4, OtherTasksStay DEF SameTask
<1>11. \A t \in Sessions : OwnerWaits(t)'
  BY <1>3, OwnersWaitAfterTask
<1>12. \A c \in Clients : DiskSound(c)' /\ AgentSound(c)'
  BY <1>3, <1>4, AgentsStay DEF settings
<1> QED BY <1>5, <1>6, <1>7, <1>8, <1>9, <1>10, <1>11, <1>12 DEF IInv

\* insert_enrollment keeps the invariant: the foreign key lets no orphan row
\* in.
LEMMA StepEnrollInsert ==
  ASSUME IInv, NEW s \in Sessions, EnrollInsert(s)
  PROVE  IInv'
<1>1. /\ UNCHANGED <<workspaces, created, identity, srv, issued, settings, agent, upsets>>
      /\ sess[s].st = "enroll_found"
  BY DEF EnrollInsert
<1>2. /\ sess[s] \in Task /\ sess[s].key \in Keys /\ sess[s].cert \in Cert
      /\ sess[s].cert.key = sess[s].key /\ sess[s].cert.by = identity /\ srv.pc = "up"
  BY <1>1, TaskTypes DEF IInv, TaskSound, Working, Issued
<1>3. CASE Live(sess[s].cert.ws)
  <2> DEFINE t == [sess[s] EXCEPT !.st = "enroll_inserted"]
             r == Enrolled(devices[sess[s].key], sess[s].cert)
  <2>1. /\ t \in Task /\ t.st = "enroll_inserted" /\ t.cert = sess[s].cert
        /\ t.owner = sess[s].owner /\ t.key = sess[s].key
    BY <1>2 DEF Task, Stage
  <2>2. sess' = [sess EXCEPT ![s] = t]
    BY <1>3 DEF EnrollInsert
  <2>3. /\ sess' \in [Sessions -> Task] /\ sess'[s] = t
        /\ \A u \in Sessions : u # s => sess'[u] = sess[u]
    BY <2>1, <2>2, TaskUpdate DEF IInv
  <2>4. r \in Row /\ r.cert = sess[s].cert
    <3>1. devices[sess[s].key] \in Row \cup {None}
      BY <1>2, TableTypes DEF IInv
    <3>2. (IF devices[sess[s].key] = None THEN FALSE ELSE devices[sess[s].key].checked) \in BOOLEAN
      BY <3>1 DEF Row
    <3> QED BY <1>2, <3>2 DEF Row, Enrolled
  <2>5. devices' = [devices EXCEPT ![sess[s].key] = r]
    BY <1>3 DEF EnrollInsert
  <2>6. SameTask(s)
    BY <1>1, <2>1, <2>3 DEF SameTask, Issued
  <2>7. devices'[sess[s].key] = r
    BY <1>2, <2>5 DEF IInv, TypeOK
  <2>8. TaskSound(s)'
    BY <1>1, <1>2, <2>1, <2>3, <2>4, <2>7, AbsentIsNoValue
       DEF TaskSound, Working, Issued, Looked, Known
  <2> HIDE DEF t, r
  <2> QED BY <1>1, <1>2, <1>3, <2>3, <2>4, <2>5, <2>6, <2>8, RowTaskStep
<1>4. CASE ~Live(sess[s].cert.ws)
  <2>1. sess' = [sess EXCEPT ![s] = Failed(s)] /\ UNCHANGED db
    BY <1>1, <1>4 DEF EnrollInsert, db
  <2>2. issued' \in Nat
    BY <1>1, TableTypes DEF IInv
  <2> QED BY <1>1, <2>1, <2>2, EndedTask, QuietTaskStep
<1> QED BY <1>3, <1>4

\* Sending the enrollment answer keeps the invariant.
LEMMA StepEnrollAnswer ==
  ASSUME IInv, NEW s \in Sessions, EnrollAnswer(s)
  PROVE  IInv'
<1>1. UNCHANGED <<db, srv, issued, settings, agent, upsets>> /\ sess[s].st = "enroll_inserted"
  BY DEF EnrollAnswer
<1>2. issued' \in Nat
  BY <1>1, TableTypes DEF IInv
<1>3. CASE sess[s].owner = None
  <2>1. sess' = [sess EXCEPT ![s] = Failed(s)]
    BY <1>3 DEF EnrollAnswer, Failed
  <2> QED BY <1>1, <1>2, <2>1, EndedTask, QuietTaskStep
<1>4. CASE sess[s].owner # None
  <2> DEFINE t == [sess[s] EXCEPT !.st = "enroll_answered"]
  <2>1. /\ t \in Task /\ t.st = "enroll_answered" /\ t.cert = sess[s].cert
        /\ t.owner = sess[s].owner /\ t.key = sess[s].key
    BY TaskTypes DEF IInv, Task, Stage
  <2>2. sess' = [sess EXCEPT ![s] = t]
    BY <1>4 DEF EnrollAnswer
  <2>3. /\ sess' \in [Sessions -> Task] /\ sess'[s] = t
        /\ \A u \in Sessions : u # s => sess'[u] = sess[u]
    BY <2>1, <2>2, TaskUpdate DEF IInv
  <2>4. SameTask(s)
    BY <1>1, <2>1, <2>3 DEF SameTask, Issued
  <2>5. UNCHANGED <<workspaces, created, devices, identity, srv>>
    BY <1>1, SameTablesKeep
  <2>6. TaskSound(s)'
    <3>1. TaskSound(s)
      BY DEF IInv
    <3> QED BY <1>1, <2>1, <2>3, <2>5, <3>1
        DEF TaskSound, Working, Issued, Looked, Known, NothingDeleted, Live
  <2> QED BY <1>1, <1>2, <2>3, <2>4, <2>6, QuietTaskStep
<1> QED BY <1>3, <1>4

\* A certificate the registry holds verifies, so only an unknown key is refused.
LEMMA StepCheckinLookup ==
  ASSUME IInv, NEW s \in Sessions, CheckinLookup(s)
  PROVE  IInv'
<1> DEFINE row == devices[sess[s].key]
<1>1. UNCHANGED <<db, srv, issued, settings, agent, upsets>> /\ sess[s].st = "checkin_req"
  BY DEF CheckinLookup
<1>2. issued' \in Nat
  BY <1>1, TableTypes DEF IInv
<1>3. sess[s].key \in Keys /\ srv.pc = "up" /\ sess[s] \in Task
  BY <1>1, TaskTypes DEF IInv, TaskSound, Working
<1>4. CASE row # None /\ Verified(row)
  <2> DEFINE t == [sess[s] EXCEPT !.st = "checkin_known", !.cert = row.cert]
  <2>1. row.cert \in Cert /\ row.cert.key = sess[s].key
    BY <1>3, <1>4, TableTypes DEF IInv, RegistryVerifies, Row
  <2>2. /\ t \in Task /\ t.st = "checkin_known" /\ t.cert = row.cert
        /\ t.owner = sess[s].owner /\ t.key = sess[s].key
    BY <1>3, <2>1 DEF Task, Stage
  <2>3. sess' = [sess EXCEPT ![s] = t]
    BY <1>4 DEF CheckinLookup
  <2>4. /\ sess' \in [Sessions -> Task] /\ sess'[s] = t
        /\ \A u \in Sessions : u # s => sess'[u] = sess[u]
    BY <2>2, <2>3, TaskUpdate DEF IInv
  <2>5. SameTask(s)
    BY <1>1, <2>2, <2>4 DEF SameTask, Looked
  <2>6. TaskSound(s)'
    BY <1>1, <1>3, <2>1, <2>2, <2>4, AbsentIsNoValue DEF TaskSound, Working, Issued, Looked
  <2> QED BY <1>1, <1>2, <2>4, <2>5, <2>6, QuietTaskStep
<1>5. CASE ~(row # None /\ Verified(row))
  <2>1. sess' = [sess EXCEPT ![s] = Failed(s)]
    BY <1>5 DEF CheckinLookup
  <2> QED BY <1>1, <1>2, <2>1, EndedTask, QuietTaskStep
<1> QED BY <1>4, <1>5

\* record_checkin keeps the invariant, whether or not the row is still there.
LEMMA StepCheckinRecord ==
  ASSUME IInv, NEW s \in Sessions, CheckinRecord(s)
  PROVE  IInv'
<1> DEFINE t == [sess[s] EXCEPT !.st = "checkin_recorded"]
           row == devices[sess[s].key]
<1>1. /\ UNCHANGED <<workspaces, created, identity, srv, issued, settings, agent, upsets>>
      /\ sess[s].st = "checkin_known" /\ sess' = [sess EXCEPT ![s] = t]
  BY DEF CheckinRecord
<1>2. /\ sess[s] \in Task /\ sess[s].key \in Keys /\ sess[s].cert \in Cert
      /\ sess[s].cert.key = sess[s].key /\ srv.pc = "up"
  BY <1>1, TaskTypes DEF IInv, TaskSound, Working, Looked
<1>3. /\ t \in Task /\ t.st = "checkin_recorded" /\ t.cert = sess[s].cert
      /\ t.owner = sess[s].owner /\ t.key = sess[s].key
  BY <1>2 DEF Task, Stage
<1>4. /\ sess' \in [Sessions -> Task] /\ sess'[s] = t
      /\ \A u \in Sessions : u # s => sess'[u] = sess[u]
  BY <1>1, <1>3, TaskUpdate DEF IInv
<1>5. SameTask(s)
  BY <1>1, <1>3, <1>4 DEF SameTask, Looked
<1>6. TaskSound(s)'
  BY <1>1, <1>2, <1>3, <1>4, AbsentIsNoValue DEF TaskSound, Working, Issued, Looked
<1>7. CASE row = None
  <2>1. UNCHANGED db
    BY <1>1, <1>7 DEF CheckinRecord, db
  <2>2. issued' \in Nat
    BY <1>1, TableTypes DEF IInv
  <2> QED BY <1>1, <1>4, <1>5, <1>6, <2>1, <2>2, QuietTaskStep
<1>8. CASE row # None
  <2> DEFINE r == [row EXCEPT !.checked = TRUE]
  <2>1. row \in Row
    BY <1>2, <1>8, TableTypes DEF IInv
  <2>2. r \in Row /\ r.cert = row.cert
    BY <2>1 DEF Row
  <2>3. devices' = [devices EXCEPT ![sess[s].key] = r]
    BY <1>8 DEF CheckinRecord
  <2>4. Live(r.cert.ws) /\ r.cert.key = sess[s].key /\ r.cert.by = identity
    BY <1>2, <1>8, <2>2 DEF IInv, DevicesHaveWorkspace, RegistryVerifies
  <2> HIDE DEF r, t, row
  <2> QED BY <1>1, <1>2, <1>4, <1>5, <1>6, <2>2, <2>3, <2>4, RowTaskStep
<1> QED BY <1>7, <1>8

\* Sending the check-in answer keeps the invariant.
LEMMA StepCheckinAnswer ==
  ASSUME IInv, NEW s \in Sessions, CheckinAnswer(s)
  PROVE  IInv'
<1>1. UNCHANGED <<db, srv, issued, settings, agent, upsets>> /\ sess[s].st = "checkin_recorded"
  BY DEF CheckinAnswer
<1>2. issued' \in Nat
  BY <1>1, TableTypes DEF IInv
<1>3. CASE sess[s].owner = None
  <2>1. sess' = [sess EXCEPT ![s] = Failed(s)]
    BY <1>3 DEF CheckinAnswer, Failed
  <2> QED BY <1>1, <1>2, <2>1, EndedTask, QuietTaskStep
<1>4. CASE sess[s].owner # None
  <2> DEFINE w == sess[s].cert.ws
             n == IF Live(w) THEN workspaces[w] ELSE ""
             t == [sess[s] EXCEPT !.st = "checkin_answered", !.name = n]
  <2>1. /\ sess[s] \in Task /\ sess[s].cert \in Cert /\ sess[s].key # None
        /\ sess[s].cert.key = sess[s].key
    BY <1>1, TaskTypes DEF IInv, TaskSound, Working, Looked
  <2>2. n \in Names \cup {"", None}
    BY <2>1, TableTypes DEF IInv, Live, Cert
  <2>3. /\ t \in Task /\ t.st = "checkin_answered" /\ t.cert = sess[s].cert
        /\ t.owner = sess[s].owner /\ t.key = sess[s].key
    BY <2>1, <2>2 DEF Task, Stage
  <2>4. sess' = [sess EXCEPT ![s] = t]
    BY <1>4 DEF CheckinAnswer
  <2>5. /\ sess' \in [Sessions -> Task] /\ sess'[s] = t
        /\ \A u \in Sessions : u # s => sess'[u] = sess[u]
    BY <2>3, <2>4, TaskUpdate DEF IInv
  <2>6. SameTask(s)
    BY <1>1, <2>3, <2>5 DEF SameTask, Looked
  <2>7. TaskSound(s)'
    BY <2>1, <2>3, <2>5, AbsentIsNoValue DEF TaskSound, Working, Issued, Looked
  <2> QED BY <1>1, <1>2, <2>5, <2>6, <2>7, QuietTaskStep
<1> QED BY <1>3, <1>4

\* A database error in a task keeps the invariant.
LEMMA StepTaskFails ==
  ASSUME IInv, NEW s \in Sessions, TaskFails(s)
  PROVE  IInv'
<1>1. UNCHANGED <<db, srv, issued, settings, agent>> /\ sess[s].st # "free"
  BY DEF TaskFails
<1>2. sess' = [sess EXCEPT ![s] = Failed(s)]
  BY DEF TaskFails
<1>3. issued' \in Nat
  BY <1>1, TableTypes DEF IInv
<1>4. upsets \in Nat /\ upsets' = upsets + 1
  BY DEF IInv, TypeOK, TaskFails, Upset
<1>5. upsets' \in Nat
  BY <1>4
<1> QED BY <1>1, <1>2, <1>3, <1>5, EndedTask, TaskStep

\* Ending a task whose peer is gone keeps the invariant.
LEMMA StepDropOrphan ==
  ASSUME IInv, NEW s \in Sessions, DropOrphan(s)
  PROVE  IInv'
<1>1. UNCHANGED <<db, srv, issued, settings, agent, upsets>> /\ sess[s].st # "free"
  BY DEF DropOrphan
<1>2. sess' = [sess EXCEPT ![s] = Failed(s)]
  BY DEF DropOrphan, Failed
<1>3. issued' \in Nat
  BY <1>1, TableTypes DEF IInv
<1> QED BY <1>1, <1>2, <1>3, EndedTask, QuietTaskStep

-----------------------------------------------------------------------------
(* The agents.                                                             *)

\* The agent is in no exchange with the server.
Apart(c) == pc[c] \notin {"enrolling", "checking"}

\* Only the process and the files of one agent change.
OnlyAgent(c) ==
  /\ \A d \in Clients : d # c => /\ disk'[d] = disk[d] /\ mem'[d] = mem[d]
                                /\ pc'[d] = pc[d] /\ config'[d] = config[d]
  /\ disk' \in [Clients -> Files] /\ mem' \in [Clients -> Memory] /\ pc' \in [Clients -> Location]

\* What OnlyAgent says of the database is that no table changed.
LEMMA TablesSame ==
  ASSUME UNCHANGED db
  PROVE  /\ NothingDeleted' <=> NothingDeleted
         /\ UNCHANGED <<workspaces, created, devices, identity>>
  BY DEF db, NothingDeleted, Live

\* The agents that take no step stay sound when one does.
LEMMA OtherAgentsStay ==
  ASSUME IInv, NEW c \in Clients, OnlyAgent(c), UNCHANGED db
  PROVE  \A d \in Clients : d # c => DiskSound(d)' /\ AgentSound(d)'
  BY AgentStays, SameTablesKeep DEF IInv, OnlyAgent

\* A step of one agent on its own files and memory keeps the invariant.
LEMMA LocalStep ==
  ASSUME IInv, NEW c \in Clients, UNCHANGED <<db, server>>, OnlyAgent(c), Apart(c),
         DiskSound(c)', AgentSound(c)', config' \in [Clients -> Workspaces \cup {None}],
         synced' \in [Clients -> Names \cup {"", None, Torn}], usedKeys' \subseteq Keys, upsets' \in Nat
  PROVE  IInv'
<1>1. UNCHANGED <<workspaces, created, devices, identity, srv, sess, issued>>
  BY DEF db, server
<1>2. KeepsIdentity /\ KeepsKnown
  BY SameTablesKeep
<1>3. TypeOK'
  BY <1>1 DEF IInv, TypeOK, OnlyAgent
<1>4. RowsAreBorn' /\ DevicesHaveWorkspace' /\ RegistryVerifies'
  BY SameTablesSound DEF IInv
<1>5. ServerServesIdentity'
  BY <1>1 DEF IInv, ServerServesIdentity
<1>6. ASSUME NEW s \in Sessions PROVE TaskSound(s)'
  BY <1>1, <1>2, TaskStays DEF IInv, TaskSound
<1>7. ASSUME NEW s \in Sessions PROVE OwnerWaits(s)'
  <2>1. OwnerWaits(s) /\ sess[s].owner \in Clients \cup {None}
    BY TaskTypes DEF IInv
  <2>2. sess[s].owner # c
    BY <2>1, AbsentIsNoValue DEF OwnerWaits, Apart
  <2> QED BY <1>1, <2>1, <2>2, OwnerStays DEF OnlyAgent
<1>8. \A d \in Clients : DiskSound(d)' /\ AgentSound(d)'
  BY OtherAgentsStay DEF settings
<1> QED BY <1>3, <1>4, <1>5, <1>6, <1>7, <1>8 DEF IInv

\* What an agent knows, restated for the leaves below.
LEMMA AgentFacts ==
  ASSUME IInv, NEW c \in Clients
  PROVE  /\ DiskSound(c) /\ AgentSound(c)
         /\ disk \in [Clients -> Files] /\ mem \in [Clients -> Memory]
         /\ pc \in [Clients -> Location]
         /\ config \in [Clients -> Workspaces \cup {None}]
         /\ synced \in [Clients -> Names \cup {"", None, Torn}]
         /\ usedKeys \subseteq Keys /\ upsets \in Nat /\ upsets + 1 \in Nat
<1>1. upsets \in Nat
  BY DEF IInv, TypeOK
<1>2. upsets + 1 \in Nat
  BY <1>1
<1> QED BY <1>1, <1>2 DEF IInv, TypeOK

\* Configuring a machine keeps the invariant.
LEMMA StepConfigure ==
  ASSUME IInv, NEW c \in Clients, NEW w \in Workspaces, Configure(c, w)
  PROVE  IInv'
<1>1. /\ UNCHANGED <<db, server, disk, mem, pc, usedKeys>> /\ pc[c] = "off"
      /\ upsets' \in Nat
  BY AgentFacts DEF Configure, agent, Upset
<1>2. /\ config' \in [Clients -> Workspaces \cup {None}]
      /\ synced' \in [Clients -> Names \cup {"", None, Torn}]
      /\ \A d \in Clients : d # c => config'[d] = config[d]
  BY AgentFacts DEF Configure
<1>3. OnlyAgent(c) /\ Apart(c)
  BY <1>1, <1>2, AgentFacts DEF OnlyAgent, Apart
<1>4. DiskSound(c)' /\ AgentSound(c)'
  BY <1>1, AgentFacts, TablesSame DEF DiskSound, AgentSound, Known, HoldsKey, Saving
<1> QED BY <1>1, <1>2, <1>3, <1>4, AgentFacts, LocalStep

\* An agent that only moves on, to a place where it claims no more than it knew.
LEMMA MoveStep ==
  ASSUME IInv, NEW c \in Clients, NEW l \in Location, Go(c, l), Apart(c),
         UNCHANGED <<db, server, config, disk, mem, usedKeys>>, upsets' \in Nat,
         synced' \in [Clients -> Names \cup {"", None, Torn}],
         l \in {"clear_pin", "clear_key"} => pc[c] \in {"clear_pin", "clear_key"},
         l # "write_key",
         l \in HoldsKey => pc[c] \in HoldsKey,
         l \notin Saving \cup {"enrolling"}, config[c] # None
  PROVE  IInv'
<1>1. UNCHANGED <<workspaces, created, devices, identity>>
  BY TablesSame
<1>2. pc'[c] = l
  BY AgentFacts DEF Go
<1>3. OnlyAgent(c)
  BY AgentFacts DEF OnlyAgent, Go
<1>4. DiskSound(c)'
  BY <1>1, AgentFacts, TablesSame DEF DiskSound, Known
<1>5. AgentSound(c)'
  BY <1>1, <1>2, AgentFacts DEF AgentSound
<1> QED BY <1>1, <1>3, <1>4, <1>5, AgentFacts, LocalStep

\* Starting the agent keeps the invariant.
LEMMA StepStart ==
  ASSUME IInv, NEW c \in Clients, Start(c)
  PROVE  IInv'
  BY MoveStep, AgentFacts DEF Start, Configured, settings, Apart, Location, HoldsKey, Saving

\* Starting the agent with --reenroll keeps the invariant.
LEMMA StepStartReenroll ==
  ASSUME IInv, NEW c \in Clients, StartReenroll(c)
  PROVE  IInv'
  BY MoveStep, AgentFacts DEF StartReenroll, Configured, settings, Upset, Apart, Location, HoldsKey, Saving

\* Asking is_enrolled keeps the invariant.
LEMMA StepDecide ==
  ASSUME IInv, NEW c \in Clients, Decide(c)
  PROVE  IInv'
<1> DEFINE l == IF IsEnrolled(c) THEN "sched" ELSE "connect"
<1>1. l \in {"sched", "connect"}
  OBVIOUS
<1>2. /\ pc[c] = "decide" /\ Go(c, l)
      /\ UNCHANGED <<db, server, settings, disk, mem, usedKeys, upsets>>
  BY DEF Decide
<1> HIDE DEF l
<1> QED BY <1>1, <1>2, MoveStep, AgentFacts
    DEF Apart, Location, HoldsKey, Saving, AgentSound, settings

\* A check-in that cannot connect keeps the invariant.
LEMMA StepCheckinRefused ==
  ASSUME IInv, NEW c \in Clients, CheckinRefused(c)
  PROVE  IInv'
  BY MoveStep, AgentFacts DEF CheckinRefused, settings, Apart, Location, HoldsKey, Saving, AgentSound

\* The end of a sleep keeps the invariant.
LEMMA StepWake ==
  ASSUME IInv, NEW c \in Clients, Wake(c)
  PROVE  IInv'
  BY MoveStep, AgentFacts DEF Wake, settings, Apart, Location, HoldsKey, Saving, AgentSound

\* Each half of saving NS7Conf.toml keeps the invariant: an agent that runs needs
\* the file no more.
LEMMA StepSaveSynced ==
  ASSUME IInv, NEW c \in Clients, SaveSynced(c)
  PROVE  IInv'
<1>1. /\ UNCHANGED <<db, server, config, disk, mem, usedKeys, upsets>>
      /\ pc[c] \in {"save_conf", "write_conf"}
      /\ Go(c, "write_conf") \/ Go(c, "sleep_ok")
  BY DEF SaveSynced
<1>2. synced' \in [Clients -> Names \cup {"", None, Torn}]
  BY AgentFacts, AgentTypes DEF SaveSynced, IInv
<1> QED BY <1>1, <1>2, MoveStep, AgentFacts DEF Apart, Location, HoldsKey, Saving, AgentSound

\* Nor does it need to know that saving failed.
LEMMA StepSaveSyncedFails ==
  ASSUME IInv, NEW c \in Clients, SaveSyncedFails(c)
  PROVE  IInv'
  BY MoveStep, AgentFacts
     DEF SaveSyncedFails, Upset, settings, Apart, Location, HoldsKey, Saving, AgentSound

\* An agent that changes one of its files, or what it remembers of them.
LEMMA FileStep ==
  ASSUME IInv, NEW c \in Clients, NEW f \in Files, NEW m \in Memory, NEW l \in Location,
         disk' = [disk EXCEPT ![c] = f], mem' = [mem EXCEPT ![c] = m], Go(c, l), Apart(c),
         UNCHANGED <<db, server, settings, upsets>>, usedKeys' \subseteq Keys,
         l # "enrolling", pc[c] # "off",
         f.pin \notin {None, Torn} => f.pin = identity,
         f.cert \notin {None, Torn} => f.key = f.cert.key /\ Known(f.cert),
         l \in {"clear_pin", "clear_key"} => f.cert = None,
         l = "write_key" => m.key # None /\ f.key = Torn,
         l \in HoldsKey => m.key # None /\ m.key = f.key,
         l \in Saving => /\ m.pin = identity /\ identity # None
                         /\ m.cert # None /\ m.cert.key = m.key /\ Known(m.cert)
  PROVE  IInv'
<1>1. UNCHANGED <<workspaces, created, devices, identity, config, synced>>
  BY TablesSame DEF settings
<1>2. /\ disk'[c] = f /\ mem'[c] = m /\ pc'[c] = l
      /\ OnlyAgent(c)
  BY AgentFacts DEF Go, OnlyAgent, settings
<1>3. Known(f.cert)' <=> Known(f.cert)
  BY <1>1, TablesSame DEF Known
<1>4. Known(m.cert)' <=> Known(m.cert)
  BY <1>1, TablesSame DEF Known
<1>5. DiskSound(c)'
  BY <1>1, <1>2, <1>3 DEF DiskSound
<1>6. AgentSound(c)'
  BY <1>1, <1>2, <1>4, AgentFacts DEF AgentSound
<1> QED BY <1>1, <1>2, <1>5, <1>6, AgentFacts, LocalStep

\* A function updated at a point with the value it has there is itself.
LEMMA SameAtPoint ==
  ASSUME IInv, NEW c \in Clients
  PROVE  disk = [disk EXCEPT ![c] = disk[c]] /\ mem = [mem EXCEPT ![c] = mem[c]]
  BY AgentFacts

\* Each removal of clear_enrollment keeps the invariant: the certificate goes
\* first.
LEMMA StepClearEnrollment ==
  ASSUME IInv, NEW c \in Clients, ClearEnrollment(c)
  PROVE  IInv'
<1>1. /\ UNCHANGED <<db, server, settings, mem, usedKeys, upsets>>
      /\ mem' = [mem EXCEPT ![c] = mem[c]] /\ usedKeys' \subseteq Keys
      /\ disk[c] \in Files /\ mem[c] \in Memory /\ DiskSound(c) /\ AgentSound(c)
  BY AgentFacts, AgentTypes, SameAtPoint DEF ClearEnrollment, IInv
<1>2. CASE pc[c] = "clear_cert"
  <2> DEFINE f == [disk[c] EXCEPT !.cert = None]
  <2>1. f \in Files /\ f.cert = None /\ f.pin = disk[c].pin
    BY <1>1 DEF Files
  <2>2. disk' = [disk EXCEPT ![c] = f] /\ Go(c, "clear_pin")
    BY <1>2 DEF ClearEnrollment
  <2> HIDE DEF f
  <2> QED BY <1>1, <1>2, <2>1, <2>2, FileStep
      DEF Apart, Location, HoldsKey, Saving, DiskSound
<1>3. CASE pc[c] = "clear_pin"
  <2> DEFINE f == [disk[c] EXCEPT !.pin = None]
  <2>1. f \in Files /\ f.cert = None /\ f.pin = None
    BY <1>1, <1>3 DEF Files, AgentSound
  <2>2. disk' = [disk EXCEPT ![c] = f] /\ Go(c, "clear_key")
    BY <1>3 DEF ClearEnrollment
  <2> HIDE DEF f
  <2> QED BY <1>1, <1>3, <2>1, <2>2, FileStep DEF Apart, Location, HoldsKey, Saving
<1>4. CASE pc[c] = "clear_key"
  <2> DEFINE f == [disk[c] EXCEPT !.key = None]
  <2>1. f \in Files /\ f.cert = None /\ f.pin = disk[c].pin
    BY <1>1, <1>4 DEF Files, AgentSound
  <2>2. disk' = [disk EXCEPT ![c] = f] /\ Go(c, "load")
    BY <1>4 DEF ClearEnrollment
  <2> HIDE DEF f
  <2> QED BY <1>1, <1>4, <2>1, <2>2, FileStep
      DEF Apart, Location, HoldsKey, Saving, DiskSound
<1> QED BY <1>2, <1>3, <1>4 DEF ClearEnrollment

\* Reading identity.key keeps the invariant.
LEMMA StepLoadKey ==
  ASSUME IInv, NEW c \in Clients, LoadKey(c)
  PROVE  IInv'
<1> DEFINE m == [mem[c] EXCEPT !.key = disk[c].key]
<1>1. /\ UNCHANGED <<db, server, settings, usedKeys, upsets>> /\ pc[c] = "load"
      /\ disk' = [disk EXCEPT ![c] = disk[c]] /\ usedKeys' \subseteq Keys
      /\ disk[c] \in Files /\ mem[c] \in Memory /\ DiskSound(c)
      /\ disk[c].key \in Keys
  BY AgentFacts, AgentTypes, SameAtPoint DEF LoadKey, IInv
<1>2. m \in Memory /\ m.key = disk[c].key
  BY <1>1 DEF Memory
<1>3. mem' = [mem EXCEPT ![c] = m] /\ Go(c, "decide")
  BY DEF LoadKey
<1> HIDE DEF m
<1> QED BY <1>1, <1>2, <1>3, FileStep, AbsentIsNoValue
    DEF Apart, Location, HoldsKey, Saving, DiskSound

\* A machine without a key has no certificate, or the key would be the one it names.
LEMMA StepGenerateKey ==
  ASSUME IInv, NEW c \in Clients, GenerateKey(c)
  PROVE  IInv'
<1>1. /\ UNCHANGED <<db, server, settings, upsets>> /\ pc[c] = "load" /\ disk[c].key = None
      /\ disk[c] \in Files /\ mem[c] \in Memory /\ DiskSound(c)
      /\ disk[c].cert \in Cert \cup {None, Torn}
  BY AgentFacts, AgentTypes DEF GenerateKey, IInv
<1>2. PICK k \in Keys : /\ usedKeys' = usedKeys \cup {k}
                        /\ mem' = [mem EXCEPT ![c] = [mem[c] EXCEPT !.key = k]]
  BY DEF GenerateKey
<1> DEFINE f == [disk[c] EXCEPT !.key = Torn]
           m == [mem[c] EXCEPT !.key = k]
<1>3. m \in Memory /\ m.key = k
  BY <1>1 DEF Memory
<1>4. f \in Files /\ f.key = Torn /\ f.cert = disk[c].cert /\ f.pin = disk[c].pin
  BY <1>1 DEF Files
<1>5. f.cert \in {None, Torn}
  BY <1>1, <1>4, AbsentIsNoValue DEF DiskSound, Cert
<1>6. disk' = [disk EXCEPT ![c] = f] /\ mem' = [mem EXCEPT ![c] = m] /\ Go(c, "write_key")
  BY <1>2 DEF GenerateKey
<1>7. usedKeys' \subseteq Keys
  BY <1>2, AgentFacts
<1> HIDE DEF f, m
<1> QED BY <1>1, <1>3, <1>4, <1>5, <1>6, <1>7, FileStep, AbsentIsNoValue
    DEF Apart, Location, HoldsKey, Saving, DiskSound

\* Filling identity.key keeps the invariant.
LEMMA StepWriteKey ==
  ASSUME IInv, NEW c \in Clients, WriteKey(c)
  PROVE  IInv'
<1> DEFINE f == [disk[c] EXCEPT !.key = mem[c].key]
<1>1. /\ UNCHANGED <<db, server, settings, usedKeys, upsets>> /\ pc[c] = "write_key"
      /\ mem' = [mem EXCEPT ![c] = mem[c]] /\ usedKeys' \subseteq Keys
      /\ disk[c] \in Files /\ mem[c] \in Memory /\ DiskSound(c) /\ AgentSound(c)
      /\ disk[c].cert \in Cert \cup {None, Torn} /\ mem[c].key \in Keys
  BY AgentFacts, AgentTypes, SameAtPoint DEF WriteKey, IInv, AgentSound
<1>2. f \in Files /\ f.key = mem[c].key /\ f.cert = disk[c].cert /\ f.pin = disk[c].pin
  BY <1>1 DEF Files
<1>3. disk[c].cert \in {None, Torn}
  BY <1>1, AbsentIsNoValue DEF DiskSound, AgentSound, Cert
<1>4. disk' = [disk EXCEPT ![c] = f] /\ Go(c, "decide")
  BY DEF WriteKey
<1> HIDE DEF f
<1> QED BY <1>1, <1>2, <1>3, <1>4, FileStep, AbsentIsNoValue
    DEF Apart, Location, HoldsKey, Saving, DiskSound

\* Both halves of save_certificate keep the invariant.
LEMMA StepSaveCertificate ==
  ASSUME IInv, NEW c \in Clients, SaveCertificate(c)
  PROVE  IInv'
<1>1. /\ UNCHANGED <<db, server, settings, mem, usedKeys, upsets>>
      /\ mem' = [mem EXCEPT ![c] = mem[c]] /\ usedKeys' \subseteq Keys
      /\ disk[c] \in Files /\ mem[c] \in Memory /\ DiskSound(c) /\ AgentSound(c)
      /\ mem[c].cert \in Cert \cup {None}
  BY AgentFacts, AgentTypes, SameAtPoint DEF SaveCertificate, IInv
<1>2. CASE pc[c] = "save_cert"
  <2> DEFINE f == [disk[c] EXCEPT !.cert = Torn]
  <2>1. f \in Files /\ f.cert = Torn /\ f.pin = disk[c].pin /\ f.key = disk[c].key
    BY <1>1 DEF Files
  <2>2. disk' = [disk EXCEPT ![c] = f] /\ Go(c, "write_cert")
    BY <1>2 DEF SaveCertificate
  <2> HIDE DEF f
  <2> QED BY <1>1, <1>2, <2>1, <2>2, FileStep
      DEF Apart, Location, HoldsKey, Saving, DiskSound, AgentSound
<1>3. CASE pc[c] = "write_cert"
  <2> DEFINE f == [disk[c] EXCEPT !.cert = mem[c].cert]
  <2>1. f \in Files /\ f.cert = mem[c].cert /\ f.pin = disk[c].pin /\ f.key = disk[c].key
    BY <1>1 DEF Files
  <2>2. disk' = [disk EXCEPT ![c] = f] /\ Go(c, "save_pin")
    BY <1>3 DEF SaveCertificate
  <2>3. /\ mem[c].pin = identity /\ identity # None /\ mem[c].cert # None
        /\ mem[c].cert.key = mem[c].key /\ Known(mem[c].cert)
        /\ mem[c].key # None /\ mem[c].key = disk[c].key
        /\ disk[c].pin \notin {None, Torn} => disk[c].pin = identity
    BY <1>1, <1>3 DEF DiskSound, AgentSound, HoldsKey, Saving
  <2>4. Apart(c) /\ "save_pin" \in Location /\ pc[c] # "off"
    BY <1>3 DEF Apart, Location
  <2> HIDE DEF f
  <2> QED BY <1>1, <2>1, <2>2, <2>3, <2>4, FileStep
<1> QED BY <1>2, <1>3 DEF SaveCertificate

\* Both halves of save_workspace_public_key keep the invariant.
LEMMA StepSaveWorkspacePublicKey ==
  ASSUME IInv, NEW c \in Clients, SaveWorkspacePublicKey(c)
  PROVE  IInv'
<1>1. /\ UNCHANGED <<db, server, settings, mem, usedKeys, upsets>>
      /\ mem' = [mem EXCEPT ![c] = mem[c]] /\ usedKeys' \subseteq Keys
      /\ disk[c] \in Files /\ mem[c] \in Memory /\ DiskSound(c) /\ AgentSound(c)
      /\ mem[c].pin \in ServerKeys \cup {None, Torn}
  BY AgentFacts, AgentTypes, SameAtPoint DEF SaveWorkspacePublicKey, IInv
<1>2. CASE pc[c] = "save_pin"
  <2> DEFINE f == [disk[c] EXCEPT !.pin = Torn]
  <2>1. f \in Files /\ f.pin = Torn /\ f.cert = disk[c].cert /\ f.key = disk[c].key
    BY <1>1 DEF Files
  <2>2. disk' = [disk EXCEPT ![c] = f] /\ Go(c, "write_pin")
    BY <1>2 DEF SaveWorkspacePublicKey
  <2> HIDE DEF f
  <2> QED BY <1>1, <1>2, <2>1, <2>2, FileStep
      DEF Apart, Location, HoldsKey, Saving, DiskSound, AgentSound
<1>3. CASE pc[c] = "write_pin"
  <2> DEFINE f == [disk[c] EXCEPT !.pin = mem[c].pin]
  <2>1. f \in Files /\ f.pin = mem[c].pin /\ f.cert = disk[c].cert /\ f.key = disk[c].key
    BY <1>1 DEF Files
  <2>2. disk' = [disk EXCEPT ![c] = f] /\ Go(c, "sched")
    BY <1>3 DEF SaveWorkspacePublicKey
  <2> HIDE DEF f
  <2> QED BY <1>1, <1>3, <2>1, <2>2, FileStep
      DEF Apart, Location, HoldsKey, Saving, DiskSound, AgentSound
<1> QED BY <1>2, <1>3 DEF SaveWorkspacePublicKey

\* Reading the pinned key keeps the invariant.
LEMMA StepStartScheduler ==
  ASSUME IInv, NEW c \in Clients, StartScheduler(c)
  PROVE  IInv'
<1> DEFINE m == [mem[c] EXCEPT !.pin = disk[c].pin]
<1>1. /\ UNCHANGED <<db, server, settings, usedKeys, upsets>> /\ pc[c] = "sched"
      /\ disk' = [disk EXCEPT ![c] = disk[c]] /\ usedKeys' \subseteq Keys
      /\ disk[c] \in Files /\ mem[c] \in Memory /\ DiskSound(c) /\ AgentSound(c)
      /\ disk[c].pin \in ServerKeys \cup {None, Torn}
  BY AgentFacts, AgentTypes, SameAtPoint DEF StartScheduler, IInv
<1>2. m \in Memory /\ m.key = mem[c].key
  BY <1>1 DEF Memory
<1>3. mem' = [mem EXCEPT ![c] = m] /\ Go(c, "ready")
  BY DEF StartScheduler
<1> HIDE DEF m
<1> QED BY <1>1, <1>2, <1>3, FileStep
    DEF Apart, Location, HoldsKey, Saving, DiskSound, AgentSound

-----------------------------------------------------------------------------
(* An agent and its connection.                                            *)

\* One agent and the connections change; the agent keeps its files.
LEMMA ConnectionStep ==
  ASSUME IInv, NEW c \in Clients, UNCHANGED <<db, srv, issued, config, disk, usedKeys>>,
         OnlyAgent(c), sess' \in [Sessions -> Task], \A s \in Sessions : TaskSound(s)',
         \A s \in Sessions : sess'[s].owner = c => OwnerWaits(s)',
         \A s \in Sessions : sess'[s].owner \notin {c, None} => sess'[s] = sess[s],
         AgentSound(c)', synced' \in [Clients -> Names \cup {"", None, Torn}], upsets' \in Nat
  PROVE  IInv'
<1>1. UNCHANGED <<workspaces, created, devices, identity>>
  BY TablesSame
<1>2. KeepsIdentity /\ KeepsKnown
  BY SameTablesKeep
<1>3. TypeOK'
  BY <1>1 DEF IInv, TypeOK, OnlyAgent
<1>4. RowsAreBorn' /\ DevicesHaveWorkspace' /\ RegistryVerifies'
  BY SameTablesSound DEF IInv
<1>5. ServerServesIdentity'
  BY <1>1 DEF IInv, ServerServesIdentity
<1>6. ASSUME NEW s \in Sessions PROVE OwnerWaits(s)'
  <2>1. CASE sess'[s].owner = None
    BY <2>1 DEF OwnerWaits
  <2>2. CASE sess'[s].owner \notin {c, None}
    <3>1. sess'[s] = sess[s] /\ sess[s].owner \in Clients \cup {None} /\ OwnerWaits(s)
      BY <2>2, TaskTypes DEF IInv
    <3>2. ASSUME NEW t \in Sessions, sess'[t].owner = sess[s].owner
          PROVE  sess[t].owner = sess[s].owner
      BY <2>2, <3>1, <3>2
    <3> QED BY <2>2, <3>1, <3>2, OwnerStays DEF OnlyAgent
  <2> QED BY <2>1, <2>2
<1>7. DiskSound(c)'
  BY <1>1, AgentFacts, TablesSame DEF DiskSound, Known
<1>8. \A d \in Clients : DiskSound(d)' /\ AgentSound(d)'
  BY <1>7, OtherAgentsStay DEF settings
<1> QED BY <1>3, <1>4, <1>5, <1>6, <1>8 DEF IInv

\* What leaving does to the connections: those of c end or lose their client.
LEMMA OrphanedTasks ==
  ASSUME IInv, NEW c \in Clients, sess' = Orphaned(c), UNCHANGED <<db, srv>>
  PROVE  /\ sess' \in [Sessions -> Task]
         /\ \A s \in Sessions : TaskSound(s)'
         /\ \A s \in Sessions : sess'[s].owner # c
         /\ \A s \in Sessions : sess'[s].owner \notin {c, None} => sess'[s] = sess[s]
<1>1. UNCHANGED <<workspaces, created, devices, identity>>
  BY TablesSame
<1>2. ASSUME NEW s \in Sessions
      PROVE  /\ sess'[s] \in Task
             /\ \/ sess'[s] = sess[s] /\ sess[s].owner # c
                \/ sess'[s] = Free
                \/ sess'[s] = [sess[s] EXCEPT !.owner = None]
  <2>1. sess[s] \in Task
    BY TaskTypes DEF IInv
  <2>2. [sess[s] EXCEPT !.owner = None] \in Task
    BY <2>1 DEF Task
  <2> QED BY <2>1, <2>2, FreeIsTask DEF Orphaned
<1>3. sess' \in [Sessions -> Task]
  BY <1>2 DEF Orphaned
<1>4. ASSUME NEW s \in Sessions
      PROVE  sess'[s].owner # c /\ (sess'[s].owner \notin {c, None} => sess'[s] = sess[s])
  <2>1. [sess[s] EXCEPT !.owner = None].owner = None
    BY TaskTypes DEF IInv, Task
  <2>2. Free.owner = None /\ c # None
    BY AbsentIsNoValue DEF Free
  <2>3. CASE sess'[s] = sess[s] /\ sess[s].owner # c
    BY <2>3
  <2>4. CASE sess'[s] = Free
    BY <2>2, <2>4
  <2>5. CASE sess'[s] = [sess[s] EXCEPT !.owner = None]
    BY <2>1, <2>2, <2>5
  <2> QED BY <1>2, <2>3, <2>4, <2>5
<1>5. ASSUME NEW s \in Sessions PROVE TaskSound(s)'
  <2>1. TaskSound(s)
    BY DEF IInv
  <2>2. CASE sess'[s] = sess[s]
    BY <1>1, <2>1, <2>2 DEF TaskSound, Known, NothingDeleted, Live
  <2>3. CASE sess'[s] = Free
    BY <2>3 DEF TaskSound, Free, Working, Issued, Looked
  <2>4. CASE sess'[s] = [sess[s] EXCEPT !.owner = None]
    <3>1. /\ sess'[s].st = sess[s].st /\ sess'[s].key = sess[s].key
          /\ sess'[s].ws = sess[s].ws /\ sess'[s].cert = sess[s].cert
      BY <2>4, TaskTypes DEF IInv, Task
    <3> QED BY <1>1, <2>1, <3>1 DEF TaskSound, Known, NothingDeleted, Live
  <2> QED BY <1>2, <2>2, <2>3, <2>4
<1> QED BY <1>3, <1>4, <1>5

\* An agent that leaves keeps the invariant.
LEMMA ExitStep ==
  ASSUME IInv, NEW c \in Clients, Exit(c),
         UNCHANGED <<db, srv, issued, settings, disk, usedKeys>>, upsets' \in Nat
  PROVE  IInv'
<1>1. UNCHANGED <<config, synced>> /\ synced' \in [Clients -> Names \cup {"", None, Torn}]
  BY DEF settings, IInv, TypeOK
<1>2. OnlyAgent(c) /\ pc'[c] = "off"
  BY AgentFacts, NoMemIsMemory DEF OnlyAgent, Exit, Go, Location, settings
<1>3. AgentSound(c)'
  BY <1>2 DEF AgentSound, HoldsKey, Saving
<1> QED BY <1>1, <1>2, <1>3, OrphanedTasks, ConnectionStep DEF Exit

\* Leaving because identity.key does not decode keeps the invariant.
LEMMA StepKeyUnreadable ==
  ASSUME IInv, NEW c \in Clients, KeyUnreadable(c)
  PROVE  IInv'
  BY ExitStep, AgentFacts DEF KeyUnreadable

\* Leaving because the server does not answer keeps the invariant.
LEMMA StepEnrollRefused ==
  ASSUME IInv, NEW c \in Clients, EnrollRefused(c)
  PROVE  IInv'
  BY ExitStep, AgentFacts DEF EnrollRefused

\* Leaving because the enrollment failed keeps the invariant.
LEMMA StepEnrollError ==
  ASSUME IInv, NEW c \in Clients, NEW s \in Sessions, EnrollError(c, s)
  PROVE  IInv'
  BY ExitStep, AgentFacts DEF EnrollError

\* A crash of the agent keeps the invariant.
LEMMA StepClientCrash ==
  ASSUME IInv, NEW c \in Clients, ClientCrash(c)
  PROVE  IInv'
  BY ExitStep, AgentFacts DEF ClientCrash, Upset

\* An agent that loses its connection and keeps its memory keeps the invariant.
LEMMA LostStep ==
  ASSUME IInv, NEW c \in Clients, NEW l \in {"sleep_err", "enroll_silent", "checkin_silent"},
         pc[c] \in HoldsKey, Go(c, l), sess' = Orphaned(c),
         UNCHANGED <<db, srv, issued, settings, disk, mem, usedKeys>>, upsets' \in Nat
  PROVE  IInv'
<1>1. UNCHANGED <<config, synced>> /\ synced' \in [Clients -> Names \cup {"", None, Torn}]
  BY DEF settings, IInv, TypeOK
<1>2. OnlyAgent(c) /\ pc'[c] = l
  BY AgentFacts DEF OnlyAgent, Go, Location, settings
<1>3. AgentSound(c)'
  BY <1>1, <1>2, AgentFacts DEF AgentSound, HoldsKey, Saving
<1> QED BY <1>1, <1>2, <1>3, OrphanedTasks, ConnectionStep

\* A connection that goes silent keeps the invariant.
LEMMA StepGoesSilent ==
  ASSUME IInv, NEW c \in Clients, GoesSilent(c)
  PROVE  IInv'
<1>1. /\ pc[c] \in HoldsKey /\ sess' = Orphaned(c) /\ upsets' \in Nat
      /\ UNCHANGED <<db, srv, issued, settings, disk, mem, usedKeys>>
      /\ Go(c, "enroll_silent") \/ Go(c, "checkin_silent")
  BY AgentFacts DEF GoesSilent, Upset, HoldsKey
<1> QED BY <1>1, LostStep

\* A lost connection keeps the invariant, in enrollment and in check-in.
LEMMA StepDisconnect ==
  ASSUME IInv, NEW c \in Clients, Disconnect(c)
  PROVE  IInv'
<1>1. UNCHANGED <<db, srv, issued, settings, disk, usedKeys>> /\ upsets' \in Nat
  BY AgentFacts DEF Disconnect, Upset
<1>2. CASE Exit(c)
  BY <1>1, <1>2, ExitStep
<1>3. CASE /\ pc[c] \in {"checking", "checkin_silent"} /\ Go(c, "sleep_err")
           /\ sess' = Orphaned(c) /\ UNCHANGED mem
  BY <1>1, <1>3, LostStep DEF HoldsKey
<1> QED BY <1>2, <1>3 DEF Disconnect

\* An agent that opens a connection had none.
LEMMA OpenedTask ==
  ASSUME IInv, NEW c \in Clients, NEW s \in Sessions, NEW stage \in {"enroll_req", "checkin_req"},
         NEW w \in Workspaces \cup {None}, stage = "enroll_req" => w # None,
         Open(s, c, stage, w), pc[c] \in {"connect", "ready"}, srv.pc = "up",
         UNCHANGED <<db, srv>>
  PROVE  /\ sess' \in [Sessions -> Task]
         /\ sess'[s].st = stage /\ sess'[s].owner = c /\ sess'[s].key = mem[c].key
         /\ \A t \in Sessions : TaskSound(t)'
         /\ \A t \in Sessions : sess'[t].owner = c => t = s
         /\ \A t \in Sessions : sess'[t].owner \notin {c, None} => sess'[t] = sess[t]
<1> DEFINE t0 == [Free EXCEPT !.st = stage, !.owner = c, !.key = mem[c].key, !.ws = w]
<1>1. /\ mem[c].key \in Keys
      /\ \A t \in Sessions : OwnerWaits(t)
  BY AgentTypes, AgentFacts DEF IInv, AgentSound, HoldsKey
<1>2. /\ t0 \in Task /\ t0.st = stage /\ t0.owner = c /\ t0.key = mem[c].key /\ t0.ws = w
  BY <1>1 DEF Free, Task, Stage
<1>3. sess' = [sess EXCEPT ![s] = t0]
  BY DEF Open
<1> HIDE DEF t0
<1>4. /\ sess' \in [Sessions -> Task] /\ sess'[s] = t0
      /\ \A u \in Sessions : u # s => sess'[u] = sess[u]
  BY <1>2, <1>3, TaskUpdate DEF IInv
<1>5. TaskSound(s)'
  BY <1>1, <1>2, <1>4, AbsentIsNoValue DEF TaskSound, Working, Issued, Looked
<1>6. \A t \in Sessions : t # s => TaskSound(t)'
  BY <1>4, OtherTasksStay, SameTablesKeep
<1>7. \A t \in Sessions : sess[t].owner # c
  BY <1>1, AbsentIsNoValue DEF OwnerWaits
<1> QED BY <1>2, <1>4, <1>5, <1>6, <1>7

\* Opening a check-in keeps the invariant.
LEMMA StepCheckinConnect ==
  ASSUME IInv, NEW c \in Clients, NEW s \in Sessions, CheckinConnect(c, s)
  PROVE  IInv'
<1>1. /\ UNCHANGED <<db, srv, issued, settings, disk, mem, usedKeys, upsets>>
      /\ pc[c] = "ready" /\ srv.pc = "up" /\ Open(s, c, "checkin_req", None)
      /\ Go(c, "checking")
  BY DEF CheckinConnect
<1>2. UNCHANGED <<config, synced>> /\ synced' \in [Clients -> Names \cup {"", None, Torn}]
  BY <1>1 DEF settings, IInv, TypeOK
<1>3. OnlyAgent(c) /\ pc'[c] = "checking"
  BY <1>1, AgentFacts DEF OnlyAgent, Go, Location, settings
<1>4. AgentSound(c)'
  BY <1>1, <1>2, <1>3, AgentFacts DEF AgentSound, HoldsKey, Saving
<1>5. /\ sess' \in [Sessions -> Task]
      /\ sess'[s].st = "checkin_req" /\ sess'[s].owner = c
      /\ \A t \in Sessions : TaskSound(t)'
      /\ \A t \in Sessions : sess'[t].owner = c => t = s
      /\ \A t \in Sessions : sess'[t].owner \notin {c, None} => sess'[t] = sess[t]
  BY <1>1, OpenedTask
<1>6. OwnerWaits(s)'
  BY <1>3, <1>5 DEF OwnerWaits, Issued, Looked
<1>7. \A t \in Sessions : sess'[t].owner = c => OwnerWaits(t)'
  BY <1>5, <1>6
<1> QED BY <1>1, <1>2, <1>3, <1>4, <1>5, <1>7, AgentFacts, ConnectionStep

\* Opening an enrollment keeps the invariant: the key learned is the
\* identity.
LEMMA StepEnrollConnect ==
  ASSUME IInv, NEW c \in Clients, NEW s \in Sessions, EnrollConnect(c, s)
  PROVE  IInv'
<1>1. /\ UNCHANGED <<db, srv, issued, settings, disk, usedKeys, upsets>>
      /\ pc[c] = "connect" /\ srv.pc = "up" /\ Open(s, c, "enroll_req", config[c])
      /\ mem' = [mem EXCEPT ![c] = [mem[c] EXCEPT !.pin = srv.key]]
      /\ Go(c, "enrolling")
  BY DEF EnrollConnect
<1>2. UNCHANGED <<config, synced, workspaces, created, devices, identity>>
      /\ synced' \in [Clients -> Names \cup {"", None, Torn}]
      /\ config[c] \in Workspaces /\ config[c] # None
  BY <1>1, AgentFacts, AbsentIsNoValue, TablesSame DEF settings, IInv, TypeOK, AgentSound
<1> DEFINE m == [mem[c] EXCEPT !.pin = srv.key]
<1>3. /\ m \in Memory /\ m.pin = identity /\ identity # None /\ m.key = mem[c].key
  <2>1. srv.key = identity /\ identity # None /\ srv.key \in ServerKeys \cup {None}
    BY <1>1, TableTypes DEF IInv, ServerServesIdentity
  <2>2. mem[c] \in Memory
    BY AgentTypes DEF IInv
  <2> QED BY <2>1, <2>2 DEF Memory
<1>4. OnlyAgent(c) /\ pc'[c] = "enrolling" /\ mem'[c] = m /\ disk'[c] = disk[c]
  BY <1>1, <1>3, AgentFacts DEF OnlyAgent, Go, Location, settings
<1> HIDE DEF m
<1>5. AgentSound(c)'
  BY <1>1, <1>2, <1>3, <1>4, AgentFacts DEF AgentSound, HoldsKey, Saving
<1>6. /\ sess' \in [Sessions -> Task]
      /\ sess'[s].st = "enroll_req" /\ sess'[s].owner = c /\ sess'[s].key = mem[c].key
      /\ \A t \in Sessions : TaskSound(t)'
      /\ \A t \in Sessions : sess'[t].owner = c => t = s
      /\ \A t \in Sessions : sess'[t].owner \notin {c, None} => sess'[t] = sess[t]
  BY <1>1, <1>2, OpenedTask
<1>7. OwnerWaits(s)'
  BY <1>3, <1>4, <1>6 DEF OwnerWaits, Issued, Looked
<1>8. \A t \in Sessions : sess'[t].owner = c => OwnerWaits(t)'
  BY <1>6, <1>7
<1> QED BY <1>1, <1>2, <1>4, <1>5, <1>6, <1>8, AgentFacts, ConnectionStep

\* A client that has its answer, or its error, lets the connection go.
LEMMA ClosedTask ==
  ASSUME IInv, NEW c \in Clients, NEW s \in Sessions, sess[s].owner = c,
         sess' = [sess EXCEPT ![s] = Free], UNCHANGED <<db, srv>>
  PROVE  /\ sess' \in [Sessions -> Task]
         /\ \A t \in Sessions : TaskSound(t)'
         /\ \A t \in Sessions : sess'[t].owner # c
         /\ \A t \in Sessions : sess'[t].owner \notin {c, None} => sess'[t] = sess[t]
<1>1. /\ sess' \in [Sessions -> Task] /\ sess'[s] = Free
      /\ \A u \in Sessions : u # s => sess'[u] = sess[u]
  BY FreeIsTask, TaskUpdate DEF IInv
<1>2. TaskSound(s)'
  BY <1>1 DEF TaskSound, Free, Working, Issued, Looked
<1>3. \A t \in Sessions : t # s => TaskSound(t)'
  BY <1>1, OtherTasksStay, SameTablesKeep
<1>4. \A t \in Sessions : sess[t].owner = c => t = s
  BY AbsentIsNoValue DEF IInv, OwnerWaits
<1>5. sess'[s].owner = None /\ c # None
  BY <1>1, AbsentIsNoValue DEF Free
<1> QED BY <1>1, <1>2, <1>3, <1>4, <1>5

\* The certificate that arrives is for the key the agent holds.
LEMMA StepEnrollReceive ==
  ASSUME IInv, NEW c \in Clients, NEW s \in Sessions, EnrollReceive(c, s)
  PROVE  IInv'
<1> DEFINE m == [mem[c] EXCEPT !.cert = sess[s].cert]
<1>1. /\ UNCHANGED <<db, srv, issued, settings, disk, usedKeys, upsets>>
      /\ sess[s].owner = c /\ sess[s].st = "enroll_answered"
      /\ sess' = [sess EXCEPT ![s] = Free]
      /\ mem' = [mem EXCEPT ![c] = m] /\ Go(c, "save_cert")
  BY DEF EnrollReceive
<1>2. UNCHANGED <<config, synced, workspaces, created, devices, identity>>
      /\ synced' \in [Clients -> Names \cup {"", None, Torn}]
  BY <1>1, TablesSame DEF settings, IInv, TypeOK
<1>3. /\ sess[s].cert # None /\ sess[s].cert \in Cert /\ sess[s].cert.key = sess[s].key
      /\ Known(sess[s].cert) /\ sess[s].key = mem[c].key /\ pc[c] = "enrolling"
  BY <1>1, TaskTypes, AbsentIsNoValue DEF IInv, TaskSound, OwnerWaits, Issued
<1>4. m \in Memory /\ m.cert = sess[s].cert /\ m.key = mem[c].key /\ m.pin = mem[c].pin
  BY <1>3, AgentTypes DEF IInv, Memory
<1>5. OnlyAgent(c) /\ pc'[c] = "save_cert" /\ mem'[c] = m /\ disk'[c] = disk[c]
  BY <1>1, <1>4, AgentFacts DEF OnlyAgent, Go, Location, settings
<1> HIDE DEF m
<1>6. Known(mem[c].cert)'
  BY <1>1, <1>2, <1>3, <1>4, <1>5, TablesSame DEF Known
<1>7. AgentSound(c)'
  BY <1>1, <1>2, <1>3, <1>4, <1>5, <1>6, AgentFacts DEF AgentSound, HoldsKey, Saving
<1> QED BY <1>1, <1>2, <1>5, <1>7, AgentFacts, ClosedTask, ConnectionStep

\* Receiving a check-in answer keeps the invariant.
LEMMA StepCheckinReceive ==
  ASSUME IInv, NEW c \in Clients, NEW s \in Sessions, CheckinReceive(c, s)
  PROVE  IInv'
<1> DEFINE m == [mem[c] EXCEPT !.name = sess[s].name]
<1>1. /\ UNCHANGED <<db, srv, issued, settings, disk, usedKeys, upsets>>
      /\ sess[s].owner = c /\ sess[s].st = "checkin_answered"
      /\ sess' = [sess EXCEPT ![s] = Free]
      /\ mem' = [mem EXCEPT ![c] = m] /\ Go(c, "save_conf")
  BY DEF CheckinReceive
<1>2. UNCHANGED <<config, synced, workspaces, created, devices, identity>>
      /\ synced' \in [Clients -> Names \cup {"", None, Torn}]
  BY <1>1, TablesSame DEF settings, IInv, TypeOK
<1>3. pc[c] = "checking"
  BY <1>1, AbsentIsNoValue DEF IInv, OwnerWaits, Looked
<1>4. m \in Memory /\ m.key = mem[c].key
  BY AgentTypes, TaskTypes DEF IInv, Memory
<1>5. OnlyAgent(c) /\ pc'[c] = "save_conf" /\ mem'[c] = m /\ disk'[c] = disk[c]
  BY <1>1, <1>4, AgentFacts DEF OnlyAgent, Go, Location, settings
<1> HIDE DEF m
<1>6. AgentSound(c)'
  BY <1>1, <1>2, <1>3, <1>4, <1>5, AgentFacts DEF AgentSound, HoldsKey, Saving
<1> QED BY <1>1, <1>2, <1>5, <1>6, AgentFacts, ClosedTask, ConnectionStep

\* A failed check-in keeps the invariant.
LEMMA StepCheckinError ==
  ASSUME IInv, NEW c \in Clients, NEW s \in Sessions, CheckinError(c, s)
  PROVE  IInv'
<1>1. /\ UNCHANGED <<db, srv, issued, settings, disk, mem, usedKeys, upsets>>
      /\ sess[s].owner = c /\ pc[c] = "checking"
      /\ sess' = [sess EXCEPT ![s] = Free] /\ Go(c, "sleep_err")
  BY DEF CheckinError
<1>2. UNCHANGED <<config, synced>> /\ synced' \in [Clients -> Names \cup {"", None, Torn}]
  BY <1>1 DEF settings, IInv, TypeOK
<1>3. OnlyAgent(c) /\ pc'[c] = "sleep_err"
  BY <1>1, AgentFacts DEF OnlyAgent, Go, Location, settings
<1>4. AgentSound(c)'
  BY <1>1, <1>2, <1>3, AgentFacts DEF AgentSound, HoldsKey, Saving
<1> QED BY <1>1, <1>2, <1>3, <1>4, AgentFacts, ClosedTask, ConnectionStep

-----------------------------------------------------------------------------
(* The invariant.                                                          *)

\* A stuttering step keeps the invariant.
LEMMA StepStutter ==
  ASSUME IInv, UNCHANGED vars
  PROVE  IInv'
<1>1. UNCHANGED <<workspaces, created, devices, identity, issued, srv, sess, config, synced,
                  disk, mem, pc, usedKeys, upsets>>
  BY DEF vars, db, server, settings, agent
<1>2. UNCHANGED db
  BY <1>1 DEF db
<1>3. KeepsIdentity /\ KeepsKnown
  BY <1>2, SameTablesKeep
<1>4. TypeOK'
  BY <1>1 DEF IInv, TypeOK
<1>5. RowsAreBorn' /\ DevicesHaveWorkspace' /\ RegistryVerifies'
  BY <1>2, SameTablesSound DEF IInv
<1>6. ServerServesIdentity'
  BY <1>1 DEF IInv, ServerServesIdentity
<1>7. \A s \in Sessions : TaskSound(s)' /\ OwnerWaits(s)'
  BY <1>1, <1>3, TasksStay DEF IInv, TaskSound
<1>8. \A c \in Clients : DiskSound(c)' /\ AgentSound(c)'
  BY <1>1, <1>3, AgentsStay
<1> QED BY <1>4, <1>5, <1>6, <1>7, <1>8 DEF IInv

\* The invariant is inductive: every step of Next keeps it.
LEMMA StepIInv == IInv /\ [Next]_vars => IInv'
<1> SUFFICES ASSUME IInv, [Next]_vars PROVE IInv'
  OBVIOUS
<1>1. CASE ServerStep
  BY <1>1, StepServerStart, StepLoadIdentity, StepStoreIdentity, StepEnrollFind,
     StepEnrollInsert, StepEnrollAnswer, StepCheckinLookup, StepCheckinRecord,
     StepCheckinAnswer DEF ServerStep
<1>2. CASE AdminStep
  BY <1>2, StepCreateWorkspace, StepRenameWorkspace, StepDeleteWorkspace DEF AdminStep
<1>3. CASE Fault
  BY <1>3, StepServerCrash, StepClientCrash, StepDisconnect, StepGoesSilent,
     StepSaveSyncedFails, StepDropOrphan, StepTaskFails DEF Fault
<1>4. ASSUME NEW c \in Clients, AgentStep(c) PROVE IInv'
  BY <1>4, StepStart, StepClearEnrollment, StepLoadKey, StepKeyUnreadable, StepGenerateKey,
     StepWriteKey, StepDecide, StepEnrollRefused, StepSaveCertificate,
     StepSaveWorkspacePublicKey, StepStartScheduler, StepCheckinRefused, StepSaveSynced, StepWake,
     StepEnrollConnect, StepEnrollReceive, StepEnrollError, StepCheckinConnect,
     StepCheckinReceive, StepCheckinError DEF AgentStep
<1>5. ASSUME NEW c \in Clients, UserStep(c) PROVE IInv'
  BY <1>5, StepStartReenroll, StepConfigure DEF UserStep
<1>6. CASE UNCHANGED vars
  BY <1>6, StepStutter
<1> QED BY <1>1, <1>2, <1>3, <1>4, <1>5, <1>6 DEF Next

\* The invariant every other theorem rests on: each task, agent and table is
\* sound in every reachable state of the fleet.
THEOREM FleetInvariant == Spec => []IInv
<1>1. Init => IInv
  BY InitIInv
<1>2. IInv /\ [Next]_vars => IInv'
  BY StepIInv
<1> QED BY <1>1, <1>2, PTL DEF Spec

\* The tables, tasks and files keep their types.
THEOREM FleetTypes == Spec => []TypeOK
<1>1. IInv => TypeOK
  BY DEF IInv
<1> QED BY <1>1, FleetInvariant, PTL

\* Deleting a workspace revokes its devices at once and for good (the cascade
\* of 0001_init.sql:34), whatever handlers were in the middle of.
THEOREM DeletedWorkspacesHaveNoDevices == Spec => []DevicesHaveWorkspace
<1>1. IInv => DevicesHaveWorkspace
  BY DEF IInv
<1> QED BY <1>1, FleetInvariant, PTL

\* Every certificate in the registry is for the key of its row and verifies
\* under the stored identity, so no restart invalidates the fleet.
THEOREM RegisteredCertificatesVerify == Spec => []RegistryVerifies
<1>1. IInv => RegistryVerifies
  BY DEF IInv
<1> QED BY <1>1, FleetInvariant, PTL

\* Every pinned server key is the stored identity.
THEOREM PinsStayValid == Spec => []PinnedKeyIsIdentity
<1>1. IInv => PinnedKeyIsIdentity
  BY DEF IInv, DiskSound, PinnedKeyIsIdentity
<1> QED BY <1>1, FleetInvariant, PTL

\* Certificate and key pair on disk belong together, wherever an enrollment or
\* a --reenroll was interrupted.
THEOREM CertificateAndKeyAgree == Spec => []CertificateIsForKey
<1>1. IInv => CertificateIsForKey
  BY DEF IInv, DiskSound, CertificateIsForKey
<1> QED BY <1>1, FleetInvariant, PTL

\* Without a deletion, no device that holds a certificate is unknown.
THEOREM CertifiedDevicesStayKnown == Spec => []CertifiedDevicesAreKnown
<1>1. IInv => CertifiedDevicesAreKnown
  BY DEF IInv, DiskSound, CertifiedDevicesAreKnown, Known, NothingDeleted
<1> QED BY <1>1, FleetInvariant, PTL

-----------------------------------------------------------------------------
(* The refinement of Membership.                                           *)

Member == [k \in Keys |-> IF devices[k] = None THEN None ELSE devices[k].cert.ws]
Heard  == {k \in Keys : devices[k] # None /\ devices[k].checked}

\* The empty database is the initial state of Membership.
LEMMA MembershipInit == Init => Promise!Init
  BY DEF Init, Promise!Init

\* A step that leaves workspaces and devices alone is a stutter of
\* Membership.
LEMMA TablesStutter ==
  ASSUME UNCHANGED <<workspaces, created, devices>>
  PROVE  UNCHANGED Promise!vars
  BY DEF Promise!vars

\* Creating and renaming a workspace are what Membership says.
LEMMA CreateRefines ==
  ASSUME NEW w \in Workspaces, NEW n \in Names, CreateWorkspace(w, n)
  PROVE  Promise!Create(w, n)
  BY DEF CreateWorkspace, Promise!Create

\* Renaming a workspace is the Rename of Membership.
LEMMA RenameRefines ==
  ASSUME NEW w \in Workspaces, NEW n \in Names, RenameWorkspace(w, n)
  PROVE  Promise!Rename(w, n)
  BY DEF RenameWorkspace, Promise!Rename, Live

\* The cascade is one step: the members of w leave with it.
LEMMA DeleteRefines ==
  ASSUME IInv, NEW w \in Workspaces, DeleteWorkspace(w)
  PROVE  Promise!Delete(w)
<1> DEFINE gone == {k \in Keys : Member[k] = w}
<1>1. /\ workspaces[w] # None /\ workspaces' = [workspaces EXCEPT ![w] = None]
      /\ UNCHANGED created
  BY DEF DeleteWorkspace, Live
<1>2. ASSUME NEW k \in Keys
      PROVE  /\ k \in gone <=> devices[k] # None /\ devices[k].cert.ws = w
             /\ devices'[k] = IF k \in gone THEN None ELSE devices[k]
  BY AbsentIsNoValue DEF Member, DeleteWorkspace
<1>3. Member' = [k \in Keys |-> IF k \in gone THEN None ELSE Member[k]]
  BY <1>2 DEF Member
<1>4. Heard' = Heard \ gone
  BY <1>2 DEF Heard
<1> QED BY <1>1, <1>3, <1>4 DEF Promise!Delete, Member, Heard

\* An insert that the foreign key lets through joins its device to the
\* workspace; check-in columns survive it.
LEMMA InsertRefines ==
  ASSUME IInv, NEW s \in Sessions, EnrollInsert(s), Live(sess[s].cert.ws)
  PROVE  \E k \in Keys, w \in Workspaces : Promise!Join(k, w)
<1> DEFINE k == sess[s].key
           w == sess[s].cert.ws
<1>1. k \in Keys /\ sess[s].cert \in Cert /\ w \in Workspaces
  <2>1. sess[s].key \in Keys /\ sess[s].cert \in Cert
    BY TaskTypes DEF IInv, TaskSound, Working, Issued, EnrollInsert
  <2> QED BY <2>1 DEF Cert
<1>2. /\ devices' = [devices EXCEPT ![k] = Enrolled(devices[k], sess[s].cert)]
      /\ UNCHANGED <<workspaces, created>> /\ workspaces[w] # None
      /\ devices \in [Keys -> Row \cup {None}]
  BY DEF EnrollInsert, Live, IInv, TypeOK
<1>3. /\ devices'[k] = Enrolled(devices[k], sess[s].cert)
      /\ \A j \in Keys : j # k => devices'[j] = devices[j]
  BY <1>1, <1>2
<1>4. Enrolled(devices[k], sess[s].cert) # None
  <2>1. (IF devices[k] = None THEN FALSE ELSE devices[k].checked) \in BOOLEAN
    BY <1>1, <1>2 DEF Row
  <2>2. Enrolled(devices[k], sess[s].cert) \in Row
    BY <1>1, <2>1 DEF Enrolled, Row
  <2> QED BY <2>2, AbsentIsNoValue
<1>5. /\ Enrolled(devices[k], sess[s].cert).cert.ws = w
      /\ Enrolled(devices[k], sess[s].cert).checked <=> devices[k] # None /\ devices[k].checked
  BY <1>1, <1>2 DEF Enrolled, Row
<1>6. Member' = [Member EXCEPT ![k] = w]
  BY <1>1, <1>3, <1>4, <1>5 DEF Member
<1>7. Heard' = Heard
  BY <1>1, <1>3, <1>4, <1>5 DEF Heard
<1> QED BY <1>1, <1>2, <1>6, <1>7 DEF Promise!Join, Member, Heard

\* Recording a check-in hears a member, or nobody.
LEMMA RecordRefines ==
  ASSUME IInv, NEW s \in Sessions, CheckinRecord(s), devices[sess[s].key] # None
  PROVE  \E k \in Keys : Promise!Hear(k)
<1> DEFINE k == sess[s].key
           r == [devices[k] EXCEPT !.checked = TRUE]
<1>1. k \in Keys
  BY TaskTypes DEF IInv, TaskSound, Working, CheckinRecord
<1>2. /\ devices' = [devices EXCEPT ![k] = r] /\ UNCHANGED <<workspaces, created>>
      /\ devices \in [Keys -> Row \cup {None}] /\ devices[k] \in Row
  BY <1>1 DEF CheckinRecord, IInv, TypeOK
<1>3. r \in Row /\ r.cert = devices[k].cert /\ r.checked = TRUE /\ r # None
  BY <1>2, AbsentIsNoValue DEF Row
<1>4. /\ devices'[k] = r
      /\ \A j \in Keys : j # k => devices'[j] = devices[j]
  BY <1>1, <1>2
<1> HIDE DEF r
<1>5. Member' = Member
  BY <1>1, <1>3, <1>4 DEF Member
<1>6. Heard' = Heard \cup {k}
  BY <1>1, <1>3, <1>4 DEF Heard
<1>7. Member[k] # None
  <2>1. devices[k].cert.ws \in Workspaces
    BY <1>2 DEF Row, Cert
  <2> QED BY <1>1, <2>1, AbsentIsNoValue DEF Member
<1> QED BY <1>1, <1>2, <1>5, <1>6, <1>7 DEF Promise!Hear, Member, Heard

\* All other steps leave workspaces and registry alone.
LEMMA ServerStutters ==
  ASSUME ServerStart \/ LoadIdentity \/ StoreIdentity
         \/ \E s \in Sessions : EnrollFind(s) \/ EnrollAnswer(s) \/ CheckinLookup(s) \/ CheckinAnswer(s)
  PROVE  UNCHANGED <<workspaces, created, devices>>
  BY DEF ServerStart, LoadIdentity, StoreIdentity, EnrollFind, EnrollAnswer, CheckinLookup,
         CheckinAnswer, db

\* Crashes, lost connections and ended tasks leave memberships alone.
LEMMA FaultStutters ==
  ASSUME Fault
  PROVE  UNCHANGED <<workspaces, created, devices>>
  BY DEF Fault, ServerCrash, ClientCrash, Disconnect, GoesSilent, SaveSyncedFails,
         DropOrphan, TaskFails, db

\* What an agent or its user does leaves memberships alone.
LEMMA AgentStutters ==
  ASSUME NEW c \in Clients, AgentStep(c) \/ UserStep(c)
  PROVE  UNCHANGED <<workspaces, created, devices>>
<1>1. UNCHANGED db
  BY DEF AgentStep, UserStep, Start, StartReenroll, Configure, ClearEnrollment, LoadKey,
         KeyUnreadable, GenerateKey, WriteKey, Decide, EnrollRefused, SaveCertificate,
         SaveWorkspacePublicKey, StartScheduler, CheckinRefused, SaveSynced, Wake, EnrollConnect,
         EnrollReceive, EnrollError, CheckinConnect, CheckinReceive, CheckinError
<1> QED BY <1>1 DEF db

\* Every step of the fleet is a step or a stutter of Membership.
LEMMA StepRefines == IInv /\ [Next]_vars => [Promise!Next]_Promise!vars
<1> SUFFICES ASSUME IInv, [Next]_vars PROVE Promise!Next \/ UNCHANGED Promise!vars
  OBVIOUS
<1>1. CASE AdminStep
  BY <1>1, CreateRefines, RenameRefines, DeleteRefines DEF AdminStep, Promise!Next
<1>2. ASSUME NEW s \in Sessions, EnrollInsert(s)
      PROVE  Promise!Next \/ UNCHANGED Promise!vars
  <2>1. CASE Live(sess[s].cert.ws)
    BY <1>2, <2>1, InsertRefines DEF Promise!Next
  <2>2. CASE ~Live(sess[s].cert.ws)
    BY <1>2, <2>2, TablesStutter DEF EnrollInsert
  <2> QED BY <2>1, <2>2
<1>3. ASSUME NEW s \in Sessions, CheckinRecord(s)
      PROVE  Promise!Next \/ UNCHANGED Promise!vars
  <2>1. CASE devices[sess[s].key] # None
    BY <1>3, <2>1, RecordRefines DEF Promise!Next
  <2>2. CASE devices[sess[s].key] = None
    BY <1>3, <2>2, TablesStutter DEF CheckinRecord
  <2> QED BY <2>1, <2>2
<1>4. CASE ServerStep
  BY <1>2, <1>3, <1>4, ServerStutters, TablesStutter DEF ServerStep
<1>5. CASE Fault
  BY <1>5, FaultStutters, TablesStutter
<1>6. ASSUME NEW c \in Clients, AgentStep(c) \/ UserStep(c) PROVE UNCHANGED Promise!vars
  BY <1>6, AgentStutters, TablesStutter
<1>7. CASE UNCHANGED vars
  BY <1>7, TablesStutter DEF vars, db
<1> QED BY <1>1, <1>4, <1>5, <1>6, <1>7 DEF Next

\* The server keeps the promise of Membership: handlers, crashes and
\* half-finished enrollments show only joins, deletions and recorded check-ins.
THEOREM FleetImplementsMembership == Spec => ImplementsMembership
<1>1. Init => Promise!Init
  BY MembershipInit
<1>2. IInv /\ [Next]_vars => [Promise!Next]_Promise!vars
  BY StepRefines
<1> QED BY <1>1, <1>2, FleetInvariant, PTL DEF Spec, ImplementsMembership, Promise!Spec

=============================================================================
