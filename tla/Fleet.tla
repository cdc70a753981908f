------------------------------- MODULE Fleet -------------------------------
(***************************************************************************)
(* The device fleet of Nano Stack 7: one server over its database, and the *)
(* agents that enroll with it and check in.                                *)
(*                                                                         *)
(* A server handler is a task that talks to the database several times;    *)
(* each statement it runs is a step of its own here, so that handlers,     *)
(* administrators and agents interleave between them.  An agent writes its *)
(* enrollment to three files, each created first and filled afterwards; it *)
(* may stop between any two steps and start again from the files.  The     *)
(* handler of an agent that went away keeps running.                       *)
(***************************************************************************)
EXTENDS Naturals

CONSTANTS
  Workspaces,   \* workspace ids, each an UUID an administrator's create draws
  Names,        \* workspace names
  Clients,      \* machines that run the agent
  Keys,         \* device key pairs the agents may generate
  ServerKeys,   \* server key pairs that may be generated
  Sessions,     \* connections the server can be handling at a time (bound)
  None,         \* an absent row, file or value
  Torn,         \* a file that was created or emptied and not yet written
  MaxIssued,    \* bound: certificates the server issues
  MaxUpsets,    \* bound: crashes, errors, lost connections and --reenroll starts
  Reconfigure   \* whether users move machines to another workspace

ASSUME ConstantsDistinct ==
  /\ None # Torn
  /\ {None, Torn} \cap (Workspaces \cup Names \cup Clients \cup Keys \cup ServerKeys) = {}
  /\ "" \notin Names

ASSUME BoundsAreNumbers ==
  MaxIssued \in Nat /\ MaxUpsets \in Nat /\ Reconfigure \in BOOLEAN

VARIABLES
  workspaces,  \* table: the name of each workspace that has a row
  created,     \* history: ids that create has drawn
  devices,     \* table, by device public key: certificate, and whether checked in
  identity,    \* table server_identity: the one stored key
  issued,      \* certificates issued so far; numbers them in issue order
  srv,         \* the server process: where it is, and the identity it loaded
  sess,        \* its connection tasks, with what each one read so far
  config,      \* the workspace each client was last configured for
  synced,      \* the name in the [synced] part of its NS7Conf.toml, or Torn for
               \* the whole file, the workspace's id included
  disk,        \* identity.key, device_cert.bin and workspace_public_key.bin
  mem,         \* what the agent process holds of them
  pc,          \* where the agent process is
  usedKeys,    \* history: device keys generated so far
  upsets       \* crashes, errors, lost connections and --reenroll starts so far

db       == <<workspaces, created, devices, identity>>
server   == <<srv, sess, issued>>
settings == <<config, synced>>
agent    == <<disk, mem, pc, usedKeys>>
vars     == <<db, server, settings, agent, upsets>>

-----------------------------------------------------------------------------
(* Data.  A certificate's number stands for its device_id and issue time,  *)
(* its "by" for the HMAC: the key it was signed with.                      *)

Cert == [no : Nat, key : Keys, ws : Workspaces, by : ServerKeys]
Row  == [cert : Cert, checked : BOOLEAN]

ASSUME AbsentIsNoRecord == None \notin Cert /\ Torn \notin Cert /\ None \notin Row

Stage == {"free", "enroll_req", "enroll_found", "enroll_inserted", "enroll_answered",
          "checkin_req", "checkin_known", "checkin_recorded", "checkin_answered", "failed"}

Location == {"off", "clear_cert", "clear_pin", "clear_key", "load", "write_key", "decide",
             "connect", "enrolling", "enroll_silent", "save_cert", "write_cert",
             "save_pin", "write_pin", "sched", "ready", "checking", "checkin_silent",
             "save_conf", "write_conf", "sleep_ok", "sleep_err"}

Free  == [st |-> "free", owner |-> None, key |-> None, ws |-> None, cert |-> None, name |-> None]
NoMem == [key |-> None, pin |-> None, cert |-> None, name |-> None]

Process == [pc : {"down", "load", "store", "up"}, key : ServerKeys \cup {None}]
Task    == [st : Stage, owner : Clients \cup {None}, key : Keys \cup {None},
            ws : Workspaces \cup {None}, cert : Cert \cup {None}, name : Names \cup {"", None}]
Files   == [key : Keys \cup {None, Torn}, cert : Cert \cup {None, Torn},
            pin : ServerKeys \cup {None, Torn}]
Memory  == [key : Keys \cup {None}, pin : ServerKeys \cup {None, Torn},
            cert : Cert \cup {None}, name : Names \cup {"", None}]

TypeOK ==
  /\ workspaces \in [Workspaces -> Names \cup {None}]
  /\ created \subseteq Workspaces
  /\ devices \in [Keys -> Row \cup {None}]
  /\ identity \in ServerKeys \cup {None}
  /\ issued \in Nat
  /\ srv \in Process
  /\ sess \in [Sessions -> Task]
  /\ config \in [Clients -> Workspaces \cup {None}]
  /\ synced \in [Clients -> Names \cup {"", None, Torn}]
  /\ disk \in [Clients -> Files]
  /\ mem \in [Clients -> Memory]
  /\ pc \in [Clients -> Location]
  /\ usedKeys \subseteq Keys
  /\ upsets \in Nat

Init ==
  /\ workspaces = [w \in Workspaces |-> None]
  /\ created = {}
  /\ devices = [k \in Keys |-> None]
  /\ identity = None
  /\ issued = 0
  /\ srv = [pc |-> "down", key |-> None]
  /\ sess = [s \in Sessions |-> Free]
  /\ config = [c \in Clients |-> None]
  /\ synced = [c \in Clients |-> None]
  /\ disk = [c \in Clients |-> [key |-> None, cert |-> None, pin |-> None]]
  /\ mem = [c \in Clients |-> NoMem]
  /\ pc = [c \in Clients |-> "off"]
  /\ usedKeys = {}
  /\ upsets = 0

Live(w) == workspaces[w] # None
Upset   == upsets < MaxUpsets /\ upsets' = upsets + 1

-----------------------------------------------------------------------------
(* The server process: start, load or create the identity, crash.          *)

ServerStart ==
  /\ srv.pc = "down"
  /\ srv' = [pc |-> "load", key |-> None]
  /\ UNCHANGED <<db, sess, issued, settings, agent, upsets>>

(* Variant with a bug: every start draws a fresh key.                      *)
LoadIdentityAlwaysFresh ==
  /\ srv.pc = "load"
  /\ \E k \in ServerKeys : srv' = [pc |-> "store", key |-> k]
  /\ UNCHANGED <<db, sess, issued, settings, agent, upsets>>

LoadIdentity ==
  /\ srv.pc = "load"
  /\ \/ identity # None /\ srv' = [pc |-> "up", key |-> identity]
     \/ identity = None /\ \E k \in ServerKeys : srv' = [pc |-> "store", key |-> k]
  /\ UNCHANGED <<db, sess, issued, settings, agent, upsets>>

StoreIdentity ==
  /\ srv.pc = "store"
  /\ identity' = IF identity = None THEN srv.key ELSE identity
  /\ srv' = [srv EXCEPT !.pc = "up"]
  /\ UNCHANGED <<workspaces, created, devices, sess, issued, settings, agent, upsets>>

(* Variant with a bug: a task that ends leaves its connection open.        *)
FailedUnheard(s) == Free

(* The end of a task, as its peer sees it: an error if there is a peer.    *)
Failed(s) == IF sess[s].owner = None THEN Free ELSE [sess[s] EXCEPT !.st = "failed"]

Answered(s) == sess[s].st \in {"enroll_answered", "checkin_answered"}

(* Every task dies with the process; answers already sent still arrive.    *)
ServerCrash ==
  /\ srv.pc # "down" /\ Upset
  /\ srv' = [pc |-> "down", key |-> None]
  /\ sess' = [s \in Sessions |->
                IF Answered(s) \/ sess[s].st = "free" THEN sess[s] ELSE Failed(s)]
  /\ UNCHANGED <<db, issued, settings, agent>>

-----------------------------------------------------------------------------
(* The administrator, through the API of the same process.                 *)

CreateWorkspace(w, n) ==
  /\ srv.pc = "up" /\ w \notin created
  /\ created' = created \cup {w}
  /\ workspaces' = [workspaces EXCEPT ![w] = n]
  /\ UNCHANGED <<devices, identity, server, settings, agent, upsets>>

RenameWorkspace(w, n) ==
  /\ srv.pc = "up" /\ Live(w)
  /\ workspaces' = [workspaces EXCEPT ![w] = n]
  /\ UNCHANGED <<created, devices, identity, server, settings, agent, upsets>>

(* Variant with a bug: the cascade reaches every device.                   *)
DeleteWorkspaceAllDevices(w) ==
  /\ srv.pc = "up" /\ Live(w)
  /\ workspaces' = [workspaces EXCEPT ![w] = None]
  /\ devices' = [k \in Keys |-> None]
  /\ UNCHANGED <<created, identity, server, settings, agent, upsets>>

(* ON DELETE CASCADE: the rows of the workspace's devices go with it.      *)
DeleteWorkspace(w) ==
  /\ srv.pc = "up" /\ Live(w)
  /\ workspaces' = [workspaces EXCEPT ![w] = None]
  /\ devices' = [k \in Keys |-> IF devices[k] # None /\ devices[k].cert.ws = w
                                THEN None ELSE devices[k]]
  /\ UNCHANGED <<created, identity, server, settings, agent, upsets>>

-----------------------------------------------------------------------------
(* handle_enrollment: find the workspace, insert the device, answer.       *)

NewCert(s) == [no |-> issued + 1, key |-> sess[s].key, ws |-> sess[s].ws, by |-> srv.key]

(* Variant with a bug: the answer leaves before the insert.                *)
EnrollFindAnswersFirst(s) ==
  /\ sess[s].st = "enroll_req" /\ Live(sess[s].ws) /\ issued < MaxIssued
  /\ issued' = issued + 1
  /\ sess' = [sess EXCEPT ![s].st = "enroll_answered", ![s].cert = NewCert(s)]
  /\ UNCHANGED <<db, srv, settings, agent, upsets>>

EnrollFind(s) ==
  /\ sess[s].st = "enroll_req"
  /\ IF Live(sess[s].ws)
     THEN /\ issued < MaxIssued
          /\ issued' = issued + 1
          /\ sess' = [sess EXCEPT ![s] = [sess[s] EXCEPT !.st = "enroll_found",
                                                         !.cert = NewCert(s)]]
     ELSE /\ sess' = [sess EXCEPT ![s] = Failed(s)]
          /\ UNCHANGED issued
  /\ UNCHANGED <<db, srv, settings, agent, upsets>>

(* The upsert of insert_enrollment: on a conflict the check-in columns     *)
(* keep their values.                                                      *)
Enrolled(old, cert) ==
  [cert |-> cert, checked |-> IF old = None THEN FALSE ELSE old.checked]

(* Variant with a bug: no foreign key.                                     *)
EnrollInsertUnchecked(s) ==
  /\ sess[s].st = "enroll_found"
  /\ devices' = [devices EXCEPT ![sess[s].key] = Enrolled(@, sess[s].cert)]
  /\ sess' = [sess EXCEPT ![s].st = "enroll_inserted"]
  /\ UNCHANGED <<workspaces, created, identity, srv, issued, settings, agent, upsets>>

(* The foreign key refuses the insert once the workspace's row is gone.    *)
EnrollInsert(s) ==
  /\ sess[s].st = "enroll_found"
  /\ IF Live(sess[s].cert.ws)
     THEN /\ devices' = [devices EXCEPT ![sess[s].key] = Enrolled(@, sess[s].cert)]
          /\ sess' = [sess EXCEPT ![s] = [sess[s] EXCEPT !.st = "enroll_inserted"]]
     ELSE /\ sess' = [sess EXCEPT ![s] = Failed(s)]
          /\ UNCHANGED devices
  /\ UNCHANGED <<workspaces, created, identity, srv, issued, settings, agent, upsets>>

EnrollAnswer(s) ==
  /\ sess[s].st = "enroll_inserted"
  /\ sess' = [sess EXCEPT ![s] = IF sess[s].owner = None THEN Free
                                 ELSE [sess[s] EXCEPT !.st = "enroll_answered"]]
  /\ UNCHANGED <<db, srv, issued, settings, agent, upsets>>

-----------------------------------------------------------------------------
(* handle_checkin: look the certificate up and verify it, record the       *)
(* inventory, look the workspace's name up, answer.                        *)

Verified(row) == row.cert.by = srv.key

CheckinLookup(s) ==
  /\ sess[s].st = "checkin_req"
  /\ LET row == devices[sess[s].key] IN
     sess' = [sess EXCEPT ![s] =
                IF row # None /\ Verified(row)
                THEN [sess[s] EXCEPT !.st = "checkin_known", !.cert = row.cert]
                ELSE Failed(s)]
  /\ UNCHANGED <<db, srv, issued, settings, agent, upsets>>

(* Variants with a bug: an upsert; a lost update.                          *)
CheckinRecordUpserts(s) ==
  /\ sess[s].st = "checkin_known"
  /\ devices' = [devices EXCEPT ![sess[s].key] = [cert |-> sess[s].cert, checked |-> TRUE]]
  /\ sess' = [sess EXCEPT ![s].st = "checkin_recorded"]
  /\ UNCHANGED <<workspaces, created, identity, srv, issued, settings, agent, upsets>>

CheckinRecordLost(s) ==
  /\ sess[s].st = "checkin_known"
  /\ sess' = [sess EXCEPT ![s].st = "checkin_recorded"]
  /\ UNCHANGED <<db, srv, issued, settings, agent, upsets>>

(* An UPDATE: no row comes back if the device's row is gone.               *)
CheckinRecord(s) ==
  /\ sess[s].st = "checkin_known"
  /\ devices' = IF devices[sess[s].key] = None THEN devices
                ELSE [devices EXCEPT ![sess[s].key] = [@ EXCEPT !.checked = TRUE]]
  /\ sess' = [sess EXCEPT ![s] = [sess[s] EXCEPT !.st = "checkin_recorded"]]
  /\ UNCHANGED <<workspaces, created, identity, srv, issued, settings, agent, upsets>>

CheckinAnswer(s) ==
  /\ sess[s].st = "checkin_recorded"
  /\ LET w == sess[s].cert.ws IN
     sess' = [sess EXCEPT ![s] =
                IF sess[s].owner = None THEN Free
                ELSE [sess[s] EXCEPT !.st = "checkin_answered",
                                     !.name = IF Live(w) THEN workspaces[w] ELSE ""]]
  /\ UNCHANGED <<db, srv, issued, settings, agent, upsets>>

(* A statement the database does not answer, or an answer that cannot be   *)
(* sent, ends the task wherever it is; what it wrote stays.                *)
TaskFails(s) ==
  /\ sess[s].st \notin {"free", "failed"} /\ ~Answered(s)
  /\ Upset
  /\ sess' = [sess EXCEPT ![s] = Failed(s)]
  /\ UNCHANGED <<db, srv, issued, settings, agent>>

(* A task that still waits for its peer's message when the peer is gone.   *)
DropOrphan(s) ==
  /\ sess[s].owner = None
  /\ sess[s].st \in {"enroll_req", "checkin_req", "checkin_known"}
  /\ sess' = [sess EXCEPT ![s] = Free]
  /\ UNCHANGED <<db, srv, issued, settings, agent, upsets>>

-----------------------------------------------------------------------------
(* The agent: its settings and its start.                                  *)

(* The setup dialog or --server-host and --workspace-id; an id exists only *)
(* once its workspace was created.  A crash may leave the file emptied.    *)
Configure(c, w) ==
  /\ pc[c] = "off" /\ w \in created
  /\ config[c] \in {None, w} \/ Reconfigure
  /\ \/ /\ config' = [config EXCEPT ![c] = w]
        /\ synced' = [synced EXCEPT ![c] = None]
        /\ UNCHANGED upsets
     \/ /\ synced' = [synced EXCEPT ![c] = Torn] /\ Upset
        /\ UNCHANGED config
  /\ UNCHANGED <<db, server, agent>>

Go(c, l) == pc' = [pc EXCEPT ![c] = l]

(* An emptied NS7Conf.toml parses as blank, and the setup dialog comes up.  *)
Configured(c) == config[c] # None /\ synced[c] # Torn

Start(c) ==
  /\ pc[c] = "off" /\ Configured(c)
  /\ Go(c, "load")
  /\ UNCHANGED <<db, server, settings, disk, mem, usedKeys, upsets>>

StartReenroll(c) ==
  /\ pc[c] = "off" /\ Configured(c) /\ Upset
  /\ Go(c, "clear_cert")
  /\ UNCHANGED <<db, server, settings, disk, mem, usedKeys>>

(* Variant with a bug: the key is the first file removed.                  *)
ClearEnrollmentKeyFirst(c) ==
  /\ \/ pc[c] = "clear_cert" /\ Go(c, "clear_pin") /\ disk' = [disk EXCEPT ![c].key = None]
     \/ pc[c] = "clear_pin" /\ Go(c, "clear_key") /\ disk' = [disk EXCEPT ![c].pin = None]
     \/ pc[c] = "clear_key" /\ Go(c, "load") /\ disk' = [disk EXCEPT ![c].cert = None]
  /\ UNCHANGED <<db, server, settings, mem, usedKeys, upsets>>

(* clear_enrollment removes the three files one after the other.           *)
ClearEnrollment(c) ==
  /\ \/ /\ pc[c] = "clear_cert" /\ Go(c, "clear_pin")
        /\ disk' = [disk EXCEPT ![c].cert = None]
     \/ /\ pc[c] = "clear_pin" /\ Go(c, "clear_key")
        /\ disk' = [disk EXCEPT ![c].pin = None]
     \/ /\ pc[c] = "clear_key" /\ Go(c, "load")
        /\ disk' = [disk EXCEPT ![c].key = None]
  /\ UNCHANGED <<db, server, settings, mem, usedKeys, upsets>>

(* The process ends: its connection, if any, has nobody at the other end.  *)
Orphaned(c) == [s \in Sessions |->
                  IF sess[s].owner # c THEN sess[s]
                  ELSE IF Answered(s) \/ sess[s].st = "failed" THEN Free
                  ELSE [sess[s] EXCEPT !.owner = None]]

Exit(c) == /\ Go(c, "off")
           /\ mem' = [mem EXCEPT ![c] = NoMem]
           /\ sess' = Orphaned(c)

LoadKey(c) ==
  /\ pc[c] = "load" /\ disk[c].key \notin {None, Torn}
  /\ mem' = [mem EXCEPT ![c].key = disk[c].key]
  /\ Go(c, "decide")
  /\ UNCHANGED <<db, server, settings, disk, usedKeys, upsets>>

KeyUnreadable(c) ==
  /\ pc[c] = "load" /\ disk[c].key = Torn
  /\ Exit(c)
  /\ UNCHANGED <<db, srv, issued, settings, disk, usedKeys, upsets>>

GenerateKey(c) ==
  /\ pc[c] = "load" /\ disk[c].key = None
  /\ \E k \in Keys \ usedKeys :
       /\ usedKeys' = usedKeys \cup {k}
       /\ mem' = [mem EXCEPT ![c].key = k]
  /\ disk' = [disk EXCEPT ![c].key = Torn]
  /\ Go(c, "write_key")
  /\ UNCHANGED <<db, server, settings, upsets>>

WriteKey(c) ==
  /\ pc[c] = "write_key"
  /\ disk' = [disk EXCEPT ![c].key = mem[c].key]
  /\ Go(c, "decide")
  /\ UNCHANGED <<db, server, settings, mem, usedKeys, upsets>>

(* Variant with a bug: the pinned key's file is not asked for.             *)
IsEnrolledByCertificate(c) == disk[c].cert # None

(* is_enrolled asks only whether both files exist.                         *)
IsEnrolled(c) == disk[c].cert # None /\ disk[c].pin # None

Decide(c) ==
  /\ pc[c] = "decide"
  /\ Go(c, IF IsEnrolled(c) THEN "sched" ELSE "connect")
  /\ UNCHANGED <<db, server, settings, disk, mem, usedKeys, upsets>>

-----------------------------------------------------------------------------
(* enroll: Noise_XX with the server, the request, the answer, the files.   *)

Open(s, c, stage, w) ==
  sess' = [sess EXCEPT ![s] = [Free EXCEPT !.st = stage, !.owner = c,
                                           !.key = mem[c].key, !.ws = w]]

EnrollConnect(c, s) ==
  /\ pc[c] = "connect" /\ srv.pc = "up" /\ sess[s].st = "free"
  /\ Open(s, c, "enroll_req", config[c])
  /\ mem' = [mem EXCEPT ![c].pin = srv.key]
  /\ Go(c, "enrolling")
  /\ UNCHANGED <<db, srv, issued, settings, disk, usedKeys, upsets>>

EnrollRefused(c) ==
  /\ pc[c] = "connect" /\ srv.pc # "up"
  /\ Exit(c)
  /\ UNCHANGED <<db, srv, issued, settings, disk, usedKeys, upsets>>

EnrollReceive(c, s) ==
  /\ sess[s].owner = c /\ sess[s].st = "enroll_answered"
  /\ mem' = [mem EXCEPT ![c].cert = sess[s].cert]
  /\ sess' = [sess EXCEPT ![s] = Free]
  /\ Go(c, "save_cert")
  /\ UNCHANGED <<db, srv, issued, settings, disk, usedKeys, upsets>>

EnrollError(c, s) ==
  /\ pc[c] = "enrolling" /\ sess[s].owner = c /\ sess[s].st = "failed"
  /\ Exit(c)
  /\ UNCHANGED <<db, srv, issued, settings, disk, usedKeys, upsets>>

SaveCertificate(c) ==
  /\ \/ /\ pc[c] = "save_cert" /\ Go(c, "write_cert")
        /\ disk' = [disk EXCEPT ![c].cert = Torn]
     \/ /\ pc[c] = "write_cert" /\ Go(c, "save_pin")
        /\ disk' = [disk EXCEPT ![c].cert = mem[c].cert]
  /\ UNCHANGED <<db, server, settings, mem, usedKeys, upsets>>

SaveWorkspacePublicKey(c) ==
  /\ \/ /\ pc[c] = "save_pin" /\ Go(c, "write_pin")
        /\ disk' = [disk EXCEPT ![c].pin = Torn]
     \/ /\ pc[c] = "write_pin" /\ Go(c, "sched")
        /\ disk' = [disk EXCEPT ![c].pin = mem[c].pin]
  /\ UNCHANGED <<db, server, settings, mem, usedKeys, upsets>>

-----------------------------------------------------------------------------
(* run_checkin_scheduler and run_once.                                     *)

StartScheduler(c) ==
  /\ pc[c] = "sched"
  /\ mem' = [mem EXCEPT ![c].pin = disk[c].pin]
  /\ Go(c, "ready")
  /\ UNCHANGED <<db, server, settings, disk, usedKeys, upsets>>

(* Noise_IK succeeds only against the key the agent pinned.                *)
CheckinConnect(c, s) ==
  /\ pc[c] = "ready" /\ srv.pc = "up" /\ mem[c].pin = srv.key /\ sess[s].st = "free"
  /\ Open(s, c, "checkin_req", None)
  /\ Go(c, "checking")
  /\ UNCHANGED <<db, srv, issued, settings, disk, mem, usedKeys, upsets>>

CheckinRefused(c) ==
  /\ pc[c] = "ready" /\ (srv.pc # "up" \/ mem[c].pin # srv.key)
  /\ Go(c, "sleep_err")
  /\ UNCHANGED <<db, server, settings, disk, mem, usedKeys, upsets>>

(* Variant with a bug: the first name learned is kept.                     *)
CheckinReceiveKeepsName(c, s) ==
  /\ sess[s].owner = c /\ sess[s].st = "checkin_answered"
  /\ mem' = [mem EXCEPT ![c].name = IF synced[c] \in {None, Torn} THEN sess[s].name
                                    ELSE synced[c]]
  /\ sess' = [sess EXCEPT ![s] = Free]
  /\ Go(c, "save_conf")
  /\ UNCHANGED <<db, srv, issued, settings, disk, usedKeys, upsets>>

CheckinReceive(c, s) ==
  /\ sess[s].owner = c /\ sess[s].st = "checkin_answered"
  /\ mem' = [mem EXCEPT ![c].name = sess[s].name]
  /\ sess' = [sess EXCEPT ![s] = Free]
  /\ Go(c, "save_conf")
  /\ UNCHANGED <<db, srv, issued, settings, disk, usedKeys, upsets>>

(* config::save empties the file and fills it with what the answer said.   *)
SaveSynced(c) ==
  /\ \/ /\ pc[c] = "save_conf" /\ Go(c, "write_conf")
        /\ synced' = [synced EXCEPT ![c] = Torn]
     \/ /\ pc[c] = "write_conf" /\ Go(c, "sleep_ok")
        /\ synced' = [synced EXCEPT ![c] = mem[c].name]
  /\ UNCHANGED <<db, server, config, disk, mem, usedKeys, upsets>>

(* Either half may fail; the agent goes on with a warning.                 *)
SaveSyncedFails(c) ==
  /\ pc[c] \in {"save_conf", "write_conf"} /\ Upset
  /\ Go(c, "sleep_ok")
  /\ UNCHANGED <<db, server, settings, disk, mem, usedKeys>>

CheckinError(c, s) ==
  /\ pc[c] = "checking" /\ sess[s].owner = c /\ sess[s].st = "failed"
  /\ sess' = [sess EXCEPT ![s] = Free]
  /\ Go(c, "sleep_err")
  /\ UNCHANGED <<db, srv, issued, settings, disk, mem, usedKeys, upsets>>

Wake(c) ==
  /\ pc[c] \in {"sleep_ok", "sleep_err"}
  /\ Go(c, "ready")
  /\ UNCHANGED <<db, server, settings, disk, mem, usedKeys, upsets>>

-----------------------------------------------------------------------------
(* What goes wrong: the agent stops, or its connection breaks or goes      *)
(* silent.                                                                 *)

ClientCrash(c) ==
  /\ pc[c] # "off" /\ Upset
  /\ Exit(c)
  /\ UNCHANGED <<db, srv, issued, settings, disk, usedKeys>>

(* A connection that is lost without a word: no read has a timeout, so the *)
(* agent stays in enroll or run_once; the server's task is left as below.  *)
GoesSilent(c) ==
  /\ Upset
  /\ \/ pc[c] = "enrolling" /\ Go(c, "enroll_silent")
     \/ pc[c] = "checking" /\ Go(c, "checkin_silent")
  /\ sess' = Orphaned(c)
  /\ UNCHANGED <<db, srv, issued, settings, disk, mem, usedKeys>>

(* A lost connection the agent is told of, at once or after a silence, ends *)
(* the process while it enrolls, one attempt while it checks in; the       *)
(* server's task does not hear of it.                                      *)
Disconnect(c) ==
  /\ Upset
  /\ \/ pc[c] \in {"enrolling", "enroll_silent"} /\ Exit(c)
     \/ /\ pc[c] \in {"checking", "checkin_silent"}
        /\ Go(c, "sleep_err") /\ sess' = Orphaned(c)
        /\ UNCHANGED mem
  /\ UNCHANGED <<db, srv, issued, settings, disk, usedKeys>>

-----------------------------------------------------------------------------
ServerStep == \/ ServerStart \/ LoadIdentity \/ StoreIdentity
              \/ \E s \in Sessions : \/ EnrollFind(s) \/ EnrollInsert(s) \/ EnrollAnswer(s)
                                     \/ CheckinLookup(s) \/ CheckinRecord(s) \/ CheckinAnswer(s)

AdminStep == \E w \in Workspaces :
               \/ \E n \in Names : CreateWorkspace(w, n) \/ RenameWorkspace(w, n)
               \/ DeleteWorkspace(w)

AgentStep(c) ==
  \/ Start(c) \/ ClearEnrollment(c) \/ LoadKey(c) \/ KeyUnreadable(c) \/ GenerateKey(c)
  \/ WriteKey(c) \/ Decide(c) \/ EnrollRefused(c) \/ SaveCertificate(c)
  \/ SaveWorkspacePublicKey(c) \/ StartScheduler(c) \/ CheckinRefused(c) \/ SaveSynced(c)
  \/ Wake(c)
  \/ \E s \in Sessions : \/ EnrollConnect(c, s) \/ EnrollReceive(c, s) \/ EnrollError(c, s)
                         \/ CheckinConnect(c, s) \/ CheckinReceive(c, s) \/ CheckinError(c, s)

UserStep(c) == StartReenroll(c) \/ \E w \in Workspaces : Configure(c, w)

Fault == \/ ServerCrash
         \/ \E c \in Clients : ClientCrash(c) \/ Disconnect(c) \/ GoesSilent(c)
                               \/ SaveSyncedFails(c)
         \/ \E s \in Sessions : DropOrphan(s) \/ TaskFails(s)

Next == \/ ServerStep \/ AdminStep \/ Fault
        \/ \E c \in Clients : AgentStep(c) \/ UserStep(c)

Spec == Init /\ [][Next]_vars

(* The runtime polls every task, compose restarts the server, a shortcut   *)
(* starts the agent at logon; nothing obliges users or administrators.     *)
Fairness ==
  /\ WF_vars(ServerStart) /\ WF_vars(LoadIdentity) /\ WF_vars(StoreIdentity)
  /\ \A s \in Sessions : /\ WF_vars(EnrollFind(s) \/ EnrollInsert(s) \/ EnrollAnswer(s))
                         /\ WF_vars(CheckinLookup(s) \/ CheckinRecord(s) \/ CheckinAnswer(s))
  /\ \A c \in Clients : WF_vars(AgentStep(c))

FairSpec == Spec /\ Fairness

-----------------------------------------------------------------------------
(* Safety.                                                                 *)

\* Every device row belongs to a workspace that still exists: deleting a
\* workspace revokes its devices at once (0001_init.sql:32-34) and no handler
\* that was already running brings one of them back.
DevicesHaveWorkspace ==
  \A k \in Keys : devices[k] # None => Live(devices[k].cert.ws)

\* A certificate in the registry verifies: it was issued for the key it is
\* stored under and signed with the identity in the database, whatever
\* restarts came between (workspace.rs:21-25).
RegistryVerifies ==
  \A k \in Keys : devices[k] # None => /\ devices[k].cert.key = k
                                       /\ devices[k].cert.by = identity

\* The server key an agent has written to disk is the stored identity, so a
\* restart of the server never locks the fleet out of Noise_IK.
PinnedKeyIsIdentity ==
  \A c \in Clients : disk[c].pin \notin {None, Torn} => disk[c].pin = identity

\* Wherever a --reenroll or an enrollment was interrupted, the certificate on
\* disk is for the key pair on disk (identity.rs:75-89): an agent that counts
\* itself enrolled checks in with the key the certificate names.
CertificateIsForKey ==
  \A c \in Clients : disk[c].cert \notin {None, Torn} => disk[c].key = disk[c].cert.key

\* As long as no workspace was deleted, every device that holds a certificate
\* has its row: the insert comes before the answer, and nothing but the
\* cascade takes a row away.
CertifiedDevicesAreKnown ==
  (\A w \in created : Live(w)) =>
    \A c \in Clients : disk[c].cert \notin {None, Torn} => devices[disk[c].cert.key] # None

\* A check-in that is answered as accepted has been recorded, unless the
\* device's row was deleted or replaced by another enrollment meanwhile.
AcceptedIsRecorded ==
  \A s \in Sessions : sess[s].st = "checkin_answered" =>
    LET row == devices[sess[s].key] IN
    row # None /\ row.cert = sess[s].cert => row.checked

\* While users leave machines in their workspace, a device that holds a
\* certificate of a live workspace has its row: no other workspace's end, no
\* late handler and no interrupted --reenroll takes it away.
MembersOfLiveWorkspacesAreKnown ==
  ~Reconfigure =>
    \A c \in Clients :
      disk[c].cert \notin {None, Torn} /\ Live(disk[c].cert.ws) =>
        devices[disk[c].cert.key] # None

-----------------------------------------------------------------------------
(* Why safety holds: what each process knows at each of its steps, which   *)
(* makes the invariants above inductive.                                   *)

NothingDeleted == \A w \in created : Live(w)
Known(cert)    == NothingDeleted => devices[cert.key] # None

Working == {"enroll_req", "enroll_found", "enroll_inserted",
            "checkin_req", "checkin_known", "checkin_recorded"}
Issued  == {"enroll_found", "enroll_inserted", "enroll_answered"}
Looked  == {"checkin_known", "checkin_recorded", "checkin_answered"}
HoldsKey == {"decide", "connect", "enrolling", "enroll_silent", "save_cert", "write_cert",
             "save_pin", "write_pin", "sched", "ready", "checking", "checkin_silent",
             "save_conf", "write_conf", "sleep_ok", "sleep_err"}
Saving   == {"save_cert", "write_cert", "save_pin", "write_pin"}

RowsAreBorn == \A w \in Workspaces : Live(w) => w \in created

\* The server serves with the stored identity and with no other.
ServerServesIdentity ==
  /\ srv.pc = "up" => srv.key = identity /\ identity # None
  /\ srv.pc = "store" => srv.key # None /\ identity = None

\* A connection task: it runs in a running server, for a key, and carries a
\* certificate for that key.
TaskSound(s) ==
  /\ sess[s].st \in Working => srv.pc = "up"
  /\ sess[s].st \in Working \cup Issued \cup Looked => sess[s].key # None
  /\ sess[s].st = "enroll_req" => sess[s].ws # None
  /\ sess[s].st \in Issued \cup Looked => sess[s].cert # None /\ sess[s].cert.key = sess[s].key
  /\ sess[s].st \in Issued => sess[s].cert.by = identity
  /\ sess[s].st \in {"enroll_inserted", "enroll_answered"} => Known(sess[s].cert)

\* The client at the other end waits for this answer and for no other.
OwnerWaits(s) ==
  LET c == sess[s].owner IN
  c # None =>
    /\ sess[s].st # "free"
    /\ pc[c] \in {"enrolling", "checking"}
    /\ sess[s].st \in Issued \cup {"enroll_req"} =>
         pc[c] = "enrolling" /\ sess[s].key = mem[c].key
    /\ sess[s].st \in Looked \cup {"checkin_req"} => pc[c] = "checking"
    /\ \A t \in Sessions : sess[t].owner = c => t = s

\* An agent's files.
DiskSound(c) ==
  /\ disk[c].pin \notin {None, Torn} => disk[c].pin = identity
  /\ disk[c].cert \notin {None, Torn} => /\ disk[c].key = disk[c].cert.key
                                         /\ Known(disk[c].cert)

\* An agent's memory agrees with its files from the moment it read them.
AgentSound(c) ==
  /\ pc[c] # "off" => config[c] # None
  /\ pc[c] \in {"clear_pin", "clear_key"} => disk[c].cert = None
  /\ pc[c] = "write_key" => mem[c].key # None /\ disk[c].key = Torn
  /\ pc[c] \in HoldsKey => mem[c].key # None /\ mem[c].key = disk[c].key
  /\ pc[c] \in Saving \cup {"enrolling"} => mem[c].pin = identity /\ identity # None
  /\ pc[c] \in Saving => /\ mem[c].cert # None
                         /\ mem[c].cert.key = mem[c].key
                         /\ Known(mem[c].cert)

\* The inductive invariant.
IInv ==
  /\ TypeOK
  /\ RowsAreBorn
  /\ DevicesHaveWorkspace
  /\ RegistryVerifies
  /\ ServerServesIdentity
  /\ \A s \in Sessions : TaskSound(s) /\ OwnerWaits(s)
  /\ \A c \in Clients : DiskSound(c) /\ AgentSound(c)

-----------------------------------------------------------------------------
(* Why an accepted check-in is recorded: a certificate is inserted once,   *)
(* and until then nothing else carries its number.                         *)

Numbered == Issued \cup Looked

\* A certificate that waits to be inserted is in no row and in no other task.
CertificatesAreFresh ==
  /\ \A k \in Keys : devices[k] # None => devices[k].cert.no <= issued
  /\ \A s \in Sessions : sess[s].st \in Numbered => sess[s].cert.no <= issued
  /\ \A s \in Sessions : sess[s].st = "enroll_found" =>
       /\ \A k \in Keys : devices[k] # None => devices[k].cert.no # sess[s].cert.no
       /\ \A t \in Sessions : t # s /\ sess[t].st \in Numbered =>
                              sess[t].cert.no # sess[s].cert.no

\* A check-in that was recorded finds its own row checked, or none.
Recorded(s) ==
  sess[s].st \in {"checkin_recorded", "checkin_answered"} =>
    LET row == devices[sess[s].key] IN
    row # None /\ row.cert = sess[s].cert => row.checked

RecordInv == CertificatesAreFresh /\ \A s \in Sessions : Recorded(s)

-----------------------------------------------------------------------------
(* Why members of live workspaces are known while nobody moves: a key pair *)
(* belongs to one machine, and all that was ever issued or stored for it   *)
(* is for that machine's workspace.                                        *)

HeldKeys(c)  == {disk[c].key, mem[c].key} \ {None, Torn}
Backed(cert) == Live(cert.ws) => devices[cert.key] # None

\* What an agent keeps: its own keys, and a certificate of its workspace.
AgentStaysHome(c) ==
  /\ config[c] # None => config[c] \in created
  /\ HeldKeys(c) # {} => config[c] # None
  /\ HeldKeys(c) \subseteq usedKeys
  /\ \A d \in Clients : d # c => HeldKeys(c) \cap HeldKeys(d) = {}
  /\ disk[c].cert \notin {None, Torn} => disk[c].cert.ws = config[c] /\ Backed(disk[c].cert)
  /\ pc[c] \in Saving => mem[c].cert.ws = config[c] /\ Backed(mem[c].cert)

\* An enrollment is for the workspace of the machine that holds its key.
TaskStaysHome(s) ==
  /\ sess[s].st \in Issued \cup {"enroll_req"} =>
       /\ sess[s].key \in usedKeys
       /\ \A c \in Clients : sess[s].key \in HeldKeys(c) => sess[s].ws = config[c]
  /\ sess[s].st \in Issued => sess[s].cert.ws = sess[s].ws
  /\ sess[s].st \in {"enroll_inserted", "enroll_answered"} /\ sess[s].owner # None =>
       Backed(sess[s].cert)

\* So is a row.
RowStaysHome(k) ==
  devices[k] # None =>
    /\ k \in usedKeys
    /\ \A c \in Clients : k \in HeldKeys(c) => devices[k].cert.ws = config[c]

MemberInv ==
  /\ \A c \in Clients : AgentStaysHome(c)
  /\ \A s \in Sessions : TaskStaysHome(s)
  /\ \A k \in Keys : RowStaysHome(k)

\* All enrollments of one key pair under way, and its row, are for the same
\* workspace, also when no machine holds the key any more.
OneHome ==
  \A s \in Sessions : sess[s].st \in Issued \cup {"enroll_req"} =>
    /\ devices[sess[s].key] # None => devices[sess[s].key].cert.ws = sess[s].ws
    /\ \A t \in Sessions : sess[t].st \in Issued \cup {"enroll_req"} /\ sess[t].key = sess[s].key =>
                           sess[t].ws = sess[s].ws

\* While users leave machines where they are no device changes its workspace, by
\* however old an enrollment its handler comes back to insert (registry.rs:75-82).
DevicesStayPut ==
  [][~Reconfigure =>
       \A k \in Keys : devices[k] # None /\ devices'[k] # None =>
                       devices'[k].cert.ws = devices[k].cert.ws]_vars

-----------------------------------------------------------------------------
(* What an agent that waits for the server waits for.                      *)

Waiting   == {"enrolling", "checking"}
Silent(c) == pc[c] \in {"enroll_silent", "checkin_silent"}

\* An agent that waits has a connection: OwnerWaits the other way round.
WaitsOnATask(c) == pc[c] \in Waiting => \E s \in Sessions : sess[s].owner = c

\* What is still to come on an agent's connection: its end, the answer to what
\* the agent asked, or a handler of a running server that has yet to answer.
Awaits(c, s) ==
  /\ sess[s].owner = c
  /\ \/ sess[s].st = "failed"
     \/ pc[c] = "enrolling" /\ sess[s].st = "enroll_answered"
     \/ pc[c] = "checking" /\ sess[s].st = "checkin_answered"
     \/ sess[s].st \in Working /\ srv.pc = "up"

\* An agent that is in enroll or run_once, and nothing can come there any more.
Hangs(c) == /\ pc[c] \in Waiting \/ Silent(c)
            /\ ~ \E s \in Sessions : Awaits(c, s)

\* The reads of an agent have no timeout (framing.rs:12-19), so what never comes
\* holds it for ever.  Only a connection that went silent does that: no crash of
\* the server, failed statement, deletion or late handler leaves an agent hanging.
OnlySilenceHangs == \A c \in Clients : Hangs(c) => Silent(c)

-----------------------------------------------------------------------------
\* The whole inductive invariant: IInv, and what the properties above need that
\* relate one enrollment to another or an agent to its connection.
FleetInv == /\ IInv /\ RecordInv /\ (~Reconfigure => MemberInv /\ OneHome)
            /\ \A c \in Clients : WaitsOnATask(c)

-----------------------------------------------------------------------------
(* The promise the server's tables keep, however handlers interleave.      *)

Promise == INSTANCE Membership WITH
  name   <- workspaces,
  born   <- created,
  member <- [k \in Keys |-> IF devices[k] = None THEN None ELSE devices[k].cert.ws],
  heard  <- {k \in Keys : devices[k] # None /\ devices[k].checked}

\* Every step of the server, its administrators and the agents is one step of
\* Membership or leaves memberships alone; in particular a deletion that meets
\* a running enrollment or check-in ends the membership for good.
ImplementsMembership == Promise!Spec

-----------------------------------------------------------------------------
(* Liveness.                                                               *)

\* A machine some of whose files were left unwritten by a crash: identity.key,
\* device_cert.bin, workspace_public_key.bin or NS7Conf.toml.
Damaged(c) == Torn \in {disk[c].key, disk[c].cert, disk[c].pin, synced[c]}

\* A machine whose workspace exists from some time on checks in again and
\* again, after any finite number of crashes, errors, lost connections, server
\* restarts and --reenroll starts, unless a crash left one of its files torn, a
\* connection went silent and the operating system never gives it up, or its
\* user moved it to another workspace: moving does not enroll again.
KeepsCheckingIn ==
  ~Reconfigure => \A c \in Clients :
    <>[](config[c] # None /\ Live(config[c])) =>
      []<>(pc[c] = "sleep_ok") \/ <>[]Damaged(c) \/ <>[]Silent(c)

\* After the last rename an agent that stays in the workspace learns the name
\* and keeps it in its file, but for the moments in which each check-in writes
\* the file again: no answer of an older check-in comes back to undo it, and no
\* write that failed leaves it undone.  The exceptions are those above.
LearnsWorkspaceName ==
  \A c \in Clients, w \in Workspaces, n \in Names :
    <>[](config[c] = w /\ workspaces[w] = n) =>
      <>[](synced[c] = n \/ pc[c] = "write_conf") \/ <>[]Damaged(c) \/ <>[]Silent(c)

-----------------------------------------------------------------------------
(* What comments of the code say and the code does not do.                 *)

\* "Re-enrolling the same device key replaces the old record" (registry.rs:75):
\* the record replaced is the old one, the one issued first.
NewerRecordStays ==
  [][\A k \in Keys : devices[k] # None /\ devices'[k] # None =>
       devices'[k].cert.no >= devices[k].cert.no]_vars
=============================================================================
