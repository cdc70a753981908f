----------------------------- MODULE AgentFiles -----------------------------
(***************************************************************************)
(* What the agent keeps beside its identity: NS7Conf.toml, where it is     *)
(* told what to do and mirrors what the server says, and status.json, from *)
(* which the status window shows how it is doing.  Any number of processes *)
(* share the two files: the agent, a second one, one started only to show  *)
(* or to change the configuration, and the user's editor.  A file is       *)
(* emptied first and filled afterwards; a process may die in between.      *)
(* Enrollment and the channel itself are in module Fleet.                  *)
(***************************************************************************)
EXTENDS Naturals, Sequences

CONSTANTS
  Procs,             \* processes of the client program
  Targets,           \* pairs of a server host and a workspace id
  Envs,              \* what NS7_SERVER_HOST and WORKSPACE_ID may hold
  Ports, DefaultPort,
  None, Torn,        \* no file or value; a file that was emptied
  Blank,             \* a host or a workspace id that is the empty string
  EditsWhileRunning, \* whether the user edits the file while the agent runs
  MaxCheckins,       \* bound: check-ins the server answers
  MaxCrashes         \* bound: processes that die

Given == Targets \cup {Blank}   \* what flags, environment and editor may hold

ASSUME EnvsAreGiven == Envs \subseteq Given /\ Blank \notin Targets /\ None \notin Given
ASSUME DefaultIsPort == DefaultPort \in Ports /\ None \notin Ports
ASSUME BoundsAreNumbers ==
  MaxCheckins \in Nat /\ MaxCrashes \in Nat /\ EditsWhileRunning \in BOOLEAN

VARIABLES
  conf,     \* NS7Conf.toml
  status,   \* status.json
  proc,     \* the processes
  found,    \* history: findings in the answer of each check-in, in order
  crashes,
  written   \* history: whether every write so far went through, none cut by a crash

vars == <<conf, status, proc, found, crashes, written>>

(* A check-in's number is its time; 0 is none yet.  A count stands for     *)
(* both counts of the snapshot: 0 reads like a clean device.               *)
Times  == 0 .. MaxCheckins
Counts == {0, 1}
Config == [target : Given, port : Ports, synced : Times]
Status == [connected : BOOLEAN, at : Times, count : Counts]
Args   == [mode : {"run", "show", "configure"}, cli : Given \cup {None},
           env : Envs \cup {None}, port : Ports \cup {None}]

ASSUME FilesAreRecords == None \notin Config \cup Status \cup Args /\ Torn \notin Config \cup Status

Loop  == {"ready", "save_synced", "write_synced", "report", "write_status", "sleep"}
Reporting == {"save_synced", "write_synced", "report", "write_status"}
Where == {"off", "resolve", "prompt", "save", "write", "resolved", "resave", "rewrite"} \cup Loop

Off     == [pc |-> "off", args |-> None, cfg |-> None, draft |-> None]
Process == [pc : Where, args : Args \cup {None}, cfg : Config \cup {None},
            draft : Status \cup {None}]

TypeOK ==
  /\ conf \in Config \cup {None, Torn}
  /\ status \in Status \cup {None, Torn}
  /\ proc \in [Procs -> Process]
  /\ found \in Seq(Counts) /\ Len(found) \in Times
  /\ crashes \in Nat
  /\ written \in BOOLEAN

Init ==
  /\ conf = None
  /\ status = None
  /\ proc = [p \in Procs |-> Off]
  /\ found = <<>>
  /\ crashes = 0
  /\ written = TRUE

Now == Len(found)

Moves(p, l) == proc' = [proc EXCEPT ![p].pc = l]
Exits(p) == proc' = [proc EXCEPT ![p] = Off]

-----------------------------------------------------------------------------
(* resolve_config.                                                         *)

Launch(p, args) ==
  /\ proc[p].pc = "off"
  /\ proc' = [proc EXCEPT ![p] = [Off EXCEPT !.pc = "resolve", !.args = args]]
  /\ UNCHANGED <<conf, status, found, crashes, written>>

NewConfig(t) == [target |-> t, port |-> DefaultPort, synced |-> 0]

(* The ports of the command line go on top of whatever was chosen.         *)
Chosen(p, cfg, l) ==
  LET port == proc[p].args.port IN
  proc' = [proc EXCEPT ![p].pc = l,
                       ![p].cfg = [cfg EXCEPT !.port = IF port = None THEN @ ELSE port]]

(* An emptied file parses, as a configuration whose every part is blank.   *)
Saved        == IF conf = Torn THEN NewConfig(Blank) ELSE conf
IsConfigured == Saved # None /\ Saved.target # Blank

(* Variant with a bug: a saved configuration is used as it is.             *)
ResolveUnconfigured(p) ==
  LET args == proc[p].args IN
  /\ proc[p].pc = "resolve"
  /\ \/ args.cli # None /\ Chosen(p, NewConfig(args.cli), "save")
     \/ args.cli = None /\ args.env # None /\ Chosen(p, NewConfig(args.env), "resolved")
     \/ args.cli = None /\ args.env = None /\ Saved # None /\ Chosen(p, Saved, "resolved")
     \/ /\ args.cli = None /\ args.env = None /\ Saved = None
        /\ IF args.mode = "show" THEN Exits(p) ELSE Moves(p, "prompt")
  /\ UNCHANGED <<conf, status, found, crashes, written>>

(* Variant with a bug: flags are used and not saved.                       *)
ResolveForgetsFlags(p) ==
  LET args == proc[p].args IN
  /\ proc[p].pc = "resolve"
  /\ \/ args.cli # None /\ Chosen(p, NewConfig(args.cli), "resolved")
     \/ args.cli = None /\ args.env # None /\ Chosen(p, NewConfig(args.env), "resolved")
     \/ args.cli = None /\ args.env = None /\ IsConfigured /\ Chosen(p, Saved, "resolved")
     \/ /\ args.cli = None /\ args.env = None /\ ~IsConfigured
        /\ IF args.mode = "show" THEN Exits(p) ELSE Moves(p, "prompt")
  /\ UNCHANGED <<conf, status, found, crashes, written>>

Resolve(p) ==
  LET args == proc[p].args IN
  /\ proc[p].pc = "resolve"
  /\ \/ args.cli # None /\ Chosen(p, NewConfig(args.cli), "save")
     \/ args.cli = None /\ args.env # None /\ Chosen(p, NewConfig(args.env), "resolved")
     \/ args.cli = None /\ args.env = None /\ IsConfigured /\ Chosen(p, Saved, "resolved")
     \/ /\ args.cli = None /\ args.env = None /\ ~IsConfigured
        /\ IF args.mode = "show" THEN Exits(p) ELSE Moves(p, "prompt")
  /\ UNCHANGED <<conf, status, found, crashes, written>>

(* The setup dialog takes no blank field; whoever cancels it, or a helper  *)
(* that cannot be launched, ends the process.                              *)
AnswerPrompt(p, t) ==
  /\ proc[p].pc = "prompt"
  /\ Chosen(p, NewConfig(t), "save")
  /\ UNCHANGED <<conf, status, found, crashes, written>>

CancelPrompt(p) ==
  /\ proc[p].pc = "prompt"
  /\ Exits(p)
  /\ UNCHANGED <<conf, status, found, crashes, written>>

(* config::save, in its three places: emptying the file, then filling it.  *)
(* An error there ends a process that is starting and no other.            *)
SaveNext == [save |-> "write", resave |-> "rewrite", save_synced |-> "write_synced"]

SaveEmpties(p) ==
  /\ proc[p].pc \in DOMAIN SaveNext
  /\ conf' = Torn
  /\ Moves(p, SaveNext[proc[p].pc])
  /\ UNCHANGED <<status, found, crashes, written>>

SaveFills(p) ==
  /\ proc[p].pc \in {"write", "rewrite", "write_synced"}
  /\ conf' = proc[p].cfg
  /\ \/ proc[p].pc = "write" /\ Moves(p, "resolved")
     \/ proc[p].pc = "rewrite" /\ Exits(p)
     \/ proc[p].pc = "write_synced" /\ Moves(p, "report")
  /\ UNCHANGED <<status, found, crashes, written>>

(* It fails before or after the file is emptied.                           *)
SaveFails(p) ==
  /\ \/ proc[p].pc \in {"save", "write", "resave", "rewrite"} /\ Exits(p)
     \/ proc[p].pc \in {"save_synced", "write_synced"} /\ Moves(p, "report")
  /\ written' = FALSE
  /\ UNCHANGED <<conf, status, found, crashes>>

(* The rest of main: --show-config prints, --configure-only saves again,   *)
(* an agent enrolls if it has to, which may fail and end it.               *)
Proceed(p) ==
  /\ proc[p].pc = "resolved"
  /\ \/ proc[p].args.mode = "show" /\ Exits(p)
     \/ proc[p].args.mode = "configure" /\ Moves(p, "resave")
     \/ proc[p].args.mode = "run" /\ (Moves(p, "ready") \/ Exits(p))
  /\ UNCHANGED <<conf, status, found, crashes, written>>

-----------------------------------------------------------------------------
(* run_checkin_scheduler.                                                  *)

CheckinSucceeds(p, n) ==
  /\ proc[p].pc = "ready" /\ Now < MaxCheckins
  /\ found' = Append(found, n)
  /\ proc' = [proc EXCEPT ![p].pc = "save_synced",
                          ![p].cfg.synced = Now + 1,
                          ![p].draft = [connected |-> TRUE, at |-> Now + 1, count |-> n]]
  /\ UNCHANGED <<conf, status, crashes, written>>

(* What is read from status.json, by the agent and by the status window;   *)
(* a file that is missing or empty reads like an agent that never started. *)
Snapshot == IF status \in {None, Torn} THEN [connected |-> FALSE, at |-> 0, count |-> 0]
                                       ELSE status

(* Variant with a bug: an error starts from an empty snapshot.             *)
CheckinFailsClean(p) ==
  /\ proc[p].pc = "ready"
  /\ proc' = [proc EXCEPT ![p].pc = "report",
                          ![p].draft = [connected |-> FALSE, at |-> proc[p].cfg.synced,
                                        count |-> 0]]
  /\ UNCHANGED <<conf, status, found, crashes, written>>

(* Variant with a bug: an emptied snapshot is read as if it had counts.    *)
CheckinFailsUnparsed(p) ==
  /\ proc[p].pc = "ready"
  /\ proc' = [proc EXCEPT ![p].pc = "report",
                          ![p].draft = [connected |-> FALSE, at |-> proc[p].cfg.synced,
                                        count |-> IF status = None THEN 0
                                                  ELSE IF status = Torn THEN status
                                                  ELSE status.count]]
  /\ UNCHANGED <<conf, status, found, crashes, written>>

(* What was last known is carried forward, from the configuration in       *)
(* memory and from the snapshot on disk.                                   *)
CheckinFails(p) ==
  /\ proc[p].pc = "ready"
  /\ proc' = [proc EXCEPT ![p].pc = "report",
                          ![p].draft = [connected |-> FALSE, at |-> proc[p].cfg.synced,
                                        count |-> Snapshot.count]]
  /\ UNCHANGED <<conf, status, found, crashes, written>>

(* Variant with a bug: a snapshot that cannot be written ends the agent.   *)
StatusWriteOrExit(p) ==
  /\ \/ proc[p].pc = "report" /\ status' = Torn /\ Moves(p, "write_status")
     \/ proc[p].pc = "report" /\ Exits(p) /\ UNCHANGED status
     \/ proc[p].pc = "write_status" /\ status' = proc[p].draft /\ Moves(p, "sleep")
  /\ UNCHANGED <<conf, found, crashes, written>>

(* status::write: emptied, then filled; it fails before or in between, with *)
(* a warning.                                                              *)
StatusWrite(p) ==
  /\ \/ /\ proc[p].pc = "report" /\ Moves(p, "write_status")
        /\ status' = Torn /\ UNCHANGED written
     \/ /\ proc[p].pc \in {"report", "write_status"} /\ Moves(p, "sleep")
        /\ written' = FALSE /\ UNCHANGED status
     \/ /\ proc[p].pc = "write_status" /\ Moves(p, "sleep")
        /\ status' = proc[p].draft /\ UNCHANGED written
  /\ UNCHANGED <<conf, found, crashes>>

Wake(p) ==
  /\ proc[p].pc = "sleep"
  /\ Moves(p, "ready")
  /\ UNCHANGED <<conf, status, found, crashes, written>>

-----------------------------------------------------------------------------
(* The user's editor, and a process that dies.                             *)

Edit(t) ==
  /\ conf \notin {None, Torn} /\ conf.target # t
  /\ EditsWhileRunning \/ \A p \in Procs : proc[p].pc = "off"
  /\ conf' = [conf EXCEPT !.target = t]
  /\ UNCHANGED <<status, proc, found, crashes, written>>

Crash(p) ==
  /\ proc[p].pc # "off" /\ crashes < MaxCrashes
  /\ crashes' = crashes + 1
  /\ written' = (written /\ proc[p].pc \notin Reporting)
  /\ Exits(p)
  /\ UNCHANGED <<conf, status, found>>

-----------------------------------------------------------------------------
Starting(p) == Resolve(p) \/ Proceed(p)
Saving(p)   == SaveEmpties(p) \/ SaveFills(p) \/ SaveFails(p)
Checkin(p)  == CheckinFails(p) \/ \E n \in Counts : CheckinSucceeds(p, n)
AgentStep(p) == Starting(p) \/ Saving(p) \/ Checkin(p) \/ StatusWrite(p) \/ Wake(p)
UserStep(p)  == \/ CancelPrompt(p)
                \/ \E args \in Args : Launch(p, args)
                \/ \E t \in Targets : AnswerPrompt(p, t)

Next == \/ \E p \in Procs : AgentStep(p) \/ UserStep(p) \/ Crash(p)
        \/ \E t \in Given : Edit(t)

Spec == Init /\ [][Next]_vars

(* A process that runs takes its next step; no user is obliged to.         *)
Fairness == \A p \in Procs : WF_vars(AgentStep(p))
FairSpec == Spec /\ Fairness

-----------------------------------------------------------------------------
Alone == (\A p, q \in Procs : p = q) /\ ~EditsWhileRunning

FromEnvironment(p) == proc[p].args.cli = None /\ proc[p].args.env # None

\* An agent that runs from its file or from the dialog knows a server and a
\* workspace, also after a crash emptied the file in the middle of a save or a
\* blank flag was saved: such a file counts as no configuration and the user is
\* asked again (config.rs:111-113).
NeverRunsBlank ==
  \A p \in Procs :
    proc[p].pc \in Loop /\ proc[p].args.cli = None /\ ~FromEnvironment(p) =>
      proc[p].cfg.target # Blank

\* "The effective configuration is inspectable on the device itself"
\* (config.rs:11-12): the file names the server and workspace the agent runs
\* with, unless it took them from the environment, another process or an edit
\* under a running agent came in between, or the file is being written.
FileShowsTarget ==
  Alone => \A p \in Procs :
    proc[p].pc \in Loop /\ ~FromEnvironment(p) /\ conf \notin {None, Torn} =>
      conf.target = proc[p].cfg.target

\* A failed check-in leaves the status window with what the last answered one
\* found (main.rs:258-260): its time comes from the configuration and its counts
\* from the snapshot, and the two belong to the same check-in however often the
\* agent was ended, started again or configured anew, as long as one agent runs
\* at a time and no report was cut short by a failing write or a crash.
ShowsLastKnown ==
  ~Snapshot.connected /\ Snapshot.at > 0 => Snapshot.count = found[Snapshot.at]

Undisturbed == Alone /\ written

OutageShowsLastKnown == Undisturbed => ShowsLastKnown

(* Why the three hold: what a process has at each place, where its target  *)
(* comes from, and that a lone agent's memory, draft and snapshot agree.   *)
Configured == {"save", "write", "resolved", "resave", "rewrite"} \cup Loop

Equipped(p) ==
  /\ proc[p].pc # "off" => proc[p].args # None
  /\ proc[p].pc \in Configured => proc[p].cfg # None
  /\ proc[p].pc \in Reporting => proc[p].draft # None

KnowsTarget(p) ==
  proc[p].pc \in Configured /\ proc[p].args.cli = None /\ proc[p].args.env = None =>
    proc[p].cfg.target # Blank

FileTarget(p) ==
  proc[p].pc \in Loop \cup {"resolved"} /\ ~FromEnvironment(p) /\ conf \notin {None, Torn} =>
    conf.target = proc[p].cfg.target

(* A time that is not of the last answered check-in is none at all.        *)
Fits(s) == s.at \in {0, Now} /\ (Now > 0 => s.count = found[Now])

LastKnown(p) ==
  /\ proc[p].pc \in Configured => proc[p].cfg.synced \in {0, Now}
  /\ proc[p].pc # "save_synced" /\ conf \notin {None, Torn} => conf.synced \in {0, Now}
  /\ proc[p].pc \in Reporting => Fits(proc[p].draft)
  /\ proc[p].pc \notin Reporting =>
       \/ status = None /\ Now = 0
       \/ status \notin {None, Torn} /\ Fits(status)

IInv ==
  /\ TypeOK
  /\ \A p \in Procs :
       /\ Equipped(p) /\ KnowsTarget(p)
       /\ Alone => FileTarget(p)
       /\ Undisturbed => LastKnown(p)
  /\ Undisturbed => ShowsLastKnown

\* No error while a file is written, of the configuration or of the snapshot,
\* keeps a running agent from its next report ("a failure to write the status
\* snapshot must never take down the agent", status.rs:48-49), as long as
\* run_once returns; on a connection that went silent it does not (Fleet).
KeepsReporting ==
  \A p \in Procs :
    []( proc[p].pc \in Loop /\ crashes = MaxCrashes => []<>(proc[p].pc = "sleep") )

=============================================================================
