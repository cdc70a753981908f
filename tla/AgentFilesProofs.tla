-------------------------- MODULE AgentFilesProofs --------------------------
(***************************************************************************)
(* Proofs about AgentFiles, for any number of processes, targets, ports,   *)
(* check-ins and crashes.  A step of a process changes its own record and  *)
(* the two files; ProcessStep says what has to be shown of one.            *)
(***************************************************************************)
EXTENDS AgentFiles, TLAPS

LEMMA SetsAreApart ==
  /\ None \notin Config /\ None \notin Status /\ None \notin Args
  /\ Torn \notin Config /\ Torn \notin Status
BY FilesAreRecords

LEMMA OffIsProcess == Off \in Process
BY DEF Off, Process, Where, Loop

\* What a process holds at each place.
LEMMA Holds ==
  ASSUME IInv, NEW p \in Procs
  PROVE  /\ proc[p] \in Process
         /\ proc[p].pc # "off" => proc[p].args \in Args
         /\ proc[p].pc \in Configured => proc[p].cfg \in Config
         /\ proc[p].pc \in Reporting => proc[p].draft \in Status
<1>1. proc[p] \in Process
  BY DEF IInv, TypeOK
<1>2. Equipped(p)
  BY DEF IInv
<1> QED BY <1>1, <1>2 DEF Process, Equipped

LEMMA MovesTo ==
  ASSUME TypeOK, NEW p \in Procs, NEW l \in Where, Moves(p, l)
  PROVE  /\ proc' \in [Procs -> Process]
         /\ proc'[p].pc = l /\ proc'[p].args = proc[p].args
         /\ proc'[p].cfg = proc[p].cfg /\ proc'[p].draft = proc[p].draft
         /\ \A q \in Procs : q # p => proc'[q] = proc[q]
<1>1. proc \in [Procs -> Process] /\ proc[p] \in Process
  BY DEF TypeOK
<1>2. [proc[p] EXCEPT !.pc = l] \in Process
  BY <1>1 DEF Process
<1> QED BY <1>1, <1>2 DEF Moves, Process

LEMMA ExitsTo ==
  ASSUME TypeOK, NEW p \in Procs, Exits(p)
  PROVE  /\ proc' \in [Procs -> Process] /\ proc'[p] = Off
         /\ \A q \in Procs : q # p => proc'[q] = proc[q]
BY OffIsProcess DEF TypeOK, Exits

LEMMA ChosenTo ==
  ASSUME TypeOK, NEW p \in Procs, proc[p].args \in Args,
         NEW cfg \in Config, NEW l \in Where, Chosen(p, cfg, l)
  PROVE  /\ proc' \in [Procs -> Process]
         /\ proc'[p].pc = l /\ proc'[p].args = proc[p].args /\ proc'[p].draft = proc[p].draft
         /\ proc'[p].cfg \in Config
         /\ proc'[p].cfg.target = cfg.target /\ proc'[p].cfg.synced = cfg.synced
         /\ \A q \in Procs : q # p => proc'[q] = proc[q]
<1> DEFINE port == IF proc[p].args.port = None THEN cfg.port ELSE proc[p].args.port
           new  == [cfg EXCEPT !.port = port]
<1>1. proc \in [Procs -> Process] /\ proc[p] \in Process
  BY DEF TypeOK
<1>2. port \in Ports
  BY DEF Args, Config
<1> HIDE DEF port
<1>3. new \in Config /\ new.target = cfg.target /\ new.synced = cfg.synced
  BY <1>2 DEF Config
<1>4. proc' = [proc EXCEPT ![p] = [[proc[p] EXCEPT !.pc = l] EXCEPT !.cfg = new]]
  BY <1>1 DEF Chosen, port
<1> HIDE DEF new
<1>5. [[proc[p] EXCEPT !.pc = l] EXCEPT !.cfg = new] \in Process
  BY <1>1, <1>3 DEF Process
<1> QED BY <1>1, <1>3, <1>4, <1>5 DEF Process

LEMMA NewConfigs == ASSUME NEW t \in Given PROVE NewConfig(t) \in Config
BY DefaultIsPort, BoundsAreNumbers DEF NewConfig, Config, Times

LEMMA SavedIsConfig ==
  ASSUME TypeOK, Saved # None
  PROVE  Saved \in Config
BY NewConfigs DEF TypeOK, Saved, Given

\* A step of one process: the invariant is left to show for that process.
LEMMA ProcessStep ==
  ASSUME IInv, NEW p \in Procs,
         proc' \in [Procs -> Process], \A q \in Procs : q # p => proc'[q] = proc[q],
         conf' \in Config \cup {None, Torn}, status' \in Status \cup {None, Torn},
         found' \in Seq(Counts), Len(found') \in Times, crashes' \in Nat, written' \in BOOLEAN,
         Equipped(p)', KnowsTarget(p)', Alone => FileTarget(p)',
         Undisturbed' => LastKnown(p)' /\ ShowsLastKnown'
  PROVE  IInv'
<1>1. TypeOK'
  BY DEF TypeOK
<1>2. ASSUME NEW q \in Procs PROVE Equipped(q)' /\ KnowsTarget(q)'
  <2>1. CASE q = p
    BY <2>1
  <2>2. CASE q # p
    <3>1. proc'[q] = proc[q] /\ Equipped(q) /\ KnowsTarget(q)
      BY <2>2 DEF IInv
    <3> QED BY <3>1 DEF Equipped, KnowsTarget
  <2> QED BY <2>1, <2>2
<1>3. ASSUME NEW q \in Procs, Alone PROVE FileTarget(q)'
  <2>1. q = p
    BY <1>3 DEF Alone
  <2> QED BY <1>3, <2>1
<1>4. ASSUME NEW q \in Procs, Undisturbed' PROVE LastKnown(q)'
  <2>1. q = p
    BY <1>4 DEF Alone, Undisturbed
  <2> QED BY <1>4, <2>1
<1>5. Alone' = Alone
  BY DEF Alone
<1> QED BY <1>1, <1>2, <1>3, <1>4, <1>5 DEF IInv

\* A process that is not configured adds nothing to what is known.
LEMMA Unconfigured ==
  ASSUME IInv, NEW p \in Procs, proc[p].pc \notin Loop,
         proc'[p].pc \in {"off", "resolve", "prompt"},
         proc'[p].pc # "off" => proc'[p].args # None,
         UNCHANGED <<conf, status, found, crashes, written>>
  PROVE  /\ Equipped(p)' /\ KnowsTarget(p)' /\ FileTarget(p)'
         /\ Undisturbed' => LastKnown(p)' /\ ShowsLastKnown'
<1>1. /\ proc'[p].pc \notin Configured /\ proc'[p].pc \notin Reporting
      /\ proc'[p].pc \notin Loop /\ proc'[p].pc # "resolved"
  BY DEF Configured, Reporting, Loop
<1>2. Equipped(p)' /\ KnowsTarget(p)' /\ FileTarget(p)'
  BY <1>1 DEF Equipped, KnowsTarget, FileTarget
<1>3. ASSUME Undisturbed' PROVE LastKnown(p)' /\ ShowsLastKnown'
  <2>1. Undisturbed /\ LastKnown(p) /\ ShowsLastKnown
    BY <1>3 DEF Undisturbed, IInv, Alone
  <2>2. proc[p].pc \notin Reporting /\ proc[p].pc # "save_synced"
    BY DEF Loop, Reporting
  <2>3. LastKnown(p)'
    BY <1>1, <2>1, <2>2 DEF LastKnown, Fits, Now
  <2> QED BY <2>1, <2>3 DEF ShowsLastKnown, Snapshot
<1> QED BY <1>2, <1>3

-----------------------------------------------------------------------------
(* resolve_config.                                                         *)

LEMMA LaunchStep ==
  ASSUME IInv, NEW p \in Procs, NEW args \in Args, Launch(p, args)
  PROVE  IInv'
<1> DEFINE new == [Off EXCEPT !.pc = "resolve", !.args = args]
<1>1. TypeOK /\ proc \in [Procs -> Process]
  BY DEF IInv, TypeOK
<1>2. new \in Process /\ new.pc = "resolve" /\ new.args = args
  BY OffIsProcess DEF Off, Process, Where
<1>3. proc[p].pc = "off" /\ proc' = [proc EXCEPT ![p] = new]
      /\ UNCHANGED <<conf, status, found, crashes, written>>
  BY DEF Launch
<1> HIDE DEF new
<1>4. proc'[p] = new /\ proc' \in [Procs -> Process] /\ \A q \in Procs : q # p => proc'[q] = proc[q]
  BY <1>1, <1>2, <1>3
<1>5. args # None
  BY SetsAreApart
<1>6. /\ Equipped(p)' /\ KnowsTarget(p)' /\ FileTarget(p)'
      /\ Undisturbed' => LastKnown(p)' /\ ShowsLastKnown'
  BY <1>2, <1>3, <1>4, <1>5, Unconfigured DEF Loop
<1> QED BY <1>1, <1>3, <1>4, <1>6, ProcessStep DEF TypeOK

\* A process that exits before its first check-in.
LEMMA EarlyExit ==
  ASSUME IInv, NEW p \in Procs, proc[p].pc \notin Loop, Exits(p),
         UNCHANGED <<conf, status, found, crashes, written>>
  PROVE  IInv'
<1>1. TypeOK
  BY DEF IInv
<1>2. proc'[p] = Off /\ proc' \in [Procs -> Process] /\ \A q \in Procs : q # p => proc'[q] = proc[q]
  BY <1>1, ExitsTo
<1>3. /\ Equipped(p)' /\ KnowsTarget(p)' /\ FileTarget(p)'
      /\ Undisturbed' => LastKnown(p)' /\ ShowsLastKnown'
  BY <1>2, Unconfigured DEF Off
<1> QED BY <1>1, <1>2, <1>3, ProcessStep DEF TypeOK

\* A configuration is chosen: at "save" it came from the user, at "resolved"
\* from the environment or from the file.
LEMMA ChosenStep ==
  ASSUME IInv, NEW p \in Procs, proc[p].pc \in {"resolve", "prompt"},
         NEW cfg \in Config, NEW l \in {"save", "resolved"}, Chosen(p, cfg, l),
         UNCHANGED <<conf, status, found, crashes, written>>,
         proc[p].args.cli = None /\ proc[p].args.env = None => cfg.target # Blank,
         l = "resolved" /\ ~FromEnvironment(p) /\ conf \notin {None, Torn} => conf.target = cfg.target,
         cfg.synced = 0 \/ (conf \notin {None, Torn} /\ cfg.synced = conf.synced)
  PROVE  IInv'
<1>1. TypeOK /\ proc[p].args \in Args /\ l \in Where
  BY Holds DEF IInv, Where
<1>2. /\ proc' \in [Procs -> Process]
      /\ proc'[p].pc = l /\ proc'[p].args = proc[p].args /\ proc'[p].draft = proc[p].draft
      /\ proc'[p].cfg \in Config
      /\ proc'[p].cfg.target = cfg.target /\ proc'[p].cfg.synced = cfg.synced
      /\ \A q \in Procs : q # p => proc'[q] = proc[q]
  BY <1>1, ChosenTo
<1>3. Equipped(p)'
  BY <1>1, <1>2, SetsAreApart DEF Equipped, Reporting
<1>4. KnowsTarget(p)'
  BY <1>2 DEF KnowsTarget
<1>5. FileTarget(p)'
  BY <1>2 DEF FileTarget, FromEnvironment, Loop
<1>6. ASSUME Undisturbed' PROVE LastKnown(p)' /\ ShowsLastKnown'
  <2>1. Undisturbed /\ LastKnown(p) /\ ShowsLastKnown
    BY <1>6 DEF Undisturbed, IInv, Alone
  <2>2. /\ proc'[p].pc \notin Reporting /\ proc'[p].pc # "save_synced"
        /\ proc[p].pc \notin Reporting /\ proc[p].pc # "save_synced"
    BY <1>2 DEF Reporting
  <2>3. proc'[p].cfg.synced \in {0, Now}
    BY <1>2, <2>1, <2>2 DEF LastKnown
  <2>4. LastKnown(p)'
    BY <2>1, <2>2, <2>3 DEF LastKnown, Fits, Now
  <2> QED BY <2>1, <2>4 DEF ShowsLastKnown, Snapshot
<1> QED BY <1>1, <1>2, <1>3, <1>4, <1>5, <1>6, ProcessStep DEF TypeOK

LEMMA ResolveStep ==
  ASSUME IInv, NEW p \in Procs, Resolve(p)
  PROVE  IInv'
<1> DEFINE args == proc[p].args
<1>1. /\ TypeOK /\ args \in Args /\ proc[p].pc = "resolve"
      /\ UNCHANGED <<conf, status, found, crashes, written>>
  BY Holds DEF IInv, Resolve
<1>2. \A t : NewConfig(t).target = t /\ NewConfig(t).synced = 0
  BY DEF NewConfig
<1>3. CASE args.cli # None /\ Chosen(p, NewConfig(args.cli), "save")
  <2>1. NewConfig(args.cli) \in Config
    BY <1>1, <1>3, NewConfigs DEF Args
  <2> QED BY <1>1, <1>2, <1>3, <2>1, ChosenStep
<1>4. CASE args.cli = None /\ args.env # None /\ Chosen(p, NewConfig(args.env), "resolved")
  <2>1. NewConfig(args.env) \in Config
    BY <1>1, <1>4, NewConfigs, EnvsAreGiven DEF Args
  <2> QED BY <1>1, <1>2, <1>4, <2>1, ChosenStep DEF FromEnvironment
<1>5. CASE args.cli = None /\ args.env = None /\ IsConfigured /\ Chosen(p, Saved, "resolved")
  <2>1. Saved \in Config /\ Saved.target # Blank
    BY <1>1, <1>5, SavedIsConfig DEF IsConfigured
  <2>2. conf # Torn /\ Saved = conf
    BY <1>2, <2>1 DEF Saved
  <2>3. conf # None
    BY <2>1, <2>2, SetsAreApart
  <2> QED BY <1>1, <1>5, <2>1, <2>2, <2>3, ChosenStep
<1>6. CASE /\ args.cli = None /\ args.env = None /\ ~IsConfigured
           /\ IF args.mode = "show" THEN Exits(p) ELSE Moves(p, "prompt")
  <2>1. CASE Exits(p)
    BY <1>1, <2>1, EarlyExit DEF Loop
  <2>2. CASE Moves(p, "prompt")
    <3>1. "prompt" \in Where
      BY DEF Where
    <3>2. /\ proc' \in [Procs -> Process]
          /\ proc'[p].pc = "prompt" /\ proc'[p].args = args
          /\ \A q \in Procs : q # p => proc'[q] = proc[q]
      BY <1>1, <2>2, <3>1, MovesTo
    <3>3. /\ Equipped(p)' /\ KnowsTarget(p)' /\ FileTarget(p)'
          /\ Undisturbed' => LastKnown(p)' /\ ShowsLastKnown'
      BY <1>1, <3>2, SetsAreApart, Unconfigured DEF Loop
    <3> QED BY <1>1, <3>2, <3>3, ProcessStep DEF TypeOK
  <2> QED BY <1>6, <2>1, <2>2
<1> QED BY <1>3, <1>4, <1>5, <1>6 DEF Resolve

LEMMA AnswerPromptStep ==
  ASSUME IInv, NEW p \in Procs, NEW t \in Targets, AnswerPrompt(p, t)
  PROVE  IInv'
<1>1. NewConfig(t) \in Config /\ NewConfig(t).target = t /\ NewConfig(t).synced = 0
  BY NewConfigs DEF Given, NewConfig
<1>2. t # Blank
  BY EnvsAreGiven
<1> QED BY <1>1, <1>2, ChosenStep DEF AnswerPrompt

LEMMA CancelPromptStep ==
  ASSUME IInv, NEW p \in Procs, CancelPrompt(p)
  PROVE  IInv'
BY EarlyExit DEF CancelPrompt, Loop

-----------------------------------------------------------------------------
(* config::save and the rest of main.                                      *)

\* A process moves on, everything it holds unchanged.
LEMMA MovingStep ==
  ASSUME IInv, NEW p \in Procs, NEW l \in Where \ {"off"}, Moves(p, l), proc[p].pc # "off",
         l \in Configured => proc[p].pc \in Configured,
         l \in Reporting => proc[p].pc \in Reporting,
         conf' \in Config \cup {None, Torn}, status' \in Status \cup {None, Torn},
         crashes' = crashes, found' = found, written' \in BOOLEAN,
         FileTarget(p)', Undisturbed' => LastKnown(p)' /\ ShowsLastKnown'
  PROVE  IInv'
<1>1. TypeOK /\ Equipped(p) /\ KnowsTarget(p)
  BY DEF IInv
<1>2. /\ proc' \in [Procs -> Process]
      /\ proc'[p].pc = l /\ proc'[p].args = proc[p].args
      /\ proc'[p].cfg = proc[p].cfg /\ proc'[p].draft = proc[p].draft
      /\ \A q \in Procs : q # p => proc'[q] = proc[q]
  BY <1>1, MovesTo
<1>3. Equipped(p)' /\ KnowsTarget(p)'
  BY <1>1, <1>2 DEF Equipped, KnowsTarget
<1> QED BY <1>1, <1>2, <1>3, ProcessStep DEF TypeOK

LEMMA SaveEmptiesStep ==
  ASSUME IInv, NEW p \in Procs, SaveEmpties(p)
  PROVE  IInv'
<1> DEFINE l == SaveNext[proc[p].pc]
<1>1. TypeOK
  BY DEF IInv
<1>2. /\ conf' = Torn /\ Moves(p, l)
      /\ UNCHANGED <<status, found, crashes, written>>
  BY DEF SaveEmpties
<1>3. \/ proc[p].pc = "save" /\ l = "write"
      \/ proc[p].pc = "resave" /\ l = "rewrite"
      \/ proc[p].pc = "save_synced" /\ l = "write_synced"
  BY DEF SaveEmpties, SaveNext
<1> HIDE DEF l
<1>4. /\ proc'[p].pc = l /\ proc'[p].cfg = proc[p].cfg /\ proc'[p].draft = proc[p].draft
  BY <1>1, <1>2, <1>3, MovesTo DEF Where, Loop
<1>5. FileTarget(p)'
  BY <1>2 DEF FileTarget
<1>6. ASSUME Undisturbed' PROVE LastKnown(p)' /\ ShowsLastKnown'
  <2>1. Undisturbed /\ LastKnown(p) /\ ShowsLastKnown
    BY <1>2, <1>6 DEF Undisturbed, IInv, Alone
  <2>2. ShowsLastKnown'
    BY <1>2, <2>1 DEF ShowsLastKnown, Snapshot
  <2>3. LastKnown(p)'
    BY <1>2, <1>3, <1>4, <2>1 DEF LastKnown, Fits, Loop, Reporting, Configured, Now
  <2> QED BY <2>2, <2>3
<1> QED BY <1>1, <1>2, <1>3, <1>5, <1>6, MovingStep
        DEF Where, Loop, Configured, Reporting, TypeOK

LEMMA SaveFillsStep ==
  ASSUME IInv, NEW p \in Procs, SaveFills(p)
  PROVE  IInv'
<1>1. TypeOK /\ proc[p].cfg \in Config
  BY Holds DEF IInv, SaveFills, Configured, Loop
<1>2. conf' = proc[p].cfg /\ UNCHANGED <<status, found, crashes, written>>
  BY DEF SaveFills
<1>3. ASSUME Undisturbed' PROVE Undisturbed /\ LastKnown(p) /\ ShowsLastKnown /\ ShowsLastKnown'
  <2>1. Undisturbed /\ LastKnown(p) /\ ShowsLastKnown
    BY <1>2, <1>3 DEF Undisturbed, IInv, Alone
  <2> QED BY <1>2, <2>1 DEF ShowsLastKnown, Snapshot
<1>4. CASE proc[p].pc = "write" /\ Moves(p, "resolved")
  <2>1. proc'[p].pc = "resolved" /\ proc'[p].cfg = proc[p].cfg
    BY <1>1, <1>4, MovesTo DEF Where
  <2>2. FileTarget(p)'
    BY <1>2, <2>1 DEF FileTarget
  <2>3. ASSUME Undisturbed' PROVE LastKnown(p)'
    BY <1>2, <1>3, <1>4, <2>1, <2>3 DEF LastKnown, Fits, Reporting, Configured, Now
  <2> QED BY <1>1, <1>2, <1>3, <1>4, <2>2, <2>3, MovingStep
          DEF Where, Loop, Configured, Reporting, TypeOK
<1>5. CASE proc[p].pc = "write_synced" /\ Moves(p, "report")
  <2>1. /\ proc'[p].pc = "report" /\ proc'[p].cfg = proc[p].cfg
        /\ proc'[p].draft = proc[p].draft
    BY <1>1, <1>5, MovesTo DEF Where, Loop
  <2>2. FileTarget(p)'
    BY <1>2, <2>1 DEF FileTarget
  <2>3. ASSUME Undisturbed' PROVE LastKnown(p)'
    BY <1>2, <1>3, <1>5, <2>1, <2>3 DEF LastKnown, Fits, Loop, Reporting, Configured, Now
  <2> QED BY <1>1, <1>2, <1>3, <1>5, <2>2, <2>3, MovingStep
          DEF Where, Loop, Configured, Reporting, TypeOK
<1>6. CASE proc[p].pc = "rewrite" /\ Exits(p)
  <2>1. proc'[p] = Off /\ proc' \in [Procs -> Process] /\ \A q \in Procs : q # p => proc'[q] = proc[q]
    BY <1>1, <1>6, ExitsTo
  <2>2. Off.pc = "off"
    BY DEF Off
  <2>3. Equipped(p)' /\ KnowsTarget(p)' /\ FileTarget(p)'
    BY <2>1, <2>2 DEF Equipped, KnowsTarget, FileTarget, Configured, Reporting, Loop
  <2>4. ASSUME Undisturbed' PROVE LastKnown(p)'
    BY <1>2, <1>3, <1>6, <2>1, <2>2, <2>4
       DEF LastKnown, Fits, Loop, Reporting, Configured, Now
  <2> QED BY <1>1, <1>2, <1>3, <2>1, <2>3, <2>4, ProcessStep DEF TypeOK
<1> QED BY <1>4, <1>5, <1>6 DEF SaveFills

LEMMA SaveFailsStep ==
  ASSUME IInv, NEW p \in Procs, SaveFails(p)
  PROVE  IInv'
<1>1. TypeOK /\ written' = FALSE /\ UNCHANGED <<conf, status, found, crashes>>
  BY DEF IInv, SaveFails
<1>2. ~Undisturbed'
  BY <1>1 DEF Undisturbed
<1>3. CASE Exits(p)
  <2>1. proc'[p] = Off /\ proc' \in [Procs -> Process] /\ \A q \in Procs : q # p => proc'[q] = proc[q]
    BY <1>1, <1>3, ExitsTo
  <2>2. Off.pc = "off"
    BY DEF Off
  <2>3. Equipped(p)' /\ KnowsTarget(p)' /\ FileTarget(p)'
    BY <2>1, <2>2 DEF Equipped, KnowsTarget, FileTarget, Configured, Reporting, Loop
  <2> QED BY <1>1, <1>2, <2>1, <2>3, ProcessStep DEF TypeOK
<1>4. CASE proc[p].pc \in {"save_synced", "write_synced"} /\ Moves(p, "report")
  <2>1. proc'[p].cfg = proc[p].cfg /\ proc'[p].args = proc[p].args
    BY <1>1, <1>4, MovesTo DEF Where, Loop
  <2>2. ~Alone \/ FileTarget(p)
    BY DEF IInv
  <2>3. /\ proc' \in [Procs -> Process] /\ proc'[p].pc = "report"
        /\ proc'[p].draft = proc[p].draft
        /\ \A q \in Procs : q # p => proc'[q] = proc[q]
    BY <1>1, <1>4, MovesTo DEF Where, Loop
  <2>4. Equipped(p)' /\ KnowsTarget(p)'
    <3>1. Equipped(p) /\ KnowsTarget(p)
      BY DEF IInv
    <3> QED BY <1>4, <2>1, <2>3, <3>1 DEF Equipped, KnowsTarget, Configured, Loop, Reporting
  <2>5. Alone => FileTarget(p)'
    BY <1>1, <1>4, <2>1, <2>2, <2>3 DEF FileTarget, FromEnvironment, Loop
  <2> QED BY <1>1, <1>2, <2>3, <2>4, <2>5, ProcessStep DEF TypeOK
<1> QED BY <1>3, <1>4 DEF SaveFails

LEMMA ProceedStep ==
  ASSUME IInv, NEW p \in Procs, Proceed(p)
  PROVE  IInv'
<1>1. /\ TypeOK /\ proc[p].pc = "resolved"
      /\ UNCHANGED <<conf, status, found, crashes, written>>
  BY DEF IInv, Proceed
<1>2. CASE Exits(p)
  BY <1>1, <1>2, EarlyExit DEF Loop
<1>3. ASSUME NEW l \in {"resave", "ready"}, Moves(p, l) PROVE IInv'
  <2>1. /\ proc' \in [Procs -> Process] /\ proc'[p].pc = l
        /\ proc'[p].args = proc[p].args
        /\ proc'[p].cfg = proc[p].cfg /\ proc'[p].draft = proc[p].draft
        /\ \A q \in Procs : q # p => proc'[q] = proc[q]
    BY <1>1, <1>3, MovesTo DEF Where, Loop
  <2>2. Equipped(p)' /\ KnowsTarget(p)'
    <3>1. Equipped(p) /\ KnowsTarget(p)
      BY DEF IInv
    <3> QED BY <1>1, <2>1, <3>1 DEF Equipped, KnowsTarget, Configured, Loop, Reporting
  <2>3. Alone => FileTarget(p)'
    BY <1>1, <2>1 DEF IInv, FileTarget, FromEnvironment, Loop
  <2>4. ASSUME Undisturbed' PROVE LastKnown(p)' /\ ShowsLastKnown'
    <3>1. LastKnown(p) /\ ShowsLastKnown
      BY <1>1, <2>4 DEF Undisturbed, IInv, Alone
    <3>2. ShowsLastKnown'
      BY <1>1, <3>1 DEF ShowsLastKnown, Snapshot
    <3>3. LastKnown(p)'
      BY <1>1, <2>1, <3>1 DEF LastKnown, Fits, Configured, Loop, Reporting, Now
    <3> QED BY <3>2, <3>3
  <2> QED BY <1>1, <2>1, <2>2, <2>3, <2>4, ProcessStep DEF TypeOK
<1> QED BY <1>1, <1>2, <1>3 DEF Proceed

-----------------------------------------------------------------------------
(* run_checkin_scheduler.                                                  *)

\* A check-in leaves the process with new values for its memory and its draft.
LEMMA CheckinStep ==
  ASSUME IInv, NEW p \in Procs, proc[p].pc = "ready",
         NEW l \in {"save_synced", "report"}, NEW s \in Times, NEW d \in Status,
         proc' = [proc EXCEPT ![p].pc = l, ![p].cfg.synced = s, ![p].draft = d],
         UNCHANGED <<conf, status, crashes, written>>,
         found' \in Seq(Counts), Len(found') \in Times,
         Undisturbed' => /\ s \in {0, Now'} /\ (l = "report" => Now' = Now)
                         /\ d.at = s /\ (Now' > 0 => d.count = found'[Now'])
                         /\ ShowsLastKnown'
  PROVE  IInv'
<1> DEFINE old == proc[p]
           cfg == [old.cfg EXCEPT !.synced = s]
           new == [old EXCEPT !.pc = l, !.cfg = cfg, !.draft = d]
<1>1. TypeOK /\ proc \in [Procs -> Process] /\ old \in Process
  BY DEF IInv, TypeOK
<1>2. old.cfg \in Config /\ old.args \in Args
  BY Holds DEF Configured, Loop
<1>3. cfg \in Config /\ cfg.target = old.cfg.target /\ cfg.synced = s
  BY <1>2 DEF Config
<1> HIDE DEF cfg
<1>4. l \in Where
  BY DEF Where, Loop
<1>5. /\ new \in Process /\ new.pc = l /\ new.args = old.args
      /\ new.cfg = cfg /\ new.draft = d
  BY <1>1, <1>3, <1>4 DEF Process
<1>6. proc' = [proc EXCEPT ![p] = new]
  BY <1>1 DEF cfg, Process
<1> HIDE DEF new
<1>7. /\ proc' \in [Procs -> Process] /\ proc'[p] = new
      /\ \A q \in Procs : q # p => proc'[q] = proc[q]
  <2>1. proc \in [Procs -> Process] /\ new \in Process
    BY <1>1, <1>5
  <2> QED BY <1>6, <2>1
<1>8. Equipped(p)' /\ KnowsTarget(p)'
  <2>1. KnowsTarget(p)
    BY DEF IInv
  <2>2. KnowsTarget(p)'
    BY <1>3, <1>5, <1>7, <2>1 DEF KnowsTarget, Configured, Loop
  <2>3. cfg # None /\ d # None /\ old.args # None
    BY <1>2, <1>3, SetsAreApart
  <2>4. proc'[p].cfg = cfg /\ proc'[p].draft = d /\ proc'[p].args = old.args
    BY <1>5, <1>7
  <2>5. Equipped(p)'
    BY <2>3, <2>4 DEF Equipped
  <2> QED BY <2>2, <2>5
<1>9. Alone => FileTarget(p)'
  BY <1>3, <1>5, <1>7 DEF IInv, FileTarget, FromEnvironment, Loop
<1>10. ASSUME Undisturbed' PROVE LastKnown(p)' /\ ShowsLastKnown'
  <2>1. LastKnown(p)
    BY <1>10 DEF Undisturbed, Alone, IInv
  <2>2. proc'[p].pc = l /\ proc'[p].cfg.synced = s /\ proc'[p].draft = d
    BY <1>3, <1>5, <1>7
  <2>3. /\ s \in {0, Now'} /\ (l = "report" => Now' = Now)
        /\ d.at = s /\ (Now' > 0 => d.count = found'[Now']) /\ ShowsLastKnown'
    BY <1>10
  <2>4. Fits(proc[p].draft)'
    BY <2>2, <2>3 DEF Fits
  <2>5. l # "save_synced" /\ conf' \notin {None, Torn} => conf'.synced \in {0, Now'}
    BY <2>1, <2>3 DEF LastKnown
  <2>6. l \in Reporting
    BY DEF Reporting
  <2> QED BY <2>2, <2>3, <2>4, <2>5, <2>6 DEF LastKnown
<1> QED BY <1>1, <1>7, <1>8, <1>9, <1>10, ProcessStep DEF TypeOK

LEMMA CheckinSucceedsStep ==
  ASSUME IInv, NEW p \in Procs, NEW n \in Counts, CheckinSucceeds(p, n)
  PROVE  IInv'
<1> DEFINE d == [connected |-> TRUE, at |-> Now + 1, count |-> n]
<1>1. /\ TypeOK /\ proc[p].pc = "ready" /\ Now < MaxCheckins /\ found' = Append(found, n)
      /\ proc' = [proc EXCEPT ![p].pc = "save_synced", ![p].cfg.synced = Now + 1, ![p].draft = d]
      /\ UNCHANGED <<conf, status, crashes, written>>
  BY DEF IInv, CheckinSucceeds
<1>2. Now \in Nat /\ Now + 1 \in Times
  BY <1>1, BoundsAreNumbers DEF TypeOK, Times, Now
<1>3. d \in Status /\ d.at = Now + 1 /\ d.count = n
  BY <1>2 DEF Status
<1>4. /\ found' \in Seq(Counts) /\ Len(found') = Now + 1 /\ found'[Now + 1] = n
      /\ \A i \in 1 .. Now : found'[i] = found[i]
  BY <1>1 DEF TypeOK, Now
<1>5. Now' = Now + 1 /\ d.at = Now' /\ d.count = found'[Now']
  BY <1>3, <1>4 DEF Now
<1>6. ASSUME Undisturbed' PROVE ShowsLastKnown'
  <2>1. LastKnown(p) /\ ShowsLastKnown
    BY <1>1, <1>6 DEF Undisturbed, IInv, Alone
  <2>2. \/ status = None /\ Now = 0
        \/ status \notin {None, Torn} /\ status.at \in {0, Now}
    BY <1>1, <2>1 DEF LastKnown, Fits, Reporting
  <2> QED BY <1>1, <1>2, <1>4, <2>1, <2>2 DEF ShowsLastKnown, Snapshot
<1> HIDE DEF d
<1>7. found' \in Seq(Counts) /\ Len(found') \in Times
  BY <1>2, <1>4
<1>8. proc[p].pc = "ready" /\ Now + 1 \in Times /\ d \in Status
  BY <1>1, <1>2, <1>3
<1> DEFINE l == "save_synced"
           s == Now + 1
<1>9. /\ l \in {"save_synced", "report"} /\ s \in Times
       /\ proc' = [proc EXCEPT ![p].pc = l, ![p].cfg.synced = s, ![p].draft = d]
       /\ UNCHANGED <<conf, status, crashes, written>>
  BY <1>1, <1>8
<1>10. Undisturbed' => /\ s \in {0, Now'} /\ (l = "report" => Now' = Now)
                       /\ d.at = s /\ (Now' > 0 => d.count = found'[Now'])
                       /\ ShowsLastKnown'
  BY <1>3, <1>5, <1>6
<1> HIDE DEF l, s
<1> QED BY <1>7, <1>8, <1>9, <1>10, CheckinStep

LEMMA CheckinFailsStep ==
  ASSUME IInv, NEW p \in Procs, CheckinFails(p)
  PROVE  IInv'
<1> DEFINE old == proc[p]
           s == old.cfg.synced
           d == [connected |-> FALSE, at |-> s, count |-> Snapshot.count]
<1>1. /\ TypeOK /\ old.pc = "ready"
      /\ proc' = [proc EXCEPT ![p].pc = "report", ![p].draft = d]
      /\ UNCHANGED <<conf, status, found, crashes, written>>
  BY DEF IInv, CheckinFails
<1>2. old \in Process /\ old.cfg \in Config /\ proc \in [Procs -> Process]
  BY <1>1, Holds DEF Configured, Loop, TypeOK
<1>3. s \in Times
  BY <1>2 DEF Config
<1>4. Snapshot.count \in Counts
  BY <1>1 DEF Snapshot, TypeOK, Status, Counts
<1>5. d \in Status /\ d.at = s /\ d.count = Snapshot.count
  BY <1>3, <1>4 DEF Status
<1>6. proc' = [proc EXCEPT ![p].pc = "report", ![p].cfg.synced = s, ![p].draft = d]
  <2>1. [old.cfg EXCEPT !.synced = s] = old.cfg
    BY <1>2 DEF Config
  <2>2. [old EXCEPT !.pc = "report", !.draft = d]
          = [old EXCEPT !.pc = "report", !.cfg = old.cfg, !.draft = d]
    BY <1>2 DEF Process
  <2> HIDE DEF d
  <2> QED BY <1>1, <1>2, <2>1, <2>2 DEF Process
<1>7. Now' = Now
  BY <1>1 DEF Now
<1>8. ASSUME Undisturbed
      PROVE  s \in {0, Now} /\ (Now > 0 => Snapshot.count = found[Now]) /\ ShowsLastKnown
  <2>1. LastKnown(p) /\ ShowsLastKnown /\ proc[p].pc = "ready"
    BY <1>1, <1>8 DEF Undisturbed, IInv, Alone
  <2>2. \/ status = None /\ Now = 0
        \/ status \notin {None, Torn} /\ Fits(status)
    BY <2>1 DEF LastKnown, Reporting
  <2>3. proc[p].cfg.synced \in {0, Now}
    BY <2>1 DEF LastKnown, Configured, Loop
  <2>4. Now > 0 => Snapshot.count = found[Now]
    BY <2>2 DEF Fits, Snapshot
  <2> QED BY <2>1, <2>3, <2>4
<1>9. Undisturbed' = Undisturbed /\ ShowsLastKnown' = ShowsLastKnown
  BY <1>1 DEF Undisturbed, Alone, ShowsLastKnown, Snapshot
<1> HIDE DEF d, s, old
<1>10. Undisturbed' => /\ s \in {0, Now'} /\ Now' = Now
                       /\ d.at = s /\ (Now' > 0 => d.count = found'[Now'])
                       /\ ShowsLastKnown'
  BY <1>1, <1>5, <1>7, <1>8, <1>9
<1>11. proc[p].pc = "ready"
  BY <1>1 DEF old
<1>12. found' \in Seq(Counts) /\ Len(found') \in Times /\ UNCHANGED <<conf, status, crashes, written>>
  BY <1>1 DEF TypeOK
<1>13. d \in Status
  BY <1>5
<1> QED BY <1>3, <1>6, <1>10, <1>11, <1>12, <1>13, CheckinStep

LEMMA StatusWriteStep ==
  ASSUME IInv, NEW p \in Procs, StatusWrite(p)
  PROVE  IInv'
<1>1. /\ TypeOK /\ proc[p].pc \in {"report", "write_status"}
      /\ UNCHANGED <<conf, found, crashes>>
  BY DEF IInv, StatusWrite
<1>2. proc[p].draft \in Status
  BY <1>1, Holds DEF Reporting
<1>3. \/ Moves(p, "write_status") /\ status' = Torn /\ written' = written
      \/ Moves(p, "sleep") /\ written' = FALSE /\ status' = status
      \/ Moves(p, "sleep") /\ status' = proc[p].draft /\ written' = written
  BY DEF StatusWrite
<1>4. PICK l \in {"write_status", "sleep"} : Moves(p, l)
  BY <1>3
<1>5. /\ proc' \in [Procs -> Process]
      /\ proc'[p].pc = l /\ proc'[p].args = proc[p].args
      /\ proc'[p].cfg = proc[p].cfg /\ proc'[p].draft = proc[p].draft
      /\ \A q \in Procs : q # p => proc'[q] = proc[q]
  BY <1>1, <1>4, MovesTo DEF Where, Loop
<1>6. Equipped(p)' /\ KnowsTarget(p)'
  <2>1. Equipped(p) /\ KnowsTarget(p)
    BY DEF IInv
  <2> QED BY <1>1, <1>5, <2>1 DEF Equipped, KnowsTarget, Configured, Loop, Reporting
<1>7. Alone => FileTarget(p)'
  BY <1>1, <1>5 DEF IInv, FileTarget, FromEnvironment, Loop
<1>8. ASSUME Undisturbed' PROVE LastKnown(p)' /\ ShowsLastKnown'
  <2>1. written' /\ written
    BY <1>3, <1>8 DEF Undisturbed, TypeOK
  <2>2. LastKnown(p)
    BY <1>1, <1>8, <2>1 DEF Undisturbed, IInv, Alone
  <2>3. /\ proc[p].cfg.synced \in {0, Now} /\ Fits(proc[p].draft)
        /\ conf \notin {None, Torn} => conf.synced \in {0, Now}
    BY <1>1, <2>2 DEF LastKnown, Configured, Loop, Reporting
  <2>4. CASE Moves(p, "write_status") /\ status' = Torn
    <3>1. proc'[p].pc = "write_status"
      BY <1>1, <2>4, MovesTo DEF Where, Loop
    <3> QED BY <1>1, <1>5, <2>3, <2>4, <3>1
            DEF LastKnown, ShowsLastKnown, Snapshot, Fits, Loop, Reporting, Configured, Now
  <2>5. CASE Moves(p, "sleep") /\ status' = proc[p].draft
    <3>1. proc'[p].pc = "sleep"
      BY <1>1, <2>5, MovesTo DEF Where, Loop
    <3>2. status' \notin {None, Torn}
      BY <1>2, <2>5, SetsAreApart
    <3> QED BY <1>1, <1>5, <2>3, <2>5, <3>1, <3>2
            DEF LastKnown, ShowsLastKnown, Snapshot, Fits, Loop, Reporting, Configured, Now
  <2> QED BY <1>3, <2>1, <2>4, <2>5
<1> QED BY <1>1, <1>2, <1>3, <1>5, <1>6, <1>7, <1>8, ProcessStep DEF TypeOK

LEMMA WakeStep ==
  ASSUME IInv, NEW p \in Procs, Wake(p)
  PROVE  IInv'
<1>1. /\ TypeOK /\ proc[p].pc = "sleep" /\ Moves(p, "ready")
      /\ UNCHANGED <<conf, status, found, crashes, written>>
  BY DEF IInv, Wake
<1>2. /\ proc' \in [Procs -> Process]
      /\ proc'[p].pc = "ready" /\ proc'[p].args = proc[p].args
      /\ proc'[p].cfg = proc[p].cfg /\ proc'[p].draft = proc[p].draft
      /\ \A q \in Procs : q # p => proc'[q] = proc[q]
  BY <1>1, MovesTo DEF Where, Loop
<1>3. Equipped(p)' /\ KnowsTarget(p)'
  <2>1. Equipped(p) /\ KnowsTarget(p)
    BY DEF IInv
  <2> QED BY <1>1, <1>2, <2>1 DEF Equipped, KnowsTarget, Configured, Loop, Reporting
<1>4. Alone => FileTarget(p)'
  BY <1>1, <1>2 DEF IInv, FileTarget, FromEnvironment, Loop
<1>5. ASSUME Undisturbed' PROVE LastKnown(p)' /\ ShowsLastKnown'
  <2>1. LastKnown(p) /\ ShowsLastKnown
    BY <1>1, <1>5 DEF Undisturbed, IInv, Alone
  <2> QED BY <1>1, <1>2, <2>1 DEF LastKnown, ShowsLastKnown, Snapshot, Fits, Loop, Reporting, Configured, Now
<1> QED BY <1>1, <1>2, <1>3, <1>4, <1>5, ProcessStep DEF TypeOK

-----------------------------------------------------------------------------
(* The editor and crashes.                                                 *)

LEMMA EditStep ==
  ASSUME IInv, NEW t \in Given, Edit(t)
  PROVE  IInv'
<1>1. /\ TypeOK /\ conf \in Config /\ conf' = [conf EXCEPT !.target = t]
      /\ UNCHANGED <<status, proc, found, crashes, written>>
  BY DEF IInv, TypeOK, Edit
<1>2. conf' \in Config /\ conf'.synced = conf.synced
  BY <1>1 DEF Config
<1>3. TypeOK'
  BY <1>1, <1>2 DEF TypeOK
<1>4. ASSUME NEW p \in Procs PROVE Equipped(p)' /\ KnowsTarget(p)'
  BY <1>1 DEF IInv, Equipped, KnowsTarget
<1>5. ASSUME NEW p \in Procs, Alone PROVE proc[p].pc = "off"
  BY <1>5 DEF Edit, Alone
<1>6. ASSUME NEW p \in Procs, Alone PROVE FileTarget(p)'
  BY <1>1, <1>5, <1>6 DEF FileTarget, Loop
<1>7. ASSUME NEW p \in Procs, Undisturbed' PROVE LastKnown(p)'
  <2>1. LastKnown(p) /\ proc[p].pc = "off"
    BY <1>1, <1>5, <1>7 DEF Undisturbed, IInv, Alone
  <2>2. conf \notin {None, Torn}
    BY <1>1, SetsAreApart
  <2> QED BY <1>1, <1>2, <2>1, <2>2 DEF LastKnown, Fits, Loop, Reporting, Configured, Now
<1>8. Undisturbed' => ShowsLastKnown'
  BY <1>1 DEF IInv, Undisturbed, Alone, ShowsLastKnown, Snapshot
<1>9. Alone' = Alone
  BY DEF Alone
<1> QED BY <1>3, <1>4, <1>6, <1>7, <1>8, <1>9 DEF IInv

\* A crash outside a report leaves the files as they fit.
LEMMA CrashStep ==
  ASSUME IInv, NEW p \in Procs, Crash(p)
  PROVE  IInv'
<1>1. /\ TypeOK /\ crashes' = crashes + 1 /\ Exits(p)
      /\ written' = (written /\ proc[p].pc \notin Reporting)
      /\ UNCHANGED <<conf, status, found>>
  BY DEF IInv, Crash
<1>2. crashes' \in Nat /\ written' \in BOOLEAN
  BY <1>1 DEF TypeOK
<1>3. proc'[p] = Off /\ proc' \in [Procs -> Process] /\ \A q \in Procs : q # p => proc'[q] = proc[q]
  BY <1>1, ExitsTo
<1>4. Off.pc = "off"
  BY DEF Off
<1>5. Equipped(p)' /\ KnowsTarget(p)' /\ FileTarget(p)'
  BY <1>3, <1>4 DEF Equipped, KnowsTarget, FileTarget, Configured, Reporting, Loop
<1>6. ASSUME Undisturbed' PROVE LastKnown(p)' /\ ShowsLastKnown'
  <2>1. written /\ proc[p].pc \notin Reporting
    BY <1>1, <1>6 DEF Undisturbed
  <2>2. LastKnown(p) /\ ShowsLastKnown
    BY <1>6, <2>1 DEF Undisturbed, Alone, IInv
  <2>3. proc[p].pc # "save_synced"
    BY <2>1 DEF Reporting
  <2>4. LastKnown(p)'
    BY <1>1, <1>3, <1>4, <2>1, <2>2, <2>3 DEF LastKnown, Fits, Configured, Loop, Reporting, Now
  <2> QED BY <1>1, <2>2, <2>4 DEF ShowsLastKnown, Snapshot
<1> QED BY <1>1, <1>2, <1>3, <1>5, <1>6, ProcessStep DEF TypeOK

-----------------------------------------------------------------------------
LEMMA InitIInv == Init => IInv
<1> SUFFICES ASSUME Init PROVE IInv
  OBVIOUS
<1>1. found = <<>> /\ <<>> \in Seq(Counts) /\ Len(<<>>) = 0 /\ 0 \in Times
  BY BoundsAreNumbers DEF Init, Times
<1>2. TypeOK
  BY <1>1, OffIsProcess DEF Init, TypeOK
<1>3. ASSUME NEW p \in Procs
      PROVE  Equipped(p) /\ KnowsTarget(p) /\ FileTarget(p) /\ LastKnown(p)
  <2>1. proc[p] = Off /\ Off.pc = "off" /\ conf = None /\ status = None
    BY DEF Init, Off
  <2> QED BY <1>1, <2>1 DEF Equipped, KnowsTarget, FileTarget, LastKnown, Fits, Now,
                            Loop, Configured, Reporting
<1>4. ShowsLastKnown
  BY DEF Init, ShowsLastKnown, Snapshot
<1> QED BY <1>2, <1>3, <1>4 DEF IInv

LEMMA StepIInv == IInv /\ [Next]_vars => IInv'
<1> SUFFICES ASSUME IInv, [Next]_vars PROVE IInv'
  OBVIOUS
<1>1. ASSUME NEW p \in Procs, AgentStep(p) PROVE IInv'
  BY <1>1, ResolveStep, ProceedStep, SaveEmptiesStep, SaveFillsStep, SaveFailsStep,
     CheckinFailsStep, CheckinSucceedsStep, StatusWriteStep, WakeStep
     DEF AgentStep, Starting, Saving, Checkin
<1>2. ASSUME NEW p \in Procs, UserStep(p) PROVE IInv'
  BY <1>2, LaunchStep, AnswerPromptStep, CancelPromptStep DEF UserStep
<1>3. ASSUME NEW p \in Procs, Crash(p) PROVE IInv'
  BY <1>3, CrashStep
<1>4. ASSUME NEW t \in Given, Edit(t) PROVE IInv'
  BY <1>4, EditStep
<1>5. CASE UNCHANGED vars
  BY <1>5 DEF vars, IInv, TypeOK, Equipped, KnowsTarget, Alone, FileTarget, FromEnvironment,
              Undisturbed, LastKnown, Fits, ShowsLastKnown, Snapshot, Now
<1> QED BY <1>1, <1>2, <1>3, <1>4, <1>5 DEF Next

-----------------------------------------------------------------------------
\* The inductive invariant of the agent's files: at every place a process holds
\* what the code there reads, its target is what the file says, and a lone
\* agent's memory, draft and snapshot agree (config.rs, status.rs, main.rs).
THEOREM FilesInvariant == Spec => []IInv
<1>1. Init => IInv
  BY InitIInv
<1>2. IInv /\ [Next]_vars => IInv'
  BY StepIInv
<1> QED BY <1>1, <1>2, PTL DEF Spec

\* Types: each file is missing, emptied or a record of the right kind, and each
\* process is at a place of the code with what it holds there.
THEOREM FilesTypes == Spec => []TypeOK
<1>1. IInv => TypeOK
  BY DEF IInv
<1> QED BY <1>1, FilesInvariant, PTL

\* No agent that took its target from the file or the dialog runs with a blank
\* host or workspace, for any number of processes, edits and crashes
\* (config.rs:111-113).
THEOREM AgentsKnowTheirTarget == Spec => []NeverRunsBlank
<1>1. IInv => NeverRunsBlank
  <2> SUFFICES ASSUME IInv, NEW p \in Procs,
                      proc[p].pc \in Loop, proc[p].args.cli = None, ~FromEnvironment(p)
               PROVE  proc[p].cfg.target # Blank
    BY DEF NeverRunsBlank
  <2>1. KnowsTarget(p)
    BY DEF IInv
  <2> QED BY <2>1 DEF KnowsTarget, FromEnvironment, Configured
<1> QED BY <1>1, FilesInvariant, PTL

\* The configuration on the device names what a lone agent runs with, while no
\* values come from the environment and nobody edits the file under a running
\* agent (config.rs:11-12).
THEOREM TheFileIsInspectable == Spec => []FileShowsTarget
<1>1. IInv => FileShowsTarget
  BY DEF IInv, FileShowsTarget, FileTarget
<1> QED BY <1>1, FilesInvariant, PTL

\* An outage leaves the status window with what the last answered check-in
\* found, across restarts and new configurations, while no report was cut short
\* by a failing write or a crash (main.rs:258-260).
THEOREM TheWindowShowsTheLastKnown == Spec => []OutageShowsLastKnown
<1>1. IInv => OutageShowsLastKnown
  BY DEF IInv, OutageShowsLastKnown
<1> QED BY <1>1, FilesInvariant, PTL

=============================================================================
