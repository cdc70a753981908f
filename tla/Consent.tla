------------------------------ MODULE Consent ------------------------------
(***************************************************************************)
(* The agent asks the user about each finding of an answered check-in, one *)
(* after the other, before it reports the check-in.  Each question is a    *)
(* helper process of its own that shows a dialog.  The agent waits for it  *)
(* no longer than a timeout, but does not end it: the dialog stays, and    *)
(* its answer, given late, goes to a pipe that nobody reads.               *)
(***************************************************************************)
EXTENDS Naturals, Sequences

CONSTANTS
  Apps,          \* what a finding is about
  Responses,     \* the lists of findings a server may answer with
  MaxCheckins,   \* bound: answered check-ins
  MaxStops       \* bound: ends of the agent process

ASSUME ResponsesAreLists == Responses \subseteq Seq(Apps)
ASSUME BoundsAreNumbers  == MaxCheckins \in Nat /\ MaxStops \in Nat

VARIABLES
  pc,         \* the scheduler: "idle", "deciding" or "waiting" for a dialog
  answers,    \* the findings of each answered check-in so far
  next,       \* the finding to be decided, counted from 1
  dialogs,    \* every dialog shown, with the answer of the user
  log,        \* the decisions, as the audit trail has them
  reported,   \* the check-ins that run_once returned to the scheduler
  stops

vars == <<pc, answers, next, dialogs, log, reported, stops>>

Round    == Len(answers)
Findings == answers[Round]

\* A dialog belongs to a finding of a check-in.
Dialog   == [round : Nat, item : Nat, st : {"open", "yes", "no"}]
\* A decision names the dialog it was read from, or 0 when it was read from none.
Decision == [round : Nat, item : Nat, approved : BOOLEAN, dialog : Nat]

TypeOK ==
  /\ pc \in {"idle", "deciding", "waiting"}
  /\ answers \in Seq(Responses)
  /\ next \in Nat
  /\ dialogs \in Seq(Dialog)
  /\ log \in Seq(Decision)
  /\ reported \subseteq 1..Round
  /\ stops \in Nat

Init ==
  /\ pc = "idle"
  /\ answers = <<>> /\ next = 1
  /\ dialogs = <<>> /\ log = <<>>
  /\ reported = {} /\ stops = 0

-----------------------------------------------------------------------------
(* The scheduler.  A check-in that fails changes nothing here.             *)
CheckinAnswered(f) ==
  /\ pc = "idle" /\ Round < MaxCheckins
  /\ answers' = Append(answers, f)
  /\ next' = 1
  /\ pc' = "deciding"
  /\ UNCHANGED <<dialogs, log, reported, stops>>

(* run_helper starts the helper and waits; the last dialog is the one it   *)
(* waits for.                                                              *)
RunHelper ==
  /\ pc = "deciding" /\ next <= Len(Findings)
  /\ dialogs' = Append(dialogs, [round |-> Round, item |-> next, st |-> "open"])
  /\ pc' = "waiting"
  /\ UNCHANGED <<answers, next, log, reported, stops>>

Decide(approved, d) ==
  /\ log' = Append(log, [round |-> Round, item |-> next, approved |-> approved, dialog |-> d])
  /\ next' = next + 1
  /\ pc' = "deciding"
  /\ UNCHANGED <<answers, dialogs, reported, stops>>

(* The helper is missing or cannot be started.                             *)
HelperFails ==
  /\ pc = "deciding" /\ next <= Len(Findings)
  /\ Decide(FALSE, 0)

(* Variant with a bug: the answer of any dialog about the same finding is  *)
(* taken.                                                                  *)
HelperAnsweredByAnyDialog ==
  /\ pc = "waiting"
  /\ \E d \in 1..Len(dialogs) :
       /\ dialogs[d].item = next /\ dialogs[d].st # "open"
       /\ Decide(dialogs[d].st = "yes", d)

HelperAnswered ==
  /\ pc = "waiting" /\ dialogs[Len(dialogs)].st # "open"
  /\ Decide(dialogs[Len(dialogs)].st = "yes", Len(dialogs))

(* Variants with a bug: the timer covers only the time after the answer;   *)
(* the timeout ends the whole loop; silence counts as consent.             *)
TimeoutAfterAnswer ==
  pc = "waiting" /\ dialogs[Len(dialogs)].st # "open" /\ Decide(FALSE, 0)

TimeoutSkipsTheRest ==
  /\ pc = "waiting"
  /\ next' = Len(Findings) + 1
  /\ pc' = "deciding"
  /\ UNCHANGED <<answers, dialogs, log, reported, stops>>

TimeoutApproves == pc = "waiting" /\ Decide(TRUE, 0)

(* The timeout may run out when the user has answered and the helper has   *)
(* not exited.                                                             *)
Timeout == pc = "waiting" /\ Decide(FALSE, 0)

Report ==
  /\ pc = "deciding" /\ next > Len(Findings)
  /\ reported' = reported \cup {Round}
  /\ pc' = "idle"
  /\ UNCHANGED <<answers, next, dialogs, log, stops>>

(* The agent ends, at logoff or in a crash, and starts again: nothing of   *)
(* the loop is kept, and its dialogs are processes of their own.           *)
Stop ==
  /\ stops < MaxStops /\ pc # "idle"
  /\ stops' = stops + 1
  /\ pc' = "idle"
  /\ UNCHANGED <<answers, next, dialogs, log, reported>>

(* The user answers any dialog that is open, or closes it; "no" is also    *)
(* what a helper says whose dialog could not be shown.                     *)
Answer(d, a) ==
  /\ dialogs[d].st = "open"
  /\ dialogs' = [dialogs EXCEPT ![d].st = a]
  /\ UNCHANGED <<pc, answers, next, log, reported, stops>>

-----------------------------------------------------------------------------
Daemon == RunHelper \/ HelperFails \/ HelperAnswered \/ Timeout \/ Report

User == \E d \in 1..Len(dialogs) : \E a \in {"yes", "no"} : Answer(d, a)

Next == Daemon \/ User \/ Stop \/ \E f \in Responses : CheckinAnswered(f)

Spec == Init /\ [][Next]_vars

(* The agent's own steps, its timer among them; nothing obliges the user.  *)
FairSpec == Spec /\ WF_vars(Daemon)

-----------------------------------------------------------------------------
\* An approval in the audit trail is the answer the user gave to the dialog
\* of this finding in this check-in, and each answer is used once: dialogs
\* that are left over approve nothing (consent.rs:17-35).
ApprovalsAreGiven ==
  \A k \in 1..Len(log) :
    log[k].approved =>
      /\ log[k].dialog \in 1..Len(dialogs)
      /\ dialogs[log[k].dialog] = [round |-> log[k].round, item |-> log[k].item, st |-> "yes"]
      /\ \A j \in 1..Len(log) : log[j].dialog = log[k].dialog => j = k

\* A check-in that is reported has a decision for each of its findings, and
\* the decisions of a check-in are in the order of its findings, one for each
\* (checkin.rs:46-83).
ReportedIsDecided ==
  /\ \A r \in reported : \A i \in 1..Len(answers[r]) :
       \E k \in 1..Len(log) : log[k].round = r /\ log[k].item = i
  /\ \A j, k \in 1..Len(log) :
       j < k /\ log[j].round = log[k].round => log[j].item < log[k].item

Declined(d) ==
  \E k \in 1..Len(log) :
    log[k].round = dialogs[d].round /\ log[k].item = dialogs[d].item /\ ~log[k].approved

\* A dialog that is still open without the agent waiting for it was declined
\* in the meantime, unless the agent ended during the check-in: no question
\* is lost.
LeftOverIsDeclined ==
  \A d \in 1..Len(dialogs) :
    \/ dialogs[d].st # "open"
    \/ pc = "waiting" /\ d = Len(dialogs)
    \/ dialogs[d].round \notin reported
    \/ Declined(d)

(* Why the three hold: what is decided and asked lies behind the loop, and  *)
(* each decision was read from a dialog of its own.                        *)
Behind ==
  /\ \A k \in 1..Len(log) : log[k].round \in 1..Round /\ log[k].dialog \in 0..Len(dialogs)
  /\ \A d \in 1..Len(dialogs) : dialogs[d].round \in 1..Round

ReadOnce ==
  \A j, k \in 1..Len(log) : log[j].dialog = log[k].dialog /\ log[k].dialog # 0 => j = k

InTheLoop ==
  pc # "idle" =>
    /\ Round \in Nat \ {0} /\ Round \notin reported
    /\ next \in 1..(Len(Findings) + 1)
    /\ \A k \in 1..Len(log) : log[k].round = Round => log[k].item < next
    /\ \A i \in 1..(next - 1) : \E k \in 1..Len(log) : log[k].round = Round /\ log[k].item = i

Waits ==
  pc = "waiting" =>
    /\ next <= Len(Findings) /\ dialogs # <<>>
    /\ dialogs[Len(dialogs)].round = Round /\ dialogs[Len(dialogs)].item = next
    /\ \A k \in 1..Len(log) : log[k].dialog # Len(dialogs)

LeftOver ==
  \A d \in 1..Len(dialogs) :
    \/ dialogs[d].st # "open"
    \/ pc = "waiting" /\ d = Len(dialogs)
    \/ dialogs[d].round \notin reported /\ (pc = "idle" \/ dialogs[d].round # Round)
    \/ Declined(d)

LoopInv ==
  /\ TypeOK /\ Behind /\ ReadOnce /\ InTheLoop /\ Waits /\ LeftOver
  /\ ApprovalsAreGiven /\ ReportedIsDecided

\* A check-in asks about each of its findings at most once, and in their order: a
\* timeout or an end of the agent makes no dialog come back (consent.rs:17-35).
AskedOnce ==
  \A c, d \in 1..Len(dialogs) :
    c < d /\ dialogs[c].round = dialogs[d].round => dialogs[c].item < dialogs[d].item

\* What the present check-in has asked lies behind the loop, or is being asked.
AskedBehind ==
  \A d \in 1..Len(dialogs) :
    pc # "idle" /\ dialogs[d].round = Round =>
      dialogs[d].item < next \/ (pc = "waiting" /\ dialogs[d].item = next)

\* The inductive invariant.
IInv == LoopInv /\ AskedOnce /\ AskedBehind

\* Whether the user answers or not, the loop ends and the check-in is reported
\* (consent.rs:8-12: rather than "blocking the daemon forever").
ReportComes == pc # "idle" ~> pc = "idle"
=============================================================================
