--------------------------- MODULE ConsentProofs ---------------------------
(***************************************************************************)
(* Proofs about Consent, for any lists of findings and any number of       *)
(* check-ins and ends of the agent.  The invariant says that what was      *)
(* asked and decided lies behind the loop; one lemma for each action.      *)
(***************************************************************************)
EXTENDS Consent, TLAPS

\* Rounds are counted, and the findings of the current one are a list.
LEMMA Counted ==
  ASSUME TypeOK
  PROVE  /\ Round \in Nat /\ Len(log) \in Nat /\ Len(dialogs) \in Nat
         /\ Round # 0 => Findings \in Seq(Apps) /\ Len(Findings) \in Nat
<1>1. Round \in Nat /\ Len(log) \in Nat /\ Len(dialogs) \in Nat
  BY DEF TypeOK, Round
<1>2. ASSUME Round # 0 PROVE Findings \in Responses
  BY <1>1, <1>2 DEF TypeOK, Round, Findings
<1> QED BY <1>1, <1>2, ResponsesAreLists

\* A decision is added behind the decisions before.
LEMMA LogGrows ==
  ASSUME TypeOK, NEW a \in BOOLEAN, NEW n \in Nat, Decide(a, n)
  PROVE  /\ log' \in Seq(Decision) /\ Len(log') = Len(log) + 1
         /\ log'[Len(log) + 1] = [round |-> Round, item |-> next, approved |-> a, dialog |-> n]
         /\ \A k \in 1..Len(log) : log'[k] = log[k]
         /\ next' = next + 1 /\ pc' = "deciding"
         /\ UNCHANGED <<answers, dialogs, reported, stops>>
<1>1. [round |-> Round, item |-> next, approved |-> a, dialog |-> n] \in Decision
  BY Counted DEF TypeOK, Decision
<1> QED BY <1>1 DEF TypeOK, Decide

-----------------------------------------------------------------------------
LEMMA InitLoopInv == Init => LoopInv
<1> SUFFICES ASSUME Init PROVE LoopInv
  OBVIOUS
<1>1. TypeOK
  BY DEF Init, TypeOK, Round
<1>2. Len(log) = 0 /\ Len(dialogs) = 0
  BY DEF Init
<1>3. Behind /\ ReadOnce /\ LeftOver /\ ApprovalsAreGiven
  BY <1>2 DEF Behind, ReadOnce, LeftOver, ApprovalsAreGiven
<1>4. InTheLoop /\ Waits /\ ReportedIsDecided
  BY <1>2 DEF Init, InTheLoop, Waits, ReportedIsDecided
<1> QED BY <1>1, <1>3, <1>4 DEF LoopInv

(* A new check-in: everything asked and decided is of the ones before.     *)
LEMMA CheckinKeeps ==
  ASSUME LoopInv, NEW f \in Responses, CheckinAnswered(f)
  PROVE  LoopInv'
<1>1. /\ pc = "idle" /\ pc' = "deciding" /\ next' = 1
      /\ UNCHANGED <<dialogs, log, reported, stops>>
  BY DEF CheckinAnswered
<1>2. /\ answers' \in Seq(Responses) /\ Round' = Round + 1 /\ Round \in Nat
      /\ \A r \in 1..Round : answers'[r] = answers[r]
      /\ Findings' = f
  BY DEF CheckinAnswered, LoopInv, TypeOK, Round, Findings
<1>3. f \in Seq(Apps) /\ Len(f) \in Nat
  BY ResponsesAreLists
<1>4. TypeOK'
  BY <1>1, <1>2 DEF LoopInv, TypeOK
<1>5. Behind'
  BY <1>1, <1>2 DEF LoopInv, Behind
<1>6. InTheLoop'
  <2>1. \A k \in 1..Len(log) : log[k].round # Round'
    BY <1>2 DEF LoopInv, Behind
  <2>2. Round' \notin reported
    BY <1>2 DEF LoopInv, TypeOK
  <2> QED BY <1>1, <1>2, <1>3, <2>1, <2>2 DEF InTheLoop
<1>7. LeftOver'
  <2> SUFFICES ASSUME NEW d \in 1..Len(dialogs), dialogs[d].st = "open", ~Declined(d)
               PROVE  dialogs[d].round \notin reported /\ dialogs[d].round # Round'
    BY <1>1 DEF LeftOver, Declined
  <2>1. dialogs[d].round \in 1..Round
    BY DEF LoopInv, Behind
  <2> QED BY <1>1, <1>2, <2>1 DEF LoopInv, LeftOver
<1>8. ReportedIsDecided'
  BY <1>1, <1>2 DEF LoopInv, TypeOK, ReportedIsDecided
<1>9. ReadOnce' /\ Waits' /\ ApprovalsAreGiven'
  BY <1>1 DEF LoopInv, ReadOnce, Waits, ApprovalsAreGiven
<1> QED BY <1>4, <1>5, <1>6, <1>7, <1>8, <1>9 DEF LoopInv

(* A new dialog is one that no decision was read from.                     *)
LEMMA RunHelperKeeps ==
  ASSUME LoopInv, RunHelper
  PROVE  LoopInv'
<1>1. /\ pc = "deciding" /\ pc' = "waiting" /\ next <= Len(Findings)
      /\ UNCHANGED <<answers, next, log, reported, stops>>
  BY DEF RunHelper
<1>2. Round \in Nat \ {0} /\ next \in Nat /\ Len(dialogs) \in Nat /\ Len(log) \in Nat
  BY <1>1, Counted DEF LoopInv, InTheLoop, TypeOK
<1> DEFINE new == [round |-> Round, item |-> next, st |-> "open"]
<1>3. new \in Dialog
  BY <1>2 DEF Dialog
<1> HIDE DEF new
<1>4. /\ dialogs' \in Seq(Dialog) /\ Len(dialogs') = Len(dialogs) + 1
      /\ dialogs'[Len(dialogs) + 1] = new
      /\ \A d \in 1..Len(dialogs) : dialogs'[d] = dialogs[d]
  <2>1. dialogs' = Append(dialogs, new)
    BY DEF RunHelper, new
  <2> QED BY <2>1, <1>3 DEF LoopInv, TypeOK
<1>5. new.round = Round /\ new.item = next /\ new.st = "open"
  BY DEF new
<1>6. Round' = Round /\ Findings' = Findings
  BY <1>1 DEF Round, Findings
<1>7. TypeOK'
  BY <1>1, <1>4 DEF LoopInv, TypeOK, Round
<1>8. Behind'
  <2>1. \A k \in 1..Len(log) : log[k].round \in 1..Round /\ log[k].dialog \in 0..(Len(dialogs) + 1)
    BY <1>2 DEF LoopInv, Behind
  <2>2. \A d \in 1..(Len(dialogs) + 1) : dialogs'[d].round \in 1..Round
    <3> SUFFICES ASSUME NEW d \in 1..(Len(dialogs) + 1) PROVE dialogs'[d].round \in 1..Round
      OBVIOUS
    <3>1. CASE d = Len(dialogs) + 1
      BY <1>2, <1>4, <1>5, <3>1
    <3>2. CASE d # Len(dialogs) + 1
      <4>1. d \in 1..Len(dialogs)
        BY <1>2, <3>2
      <4> QED BY <1>4, <4>1 DEF LoopInv, Behind
    <3> QED BY <3>1, <3>2
  <2> QED BY <1>1, <1>4, <1>6, <2>1, <2>2 DEF Behind
<1>9. InTheLoop'
  BY <1>1, <1>6 DEF LoopInv, InTheLoop
<1>10. Waits'
  <2>1. \A k \in 1..Len(log) : log[k].dialog # Len(dialogs) + 1
    BY <1>2 DEF LoopInv, Behind
  <2>2. dialogs' # <<>>
    BY <1>2, <1>4
  <2> QED BY <1>1, <1>4, <1>5, <1>6, <2>1, <2>2 DEF Waits
<1>11. LeftOver'
  <2> SUFFICES ASSUME NEW d \in 1..(Len(dialogs) + 1), dialogs'[d].st = "open",
                      d # Len(dialogs) + 1, ~Declined(d)'
               PROVE  dialogs[d].round \notin reported /\ dialogs[d].round # Round
    <3>1. \A d \in 1..Len(dialogs) : dialogs'[d] = dialogs[d]
      BY <1>4
    <3> QED BY <1>1, <1>2, <1>4, <1>6, <3>1 DEF LeftOver
  <2>1. d \in 1..Len(dialogs) /\ dialogs'[d] = dialogs[d]
    BY <1>2, <1>4
  <2>2. ~Declined(d)
    BY <1>1, <2>1 DEF Declined
  <2> QED BY <1>1, <2>1, <2>2 DEF LoopInv, LeftOver
<1>12. ApprovalsAreGiven'
  BY <1>1, <1>2, <1>4 DEF LoopInv, ApprovalsAreGiven
<1>13. ReadOnce'
  BY <1>1 DEF LoopInv, ReadOnce
<1>14. ReportedIsDecided'
  BY <1>1 DEF LoopInv, ReportedIsDecided
<1> QED BY <1>7, <1>8, <1>9, <1>10, <1>11, <1>12, <1>13, <1>14 DEF LoopInv

(* A decision: an approval needs a dialog with "yes" for this finding that *)
(* no decision was read from; a dialog that stays open is declined.        *)
LEMMA DecideKeeps ==
  ASSUME LoopInv, pc # "idle", next <= Len(Findings),
         NEW a \in BOOLEAN, NEW n \in 0..Len(dialogs), Decide(a, n),
         n # 0 => \A k \in 1..Len(log) : log[k].dialog # n,
         a => n # 0 /\ dialogs[n] = [round |-> Round, item |-> next, st |-> "yes"],
         pc = "waiting" => dialogs[Len(dialogs)].st # "open" \/ ~a
  PROVE  LoopInv'
<1>1. /\ Round \in Nat \ {0} /\ next \in Nat \ {0} /\ Len(dialogs) \in Nat /\ Len(log) \in Nat
      /\ Len(Findings) \in Nat /\ n \in Nat
  BY Counted DEF LoopInv, InTheLoop
<1>2. /\ log' \in Seq(Decision) /\ Len(log') = Len(log) + 1
      /\ \A k \in 1..Len(log) : log'[k] = log[k]
      /\ next' = next + 1 /\ pc' = "deciding"
      /\ UNCHANGED <<answers, dialogs, reported, stops>>
  BY <1>1, LogGrows DEF LoopInv
<1> DEFINE e == Len(log) + 1
           new == log'[e]
<1>3. new.round = Round /\ new.item = next /\ new.approved = a /\ new.dialog = n
  <2>1. new = [round |-> Round, item |-> next, approved |-> a, dialog |-> n]
    BY <1>1, LogGrows DEF LoopInv
  <2> QED BY <2>1
<1> HIDE DEF new
<1>4. \A k \in 1..Len(log') : k \in 1..Len(log) \/ (k = e /\ log'[k] = new)
  BY <1>1, <1>2 DEF new
<1>5. e \in 1..Len(log') /\ log'[e] = new /\ 1..Len(log) \subseteq 1..Len(log')
  BY <1>1, <1>2 DEF new
<1>6. Round' = Round /\ Findings' = Findings
  BY <1>2 DEF Round, Findings
<1>7. TypeOK'
  BY <1>1, <1>2 DEF LoopInv, TypeOK, Round
<1>8. Behind'
  BY <1>1, <1>2, <1>3, <1>4, <1>6 DEF LoopInv, Behind
<1>9. ReadOnce'
  <2> SUFFICES ASSUME NEW j \in 1..Len(log'), NEW k \in 1..Len(log'),
                      log'[j].dialog = log'[k].dialog, log'[k].dialog # 0
               PROVE  j = k
    BY DEF ReadOnce
  <2>1. CASE j \in 1..Len(log) /\ k \in 1..Len(log)
    BY <1>2, <2>1 DEF LoopInv, ReadOnce
  <2>2. CASE j = e \/ k = e
    BY <1>2, <1>3, <1>4, <2>2
  <2> QED BY <1>4, <2>1, <2>2
<1>10. InTheLoop'
  <2>1. \A k \in 1..Len(log') : log'[k].round = Round => log'[k].item < next + 1
    <3>1. \A k \in 1..Len(log) : log[k].round = Round => log[k].item \in Nat /\ log[k].item < next
      <4>1. \A k \in 1..Len(log) : log[k] \in Decision
        BY DEF LoopInv, TypeOK
      <4> QED BY <4>1 DEF LoopInv, InTheLoop, Decision
    <3> QED BY <1>1, <1>2, <1>3, <1>4, <3>1
  <2>2. ASSUME NEW i \in 1..next
        PROVE  \E k \in 1..Len(log') : log'[k].round = Round /\ log'[k].item = i
    <3>1. CASE i = next
      BY <1>3, <1>5, <3>1
    <3>2. CASE i # next
      <4>1. i \in 1..(next - 1)
        BY <1>1, <3>2
      <4>2. PICK k \in 1..Len(log) : log[k].round = Round /\ log[k].item = i
        BY <4>1 DEF LoopInv, InTheLoop
      <4> QED BY <1>2, <1>5, <4>2
    <3> QED BY <3>1, <3>2
  <2>3. next' \in 1..(Len(Findings) + 1) /\ (next' - 1) = next
    BY <1>1, <1>2
  <2>4. Round \notin reported
    BY DEF LoopInv, InTheLoop
  <2> QED BY <1>1, <1>2, <1>6, <2>1, <2>2, <2>3, <2>4 DEF InTheLoop
<1>11. Waits'
  BY <1>2 DEF Waits
<1>12. LeftOver'
  <2> SUFFICES ASSUME NEW d \in 1..Len(dialogs), dialogs[d].st = "open", ~Declined(d)'
               PROVE  dialogs[d].round \notin reported /\ dialogs[d].round # Round
    BY <1>2, <1>6 DEF LeftOver
  <2>1. ~Declined(d)
    BY <1>2, <1>5 DEF Declined
  <2>2. ~(pc = "waiting" /\ d = Len(dialogs))
    <3> SUFFICES ASSUME pc = "waiting", d = Len(dialogs) PROVE FALSE
      OBVIOUS
    <3>1. dialogs[d].round = Round /\ dialogs[d].item = next
      BY DEF LoopInv, Waits
    <3>2. ~new.approved
      BY <1>3
    <3> QED BY <1>2, <1>3, <1>5, <3>1, <3>2 DEF Declined
  <2> QED BY <2>1, <2>2 DEF LoopInv, LeftOver
<1>13. ApprovalsAreGiven'
  <2> SUFFICES ASSUME NEW k \in 1..Len(log'), log'[k].approved
               PROVE  /\ log'[k].dialog \in 1..Len(dialogs)
                      /\ dialogs[log'[k].dialog] =
                           [round |-> log'[k].round, item |-> log'[k].item, st |-> "yes"]
                      /\ \A j \in 1..Len(log') : log'[j].dialog = log'[k].dialog => j = k
    BY <1>2 DEF ApprovalsAreGiven
  <2>1. /\ log'[k].dialog \in 1..Len(dialogs)
        /\ dialogs[log'[k].dialog] =
             [round |-> log'[k].round, item |-> log'[k].item, st |-> "yes"]
    <3>1. CASE k \in 1..Len(log)
      BY <1>2, <3>1 DEF LoopInv, ApprovalsAreGiven
    <3>2. CASE k = e
      BY <1>1, <1>3, <1>4, <3>2 DEF new
    <3> QED BY <1>4, <3>1, <3>2
  <2>2. log'[k].dialog # 0
    BY <1>1, <2>1
  <2> QED BY <1>9, <2>1, <2>2 DEF ReadOnce
<1>14. ReportedIsDecided'
  <2>1. ASSUME NEW r \in reported, NEW i \in 1..Len(answers[r])
        PROVE  \E k \in 1..Len(log') : log'[k].round = r /\ log'[k].item = i
    <3>1. PICK k \in 1..Len(log) : log[k].round = r /\ log[k].item = i
      BY DEF LoopInv, ReportedIsDecided
    <3> QED BY <1>2, <1>5, <3>1
  <2>2. ASSUME NEW j \in 1..Len(log'), NEW k \in 1..Len(log'), j < k,
               log'[j].round = log'[k].round
        PROVE  log'[j].item < log'[k].item
    <3>1. CASE k \in 1..Len(log)
      <4>1. j \in 1..Len(log)
        BY <1>1, <2>2, <3>1
      <4> QED BY <1>2, <2>2, <3>1, <4>1 DEF LoopInv, ReportedIsDecided
    <3>2. CASE k = e
      <4>1. j \in 1..Len(log)
        BY <1>1, <1>2, <2>2, <3>2
      <4>2. log[j].round = Round
        BY <1>2, <1>3, <1>4, <2>2, <3>2, <4>1
      <4>3. log[j].item < next
        BY <4>1, <4>2 DEF LoopInv, InTheLoop
      <4> QED BY <1>2, <1>3, <3>2, <4>1, <4>3 DEF new
    <3> QED BY <1>4, <3>1, <3>2
  <2> QED BY <1>2, <2>1, <2>2 DEF ReportedIsDecided
<1> QED BY <1>7, <1>8, <1>9, <1>10, <1>11, <1>12, <1>13, <1>14 DEF LoopInv

LEMMA HelperFailsKeeps == ASSUME LoopInv, HelperFails PROVE LoopInv'
<1>1. pc = "deciding" /\ next <= Len(Findings) /\ Decide(FALSE, 0)
  BY DEF HelperFails
<1>2. 0 \in 0..Len(dialogs)
  BY Counted DEF LoopInv
<1> QED BY <1>1, <1>2, DecideKeeps

LEMMA TimeoutKeeps == ASSUME LoopInv, Timeout PROVE LoopInv'
<1>1. pc = "waiting" /\ next <= Len(Findings) /\ Decide(FALSE, 0)
  BY DEF Timeout, LoopInv, Waits
<1>2. 0 \in 0..Len(dialogs)
  BY Counted DEF LoopInv
<1> QED BY <1>1, <1>2, DecideKeeps

(* The dialog the agent waits for is of this finding, and was not read.    *)
LEMMA HelperAnsweredKeeps == ASSUME LoopInv, HelperAnswered PROVE LoopInv'
<1> DEFINE n == Len(dialogs)
           a == dialogs[n].st = "yes"
<1>1. /\ pc = "waiting" /\ dialogs[n].st # "open" /\ Decide(a, n)
  BY DEF HelperAnswered
<1>2. /\ next <= Len(Findings) /\ dialogs # <<>>
      /\ dialogs[n].round = Round /\ dialogs[n].item = next
      /\ \A k \in 1..Len(log) : log[k].dialog # n
  BY <1>1 DEF LoopInv, Waits
<1>3. n \in Nat /\ n # 0 /\ dialogs[n] \in Dialog
  BY <1>2 DEF LoopInv, TypeOK
<1>4. a => dialogs[n] = [round |-> Round, item |-> next, st |-> "yes"]
  BY <1>2, <1>3 DEF Dialog
<1>5. n \in 0..Len(dialogs) /\ a \in BOOLEAN
  BY <1>3
<1> HIDE DEF a
<1> QED BY <1>1, <1>2, <1>3, <1>4, <1>5, DecideKeeps

(* All findings are decided when the check-in is reported.                 *)
LEMMA ReportKeeps == ASSUME LoopInv, Report PROVE LoopInv'
<1>1. /\ pc = "deciding" /\ pc' = "idle" /\ next > Len(Findings)
      /\ reported' = reported \cup {Round}
      /\ UNCHANGED <<answers, next, dialogs, log, stops>>
  BY DEF Report
<1>2. Round \in Nat \ {0} /\ Len(Findings) \in Nat /\ next = Len(Findings) + 1
  BY <1>1, Counted DEF LoopInv, InTheLoop
<1>3. Round' = Round
  BY <1>1 DEF Round
<1>4. TypeOK'
  BY <1>1, <1>2, <1>3 DEF LoopInv, TypeOK
<1>5. Behind' /\ ReadOnce' /\ InTheLoop' /\ Waits' /\ ApprovalsAreGiven'
  BY <1>1, <1>3 DEF LoopInv, Behind, ReadOnce, InTheLoop, Waits, ApprovalsAreGiven
<1>6. LeftOver'
  BY <1>1 DEF LoopInv, LeftOver, Declined
<1>7. ReportedIsDecided'
  <2>1. \A i \in 1..Len(answers[Round]) :
          \E k \in 1..Len(log) : log[k].round = Round /\ log[k].item = i
    BY <1>1, <1>2 DEF LoopInv, InTheLoop, Findings
  <2> QED BY <1>1, <2>1 DEF LoopInv, ReportedIsDecided
<1> QED BY <1>4, <1>5, <1>6, <1>7 DEF LoopInv

(* A check-in the agent did not finish is not reported.                    *)
LEMMA StopKeeps == ASSUME LoopInv, Stop PROVE LoopInv'
<1>1. /\ pc # "idle" /\ pc' = "idle" /\ stops' = stops + 1
      /\ UNCHANGED <<answers, next, dialogs, log, reported>>
  BY DEF Stop
<1>2. Round' = Round /\ Round \notin reported
  BY <1>1 DEF Round, LoopInv, InTheLoop
<1>3. TypeOK'
  BY <1>1, <1>2 DEF LoopInv, TypeOK
<1>4. Behind' /\ ReadOnce' /\ InTheLoop' /\ Waits' /\ ApprovalsAreGiven' /\ ReportedIsDecided'
  BY <1>1, <1>2 DEF LoopInv, Behind, ReadOnce, InTheLoop, Waits, ApprovalsAreGiven, ReportedIsDecided
<1>5. LeftOver'
  <2>1. pc = "waiting" => dialogs[Len(dialogs)].round = Round
    BY DEF LoopInv, Waits
  <2> QED BY <1>1, <1>2, <2>1 DEF LoopInv, LeftOver, Declined
<1> QED BY <1>3, <1>4, <1>5 DEF LoopInv

(* An answer changes a dialog that no approval was read from.              *)
LEMMA AnswerKeeps ==
  ASSUME LoopInv, NEW c \in 1..Len(dialogs), NEW a \in {"yes", "no"}, Answer(c, a)
  PROVE  LoopInv'
<1>1. /\ dialogs[c].st = "open" /\ dialogs' = [dialogs EXCEPT ![c].st = a]
      /\ UNCHANGED <<pc, answers, next, log, reported, stops>>
  BY DEF Answer
<1>2. Len(dialogs) \in Nat /\ dialogs \in Seq(Dialog)
  BY Counted DEF LoopInv, TypeOK
<1>3. /\ dialogs' \in Seq(Dialog) /\ Len(dialogs') = Len(dialogs)
      /\ \A d \in 1..Len(dialogs) :
           /\ dialogs'[d].round = dialogs[d].round /\ dialogs'[d].item = dialogs[d].item
           /\ d # c => dialogs'[d] = dialogs[d]
           /\ dialogs'[d].st = "open" => dialogs[d].st = "open"
  <2>1. [dialogs[c] EXCEPT !.st = a] \in Dialog
    <3>1. dialogs[c] \in Dialog
      BY <1>2
    <3> QED BY <3>1 DEF Dialog
  <2>2. \A d \in 1..Len(dialogs) : dialogs'[d] = IF d = c THEN [dialogs[c] EXCEPT !.st = a] ELSE dialogs[d]
    BY <1>1, <1>2
  <2>3. dialogs' \in Seq(Dialog) /\ Len(dialogs') = Len(dialogs)
    BY <1>1, <1>2, <2>1
  <2>4. \A d \in 1..Len(dialogs) : dialogs[d] \in Dialog
    BY <1>2
  <2> QED BY <1>1, <2>2, <2>3, <2>4 DEF Dialog
<1>4. Round' = Round /\ Findings' = Findings
  BY <1>1 DEF Round, Findings
<1>5. TypeOK'
  BY <1>1, <1>3 DEF LoopInv, TypeOK, Round
<1>6. Behind' /\ ReadOnce' /\ InTheLoop' /\ ReportedIsDecided'
  BY <1>1, <1>3, <1>4 DEF LoopInv, Behind, ReadOnce, InTheLoop, ReportedIsDecided
<1>7. Waits'
  <2>1. pc = "waiting" => Len(dialogs) # 0
    BY <1>2 DEF LoopInv, Waits
  <2> QED BY <1>1, <1>2, <1>3, <1>4, <2>1 DEF LoopInv, Waits
<1>8. LeftOver'
  BY <1>1, <1>3, <1>4 DEF LoopInv, LeftOver, Declined
<1>9. ApprovalsAreGiven'
  <2>1. ASSUME NEW k \in 1..Len(log), log[k].approved PROVE log[k].dialog # c
    <3>1. dialogs[log[k].dialog] = [round |-> log[k].round, item |-> log[k].item, st |-> "yes"]
      BY <2>1, Zenon DEF LoopInv, ApprovalsAreGiven
    <3> QED BY <1>1, <3>1
  <2> QED BY <1>1, <1>3, <2>1 DEF LoopInv, ApprovalsAreGiven
<1> QED BY <1>5, <1>6, <1>7, <1>8, <1>9 DEF LoopInv

-----------------------------------------------------------------------------
LEMMA StepLoopInv == LoopInv /\ [Next]_vars => LoopInv'
<1> SUFFICES ASSUME LoopInv, [Next]_vars PROVE LoopInv'
  OBVIOUS
<1>1. CASE Daemon
  BY <1>1, RunHelperKeeps, HelperFailsKeeps, HelperAnsweredKeeps, TimeoutKeeps, ReportKeeps DEF Daemon
<1>2. CASE User
  BY <1>2, AnswerKeeps DEF User
<1>3. CASE Stop
  BY <1>3, StopKeeps
<1>4. ASSUME NEW f \in Responses, CheckinAnswered(f) PROVE LoopInv'
  BY <1>4, CheckinKeeps
<1>5. CASE UNCHANGED vars
  BY <1>5 DEF vars, LoopInv, TypeOK, Behind, ReadOnce, InTheLoop, Waits, LeftOver, Declined,
              ApprovalsAreGiven, ReportedIsDecided, Round, Findings
<1> QED BY <1>1, <1>2, <1>3, <1>4, <1>5 DEF Next

-----------------------------------------------------------------------------
(* Each finding is asked about once.                                       *)

\* A decision leaves the dialogs alone and moves on.
LEMMA DecideKeepsAsked ==
  ASSUME IInv, pc # "idle", NEW a, NEW n, Decide(a, n)
  PROVE  AskedOnce' /\ AskedBehind'
<1>1. /\ UNCHANGED <<answers, dialogs>> /\ next' = next + 1 /\ Round' = Round
  BY DEF Decide, Round
<1>2. next \in Nat /\ \A d \in 1..Len(dialogs) : dialogs[d].item \in Nat
  <2>1. \A d \in 1..Len(dialogs) : dialogs[d] \in Dialog
    BY DEF IInv, LoopInv, TypeOK
  <2> QED BY <2>1 DEF IInv, LoopInv, TypeOK, Dialog
<1>3. AskedOnce'
  BY <1>1 DEF IInv, AskedOnce
<1>4. AskedBehind'
  BY <1>1, <1>2 DEF IInv, AskedBehind
<1> QED BY <1>3, <1>4

\* A new dialog is about a later finding than every dialog of this check-in.
LEMMA RunHelperKeepsAsked ==
  ASSUME IInv, RunHelper
  PROVE  AskedOnce' /\ AskedBehind'
<1> DEFINE new == [round |-> Round, item |-> next, st |-> "open"]
<1>1. /\ pc = "deciding" /\ pc' = "waiting" /\ UNCHANGED <<answers, next>>
      /\ dialogs' = Append(dialogs, new)
  BY DEF RunHelper
<1>2. new.round = Round /\ new.item = next
  OBVIOUS
<1> HIDE DEF new
<1>3. /\ Len(dialogs) \in Nat /\ Len(dialogs') = Len(dialogs) + 1
      /\ dialogs'[Len(dialogs) + 1] = new
      /\ \A d \in 1..Len(dialogs) : dialogs'[d] = dialogs[d]
  BY <1>1 DEF IInv, LoopInv, TypeOK
<1>4. \A d \in 1..(Len(dialogs) + 1) : d \in 1..Len(dialogs) \/ d = Len(dialogs) + 1
  BY <1>3
<1>5. Round' = Round
  BY <1>1 DEF Round
<1>6. \A d \in 1..Len(dialogs) : dialogs[d].round = Round => dialogs[d].item < next
  BY <1>1 DEF IInv, AskedBehind
<1>7. AskedBehind'
  BY <1>1, <1>2, <1>3, <1>4, <1>5, <1>6 DEF AskedBehind
<1>8. AskedOnce'
  <2> SUFFICES ASSUME NEW c \in 1..(Len(dialogs) + 1), NEW d \in 1..(Len(dialogs) + 1), c < d,
                      dialogs'[c].round = dialogs'[d].round
               PROVE  dialogs'[c].item < dialogs'[d].item
    BY <1>3 DEF AskedOnce
  <2>1. c \in 1..Len(dialogs)
    BY <1>3
  <2>2. CASE d \in 1..Len(dialogs)
    BY <1>3, <2>1, <2>2 DEF IInv, AskedOnce
  <2>3. CASE d = Len(dialogs) + 1
    BY <1>2, <1>3, <1>6, <2>1, <2>3
  <2> QED BY <1>4, <2>2, <2>3
<1> QED BY <1>7, <1>8

\* The user answers: the dialogs stay about what they are about.
LEMMA AnswerKeepsAsked ==
  ASSUME IInv, NEW c \in 1..Len(dialogs), NEW a \in {"yes", "no"}, Answer(c, a)
  PROVE  AskedOnce' /\ AskedBehind'
<1>1. dialogs \in Seq(Dialog) /\ dialogs[c] \in Dialog /\ UNCHANGED <<pc, answers, next>>
  BY DEF IInv, LoopInv, TypeOK, Answer
<1>2. /\ Len(dialogs') = Len(dialogs)
      /\ \A d \in 1..Len(dialogs) :
           dialogs'[d].round = dialogs[d].round /\ dialogs'[d].item = dialogs[d].item
  <2> DEFINE q == [dialogs[c] EXCEPT !.st = a]
  <2>1. q.round = dialogs[c].round /\ q.item = dialogs[c].item
    BY <1>1 DEF Dialog
  <2>2. dialogs' = [dialogs EXCEPT ![c] = q]
    BY DEF Answer
  <2> HIDE DEF q
  <2> QED BY <1>1, <2>1, <2>2
<1>3. Round' = Round
  BY <1>1 DEF Round
<1> QED BY <1>1, <1>2, <1>3 DEF IInv, AskedOnce, AskedBehind

\* A new check-in has asked about nothing yet.
LEMMA CheckinKeepsAsked ==
  ASSUME IInv, NEW f \in Responses, CheckinAnswered(f)
  PROVE  AskedOnce' /\ AskedBehind'
<1>1. dialogs' = dialogs /\ Round' = Round + 1 /\ Round \in Nat
  BY DEF CheckinAnswered, IInv, LoopInv, TypeOK, Round
<1>2. \A d \in 1..Len(dialogs) : dialogs[d].round # Round'
  BY <1>1 DEF IInv, LoopInv, Behind
<1> QED BY <1>1, <1>2 DEF IInv, AskedOnce, AskedBehind

LEMMA StepAsked == IInv /\ [Next]_vars => AskedOnce' /\ AskedBehind'
<1> SUFFICES ASSUME IInv, [Next]_vars PROVE AskedOnce' /\ AskedBehind'
  OBVIOUS
<1>1. CASE HelperFails \/ HelperAnswered \/ Timeout
  <2>1. pc # "idle" /\ \E a, n : Decide(a, n)
    BY <1>1 DEF HelperFails, HelperAnswered, Timeout
  <2> QED BY <2>1, DecideKeepsAsked
<1>2. CASE UNCHANGED <<dialogs, answers, next>> /\ (pc' = "idle" \/ pc' = pc)
  <2>1. Round' = Round
    BY <1>2 DEF Round
  <2> QED BY <1>2, <2>1 DEF IInv, AskedOnce, AskedBehind
<1>3. CASE Report \/ Stop \/ UNCHANGED vars
  BY <1>2, <1>3 DEF Report, Stop, vars
<1>4. CASE User
  BY <1>4, AnswerKeepsAsked DEF User
<1>5. ASSUME NEW f \in Responses, CheckinAnswered(f) PROVE AskedOnce' /\ AskedBehind'
  BY <1>5, CheckinKeepsAsked
<1> QED BY <1>1, <1>3, <1>4, <1>5, RunHelperKeepsAsked DEF Next, Daemon

-----------------------------------------------------------------------------
(* The theorems.                                                           *)

\* In every reachable state of scheduler, dialogs and audit trail the
\* invariant holds.
THEOREM ConsentInvariant == Spec => []IInv
<1>1. Init => IInv
  <2>1. Init => Len(dialogs) = 0
    BY DEF Init
  <2> QED BY <2>1, InitLoopInv DEF IInv, AskedOnce, AskedBehind
<1>2. IInv /\ [Next]_vars => IInv'
  BY StepLoopInv, StepAsked DEF IInv, LoopInv
<1> QED BY <1>1, <1>2, PTL DEF Spec

\* Scheduler, dialogs and audit trail keep their types.
THEOREM ConsentTypes == Spec => []TypeOK
<1>1. IInv => TypeOK
  BY DEF IInv, LoopInv
<1> QED BY <1>1, ConsentInvariant, PTL

\* Whatever dialogs are left over and whenever they are answered, an approval
\* in the audit trail is the answer given to that question, read once.
THEOREM EveryApprovalIsGiven == Spec => []ApprovalsAreGiven
<1>1. IInv => ApprovalsAreGiven
  BY DEF IInv, LoopInv
<1> QED BY <1>1, ConsentInvariant, PTL

\* A check-in that is reported has one decision for each finding, in order.
THEOREM EveryReportIsDecided == Spec => []ReportedIsDecided
<1>1. IInv => ReportedIsDecided
  BY DEF IInv, LoopInv
<1> QED BY <1>1, ConsentInvariant, PTL

\* A dialog left open after its check-in was reported stands for a question
\* that was declined.
THEOREM NoQuestionIsLost == Spec => []LeftOverIsDeclined
<1>1. IInv => LeftOverIsDeclined
  BY DEF IInv, LoopInv, LeftOver, LeftOverIsDeclined
<1> QED BY <1>1, ConsentInvariant, PTL

\* No check-in asks twice about a finding, whichever dialogs time out and
\* whenever the agent ends (consent.rs:17-35, checkin.rs:46-83).
THEOREM EveryFindingIsAskedOnce == Spec => []AskedOnce
<1>1. IInv => AskedOnce
  BY DEF IInv
<1> QED BY <1>1, ConsentInvariant, PTL
=============================================================================
