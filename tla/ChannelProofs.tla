--------------------------- MODULE ChannelProofs ---------------------------
(***************************************************************************)
(* Theorems about Channel, for every limit, every size of the bodies and   *)
(* every window: frames stay whole, a request that is too large leaves no  *)
(* trace, and a connection keeps the promise of Exchange.                  *)
(***************************************************************************)
EXTENDS Channel, SequenceTheorems, TLAPS

-----------------------------------------------------------------------------
(* The conversation.                                                       *)

\* The two sides.
LEMMA TwoSides ==
  /\ Sides = {"client", "server"}
  /\ \A s \in Sides : /\ Peer(s) \in Sides /\ Peer(s) # s /\ Peer(Peer(s)) = s
                      /\ \A r \in Sides : r # s => r = Peer(s)
  BY DEF Sides, Peer

\* The lengths of the two conversations, and their messages.
LEMMA Conversations ==
  ASSUME kind \in {"XX", "IK"}
  PROVE  \/ /\ AnswerAt = 5 /\ RequestAt = 4
            /\ Senders[1] = "client" /\ Senders[2] = "server" /\ Senders[3] = "client"
            /\ Senders[4] = "client" /\ Senders[5] = "server"
         \/ /\ AnswerAt = 4 /\ RequestAt = 3
            /\ Senders[1] = "client" /\ Senders[2] = "server" /\ Senders[3] = "client"
            /\ Senders[4] = "server"
<1>1. CASE kind = "XX"
  <2>1. Senders = <<"client", "server", "client", "client", "server">>
    BY <1>1 DEF Senders
  <2> QED BY <2>1 DEF AnswerAt, RequestAt
<1>2. CASE kind = "IK"
  <2>1. Senders = <<"client", "server", "client", "server">>
    BY <1>2 DEF Senders
  <2> QED BY <2>1 DEF AnswerAt, RequestAt
<1> QED BY <1>1, <1>2

\* What is used of them: a side sends at most two messages in a row, the client
\* the request, and the server the answer.
LEMMA Turns ==
  ASSUME kind \in {"XX", "IK"}
  PROVE  /\ AnswerAt \in Nat /\ AnswerAt >= 4 /\ RequestAt \in 1..AnswerAt /\ RequestAt + 1 = AnswerAt
         /\ Senders[RequestAt] = "client" /\ Senders[AnswerAt] = "server"
         /\ \A m \in 1..AnswerAt : Senders[m] \in Sides
         /\ \A m \in 1..AnswerAt : m + 2 <= AnswerAt /\ Senders[m + 1] = Senders[m] =>
                                   Senders[m + 2] # Senders[m]
<1>1. /\ AnswerAt \in Nat /\ AnswerAt >= 4 /\ RequestAt \in 1..AnswerAt /\ RequestAt + 1 = AnswerAt
      /\ Senders[RequestAt] = "client" /\ Senders[AnswerAt] = "server"
  BY Conversations
<1>2. ASSUME NEW m \in 1..AnswerAt PROVE Senders[m] \in Sides
  <2>1. m \in {1, 2, 3, 4, 5} /\ m <= AnswerAt
    BY <1>1, Conversations
  <2> QED BY <2>1, Conversations DEF Sides
<1>3. ASSUME NEW m \in 1..AnswerAt, m + 2 <= AnswerAt, Senders[m + 1] = Senders[m]
      PROVE  Senders[m + 2] # Senders[m]
  <2>1. m = 3 \/ m = 1 \/ m = 2
    BY <1>1, <1>3, Conversations
  <2> QED BY <1>3, <2>1, Conversations
<1> QED BY <1>1, <1>2, <1>3

\* Every body has a size.
LEMMA Bodies ==
  ASSUME TypeOK, NEW m \in Nat
  PROVE  /\ BodySize(m) \in Nat \ {0} /\ MaxMessage \in Nat
         /\ Frame(m) \in Nat /\ Frame(m) = BodySize(m) + 1
         /\ BodySize(RequestAt) = size.request
<1>1. size.request \in Nat \ {0} /\ size.answer \in Nat \ {0} /\ Handshake \in Nat \ {0}
      /\ MaxMessage \in Nat
  <2>1. size.request \in Sizes /\ size.answer \in Sizes
    BY DEF TypeOK
  <2>2. MaxMessage \in Nat
    BY SizesAreNumbers
  <2>3. Handshake \in 1..MaxMessage /\ Sizes \subseteq Nat \ {0}
    BY SizesAreNumbers
  <2>4. Handshake \in Nat \ {0}
    BY <2>2, <2>3
  <2> QED BY <2>1, <2>2, <2>3, <2>4
<1>2. BodySize(m) \in {size.request, size.answer, Handshake}
  BY DEF BodySize
<1>3. BodySize(RequestAt) = size.request
  BY Turns DEF BodySize, TypeOK
<1> QED BY <1>1, <1>2, <1>3 DEF Frame

\* The conversation is agreed at the start.
LEMMA SameConversation ==
  ASSUME UNCHANGED setup
  PROVE  /\ Senders' = Senders /\ AnswerAt' = AnswerAt /\ RequestAt' = RequestAt
         /\ \A m : BodySize(m)' = BodySize(m) /\ Frame(m)' = Frame(m) /\ \A i : Due(m, i)' = Due(m, i)
         /\ \A s, m : Sends(s, m)' = Sends(s, m)
<1>1. kind' = kind /\ size' = size
  BY DEF setup
<1>2. Senders' = Senders /\ AnswerAt' = AnswerAt /\ RequestAt' = RequestAt
  BY <1>1 DEF Senders, AnswerAt, RequestAt
<1>3. ASSUME NEW m PROVE BodySize(m)' = BodySize(m) /\ Frame(m)' = Frame(m)
  BY <1>1, <1>2 DEF BodySize, Frame
<1>4. ASSUME NEW m, NEW i PROVE Due(m, i)' = Due(m, i)
  BY <1>3 DEF Due, UnitOf
<1>5. ASSUME NEW s, NEW m PROVE Sends(s, m)' = Sends(s, m)
  BY <1>2 DEF Sends
<1> QED BY <1>2, <1>3, <1>4, <1>5

\* The places of the two sides.
LEMMA Places ==
  ASSUME TypeOK, NEW s \in Sides
  PROVE  /\ at[s] \in Nat /\ at[s] >= 1 /\ at[s] <= AnswerAt + 1 /\ AnswerAt \in Nat
         /\ got[s] \in Nat /\ need[s] \in Nat /\ part[s] \in {"head", "body"}
         /\ Progress(s) \in Nat /\ wire[s] \in Seq(Unit) /\ whole[s] \in BOOLEAN
         /\ state[s] \in {"run", "done", "failed"}
         /\ Sends(s, at[s]) <=> at[s] <= AnswerAt /\ Senders[at[s]] = s
         /\ Writing(s) <=> state[s] = "run" /\ Sends(s, at[s])
         /\ Reading(s) <=> state[s] = "run" /\ at[s] <= AnswerAt /\ Senders[at[s]] = Peer(s)
<1>1. at[s] \in Nat /\ at[s] >= 1 /\ at[s] <= AnswerAt + 1 /\ AnswerAt \in Nat
  BY Turns DEF TypeOK
<1>2. at[s] <= AnswerAt => Senders[at[s]] \in Sides
  <2>1. at[s] <= AnswerAt => at[s] \in 1..AnswerAt
    BY <1>1
  <2>2. kind \in {"XX", "IK"}
    BY DEF TypeOK
  <2> QED BY <2>1, <2>2, Turns
<1>3. Reading(s) <=> state[s] = "run" /\ at[s] <= AnswerAt /\ Senders[at[s]] = Peer(s)
  BY <1>2, TwoSides DEF Reading, Running
<1>4. Writing(s) <=> state[s] = "run" /\ Sends(s, at[s])
  BY DEF Writing, Running, Sends
<1> QED BY <1>1, <1>3, <1>4 DEF TypeOK, Progress, Sends

-----------------------------------------------------------------------------
(* Where the other side is.                                                *)

\* While a side writes, a running peer reads the same message or the one before.
LEMMA ReaderNear ==
  ASSUME IInv, NEW s \in Sides, Sends(s, at[s])
  PROVE  /\ at[Peer(s)] <= at[s]
         /\ state[Peer(s)] = "run" =>
              /\ Reading(Peer(s)) /\ at[s] \in {at[Peer(s)], at[Peer(s)] + 1}
<1> DEFINE r == Peer(s)
<1>1. r \in Sides /\ r # s /\ Peer(r) = s
  BY TwoSides
<1>2. /\ at[s] \in 1..AnswerAt /\ Senders[at[s]] = s /\ at[r] \in Nat /\ at[r] >= 1
      /\ AnswerAt \in Nat
  BY <1>1, Places DEF IInv, Sends
<1>3. at[r] <= at[s]
  BY <1>1, <1>2 DEF IInv, InStep
<1>4. ASSUME state[r] = "run" PROVE Senders[at[r]] = s
  <2>1. CASE at[r] = at[s]
    BY <1>2, <2>1
  <2>2. CASE at[r] # at[s]
    <3>1. at[r] \in 1..AnswerAt /\ at[r] < at[s]
      BY <1>2, <1>3, <2>2
    <3>2. Senders[at[r]] # s => at[r] < at[r]
      BY <3>1 DEF IInv, InStep
    <3> QED BY <1>2, <3>2
  <2> QED BY <2>1, <2>2
<1>5. ASSUME state[r] = "run" PROVE Reading(r)
  BY <1>1, <1>2, <1>3, <1>4, <1>5, Places DEF IInv
<1>6. ASSUME state[r] = "run", at[r] + 2 <= at[s] PROVE FALSE
  <2>1. /\ at[r] \in 1..AnswerAt /\ at[r] + 1 \in 1..AnswerAt /\ at[r] + 2 \in 1..AnswerAt
    BY <1>2, <1>6
  <2>2. Senders[at[r]] = s
    BY <1>4, <1>6
  <2>3. Senders[at[r] + 1] = s
    BY <1>2, <1>6, <2>1 DEF IInv, InStep
  <2>4. Senders[at[r] + 2] = s
    <3>1. CASE at[r] + 2 = at[s]
      BY <1>2, <3>1
    <3>2. CASE at[r] + 2 < at[s]
      BY <1>2, <2>1, <3>2 DEF IInv, InStep
    <3> QED BY <1>2, <1>6, <3>1, <3>2
  <2>5. at[r] + 2 <= AnswerAt
    BY <1>2, <1>6
  <2> QED BY <2>1, <2>2, <2>3, <2>4, <2>5, Turns DEF IInv, TypeOK
<1>7. state[r] = "run" => at[s] \in {at[r], at[r] + 1}
  BY <1>2, <1>3, <1>6
<1> QED BY <1>3, <1>5, <1>7

\* A side that reads message m, and the peer, which wrote it or is writing it:
\* what the peer has written since the start of m.
LEMMA WriterNear ==
  ASSUME IInv, NEW s \in Sides, Reading(s)
  PROVE  LET p == Peer(s)
             m == at[s]
         IN  /\ at[p] < m => Written(p, m) = 0
             /\ at[p] = m => /\ Sends(p, m) /\ Written(p, m) = Progress(p)
                             /\ Progress(p) <= BodySize(m)
             /\ at[p] = m + 1 =>
                  Written(p, m) = Frame(m) + (IF Sends(p, m + 1) THEN Progress(p) ELSE 0)
             /\ at[p] > m + 1 => /\ at[p] = m + 2 /\ Sends(p, m + 1) /\ ~Sends(p, m + 2)
                                 /\ Written(p, m) = Frame(m) + Frame(m + 1)
<1> DEFINE p == Peer(s)
           m == at[s]
<1>1. p \in Sides /\ p # s /\ Peer(p) = s
  BY TwoSides
<1>2. /\ m \in 1..AnswerAt /\ Senders[m] = p /\ at[p] \in Nat /\ at[p] <= AnswerAt + 1
      /\ AnswerAt \in Nat /\ m \in Nat /\ Progress(p) \in Nat
  BY <1>1, Places DEF IInv
<1>3. BodySize(m) \in Nat \ {0}
  BY <1>2, Bodies DEF IInv
<1>4. ASSUME at[p] = m PROVE Sends(p, m) /\ Progress(p) <= BodySize(m)
  <2>1. Sends(p, m)
    BY <1>2 DEF Sends
  <2>2. part[p] # "head" => got[p] < BodySize(m) /\ got[p] \in Nat
    <3>1. FrameSound(p) /\ got[p] \in Nat /\ part[p] \in {"head", "body"}
      BY <1>1, Places DEF IInv
    <3>2. Sends(p, at[p])
      BY <1>4, <2>1
    <3>3. part[p] = "body" => got[p] < BodySize(at[p])
      BY <3>1, <3>2 DEF FrameSound
    <3> QED BY <1>4, <3>1, <3>3
  <2> QED BY <1>3, <2>1, <2>2 DEF Progress
<1>5. ASSUME at[p] > m + 1
      PROVE  at[p] = m + 2 /\ Sends(p, m + 1) /\ ~Sends(p, m + 2)
  <2>1. m + 1 \in 1..AnswerAt
    BY <1>2, <1>5
  <2>2. Senders[m + 1] = p
    <3>1. Senders[m + 1] # p => m + 1 < at[s]
      BY <1>1, <1>5, <2>1 DEF IInv, InStep
    <3> QED BY <1>2, <3>1
  <2>3. m + 2 <= AnswerAt => Senders[m + 2] # p
    BY <1>2, <2>2, Turns DEF IInv, TypeOK
  <2>4. m + 2 < at[p] => FALSE
    <3> SUFFICES ASSUME m + 2 < at[p] PROVE FALSE
      OBVIOUS
    <3>1. m + 2 \in 1..AnswerAt
      BY <1>2
    <3>2. m + 2 < at[s]
      BY <1>1, <2>3, <3>1 DEF IInv, InStep
    <3> QED BY <1>2, <3>2
  <2> QED BY <1>2, <1>5, <2>1, <2>2, <2>3, <2>4 DEF Sends
<1>6. /\ at[p] < m => Written(p, m) = 0
      /\ at[p] = m => Written(p, m) = Progress(p)
      /\ at[p] = m + 1 => Written(p, m) = Frame(m) + (IF Sends(p, m + 1) THEN Progress(p) ELSE 0)
      /\ at[p] > m + 1 => Written(p, m) = Frame(m) + Frame(m + 1)
  BY <1>2 DEF Written
<1> QED BY <1>4, <1>5, <1>6

-----------------------------------------------------------------------------
(* Init, and steps that move no bytes.                                     *)

\* Every connection starts in the invariant.
LEMMA InitIInv == Init => IInv
<1> SUFFICES ASSUME Init PROVE IInv
  OBVIOUS
<1>1. kind \in {"XX", "IK"}
  BY DEF Init
<1>2. AnswerAt \in Nat /\ AnswerAt >= 4
  BY <1>1, Turns
<1>3. TypeOK
  BY <1>2, EmptySeq DEF Init, TypeOK
<1>4. Handled
  BY <1>2 DEF Init, Handled, Sides
<1>5. ASSUME NEW s \in Sides PROVE FrameSound(s) /\ InStep(s)
  BY DEF Init, FrameSound, InStep
<1>6. ASSUME NEW s \in Sides PROVE InFlight(s)
  <2>1. /\ Peer(s) \in Sides /\ Peer(s) # s
    BY TwoSides
  <2>2. /\ wire[s] = <<>> /\ Progress(s) = 0 /\ Progress(Peer(s)) = 0 /\ at[s] = 1 /\ at[Peer(s)] = 1
    BY <2>1 DEF Init, Progress
  <2>3. Written(Peer(s), 1) = 0
    BY <2>2 DEF Written
  <2>4. Len(wire[s]) = 0
    BY <2>2
  <2> QED BY <2>2, <2>3, <2>4 DEF InFlight
<1>7. link = "up"
  BY DEF Init
<1> QED BY <1>3, <1>4, <1>5, <1>6, <1>7 DEF IInv

\* A side that ends reads and writes nothing more; a connection that fails
\* loses what was in flight.  Nothing else the invariant speaks of changes.
LEMMA QuietStep ==
  ASSUME IInv, UNCHANGED <<setup, at, part, reader, outcome>>,
         link' \in {"up", "broken", "silent"}, link' = "up" => link = "up",
         \/ wire' = wire /\ (link' # "up" => link # "up")
         \/ link' # "up" /\ wire' = [s \in Sides |-> <<>>],
         state' \in [Sides -> {"run", "done", "failed"}],
         \A s \in Sides : state'[s] = "run" => state[s] = "run",
         state'["client"] = "done" => state["client"] = "done" \/ at["client"] = AnswerAt + 1
  PROVE  IInv'
<1>1. UNCHANGED <<kind, pinned, size, got, need, whole, at, part, outcome>>
  BY DEF setup, reader
<1>2. /\ Senders' = Senders /\ AnswerAt' = AnswerAt
      /\ \A m : BodySize(m)' = BodySize(m) /\ Frame(m)' = Frame(m) /\ \A i : Due(m, i)' = Due(m, i)
      /\ \A s, m : Sends(s, m)' = Sends(s, m)
  BY SameConversation
<1>3. TypeOK'
  <2>1. wire' \in [Sides -> Seq(Unit)]
    <3>1. <<>> \in Seq(Unit)
      BY EmptySeq
    <3> QED BY <3>1 DEF IInv, TypeOK
  <2> QED BY <1>1, <1>2, <2>1 DEF IInv, TypeOK
<1>4. Handled'
  BY <1>1, <1>2 DEF IInv, Handled
<1>5. ASSUME NEW s \in Sides PROVE FrameSound(s)' /\ InStep(s)'
  <2>1. FrameSound(s) /\ InStep(s)
    BY DEF IInv
  <2>2. FrameSound(s)'
    BY <1>1, <1>2, <2>1 DEF FrameSound, Reading, Running
  <2> QED BY <1>1, <1>2, <2>1, <2>2 DEF InStep
<1>6. ASSUME NEW s \in Sides PROVE InFlight(s)'
  <2> SUFFICES ASSUME link' = "up", state'[s] = "run" PROVE InFlight(s)'
    BY DEF InFlight
  <2>1. /\ link = "up" /\ state[s] = "run" /\ wire' = wire /\ InFlight(s)
    BY DEF IInv
  <2>2. Reading(s)' <=> Reading(s)
    BY <1>1, <1>2, <2>1 DEF Reading, Running
  <2>3. Progress(s)' = Progress(s) /\ Written(Peer(s), at[s])' = Written(Peer(s), at[s])
    BY <1>1, <1>2 DEF Progress, Written
  <2> QED BY <1>1, <1>2, <2>1, <2>2, <2>3 DEF InFlight
<1>7. link' # "up" => \A s \in Sides : wire'[s] = <<>>
  BY DEF IInv
<1> QED BY <1>3, <1>4, <1>5, <1>6, <1>7 DEF IInv

-----------------------------------------------------------------------------
(* Writing.                                                                *)

\* Only this side's place changes.
OnlySide(s) ==
  /\ UNCHANGED <<setup, link>>
  /\ \A r \in Sides : r # s =>
       /\ state'[r] = state[r] /\ at'[r] = at[r] /\ part'[r] = part[r] /\ got'[r] = got[r]
       /\ need'[r] = need[r] /\ whole'[r] = whole[r]

\* What the other side has done so far is not touched by such a step.
LEMMA OtherSide ==
  ASSUME IInv, NEW s \in Sides, OnlySide(s), NEW r \in Sides, r # s
  PROVE  /\ Progress(r)' = Progress(r) /\ (Reading(r)' <=> Reading(r))
         /\ FrameSound(r)' /\ at'[r] = at[r] /\ (state'[r] = "run" <=> state[r] = "run")
         /\ \A m \in Nat : Written(r, m)' = Written(r, m)
         /\ AnswerAt' = AnswerAt /\ Senders' = Senders
<1>1. /\ Senders' = Senders /\ AnswerAt' = AnswerAt
      /\ \A m : BodySize(m)' = BodySize(m) /\ Frame(m)' = Frame(m)
      /\ \A q, m : Sends(q, m)' = Sends(q, m)
  BY SameConversation DEF OnlySide
<1>2. /\ at'[r] = at[r] /\ part'[r] = part[r] /\ got'[r] = got[r]
      /\ need'[r] = need[r] /\ whole'[r] = whole[r] /\ state'[r] = state[r]
  BY DEF OnlySide
<1>3. Reading(r)' <=> Reading(r)
  BY <1>1, <1>2 DEF Reading, Running
<1>4. Progress(r)' = Progress(r)
  BY <1>2 DEF Progress
<1>5. ASSUME NEW m \in Nat PROVE Written(r, m)' = Written(r, m)
  BY <1>1, <1>2, <1>4 DEF Written
<1>6. FrameSound(r)
  BY DEF IInv
<1>7. FrameSound(r)'
  BY <1>1, <1>2, <1>3, <1>6 DEF FrameSound
<1> QED BY <1>1, <1>2, <1>3, <1>4, <1>5, <1>7

\* The reader finds the unit written at the end of what is in flight to it.
LEMMA WriteArrives ==
  ASSUME IInv, NEW s \in Sides, Writing(s), OnlySide(s), NEW unit \in Unit, Put(s, unit),
         LET m == at[Peer(s)] IN
           at[s] \in {m, m + 1} => /\ Written(s, m)' = Written(s, m) + 1
                                   /\ unit = Due(m, Written(s, m) + 1)
  PROVE  InFlight(Peer(s))'
<1> DEFINE r == Peer(s)
           m == at[r]
<1>1. r \in Sides /\ r # s /\ Peer(r) = s
  BY TwoSides
<1> SUFFICES ASSUME link' = "up", state'[r] = "run" PROVE InFlight(r)'
  BY DEF InFlight
<1>2. link = "up" /\ state[r] = "run"
  BY <1>1, OtherSide DEF OnlySide
<1>3. Reading(r) /\ at[s] \in {m, m + 1}
  BY <1>2, ReaderNear, Places DEF IInv
<1>4. /\ Len(wire[r]) + Progress(r) = Written(s, m)
      /\ \A i \in 1..Len(wire[r]) : wire[r][i] = Due(m, Progress(r) + i)
      /\ wire \in [Sides -> Seq(Unit)] /\ wire[r] \in Seq(Unit) /\ Progress(r) \in Nat /\ m \in Nat
  <2>1. InFlight(r) /\ TypeOK
    BY <1>1 DEF IInv
  <2>2. wire \in [Sides -> Seq(Unit)] /\ wire[r] \in Seq(Unit)
    BY <1>1, <2>1 DEF TypeOK
  <2>3. Progress(r) \in Nat /\ m \in Nat
    BY <1>1, <2>1, Places
  <2>4. /\ Len(wire[r]) + Progress(r) = Written(s, m)
        /\ \A i \in 1..Len(wire[r]) : wire[r][i] = Due(m, Progress(r) + i)
    BY <1>1, <1>2, <1>3, <2>1 DEF InFlight
  <2> QED BY <2>2, <2>3, <2>4
<1>5. wire'[r] = Append(wire[r], unit)
  BY <1>1, <1>2, <1>4 DEF Put
<1>6. /\ Len(wire'[r]) = Len(wire[r]) + 1 /\ Len(wire[r]) \in Nat
      /\ \A i \in 1..Len(wire[r]) : wire'[r][i] = wire[r][i]
      /\ wire'[r][Len(wire[r]) + 1] = unit
  BY <1>4, <1>5, AppendProperties, LenProperties
<1>7. /\ Progress(r)' = Progress(r) /\ Reading(r)' /\ at'[r] = m /\ Written(s, m)' = Written(s, m) + 1
      /\ \A i : Due(m, i)' = Due(m, i)
  <2>1. Progress(r)' = Progress(r) /\ (Reading(r)' <=> Reading(r)) /\ at'[r] = m
    BY <1>1, OtherSide
  <2>2. \A i : Due(m, i)' = Due(m, i)
    <3>1. UNCHANGED setup
      BY DEF OnlySide
    <3>2. \A k : \A i : Due(k, i)' = Due(k, i)
      BY <3>1, SameConversation
    <3> QED BY <2>1, <3>2
  <2>3. Written(s, m)' = Written(s, m) + 1
    BY <1>3
  <2> QED BY <1>3, <2>1, <2>2, <2>3
<1>8. Len(wire'[r]) + Progress(r)' = Written(s, m)'
  BY <1>4, <1>6, <1>7
<1>9. ASSUME NEW i \in 1..Len(wire'[r]) PROVE wire'[r][i] = Due(m, Progress(r) + i)
  <2>1. CASE i \in 1..Len(wire[r])
    BY <1>4, <1>6, <2>1
  <2>2. CASE i = Len(wire[r]) + 1
    <3>1. unit = Due(m, Written(s, m) + 1)
      BY <1>3
    <3>2. Progress(r) + i = Written(s, m) + 1
      BY <1>4, <1>6, <2>2
    <3> QED BY <1>6, <2>2, <3>1, <3>2
  <2> QED BY <1>6, <2>1, <2>2
<1> QED BY <1>1, <1>7, <1>8, <1>9 DEF InFlight

\* What is left of a write: the writer is still in step, and finds nothing in
\* flight when it turns to reading.
LEMMA WriteStep ==
  ASSUME IInv, NEW s \in Sides, Writing(s), OnlySide(s), NEW unit \in Unit, Put(s, unit),
         LET m == at[Peer(s)] IN
           at[s] \in {m, m + 1} => /\ Written(s, m)' = Written(s, m) + 1
                                   /\ unit = Due(m, Written(s, m) + 1),
         UNCHANGED <<outcome, need, whole, state>>, FrameSound(s)',
         part' \in [Sides -> {"head", "body"}], got' \in [Sides -> Nat],
         \/ at' = at
         \/ at' = [at EXCEPT ![s] = @ + 1] /\ part'[s] = "head",
         s = "server" /\ at[s] = AnswerAt => outcome # "none"
  PROVE  IInv'
<1> DEFINE r == Peer(s)
<1>1. r \in Sides /\ r # s /\ Peer(r) = s /\ \A q \in Sides : q = s \/ q = r
  BY TwoSides
<1>2. /\ at[s] \in 1..AnswerAt /\ Senders[at[s]] = s /\ state[s] = "run" /\ ~Reading(s)
      /\ at[r] <= at[s] /\ at[r] \in Nat /\ at[s] \in Nat /\ AnswerAt \in Nat
  BY <1>1, Places, ReaderNear DEF IInv, Sends
<1>3. /\ AnswerAt' = AnswerAt /\ Senders' = Senders /\ at'[r] = at[r]
      /\ \A q, m : Sends(q, m)' = Sends(q, m)
  BY <1>1, OtherSide, SameConversation DEF OnlySide
<1>4. at \in [Sides -> 1..(AnswerAt + 1)] /\ at'[s] \in {at[s], at[s] + 1}
  BY DEF IInv, TypeOK
<1>5. TypeOK'
  <2>1. at' \in [Sides -> 1..(AnswerAt + 1)]
    BY <1>2, <1>4
  <2>2. wire' \in [Sides -> Seq(Unit)]
    <3>1. wire \in [Sides -> Seq(Unit)] /\ wire[r] \in Seq(Unit)
      BY <1>1 DEF IInv, TypeOK
    <3>2. Append(wire[r], unit) \in Seq(Unit)
      BY <3>1, AppendProperties
    <3> QED BY <3>1, <3>2 DEF Put
  <2> QED BY <1>3, <2>1, <2>2 DEF IInv, TypeOK, OnlySide, setup
<1>6. Handled'
  <2>1. Handled /\ "server" \in Sides /\ "client" \in Sides
    BY DEF IInv, Sides
  <2>2. CASE s = "server"
    <3>1. r = "client"
      BY <2>2 DEF Peer
    <3>2. outcome # "none" => at[s] >= AnswerAt
      BY <2>1, <2>2 DEF Handled
    <3>3. at'[s] = AnswerAt + 1 \/ (at'[s] = AnswerAt /\ part'[s] = "body") => outcome # "none"
      <4>1. CASE at'[s] = at[s]
        BY <1>2, <2>2, <4>1
      <4>2. CASE at'[s] = at[s] + 1 /\ part'[s] = "head"
        BY <1>2, <2>2, <4>2
      <4> QED BY <1>4, <4>1, <4>2
    <3>4. state'["client"] = "done" => at'["client"] = AnswerAt + 1
      BY <1>3, <2>1, <3>1 DEF Handled, OnlySide
    <3> QED BY <1>2, <1>3, <1>4, <2>2, <3>2, <3>3, <3>4 DEF Handled
  <2>3. CASE s = "client"
    <3>1. r = "server"
      BY <2>3 DEF Peer
    <3> QED BY <1>1, <1>2, <1>3, <2>1, <2>3, <3>1 DEF Handled, OnlySide
  <2> QED BY <2>2, <2>3 DEF Sides
<1>7. InStep(s)' /\ InStep(r)'
  <2>1. InStep(s) /\ InStep(r)
    BY <1>1 DEF IInv
  <2>2. InStep(s)'
    BY <1>1, <1>2, <1>3, <1>4, <2>1 DEF InStep
  <2>3. InStep(r)'
    BY <1>1, <1>2, <1>3, <1>4, <2>1 DEF InStep
  <2> QED BY <2>2, <2>3
<1>8. FrameSound(r)'
  BY <1>1, OtherSide
<1>9. InFlight(r)'
  BY WriteArrives
<1>10. InFlight(s)'
  <2> SUFFICES ASSUME link' = "up", state'[s] = "run" PROVE InFlight(s)'
    BY DEF InFlight
  <2>1. wire'[s] = <<>>
    <3>1. wire[s] = <<>>
      BY <1>2 DEF IInv, InFlight, OnlySide
    <3> QED BY <1>1, <3>1 DEF Put, IInv, TypeOK
  <2>2. CASE ~Reading(s)'
    BY <2>1, <2>2 DEF InFlight
  <2>3. CASE Reading(s)'
    <3>1. at'[s] = at[s] + 1 /\ part'[s] = "head"
      BY <1>2, <1>3, <2>3 DEF Reading, IInv, TypeOK
    <3>2. Progress(s)' = 0
      BY <3>1 DEF Progress
    <3>3. at'[r] < at'[s] /\ at'[r] \in Nat /\ at'[s] \in Nat
      BY <1>2, <1>3, <3>1
    <3>4. Written(r, at[s])' = 0
      BY <3>3 DEF Written
    <3>5. Len(wire'[s]) = 0
      BY <2>1
    <3>6. \A i \in 1..Len(wire'[s]) : FALSE
      BY <3>5
    <3> QED BY <2>3, <3>2, <3>4, <3>5, <3>6 DEF InFlight
  <2> QED BY <2>2, <2>3
<1>11. link' # "up" => \A q \in Sides : wire'[q] = <<>>
  BY DEF IInv, Put, OnlySide
<1> QED BY <1>1, <1>5, <1>6, <1>7, <1>8, <1>9, <1>10, <1>11 DEF IInv

\* The length of a frame.
LEMMA StepWriteHead ==
  ASSUME IInv, NEW s \in Sides, WriteHead(s)
  PROVE  IInv'
<1> DEFINE r == Peer(s)
           n == at[s]
           unit == [t |-> "length", v |-> BodySize(n)]
<1>1. r \in Sides /\ r # s /\ Peer(r) = s
  BY TwoSides
<1>2. /\ Writing(s) /\ part[s] = "head" /\ BodySize(n) <= MaxMessage /\ Put(s, unit)
      /\ part' = [part EXCEPT ![s] = "body"] /\ got' = [got EXCEPT ![s] = 0]
      /\ UNCHANGED <<setup, at, need, whole, state, outcome, link>>
      /\ n = AnswerAt => outcome # "none"
  BY DEF WriteHead
<1>3. /\ n \in 1..AnswerAt /\ n \in Nat /\ Sends(s, n) /\ at[r] \in Nat /\ AnswerAt \in Nat
      /\ Senders[n] = s /\ at[r] >= 1
  BY <1>1, <1>2, Places DEF IInv, Sends
<1>4. BodySize(n) \in Nat \ {0} /\ BodySize(at[r]) \in Nat \ {0}
      /\ Frame(at[r]) = BodySize(at[r]) + 1
  BY <1>3, Bodies DEF IInv
<1>5. /\ Senders' = Senders /\ AnswerAt' = AnswerAt
      /\ \A m : BodySize(m)' = BodySize(m) /\ Frame(m)' = Frame(m)
      /\ \A q, m : Sends(q, m)' = Sends(q, m)
  BY <1>2, SameConversation
<1>6. /\ part' \in [Sides -> {"head", "body"}] /\ got' \in [Sides -> Nat]
      /\ part'[s] = "body" /\ got'[s] = 0
      /\ \A q \in Sides : q # s => part'[q] = part[q] /\ got'[q] = got[q]
  BY <1>2 DEF IInv, TypeOK
<1>7. OnlySide(s)
  BY <1>2, <1>6 DEF OnlySide
<1>8. Progress(s) = 0 /\ Progress(s)' = 1
  BY <1>2, <1>6 DEF Progress
<1>9. unit \in Unit
  BY <1>4 DEF Unit
<1>10. ASSUME n \in {at[r], at[r] + 1}
       PROVE  /\ Written(s, at[r])' = Written(s, at[r]) + 1
              /\ unit = Due(at[r], Written(s, at[r]) + 1)
  <2>1. CASE n = at[r]
    <3>1. Written(s, at[r]) = 0 /\ Written(s, at[r])' = 1
      BY <1>2, <1>3, <1>8, <2>1 DEF Written
    <3>2. unit = Due(at[r], 1)
      BY <1>4, <2>1 DEF Due, UnitOf
    <3> QED BY <3>1, <3>2
  <2>2. CASE n = at[r] + 1
    <3>1. Sends(s, at[r] + 1)
      BY <1>3, <2>2
    <3>2. Written(s, at[r]) = Frame(at[r]) /\ Written(s, at[r])' = Frame(at[r]) + 1
      BY <1>2, <1>3, <1>4, <1>5, <1>8, <2>2, <3>1 DEF Written
    <3>3. unit = Due(at[r], Frame(at[r]) + 1)
      BY <1>3, <1>4, <2>2 DEF Due, UnitOf
    <3> QED BY <3>2, <3>3
  <2> QED BY <1>10, <2>1, <2>2
<1>11. FrameSound(s)'
  <2>1. FrameSound(s) /\ ~Reading(s)
    BY <1>2, Places, TwoSides DEF IInv, Sends
  <2>2. ~Reading(s)'
    BY <1>2, <1>5, <2>1 DEF Reading, Running
  <2> QED BY <1>2, <1>3, <1>4, <1>5, <1>6, <2>1, <2>2 DEF FrameSound
<1> QED BY <1>2, <1>6, <1>7, <1>9, <1>10, <1>11, WriteStep

\* A unit of the body.
LEMMA StepWriteBody ==
  ASSUME IInv, NEW s \in Sides, WriteBody(s)
  PROVE  IInv'
<1> DEFINE r == Peer(s)
           n == at[s]
           unit == [t |-> "bytes", v |-> n]
           last == got[s] + 1 = BodySize(n)
<1>1. r \in Sides /\ r # s /\ Peer(r) = s
  BY TwoSides
<1>2. /\ Writing(s) /\ part[s] = "body" /\ Put(s, unit)
      /\ got' = [got EXCEPT ![s] = @ + 1]
      /\ part' = [part EXCEPT ![s] = IF last THEN "head" ELSE @]
      /\ at' = [at EXCEPT ![s] = IF last THEN @ + 1 ELSE @]
      /\ UNCHANGED <<setup, need, whole, state, outcome, link>>
  BY DEF WriteBody
<1>3. /\ n \in 1..AnswerAt /\ n \in Nat /\ Sends(s, n) /\ at[r] \in Nat /\ AnswerAt \in Nat
      /\ Senders[n] = s /\ at[r] >= 1 /\ got[s] \in Nat
  BY <1>1, <1>2, Places DEF IInv, Sends
<1>4. BodySize(n) \in Nat \ {0} /\ BodySize(at[r]) \in Nat \ {0}
      /\ Frame(at[r]) = BodySize(at[r]) + 1 /\ Frame(n) = BodySize(n) + 1
  BY <1>3, Bodies DEF IInv
<1>5. /\ Senders' = Senders /\ AnswerAt' = AnswerAt
      /\ \A m : BodySize(m)' = BodySize(m) /\ Frame(m)' = Frame(m)
      /\ \A q, m : Sends(q, m)' = Sends(q, m)
  BY <1>2, SameConversation
<1>6. /\ at \in [Sides -> 1..(AnswerAt + 1)] /\ part \in [Sides -> {"head", "body"}]
      /\ got \in [Sides -> Nat]
  BY DEF IInv, TypeOK
<1>7. /\ part' \in [Sides -> {"head", "body"}] /\ got' \in [Sides -> Nat]
      /\ got'[s] = got[s] + 1
      /\ \A q \in Sides : q # s => part'[q] = part[q] /\ got'[q] = got[q] /\ at'[q] = at[q]
      /\ at'[s] = IF last THEN n + 1 ELSE n
      /\ part'[s] = IF last THEN "head" ELSE "body"
  BY <1>2, <1>6
<1>8. OnlySide(s)
  BY <1>2, <1>7 DEF OnlySide
<1>9. FrameSound(s) /\ ~Reading(s) /\ got[s] < BodySize(n)
  <2>1. FrameSound(s) /\ ~Reading(s)
    BY <1>2, Places, TwoSides DEF IInv, Sends
  <2> QED BY <1>2, <1>3, <2>1 DEF FrameSound
<1>10. /\ Progress(s) = got[s] + 1
       /\ Progress(s)' = IF last THEN 0 ELSE got[s] + 2
  BY <1>2, <1>3, <1>7 DEF Progress
<1>11. unit \in Unit
  BY <1>3 DEF Unit
<1>12. ASSUME n \in {at[r], at[r] + 1}
       PROVE  /\ Written(s, at[r])' = Written(s, at[r]) + 1
              /\ unit = Due(at[r], Written(s, at[r]) + 1)
  <2>1. PICK k \in Nat : k = at[r]
    BY <1>3
  <2>2. CASE n = k
    <3>1. Written(s, k) = got[s] + 1
      BY <1>3, <1>10, <2>2 DEF Written
    <3>2. Written(s, k)' = got[s] + 2
      <4>1. CASE last
        <5>1. at'[s] = k + 1 /\ Progress(s)' = 0 /\ BodySize(k) = got[s] + 1
          BY <1>7, <1>10, <2>2, <4>1
        <5>2. Written(s, k)' = Frame(k)' + (IF Sends(s, k + 1)' THEN 0 ELSE 0)
          BY <2>1, <5>1 DEF Written
        <5> QED BY <1>3, <1>4, <1>5, <2>2, <5>1, <5>2
      <4>2. CASE ~last
        BY <1>7, <1>10, <2>1, <2>2, <4>2 DEF Written
      <4> QED BY <4>1, <4>2
    <3>3. unit = Due(k, got[s] + 2)
      BY <1>3, <1>4, <1>9, <2>2 DEF Due, UnitOf
    <3>4. Written(s, k)' = Written(s, k) + 1 /\ unit = Due(k, Written(s, k) + 1)
      BY <1>3, <3>1, <3>2, <3>3
    <3> QED BY <1>1, <1>7, <2>1, <3>4 DEF Written
  <2>3. CASE n = k + 1
    <3>1. Sends(s, k + 1)
      BY <1>3, <2>3
    <3>2. Written(s, k) = Frame(k) + got[s] + 1
      BY <1>3, <1>4, <1>10, <2>1, <2>3, <3>1 DEF Written
    <3>3. Written(s, k)' = Frame(k) + got[s] + 2
      <4>1. CASE last
        <5>1. at'[s] = k + 2 /\ BodySize(n) = got[s] + 1
          BY <1>7, <2>1, <2>3, <4>1
        <5>2. Written(s, k)' = Frame(k)' + Frame(k + 1)'
          BY <2>1, <5>1 DEF Written
        <5> QED BY <1>3, <1>4, <1>5, <2>1, <2>3, <5>1, <5>2
      <4>2. CASE ~last
        <5>1. at'[s] = k + 1 /\ Progress(s)' = got[s] + 2 /\ Sends(s, k + 1)'
          BY <1>5, <1>7, <1>10, <2>3, <3>1, <4>2
        <5>2. Written(s, k)' = Frame(k)' + (got[s] + 2)
          BY <2>1, <5>1 DEF Written
        <5> QED BY <1>3, <1>4, <1>5, <2>1, <5>2
      <4> QED BY <4>1, <4>2
    <3>4. unit = Due(k, Frame(k) + got[s] + 2)
      BY <1>3, <1>4, <1>9, <2>1, <2>3 DEF Due, UnitOf
    <3>5. Written(s, k)' = Written(s, k) + 1 /\ unit = Due(k, Written(s, k) + 1)
      BY <1>3, <1>4, <2>1, <3>2, <3>3, <3>4
    <3> QED BY <1>1, <1>7, <2>1, <3>5 DEF Written
  <2> QED BY <1>12, <2>1, <2>2, <2>3
<1>13. FrameSound(s)'
  <2>1. CASE last
    <3>1. at'[s] = n + 1 /\ part'[s] = "head"
      BY <1>7, <2>1
    <3>2. \A m \in 1..AnswerAt : Senders[m] = s /\ m < n + 1 => BodySize(m) <= MaxMessage
      <4>1. ASSUME NEW m \in 1..AnswerAt, Senders[m] = s, m < n + 1 PROVE BodySize(m) <= MaxMessage
        <5>1. m < n \/ (m = n /\ part[s] = "body")
          BY <1>2, <1>3, <4>1
        <5> QED BY <1>9, <4>1, <5>1 DEF FrameSound
      <4> QED BY <4>1
    <3> QED BY <1>2, <1>3, <1>5, <1>9, <3>1, <3>2 DEF FrameSound
  <2>2. CASE ~last
    <3>1. at'[s] = n /\ part'[s] = "body" /\ got'[s] = got[s] + 1 /\ got[s] + 1 < BodySize(n)
      BY <1>3, <1>4, <1>7, <1>9, <2>2
    <3>2. ~Reading(s)'
      BY <1>2, <1>5, <1>9, <3>1 DEF Reading, Running
    <3> QED BY <1>2, <1>3, <1>5, <1>9, <3>1, <3>2 DEF FrameSound
  <2> QED BY <2>1, <2>2
<1>14. s = "server" /\ n = AnswerAt => outcome # "none"
  BY <1>2 DEF IInv, Handled
<1>15. at' = at \/ (at' = [at EXCEPT ![s] = @ + 1] /\ part'[s] = "head")
  BY <1>2, <1>6, <1>7
<1> QED BY <1>2, <1>7, <1>8, <1>11, <1>12, <1>13, <1>14, <1>15, WriteStep

-----------------------------------------------------------------------------
(* Reading.                                                                *)

\* What a reader takes from the stream is the unit due next, and the rest
\* follows it.
LEMMA NextUnit ==
  ASSUME IInv, NEW s \in Sides, Reading(s), wire[s] # <<>>, Take(s)
  PROVE  /\ link = "up" /\ state[s] = "run" /\ wire' \in [Sides -> Seq(Unit)]
         /\ wire'[Peer(s)] = wire[Peer(s)]
         /\ Head(wire[s]) = Due(at[s], Progress(s) + 1)
         /\ Len(wire'[s]) \in Nat
         /\ Len(wire'[s]) + Progress(s) + 1 = Written(Peer(s), at[s])
         /\ \A i \in 1..Len(wire'[s]) : wire'[s][i] = Due(at[s], Progress(s) + i + 1)
<1>1. /\ link = "up" /\ state[s] = "run" /\ wire \in [Sides -> Seq(Unit)] /\ wire[s] \in Seq(Unit)
      /\ Progress(s) \in Nat
  BY Places DEF IInv, TypeOK, Reading, Running
<1>2. /\ Len(wire[s]) + Progress(s) = Written(Peer(s), at[s])
      /\ \A i \in 1..Len(wire[s]) : wire[s][i] = Due(at[s], Progress(s) + i)
  BY <1>1 DEF IInv, InFlight
<1>3. /\ Head(wire[s]) = wire[s][1] /\ Tail(wire[s]) \in Seq(Unit)
      /\ Len(wire[s]) \in Nat \ {0} /\ Len(Tail(wire[s])) = Len(wire[s]) - 1
      /\ \A i \in 1..(Len(wire[s]) - 1) : Tail(wire[s])[i] = wire[s][i + 1]
  <2>1. Len(wire[s]) \in Nat /\ Len(wire[s]) # 0
    BY <1>1, LenProperties, EmptySeq
  <2>2. /\ Tail(wire[s]) \in Seq(Unit) /\ Len(Tail(wire[s])) = Len(wire[s]) - 1
        /\ \A i \in 1..Len(Tail(wire[s])) : Tail(wire[s])[i] = wire[s][i + 1]
    BY <1>1, HeadTailProperties
  <2> QED BY <2>1, <2>2
<1>4. wire' = [wire EXCEPT ![s] = Tail(wire[s])]
  BY <1>1 DEF Take
<1>5. wire'[s] = Tail(wire[s]) /\ wire'[Peer(s)] = wire[Peer(s)] /\ wire' \in [Sides -> Seq(Unit)]
  BY <1>1, <1>3, <1>4, TwoSides
<1>6. Head(wire[s]) = Due(at[s], Progress(s) + 1)
  <2>1. 1 \in 1..Len(wire[s])
    BY <1>3
  <2> QED BY <1>2, <1>3, <2>1
<1>7. ASSUME NEW i \in 1..Len(wire'[s]) PROVE wire'[s][i] = Due(at[s], Progress(s) + i + 1)
  <2>1. i \in 1..(Len(wire[s]) - 1) /\ i + 1 \in 1..Len(wire[s])
    BY <1>3, <1>5
  <2>2. wire'[s][i] = wire[s][i + 1]
    BY <1>3, <1>5, <2>1
  <2>3. wire[s][i + 1] = Due(at[s], Progress(s) + (i + 1))
    BY <1>2, <2>1
  <2>4. Progress(s) + (i + 1) = Progress(s) + i + 1
    BY <1>1, <2>1
  <2> QED BY <2>2, <2>3, <2>4
<1>8. Len(wire'[s]) \in Nat /\ Len(wire'[s]) = Len(wire[s]) - 1
  BY <1>3, <1>5
<1>9. Len(wire'[s]) + Progress(s) + 1 = Len(wire[s]) + Progress(s)
  <2>1. Len(wire[s]) \in Nat \ {0} /\ Progress(s) \in Nat
    BY <1>1, <1>3
  <2> QED BY <1>8, <2>1
<1>10. Len(wire'[s]) + Progress(s) + 1 = Written(Peer(s), at[s])
  BY <1>2, <1>9
<1>11. \A i \in 1..Len(wire'[s]) : wire'[s][i] = Due(at[s], Progress(s) + i + 1)
  BY <1>7
<1> QED BY <1>1, <1>5, <1>6, <1>8, <1>10, <1>11

\* What is left of a read: the peer finds nothing changed.
LEMMA ReadStep ==
  ASSUME IInv, NEW s \in Sides, Reading(s), wire[s] # <<>>, Take(s), OnlySide(s),
         UNCHANGED outcome, state' \in [Sides -> {"run", "done", "failed"}],
         state'[s] \in {"run", "failed"},
         at' \in [Sides -> 1..(AnswerAt + 1)], part' \in [Sides -> {"head", "body"}],
         got' \in [Sides -> Nat], need' \in [Sides -> Nat], whole' \in [Sides -> BOOLEAN],
         \/ at' = at
         \/ at'[s] = at[s] + 1 /\ part'[s] = "head" /\ at[Peer(s)] > at[s],
         FrameSound(s)', InFlight(s)'
  PROVE  IInv'
<1> DEFINE r == Peer(s)
<1>1. r \in Sides /\ r # s /\ Peer(r) = s /\ \A q \in Sides : q = s \/ q = r
  BY TwoSides
<1>2. /\ at[s] \in 1..AnswerAt /\ Senders[at[s]] = r /\ state[s] = "run" /\ link = "up"
      /\ at[r] \in Nat /\ at[s] \in Nat /\ AnswerAt \in Nat /\ wire' \in [Sides -> Seq(Unit)]
      /\ wire'[r] = wire[r]
  <2>1. /\ link = "up" /\ wire' \in [Sides -> Seq(Unit)] /\ wire'[r] = wire[r]
    BY NextUnit
  <2>2. /\ at[s] \in Nat /\ at[s] >= 1 /\ at[s] <= AnswerAt /\ AnswerAt \in Nat
        /\ Senders[at[s]] = r /\ state[s] = "run" /\ at[r] \in Nat
    BY <1>1, Places DEF IInv
  <2> QED BY <2>1, <2>2
<1>3. /\ AnswerAt' = AnswerAt /\ Senders' = Senders /\ at'[r] = at[r]
  BY <1>1, OtherSide
<1>4. TypeOK'
  BY <1>2, <1>3 DEF IInv, TypeOK, OnlySide, setup
<1>5. at'[s] \in {at[s], at[s] + 1}
  OBVIOUS
<1>6. Handled'
  <2>1. Handled
    BY DEF IInv
  <2>2. CASE s = "server"
    <3>1. r = "client"
      BY <2>2 DEF Peer
    <3>2. at[s] # AnswerAt
      BY <1>2, <2>2, <3>1, Turns DEF IInv, TypeOK
    <3>3. at'[s] = AnswerAt + 1 \/ (at'[s] = AnswerAt /\ part'[s] = "body") => FALSE
      BY <1>2, <3>2
    <3>4. state'["client"] = "done" => at'["client"] = AnswerAt + 1
      <4>1. state'[r] = state[r]
        BY <1>1 DEF OnlySide
      <4> QED BY <1>3, <2>1, <3>1, <4>1 DEF Handled
    <3>5. outcome # "none" => at'[s] >= AnswerAt
      BY <1>2, <1>5, <2>1, <2>2 DEF Handled
    <3> QED BY <1>3, <2>2, <3>3, <3>4, <3>5 DEF Handled
  <2>3. CASE s = "client"
    <3>1. r = "server" /\ part'[r] = part[r]
      BY <1>1, <2>3 DEF Peer, OnlySide
    <3> QED BY <1>2, <1>3, <2>1, <2>3, <3>1 DEF Handled
  <2> QED BY <2>2, <2>3 DEF Sides
<1>7. InStep(s)' /\ InStep(r)'
  <2>1. InStep(s) /\ InStep(r)
    BY <1>1 DEF IInv
  <2>2. InStep(s)'
    <3>1. \A m \in 1..AnswerAt : m < at[s] /\ Senders[m] # s => m < at[r]
      BY <2>1 DEF InStep
    <3>2. CASE at' = at
      BY <1>3, <2>1, <3>2 DEF InStep
    <3>3. CASE at'[s] = at[s] + 1 /\ at[r] > at[s]
      <4>1. ASSUME NEW m \in 1..AnswerAt, m < at'[s] PROVE m < at[r]
        <5>1. m \in Nat /\ m <= at[s]
          BY <1>2, <3>3, <4>1
        <5> QED BY <1>2, <3>3, <5>1
      <4> QED BY <1>3, <4>1 DEF InStep
    <3> QED BY <3>2, <3>3
  <2>3. InStep(r)'
    <3>1. \A m \in 1..AnswerAt : m < at[r] /\ Senders[m] # r => m < at[s]
      BY <1>1, <2>1 DEF InStep
    <3>2. \A m \in 1..AnswerAt : m < at[r] /\ Senders[m] # r => m < at'[s]
      BY <1>2, <1>5, <3>1
    <3> QED BY <1>1, <1>3, <3>2 DEF InStep
  <2> QED BY <2>2, <2>3
<1>8. FrameSound(r)'
  BY <1>1, OtherSide
<1>9. InFlight(r)'
  <2> SUFFICES ASSUME link' = "up", state'[r] = "run" PROVE InFlight(r)'
    BY DEF InFlight
  <2>1. state[r] = "run" /\ InFlight(r) /\ Progress(r)' = Progress(r) /\ (Reading(r)' <=> Reading(r))
    BY <1>1, OtherSide DEF IInv
  <2>2. CASE ~Reading(r)
    BY <1>2, <2>1, <2>2 DEF InFlight
  <2>3. CASE Reading(r)
    <3>1. /\ at[r] \in 1..AnswerAt /\ Senders[at[r]] = s
      BY <1>1, <2>3, Places DEF IInv
    <3>2. at[r] # at[s]
      BY <1>1, <1>2, <3>1
    <3>3. at[s] < at[r]
      <4>1. CASE at[r] < at[s]
        <5>1. Written(r, at[s]) = 0
          BY <1>2, <4>1 DEF Written
        <5>2. Progress(s) \in Nat /\ Len(wire'[s]) \in Nat /\ Len(wire'[s]) + Progress(s) + 1 = 0
          BY <5>1, NextUnit, Places DEF IInv
        <5> QED BY <5>2
      <4> QED BY <1>2, <3>2, <4>1
    <3>4. Written(s, at[r]) = 0
      BY <1>2, <3>3 DEF Written
    <3>5. at'[r] \in Nat /\ at'[s] \in Nat /\ at'[s] <= at'[r]
      <4>1. at[r] \in Nat /\ at[s] \in Nat /\ at'[r] = at[r]
        BY <1>2, <1>3
      <4> QED BY <1>5, <3>3, <4>1
    <3>6. at'[s] = at'[r] => Progress(s)' = 0
      BY <1>2, <1>3, <3>3 DEF Progress
    <3>7. Written(s, at[r])' = 0
      BY <3>5, <3>6 DEF Written
    <3>8. Len(wire[r]) + Progress(r) = 0
      BY <1>1, <1>2, <2>1, <2>3, <3>4 DEF InFlight
    <3>9. Len(wire[r]) = 0 /\ Progress(r) = 0
      <4>1. Len(wire[r]) \in Nat /\ Progress(r) \in Nat
        BY <1>1, Places, LenProperties DEF IInv
      <4> QED BY <3>8, <4>1
    <3>10. Len(wire'[r]) = 0 /\ Progress(r)' = 0
      BY <1>2, <2>1, <3>9
    <3>11. \A i \in 1..Len(wire'[r]) : FALSE
      BY <3>10
    <3>12. Written(Peer(r), at[r])' = 0
      BY <1>1, <3>7
    <3>13. Reading(r)' /\ Len(wire'[r]) + Progress(r)' = Written(Peer(r), at[r])'
      BY <2>1, <2>3, <3>10, <3>12
    <3> QED BY <3>11, <3>13 DEF InFlight
  <2> QED BY <2>2, <2>3
<1>10. link' # "up" => \A q \in Sides : wire'[q] = <<>>
  BY <1>2 DEF OnlySide
<1> QED BY <1>1, <1>4, <1>6, <1>7, <1>8, <1>9, <1>10 DEF IInv

\* Inside a frame, what is left in flight is what is still due.
LEMMA ReadOn ==
  ASSUME IInv, NEW s \in Sides, Reading(s), wire[s] # <<>>, Take(s), OnlySide(s),
         UNCHANGED <<at, state>>, Progress(s)' = Progress(s) + 1
  PROVE  InFlight(s)'
<1> DEFINE r == Peer(s)
<1>1. r \in Sides /\ r # s /\ Peer(r) = s
  BY TwoSides
<1>2. /\ Progress(r)' = Progress(r) /\ AnswerAt' = AnswerAt /\ Senders' = Senders
      /\ \A m : Frame(m)' = Frame(m) /\ \A i : Due(m, i)' = Due(m, i)
      /\ \A q, m : Sends(q, m)' = Sends(q, m)
  BY <1>1, OtherSide, SameConversation DEF OnlySide
<1>3. Written(Peer(s), at[s])' = Written(Peer(s), at[s])
  BY <1>2 DEF Written
<1>4. Reading(s)'
  BY <1>2 DEF Reading, Running, OnlySide
<1>5. Progress(s) \in Nat
  BY Places DEF IInv
<1>6. Len(wire'[s]) + Progress(s)' = Written(Peer(s), at[s])'
  BY <1>3, <1>5, NextUnit
<1>7. ASSUME NEW i \in 1..Len(wire'[s]) PROVE wire'[s][i] = Due(at[s], Progress(s) + 1 + i)
  <2>1. wire'[s][i] = Due(at[s], Progress(s) + i + 1)
    BY <1>7, NextUnit
  <2>2. Progress(s) + i + 1 = Progress(s) + 1 + i
    BY <1>5, <1>7, NextUnit
  <2> QED BY <2>1, <2>2
<1>8. \A i \in 1..Len(wire'[s]) : wire'[s][i] = Due(at[s], Progress(s) + i)'
  <2> TAKE i \in 1..Len(wire'[s])
  <2>1. Due(at[s], Progress(s) + i)' = Due(at[s], Progress(s) + 1 + i)
    BY <1>2
  <2> QED BY <1>7, <2>1
<1> QED BY <1>4, <1>6, <1>8 DEF InFlight

\* The length of a frame is read as the peer wrote it.
LEMMA StepReadHead ==
  ASSUME IInv, NEW s \in Sides, ReadHead(s)
  PROVE  IInv'
<1> DEFINE m == at[s]
<1>1. /\ Reading(s) /\ part[s] = "head" /\ wire[s] # <<>> /\ Take(s)
      /\ need' = [need EXCEPT ![s] = Head(wire[s]).v]
      /\ whole' = [whole EXCEPT ![s] = Head(wire[s]).t = "length"]
      /\ got' = [got EXCEPT ![s] = 0] /\ part' = [part EXCEPT ![s] = "body"]
      /\ UNCHANGED <<setup, at, state, outcome, link>>
  BY DEF ReadHead
<1>2. /\ m \in 1..AnswerAt /\ m \in Nat /\ AnswerAt \in Nat /\ Progress(s) = 0
  BY <1>1, Places DEF IInv, Progress
<1>3. BodySize(m) \in Nat \ {0} /\ Frame(m) = BodySize(m) + 1
  BY <1>2, Bodies DEF IInv
<1>4. Head(wire[s]) = [t |-> "length", v |-> BodySize(m)]
  <2>1. Head(wire[s]) = Due(m, 1)
    BY <1>1, <1>2, NextUnit
  <2> QED BY <1>3, <2>1 DEF Due, UnitOf
<1>5. /\ part \in [Sides -> {"head", "body"}] /\ got \in [Sides -> Nat] /\ need \in [Sides -> Nat]
      /\ whole \in [Sides -> BOOLEAN]
  BY DEF IInv, TypeOK
<1>6. /\ part' \in [Sides -> {"head", "body"}] /\ got' \in [Sides -> Nat]
      /\ need' \in [Sides -> Nat] /\ whole' \in [Sides -> BOOLEAN]
      /\ part'[s] = "body" /\ got'[s] = 0 /\ need'[s] = BodySize(m) /\ whole'[s]
  <2>1. Head(wire[s]).t = "length" /\ Head(wire[s]).v = BodySize(m)
    BY <1>4
  <2>2. whole' = [whole EXCEPT ![s] = TRUE]
    BY <1>1, <2>1
  <2>3. whole' \in [Sides -> BOOLEAN] /\ whole'[s]
    BY <1>5, <2>2
  <2>4. need' \in [Sides -> Nat] /\ need'[s] = BodySize(m)
    BY <1>1, <1>3, <1>5, <2>1
  <2> QED BY <1>1, <1>5, <2>3, <2>4
<1>7. OnlySide(s)
  BY <1>1, <1>5 DEF OnlySide
<1>8. Progress(s)' = Progress(s) + 1
  BY <1>2, <1>6 DEF Progress
<1>9. InFlight(s)'
  BY <1>1, <1>7, <1>8, ReadOn
<1>10. FrameSound(s)'
  <2>1. FrameSound(s) /\ ~Sends(s, m)
    BY <1>1, Places, TwoSides DEF IInv
  <2>2. /\ Senders' = Senders /\ AnswerAt' = AnswerAt
        /\ \A k : BodySize(k)' = BodySize(k) /\ \A q : Sends(q, k)' = Sends(q, k)
    BY <1>1, SameConversation
  <2>3. \A k \in 1..AnswerAt : Senders[k] = s /\ (k < at[s] \/ (k = at[s] /\ part'[s] = "body")) =>
                              BodySize(k) <= MaxMessage
    BY <2>1 DEF FrameSound, Sends
  <2> QED BY <1>1, <1>3, <1>6, <2>1, <2>2, <2>3 DEF FrameSound
<1>11. /\ at' \in [Sides -> 1..(AnswerAt + 1)]
       /\ state' \in [Sides -> {"run", "done", "failed"}] /\ state'[s] = "run"
  BY <1>1 DEF IInv, TypeOK, Reading, Running
<1> QED BY <1>1, <1>6, <1>7, <1>9, <1>10, <1>11, ReadStep

\* A unit of the body belongs to the message the reader is at.
LEMMA BodyUnit ==
  ASSUME IInv, NEW s \in Sides, Body(s)
  PROVE  /\ got'[s] = got[s] + 1 /\ got' \in [Sides -> Nat]
         /\ got[s] \in Nat /\ got[s] < BodySize(at[s]) /\ need[s] = BodySize(at[s])
         /\ whole'[s] /\ whole' \in [Sides -> BOOLEAN]
         /\ \A r \in Sides : r # s => got'[r] = got[r] /\ whole'[r] = whole[r]
<1> DEFINE m == at[s]
<1>1. /\ Reading(s) /\ part[s] = "body" /\ wire[s] # <<>> /\ Take(s)
      /\ got' = [got EXCEPT ![s] = @ + 1]
      /\ whole' = [whole EXCEPT ![s] = @ /\ Head(wire[s]) = [t |-> "bytes", v |-> m]]
  BY DEF Body
<1>2. /\ m \in Nat /\ got[s] \in Nat /\ Progress(s) = got[s] + 1 /\ FrameSound(s) /\ state[s] = "run"
      /\ got \in [Sides -> Nat] /\ whole \in [Sides -> BOOLEAN]
  BY <1>1, Places DEF IInv, TypeOK, Progress, Reading, Running
<1>3. BodySize(m) \in Nat \ {0} /\ Frame(m) = BodySize(m) + 1
  BY <1>2, Bodies DEF IInv
<1>4. need[s] = BodySize(m) /\ got[s] < need[s] /\ whole[s]
  BY <1>1, <1>2 DEF FrameSound
<1>5. Head(wire[s]) = [t |-> "bytes", v |-> m]
  <2>1. Head(wire[s]) = Due(m, got[s] + 1 + 1)
    BY <1>1, <1>2, NextUnit
  <2>2. got[s] + 1 + 1 <= Frame(m) /\ got[s] + 1 + 1 # 1
    BY <1>2, <1>3, <1>4
  <2> QED BY <2>1, <2>2 DEF Due, UnitOf
<1>6. whole'[s] /\ whole' \in [Sides -> BOOLEAN]
  <2>1. whole'[s] = (whole[s] /\ Head(wire[s]) = [t |-> "bytes", v |-> m])
    BY <1>1, <1>2
  <2>2. whole' \in [Sides -> BOOLEAN]
    BY <1>1, <1>2
  <2> QED BY <1>4, <1>5, <2>1, <2>2
<1> QED BY <1>1, <1>2, <1>4, <1>6

\* The body goes on.
LEMMA StepReadBody ==
  ASSUME IInv, NEW s \in Sides, ReadBody(s)
  PROVE  IInv'
<1>1. /\ Body(s) /\ Reading(s) /\ part[s] = "body" /\ wire[s] # <<>> /\ Take(s)
      /\ got[s] + 1 < need[s] /\ UNCHANGED <<setup, at, part, need, state, outcome, link>>
  BY DEF ReadBody, Body
<1>2. /\ got'[s] = got[s] + 1 /\ got' \in [Sides -> Nat]
      /\ got[s] \in Nat /\ need[s] = BodySize(at[s])
      /\ whole'[s] /\ whole' \in [Sides -> BOOLEAN]
      /\ \A r \in Sides : r # s => got'[r] = got[r] /\ whole'[r] = whole[r]
  BY <1>1, BodyUnit
<1>3. OnlySide(s)
  BY <1>1, <1>2 DEF OnlySide
<1>4. Progress(s)' = Progress(s) + 1
  BY <1>1, <1>2 DEF Progress
<1>5. InFlight(s)'
  BY <1>1, <1>3, <1>4, ReadOn
<1>6. FrameSound(s)'
  <2>1. FrameSound(s) /\ ~Sends(s, at[s])
    BY <1>1, Places, TwoSides DEF IInv
  <2>2. /\ Senders' = Senders /\ AnswerAt' = AnswerAt
        /\ \A k : BodySize(k)' = BodySize(k) /\ \A q : Sends(q, k)' = Sends(q, k)
    BY <1>1, SameConversation
  <2> QED BY <1>1, <1>2, <2>1, <2>2 DEF FrameSound
<1>7. /\ at' \in [Sides -> 1..(AnswerAt + 1)] /\ part' \in [Sides -> {"head", "body"}]
      /\ need' \in [Sides -> Nat]
      /\ state' \in [Sides -> {"run", "done", "failed"}] /\ state'[s] = "run"
  BY <1>1 DEF IInv, TypeOK, Reading, Running
<1> QED BY <1>1, <1>2, <1>3, <1>5, <1>6, <1>7, ReadStep

\* With the last unit the reader goes on to the next message, or fails.
LEMMA StepReadLast ==
  ASSUME IInv, NEW s \in Sides, ReadLast(s)
  PROVE  IInv'
<1> DEFINE r == Peer(s)
           m == at[s]
<1>1. /\ Body(s) /\ Reading(s) /\ part[s] = "body" /\ wire[s] # <<>> /\ Take(s)
      /\ got[s] + 1 = need[s] /\ UNCHANGED <<setup, need, outcome, link>>
  BY DEF ReadLast, Body
<1>2. /\ got'[s] = got[s] + 1 /\ got' \in [Sides -> Nat]
      /\ got[s] \in Nat /\ need[s] = BodySize(m)
      /\ whole'[s] /\ whole' \in [Sides -> BOOLEAN]
      /\ \A q \in Sides : q # s => got'[q] = got[q] /\ whole'[q] = whole[q]
  BY <1>1, BodyUnit
<1>3. /\ at \in [Sides -> 1..(AnswerAt + 1)] /\ part \in [Sides -> {"head", "body"}]
      /\ state \in [Sides -> {"run", "done", "failed"}] /\ need' \in [Sides -> Nat]
  BY <1>1 DEF IInv, TypeOK
<1>4. /\ r \in Sides /\ r # s /\ Peer(r) = s /\ m \in 1..AnswerAt /\ Senders[m] = r /\ m \in Nat
      /\ AnswerAt \in Nat /\ state[s] = "run" /\ at[r] \in Nat /\ Progress(r) \in Nat
      /\ at[r] <= AnswerAt + 1
  BY <1>1, TwoSides, Places DEF IInv
<1>5. /\ Senders' = Senders /\ AnswerAt' = AnswerAt
      /\ \A k : BodySize(k)' = BodySize(k) /\ Frame(k)' = Frame(k) /\ \A i : Due(k, i)' = Due(k, i)
      /\ \A q, k : Sends(q, k)' = Sends(q, k)
  BY <1>1, SameConversation
<1>6. FrameSound(s) /\ ~Sends(s, m)
  BY <1>1, <1>4, Places DEF IInv
<1>7. CASE Decrypts(s)
  <2>1. at' = [at EXCEPT ![s] = m + 1] /\ part' = [part EXCEPT ![s] = "head"] /\ state' = state
    BY <1>7 DEF ReadLast
  <2>2. /\ at'[s] = m + 1 /\ part'[s] = "head" /\ Progress(s)' = 0
        /\ at' \in [Sides -> 1..(AnswerAt + 1)] /\ part' \in [Sides -> {"head", "body"}]
        /\ \A q \in Sides : q # s => at'[q] = at[q] /\ part'[q] = part[q]
    BY <1>3, <1>4, <2>1 DEF Progress
  <2>3. OnlySide(s)
    BY <1>1, <1>2, <2>1, <2>2 DEF OnlySide
  <2>4. /\ BodySize(m) \in Nat \ {0} /\ Frame(m) = BodySize(m) + 1 /\ Progress(s) = BodySize(m)
        /\ Frame(m + 1) \in Nat /\ Frame(m + 1) = BodySize(m + 1) + 1 /\ BodySize(m + 1) \in Nat
    <3>1. TypeOK /\ m + 1 \in Nat
      BY <1>4 DEF IInv
    <3>2. BodySize(m) \in Nat \ {0} /\ Frame(m) = BodySize(m) + 1
      BY <1>4, <3>1, Bodies
    <3>3. Frame(m + 1) \in Nat /\ Frame(m + 1) = BodySize(m + 1) + 1 /\ BodySize(m + 1) \in Nat
      BY <3>1, Bodies
    <3>4. Progress(s) = BodySize(m)
      BY <1>1, <1>2 DEF Progress
    <3> QED BY <3>2, <3>3, <3>4
  <2>5. /\ Len(wire'[s]) \in Nat /\ Len(wire'[s]) + Frame(m) = Written(r, m)
        /\ \A i \in 1..Len(wire'[s]) : wire'[s][i] = Due(m, Frame(m) + i)
    <3>1. /\ Len(wire'[s]) \in Nat /\ Len(wire'[s]) + Progress(s) + 1 = Written(r, m)
          /\ \A i \in 1..Len(wire'[s]) : wire'[s][i] = Due(m, Progress(s) + i + 1)
      BY <1>1, NextUnit
    <3>2. \A i \in 1..Len(wire'[s]) : Progress(s) + i + 1 = Frame(m) + i
      BY <2>4, <3>1
    <3>3. Len(wire'[s]) + Frame(m) = Written(r, m)
      <4>1. /\ Len(wire'[s]) \in Nat /\ Frame(m) = Progress(s) + 1 /\ Progress(s) \in Nat
            /\ Len(wire'[s]) + Progress(s) + 1 = Written(r, m)
        BY <2>4, <3>1
      <4> QED BY <4>1
    <3> QED BY <3>1, <3>2, <3>3
  <2>6. at[r] > m
    <3>1. at[r] < m => Written(r, m) = 0
      BY <1>1, WriterNear
    <3>2. at[r] = m => Written(r, m) <= BodySize(m)
      BY <1>1, WriterNear
    <3>3. /\ Len(wire'[s]) \in Nat /\ BodySize(m) \in Nat \ {0}
          /\ Len(wire'[s]) + BodySize(m) + 1 = Written(r, m)
      <4>1. Frame(m) = BodySize(m) + 1 /\ BodySize(m) \in Nat \ {0}
        BY <2>4
      <4>2. Len(wire'[s]) \in Nat /\ Len(wire'[s]) + Frame(m) = Written(r, m)
        BY <2>5
      <4> QED BY <4>1, <4>2
    <3>4. at[r] # m
      BY <3>2, <3>3
    <3>5. ~(at[r] < m)
      BY <3>1, <3>3
    <3>6. at[r] \in Nat /\ m \in Nat
      BY <1>4
    <3> QED BY <3>4, <3>5, <3>6
  <2>7. FrameSound(s)'
    <3>1. \A k \in 1..AnswerAt : Senders[k] = s /\ k < m + 1 => BodySize(k) <= MaxMessage
      BY <1>4, <1>6 DEF FrameSound
    <3> QED BY <1>2, <1>4, <1>5, <2>2, <3>1 DEF FrameSound
  <2>8. InFlight(s)'
    <3>1. CASE Sends(r, m + 1)
      <4>1. Len(wire'[s]) = Written(r, m + 1) /\ Len(wire'[s]) <= Frame(m + 1)
        <5>1. CASE at[r] = m + 1
          <6>1. Written(r, m) = Frame(m) + Progress(r) /\ Written(r, m + 1) = Progress(r)
            BY <1>1, <1>4, <3>1, <5>1, WriterNear DEF Written
          <6>2. Progress(r) <= Frame(m + 1)
            <7>1. part[r] = "body" => got[r] < BodySize(at[r])
              BY <1>4, <3>1, <5>1 DEF IInv, FrameSound
            <7>2. got[r] \in Nat /\ part[r] \in {"head", "body"}
              BY <1>4, Places DEF IInv
            <7>3. BodySize(at[r]) = BodySize(m + 1)
              BY <5>1
            <7> QED BY <2>4, <7>1, <7>2, <7>3 DEF Progress
          <6>3. Frame(m) \in Nat /\ Progress(r) \in Nat /\ Len(wire'[s]) \in Nat
            BY <1>4, <2>4, <2>5
          <6>4. Len(wire'[s]) + Frame(m) = Frame(m) + Progress(r)
            BY <2>5, <6>1
          <6>5. Len(wire'[s]) = Progress(r)
            BY <6>3, <6>4
          <6> QED BY <6>1, <6>2, <6>5
        <5>2. CASE at[r] > m + 1
          <6>1. at[r] = m + 2 /\ ~Sends(r, m + 2) /\ Written(r, m) = Frame(m) + Frame(m + 1)
            BY <1>1, <5>2, WriterNear
          <6>2. Written(r, m + 1) = Frame(m + 1)
            BY <1>4, <2>4, <6>1 DEF Written
          <6> QED BY <2>4, <2>5, <6>1, <6>2
        <5> QED BY <1>4, <2>6, <5>1, <5>2
      <4>2. Written(Peer(s), at[s])' = Written(r, m + 1)
        <5>1. Progress(r)' = Progress(r) /\ at'[r] = at[r]
          BY <1>4, <2>3, OtherSide
        <5> QED BY <1>4, <1>5, <2>2, <5>1 DEF Written
      <4>3. ASSUME NEW i \in 1..Len(wire'[s]) PROVE wire'[s][i] = Due(m + 1, i)
        <5>1. wire'[s][i] = Due(m, Frame(m) + i) /\ i \in Nat /\ i >= 1 /\ i <= Frame(m + 1)
          <6>1. i \in Nat /\ i >= 1 /\ i <= Len(wire'[s]) /\ Len(wire'[s]) \in Nat
            BY <2>5, <4>3
          <6> QED BY <2>4, <2>5, <4>1, <4>3, <6>1
        <5>2. Due(m, Frame(m) + i) = UnitOf(m + 1, i)
          BY <2>4, <5>1 DEF Due
        <5>3. Due(m + 1, i) = UnitOf(m + 1, i)
          BY <5>1 DEF Due
        <5> QED BY <5>1, <5>2, <5>3
      <4>4. Reading(s)'
        BY <1>4, <1>5, <2>1, <2>2, <3>1 DEF Reading, Running, Sends
      <4>5. Len(wire'[s]) + Progress(s)' = Written(Peer(s), at[s])'
        BY <2>2, <2>5, <4>1, <4>2
      <4>6. \A i \in 1..Len(wire'[s]) : wire'[s][i] = Due(at[s], Progress(s) + i)'
        <5> TAKE i \in 1..Len(wire'[s])
        <5>1. 0 + i = i
          BY <2>5
        <5>2. Due(at[s], Progress(s) + i)' = Due(m + 1, i)
          BY <1>5, <2>2, <5>1
        <5> QED BY <4>3, <5>2
      <4> QED BY <4>4, <4>5, <4>6 DEF InFlight
    <3>2. CASE ~Sends(r, m + 1)
      <4>1. ~Reading(s)'
        <5>1. m + 1 <= AnswerAt => Senders[m + 1] = s
          <6>1. m + 1 <= AnswerAt => m + 1 \in 1..AnswerAt
            BY <1>4
          <6>2. kind \in {"XX", "IK"}
            BY DEF IInv, TypeOK
          <6>3. m + 1 <= AnswerAt => Senders[m + 1] \in Sides
            BY <6>1, <6>2, Turns
          <6>4. m + 1 <= AnswerAt => Senders[m + 1] # r
            BY <3>2 DEF Sends
          <6> QED BY <1>1, <6>3, <6>4, TwoSides
        <5> QED BY <1>4, <1>5, <2>2, <5>1 DEF Reading, Running
      <4>2. at[r] = m + 1 /\ Written(r, m) = Frame(m)
        <5>1. ~(at[r] > m + 1)
          BY <1>1, <3>2, WriterNear
        <5>2. at[r] = m + 1
          BY <1>4, <2>6, <5>1
        <5>3. Written(r, m) = Frame(m) + 0
          BY <1>1, <3>2, <5>2, WriterNear
        <5> QED BY <2>4, <5>2, <5>3
      <4>3. Len(wire'[s]) = 0
        BY <2>4, <2>5, <4>2
      <4>4. wire'[s] = <<>>
        <5>1. wire'[s] \in Seq(Unit)
          BY <1>1, NextUnit
        <5> QED BY <4>3, <5>1, EmptySeq
      <4> QED BY <4>1, <4>4 DEF InFlight
    <3> QED BY <3>1, <3>2
  <2> QED BY <1>1, <1>2, <1>3, <1>4, <2>1, <2>2, <2>3, <2>6, <2>7, <2>8, ReadStep
<1>8. CASE ~Decrypts(s)
  <2>1. state' = [state EXCEPT ![s] = "failed"] /\ UNCHANGED <<at, part>>
    BY <1>8 DEF ReadLast
  <2>2. /\ state' \in [Sides -> {"run", "done", "failed"}] /\ state'[s] = "failed"
        /\ \A q \in Sides : q # s => state'[q] = state[q]
    BY <1>3, <2>1
  <2>3. OnlySide(s)
    BY <1>1, <1>2, <2>1, <2>2 DEF OnlySide
  <2>4. InFlight(s)'
    BY <2>2 DEF InFlight
  <2>5. FrameSound(s)'
    BY <1>5, <1>6, <2>1, <2>2 DEF FrameSound, Reading, Running
  <2> QED BY <1>1, <1>2, <1>3, <2>1, <2>2, <2>3, <2>4, <2>5, ReadStep
<1> QED BY <1>7, <1>8

-----------------------------------------------------------------------------
(* Steps that move no bytes, and the theorems.                             *)

\* A side that fails or ends, wherever it is.
LEMMA StepEnds ==
  ASSUME IInv, NEW s \in Sides,
         WriteTooLarge(s) \/ WriteFails(s) \/ ReadFails(s) \/ Bail(s) \/ End(s)
  PROVE  IInv'
<1>1. /\ UNCHANGED <<setup, at, part, reader, wire, outcome, link>>
      /\ \/ state' = [state EXCEPT ![s] = "failed"]
         \/ state' = [state EXCEPT ![s] = "done"] /\ at[s] = AnswerAt + 1
  BY DEF WriteTooLarge, WriteFails, ReadFails, Bail, End, Fail, Finish
<1>2. state \in [Sides -> {"run", "done", "failed"}] /\ link \in {"up", "broken", "silent"}
  BY DEF IInv, TypeOK
<1>3. /\ state' \in [Sides -> {"run", "done", "failed"}]
      /\ \A r \in Sides : state'[r] = "run" => state[r] = "run"
      /\ state'["client"] = "done" => state["client"] = "done" \/ at["client"] = AnswerAt + 1
  BY <1>1, <1>2 DEF Sides
<1> QED BY <1>1, <1>2, <1>3, QuietStep

\* The network fails: nothing is in flight any more.
LEMMA StepBreak ==
  ASSUME IInv, NEW how \in {"broken", "silent"}, Break(how)
  PROVE  IInv'
<1>1. /\ UNCHANGED <<setup, at, part, reader, state, outcome>> /\ link' = how
      /\ wire' = [s \in Sides |-> <<>>]
  BY DEF Break
<1>2. state' \in [Sides -> {"run", "done", "failed"}]
  BY <1>1 DEF IInv, TypeOK
<1> QED BY <1>1, <1>2, QuietStep

\* The handler has the request, whole.
LEMMA StepHandle ==
  ASSUME IInv, Handle
  PROVE  IInv'
<1>1. /\ at["server"] = AnswerAt /\ outcome' = "performed"
      /\ UNCHANGED <<kind, pinned, size, at, part, got, need, whole, wire, state, link>>
  BY DEF Handle, setup, reader
<1>2. /\ Senders' = Senders /\ AnswerAt' = AnswerAt /\ RequestAt' = RequestAt
      /\ \A m : BodySize(m)' = BodySize(m) /\ Frame(m)' = Frame(m)
      /\ \A s, m : Sends(s, m)' = Sends(s, m)
  BY <1>1, SameConversation DEF setup
<1>3. TypeOK'
  BY <1>1, <1>2 DEF IInv, TypeOK
<1>4. Handled'
  <2>1. AnswerAt \in Nat
    BY Turns DEF IInv, TypeOK
  <2> QED BY <1>1, <1>2, <2>1 DEF IInv, Handled
<1>5. ASSUME NEW s \in Sides PROVE FrameSound(s)' /\ InStep(s)' /\ InFlight(s)'
  <2>1. FrameSound(s) /\ InStep(s) /\ InFlight(s)
    BY DEF IInv
  <2>2. Reading(s)' <=> Reading(s)
    BY <1>1, <1>2 DEF Reading, Running
  <2>3. FrameSound(s)' /\ InStep(s)'
    BY <1>1, <1>2, <2>1, <2>2 DEF FrameSound, InStep
  <2>4. Progress(s)' = Progress(s) /\ Written(Peer(s), at[s])' = Written(Peer(s), at[s])
    BY <1>1, <1>2 DEF Progress, Written
  <2>5. \A m, i : Due(m, i)' = Due(m, i)
    BY <1>1, SameConversation DEF setup
  <2>6. InFlight(s)'
    BY <1>1, <2>1, <2>2, <2>4, <2>5 DEF InFlight
  <2> QED BY <2>3, <2>6
<1> QED BY <1>1, <1>3, <1>4, <1>5 DEF IInv

\* Nothing happens.
LEMMA StepStutter ==
  ASSUME IInv, UNCHANGED vars
  PROVE  IInv'
<1>1. state' \in [Sides -> {"run", "done", "failed"}] /\ link' \in {"up", "broken", "silent"}
  BY DEF vars, IInv, TypeOK
<1> QED BY <1>1, QuietStep DEF vars

\* Every step keeps the invariant.
LEMMA StepIInv == IInv /\ [Next]_vars => IInv'
<1> SUFFICES ASSUME IInv, [Next]_vars PROVE IInv'
  OBVIOUS
<1>1. ASSUME NEW s \in Sides, Step(s) \/ Bail(s) PROVE IInv'
  BY <1>1, StepWriteHead, StepWriteBody, StepReadHead, StepReadBody, StepReadLast, StepEnds DEF Step
<1>2. ASSUME NEW how \in {"broken", "silent"}, Break(how) PROVE IInv'
  BY <1>2, StepBreak
<1> QED BY <1>1, <1>2, StepHandle, StepStutter DEF Next

\* What is in flight is what was written and not read, in every reachable state
\* of a connection, whatever the sizes, the buffers and the failures.
THEOREM ChannelInvariant == Spec => []IInv
<1> QED BY InitIInv, StepIInv, PTL DEF Spec

\* Type correctness; in particular neither side goes past the answer.
THEOREM ChannelTypes == Spec => []TypeOK
<1>1. IInv => TypeOK
  BY DEF IInv
<1> QED BY <1>1, ChannelInvariant, PTL

\* However write_frame's and read_frame's bytes are cut and buffered
\* (framing.rs:5-19), what a side reads belongs to the message it expects.
THEOREM FramesNeverMix == Spec => []FramesStayWhole
<1>1. IInv => FramesStayWhole
  BY DEF IInv, FrameSound, FramesStayWhole, Reading, Running
<1> QED BY <1>1, ChannelInvariant, PTL

\* A request above the limit (noise.rs:168-180) is never sent, so the server
\* performs nothing and the agent has no answer to take for done.
THEOREM TooLargeIsNeverPerformed == Spec => []TooLargeLeavesNoTrace
<1>1. ASSUME IInv, size.request > MaxMessage PROVE outcome = "none" /\ state["client"] # "done"
  <2>1. /\ "client" \in Sides /\ "server" \in Sides /\ Peer("server") = "client" /\ Handled
        /\ TypeOK
    BY <1>1 DEF Sides, Peer, IInv
  <2>2. /\ AnswerAt \in Nat /\ RequestAt \in 1..AnswerAt /\ RequestAt + 1 = AnswerAt
        /\ Senders[RequestAt] = "client" /\ BodySize(RequestAt) = size.request
        /\ BodySize(RequestAt) \in Nat /\ MaxMessage \in Nat
    <3>1. /\ AnswerAt \in Nat /\ RequestAt \in 1..AnswerAt /\ RequestAt + 1 = AnswerAt
          /\ Senders[RequestAt] = "client"
      BY <2>1, Turns DEF TypeOK
    <3> QED BY <2>1, <3>1, Bodies
  <2>3. ~(RequestAt < at["client"])
    <3>1. RequestAt < at["client"] => BodySize(RequestAt) <= MaxMessage
      BY <1>1, <2>1, <2>2 DEF IInv, FrameSound
    <3> QED BY <1>1, <2>2, <3>1
  <2>4. ~(RequestAt < at["server"])
    <3>1. InStep("server")
      BY <1>1, <2>1 DEF IInv
    <3> QED BY <2>1, <2>2, <2>3, <3>1 DEF InStep
  <2>5. at["client"] \in Nat /\ at["server"] \in Nat
    BY <2>1, Places
  <2>6. outcome = "none"
    BY <2>1, <2>2, <2>4, <2>5 DEF Handled
  <2>7. state["client"] # "done"
    BY <2>1, <2>2, <2>3, <2>5 DEF Handled
  <2> QED BY <2>6, <2>7
<1>2. IInv => TooLargeLeavesNoTrace
  BY <1>1 DEF TooLargeLeavesNoTrace
<1> QED BY <1>2, ChannelInvariant, PTL

-----------------------------------------------------------------------------
(* Why both tasks end.                                                     *)

\* One side writes at a time: the peer of a writer reads, or has ended.
LEMMA OneWriter ==
  ASSUME IInv, NEW s \in Sides, Writing(s)
  PROVE  ~Writing(Peer(s))
<1>1. Peer(s) \in Sides /\ Peer(s) # s /\ Sends(s, at[s])
  BY TwoSides DEF Writing, Running, Sends
<1>2. state[Peer(s)] = "run" => Reading(Peer(s))
  BY <1>1, ReaderNear
<1> QED BY <1>2 DEF Reading, Writing, Running

\* Two sides that talk over noise.rs:41-60 or noise.rs:120-130 never both have a
\* buffer to fill, at whatever place each of them is.
THEOREM OneSideWrites == Spec => []NeverBothWrite
<1>1. IInv => NeverBothWrite
  <2>1. "client" \in Sides /\ Peer("client") = "server"
    BY DEF Sides, Peer
  <2> QED BY <2>1, OneWriter DEF NeverBothWrite
<1> QED BY <1>1, ChannelInvariant, PTL

\* Two running sides cannot both wait for bytes: the one that is behind would
\* read what the other has written whole.
LEMMA NotBothAwait ==
  ASSUME IInv, link = "up", NEW s \in Sides, Reading(s), Reading(Peer(s)), at[s] <= at[Peer(s)]
  PROVE  wire[s] # <<>>
<1> DEFINE p == Peer(s)
           m == at[s]
<1>1. p \in Sides /\ p # s /\ Peer(p) = s /\ TypeOK
  BY TwoSides DEF IInv
<1>2. /\ m \in Nat /\ at[p] \in Nat /\ state[s] = "run" /\ Senders[m] = p /\ Senders[at[p]] = s
      /\ Progress(p) \in Nat /\ got[s] \in Nat /\ need[s] \in Nat /\ part[s] \in {"head", "body"}
  BY <1>1, Places
<1>3. at[p] > m
  BY <1>1, <1>2
<1>4. /\ BodySize(m) \in Nat \ {0} /\ Frame(m) = BodySize(m) + 1 /\ Frame(m + 1) \in Nat
  BY <1>1, <1>2, Bodies
<1>5. Progress(s) < Frame(m) /\ Progress(s) \in Nat
  <2>1. part[s] = "body" => need[s] = BodySize(m) /\ got[s] < need[s]
    BY DEF IInv, FrameSound
  <2> QED BY <1>2, <1>4, <2>1 DEF Progress
<1>6. Written(p, m) >= Frame(m) /\ Written(p, m) \in Nat
  <2>1. CASE at[p] = m + 1
    <3>1. Written(p, m) = Frame(m) + (IF Sends(p, m + 1) THEN Progress(p) ELSE 0)
      BY <2>1, WriterNear
    <3> QED BY <1>2, <1>4, <3>1
  <2>2. CASE at[p] > m + 1
    <3>1. Written(p, m) = Frame(m) + Frame(m + 1)
      BY <2>2, WriterNear
    <3> QED BY <1>4, <3>1
  <2> QED BY <1>2, <1>3, <2>1, <2>2
<1>7. Len(wire[s]) + Progress(s) = Written(p, m)
  BY <1>2 DEF IInv, InFlight
<1>8. ASSUME wire[s] = <<>> PROVE FALSE
  <2>1. Len(wire[s]) = 0
    BY <1>8
  <2>2. Progress(s) = Written(p, m)
    BY <1>5, <1>7, <2>1
  <2>3. Frame(m) \in Nat
    BY <1>4
  <2> QED BY <1>5, <1>6, <2>2, <2>3
<1> QED BY <1>8

\* A side whose peer has ended, or that has the bytes or the room, goes on.
LEMMA GoesOn ==
  ASSUME IInv, NEW s \in Sides, state[s] = "run",
         \/ link = "broken" \/ (link = "up" /\ state[Peer(s)] # "run")
         \/ at[s] = AnswerAt + 1
         \/ Reading(s) /\ wire[s] # <<>>
         \/ Writing(s) /\ Room(s)
         \/ Writing(s) /\ link # "up"
  PROVE  CanHandle \/ CanWrite(s) \/ CanRead(s) \/ CanEnd(s)
<1>1. /\ at[s] \in Nat /\ at[s] <= AnswerAt + 1 /\ AnswerAt \in Nat /\ TypeOK
      /\ got[s] \in Nat /\ need[s] \in Nat
  BY Places DEF IInv
<1>2. Reading(s) \/ Writing(s) \/ at[s] = AnswerAt + 1
  BY <1>1 DEF Reading, Writing, Running
<1>3. CASE at[s] = AnswerAt + 1
  BY <1>3 DEF CanEnd
<1>4. CASE Reading(s)
  <2>1. part[s] = "body" => got[s] + 1 <= need[s]
    <3>1. part[s] = "body" => got[s] < need[s]
      BY <1>4 DEF IInv, FrameSound
    <3> QED BY <1>1, <3>1
  <2>2. ~Writing(s) /\ at[s] # AnswerAt + 1
    BY <1>1, <1>4 DEF Reading, Writing, Running
  <2> QED BY <1>4, <2>1, <2>2 DEF CanRead
<1>5. CASE Writing(s)
  <2>1. ~Reading(s) /\ at[s] # AnswerAt + 1
    BY <1>1, <1>5 DEF Reading, Writing, Running
  <2>2. CASE link # "up" \/ state[Peer(s)] # "run"
    BY <1>5, <2>2 DEF CanWrite
  <2>3. CASE Room(s)
    <3>1. CASE at[s] = AnswerAt /\ outcome = "none"
      <4>1. Senders[AnswerAt] = "server"
        BY <1>1, Turns DEF TypeOK
      <4>2. s = "server"
        BY <1>5, <3>1, <4>1 DEF Writing
      <4> QED BY <3>1, <4>2 DEF CanHandle
    <3>2. CASE ~(at[s] = AnswerAt /\ outcome = "none")
      BY <1>5, <2>3, <3>2 DEF CanWrite
    <3> QED BY <3>1, <3>2
  <2>4. Room(s) \/ link # "up" \/ state[Peer(s)] # "run"
    BY <2>1
  <2> QED BY <2>2, <2>3, <2>4
<1> QED BY <1>2, <1>3, <1>4, <1>5

\* Two running sides of a connection that is up: one of them goes on.
LEMMA OneOfTwoGoesOn ==
  ASSUME IInv, link = "up", NEW s \in Sides, state[s] = "run", state[Peer(s)] = "run"
  PROVE  CanHandle \/ \E q \in Sides : CanWrite(q) \/ CanRead(q) \/ CanEnd(q)
<1> DEFINE p == Peer(s)
<1>1. p \in Sides /\ p # s /\ Peer(p) = s /\ TypeOK
  BY TwoSides DEF IInv
<1>2. /\ at[s] \in Nat /\ at[s] <= AnswerAt + 1 /\ at[p] \in Nat /\ at[p] <= AnswerAt + 1
      /\ AnswerAt \in Nat
  BY <1>1, Places
<1>3. /\ Reading(s) \/ Writing(s) \/ at[s] = AnswerAt + 1
      /\ Reading(p) \/ Writing(p) \/ at[p] = AnswerAt + 1
  BY <1>2 DEF Reading, Writing, Running
<1>4. CASE at[s] = AnswerAt + 1 \/ at[p] = AnswerAt + 1
  BY <1>1, <1>4, GoesOn
<1>5. ASSUME NEW q \in Sides, Writing(q), state[Peer(q)] = "run" PROVE Room(q) \/ wire[Peer(q)] # <<>>
  <2>1. Window \in Nat \ {0}
    BY SizesAreNumbers
  <2>2. wire[Peer(q)] = <<>> => Len(wire[Peer(q)]) = 0
    OBVIOUS
  <2> QED BY <2>1, <2>2 DEF Room
<1>6. ASSUME NEW q \in Sides, Writing(q), Reading(Peer(q)), Peer(q) \in Sides
      PROVE  CanHandle \/ \E r \in Sides : CanWrite(r) \/ CanRead(r) \/ CanEnd(r)
  <2>1. state[q] = "run" /\ state[Peer(q)] = "run"
    BY <1>6 DEF Reading, Writing, Running
  <2>2. Room(q) \/ wire[Peer(q)] # <<>>
    BY <1>5, <1>6, <2>1
  <2> QED BY <1>6, <2>1, <2>2, GoesOn
<1>7. CASE Reading(s) /\ Reading(p)
  <2>1. wire[s] # <<>> \/ wire[p] # <<>>
    BY <1>1, <1>2, <1>7, NotBothAwait
  <2> QED BY <1>1, <1>7, <2>1, GoesOn
<1>8. ~(Writing(s) /\ Writing(p))
  BY OneWriter
<1> QED BY <1>1, <1>3, <1>4, <1>6, <1>7, <1>8

\* No pair of full or empty buffers holds a connection up (framing.rs:5-19): as
\* long as the network delivers, a task that runs can go on or its peer can, and
\* after it went silent only readers stay.
THEOREM NobodyWaitsInVain == Spec => []NobodyIsStuck
<1>1. ASSUME IInv, ~Ended
      PROVE  \/ CanHandle \/ \E q \in Sides : CanWrite(q) \/ CanRead(q) \/ CanEnd(q)
             \/ link = "silent" /\ \A q \in Sides : state[q] = "run" => Reading(q)
  <2>1. PICK s \in Sides : state[s] = "run"
    BY <1>1 DEF Ended
  <2>2. CASE link = "up" /\ state[Peer(s)] = "run"
    BY <1>1, <2>1, <2>2, OneOfTwoGoesOn
  <2>3. CASE link = "broken" \/ (link = "up" /\ state[Peer(s)] # "run")
    BY <1>1, <2>1, <2>3, GoesOn
  <2>4. CASE link = "silent"
    <3> SUFFICES ASSUME NEW q \in Sides, state[q] = "run", ~Reading(q)
                 PROVE  CanHandle \/ CanWrite(q) \/ CanRead(q) \/ CanEnd(q)
      BY <2>4
    <3>1. Writing(q) \/ at[q] = AnswerAt + 1
      <4>1. at[q] \in Nat /\ at[q] <= AnswerAt + 1 /\ AnswerAt \in Nat
        BY <1>1, Places DEF IInv
      <4> QED BY <4>1 DEF Reading, Writing, Running
    <3> QED BY <1>1, <2>4, <3>1, GoesOn
  <2>5. link \in {"up", "broken", "silent"}
    BY <1>1 DEF IInv, TypeOK
  <2> QED BY <2>2, <2>3, <2>4, <2>5
<1>2. IInv => NobodyIsStuck
  BY <1>1 DEF NobodyIsStuck
<1> QED BY <1>2, ChannelInvariant, PTL

\* A conversation has finitely many steps, whatever the sizes: none repeats what
\* was written or read, or goes back to a message before (framing.rs:5-19).
LEMMA StepGoesForward ==
  ASSUME IInv, NEW s \in Sides, Step(s) \/ Bail(s)
  PROVE  Forward(s)
<1>1. /\ at \in [Sides -> 1..(AnswerAt + 1)] /\ part \in [Sides -> {"head", "body"}]
      /\ got \in [Sides -> Nat] /\ state \in [Sides -> {"run", "done", "failed"}]
      /\ got[s] \in Nat /\ at[s] \in Nat
  BY Places DEF IInv, TypeOK
<1>2. CASE WriteHead(s) \/ ReadHead(s)
  <2>1. part[s] = "head" /\ part'[s] = "body" /\ got'[s] = 0 /\ at'[s] = at[s]
    BY <1>1, <1>2 DEF WriteHead, ReadHead
  <2>2. Progress(s) = 0 /\ Progress(s)' = 1
    BY <2>1 DEF Progress
  <2> QED BY <2>1, <2>2 DEF Forward
<1>3. CASE WriteBody(s)
  <2>1. CASE got[s] + 1 = BodySize(at[s])
    BY <1>1, <1>3, <2>1 DEF WriteBody, Forward
  <2>2. CASE got[s] + 1 # BodySize(at[s])
    <3>1. part[s] = "body" /\ got'[s] = got[s] + 1 /\ at' = [at EXCEPT ![s] = at[s]]
          /\ part' = [part EXCEPT ![s] = part[s]]
      BY <1>1, <1>3, <2>2 DEF WriteBody
    <3>2. part'[s] = "body" /\ at'[s] = at[s]
      BY <1>1, <3>1
    <3>3. Progress(s) = got[s] + 1 /\ Progress(s)' = got'[s] + 1
      BY <3>1, <3>2 DEF Progress
    <3> QED BY <3>1, <3>2, <3>3 DEF Forward
  <2> QED BY <2>1, <2>2
<1>4. CASE ReadBody(s)
  <2>1. part[s] = "body" /\ got'[s] = got[s] + 1 /\ part' = part /\ at' = at
    BY <1>1, <1>4 DEF ReadBody, Body
  <2>2. Progress(s) = got[s] + 1 /\ Progress(s)' = got'[s] + 1
    BY <2>1 DEF Progress
  <2> QED BY <2>1, <2>2 DEF Forward
<1>5. CASE ReadLast(s)
  <2>1. state[s] = "run"
    BY <1>5 DEF ReadLast, Body, Reading, Running
  <2>2. \/ at' = [at EXCEPT ![s] = @ + 1]
        \/ state' = [state EXCEPT ![s] = "failed"]
    BY <1>5 DEF ReadLast
  <2> QED BY <1>1, <2>1, <2>2 DEF Forward
<1>6. CASE WriteTooLarge(s) \/ WriteFails(s) \/ ReadFails(s) \/ End(s) \/ Bail(s)
  <2>1. state[s] = "run" /\ (state' = [state EXCEPT ![s] = "failed"] \/ state' = [state EXCEPT ![s] = "done"])
    BY <1>6 DEF WriteTooLarge, WriteFails, ReadFails, End, Bail, Fail, Finish, Writing, Reading, Running
  <2> QED BY <1>1, <2>1 DEF Forward
<1> QED BY <1>2, <1>3, <1>4, <1>5, <1>6 DEF Step

THEOREM ConversationsGoForward == Spec => SidesGoForward
<1>1. IInv /\ [Next]_vars => [\A s \in Sides : Step(s) \/ Bail(s) => Forward(s)]_vars
  BY StepGoesForward
<1> QED BY <1>1, ChannelInvariant, PTL DEF Spec, SidesGoForward

-----------------------------------------------------------------------------
(* The connection implements Exchange.                                     *)

\* How a client that runs, is done or failed looks from outside.
Outcome == [run |-> "waiting", done |-> "answered", failed |-> "failed"][state["client"]]
Asked   == at["client"] > RequestAt

LEMMA Outcomes ==
  ASSUME state["client"] \in {"run", "done", "failed"}
  PROVE  /\ state["client"] = "run" => Outcome = "waiting"
         /\ state["client"] = "done" => Outcome = "answered"
         /\ state["client"] = "failed" => Outcome = "failed"
  BY DEF Outcome

\* A connection starts with nothing asked.
LEMMA ExchangeInit == Init => Abstract!Init
<1> SUFFICES ASSUME Init PROVE Abstract!Init
  OBVIOUS
<1>1. Outcome = "waiting"
  BY Outcomes DEF Init, Sides
<1>2. Asked = FALSE
  <2>1. RequestAt >= 1 /\ at["client"] = 1 /\ RequestAt \in Nat
    BY Turns DEF Init, Sides
  <2> QED BY <2>1 DEF Asked
<1>3. outcome = "none"
  BY DEF Init
<1> QED BY <1>1, <1>2, <1>3 DEF Abstract!Init, Outcome, Asked

\* Steps that show nothing outside.
LEMMA ExchangeStutter ==
  ASSUME UNCHANGED <<kind, outcome>>, Asked' = Asked, Outcome' = Outcome
  PROVE  UNCHANGED Abstract!vars
  BY DEF Abstract!vars, Asked, Outcome

\* The client fails: it gives up.
LEMMA FailRefines ==
  ASSUME IInv, IInv', UNCHANGED <<outcome>>, Asked' = Asked,
         state["client"] = "run", state'["client"] = "failed"
  PROVE  Abstract!GiveUp
<1>1. Outcome = "waiting"
  BY Outcomes
<1>2. Outcome' = "failed"
  BY DEF Outcome
<1> QED BY <1>1, <1>2 DEF Abstract!GiveUp, Asked, Outcome

\* The places of both sides when one of them is past the request.
LEMMA PastRequest ==
  ASSUME IInv
  PROVE  /\ at["server"] > RequestAt => at["client"] > RequestAt
         /\ at["client"] = AnswerAt + 1 => outcome = "performed"
         /\ at["client"] \in Nat /\ at["server"] \in Nat /\ RequestAt \in Nat
         /\ AnswerAt = RequestAt + 1
<1>1. /\ "client" \in Sides /\ "server" \in Sides /\ Peer("server") = "client"
      /\ Peer("client") = "server" /\ TypeOK
  BY DEF Sides, Peer, IInv
<1>2. /\ AnswerAt \in Nat /\ RequestAt \in 1..AnswerAt /\ RequestAt + 1 = AnswerAt
      /\ Senders[RequestAt] = "client" /\ Senders[AnswerAt] = "server"
  BY <1>1, Turns DEF TypeOK
<1>3. /\ at["client"] \in Nat /\ at["server"] \in Nat
      /\ at["client"] <= AnswerAt + 1 /\ at["server"] <= AnswerAt + 1
  BY <1>1, Places
<1>4. at["server"] > RequestAt => at["client"] > RequestAt
  BY <1>1, <1>2, <1>3 DEF IInv, InStep
<1>5. at["client"] = AnswerAt + 1 => outcome = "performed"
  <2> SUFFICES ASSUME at["client"] = AnswerAt + 1 PROVE outcome = "performed"
    OBVIOUS
  <2>1. AnswerAt \in 1..AnswerAt /\ AnswerAt < at["client"]
    BY <1>2
  <2>2. AnswerAt < at["server"]
    BY <1>1, <1>2, <2>1 DEF IInv, InStep
  <2>3. at["server"] = AnswerAt + 1
    BY <1>2, <1>3, <2>2
  <2> QED BY <1>1, <2>3 DEF IInv, Handled, TypeOK
<1> QED BY <1>2, <1>3, <1>4, <1>5

\* A side's step: the client's last byte of the request asks, its end answers,
\* its failure gives up, and everything else is silent.
LEMMA SideRefines ==
  ASSUME IInv, IInv', NEW s \in Sides, Step(s) \/ Bail(s)
  PROVE  Abstract!Next \/ UNCHANGED Abstract!vars
<1>1. /\ at["client"] \in Nat /\ RequestAt \in Nat /\ "client" \in Sides
      /\ state \in [Sides -> {"run", "done", "failed"}] /\ at \in [Sides -> 1..(AnswerAt + 1)]
  BY PastRequest DEF IInv, TypeOK, Sides
<1>2. UNCHANGED <<setup, outcome>>
  BY DEF Step, WriteHead, WriteBody, WriteTooLarge, WriteFails, ReadHead, ReadBody, ReadLast,
         ReadFails, End, Bail, Fail, Finish
<1>3. /\ kind' = kind /\ RequestAt' = RequestAt /\ AnswerAt' = AnswerAt
  BY <1>2, SameConversation DEF setup
<1>4. CASE UNCHANGED <<at, state>>
  BY <1>2, <1>3, <1>4, ExchangeStutter DEF Asked, Outcome
<1>5. CASE UNCHANGED state /\ at' = [at EXCEPT ![s] = @ + 1] /\ state[s] = "run"
  <2>1. Outcome' = Outcome
    BY <1>5 DEF Outcome
  <2>2. CASE Asked' = Asked
    BY <1>2, <1>3, <2>1, <2>2, ExchangeStutter
  <2>3. CASE Asked' # Asked
    <3>1. s = "client" /\ at'["client"] = at["client"] + 1
      BY <1>1, <1>3, <1>5, <2>3 DEF Asked
    <3>2. Asked' /\ ~Asked
      BY <1>1, <1>3, <2>3, <3>1 DEF Asked
    <3>3. Outcome = "waiting"
      BY <1>5, <3>1, Outcomes
    <3> QED BY <1>2, <2>1, <3>2, <3>3 DEF Abstract!Next, Abstract!Ask, Asked, Outcome
  <2> QED BY <2>2, <2>3
<1>6. CASE UNCHANGED at /\ state' = [state EXCEPT ![s] = "failed"] /\ state[s] = "run"
  <2>1. Asked' = Asked
    BY <1>3, <1>6 DEF Asked
  <2>2. CASE s = "client"
    BY <1>1, <1>2, <1>6, <2>1, <2>2, FailRefines DEF Abstract!Next
  <2>3. CASE s # "client"
    <3>1. Outcome' = Outcome
      BY <1>1, <1>6, <2>3 DEF Outcome
    <3> QED BY <1>2, <1>3, <2>1, <3>1, ExchangeStutter
  <2> QED BY <2>2, <2>3
<1>7. CASE End(s)
  <2>1. UNCHANGED at /\ state' = [state EXCEPT ![s] = "done"] /\ state[s] = "run" /\ at[s] = AnswerAt + 1
    BY <1>7 DEF End, Finish
  <2>2. Asked' = Asked
    BY <1>3, <2>1 DEF Asked
  <2>3. CASE s = "client"
    <3>1. Outcome = "waiting" /\ outcome = "performed"
      BY <2>1, <2>3, Outcomes, PastRequest
    <3>2. Outcome' = "answered"
      BY <1>1, <2>1, <2>3 DEF Outcome
    <3> QED BY <1>2, <2>2, <3>1, <3>2 DEF Abstract!Next, Abstract!Answer, Asked, Outcome
  <2>4. CASE s # "client"
    <3>1. Outcome' = Outcome
      BY <1>1, <2>1, <2>4 DEF Outcome
    <3> QED BY <1>2, <1>3, <2>2, <3>1, ExchangeStutter
  <2> QED BY <2>3, <2>4
<1>8. \/ UNCHANGED <<at, state>>
      \/ UNCHANGED state /\ at' = [at EXCEPT ![s] = @ + 1] /\ state[s] = "run"
      \/ UNCHANGED at /\ state' = [state EXCEPT ![s] = "failed"] /\ state[s] = "run"
      \/ End(s)
  <2>1. CASE WriteHead(s) \/ ReadHead(s) \/ ReadBody(s)
    BY <2>1 DEF WriteHead, ReadHead, ReadBody
  <2>2. CASE WriteBody(s)
    <3>1. CASE got[s] + 1 = BodySize(at[s])
      BY <2>2, <3>1 DEF WriteBody, Writing, Running
    <3>2. CASE got[s] + 1 # BodySize(at[s])
      BY <1>1, <2>2, <3>2 DEF WriteBody
    <3> QED BY <3>1, <3>2
  <2>3. CASE ReadLast(s)
    BY <2>3 DEF ReadLast, Body, Reading, Running
  <2>4. CASE WriteTooLarge(s) \/ WriteFails(s) \/ ReadFails(s) \/ Bail(s)
    BY <2>4 DEF WriteTooLarge, WriteFails, ReadFails, Bail, Fail, Writing, Reading, Running
  <2> QED BY <2>1, <2>2, <2>3, <2>4 DEF Step
<1> QED BY <1>4, <1>5, <1>6, <1>7, <1>8

\* Every step of a connection is a step or a stutter of Exchange.
LEMMA StepRefines == IInv /\ IInv' /\ [Next]_vars => [Abstract!Next]_Abstract!vars
<1> SUFFICES ASSUME IInv, IInv', [Next]_vars PROVE Abstract!Next \/ UNCHANGED Abstract!vars
  OBVIOUS
<1>1. ASSUME NEW s \in Sides, Step(s) \/ Bail(s)
      PROVE  Abstract!Next \/ UNCHANGED Abstract!vars
  BY <1>1, SideRefines
<1>2. CASE Handle
  <2>1. /\ at["server"] = AnswerAt /\ outcome = "none" /\ outcome' = "performed"
        /\ UNCHANGED <<kind, at, state>>
    BY <1>2 DEF Handle, setup
  <2>2. Asked /\ Asked' = Asked /\ Outcome' = Outcome
    <3>1. Asked
      BY <2>1, PastRequest DEF Asked
    <3>2. RequestAt' = RequestAt
      BY <2>1 DEF RequestAt, AnswerAt, Senders
    <3> QED BY <2>1, <3>1, <3>2 DEF Asked, Outcome
  <2> QED BY <2>1, <2>2 DEF Abstract!Next, Abstract!Perform, Asked, Outcome
<1>3. ASSUME NEW how, Break(how) PROVE UNCHANGED Abstract!vars
  <2>1. UNCHANGED <<kind, at, state, outcome>>
    BY <1>3 DEF Break, setup
  <2>2. RequestAt' = RequestAt
    BY <2>1 DEF RequestAt, AnswerAt, Senders
  <2> QED BY <2>1, <2>2, ExchangeStutter DEF Asked, Outcome
<1>4. CASE UNCHANGED vars
  <2>1. UNCHANGED <<kind, at, state, outcome>>
    BY <1>4 DEF vars, setup
  <2>2. RequestAt' = RequestAt
    BY <2>1 DEF RequestAt, AnswerAt, Senders
  <2> QED BY <2>1, <2>2, ExchangeStutter DEF Asked, Outcome
<1> QED BY <1>1, <1>2, <1>3, <1>4 DEF Next

\* A request is performed at most once and only when it was asked whole, and
\* the agent has an answer only to a request that was performed, wherever the
\* connection breaks.
THEOREM ChannelImplementsExchange == Spec => ImplementsExchange
<1>1. Init => Abstract!Init
  BY ExchangeInit
<1>2. IInv /\ IInv' /\ [Next]_vars => [Abstract!Next]_Abstract!vars
  BY StepRefines
<1> QED BY <1>1, <1>2, ChannelInvariant, PTL DEF ImplementsExchange, Abstract!Spec, Spec

\* The promise of Exchange, by itself: what was answered was performed, and what
\* was performed was asked.  The refinement carries it over to the connection.
THEOREM AnswersArePerformed == Spec => []AnsweredIsPerformed
<1> DEFINE told == [run |-> "waiting", done |-> "answered", failed |-> "failed"][state["client"]]
           Kept == /\ told = "answered" => outcome = "performed"
                   /\ outcome = "performed" => at["client"] > RequestAt
<1>1. Abstract!Init => Kept
  BY DEF Abstract!Init
<1>2. Kept /\ [Abstract!Next]_Abstract!vars => Kept'
  BY DEF Abstract!Next, Abstract!Ask, Abstract!Perform, Abstract!Answer, Abstract!GiveUp, Abstract!vars
<1>3. IInv /\ Kept => AnsweredIsPerformed
  <2>1. state["client"] = "done" => told = "answered"
    OBVIOUS
  <2> QED BY <2>1 DEF AnsweredIsPerformed
<1> QED BY <1>1, <1>2, <1>3, ChannelInvariant, ChannelImplementsExchange, PTL
     DEF ImplementsExchange, Abstract!Spec
=============================================================================
