------------------------------ MODULE Channel ------------------------------
(***************************************************************************)
(* One TCP connection between agent ("client") and server, from the first  *)
(* handshake message to the answer.  Both sides walk through the same      *)
(* conversation; a message is a frame, a length and that many bytes, which *)
(* the stream delivers in pieces.  No read has a timeout: a side that      *)
(* reads waits until the bytes are there or the connection ends.           *)
(*                                                                         *)
(* Sizes are counted in units of the stream; the length takes one, and the *)
(* buffers between the two sides hold Window of them.                      *)
(***************************************************************************)
EXTENDS Naturals, Sequences

CONSTANTS
  MaxMessage,   \* the largest body of a Noise message: 65535 bytes in the code
  Handshake,    \* size of the body of a handshake message
  Sizes,        \* sizes the bodies of request and answer may have
  Window        \* bound: units in flight

ASSUME SizesAreNumbers ==
  /\ MaxMessage \in Nat \ {0} /\ Window \in Nat \ {0} /\ Sizes \subseteq Nat \ {0}
  /\ Handshake \in 1..MaxMessage

VARIABLES
  kind,      \* "XX", an enrollment, or "IK", a check-in
  pinned,    \* whether the client knows the server's key; XX does without
  size,      \* of request and answer
  at,        \* the message each side is at
  part,      \* "head" or "body": which part of its frame
  got,       \* units of the body written or read so far
  need,      \* the length that was read
  whole,     \* whether all units read belong to the message expected
  wire,      \* the units in flight to each side
  state,     \* "run", "done" or "failed"; a side that ends closes its stream
  outcome,   \* what the server did with the request
  link       \* "up", "broken", which both sides notice, or "silent"

reader == <<got, need, whole>>
setup  == <<kind, pinned, size>>
vars   == <<setup, at, part, reader, wire, state, outcome, link>>

Sides == {"client", "server"}
Peer(s) == IF s = "client" THEN "server" ELSE "client"

(* Who sends the messages of a conversation: XX -> e, <- e ee s es, -> s   *)
(* se; IK -> e es s ss, <- e ee se; then the request and the answer.       *)
Senders == IF kind = "XX" THEN <<"client", "server", "client", "client", "server">>
                          ELSE <<"client", "server", "client", "server">>

AnswerAt  == Len(Senders)
RequestAt == AnswerAt - 1

BodySize(m) == CASE m = RequestAt -> size.request [] m = AnswerAt -> size.answer [] OTHER -> Handshake

Unit == [t : {"length", "bytes"}, v : Nat]

TypeOK ==
  /\ kind \in {"XX", "IK"} /\ pinned \in BOOLEAN /\ size \in [request : Sizes, answer : Sizes]
  /\ at \in [Sides -> 1..(AnswerAt + 1)]
  /\ part \in [Sides -> {"head", "body"}]
  /\ got \in [Sides -> Nat] /\ need \in [Sides -> Nat] /\ whole \in [Sides -> BOOLEAN]
  /\ wire \in [Sides -> Seq(Unit)]
  /\ state \in [Sides -> {"run", "done", "failed"}]
  /\ outcome \in {"none", "performed"}
  /\ link \in {"up", "broken", "silent"}

Init ==
  /\ kind \in {"XX", "IK"} /\ pinned \in BOOLEAN /\ (kind = "XX" => ~pinned)
  /\ size \in [request : Sizes, answer : Sizes]
  /\ at = [s \in Sides |-> 1]
  /\ part = [s \in Sides |-> "head"]
  /\ got = [s \in Sides |-> 0] /\ need = [s \in Sides |-> 0] /\ whole = [s \in Sides |-> TRUE]
  /\ wire = [s \in Sides |-> <<>>]
  /\ state = [s \in Sides |-> "run"]
  /\ outcome = "none"
  /\ link = "up"

Running(s) == state[s] = "run" /\ at[s] <= AnswerAt
Writing(s) == Running(s) /\ Senders[at[s]] = s
Reading(s) == Running(s) /\ Senders[at[s]] # s

Fail(s) ==
  /\ state' = [state EXCEPT ![s] = "failed"]
  /\ UNCHANGED <<setup, at, part, reader, wire, outcome, link>>

-----------------------------------------------------------------------------
(* write_frame: the length, then the body as the buffers take it.  What is *)
(* written to a peer that has ended is lost.                               *)
Put(s, unit) ==
  IF link = "up" /\ state[Peer(s)] = "run"
  THEN /\ Len(wire[Peer(s)]) < Window
       /\ wire' = [wire EXCEPT ![Peer(s)] = Append(@, unit)]
  ELSE UNCHANGED wire

(* Variant with a bug: the answer is sent before the request is handled.   *)
WriteHeadUndecided(s) ==
  /\ Writing(s) /\ part[s] = "head" /\ link # "broken"
  /\ BodySize(at[s]) <= MaxMessage
  /\ Put(s, [t |-> "length", v |-> BodySize(at[s])])
  /\ part' = [part EXCEPT ![s] = "body"]
  /\ got' = [got EXCEPT ![s] = 0]
  /\ UNCHANGED <<setup, at, need, whole, state, outcome, link>>

(* Variant with a bug: a message too large is cut to what Noise takes.     *)
WriteHeadCuts(s) ==
  /\ Writing(s) /\ part[s] = "head" /\ link # "broken"
  /\ at[s] = AnswerAt => outcome # "none"
  /\ Put(s, [t |-> "length", v |-> IF BodySize(at[s]) <= MaxMessage THEN BodySize(at[s]) ELSE MaxMessage])
  /\ part' = [part EXCEPT ![s] = "body"]
  /\ got' = [got EXCEPT ![s] = 0]
  /\ UNCHANGED <<setup, at, need, whole, state, outcome, link>>

WriteHead(s) ==
  /\ Writing(s) /\ part[s] = "head" /\ link # "broken"
  /\ BodySize(at[s]) <= MaxMessage
  /\ at[s] = AnswerAt => outcome # "none"
  /\ Put(s, [t |-> "length", v |-> BodySize(at[s])])
  /\ part' = [part EXCEPT ![s] = "body"]
  /\ got' = [got EXCEPT ![s] = 0]
  /\ UNCHANGED <<setup, at, need, whole, state, outcome, link>>

(* Variant with a bug: nobody notices that a message is too large.         *)
WriteTooLargeIgnored(s) == FALSE /\ Fail(s)

(* Noise refuses a message above its limit before anything is written.     *)
WriteTooLarge(s) ==
  /\ Writing(s) /\ part[s] = "head" /\ BodySize(at[s]) > MaxMessage
  /\ Fail(s)

WriteBody(s) ==
  /\ Writing(s) /\ part[s] = "body" /\ link # "broken"
  /\ Put(s, [t |-> "bytes", v |-> at[s]])
  /\ LET last == got[s] + 1 = BodySize(at[s]) IN
       /\ got' = [got EXCEPT ![s] = @ + 1]
       /\ part' = [part EXCEPT ![s] = IF last THEN "head" ELSE @]
       /\ at' = [at EXCEPT ![s] = IF last THEN @ + 1 ELSE @]
  /\ UNCHANGED <<setup, need, whole, state, outcome, link>>

(* The peer has ended or the connection broke; a write need not notice it  *)
(* at once.  No stream holds bytes in both directions, so a socket that is *)
(* closed with unread bytes cannot take an answer with it.                 *)
WriteFails(s) ==
  /\ Writing(s)
  /\ link # "up" \/ state[Peer(s)] # "run"
  /\ Fail(s)

-----------------------------------------------------------------------------
(* read_frame: read_exact of the length, then of the body.                 *)
Take(s) == wire' = [wire EXCEPT ![s] = Tail(@)]

(* Variant with a bug: a reader counts on from the frame before.           *)
ReadHeadCountsOn(s) ==
  /\ Reading(s) /\ part[s] = "head" /\ wire[s] # <<>>
  /\ need' = [need EXCEPT ![s] = Head(wire[s]).v]
  /\ whole' = [whole EXCEPT ![s] = Head(wire[s]).t = "length"]
  /\ part' = [part EXCEPT ![s] = "body"]
  /\ Take(s)
  /\ UNCHANGED <<setup, at, got, state, outcome, link>>

ReadHead(s) ==
  /\ Reading(s) /\ part[s] = "head" /\ wire[s] # <<>>
  /\ need' = [need EXCEPT ![s] = Head(wire[s]).v]
  /\ whole' = [whole EXCEPT ![s] = Head(wire[s]).t = "length"]
  /\ got' = [got EXCEPT ![s] = 0]
  /\ part' = [part EXCEPT ![s] = "body"]
  /\ Take(s)
  /\ UNCHANGED <<setup, at, state, outcome, link>>

Body(s) ==
  /\ Reading(s) /\ part[s] = "body" /\ wire[s] # <<>>
  /\ Take(s)
  /\ got' = [got EXCEPT ![s] = @ + 1]
  /\ whole' = [whole EXCEPT ![s] = @ /\ Head(wire[s]) = [t |-> "bytes", v |-> at[s]]]

ReadBody(s) ==
  /\ Body(s)
  /\ got[s] + 1 < need[s]
  /\ UNCHANGED <<setup, at, part, need, state, outcome, link>>

(* The server cannot decrypt the first message of a check-in that was made *)
(* for another key, and nobody the pieces of two frames.                   *)
Decrypts(s) ==
  /\ whole'[s]
  /\ kind = "IK" /\ s = "server" /\ at[s] = 1 => pinned

(* Variant with a bug: a read takes what is there for the whole message.   *)
ReadLastEarly(s) ==
  /\ Body(s)
  /\ at' = [at EXCEPT ![s] = @ + 1]
  /\ part' = [part EXCEPT ![s] = "head"]
  /\ UNCHANGED <<setup, need, state, outcome, link>>

ReadLast(s) ==
  /\ Body(s)
  /\ got[s] + 1 = need[s]
  /\ IF Decrypts(s)
     THEN /\ at' = [at EXCEPT ![s] = @ + 1]
          /\ part' = [part EXCEPT ![s] = "head"]
          /\ UNCHANGED state
     ELSE /\ state' = [state EXCEPT ![s] = "failed"]
          /\ UNCHANGED <<at, part>>
  /\ UNCHANGED <<setup, need, outcome, link>>

(* End of the stream, at the start of a frame or inside it.                *)
ReadFails(s) ==
  /\ Reading(s) /\ wire[s] = <<>>
  /\ link = "broken" \/ (link = "up" /\ state[Peer(s)] # "run")
  /\ Fail(s)

-----------------------------------------------------------------------------
(* The handler has the request and performs it.                            *)
Handle ==
  /\ state["server"] = "run" /\ at["server"] = AnswerAt /\ outcome = "none"
  /\ outcome' = "performed"
  /\ UNCHANGED <<setup, at, part, reader, wire, state, link>>

Finish(s) ==
  /\ state' = [state EXCEPT ![s] = "done"]
  /\ UNCHANGED <<setup, at, part, reader, wire, outcome, link>>

(* Variant with a bug: the server ends before its answer is written.       *)
EndEarly(s) ==
  /\ state[s] = "run"
  /\ at[s] = AnswerAt + 1 \/ (s = "server" /\ at[s] = AnswerAt /\ outcome # "none")
  /\ Finish(s)

(* The last message is written or read.                                    *)
End(s) ==
  /\ state[s] = "run" /\ at[s] = AnswerAt + 1
  /\ Finish(s)

(* A side gives up between two messages: the client cannot collect what it *)
(* asks with; the server does not know the device or the workspace, or a   *)
(* statement fails, before or after the request was performed.             *)
Bail(s) ==
  /\ state[s] = "run" /\ part[s] = "head"
  /\ \/ at[s] = RequestAt /\ (s = "client" \/ kind = "IK")
     \/ at[s] = AnswerAt /\ s = "server"
  /\ Fail(s)

(* The network fails, with or without the two sides being told.            *)
Break(how) ==
  /\ link = "up"
  /\ link' = how
  /\ wire' = [s \in Sides |-> <<>>]
  /\ UNCHANGED <<setup, at, part, reader, state, outcome>>

-----------------------------------------------------------------------------
Step(s) == \/ WriteHead(s) \/ WriteTooLarge(s) \/ WriteBody(s) \/ WriteFails(s)
           \/ ReadHead(s) \/ ReadBody(s) \/ ReadLast(s) \/ ReadFails(s) \/ End(s)

Next == \/ \E s \in Sides : Step(s) \/ Bail(s)
        \/ Handle
        \/ \E how \in {"broken", "silent"} : Break(how)

Spec == Init /\ [][Next]_vars

(* The runtime polls both tasks and the network delivers while it is up.   *)
Fairness == WF_vars(Step("client")) /\ WF_vars(Step("server")) /\ WF_vars(Handle)

FairSpec == Spec /\ Fairness

-----------------------------------------------------------------------------
\* However the stream cuts the frames, what a side reads belongs to the message
\* it expects, from the length to the last byte (framing.rs:5-19): no handshake
\* or message fails because frames ran into one another.
FramesStayWhole == \A s \in Sides : Reading(s) => whole[s]

\* A request above the limit of a Noise message leaves no trace on the server,
\* and the agent never takes it for done (noise.rs:168-180).
TooLargeLeavesNoTrace ==
  size.request > MaxMessage => outcome = "none" /\ state["client"] # "done"

\* Both tasks end, whatever fails, unless the network goes silent: for that
\* case there is no timeout (framing.rs:12-19).
Ended == \A s \in Sides : state[s] # "run"
TasksEnd == <>Ended \/ <>(link = "silent")

\* When the server has sent its answer the agent gets it: the server closes a
\* stream that holds nothing it still had to read (checkin_channel.rs:98-114).
AnswerArrives ==
  state["server"] = "done" ~> state["client"] = "done" \/ link # "up"

-----------------------------------------------------------------------------
(* Why frames stay whole: what is in flight to a side is exactly what its  *)
(* peer has written and it has not read, and neither runs ahead of the     *)
(* conversation.                                                           *)

Frame(m)    == BodySize(m) + 1
Sends(s, m) == m <= AnswerAt /\ Senders[m] = s

\* The units of its present frame a side has written or read.
Progress(s) == IF part[s] = "head" THEN 0 ELSE got[s] + 1

\* The units a side has written since the start of message m.
Written(s, m) ==
  CASE at[s] < m     -> 0
    [] at[s] = m     -> Progress(s)
    [] at[s] = m + 1 -> Frame(m) + (IF Sends(s, m + 1) THEN Progress(s) ELSE 0)
    [] OTHER         -> Frame(m) + Frame(m + 1)

UnitOf(m, i) == IF i = 1 THEN [t |-> "length", v |-> BodySize(m)] ELSE [t |-> "bytes", v |-> m]

\* The i-th unit from the start of message m on: no side is two frames ahead.
Due(m, i) == IF i <= Frame(m) THEN UnitOf(m, i) ELSE UnitOf(m + 1, i - Frame(m))

\* What a running side awaits is in flight to it, unit by unit, and nothing else.
InFlight(s) ==
  link = "up" /\ state[s] = "run" =>
    IF Reading(s)
    THEN /\ Len(wire[s]) + Progress(s) = Written(Peer(s), at[s])
         /\ \A i \in 1..Len(wire[s]) : wire[s][i] = Due(at[s], Progress(s) + i)
    ELSE wire[s] = <<>>

\* A side is in the middle of a frame that fits.
FrameSound(s) ==
  /\ state[s] = "run" => whole[s]
  /\ Reading(s) /\ part[s] = "body" => need[s] = BodySize(at[s]) /\ got[s] < need[s]
  /\ Sends(s, at[s]) /\ part[s] = "body" => got[s] < BodySize(at[s])
  /\ \A m \in 1..AnswerAt :
       Senders[m] = s /\ (m < at[s] \/ (m = at[s] /\ part[s] = "body")) => BodySize(m) <= MaxMessage

\* A side that has read a message has it from a peer that wrote it whole.
InStep(s) == \A m \in 1..AnswerAt : m < at[s] /\ Senders[m] # s => m < at[Peer(s)]

\* The server handles the request between reading it and answering.
Handled ==
  /\ outcome # "none" => at["server"] >= AnswerAt
  /\ at["server"] = AnswerAt + 1 \/ (at["server"] = AnswerAt /\ part["server"] = "body") =>
       outcome # "none"
  /\ state["client"] = "done" => at["client"] = AnswerAt + 1

\* The inductive invariant.
IInv ==
  /\ TypeOK
  /\ link # "up" => \A s \in Sides : wire[s] = <<>>
  /\ Handled
  /\ \A s \in Sides : FrameSound(s) /\ InStep(s) /\ InFlight(s)

-----------------------------------------------------------------------------
(* Why both tasks end.                                                     *)

\* Only one side has the word, so that two full buffers never face each other
\* (noise.rs:41-60, noise.rs:120-130).
NeverBothWrite == ~(Writing("client") /\ Writing("server"))

(* What the steps of a side wait for.                                      *)
Room(s) == link = "up" /\ state[Peer(s)] = "run" => Len(wire[Peer(s)]) < Window

CanWrite(s) ==
  /\ Writing(s)
  /\ \/ link # "up" \/ state[Peer(s)] # "run"
     \/ part[s] = "head" /\ BodySize(at[s]) > MaxMessage
     \/ Room(s) /\ (part[s] = "head" /\ at[s] = AnswerAt => outcome # "none")

CanRead(s) ==
  /\ Reading(s)
  /\ \/ wire[s] # <<>> /\ (part[s] = "body" => got[s] + 1 <= need[s])
     \/ wire[s] = <<>> /\ (link = "broken" \/ (link = "up" /\ state[Peer(s)] # "run"))

CanEnd(s) == state[s] = "run" /\ at[s] = AnswerAt + 1

CanHandle == state["server"] = "run" /\ at["server"] = AnswerAt /\ outcome = "none"

\* While a task runs, a step of one of the two sides is possible, whatever the
\* buffers hold: they wait for each other in vain only on a network that went
\* silent, and then both of them read (framing.rs:12-19).
NobodyIsStuck ==
  \/ Ended \/ CanHandle
  \/ \E s \in Sides : CanWrite(s) \/ CanRead(s) \/ CanEnd(s)
  \/ link = "silent" /\ \A s \in Sides : state[s] = "run" => Reading(s)

\* Every step of a side takes it forward, and there are only so many: it ends,
\* passes to the next message, or writes or reads one more unit of this one
\* (framing.rs:5-19).
Forward(s) ==
  \/ state[s] = "run" /\ state'[s] # "run"
  \/ at'[s] = at[s] + 1
  \/ at'[s] = at[s] /\ Progress(s)' = Progress(s) + 1
SidesGoForward == [][\A s \in Sides : Step(s) \/ Bail(s) => Forward(s)]_vars

-----------------------------------------------------------------------------
(* The promise of a connection.                                            *)

Abstract == INSTANCE Exchange WITH
  asked   <- at["client"] > RequestAt,
  client  <- [run |-> "waiting", done |-> "answered", failed |-> "failed"][state["client"]]

\* The connection keeps the promise of Exchange.
ImplementsExchange == Abstract!Spec

\* An agent that has its answer knows that the server performed what it asked,
\* and the server performs only what was asked whole (main.rs:184, checkin.rs:31).
AnsweredIsPerformed ==
  /\ state["client"] = "done" => outcome = "performed"
  /\ outcome = "performed" => at["client"] > RequestAt
=============================================================================
