------------------------------ MODULE CanRelay -------------------------------
(***************************************************************************)
(* The relay of file downloads over one CAN channel                        *)
(* (net_protocol_prog/src/down_file_can_interface.c).  Downwards,          *)
(* io_transfer_upgrade_data stores a request in one of four slots and the  *)
(* send task cuts the oldest one into frames, giving one frame per run to  *)
(* the CAN driver, which may refuse it.  Upwards, the interrupt puts the   *)
(* frames of all boards into one ring and the receive loop puts them       *)
(* together and hands whole responses to TFTP.  A request or a response is *)
(* its number and its length in frames; the boards are external.           *)
(***************************************************************************)
EXTENDS Naturals, Sequences, FiniteSets

CONSTANTS AppSlots,    \* DOWN_FILE_MAX_APP_BYTE_CAN_SOCKET_NUMBER + 1
          FrameSlots,  \* DOWN_FILE_MAX_CAN_SEND_QUEUE_NUMBER + 1
          RecSlots,    \* DOWN_FILE_MAX_CAN_REC_QUEUE_NUMBER + 1
          Boards,      \* sources valid on this channel
          Strangers,   \* sources that are not
          Dest,        \* the board each request is addressed to
          Lengths,     \* lengths of the requests offered, in frames
          Replies,     \* lengths of the responses, in frames
          MaxRequests, \* bound: requests accepted
          MaxStrange   \* bound: frames of strangers

ASSUME SlotsAssumption == /\ AppSlots \in Nat \ {0, 1}
                          /\ FrameSlots \in Nat \ {0, 1}
                          /\ RecSlots \in Nat \ {0, 1}
\* The source of a frame is valid on this channel or it is not.
ASSUME SourcesAssumption == Boards \cap Strangers = {}
ASSUME LengthsAssumption == Lengths \subseteq Nat \ {0}
                            /\ Replies \subseteq Nat \ {0}

VARIABLES app,      \* [rd, wr, slot]: requests waiting to be cut
          short,    \* [rd, wr, slot]: frames of the request being sent
          accepted, \* lengths of the requests taken, in order
          out,      \* the last frame the driver took
          lost,     \* history: requests taken of which no frame is ever sent
          bus,      \* external: what each board still has to send
          rec,      \* [rd, wr, slot]: received frames
          asm,      \* [src, expect, parts]: the response being put together
          done,     \* the frames of the response last handed to TFTP
          answered, \* requests whose response was handed to TFTP whole
          strange,  \* frames of strangers so far
          headLost, \* whether a first frame was dropped at the full ring
          damaged   \* requests whose response lost a frame to the full ring
                    \* or was given up because another one began

tx == <<app, short, accepted, out, lost>>
rx == <<bus, rec, asm, done, answered, strange, headLost, damaged>>
vars == <<tx, rx>>

-----------------------------------------------------------------------------
Frame(req, id) == [req |-> req, id |-> id, last |-> id + 1 = accepted[req]]
Nothing == [req |-> 0, id |-> 0, last |-> TRUE]
NoPart == [src |-> "none", req |-> 0, id |-> 0, last |-> FALSE]

Init ==
    /\ app = [rd |-> 0, wr |-> 0, slot |-> [i \in 0..AppSlots-1 |-> 0]]
    /\ short = [rd |-> 0, wr |-> 0,
                slot |-> [i \in 0..FrameSlots-1 |-> Nothing]]
    /\ accepted = << >>
    /\ out = Nothing
    /\ lost = {}
    /\ bus = [b \in Boards |-> << >>]
    /\ rec = [rd |-> 0, wr |-> 0, slot |-> [i \in 0..RecSlots-1 |-> NoPart]]
    /\ asm = [src |-> "none", expect |-> 0, parts |-> << >>]
    /\ done = << >>
    /\ strange = 0
    /\ answered = {}
    /\ headLost = FALSE
    /\ damaged = {}

-----------------------------------------------------------------------------
(* io_transfer_upgrade_data: a request longer than the frame slots can     *)
(* carry, or one that finds the slots full, is refused.                    *)
\* (Mutant of NextSlot: the mask is forgotten.)
NoMask(i, n) == i + 1
NextSlot(i, n) == IF i + 1 = n THEN 0 ELSE i + 1

\* (Mutant of AppFull: the test is left out.)
NeverFull == FALSE
AppFull == NextSlot(app.wr, AppSlots) = app.rd

TransferUpgradeData(l) ==
    /\ Len(accepted) < MaxRequests
    /\ l <= FrameSlots
    /\ ~AppFull
    /\ app' = [app EXCEPT !.slot[app.wr] = Len(accepted) + 1,
                          !.wr = NextSlot(app.wr, AppSlots)]
    /\ accepted' = Append(accepted, l)
    /\ UNCHANGED <<short, out, lost, rx>>

(* down_file_input_can_int_queue_from_app_socket: the frames of the oldest *)
(* request, written from slot 0 with the write index wrapping: behind a    *)
(* request that fills all the slots it is 0 again.                         *)
WriteIndex(req) == IF accepted[req] = FrameSlots THEN 0 ELSE accepted[req]

\* (Mutant of Cut: the read index is not reset.)
CutFromOldIndex(req) ==
    [rd |-> short.rd,
     wr |-> WriteIndex(req),
     slot |-> [i \in 0..FrameSlots-1 |->
                 IF i < accepted[req] THEN Frame(req, i) ELSE short.slot[i]]]
Cut(req) ==
    [rd |-> 0,
     wr |-> WriteIndex(req),
     slot |-> [i \in 0..FrameSlots-1 |->
                 IF i < accepted[req] THEN Frame(req, i) ELSE short.slot[i]]]

(* down_file_can_send_soft_int_task: what the task offers to the driver.   *)
\* (Mutant of ShortEmpty: the slots are refilled on every run.)
AlwaysRefill == TRUE
ShortEmpty == short.rd = short.wr
AppEmpty == app.rd = app.wr
Loaded == IF ShortEmpty THEN Cut(app.slot[app.rd]) ELSE short

(* Can_send_app takes the frame (the board that got the last frame of a    *)
(* request then has a response to send) or refuses it.  Frames just cut of *)
(* which the first is refused stay where they are, but if they fill all    *)
(* the slots the indices say that there are none, and the next run cuts    *)
(* the next request over them.                                             *)
Answer(frame) ==
    IF frame.last
      THEN \E n \in Replies :
             bus' = [bus EXCEPT ![Dest[frame.req]] =
                       Append(@, [req |-> frame.req, id |-> 0, len |-> n])]
      ELSE UNCHANGED bus

SendTask(taken) ==
    /\ ~ShortEmpty \/ ~AppEmpty
    /\ app' = IF ShortEmpty
                THEN [app EXCEPT !.rd = NextSlot(app.rd, AppSlots)] ELSE app
    /\ IF taken
         THEN /\ short' = [Loaded EXCEPT !.rd = NextSlot(@, FrameSlots)]
              /\ out' = Loaded.slot[Loaded.rd]
              /\ Answer(out')
         ELSE short' = Loaded /\ UNCHANGED <<out, bus>>
    /\ lost' = IF taken \/ Loaded.rd # Loaded.wr THEN lost
               ELSE lost \cup {Loaded.slot[0].req}
    /\ UNCHANGED <<accepted, rec, asm, done, answered, strange, headLost, damaged>>

-----------------------------------------------------------------------------
(* down_file_push_rec_queue_int: a full ring drops the frame.              *)
RecFull == NextSlot(rec.wr, RecSlots) = rec.rd

Push(part) ==
    rec' = IF RecFull THEN rec
           ELSE [rec EXCEPT !.slot[rec.wr] = part,
                            !.wr = NextSlot(rec.wr, RecSlots)]

(* The interrupt of a frame from a board that has something to send.       *)
BoardFrame(b) ==
    /\ bus[b] # << >>
    /\ LET r    == Head(bus[b])
           last == r.id + 1 = r.len
       IN  /\ Push([src |-> b, req |-> r.req, id |-> r.id, last |-> last])
           /\ bus' = [bus EXCEPT ![b] =
                        IF last THEN Tail(@) ELSE <<[r EXCEPT !.id = @ + 1]>> \o Tail(@)]
           /\ headLost' = (headLost \/ (RecFull /\ r.id = 0))
           /\ damaged' = IF RecFull THEN damaged \cup {r.req} ELSE damaged
    /\ UNCHANGED <<tx, asm, done, answered, strange>>

(* A frame with the upload command from a source of the other channel.     *)
StrangerFrame(s) ==
    /\ strange < MaxStrange
    /\ strange' = strange + 1
    /\ Push([src |-> s, req |-> 0, id |-> 0, last |-> TRUE])
    /\ UNCHANGED <<tx, bus, asm, done, answered, headLost, damaged>>

(* down_file_app_rec_socket_put_together_loop: one turn of its loop.  A    *)
(* first frame starts a response over whatever was there; any other frame  *)
(* has to be the expected one of the same source, and is skipped if not.   *)
\* (Mutant of Continues: any frame of the same source will do.)
ContinuesAny(part) == part.src \in Boards /\ part.id # 0 /\ part.src = asm.src
Starts(part) == part.src \in Boards /\ part.id = 0
Continues(part) ==
    part.src \in Boards /\ part.id # 0 /\ part.src = asm.src /\ part.id = asm.expect

\* (Mutant of Assembled: the expected number is not counted on.)
ExpectNotCounted(part) ==
    IF Starts(part)
      THEN [src |-> part.src, expect |-> 1, parts |-> <<part>>]
      ELSE IF Continues(part) THEN [asm EXCEPT !.parts = Append(@, part)] ELSE asm

Assembled(part) ==
    IF Starts(part)
      THEN [src |-> part.src, expect |-> 1, parts |-> <<part>>]
      ELSE IF Continues(part)
             THEN [asm EXCEPT !.expect = @ + 1, !.parts = Append(@, part)]
             ELSE asm

(* All the frames of one response of one board, each once and in order.    *)
WholeResponse(parts) ==
    /\ parts # << >>
    /\ \A i \in 1..Len(parts) :
         /\ parts[i].id = i - 1
         /\ parts[i].src = parts[1].src /\ parts[i].req = parts[1].req
         /\ parts[i].last <=> i = Len(parts)

PutTogether ==
    /\ rec.rd # rec.wr
    /\ LET part  == rec.slot[rec.rd]
           new   == Assembled(part)
           whole == (Starts(part) \/ Continues(part)) /\ part.last
       IN  /\ rec' = [rec EXCEPT !.rd = NextSlot(@, RecSlots)]
           /\ asm' = IF whole THEN [new EXCEPT !.parts = << >>] ELSE new
           /\ done' = IF whole THEN new.parts ELSE done
           /\ answered' = IF whole /\ WholeResponse(new.parts)
                            THEN answered \cup {part.req} ELSE answered
           /\ damaged' = IF Starts(part) /\ asm.parts # << >>
                           THEN damaged \cup {asm.parts[1].req} ELSE damaged
    /\ UNCHANGED <<tx, bus, strange, headLost>>

-----------------------------------------------------------------------------
Next == \/ \E l \in Lengths : TransferUpgradeData(l)
        \/ \E taken \in BOOLEAN : SendTask(taken)
        \/ \E b \in Boards : BoardFrame(b)
        \/ \E s \in Strangers : StrangerFrame(s)
        \/ PutTogether

Spec == Init /\ [][Next]_vars

(* Both tasks run for ever, the driver does not refuse every frame, and a  *)
(* board sends what it has to send.                                        *)
FairSpec == /\ Spec
            /\ WF_vars(SendTask(TRUE))
            /\ WF_vars(PutTogether)
            /\ \A b \in Boards : WF_vars(BoardFrame(b))

-----------------------------------------------------------------------------
Frames == [req : Nat, id : Nat, last : BOOLEAN]
Sources == Boards \cup Strangers \cup {"none"}
Parts == [src : Sources, req : Nat, id : Nat, last : BOOLEAN]

(* Every variable has its type; the indices stay inside their rings.       *)
TxTypeOK ==
    /\ accepted \in Seq(Lengths)
    /\ app \in [rd : 0..AppSlots-1, wr : 0..AppSlots-1,
                slot : [0..AppSlots-1 -> Nat]]
    /\ short \in [rd : 0..FrameSlots-1, wr : 0..FrameSlots-1,
                  slot : [0..FrameSlots-1 -> Frames]]
    /\ out \in Frames
    /\ lost \subseteq Nat

RxTypeOK ==
    /\ bus \in [Boards -> Seq([req : Nat, id : Nat, len : Nat])]
    /\ rec \in [rd : 0..RecSlots-1, wr : 0..RecSlots-1,
                slot : [0..RecSlots-1 -> Parts]]
    /\ asm \in [src : Sources, expect : Nat, parts : Seq(Parts)]
    /\ done \in Seq(Parts)
    /\ answered \subseteq Nat /\ damaged \subseteq Nat
    /\ headLost \in BOOLEAN
    /\ strange \in Nat

TypeOK == TxTypeOK /\ RxTypeOK

(* The request last cut: the one being sent, if any frame of it is left.   *)
Current == short.slot[0].req

(* The indices of both sending queues stay in step with the requests taken *)
(* and the last frame gone: the slots between the indices hold exactly the *)
(* requests not yet cut, and the frames of the current one not yet sent.   *)
(* Between the request last sent and the one last cut there are only       *)
(* requests that filled all the slots when their first frame was refused.  *)
Ahead(rd, j) == IF j >= rd THEN j - rd ELSE j + AppSlots - rd

SlotsInStep ==
    /\ Ahead(app.rd, app.wr) = Len(accepted) - Current
    /\ \A j \in 0..AppSlots-1 :
         Ahead(app.rd, j) < Len(accepted) - Current =>
           app.slot[j] = Current + 1 + Ahead(app.rd, j)

Between(req) == out.req + 1..req - 1

FramesInStep ==
    IF ShortEmpty
      THEN /\ out.last /\ out.req <= Current
           /\ Between(Current + 1) \subseteq lost
      ELSE /\ Current \in 1..Len(accepted) \ lost
           /\ short.wr = WriteIndex(Current) /\ short.rd < accepted[Current]
           /\ \A i \in short.rd..accepted[Current]-1 :
                short.slot[i] = Frame(Current, i)
           /\ IF short.rd = 0
                THEN /\ out.last /\ out.req < Current
                     /\ Between(Current) \subseteq lost
                ELSE out = Frame(Current, short.rd - 1)

LostWereFull ==
    \A k \in lost : k \in 1..Current /\ accepted[k] = FrameSlots

QueuesInStep == SlotsInStep /\ FramesInStep /\ LostWereFull

(* What goes out on the bus is the requests taken, each one whole, in the  *)
(* order in which they were taken: no request in the slots is overwritten  *)
(* or taken twice, no refused frame is skipped and none is sent again; and *)
(* no request is left out unless it fills all the slots.                   *)
Stream == INSTANCE RequestStream WITH Slots <- FrameSlots
IsRequestStream == Stream!Spec

(* Every request that was taken goes out to its last frame, but one that   *)
(* filled all the slots when its first frame was refused.                  *)
AllSent ==
    \A k \in 1..MaxRequests :
        Len(accepted) >= k ~> out.req > k \/ (out.req = k /\ out.last) \/ k \in lost

(* What is handed to TFTP is one whole response of one board, although     *)
(* frames are dropped at the full ring and boards talk at the same time,   *)
(* as long as no first frame was dropped (the code keeps no state by which *)
(* it could tell the tail of a response from the tail of the next one).    *)
DeliveredWhole ==
    headLost \/ done = << >> \/ WholeResponse(done)

(* The whole way round: a request that was taken is answered at the host   *)
(* unless it was left out on the bus, a frame of the answer met a full     *)
(* ring, or another board began its answer in the middle of it.            *)
RequestsAnswered ==
    \A k \in 1..MaxRequests :
        Len(accepted) >= k ~> k \in answered \cup damaged \cup lost
=============================================================================
