-------------------------------- MODULE Upload -------------------------------
(***************************************************************************)
(* The download of a file into this device, and reading it back: the TFTP  *)
(* server (net_protocol_prog/src/net_tftp.c) on top of the file system,    *)
(* with the host that sends and reads the file, another tool that sends    *)
(* single packets, and the boards whose responses come up over CAN.        *)
(*                                                                         *)
(* A handler runs to its end before the next packet; the 1 ms task and a   *)
(* power failure come between handlers, and a power failure also in the    *)
(* middle of one, between two flash operations or during one.  The host,   *)
(* the tool and the boards are external.  Packets are well formed and those*)
(* of one direction keep their order.                                      *)
(***************************************************************************)
EXTENDS FileSystem, FiniteSets

CONSTANTS NoHost,      \* m_RmtTftpIP = 0
          Host, Tool,  \* the two sources of packets
          Attempts,    \* bound: downloads of the host, the n-th of version n
          ToolVersion, \* the version of the tool's file
          Blocks,      \* blocks of a file
          BlockPages,  \* pages of a block (4 in the code)
          BlockMod,    \* block numbers on the wire are modulo this (65536)
          IdleMax,     \* TFTP_IDLE_TIMEOUT_MS, in ticks
          RstMax,      \* TFTP_RST_VALID_WINDOW_MS, in ticks
          Retries,     \* how often the host repeats a packet
          Mishaps,     \* bound: lost and untimely packets, restarts
          Faults       \* bound: flash operations that fail or lose power, and
                       \* last blocks the send queue does not take

ASSUME UploadAssumption ==
    /\ Blocks \in Nat \ {0} /\ BlockPages \in Nat \ {0, 1}
    /\ FilePages >= (Blocks - 1) * BlockPages + 1
    /\ BlockMod \in Nat \ {0, 1}
    /\ IdleMax \in Nat \ {0} /\ RstMax \in Nat \ {0}
    /\ Attempts \in Nat /\ Retries \in Nat /\ Mishaps \in Nat /\ Faults \in Nat
    /\ ToolVersion \notin 0..Attempts
    /\ Cardinality({NoHost, Host, Tool}) = 3

VARIABLES flash,    \* [pages, info]
          ram,      \* the file system's RAM
          srv,      \* the server's session
          toServer, \* packets on their way to the server
          toHost,   \* replies on their way to the host
          host,     \* external: what the host is doing
          mishaps, faults, \* how many are left
          spoilt,   \* history: whether anything but the loss of packets that
                    \* the protocol can repeat has happened to this attempt
          stale     \* history: the info in flash is older than the pages: the device
                    \* was restarted in the middle of a file, or the info could
                    \* be neither erased nor written when the file was closed

vars == <<flash, ram, srv, toServer, toHost, host, mishaps, faults, spoilt, stale>>

-----------------------------------------------------------------------------
(* Files and packets.  Version 0 is in flash at the start.  A packet is    *)
(* addressed to this device or, by its CAN ID, to a board.                 *)
Length == (Blocks - 1) * BlockPages + 1
PageOf(v, i) == <<v, i>>
FileSum(v) == [i \in 1..Length |-> PageOf(v, i - 1)]
FileInfo(v) == [size |-> Length, src |-> FileSum(v), sum |-> FileSum(v)]

(* Block b of a file: whole pages, and in the last block a part of a page. *)
BlockData(v, b) ==
    IF b = Blocks THEN << >>
    ELSE [i \in 1..BlockPages |-> PageOf(v, (b - 1) * BlockPages + i - 1)]
BlockPart(v, b) == IF b = Blocks THEN PageOf(v, Length - 1) ELSE NoPage
BlockSum(v, b) ==
    BlockData(v, b) \o IF b = Blocks THEN <<BlockPart(v, b)>> ELSE << >>

Packet(op, dst, src, v, b) ==
    [op |-> op, dst |-> dst, src |-> src, ver |-> v, blk |-> b]
Reply(op, v, n) == [op |-> op, ver |-> v, num |-> n]
DataReply(n, data) == [op |-> "DATA", ver |-> 0, num |-> n, data |-> data]

(* The session after power on, and the host before its first download.     *)
Boot == [state |-> "idle", block |-> 0, rlov |-> 0, rmt |-> NoHost,
         dst |-> "none", prop |-> "none", held |-> FALSE, size |-> 0, offset |-> 0,
         total |-> NoSum, okSum |-> NoSum, idle |-> 0, rst |-> 0,
         stopFeed |-> FALSE]

Init == /\ flash = [pages |-> [p \in Pages |-> PageOf(0, p)], info |-> FileInfo(0)]
        /\ ram = ClosedRam
        /\ srv = Boot
        /\ toServer = << >> /\ toHost = << >>
        /\ host = [pc |-> "idle", ver |-> 0, blk |-> 0, tries |-> 0, got |-> << >>]
        /\ mishaps = Mishaps /\ faults = Faults
        /\ spoilt = FALSE /\ stale = FALSE

-----------------------------------------------------------------------------
(* Ends of handlers: outcome o of the last call of the file system, and    *)
(* session s.  A power failure restarts the device instead.                *)
SendTo(s, replies) == toHost' = IF s.rmt = Host THEN toHost \o replies ELSE toHost

Restarted == /\ ram' = ClosedRam
             /\ srv' = Boot
             /\ stale' = (stale \/ ram.flag = "write")

Ends(o, s) ==
    /\ flash' = o.flash
    /\ faults' = o.faults
    /\ IF o.off THEN Restarted
       ELSE /\ ram' = o.ram
            /\ srv' = s
            /\ stale' = /\ o.flash.info = flash.info
                        /\ stale \/ (ram.flag = "write" /\ o.ram.flag # "write")

Same == Outcome(flash, ram, 0, faults, FALSE)

(* (A mutant: tftp_init leaves the restart window open.)                   *)
InitKeepsWindow(s) ==
    [s EXCEPT !.state = "idle", !.block = 0, !.rlov = 0, !.rmt = NoHost,
              !.okSum = NoSum, !.idle = 0]

(* tftp_init: the file, its checksum and the kind of update stay.          *)
TftpInit(s) ==
    [s EXCEPT !.state = "idle", !.block = 0, !.rlov = 0, !.rmt = NoHost,
              !.okSum = NoSum, !.idle = 0, !.rst = 0]

(* tftp_clear_state: the file, if there is one, is closed with checksum 0. *)
Cleared(s) ==
    [s EXCEPT !.state = "idle", !.rlov = 0, !.rmt = NoHost, !.dst = "none",
              !.total = NoSum, !.offset = 0, !.okSum = NoSum, !.idle = 0,
              !.held = FALSE]

ClearState(o, s) ==
    IF s.held /\ ~o.off
      THEN \E c \in file_close(o.flash, o.ram, NoSum, o.faults) : Ends(c, Cleared(s))
      ELSE Ends(o, Cleared(s))

(* How a handler ends: with a reply, without one, or with an error.  No    *)
(* reply leaves the device if the power fails before it.                   *)
Leave(o, s) == UNCHANGED toHost /\ Ends(o, s)
Answer(o, s, reply) == IF o.off THEN Leave(o, s) ELSE SendTo(s, <<reply>>) /\ Ends(o, s)
ErrorsDone(o, s, n) ==
    IF o.off THEN Leave(o, s)
    ELSE SendTo(s, [i \in 1..n |-> Reply("ERROR", 0, 0)]) /\ ClearState(o, s)
ErrorDone(o, s) == ErrorsDone(o, s, 1)

(* tftp_transfer_remote_upgrade_data: the CAN relay takes it or is full.   *)
Relay(s) == Leave(Same, s) \/ ErrorDone(Same, s)

-----------------------------------------------------------------------------
(* The handlers, for a packet p.                                           *)
From(s, p) == [s EXCEPT !.rmt = p.src, !.dst = p.dst]

(* tftp_reject_new_session_if_busy: an identical request to a board is     *)
(* dropped, others are answered with an error outside the session.         *)
Busy(p) == srv.state # "idle" /\ p.op \in {"RRQ", "WRQ", "LCK", "DIFF", "REQ"}

RemoteRetry(p) ==
    /\ srv.state = "wrq" /\ srv.prop = "remote"
    /\ p.op = "WRQ" /\ p.src = srv.rmt /\ p.dst = srv.dst

RejectBusy(p) ==
    /\ IF RemoteRetry(p) THEN UNCHANGED toHost
                         ELSE SendTo([rmt |-> p.src], <<Reply("ERROR", 0, 0)>>)
    /\ Ends(Same, [srv EXCEPT !.idle = 0])

(* tftp_recv_wrq, of a file here (handle_local_update has already sent an  *)
(* error when the file cannot be opened) and of a file for a board.        *)
RecvWrqLocal(p) ==
    LET s == From(TftpInit(srv), p)
    IN  \E o \in file_open(flash, ram, "write", faults) :
          IF o.ret < 0
            THEN ErrorsDone(o, [s EXCEPT !.held = FALSE], 2)
            ELSE Answer(o, [s EXCEPT !.state = "wrq", !.prop = "local", !.held = TRUE],
                        Reply("ACK", 0, 0))

RecvWrqRemote(p) ==
    LET s == [From(TftpInit(srv), p) EXCEPT !.prop = "remote"]
    IN  \/ Leave(Same, [s EXCEPT !.state = "wrq"])
        \/ ErrorDone(Same, s)

(* tftp_recv_data.  The block number on the wire is expanded first.        *)
Wire(p) == p.blk % BlockMod

(* (A mutant: a repeated block 0 counts as one more turn.)                 *)
ExpandedAtEveryZero(s, wire) == IF wire = 0 THEN [s EXCEPT !.rlov = @ + 1] ELSE s

Expanded(s, wire) ==
    IF wire = 0 /\ s.block = BlockMod - 1 + s.rlov * BlockMod
      THEN [s EXCEPT !.rlov = @ + 1] ELSE s
ExpandBlock(s, wire) == wire + s.rlov * BlockMod

FinishTransfer(s) == [s EXCEPT !.state = "idle", !.offset = 0, !.rlov = 0]

WriteBlock(s, p) ==
    IF s.held THEN file_write(flash, ram, s.offset, BlockData(p.ver, p.blk),
                              BlockPart(p.ver, p.blk), faults)
              ELSE {Outcome(flash, ram, -1, faults, FALSE)}

StoredBlock(s, p) ==
    [s EXCEPT !.offset = @ + Len(BlockData(p.ver, p.blk)),
              !.total = @ \o BlockSum(p.ver, p.blk)]

NextBlock(s, p) ==
    \/ /\ s.prop = "local"
       /\ \E o \in WriteBlock(s, p) :
            IF o.ret < 0
              THEN ErrorDone(o, s)
              ELSE Answer(o, IF p.blk = Blocks THEN FinishTransfer(StoredBlock(s, p))
                                              ELSE StoredBlock(s, p),
                          Reply("ACK", 0, Wire(p)))
    \/ s.prop = "remote" /\ Relay(s)
    \/ s.prop = "none" /\ ErrorDone(Same, s)

SameBlock(s, p) ==
    \/ s.prop = "local" /\ Answer(Same, s, Reply("ACK", 0, Wire(p)))
    \/ s.prop = "remote" /\ Relay(s)
    \/ s.prop = "none" /\ Leave(Same, s)

RecvData(p) ==
    LET now == [srv EXCEPT !.idle = 0]
        s   == Expanded(now, Wire(p))
        b   == ExpandBlock(s, Wire(p))
    IN  IF p.src # srv.rmt          THEN ErrorDone(Same, TftpInit(now))
        ELSE IF srv.state # "wrq"   THEN ErrorDone(Same, now)
        ELSE IF b = s.block + 1     THEN NextBlock([s EXCEPT !.block = b], p)
        ELSE IF b = s.block         THEN SameBlock(s, p)
        ELSE ErrorDone(Same, s)

(* tftp_recv_sum.                                                          *)
AlreadyOk(s, p) == s.okSum # NoSum /\ s.okSum = FileSum(p.ver)

(* (A mutant: only a checksum that differs counts as a failure.)           *)
CloseDiffers(ret) == ret = -3

CloseFailed(ret) == ret <= 0

CloseFile(s, src) ==
    IF s.held THEN file_close(flash, ram, src, faults)
              ELSE {Outcome(flash, ram, -1, faults, FALSE)}

Completed(s, p) == [s EXCEPT !.okSum = FileSum(p.ver), !.total = NoSum, !.held = FALSE]

SumMatches(s, p) ==
    \E o \in CloseFile(s, FileSum(p.ver)) :
      IF CloseFailed(o.ret)
        THEN ErrorDone(o, s)
        ELSE \/ Leave(o, Completed(s, p))
             \/ Answer(o, [Completed(s, p) EXCEPT !.rst = RstMax],
                       Reply("OK", p.ver, 0))

SumDiffers(s) ==
    \E o \in CloseFile(s, NoSum) : ErrorDone(o, [s EXCEPT !.held = FALSE])

RecvSum(p) ==
    LET s == [srv EXCEPT !.rmt = p.src, !.idle = 0]
    IN  \/ /\ s.prop = "local"
           /\ IF AlreadyOk(s, p) THEN Answer(Same, s, Reply("OK", p.ver, 0))
              ELSE IF s.total = FileSum(p.ver) THEN SumMatches(s, p)
              ELSE SumDiffers(s)
        \/ s.prop = "remote" /\ Relay(s)
        \/ s.prop = "none" /\ ErrorDone(Same, s)

(* tftp_recv_stop, from whomever it comes.                                 *)
RecvStop(p) == UNCHANGED toHost /\ ClearState(Same, From(srv, p))

(* tftp_recv_rst.                                                          *)
RecvRst(p) ==
    LET s == [From(srv, p) EXCEPT !.idle = 0]
    IN  \/ p.dst = "self" /\ Leave(Same, IF s.rst > 0
                                          THEN [s EXCEPT !.stopFeed = TRUE, !.rst = 0]
                                          ELSE s)
        \/ p.dst = "board" /\ Relay(s)

(* tftp_recv_lck, tftp_recv_req.                                           *)
RecvLck(p) ==
    LET s == From(TftpInit(srv), p)
    IN  \/ p.dst = "self" /\ Leave(Same, [s EXCEPT !.prop = "local"])
        \/ p.dst = "board" /\ Relay([s EXCEPT !.prop = "remote"])

RecvReq(p) == Leave(Same, [From(TftpInit(srv), p) EXCEPT !.prop = "remote"])

(* tftp_recv_diff: an open file is closed by opening it to read its info.  *)
RecvDiff(p) ==
    LET s == From(TftpInit(srv), p)
    IN  \/ /\ p.dst = "self"
           /\ \E o \in file_open(flash, ram, "read", faults) :
                \E c \in IF o.off \/ o.ret < 0 THEN {o}
                         ELSE file_close(o.flash, o.ram, NoSum, o.faults) :
                  Leave(c, [s EXCEPT !.prop = "local"])
        \/ p.dst = "board" /\ Relay([s EXCEPT !.prop = "remote"])

(* tftp_recv_rrq, of the file here (find_file_info_by_keyword opens it and *)
(* reads its info, and does not ask whether the checksums agree) and of a  *)
(* board's file.                                                           *)
RecvRrqLocal(p) ==
    LET s == [From(TftpInit(srv), p) EXCEPT !.prop = "local"]
        failed == [s EXCEPT !.held = FALSE]
    IN  \E o \in file_open(flash, ram, "read", faults) :
          IF o.off \/ o.ret < 0
            THEN ErrorDone(o, failed)
            ELSE \E i \in file_info_read(o.flash, o.ram, o.faults) :
                   IF i.off \/ i.ret = 0
                     THEN \E c \in IF i.off THEN {i}
                                   ELSE file_close(i.flash, i.ram, NoSum, i.faults) :
                            ErrorDone(c, failed)
                     ELSE Answer(i, [s EXCEPT !.state = "rrq", !.held = TRUE,
                                              !.size = i.flash.info.size],
                                 Reply("FIF", 0, 0))

RecvRrqRemote(p) == Relay([From(TftpInit(srv), p) EXCEPT !.prop = "remote"])

(* tftp_send_data: block n of the file that is read.  A block that is not  *)
(* full is the last one, and closes the file when it has been queued.  (No *)
(* file of the flash has as many blocks as the 16 bits of n can count.)    *)
(* (Mutants: the blocks are counted from 0; a full block is the last one.) *)
ReadFromZero(n, size) ==
    [i \in 1..Min({BlockPages, Max({0, size - n * BlockPages})}) |->
       flash.pages[n * BlockPages + i - 1]]
FullIsLast(data) == Len(data) <= BlockPages

ReadBlock(n, size) ==
    LET offset == (n - 1) * BlockPages
    IN  [i \in 1..Min({BlockPages, Max({0, size - offset})}) |->
           flash.pages[offset + i - 1]]
IsLast(data) == Len(data) < BlockPages

SendData(s, n) ==
    LET data == ReadBlock(n, s.size)
    IN  \E o \in IF data = << >> THEN {Same} ELSE file_read(flash, ram, Len(data), faults) :
          IF o.off THEN Leave(o, s)
          ELSE IF o.ret < 0 THEN Answer(o, s, Reply("ERROR", 0, 0))
          ELSE IF ~IsLast(data) THEN Answer(o, s, DataReply(n, data))
          ELSE \/ \E c \in file_close(flash, o.ram, NoSum, o.faults) :
                    Answer(c, IF c.ret < 0 THEN s ELSE [s EXCEPT !.held = FALSE, !.state = "idle"],
                           DataReply(n, data))
               \/ o.faults > 0 /\ Leave([o EXCEPT !.faults = @ - 1], s)

(* tftp_recv_ack, from whomever it comes.                                  *)
RecvAck(p) ==
    LET s == [srv EXCEPT !.rmt = p.src, !.idle = 0]
    IN  \/ /\ p.dst = "self"
           /\ IF s.state = "rrq" THEN SendData([s EXCEPT !.prop = "local"], p.blk + 1)
                                 ELSE Leave(Same, s)
        \/ p.dst = "board" /\ Relay([s EXCEPT !.prop = "remote"])

Handle(p) ==
    IF Busy(p) THEN RejectBusy(p)
    ELSE \/ p.op = "RRQ" /\ p.dst = "self" /\ RecvRrqLocal(p)
         \/ p.op = "RRQ" /\ p.dst = "board" /\ RecvRrqRemote(p)
         \/ p.op = "WRQ" /\ p.dst = "self" /\ RecvWrqLocal(p)
         \/ p.op = "WRQ" /\ p.dst = "board" /\ RecvWrqRemote(p)
         \/ p.op = "DATA" /\ RecvData(p)
         \/ p.op = "SUM" /\ RecvSum(p)
         \/ p.op = "STOP" /\ RecvStop(p)
         \/ p.op = "RST" /\ RecvRst(p)
         \/ p.op = "LCK" /\ RecvLck(p)
         \/ p.op = "REQ" /\ RecvReq(p)
         \/ p.op = "DIFF" /\ RecvDiff(p)
         \/ p.op = "ACK" /\ RecvAck(p)

(* tftp_server.                                                            *)
Receive == /\ toServer # << >>
           /\ toServer' = Tail(toServer)
           /\ Handle(Head(toServer))
           /\ spoilt' = (spoilt \/ faults' < faults)
           /\ UNCHANGED <<host, mishaps>>

-----------------------------------------------------------------------------
(* tftp_1ms_swi_task.  A tick is much longer than the way of a packet.     *)
(* (Mutants: the window counts past 0; only a local download times out.)   *)
OlderUnguarded(s) == [s EXCEPT !.rst = @ - 1,
                               !.idle = IF s.state = "idle" THEN 0 ELSE @ + 1]
OlderLocalOnly(s) == [s EXCEPT !.rst = IF @ > 0 THEN @ - 1 ELSE 0,
                               !.idle = IF s.held /\ s.state # "idle" THEN @ + 1 ELSE 0]

Older(s) == [s EXCEPT !.rst = IF @ > 0 THEN @ - 1 ELSE 0,
                      !.idle = IF s.state = "idle" THEN 0 ELSE @ + 1]

Tick == /\ toServer = << >> /\ toHost = << >>
        /\ srv.state # "idle" \/ srv.rst > 0
        /\ LET s == Older(srv)
           IN  IF s.idle < IdleMax
                 THEN Ends(Same, s)
                 ELSE ClearState(Same, s)
        /\ spoilt' = (spoilt \/ srv'.state # srv.state)
        /\ UNCHANGED <<toServer, toHost, host, mishaps>>

(* A power failure between handlers, and the watchdog.  What was on its    *)
(* way to the device is lost.                                              *)
Restart == /\ \/ srv.stopFeed /\ UNCHANGED mishaps
              \/ mishaps > 0 /\ mishaps' = mishaps - 1
           /\ toServer' = << >>
           /\ Restarted
           /\ spoilt' = TRUE
           /\ UNCHANGED <<flash, toHost, host, faults>>

(* tftp_can_send_packet: a board's response, sent or not; a mishap but for *)
(* the last one of a session with a board.                                 *)
Expected(op) == srv.prop = "remote" /\ srv.rmt # NoHost /\ op \in {"OK", "ERROR"}

CanSendPacket(op) ==
    LET s == [srv EXCEPT !.idle = 0]
        opened == IF op = "OK" THEN [s EXCEPT !.rst = RstMax] ELSE s
    IN  /\ spoilt' = TRUE
        /\ \/ /\ SendTo(s, <<Reply(op, 0, 0)>>)
              /\ IF srv.prop = "remote" /\ op \in {"OK", "ERROR"}
                   THEN ClearState(Same, opened)
                   ELSE Ends(Same, s)
              /\ \/ Expected(op) /\ UNCHANGED mishaps
                 \/ ~Expected(op) /\ mishaps > 0 /\ mishaps' = mishaps - 1
           \/ /\ Leave(Same, s)
              /\ mishaps > 0 /\ mishaps' = mishaps - 1
        /\ UNCHANGED <<toServer, host>>

-----------------------------------------------------------------------------
(* External: the host downloads its file stop-and-wait, may read it back,  *)
(* and repeats a packet when nothing is on its way any more; a repetition  *)
(* before that is a mishap.  A repeated request, and a repeated last block *)
(* or one whose acknowledgement was lost, is answered with an error; the   *)
(* last block of a read is not sent again.                                 *)
HostPacket(op, b) == Packet(op, "self", Host, host.ver, b)
Sends(packet) == toServer' = Append(toServer, packet)
Uploading == host.pc \in {"wrq", "data", "sum"}
Reading == host.pc \in {"rrq", "read"}
Waiting == Uploading \/ Reading
Quiet == toServer = << >> /\ toHost = << >>
Short(data) == Len(data) < BlockPages
HostOnly == UNCHANGED <<flash, ram, srv, faults, stale>>

Current == CASE host.pc = "wrq"  -> HostPacket("WRQ", 0)
             [] host.pc = "data" -> HostPacket("DATA", host.blk)
             [] host.pc = "sum"  -> HostPacket("SUM", 0)
             [] host.pc = "rrq"  -> HostPacket("RRQ", 0)
             [] host.pc = "read" -> HostPacket("ACK", host.blk)

(* A download starts with the host's packets delivered or lost, and its    *)
(* socket empty.                                                           *)
HostStart ==
    /\ host.pc \in {"idle", "ok", "got"} /\ host.ver < Attempts
    /\ toServer = << >>
    /\ host' = [pc |-> "wrq", ver |-> host.ver + 1, blk |-> 0, tries |-> 0, got |-> << >>]
    /\ Sends(Packet("WRQ", "self", Host, host.ver + 1, 0))
    /\ toHost' = << >>
    /\ spoilt' = (srv.state # "idle" \/ srv.total # NoSum)
    /\ UNCHANGED mishaps /\ HostOnly

(* After an OK it may read the file.                                       *)
HostRead ==
    /\ host.pc = "ok" /\ Quiet
    /\ host' = [host EXCEPT !.pc = "rrq", !.blk = 0, !.tries = 0]
    /\ Sends(HostPacket("RRQ", 0))
    /\ UNCHANGED <<toHost, mishaps, spoilt>> /\ HostOnly

HostNext(h) ==
    host' = h /\ UNCHANGED <<mishaps, spoilt>> /\ HostOnly

HostReceive ==
    /\ toHost # << >>
    /\ toHost' = Tail(toHost)
    /\ LET r == Head(toHost)
           moves == [host EXCEPT !.tries = 0]
           acked == /\ r.op = "ACK"
                    /\ \/ host.pc = "wrq" /\ r.num = 0
                       \/ host.pc = "data" /\ r.num = host.blk % BlockMod
       IN  IF Waiting /\ r.op = "ERROR"
             THEN HostNext([moves EXCEPT !.pc = "idle"]) /\ UNCHANGED toServer
           ELSE IF host.pc = "sum" /\ r.op = "OK"
             THEN HostNext([moves EXCEPT !.pc = "ok"]) /\ UNCHANGED toServer
           ELSE IF host.pc = "rrq" /\ r.op = "FIF"
             THEN /\ HostNext([moves EXCEPT !.pc = "read"])
                  /\ Sends(HostPacket("ACK", 0))
           ELSE IF host.pc = "read" /\ r.op = "DATA" /\ r.num = host.blk + 1
             THEN /\ HostNext([moves EXCEPT !.pc = IF Short(r.data) THEN "got" ELSE "read",
                                            !.blk = @ + 1, !.got = @ \o r.data])
                  /\ Sends(HostPacket("ACK", host.blk + 1))
           ELSE IF acked /\ host.blk < Blocks
             THEN /\ HostNext([moves EXCEPT !.pc = "data", !.blk = @ + 1])
                  /\ Sends(HostPacket("DATA", host.blk + 1))
           ELSE IF acked
             THEN HostNext([moves EXCEPT !.pc = "sum"]) /\ Sends(HostPacket("SUM", 0))
           ELSE HostNext(host) /\ UNCHANGED toServer

HostRepeat ==
    /\ Waiting /\ host.tries < Retries
    /\ host' = [host EXCEPT !.tries = @ + 1]
    /\ Sends(Current)
    /\ \/ Quiet /\ UNCHANGED <<mishaps, spoilt>>
       \/ /\ ~Quiet /\ mishaps > 0 /\ mishaps' = mishaps - 1
          /\ spoilt' = (spoilt \/ Current.op \in {"WRQ", "RRQ"}
                              \/ Current = HostPacket("DATA", Blocks))
    /\ UNCHANGED toHost /\ HostOnly

(* It gives up after its retries, or is stopped by its user.               *)
HostGiveUp ==
    /\ Waiting /\ Quiet
    /\ \/ host.tries = Retries /\ UNCHANGED <<mishaps, spoilt>>
       \/ mishaps > 0 /\ mishaps' = mishaps - 1 /\ spoilt' = TRUE
    /\ host' = [host EXCEPT !.pc = "idle"]
    /\ Sends(HostPacket("STOP", 0)) \/ UNCHANGED toServer
    /\ UNCHANGED toHost /\ HostOnly

(* After a download it may restart the device.                             *)
HostReset ==
    /\ host.pc \in {"ok", "got"}
    /\ host' = [host EXCEPT !.pc = "idle"]
    /\ Sends(HostPacket("RST", 0))
    /\ UNCHANGED <<toHost, mishaps, spoilt>> /\ HostOnly

(* The network loses a packet.                                             *)
Fragile(r) == \/ r.op = "ACK" /\ (host.pc = "wrq" \/ host.blk = Blocks)
              \/ r.op = "FIF"
              \/ r.op = "DATA" /\ Short(r.data)

Lose ==
    /\ mishaps > 0 /\ mishaps' = mishaps - 1
    /\ \/ /\ toServer # << >> /\ toServer' = Tail(toServer)
          /\ UNCHANGED <<toHost, spoilt>>
       \/ /\ toHost # << >> /\ toHost' = Tail(toHost)
          /\ spoilt' = (spoilt \/ Fragile(Head(toHost)))
          /\ UNCHANGED toServer
    /\ UNCHANGED host /\ HostOnly

(* The other tool sends a packet on its own.                               *)
ToolPackets ==
    {Packet(op, d, Tool, ToolVersion, 0) :
       op \in {"RRQ", "WRQ", "LCK", "DIFF", "RST", "ACK"}, d \in {"self", "board"}}
    \cup {Packet(op, "self", Tool, ToolVersion, 0) : op \in {"SUM", "STOP"}}
    \cup {Packet("DATA", "self", Tool, ToolVersion, 1),
          Packet("REQ", "board", Tool, ToolVersion, 0)}

ToolSends ==
    /\ mishaps > 0 /\ mishaps' = mishaps - 1
    /\ \E p \in ToolPackets : Sends(p)
    /\ spoilt' = TRUE
    /\ UNCHANGED <<toHost, host>> /\ HostOnly

-----------------------------------------------------------------------------
Moves == Receive \/ Tick \/ HostReceive \/ HostRepeat \/ HostGiveUp

Next == \/ Moves \/ Restart
        \/ \E op \in {"OK", "ERROR", "ACK"} : CanSendPacket(op)
        \/ HostStart \/ HostRead \/ HostReset \/ Lose \/ ToolSends

Spec == Init /\ [][Next]_vars

(* The device takes its packets and its ticks, and a host that waits takes *)
(* its replies, repeats and gives up.                                      *)
FairSpec == Spec /\ WF_vars(Moves)

-----------------------------------------------------------------------------
Versions == 0..Attempts \cup {ToolVersion}
PageValues == {PageOf(v, i) : v \in Versions, i \in Pages}
Sessions == [state : {"idle", "wrq", "rrq"}, block : Nat, rlov : Nat,
             rmt : {NoHost, Host, Tool}, dst : {"none", "self", "board"},
             prop : {"none", "local", "remote"}, held : BOOLEAN, size : Nat,
             offset : Nat, total : Seq(PageValues), okSum : Seq(PageValues),
             idle : 0..IdleMax-1, rst : 0..RstMax, stopFeed : BOOLEAN]

(* Every variable keeps its type.  (The code does not bound the blocks of  *)
(* a session or the pages of a file, and neither do the types.)            *)
TypeOK ==
    /\ flash \in Flashes(PageValues)
    /\ ram \in Rams(PageValues)
    /\ srv \in Sessions
    /\ mishaps \in 0..Mishaps /\ faults \in 0..Faults
    /\ spoilt \in BOOLEAN /\ stale \in BOOLEAN

(* While a file is written, its checksum so far is that of the pages that  *)
(* are in flash, and of those that failed (file_write and file_close add a *)
(* page to the checksum before they write it).                             *)
SumCoversFlash ==
    ram.flag = "write" =>
      /\ Len(ram.checksum) >= ram.size
      /\ \A p \in Pages : p < ram.size => flash.pages[p] = ram.checksum[p + 1]

(* What file_system.c tells its readers: equal checksums in the info mean  *)
(* that the pages of the file are those the checksum was taken over.  Not  *)
(* while a file is written, and not when the info is one the device was    *)
(* kept from replacing, until it is written again.                         *)
InfoTruthful ==
    (~stale /\ ram.flag # "write" /\ InfoValid(flash.info)) =>
      \A p \in Pages : p < flash.info.size => flash.pages[p] = flash.info.sum[p + 1]

(* The same without the conditions on restarts.                            *)
InfoAlwaysTruthful ==
    (ram.flag # "write" /\ InfoValid(flash.info)) =>
      \A p \in Pages : p < flash.info.size => flash.pages[p] = flash.info.sum[p + 1]

(* A host that is told OK has its file in flash, page by page, also when   *)
(* the OK is repeated, and an info that can be read, and is not an old one *)
(* that was neither erased nor written, is the one of its file.            *)
Stored(f, v, old) ==
    /\ \A p \in 0..Length-1 : f.pages[p] = PageOf(v, p)
    /\ Readable(f.info) /\ ~old => f.info = FileInfo(v)

OkMeansStored ==
    [][\A v \in 1..Attempts :
         (Len(toHost') > Len(toHost) /\ Last(toHost') = Reply("OK", v, 0))
           => Stored(flash', v, stale')]_vars

(* A file that was downloaded and is read back to its end is the same,     *)
(* page by page, whatever packets of either were lost or repeated.         *)
RoundTrip ==
    [][host'.pc = "got" /\ ~spoilt' => host'.got = FileSum(host.ver)]_vars

(* The device lets the watchdog reset it only when no download holds a     *)
(* file open: the window a finished download opens is closed by the next.  *)
RestartIsSafe == [][srv'.stopFeed /\ ~srv.stopFeed => ~srv.held]_vars

(* A session that is open ends, whatever the host does.                    *)
Released == (srv.state # "idle") ~> (srv.state = "idle")

(* A download succeeds whatever packets are lost or repeated, but for      *)
(* those the server does not tell from new ones.                           *)
UploadSucceeds == (Uploading /\ ~spoilt) ~> (host.pc = "ok" \/ spoilt)
(* A file that is read comes to its end, but for the loss of a packet the  *)
(* server does not send twice: the answer to the request and the last block.*)
ReadSucceeds == (Reading /\ ~spoilt) ~> (host.pc = "got" \/ spoilt)
==============================================================================
