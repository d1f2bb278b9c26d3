--------------------------- MODULE Upload_proofs -----------------------------
(***************************************************************************)
(* Three invariants of downloads.                                          *)
(*                                                                         *)
(* That the device is never restarted under one: the restart window is     *)
(* opened only when a download has just been closed or abandoned, and      *)
(* every way to open a file closes the window first, so while the window   *)
(* is open no download holds a file.  What the flash holds does not matter *)
(* for this.                                                               *)
(*                                                                         *)
(* That what is in flash is what the server says: between the server's     *)
(* session, the file being written, the info in flash and the packets      *)
(* under way there is one relation, which no packet, timeout, restart or   *)
(* failed flash operation breaks.  The calls of the file system are known  *)
(* from FileSystem_proofs only.                                            *)
(*                                                                         *)
(* That what a host reads back is what it sent: from the OK on no packet   *)
(* of that host that may still be under way makes the server write a file, *)
(* so every block that is sent is a piece of the file, whether it is sent  *)
(* once or again, and the host appends each piece once and in order.       *)
(***************************************************************************)
EXTENDS Upload, FileSystem_proofs, TLAPS

SessionFields == {"state", "block", "rlov", "rmt", "dst", "prop", "held", "size",
                  "offset", "total", "okSum", "idle", "rst", "stopFeed"}

Session(s) == /\ DOMAIN s = SessionFields
              /\ s.rst \in Nat
              /\ s.held \in BOOLEAN /\ s.stopFeed \in BOOLEAN

WindowClosed(s) == s.rst > 0 => ~s.held

(* The inductive invariant.                                                *)
IInv == Session(srv) /\ WindowClosed(srv)

(* A step is safe when it keeps the invariant and lets the watchdog go     *)
(* only without a file.                                                    *)
Safe(s, t) == /\ Session(t) /\ WindowClosed(t)
              /\ t.stopFeed /\ ~s.stopFeed => ~s.held

(* A device that starts again has closed its window.                       *)
LEMMA BootClosed == Session(Boot) /\ WindowClosed(Boot) /\ ~Boot.stopFeed
  BY DEF Boot, Session, SessionFields, WindowClosed

(* tftp_init closes the window, tftp_clear_state drops the file.           *)
LEMMA InitClosed ==
    ASSUME NEW s, Session(s)
    PROVE /\ Session(TftpInit(s)) /\ TftpInit(s).rst = 0
          /\ TftpInit(s).held = s.held /\ TftpInit(s).stopFeed = s.stopFeed
  BY DEF TftpInit, Session, SessionFields

LEMMA ClearedReleased ==
    ASSUME NEW s, Session(s)
    PROVE /\ Session(Cleared(s)) /\ Cleared(s).held = FALSE
          /\ Cleared(s).stopFeed = s.stopFeed
  BY DEF Cleared, Session, SessionFields

(* However a handler ends, the session is the one it made, a cleared one,  *)
(* or the one after power on.                                              *)
LEMMA EndsSession ==
    ASSUME NEW o, NEW s, Ends(o, s) PROVE srv' \in {s, Boot}
  BY DEF Ends, Restarted

LEMMA ClearSession ==
    ASSUME NEW o, NEW s, ClearState(o, s) PROVE srv' \in {Cleared(s), Boot}
  BY DEF ClearState, Ends, Restarted

LEMMA LeaveSession ==
    ASSUME NEW o, NEW s, Leave(o, s) PROVE srv' \in {s, Boot}
  BY EndsSession DEF Leave

LEMMA AnswerSession ==
    ASSUME NEW o, NEW s, NEW r, Answer(o, s, r) PROVE srv' \in {s, Boot}
  BY EndsSession DEF Answer, Leave

LEMMA ErrorsSession ==
    ASSUME NEW o, NEW s, NEW n, ErrorsDone(o, s, n)
    PROVE srv' \in {s, Cleared(s), Boot}
  BY EndsSession, ClearSession DEF ErrorsDone, Leave

LEMMA ErrorSession ==
    ASSUME NEW o, NEW s, ErrorDone(o, s) PROVE srv' \in {s, Cleared(s), Boot}
  BY ErrorsSession DEF ErrorDone

LEMMA RelaySession ==
    ASSUME NEW s, Relay(s) PROVE srv' \in {s, Cleared(s), Boot}
  BY LeaveSession, ErrorSession DEF Relay

(* So it is enough to look at the session a handler makes.                 *)
LEMMA MadeIsSafe ==
    ASSUME NEW s, NEW t, NEW u, Safe(s, t), u \in {t, Cleared(t), Boot}
    PROVE  Safe(s, u)
  <1>1. CASE u = t
    BY <1>1
  <1>2. CASE u = Cleared(t)
    BY <1>2, ClearedReleased DEF Safe, WindowClosed
  <1>3. CASE u = Boot
    BY <1>3, BootClosed DEF Safe
  <1>4. QED
    BY <1>1, <1>2, <1>3

-----------------------------------------------------------------------------
(* The handlers.                                                           *)
LEMMA BusySafe ==
    ASSUME IInv, NEW p, RejectBusy(p) PROVE Safe(srv, srv')
  <1> DEFINE s == [srv EXCEPT !.idle = 0]
  <1>1. Safe(srv, s)
    BY DEF IInv, Session, SessionFields, WindowClosed, Safe
  <1>2. srv' \in {s, Boot}
    BY EndsSession DEF RejectBusy
  <1>3. QED
    BY <1>1, <1>2, MadeIsSafe

LEMMA FromInit ==
    ASSUME NEW s, NEW p, Session(s)
    PROVE  LET t == From(TftpInit(s), p)
           IN  Session(t) /\ t.rst = 0 /\ t.held = s.held /\ t.stopFeed = s.stopFeed
  BY InitClosed DEF From, Session, SessionFields

LEMMA WrqLocalSafe ==
    ASSUME IInv, NEW p, RecvWrqLocal(p) PROVE Safe(srv, srv')
  <1> DEFINE s == From(TftpInit(srv), p)
             failed == [s EXCEPT !.held = FALSE]
             opened == [s EXCEPT !.state = "wrq", !.prop = "local", !.held = TRUE]
  <1>1. Session(s) /\ s.rst = 0 /\ s.stopFeed = srv.stopFeed
    BY FromInit DEF IInv
  <1>2. Safe(srv, failed)
    BY <1>1 DEF Session, SessionFields, WindowClosed, Safe
  <1>3. Safe(srv, opened)
    BY <1>1 DEF Session, SessionFields, WindowClosed, Safe
  <1>4. PICK o \in file_open(flash, ram, "write", faults) :
          IF o.ret < 0 THEN ErrorsDone(o, failed, 2)
                       ELSE Answer(o, opened, Reply("ACK", 0, 0))
    BY DEF RecvWrqLocal
  <1>5. CASE o.ret < 0
    BY <1>2, <1>4, <1>5, ErrorsSession, MadeIsSafe
  <1>6. CASE ~(o.ret < 0)
    <2>1. srv' \in {opened, Boot}
      BY <1>4, <1>6, AnswerSession
    <2>2. QED
      BY <1>3, <2>1, MadeIsSafe
  <1>7. QED
    BY <1>5, <1>6

LEMMA WrqRemoteSafe ==
    ASSUME IInv, NEW p, RecvWrqRemote(p) PROVE Safe(srv, srv')
  <1> DEFINE s == [From(TftpInit(srv), p) EXCEPT !.prop = "remote"]
             begun == [s EXCEPT !.state = "wrq"]
  <1>1. Safe(srv, s) /\ Safe(srv, begun)
    BY FromInit DEF IInv, Session, SessionFields, WindowClosed, Safe
  <1>2. srv' \in {begun, Boot} \/ srv' \in {s, Cleared(s), Boot}
    BY LeaveSession, ErrorSession DEF RecvWrqRemote
  <1>3. QED
    BY <1>1, <1>2, MadeIsSafe

LEMMA RrqLocalSafe ==
    ASSUME IInv, NEW p, RecvRrqLocal(p) PROVE Safe(srv, srv')
  <1> DEFINE s == [From(TftpInit(srv), p) EXCEPT !.prop = "local"]
             failed == [s EXCEPT !.held = FALSE]
             opened(n) == [s EXCEPT !.state = "rrq", !.held = TRUE, !.size = n]
  <1>1. Session(s) /\ s.rst = 0 /\ s.stopFeed = srv.stopFeed
    BY FromInit DEF IInv, Session, SessionFields
  <1>2. Safe(srv, failed)
    BY <1>1 DEF Session, SessionFields, WindowClosed, Safe
  <1>3. \A n : Safe(srv, opened(n))
    BY <1>1 DEF Session, SessionFields, WindowClosed, Safe
  <1>4. (\E o : ErrorDone(o, failed)) \/ \E i, n : Answer(i, opened(n), Reply("FIF", 0, 0))
    <2>1. PICK o \in file_open(flash, ram, "read", faults) :
            IF o.off \/ o.ret < 0
              THEN ErrorDone(o, failed)
              ELSE \E i \in file_info_read(o.flash, o.ram, o.faults) :
                     IF i.off \/ i.ret = 0
                       THEN \E c \in IF i.off THEN {i}
                                     ELSE file_close(i.flash, i.ram, NoSum, i.faults) :
                              ErrorDone(c, failed)
                       ELSE Answer(i, opened(i.flash.info.size), Reply("FIF", 0, 0))
      BY DEF RecvRrqLocal
    <2>2. QED
      BY <2>1, Zenon
  <1>5. CASE \E o : ErrorDone(o, failed)
    BY <1>2, <1>5, ErrorSession, MadeIsSafe
  <1>6. ASSUME NEW i, NEW n, Answer(i, opened(n), Reply("FIF", 0, 0))
        PROVE  Safe(srv, srv')
    <2>1. srv' \in {opened(n), Boot}
      BY <1>6, AnswerSession
    <2>2. QED
      BY <1>3, <2>1, MadeIsSafe
  <1>7. QED
    BY <1>4, <1>5, <1>6

LEMMA RrqRemoteSafe ==
    ASSUME IInv, NEW p, RecvRrqRemote(p) PROVE Safe(srv, srv')
  <1> DEFINE s == [From(TftpInit(srv), p) EXCEPT !.prop = "remote"]
  <1>1. Safe(srv, s)
    BY FromInit DEF IInv, Session, SessionFields, WindowClosed, Safe
  <1>2. QED
    BY <1>1, RelaySession, MadeIsSafe DEF RecvRrqRemote

(* Within a session a block changes neither the window nor the file.       *)
Kept(s, t) == Session(t) /\ t.rst = s.rst /\ t.held = s.held /\ t.stopFeed = s.stopFeed

LEMMA KeptIsSafe ==
    ASSUME NEW s, NEW t, Session(s), WindowClosed(s), Kept(s, t) PROVE Safe(s, t)
  BY DEF Kept, Safe, WindowClosed

LEMMA BlockKept ==
    ASSUME NEW s, NEW p, Session(s)
    PROVE  Kept(s, StoredBlock(s, p)) /\ Kept(s, FinishTransfer(StoredBlock(s, p)))
  <1>1. Kept(s, StoredBlock(s, p))
    BY DEF StoredBlock, Kept, Session, SessionFields
  <1>2. QED
    BY <1>1 DEF FinishTransfer, Kept, Session, SessionFields

LEMMA NextBlockSafe ==
    ASSUME IInv, NEW s, NEW p, Kept(srv, s), NextBlock(s, p) PROVE Safe(srv, srv')
  <1> DEFINE after == IF p.blk = Blocks THEN FinishTransfer(StoredBlock(s, p))
                                        ELSE StoredBlock(s, p)
  <1>1. Safe(srv, s) /\ Safe(srv, after)
    <2>1. Kept(srv, StoredBlock(s, p)) /\ Kept(srv, FinishTransfer(StoredBlock(s, p)))
      BY BlockKept DEF Kept
    <2>2. QED
      BY <2>1, KeptIsSafe DEF IInv
  <1>2. CASE s.prop = "local" /\ \E o \in WriteBlock(s, p) :
               IF o.ret < 0 THEN ErrorDone(o, s)
                            ELSE Answer(o, after, Reply("ACK", 0, Wire(p)))
    <2>1. PICK o \in WriteBlock(s, p) :
            IF o.ret < 0 THEN ErrorDone(o, s)
                         ELSE Answer(o, after, Reply("ACK", 0, Wire(p)))
      BY <1>2
    <2>2. srv' \in {s, Cleared(s), Boot} \/ srv' \in {after, Boot}
      BY <2>1, ErrorSession, AnswerSession
    <2>3. QED
      BY <1>1, <2>2, MadeIsSafe
  <1>3. CASE Relay(s) \/ ErrorDone(Same, s)
    BY <1>1, <1>3, RelaySession, ErrorSession, MadeIsSafe
  <1>4. QED
    BY <1>2, <1>3 DEF NextBlock

LEMMA SameBlockSafe ==
    ASSUME IInv, NEW s, NEW p, Kept(srv, s), SameBlock(s, p) PROVE Safe(srv, srv')
  <1>1. Safe(srv, s)
    BY KeptIsSafe DEF IInv
  <1>2. srv' \in {s, Cleared(s), Boot}
    <2>1. CASE Answer(Same, s, Reply("ACK", 0, Wire(p)))
      BY <2>1, AnswerSession
    <2>2. CASE Relay(s)
      BY <2>2, RelaySession
    <2>3. CASE Leave(Same, s)
      BY <2>3, LeaveSession
    <2>4. QED
      BY <2>1, <2>2, <2>3 DEF SameBlock
  <1>3. QED
    BY <1>1, <1>2, MadeIsSafe

LEMMA DataSafe ==
    ASSUME IInv, NEW p, RecvData(p) PROVE Safe(srv, srv')
  <1> DEFINE now == [srv EXCEPT !.idle = 0]
             s == Expanded(now, Wire(p))
             b == ExpandBlock(s, Wire(p))
             t == [s EXCEPT !.block = b]
  <1>1. Kept(srv, now)
    BY DEF IInv, Kept, Session, SessionFields
  <1>2. Kept(srv, s)
    BY <1>1 DEF Expanded, Kept, Session, SessionFields
  <1>3. Kept(srv, t)
    BY <1>2 DEF Kept, Session, SessionFields
  <1>4. Safe(srv, TftpInit(now))
    <2>1. Session(now) /\ now.stopFeed = srv.stopFeed
      BY <1>1 DEF Kept
    <2>2. /\ Session(TftpInit(now)) /\ TftpInit(now).rst = 0
          /\ TftpInit(now).stopFeed = now.stopFeed
      BY <2>1, InitClosed
    <2>3. QED
      BY <2>1, <2>2 DEF Safe, WindowClosed
  <1>5. \/ ErrorDone(Same, TftpInit(now)) \/ ErrorDone(Same, now) \/ ErrorDone(Same, s)
        \/ NextBlock(t, p) \/ SameBlock(s, p)
    BY DEF RecvData
  <1>6. CASE ErrorDone(Same, TftpInit(now)) \/ ErrorDone(Same, now) \/ ErrorDone(Same, s)
    <2>1. Safe(srv, now) /\ Safe(srv, s)
      BY <1>1, <1>2, KeptIsSafe DEF IInv
    <2>2. QED
      BY <1>4, <1>6, <2>1, ErrorSession, MadeIsSafe
  <1>7. QED
    BY <1>2, <1>3, <1>5, <1>6, NextBlockSafe, SameBlockSafe

LEMMA SumSafe ==
    ASSUME IInv, UploadAssumption, NEW p, RecvSum(p) PROVE Safe(srv, srv')
  <1> DEFINE s == [srv EXCEPT !.rmt = p.src, !.idle = 0]
             dropped == [s EXCEPT !.held = FALSE]
             done == Completed(s, p)
             open == [Completed(s, p) EXCEPT !.rst = RstMax]
  <1>1. Kept(srv, s) /\ Safe(srv, s)
    <2>1. Kept(srv, s)
      BY DEF IInv, Kept, Session, SessionFields
    <2>2. QED
      BY <2>1, KeptIsSafe DEF IInv
  <1>2. Safe(srv, dropped)
    BY <1>1 DEF Safe, Kept, Session, SessionFields, WindowClosed
  <1>3. Safe(srv, done) /\ Safe(srv, open)
    <2>1. Session(done) /\ done.held = FALSE /\ done.stopFeed = srv.stopFeed
      BY <1>1 DEF Completed, Kept, Session, SessionFields
    <2>2. Session(open) /\ open.held = FALSE /\ open.stopFeed = srv.stopFeed
      BY <2>1 DEF UploadAssumption, Session, SessionFields
    <2>3. QED
      BY <2>1, <2>2 DEF Safe, WindowClosed
  <1>4. CASE Answer(Same, s, Reply("OK", p.ver, 0))
    <2>1. srv' \in {s, Boot}
      BY <1>4, AnswerSession
    <2>2. QED
      BY <1>1, <2>1, MadeIsSafe
  <1>5. CASE SumMatches(s, p)
    <2>1. PICK o \in CloseFile(s, FileSum(p.ver)) :
            \/ ErrorDone(o, s) \/ Leave(o, done) \/ Answer(o, open, Reply("OK", p.ver, 0))
      BY <1>5 DEF SumMatches
    <2>2. \/ srv' \in {s, Cleared(s), Boot} \/ srv' \in {done, Boot} \/ srv' \in {open, Boot}
      BY <2>1, ErrorSession, LeaveSession, AnswerSession
    <2>3. QED
      BY <1>1, <1>3, <2>2, MadeIsSafe
  <1>6. CASE SumDiffers(s)
    <2>1. PICK o \in CloseFile(s, NoSum) : ErrorDone(o, dropped)
      BY <1>6 DEF SumDiffers
    <2>2. QED
      BY <1>2, <2>1, ErrorSession, MadeIsSafe
  <1>7. CASE Relay(s) \/ ErrorDone(Same, s)
    BY <1>1, <1>7, RelaySession, ErrorSession, MadeIsSafe
  <1>8. QED
    BY <1>4, <1>5, <1>6, <1>7 DEF RecvSum

LEMMA StopSafe ==
    ASSUME IInv, NEW p, RecvStop(p) PROVE Safe(srv, srv')
  <1>1. Kept(srv, From(srv, p))
    BY DEF From, IInv, Kept, Session, SessionFields
  <1>2. srv' \in {Cleared(From(srv, p)), Boot}
    BY ClearSession DEF RecvStop
  <1>3. QED
    BY <1>1, <1>2, KeptIsSafe, MadeIsSafe DEF IInv

(* The one handler that lets the watchdog go: the window is open, so that  *)
(* no file is held.                                                        *)
LEMMA RstSafe ==
    ASSUME IInv, NEW p, RecvRst(p) PROVE Safe(srv, srv')
  <1> DEFINE s == [From(srv, p) EXCEPT !.idle = 0]
             stopped == [s EXCEPT !.stopFeed = TRUE, !.rst = 0]
  <1>1. Kept(srv, s) /\ Safe(srv, s)
    <2>1. Kept(srv, From(srv, p))
      BY DEF From, IInv, Kept, Session, SessionFields
    <2>2. Kept(srv, s)
      BY <2>1 DEF Kept, Session, SessionFields
    <2>3. QED
      BY <2>2, KeptIsSafe DEF IInv
  <1>2. s.rst > 0 => Safe(srv, stopped)
    BY <1>1 DEF IInv, Safe, Kept, Session, SessionFields, WindowClosed
  <1>3. CASE Leave(Same, IF s.rst > 0 THEN stopped ELSE s)
    <2>1. srv' \in {IF s.rst > 0 THEN stopped ELSE s, Boot}
      BY <1>3, LeaveSession
    <2>2. QED
      BY <1>1, <1>2, <2>1, MadeIsSafe
  <1>4. CASE Relay(s)
    BY <1>1, <1>4, RelaySession, MadeIsSafe
  <1>5. QED
    BY <1>3, <1>4 DEF RecvRst

LEMMA QuerySafe ==
    ASSUME IInv, NEW p, RecvLck(p) \/ RecvReq(p) \/ RecvDiff(p) PROVE Safe(srv, srv')
  <1> DEFINE s == From(TftpInit(srv), p)
             here == [s EXCEPT !.prop = "local"]
             board == [s EXCEPT !.prop = "remote"]
  <1>1. Safe(srv, here) /\ Safe(srv, board)
    BY FromInit DEF IInv, Session, SessionFields, WindowClosed, Safe
  <1>2. (\E c : Leave(c, here)) \/ Leave(Same, board) \/ Relay(board)
    BY DEF RecvLck, RecvReq, RecvDiff
  <1>3. CASE \E c : Leave(c, here)
    <2>1. srv' \in {here, Boot}
      BY <1>3, LeaveSession
    <2>2. QED
      BY <1>1, <2>1, MadeIsSafe
  <1>4. CASE Leave(Same, board) \/ Relay(board)
    <2>1. srv' \in {board, Cleared(board), Boot}
      BY <1>4, LeaveSession, RelaySession
    <2>2. QED
      BY <1>1, <2>1, MadeIsSafe
  <1>5. QED
    BY <1>2, <1>3, <1>4

(* A block that is sent leaves the session, or releases the file.          *)
LEMMA SendDataSafe ==
    ASSUME IInv, NEW s, NEW n, Kept(srv, s), SendData(s, n) PROVE Safe(srv, srv')
  <1> DEFINE sent == [s EXCEPT !.held = FALSE, !.state = "idle"]
  <1>1. Safe(srv, s)
    BY KeptIsSafe DEF IInv
  <1>2. Safe(srv, sent)
    BY <1>1 DEF Kept, Session, SessionFields, WindowClosed, Safe
  <1>3. srv' \in {s, Boot} \/ srv' \in {sent, Boot}
    <2>1. \/ \E o : Leave(o, s)
          \/ \E o, r : Answer(o, s, r)
          \/ \E c, r : Answer(c, IF c.ret < 0 THEN s ELSE sent, r)
      BY Zenon DEF SendData
    <2>2. QED
      BY <2>1, LeaveSession, AnswerSession
  <1>4. QED
    BY <1>1, <1>2, <1>3, MadeIsSafe

LEMMA AckSafe ==
    ASSUME IInv, NEW p, RecvAck(p) PROVE Safe(srv, srv')
  <1> DEFINE s == [srv EXCEPT !.rmt = p.src, !.idle = 0]
             here == [s EXCEPT !.prop = "local"]
             board == [s EXCEPT !.prop = "remote"]
  <1>1. Kept(srv, s) /\ Kept(srv, here) /\ Kept(srv, board)
    <2>1. Kept(srv, s)
      BY DEF IInv, Kept, Session, SessionFields
    <2>2. QED
      BY <2>1 DEF Kept, Session, SessionFields
  <1>2. Safe(srv, s) /\ Safe(srv, board)
    BY <1>1, KeptIsSafe DEF IInv
  <1>3. CASE SendData(here, p.blk + 1)
    BY <1>1, <1>3, SendDataSafe
  <1>4. CASE Leave(Same, s) \/ Relay(board)
    <2>1. srv' \in {s, Boot} \/ srv' \in {board, Cleared(board), Boot}
      BY <1>4, LeaveSession, RelaySession
    <2>2. QED
      BY <1>2, <2>1, MadeIsSafe
  <1>5. QED
    BY <1>3, <1>4 DEF RecvAck

LEMMA ReceiveSafe ==
    ASSUME IInv, UploadAssumption, Receive PROVE Safe(srv, srv')
  <1> DEFINE p == Head(toServer)
  <1>1. \/ RejectBusy(p) \/ RecvWrqLocal(p) \/ RecvWrqRemote(p) \/ RecvData(p)
        \/ RecvSum(p) \/ RecvStop(p) \/ RecvRst(p) \/ RecvLck(p) \/ RecvReq(p)
        \/ RecvDiff(p) \/ RecvAck(p) \/ RecvRrqLocal(p) \/ RecvRrqRemote(p)
    BY DEF Receive, Handle
  <1>2. QED
    BY <1>1, BusySafe, WrqLocalSafe, WrqRemoteSafe, DataSafe, SumSafe, StopSafe,
       RstSafe, QuerySafe, AckSafe, RrqLocalSafe, RrqRemoteSafe

-----------------------------------------------------------------------------
(* The other actions of the device.                                        *)
LEMMA TickSafe == ASSUME IInv, Tick PROVE Safe(srv, srv')
  <1> DEFINE s == Older(srv)
  <1>1. /\ Session(s) /\ s.held = srv.held /\ s.stopFeed = srv.stopFeed
        /\ s.rst > 0 => srv.rst > 0
    BY DEF Older, IInv, Session, SessionFields
  <1>2. Safe(srv, s)
    BY <1>1 DEF IInv, Safe, WindowClosed
  <1>3. srv' \in {s, Cleared(s), Boot}
    <2>1. Ends(Same, s) \/ ClearState(Same, s)
      BY DEF Tick
    <2>2. QED
      BY <2>1, EndsSession, ClearSession
  <1>4. QED
    BY <1>2, <1>3, MadeIsSafe

(* A board's OK opens the window and drops the file.                       *)
LEMMA CanSafe ==
    ASSUME IInv, UploadAssumption, NEW op, CanSendPacket(op) PROVE Safe(srv, srv')
  <1> DEFINE s == [srv EXCEPT !.idle = 0]
             opened == IF op = "OK" THEN [s EXCEPT !.rst = RstMax] ELSE s
  <1>1. Kept(srv, s) /\ Safe(srv, s)
    <2>1. Kept(srv, s)
      BY DEF IInv, Kept, Session, SessionFields
    <2>2. QED
      BY <2>1, KeptIsSafe DEF IInv
  <1>2. Session(opened) /\ opened.stopFeed = srv.stopFeed
    BY <1>1 DEF UploadAssumption, Kept, Session, SessionFields
  <1>3. Safe(srv, Cleared(opened))
    BY <1>2, ClearedReleased DEF Safe, WindowClosed
  <1>4. srv' \in {s, Boot} \/ srv' \in {Cleared(opened), Boot}
    <2>1. Leave(Same, s) \/ Ends(Same, s) \/ ClearState(Same, opened)
      BY DEF CanSendPacket
    <2>2. QED
      BY <2>1, LeaveSession, EndsSession, ClearSession
  <1>5. QED
    BY <1>1, <1>3, <1>4, MadeIsSafe

LEMMA NextSafe == ASSUME IInv, UploadAssumption, [Next]_vars PROVE Safe(srv, srv')
  <1>1. CASE Receive
    BY <1>1, ReceiveSafe
  <1>2. CASE Tick
    BY <1>2, TickSafe
  <1>3. CASE \E op \in {"OK", "ERROR", "ACK"} : CanSendPacket(op)
    BY <1>3, CanSafe
  <1>4. CASE Restart
    BY <1>4, BootClosed DEF Restart, Restarted, Safe
  <1>5. CASE srv' = srv
    BY <1>5 DEF IInv, Safe
  <1>6. HostOnly => srv' = srv
    BY DEF HostOnly
  <1>7. HostReceive => srv' = srv
    BY <1>6 DEF HostReceive, HostNext
  <1>8. HostRepeat \/ HostGiveUp \/ HostStart \/ HostRead \/ HostReset \/ Lose
        \/ ToolSends => srv' = srv
    BY <1>6 DEF HostRepeat, HostGiveUp, HostStart, HostRead, HostReset, Lose, ToolSends
  <1>9. vars' = vars => srv' = srv
    BY DEF vars
  <1>10. QED
    BY <1>1, <1>2, <1>3, <1>4, <1>5, <1>7, <1>8, <1>9 DEF Next, Moves

-----------------------------------------------------------------------------
(* While the restart window of the server is open no download holds a      *)
(* file.                                                                   *)
THEOREM WindowInvariant == Spec => []IInv
  <1>1. Init => IInv
    BY BootClosed DEF Init, IInv
  <1>2. IInv /\ [Next]_vars => IInv'
    BY NextSafe, UploadAssumption DEF Safe, IInv, Session, WindowClosed
  <1>3. QED
    BY <1>1, <1>2, PTL DEF Spec

(* The device lets the watchdog reset it only when no download holds a     *)
(* file open, whatever packets come in whatever order.                     *)
THEOREM NeverRestartedUnderDownload == Spec => RestartIsSafe
  <1>1. IInv /\ [Next]_vars => [srv'.stopFeed /\ ~srv.stopFeed => ~srv.held]_vars
    BY NextSafe, UploadAssumption DEF Safe
  <1>2. QED
    BY <1>1, WindowInvariant, PTL DEF Spec, RestartIsSafe

-----------------------------------------------------------------------------
(* The files.                                                              *)
LEMMA Products ==
    ASSUME NEW a \in Nat, NEW b \in Nat, NEW c \in Nat
    PROVE  a * b \in Nat /\ (a < b => a * c + c <= b * c)
  <1>1. a * b \in Nat
    OBVIOUS
  <1>2. ASSUME a < b PROVE a * c + c <= b * c
    <2>1. b - a - 1 \in Nat
      BY <1>2
    <2>2. (b - a - 1) * c \in Nat
      BY <2>1
    <2>3. (b - a - 1) * c = b * c - a * c - c
      OBVIOUS
    <2>4. a * c \in Int /\ b * c \in Int
      OBVIOUS
    <2>5. QED
      BY <2>2, <2>3, <2>4
  <1>3. QED
    BY <1>1, <1>2

LEMMA LengthIs == Length \in Nat /\ Length >= 1 /\ 0..Length-1 \subseteq Pages
  <1>1. /\ Blocks - 1 \in Nat /\ BlockPages \in Nat /\ FilePages \in Nat
        /\ FilePages >= (Blocks - 1) * BlockPages + 1
    BY UploadAssumption, FlashAssumption
  <1>2. (Blocks - 1) * BlockPages \in Nat
    BY <1>1, Products
  <1>3. QED
    BY <1>1, <1>2 DEF Length, Pages

LEMMA FileSumIs ==
    ASSUME NEW v \in Versions
    PROVE  /\ FileSum(v) \in Seq(PageValues) /\ Len(FileSum(v)) = Length
           /\ \A i \in 1..Length : FileSum(v)[i] = PageOf(v, i - 1)
           /\ FileSum(v) # NoSum /\ ~Twice(FileSum(v))
  <1>1. \A i \in 1..Length : i - 1 \in Pages
    BY LengthIs
  <1>2. \A i \in 1..Length : PageOf(v, i - 1) \in PageValues
    BY <1>1 DEF PageValues
  <1>3. /\ FileSum(v) \in Seq(PageValues) /\ Len(FileSum(v)) = Length
        /\ \A i \in 1..Length : FileSum(v)[i] = PageOf(v, i - 1)
    BY <1>2, LengthIs DEF FileSum
  <1>4. FileSum(v) # NoSum
    BY <1>3, LengthIs DEF NoSum
  <1>5. ~Twice(FileSum(v))
    <2>1. SUFFICES ASSUME Length >= 2 PROVE FileSum(v)[Length] # FileSum(v)[Length - 1]
      BY <1>3 DEF Twice
    <2>2. Length \in 1..Length /\ Length - 1 \in 1..Length
      BY <2>1, LengthIs
    <2>3. FileSum(v)[Length] = <<v, Length - 1>> /\ FileSum(v)[Length - 1] = <<v, Length - 1 - 1>>
      BY <1>3, <2>2 DEF PageOf
    <2>4. Length - 1 # Length - 1 - 1
      BY LengthIs
    <2>5. QED
      BY <2>3, <2>4
  <1>6. QED
    BY <1>3, <1>4, <1>5

LEMMA FilesDiffer ==
    ASSUME NEW v \in Versions, NEW w \in Versions, FileSum(v) = FileSum(w)
    PROVE  v = w
  <1>1. 1 \in 1..Length
    BY LengthIs
  <1>2. FileSum(v)[1] = <<v, 1 - 1>> /\ FileSum(w)[1] = <<w, 1 - 1>>
    BY <1>1, FileSumIs DEF PageOf
  <1>3. QED
    BY <1>2

LEMMA BlockIs ==
    ASSUME NEW v \in Versions, NEW b \in 1..Blocks
    PROVE  /\ BlockData(v, b) \in Seq(PageValues) /\ Len(BlockData(v, b)) \in Nat
           /\ BlockPart(v, b) \in PageValues \cup {NoPage}
           /\ b # Blocks => BlockPart(v, b) = NoPage
           /\ BlockSum(v, b) \in Seq(PageValues)
  <1>1. BlockData(v, b) \in Seq(PageValues)
    <2>1. CASE b = Blocks
      BY <2>1 DEF BlockData
    <2>2. CASE b # Blocks
      <3>1. /\ b - 1 \in Nat /\ Blocks - 1 \in Nat /\ b - 1 < Blocks - 1
            /\ BlockPages \in Nat
        BY <2>2, UploadAssumption
      <3>2. (b - 1) * BlockPages + BlockPages <= (Blocks - 1) * BlockPages
        BY <3>1, Products
      <3>3. (b - 1) * BlockPages \in Nat /\ (Blocks - 1) * BlockPages \in Nat
        BY <3>1, Products
      <3>4. \A i \in 1..BlockPages : (b - 1) * BlockPages + i - 1 \in 0..Length-1
        BY <3>1, <3>2, <3>3 DEF Length
      <3>5. \A i \in 1..BlockPages : PageOf(v, (b - 1) * BlockPages + i - 1) \in PageValues
        BY <3>4, LengthIs DEF PageValues
      <3>6. QED
        BY <2>2, <3>1, <3>5 DEF BlockData
    <2>3. QED
      BY <2>1, <2>2
  <1>2. BlockPart(v, b) \in PageValues \cup {NoPage} /\ (b = Blocks => BlockPart(v, b) \in PageValues)
    <2>1. Length - 1 \in Pages
      BY LengthIs
    <2>2. PageOf(v, Length - 1) \in PageValues
      BY <2>1 DEF PageValues
    <2>3. QED
      BY <2>2 DEF BlockPart
  <1>3. BlockSum(v, b) \in Seq(PageValues)
    BY <1>1, <1>2 DEF BlockSum
  <1>4. QED
    BY <1>1, <1>2, <1>3 DEF BlockPart

(* A file whose pages are those of its checksum is stored.                 *)
LEMMA PrefixIsStored ==
    ASSUME NEW f, NEW v \in Versions, NEW old, Prefix(f, Length, FileSum(v)),
           Readable(f.info) /\ ~old => f.info = FileInfo(v)
    PROVE  Stored(f, v, old)
  <1>1. \A p \in 0..Length-1 : p \in Pages /\ p < Length /\ p + 1 \in 1..Length /\ (p + 1) - 1 = p
    BY LengthIs
  <1>2. QED
    BY <1>1, FileSumIs DEF Prefix, Stored

-----------------------------------------------------------------------------
(* The device: what flash and RAM hold, and which file a session writes or *)
(* has stored.  PV is for PageValues.                                      *)
PV == PageValues

StoredSum(f, r, sum, old) ==
    sum # NoSum =>
      r.flag # "write" /\ \E v \in Versions : sum = FileSum(v) /\ Stored(f, v, old)

FileOfSession(f, r, s, old) ==
    /\ OpenFile(f, r)
    /\ s.state # "wrq" => s.offset = 0
    /\ s.state = "wrq" /\ s.prop = "local" /\ s.held =>
         r.flag = "write" /\ r.buffer = NoPage /\ r.size = s.offset
    /\ StoredSum(f, r, s.okSum, old)

DeviceOK ==
    /\ flash \in Flashes(PV) /\ ram \in Rams(PV) /\ srv \in Sessions
    /\ faults \in 0..Faults /\ stale \in BOOLEAN
    /\ InfoTruthful
    /\ FileOfSession(flash, ram, srv, stale)

\* The outcome of a call on the device's flash and RAM.
Here(o) == /\ Result(PV, flash, ram, faults, o)
           /\ o.ram.flag = "write" => ram.flag = "write" /\ o.flash.info = flash.info

\* Whether the info is older than the pages after it.
StaleAfter(o) ==
    /\ o.flash.info = flash.info
    /\ stale \/ (ram.flag = "write" /\ o.ram.flag # "write")

LEMMA SessionIs ==
    ASSUME NEW s \in Sessions
    PROVE  /\ s.state \in {"idle", "wrq", "rrq"} /\ s.block \in Nat /\ s.rlov \in Nat
           /\ s.rmt \in {NoHost, Host, Tool} /\ s.dst \in {"none", "self", "board"}
           /\ s.prop \in {"none", "local", "remote"} /\ s.held \in BOOLEAN /\ s.size \in Nat
           /\ s.offset \in Nat /\ s.total \in Seq(PageValues) /\ s.okSum \in Seq(PageValues)
           /\ s.idle \in 0..IdleMax-1 /\ s.rst \in 0..RstMax /\ s.stopFeed \in BOOLEAN
  BY DEF Sessions

LEMMA BootTyped == Boot \in Sessions /\ FileOfSession(flash, ClosedRam, Boot, stale)
  <1>1. << >> \in Seq(PageValues) /\ 0 \in 0..IdleMax-1 /\ 0 \in 0..RstMax /\ 0 \in Nat
    BY UploadAssumption
  <1>2. Boot \in Sessions
    BY <1>1 DEF Boot, Sessions, NoSum
  <1>3. Boot.okSum = NoSum /\ Boot.state = "idle" /\ Boot.offset = 0
    BY DEF Boot
  <1>4. QED
    BY <1>2, <1>3, ClosedRamIs DEF FileOfSession, OpenFile, StoredSum

(* However a handler ends, the device keeps its invariant when the session *)
(* it made fits the outcome of its last call.                              *)
LEMMA EndsSound ==
    ASSUME DeviceOK, NEW o, NEW s, Result(PV, flash, ram, faults, o), Ends(o, s),
           ~o.off => s \in Sessions /\ FileOfSession(o.flash, o.ram, s, StaleAfter(o))
    PROVE  DeviceOK' /\ (~o.off => stale' = StaleAfter(o)) /\ flash' = o.flash
  <1>1. /\ o.flash \in Flashes(PV) /\ o.ram \in Rams(PV)
        /\ o.faults \in 0..Faults /\ o.off \in BOOLEAN
        /\ flash' = o.flash /\ faults' = o.faults
        /\ stale \in BOOLEAN
    <2>1. Faults \in Nat /\ faults \in 0..Faults
      BY UploadAssumption DEF DeviceOK
    <2>2. o.faults \in Nat /\ o.faults <= faults
      BY DEF Result
    <2>3. o.faults \in 0..Faults
      BY <2>1, <2>2
    <2>4. QED
      BY <2>3 DEF Result, Ends, DeviceOK
  <1>2. CASE o.off
    <2>1. ram' = ClosedRam /\ srv' = Boot /\ stale' = (stale \/ ram.flag = "write")
      BY <1>2 DEF Ends, Restarted
    <2>2. InfoTruthful'
      <3>1. SUFFICES ASSUME ~stale', InfoValid(flash'.info)
                     PROVE  \A p \in Pages : p < flash'.info.size =>
                              flash'.pages[p] = flash'.info.sum[p + 1]
        BY DEF InfoTruthful
      <3>2. ~stale /\ ram.flag # "write"
        BY <2>1, <3>1
      <3>3. flash' = flash
        BY <1>1, <3>2 DEF Result
      <3>4. QED
        BY <3>1, <3>2, <3>3 DEF DeviceOK, InfoTruthful
    <2>3. (FileOfSession(flash, ram, srv, stale))'
      <3>1. Boot.okSum = NoSum /\ Boot.state = "idle" /\ Boot.offset = 0
        BY DEF Boot
      <3>2. QED
        BY <2>1, <3>1, ClosedRamIs DEF FileOfSession, OpenFile, StoredSum
    <2>4. ram' \in Rams(PV) /\ srv' \in Sessions /\ stale' \in BOOLEAN
      BY <1>1, <2>1, ClosedRamIs, BootTyped
    <2>5. QED
      BY <1>1, <1>2, <2>2, <2>3, <2>4 DEF DeviceOK, PV, PageValues, Versions, Sessions
  <1>3. CASE ~o.off
    <2>1. ram' = o.ram /\ srv' = s /\ stale' = StaleAfter(o)
      BY <1>3 DEF Ends, StaleAfter
    <2>2. InfoTruthful'
      <3>1. SUFFICES ASSUME ~stale', ram'.flag # "write", InfoValid(flash'.info)
                     PROVE  \A p \in Pages : p < flash'.info.size =>
                              flash'.pages[p] = flash'.info.sum[p + 1]
        BY DEF InfoTruthful
      <3>2. CASE o.flash.info # flash.info
        BY <1>1, <3>1, <3>2 DEF Result, Truthful, Prefix
      <3>3. CASE o.flash.info = flash.info
        <4>1. ~stale /\ ram.flag # "write"
          BY <2>1, <3>1, <3>3 DEF StaleAfter
        <4>2. flash' = flash
          BY <1>1, <4>1 DEF Result
        <4>3. QED
          BY <3>1, <4>1, <4>2 DEF DeviceOK, InfoTruthful
      <3>4. QED
        BY <3>2, <3>3
    <2>3. stale' \in BOOLEAN
      BY <1>1, <2>1 DEF StaleAfter
    <2>4. (FileOfSession(flash, ram, srv, stale))'
      BY <1>1, <1>3, <2>1 DEF FileOfSession, StoredSum, OpenFile, Stored
    <2>5. QED
      BY <1>1, <1>3, <2>1, <2>2, <2>3, <2>4 DEF DeviceOK, PV, PageValues, Versions, Sessions
  <1>4. QED
    BY <1>1, <1>2, <1>3

(* Two calls, one after the other.                                         *)
LEMMA ThenHere ==
    ASSUME faults \in Nat, NEW o, NEW c, Here(o), Result(PV, o.flash, o.ram, o.faults, c)
    PROVE  Result(PV, flash, ram, faults, c)
  <1>1. /\ c.flash \in Flashes(PV) /\ c.ram \in Rams(PV)
        /\ c.faults \in Nat /\ c.ret \in Int /\ c.off \in BOOLEAN
    BY DEF Result
  <1>2. ram.flag # "write" => c.flash = flash
    BY DEF Here, Result
  <1>3. c.flash.info # flash.info => Truthful(c.flash)
    BY DEF Here, Result
  <1>4. c.faults <= faults
    <2>1. o.faults \in Nat /\ o.faults <= faults /\ c.faults \in Nat /\ c.faults <= o.faults
      BY DEF Here, Result
    <2>2. QED
      BY <2>1
  <1>5. QED
    BY <1>1, <1>2, <1>3, <1>4 DEF Result

LEMMA FaultsIs == ASSUME DeviceOK PROVE faults \in Nat
  BY UploadAssumption DEF DeviceOK

(* A handler that calls nothing.                                           *)
LEMMA SameIs ==
    ASSUME DeviceOK
    PROVE  /\ Same.flash = flash /\ Same.ram = ram /\ Same.ret = 0 /\ Same.faults = faults
           /\ Same.off = FALSE
           /\ Result(PV, flash, ram, faults, Same) /\ Here(Same) /\ StaleAfter(Same) = stale
  <1>1. /\ Same.flash = flash /\ Same.ram = ram /\ Same.ret = 0 /\ Same.faults = faults
        /\ Same.off = FALSE
    BY DEF Same, Outcome
  <1>2. Same.ret \in Int
    BY <1>1
  <1>3. Result(PV, flash, ram, faults, Same)
    BY <1>1, <1>2, FaultsIs, KeepsFlash DEF DeviceOK
  <1>4. QED
    BY <1>1, <1>3 DEF Here, StaleAfter, DeviceOK

(* A session that has stored nothing and writes no file fits any RAM whose *)
(* file, if one is open, is sound.                                         *)
Plain(s) == /\ s.okSum = NoSum
            /\ s.state # "wrq" => s.offset = 0
            /\ ~(s.state = "wrq" /\ s.prop = "local" /\ s.held)

LEMMA PlainFits ==
    ASSUME NEW f, NEW r, NEW s, NEW old, Plain(s), OpenFile(f, r)
    PROVE  FileOfSession(f, r, s, old)
  BY DEF Plain, FileOfSession, StoredSum

(* What is stored stays stored whatever is called, for no file is written. *)
LEMMA StillStored ==
    ASSUME NEW o, Here(o), NEW sum, StoredSum(flash, ram, sum, stale)
    PROVE  StoredSum(o.flash, o.ram, sum, StaleAfter(o))
  <1>1. SUFFICES ASSUME sum # NoSum
                 PROVE  /\ o.ram.flag # "write"
                        /\ \E v \in Versions : sum = FileSum(v) /\ Stored(o.flash, v, StaleAfter(o))
    BY DEF StoredSum
  <1>2. /\ ram.flag # "write"
        /\ \E v \in Versions : sum = FileSum(v) /\ Stored(flash, v, stale)
    BY <1>1 DEF StoredSum
  <1>3. o.flash = flash /\ o.ram.flag # "write"
    BY <1>2 DEF Here, Result
  <1>4. StaleAfter(o) <=> stale
    BY <1>2, <1>3 DEF StaleAfter
  <1>5. PICK v \in Versions : sum = FileSum(v) /\ Stored(flash, v, stale)
    BY <1>2
  <1>6. Stored(o.flash, v, StaleAfter(o))
    BY <1>3, <1>4, <1>5 DEF Stored
  <1>7. QED
    BY <1>3, <1>5, <1>6

(* A session with the same file.                                           *)
LEMMA SameFile ==
    ASSUME DeviceOK, NEW t, t.state = srv.state, t.offset = srv.offset, t.held = srv.held,
           t.okSum = srv.okSum, t.state = "wrq" /\ t.prop = "local" => srv.prop = "local"
    PROVE  FileOfSession(flash, ram, t, stale)
  BY DEF DeviceOK, FileOfSession

(* tftp_clear_state.                                                       *)
LEMMA ClearedIs ==
    ASSUME NEW s, [s EXCEPT !.idle = 0] \in Sessions
    PROVE  Cleared(s) \in Sessions /\ Plain(Cleared(s))
  <1>1. << >> \in Seq(PageValues) /\ 0 \in 0..IdleMax-1 /\ 0 \in Nat
    BY UploadAssumption
  <1>2. Cleared(s) = Cleared([s EXCEPT !.idle = 0])
    BY DEF Cleared
  <1>3. Cleared(s) \in Sessions
    <2>1. \A t \in Sessions : Cleared(t) \in Sessions
      BY <1>1 DEF Cleared, Sessions, NoSum
    <2>2. QED
      BY <1>2, <2>1
  <1>4. Plain(Cleared([s EXCEPT !.idle = 0]))
    <2>1. \A t \in Sessions : Plain(Cleared(t))
      BY DEF Cleared, Sessions, Plain
    <2>2. QED
      BY <2>1
  <1>5. QED
    BY <1>2, <1>3, <1>4

\* The file of RAM and flash after o can be closed.
Closes(o) ==
    \A c \in file_close(o.flash, o.ram, NoSum, o.faults) :
      Result(PV, o.flash, o.ram, o.faults, c) /\ OpenFile(c.flash, c.ram)

LEMMA SoundCloses ==
    ASSUME NEW o, Here(o), OpenFile(o.flash, o.ram)
    PROVE  Closes(o)
  <1>1. /\ o.flash \in Flashes(PV) /\ o.ram \in Rams(PV) /\ o.faults \in Nat
        /\ NoSum \in Seq(PV) /\ ~Twice(NoSum)
    BY DEF Here, Result, NoSum, Twice
  <1>2. SUFFICES ASSUME NEW c \in file_close(o.flash, o.ram, NoSum, o.faults)
                 PROVE  Result(PV, o.flash, o.ram, o.faults, c) /\ OpenFile(c.flash, c.ram)
    BY DEF Closes
  <1>3. QED
    BY <1>1, <1>2, FileCloseDoes

LEMMA ClearSound ==
    ASSUME DeviceOK, NEW o, NEW s, Here(o), ClearState(o, s),
           [s EXCEPT !.idle = 0] \in Sessions,
           ~o.off /\ s.held => Closes(o), ~o.off /\ ~s.held => OpenFile(o.flash, o.ram)
    PROVE  DeviceOK'
  <1>1. Cleared(s) \in Sessions /\ Plain(Cleared(s))
    BY ClearedIs
  <1>2. CASE s.held /\ ~o.off
    <2>1. PICK c \in file_close(o.flash, o.ram, NoSum, o.faults) : Ends(c, Cleared(s))
      BY <1>2 DEF ClearState
    <2>2. Result(PV, o.flash, o.ram, o.faults, c) /\ OpenFile(c.flash, c.ram)
      BY <1>2, <2>1 DEF Closes
    <2>3. Result(PV, flash, ram, faults, c)
      BY <2>2, FaultsIs, ThenHere
    <2>4. QED
      BY <1>1, <2>1, <2>2, <2>3, PlainFits, EndsSound
  <1>3. CASE ~(s.held /\ ~o.off)
    <2>1. Ends(o, Cleared(s))
      BY <1>3 DEF ClearState
    <2>2. ~o.off => OpenFile(o.flash, o.ram)
      BY <1>3
    <2>3. Result(PV, flash, ram, faults, o)
      BY DEF Here
    <2>4. QED
      BY <1>1, <2>1, <2>2, <2>3, PlainFits, EndsSound
  <1>4. QED
    BY <1>2, <1>3

-----------------------------------------------------------------------------
(* What the device says.                                                   *)
IsSeq(s) == \E S : s \in Seq(S)

\* An OK of this step for a version of the host is true.
OkIsTrue ==
    \A v \in 1..Attempts :
      (Len(toHost') > Len(toHost) /\ Last(toHost') = Reply("OK", v, 0))
        => Stored(flash', v, stale')

Sound == DeviceOK' /\ IsSeq(toHost)' /\ OkIsTrue

LEMMA NothingSaid ==
    ASSUME IsSeq(toHost), DeviceOK', toHost' = toHost PROVE Sound
  <1>1. Len(toHost) \in Nat
    BY DEF IsSeq
  <1>2. ~(Len(toHost') > Len(toHost))
    BY <1>1
  <1>3. QED
    BY <1>2 DEF Sound, OkIsTrue, IsSeq

LEMMA SaidIs ==
    ASSUME IsSeq(toHost), NEW s, NEW r, SendTo(s, <<r>>)
    PROVE  IsSeq(toHost)' /\ (Len(toHost') > Len(toHost) => Last(toHost') = r)
  <1>1. PICK S : toHost \in Seq(S)
    BY DEF IsSeq
  <1>2. CASE toHost' = toHost
    BY <1>1, <1>2 DEF IsSeq
  <1>3. CASE toHost' = toHost \o <<r>>
    <2>1. toHost \in Seq(S \cup {r}) /\ <<r>> \in Seq(S \cup {r})
      BY <1>1
    <2>2. /\ toHost \o <<r>> \in Seq(S \cup {r}) /\ Len(toHost \o <<r>>) = Len(toHost) + 1
          /\ (toHost \o <<r>>)[Len(toHost) + 1] = r
      BY <2>1
    <2>3. QED
      BY <1>3, <2>2 DEF IsSeq, Last
  <1>4. QED
    BY <1>2, <1>3 DEF SendTo

LEMMA OtherSaid ==
    ASSUME IsSeq(toHost), DeviceOK', NEW s, NEW r, SendTo(s, <<r>>),
           r.op = "OK" => r.ver \notin 1..Attempts
    PROVE  Sound
  <1>1. \A v \in 1..Attempts : Reply("OK", v, 0).op = "OK" /\ Reply("OK", v, 0).ver = v
    BY DEF Reply
  <1>2. QED
    BY <1>1, SaidIs DEF Sound, OkIsTrue

LEMMA ErrorsSaid ==
    ASSUME IsSeq(toHost), DeviceOK', NEW s, NEW n \in {1, 2},
           SendTo(s, [i \in 1..n |-> Reply("ERROR", 0, 0)])
    PROVE  Sound
  <1> DEFINE e == Reply("ERROR", 0, 0)
             es == [i \in 1..n |-> e]
  <1>1. PICK S : toHost \in Seq(S)
    BY DEF IsSeq
  <1>2. CASE toHost' = toHost
    BY <1>2, NothingSaid
  <1>3. CASE toHost' = toHost \o es
    <2> HIDE DEF e
    <2>1. toHost \in Seq(S \cup {e}) /\ es \in Seq(S \cup {e}) /\ Len(es) = n /\ es[n] = e
      BY <1>1
    <2> HIDE DEF es
    <2>2. /\ toHost \o es \in Seq(S \cup {e}) /\ Len(toHost \o es) = Len(toHost) + n
          /\ (toHost \o es)[Len(toHost) + n] = e
      BY <2>1
    <2>3. IsSeq(toHost)' /\ Last(toHost') = e
      BY <1>3, <2>2 DEF IsSeq, Last
    <2>4. \A v \in 1..Attempts : Reply("OK", v, 0).op = "OK"
      BY DEF Reply
    <2>5. e.op = "ERROR"
      BY DEF e, Reply
    <2>6. QED
      BY <2>3, <2>4, <2>5 DEF Sound, OkIsTrue
  <1>4. QED
    BY <1>2, <1>3 DEF SendTo

(* How a handler ends.                                                     *)
Fits(o, s) == s \in Sessions /\ FileOfSession(o.flash, o.ram, s, StaleAfter(o))

LEMMA LeaveSound ==
    ASSUME DeviceOK, IsSeq(toHost), NEW o, NEW s, Result(PV, flash, ram, faults, o),
           Leave(o, s), ~o.off => Fits(o, s)
    PROVE  Sound
  <1>1. DeviceOK'
    BY EndsSound DEF Leave, Fits
  <1>2. QED
    BY <1>1, NothingSaid DEF Leave

LEMMA AnswerSound ==
    ASSUME DeviceOK, IsSeq(toHost), NEW o, NEW s, NEW r, Result(PV, flash, ram, faults, o),
           Answer(o, s, r), ~o.off => Fits(o, s), r.op # "OK"
    PROVE  Sound
  <1>1. CASE o.off
    BY <1>1, LeaveSound DEF Answer
  <1>2. CASE ~o.off
    <2>1. SendTo(s, <<r>>) /\ Ends(o, s)
      BY <1>2 DEF Answer
    <2>2. DeviceOK'
      BY <2>1, EndsSound DEF Fits
    <2>3. QED
      BY <2>1, <2>2, OtherSaid
  <1>3. QED
    BY <1>1, <1>2

\* The session can be cleared after o.
Clearable(o, s) == /\ [s EXCEPT !.idle = 0] \in Sessions
                   /\ s.held => Closes(o)
                   /\ ~s.held => OpenFile(o.flash, o.ram)

LEMMA ErrorsSound ==
    ASSUME DeviceOK, IsSeq(toHost), NEW o, NEW s, NEW n \in {1, 2}, Here(o),
           ErrorsDone(o, s, n), ~o.off => Clearable(o, s)
    PROVE  Sound
  <1>1. CASE o.off
    BY <1>1, LeaveSound DEF ErrorsDone, Here
  <1>2. CASE ~o.off
    <2>1. SendTo(s, [i \in 1..n |-> Reply("ERROR", 0, 0)]) /\ ClearState(o, s)
      BY <1>2 DEF ErrorsDone
    <2>2. DeviceOK'
      BY <1>2, <2>1, ClearSound DEF Clearable
    <2>3. QED
      BY <2>1, <2>2, ErrorsSaid
  <1>3. QED
    BY <1>1, <1>2

LEMMA ErrorSound ==
    ASSUME DeviceOK, IsSeq(toHost), NEW o, NEW s, Here(o),
           ErrorDone(o, s), ~o.off => Clearable(o, s)
    PROVE  Sound
  BY ErrorsSound DEF ErrorDone

(* When no call was made every session can be cleared.                     *)
LEMMA SameClearable ==
    ASSUME DeviceOK, NEW s, [s EXCEPT !.idle = 0] \in Sessions PROVE Clearable(Same, s)
  <1>1. OpenFile(Same.flash, Same.ram)
    BY SameIs DEF DeviceOK, FileOfSession
  <1>2. Closes(Same)
    BY <1>1, SameIs, SoundCloses
  <1>3. QED
    BY <1>1, <1>2 DEF Clearable

LEMMA IdleZero == ASSUME NEW s \in Sessions PROVE [s EXCEPT !.idle = 0] \in Sessions
  <1>1. 0 \in 0..IdleMax-1
    BY UploadAssumption
  <1>2. QED
    BY <1>1 DEF Sessions

LEMMA SameErrorSound ==
    ASSUME DeviceOK, IsSeq(toHost), NEW s \in Sessions, ErrorDone(Same, s)
    PROVE  Sound
  BY SameIs, SameClearable, IdleZero, ErrorSound

LEMMA SameFits ==
    ASSUME DeviceOK, NEW s \in Sessions, FileOfSession(flash, ram, s, stale)
    PROVE  Fits(Same, s)
  BY SameIs DEF Fits

LEMMA RelaySound ==
    ASSUME DeviceOK, IsSeq(toHost), NEW s \in Sessions, FileOfSession(flash, ram, s, stale),
           Relay(s)
    PROVE  Sound
  <1>1. Fits(Same, s) /\ Result(PV, flash, ram, faults, Same)
    BY SameFits, SameIs
  <1>2. QED
    BY <1>1, LeaveSound, SameErrorSound DEF Relay

-----------------------------------------------------------------------------
(* The packets.                                                            *)
Ops == {"RRQ", "WRQ", "LCK", "DIFF", "RST", "ACK", "SUM", "STOP", "DATA", "REQ"}

PacketOK(p) ==
    /\ p.op \in Ops /\ p.dst \in {"self", "board"} /\ p.src \in {Host, Tool}
    /\ p.ver \in Versions /\ p.blk \in Nat
    /\ p.op = "DATA" => p.blk \in 1..Blocks

\* A session with the same file, but for what it says of it.
Like(t) == /\ t \in Sessions
           /\ t.state = srv.state /\ t.offset = srv.offset /\ t.held = srv.held
           /\ t.okSum = srv.okSum /\ t.total = srv.total

LEMMA IdleSet ==
    ASSUME DeviceOK
    PROVE  LET s == [srv EXCEPT !.idle = 0] IN Like(s) /\ s.prop = srv.prop /\ s.rmt = srv.rmt
  <1>1. srv \in Sessions
    BY DEF DeviceOK
  <1>2. QED
    BY <1>1, IdleZero DEF Like, Sessions

LEMMA LikeFits ==
    ASSUME DeviceOK, NEW t, Like(t), t.state = "wrq" /\ t.prop = "local" => srv.prop = "local"
    PROVE  t \in Sessions /\ FileOfSession(flash, ram, t, stale) /\ Fits(Same, t)
  BY SameFile, SameFits DEF Like

LEMMA FromLike ==
    ASSUME DeviceOK, NEW p, PacketOK(p)
    PROVE  /\ Like(From(srv, p)) /\ From(srv, p).prop = srv.prop
           /\ LET s == [srv EXCEPT !.rmt = p.src, !.idle = 0] IN Like(s) /\ s.prop = srv.prop
           /\ LET s == [From(srv, p) EXCEPT !.idle = 0] IN Like(s) /\ s.prop = srv.prop
  <1>1. srv \in Sessions /\ p.src \in {NoHost, Host, Tool} /\ p.dst \in {"none", "self", "board"}
        /\ 0 \in 0..IdleMax-1
    BY UploadAssumption DEF DeviceOK, PacketOK
  <1>2. Like(From(srv, p)) /\ From(srv, p).prop = srv.prop
    BY <1>1 DEF From, Like, Sessions
  <1>3. LET s == [srv EXCEPT !.rmt = p.src, !.idle = 0] IN Like(s) /\ s.prop = srv.prop
    BY <1>1 DEF Like, Sessions
  <1>4. LET s == [From(srv, p) EXCEPT !.idle = 0] IN Like(s) /\ s.prop = srv.prop
    BY <1>1 DEF From, Like, Sessions
  <1>5. QED
    BY <1>2, <1>3, <1>4

LEMMA PropSet ==
    ASSUME DeviceOK, NEW s, Like(s), NEW prop \in {"none", "local", "remote"}
    PROVE  Like([s EXCEPT !.prop = prop]) /\ [s EXCEPT !.prop = prop].prop = prop
  BY DEF Like, Sessions

\* A session just begun.
Fresh(t) == /\ t \in Sessions /\ t.state = "idle" /\ t.offset = 0 /\ t.okSum = NoSum
            /\ t.rst = 0

LEMMA FreshIsPlain == ASSUME NEW t, Fresh(t) PROVE Plain(t)
  BY DEF Fresh, Plain

LEMMA InitTyped ==
    ASSUME DeviceOK, NEW t, Like(t)
    PROVE  TftpInit(t) \in Sessions /\ TftpInit(t).held = srv.held
           /\ TftpInit(t).okSum = NoSum /\ TftpInit(t).state = "idle"
           /\ TftpInit(t).offset = srv.offset /\ TftpInit(t).rst = 0
  <1>1. << >> \in Seq(PageValues) /\ 0 \in 0..IdleMax-1 /\ 0 \in 0..RstMax /\ 0 \in Nat
    BY UploadAssumption
  <1>2. QED
    BY <1>1 DEF Like, TftpInit, Sessions, NoSum

LEMMA FromFresh ==
    ASSUME DeviceOK, NEW p, PacketOK(p), srv.state = "idle"
    PROVE  LET s == From(TftpInit(srv), p) IN Fresh(s) /\ s.held = srv.held
  <1>1. Like(srv)
    BY DEF DeviceOK, Like
  <1>2. srv.offset = 0
    BY DEF DeviceOK, FileOfSession
  <1>3. p.src \in {NoHost, Host, Tool} /\ p.dst \in {"none", "self", "board"}
    BY DEF PacketOK
  <1>4. /\ TftpInit(srv) \in Sessions /\ TftpInit(srv).held = srv.held
        /\ TftpInit(srv).okSum = NoSum /\ TftpInit(srv).state = "idle"
        /\ TftpInit(srv).offset = 0 /\ TftpInit(srv).rst = 0
    BY <1>1, <1>2, InitTyped
  <1>5. QED
    BY <1>3, <1>4 DEF From, Fresh, Sessions

LEMMA FreshProp ==
    ASSUME NEW s, Fresh(s), NEW prop \in {"none", "local", "remote"}
    PROVE  /\ Fresh([s EXCEPT !.prop = prop]) /\ [s EXCEPT !.prop = prop].prop = prop
           /\ [s EXCEPT !.prop = prop].held = s.held
  BY DEF Fresh, Sessions

LEMMA FreshFits ==
    ASSUME DeviceOK, NEW s, Fresh(s)
    PROVE  s \in Sessions /\ FileOfSession(flash, ram, s, stale) /\ Fits(Same, s)
  <1>1. OpenFile(flash, ram)
    BY DEF DeviceOK, FileOfSession
  <1>2. QED
    BY <1>1, FreshIsPlain, PlainFits, SameFits DEF Fresh

-----------------------------------------------------------------------------
(* The handlers that call nothing.                                         *)
LEMMA BusySound ==
    ASSUME DeviceOK, IsSeq(toHost), NEW p, RejectBusy(p) PROVE Sound
  <1> DEFINE s == [srv EXCEPT !.idle = 0]
  <1>1. Fits(Same, s)
    BY IdleSet, LikeFits
  <1>2. DeviceOK'
    BY <1>1, EndsSound, SameIs DEF RejectBusy, Fits
  <1>3. Reply("ERROR", 0, 0).op = "ERROR"
    BY DEF Reply
  <1>4. QED
    BY <1>2, <1>3, NothingSaid, OtherSaid DEF RejectBusy

LEMMA WrqRemoteSound ==
    ASSUME DeviceOK, IsSeq(toHost), NEW p, PacketOK(p), srv.state = "idle", RecvWrqRemote(p)
    PROVE  Sound
  <1> DEFINE s == [From(TftpInit(srv), p) EXCEPT !.prop = "remote"]
             t == [s EXCEPT !.state = "wrq"]
  <1>1. Fresh(s) /\ s.prop = "remote"
    BY FromFresh, FreshProp
  <1> HIDE DEF s
  <1>2. t \in Sessions /\ Plain(t)
    BY <1>1 DEF Fresh, Plain, Sessions
  <1>3. Fits(Same, t)
    BY <1>2, PlainFits, SameFits DEF DeviceOK, FileOfSession
  <1>4. Leave(Same, t) \/ ErrorDone(Same, s)
    BY DEF RecvWrqRemote, s
  <1>5. QED
    BY <1>1, <1>3, <1>4, SameIs, LeaveSound, SameErrorSound DEF Fresh

LEMMA QueriesSound ==
    ASSUME DeviceOK, IsSeq(toHost), NEW p, PacketOK(p), srv.state = "idle",
           RecvLck(p) \/ RecvReq(p) \/ RecvRrqRemote(p)
    PROVE  Sound
  <1> DEFINE s == From(TftpInit(srv), p)
  <1>1. \A prop \in {"local", "remote"} : Fresh([s EXCEPT !.prop = prop])
    BY FromFresh, FreshProp
  <1>2. \A prop \in {"local", "remote"} :
          LET t == [s EXCEPT !.prop = prop]
          IN  t \in Sessions /\ FileOfSession(flash, ram, t, stale) /\ Fits(Same, t)
    BY <1>1, FreshFits
  <1>3. \E prop \in {"local", "remote"} :
          LET t == [s EXCEPT !.prop = prop] IN Leave(Same, t) \/ Relay(t)
    BY DEF RecvLck, RecvReq, RecvRrqRemote
  <1>4. QED
    BY <1>2, <1>3, SameIs, LeaveSound, RelaySound

LEMMA RstSound ==
    ASSUME DeviceOK, IsSeq(toHost), NEW p, PacketOK(p), RecvRst(p) PROVE Sound
  <1> DEFINE s == [From(srv, p) EXCEPT !.idle = 0]
             t == [s EXCEPT !.stopFeed = TRUE, !.rst = 0]
  <1>1. Like(s) /\ s.prop = srv.prop
    BY FromLike
  <1> HIDE DEF s
  <1>2. s \in Sessions /\ FileOfSession(flash, ram, s, stale) /\ Fits(Same, s)
    BY <1>1, LikeFits
  <1>3. /\ t \in Sessions /\ t.state = srv.state /\ t.offset = srv.offset /\ t.held = srv.held
        /\ t.okSum = srv.okSum /\ t.prop = srv.prop
    <2>1. 0 \in 0..RstMax
      BY UploadAssumption
    <2>2. QED
      BY <1>1, <2>1 DEF Like, Sessions
  <1>4. Fits(Same, t)
    BY <1>3, SameFile, SameFits
  <1>5. Relay(s) \/ Leave(Same, s) \/ Leave(Same, t)
    BY DEF RecvRst, s
  <1>6. QED
    BY <1>2, <1>4, <1>5, SameIs, LeaveSound, RelaySound

LEMMA StopSound ==
    ASSUME DeviceOK, IsSeq(toHost), NEW p, PacketOK(p), RecvStop(p) PROVE Sound
  <1> DEFINE s == From(srv, p)
  <1>1. [s EXCEPT !.idle = 0] \in Sessions
    BY FromLike DEF Like
  <1>2. Clearable(Same, s) /\ ClearState(Same, s) /\ toHost' = toHost
    BY <1>1, SameClearable DEF RecvStop
  <1>3. DeviceOK'
    BY <1>1, <1>2, SameIs, ClearSound DEF Clearable
  <1>4. QED
    BY <1>2, <1>3, NothingSaid

-----------------------------------------------------------------------------
(* Reading changes nothing.                                                *)
LEMMA ReadFailsIs ==
    ASSUME NEW D, NEW f \in Flashes(D), NEW r \in Rams(D), NEW n \in Nat, NEW m \in Int,
           NEW o \in ReadFails(f, r, m, n)
    PROVE  Result(D, f, r, n, o) /\ o.flash = f /\ o.ram = r /\ o.ret = m
  <1>1. PICK off \in BOOLEAN : n # 0 /\ o = Outcome(f, r, m, n - 1, off)
    BY DEF ReadFails
  <1>2. o.flash = f /\ o.ram = r /\ o.ret = m /\ o.faults = n - 1 /\ o.off = off
    BY <1>1 DEF Outcome
  <1>3. n - 1 \in Nat /\ n - 1 <= n
    BY <1>1
  <1>4. o.faults \in Nat /\ o.faults <= n
    BY <1>2, <1>3
  <1>5. QED
    BY <1>2, <1>4 DEF Result

LEMMA FileReadDoes ==
    ASSUME NEW D, NEW f \in Flashes(D), NEW r \in Rams(D), NEW faults1 \in Nat, NEW n \in Int,
           NEW o \in file_read(f, r, n, faults1)
    PROVE  Result(D, f, r, faults1, o) /\ o.flash = f /\ o.ram = r
  <1>1. CASE \E m \in {-1, n} : o = Outcome(f, r, m, faults1, FALSE)
    <2>1. PICK m \in {-1, n} : o = Outcome(f, r, m, faults1, FALSE)
      BY <1>1
    <2>2. o.flash = f /\ o.ram = r /\ o.ret = m /\ o.faults = faults1 /\ o.off = FALSE
      BY <2>1 DEF Outcome
    <2>3. o.ret \in Int
      BY <2>2
    <2>4. o.ram \in Rams(D)
      BY <2>2
    <2>5. QED
      BY <2>2, <2>3, <2>4, KeepsFlash
  <1>2. CASE o \in ReadFails(f, r, -1, faults1)
    BY <1>2, ReadFailsIs
  <1>3. QED
    BY <1>1, <1>2 DEF file_read

LEMMA InfoReadDoes ==
    ASSUME NEW D, NEW f \in Flashes(D), NEW r \in Rams(D), NEW faults1 \in Nat,
           NEW o \in file_info_read(f, r, faults1)
    PROVE  /\ Result(D, f, r, faults1, o) /\ o.flash = f /\ o.ram = r
           /\ o.ret # 0 => Readable(f.info) /\ f.info.size \in Nat
  <1>1. Readable(f.info) => f.info.size \in Nat
    BY DEF Flashes, Infos, Readable
  <1>2. CASE o = Outcome(f, r, IF Readable(f.info) THEN 1 ELSE 0, faults1, FALSE)
    <2>1. /\ o.flash = f /\ o.ram = r /\ o.ret = (IF Readable(f.info) THEN 1 ELSE 0)
          /\ o.faults = faults1 /\ o.off = FALSE
      BY <1>2 DEF Outcome
    <2>2. o.ret \in Int /\ (o.ret # 0 => Readable(f.info))
      BY <2>1
    <2>3. o.ram \in Rams(D)
      BY <2>1
    <2>4. QED
      BY <1>1, <2>1, <2>2, <2>3, KeepsFlash
  <1>3. CASE o \in ReadFails(f, r, 0, faults1)
    BY <1>1, <1>3, ReadFailsIs
  <1>4. QED
    BY <1>2, <1>3 DEF file_info_read

-----------------------------------------------------------------------------
(* The handlers that open, read and close files.                           *)
LEMMA OpenIs ==
    ASSUME DeviceOK, NEW mode \in {"read", "write"}, NEW o \in file_open(flash, ram, mode, faults)
    PROVE  /\ Result(PV, flash, ram, faults, o) /\ OpenFile(o.flash, o.ram)
           /\ o.off \/ o.ret < 0 => Here(o)
           /\ ~(o.off \/ o.ret < 0) => o.ram = [ClosedRam EXCEPT !.flag = mode]
           /\ mode = "read" => Here(o)
  <1>1. /\ Result(PV, flash, ram, faults, o) /\ OpenFile(o.flash, o.ram)
        /\ ~o.off /\ ~(o.ret < 0) => o.ram = [ClosedRam EXCEPT !.flag = mode]
        /\ o.off \/ o.ret < 0 => \/ o.ram.flag = "closed"
                                 \/ /\ o.ram.flag = "write" /\ ram.flag = "write"
                                    /\ o.flash.info = flash.info
    BY FaultsIs, FileOpenDoes DEF DeviceOK, FileOfSession
  <1>2. o.off \/ o.ret < 0 => Here(o)
    BY <1>1 DEF Here
  <1>3. mode = "read" /\ ~(o.off \/ o.ret < 0) => o.ram.flag = "read"
    BY <1>1, ClosedRamIs
  <1>4. QED
    BY <1>1, <1>2, <1>3 DEF Here

LEMMA WrqLocalSound ==
    ASSUME DeviceOK, IsSeq(toHost), NEW p, PacketOK(p), srv.state = "idle", RecvWrqLocal(p)
    PROVE  Sound
  <1> DEFINE s == From(TftpInit(srv), p)
             failed == [s EXCEPT !.held = FALSE]
             opened == [s EXCEPT !.state = "wrq", !.prop = "local", !.held = TRUE]
  <1>1. PICK o \in file_open(flash, ram, "write", faults) :
          IF o.ret < 0 THEN ErrorsDone(o, failed, 2)
                       ELSE Answer(o, opened, Reply("ACK", 0, 0))
    BY DEF RecvWrqLocal
  <1>2. Fresh(s)
    BY FromFresh
  <1> HIDE DEF s
  <1>3. /\ Result(PV, flash, ram, faults, o) /\ OpenFile(o.flash, o.ram)
        /\ o.off \/ o.ret < 0 => Here(o)
        /\ ~(o.off \/ o.ret < 0) => o.ram = [ClosedRam EXCEPT !.flag = "write"]
    BY OpenIs
  <1>4. CASE o.ret < 0
    <2>1. failed \in Sessions /\ failed.held = FALSE
      BY <1>2 DEF Fresh, Sessions
    <2>2. Clearable(o, failed)
      BY <1>3, <2>1, IdleZero DEF Clearable
    <2>3. QED
      BY <1>1, <1>3, <1>4, <2>2, ErrorsSound
  <1>5. CASE ~(o.ret < 0)
    <2>1. /\ opened \in Sessions /\ opened.state = "wrq" /\ opened.offset = 0
          /\ opened.okSum = NoSum
      BY <1>2 DEF Fresh, Sessions
    <2>2. ~o.off => o.ram.flag = "write" /\ o.ram.buffer = NoPage /\ o.ram.size = 0
      BY <1>3, <1>5, ClosedRamIs
    <2>3. ~o.off => Fits(o, opened)
      BY <1>3, <2>1, <2>2 DEF Fits, FileOfSession, StoredSum
    <2>4. Reply("ACK", 0, 0).op # "OK"
      BY DEF Reply
    <2>5. QED
      BY <1>1, <1>3, <1>5, <2>3, <2>4, AnswerSound
  <1>6. QED
    BY <1>4, <1>5

LEMMA DiffSound ==
    ASSUME DeviceOK, IsSeq(toHost), NEW p, PacketOK(p), srv.state = "idle", RecvDiff(p)
    PROVE  Sound
  <1> DEFINE s == From(TftpInit(srv), p)
             here == [s EXCEPT !.prop = "local"]
             board == [s EXCEPT !.prop = "remote"]
  <1>1. Fresh(here) /\ Fresh(board)
    BY FromFresh, FreshProp
  <1>2. \/ \E o \in file_open(flash, ram, "read", faults) :
             \E c \in IF o.off \/ o.ret < 0 THEN {o}
                      ELSE file_close(o.flash, o.ram, NoSum, o.faults) : Leave(c, here)
        \/ Relay(board)
    BY DEF RecvDiff
  <1> HIDE DEF here, board
  <1>3. CASE Relay(board)
    BY <1>1, <1>3, FreshFits, RelaySound
  <1>4. CASE \E o \in file_open(flash, ram, "read", faults) :
               \E c \in IF o.off \/ o.ret < 0 THEN {o}
                        ELSE file_close(o.flash, o.ram, NoSum, o.faults) : Leave(c, here)
    <2>o. PICK o \in file_open(flash, ram, "read", faults) :
            \E c \in IF o.off \/ o.ret < 0 THEN {o}
                     ELSE file_close(o.flash, o.ram, NoSum, o.faults) : Leave(c, here)
      BY <1>4
    <2>1. PICK c \in IF o.off \/ o.ret < 0 THEN {o}
                     ELSE file_close(o.flash, o.ram, NoSum, o.faults) : Leave(c, here)
      BY <2>o
    <2>2. Here(o) /\ OpenFile(o.flash, o.ram)
      BY <2>1, OpenIs
    <2>3. Result(PV, flash, ram, faults, c) /\ OpenFile(c.flash, c.ram)
      <3>1. CASE o.off \/ o.ret < 0
        BY <2>1, <2>2, <3>1 DEF Here
      <3>2. CASE ~(o.off \/ o.ret < 0)
        <4>1. Closes(o)
          BY <2>2, SoundCloses
        <4>2. c \in file_close(o.flash, o.ram, NoSum, o.faults)
          BY <2>1, <3>2
        <4>3. Result(PV, o.flash, o.ram, o.faults, c) /\ OpenFile(c.flash, c.ram)
          BY <4>1, <4>2 DEF Closes
        <4>4. QED
          BY <2>2, <4>3, FaultsIs, ThenHere
      <3>3. QED
        BY <3>1, <3>2
    <2>4. Fits(c, here)
      BY <1>1, <2>3, FreshIsPlain, PlainFits DEF Fits, Fresh
    <2>5. QED
      BY <2>1, <2>3, <2>4, LeaveSound
  <1>5. QED
    BY <1>2, <1>3, <1>4

LEMMA RrqLocalSound ==
    ASSUME DeviceOK, IsSeq(toHost), NEW p, PacketOK(p), srv.state = "idle", RecvRrqLocal(p)
    PROVE  Sound
  <1> DEFINE s == [From(TftpInit(srv), p) EXCEPT !.prop = "local"]
             failed == [s EXCEPT !.held = FALSE]
             opened(n) == [s EXCEPT !.state = "rrq", !.held = TRUE, !.size = n]
  <1>1. Fresh(s)
    BY FromFresh, FreshProp
  <1>2. PICK o \in file_open(flash, ram, "read", faults) :
          IF o.off \/ o.ret < 0
            THEN ErrorDone(o, failed)
            ELSE \E i \in file_info_read(o.flash, o.ram, o.faults) :
                   IF i.off \/ i.ret = 0
                     THEN \E c \in IF i.off THEN {i}
                                   ELSE file_close(i.flash, i.ram, NoSum, i.faults) :
                            ErrorDone(c, failed)
                     ELSE Answer(i, opened(i.flash.info.size), Reply("FIF", 0, 0))
    BY DEF RecvRrqLocal
  <1> HIDE DEF s
  <1>3. failed \in Sessions /\ failed.held = FALSE
    BY <1>1 DEF Fresh, Sessions
  <1>4. \A n \in Nat : opened(n) \in Sessions /\ Plain(opened(n))
    BY <1>1 DEF Fresh, Sessions, Plain
  <1> HIDE DEF failed, opened
  <1>5. Here(o) /\ OpenFile(o.flash, o.ram)
    BY OpenIs
  <1>6. CASE o.off \/ o.ret < 0
    <2>1. Clearable(o, failed)
      BY <1>3, <1>5, IdleZero DEF Clearable
    <2>2. QED
      BY <1>2, <1>5, <1>6, <2>1, ErrorSound
  <1>7. CASE ~(o.off \/ o.ret < 0)
    <2>1. PICK i \in file_info_read(o.flash, o.ram, o.faults) :
            IF i.off \/ i.ret = 0
              THEN \E c \in IF i.off THEN {i}
                            ELSE file_close(i.flash, i.ram, NoSum, i.faults) :
                     ErrorDone(c, failed)
              ELSE Answer(i, opened(i.flash.info.size), Reply("FIF", 0, 0))
      BY <1>2, <1>7
    <2>2. o.flash \in Flashes(PV) /\ o.ram \in Rams(PV) /\ o.faults \in Nat
      BY <1>5 DEF Here, Result
    <2>3. /\ Result(PV, o.flash, o.ram, o.faults, i) /\ i.flash = o.flash /\ i.ram = o.ram
          /\ i.ret # 0 => i.flash.info.size \in Nat
      BY <2>2, InfoReadDoes
    <2>4. Result(PV, flash, ram, faults, i)
      BY <1>5, <2>3, FaultsIs, ThenHere
    <2>5. Here(i) /\ OpenFile(i.flash, i.ram)
      BY <1>5, <2>3, <2>4 DEF Here
    <2>6. CASE i.off
      BY <2>1, <2>4, <2>5, <2>6, ErrorSound
    <2>7. CASE ~i.off /\ i.ret = 0
      <3>1. PICK c \in file_close(i.flash, i.ram, NoSum, i.faults) : ErrorDone(c, failed)
        BY <2>1, <2>7
      <3>2. Result(PV, i.flash, i.ram, i.faults, c) /\ OpenFile(c.flash, c.ram)
        BY <2>5, <3>1, SoundCloses DEF Closes
      <3>3. Result(PV, flash, ram, faults, c)
        BY <2>5, <3>2, FaultsIs, ThenHere
      <3>4. c.ram.flag # "write"
        <4>1. o.ram.flag = "read"
          BY <1>7, OpenIs, ClosedRamIs
        <4>2. i.ram.flag = "read"
          BY <2>3, <4>1
        <4>3. c = Outcome(i.flash, [i.ram EXCEPT !.flag = "closed"], 0, i.faults, FALSE)
          BY <3>1, <4>2 DEF file_close
        <4>4. c.ram = [i.ram EXCEPT !.flag = "closed"]
          BY <4>3 DEF Outcome
        <4>5. i.ram \in Rams(PV)
          BY <2>2, <2>3
        <4>6. QED
          BY <4>4, <4>5 DEF Rams
      <3>5. Here(c) /\ Clearable(c, failed)
        BY <1>3, <3>2, <3>3, <3>4, IdleZero DEF Here, Clearable
      <3>6. QED
        BY <3>1, <3>5, ErrorSound
    <2>8. CASE ~i.off /\ i.ret # 0
      <3>1. Answer(i, opened(i.flash.info.size), Reply("FIF", 0, 0))
        BY <2>1, <2>8
      <3>2. Fits(i, opened(i.flash.info.size))
        BY <1>4, <2>3, <2>5, <2>8, PlainFits DEF Fits
      <3>3. Reply("FIF", 0, 0).op # "OK"
        BY DEF Reply
      <3>4. QED
        BY <2>4, <3>1, <3>2, <3>3, AnswerSound
    <2>9. QED
      BY <2>6, <2>7, <2>8
  <1>8. QED
    BY <1>6, <1>7

(* tftp_recv_data.                                                         *)
LEMMA FailedWriteCloses ==
    ASSUME NEW o, Here(o), o.ram.flag = "write", o.ram.buffer = NoPage,
           o.ram.size <= Len(o.ram.checksum)
    PROVE  Closes(o)
  <1>1. /\ o.flash \in Flashes(PV) /\ o.ram \in Rams(PV) /\ o.faults \in Nat
    BY DEF Here, Result
  <1>2. SUFFICES ASSUME NEW c \in file_close(o.flash, o.ram, NoSum, o.faults)
                 PROVE  Result(PV, o.flash, o.ram, o.faults, c) /\ OpenFile(c.flash, c.ram)
    BY DEF Closes
  <1>3. Result(PV, o.flash, o.ram, o.faults, c) /\ c.ram = ClosedRam
    BY <1>1, <1>2, BrokenCloseDoes
  <1>4. QED
    BY <1>3, ClosedRamIs DEF OpenFile

LEMMA NothingOpenIs ==
    ASSUME DeviceOK, NEW o, o = Outcome(flash, ram, -1, faults, FALSE)
    PROVE  /\ o.flash = flash /\ o.ram = ram /\ o.ret = -1 /\ o.off = FALSE /\ Here(o)
           /\ StaleAfter(o) = stale
  <1>1. o.flash = flash /\ o.ram = ram /\ o.ret = -1 /\ o.faults = faults /\ o.off = FALSE
    BY DEF Outcome
  <1>i. -1 \in Int
    OBVIOUS
  <1>2. o.ret \in Int
    BY <1>1, <1>i, Zenon
  <1>3. o.ram \in Rams(PV)
    BY <1>1 DEF DeviceOK
  <1>4. Result(PV, flash, ram, faults, o)
    BY <1>1, <1>2, <1>3, FaultsIs, KeepsFlash DEF DeviceOK
  <1>5. QED
    BY <1>1, <1>4 DEF Here, StaleAfter, DeviceOK

LEMMA StoredBlockIs ==
    ASSUME NEW s \in Sessions, NEW p, PacketOK(p), p.op = "DATA"
    PROVE  /\ LET t == StoredBlock(s, p)
              IN  /\ t \in Sessions /\ t.state = s.state /\ t.prop = s.prop /\ t.held = s.held
                  /\ t.okSum = s.okSum /\ t.offset = s.offset + Len(BlockData(p.ver, p.blk))
           /\ LET t == FinishTransfer(StoredBlock(s, p))
              IN  t \in Sessions /\ t.state = "idle" /\ t.offset = 0 /\ t.okSum = s.okSum
  <1> DEFINE t == StoredBlock(s, p)
             n == Len(BlockData(p.ver, p.blk))
             sum == BlockSum(p.ver, p.blk)
  <1>1. n \in Nat /\ sum \in Seq(PageValues)
    BY BlockIs DEF PacketOK
  <1>2. t = [s EXCEPT !.offset = @ + n, !.total = @ \o sum]
    BY DEF StoredBlock
  <1> HIDE DEF t, n, sum
  <1>3. /\ t \in Sessions /\ t.state = s.state /\ t.prop = s.prop /\ t.held = s.held
        /\ t.okSum = s.okSum /\ t.offset = s.offset + n
    <2>1. s.offset + n \in Nat /\ s.total \o sum \in Seq(PageValues)
      BY <1>1, SessionIs
    <2>2. QED
      BY <1>2, <2>1 DEF Sessions
  <1>4. LET u == FinishTransfer(t)
        IN  u \in Sessions /\ u.state = "idle" /\ u.offset = 0 /\ u.okSum = s.okSum
    BY <1>3 DEF FinishTransfer, Sessions
  <1>5. QED
    BY <1>3, <1>4 DEF t, n

LEMMA NextBlockSound ==
    ASSUME DeviceOK, IsSeq(toHost), NEW s, Like(s), s.prop = srv.prop, s.state = "wrq",
           NEW p, PacketOK(p), p.op = "DATA", NextBlock(s, p)
    PROVE  Sound
  <1>0. s \in Sessions /\ FileOfSession(flash, ram, s, stale)
    BY LikeFits
  <1>1. CASE s.prop = "local" /\ s.held
    <2> DEFINE data == BlockData(p.ver, p.blk)
               part == BlockPart(p.ver, p.blk)
               after == IF p.blk = Blocks THEN FinishTransfer(StoredBlock(s, p))
                                          ELSE StoredBlock(s, p)
    <2>1. PICK o \in file_write(flash, ram, s.offset, data, part, faults) :
            IF o.ret < 0 THEN ErrorDone(o, s)
                         ELSE Answer(o, after, Reply("ACK", 0, Wire(p)))
      BY <1>1 DEF NextBlock, WriteBlock
    <2>2. ram.flag = "write" /\ ram.buffer = NoPage /\ ram.size = s.offset /\ OpenFile(flash, ram)
      BY <1>0, <1>1 DEF FileOfSession
    <2>3. /\ data \in Seq(PV) /\ part \in PV \cup {NoPage} /\ Len(data) \in Nat
          /\ p.blk # Blocks => part = NoPage
      BY BlockIs DEF PacketOK, PV
    <2> HIDE DEF data, part, after
    <2>4. /\ Result(PV, flash, ram, faults, o)
          /\ o.flash.info = flash.info /\ o.ram.flag = "write"
          /\ o.off => o.ret < 0
          /\ o.ret < 0 => o.ram.buffer = NoPage /\ o.ram.size <= Len(o.ram.checksum)
          /\ ~(o.ret < 0) => /\ OpenFile(o.flash, o.ram) /\ Whole(o.ram)
                             /\ o.ram.buffer = part /\ o.ram.size = s.offset + Len(data)
      <3>1. o \in file_write(flash, ram, ram.size, data, part, faults)
        BY <2>1, <2>2
      <3>2. flash \in Flashes(PV) /\ ram \in Rams(PV) /\ faults \in Nat
        BY FaultsIs DEF DeviceOK
      <3>3. /\ Result(PV, flash, ram, faults, o)
            /\ o.flash.info = flash.info /\ o.ram.flag = "write"
            /\ o.off => o.ret < 0
            /\ o.ret < 0 => o.ram.buffer = NoPage /\ o.ram.size <= Len(o.ram.checksum)
            /\ ~(o.ret < 0) => /\ OpenFile(o.flash, o.ram) /\ Whole(o.ram)
                               /\ o.ram.buffer = part /\ o.ram.size = ram.size + Len(data)
        BY <2>2, <2>3, <3>1, <3>2, FileWriteDoes
      <3>4. QED
        BY <2>2, <3>3
    <2>5. Here(o)
      BY <2>2, <2>4 DEF Here
    <2>6. CASE o.ret < 0
      <3>1. Closes(o)
        BY <2>4, <2>5, <2>6, FailedWriteCloses
      <3>2. Clearable(o, s)
        BY <1>0, <1>1, <3>1, IdleZero DEF Clearable
      <3>3. QED
        BY <2>1, <2>5, <2>6, <3>2, ErrorSound
    <2>7. CASE ~(o.ret < 0)
      <3>1. s.okSum = NoSum
        BY <1>0, <2>2 DEF FileOfSession, StoredSum
      <3>2. Fits(o, after)
        <4>1. CASE p.blk = Blocks
          <5>1. /\ after \in Sessions /\ after.state = "idle" /\ after.offset = 0
                /\ after.okSum = NoSum
            BY <1>0, <3>1, <4>1, StoredBlockIs DEF after
          <5>2. QED
            BY <2>4, <2>7, <5>1, PlainFits DEF Fits, Plain
        <4>2. CASE p.blk # Blocks
          <5>1. /\ after \in Sessions /\ after.state = "wrq" /\ after.okSum = NoSum
                /\ after.offset = s.offset + Len(data)
            BY <1>0, <3>1, <4>2, StoredBlockIs DEF after, data
          <5>2. o.ram.buffer = NoPage
            BY <2>3, <2>4, <2>7, <4>2
          <5>3. QED
            BY <2>4, <2>7, <5>1, <5>2 DEF Fits, FileOfSession, StoredSum
        <4>3. QED
          BY <4>1, <4>2
      <3>3. Reply("ACK", 0, Wire(p)).op # "OK"
        BY DEF Reply
      <3>4. QED
        BY <2>1, <2>4, <2>7, <3>2, <3>3, AnswerSound
    <2>8. QED
      BY <2>6, <2>7
  <1>2. CASE s.prop = "local" /\ ~s.held
    <2>1. ErrorDone(Outcome(flash, ram, -1, faults, FALSE), s)
      <3>1. Outcome(flash, ram, -1, faults, FALSE).ret < 0
        BY DEF Outcome
      <3>2. QED
        BY <1>2, <3>1 DEF NextBlock, WriteBlock
    <2>2. PICK o : o = Outcome(flash, ram, -1, faults, FALSE)
      OBVIOUS
    <2>3. o.flash = flash /\ o.ram = ram /\ Here(o)
      BY <2>2, NothingOpenIs
    <2>4. Clearable(o, s)
      BY <1>0, <1>2, <2>3, IdleZero DEF Clearable, FileOfSession
    <2>5. QED
      BY <2>1, <2>2, <2>3, <2>4, ErrorSound
  <1>3. CASE s.prop # "local"
    <2>1. Relay(s) \/ ErrorDone(Same, s)
      BY <1>3 DEF NextBlock
    <2>2. QED
      BY <1>0, <2>1, RelaySound, SameErrorSound
  <1>4. QED
    BY <1>0, <1>1, <1>2, <1>3, SessionIs

LEMMA DataSound ==
    ASSUME DeviceOK, IsSeq(toHost), NEW p, PacketOK(p), p.op = "DATA", RecvData(p)
    PROVE  Sound
  <1> DEFINE now == [srv EXCEPT !.idle = 0]
             s == Expanded(now, Wire(p))
             b == ExpandBlock(s, Wire(p))
             t == [s EXCEPT !.block = b]
  <1>1. Like(now) /\ now.prop = srv.prop
    BY IdleSet
  <1>2. Like(s) /\ s.prop = srv.prop
    <2>1. s \in {now, [now EXCEPT !.rlov = @ + 1]}
      BY DEF Expanded
    <2> HIDE DEF now, s
    <2>2. now \in Sessions
      BY <1>1 DEF Like
    <2>3. now.rlov \in Nat
      BY <2>2, SessionIs
    <2>4. now.rlov + 1 \in Nat
      BY <2>3
    <2>5. QED
      BY <1>1, <2>1, <2>4 DEF Like, Sessions
  <1>3. \/ now.state = "wrq" /\ (NextBlock(t, p) \/ SameBlock(s, p) \/ ErrorDone(Same, s))
        \/ ErrorDone(Same, TftpInit(now)) \/ ErrorDone(Same, now)
    BY DEF RecvData
  <1> HIDE DEF now, s
  <1>4. b \in Nat
    <2>1. Wire(p) \in Nat
      BY UploadAssumption DEF Wire, PacketOK
    <2>2. s.rlov \in Nat /\ BlockMod \in Nat
      BY <1>2, SessionIs, UploadAssumption DEF Like
    <2>3. s.rlov * BlockMod \in Nat
      BY <2>2, Products
    <2>4. QED
      BY <2>1, <2>2, <2>3 DEF ExpandBlock
  <1> HIDE DEF b
  <1>5. Like(t) /\ t.prop = srv.prop /\ t.state = s.state
    BY <1>2, <1>4 DEF Like, Sessions
  <1>6. s \in Sessions /\ FileOfSession(flash, ram, s, stale) /\ Fits(Same, s)
    BY <1>2, LikeFits
  <1>7. CASE ErrorDone(Same, TftpInit(now)) \/ ErrorDone(Same, now) \/ ErrorDone(Same, s)
    <2>1. TftpInit(now) \in Sessions /\ now \in Sessions
      BY <1>1, InitTyped DEF Like
    <2>2. QED
      BY <1>6, <1>7, <2>1, SameErrorSound
  <1>8. CASE now.state = "wrq" /\ NextBlock(t, p)
    <2>1. t.state = "wrq"
      BY <1>1, <1>2, <1>5, <1>8 DEF Like
    <2>2. QED
      BY <1>5, <1>8, <2>1, NextBlockSound
  <1>9. CASE SameBlock(s, p)
    <2>1. Reply("ACK", 0, Wire(p)).op # "OK"
      BY DEF Reply
    <2>2. CASE Answer(Same, s, Reply("ACK", 0, Wire(p)))
      BY <1>6, <2>1, <2>2, SameIs, AnswerSound
    <2>3. CASE Relay(s)
      BY <1>6, <2>3, RelaySound
    <2>4. CASE Leave(Same, s)
      BY <1>6, <2>4, SameIs, LeaveSound
    <2>5. QED
      BY <1>9, <2>2, <2>3, <2>4 DEF SameBlock
  <1>10. QED
    BY <1>3, <1>7, <1>8, <1>9

(* tftp_recv_sum: the host is told OK when its file has been closed, and   *)
(* when it had been before.                                                *)
LEMMA TrueOk ==
    ASSUME DeviceOK, IsSeq(toHost), NEW o, NEW s, NEW v \in Versions,
           Result(PV, flash, ram, faults, o), Answer(o, s, Reply("OK", v, 0)),
           ~o.off => Fits(o, s) /\ Stored(o.flash, v, StaleAfter(o))
    PROVE  Sound
  <1>1. CASE o.off
    BY <1>1, LeaveSound DEF Answer
  <1>2. CASE ~o.off
    <2>1. SendTo(s, <<Reply("OK", v, 0)>>) /\ Ends(o, s)
      BY <1>2 DEF Answer
    <2>2. DeviceOK' /\ stale' = StaleAfter(o) /\ flash' = o.flash
      BY <1>2, <2>1, EndsSound DEF Fits
    <2>3. IsSeq(toHost)' /\ (Len(toHost') > Len(toHost) => Last(toHost') = Reply("OK", v, 0))
      BY <2>1, SaidIs
    <2>4. \A w : Reply("OK", w, 0).ver = w
      BY DEF Reply
    <2>5. \A w : Reply("OK", w, 0) = Reply("OK", v, 0) => w = v
      BY <2>4
    <2>6. Stored(flash', v, stale')
      BY <1>2, <2>2 DEF Stored
    <2>7. OkIsTrue
      BY <2>3, <2>5, <2>6 DEF OkIsTrue
    <2>8. QED
      BY <2>2, <2>3, <2>7 DEF Sound
  <1>3. QED
    BY <1>1, <1>2

(* A close that returns more than 0 has stored the file.                   *)
LEMMA CloseIs ==
    ASSUME DeviceOK, NEW src \in Seq(PV), ~Twice(src), NEW o \in file_close(flash, ram, src, faults)
    PROVE  /\ Here(o) /\ OpenFile(o.flash, o.ram) /\ o.ret \in Int
           /\ o.ret > 0 => o.ram.flag # "write"
           /\ ClosedAs(flash, ram, src, faults, o)
  <1>1. flash \in Flashes(PV) /\ ram \in Rams(PV) /\ faults \in Nat /\ OpenFile(flash, ram)
    BY FaultsIs DEF DeviceOK, FileOfSession
  <1>2. /\ Result(PV, flash, ram, faults, o)
        /\ o.ram.flag \in {"closed", "write"} /\ OpenFile(o.flash, o.ram)
        /\ o.ram.flag = "write" => ram.flag = "write" /\ o.flash.info = flash.info /\ o.ret = -1
        /\ ClosedAs(flash, ram, src, faults, o)
    BY <1>1, FileCloseDoes
  <1>3. o.ret \in Int
    BY <1>2 DEF Result
  <1>4. o.ret > 0 => o.ram.flag # "write"
    BY <1>2
  <1>5. QED
    BY <1>2, <1>3, <1>4 DEF Here

LEMMA CloseStores ==
    ASSUME DeviceOK, NEW v \in Versions,
           NEW o \in file_close(flash, ram, FileSum(v), faults), o.ret > 0
    PROVE  /\ Stored(o.flash, v, StaleAfter(o)) /\ o.ram.flag # "write"
           /\ o.faults < faults \/ o.flash.info = FileInfo(v)
  <1>1. /\ FileSum(v) \in Seq(PV) /\ Len(FileSum(v)) = Length /\ ~Twice(FileSum(v))
    BY FileSumIs DEF PV
  <1>2. /\ Here(o) /\ o.ram.flag # "write"
        /\ ClosedAs(flash, ram, FileSum(v), faults, o)
    BY <1>1, CloseIs
  <1>3. /\ ram.flag = "write" /\ Prefix(o.flash, Length, FileSum(v))
        /\ o.flash.info \in {flash.info, Blank, Torn, FileInfo(v)}
        /\ o.faults = faults => o.flash.info = FileInfo(v)
    BY <1>1, <1>2 DEF ClosedAs, FileInfo
  <1>4. Readable(o.flash.info) /\ ~StaleAfter(o) => o.flash.info = FileInfo(v)
    BY <1>2, <1>3 DEF StaleAfter, Readable
  <1>5. o.faults < faults \/ o.faults = faults
    BY <1>2, FaultsIs DEF Here, Result
  <1>6. QED
    BY <1>2, <1>3, <1>4, <1>5, PrefixIsStored

LEMMA CompletedIs ==
    ASSUME NEW s \in Sessions, NEW p, PacketOK(p), NEW rst \in 0..RstMax
    PROVE  LET t == Completed(s, p)
               u == [t EXCEPT !.rst = rst]
           IN  /\ t \in Sessions /\ t.state = s.state /\ t.offset = s.offset
               /\ t.held = FALSE /\ t.okSum = FileSum(p.ver)
               /\ u \in Sessions /\ u.state = s.state /\ u.offset = s.offset
               /\ u.held = FALSE /\ u.okSum = FileSum(p.ver)
  <1>1. FileSum(p.ver) \in Seq(PageValues) /\ << >> \in Seq(PageValues)
    BY FileSumIs DEF PacketOK
  <1>2. LET t == Completed(s, p)
        IN  /\ t \in Sessions /\ t.state = s.state /\ t.offset = s.offset
            /\ t.held = FALSE /\ t.okSum = FileSum(p.ver)
    BY <1>1 DEF Completed, Sessions, NoSum
  <1>3. QED
    BY <1>2 DEF Sessions

LEMMA SumMatchesSound ==
    ASSUME DeviceOK, IsSeq(toHost), NEW s, Like(s), s.prop = srv.prop, NEW p, PacketOK(p),
           SumMatches(s, p)
    PROVE  Sound
  <1> DEFINE done == Completed(s, p)
             open == [Completed(s, p) EXCEPT !.rst = RstMax]
  <1>0. s \in Sessions /\ FileOfSession(flash, ram, s, stale)
    BY LikeFits
  <1>1. PICK o \in CloseFile(s, FileSum(p.ver)) :
          IF CloseFailed(o.ret)
            THEN ErrorDone(o, s)
            ELSE Leave(o, done) \/ Answer(o, open, Reply("OK", p.ver, 0))
    BY DEF SumMatches
  <1>2. p.ver \in Versions /\ RstMax \in 0..RstMax
    BY UploadAssumption DEF PacketOK
  <1>3. /\ FileSum(p.ver) \in Seq(PV) /\ ~Twice(FileSum(p.ver)) /\ FileSum(p.ver) # NoSum
    BY <1>2, FileSumIs DEF PV
  <1>4. CASE ~s.held
    <2>1. o = Outcome(flash, ram, -1, faults, FALSE)
      BY <1>1, <1>4 DEF CloseFile
    <2>2. o.flash = flash /\ o.ram = ram /\ Here(o) /\ o.ret = -1
      BY <2>1, NothingOpenIs
    <2>3. CloseFailed(o.ret)
      BY <2>2 DEF CloseFailed
    <2>4. Clearable(o, s)
      BY <1>0, <1>4, <2>2, IdleZero DEF Clearable, FileOfSession
    <2>5. QED
      BY <1>1, <2>2, <2>3, <2>4, ErrorSound
  <1>5. CASE s.held
    <2>1. o \in file_close(flash, ram, FileSum(p.ver), faults)
      BY <1>1, <1>5 DEF CloseFile
    <2>2. Here(o) /\ OpenFile(o.flash, o.ram) /\ o.ret \in Int
      BY <1>3, <2>1, CloseIs
    <2>3. CASE CloseFailed(o.ret)
      <3>1. Clearable(o, s)
        BY <1>0, <1>5, <2>2, SoundCloses, IdleZero DEF Clearable
      <3>2. QED
        BY <1>1, <2>2, <2>3, <3>1, ErrorSound
    <2>4. CASE ~CloseFailed(o.ret)
      <3>1. o.ret > 0
        BY <2>2, <2>4 DEF CloseFailed
      <3>2. Stored(o.flash, p.ver, StaleAfter(o)) /\ o.ram.flag # "write"
        BY <1>2, <2>1, <3>1, CloseStores
      <3>3. StoredSum(o.flash, o.ram, FileSum(p.ver), StaleAfter(o))
        BY <1>2, <3>2 DEF StoredSum
      <3>4. Fits(o, done) /\ Fits(o, open)
        <4>1. s.state # "wrq" => s.offset = 0
          BY <1>0 DEF FileOfSession
        <4>2. QED
          BY <1>0, <1>2, <2>2, <3>3, <4>1, CompletedIs DEF Fits, FileOfSession
      <3>5. QED
        BY <1>1, <1>2, <2>2, <2>4, <3>2, <3>4, LeaveSound, TrueOk DEF Here
    <2>5. QED
      BY <2>3, <2>4
  <1>6. QED
    BY <1>0, <1>4, <1>5, SessionIs

LEMMA SumDiffersSound ==
    ASSUME DeviceOK, IsSeq(toHost), NEW s, Like(s), s.prop = srv.prop, SumDiffers(s)
    PROVE  Sound
  <1> DEFINE t == [s EXCEPT !.held = FALSE]
  <1>1. PICK o \in CloseFile(s, NoSum) : ErrorDone(o, t)
    BY DEF SumDiffers
  <1>2. t \in Sessions /\ t.held = FALSE
    BY DEF Like, Sessions
  <1>3. Here(o) /\ OpenFile(o.flash, o.ram)
    <2>1. CASE s.held
      <3>1. NoSum \in Seq(PV) /\ ~Twice(NoSum)
        BY DEF NoSum, Twice
      <3>2. o \in file_close(flash, ram, NoSum, faults)
        BY <1>1, <2>1 DEF CloseFile
      <3>3. QED
        BY <3>1, <3>2, CloseIs
    <2>2. CASE ~s.held
      <3>1. o = Outcome(flash, ram, -1, faults, FALSE)
        BY <1>1, <2>2 DEF CloseFile
      <3>2. QED
        BY <3>1, NothingOpenIs DEF DeviceOK, FileOfSession
    <2>3. QED
      BY <2>1, <2>2
  <1>4. Clearable(o, t)
    BY <1>2, <1>3, IdleZero DEF Clearable
  <1>5. QED
    BY <1>1, <1>3, <1>4, ErrorSound

LEMMA SumSound ==
    ASSUME DeviceOK, IsSeq(toHost), NEW p, PacketOK(p), RecvSum(p) PROVE Sound
  <1> DEFINE s == [srv EXCEPT !.rmt = p.src, !.idle = 0]
  <1>1. Like(s) /\ s.prop = srv.prop
    BY FromLike
  <1>2. \/ AlreadyOk(s, p) /\ Answer(Same, s, Reply("OK", p.ver, 0))
        \/ SumMatches(s, p) \/ SumDiffers(s) \/ Relay(s) \/ ErrorDone(Same, s)
    BY DEF RecvSum
  <1> HIDE DEF s
  <1>3. s \in Sessions /\ FileOfSession(flash, ram, s, stale) /\ Fits(Same, s)
    BY <1>1, LikeFits
  <1>4. CASE AlreadyOk(s, p) /\ Answer(Same, s, Reply("OK", p.ver, 0))
    <2>1. PICK v \in Versions : s.okSum = FileSum(v) /\ Stored(flash, v, stale)
      BY <1>3, <1>4 DEF AlreadyOk, FileOfSession, StoredSum
    <2>2. p.ver \in Versions /\ v = p.ver
      BY <1>4, <2>1, FilesDiffer DEF AlreadyOk, PacketOK
    <2>3. Stored(Same.flash, p.ver, StaleAfter(Same))
      BY <2>1, <2>2, SameIs DEF Stored
    <2>4. QED
      BY <1>3, <1>4, <2>2, <2>3, SameIs, TrueOk
  <1>5. CASE SumMatches(s, p) \/ SumDiffers(s)
    BY <1>1, <1>5, SumMatchesSound, SumDiffersSound
  <1>6. CASE Relay(s) \/ ErrorDone(Same, s)
    BY <1>3, <1>6, RelaySound, SameErrorSound
  <1>7. QED
    BY <1>2, <1>4, <1>5, <1>6

-----------------------------------------------------------------------------
(* tftp_send_data and tftp_recv_ack.                                       *)
LEMMA SmallestIs ==
    ASSUME NEW a \in Int, NEW b \in Int PROVE Min({a, b}) \in {a, b} /\ Max({a, b}) \in {a, b}
  <1>1. \E x \in {a, b} : \A y \in {a, b} : x <= y
    OBVIOUS
  <1>2. \E x \in {a, b} : \A y \in {a, b} : x >= y
    OBVIOUS
  <1>3. QED
    BY <1>1, <1>2, Zenon DEF Min, Max

LEMMA ReadBlockIs ==
    ASSUME NEW n \in Nat, NEW size \in Nat
    PROVE  Len(ReadBlock(n + 1, size)) \in Int
  <1> DEFINE offset == (n + 1 - 1) * BlockPages
             rest == Max({0, size - offset})
             m == Min({BlockPages, rest})
             at(i) == flash.pages[offset + i - 1]
  <1>1. BlockPages \in Nat
    BY UploadAssumption
  <1>2. offset \in Int
    BY <1>1
  <1> HIDE DEF offset
  <1>3. rest \in Nat
    <2>1. PICK left \in Int : left = size - offset
      BY <1>2
    <2>2. rest = Max({0, left})
      BY <2>1, Zenon
    <2>i. Max({0, left}) \in {0, left}
      <3>1. 0 \in Int
        OBVIOUS
      <3>2. QED
        BY <3>1, SmallestIs, Zenon
    <2>3. Max({0, left}) >= 0
      <3>1. \E x \in {0, left} : \A y \in {0, left} : x >= y
        OBVIOUS
      <3>2. \A y \in {0, left} : Max({0, left}) >= y
        BY <3>1, Zenon DEF Max
      <3>3. QED
        BY <3>2
    <2> HIDE DEF rest
    <2>4. QED
      BY <2>2, <2>i, <2>3
  <1> HIDE DEF rest
  <1>4. m \in Nat
    BY <1>1, <1>3, SmallestIs
  <1> HIDE DEF m
  <1>5. ReadBlock(n + 1, size) = [i \in 1..m |-> at(i)]
    BY DEF ReadBlock, offset, m, rest
  <1> HIDE DEF at
  <1>6. Len([i \in 1..m |-> at(i)]) = m
    <2>1. [i \in 1..m |-> at(i)] \in Seq({at(i) : i \in 1..m})
      BY <1>4
    <2>2. DOMAIN [i \in 1..m |-> at(i)] = 1..m
      OBVIOUS
    <2>3. QED
      BY <1>4, <2>1, <2>2
  <1>7. QED
    BY <1>4, <1>5, <1>6

LEMMA ReadFits ==
    ASSUME DeviceOK, NEW o, Here(o), OpenFile(o.flash, o.ram),
           NEW t \in Sessions, t.state # "wrq", t.offset = 0, t.okSum = srv.okSum
    PROVE  Fits(o, t)
  <1>1. StoredSum(flash, ram, srv.okSum, stale)
    BY DEF DeviceOK, FileOfSession
  <1>2. StoredSum(o.flash, o.ram, t.okSum, StaleAfter(o))
    BY <1>1, StillStored
  <1>3. QED
    BY <1>2 DEF Fits, FileOfSession

LEMMA SendDataSound ==
    ASSUME DeviceOK, IsSeq(toHost), NEW s, Like(s), s.state = "rrq", NEW n \in Nat,
           SendData(s, n + 1)
    PROVE  Sound
  <1> DEFINE data == ReadBlock(n + 1, s.size)
             sent == [s EXCEPT !.held = FALSE, !.state = "idle"]
  <1>1. Len(data) \in Int
    BY ReadBlockIs, SessionIs DEF Like
  <1>2. PICK o \in IF data = << >> THEN {Same} ELSE file_read(flash, ram, Len(data), faults) :
          IF o.off THEN Leave(o, s)
          ELSE IF o.ret < 0 THEN Answer(o, s, Reply("ERROR", 0, 0))
          ELSE IF ~IsLast(data) THEN Answer(o, s, DataReply(n + 1, data))
          ELSE \/ \E c \in file_close(flash, o.ram, NoSum, o.faults) :
                    Answer(c, IF c.ret < 0 THEN s ELSE sent, DataReply(n + 1, data))
               \/ o.faults > 0 /\ Leave([o EXCEPT !.faults = @ - 1], s)
    BY DEF SendData
  <1> HIDE DEF data
  <1>3. /\ s \in Sessions /\ s.state # "wrq" /\ s.offset = 0 /\ s.okSum = srv.okSum
        /\ sent \in Sessions /\ sent.state # "wrq" /\ sent.offset = 0 /\ sent.okSum = srv.okSum
    <2>1. srv.state # "wrq" => srv.offset = 0
      BY DEF DeviceOK, FileOfSession
    <2>2. QED
      BY <2>1 DEF Like, Sessions
  <1>4. OpenFile(flash, ram) /\ faults \in Nat /\ flash \in Flashes(PV) /\ ram \in Rams(PV)
    BY FaultsIs DEF DeviceOK, FileOfSession
  <1>5. Result(PV, flash, ram, faults, o) /\ o.flash = flash /\ o.ram = ram
    BY <1>1, <1>2, <1>4, SameIs, FileReadDoes
  <1>6. Here(o)
    BY <1>5 DEF Here
  <1>7. Fits(o, s)
    BY <1>3, <1>4, <1>5, <1>6, ReadFits
  <1>8. Reply("ERROR", 0, 0).op # "OK" /\ DataReply(n + 1, data).op # "OK"
    BY DEF Reply, DataReply
  <1>9. CASE Leave(o, s) \/ Answer(o, s, Reply("ERROR", 0, 0)) \/ Answer(o, s, DataReply(n + 1, data))
    BY <1>5, <1>7, <1>8, <1>9, LeaveSound, AnswerSound
  <1>10. CASE \E c \in file_close(flash, o.ram, NoSum, o.faults) :
                Answer(c, IF c.ret < 0 THEN s ELSE sent, DataReply(n + 1, data))
    <2>1. PICK c \in file_close(o.flash, o.ram, NoSum, o.faults) :
            Answer(c, IF c.ret < 0 THEN s ELSE sent, DataReply(n + 1, data))
      BY <1>5, <1>10
    <2>2. NoSum \in Seq(PV) /\ ~Twice(NoSum)
      BY DEF NoSum, Twice
    <2>3. /\ o.flash \in Flashes(PV) /\ o.ram \in Rams(PV) /\ o.faults \in Nat
          /\ OpenFile(o.flash, o.ram)
      BY <1>4, <1>5 DEF Result
    <2>4. /\ Result(PV, o.flash, o.ram, o.faults, c) /\ OpenFile(c.flash, c.ram)
          /\ c.ram.flag = "write" => o.ram.flag = "write" /\ c.flash.info = o.flash.info
      BY <2>1, <2>2, <2>3, FileCloseDoes
    <2>5. Result(PV, flash, ram, faults, c)
      BY <1>4, <1>6, <2>4, ThenHere
    <2>6. Here(c)
      BY <1>5, <2>4, <2>5 DEF Here
    <2>7. Fits(c, IF c.ret < 0 THEN s ELSE sent)
      BY <1>3, <2>4, <2>6, ReadFits
    <2>8. QED
      BY <1>8, <2>1, <2>5, <2>7, AnswerSound
  <1>11. CASE o.faults > 0 /\ Leave([o EXCEPT !.faults = @ - 1], s)
    <2>1. PICK c : c = [o EXCEPT !.faults = @ - 1]
      OBVIOUS
    <2>2. o \in {Same} \/ o \in file_read(flash, ram, Len(data), faults)
      BY <1>2
    <2>3. o = Outcome(o.flash, o.ram, o.ret, o.faults, o.off)
      <3>1. CASE o = Same
        BY <3>1 DEF Same, Outcome
      <3>2. CASE o \in file_read(flash, ram, Len(data), faults)
        <4>1. \/ \E m \in {-1, Len(data)} : o = Outcome(flash, ram, m, faults, FALSE)
              \/ \E off \in BOOLEAN : o = Outcome(flash, ram, -1, faults - 1, off)
          BY <3>2 DEF file_read, ReadFails
        <4>2. QED
          BY <4>1 DEF Outcome
      <3>3. QED
        BY <2>2, <3>1, <3>2
    <2>4. c = Outcome(o.flash, o.ram, o.ret, o.faults - 1, o.off)
      BY <2>1, <2>3 DEF Outcome
    <2>5. /\ c.flash = o.flash /\ c.ram = o.ram /\ c.ret = o.ret /\ c.faults = o.faults - 1
          /\ c.off = o.off
      BY <2>4 DEF Outcome
    <2>6. o.faults - 1 \in Nat /\ o.faults - 1 <= faults
      <3>1. o.faults \in Nat /\ o.faults <= faults
        BY <1>5 DEF Result
      <3>2. QED
        BY <1>4, <1>11, <3>1
    <2>7. Result(PV, flash, ram, faults, c)
      BY <1>5, <2>5, <2>6 DEF Result
    <2>8. Here(c) /\ OpenFile(c.flash, c.ram)
      BY <1>4, <1>5, <2>5, <2>7 DEF Here
    <2>9. Fits(c, s)
      BY <1>3, <2>8, ReadFits
    <2>10. QED
      BY <1>11, <2>1, <2>7, <2>9, LeaveSound
  <1>12. QED
    BY <1>2, <1>9, <1>10, <1>11

LEMMA AckSound ==
    ASSUME DeviceOK, IsSeq(toHost), NEW p, PacketOK(p), RecvAck(p) PROVE Sound
  <1> DEFINE s == [srv EXCEPT !.rmt = p.src, !.idle = 0]
             here == [s EXCEPT !.prop = "local"]
             board == [s EXCEPT !.prop = "remote"]
  <1>1. Like(s) /\ s.prop = srv.prop
    BY FromLike
  <1>2. \/ s.state = "rrq" /\ SendData(here, p.blk + 1)
        \/ Leave(Same, s) \/ Relay(board)
    BY DEF RecvAck
  <1> HIDE DEF s
  <1>3. Like(here) /\ Like(board) /\ board.prop = "remote"
    BY <1>1, PropSet
  <1> HIDE DEF here, board
  <1>4. CASE s.state = "rrq" /\ SendData(here, p.blk + 1)
    <2>1. here.state = "rrq"
      BY <1>1, <1>3, <1>4 DEF Like
    <2>2. p.blk \in Nat
      BY DEF PacketOK
    <2>3. QED
      BY <1>3, <1>4, <2>1, <2>2, SendDataSound
  <1>5. CASE Leave(Same, s) \/ Relay(board)
    <2>1. Fits(Same, s)
      BY <1>1, LikeFits
    <2>2. board \in Sessions /\ FileOfSession(flash, ram, board, stale)
      BY <1>3, LikeFits
    <2>3. QED
      BY <1>5, <2>1, <2>2, SameIs, LeaveSound, RelaySound
  <1>6. QED
    BY <1>2, <1>4, <1>5

-----------------------------------------------------------------------------
(* The steps of the device.                                                *)
LEMMA ReceiveSound ==
    ASSUME DeviceOK, IsSeq(toHost), PacketOK(Head(toServer)), Receive
    PROVE  Sound
  <1> DEFINE p == Head(toServer)
  <1>1. Handle(p) /\ PacketOK(p)
    BY DEF Receive
  <1> HIDE DEF p
  <1>2. CASE Busy(p)
    BY <1>1, <1>2, BusySound DEF Handle
  <1>3. CASE ~Busy(p)
    <2>1. p.op \in {"RRQ", "WRQ", "LCK", "DIFF", "REQ"} => srv.state = "idle"
      BY <1>3 DEF Busy
    <2>2. \/ p.op = "RRQ" /\ (RecvRrqLocal(p) \/ RecvRrqRemote(p))
          \/ p.op = "WRQ" /\ (RecvWrqLocal(p) \/ RecvWrqRemote(p))
          \/ p.op = "LCK" /\ RecvLck(p)
          \/ p.op = "REQ" /\ RecvReq(p)
          \/ p.op = "DIFF" /\ RecvDiff(p)
          \/ p.op = "DATA" /\ RecvData(p)
          \/ RecvSum(p) \/ RecvStop(p) \/ RecvRst(p) \/ RecvAck(p)
      BY <1>1, <1>3 DEF Handle
    <2>3. CASE p.op \in {"RRQ", "WRQ", "LCK", "DIFF", "REQ"} /\ srv.state = "idle" /\
               (\/ RecvRrqLocal(p) \/ RecvRrqRemote(p) \/ RecvWrqLocal(p) \/ RecvWrqRemote(p)
                \/ RecvLck(p) \/ RecvReq(p) \/ RecvDiff(p))
      BY <1>1, <2>3, RrqLocalSound, WrqLocalSound, WrqRemoteSound, QueriesSound, DiffSound
    <2>4. CASE (p.op = "DATA" /\ RecvData(p)) \/ RecvSum(p) \/ RecvStop(p) \/ RecvRst(p) \/ RecvAck(p)
      BY <1>1, <2>4, DataSound, SumSound, StopSound, RstSound, AckSound
    <2>5. QED
      BY <2>1, <2>2, <2>3, <2>4
  <1>4. QED
    BY <1>2, <1>3

LEMMA TickSound ==
    ASSUME DeviceOK, IsSeq(toHost), Tick PROVE Sound
  <1> DEFINE s == Older(srv)
             t == [s EXCEPT !.idle = 0]
  <1>1. srv \in Sessions
    BY DEF DeviceOK
  <1>2. /\ s = [srv EXCEPT !.rst = IF @ > 0 THEN @ - 1 ELSE 0,
                           !.idle = IF srv.state = "idle" THEN 0 ELSE @ + 1]
    BY DEF Older
  <1> HIDE DEF s
  <1>3. /\ (IF srv.rst > 0 THEN srv.rst - 1 ELSE 0) \in 0..RstMax /\ 0 \in 0..IdleMax-1
        /\ (IF srv.state = "idle" THEN 0 ELSE srv.idle + 1) \in Nat
    BY <1>1, SessionIs, UploadAssumption
  <1>4. t = [srv EXCEPT !.rst = IF @ > 0 THEN @ - 1 ELSE 0, !.idle = 0]
    BY <1>1, <1>2 DEF Sessions
  <1>5. t \in Sessions
    BY <1>1, <1>3, <1>4 DEF Sessions
  <1>6. CASE s.idle < IdleMax /\ Ends(Same, s)
    <2>1. s.idle = IF srv.state = "idle" THEN 0 ELSE srv.idle + 1
      BY <1>1, <1>2 DEF Sessions
    <2>2. s.idle \in 0..IdleMax-1
      BY <1>3, <1>6, <2>1, UploadAssumption
    <2>3. /\ s \in Sessions /\ s.state = srv.state /\ s.offset = srv.offset
          /\ s.held = srv.held /\ s.okSum = srv.okSum /\ s.prop = srv.prop
      <3>1. (IF srv.state = "idle" THEN 0 ELSE srv.idle + 1) \in 0..IdleMax-1
        BY <2>1, <2>2
      <3>2. QED
        BY <1>1, <1>2, <1>3, <3>1 DEF Sessions
    <2>4. Fits(Same, s)
      BY <2>3, SameFile, SameFits
    <2>5. DeviceOK'
      BY <1>6, <2>4, SameIs, EndsSound DEF Fits
    <2>6. QED
      BY <2>5, NothingSaid DEF Tick
  <1>7. CASE ClearState(Same, s)
    <2>1. DeviceOK'
      BY <1>5, <1>7, SameIs, SameClearable, ClearSound DEF Clearable
    <2>2. QED
      BY <2>1, NothingSaid DEF Tick
  <1>8. QED
    BY <1>6, <1>7 DEF Tick, s

LEMMA CanSound ==
    ASSUME DeviceOK, IsSeq(toHost), NEW op, CanSendPacket(op) PROVE Sound
  <1> DEFINE s == [srv EXCEPT !.idle = 0]
             opened == IF op = "OK" THEN [s EXCEPT !.rst = RstMax] ELSE s
  <1>1. Fits(Same, s) /\ s \in Sessions
    BY IdleSet, LikeFits
  <1>2. opened \in Sessions
    <2>1. RstMax \in 0..RstMax
      BY UploadAssumption
    <2>2. QED
      BY <1>1, <2>1 DEF Sessions
  <1>3. CASE Leave(Same, s)
    BY <1>1, <1>3, SameIs, LeaveSound
  <1>4. CASE SendTo(s, <<Reply(op, 0, 0)>>) /\ (ClearState(Same, opened) \/ Ends(Same, s))
    <2>1. [opened EXCEPT !.idle = 0] \in Sessions
      BY <1>2, IdleZero
    <2>2. DeviceOK'
      BY <1>1, <1>4, <2>1, SameIs, SameClearable, ClearSound, EndsSound DEF Clearable, Fits
    <2>3. Reply(op, 0, 0).ver \notin 1..Attempts
      BY DEF Reply
    <2>4. QED
      BY <1>4, <2>2, <2>3, OtherSaid
  <1>5. QED
    BY <1>3, <1>4 DEF CanSendPacket

LEMMA RestartSound ==
    ASSUME DeviceOK, IsSeq(toHost), Restart PROVE Sound
  <1>1. /\ flash' = flash /\ faults' = faults /\ toHost' = toHost
        /\ ram' = ClosedRam /\ srv' = Boot /\ stale' = (stale \/ ram.flag = "write")
    BY DEF Restart, Restarted
  <1>2. DeviceOK'
    <2>1. InfoTruthful'
      BY <1>1 DEF DeviceOK, InfoTruthful
    <2>2. (FileOfSession(flash, ram, srv, stale))'
      <3>1. Boot.okSum = NoSum /\ Boot.state = "idle" /\ Boot.offset = 0
        BY DEF Boot
      <3>2. QED
        BY <1>1, <3>1, ClosedRamIs DEF FileOfSession, OpenFile, StoredSum
    <2>3. ram' \in Rams(PV) /\ srv' \in Sessions
      BY <1>1, ClosedRamIs, BootTyped
    <2>4. stale' \in BOOLEAN
      BY <1>1 DEF DeviceOK
    <2>5. QED
      BY <1>1, <2>1, <2>2, <2>3, <2>4 DEF DeviceOK, PV, PageValues, Versions, Sessions
  <1>3. QED
    BY <1>1, <1>2, NothingSaid

(* A step of the network or of the host touches nothing of the device, and *)
(* takes replies from the wire only.                                       *)
LEMMA HostOnlySound ==
    ASSUME DeviceOK, IsSeq(toHost), HostOnly,
           toHost' = toHost \/ toHost' = << >> \/ (toHost # << >> /\ toHost' = Tail(toHost))
    PROVE  Sound
  <1>1. DeviceOK'
    BY DEF HostOnly, DeviceOK, FileOfSession, StoredSum, OpenFile, InfoTruthful, Stored,
       PV, PageValues, Versions, Sessions
  <1>2. PICK S : toHost \in Seq(S)
    BY DEF IsSeq
  <1>3. CASE toHost' = toHost
    BY <1>1, <1>3, NothingSaid
  <1>4. CASE toHost' = << >>
    <2>1. toHost' \in Seq(S) /\ ~(Len(toHost') > Len(toHost))
      BY <1>2, <1>4
    <2>2. QED
      BY <1>1, <2>1 DEF Sound, OkIsTrue, IsSeq
  <1>5. CASE toHost # << >> /\ toHost' = Tail(toHost)
    <2>1. toHost' \in Seq(S) /\ ~(Len(toHost') > Len(toHost))
      BY <1>2, <1>5
    <2>2. QED
      BY <1>1, <2>1 DEF Sound, OkIsTrue, IsSeq
  <1>6. QED
    BY <1>3, <1>4, <1>5

-----------------------------------------------------------------------------
(* The host and the wires.                                                 *)
HostFields == {"pc", "ver", "blk", "tries", "got"}

HostOK ==
    /\ DOMAIN host = HostFields
    /\ host.pc \in {"idle", "wrq", "data", "sum", "ok", "rrq", "read", "got"}
    /\ host.ver \in 0..Attempts /\ host.blk \in Nat
    /\ host.pc = "data" => host.blk \in 1..Blocks

WireOK(s) == IsSeq(s) /\ \A i \in 1..Len(s) : PacketOK(s[i])

Inv == /\ DeviceOK /\ HostOK /\ WireOK(toServer) /\ IsSeq(toHost)
       /\ mishaps \in 0..Mishaps /\ spoilt \in BOOLEAN

LEMMA HeadIsOK ==
    ASSUME NEW s, WireOK(s), s # << >>
    PROVE  PacketOK(Head(s)) /\ WireOK(Tail(s))
  <1>1. PICK S : s \in Seq(S)
    BY DEF WireOK, IsSeq
  <1>2. Len(s) \in Nat /\ Len(s) >= 1 /\ Head(s) = s[1]
    BY <1>1
  <1>3. Tail(s) \in Seq(S) /\ Len(Tail(s)) = Len(s) - 1
        /\ \A i \in 1..Len(s)-1 : Tail(s)[i] = s[i + 1]
    BY <1>1
  <1>4. \A i \in 1..Len(s)-1 : i + 1 \in 1..Len(s)
    BY <1>2
  <1>5. QED
    BY <1>2, <1>3, <1>4 DEF WireOK, IsSeq

LEMMA AppendIsOK ==
    ASSUME NEW s, WireOK(s), NEW p, PacketOK(p)
    PROVE  WireOK(Append(s, p))
  <1>1. PICK S : s \in Seq(S)
    BY DEF WireOK, IsSeq
  <1>2. s \in Seq(S \cup {p}) /\ p \in S \cup {p} /\ Len(s) \in Nat
    BY <1>1
  <1>3. /\ Append(s, p) \in Seq(S \cup {p}) /\ Len(Append(s, p)) = Len(s) + 1
        /\ Append(s, p)[Len(s) + 1] = p
        /\ \A i \in 1..Len(s) : Append(s, p)[i] = s[i]
    BY <1>2
  <1>4. \A i \in 1..Len(s)+1 : i \in 1..Len(s) \/ i = Len(s) + 1
    BY <1>2
  <1>5. QED
    BY <1>3, <1>4 DEF WireOK, IsSeq

LEMMA EmptyIsOK == IsSeq(<< >>) /\ WireOK(<< >>)
  <1>1. << >> \in Seq({}) /\ Len(<< >>) = 0 /\ 1..0 = {}
    OBVIOUS
  <1>2. QED
    BY <1>1 DEF WireOK, IsSeq

LEMMA PacketIsOK ==
    ASSUME NEW op \in Ops, NEW dst \in {"self", "board"}, NEW src \in {Host, Tool},
           NEW v \in Versions, NEW b \in Nat, op = "DATA" => b \in 1..Blocks
    PROVE  PacketOK(Packet(op, dst, src, v, b))
  BY DEF PacketOK, Packet

LEMMA HostPacketIsOK ==
    ASSUME HostOK, NEW op \in Ops, NEW b \in Nat, op = "DATA" => b \in 1..Blocks
    PROVE  PacketOK(HostPacket(op, b))
  <1>1. host.ver \in Versions
    BY DEF HostOK, Versions
  <1>2. QED
    BY <1>1, PacketIsOK DEF HostPacket

LEMMA ToolPacketIsOK ==
    ASSUME NEW p \in ToolPackets PROVE PacketOK(p)
  <1>1. ToolVersion \in Versions /\ 0 \in Nat /\ 1 \in Nat /\ 1 \in 1..Blocks
    BY UploadAssumption DEF Versions
  <1>2. CASE \E op \in {"RRQ", "WRQ", "LCK", "DIFF", "RST", "ACK"}, d \in {"self", "board"} :
               p = Packet(op, d, Tool, ToolVersion, 0)
    BY <1>1, <1>2, PacketIsOK DEF Ops
  <1>3. CASE \E op \in {"SUM", "STOP"} : p = Packet(op, "self", Tool, ToolVersion, 0)
    BY <1>1, <1>3, PacketIsOK DEF Ops
  <1>4. CASE p = Packet("DATA", "self", Tool, ToolVersion, 1)
    BY <1>1, <1>4, PacketIsOK DEF Ops
  <1>5. CASE p = Packet("REQ", "board", Tool, ToolVersion, 0)
    BY <1>1, <1>5, PacketIsOK DEF Ops
  <1>6. QED
    BY <1>2, <1>3, <1>4, <1>5 DEF ToolPackets

LEMMA SentIsOK ==
    ASSUME WireOK(toServer), NEW p, PacketOK(p), Sends(p)
    PROVE  WireOK(toServer)'
  <1>1. WireOK(Append(toServer, p)) /\ toServer' = Append(toServer, p)
    BY AppendIsOK DEF Sends
  <1>2. QED
    BY <1>1 DEF WireOK, IsSeq, PacketOK, Versions, Ops

LEMMA MishapIs ==
    ASSUME mishaps \in 0..Mishaps, mishaps' = mishaps \/ (mishaps > 0 /\ mishaps' = mishaps - 1)
    PROVE  mishaps' \in 0..Mishaps
  BY UploadAssumption

\* A step outside the device keeps what is outside it.
Outside == HostOK' /\ WireOK(toServer)' /\ mishaps' \in 0..Mishaps /\ spoilt' \in BOOLEAN

LEMMA SameOutside ==
    ASSUME Inv
    PROVE  /\ host' = host => HostOK'
           /\ toServer' = toServer => WireOK(toServer)'
           /\ (toServer # << >> /\ toServer' = Tail(toServer)) => WireOK(toServer)'
           /\ toServer' = << >> => WireOK(toServer)'
           /\ mishaps' = mishaps => mishaps' \in 0..Mishaps
           /\ spoilt' = spoilt => spoilt' \in BOOLEAN
  <1>1. host' = host => HostOK'
    BY DEF Inv, HostOK, HostFields
  <1>2. toServer # << >> => WireOK(Tail(toServer))
    BY HeadIsOK DEF Inv
  <1>3. \A s : WireOK(s) /\ toServer' = s => WireOK(toServer)'
    BY DEF WireOK, IsSeq, PacketOK, Versions, Ops
  <1>4. QED
    BY <1>1, <1>2, <1>3, EmptyIsOK DEF Inv

LEMMA StartKeeps == ASSUME Inv, HostStart PROVE Outside
  <1>1. host.ver \in 0..Attempts /\ host.ver < Attempts /\ Attempts \in Nat
    BY UploadAssumption DEF Inv, HostOK, HostStart
  <1>2. host.ver + 1 \in 0..Attempts
    BY <1>1
  <1>3. HostOK'
    BY <1>2 DEF HostStart, HostOK, HostFields
  <1>4. PacketOK(Packet("WRQ", "self", Host, host.ver + 1, 0))
    BY <1>2, PacketIsOK DEF Versions, Ops
  <1>5. WireOK(toServer)'
    BY <1>4, SentIsOK DEF HostStart, Inv
  <1>6. spoilt' \in BOOLEAN /\ mishaps' = mishaps
    BY DEF HostStart
  <1>7. QED
    BY <1>3, <1>5, <1>6 DEF Outside, Inv

LEMMA ReadKeeps == ASSUME Inv, HostRead \/ HostReset PROVE Outside
  <1>1. PacketOK(HostPacket("RRQ", 0)) /\ PacketOK(HostPacket("RST", 0))
    BY HostPacketIsOK DEF Inv, Ops
  <1>2. WireOK(toServer)'
    BY <1>1, SentIsOK DEF HostRead, HostReset, Inv
  <1>3. HostOK'
    <2>1. HostOK
      BY DEF Inv
    <2>2. CASE host' = [host EXCEPT !.pc = "rrq", !.blk = 0, !.tries = 0]
      BY <2>1, <2>2 DEF HostOK, HostFields
    <2>3. CASE host' = [host EXCEPT !.pc = "idle"]
      BY <2>1, <2>3 DEF HostOK, HostFields
    <2>4. QED
      BY <2>2, <2>3 DEF HostRead, HostReset
  <1>4. QED
    BY <1>2, <1>3, SameOutside DEF Outside, HostRead, HostReset

LEMMA ReplyKeeps == ASSUME Inv, HostReceive PROVE Outside
  <1> DEFINE r == Head(toHost)
             moves == [host EXCEPT !.tries = 0]
  <1> DEFINE done == [moves EXCEPT !.pc = "idle"]
             ok == [moves EXCEPT !.pc = "ok"]
             opened == [moves EXCEPT !.pc = "read"]
             got == [moves EXCEPT !.pc = IF Short(r.data) THEN "got" ELSE "read",
                                  !.blk = @ + 1, !.got = @ \o r.data]
             next == [moves EXCEPT !.pc = "data", !.blk = @ + 1]
             last == [moves EXCEPT !.pc = "sum"]
  <1>1. \/ (HostNext(host) \/ HostNext(done) \/ HostNext(ok)) /\ UNCHANGED toServer
        \/ HostNext(opened) /\ Sends(HostPacket("ACK", 0))
        \/ HostNext(got) /\ Sends(HostPacket("ACK", host.blk + 1))
        \/ host.blk < Blocks /\ HostNext(next) /\ Sends(HostPacket("DATA", host.blk + 1))
        \/ HostNext(last) /\ Sends(HostPacket("SUM", 0))
    BY DEF HostReceive
  <1>2. HostOK /\ WireOK(toServer)
    BY DEF Inv
  <1>3. host.blk \in Nat /\ host.blk + 1 \in Nat /\ (host.blk < Blocks => host.blk + 1 \in 1..Blocks)
    BY <1>2, UploadAssumption DEF HostOK
  <1>4. HostOK'
    <2>1. \A h \in {host, done, ok, opened, got, last} :
            /\ DOMAIN h = HostFields /\ h.ver = host.ver /\ h.blk \in Nat
            /\ h.pc \in {host.pc, "idle", "ok", "read", "got", "sum"}
            /\ h.pc = "data" => h = host
      BY <1>2, <1>3 DEF HostOK, HostFields
    <2>2. /\ DOMAIN next = HostFields /\ next.ver = host.ver /\ next.blk = host.blk + 1
          /\ next.pc = "data"
      BY <1>2, <1>3 DEF HostOK, HostFields
    <2> HIDE DEF done, ok, opened, got, next, last
    <2>3. CASE \E h \in {host, done, ok, opened, got, last} : HostNext(h)
      BY <1>2, <2>1, <2>3 DEF HostNext, HostOK
    <2>4. CASE host.blk < Blocks /\ HostNext(next)
      BY <1>2, <1>3, <2>2, <2>4 DEF HostNext, HostOK
    <2>5. QED
      BY <1>1, <2>3, <2>4
  <1>5. /\ PacketOK(HostPacket("ACK", 0)) /\ PacketOK(HostPacket("ACK", host.blk + 1))
        /\ PacketOK(HostPacket("SUM", 0))
        /\ host.blk < Blocks => PacketOK(HostPacket("DATA", host.blk + 1))
    BY <1>2, <1>3, HostPacketIsOK DEF Ops
  <1> HIDE DEF done, ok, opened, got, next, last
  <1>6. WireOK(toServer)'
    BY <1>1, <1>2, <1>5, SentIsOK, SameOutside
  <1>7. mishaps' = mishaps /\ spoilt' = spoilt
    BY <1>1 DEF HostNext
  <1>8. QED
    BY <1>4, <1>6, <1>7, SameOutside DEF Outside

LEMMA RepeatKeeps == ASSUME Inv, HostRepeat PROVE Outside
  <1>1. HostOK /\ WireOK(toServer) /\ spoilt \in BOOLEAN
    BY DEF Inv
  <1>2. PacketOK(Current)
    <2>1. /\ host.pc \in {"wrq", "data", "sum", "rrq", "read"} /\ host.blk \in Nat
          /\ host.pc = "data" => host.blk \in 1..Blocks
      BY <1>1 DEF HostRepeat, Waiting, Uploading, Reading, HostOK
    <2>2. /\ host.pc = "wrq" => Current = HostPacket("WRQ", 0)
          /\ host.pc = "data" => Current = HostPacket("DATA", host.blk)
          /\ host.pc = "sum" => Current = HostPacket("SUM", 0)
          /\ host.pc = "rrq" => Current = HostPacket("RRQ", 0)
          /\ host.pc = "read" => Current = HostPacket("ACK", host.blk)
      BY DEF Current
    <2>3. QED
      BY <1>1, <2>1, <2>2, HostPacketIsOK DEF Ops
  <1>3. WireOK(toServer)'
    BY <1>1, <1>2, SentIsOK DEF HostRepeat
  <1>4. HostOK'
    BY <1>1 DEF HostRepeat, HostOK, HostFields
  <1>5. mishaps' \in 0..Mishaps /\ spoilt' \in BOOLEAN
    BY <1>1, MishapIs DEF HostRepeat, Inv
  <1>6. QED
    BY <1>3, <1>4, <1>5 DEF Outside

LEMMA GiveUpKeeps == ASSUME Inv, HostGiveUp PROVE Outside
  <1>1. HostOK /\ WireOK(toServer) /\ spoilt \in BOOLEAN
    BY DEF Inv
  <1>2. PacketOK(HostPacket("STOP", 0))
    BY <1>1, HostPacketIsOK DEF Ops
  <1>3. WireOK(toServer)'
    BY <1>1, <1>2, SentIsOK, SameOutside DEF HostGiveUp
  <1>4. HostOK'
    BY <1>1 DEF HostGiveUp, HostOK, HostFields
  <1>5. mishaps' \in 0..Mishaps /\ spoilt' \in BOOLEAN
    BY <1>1, MishapIs DEF HostGiveUp, Inv
  <1>6. QED
    BY <1>3, <1>4, <1>5 DEF Outside

LEMMA NetworkKeeps == ASSUME Inv, Lose \/ ToolSends PROVE Outside
  <1>1. WireOK(toServer) /\ spoilt \in BOOLEAN /\ host' = host
    BY DEF Inv, Lose, ToolSends
  <1>2. HostOK'
    BY <1>1, SameOutside
  <1>3. WireOK(toServer)'
    <2>1. \/ toServer' = toServer \/ (toServer # << >> /\ toServer' = Tail(toServer))
          \/ \E p \in ToolPackets : Sends(p)
      BY DEF Lose, ToolSends
    <2>2. QED
      BY <1>1, <2>1, ToolPacketIsOK, SentIsOK, SameOutside
  <1>4. mishaps' \in 0..Mishaps /\ spoilt' \in BOOLEAN
    BY <1>1, MishapIs DEF Lose, ToolSends, Inv
  <1>5. QED
    BY <1>2, <1>3, <1>4 DEF Outside

LEMMA DeviceKeeps ==
    ASSUME Inv, Receive \/ Tick \/ Restart \/ \E op \in {"OK", "ERROR", "ACK"} : CanSendPacket(op)
    PROVE  Outside
  <1>1. host' = host
    BY DEF Receive, Tick, Restart, CanSendPacket
  <1>2. \/ toServer' = toServer \/ toServer' = << >>
        \/ (toServer # << >> /\ toServer' = Tail(toServer))
    BY DEF Receive, Tick, Restart, CanSendPacket
  <1>3. mishaps' = mishaps \/ (mishaps > 0 /\ mishaps' = mishaps - 1)
    BY DEF Receive, Tick, Restart, CanSendPacket
  <1>4. spoilt' \in BOOLEAN
    BY DEF Receive, Tick, Restart, CanSendPacket, Inv
  <1>5. mishaps' \in 0..Mishaps
    BY <1>3, MishapIs DEF Inv
  <1>6. QED
    BY <1>1, <1>2, <1>4, <1>5, SameOutside DEF Outside

-----------------------------------------------------------------------------
LEMMA InitKept == ASSUME Init PROVE Inv
  <1>1. 0 \in Versions /\ Length \in Nat
    BY UploadAssumption, LengthIs DEF Versions
  <1>2. FileInfo(0) \in Infos(PV)
    BY <1>1, FileSumIs DEF FileInfo, Infos, PV
  <1>3. flash \in Flashes(PV)
    <2>1. \A p \in Pages : PageOf(0, p) \in PageValues
      BY <1>1 DEF PageValues
    <2>2. QED
      BY <1>2, <2>1 DEF Init, Flashes, PV
  <1>4. InfoTruthful
    <2>1. flash.info.size = Length /\ flash.info.sum = FileSum(0)
      BY DEF Init, FileInfo
    <2>2. \A p \in Pages : p < Length => p + 1 \in 1..Length /\ (p + 1) - 1 = p
      BY LengthIs, FlashAssumption DEF Pages
    <2>3. \A p \in Pages : flash.pages[p] = PageOf(0, p)
      BY DEF Init
    <2>4. QED
      BY <1>1, <2>1, <2>2, <2>3, FileSumIs DEF InfoTruthful
  <1>5. FileOfSession(flash, ram, srv, stale) /\ srv \in Sessions /\ ram \in Rams(PV)
    BY BootTyped, ClosedRamIs DEF Init, FileOfSession, StoredSum, OpenFile, Boot
  <1>6. DeviceOK
    <2>1. faults = Faults /\ stale = FALSE
      BY DEF Init
    <2>2. Faults \in 0..Faults
      BY UploadAssumption
    <2>3. QED
      BY <1>3, <1>4, <1>5, <2>1, <2>2 DEF DeviceOK
  <1>7. HostOK
    BY UploadAssumption DEF Init, HostOK, HostFields
  <1>8. WireOK(toServer) /\ IsSeq(toHost)
    BY EmptyIsOK DEF Init
  <1>9. mishaps \in 0..Mishaps /\ spoilt \in BOOLEAN
    <2>1. mishaps = Mishaps /\ spoilt = FALSE
      BY DEF Init
    <2>2. Mishaps \in 0..Mishaps
      BY UploadAssumption
    <2>3. QED
      BY <2>1, <2>2
  <1>10. QED
    BY <1>6, <1>7, <1>8, <1>9 DEF Inv

LEMMA NextSound == ASSUME Inv, Next PROVE Sound /\ Outside
  <1>0. DeviceOK /\ IsSeq(toHost)
    BY DEF Inv
  <1>1. CASE Receive
    <2>1. PacketOK(Head(toServer))
      BY <1>1, HeadIsOK DEF Receive, Inv
    <2>2. QED
      BY <1>0, <1>1, <2>1, ReceiveSound, DeviceKeeps
  <1>2. CASE Tick \/ Restart \/ \E op \in {"OK", "ERROR", "ACK"} : CanSendPacket(op)
    BY <1>0, <1>2, TickSound, RestartSound, CanSound, DeviceKeeps
  <1>3. CASE HostStart \/ HostRead \/ HostReset \/ HostReceive \/ HostRepeat \/ HostGiveUp
             \/ Lose \/ ToolSends
    <2>1. HostOnly
      BY <1>3, Zenon DEF HostStart, HostRead, HostReset, HostReceive, HostRepeat, HostGiveUp,
         Lose, ToolSends, HostNext
    <2>2. toHost' = toHost \/ toHost' = << >> \/ (toHost # << >> /\ toHost' = Tail(toHost))
      BY <1>3, Zenon DEF HostStart, HostRead, HostReset, HostReceive, HostRepeat, HostGiveUp,
         Lose, ToolSends
    <2>3. Sound
      BY <1>0, <2>1, <2>2, HostOnlySound
    <2>4. Outside
      BY <1>3, StartKeeps, ReadKeeps, ReplyKeeps, RepeatKeeps, GiveUpKeeps, NetworkKeeps
    <2>5. QED
      BY <2>3, <2>4
  <1>4. QED
    BY <1>1, <1>2, <1>3 DEF Next, Moves

LEMMA StepSound == ASSUME Inv, [Next]_vars PROVE Inv' /\ [OkIsTrue]_vars
  <1>1. CASE Next
    BY <1>1, NextSound DEF Sound, Outside, Inv
  <1>2. CASE UNCHANGED vars
    <2>1. toHost' = toHost /\ HostOnly
      BY <1>2 DEF vars, HostOnly
    <2>2. Sound
      BY <2>1, HostOnlySound DEF Inv
    <2>3. Outside
      BY <1>2, SameOutside DEF vars, Outside
    <2>4. QED
      BY <2>2, <2>3 DEF Sound, Outside, Inv
  <1>3. QED
    BY <1>1, <1>2

(* In every reachable state the session of the server, the file being      *)
(* written, the info in flash, the checksum of the last OK and the packets *)
(* under way agree, as Inv says; no packet, timeout, restart or failed     *)
(* flash operation breaks it.                                              *)
THEOREM DownloadInvariant == Spec => []Inv
  <1>1. Init => Inv
    BY InitKept
  <1>2. Inv /\ [Next]_vars => Inv'
    BY StepSound
  <1>3. QED
    BY <1>1, <1>2, PTL DEF Spec

(* Every variable of the downloads keeps its type, for any sizes, timeouts *)
(* and number of mishaps and faults.                                       *)
THEOREM UploadTyped == Spec => []TypeOK
  <1>1. Inv => TypeOK
    BY DEF Inv, DeviceOK, TypeOK, PV
  <1>2. QED
    BY <1>1, DownloadInvariant, PTL

(* While a file is written its checksum, which file_write takes over the   *)
(* data before it is in flash, is that of the pages in flash and of those  *)
(* that failed.                                                            *)
THEOREM SumAlwaysCoversFlash == Spec => []SumCoversFlash
  <1>1. ASSUME Inv PROVE SumCoversFlash
    <2>1. OpenFile(flash, ram) /\ ram \in Rams(PV)
      BY <1>1 DEF Inv, DeviceOK, FileOfSession
    <2>2. ram.size \in Nat /\ Len(ram.checksum) \in Nat
      BY <2>1, RamIs
    <2>3. QED
      BY <2>1, <2>2 DEF OpenFile, Prefix, SumCoversFlash
  <1>2. QED
    BY <1>1, DownloadInvariant, PTL

(* An info whose two checksums agree tells the truth about the pages in    *)
(* flash, unless a file is being written or the device was kept from       *)
(* replacing an old info.                                                  *)
THEOREM InfoAlwaysTrue == Spec => []InfoTruthful
  <1>1. Inv => InfoTruthful
    BY DEF Inv, DeviceOK
  <1>2. QED
    BY <1>1, DownloadInvariant, PTL

(* The server acknowledges a checksum only when the file of that checksum  *)
(* is in flash, page by page.                                              *)
THEOREM OkAlwaysMeansStored == Spec => OkMeansStored
  <1>1. Inv /\ [Next]_vars => [OkIsTrue]_vars
    BY StepSound
  <1>2. QED
    BY <1>1, DownloadInvariant, PTL DEF Spec, OkMeansStored, OkIsTrue

-----------------------------------------------------------------------------
(* Reading a file back.                                                    *)
(*                                                                         *)
(* What a handler does to a file that is stored: nothing, but for a        *)
(* request to write; and what it may say of one.  Every handler is calm in *)
(* this sense, whatever it is for.                                         *)
Modest(t) == /\ t.okSum \in {NoSum, srv.okSum}
             /\ t.state = "rrq" => srv.state = "rrq" /\ t.size = srv.size

Mild(t) == DOMAIN t = SessionFields /\ Modest(t)

Quietly == /\ ram.flag # "write" => flash' = flash
           /\ ram'.flag = "write" => ram.flag = "write"
           /\ Modest(srv')

\* The replies to packet p that say something of the file.
Allowed(p, r) ==
    /\ r.op = "OK" => srv'.okSum = FileSum(p.ver)
    /\ r.op = "DATA" => /\ srv.state = "rrq"
                        /\ r.num = p.blk + 1 /\ r.data = ReadBlock(p.blk + 1, srv.size)

Said(p) == \/ toHost' = toHost
           \/ \E n \in {1, 2} : \E r :
                Allowed(p, r) /\ toHost' = toHost \o [i \in 1..n |-> r]

Does(p) ==
    /\ Said(p)
    /\ ram.flag # "write" => flash' = flash
    /\ ram'.flag = "write" => ram.flag = "write" \/ p.op = "WRQ"
    /\ \/ srv'.okSum \in {NoSum, srv.okSum}
       \/ /\ p.op = "SUM" /\ srv'.okSum = FileSum(p.ver)
          /\ faults' < faults \/ flash'.info = FileInfo(p.ver)
    /\ srv'.state = "rrq" =>
         \/ srv.state = "rrq" /\ srv'.size = srv.size
         \/ p.op = "RRQ" /\ srv'.size = flash'.info.size

LEMMA QuietDoes == ASSUME NEW p, Quietly, Said(p) PROVE Does(p)
  BY DEF Quietly, Modest, Does

LEMMA ReadyIs ==
    ASSUME DeviceOK
    PROVE  RamLike(ram) /\ Mild(srv) /\ Calm(flash, ram, Same)
  <1>1. RamLike(ram)
    BY RamIs DEF DeviceOK, Rams, RamLike
  <1>2. Mild(srv)
    BY DEF DeviceOK, Sessions, Mild, Modest, SessionFields
  <1>3. Calm(flash, ram, Same)
    BY <1>1 DEF Same, Calm, IsOutcome, Outcome
  <1>4. QED
    BY <1>1, <1>2, <1>3

LEMMA BootModest == Modest(Boot)
  BY DEF Modest, Boot

LEMMA ClearedModest == ASSUME NEW s, DOMAIN s = SessionFields PROVE Modest(Cleared(s))
  BY DEF Cleared, Modest, SessionFields

LEMMA EndsQuiet ==
    ASSUME NEW o, NEW s, Calm(flash, ram, o), ~o.off => Modest(s), Ends(o, s) PROVE Quietly
  <1>1. CASE o.off
    <2>1. flash' = o.flash /\ ram' = ClosedRam /\ srv' = Boot
      BY <1>1 DEF Ends, Restarted
    <2>2. ram'.flag = "closed" /\ Modest(srv')
      BY <2>1, ClosedRamLike, BootModest
    <2>3. QED
      BY <2>1, <2>2 DEF Calm, Quietly
  <1>2. CASE ~o.off
    <2>1. flash' = o.flash /\ ram' = o.ram /\ srv' = s
      BY <1>2 DEF Ends
    <2>2. QED
      BY <1>2, <2>1 DEF Calm, Quietly
  <1>3. QED
    BY <1>1, <1>2

LEMMA ClearQuiet ==
    ASSUME NEW o, NEW s, Calm(flash, ram, o), DOMAIN s = SessionFields, ClearState(o, s)
    PROVE  Quietly
  <1>1. Modest(Cleared(s))
    BY ClearedModest
  <1>2. CASE s.held /\ ~o.off
    <2>1. PICK c \in file_close(o.flash, o.ram, NoSum, o.faults) : Ends(c, Cleared(s))
      BY <1>2 DEF ClearState
    <2>2. RamLike(o.ram)
      BY DEF Calm, IsOutcome
    <2>3. Calm(o.flash, o.ram, c)
      BY <2>1, <2>2, CloseCalm
    <2>4. Calm(flash, ram, c)
      BY <2>3, ThenCalm
    <2>5. QED
      BY <1>1, <2>1, <2>4, EndsQuiet
  <1>3. CASE ~(s.held /\ ~o.off)
    BY <1>1, <1>3, EndsQuiet DEF ClearState
  <1>4. QED
    BY <1>2, <1>3

(* How a handler ends.                                                     *)
LEMMA LeaveDoes ==
    ASSUME NEW p, NEW o, NEW s, Calm(flash, ram, o), ~o.off => Modest(s), Leave(o, s)
    PROVE  Does(p)
  BY EndsQuiet, QuietDoes DEF Leave, Said

LEMMA SendSaid ==
    ASSUME NEW p, NEW s, NEW r, Allowed(p, r), SendTo(s, <<r>>) PROVE Said(p)
  <1>1. <<r>> = [i \in 1..1 |-> r]
    OBVIOUS
  <1>2. QED
    BY <1>1 DEF SendTo, Said

LEMMA AnswerDoes ==
    ASSUME NEW p, NEW o, NEW s, NEW r, Calm(flash, ram, o), ~o.off => Modest(s),
           ~o.off /\ srv' = s => Allowed(p, r), Answer(o, s, r)
    PROVE  Does(p)
  <1>1. CASE o.off
    BY <1>1, LeaveDoes DEF Answer
  <1>2. CASE ~o.off
    <2>1. SendTo(s, <<r>>) /\ Ends(o, s) /\ srv' = s
      BY <1>2 DEF Answer, Ends
    <2>2. Said(p) /\ Quietly
      BY <1>2, <2>1, SendSaid, EndsQuiet
    <2>3. QED
      BY <2>2, QuietDoes
  <1>3. QED
    BY <1>1, <1>2

\* A reply that says nothing of a file.
LEMMA OtherAllowed ==
    ASSUME NEW p, NEW op \in {"ERROR", "ACK", "FIF"}, NEW v, NEW n
    PROVE  Allowed(p, Reply(op, v, n))
  <1>1. Reply(op, v, n).op = op
    BY DEF Reply
  <1>2. QED
    BY <1>1 DEF Allowed

LEMMA ErrorsDoes ==
    ASSUME NEW p, NEW o, NEW s, NEW n \in {1, 2}, Calm(flash, ram, o),
           DOMAIN s = SessionFields, ErrorsDone(o, s, n)
    PROVE  Does(p)
  <1> DEFINE e == Reply("ERROR", 0, 0)
  <1>1. CASE o.off
    BY <1>1, LeaveDoes DEF ErrorsDone
  <1>2. CASE ~o.off
    <2>1. SendTo(s, [i \in 1..n |-> e]) /\ ClearState(o, s)
      BY <1>2 DEF ErrorsDone
    <2>2. Allowed(p, e)
      BY OtherAllowed
    <2> HIDE DEF e
    <2>3. Said(p)
      BY <2>1, <2>2 DEF SendTo, Said
    <2>4. QED
      BY <2>1, <2>3, ClearQuiet, QuietDoes
  <1>3. QED
    BY <1>1, <1>2

LEMMA ErrorDoes ==
    ASSUME NEW p, NEW o, NEW s, Calm(flash, ram, o), DOMAIN s = SessionFields, ErrorDone(o, s)
    PROVE  Does(p)
  BY ErrorsDoes DEF ErrorDone

LEMMA SameDoes ==
    ASSUME DeviceOK, NEW p, NEW s, Mild(s), Leave(Same, s) \/ ErrorDone(Same, s) \/ Relay(s)
    PROVE  Does(p)
  BY ReadyIs, LeaveDoes, ErrorDoes DEF Mild, Relay

-----------------------------------------------------------------------------
(* The handlers.                                                           *)
LEMMA BusyDoes == ASSUME DeviceOK, NEW p, RejectBusy(p) PROVE Does(p)
  <1>1. Mild([srv EXCEPT !.idle = 0])
    BY ReadyIs DEF Mild, Modest, SessionFields
  <1>2. Quietly
    BY <1>1, ReadyIs, EndsQuiet DEF RejectBusy, Mild
  <1>3. Said(p)
    <2>1. Allowed(p, Reply("ERROR", 0, 0))
      BY OtherAllowed
    <2>2. QED
      BY <2>1, SendSaid DEF RejectBusy, Said
  <1>4. QED
    BY <1>2, <1>3, QuietDoes

\* The session a request begins.
LEMMA BegunMild ==
    ASSUME DeviceOK, NEW p
    PROVE  /\ Mild(From(TftpInit(srv), p)) /\ From(TftpInit(srv), p).state = "idle"
           /\ Mild(From(srv, p)) /\ Mild([srv EXCEPT !.rmt = p.src, !.idle = 0])
           /\ Mild([From(srv, p) EXCEPT !.idle = 0])
  BY ReadyIs DEF From, TftpInit, Mild, Modest, SessionFields

LEMMA PropMild ==
    ASSUME NEW s, Mild(s), NEW prop
    PROVE  /\ Mild([s EXCEPT !.prop = prop]) /\ Mild([s EXCEPT !.held = FALSE])
           /\ [s EXCEPT !.prop = prop].state = s.state
  BY DEF Mild, Modest, SessionFields

LEMMA QueriesDo ==
    ASSUME DeviceOK, NEW p,
           \/ RecvWrqRemote(p) \/ RecvRrqRemote(p) \/ RecvLck(p) \/ RecvReq(p)
           \/ RecvRst(p) \/ RecvStop(p)
    PROVE  Does(p)
  <1> DEFINE s == From(TftpInit(srv), p)
             t == [From(srv, p) EXCEPT !.idle = 0]
  <1>1. CASE RecvWrqRemote(p) \/ RecvRrqRemote(p) \/ RecvLck(p) \/ RecvReq(p)
    <2>1. \A prop : Mild([s EXCEPT !.prop = prop])
      BY BegunMild, PropMild
    <2>2. Mild([[s EXCEPT !.prop = "remote"] EXCEPT !.state = "wrq"])
      BY <2>1 DEF Mild, Modest, SessionFields
    <2> HIDE DEF s
    <2>3. \/ \E prop : LET u == [s EXCEPT !.prop = prop]
                       IN  Leave(Same, u) \/ ErrorDone(Same, u) \/ Relay(u)
          \/ Leave(Same, [[s EXCEPT !.prop = "remote"] EXCEPT !.state = "wrq"])
      BY <1>1 DEF RecvWrqRemote, RecvRrqRemote, RecvLck, RecvReq, s
    <2>4. QED
      BY <2>1, <2>2, <2>3, SameDoes
  <1>2. CASE RecvRst(p)
    <2>1. Mild(t) /\ Mild([t EXCEPT !.stopFeed = TRUE, !.rst = 0])
      BY BegunMild DEF Mild, Modest, SessionFields
    <2>2. Relay(t) \/ Leave(Same, t) \/ Leave(Same, [t EXCEPT !.stopFeed = TRUE, !.rst = 0])
      BY <1>2 DEF RecvRst
    <2>3. QED
      BY <2>1, <2>2, SameDoes
  <1>3. CASE RecvStop(p)
    <2>1. Quietly
      BY <1>3, ReadyIs, BegunMild, ClearQuiet DEF RecvStop, Mild
    <2>2. QED
      BY <1>3, <2>1, QuietDoes DEF RecvStop, Said
  <1>4. QED
    BY <1>1, <1>2, <1>3

LEMMA DiffDoes == ASSUME DeviceOK, NEW p, RecvDiff(p) PROVE Does(p)
  <1> DEFINE s == From(TftpInit(srv), p)
  <1>1. Mild([s EXCEPT !.prop = "local"]) /\ Mild([s EXCEPT !.prop = "remote"])
    BY BegunMild, PropMild
  <1>2. CASE Relay([s EXCEPT !.prop = "remote"])
    BY <1>1, <1>2, SameDoes
  <1>3. CASE \E o \in file_open(flash, ram, "read", faults) :
               \E c \in IF o.off \/ o.ret < 0 THEN {o}
                        ELSE file_close(o.flash, o.ram, NoSum, o.faults) :
                 Leave(c, [s EXCEPT !.prop = "local"])
    <2>1. PICK o \in file_open(flash, ram, "read", faults) :
               \E c \in IF o.off \/ o.ret < 0 THEN {o}
                        ELSE file_close(o.flash, o.ram, NoSum, o.faults) :
                 Leave(c, [s EXCEPT !.prop = "local"])
      BY <1>3
    <2>2. PICK c \in IF o.off \/ o.ret < 0 THEN {o}
                     ELSE file_close(o.flash, o.ram, NoSum, o.faults) :
                 Leave(c, [s EXCEPT !.prop = "local"])
      BY <2>1
    <2>3. Calm(flash, ram, o) /\ RamLike(o.ram)
      BY <2>1, ReadyIs, OpenCalm DEF Calm, IsOutcome
    <2>4. Calm(flash, ram, c)
      BY <2>2, <2>3, CloseCalm, ThenCalm
    <2>5. QED
      BY <1>1, <2>2, <2>4, LeaveDoes DEF Mild
  <1>4. QED
    BY <1>2, <1>3 DEF RecvDiff

LEMMA WrqLocalDoes ==
    ASSUME DeviceOK, NEW p, p.op = "WRQ", RecvWrqLocal(p) PROVE Does(p)
  <1> DEFINE s == From(TftpInit(srv), p)
             failed == [s EXCEPT !.held = FALSE]
             opened == [s EXCEPT !.state = "wrq", !.prop = "local", !.held = TRUE]
  <1>1. PICK o \in file_open(flash, ram, "write", faults) :
          IF o.ret < 0 THEN ErrorsDone(o, failed, 2)
                       ELSE Answer(o, opened, Reply("ACK", 0, 0))
    BY DEF RecvWrqLocal
  <1>2. DOMAIN failed = SessionFields /\ Modest(opened)
    BY BegunMild DEF Mild, Modest, SessionFields
  <1> HIDE DEF failed, opened
  <1>3. RamLike(ram)
    BY ReadyIs
  <1>4. CASE o.ret < 0
    <2>1. Calm(flash, ram, o)
      BY <1>3, <1>4, OpenCalm
    <2>2. QED
      BY <1>1, <1>2, <1>4, <2>1, ErrorsDoes
  <1>5. CASE ~(o.ret < 0) /\ o.off
    <2>1. Calm(flash, ram, o)
      BY <1>3, <1>5, OpenCalm
    <2>2. QED
      BY <1>1, <1>2, <1>5, <2>1, LeaveDoes DEF Answer
  <1>6. CASE ~(o.ret < 0) /\ ~o.off
    <2>1. SendTo(opened, <<Reply("ACK", 0, 0)>>) /\ Ends(o, opened)
      BY <1>1, <1>6 DEF Answer
    <2>2. flash' = o.flash /\ srv' = opened
      BY <1>6, <2>1 DEF Ends
    <2>3. ram.flag # "write" => flash' = flash
      BY <1>3, <2>2, OpenCalm
    <2>4. Said(p)
      BY <2>1, OtherAllowed, SendSaid
    <2>5. QED
      BY <1>2, <2>2, <2>3, <2>4 DEF Does, Modest
  <1>7. QED
    BY <1>4, <1>5, <1>6

LEMMA RrqLocalDoes ==
    ASSUME DeviceOK, NEW p, p.op = "RRQ", RecvRrqLocal(p) PROVE Does(p)
  <1> DEFINE s == [From(TftpInit(srv), p) EXCEPT !.prop = "local"]
             failed == [s EXCEPT !.held = FALSE]
  <1>1. PICK o \in file_open(flash, ram, "read", faults) :
          IF o.off \/ o.ret < 0
            THEN ErrorDone(o, failed)
            ELSE \E i \in file_info_read(o.flash, o.ram, o.faults) :
                   IF i.off \/ i.ret = 0
                     THEN \E c \in IF i.off THEN {i}
                                   ELSE file_close(i.flash, i.ram, NoSum, i.faults) :
                            ErrorDone(c, failed)
                     ELSE Answer(i, [s EXCEPT !.state = "rrq", !.held = TRUE,
                                              !.size = i.flash.info.size],
                                 Reply("FIF", 0, 0))
    BY DEF RecvRrqLocal
  <1>2. Mild(s) /\ DOMAIN failed = SessionFields
    BY BegunMild, PropMild DEF Mild
  <1> HIDE DEF failed, s
  <1>3. Calm(flash, ram, o) /\ RamLike(o.ram)
    BY ReadyIs, OpenCalm DEF Calm, IsOutcome
  <1>4. CASE o.off \/ o.ret < 0
    BY <1>1, <1>2, <1>3, <1>4, ErrorDoes
  <1>5. CASE ~(o.off \/ o.ret < 0)
    <2>1. PICK i \in file_info_read(o.flash, o.ram, o.faults) :
                   IF i.off \/ i.ret = 0
                     THEN \E c \in IF i.off THEN {i}
                                   ELSE file_close(i.flash, i.ram, NoSum, i.faults) :
                            ErrorDone(c, failed)
                     ELSE Answer(i, [s EXCEPT !.state = "rrq", !.held = TRUE,
                                              !.size = i.flash.info.size],
                                 Reply("FIF", 0, 0))
      BY <1>1, <1>5
    <2>2. Calm(o.flash, o.ram, i)
      BY <1>3, ReadCalm
    <2>3. Calm(flash, ram, i) /\ RamLike(i.ram)
      BY <1>3, <2>2, ThenCalm DEF Calm, IsOutcome
    <2>4. CASE i.off \/ i.ret = 0
      <3>1. PICK c \in IF i.off THEN {i} ELSE file_close(i.flash, i.ram, NoSum, i.faults) :
                ErrorDone(c, failed)
        BY <2>1, <2>4
      <3>2. Calm(flash, ram, c)
        BY <2>3, <3>1, CloseCalm, ThenCalm
      <3>3. QED
        BY <1>2, <3>1, <3>2, ErrorDoes
    <2>5. CASE ~(i.off \/ i.ret = 0)
      <3> DEFINE t == [s EXCEPT !.state = "rrq", !.held = TRUE, !.size = i.flash.info.size]
      <3>1. SendTo(t, <<Reply("FIF", 0, 0)>>) /\ Ends(i, t)
        BY <2>1, <2>5 DEF Answer
      <3>2. t.okSum \in {NoSum, srv.okSum} /\ t.size = i.flash.info.size
        BY <1>2 DEF Mild, Modest, SessionFields
      <3> HIDE DEF t
      <3>3. flash' = i.flash /\ ram' = i.ram /\ srv' = t
        BY <2>5, <3>1 DEF Ends
      <3>4. Said(p)
        BY <3>1, OtherAllowed, SendSaid
      <3>5. QED
        BY <2>3, <3>2, <3>3, <3>4 DEF Does, Calm
    <2>6. QED
      BY <2>4, <2>5
  <1>6. QED
    BY <1>4, <1>5

LEMMA DataDoes == ASSUME DeviceOK, NEW p, RecvData(p) PROVE Does(p)
  <1> DEFINE now == [srv EXCEPT !.idle = 0]
             s == Expanded(now, Wire(p))
             b == ExpandBlock(s, Wire(p))
             t == [s EXCEPT !.block = b]
             stored == StoredBlock(t, p)
  <1>1. Mild(now) /\ Mild(TftpInit(now))
    BY ReadyIs DEF Mild, Modest, SessionFields, TftpInit
  <1>2. Mild(s)
    BY <1>1 DEF Expanded, Mild, Modest, SessionFields
  <1>3. Mild(t) /\ Mild(stored) /\ Mild(FinishTransfer(stored))
    BY <1>2 DEF Mild, Modest, SessionFields, StoredBlock, FinishTransfer
  <1>4. \/ ErrorDone(Same, TftpInit(now)) \/ ErrorDone(Same, now) \/ ErrorDone(Same, s)
        \/ NextBlock(t, p) \/ SameBlock(s, p)
    BY DEF RecvData
  <1>5. \A n : Allowed(p, Reply("ACK", 0, n))
    BY OtherAllowed
  <1>6. CASE NextBlock(t, p)
    <2> HIDE DEF t, stored, now, s, b
    <2>1. CASE \E o \in WriteBlock(t, p) :
                 IF o.ret < 0 THEN ErrorDone(o, t)
                 ELSE Answer(o, IF p.blk = Blocks THEN FinishTransfer(stored) ELSE stored,
                             Reply("ACK", 0, Wire(p)))
      <3>1. PICK o \in WriteBlock(t, p) :
                 IF o.ret < 0 THEN ErrorDone(o, t)
                 ELSE Answer(o, IF p.blk = Blocks THEN FinishTransfer(stored) ELSE stored,
                             Reply("ACK", 0, Wire(p)))
        BY <2>1
      <3>2. Calm(flash, ram, o)
        <4>1. CASE t.held
          BY <3>1, <4>1, ReadyIs, WriteCalm DEF WriteBlock
        <4>2. CASE ~t.held
          <5>1. o = Outcome(flash, ram, -1, faults, FALSE)
            BY <3>1, <4>2 DEF WriteBlock
          <5>2. QED
            BY <5>1, ReadyIs DEF Calm, IsOutcome, Outcome
        <4>3. QED
          BY <4>1, <4>2
      <3>3. QED
        BY <1>3, <1>5, <3>1, <3>2, ErrorDoes, AnswerDoes DEF Mild
    <2>2. CASE Relay(t) \/ ErrorDone(Same, t)
      BY <1>3, <2>2, SameDoes
    <2>3. QED
      BY <1>6, <2>1, <2>2 DEF NextBlock, stored
  <1>7. CASE SameBlock(s, p)
    <2> HIDE DEF s
    <2>1. Answer(Same, s, Reply("ACK", 0, Wire(p))) \/ Relay(s) \/ Leave(Same, s)
      BY <1>7 DEF SameBlock
    <2>2. QED
      BY <1>2, <1>5, <2>1, ReadyIs, AnswerDoes, SameDoes DEF Mild
  <1>8. QED
    BY <1>1, <1>2, <1>4, <1>6, <1>7, SameDoes

LEMMA CloseFileCalm ==
    ASSUME DeviceOK, NEW s, NEW src, NEW o \in CloseFile(s, src) PROVE Calm(flash, ram, o)
  <1>1. CASE s.held
    BY <1>1, ReadyIs, CloseCalm DEF CloseFile
  <1>2. CASE ~s.held
    <2>1. o = Outcome(flash, ram, -1, faults, FALSE)
      BY <1>2 DEF CloseFile
    <2>2. QED
      BY <2>1, ReadyIs DEF Calm, IsOutcome, Outcome
  <1>3. QED
    BY <1>1, <1>2

LEMMA SumMatchesDoes ==
    ASSUME DeviceOK, NEW p, PacketOK(p), p.op = "SUM", NEW s, Mild(s), s.held \in BOOLEAN,
           SumMatches(s, p)
    PROVE  Does(p)
  <1> DEFINE done == Completed(s, p)
             open == [Completed(s, p) EXCEPT !.rst = RstMax]
             ok == Reply("OK", p.ver, 0)
  <1>1. PICK o \in CloseFile(s, FileSum(p.ver)) :
          IF CloseFailed(o.ret) THEN ErrorDone(o, s) ELSE Leave(o, done) \/ Answer(o, open, ok)
    BY DEF SumMatches
  <1>2. Calm(flash, ram, o)
    BY <1>1, CloseFileCalm
  <1>3. CASE CloseFailed(o.ret)
    BY <1>1, <1>2, <1>3, ErrorDoes DEF Mild
  <1>4. CASE ~CloseFailed(o.ret) /\ o.off
    BY <1>1, <1>2, <1>4, LeaveDoes DEF Answer
  <1>5. CASE ~CloseFailed(o.ret) /\ ~o.off
    <2>1. /\ done.okSum = FileSum(p.ver) /\ open.okSum = FileSum(p.ver)
          /\ done.state = s.state /\ open.state = s.state
          /\ done.size = s.size /\ open.size = s.size
      BY DEF Mild, SessionFields, Completed
    <2>2. Ends(o, done) \/ Ends(o, open)
      BY <1>1, <1>5 DEF Leave, Answer
    <2> HIDE DEF done, open
    <2>3. /\ flash' = o.flash /\ ram' = o.ram /\ faults' = o.faults
          /\ srv' = done \/ srv' = open
      BY <1>5, <2>2 DEF Ends
    <2>4. s.held /\ o \in file_close(flash, ram, FileSum(p.ver), faults) /\ o.ret > 0
      <3>1. CASE ~s.held
        <4>1. o = Outcome(flash, ram, -1, faults, FALSE)
          BY <1>1, <3>1 DEF CloseFile
        <4>2. o.ret = -1
          BY <4>1 DEF Outcome
        <4>3. QED
          BY <1>5, <4>2 DEF CloseFailed
      <3>2. CASE s.held
        <4>1. o \in file_close(flash, ram, FileSum(p.ver), faults)
          BY <1>1, <3>2 DEF CloseFile
        <4>2. FileSum(p.ver) \in Seq(PV) /\ ~Twice(FileSum(p.ver))
          BY FileSumIs DEF PacketOK, PV
        <4>3. o.ret \in Int
          BY <4>1, <4>2, CloseIs
        <4>4. QED
          BY <1>5, <3>2, <4>1, <4>3 DEF CloseFailed
      <3>3. QED
        BY <3>1, <3>2
    <2>5. faults' < faults \/ flash'.info = FileInfo(p.ver)
      BY <2>3, <2>4, CloseStores DEF PacketOK
    <2>6. srv'.okSum = FileSum(p.ver)
      BY <2>1, <2>3
    <2>7. Said(p)
      <3>1. ok.op = "OK"
        BY DEF Reply
      <3>2. Allowed(p, ok)
        BY <2>6, <3>1 DEF Allowed
      <3> HIDE DEF ok
      <3>3. QED
        BY <1>1, <1>5, <3>2, SendSaid DEF Leave, Answer, Said
    <2>8. srv'.state = "rrq" => srv.state = "rrq" /\ srv'.size = srv.size
      BY <2>1, <2>3 DEF Mild, Modest
    <2>9. QED
      BY <1>2, <2>3, <2>5, <2>6, <2>7, <2>8 DEF Calm, Does
  <1>6. QED
    BY <1>3, <1>4, <1>5

LEMMA SumDoes ==
    ASSUME DeviceOK, NEW p, PacketOK(p), p.op = "SUM", RecvSum(p) PROVE Does(p)
  <1> DEFINE s == [srv EXCEPT !.rmt = p.src, !.idle = 0]
             t == [s EXCEPT !.held = FALSE]
             ok == Reply("OK", p.ver, 0)
  <1>1. Mild(s) /\ Mild(t) /\ s.held \in BOOLEAN
    <2>1. Mild(s)
      BY BegunMild
    <2>2. Mild(t)
      BY <2>1 DEF Mild, Modest, SessionFields
    <2>3. s.held \in BOOLEAN
      BY DEF DeviceOK, Sessions
    <2>4. QED
      BY <2>1, <2>2, <2>3
  <1> HIDE DEF s
  <1>2. \/ AlreadyOk(s, p) /\ Answer(Same, s, ok)
        \/ SumMatches(s, p) \/ SumDiffers(s) \/ Relay(s) \/ ErrorDone(Same, s)
    BY DEF RecvSum, s
  <1>3. CASE AlreadyOk(s, p) /\ Answer(Same, s, ok)
    <2>1. srv' = s => Allowed(p, ok)
      BY <1>3 DEF AlreadyOk, Allowed, Reply
    <2> HIDE DEF ok
    <2>2. QED
      BY <1>1, <1>3, <2>1, ReadyIs, AnswerDoes DEF Mild
  <1>4. CASE SumMatches(s, p)
    BY <1>1, <1>4, SumMatchesDoes
  <1>5. CASE SumDiffers(s)
    <2>1. PICK o \in CloseFile(s, NoSum) : ErrorDone(o, t)
      BY <1>5 DEF SumDiffers
    <2>2. QED
      BY <1>1, <2>1, CloseFileCalm, ErrorDoes DEF Mild
  <1>6. CASE Relay(s) \/ ErrorDone(Same, s)
    BY <1>1, <1>6, SameDoes
  <1>7. QED
    BY <1>2, <1>3, <1>4, <1>5, <1>6

LEMMA SendDataDoes ==
    ASSUME DeviceOK, NEW p, NEW s, Mild(s), s.state = "rrq", SendData(s, p.blk + 1)
    PROVE  Does(p)
  <1> DEFINE data == ReadBlock(p.blk + 1, s.size)
             sent == [s EXCEPT !.held = FALSE, !.state = "idle"]
  <1>1. PICK o \in IF data = << >> THEN {Same} ELSE file_read(flash, ram, Len(data), faults) :
          IF o.off THEN Leave(o, s)
          ELSE IF o.ret < 0 THEN Answer(o, s, Reply("ERROR", 0, 0))
          ELSE IF ~IsLast(data) THEN Answer(o, s, DataReply(p.blk + 1, data))
          ELSE \/ \E c \in file_close(flash, o.ram, NoSum, o.faults) :
                    Answer(c, IF c.ret < 0 THEN s ELSE sent, DataReply(p.blk + 1, data))
               \/ o.faults > 0 /\ Leave([o EXCEPT !.faults = @ - 1], s)
    BY DEF SendData
  <1>2. Mild(sent)
    BY DEF Mild, Modest, SessionFields
  <1>3. srv.state = "rrq" /\ s.size = srv.size
    BY DEF Mild, Modest
  <1>4. Allowed(p, DataReply(p.blk + 1, data)) /\ Allowed(p, Reply("ERROR", 0, 0))
    <2>1. /\ DataReply(p.blk + 1, data).op = "DATA" /\ DataReply(p.blk + 1, data).num = p.blk + 1
          /\ DataReply(p.blk + 1, data).data = data
      BY DEF DataReply
    <2>2. QED
      BY <1>3, <2>1, OtherAllowed DEF Allowed
  <1> HIDE DEF data, sent
  <1>5. Calm(flash, ram, o) /\ o.flash = flash /\ o.ram = ram
    <2>1. CASE o = Same
      BY <2>1, ReadyIs, SameIs
    <2>2. CASE o \in file_read(flash, ram, Len(data), faults)
      BY <2>2, ReadyIs, ReadCalm
    <2>3. QED
      BY <1>1, <2>1, <2>2
  <1>6. CASE Leave(o, s)
    BY <1>5, <1>6, LeaveDoes DEF Mild
  <1>7. CASE Answer(o, s, Reply("ERROR", 0, 0)) \/ Answer(o, s, DataReply(p.blk + 1, data))
    BY <1>4, <1>5, <1>7, AnswerDoes DEF Mild
  <1>8. CASE \E c \in file_close(flash, o.ram, NoSum, o.faults) :
               Answer(c, IF c.ret < 0 THEN s ELSE sent, DataReply(p.blk + 1, data))
    <2>1. PICK c \in file_close(flash, o.ram, NoSum, o.faults) :
               Answer(c, IF c.ret < 0 THEN s ELSE sent, DataReply(p.blk + 1, data))
      BY <1>8
    <2>2. Calm(flash, ram, c)
      BY <1>5, <2>1, ReadyIs, CloseCalm
    <2>3. QED
      BY <1>2, <1>4, <2>1, <2>2, AnswerDoes DEF Mild
  <1>9. CASE Leave([o EXCEPT !.faults = @ - 1], s)
    <2>1. Calm(flash, ram, [o EXCEPT !.faults = @ - 1])
      BY <1>5 DEF Calm, IsOutcome, Outcome
    <2>2. QED
      BY <1>9, <2>1, LeaveDoes DEF Mild
  <1>10. QED
    BY <1>1, <1>6, <1>7, <1>8, <1>9

LEMMA AckDoes == ASSUME DeviceOK, NEW p, RecvAck(p) PROVE Does(p)
  <1> DEFINE s == [srv EXCEPT !.rmt = p.src, !.idle = 0]
             t == [s EXCEPT !.prop = "local"]
             u == [s EXCEPT !.prop = "remote"]
  <1>1. Mild(s) /\ Mild(t) /\ Mild(u) /\ t.state = s.state
    BY BegunMild, PropMild
  <1>2. (s.state = "rrq" /\ SendData(t, p.blk + 1)) \/ Leave(Same, s) \/ Relay(u)
    BY DEF RecvAck
  <1> HIDE DEF s, t, u
  <1>3. QED
    BY <1>1, <1>2, SendDataDoes, SameDoes

LEMMA ReceiveDoes ==
    ASSUME DeviceOK, NEW p, PacketOK(p), Handle(p) PROVE Does(p)
  <1>1. CASE RejectBusy(p)
    BY <1>1, BusyDoes
  <1>2. CASE \/ RecvWrqRemote(p) \/ RecvRrqRemote(p) \/ RecvLck(p) \/ RecvReq(p)
             \/ RecvRst(p) \/ RecvStop(p)
    BY <1>2, QueriesDo
  <1>3. CASE (p.op = "WRQ" /\ RecvWrqLocal(p)) \/ (p.op = "RRQ" /\ RecvRrqLocal(p)) \/ RecvDiff(p)
    BY <1>3, WrqLocalDoes, RrqLocalDoes, DiffDoes
  <1>4. CASE RecvData(p) \/ (p.op = "SUM" /\ RecvSum(p)) \/ RecvAck(p)
    BY <1>4, DataDoes, SumDoes, AckDoes
  <1>5. QED
    BY <1>1, <1>2, <1>3, <1>4 DEF Handle

-----------------------------------------------------------------------------
(* The blocks of a file that is read, and the file they make.              *)
Piece(v, n) ==
    LET offset == (n - 1) * BlockPages
    IN  [i \in 1..Min({BlockPages, Max({0, Length - offset})}) |-> PageOf(v, offset + i - 1)]

Upto(v, k) == [i \in 1..k |-> PageOf(v, i - 1)]

LEMMA SmallerIs ==
    ASSUME NEW a \in Int, NEW b \in Int
    PROVE  /\ Min({a, b}) = IF a <= b THEN a ELSE b
           /\ Max({a, b}) = IF a >= b THEN a ELSE b
  <1>1. \E x \in {a, b} : \A y \in {a, b} : x <= y
    OBVIOUS
  <1>2. \E x \in {a, b} : \A y \in {a, b} : x >= y
    OBVIOUS
  <1>3. \A y \in {a, b} : Min({a, b}) <= y
    BY <1>1, Zenon DEF Min
  <1>4. \A y \in {a, b} : Max({a, b}) >= y
    BY <1>2, Zenon DEF Max
  <1>5. QED
    BY <1>3, <1>4, SmallestIs

(* How many pages a block at this offset has.                              *)
LEMMA PagesLeft ==
    ASSUME NEW offset \in Nat
    PROVE  LET m == Min({BlockPages, Max({0, Length - offset})})
           IN  /\ m = IF Length - offset >= BlockPages THEN BlockPages
                      ELSE IF Length - offset >= 0 THEN Length - offset ELSE 0
               /\ m \in Nat
  <1>1. Length \in Nat /\ BlockPages \in Nat
    BY LengthIs, UploadAssumption
  <1>2. PICK left \in Int : left = Length - offset
    BY <1>1
  <1>3. PICK rest : rest = Max({0, left})
    OBVIOUS
  <1>4. rest = IF 0 >= left THEN 0 ELSE left
    <2>1. 0 \in Int
      OBVIOUS
    <2>2. Max({0, left}) = IF 0 >= left THEN 0 ELSE left
      BY <2>1, SmallerIs, Zenon
    <2>3. QED
      BY <1>3, <2>2
  <1>5. rest \in Int
    BY <1>4
  <1>6. Min({BlockPages, rest}) = IF BlockPages <= rest THEN BlockPages ELSE rest
    BY <1>1, <1>5, SmallerIs
  <1>7. Min({BlockPages, Max({0, Length - offset})}) = Min({BlockPages, rest})
    BY <1>2, <1>3
  <1>8. QED
    BY <1>1, <1>2, <1>4, <1>6, <1>7

LEMMA OffsetIs ==
    ASSUME NEW n \in Nat \ {0}
    PROVE  /\ (n - 1) * BlockPages \in Nat /\ (n - 1) * BlockPages + BlockPages = n * BlockPages
           /\ n < Blocks => n * BlockPages <= Length - 1
           /\ (Blocks - 1) * BlockPages = Length - 1
  <1>1. Blocks - 1 \in Nat /\ BlockPages \in Nat /\ n - 1 \in Nat
    BY UploadAssumption
  <1>2. (n - 1) * BlockPages \in Nat /\ (Blocks - 1) * BlockPages \in Nat
    BY <1>1, Products
  <1>3. (n - 1) * BlockPages + BlockPages = n * BlockPages
    BY <1>1
  <1>4. (Blocks - 1) * BlockPages = Length - 1
    BY <1>2 DEF Length
  <1>5. n < Blocks => (n - 1) * BlockPages + BlockPages <= (Blocks - 1) * BlockPages
    <2>1. ASSUME n < Blocks PROVE n - 1 < Blocks - 1
      BY <2>1, UploadAssumption
    <2>2. QED
      BY <1>1, <2>1, Products
  <1>6. QED
    BY <1>2, <1>3, <1>4, <1>5

(* What the server reads of a file that is there is a piece of it.         *)
LEMMA ReadIsPiece ==
    ASSUME NEW v, NEW n \in Nat \ {0}, \A p \in 0..Length-1 : flash.pages[p] = PageOf(v, p)
    PROVE  ReadBlock(n, Length) = Piece(v, n)
  <1> DEFINE offset == (n - 1) * BlockPages
             m == Min({BlockPages, Max({0, Length - offset})})
  <1>1. offset \in Nat
    BY OffsetIs
  <1>2. ReadBlock(n, Length) = [i \in 1..m |-> flash.pages[offset + i - 1]]
    BY DEF ReadBlock
  <1>3. Piece(v, n) = [i \in 1..m |-> PageOf(v, offset + i - 1)]
    BY DEF Piece
  <1> HIDE DEF offset
  <1>4. m \in Nat /\ m <= IF Length - offset >= 0 THEN Length - offset ELSE 0
    BY <1>1, PagesLeft, LengthIs, UploadAssumption
  <1> HIDE DEF m
  <1>5. \A i \in 1..m : offset + i - 1 \in 0..Length-1
    BY <1>1, <1>4, LengthIs
  <1>6. QED
    BY <1>2, <1>3, <1>5

(* The pieces before and a piece make the file so far, or all of it.       *)
LEMMA PieceFollows ==
    ASSUME NEW v, NEW n \in 1..Blocks
    PROVE  /\ Short(Piece(v, n)) <=> n = Blocks
           /\ Upto(v, (n - 1) * BlockPages) \o Piece(v, n) =
                IF n = Blocks THEN FileSum(v) ELSE Upto(v, n * BlockPages)
  <1> DEFINE offset == (n - 1) * BlockPages
             m == Min({BlockPages, Max({0, Length - offset})})
  <1>1. /\ offset \in Nat /\ offset + BlockPages = n * BlockPages
        /\ n < Blocks => n * BlockPages <= Length - 1
        /\ n = Blocks => offset = Length - 1
    BY OffsetIs, UploadAssumption
  <1>2. Piece(v, n) = [i \in 1..m |-> PageOf(v, offset + i - 1)]
    BY DEF Piece
  <1> HIDE DEF offset
  <1>0. offset \in Nat
    BY <1>1
  <1>3. /\ m \in Nat
        /\ m = IF Length - offset >= BlockPages THEN BlockPages
               ELSE IF Length - offset >= 0 THEN Length - offset ELSE 0
    BY <1>1, PagesLeft
  <1> HIDE DEF m
  <1>4. m = IF n = Blocks THEN 1 ELSE BlockPages
    BY <1>1, <1>3, LengthIs, UploadAssumption
  <1>5. offset + m = IF n = Blocks THEN Length ELSE n * BlockPages
    BY <1>1, <1>4, LengthIs
  <1> DEFINE V == {PageOf(v, i) : i \in Nat}
             s == Upto(v, offset)
             t == Piece(v, n)
  <1>6. s \in Seq(V) /\ Len(s) = offset /\ \A i \in 1..offset : s[i] = PageOf(v, i - 1)
    <2>1. \A i \in 1..offset : i - 1 \in Nat
      BY <1>1
    <2>2. QED
      BY <1>1, <2>1 DEF Upto
  <1>7. t \in Seq(V) /\ Len(t) = m /\ \A i \in 1..m : t[i] = PageOf(v, offset + i - 1)
    <2>1. \A i \in 1..m : offset + i - 1 \in Nat
      BY <1>1, <1>3
    <2>2. QED
      BY <1>2, <1>3, <2>1
  <1> HIDE DEF s, t, V
  <1>8. s \o t = Upto(v, offset + m)
    <2>1. /\ s \o t \in Seq(V) /\ Len(s \o t) = offset + m
          /\ \A i \in 1..m : (s \o t)[offset + i] = t[i]
          /\ \A i \in 1..offset : (s \o t)[i] = s[i]
      <3>1. s \in Seq(V) /\ t \in Seq(V) /\ Len(s) = offset /\ offset \in Nat
        BY <1>0, <1>6, <1>7
      <3>2. /\ s \o t \in Seq(V) /\ Len(s \o t) = offset + Len(t)
            /\ \A i \in 1..Len(t) : (s \o t)[offset + i] = t[i]
            /\ \A i \in 1..offset : (s \o t)[i] = s[i]
        BY <3>1, CatIs
      <3>3. QED
        BY <1>7, <3>2
    <2> DEFINE u == s \o t
               k == offset + m
    <2>2. u \in Seq(V) /\ Len(u) = k
      BY <2>1
    <2>3. ASSUME NEW i \in 1..offset + m PROVE (s \o t)[i] = PageOf(v, i - 1)
      <3>1. CASE i <= offset
        BY <1>0, <1>6, <2>1, <3>1
      <3>2. CASE ~(i <= offset)
        <4>1. /\ i - offset \in 1..m /\ offset + (i - offset) - 1 = i - 1
              /\ offset + (i - offset) = i
          BY <1>0, <1>3, <3>2
        <4>2. QED
          BY <1>7, <2>1, <4>1
      <3>3. QED
        BY <3>1, <3>2
    <2>4. \A i \in 1..k : u[i] = PageOf(v, i - 1)
      BY <2>3
    <2> HIDE DEF u, k
    <2>5. u = [i \in 1..k |-> u[i]]
      BY <2>2
    <2>6. u = Upto(v, k)
      BY <2>4, <2>5 DEF Upto
    <2>7. QED
      BY <2>6 DEF u, k
  <1>9. FileSum(v) = Upto(v, Length)
    BY DEF FileSum, Upto
  <1>10. Short(t) <=> n = Blocks
    BY <1>4, <1>7, UploadAssumption DEF Short
  <1>11. QED
    BY <1>5, <1>8, <1>9, <1>10 DEF s, t, offset

-----------------------------------------------------------------------------
(* The invariant of a round trip.  The server may have the host's file     *)
(* only from an OK on: Claimed says in how many ways that can be known,    *)
(* and as long as one of them holds the file is there, whatever packets of *)
(* the host are still under way.                                           *)
FileHere(v) ==
    /\ \A p \in 0..Length-1 : flash.pages[p] = PageOf(v, p)
    /\ flash.info = FileInfo(v)

Under(op) == \E p \in ToSet(toServer) : p.op = op

Sure == {"ok", "rrq", "read", "got"}

Claimed == \/ \E r \in ToSet(toHost) : r.op = "OK"
           \/ srv.okSum = FileSum(host.ver)
           \/ host.pc \in Sure
           \/ srv.state = "rrq"
           \/ Under("RRQ")

\* The versions there have been.
Past == 0..host.ver \cup {ToolVersion}

Known == /\ srv.okSum # NoSum => \E v \in Past : srv.okSum = FileSum(v)
         /\ \A p \in ToSet(toServer) : p.ver \in Past

\* A host whose request is not answered has said nothing else.
First == host.pc = "wrq" =>
           /\ ~Claimed
           /\ toServer # << >> => toServer = <<HostPacket("WRQ", 0)>> /\ toHost = << >>

GotIs(h) ==
    /\ h.pc \in {"wrq", "data", "sum", "ok", "rrq"} => h.got = << >>
    /\ h.pc = "rrq" => h.blk = 0
    /\ h.pc = "read" => h.blk < Blocks /\ h.got = Upto(h.ver, h.blk * BlockPages)
    /\ h.pc = "got" => h.got = FileSum(h.ver)

Round ==
    /\ \A p \in ToSet(toServer) : p.ver = host.ver
    /\ First
    /\ host.pc # "wrq" => ~Under("WRQ")
    /\ Claimed => FileHere(host.ver) /\ ram.flag # "write"
    /\ srv.state = "rrq" => srv.size = Length
    /\ \A r \in ToSet(toHost) : r.op = "DATA" =>
         r.num \in Nat \ {0} /\ r.data = Piece(host.ver, r.num)
    /\ GotIs(host)

TripOK == Known /\ (~spoilt => Round)

\* The packets of a wire that grows or gives one up.
LEMMA ToSetIs ==
    ASSUME NEW s, IsSeq(s)
    PROVE  /\ s # << >> => Head(s) \in ToSet(s) /\ ToSet(Tail(s)) \subseteq ToSet(s)
           /\ \A p : ToSet(Append(s, p)) = ToSet(s) \cup {p}
  <1>1. PICK S : s \in Seq(S)
    BY DEF IsSeq
  <1>2. Len(s) \in Nat /\ DOMAIN s = 1..Len(s)
    BY <1>1
  <1>3. ASSUME s # << >> PROVE Head(s) \in ToSet(s) /\ ToSet(Tail(s)) \subseteq ToSet(s)
    <2>1. Len(s) >= 1 /\ Head(s) = s[1] /\ 1 \in 1..Len(s)
      BY <1>1, <1>3
    <2>2. /\ Tail(s) \in Seq(S) /\ Len(Tail(s)) = Len(s) - 1
          /\ \A i \in 1..Len(s)-1 : Tail(s)[i] = s[i + 1]
      BY <1>1, <1>3
    <2>3. DOMAIN Tail(s) = 1..Len(s)-1
      BY <2>2
    <2>4. \A i \in 1..Len(s)-1 : i + 1 \in 1..Len(s)
      BY <1>2
    <2>5. QED
      BY <1>2, <2>1, <2>2, <2>3, <2>4 DEF ToSet
  <1>4. ASSUME NEW p PROVE ToSet(Append(s, p)) = ToSet(s) \cup {p}
    <2>1. s \in Seq(S \cup {p}) /\ p \in S \cup {p}
      BY <1>1
    <2>2. /\ Append(s, p) \in Seq(S \cup {p}) /\ Len(Append(s, p)) = Len(s) + 1
          /\ Append(s, p)[Len(s) + 1] = p
          /\ \A i \in 1..Len(s) : Append(s, p)[i] = s[i]
      BY <2>1
    <2>3. DOMAIN Append(s, p) = 1..Len(s)+1
      BY <2>2
    <2>4. \A i \in 1..Len(s)+1 : i \in 1..Len(s) \/ i = Len(s) + 1
      BY <1>2
    <2>5. \A i \in 1..Len(s) : i \in 1..Len(s)+1
      BY <1>2
    <2>6. Len(s) + 1 \in 1..Len(s)+1
      BY <1>2
    <2>7. QED
      BY <1>2, <2>2, <2>3, <2>4, <2>5, <2>6 DEF ToSet
  <1>5. QED
    BY <1>3, <1>4

LEMMA ToSetEmpty == ToSet(<< >>) = {}
  <1>1. DOMAIN << >> = {}
    OBVIOUS
  <1>2. QED
    BY <1>1 DEF ToSet

\* What a handler says is on the wire then, and nothing else is new.
LEMMA SaidToSet ==
    ASSUME IsSeq(toHost), NEW p, Said(p)
    PROVE  \A r \in ToSet(toHost') : r \in ToSet(toHost) \/ Allowed(p, r)
  <1>1. PICK S : toHost \in Seq(S)
    BY DEF IsSeq
  <1>2. CASE toHost' = toHost
    BY <1>2
  <1>3. CASE \E n \in {1, 2} : \E r :
               Allowed(p, r) /\ toHost' = toHost \o [i \in 1..n |-> r]
    <2>1. PICK n \in {1, 2} : \E r : Allowed(p, r) /\ toHost' = toHost \o [i \in 1..n |-> r]
      BY <1>3
    <2>2. PICK r : Allowed(p, r) /\ toHost' = toHost \o [i \in 1..n |-> r]
      BY <2>1
    <2> DEFINE t == [i \in 1..n |-> r]
               u == toHost \o t
    <2>3. t \in Seq(S \cup {r}) /\ Len(t) = n /\ \A i \in 1..n : t[i] = r
      OBVIOUS
    <2>4. toHost \in Seq(S \cup {r}) /\ Len(toHost) \in Nat
      BY <1>1
    <2> HIDE DEF t
    <2>5. /\ u \in Seq(S \cup {r}) /\ Len(u) = Len(toHost) + n
          /\ \A i \in 1..n : u[Len(toHost) + i] = t[i]
          /\ \A i \in 1..Len(toHost) : u[i] = toHost[i]
      <3>1. /\ u \in Seq(S \cup {r}) /\ Len(u) = Len(toHost) + Len(t)
            /\ \A i \in 1..Len(t) : u[Len(toHost) + i] = t[i]
            /\ \A i \in 1..Len(toHost) : u[i] = toHost[i]
        BY <2>3, <2>4, CatIs
      <3>2. QED
        BY <2>3, <3>1
    <2> HIDE DEF u
    <2>6. ASSUME NEW i \in DOMAIN u PROVE u[i] \in ToSet(toHost) \/ u[i] = r
      <3>1. i \in 1..Len(toHost)+n
        BY <2>5
      <3>2. CASE i \in 1..Len(toHost)
        BY <2>4, <2>5, <3>2 DEF ToSet
      <3>3. CASE i \notin 1..Len(toHost)
        <4>1. i - Len(toHost) \in 1..n /\ Len(toHost) + (i - Len(toHost)) = i
          BY <2>4, <3>1, <3>3
        <4>2. QED
          BY <2>3, <2>5, <4>1
      <3>4. QED
        BY <3>2, <3>3
    <2>7. toHost' = u
      BY <2>2 DEF u, t
    <2>8. QED
      BY <2>2, <2>6, <2>7 DEF ToSet
  <1>4. QED
    BY <1>2, <1>3 DEF Said

LEMMA KnownKept ==
    ASSUME Known, host'.ver = host.ver, srv'.okSum \in {NoSum, srv.okSum},
           \A p \in ToSet(toServer') : p \in ToSet(toServer) \/ p.ver \in Past
    PROVE  Known'
  BY DEF Known, Past

\* The session and the file are as before, and on the wires is no more.
LEMMA NothingNew ==
    ASSUME TripOK, IsSeq(toServer), IsSeq(toHost), host' = host, flash' = flash, ram' = ram,
           srv'.okSum = srv.okSum, srv'.state = srv.state, srv'.size = srv.size,
           toServer' = toServer \/ (toServer # << >> /\ toServer' = Tail(toServer)),
           toHost' = toHost \/ (toHost # << >> /\ toHost' = Tail(toHost)),
           spoilt => spoilt'
    PROVE  TripOK'
  <1>1. ToSet(toServer') \subseteq ToSet(toServer) /\ ToSet(toHost') \subseteq ToSet(toHost)
    BY ToSetIs
  <1>2. Known'
    BY <1>1, KnownKept DEF TripOK
  <1>3. ASSUME ~spoilt PROVE Round'
    <2>1. Round
      BY <1>3 DEF TripOK
    <2>2. \A op : Under(op)' => Under(op)
      BY <1>1 DEF Under
    <2>3. Claimed' => Claimed
      BY <1>1, <2>2 DEF Claimed
    <2>4. (\A p \in ToSet(toServer) : p.ver = host.ver)'
      BY <1>1, <2>1 DEF Round
    <2>5. First'
      <3>1. SUFFICES ASSUME host.pc = "wrq", toServer' # << >>
                     PROVE  toServer' = <<HostPacket("WRQ", 0)>> /\ toHost' = << >>
        BY <2>1, <2>3 DEF First, Round, HostPacket
      <3>2. Tail(<<HostPacket("WRQ", 0)>>) = << >>
        OBVIOUS
      <3>3. toServer # << >>
        BY <3>1
      <3>4. QED
        BY <2>1, <3>1, <3>2, <3>3 DEF Round, First
    <2>6. (Claimed => FileHere(host.ver) /\ ram.flag # "write")'
      BY <2>1, <2>3 DEF Round, FileHere
    <2>7. QED
      BY <1>1, <2>1, <2>2, <2>4, <2>5, <2>6 DEF Round, GotIs
  <1>4. QED
    BY <1>2, <1>3 DEF TripOK

-----------------------------------------------------------------------------
(* A packet of the host is handled.                                        *)
LEMMA ReceiveRound ==
    ASSUME Inv, Known, Round, Receive, ~(faults' < faults), DeviceOK'
    PROVE  Round'
  <1> DEFINE p == Head(toServer)
  <1>1. /\ toServer # << >> /\ toServer' = Tail(toServer) /\ Handle(p) /\ host' = host
    BY DEF Receive
  <1>2. /\ p \in ToSet(toServer) /\ ToSet(toServer') \subseteq ToSet(toServer)
        /\ PacketOK(p)
    BY <1>1, ToSetIs, HeadIsOK DEF Inv, WireOK
  <1>3. p.ver = host.ver /\ host.ver \in Versions
    BY <1>2 DEF Round, Inv, HostOK, Versions
  <1> HIDE DEF p
  <1>4. Does(p)
    BY <1>1, <1>2, ReceiveDoes DEF Inv
  <1>5. \A op : Under(op)' => Under(op)
    BY <1>2 DEF Under
  <1>6. ASSUME Claimed PROVE flash' = flash /\ ram'.flag # "write" /\ FileHere(host.ver)
    <2>1. ram.flag # "write" /\ FileHere(host.ver)
      BY <1>6 DEF Round
    <2>2. p.op # "WRQ"
      <3>1. SUFFICES ASSUME p.op = "WRQ" PROVE FALSE
        OBVIOUS
      <3>2. Under("WRQ")
        BY <1>2, <3>1 DEF Under
      <3>3. QED
        BY <1>6, <3>2 DEF Round, First
    <2>3. QED
      BY <1>4, <2>1, <2>2 DEF Does
  <1>7. srv.state = "rrq" \/ p.op = "RRQ" => Claimed
    BY <1>2 DEF Claimed, Under
  <1>8. \A r \in ToSet(toHost') : r \in ToSet(toHost) \/ Allowed(p, r)
    BY <1>4, SaidToSet DEF Does, Inv
  <1>9. srv'.okSum = FileSum(host.ver) => FileHere(host.ver)' /\ ram'.flag # "write"
    <2>1. SUFFICES ASSUME srv'.okSum = FileSum(host.ver)
                   PROVE  FileHere(host.ver)' /\ ram'.flag # "write"
      OBVIOUS
    <2>2. FileSum(host.ver) # NoSum
      BY <1>3, FileSumIs
    <2>3. CASE srv.okSum = FileSum(host.ver)
      <3>1. Claimed
        BY <2>3 DEF Claimed
      <3>2. QED
        BY <1>1, <1>6, <3>1 DEF FileHere
    <2>4. CASE srv.okSum # FileSum(host.ver)
      <3>1. flash'.info = FileInfo(host.ver)
        BY <1>3, <1>4, <2>1, <2>2, <2>4 DEF Does
      <3>2. StoredSum(flash', ram', srv'.okSum, stale')
        BY DEF DeviceOK, FileOfSession, StoredSum, Stored, PV, PageValues, Versions
      <3>3. PICK v \in Versions : srv'.okSum = FileSum(v) /\ Stored(flash', v, stale')
        BY <2>1, <2>2, <3>2 DEF StoredSum
      <3>4. v = host.ver
        BY <1>3, <2>1, <3>3, FilesDiffer
      <3>5. ram'.flag # "write"
        BY <2>1, <2>2, <3>2 DEF StoredSum
      <3>6. QED
        BY <1>1, <3>1, <3>3, <3>4, <3>5 DEF FileHere, Stored
    <2>5. QED
      BY <2>3, <2>4
  <1>10. Claimed' => FileHere(host.ver)' /\ ram'.flag # "write"
    <2>1. Claimed => FileHere(host.ver)' /\ ram'.flag # "write"
      BY <1>1, <1>6 DEF FileHere
    <2>2. ASSUME NEW r \in ToSet(toHost'), r.op = "OK"
          PROVE  Claimed \/ srv'.okSum = FileSum(host.ver)
      BY <1>3, <1>8, <2>2 DEF Allowed, Claimed
    <2>3. srv'.state = "rrq" => Claimed
      BY <1>4, <1>7 DEF Does
    <2>4. Claimed' => Claimed \/ srv'.okSum = FileSum(host.ver)
      BY <1>1, <1>5, <2>2, <2>3 DEF Claimed
    <2>5. QED
      BY <1>9, <2>1, <2>4
  <1>11. First'
    <2>1. host.pc = "wrq" => toServer' = << >>
      <3>1. Tail(<<HostPacket("WRQ", 0)>>) = << >>
        OBVIOUS
      <3>2. QED
        BY <1>1, <3>1 DEF Round, First
    <2>2. host.pc = "wrq" => ~Claimed'
      <3>1. SUFFICES ASSUME host.pc = "wrq", Claimed' PROVE FALSE
        OBVIOUS
      <3>2. ~Claimed /\ p.op = "WRQ"
        <4>1. toServer = <<HostPacket("WRQ", 0)>>
          BY <1>1, <3>1 DEF Round, First
        <4>2. p = HostPacket("WRQ", 0)
          BY <4>1 DEF p
        <4>3. QED
          BY <3>1, <4>2 DEF Round, First, HostPacket, Packet
      <3>3. srv'.okSum # FileSum(host.ver)
        <4>1. srv'.okSum \in {NoSum, srv.okSum}
          BY <1>4, <3>2 DEF Does
        <4>2. FileSum(host.ver) # NoSum /\ srv.okSum # FileSum(host.ver)
          BY <1>3, <3>2, FileSumIs DEF Claimed
        <4>3. QED
          BY <4>1, <4>2
      <3>4. srv'.state # "rrq"
        BY <1>4, <3>2 DEF Does, Claimed
      <3>5. \A r \in ToSet(toHost') : r.op # "OK"
        BY <1>3, <1>8, <3>2, <3>3 DEF Allowed, Claimed
      <3>6. ~Under("RRQ")'
        BY <1>5, <3>2 DEF Claimed
      <3>7. QED
        BY <1>1, <3>1, <3>3, <3>4, <3>5, <3>6 DEF Claimed, Sure
    <2>3. QED
      BY <1>1, <2>1, <2>2 DEF First
  <1>12. srv'.state = "rrq" => srv'.size = Length
    <2>1. SUFFICES ASSUME srv'.state = "rrq" PROVE srv'.size = Length
      OBVIOUS
    <2>2. CASE srv.state = "rrq" /\ srv'.size = srv.size
      BY <2>2 DEF Round
    <2>3. CASE p.op = "RRQ" /\ srv'.size = flash'.info.size
      <3>1. flash'.info = FileInfo(host.ver)
        BY <1>6, <1>7, <2>3 DEF FileHere
      <3>2. QED
        BY <2>3, <3>1 DEF FileInfo
    <2>4. QED
      BY <1>4, <2>1, <2>2, <2>3 DEF Does
  <1>13. ASSUME NEW r \in ToSet(toHost'), r.op = "DATA"
         PROVE  r.num \in Nat \ {0} /\ r.data = Piece(host.ver, r.num)
    <2>1. CASE r \in ToSet(toHost)
      BY <1>13, <2>1 DEF Round
    <2>2. CASE Allowed(p, r)
      <3>1. srv.state = "rrq" /\ r.num = p.blk + 1 /\ r.data = ReadBlock(p.blk + 1, srv.size)
        BY <1>13, <2>2 DEF Allowed
      <3>2. srv.size = Length /\ \A i \in 0..Length-1 : flash.pages[i] = PageOf(host.ver, i)
        BY <1>6, <1>7, <3>1 DEF Round, FileHere
      <3>3. p.blk + 1 \in Nat \ {0}
        BY <1>2 DEF PacketOK
      <3>4. ReadBlock(p.blk + 1, Length) = Piece(host.ver, p.blk + 1)
        BY <3>2, <3>3, ReadIsPiece
      <3>5. QED
        BY <3>1, <3>2, <3>3, <3>4
    <2>3. QED
      BY <1>8, <2>1, <2>2
  <1>14. (\A q \in ToSet(toServer) : q.ver = host.ver)'
    BY <1>1, <1>2 DEF Round
  <1>15. (host.pc # "wrq" => ~Under("WRQ"))'
    BY <1>1, <1>5 DEF Round
  <1>16. GotIs(host)'
    BY <1>1 DEF Round, GotIs
  <1>17. (\A r \in ToSet(toHost) : r.op = "DATA" =>
            r.num \in Nat \ {0} /\ r.data = Piece(host.ver, r.num))'
    BY <1>1, <1>13 DEF Piece, PageOf, Length
  <1>18. QED
    BY <1>1, <1>10, <1>11, <1>12, <1>14, <1>15, <1>16, <1>17 DEF Round, Length

LEMMA ReceiveTrip == ASSUME Inv, TripOK, Receive, DeviceOK' PROVE TripOK'
  <1>1. toServer # << >> /\ toServer' = Tail(toServer) /\ Handle(Head(toServer)) /\ host' = host
        /\ spoilt' = (spoilt \/ faults' < faults)
    BY DEF Receive
  <1>2. /\ Head(toServer) \in ToSet(toServer) /\ ToSet(toServer') \subseteq ToSet(toServer)
        /\ PacketOK(Head(toServer))
    BY <1>1, ToSetIs, HeadIsOK DEF Inv, WireOK
  <1>3. Does(Head(toServer))
    BY <1>1, <1>2, ReceiveDoes DEF Inv
  <1>4. Known'
    <2>1. CASE srv'.okSum \in {NoSum, srv.okSum}
      BY <1>1, <1>2, <2>1, KnownKept DEF TripOK
    <2>2. CASE srv'.okSum = FileSum(Head(toServer).ver)
      BY <1>1, <1>2, <2>2 DEF TripOK, Known, Past, FileSum, Length, PageOf
    <2>3. QED
      BY <1>3, <2>1, <2>2 DEF Does
  <1>5. ~spoilt' => Round'
    BY <1>1, ReceiveRound DEF TripOK
  <1>6. QED
    BY <1>4, <1>5 DEF TripOK

-----------------------------------------------------------------------------
(* The other steps of the device.                                          *)
LEMMA TickTrip == ASSUME Inv, TripOK, Tick PROVE TripOK'
  <1> DEFINE s == Older(srv)
  <1>1. /\ toServer' = toServer /\ toHost' = toHost /\ host' = host
        /\ spoilt' = (spoilt \/ srv'.state # srv.state)
        /\ IF s.idle < IdleMax THEN Ends(Same, s) ELSE ClearState(Same, s)
    BY DEF Tick
  <1>2. DeviceOK /\ Mild(srv) /\ Calm(flash, ram, Same)
    BY ReadyIs DEF Inv
  <1>3. /\ DOMAIN s = SessionFields /\ s.okSum = srv.okSum /\ s.state = srv.state
        /\ s.size = srv.size /\ (srv.state = "idle" => s.idle = 0)
    BY <1>2 DEF Older, Mild, SessionFields
  <1> HIDE DEF s
  <1>4. CASE Ends(Same, s)
    <2>1. flash' = flash /\ ram' = ram /\ srv' = s
      BY <1>2, <1>4, SameIs DEF Ends
    <2>2. QED
      BY <1>1, <1>3, <2>1, NothingNew DEF Inv, WireOK
  <1>5. CASE ~(s.idle < IdleMax) /\ ClearState(Same, s)
    <2>1. Quietly
      BY <1>2, <1>3, <1>5, ClearQuiet
    <2>2. Known'
      BY <1>1, <2>1, KnownKept DEF TripOK, Quietly, Modest
    <2>3. srv.state # "idle"
      BY <1>3, <1>5, UploadAssumption
    <2>4. srv'.state = "idle"
      <3>1. Cleared(s).state = "idle"
        BY <1>3 DEF Cleared, SessionFields
      <3>2. srv' \in {Cleared(s), Boot}
        BY <1>5, ClearSession
      <3>3. QED
        BY <3>1, <3>2 DEF Boot
    <2>5. spoilt'
      BY <1>1, <2>3, <2>4
    <2>6. QED
      BY <2>2, <2>5 DEF TripOK
  <1>6. QED
    BY <1>1, <1>4, <1>5

LEMMA SpoiltTrip ==
    ASSUME Inv, TripOK,
           Restart \/ ToolSends \/ \E op \in {"OK", "ERROR", "ACK"} : CanSendPacket(op)
    PROVE  TripOK'
  <1>1. spoilt' /\ host' = host
    BY DEF Restart, ToolSends, CanSendPacket
  <1>2. CASE Restart
    <2>1. toServer' = << >> /\ srv' = Boot
      BY <1>2 DEF Restart, Restarted
    <2>2. Boot.okSum = NoSum
      BY DEF Boot
    <2>3. Known'
      BY <1>1, <2>1, <2>2, ToSetEmpty, KnownKept DEF TripOK
    <2>4. QED
      BY <1>1, <2>3 DEF TripOK
  <1>3. CASE ToolSends
    <2>1. PICK p \in ToolPackets : Sends(p)
      BY <1>3 DEF ToolSends
    <2>2. p.ver = ToolVersion
      BY DEF ToolPackets, Packet
    <2>3. ToSet(toServer') = ToSet(toServer) \cup {p}
      BY <2>1, ToSetIs DEF Sends, Inv, WireOK
    <2>4. srv' = srv
      BY <1>3 DEF ToolSends, HostOnly
    <2>5. \A q \in ToSet(toServer') : q \in ToSet(toServer) \/ q.ver \in Past
      BY <2>2, <2>3 DEF Past
    <2>6. QED
      BY <1>1, <2>4, <2>5, KnownKept DEF TripOK
  <1>4. CASE \E op \in {"OK", "ERROR", "ACK"} : CanSendPacket(op)
    <2>1. PICK op \in {"OK", "ERROR", "ACK"} : CanSendPacket(op)
      BY <1>4
    <2> DEFINE s == [srv EXCEPT !.idle = 0]
               opened == IF op = "OK" THEN [s EXCEPT !.rst = RstMax] ELSE s
    <2>2. Mild(s) /\ DOMAIN opened = SessionFields
      BY ReadyIs DEF Inv, Mild, Modest, SessionFields
    <2>3. /\ toServer' = toServer
          /\ Ends(Same, s) \/ ClearState(Same, opened)
      BY <2>1 DEF CanSendPacket, Leave
    <2> HIDE DEF s, opened
    <2>4. Quietly
      BY <2>2, <2>3, ReadyIs, EndsQuiet, ClearQuiet DEF Inv, Mild
    <2>5. Known'
      BY <1>1, <2>3, <2>4, KnownKept DEF TripOK, Quietly, Modest
    <2>6. QED
      BY <1>1, <2>5 DEF TripOK
  <1>5. QED
    BY <1>2, <1>3, <1>4

-----------------------------------------------------------------------------
(* The steps of the host.  After the first packet of a download it sends   *)
(* others than requests to write, and requests to read only when it has    *)
(* been told OK.                                                           *)
SendsOn == \/ toServer' = toServer
           \/ \E op, b : /\ op # "WRQ" /\ (op = "RRQ" => host.pc \in Sure)
                         /\ toServer' = Append(toServer, HostPacket(op, b))

LEMMA HostMoves ==
    ASSUME Inv, TripOK, HostOnly, spoilt => spoilt', host'.ver = host.ver, SendsOn,
           toHost' = toHost \/ (toHost # << >> /\ toHost' = Tail(toHost)),
           ~spoilt => /\ host'.pc # "wrq" /\ (host.pc = "wrq" => toServer = << >>)
                      /\ host'.pc \in Sure => Claimed
                      /\ GotIs(host')
    PROVE  TripOK'
  <1>1. srv' = srv /\ flash' = flash /\ ram' = ram
    BY DEF HostOnly
  <1>2. ToSet(toHost') \subseteq ToSet(toHost)
    BY ToSetIs DEF Inv
  <1>3. \/ ToSet(toServer') = ToSet(toServer)
        \/ \E op, b : /\ op # "WRQ" /\ (op = "RRQ" => host.pc \in Sure)
                      /\ ToSet(toServer') = ToSet(toServer) \cup {HostPacket(op, b)}
    <2>1. \A p : ToSet(Append(toServer, p)) = ToSet(toServer) \cup {p}
      BY ToSetIs DEF Inv, WireOK
    <2>2. CASE toServer' = toServer
      BY <2>2
    <2>3. CASE \E op, b : /\ op # "WRQ" /\ (op = "RRQ" => host.pc \in Sure)
                          /\ toServer' = Append(toServer, HostPacket(op, b))
      BY <2>1, <2>3
    <2>4. QED
      BY <2>2, <2>3 DEF SendsOn
  <1>4. \A op, b : HostPacket(op, b).ver = host.ver /\ HostPacket(op, b).op = op
    BY DEF HostPacket, Packet
  <1>5. \A p \in ToSet(toServer') :
          \/ p \in ToSet(toServer)
          \/ p.ver = host.ver /\ p.op # "WRQ" /\ (p.op = "RRQ" => host.pc \in Sure)
    BY <1>3, <1>4
  <1>6. Known'
    <2>1. host.ver \in Past
      BY DEF Inv, HostOK, Past
    <2>2. QED
      BY <1>1, <1>5, <2>1, KnownKept DEF TripOK
  <1>7. ASSUME ~spoilt PROVE Round'
    <2>1. Round /\ GotIs(host')
      BY <1>7 DEF TripOK
    <2>2. Under("RRQ")' => Under("RRQ") \/ host.pc \in Sure
      BY <1>5 DEF Under
    <2>3. Claimed' => Claimed
      BY <1>1, <1>2, <1>7, <2>2 DEF Claimed
    <2>4. (\A p \in ToSet(toServer) : p.ver = host.ver)'
      BY <1>5, <2>1 DEF Round
    <2>5. ~Under("WRQ")'
      <3>1. ~Under("WRQ")
        BY <1>7, <2>1, ToSetEmpty DEF Round, Under
      <3>2. QED
        BY <1>5, <3>1 DEF Under
    <2>6. (Claimed => FileHere(host.ver) /\ ram.flag # "write")'
      BY <1>1, <2>1, <2>3 DEF Round, FileHere
    <2>7. (\A r \in ToSet(toHost) : r.op = "DATA" =>
             r.num \in Nat \ {0} /\ r.data = Piece(host.ver, r.num))'
      BY <1>2, <2>1 DEF Round, Piece, PageOf, Length
    <2>8. First' /\ (host.pc # "wrq" => ~Under("WRQ"))'
      BY <1>7, <2>5 DEF First
    <2>9. (srv.state = "rrq" => srv.size = Length)'
      BY <1>1, <2>1 DEF Round, Length
    <2>10. GotIs(host)'
      BY <2>1 DEF GotIs
    <2>11. QED
      BY <2>4, <2>6, <2>7, <2>8, <2>9, <2>10 DEF Round
  <1>8. QED
    BY <1>6, <1>7 DEF TripOK

(* A download is of a version that the server cannot know.                 *)
LEMMA StartTrip == ASSUME Inv, TripOK, HostStart PROVE TripOK'
  <1> DEFINE v == host.ver + 1
             p == Packet("WRQ", "self", Host, v, 0)
  <1>1. /\ toServer = << >> /\ toHost' = << >> /\ toServer' = Append(toServer, p)
        /\ host' = [pc |-> "wrq", ver |-> v, blk |-> 0, tries |-> 0, got |-> << >>]
        /\ spoilt' = (srv.state # "idle" \/ srv.total # NoSum)
        /\ srv' = srv
    BY DEF HostStart, Sends, HostOnly
  <1>2. host.ver \in 0..Attempts /\ host.ver < Attempts /\ Attempts \in Nat
    BY UploadAssumption DEF Inv, HostOK, HostStart
  <1>3. v \in Versions /\ v \in 0..v /\ 0..host.ver \subseteq 0..v /\ v \notin Past
        /\ Past \subseteq Versions
    BY <1>2, UploadAssumption DEF Past, Versions
  <1>4. p.ver = v /\ p.op = "WRQ"
    BY DEF Packet
  <1>5. host'.ver = v /\ host'.pc = "wrq" /\ host'.got = << >>
    BY <1>1
  <1>6. HostPacket("WRQ", 0)' = p
    BY <1>5 DEF HostPacket, Packet
  <1> HIDE DEF v, p
  <1>7. ToSet(toServer') = {p} /\ toServer' = <<p>>
    <2>1. IsSeq(<< >>)
      BY EmptyIsOK
    <2>2. ToSet(Append(<< >>, p)) = ToSet(<< >>) \cup {p}
      BY <2>1, ToSetIs
    <2>3. Append(<< >>, p) = <<p>>
      OBVIOUS
    <2>4. QED
      BY <1>1, <2>2, <2>3, ToSetEmpty
  <1>8. Known'
    BY <1>1, <1>3, <1>4, <1>5, <1>7 DEF TripOK, Known, Past, FileSum, PageOf, Length
  <1>9. ASSUME ~spoilt' PROVE Round'
    <2>1. srv'.state = "idle"
      BY <1>1, <1>9
    <2>2. srv'.okSum # FileSum(v)
      <3>1. FileSum(v) # NoSum
        BY <1>3, FileSumIs
      <3>2. \A w \in Past : FileSum(w) # FileSum(v)
        BY <1>3, FilesDiffer
      <3>3. QED
        BY <1>1, <3>1, <3>2 DEF TripOK, Known
    <2>3. ToSet(toHost') = {}
      BY <1>1, ToSetEmpty
    <2>4. ~Claimed'
      BY <1>4, <1>5, <1>7, <2>1, <2>2, <2>3
         DEF Claimed, Under, Sure, FileSum, PageOf, Length
    <2>5. First'
      BY <1>1, <1>6, <1>7, <2>4 DEF First
    <2>6. GotIs(host)'
      BY <1>5 DEF GotIs
    <2>7. QED
      BY <1>4, <1>5, <1>7, <2>1, <2>3, <2>4, <2>5, <2>6 DEF Round
  <1>10. QED
    BY <1>8, <1>9 DEF TripOK

LEMMA ReadTrip == ASSUME Inv, TripOK, HostRead \/ HostReset PROVE TripOK'
  <1>1. /\ HostOnly /\ spoilt' = spoilt /\ toHost' = toHost /\ host.pc \in {"ok", "got"}
        /\ \E op \in {"RRQ", "RST"} : toServer' = Append(toServer, HostPacket(op, 0))
    BY DEF HostRead, HostReset, Sends
  <1>2. SendsOn
    BY <1>1 DEF SendsOn, Sure
  <1>3. Claimed
    BY <1>1 DEF Claimed, Sure
  <1>4. DOMAIN host = HostFields
    BY DEF Inv, HostOK
  <1>5. /\ host'.ver = host.ver /\ host'.pc # "wrq"
        /\ ~spoilt => GotIs(host')
    <2>1. CASE host' = [host EXCEPT !.pc = "rrq", !.blk = 0, !.tries = 0] /\ host.pc = "ok"
      BY <1>4, <2>1 DEF HostFields, TripOK, Round, GotIs
    <2>2. CASE host' = [host EXCEPT !.pc = "idle"]
      BY <1>4, <2>2 DEF HostFields, GotIs
    <2>3. QED
      BY <2>1, <2>2 DEF HostRead, HostReset
  <1>6. QED
    BY <1>1, <1>2, <1>3, <1>5, HostMoves

LEMMA GiveUpTrip == ASSUME Inv, TripOK, HostGiveUp PROVE TripOK'
  <1>1. /\ HostOnly /\ (spoilt => spoilt') /\ toHost' = toHost /\ toServer = << >>
        /\ host' = [host EXCEPT !.pc = "idle"]
        /\ toServer' = toServer \/ toServer' = Append(toServer, HostPacket("STOP", 0))
    BY DEF HostGiveUp, Sends, Quiet
  <1>2. SendsOn
    BY <1>1 DEF SendsOn
  <1>3. /\ host'.ver = host.ver /\ host'.pc = "idle" /\ GotIs(host')
    BY <1>1 DEF Inv, HostOK, HostFields, GotIs
  <1>4. "idle" \notin Sure
    BY DEF Sure
  <1>5. QED
    BY <1>1, <1>2, <1>3, <1>4, HostMoves

LEMMA RepeatTrip == ASSUME Inv, TripOK, HostRepeat PROVE TripOK'
  <1>1. /\ HostOnly /\ (spoilt => spoilt') /\ toHost' = toHost
        /\ host' = [host EXCEPT !.tries = @ + 1]
        /\ toServer' = Append(toServer, Current)
        /\ host.pc \in {"wrq", "data", "sum", "rrq", "read"}
    <2>1. spoilt => spoilt'
      BY DEF HostRepeat
    <2>2. host.pc \in {"wrq", "data", "sum", "rrq", "read"}
      BY DEF HostRepeat, Waiting, Uploading, Reading
    <2>3. /\ HostOnly /\ toHost' = toHost /\ host' = [host EXCEPT !.tries = @ + 1]
          /\ toServer' = Append(toServer, Current)
      BY DEF HostRepeat, Sends
    <2>4. QED
      BY <2>1, <2>2, <2>3
  <1>2. /\ host'.pc = host.pc /\ host'.ver = host.ver /\ host'.blk = host.blk
        /\ host'.got = host.got
    BY <1>1 DEF Inv, HostOK, HostFields
  <1>3. CASE host.pc # "wrq"
    <2>1. \E op, b : /\ op # "WRQ" /\ (op = "RRQ" => host.pc \in Sure)
                     /\ Current = HostPacket(op, b)
      <3>1. /\ host.pc = "data" => Current = HostPacket("DATA", host.blk)
            /\ host.pc = "sum" => Current = HostPacket("SUM", 0)
            /\ host.pc = "rrq" => Current = HostPacket("RRQ", 0)
            /\ host.pc = "read" => Current = HostPacket("ACK", host.blk)
        BY DEF Current
      <3>2. QED
        BY <1>1, <1>3, <3>1 DEF Sure
    <2>2. SendsOn
      BY <1>1, <2>1 DEF SendsOn
    <2>3. ~spoilt => GotIs(host')
      BY <1>2 DEF TripOK, Round, GotIs
    <2>4. host'.pc \in Sure => Claimed
      BY <1>2 DEF Claimed
    <2>5. QED
      BY <1>1, <1>2, <1>3, <2>2, <2>3, <2>4, HostMoves
  <1>4. CASE host.pc = "wrq"
    <2>1. Current = HostPacket("WRQ", 0)
      BY <1>4 DEF Current
    <2>2. HostPacket("WRQ", 0).ver = host.ver /\ HostPacket("WRQ", 0).op = "WRQ"
      BY DEF HostPacket, Packet
    <2>3. ToSet(toServer') = ToSet(toServer) \cup {HostPacket("WRQ", 0)}
      BY <1>1, <2>1, ToSetIs DEF Inv, WireOK
    <2>4. srv' = srv /\ flash' = flash /\ ram' = ram
      BY <1>1 DEF HostOnly
    <2>5. Known'
      <3>1. host.ver \in Past
        BY DEF Inv, HostOK, Past
      <3>2. QED
        BY <1>2, <2>2, <2>3, <2>4, <3>1, KnownKept DEF TripOK
    <2>6. ASSUME ~spoilt' PROVE Round'
      <3>1. Round
        BY <1>1, <2>6 DEF TripOK
      <3>2. toServer = << >> /\ toHost = << >>
        BY <2>1, <2>2, <2>6 DEF HostRepeat, Quiet
      <3>3. toServer' = <<HostPacket("WRQ", 0)>> /\ ToSet(toServer') = {HostPacket("WRQ", 0)}
        <4>1. Append(<< >>, Current) = <<Current>>
          OBVIOUS
        <4>2. QED
          BY <1>1, <2>1, <2>3, <3>2, <4>1, ToSetEmpty
      <3>4. ~Claimed'
        <4>1. ~Claimed
          BY <1>4, <3>1 DEF Round, First
        <4>2. ~Under("RRQ")'
          BY <2>2, <3>3 DEF Under
        <4>3. QED
          BY <1>1, <1>2, <2>4, <4>1, <4>2 DEF Claimed
      <3>5. First'
        BY <1>1, <1>2, <3>2, <3>3, <3>4 DEF First, HostPacket
      <3>6. GotIs(host)'
        BY <1>2, <3>1 DEF Round, GotIs
      <3>7. (\A p \in ToSet(toServer) : p.ver = host.ver)'
        BY <1>2, <2>2, <3>3
      <3>8. (srv.state = "rrq" => srv.size = Length)'
        BY <2>4, <3>1 DEF Round, Length
      <3>9. ToSet(toHost') = {}
        BY <1>1, <3>2, ToSetEmpty
      <3>10. QED
        BY <1>2, <1>4, <3>4, <3>5, <3>6, <3>7, <3>8, <3>9 DEF Round
    <2>7. QED
      BY <2>5, <2>6 DEF TripOK
  <1>5. QED
    BY <1>3, <1>4

(* A reply: what the host has read so far is what the file has so far.     *)
LEMMA ReplyTrip == ASSUME Inv, TripOK, HostReceive PROVE TripOK'
  <1> DEFINE r == Head(toHost)
             moves == [host EXCEPT !.tries = 0]
             done == [moves EXCEPT !.pc = "idle"]
             ok == [moves EXCEPT !.pc = "ok"]
             opened == [moves EXCEPT !.pc = "read"]
             got == [moves EXCEPT !.pc = IF Short(r.data) THEN "got" ELSE "read",
                                  !.blk = @ + 1, !.got = @ \o r.data]
             next == [moves EXCEPT !.pc = "data", !.blk = @ + 1]
             last == [moves EXCEPT !.pc = "sum"]
  <1>1. /\ toHost # << >> /\ toHost' = Tail(toHost)
        /\ \/ HostNext(host) /\ UNCHANGED toServer
           \/ HostNext(done) /\ UNCHANGED toServer
           \/ host.pc = "sum" /\ r.op = "OK" /\ HostNext(ok) /\ UNCHANGED toServer
           \/ host.pc = "rrq" /\ HostNext(opened) /\ Sends(HostPacket("ACK", 0))
           \/ /\ host.pc = "read" /\ r.op = "DATA" /\ r.num = host.blk + 1
              /\ HostNext(got) /\ Sends(HostPacket("ACK", host.blk + 1))
           \/ /\ host.pc \in {"wrq", "data"}
              /\ HostNext(next) /\ Sends(HostPacket("DATA", host.blk + 1))
           \/ /\ host.pc \in {"wrq", "data"}
              /\ HostNext(last) /\ Sends(HostPacket("SUM", 0))
    BY DEF HostReceive
  <1>2. r \in ToSet(toHost)
    BY <1>1, ToSetIs DEF Inv
  <1>3. DOMAIN host = HostFields /\ host.blk \in Nat
    BY DEF Inv, HostOK
  <1>4. ASSUME ~spoilt
        PROVE  Round /\ (host.pc = "wrq" => toServer = << >>) /\ GotIs(host)
    BY <1>1, <1>4 DEF TripOK, Round, First
  <1> DEFINE Honest(h) == /\ h.ver = host.ver /\ h.pc # "wrq"
                          /\ h.pc \in Sure => Claimed
                          /\ GotIs(h)
  <1>5. ASSUME NEW h, HostNext(h), SendsOn, h.ver = host.ver, ~spoilt => Honest(h)
        PROVE  TripOK'
    BY <1>1, <1>4, <1>5, HostMoves DEF HostNext
  <1>6. CASE HostNext(host) /\ UNCHANGED toServer
    BY <1>1, <1>6, NothingNew DEF HostNext, HostOnly, Inv, WireOK
  <1>7. CASE HostNext(done) /\ UNCHANGED toServer
    <2>1. Honest(done)
      BY <1>3 DEF HostFields, GotIs, Sure
    <2> HIDE DEF done
    <2>2. QED
      BY <1>5, <1>7, <2>1 DEF SendsOn
  <1>8. CASE host.pc = "sum" /\ r.op = "OK" /\ HostNext(ok) /\ UNCHANGED toServer
    <2>1. Claimed
      BY <1>2, <1>8 DEF Claimed
    <2>2. ok.ver = host.ver /\ (~spoilt => Honest(ok))
      BY <1>3, <1>4, <1>8, <2>1 DEF HostFields, GotIs
    <2> HIDE DEF ok
    <2>3. QED
      BY <1>5, <1>8, <2>2 DEF SendsOn
  <1>9. CASE host.pc = "rrq" /\ HostNext(opened) /\ Sends(HostPacket("ACK", 0))
    <2>1. Claimed
      BY <1>9 DEF Claimed, Sure
    <2>2. opened.ver = host.ver /\ opened.pc = "read" /\ opened.blk = host.blk
          /\ opened.got = host.got
      BY <1>3 DEF HostFields
    <2>3. ASSUME ~spoilt PROVE GotIs(opened)
      <3>1. opened.blk = 0 /\ opened.got = << >>
        BY <1>4, <1>9, <2>2, <2>3 DEF GotIs
      <3>2. 0 * BlockPages = 0 /\ 0 < Blocks
        BY UploadAssumption
      <3>3. Upto(host.ver, 0) = << >>
        BY DEF Upto
      <3>4. QED
        BY <2>2, <3>1, <3>2, <3>3 DEF GotIs
    <2> HIDE DEF opened
    <2>4. SendsOn
      BY <1>9 DEF SendsOn, Sends
    <2>5. QED
      BY <1>5, <1>9, <2>1, <2>2, <2>3, <2>4
  <1>10. CASE /\ host.pc = "read" /\ r.op = "DATA" /\ r.num = host.blk + 1
              /\ HostNext(got) /\ Sends(HostPacket("ACK", host.blk + 1))
    <2>1. Claimed
      BY <1>10 DEF Claimed, Sure
    <2>2. /\ got.ver = host.ver /\ got.pc = (IF Short(r.data) THEN "got" ELSE "read")
          /\ got.blk = host.blk + 1 /\ got.got = host.got \o r.data
      BY <1>3 DEF HostFields
    <2>3. ASSUME ~spoilt PROVE GotIs(got)
      <3> DEFINE n == host.blk + 1
      <3>1. n \in 1..Blocks /\ n - 1 = host.blk
        BY <1>3, <1>4, <1>10, <2>3, UploadAssumption DEF GotIs
      <3>2. host.got = Upto(host.ver, host.blk * BlockPages)
        BY <1>4, <1>10, <2>3 DEF GotIs
      <3>3. r.data = Piece(host.ver, n)
        BY <1>2, <1>4, <1>10, <2>3 DEF Round
      <3> HIDE DEF n
      <3>4. /\ Short(r.data) <=> n = Blocks
            /\ Upto(host.ver, (n - 1) * BlockPages) \o r.data =
                 IF n = Blocks THEN FileSum(host.ver) ELSE Upto(host.ver, n * BlockPages)
        BY <3>1, <3>3, PieceFollows
      <3>5. got.got = IF n = Blocks THEN FileSum(host.ver) ELSE Upto(host.ver, n * BlockPages)
        BY <2>2, <3>1, <3>2, <3>4
      <3>6. got.blk = n /\ got.pc = IF n = Blocks THEN "got" ELSE "read"
        BY <2>2, <3>4 DEF n
      <3>7. n # Blocks => n < Blocks
        BY <3>1, UploadAssumption
      <3> HIDE DEF got
      <3>8. QED
        BY <2>2, <3>5, <3>6, <3>7 DEF GotIs
    <2>4. got.pc # "wrq"
      BY <2>2
    <2> HIDE DEF got
    <2>5. SendsOn
      BY <1>10 DEF SendsOn, Sends
    <2>6. QED
      BY <1>5, <1>10, <2>1, <2>2, <2>3, <2>4, <2>5
  <1>11. CASE /\ host.pc \in {"wrq", "data"}
              /\ HostNext(next) /\ Sends(HostPacket("DATA", host.blk + 1))
    <2>1. next.ver = host.ver /\ (~spoilt => Honest(next))
      BY <1>3, <1>4, <1>11 DEF HostFields, GotIs, Sure
    <2> HIDE DEF next
    <2>2. SendsOn
      BY <1>11 DEF SendsOn, Sends
    <2>3. QED
      BY <1>5, <1>11, <2>1, <2>2
  <1>12. CASE /\ host.pc \in {"wrq", "data"}
              /\ HostNext(last) /\ Sends(HostPacket("SUM", 0))
    <2>1. last.ver = host.ver /\ (~spoilt => Honest(last))
      BY <1>3, <1>4, <1>12 DEF HostFields, GotIs, Sure
    <2> HIDE DEF last
    <2>2. SendsOn
      BY <1>12 DEF SendsOn, Sends
    <2>3. QED
      BY <1>5, <1>12, <2>1, <2>2
  <1>13. QED
    BY <1>1, <1>6, <1>7, <1>8, <1>9, <1>10, <1>11, <1>12

LEMMA LoseTrip == ASSUME Inv, TripOK, Lose PROVE TripOK'
  <1>1. /\ host' = host /\ HostOnly /\ (spoilt => spoilt')
        /\ toServer' = toServer \/ (toServer # << >> /\ toServer' = Tail(toServer))
        /\ toHost' = toHost \/ (toHost # << >> /\ toHost' = Tail(toHost))
    <2>1. host' = host /\ HostOnly
      BY DEF Lose
    <2>2. spoilt => spoilt'
      BY DEF Lose
    <2>3. toServer' = toServer \/ (toServer # << >> /\ toServer' = Tail(toServer))
      BY DEF Lose
    <2>4. toHost' = toHost \/ (toHost # << >> /\ toHost' = Tail(toHost))
      BY DEF Lose
    <2>5. QED
      BY <2>1, <2>2, <2>3, <2>4
  <1>2. QED
    BY <1>1, NothingNew DEF HostOnly, Inv, WireOK

LEMMA InitTrip == ASSUME Init PROVE TripOK
  <1>1. /\ toServer = << >> /\ toHost = << >> /\ srv = Boot /\ flash.info = FileInfo(0)
        /\ \A p \in Pages : flash.pages[p] = PageOf(0, p)
        /\ host = [pc |-> "idle", ver |-> 0, blk |-> 0, tries |-> 0, got |-> << >>]
        /\ ram = ClosedRam
    BY DEF Init
  <1>2. ToSet(toServer) = {} /\ ToSet(toHost) = {}
    BY <1>1, ToSetEmpty
  <1>3. srv.okSum = NoSum /\ srv.state = "idle"
    BY <1>1 DEF Boot
  <1>4. Known
    BY <1>2, <1>3 DEF Known
  <1>5. ~Claimed
    <2>1. FileSum(0) # NoSum
      BY UploadAssumption, FileSumIs DEF Versions
    <2>2. QED
      BY <1>1, <1>2, <1>3, <2>1 DEF Claimed, Under, Sure
  <1>6. Round
    BY <1>1, <1>2, <1>3, <1>5 DEF Round, First, Under, GotIs
  <1>7. QED
    BY <1>4, <1>6 DEF TripOK

LEMMA StepTrip == ASSUME Inv, TripOK, DeviceOK', [Next]_vars PROVE TripOK'
  <1>1. CASE Receive \/ Tick \/ Restart \/ ToolSends
             \/ \E op \in {"OK", "ERROR", "ACK"} : CanSendPacket(op)
    BY <1>1, ReceiveTrip, TickTrip, SpoiltTrip
  <1>2. CASE HostStart \/ HostRead \/ HostReset \/ HostReceive \/ HostRepeat \/ HostGiveUp \/ Lose
    BY <1>2, StartTrip, ReadTrip, ReplyTrip, RepeatTrip, GiveUpTrip, LoseTrip
  <1>3. CASE UNCHANGED vars
    BY <1>3, NothingNew DEF vars, Inv, WireOK
  <1>4. QED
    BY <1>1, <1>2, <1>3 DEF Next, Moves

\* Only the start of a download changes the version of the host.
LEMMA VersionKept ==
    ASSUME Inv, [Next]_vars PROVE host'.ver = host.ver \/ host'.pc = "wrq"
  <1>1. DOMAIN host = HostFields
    BY DEF Inv, HostOK
  <1>2. CASE Receive \/ Tick \/ Restart \/ ToolSends \/ Lose \/ UNCHANGED vars
             \/ \E op \in {"OK", "ERROR", "ACK"} : CanSendPacket(op)
    BY <1>2 DEF Receive, Tick, Restart, ToolSends, Lose, vars, CanSendPacket
  <1>3. CASE HostStart
    BY <1>3 DEF HostStart
  <1>4. CASE HostRead \/ HostReset \/ HostRepeat \/ HostGiveUp
    BY <1>1, <1>4 DEF HostFields, HostRead, HostReset, HostRepeat, HostGiveUp
  <1>5. CASE HostReceive
    BY <1>1, <1>5 DEF HostFields, HostReceive, HostNext
  <1>6. QED
    BY <1>2, <1>3, <1>4, <1>5 DEF Next, Moves

(* While nothing has happened to a download but the loss of packets that   *)
(* the protocol can repeat, the file the host was told OK for is the one   *)
(* in flash, and what the host has read of it is its beginning.            *)
THEOREM TripInvariant == Spec => []TripOK
  <1>1. Init => TripOK
    BY InitTrip
  <1>2. Inv /\ Inv' /\ TripOK /\ [Next]_vars => TripOK'
    BY StepTrip DEF Inv
  <1>3. QED
    BY <1>1, <1>2, DownloadInvariant, PTL DEF Spec

(* A file that was downloaded and is read back to its end is the same,     *)
(* page by page, whatever packets of either were lost or repeated, for     *)
(* files and blocks of any size.                                           *)
THEOREM ReadBackIsTheFile == Spec => RoundTrip
  <1>1. ASSUME Inv, TripOK', [Next]_vars
        PROVE  [host'.pc = "got" /\ ~spoilt' => host'.got = FileSum(host.ver)]_vars
    <2>1. SUFFICES ASSUME host'.pc = "got", ~spoilt' PROVE host'.got = FileSum(host.ver)
      OBVIOUS
    <2>2. host'.ver = host.ver
      BY <1>1, <2>1, VersionKept
    <2>3. host'.got = FileSum(host.ver)
      BY <1>1, <2>1, <2>2 DEF TripOK, Round, GotIs, FileSum, PageOf, Length
    <2>4. QED
      BY <2>3
  <1>2. QED
    BY <1>1, DownloadInvariant, TripInvariant, PTL DEF Spec, RoundTrip
==============================================================================
