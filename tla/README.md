# TLA+ models of the CPHMC firmware (A72 and R5F cores)

The repository is the firmware of a relay-protection platform on a TI
multi-core chip: one A72 core and four R5F cores (R0 .. R3), an FPGA reached
over PCIe, NOR flash, CAN and an IRIG-B input.  Core R0 is the hub: it owns the
link to the FPGA and through it the Ethernet ports, keeps the clock, and serves
the other cores over rings in shared memory.

The modules here model the parts of that firmware whose correctness depends on
the order of things: rings between cores without locks, an interrupt that
preempts the work it shares variables with, frames that are copied while they
are overwritten, packets that are lost and repeated, power failures between two
flash operations.  TLC checks them on small instances, and TLAPS proves the
central results about the rings, the transmit and receive paths, the report
store, the clock, the CAN relay, and the downloads and the files they write, for every
size.

    tlc -config ShmRing_rings.cfg ShmRing         (or any other run below)
    tlapm CanRelay_proofs.tla                     (or any other *_proofs.tla)

`PROJECT.json` maps every definition to the lines it translates, and lists the
runs, a mutant for each property, the findings, the hazards and the theorems.

## 1. Inventory

Paths are below `src/CPHMC_1A`; `mw` stands for `common/middleware`, `bsp` for
`common/bsp`, `fw` for `optional_lib/SpecialFWLib`, `ts` for
`optional_lib/Time_Sync_lib_prog`.

| Component | State | Operations | Talks to | What makes it correct |
|---|---|---|---|---|
| Frame counters (`mw/ipc_common`) | none | `check_frame_u32_cnt_add`, `..u16..` | every ring, report store | exactly the later counters are "newer", through the wrap |
| Rings Rn/A72 -> R0 (`mw/enet_ipc/src/enet_queue_manage_othercore.c`, `.._core0.c`) | slots in shared memory; `tx_ctrl_t` of the sender, `rx_ctrl_t` of R0 | send one frame; scan all rings | other cores' sockets -> R0's transmit queue | no frame twice, none out of order, losses only by overrun, never stuck |
| Rings Rn -> Rm (`inet_queue_common.c`) | the same, and the receive fifo of the inet sockets | `inet_send_to_txque`, `inet_recv_to_rxfifo` | sockets of two cores | the same |
| R0 transmit path (`enet_queue_common.c`, `.._core0.c`, `bsp/pcie/pcie_fpga.c`) | socket queues, `pcie_r0_tx_enetque`, car sets and headers of three trains | `sendto_raw_socket`, `send_to_ethernet`, ring scan, `push_enet_frm_to_pcie`, `train_tx_update_header` | applications, rings, FPGA | per-source order on every port, one frame per port and cycle, nothing lost or duplicated, everything leaves |
| Receive distribution (`.._core0.c`, `enet_queue_common.c`) | shared ring of received frames with R0's write position; a queue per socket | `pcie_to_enet_rxque`, `inet_fpga_to_rxfifo`, `recvfrom` | FPGA -> R0 -> every core's sockets | every matching socket once and in order; no torn frame delivered |
| Networking sockets (same files) | package numbers of each port | `sendto_networking_socket`, `inet_rxfifo_to_app` | as raw sockets | numbers consecutive, receivers agree with senders |
| Trains (`bsp/pcie/pcie_fpga.c`) | two car sets and a header per train and direction | `train_tx_get_buff`, `train_tx_update_header`, `train_recv`, start-up negotiation | FPGA | the set filled is never the set fetched |
| Report store (`mw/report_manage`) | rings of reports in flash, a record sector, `report_regions` in RAM | save, read, `report_init` | flash | saved reports survive power failures, the newest is found |
| Synchronisation (`ts/sync_time_logic`, `ts/time_handle_main_prog.c`) | state machine, counters of the source, active source, time shown | hard interrupt, 1-second task | IRIG-B decoder, SNTP, FPGA | never claims to follow what is lost; always ends with a source that works |
| SNTP client (`ts/sntp_client`) | countdown, poll tick, stable counter | poll, answer callback | UDP, clock | see above |
| IRIG-B decoder (`ts/decoder_irigb`) | pulse and code element state | decode one pulse | clock | a frame is good only if all of it is |
| Time and data areas (`mw/irig_b`, `mw/ipc_data_drv`) | `Clk_Time_Edge`, IRIG-B edges, byte areas in shared memory, a counter each | write on R0, read elsewhere | all cores | what is read was written as one |
| Redundant switch (`fw/redun_switch`) | cars with counters and diagnosis per port | build, receive, diagnose | trains | duplicates dropped, a broken ring seen |
| CAN relay of downloads (`mw/net_protocol_prog/src/down_file_can_interface.c`) | four requests, the 32 frames of the one being sent; ring of received frames, reassembly buffer | `io_transfer_upgrade_data`, the send task, the receive interrupt, the put-together loop | TFTP, CAN driver, boards | requests whole, in order and once; an answer whole or not at all; nothing stuck |
| ARP, IP, UDP, ICMP (`mw/net_protocol_prog`) | ARP table per port | parse, reply, look up | raw sockets | one entry per address; a full table stays consistent |
| TFTP (`net_tftp.c`) | one session: state, block number with its turns, peer, kind of update, handle, running checksum; idle timer, restart window | WRQ, DATA, SUM, STOP, RRQ, ACK, RST, LCK, REQ, DIFF; the 1 ms task; responses from CAN | UDP, file system, CAN relay, watchdog | OK means stored; every session ends; a download and a read survive lost packets; what is read is what was sent; no restart under a download |
| File system (`mw/file_system`) | pages and an info sector per file in flash; page buffer, checksum, size, sector erased last | `file_open`, `file_write`, `file_read`, `file_close`, `file_info_write`, `file_info_read` | flash | the info tells the truth about the pages |
| Settings (`mw/setting_manage`) | flash sectors | read, write | flash | old or new contents after a power failure |
| Configuration parser, function libraries, PSCode (service of the PLC tool), board drivers, boot loaders, vendor code | -- | -- | -- | not modelled, reasons in `PROJECT.json` |

What is hard here: (a) the rings have no lock and no flow control, and the
lines of a frame pass through two caches; (b) counters wrap; (c) the hard
interrupt of 200 us preempts the 1-second task and the SNTP callback at every
instruction, and all three write the time shown; (d) the erase-then-write of
flash can be cut anywhere; (e) one queue serves many ports, so a frame can block
those behind it; (f) a session that one host opens can be met, at any packet, by
another host, by a board or by a timeout.  `PROJECT.json` lists each hazard with its line and the
properties that cover it, or the reason why none does yet.

## 2. Modules

| Module | Models | Uses |
|---|---|---|
| `FrameCounter` | counters that skip 0 and the test for "newer" | |
| `LossyChannel` | abstract: deliveries with rising numbers, none twice | |
| `ShmRing` | one ring between two cores, `Receiver = "core0"` or `"inet"` | `FrameCounter`, `LossyChannel` |
| `ShmRing_proofs` | theorems about `ShmRing` | `ShmRing`, `TLAPS` |
| `EnetTx`, `MCEnetTx` | R0's transmit path from the sockets and rings to the FPGA | |
| `EnetTx_proofs` | theorems about `EnetTx` | `EnetTx`, `TLAPS` |
| `EnetRx`, `MCEnetRx` | from R0's receive interrupt to `recvfrom` | `LossyChannel` |
| `EnetRx_proofs` | theorems about `EnetRx` | `EnetRx`, `TLAPS` |
| `ReportFlash`, `MCReportFlash` | the report store over NOR flash with power failures | `FrameCounter` |
| `ReportFlash_proofs` | theorems about `ReportFlash` | `ReportFlash`, `TLAPS` |
| `SyncTime` | interrupt, 1-second task and SNTP callback around the clock | |
| `SyncTime_proofs` | theorems about `SyncTime` | `SyncTime`, `TLAPS` |
| `RequestStream` | abstract: requests go out frame by frame, whole and in order | |
| `CanRelay`, `MCCanRelay` | the CAN relay of downloads, down to the boards and up again | `RequestStream` |
| `CanRelay_proofs` | theorems about `CanRelay` | `CanRelay`, `TLAPS` |
| `FileSystem` | operators: the outcomes of each call of the file system | |
| `Upload` | the TFTP server over the file system, its hosts and its boards | `FileSystem` |
| `FileSystem_proofs` | what each call does to a file | `FileSystem`, `TLAPS` |
| `Upload_proofs` | theorems about `Upload` | `Upload`, `FileSystem_proofs` |

**ShmRing.** `shm` is the array of frames in shared memory, each with its
counter and two cache lines: `head` (counter and header) and `body` (the rest).
The contents of a line is the number of the frame it belongs to, so that mixtures
can be seen.  `SendBegin`, `SendHead`, `SendBody` are the stages of
`ipc_prog_othercore_rawpkg_to_shm_txque`; the lines reach memory in either order.
`ScanBegin`, `ReadNew`/`ReadOld`, `CopyFrame`/`SinkFull` are the loop of
`ipc_scan_other_core_enet_txque_to_pcie_txque`.  `view` is what the receiver's
cache holds of each counter: the two neighbours of a zero counter are read
without invalidating them (the lines 156-168), so their values may be old.  The
`inet` receiver differs where its code differs: it invalidates the slot again
after the test, and drops the frame when its fifo is full.  `Paced` describes the
pairs of cores where the receiver's period is shorter than the sender's.

**EnetTx** takes the rings for what `ShmRing` shows them to be, one sequence per
core, without overruns.  One action is one stage of R0's interrupt:
`send_to_ethernet` moves one frame of the sockets; the scan of the rings goes
frame by frame (`ScanTakesFrame`, then `ScanNextCore`, or `ScanStops` when the
queue is full), for the other cores send meanwhile; `PushFrame` is one turn of
`push_enet_frm_to_pcie`; `train_tx_update_header` publishes the trains.  `isr` says
where the interrupt is: `core` and `left` are those of the scan, `locals` the local
variables of `push_enet_frm_to_pcie`.  The FPGA is external and may fetch at any moment before the
next publication.  The code never asks whether it has, it relies on the FPGA
raising the interrupt after it: `FpgaInTime`, which stands beside the action in
`Isr` as an assumption about the FPGA.  No property says anything of an FPGA that is
late.

**EnetRx.** `writer` is R0's interrupt (`intr_recv_handler`, `IntrBegin`): one after
the other it receives the trains of `core_train_rx`, three in the code, and of each
it writes the frames and publishes the position after the last (`TrainArrives`,
`WriteBegin`, `WriteLine`).  No guard holds it back for the reader.  Whether the reader
keeps step is recorded instead: `paced` says that so far one of its passes has ended
between any two interrupts, `light` that no interrupt has brought a third of the ring
or more, over all its trains.  `reader` is `inet_fpga_to_rxfifo` of one
core, line by line, with the write position read through a cache that is
invalidated once per call (so each further read may give any value since);
`queue` are the receive queues of the sockets.  `recvfrom` verifies the checksum
of what it takes: a frame whose two lines are of different frames does not fit.

**ReportFlash.** `flash` and `record` survive a power failure, `ram` does not.
Each flash operation of a save is an action; power fails between saves or inside
one, and a flash operation may return an error.  Either leaves the operation under
way undone, done in part or done (`CutOff`): the driver writes a page in pieces and
gives up after any of them, and waits for an erase that may go on without it
(`nor_qspi.c:737`, `:823`).  A slot whose write was cut has its index, or its index
and its flag (`Parts`); one in a sector half erased is as it was, blank, or without its
flag; the record, once touched, may hold anything.  After an error the save
returns FALSE and leaves `write_idx` where it is, so that the next one programs the
same slot.  Programming is a bitwise AND: a slot not blank is garbled
(`Programmed`, `Twice`), and the save returns TRUE all the same; `marred` remembers
these saves.
`find_report_new_index` is translated as the function it computes: the first
slot at which the loop stops (`Stop`) decides.  `ordinary` remembers of each type
whether a boot has met a case that this function or the record gets wrong; they
are spelled out beside it and discussed in section 6.

**SyncTime.** `Frame` (a complete good IRIG-B frame) and `NoSourceReport` are the
two ways the hard interrupt runs `synctime_sync_statemachine` and reports to the
FPGA; both may come between any two steps of the background, which is the
1-second task (`TaskCount`, `TaskReset`, `TaskClear`, `sntp_poll`, `ChooseActive`,
`ShowSntp`: a step for every test whose outcome is used later) or the SNTP
callback (`AnswerArrives`, `AnswerTaken`).  Frames are described by what the code
tests: steady, on time, next in sequence.  `net` is the one request or answer
under way; answers are lost, late or duplicated.

**CanRelay.** Downwards, `TransferUpgradeData` puts a request into one of the
slots of `app`; `SendTask(taken)` is one run of the send task, which cuts the
oldest request into the frames of `short` when that is empty and offers one frame
to the driver, which takes it or not.  A request may fill all the frame slots; the
write index is then 0 again (`WriteIndex`), the slots read as empty, and when its first
frame is refused the next run cuts the next request over it (`lost`, a history
variable, remembers it).  Upwards, `BoardFrame` and `StrangerFrame`
are the receive interrupt, `PutTogether` is one turn of the loop that puts the
frames of all boards together.  A request is its number and length; a frame knows
its request, its place and whether it is the last.  `RequestStream` is the
promise of the sending half, with `accepted` and `out` as its only variables.

**FileSystem** has no variables.  Each call is the set of its outcomes: its flash
operations are tried one after another (`Run`, `Tried`), and while a fault is left each
of them may fail or lose power, with the page or sector torn or untouched.  The loop
of `file_write` is a recursive function over its pages.  What the call did
to the RAM up to that operation is part of the outcome, as in the code.  A page is
a version and a number, and a checksum the list of pages it was taken over: that
two different files have different sums is the idealisation the code makes too.

**Upload** composes it with the server.  One action, `Receive`, is
`tftp_server` with one packet: the busy test, then the handler of its operation,
named as in the code, and in it the calls of the file system.  A handler ends in
one of three ways, as the code does: `Leave` (return), `Answer` (a reply) or
`ErrorDone` (the label ERRDONE: an error and `tftp_clear_state`, which closes
the file).  A power failure inside a handler replaces its end by `Restarted`.
A file is read in two handlers: `RecvRrqLocal` opens it and answers with its info,
and each `RecvAck` with a block (`SendData`), the last of which closes it.
`Tick` is the 1 ms task, `CanSendPacket` the response of a board.  External are
the host, which sends stop-and-wait and repeats, gives up or is stopped, may read
its file back (`HostRead`) and joins the blocks in `got`, another
tool, which sends any packet at any time, and the network.  `spoilt` and `stale`
are history variables: which of the properties' premises the attempt still meets.

## 3. Runs

Every bound is a constant of the .cfg.  Counters have been scaled with their
proportions kept (`2 * Window < Half`, `Half + 2 * Window < CntMax`), so that
wraps happen within a few dozen frames.

| Run | Config | Shows |
|---|---|---|
| rings | `ShmRing_rings` | 4 slots, from a cleared memory through the wrap of the counter at 47; overruns by up to two slots, a full queue behind the ring. `IInv` (the invariant of the proof); `RingIsLossyChannel`; `LossOnlyByOverrun`: a skipped frame had been overwritten, in particular the return to slot 0 skips nothing; `NewestDelivered`: on a ring and with a lag shorter than the window, neither lag nor wrap leaves the newest frame lying |
| inet | `ShmRing_inet` | the core-to-core ring, paced, through the wrap: `PacedMissesNothing` |
| lapped | `ShmRing_lapped` | *violation*: the second invalidation in `inet_recv_to_rxfifo`: when the receiver is lapped just there it hands on an older frame after a newer one |
| transmit | `EnetTx_transmit` | 2 sockets, 2 other cores, all four frame types (Ethernet to port 1 behind two of the trains, broadcast, inet, lan), 3 frames, queue and trains of 2: `OneFramePerPort`, `WireInOrder`, `NothingLost`, `AllAccountedFor`, `Drains` |
| sockets | `EnetRx_sockets` | one socket, two trains of up to 2 frames in each interrupt, ring of 7, `ReadMax` 3, 9 frames; the reader keeps step or is lapped at will: `DeliveredWhole` always, `NoneMissed` and the socket a lossy channel in step |
| power | `ReportFlash_power` | 4 sectors of 2, 44 saves with the index wrapping at 32, 2 mishaps of any kind, each leaving the operation undone, done in part or done: `NewestReadable`, `SavedReportsKept` |
| record | `ReportFlash_record` | *violation*: two types, a power failure while their common record is rewritten |
| sync | `SyncTime_dual` | dual mode, two frames a second: `ValidNotWhenLost`, `FollowClaimed`, and under fairness `ReturnsToIrigb`, `AsksOn`, `TakesOver` |
| relay | `CanRelay_relay` | 3 requests of 2 or 3 frames to two boards, answers of 3 frames, sending queues of 3, so that a request of 3 frames fills the slots, a receive ring of 2, a stranger: `QueuesInStep`, `IsRequestStream`, `AllSent`; `DeliveredWhole`, `RequestsAnswered` |
| upload | `Upload_upload` | 2 downloads of 5 pages in 2 sectors, 2 mishaps and one fault of the flash: `SumCoversFlash`, `InfoTruthful`, `OkMeansStored`, `RestartIsSafe`; each may be read back: `RoundTrip` |
| live | `Upload_live` | the same without faults of the flash, under fairness: `Released`, `UploadSucceeds`, `ReadSucceeds` |
| files | `Upload_files` | *violation*: power fails at the first erase of a download, and the info of the old file is still valid |

**Why the bounds are enough.** In a ring the receiver's decisions depend on the
counters of one slot and its neighbours and on the last counter taken; two slots
and a lag of two turns give every combination of slot ages, four slots the
return to slot 0, which needs three different ones.  In `EnetTx` three frames
fill the queue and collide on the one port; CarNum = 2 is one car for the port
and one for the internal network, the smallest with which `NothingLost` can
hold; `MCEnetTx` has TLC evaluate `OneSlotEach` and `CarsForPorts`, the hypotheses
of the theorems, for these frames and cars.  In `EnetRx` two trains stand for the three of the code.  The interrupts in step
bring one frame or two, in one train or in both, and a third of the ring of 7 is more
than that; a pass takes 3 frames at most, less than two interrupts bring (in the code
a pass takes 16 and less than a third of the ring is 10 frames an interrupt).  Out of
step, 9 frames lap the ring.  A second socket or type multiplies the states tenfold
and touches nothing of the first; several sockets and their types are in the
theorems.  In `ReportFlash` the index wraps at the 32nd of
44 saves, and after it the ring of 8 comes round once more, so that every slot is
written, erased and scanned with indexes from both sides of the wrap; as in the
code the ring is longer than twice the window (with a wider window the older
reports of the turn before the wrap are never taken for newer, and a whole kind
of boot stays away).  Two mishaps allow a failure during the recovery from
another; `MCReportFlash` has TLC evaluate `FewMishaps` and `FewerThanRing`, the
hypotheses of the theorems.  In `SyncTime` each counter has its threshold
at 1 or 2, which keeps "below", "at" and "above" apart; `NeverWait > LostAfter`
as in the code (30 and 3).  In `CanRelay` sending queues of 3 hold two and the receive ring of 2 holds one, so they fill and
wrap with 3 requests; of these some leave a frame slot free and some fill them all,
the two cases that the code's indices tell apart (other lengths: the theorems of
section 4); three-frame answers have a first, a middle and a last frame
to lose, and two boards interleave them.  In `Upload` three blocks of two pages,
the last one a part of a page, cross a sector boundary inside the file;
`BlockMod = 2` wraps the block number twice; the second download runs into what
the first, its mishaps and a restart left; `FilePages = 6` exceeds the 5 pages of
the file because `file_write` has no bound of its own.

**Premises in ShmRing and EnetRx.** `NewestDelivered` holds where ring and lag are
shorter than the window, and fails in a ring of twice the window, as the one from the
A72 (section 6).  `NoneMissed` and `SocketsAreLossyChannels` speak of a reader in
step (`InStep`: `paced` and `light`).  Both halves are conditions on what comes in, and
nothing in the code ensures them: three trains of 16 cars may come in one
interrupt.

**`ordinary` in ReportFlash.** `NewestReadable` and `SavedReportsKept` are stated
for types whose start-ups met none of the cases that `find_report_new_index`
and the record get wrong (`WrittenToTheEnd`, `PastHalf`, `ZeroInside`,
`WrapInside`, `ProgrammedTwice`, `RecordWrong`, listed in section 6).  They are
conditions on the flash that a boot finds, not on how it came about; failures
between two boots are no part of them.  Both properties leave out a report written
over what a failed save had left (`marred`): it is garbled, and it is the only one
that is.  `SavedReportsKeptAlways` has neither premise: the run `record` finds a
loss at a boot, and with `Faults` and `Torn` it finds the garbled report first.

**Premises in CanRelay.** `AllSent` and `RequestsAnswered` leave out a request that
was lost because it filled the slots (`lost`), which `QueuesInStep` and
`IsRequestStream` allow for no other request.

**Premises in Upload.** `InfoTruthful` does not speak of an info that is older than
the pages (`stale`): the device was restarted in the middle of a file, or both the
erase and the write of the info sector failed when the file was closed, which
`file_close` does not notice.  Once the info is written, erased or torn the premise holds
again.  The run `files` drops it.  (The second case takes two faults and the run
`upload` has one; the theorems are for any number.)  `TypeOK` bounds neither the blocks
of a session nor the pages of a file, since the server and `file_write` do not.  `UploadSucceeds` excludes (`spoilt`) what the server cannot tell
from something else: a request or a last block repeated although its
acknowledgement is on the way or was lost, packets of others, restarts, timeouts,
faults of the flash, and a start on a session that is not clean.  All other losses
and repetitions, of blocks, acknowledgements, SUM and OK, are in it.  `RoundTrip`
and `ReadSucceeds` have the same premise; of a read, what the server does not send
twice are the answer to the request and the last block.

**Deadlock** is switched off in the runs of ReportFlash, CanRelay and Upload:
when the bound on saves, requests, downloads or mishaps is reached they have
nothing more to do.

**Fairness.** *ShmRing*: a begun send finishes and the receiver polls again (both
are in periodic interrupts, `slot_fpga_init_comm`); strong fairness of
`CopyFrame`, since the queue behind the ring is emptied each cycle and so is
found with room again and again; the sender is never obliged to send.  *EnetTx*:
the interrupt recurs, the FPGA fetches.  *SyncTime*: the interrupt comes every
200 us; the 1-second task runs each second to its end, whatever answers come
(strong fairness, for an answer may be handled in between); an accepted answer is
worked through.  Frames and answers are never obliged to arrive.  *CanRelay*: the
send task and the loop run again and again, the driver does not refuse for ever
(`WF(SendTask(TRUE))`), a board sends what it has to send; a request or a stranger
is never obliged to come.  *Upload*: one weak fairness of all moves together
(packets are received, the timer ticks, the host goes on); as mishaps are bounded
it only says that time does not stop.  The callers of
`synctime_main_prog`, `irigb_sync_task_1s`, `tftp_1ms_swi_task` and the two tasks
of the CAN relay are the applications, outside this
repository; their names and comments give the periods.  `tftp_server` is called
from `net_udp.c:168`.

## 4. Proofs

`ShmRing_proofs` proves, for every counter width and window allowed by
`FrameCounterAssumption` and every ring allowed by `ShmRingAssumption`:

- `TypeCorrect`: `Spec => []TypeOK`, for both receivers, any pace;
- `RingInStep`: with `Receiver = "core0"`, `Spec => []IInv`;
- `Core0RingIsLossyChannel`: with `Receiver = "core0"`, the ring implements
  `LossyChannel`: no frame twice, no older after a newer one, with any lag, any
  interleaving of lines, and any number of wraps;
- `Core0LosesByOverrunOnly`: with `Receiver = "core0"`, `Spec => LossOnlyByOverrun`:
  a frame that is skipped had been overwritten;
- `PacedRingMissesNothing`: with `KeepsPace`, `Spec => PacedMissesNothing`, for both
  receivers;
- `PacedRingIsLossyChannel`: with `KeepsPace`, the ring implements `LossyChannel`, for
  both receivers.

"No older frame after a newer one" is not inductive: that a counter is newer says
nothing about the frame unless counters and frames run in step.  `IInv` is the
strengthening:

- `SlotsHoldLastFrames`: slot *j* holds the frame its age says, the slot under
  way with its lines in either order;
- `CountersInStep`: the counter of the frame *n* before the latest is
  `CntBefore(last_send_cnt, n)`, through the wrap, and 0 exactly in slots never
  written;
- `NextTakenIsNewer`: whatever the receiver would accept next, in this state, is
  newer than all it has handed on; and the same for the slot after the one it is
  copying;
- `NeverSentBack`: the slot before the one polled has been used and is cached as
  such, so that the three zeros that send the receiver to slot 0 cannot be seen
  from the middle of the ring.

The lemmas are of two kinds: arithmetic of `NextCnt`, `CntBefore` and
`check_frame_cnt_add` (a counter at most `2 * Window` frames older is never
accepted as newer), and one lemma per action.  `FrameNum <= 2 * Window`
is the assumption that makes the first kind true; the rings of the code have 2
slots (between the R cores, `S_CAR_MAX_NUM`) or 32 (from the A72, `B_CAR_MAX_NUM`) and
windows of 16, so the largest just meets it.

`LossOnlyByOverrun` is about two frames handed on one after the other, which may be
any number of turns apart.  `TurnsInStep` says that frames and slots go round the
ring together: the receiver polls the slot of the frame after the last one handed
on, modulo the ring, wherever the wraps and the returns to slot 0 have taken it.  So
what it accepts there next is that frame, or one whole turns later, and then the
sender has written over all frames between.

`KeepsPace` is a receiver that polls between any two frames (`Paced`), a ring shorter
than the window (2 slots of the rings between the R cores against 16) and, for
`inet`, a fifo behind it that is never found full.  The invariant is `PaceInv`.  What
was handed on is behind the last poll by one frame at most, and that behind the
sender by one (`OneAhead`); so the slot polled holds the next frame or the one a turn
before it (`SlotsBehind`, `SlotPolled`), and the counter it is compared with is that of
the frame before or of the frame a turn before (`LastCounter`).  Both are less than
`Window` frames older, and `LaterIsNew` says that then the check succeeds wherever the
counter wraps: the converse of `OlderNotNew`, and it does not hold up to
`2 * Window` (section 6).  That the poll never fails on a published frame is what
keeps `OneAhead`.  It also follows that an `inet` receiver finds the same frame at
its second reading (`HandsOnWhatItRead`), from where the proof for `core0` goes on.

`EnetTx_proofs` proves, for any sockets, cores, ports and kinds of frames, and
every size of the queues and trains,

- `TypeCorrect`: `Spec => []TypeOK`;
- `FramesAccountedFor`: `Spec => []AllAccountedFor`;
- `FramesInOrder`: `Spec => []WireInOrder`;
- `OneFrameForAPort`: with `OneSlotEach`, `Spec => []OneFramePerPort`;
- `NothingWithAddressLost`: with `OneSlotEach` and `CarsForPorts`,
  `Spec => []NothingLost`.

The first three need no hypothesis.  Each train has a `Path`: what the FPGA has
fetched from it, then what it has still to fetch, then the cars being filled.
Publishing the trains and fetching them move the borders inside the path and leave
it as it is, so that seen from outside every step is one of four (`Sends`, `Takes`,
`Pushes`, `NothingMoves`): a frame is appended to the queue of its source, goes
from there to R0's queue, and from that to the end of one path.  For this view to
be true the cars published must be the ones filled, whole and once (`FilledSet`,
`CarsWritten`), and what has been fetched must stay until refilled
(`FetchedOnWire`).  On it rest `Conserved` (all frames are where the view puts
them) and `InOrder` (whatever is further along a path was sent earlier by its
source).  `NothingWithAddressLost` needs `CycleInv`: when a cycle ends the queue
has room again, for a cycle takes one frame of R0's sockets at most, and its first
push always goes through; and the cars written of a train are no more than the
ports of its slot that are used, and one.  `OneFrameForAPort` needs `PortsInv`: what
the interrupt's local variables record covers every frame in a car.  `OneSlotEach`
is what `dequeue_pcie_enet_frame` assumes (comment at
`enet_queue_manage_core0.c:201`) and what the senders of the repository do:
`net_udp.c:302` sets one bit of one mask, `net_arp.c:419` sends to slot 0, the
internal network.  `CarsForPorts` is discussed in section 6.

`EnetRx_proofs` proves, for any sockets and types and every size of ring, queues and
trains,

- `TypeCorrect`: `Spec => []TypeOK`;
- `FramesDeliveredWhole`: `Spec => []DeliveredWhole`, at any pace of the reader;
- `NoFrameMissed`: `Spec => []NoneMissed`;
- `SocketsRefineLossyChannels`: the path to each socket implements `LossyChannel`.

The last two need no hypothesis; they speak of a reader in step (`InStep`), for as
long as it is, and then no slot may be overwritten before it has been read.  Let *M* be
the most that is less than a third of the ring, so that an interrupt in step brings *M*
frames at most, over all its trains.  `LagBounded` counts as the reader's lag what is
unread, what is left of the train being written and what the interrupt may still
bring: it is 2 *M* at most when a pass of the reader has ended since the interrupt began
(`ran`), and 3 *M* until then; and a pass under way has the budget, and has seen a write
position far enough, to take *M* off these bounds before it ends.
`ReadMaxAssumption` (`RingNum <= 3 * ReadMax`) is where the limit of one call comes
in.  Then `SlotsHold` (unread slots hold consecutive frames), `QueueInOrder`, and
`Counted`: every frame of a socket's types is counted once, as got, queued,
dropped, copied, unread or being written.

`ReportFlash_proofs` proves, for any types, any number and size of sectors, any
width of the index and any number of saves,

- `TypeCorrect`: `Spec => []TypeOK`;
- `SavedReportsStay`: with `FewMishaps`, `Spec => []SavedReportsKept`;
- `NewestFound`: with `FewMishaps` and `FewerThanRing`, `Spec => []NewestReadable`.

A failed save uses up a number but no slot, so the index in a slot lags behind the
counter by the slot's age and by the mishaps since (`Near`, `Numbered`).
`FewMishaps` bounds that lag by half of the counter: without it two reports in the
ring could be so far apart that "newer" says nothing.  The code has 1024 slots at
most and 16 bits, which leaves some 31000 mishaps, in all the life of the device
as the model counts them.  `FewerThanRing` leaves a saved report in the ring
whatever the order of saves and mishaps.

`Ring` describes one region of flash in order, around the slot *p* that is written next, each
slot by its age, counted back from *p*: those written come before all others
(`Front`); the older a slot, the older its index (`InOrder`), by no more than age and
mishaps explain (`Near`), and the older its report (`Numbered`); a sector is blank or
written as a whole, but for the one begun, whose rest is blank (`Whole`, `Rest`); and
an old report lies at *p* only where a sector begins (`Tip`).  `Store` adds which saves were acknowledged, that each is in a slot until
the ring comes round, and that one of them is left.

What is torn is not in such order.  So the flash is compared with a ring in order, of
which it differs in three ways only (`Stands`): a slot programmed twice, in place of which
the ring has one without a good checksum (`Same`); the sector that is erased next may be
half erased (`ToErase`); and the slot that is written next may hold what a failed save
left, which is either programmed twice or would be in order as the next
report (`ToWrite`, `LeftOver`).  A failed save cost a mishap, and what it left is at
most the one slot that this mishap explains.  `Covers` is the same with the power off,
when it is forgotten whether *p* is to be erased.  Each operation on the flash has its
lemma on `Ring`, on `Store` and on `Stands`; `CutOffStands` says that an operation
cut off, whatever it leaves, is a mishap and no more.  `StoreInv` is `Stands` or, with the
power off, `Covers`, for every type whose boots were ordinary, together with what each
step of a save knows.

The heart is `BootFinds`: on a `Ring`, its oldest sector half erased or not, that meets none of the cases of section 6,
`find_report_new_index` returns *p* again.  From slot 0 up to *p* the indexes climb
without a wrap, since that in slot 0 is not past half, so the scan gets that far;
at *p* it stops, for the report there is older by a turn, and if that were accepted
the scan would have crossed the wrap (`WrapInside`) or met the index 0
(`ZeroInside`).  A save blanks no more than the oldest sector, so each report stays until its age
reaches the ring less a sector.

`CanRelay_proofs` proves, for every size of the three queues and any boards,

- `TypeCorrect`: `Spec => []TypeOK`, both halves;
- `QueuesStayInStep`: `Spec => []QueuesInStep`;
- `RelayIsRequestStream`: the relay implements `RequestStream`;
- `AnswersDeliveredWhole`: `Spec => []DeliveredWhole`.

`QueuesInStep` is itself inductive together with the types: how far `wr` is ahead
of `rd` (`Ahead`, around the ring) is the number of requests taken and not yet
cut, each slot on the way holds the request that far behind the current one, and
the frames between the indices of `short` are those of the current request that
follow `out`.  From it every step of the driver is the next frame of
`RequestStream`.  Requests of every length the code admits are in it, also those
of exactly as many frames as there are slots: such a request is sent whole when the
driver takes its first frame, and when it does not, the indices are equal again and
the request is `lost`.  Between the request last sent and the current one there are
only lost ones (`Between`), and they all filled the slots (`LostWereFull`).

For `AnswersDeliveredWhole` the frames received and not yet looked at are seen as a
sequence (`Received`).  `InOrder` says of each board that a frame which does not begin
an answer goes on with the frame before it of that board (`GoesOn`: the same
answer, a later number, and the earlier was not the last), though frames between
them may have been dropped; that this also holds between the last one received and
what the board sends next, and between what has been put together and the first
one not looked at; and that what has been put together is the beginning of one
answer.  So a hole shows as a number that is not the expected one.  The exception is
`headLost`, the premise of `DeliveredWhole` (section 6).  Boards and strangers have
different identifiers (`SourcesAssumption`).

`SyncTime_proofs` proves, for every mode, every set of frames and all thresholds,

- `TypeCorrect`: `Spec => []TypeOK`;
- `NeverValidWhenLost`: `Spec => []ValidNotWhenLost`;
- `OnlyFollowedShown`: `Spec => []FollowClaimed`.

The assumption is `1 < StableNeeded` and `ErrMax <= StableNeeded` (9 and 4 in the
code).  It is needed: in holdover a source is off time with every frame, so it is
given up (`ErrMax`) before it can be steady (`StableNeeded`), and only therefore is
a source that `ChooseActive` finds steady one that is followed or about to be
(`KeepingUnsteady`).  `FollowClaimed` speaks of the background at rest and is not
inductive.  `IInv` adds what holds between its steps: `SourceKnown`, what each
state of the machine says about the source, and when it does not (between
`TaskReset` and `TaskClear`); `ByMode`, which source can be active where in the
background; `ShownInStep`, what is shown at each step of it.  The proof has one
lemma for a run of the state machine with any source and time (`MachineStep`),
which both kinds of interrupt use, and one lemma per step of the background.

`Upload_proofs` proves, for any packets in any order, every file, sector size and
timeout, and any number of mishaps and of flash operations that fail,

- `NeverRestartedUnderDownload`: `Spec => RestartIsSafe`;
- `DownloadInvariant`: `Spec => []Inv`;
- `UploadTyped`: `Spec => []TypeOK`;
- `SumAlwaysCoversFlash`: `Spec => []SumCoversFlash`;
- `InfoAlwaysTrue`: `Spec => []InfoTruthful`;
- `OkAlwaysMeansStored`: `Spec => OkMeansStored`;
- `TripInvariant`: `Spec => []TripOK`;
- `ReadBackIsTheFile`: `Spec => RoundTrip`.

`RestartIsSafe` is a property of steps; its invariant (`IInv`) is that the session is
well formed and that while the restart window is open no download holds a file.  What
makes it true is that whatever opens a file goes through `tftp_init`, which closes the
window, and that whatever opens the window has let go of the file.  Of the file system
only that it has outcomes is used.  A read goes the same way: RRQ closes the window
before it opens a file, and a block that is sent at most lets go of it.

The next four rest on what the calls of the file system do, which `FileSystem_proofs`
states for each outcome, however many operations failed on the way.  Its heart is
the state of a file that is open for writing (`OpenFile`): the pages up to its size are
those the checksum was taken over (`Prefix`); the sector of the next page is the one
erased last, or erasing it hits no page of the file (`EraseSafe`); and while nothing has
failed the rest of the sector erased last is blank (`BlankRest`), so that the next page
is not programmed over another.  The last two are why `last_erased_sector` may be
kept from block to block; that they survive an erase that fails, or is cut, is what a
test would hardly reach.  That the loop of `file_write` has a value and keeps this from
page to page (`LoopAt`) is proved by the least number of pages at which it would not.

`SumCoversFlash` is not inductive: that a block lands behind the pages written depends
on the session, which names its place.  `DeviceOK` adds what a session knows
(`FileOfSession`): while it downloads into the device and holds the file, the file is
open for writing, its buffer is empty and its size is the session's `offset`; outside
of a download `offset` is 0; and the checksum kept for a repeated SUM (`okSum`) is that
of a file that is stored, and no file has been opened for writing since (`StoredSum`).
`Inv` adds the types of the packets and of the host.  The turns of the block number do not
come into it: a block is written where the file ends, and one too many or too few
shows in the checksum.  A SUM that is tried again after the last page failed adds
this page to the checksum a second time; no file the host sends has a sum like that
(`Twice`), so the retry is refused.  Each handler has a lemma (`...Sound`): it ends in
`DeviceOK`, and an OK that it sends is true.

`RoundTrip` needs to know, of every packet that may still be under way, that it leaves
the file alone.  `TripOK` says so of an attempt that is not `spoilt` (`Round`).  There are
five ways to know that the file is stored (`Claimed`): the server keeps its checksum, an OK
is on its way, the host has had one, it has asked to read, or the server is reading.
As long as one of them holds, the pages and the info are those of the host's file and no
file is open for writing (`FileHere`).  The only handler that could spoil that is
of WRQ, and a WRQ is under way only while the host waits for its first answer, and then
alone and with none of the five (`First`): a checksum that the server still keeps from
an earlier download, or from another sender, is not that of the new version (`Known`).
The rest follows the blocks: the size of a session that reads is that of the file; a
block on its way is the piece of the file of its number (`Piece`), so it does not
matter that an ACK that came twice sends one twice; and what the host has put together
is the pages before the block it asks for (`Upto`, `GotIs`), each piece but the last being
whole (`PieceFollows`).  What every handler may do to a stored file, and say of it, is one
formula (`Does`), which `FileSystem_proofs` supports with what no call does whatever flash and
RAM hold (`Calm`).

What only TLC checks: all liveness (`NewestDelivered`, `Drains`, `AllSent`,
`RequestsAnswered`, `Released`, `UploadSucceeds`, `ReadSucceeds`, and those of `SyncTime`), which
is out of the prover's reach.  Every other property of a passing run is a theorem, with the
hypotheses named above.

## 5. Plan

In this order; each item names what it will model, state and prove.

1. `ShmRing`: restart of one side (the receiver's controls are cleared while the
   sender goes on).
2. Inet sockets: address filter (`inet_queue_common.c:311`), receive fifo,
   recomputed checksum (`:216`), and `EnetRx` for networking sockets with their package numbers.
3. `TimeShare`: `Clk_Time_Edge` and IRIG-B edges read without a lock
   (`irig_b_interface.c`), and the byte areas of `ipc_data_drv.c`; abstract
   specification: an atomic register.
4. Settings over the flash operations of `FileSystem`; `RedunSwitch`; `ArpTable`.

## 6. Observations

Found while modelling.  Three have a run that shows them (`lapped`, `record`,
`files`); the others were seen with other constants, which are named, in earlier forms
of the models, or on the way, and are kept here for the plan.

*Rings and frames*

- `inet_queue_common.c:309` hands on an older frame after a newer one when lapped
  between its counter test and its copy (run `lapped`): in the run the third frame, and
  then the second.
- `enet_queue_manage_core0.c:363` checks one destination mask of several, so a
  frame with ports in two slots can share a port with another in one cycle, which
  the comment at `:201` excludes.
- `ipc_common.c:65`: in a ring of `Window` slots or more a receiver may wait at the wrap
  of the counter in front of frames that are there: a frame is compared with one so much
  older that the wrap is not recognised between the two.  It goes on when the sender has
  come round to the slot again.  `NewestDelivered` fails with `Window = 2`,
  `FrameNum = 4`, `CntMax = 15`, `Half = 7` and `MaxAhead = 6`, the proportions of the ring
  from the A72, which has 32 slots; the other rings of the code are short.
- `enet_queue_common.c:321`: one interrupt receives three trains of up to 16 cars, and the
  shared ring has 32 slots: when the write position comes back to the read index the full
  ring reads as empty.  A pass of 16 frames after every interrupt does not prevent it; less
  than a third of the ring per interrupt does (`NoneMissed`).
- `enet_queue_manage_core0.c:231`: a frame with destinations in slot 1 only takes
  the train of the frame before it.
- `CarsForPorts`: a train has 16 cars, and one cycle fills one for each port of its slot
  and one for the internal network.  The types admit 16 ports in a slot
  (`MAX_PORT_ID`); with all of them in use a train would need 17 cars.

*Reports*

- `report_interface.c:312`: the record of all types is lost in a power failure
  during its rewrite; another type's next save erases valid reports (run
  `record`).
- `report_interface.c:95`, `:130`: after a write that failed with a part of the page
  programmed (`nor_qspi.c:737`) the index stays, and the next save programs the same
  slot: it returns TRUE, and its report is garbled (run `record` with
  `Faults = TRUE`, `Torn = TRUE`).  A boot that finds a slot programmed twice may take
  any index for that slot (`ProgrammedTwice`).
- `report_interface.c:342`: a ring written exactly to its last slot when power
  goes is taken for an empty one (`WrittenToTheEnd`), and what is read first is the
  oldest report.  `:375`: an index above half of the counter in
  slot 0 makes `read_idx` -1.
- `report_interface.c:363`: an index of 0 is expected in the last slot of the
  region, where the numbers wrap as long as every save succeeds.  After a failed save
  they wrap earlier, the scan stops there, and the newest report is sought from
  slot 0 (`ZeroInside`).  In the last slot the test never decides, for then the
  index in slot 0 is past half.
- `ipc_common.c:116`: when power goes in the turn after the wrap, with the write
  index at the beginning of a sector not yet erased, the old report there counts as
  newer than those from after the wrap, and the scan goes on over it to the end of
  the ring (`WrapInside`).  This needs no failure but the power cycle.

*Time*

- `sync_logic_prog.c:215`: the state shown is overwritten after Follow was
  entered between the two halves of the choice of source, and nothing sets it
  again (the design document, `SNTP_Design_Document.md:131`, expects a seamless
  return).
- `sntp_client.c:56`: `sntp_valid_countdown` stands still while SNTP is not
  allowed, so an old answer is valid when IRIG-B is lost again.
- `sntp_client.c:105`: an answer is processed in Follow when the interrupt enters
  it after the test.
- `sync_logic_prog.c:433`: in Lose the state machine clears each second what the
  choice of source sets.  `:162`: before the first synchronisation unsteady
  frames keep SNTP from ever being asked.  `:500`: single frames off time keep
  the device in holdover past `MAX_SYNC_KEEP_TIME_S`.

*CAN relay* (`down_file_can_interface.c`)

- A request of exactly 32 frames, which the header allows
  (`down_file_can_interface.h:54`), makes the write index wrap to the read index
  (`:517`): `short` reads as empty, and if the driver refuses its first frame the request
  is lost, although `io_transfer_upgrade_data` returned success.  The run `relay` has such
  requests; they are the only ones ever in `lost`.
- The source and the expected number are not reset after the last frame, so the
  tail of an answer whose first frame was dropped can complete the answer before
  it (`headLost` in `DeliveredWhole`).
- Two boards that answer at once destroy one of the answers.

*Downloads* (`net_tftp.c`)

- A last block repeated because its ACK was lost finds the session idle: error,
  and the whole file is thrown away although it had arrived.
- A WRQ repeated because ACK 0 was lost is answered BUSY, and each repetition
  renews the idle timer.
- Any ACK sets the peer to its sender, and an ACK for a board also switches the
  kind of update under a download; a stray DATA of another source ends the session
  without a word to the host.
- LCK or DIFF between SUM and its repetition clears the success kept for it; DIFF
  between the last block and SUM closes the file.
- A new WRQ between the last block and SUM takes the old checksum with it
  (`file_checksum_total`), so the next SUM fails.
- A session with a board switches `update_prop` under a local file that waits for
  its SUM.
- WRQ and STOP without data leave an info of size 0 with equal sums.
- `file_close` does not look at the result of writing the info; with two faults in
  one close it returns the size of the file although the old info is still there.
- A closing block of length 0 is refused, although `tftp_send_data` (about line
  1288) sends one.  A SUM before the closing block leaves the state Wrq until the
  timeout.
- A WRQ is accepted between the end of feeding and the watchdog's reset.
- A late OK from CAN goes to whoever is the peer then.
- Closing a file opened for reading returns without switching the flash back
  (`fpga_flash_switch(0)`).
- The last block of a file that is read closes the file when it is queued (`:1376`):
  if it is lost, the ACK repeated for it finds the session idle and is not
  answered.  A lost FIF is not repeated either, the repeated RRQ is answered BUSY.
- An RRQ, like a WRQ, LCK, DIFF or REQ, between a download and its RST closes the
  restart window, and the RST is then ignored.
- RRQ does not compare the two checksums of the info (commented out at `:930`),
  although `file_system.c:45` asks readers to.
- Any ACK during a read, from anyone, is answered with a block, to its sender; the
  one for the last block ends the session of the host.
- The number of a block is 16 bits in both directions, but only the receiving
  direction counts its turns: a read would end, as if complete, after 65535 full
  blocks (64 MB); the largest file of the FAT table has 10 MB.
- `eth_send_buff` is shared by the 1 ms task and the handlers.

*File system* (`file_system.c`)

- During a download the info of the old file stays valid over erased pages, which
  the comment at `:45` excludes (run `files`).
- `file_write` has no bound on the size of the file.

## 7. Not modelled

The contents of frames, of reports and of times; the decoding of IRIG-B pulses;
leap seconds and the local time zone; statistics and error registers; fast
trains and the PCIe start-up; the parts of the plan above.  In `Upload`:
packets too short or for an unknown destination, the 1 ms task inside a handler
(`Tick` comes between handlers), the contents of the replies to LCK and DIFF, files not in the FAT table, and the
changing of a received packet under its handler by the DMA (which counts as a lost
packet).  The configuration parser and the function libraries are sequential
functions of their inputs; PSCode answers one request at a time; board drivers,
boot loaders and the vendor's code (TI PDK and CSL, third party) are register
access.  That code is most of the repository: of its 1.2 million lines the
register definitions below `common/ti/csl` alone are more than half, and what
has state and behaviour of its own, in `mw`, `ts` and `fw`, is a few per cent.
In `SyncTime` the four writes of the callback
after its test (`sntp_client.c:105`) are one step, which the interrupt does not
cut.  Memory is sequentially consistent per line: a line is read or written as one,
lines in any order, and caches are modelled where the code omits an
invalidation.
