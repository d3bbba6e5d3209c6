------------------------------- MODULE Kburn -------------------------------
(* The USB burner gadget: drivers/usb/gadget/f_kburn.c, drivers/kburn and   *)
(* the command cmd/kburn.c that polls it.  U-Boot runs it on one hart with  *)
(* no interrupts: a USB event is handled to the end by the completion       *)
(* handler before the next one is looked at, so a handler is one action.    *)
(* The host is free: any transfer, at any time, of any legal length.        *)
EXTENDS KburnMmc

CONSTANTS
    EpBuf,      \* KBURN_USB_EP_BUFFER_SZIE
    MaxPacket,  \* maxpacket of the OUT endpoint
    Offsets,    \* the offsets and
    Sizes,      \* sizes a host puts in a command
    MaxStream   \* bound: data bytes a host sends for one download

ASSUME KburnAssumption ==
    /\ EpBuf \in Nat \ {0}
    /\ MaxPacket \in Nat \ {0, 1}     \* a command ends in a short packet
    /\ EpBuf < U32 /\ U32 <= U64
    /\ EpBuf % MaxPacket = 0 /\ EpBuf % BlkSz = 0
    /\ Offsets \subseteq 0 .. U64 - 1
    /\ Sizes \subseteq 0 .. U64 - 1
    /\ MaxStream \in Nat

VARIABLES
    cards,      \* the buses whose slot holds a card that initialises
    usb,        \* "gone" (no gadget), "attached", "configured"
    outReq,     \* "null", "idle" (owned by the function) or "queued"
    outFn,      \* out_req->complete: "rx_command" or "rx_write_lba"
    outLen,     \* out_req->length
    inReq,      \* as outReq
    rsp,        \* the answer in in_req
    buf,        \* "null", "head", "tail": where s_kburn->buf points
    burner,     \* bus the burner drives, NoBus for NULL
    valid,      \* burner->medium_info.valid
    offset, dlSize, dlBytes,    \* u64 fields of s_kburn
    medium,     \* bytes of every card
    winBus, winOff, winSize,    \* history: the last WRITE or ERASE obeyed
    rx,         \* history: bytes the host has sent of the download's data
    told        \* history: device of which the host was last given the info

io   == <<outReq, outFn, outLen>>
link == <<usb, buf>>
dl   == <<offset, dlSize, dlBytes>>
dev  == <<burner, valid, told>>
win  == <<winBus, winOff, winSize>>
hist == <<win, rx>>
vars == <<cards, link, io, inReq, rsp, dev, dl, medium, hist>>

Responses ==
    {"NONE", "UNKNOWN COMMAND", "BUFFER OVERFLOW", "NOT SUPPORT FUNC",
     "ERROR DATA SIZE", "PROBE OK", "PROBE FAILED", "INFO OK", "RUNTIME ERROR",
     "MEDIUM INFO INVALID", "DATA SIZE INVALID", "DATA SIZE EXCEED",
     "START DL", "WRITE ERROR", "WRITE DONE", "ERASE OK", "ERASE ERROR"}

TypeOK ==
    /\ cards \in SUBSET Bus
    /\ usb \in {"gone", "attached", "configured"}
    /\ outReq \in {"null", "idle", "queued"}
    /\ outFn \in {"rx_command", "rx_write_lba"}
    /\ outLen \in 0 .. EpBuf
    /\ inReq \in {"null", "idle", "queued"}
    /\ rsp \in Responses
    /\ buf \in {"null", "head", "tail"}
    /\ burner \in Bus \cup {NoBus}
    /\ told \in Bus \cup {NoBus}
    /\ valid \in BOOLEAN
    /\ offset \in 0 .. U64 - 1 /\ dlSize \in 0 .. U64 - 1 /\ dlBytes \in 0 .. U64 - 1
    /\ medium \in [Bus -> [Cell -> Content]]
    /\ winBus \in Bus \cup {NoBus}
    /\ winOff \in 0 .. U64 - 1 /\ winSize \in 0 .. U64 - 1
    /\ rx \in 0 .. MaxStream

Init ==
    /\ cards \in SUBSET Bus
    /\ usb = "gone"
    /\ outReq = "null" /\ outFn = "rx_command" /\ outLen = 0
    /\ inReq = "null" /\ rsp = "NONE"
    /\ buf = "null"
    /\ burner = NoBus /\ valid = FALSE /\ told = NoBus
    /\ offset = 0 /\ dlSize = 0 /\ dlBytes = 0
    /\ medium = [b \in Bus |-> [c \in Cell |-> Old]]
    /\ winBus = NoBus /\ winOff = 0 /\ winSize = 0 /\ rx = 0

---------------------------------------------------------------------------
(* get_kburn_usb: a handler finds the double buffer, allocating it if the   *)
(* last kburn_disable freed it.                                             *)
get_kburn_usb == IF buf = "null" THEN "head" ELSE buf

(* kburn_tx_write: the answer replaces one the host has not read, because   *)
(* in_req is dequeued before it is queued again.                            *)
Answer(r) == rsp' = r /\ inReq' = "queued"

(* The tail of rx_command_handler: out_req is queued again.                 *)
Requeue(fn, len) == outReq' = "queued" /\ outFn' = fn /\ outLen' = len

(* dwc2 gives a bulk OUT request back when it is full or a packet is short. *)
Completed(n) ==
    /\ usb = "configured" /\ outReq = "queued"
    /\ n \in 1 .. outLen
    /\ n = outLen \/ n % MaxPacket # 0

(* A transfer arrives for rx_command_handler; `full' if it fills out_req.   *)
(* The bytes on the cards become Old.                                       *)
CommandIn(full) ==
    /\ \E n \in 1 .. EpBuf : Completed(n) /\ (full <=> n = outLen)
    /\ outFn = "rx_command"

Untouched ==
    /\ medium' = [b \in Bus |-> [c \in Cell |-> Old]]
    /\ winBus' = NoBus /\ winOff' = 0 /\ winSize' = 0 /\ rx' = 0

(* A command that is answered at once and leaves the cards alone.           *)
Reply(r) ==
    /\ Answer(r)
    /\ Requeue("rx_command", outLen)
    /\ Untouched
    /\ UNCHANGED <<cards, usb, dl>>

(* rx_command_handler for a command no table entry has, for one that fills  *)
(* the whole request, and for KBURN_CMD_NONE and KBURN_CMD_MAX.             *)
UnknownCommand ==
    /\ \E full \in BOOLEAN : CommandIn(full)
    /\ Reply("UNKNOWN COMMAND") /\ UNCHANGED <<buf, dev>>
OverlongCommand ==
    CommandIn(TRUE) /\ Reply("BUFFER OVERFLOW") /\ UNCHANGED <<buf, dev>>
cb_not_support ==
    CommandIn(FALSE) /\ Reply("NOT SUPPORT FUNC") /\ UNCHANGED <<buf, dev>>

(* A command the table has, short enough to be served.                      *)
Served == CommandIn(FALSE) /\ buf' = get_kburn_usb

BadDataSize == Served /\ Reply("ERROR DATA SIZE") /\ UNCHANGED dev

(* Mutant of cb_probe_device: a burner keeps the medium_info of the old one. *)
ProbeKeepsInfo(bus) ==
    /\ Served
    /\ UNCHANGED <<valid, told>>
    /\ \/ /\ bus # NoBus
          /\ burner' = kburn_mmc_probe(cards, bus)
          /\ Reply("PROBE OK")
       \/ burner' = NoBus /\ Reply("PROBE FAILED")

(* cb_probe_device: the old burner is destroyed first; memalign may fail.   *)
cb_probe_device(bus) ==
    /\ Served
    /\ valid' = FALSE /\ UNCHANGED told
    /\ \/ /\ bus # NoBus
          /\ burner' = kburn_mmc_probe(cards, bus)
          /\ Reply("PROBE OK")
       \/ burner' = NoBus /\ Reply("PROBE FAILED")

cb_get_device_info ==
    /\ Served
    /\ \/ burner # NoBus /\ valid' = TRUE /\ told' = burner /\ Reply("INFO OK")
       \/ burner = NoBus /\ UNCHANGED <<valid, told>> /\ Reply("RUNTIME ERROR")
    /\ UNCHANGED burner

(* Mutants of rx_bytes_expected: no cap at the endpoint buffer; rounding to *)
(* a packet the wrong way.                                                  *)
ExpectedUncapped(size, bytes) == ((size - bytes + MaxPacket - 1) \div MaxPacket) * MaxPacket
ExpectedRoundedDown(size, bytes) ==
    IF size - bytes > EpBuf THEN EpBuf
    ELSE ((size - bytes) \div MaxPacket) * MaxPacket

(* rx_bytes_expected, for the dlSize and dlBytes given.                     *)
rx_bytes_expected(size, bytes) ==
    LET remain == size - bytes IN
    IF remain <= 0 THEN 0
    ELSE IF remain > EpBuf THEN EpBuf
    ELSE ((remain + MaxPacket - 1) \div MaxPacket) * MaxPacket

(* What cb_write_lba reads of the burner: `valid', and whether a window that *)
(* ends at `end' is within the capacity.  With no burner it reads through a *)
(* null pointer: any value can come back.                                   *)
InfoSeen(v, fits, end) ==
    /\ burner # NoBus => v = valid /\ (fits <=> end <= Capacity(cards, burner))
    /\ end = 0 => fits

cb_write_lba(off, size) ==
    /\ Served
    /\ UNCHANGED <<cards, usb, dev>>
    /\ \E v, fits \in BOOLEAN :
        /\ InfoSeen(v, fits, (off + size) % U64)
        /\ IF v /\ size # 0 /\ fits
           THEN /\ offset' = off /\ dlSize' = size /\ dlBytes' = 0
                /\ Answer("START DL")
                /\ Requeue("rx_write_lba", rx_bytes_expected(size, 0))
                /\ winBus' = burner /\ winOff' = off /\ winSize' = size /\ rx' = 0
                /\ medium' = [b \in Bus |-> [c \in Cell |-> Old]]
           ELSE /\ Answer(CASE ~v -> "MEDIUM INFO INVALID"
                            [] v /\ size = 0 -> "DATA SIZE INVALID"
                            [] OTHER -> "DATA SIZE EXCEED")
                /\ Requeue("rx_command", outLen)
                /\ Untouched /\ UNCHANGED dl

(* cb_erase_lba.  mmc_berase erases group by group and stops at an error:   *)
(* k blocks were asked for.  A card that stays busy too long makes it       *)
(* return 0, even after the last group.                                     *)
cb_erase_lba(off, size) ==
    /\ Served
    /\ UNCHANGED <<cards, usb, dev, dl>>
    /\ Requeue("rx_command", outLen)
    /\ \/ /\ burner = NoBus
          /\ Answer("RUNTIME ERROR") /\ Untouched
       \/ /\ burner # NoBus
          /\ size = 0 \/ ~AreaOk(cards, burner, off, size)
          /\ Answer("ERASE ERROR") /\ Untouched
       \/ /\ burner # NoBus /\ size # 0 /\ AreaOk(cards, burner, off, size)
          /\ \E k \in 0 .. BlkCount(size) :
                /\ k > 0 => burner \in cards
                /\ \/ k = BlkCount(size) /\ Answer("ERASE OK")
                   \/ BlkCount(size) > 0 /\ Answer("ERASE ERROR")
                /\ medium' = [b \in Bus |->
                        IF b = burner THEN Wiped([c \in Cell |-> Old], off, k)
                        ELSE [c \in Cell |-> Old]]
          /\ winBus' = burner /\ winOff' = off /\ winSize' = size /\ rx' = 0

(* rx_write_lba_handler with status 0.                                      *)
TransferSize(n) ==
    LET left == (dlSize - dlBytes) % U32     \* a u64 kept in an unsigned int
    IN  IF n < left THEN n ELSE left

(* kburn_write_medium programs the chunk, or only its first k blocks: some  *)
(* command fails, or a later part of the chunk is out of range.  A chunk of *)
(* no blocks cannot fail.                                                   *)
ChunkWritten(len, ok) ==
    IF burner # NoBus /\ AreaOk(cards, burner, offset, len)
    THEN \E k \in 0 .. BlkCount(len) :
            /\ k > 0 => burner \in cards
            /\ ok => k = BlkCount(len) /\ DriverOk(cards, burner, offset, len)
            /\ ok \/ BlkCount(len) > 0
            /\ medium' = [medium EXCEPT ![burner] =
                            Programmed(@, offset, len, rx, k)]
    ELSE ~ok /\ UNCHANGED medium

DataIn(n) ==
    /\ Completed(n) /\ outFn = "rx_write_lba"
    /\ rx + n <= MaxStream
    /\ rx' = rx + n /\ dlBytes' = (dlBytes + TransferSize(n)) % U64
    /\ UNCHANGED <<cards, usb, win, dev>>

(* WRITE ERROR: the request is not queued again and `complete' stays.       *)
WriteFailed(n) ==
    /\ DataIn(n)
    /\ \E ok \in BOOLEAN :
        /\ ChunkWritten(TransferSize(n), ok)
        /\ ok => AlignLen(TransferSize(n)) # TransferSize(n)
    /\ Answer("WRITE ERROR")
    /\ outReq' = "idle" /\ buf' = get_kburn_usb
    /\ UNCHANGED <<outFn, outLen, offset, dlSize>>

(* Mutant of ChunkStored: the offset is not advanced.                       *)
ChunkStoredInPlace(n) ==
    /\ DataIn(n)
    /\ ChunkWritten(TransferSize(n), TRUE)
    /\ AlignLen(TransferSize(n)) = TransferSize(n)
    /\ UNCHANGED offset

ChunkStored(n) ==
    /\ DataIn(n)
    /\ ChunkWritten(TransferSize(n), TRUE)
    /\ AlignLen(TransferSize(n)) = TransferSize(n)
    /\ offset' = (offset + TransferSize(n)) % U64

DownloadGoesOn(n) ==
    /\ ChunkStored(n)
    /\ dlBytes' < dlSize
    /\ Requeue("rx_write_lba", rx_bytes_expected(dlSize, dlBytes'))
    /\ buf' = IF get_kburn_usb = "head" THEN "tail" ELSE "head"
    /\ UNCHANGED <<dlSize, inReq, rsp>>

(* Mutant of DownloadDone: out_req is not queued for the next command.      *)
DownloadDoneDeaf(n) ==
    /\ ChunkStored(n)
    /\ dlBytes' >= dlSize
    /\ outReq' = "idle" /\ outFn' = "rx_command" /\ outLen' = EpBuf
    /\ dlSize' = 0 /\ buf' = "head"
    /\ Answer("WRITE DONE")

DownloadDone(n) ==
    /\ ChunkStored(n)
    /\ dlBytes' >= dlSize
    /\ Requeue("rx_command", EpBuf)
    /\ dlSize' = 0 /\ buf' = "head"
    /\ Answer("WRITE DONE")

---------------------------------------------------------------------------
(* The host reads the answer: in_req completes, tx_done_handler only looks  *)
(* at the status.                                                           *)
HostReads ==
    /\ usb = "configured" /\ inReq = "queued"
    /\ inReq' = "idle" /\ rsp' = "NONE"
    /\ UNCHANGED <<cards, link, io, dev, dl, medium, hist>>

(* kburn_disable.  Disabling the OUT endpoint completes a queued out_req    *)
(* with -ESHUTDOWN; the ERROR STATUS answer rx_write_lba_handler then       *)
(* queues is dropped when the IN endpoint is disabled in turn.              *)
kburn_disable ==
    /\ outReq' = "null" /\ inReq' = "null" /\ rsp' = "NONE" /\ buf' = "null"
    /\ burner' = NoBus /\ valid' = FALSE

(* SET_CONFIGURATION: composite disables the function if it was configured, *)
(* then calls kburn_set_alt.                                                *)
SetConfig ==
    /\ usb # "gone" /\ usb' = "configured"
    /\ outReq' = "queued" /\ outFn' = "rx_command" /\ outLen' = EpBuf
    /\ inReq' = "idle" /\ rsp' = "NONE"
    /\ IF usb = "configured"
       THEN buf' = "null" /\ burner' = NoBus /\ valid' = FALSE
       ELSE UNCHANGED <<buf, burner, valid>>
    /\ UNCHANGED <<cards, told, dl, medium, hist>>

(* An endpoint or an allocation fails in kburn_set_alt, or the host resets  *)
(* the bus, disconnects or selects configuration 0: kburn_disable runs.     *)
SetConfigFails ==
    /\ usb # "gone" /\ usb' = "attached"
    /\ kburn_disable
    /\ UNCHANGED <<cards, outFn, outLen, told, dl, medium, hist>>

Disconnect ==
    /\ usb = "configured" /\ usb' = "attached"
    /\ kburn_disable
    /\ UNCHANGED <<cards, outFn, outLen, told, dl, medium, hist>>

(* do_kburn registers the gadget (kburn_add takes the buffers) and leaves   *)
(* its polling loop on Ctrl-C or a detach request (kburn_disable if         *)
(* configured, then kburn_unbind clears the whole structure).               *)
do_kburn ==
    /\ usb = "gone" /\ usb' = "attached"
    /\ buf' = get_kburn_usb
    /\ UNCHANGED <<cards, io, inReq, rsp, dev, dl, medium, hist>>

Leave ==
    /\ usb # "gone" /\ usb' = "gone"
    /\ kburn_disable
    /\ offset' = 0 /\ dlSize' = 0 /\ dlBytes' = 0
    /\ UNCHANGED <<cards, outFn, outLen, told, medium, hist>>

Command ==
    \/ UnknownCommand \/ OverlongCommand \/ cb_not_support \/ BadDataSize
    \/ \E bus \in Bus \cup {NoBus} : cb_probe_device(bus)
    \/ cb_get_device_info
    \/ \E off \in Offsets, size \in Sizes :
            cb_write_lba(off, size) \/ cb_erase_lba(off, size)

Data ==
    \E n \in 1 .. EpBuf : WriteFailed(n) \/ DownloadGoesOn(n) \/ DownloadDone(n)

Link == SetConfig \/ SetConfigFails \/ Disconnect \/ do_kburn \/ Leave

Next == Command \/ Data \/ HostReads \/ Link

Spec == Init /\ [][Next]_vars

(* do_kburn polls the controller without end, and the host sends the data   *)
(* it announced; it need not read answers, send commands or stay connected. *)
FairSpec == Spec /\ WF_vars(Data)

---------------------------------------------------------------------------
(* When the gadget answers WRITE DONE to a download at a block boundary,    *)
(* every byte of the announced window holds the byte of the stream that     *)
(* belongs there, whatever the lengths of the transfers the stream came in, *)
(* and whatever its size in relation to the 32-bit transfer_size of         *)
(* rx_write_lba_handler.                                                    *)
DoneMeansStored ==
    (/\ inReq = "queued" /\ rsp = "WRITE DONE"
     /\ winOff % BlkSz = 0 /\ winOff + winSize < U64) =>
        \A i \in 0 .. winSize - 1 : medium[winBus][winOff + i] = i

(* A WRITE or an ERASE inside the card touches no byte outside the blocks   *)
(* of its window (an ERASE: the erase groups), and no other card: mmc_op's  *)
(* rounding, a failed block and a download that is cut off included.  In    *)
(* particular nothing is ever touched when the burner was never probed.     *)
Confined ==
    winOff + winSize <= Lba * BlkSz =>
        \A b \in Bus, c \in Cell :
            medium[b][c] # Old =>
                LET g == IF medium[b][c] = Erased THEN EraseGrp ELSE 1
                IN  /\ b = winBus
                    /\ (winOff \div BlkSz) \div g <= (c \div BlkSz) \div g
                    /\ (c \div BlkSz) \div g
                            <= ((winOff + winSize - 1) \div BlkSz) \div g

(* While a download smaller than 4 GiB runs, dl_bytes counts exactly the    *)
(* bytes the host has sent, offset has advanced by as many, and a request   *)
(* for at least one more byte is queued.                                    *)
StreamInStep ==
    (/\ usb = "configured" /\ outReq = "queued" /\ outFn = "rx_write_lba"
     /\ winSize < U32 /\ winOff + winSize < U64) =>
        /\ dlSize = winSize
        /\ dlBytes = rx /\ rx < dlSize
        /\ offset = winOff + rx
        /\ outLen > 0

(* The configured gadget stops listening to the host only after a failed    *)
(* write, and the answer that waits for the host then says so: no other     *)
(* path of rx_command_handler or rx_write_lba_handler forgets to queue      *)
(* out_req again.                                                           *)
DeafOnlyAfterWriteError ==
    (usb = "configured" /\ outReq # "queued") =>
        /\ outFn = "rx_write_lba" /\ dlSize # 0
        /\ inReq = "queued" => rsp = "WRITE ERROR"

(* A download smaller than 4 GiB comes to an end, WRITE DONE, WRITE ERROR   *)
(* or a lost connection: the lengths rx_bytes_expected asks for always let  *)
(* the rest of the stream in, in whatever lengths it comes.                 *)
Receiving == usb = "configured" /\ outReq = "queued" /\ outFn = "rx_write_lba"

DownloadEnds == (Receiving /\ winSize < U32) ~> ~Receiving

(* A download that has a device goes to the one whose medium_info the host  *)
(* was last given, and fits into it: cb_probe_device throws away what the   *)
(* old burner knew, so cb_write_lba never checks a window against a card    *)
(* that another probe, or a lost connection, has left behind.               *)
InformedWindow ==
    (Receiving /\ winBus # NoBus) =>
        /\ told = winBus
        /\ winOff + winSize < U64 => winOff + winSize <= Capacity(cards, winBus)
=============================================================================
