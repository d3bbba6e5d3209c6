---------------------------- MODULE KburnProofs ----------------------------
(* The invariants of Kburn, proved for every width, block size, card and    *)
(* set of host arguments that the assumptions of Kburn allow.               *)
EXTENDS Kburn, WellFoundedInduction, TLAPS

(* The requests exist exactly while the function is configured, and so does *)
(* the burner at most.                                                      *)
Lifecycle ==
    /\ usb = "configured" <=> outReq # "null"
    /\ usb = "configured" <=> inReq # "null"
    /\ usb # "configured" => burner = NoBus
    /\ outReq = "idle" => /\ outFn = "rx_write_lba" /\ dlSize # 0
                          /\ inReq = "queued" => rsp = "WRITE ERROR"
    /\ outReq = "queued" /\ outFn = "rx_command" => outLen = EpBuf

Downloading == outReq = "queued" /\ outFn = "rx_write_lba"
NoWrap == winOff + winSize < U64
Aligned == winOff % BlkSz = 0
Left == dlSize - dlBytes

(* A download whose remainder has become a multiple of U32 gets nothing     *)
(* more: transfer_size is 0 from then on.                                   *)
Starved == Left >= U32 /\ Left % U32 = 0

DownloadInv ==
    Downloading =>
        /\ dlSize = winSize /\ dlBytes < dlSize
        /\ winBus = burner
        /\ burner = NoBus => dlBytes = 0
        /\ outLen = rx_bytes_expected(dlSize, dlBytes)
        /\ rx >= dlBytes /\ (rx = dlBytes \/ Starved)
        /\ rsp # "WRITE DONE"
        /\ NoWrap => offset = winOff + dlBytes
        /\ NoWrap /\ burner # NoBus => winOff + winSize <= Lba * BlkSz
        /\ NoWrap /\ Aligned => offset % BlkSz = 0

StoredInv ==
    (Downloading /\ NoWrap /\ Aligned /\ burner # NoBus /\ rx = dlBytes) =>
        \A i \in 0 .. dlBytes - 1 : medium[winBus][winOff + i] = i

(* medium_info, once it is valid, is what the host was last given.          *)
InfoInv == (valid => told = burner) /\ InformedWindow

IndInv == Lifecycle /\ DownloadInv /\ StoredInv
          /\ DoneMeansStored /\ Confined /\ InfoInv

---------------------------------------------------------------------------
(* Arithmetic: Euclidean division, and what rounding to a multiple does.    *)
LEMMA DivMod ==
    ASSUME NEW a \in Int, NEW b \in Nat \ {0}
    PROVE  /\ a % b \in 0 .. b - 1
           /\ a \div b \in Int
           /\ a = b * (a \div b) + (a % b)
OBVIOUS

LEMMA MulCancel ==
    ASSUME NEW a \in Int, NEW b \in Int, NEW c \in Nat \ {0}, a * c < b * c
    PROVE  a < b
OBVIOUS

LEMMA MulMono ==
    ASSUME NEW a \in Int, NEW b \in Int, NEW c \in Nat, a <= b
    PROVE  a * c <= b * c
OBVIOUS

LEMMA MulDiv ==
    ASSUME NEW a \in Int, NEW c \in Nat \ {0}
    PROVE  (a * c) \div c = a /\ (a * c) % c = 0
OBVIOUS

LEMMA NatDiv ==
    ASSUME NEW a \in Nat, NEW b \in Nat \ {0}
    PROVE  a \div b \in Nat /\ a % b <= a
<1>1. a % b \in 0 .. b - 1 /\ a \div b \in Int /\ a = b * (a \div b) + (a % b)
    BY DivMod
<1>2. a \div b >= 0
    <2>1. 0 * b < (a \div b + 1) * b
        BY <1>1
    <2> QED BY <2>1, <1>1, MulCancel
<1>3. 0 * b <= (a \div b) * b
    BY <1>1, <1>2, MulMono
<1> QED BY <1>1, <1>2, <1>3

LEMMA RoundUp ==
    ASSUME NEW r \in Nat, NEW m \in Nat \ {0}
    PROVE  /\ (r + m - 1) \div m \in Nat
           /\ r <= ((r + m - 1) \div m) * m
           /\ ((r + m - 1) \div m) * m < r + m
<1>1. ASSUME NEW a \in Nat, a = r + m - 1
      PROVE  a \div m \in Nat /\ r <= (a \div m) * m /\ (a \div m) * m < r + m
    <2>1. a % m \in 0 .. m - 1 /\ a \div m \in Int /\ a = m * (a \div m) + (a % m)
        BY DivMod
    <2>2. a \div m \in Nat
        BY NatDiv
    <2> QED BY <1>1, <2>1, <2>2
<1>2. r + m - 1 \in Nat
    OBVIOUS
<1> QED BY <1>1, <1>2

(* A number no larger than a multiple of m rounds up to no more than it.    *)
LEMMA RoundUpWithin ==
    ASSUME NEW r \in Nat, NEW m \in Nat \ {0}, NEW e \in Nat, e % m = 0, r <= e
    PROVE  ((r + m - 1) \div m) * m <= e
<1> DEFINE q == (r + m - 1) \div m
<1> DEFINE k == e \div m
<1>1. k \in Int /\ e = m * k + (e % m)
    BY DivMod
<1>2. q \in Nat /\ q * m < r + m
    BY RoundUp
<1>3. q * m < (k + 1) * m
    BY <1>1, <1>2
<1>4. q <= k
    BY <1>1, <1>2, <1>3, MulCancel
<1>5. q * m <= k * m
    BY <1>1, <1>2, <1>4, MulMono
<1> QED BY <1>1, <1>2, <1>5

(* A set of naturals that is not empty has a least member.                  *)
LEMMA LeastOf ==
    ASSUME NEW S, S \subseteq Nat, S # {}
    PROVE  \E d \in S : \A e \in S : d <= e
<1> DEFINE R == {p \in Nat \X Nat : p[1] < p[2]}
<1>1. IsWellFoundedOn(R, Nat)
    <2>1. OpToRel(<, Nat) = R
        BY DEF OpToRel
    <2> QED BY <2>1, NatLessThanWellFounded
<1>2. PICK x \in S : \A y \in S : ~(<<y, x>> \in R)
    <2> HIDE DEF R
    <2>1. \E x \in S : \A y \in S : ~(<<y, x>> \in R)
        BY <1>1, WFMin
    <2> QED BY <2>1
<1>3. ASSUME NEW y \in S
      PROVE  x <= y
    <2>1. x \in Nat /\ y \in Nat
        OBVIOUS
    <2>2. ~(<<y, x>> \in R)
        BY <1>2
    <2> QED BY <2>1, <2>2
<1> QED BY <1>3

(* The assumptions without the products, which slow the provers down.       *)
LEMMA Widths ==
    /\ U32 \in Nat \ {0} /\ U64 \in Nat \ {0} /\ U32 <= U64
    /\ BlkSz \in Nat \ {0} /\ Lba \in Nat \ {0} /\ Lba < U32
    /\ EpBuf \in Nat \ {0} /\ EpBuf < U32
    /\ MaxPacket \in Nat \ {0, 1} /\ MaxStream \in Nat
    /\ EraseGrp \in Nat \ {0}
BY MmcAssumption, KburnAssumption

---------------------------------------------------------------------------
(* What the operators of the model return.                                  *)
LEMMA ExpectedRange ==
    ASSUME NEW size \in 0 .. U64 - 1, NEW bytes \in 0 .. U64 - 1
    PROVE  /\ rx_bytes_expected(size, bytes) \in 0 .. EpBuf
           /\ bytes < size => rx_bytes_expected(size, bytes) > 0
<1> DEFINE r == size - bytes
<1>0. EpBuf \in Nat \ {0} /\ MaxPacket \in Nat \ {0} /\ EpBuf % MaxPacket = 0
      /\ U64 \in Nat /\ r \in Int
    BY KburnAssumption, MmcAssumption
<1>1. CASE r <= 0
    BY <1>0, <1>1 DEF rx_bytes_expected
<1>2. CASE r > EpBuf
    BY <1>0, <1>2 DEF rx_bytes_expected
<1>3. CASE r > 0 /\ r <= EpBuf
    <2>1. r \in Nat
        BY <1>0, <1>3
    <2>2. rx_bytes_expected(size, bytes) = ((r + MaxPacket - 1) \div MaxPacket) * MaxPacket
        BY <1>0, <1>3 DEF rx_bytes_expected
    <2> HIDE DEF r
    <2>3. /\ (r + MaxPacket - 1) \div MaxPacket \in Nat
          /\ r <= ((r + MaxPacket - 1) \div MaxPacket) * MaxPacket
        BY <2>1, <1>0, RoundUp
    <2>4. ((r + MaxPacket - 1) \div MaxPacket) * MaxPacket <= EpBuf
        BY <2>1, <1>0, <1>3, RoundUpWithin
    <2> QED BY <2>1, <2>2, <2>3, <2>4, <1>0, <1>3
<1> QED BY <1>0, <1>1, <1>2, <1>3

LEMMA ProgrammedType ==
    ASSUME NEW card \in [Cell -> Content], NEW off, NEW len,
           NEW base \in Nat, NEW n, BlkStart(off) \in Nat
    PROVE  Programmed(card, off, len, base, n) \in [Cell -> Content]
<1> SUFFICES ASSUME NEW c \in Cell
             PROVE  Programmed(card, off, len, base, n)[c] \in Content
    BY DEF Programmed
<1> DEFINE i == c - BlkStart(off) * BlkSz
<1>1. i \in Int
    BY MmcAssumption DEF Cell
<1>2. card[c] \in Content /\ Junk \in Content
    BY DEF Content
<1>3. i >= 0 => base + i \in Content
    BY <1>1 DEF Content
<1> HIDE DEF i
<1>4. Programmed(card, off, len, base, n)[c] =
         IF i < 0 \/ i >= n * BlkSz THEN card[c] ELSE IF i < len THEN base + i ELSE Junk
    BY DEF Programmed, i
<1> QED BY <1>1, <1>2, <1>3, <1>4

LEMMA WipedType ==
    ASSUME NEW card \in [Cell -> Content], NEW off, NEW n
    PROVE  Wiped(card, off, n) \in [Cell -> Content]
BY DEF Wiped, Content

LEMMA BlkStartType ==
    ASSUME NEW off \in Nat
    PROVE  BlkStart(off) \in 0 .. U32 - 1
<1>1. off \div BlkSz \in Int
    BY MmcAssumption, DivMod
<1> QED BY <1>1, MmcAssumption, DivMod DEF BlkStart

LEMMA TransferRange ==
    ASSUME TypeOK, NEW n \in Nat
    PROVE  /\ TransferSize(n) \in Nat
           /\ TransferSize(n) <= n
           /\ TransferSize(n) < U32
           /\ dlBytes <= dlSize => TransferSize(n) <= dlSize - dlBytes
<1> DEFINE d == dlSize - dlBytes
<1>1. d \in Int /\ U32 \in Nat \ {0}
    BY MmcAssumption DEF TypeOK
<1>2. d % U32 \in 0 .. U32 - 1
    BY <1>1, DivMod
<1>3. d >= 0 => d % U32 <= d
    BY <1>1, NatDiv
<1>4. TransferSize(n) = IF n < d % U32 THEN n ELSE d % U32
    BY DEF TransferSize
<1>5. dlBytes <= dlSize => d >= 0
    BY <1>1 DEF TypeOK
<1> HIDE DEF d
<1>6. dlBytes <= dlSize => TransferSize(n) <= d
    BY <1>1, <1>2, <1>3, <1>4, <1>5
<1> QED BY <1>1, <1>2, <1>4, <1>6 DEF d

---------------------------------------------------------------------------
(* Type correctness.                                                        *)
LEMMA OldCards == [b \in Bus |-> [c \in Cell |-> Old]] \in [Bus -> [Cell -> Content]]
BY DEF Content

(* The search of kburn_mmc_probe always ends at a device: the first of the  *)
(* ones that match, or the last of all.                                     *)
LEMMA ProbeType ==
    ASSUME NEW C \in SUBSET Bus, NEW bus
    PROVE  kburn_mmc_probe(C, bus) \in Bus
<1> DEFINE hits == {d \in C : ParentSeq[d] = bus}
<1>1. CASE hits = {}
    BY <1>1, MmcAssumption DEF kburn_mmc_probe, Bus
<1>2. CASE hits # {}
    <2>1. PICK d \in hits : \A e \in hits : d <= e
        <3>1. Bus \subseteq Nat
            BY MmcAssumption DEF Bus
        <3>2. hits \subseteq Nat
            BY <3>1
        <3> HIDE DEF hits
        <3> QED BY <1>2, <3>2, LeastOf
    <2>2. (CHOOSE x \in hits : \A e \in hits : x <= e) \in hits
        BY <2>1
    <2> QED BY <1>2, <2>2 DEF kburn_mmc_probe
<1> QED BY <1>1, <1>2

LEMMA ReplyType ==
    ASSUME TypeOK, NEW r \in Responses, Reply(r),
           buf' \in {"null", "head", "tail"},
           burner' \in Bus \cup {NoBus},
           told' \in Bus \cup {NoBus}, valid' \in BOOLEAN
    PROVE  TypeOK'
<1>1. NoBus \in Bus \cup {NoBus} /\ 0 \in 0 .. U64 - 1 /\ 0 \in 0 .. MaxStream
    BY MmcAssumption, KburnAssumption
<1>2. medium' \in [Bus -> [Cell -> Content]]
    BY OldCards DEF Reply, Untouched
<1> QED BY <1>1, <1>2 DEF TypeOK, Reply, Answer, Requeue, Untouched, dl

LEMMA ChunkWrittenType ==
    ASSUME TypeOK, NEW len, NEW ok, ChunkWritten(len, ok)
    PROVE  medium' \in [Bus -> [Cell -> Content]]
<1>1. CASE UNCHANGED medium
    BY <1>1 DEF TypeOK
<1>2. CASE /\ burner # NoBus
           /\ \E k \in 0 .. BlkCount(len) :
                 medium' = [medium EXCEPT ![burner] = Programmed(@, offset, len, rx, k)]
    <2>1. PICK k \in 0 .. BlkCount(len) :
             medium' = [medium EXCEPT ![burner] = Programmed(@, offset, len, rx, k)]
        BY <1>2
    <2>2. burner \in Bus /\ medium[burner] \in [Cell -> Content]
        BY <1>2 DEF TypeOK
    <2>3. offset \in Nat /\ rx \in Nat
        BY MmcAssumption, KburnAssumption DEF TypeOK
    <2>4. BlkStart(offset) \in Nat
        BY <2>3, BlkStartType, Widths
    <2>5. Programmed(medium[burner], offset, len, rx, k) \in [Cell -> Content]
        BY <2>2, <2>3, <2>4, ProgrammedType
    <2> QED BY <2>1, <2>2, <2>5 DEF TypeOK
<1> QED BY <1>1, <1>2 DEF ChunkWritten

LEMMA DataInType ==
    ASSUME TypeOK, NEW n \in 1 .. EpBuf, DataIn(n)
    PROVE  /\ dlBytes' \in 0 .. U64 - 1 /\ rx' \in 0 .. MaxStream
           /\ UNCHANGED <<cards, usb, winBus, winOff, winSize, burner, valid, told>>
<1>1. n \in Nat /\ rx \in Nat /\ MaxStream \in Nat /\ dlBytes \in Nat /\ U64 \in Nat \ {0}
    BY MmcAssumption, KburnAssumption DEF TypeOK
<1>2. TransferSize(n) \in Nat
    BY <1>1, TransferRange
<1>3. dlBytes + TransferSize(n) \in Int
    BY <1>1, <1>2
<1>4. (dlBytes + TransferSize(n)) % U64 \in 0 .. U64 - 1
    BY <1>1, <1>3, DivMod
<1> QED BY <1>1, <1>4 DEF DataIn, win, dev

LEMMA TypeStep == TypeOK /\ [Next]_vars => TypeOK'
<1> SUFFICES ASSUME TypeOK, [Next]_vars PROVE TypeOK'
    OBVIOUS
<1>0. /\ NoBus \in Bus \cup {NoBus}
      /\ EpBuf \in 0 .. EpBuf /\ 0 \in 0 .. EpBuf
      /\ 0 \in 0 .. U64 - 1 /\ 0 \in 0 .. MaxStream
      /\ get_kburn_usb \in {"head", "tail"}
    <2>1. get_kburn_usb \in {"head", "tail"}
        BY DEF TypeOK, get_kburn_usb
    <2> QED BY <2>1, Widths
<1>1. CASE UnknownCommand
    BY <1>1, ReplyType DEF UnknownCommand, Responses, TypeOK, dev
<1>2. CASE OverlongCommand
    BY <1>2, ReplyType DEF OverlongCommand, Responses, TypeOK, dev
<1>3. CASE cb_not_support
    BY <1>3, ReplyType DEF cb_not_support, Responses, TypeOK, dev
<1>4. CASE BadDataSize
    BY <1>0, <1>4, ReplyType DEF BadDataSize, Responses, Served, TypeOK, dev
<1>5. ASSUME NEW bus \in Bus \cup {NoBus}, cb_probe_device(bus)
      PROVE  TypeOK'
    <2>1. kburn_mmc_probe(cards, bus) \in Bus
        BY ProbeType DEF TypeOK
    <2>2. told' \in Bus \cup {NoBus} /\ valid' \in BOOLEAN
        BY <1>5 DEF cb_probe_device, TypeOK
    <2> QED BY <1>0, <1>5, <2>1, <2>2, ReplyType DEF cb_probe_device, Served, Responses
<1>6. CASE cb_get_device_info
    <2>1. /\ valid' \in BOOLEAN /\ burner' \in Bus \cup {NoBus}
          /\ told' \in Bus \cup {NoBus}
        BY <1>6 DEF cb_get_device_info, TypeOK
    <2> QED BY <1>0, <1>6, <2>1, ReplyType DEF cb_get_device_info, Served, Responses
<1>7. ASSUME NEW off \in Offsets, NEW size \in Sizes, cb_write_lba(off, size)
      PROVE  TypeOK'
    <2>1. off \in 0 .. U64 - 1 /\ size \in 0 .. U64 - 1
        BY KburnAssumption
    <2>2. rx_bytes_expected(size, 0) \in 0 .. EpBuf
        BY <1>0, <2>1, ExpectedRange
    <2>3. medium' \in [Bus -> [Cell -> Content]]
        BY <1>7, OldCards DEF cb_write_lba, Untouched
    <2>4. UNCHANGED <<cards, usb, burner, valid, told>> /\ buf' \in {"head", "tail"}
        BY <1>0, <1>7 DEF cb_write_lba, Served, dev
    <2>5. burner \in Bus \cup {NoBus}
        BY DEF TypeOK
    <2>6. CASE /\ offset' = off /\ dlSize' = size /\ dlBytes' = 0
               /\ Answer("START DL")
               /\ Requeue("rx_write_lba", rx_bytes_expected(size, 0))
               /\ winBus' = burner /\ winOff' = off /\ winSize' = size /\ rx' = 0
        BY <1>0, <2>1, <2>2, <2>3, <2>4, <2>5, <2>6
           DEF Responses, Answer, Requeue, TypeOK
    <2>7. ASSUME NEW r \in Responses, Answer(r),
                 Requeue("rx_command", outLen), Untouched, UNCHANGED dl
          PROVE  TypeOK'
        BY <1>0, <2>3, <2>4, <2>7 DEF Answer, Requeue, Untouched, TypeOK, dl
    <2> QED BY <1>7, <2>6, <2>7 DEF cb_write_lba, Responses
<1>8. ASSUME NEW off \in Offsets, NEW size \in Sizes, cb_erase_lba(off, size)
      PROVE  TypeOK'
    <2>1. off \in 0 .. U64 - 1 /\ size \in 0 .. U64 - 1
        BY KburnAssumption
    <2>2. [c \in Cell |-> Old] \in [Cell -> Content]
        BY DEF Content
    <2>3. \A k : Wiped([c \in Cell |-> Old], off, k) \in [Cell -> Content]
        BY <2>2, WipedType
    <2>4. medium' \in [Bus -> [Cell -> Content]]
        <3>1. CASE Untouched
            BY <3>1, OldCards DEF Untouched
        <3>2. CASE \E k \in 0 .. BlkCount(size) :
                     medium' = [b \in Bus |->
                        IF b = burner THEN Wiped([c \in Cell |-> Old], off, k)
                        ELSE [c \in Cell |-> Old]]
            BY <3>2, <2>2, <2>3
        <3> QED BY <1>8, <3>1, <3>2 DEF cb_erase_lba
    <2> QED BY <1>0, <1>8, <2>1, <2>4
            DEF cb_erase_lba, Served, Responses, Answer, Requeue, Untouched, TypeOK, dev, dl
<1>9. ASSUME NEW n \in 1 .. EpBuf, WriteFailed(n)
      PROVE  TypeOK'
    <2>1. medium' \in [Bus -> [Cell -> Content]]
        BY <1>9, ChunkWrittenType DEF WriteFailed
    <2> QED BY <1>0, <1>9, <2>1, DataInType DEF WriteFailed, Answer, Responses, TypeOK
<1>10. ASSUME NEW n \in 1 .. EpBuf, ChunkStored(n)
       PROVE  /\ medium' \in [Bus -> [Cell -> Content]]
              /\ offset' \in 0 .. U64 - 1
    <2>1. medium' \in [Bus -> [Cell -> Content]]
        BY <1>10, ChunkWrittenType DEF ChunkStored
    <2>2. n \in Nat /\ U64 \in Nat \ {0} /\ offset \in Nat
        BY Widths DEF TypeOK
    <2>3. offset + TransferSize(n) \in Int
        BY <2>2, TransferRange
    <2>4. (offset + TransferSize(n)) % U64 \in 0 .. U64 - 1
        BY <2>2, <2>3, DivMod
    <2> QED BY <1>10, <2>1, <2>4 DEF ChunkStored
<1>11. ASSUME NEW n \in 1 .. EpBuf, DownloadGoesOn(n)
       PROVE  TypeOK'
    <2>1. DataIn(n) /\ ChunkStored(n)
        BY <1>11 DEF DownloadGoesOn, ChunkStored
    <2>2. dlBytes' \in 0 .. U64 - 1 /\ dlSize \in 0 .. U64 - 1
        BY <2>1, DataInType DEF TypeOK
    <2>3. rx_bytes_expected(dlSize, dlBytes') \in 0 .. EpBuf
        BY <2>2, ExpectedRange
    <2> QED BY <1>0, <1>10, <1>11, <2>1, <2>3, DataInType
            DEF DownloadGoesOn, Requeue, TypeOK
<1>12. ASSUME NEW n \in 1 .. EpBuf, DownloadDone(n)
       PROVE  TypeOK'
    <2>1. DataIn(n) /\ ChunkStored(n)
        BY <1>12 DEF DownloadDone, ChunkStored
    <2> QED BY <1>0, <1>10, <1>12, <2>1, DataInType
            DEF DownloadDone, Requeue, Responses, Answer, TypeOK
<1>13. CASE HostReads
    BY <1>0, <1>13 DEF HostReads, Responses, TypeOK, link, io, dev, dl, hist, win
<1>14. CASE SetConfig
    BY <1>0, <1>14 DEF SetConfig, Responses, TypeOK, dl, hist, win
<1>15. CASE SetConfigFails
    BY <1>0, <1>15 DEF SetConfigFails, Responses, kburn_disable, TypeOK, dl, hist, win
<1>16. CASE Disconnect
    BY <1>0, <1>16 DEF Disconnect, Responses, kburn_disable, TypeOK, dl, hist, win
<1>17. CASE do_kburn
    <2>1. buf' \in {"null", "head", "tail"} /\ usb' = "attached"
        BY <1>0, <1>17 DEF do_kburn
    <2>2. UNCHANGED <<cards, outReq, outFn, outLen, inReq, rsp, burner, valid, told,
                      offset, dlSize, dlBytes, medium, winBus, winOff, winSize, rx>>
        BY <1>17 DEF do_kburn, io, dev, dl, hist, win
    <2> QED BY <2>1, <2>2 DEF TypeOK
<1>18. CASE Leave
    BY <1>0, <1>18 DEF Leave, Responses, kburn_disable, TypeOK, hist, win
<1>19. CASE UNCHANGED vars
    <2>1. UNCHANGED <<cards, usb, outReq, outFn, outLen, inReq, rsp, buf, burner, valid,
                      told, offset, dlSize, dlBytes, medium, winBus, winOff, winSize, rx>>
        BY <1>19 DEF vars, link, io, dev, dl, hist, win
    <2> QED BY <2>1 DEF TypeOK
<1> QED
    BY <1>1, <1>2, <1>3, <1>4, <1>5, <1>6, <1>7, <1>8, <1>9, <1>11, <1>12,
       <1>13, <1>14, <1>15, <1>16, <1>17, <1>18, <1>19
    DEF Next, Command, Data, Link

(* The unsigned fields of kburn_usb_t stay in their width, out_req never    *)
(* asks for more than the endpoint buffer holds, and every byte of a card   *)
(* is old, erased, padding or a byte of the stream.                         *)
THEOREM TypeCorrect == Spec => []TypeOK
<1>1. Init => TypeOK
    <2>1. 0 \in 0 .. U64 - 1 /\ 0 \in 0 .. MaxStream /\ 0 \in 0 .. EpBuf
        BY MmcAssumption, KburnAssumption
    <2> QED BY <2>1, OldCards DEF Init, TypeOK, Responses
<1> QED BY <1>1, TypeStep, PTL DEF Spec

---------------------------------------------------------------------------
(* Arithmetic of blocks.                                                    *)
LEMMA ModSmall ==
    ASSUME NEW m \in Nat \ {0}, NEW a \in 0 .. m - 1
    PROVE  a % m = a
OBVIOUS

LEMMA DivLower ==
    ASSUME NEW x \in Int, NEW y \in Int, NEW b \in Nat \ {0}, x * b <= y
    PROVE  x <= y \div b
<1>1. y % b \in 0 .. b - 1 /\ y \div b \in Int /\ y = b * (y \div b) + (y % b)
    BY DivMod
<1>2. x * b < (y \div b + 1) * b
    BY <1>1
<1>3. x < y \div b + 1
    BY <1>1, <1>2, MulCancel
<1> QED BY <1>1, <1>3

LEMMA DivUpper ==
    ASSUME NEW x \in Int, NEW y \in Int, NEW b \in Nat \ {0}, y < x * b
    PROVE  y \div b < x
<1>1. y % b \in 0 .. b - 1 /\ y \div b \in Int /\ y = b * (y \div b) + (y % b)
    BY DivMod
<1>2. (y \div b) * b < x * b
    BY <1>1
<1> QED BY <1>1, <1>2, MulCancel

LEMMA DivMono ==
    ASSUME NEW x \in Int, NEW y \in Int, NEW b \in Nat \ {0}, x <= y
    PROVE  x \div b <= y \div b
<1>1. x % b \in 0 .. b - 1 /\ x \div b \in Int /\ x = b * (x \div b) + (x % b)
    BY DivMod
<1>2. (x \div b) * b <= y
    BY <1>1
<1> QED BY <1>1, <1>2, DivLower

LEMMA BlkDiv ==
    \A o \in Nat : /\ o % BlkSz \in 0 .. BlkSz - 1
                   /\ o \div BlkSz \in Nat
                   /\ o = BlkSz * (o \div BlkSz) + (o % BlkSz)
<1>1. BlkSz \in Nat \ {0}
    BY Widths
<1> TAKE o \in Nat
<1>2. o \div BlkSz \in Nat
    BY <1>1, NatDiv
<1>3. o \in Int
    OBVIOUS
<1>4. o % BlkSz \in 0 .. BlkSz - 1 /\ o = BlkSz * (o \div BlkSz) + (o % BlkSz)
    BY <1>1, <1>3, DivMod
<1> QED BY <1>2, <1>4

LEMMA U32Div ==
    \A a \in Nat : /\ a % U32 \in 0 .. U32 - 1
                   /\ a \div U32 \in Nat
                   /\ a = U32 * (a \div U32) + (a % U32)
<1>1. U32 \in Nat \ {0}
    BY Widths
<1> TAKE a \in Nat
<1>2. a \div U32 \in Nat
    BY <1>1, NatDiv
<1>3. a \in Int
    OBVIOUS
<1>4. a % U32 \in 0 .. U32 - 1 /\ a = U32 * (a \div U32) + (a % U32)
    BY <1>1, <1>3, DivMod
<1> QED BY <1>2, <1>4

LEMMA Aligned1 ==
    ASSUME NEW o \in Nat, o % BlkSz = 0
    PROVE  o \div BlkSz \in Nat /\ o = (o \div BlkSz) * BlkSz
<1>1. BlkSz \in Nat \ {0}
    BY Widths
<1>2. o \div BlkSz \in Int /\ o = BlkSz * (o \div BlkSz) + (o % BlkSz)
    BY <1>1, DivMod
<1>3. o \div BlkSz \in Nat
    BY <1>1, NatDiv
<1> QED BY <1>1, <1>2, <1>3

(* Inside the card the 32-bit start block is the real one.                  *)
LEMMA StartInCard ==
    ASSUME NEW o \in Nat, o < Lba * BlkSz
    PROVE  BlkStart(o) = o \div BlkSz /\ o \div BlkSz \in Nat
<1>1. BlkSz \in Nat \ {0} /\ Lba \in Nat /\ U32 \in Nat \ {0} /\ Lba < U32
    BY Widths
<1>2. o \div BlkSz \in Nat
    BY <1>1, NatDiv
<1>3. o \div BlkSz < Lba
    BY <1>1, DivUpper
<1>4. o \div BlkSz \in 0 .. U32 - 1
    BY <1>1, <1>2, <1>3
<1> HIDE DEF BlkStart
<1> QED BY <1>1, <1>2, <1>4, ModSmall DEF BlkStart

(* The 32-bit block count is never more than the length needs, and is the   *)
(* exact quotient for a length of whole blocks below 2^32.                  *)
LEMMA CountBound ==
    ASSUME NEW t \in Nat, t <= Lba * BlkSz
    PROVE  BlkCount(t) \in Nat /\ BlkCount(t) <= (t + BlkSz - 1) \div BlkSz
<1>1. BlkSz \in Nat \ {0} /\ Lba \in Nat /\ U32 \in Nat \ {0} /\ U64 \in Nat \ {0}
    BY Widths
<1>2. t + BlkSz - 1 \in 0 .. U64 - 1
    <2>1. (Lba + 1) * BlkSz <= U64
        BY MmcAssumption
    <2> QED BY <2>1, <1>1
<1>3. (t + BlkSz - 1) % U64 = t + BlkSz - 1
    BY <1>1, <1>2, ModSmall
<1> DEFINE q == (t + BlkSz - 1) \div BlkSz
<1>4. AlignLen(t) = q * BlkSz
    BY <1>3 DEF AlignLen
<1>5. q \in Nat
    BY <1>1, RoundUp
<1> HIDE DEF q
<1>6. (q * BlkSz) \div BlkSz = q
    BY <1>1, <1>5, MulDiv
<1>7. BlkCount(t) = q % U32
    BY <1>4, <1>6 DEF BlkCount
<1>8. q % U32 \in 0 .. U32 - 1 /\ q % U32 <= q
    BY <1>1, <1>5, DivMod, NatDiv
<1> QED BY <1>1, <1>5, <1>7, <1>8 DEF q

LEMMA CountExact ==
    ASSUME NEW t \in Nat, t < U32, AlignLen(t) = t
    PROVE  BlkCount(t) \in Nat /\ BlkCount(t) * BlkSz = t /\ t % BlkSz = 0
<1>1. BlkSz \in Nat \ {0} /\ U32 \in Nat \ {0} /\ U64 \in Nat \ {0}
    BY Widths
<1> DEFINE q == ((t + BlkSz - 1) % U64) \div BlkSz
<1>2. t = q * BlkSz
    BY DEF AlignLen
<1>3. q \in Nat
    <2>1. t + BlkSz - 1 \in Int
        BY <1>1
    <2>2. (t + BlkSz - 1) % U64 \in Nat
        BY <1>1, <2>1, DivMod
    <2> QED BY <1>1, <2>2, NatDiv
<1> HIDE DEF q
<1>4. (q * BlkSz) \div BlkSz = q /\ (q * BlkSz) % BlkSz = 0
    BY <1>1, <1>3, MulDiv
<1>5. q <= t
    <2>1. q * 1 <= q * BlkSz
        BY <1>1, <1>3
    <2> QED BY <2>1, <1>2, <1>3
<1>6. q \in 0 .. U32 - 1
    BY <1>1, <1>3, <1>5
<1>7. BlkCount(t) = q % U32
    BY <1>2, <1>4 DEF BlkCount
<1>8. q % U32 = q
    BY <1>1, <1>6, ModSmall
<1> QED BY <1>2, <1>3, <1>4, <1>7, <1>8

(* An access inside the card touches only the blocks of its window.         *)
LEMMA BlocksWithin ==
    ASSUME NEW o \in Nat, NEW t \in Nat, o + t <= Lba * BlkSz,
           NEW k \in 0 .. BlkCount(t), NEW c \in Nat,
           c - BlkStart(o) * BlkSz >= 0, c - BlkStart(o) * BlkSz < k * BlkSz
    PROVE  /\ o \div BlkSz <= c \div BlkSz
           /\ c \div BlkSz <= (o + t - 1) \div BlkSz
<1>1. BlkSz \in Nat \ {0} /\ Lba \in Nat
    BY Widths
<1>2. t <= Lba * BlkSz
    BY <1>1
<1>3. BlkCount(t) \in Nat /\ BlkCount(t) <= (t + BlkSz - 1) \div BlkSz
    BY <1>2, CountBound
<1>4. k \in Nat /\ k >= 1
    <2>1. k \in Nat
        BY <1>3
    <2>2. 0 * BlkSz < k * BlkSz
        <3>1. BlkStart(o) \in Nat
            BY BlkStartType, Widths
        <3> QED BY <3>1, <1>1, <2>1
    <2> QED BY <2>1, <2>2, <1>1, MulCancel
<1>5. t >= 1
    <2>1. SUFFICES ASSUME t = 0 PROVE FALSE
        OBVIOUS
    <2>2. (BlkSz - 1) \div BlkSz < 1
        BY <1>1, DivUpper
    <2>3. t + BlkSz - 1 = BlkSz - 1
        BY <2>1, <1>1
    <2> QED BY <2>2, <2>3, <1>1, <1>3, <1>4
<1>6. o < Lba * BlkSz
    BY <1>1, <1>5
<1> DEFINE s == o \div BlkSz
<1>7. BlkStart(o) = s /\ s \in Nat
    BY <1>6, StartInCard
<1> HIDE DEF s
<1>8. o % BlkSz \in 0 .. BlkSz - 1 /\ o = BlkSz * s + (o % BlkSz)
    BY BlkDiv, Zenon DEF s
<1>9. s * BlkSz <= c
    BY <1>1, <1>7
<1>10. s <= c \div BlkSz
    BY <1>1, <1>7, <1>9, DivLower
<1>11. c < (s + k) * BlkSz
    BY <1>1, <1>4, <1>7
<1>12. c \div BlkSz < s + k
    BY <1>1, <1>4, <1>7, <1>11, DivUpper
<1>13. (s + k - 1) * BlkSz <= o + t - 1
    <2> DEFINE m == (t + BlkSz - 1) \div BlkSz
    <2>1. m \in Nat /\ m * BlkSz < t + BlkSz
        BY <1>1, RoundUp
    <2>2. k <= m
        BY <1>3, <1>4, <2>1
    <2> HIDE DEF m
    <2>3. k * BlkSz <= m * BlkSz
        BY <1>1, <1>4, <2>1, <2>2, MulMono
    <2> QED BY <1>1, <1>4, <1>7, <1>8, <2>1, <2>3
<1>14. s + k - 1 <= (o + t - 1) \div BlkSz
    <2>1. o + t - 1 \in Int /\ s + k - 1 \in Int
        BY <1>4, <1>7
    <2> QED BY <1>1, <2>1, <1>13, DivLower
<1>15. c \div BlkSz \in Int /\ (o + t - 1) \div BlkSz \in Int
    <2>1. o + t - 1 \in Int
        OBVIOUS
    <2> QED BY <1>1, <2>1, DivMod
<1> QED BY <1>4, <1>7, <1>10, <1>12, <1>14, <1>15 DEF s

---------------------------------------------------------------------------
(* A chunk of a download: what one completion of out_req does to the        *)
(* counters.                                                                *)
LEMMA ChunkCounts ==
    ASSUME TypeOK, DownloadInv, NEW n \in 1 .. EpBuf, outReq = "queued", DataIn(n)
    PROVE  /\ n \in Nat /\ TransferSize(n) \in Nat /\ TransferSize(n) <= n
           /\ TransferSize(n) < U32
           /\ TransferSize(n) <= Left
           /\ dlBytes' = dlBytes + TransferSize(n)
           /\ rx' = rx + n
<1>1. n \in Nat /\ U64 \in Nat \ {0} /\ dlBytes \in Nat /\ dlSize \in Nat /\ dlSize < U64
    BY Widths DEF TypeOK
<1>2. dlBytes < dlSize
    BY DEF DownloadInv, Downloading, DataIn
<1>3. /\ TransferSize(n) \in Nat /\ TransferSize(n) <= n /\ TransferSize(n) < U32
      /\ TransferSize(n) <= dlSize - dlBytes
    BY <1>1, <1>2, TransferRange
<1>4. dlBytes + TransferSize(n) \in 0 .. U64 - 1
    BY <1>1, <1>3
<1>5. (dlBytes + TransferSize(n)) % U64 = dlBytes + TransferSize(n)
    BY <1>1, <1>4, ModSmall
<1> QED BY <1>1, <1>3, <1>5 DEF DataIn, Left

(* Either every byte has been kept so far, or the rest of the download is   *)
(* a multiple of 2^32 and nothing more is ever kept.                        *)
LEMMA ChunkKeepsOrStarves ==
    ASSUME TypeOK, DownloadInv, NEW n \in 1 .. EpBuf, outReq = "queued", DataIn(n),
           dlBytes' < dlSize, dlSize' = dlSize
    PROVE  rx' >= dlBytes' /\ (rx' = dlBytes' \/ Starved')
<1> DEFINE T == TransferSize(n)
<1>1. /\ n \in Nat /\ T \in Nat /\ T <= n /\ T <= Left
      /\ dlBytes' = dlBytes + T /\ rx' = rx + n
    BY ChunkCounts
<1>2. /\ dlBytes \in Nat /\ dlSize \in Nat /\ rx \in Nat /\ U32 \in Nat \ {0}
      /\ dlBytes < dlSize
    <2>1. dlBytes < dlSize
        BY DEF DownloadInv, Downloading, DataIn
    <2> QED BY <2>1, Widths DEF TypeOK
<1>3. Left \in Nat /\ Left' = Left - T
    BY <1>1, <1>2 DEF Left
<1>4. rx >= dlBytes /\ (rx = dlBytes \/ (Left >= U32 /\ Left % U32 = 0))
    BY DEF DownloadInv, Downloading, DataIn, Starved
<1>5. T = IF n < Left % U32 THEN n ELSE Left % U32
    BY DEF TransferSize, Left
<1>6. Left % U32 \in 0 .. U32 - 1
    BY <1>3, U32Div, Zenon
<1>7. Left' > 0
    BY <1>1, <1>2, <1>3 DEF Left
<1>8. T = Left % U32 => Starved'
    <2> SUFFICES ASSUME T = Left % U32 PROVE Starved'
        OBVIOUS
    <2>0. Left \div U32 \in Nat /\ Left = U32 * (Left \div U32) + (Left % U32)
        BY <1>3, U32Div, Zenon
    <2>1. Left \div U32 \in Int /\ Left = U32 * (Left \div U32) + (Left % U32)
        BY <2>0
    <2>2. Left' = (Left \div U32) * U32
        BY <1>2, <1>3, <2>1
    <2> DEFINE q == Left \div U32
    <2>3. q \in Int /\ Left' = q * U32
        BY <2>1, <2>2
    <2> HIDE DEF q
    <2>4. (q * U32) % U32 = 0
        BY <1>2, <2>3, MulDiv
    <2>5. 0 * U32 < q * U32
        BY <1>2, <1>7, <2>3
    <2>6. 1 <= q
        BY <1>2, <2>3, <2>5, MulCancel
    <2>7. 1 * U32 <= q * U32
        BY <1>2, <2>3, <2>6, MulMono
    <2>8. Left' >= U32 /\ Left' % U32 = 0
        BY <1>2, <2>3, <2>4, <2>7
    <2> QED BY <2>8 DEF Starved
<1> HIDE DEF T
<1>9. CASE T = n
    BY <1>1, <1>2, <1>4, <1>5, <1>6, <1>8, <1>9
<1>10. CASE T # n
    BY <1>1, <1>2, <1>4, <1>5, <1>8, <1>10
<1> QED BY <1>9, <1>10

(* The last chunk of a download is never a starved one.                     *)
LEMMA DoneIsNotStarved ==
    ASSUME TypeOK, DownloadInv, NEW n \in 1 .. EpBuf, outReq = "queued", DataIn(n),
           dlBytes' >= dlSize
    PROVE  rx = dlBytes /\ dlBytes + TransferSize(n) = dlSize
<1>1. /\ TransferSize(n) \in Nat /\ TransferSize(n) < U32 /\ TransferSize(n) <= Left
      /\ dlBytes' = dlBytes + TransferSize(n)
    BY ChunkCounts
<1>2. dlBytes \in Nat /\ dlSize \in Nat /\ U32 \in Nat
    BY Widths DEF TypeOK
<1>3. TransferSize(n) = Left
    BY <1>1, <1>2 DEF Left
<1>4. ~Starved
    BY <1>1, <1>2, <1>3 DEF Starved, Left
<1>5. rx = dlBytes
    BY <1>4 DEF DownloadInv, Downloading, DataIn
<1> QED BY <1>1, <1>2, <1>3, <1>5 DEF Left

(* A chunk stored at a block boundary: exactly the cells from offset on     *)
(* receive the next bytes of the stream.                                    *)
LEMMA ChunkPlaced ==
    ASSUME TypeOK, NEW t \in Nat, t < U32, AlignLen(t) = t,
           offset % BlkSz = 0, offset + t <= Lba * BlkSz, t > 0,
           ChunkWritten(t, TRUE)
    PROVE  /\ burner \in Bus
           /\ \A c \in Cell : medium'[burner][c] =
                 IF c < offset \/ c >= offset + t THEN medium[burner][c]
                 ELSE rx + (c - offset)
<1>1. /\ burner # NoBus
      /\ medium' = [medium EXCEPT ![burner] = Programmed(@, offset, t, rx, BlkCount(t))]
    BY DEF ChunkWritten
<1>2. burner \in Bus /\ offset \in Nat /\ BlkSz \in Nat \ {0} /\ Lba \in Nat
    BY <1>1, Widths DEF TypeOK
<1>3. medium'[burner] = Programmed(medium[burner], offset, t, rx, BlkCount(t))
    BY <1>1, <1>2 DEF TypeOK
<1>4. BlkStart(offset) * BlkSz = offset
    <2>1. offset < Lba * BlkSz
        BY <1>2
    <2>2. BlkStart(offset) = offset \div BlkSz
        BY <1>2, <2>1, StartInCard
    <2>3. offset = (offset \div BlkSz) * BlkSz
        BY <1>2, Aligned1
    <2> QED BY <2>2, <2>3
<1>5. BlkCount(t) * BlkSz = t
    BY CountExact
<1>6. SUFFICES ASSUME NEW c \in Cell
      PROVE  medium'[burner][c] =
                 IF c < offset \/ c >= offset + t THEN medium[burner][c]
                 ELSE rx + (c - offset)
    BY <1>2
<1>7. c \in Int
    BY DEF Cell
<1>8. medium'[burner][c] =
        IF c - offset < 0 \/ c - offset >= t THEN medium[burner][c]
        ELSE IF c - offset < t THEN rx + (c - offset) ELSE Junk
    BY <1>3, <1>4, <1>5, <1>6 DEF Programmed
<1>9. CASE c < offset \/ c >= offset + t
    <2>1. c - offset < 0 \/ c - offset >= t
        BY <1>2, <1>7, <1>9
    <2>2. ~(c - offset >= 0 /\ c - offset < t)
        BY <1>2, <1>7, <1>9
    <2> QED BY <1>8, <1>9, <2>1, <2>2
<1>10. CASE ~(c < offset \/ c >= offset + t)
    <2>1. ~(c - offset < 0 \/ c - offset >= t) /\ c - offset >= 0 /\ c - offset < t
        BY <1>2, <1>7, <1>10
    <2> QED BY <1>8, <1>10, <2>1
<1> QED BY <1>9, <1>10

(* Block c lies in the window, block by block or group by group.            *)
InWindow(c, off, size, g) ==
    /\ (off \div BlkSz) \div g <= (c \div BlkSz) \div g
    /\ (c \div BlkSz) \div g <= ((off + size - 1) \div BlkSz) \div g

LEMMA DivOne == ASSUME NEW x \in Int PROVE x \div 1 = x
OBVIOUS

(* Writing a chunk of a download leaves the bytes outside its window alone. *)
LEMMA ChunkConfined ==
    ASSUME TypeOK, DownloadInv, Downloading, Confined,
           NEW t \in Nat, t <= Left, NEW ok, ChunkWritten(t, ok), UNCHANGED win
    PROVE  Confined'
<1>1. /\ BlkSz \in Nat \ {0} /\ Lba \in Nat /\ U64 \in Nat
      /\ winOff \in Nat /\ winSize \in Nat /\ dlBytes \in Nat /\ dlSize \in Nat
    BY Widths DEF TypeOK
<1>2. winBus' = winBus /\ winOff' = winOff /\ winSize' = winSize
    BY DEF win
<1>3. SUFFICES ASSUME winOff + winSize <= Lba * BlkSz,
                      NEW b \in Bus, NEW c \in Cell, medium'[b][c] # Old
               PROVE  /\ b = winBus
                      /\ InWindow(c, winOff, winSize, IF medium'[b][c] = Erased THEN EraseGrp ELSE 1)
    BY <1>2 DEF Confined, InWindow
<1>4. CASE medium'[b][c] = medium[b][c]
    BY <1>3, <1>4 DEF Confined, InWindow
<1>5. CASE medium'[b][c] # medium[b][c]
    <2>1. PICK k \in 0 .. BlkCount(t) :
            /\ burner # NoBus
            /\ medium' = [medium EXCEPT ![burner] = Programmed(@, offset, t, rx, k)]
        BY <1>3, <1>5 DEF ChunkWritten
    <2>2. burner \in Bus /\ medium[burner] \in [Cell -> Content]
        BY <2>1 DEF TypeOK
    <2>3. b = burner
        BY <1>3, <1>5, <2>1, <2>2 DEF TypeOK
    <2>4. Programmed(medium[burner], offset, t, rx, k)[c] # medium[burner][c]
        BY <1>3, <1>5, <2>1, <2>2, <2>3 DEF TypeOK
    <2>5. ~(c - BlkStart(offset) * BlkSz < 0 \/ c - BlkStart(offset) * BlkSz >= k * BlkSz)
        BY <1>3, <2>4 DEF Programmed
    <2>5a. medium'[b][c] = Programmed(medium[burner], offset, t, rx, k)[c]
        BY <2>1, <2>2, <2>3 DEF TypeOK
    <2>6. NoWrap
        <3>1. (Lba + 1) * BlkSz <= U64
            BY MmcAssumption
        <3> QED BY <1>1, <1>3, <3>1 DEF NoWrap
    <2>7. offset = winOff + dlBytes /\ dlSize = winSize /\ winBus = burner
        BY <2>6 DEF DownloadInv
    <2>8. offset \in Nat /\ offset + t <= winOff + winSize
        BY <1>1, <2>7 DEF Left
    <2>9. offset + t <= Lba * BlkSz
        BY <1>1, <1>3, <2>8
    <2>10. c \in Nat /\ BlkStart(offset) \in Nat /\ k \in Nat
        <3>1. t <= Lba * BlkSz
            BY <1>1, <2>8, <2>9
        <3>2. BlkCount(t) \in Nat
            BY <3>1, CountBound
        <3> QED BY <2>8, <3>2, BlkStartType, Widths DEF Cell
    <2>11. c - BlkStart(offset) * BlkSz >= 0 /\ c - BlkStart(offset) * BlkSz < k * BlkSz
        BY <2>5, <2>10, <1>1
    <2>12. /\ offset \div BlkSz <= c \div BlkSz
           /\ c \div BlkSz <= (offset + t - 1) \div BlkSz
        BY <2>8, <2>9, <2>10, <2>11, BlocksWithin
    <2>13. winOff \div BlkSz <= offset \div BlkSz
        BY <1>1, <2>7, <2>8, DivMono
    <2>14. (offset + t - 1) \div BlkSz <= (winOff + winSize - 1) \div BlkSz
        <3>1. offset + t - 1 \in Int /\ winOff + winSize - 1 \in Int
            BY <1>1, <2>8
        <3>2. offset + t - 1 <= winOff + winSize - 1
            BY <1>1, <2>8
        <3> QED BY <1>1, <3>1, <3>2, DivMono
    <2>15. /\ winOff \div BlkSz \in Int /\ offset \div BlkSz \in Int
           /\ c \div BlkSz \in Int
        BY <1>1, <2>8, <2>10, BlkDiv
    <2>16. (offset + t - 1) \div BlkSz \in Int /\ (winOff + winSize - 1) \div BlkSz \in Int
        <3>1. offset + t - 1 \in Int /\ winOff + winSize - 1 \in Int
            BY <1>1, <2>8
        <3>2. \A x \in Int : x \div BlkSz \in Int
            BY <1>1, DivMod
        <3> QED BY <3>1, <3>2
    <2>17. medium'[b][c] # Erased
        <3> DEFINE i == c - BlkStart(offset) * BlkSz
        <3>1. i \in Nat /\ rx \in Nat
            BY <1>1, <2>10, <2>11, Widths DEF TypeOK
        <3>2. medium'[b][c] = IF i < t THEN rx + i ELSE Junk
            BY <1>3, <2>5, <2>5a DEF Programmed
        <3> HIDE DEF i
        <3> QED BY <3>1, <3>2 DEF Junk, Erased
    <2>18. /\ winOff \div BlkSz <= c \div BlkSz
           /\ c \div BlkSz <= (winOff + winSize - 1) \div BlkSz
        BY <2>12, <2>13, <2>14, <2>15, <2>16
    <2>19. InWindow(c, winOff, winSize, 1)
        BY <2>15, <2>16, <2>18, DivOne DEF InWindow
    <2> QED BY <2>3, <2>7, <2>17, <2>19
<1> QED BY <1>4, <1>5

(* So does an ERASE.                                                        *)
LEMMA EraseConfined ==
    ASSUME TypeOK, burner # NoBus, NEW off \in Nat, NEW size \in Nat,
           NEW k \in 0 .. BlkCount(size),
           medium' = [b \in Bus |->
                        IF b = burner THEN Wiped([c \in Cell |-> Old], off, k)
                        ELSE [c \in Cell |-> Old]],
           winBus' = burner, winOff' = off, winSize' = size
    PROVE  Confined'
<1>1. SUFFICES ASSUME off + size <= Lba * BlkSz,
                      NEW b \in Bus, NEW c \in Cell, medium'[b][c] # Old
               PROVE  /\ b = burner
                      /\ InWindow(c, off, size, IF medium'[b][c] = Erased THEN EraseGrp ELSE 1)
    BY DEF Confined, InWindow
<1>2. b = burner
    BY <1>1
<1>3. Wiped([d \in Cell |-> Old], off, k)[c] # Old
    BY <1>1, <1>2
<1>4. /\ k > 0
      /\ BlkStart(off) \div EraseGrp <= (c \div BlkSz) \div EraseGrp
      /\ (c \div BlkSz) \div EraseGrp <= (BlkStart(off) + k - 1) \div EraseGrp
    BY <1>1, <1>3 DEF Wiped
<1>5. medium'[b][c] = Erased
    BY <1>1, <1>2, <1>4 DEF Wiped
<1>6. /\ c \in Nat /\ BlkSz \in Nat \ {0} /\ EraseGrp \in Nat \ {0} /\ Lba \in Nat
      /\ BlkStart(off) \in Nat
    BY BlkStartType, Widths DEF Cell
<1>7. k \in Nat \ {0}
    <2>1. size <= Lba * BlkSz
        BY <1>1, <1>6
    <2>2. BlkCount(size) \in Nat
        BY <2>1, CountBound
    <2> QED BY <1>4, <2>2
<1> DEFINE s == BlkStart(off)
<1>8. off \div BlkSz <= s /\ off \div BlkSz \in Int
    <2>1. s * BlkSz - s * BlkSz >= 0 /\ s * BlkSz - s * BlkSz < k * BlkSz /\ s * BlkSz \in Nat
        BY <1>6, <1>7
    <2>2. off \div BlkSz <= (s * BlkSz) \div BlkSz
        BY <1>1, <2>1, BlocksWithin
    <2>3. (s * BlkSz) \div BlkSz = s
        BY <1>6, MulDiv
    <2>4. off \div BlkSz \in Int
        BY <1>6, DivMod
    <2> QED BY <2>2, <2>3, <2>4
<1>9. s + k - 1 <= (off + size - 1) \div BlkSz
    <2> DEFINE l == (s + k - 1) * BlkSz
    <2>1. l - s * BlkSz >= 0 /\ l - s * BlkSz < k * BlkSz /\ l \in Nat
        BY <1>6, <1>7
    <2>2. l \div BlkSz <= (off + size - 1) \div BlkSz
        BY <1>1, <2>1, BlocksWithin
    <2>3. l \div BlkSz = s + k - 1
        <3>1. s + k - 1 \in Int
            BY <1>6, <1>7
        <3> HIDE DEF s
        <3> QED BY <1>6, <3>1, MulDiv
    <2> QED BY <2>2, <2>3
<1>10. (off \div BlkSz) \div EraseGrp <= s \div EraseGrp
    BY <1>6, <1>8, DivMono
<1>11. (s + k - 1) \div EraseGrp <= ((off + size - 1) \div BlkSz) \div EraseGrp
    <2>1. (off + size - 1) \div BlkSz \in Int /\ s + k - 1 \in Int
        BY <1>6, <1>7, DivMod
    <2> QED BY <1>6, <1>9, <2>1, DivMono
<1>12. \A x \in Int : x \div EraseGrp \in Int /\ x \div BlkSz \in Int
    BY <1>6, DivMod
<1>13. /\ (off \div BlkSz) \div EraseGrp \in Int /\ s \div EraseGrp \in Int
       /\ (c \div BlkSz) \div EraseGrp \in Int
    BY <1>6, <1>8, <1>12
<1>14. (s + k - 1) \div EraseGrp \in Int /\ ((off + size - 1) \div BlkSz) \div EraseGrp \in Int
    <2>1. off + size - 1 \in Int /\ s + k - 1 \in Int
        BY <1>6, <1>7
    <2> QED BY <1>12, <2>1
<1>15. InWindow(c, off, size, EraseGrp)
    BY <1>4, <1>10, <1>11, <1>13, <1>14 DEF InWindow
<1> QED BY <1>2, <1>5, <1>15

---------------------------------------------------------------------------
(* The inductive step, one lemma per kind of action.                        *)
LEMMA ReplyInv ==
    ASSUME TypeOK, IndInv, NEW r \in Responses \ {"WRITE DONE"}, Reply(r),
           usb = "configured", outReq = "queued", outFn = "rx_command",
           valid' => told' = burner'
    PROVE  IndInv'
<1>1. /\ usb' = "configured" /\ outReq' = "queued" /\ outFn' = "rx_command"
      /\ inReq' = "queued" /\ rsp' = r /\ outLen' = EpBuf
    BY DEF Reply, Answer, Requeue, IndInv, Lifecycle
<1>2. Lifecycle'
    BY <1>1 DEF Lifecycle
<1>3. DownloadInv' /\ StoredInv' /\ DoneMeansStored'
    BY <1>1 DEF DownloadInv, StoredInv, Downloading, DoneMeansStored
<1>4. Confined'
    BY DEF Confined, Reply, Untouched
<1>5. InfoInv'
    BY <1>1 DEF InfoInv, InformedWindow, Receiving
<1> QED BY <1>2, <1>3, <1>4, <1>5 DEF IndInv

LEMMA WriteLbaInv ==
    ASSUME TypeOK, IndInv, NEW off \in Offsets, NEW size \in Sizes, cb_write_lba(off, size)
    PROVE  IndInv'
<1>1. /\ usb = "configured" /\ outReq = "queued" /\ outFn = "rx_command" /\ outLen = EpBuf
    BY DEF cb_write_lba, Served, CommandIn, Completed, IndInv, Lifecycle
<1>2. /\ off \in Nat /\ size \in Nat /\ off < U64 /\ size < U64 /\ U64 \in Nat \ {0}
    BY KburnAssumption, Widths
<1>3. usb' = "configured" /\ UNCHANGED <<cards, burner, valid, told>>
    BY <1>1 DEF cb_write_lba, dev
<1>4. PICK v \in BOOLEAN, fits \in BOOLEAN :
        /\ InfoSeen(v, fits, (off + size) % U64)
        /\ IF v /\ size # 0 /\ fits
           THEN /\ offset' = off /\ dlSize' = size /\ dlBytes' = 0
                /\ Answer("START DL")
                /\ Requeue("rx_write_lba", rx_bytes_expected(size, 0))
                /\ winBus' = burner /\ winOff' = off /\ winSize' = size /\ rx' = 0
                /\ medium' = [b \in Bus |-> [c \in Cell |-> Old]]
           ELSE /\ Answer(CASE ~v -> "MEDIUM INFO INVALID"
                            [] v /\ size = 0 -> "DATA SIZE INVALID"
                            [] OTHER -> "DATA SIZE EXCEED")
                /\ Requeue("rx_command", outLen)
                /\ Untouched /\ UNCHANGED dl
    BY DEF cb_write_lba
<1>6. Confined'
    <2>1. \A b \in Bus, c \in Cell : medium'[b][c] = Old
        BY <1>4 DEF Untouched
    <2> QED BY <2>1 DEF Confined
<1>7. CASE v /\ size # 0 /\ fits
    <2>1. /\ offset' = off /\ dlSize' = size /\ dlBytes' = 0 /\ rx' = 0
          /\ inReq' = "queued" /\ rsp' = "START DL"
          /\ outReq' = "queued" /\ outFn' = "rx_write_lba"
          /\ winBus' = burner /\ winOff' = off /\ winSize' = size
        BY <1>4, <1>7 DEF Answer, Requeue
    <2>0. outLen' = rx_bytes_expected(size, 0) /\ size # 0
        BY <1>4, <1>7 DEF Answer, Requeue
    <2>2. Lifecycle'
        BY <1>3, <2>1 DEF Lifecycle
    <2>3. DoneMeansStored'
        BY <2>1 DEF DoneMeansStored
    <2>4. StoredInv'
        <3>1. 0 .. (0 - 1) = {}
            OBVIOUS
        <3>2. 0 .. (dlBytes' - 1) = {}
            BY <2>1, <3>1, Zenon
        <3> QED BY <3>2 DEF StoredInv
    <2>7. off + size < U64 /\ burner # NoBus => off + size <= Capacity(cards, burner)
        <3> SUFFICES ASSUME off + size < U64, burner # NoBus
                     PROVE  off + size <= Capacity(cards, burner)
            OBVIOUS
        <3>1. (off + size) % U64 = off + size
            BY <1>2, ModSmall
        <3>2. fits <=> (off + size) % U64 <= Capacity(cards, burner)
            BY <1>4 DEF InfoSeen
        <3> QED BY <1>7, <3>1, <3>2
    <2>5. NoWrap' /\ burner' # NoBus => winOff' + winSize' <= Lba * BlkSz
        <3> SUFFICES ASSUME off + size < U64, burner # NoBus
                     PROVE  off + size <= Lba * BlkSz
            BY <1>3, <2>1 DEF NoWrap
        <3>1. off + size <= Capacity(cards, burner)
            BY <2>7
        <3>3. Capacity(cards, burner) = Lba * BlkSz \/ Capacity(cards, burner) = 0 * BlkSz
            BY DEF Capacity, LbaOf
        <3>4. Lba * BlkSz \in Nat /\ 0 * BlkSz = 0
            BY Widths
        <3> QED BY <1>2, <3>1, <3>3, <3>4
    <2>8. InfoInv'
        <3>1. valid /\ burner # NoBus => told = burner
            BY DEF IndInv, InfoInv
        <3>2. burner # NoBus => valid
            BY <1>4, <1>7 DEF InfoSeen
        <3>3. Capacity(cards', burner) = Capacity(cards, burner)
            BY <1>3
        <3>4. winOff' + winSize' = off + size
            BY <2>1
        <3> HIDE DEF Capacity
        <3> QED BY <1>3, <2>1, <2>7, <3>1, <3>2, <3>3, <3>4 DEF InfoInv, InformedWindow, IndInv
    <2>6. DownloadInv'
        <3>1. dlBytes' < dlSize' /\ rx' >= dlBytes'
            <4>1. 0 < size /\ 0 >= 0
                BY <1>2, <2>0 DEF rx_bytes_expected
            <4>2. dlBytes' = 0 /\ rx' = 0 /\ dlSize' = size
                BY <2>1
            <4> QED BY <4>1, <4>2, Zenon
        <3>2. outLen' = rx_bytes_expected(dlSize', dlBytes')
            BY <2>0, <2>1
        <3>3. NoWrap' => offset' = winOff' + dlBytes'
            <4>1. offset' = off /\ winOff' = off
                BY <2>1
            <4>2. dlBytes' = 0
                BY <2>1
            <4>3. off + 0 = off
                BY <1>2
            <4> QED BY <4>1, <4>2, <4>3
        <3>4. Aligned' => offset' % BlkSz = 0
            BY <2>1 DEF Aligned
        <3>5. burner' = NoBus => dlBytes' = 0
            BY <2>1
        <3>6. /\ dlSize' = winSize' /\ winBus' = burner'
              /\ rx' = dlBytes' /\ rsp' # "WRITE DONE"
            BY <1>3, <2>1
        <3> QED BY <3>1, <3>2, <3>3, <3>4, <3>5, <3>6, <2>5 DEF DownloadInv, rx_bytes_expected
    <2> QED BY <1>6, <2>2, <2>3, <2>4, <2>6, <2>8 DEF IndInv
<1>8. CASE ~(v /\ size # 0 /\ fits)
    <2>1. /\ outReq' = "queued" /\ outFn' = "rx_command" /\ outLen' = EpBuf
          /\ inReq' = "queued"
        BY <1>1, <1>4, <1>8 DEF Answer, Requeue
    <2>2. rsp' # "WRITE DONE"
        <3>1. Answer(CASE ~v -> "MEDIUM INFO INVALID"
                       [] v /\ size = 0 -> "DATA SIZE INVALID"
                       [] OTHER -> "DATA SIZE EXCEED")
            BY <1>4, <1>8
        <3>2. CASE ~v
            BY <3>1, <3>2 DEF Answer
        <3>3. CASE v /\ size = 0
            BY <3>1, <3>3 DEF Answer
        <3>4. CASE v /\ size # 0
            BY <3>1, <3>4 DEF Answer
        <3> QED BY <3>2, <3>3, <3>4
    <2>3. Lifecycle'
        BY <1>3, <2>1 DEF Lifecycle
    <2>4. DownloadInv' /\ StoredInv' /\ DoneMeansStored'
        BY <2>1, <2>2 DEF DownloadInv, StoredInv, Downloading, DoneMeansStored
    <2>5. InfoInv'
        BY <1>3, <2>1 DEF InfoInv, InformedWindow, Receiving, IndInv
    <2> QED BY <1>6, <2>3, <2>4, <2>5 DEF IndInv
<1> QED BY <1>7, <1>8

LEMMA EraseLbaInv ==
    ASSUME TypeOK, IndInv, NEW off \in Offsets, NEW size \in Sizes, cb_erase_lba(off, size)
    PROVE  IndInv'
<1>1. /\ usb = "configured" /\ outReq = "queued" /\ outFn = "rx_command" /\ outLen = EpBuf
    BY DEF cb_erase_lba, Served, CommandIn, Completed, IndInv, Lifecycle
<1>2. /\ usb' = "configured" /\ UNCHANGED <<cards, burner, valid, told>>
      /\ outReq' = "queued" /\ outFn' = "rx_command" /\ outLen' = EpBuf
    BY <1>1 DEF cb_erase_lba, dev, Requeue
<1>3. inReq' = "queued" /\ rsp' # "WRITE DONE"
    BY DEF cb_erase_lba, Answer
<1>4. Confined'
    <2>1. CASE Untouched
        BY <2>1 DEF Untouched, Confined
    <2>2. CASE ~Untouched
        <3>1. PICK k \in 0 .. BlkCount(size) :
                medium' = [b \in Bus |->
                        IF b = burner THEN Wiped([c \in Cell |-> Old], off, k)
                        ELSE [c \in Cell |-> Old]]
            BY <2>2 DEF cb_erase_lba
        <3>2. burner # NoBus /\ winBus' = burner /\ winOff' = off /\ winSize' = size
            BY <2>2 DEF cb_erase_lba
        <3>3. off \in Nat /\ size \in Nat
            BY KburnAssumption, Widths
        <3> QED BY <3>1, <3>2, <3>3, EraseConfined
    <2> QED BY <2>1, <2>2
<1>5. Lifecycle' /\ InfoInv'
    BY <1>2, <1>3 DEF Lifecycle, InfoInv, InformedWindow, Receiving, IndInv
<1>6. DownloadInv' /\ StoredInv' /\ DoneMeansStored'
    BY <1>2, <1>3 DEF DownloadInv, StoredInv, Downloading, DoneMeansStored
<1> QED BY <1>4, <1>5, <1>6 DEF IndInv

(* What every completion of a download's request has in common.             *)
LEMMA DataCommon ==
    ASSUME TypeOK, IndInv, NEW n \in 1 .. EpBuf, DataIn(n), NEW ok,
           ChunkWritten(TransferSize(n), ok)
    PROVE  /\ Downloading /\ outReq = "queued" /\ usb = "configured"
           /\ UNCHANGED <<cards, usb, winBus, winOff, winSize, burner, valid, told>>
           /\ Confined' /\ InfoInv'
<1>1. Downloading /\ outReq = "queued" /\ usb = "configured"
    BY DEF DataIn, Completed, Downloading
<1>2. UNCHANGED <<cards, usb, winBus, winOff, winSize, burner, valid, told>> /\ UNCHANGED win
    BY DEF DataIn, win, dev
<1>3. TransferSize(n) \in Nat /\ TransferSize(n) <= Left
    BY <1>1, ChunkCounts DEF IndInv
<1>4. Confined'
    BY <1>1, <1>2, <1>3, ChunkConfined DEF IndInv
<1>5. InfoInv'
    BY <1>1, <1>2 DEF InfoInv, InformedWindow, Receiving, Downloading, IndInv, Capacity, LbaOf
<1> QED BY <1>1, <1>2, <1>4, <1>5

LEMMA WriteFailedInv ==
    ASSUME TypeOK, IndInv, NEW n \in 1 .. EpBuf, WriteFailed(n)
    PROVE  IndInv'
<1>1. PICK ok \in BOOLEAN : ChunkWritten(TransferSize(n), ok)
    BY DEF WriteFailed
<1>2. DataIn(n)
    BY DEF WriteFailed
<1>3. /\ Downloading /\ outReq = "queued" /\ usb = "configured"
      /\ UNCHANGED <<cards, usb, winBus, winOff, winSize, burner, valid, told>>
      /\ Confined' /\ InfoInv'
    BY <1>1, <1>2, DataCommon
<1>4. dlSize # 0
    <2>1. dlBytes < dlSize
        BY <1>3 DEF IndInv, DownloadInv
    <2>2. dlBytes \in Nat /\ dlSize \in Nat
        BY Widths DEF TypeOK
    <2> QED BY <2>1, <2>2
<1>5. /\ outReq' = "idle" /\ outFn' = "rx_write_lba" /\ dlSize' = dlSize
      /\ inReq' = "queued" /\ rsp' = "WRITE ERROR"
    BY <1>3 DEF WriteFailed, Answer, Downloading
<1>6. Lifecycle'
    BY <1>3, <1>4, <1>5 DEF Lifecycle
<1>7. DownloadInv' /\ StoredInv' /\ DoneMeansStored'
    BY <1>5 DEF DownloadInv, StoredInv, Downloading, DoneMeansStored
<1> QED BY <1>3, <1>6, <1>7 DEF IndInv

(* The stream stays in place: after a chunk the bytes before the new        *)
(* dl_bytes hold the beginning of the stream.                               *)
LEMMA ChunkExtends ==
    ASSUME TypeOK, IndInv, NEW n \in 1 .. EpBuf, ChunkStored(n),
           NoWrap, Aligned, rx = dlBytes
    PROVE  /\ burner # NoBus => \A i \in 0 .. dlBytes' - 1 :
                medium'[winBus][winOff + i] = i
           /\ offset' = winOff + dlBytes' /\ offset' % BlkSz = 0
<1> DEFINE T == TransferSize(n)
<1>1. DataIn(n) /\ ChunkWritten(T, TRUE) /\ AlignLen(T) = T /\ offset' = (offset + T) % U64
    BY DEF ChunkStored
<1>2. Downloading /\ outReq = "queued"
    BY <1>1, DataCommon
<1>3. T \in Nat /\ T < U32 /\ T <= Left /\ dlBytes' = dlBytes + T
    BY <1>1, <1>2, ChunkCounts DEF IndInv
<1> HIDE DEF T
<1>4. /\ dlSize = winSize /\ winBus = burner
      /\ offset = winOff + dlBytes /\ offset % BlkSz = 0
      /\ burner # NoBus => winOff + winSize <= Lba * BlkSz
    BY <1>2 DEF IndInv, DownloadInv
<1>5. /\ dlBytes \in Nat /\ dlSize \in Nat /\ winOff \in Nat /\ offset \in Nat
      /\ U64 \in Nat \ {0} /\ BlkSz \in Nat \ {0} /\ Lba \in Nat
    BY Widths DEF TypeOK
<1>6. offset + T <= winOff + winSize /\ offset + T \in 0 .. U64 - 1
    BY <1>3, <1>4, <1>5 DEF NoWrap, Left
<1>7. offset' = offset + T
    BY <1>1, <1>5, <1>6, ModSmall
<1>8. offset' = winOff + dlBytes'
    BY <1>3, <1>4, <1>5, <1>7
<1>9. offset' % BlkSz = 0
    <2>1. BlkCount(T) \in Nat /\ T = BlkCount(T) * BlkSz
        BY <1>1, <1>3, CountExact
    <2>2. offset \div BlkSz \in Nat /\ offset = (offset \div BlkSz) * BlkSz
        BY <1>4, <1>5, Aligned1
    <2> DEFINE p == offset \div BlkSz
    <2> DEFINE q == BlkCount(T)
    <2>3. p \in Nat /\ q \in Nat /\ offset = p * BlkSz /\ T = q * BlkSz
        BY <2>1, <2>2
    <2> HIDE DEF p, q
    <2>4. offset + T = (p + q) * BlkSz
        BY <1>5, <2>3
    <2>5. p + q \in Int
        BY <2>3
    <2>6. ((p + q) * BlkSz) % BlkSz = 0
        BY <1>5, <2>5, MulDiv
    <2> QED BY <1>7, <2>4, <2>6
<1>10. ASSUME burner # NoBus, NEW i \in 0 .. dlBytes' - 1
       PROVE  medium'[winBus][winOff + i] = i
    <2>1. winOff + winSize <= Lba * BlkSz
        BY <1>4, <1>10
    <2>2. i \in Nat /\ i < dlBytes + T /\ winOff + i \in Cell
        BY <1>3, <1>4, <1>5, <1>6, <1>10, <2>1 DEF Cell
    <2>3. i < dlBytes => medium[winBus][winOff + i] = i
        <3>1. i < dlBytes => i \in 0 .. dlBytes - 1
            BY <1>5, <2>2
        <3> QED BY <3>1, <1>2, <1>10 DEF IndInv, StoredInv
    <2>4. CASE T > 0
        <3>1. offset + T <= Lba * BlkSz
            <4>1. winSize \in Nat /\ Lba * BlkSz \in Nat
                BY <1>4, <1>5
            <4> HIDE DEF Left
            <4> QED BY <4>1, <1>3, <1>5, <1>6, <2>1
        <3>2. /\ burner \in Bus
              /\ medium'[burner][winOff + i] =
                   IF winOff + i < offset \/ winOff + i >= offset + T
                   THEN medium[burner][winOff + i]
                   ELSE rx + (winOff + i - offset)
            <4>1. /\ burner \in Bus
                  /\ \A c \in Cell : medium'[burner][c] =
                        IF c < offset \/ c >= offset + T THEN medium[burner][c]
                        ELSE rx + (c - offset)
                BY <1>1, <1>3, <1>4, <2>4, <3>1, ChunkPlaced
            <4>2. rx \in Nat /\ winOff + i \in Cell
                BY <2>2, Widths DEF TypeOK
            <4>3. rx + ((winOff + i) - offset) = rx + (winOff + i - offset)
                BY <1>5, <2>2, <4>2
            <4>4. medium'[burner][winOff + i] =
                     IF (winOff + i) < offset \/ (winOff + i) >= offset + T
                     THEN medium[burner][winOff + i]
                     ELSE rx + ((winOff + i) - offset)
                BY <4>1, <4>2, Zenon
            <4> QED BY <4>1, <4>3, <4>4, Zenon
        <3>3. CASE i < dlBytes
            <4>1. winOff + i < offset
                BY <1>4, <1>5, <2>2, <3>3
            <4> QED BY <1>4, <2>3, <3>2, <3>3, <4>1
        <3>4. CASE i >= dlBytes
            <4>1. ~(winOff + i < offset \/ winOff + i >= offset + T)
                BY <1>3, <1>4, <1>5, <2>2, <3>4
            <4>2. medium'[burner][winOff + i] = rx + (winOff + i - offset)
                BY <3>2, <4>1
            <4>3. rx + (winOff + i - offset) = i
                BY <1>4, <1>5, <2>2
            <4> QED BY <1>4, <4>2, <4>3
        <3> QED BY <1>5, <2>2, <3>3, <3>4
    <2>5. CASE T = 0
        <3>1. i < dlBytes
            BY <1>5, <2>2, <2>5
        <3>2. medium' = medium
            <4>1. PICK k \in 0 .. BlkCount(0) :
                    medium' = [medium EXCEPT ![burner] = Programmed(@, offset, 0, rx, k)]
                BY <1>1, <1>10, <2>5 DEF ChunkWritten
            <4>2. BlkCount(0) * BlkSz = 0 /\ BlkCount(0) \in Nat
                BY <1>1, <1>3, <2>5, CountExact
            <4>3. k = 0
                <5>1. BlkCount(0) = 0
                    BY <1>5, <4>2
                <5> QED BY <5>1
            <4>4. burner \in Bus /\ medium[burner] \in [Cell -> Content]
                BY <1>10 DEF TypeOK
            <4>5. BlkStart(offset) \in Nat
                BY <1>5, BlkStartType, Widths
            <4>6. Programmed(medium[burner], offset, 0, rx, 0) = medium[burner]
                <5>1. ASSUME NEW c \in Cell
                      PROVE  Programmed(medium[burner], offset, 0, rx, 0)[c] = medium[burner][c]
                    <6>1. c \in Nat /\ 0 * BlkSz = 0
                        BY <1>5 DEF Cell
                    <6>2. c - BlkStart(offset) * BlkSz < 0 \/ c - BlkStart(offset) * BlkSz >= 0 * BlkSz
                        BY <1>5, <4>5, <6>1
                    <6> QED BY <6>2 DEF Programmed
                <5> QED BY <5>1, <4>4 DEF Programmed
            <4> QED BY <4>1, <4>3, <4>4, <4>6 DEF TypeOK
        <3> QED BY <2>3, <3>1, <3>2
    <2> QED BY <1>3, <2>4, <2>5
<1> QED BY <1>8, <1>9, <1>10

LEMMA GoesOnInv ==
    ASSUME TypeOK, IndInv, NEW n \in 1 .. EpBuf, DownloadGoesOn(n)
    PROVE  IndInv'
<1> DEFINE T == TransferSize(n)
<1>1. /\ ChunkStored(n) /\ DataIn(n) /\ ChunkWritten(T, TRUE)
      /\ offset' = (offset + T) % U64
    BY DEF DownloadGoesOn, ChunkStored
<1>2. /\ Downloading /\ outReq = "queued" /\ usb = "configured"
      /\ UNCHANGED <<cards, usb, winBus, winOff, winSize, burner, valid, told>>
      /\ Confined' /\ InfoInv'
    BY <1>1, DataCommon
<1>3. /\ dlBytes' < dlSize /\ dlSize' = dlSize /\ inReq' = inReq /\ rsp' = rsp
      /\ outReq' = "queued" /\ outFn' = "rx_write_lba"
    BY DEF DownloadGoesOn, Requeue
<1>4. outLen' = rx_bytes_expected(dlSize', dlBytes')
    BY <1>3 DEF DownloadGoesOn, Requeue
<1>5. DownloadInv
    BY DEF IndInv
<1>6. n \in Nat /\ T \in Nat /\ T <= n /\ T <= Left /\ dlBytes' = dlBytes + T /\ rx' = rx + n
    BY <1>1, <1>2, <1>5, ChunkCounts
<1>7. rx' >= dlBytes' /\ (rx' = dlBytes' \/ Starved')
    BY <1>1, <1>2, <1>3, <1>5, ChunkKeepsOrStarves
<1> HIDE DEF T
<1>8. /\ dlSize = winSize /\ winBus = burner /\ rsp # "WRITE DONE"
      /\ NoWrap => offset = winOff + dlBytes
      /\ NoWrap /\ burner # NoBus => winOff + winSize <= Lba * BlkSz
      /\ rx >= dlBytes
    BY <1>2, <1>5 DEF DownloadInv
<1>9. burner # NoBus
    BY <1>1 DEF ChunkWritten
<1>10. (NoWrap' <=> NoWrap) /\ (Aligned' <=> Aligned)
    BY <1>2 DEF NoWrap, Aligned
<1>11. /\ dlBytes \in Nat /\ dlSize \in Nat /\ winOff \in Nat /\ winSize \in Nat
       /\ rx \in Nat /\ U64 \in Nat \ {0} /\ BlkSz \in Nat \ {0}
    BY Widths DEF TypeOK
<1>6a. /\ T \in Nat /\ T <= n /\ T <= Left /\ dlBytes' = dlBytes + T
      /\ rx' = rx + n /\ dlSize = winSize /\ rx >= dlBytes
    BY <1>6, <1>8, Zenon
<1>12. NoWrap => offset' = winOff + dlBytes'
    <2> SUFFICES ASSUME NoWrap PROVE offset' = winOff + dlBytes'
        OBVIOUS
    <2>1. offset = winOff + dlBytes /\ winOff + winSize < U64
        BY <1>8 DEF NoWrap
    <2>0. T \in Nat /\ T <= winSize - dlBytes
        BY <1>6a DEF Left
    <2>2. offset + T \in 0 .. U64 - 1
        BY <2>0, <1>11, <2>1
    <2>3. (offset + T) % U64 = offset + T
        BY <1>11, <2>2, ModSmall
    <2> QED BY <1>1, <1>6, <1>11, <2>1, <2>3
<1>13. NoWrap /\ Aligned => offset' % BlkSz = 0
    <2> SUFFICES ASSUME NoWrap, Aligned PROVE offset' % BlkSz = 0
        OBVIOUS
    <2>1. CASE rx = dlBytes
        BY <1>1, <2>1, ChunkExtends
    <2>2. CASE rx # dlBytes
        <3>1. Starved
            BY <1>2, <1>5, <2>2 DEF DownloadInv
        <3>2. T = 0
            BY <3>1, <1>6 DEF T, TransferSize, Starved, Left
        <3>3. offset' = offset
            <4>1. offset = winOff + dlBytes /\ offset' = winOff + dlBytes'
                BY <1>8, <1>12, Zenon
            <4>2. dlBytes' = dlBytes + T /\ T = 0
                BY <1>6a, <3>2, Zenon
            <4> QED BY <1>11, <4>1, <4>2
        <3> QED BY <1>2, <1>5, <3>3 DEF DownloadInv
    <2> QED BY <2>1, <2>2
<1>14. DownloadInv'
    BY <1>2, <1>3, <1>4, <1>7, <1>8, <1>9, <1>10, <1>12, <1>13 DEF DownloadInv
<1>15. StoredInv'
    <2> SUFFICES ASSUME NoWrap, Aligned, rx' = dlBytes'
                 PROVE  \A i \in 0 .. dlBytes' - 1 : medium'[winBus][winOff + i] = i
        BY <1>2, <1>10 DEF StoredInv
    <2>0. n \in Nat /\ rx' = dlBytes'
        OBVIOUS
    <2>1. rx = dlBytes
        <3>1. dlBytes' = dlBytes + T /\ rx' = rx + n /\ T <= n /\ T \in Nat /\ rx >= dlBytes
            BY <1>6a, Zenon
        <3> QED BY <1>11, <2>0, <3>1
    <2> QED BY <1>1, <1>9, <2>1, ChunkExtends
<1>16. Lifecycle'
    BY <1>2, <1>3 DEF Lifecycle, IndInv
<1>17. DoneMeansStored'
    BY <1>3, <1>8 DEF DoneMeansStored
<1> QED BY <1>2, <1>14, <1>15, <1>16, <1>17 DEF IndInv

LEMMA DoneInv ==
    ASSUME TypeOK, IndInv, NEW n \in 1 .. EpBuf, DownloadDone(n)
    PROVE  IndInv'
<1>1. ChunkStored(n) /\ DataIn(n) /\ ChunkWritten(TransferSize(n), TRUE)
    BY DEF DownloadDone, ChunkStored
<1>2. /\ Downloading /\ outReq = "queued" /\ usb = "configured"
      /\ UNCHANGED <<cards, usb, winBus, winOff, winSize, burner, valid, told>>
      /\ Confined' /\ InfoInv'
    BY <1>1, DataCommon
<1>3. /\ dlBytes' >= dlSize
      /\ outReq' = "queued" /\ outFn' = "rx_command" /\ outLen' = EpBuf
      /\ inReq' = "queued" /\ rsp' = "WRITE DONE"
    BY DEF DownloadDone, Requeue, Answer
<1>4. DownloadInv
    BY DEF IndInv
<1>5. rx = dlBytes /\ dlBytes' = dlSize /\ dlSize = winSize /\ burner # NoBus
    <2>1. rx = dlBytes /\ dlBytes + TransferSize(n) = dlSize
        BY <1>1, <1>2, <1>3, <1>4, DoneIsNotStarved
    <2>2. dlBytes' = dlBytes + TransferSize(n)
        BY <1>1, <1>2, <1>4, ChunkCounts
    <2> QED BY <1>1, <1>2, <1>4, <2>1, <2>2 DEF DownloadInv, ChunkWritten
<1>6. DoneMeansStored'
    <2> SUFFICES ASSUME winOff % BlkSz = 0, winOff + winSize < U64
                 PROVE  \A i \in 0 .. winSize - 1 : medium'[winBus][winOff + i] = i
        BY <1>2 DEF DoneMeansStored
    <2>1. \A i \in 0 .. dlBytes' - 1 : medium'[winBus][winOff + i] = i
        BY <1>1, <1>5, ChunkExtends DEF NoWrap, Aligned
    <2> QED BY <1>5, <2>1
<1>7. DownloadInv' /\ StoredInv'
    BY <1>3 DEF DownloadInv, StoredInv, Downloading
<1>8. Lifecycle'
    BY <1>2, <1>3 DEF Lifecycle
<1> QED BY <1>2, <1>6, <1>7, <1>8 DEF IndInv

(* Events of the link change no byte of a card and end any download.        *)
LEMMA LinkInv ==
    ASSUME TypeOK, IndInv, Link
    PROVE  IndInv'
<1>1. UNCHANGED <<cards, medium, winBus, winOff, winSize, rx, told>>
    BY DEF Link, SetConfig, SetConfigFails, Disconnect, do_kburn, Leave, hist, win, dev
<1>2. Confined'
    BY <1>1 DEF Confined, IndInv
<1>3. ~valid' \/ UNCHANGED <<burner, valid, told>>
    BY DEF Link, SetConfig, SetConfigFails, Disconnect, do_kburn, Leave, kburn_disable, dev
<1>5. Lifecycle' /\ ~Downloading' /\ inReq' # "queued"
    <2>1. CASE SetConfig
        BY <2>1 DEF SetConfig, Lifecycle, IndInv, Downloading
    <2>2. CASE SetConfigFails
        BY <2>2 DEF SetConfigFails, kburn_disable, Lifecycle, Downloading
    <2>3. CASE Disconnect
        BY <2>3 DEF Disconnect, kburn_disable, Lifecycle, Downloading
    <2>4. CASE do_kburn
        BY <2>4 DEF do_kburn, Lifecycle, IndInv, Downloading, io, dev, TypeOK
    <2>5. CASE Leave
        BY <2>5 DEF Leave, kburn_disable, Lifecycle, Downloading
    <2> QED BY <2>1, <2>2, <2>3, <2>4, <2>5 DEF Link
<1>4. InfoInv'
    BY <1>3, <1>5 DEF InfoInv, InformedWindow, Receiving, Downloading, IndInv
<1>6. DownloadInv' /\ StoredInv' /\ DoneMeansStored'
    BY <1>5 DEF DownloadInv, StoredInv, DoneMeansStored
<1> QED BY <1>2, <1>4, <1>5, <1>6 DEF IndInv

LEMMA ProbeInv ==
    ASSUME TypeOK, IndInv, NEW bus \in Bus \cup {NoBus}, cb_probe_device(bus)
    PROVE  IndInv'
<1>1. usb = "configured" /\ outReq = "queued" /\ outFn = "rx_command"
    BY DEF cb_probe_device, Served, CommandIn, Completed
<1>2. PICK r \in {"PROBE OK", "PROBE FAILED"} : Reply(r)
    BY DEF cb_probe_device
<1>3. valid' => told' = burner'
    BY DEF cb_probe_device
<1>4. r \in Responses \ {"WRITE DONE"}
    BY DEF Responses
<1> QED BY <1>1, <1>2, <1>3, <1>4, ReplyInv

LEMMA CommandInv ==
    ASSUME TypeOK, IndInv, Command
    PROVE  IndInv'
<1>1. ASSUME NEW r \in Responses \ {"WRITE DONE"}, Reply(r), CommandIn(TRUE) \/ CommandIn(FALSE),
             valid' => told' = burner'
      PROVE  IndInv'
    <2>1. usb = "configured" /\ outReq = "queued" /\ outFn = "rx_command"
        BY <1>1 DEF CommandIn, Completed
    <2> QED BY <1>1, <2>1, ReplyInv
<1>2. CASE UnknownCommand
    BY <1>1, <1>2 DEF UnknownCommand, dev, Responses, IndInv, InfoInv
<1>3. CASE OverlongCommand
    BY <1>1, <1>3 DEF OverlongCommand, dev, Responses, IndInv, InfoInv
<1>4. CASE cb_not_support
    BY <1>1, <1>4 DEF cb_not_support, dev, Responses, IndInv, InfoInv
<1>5. CASE BadDataSize
    BY <1>1, <1>5 DEF BadDataSize, Served, dev, Responses, IndInv, InfoInv
<1>6. CASE \E bus \in Bus \cup {NoBus} : cb_probe_device(bus)
    BY <1>6, ProbeInv
<1>7. CASE cb_get_device_info
    <2>1. PICK r \in {"INFO OK", "RUNTIME ERROR"} : Reply(r)
        BY <1>7 DEF cb_get_device_info
    <2>2. (valid => told = burner) /\ CommandIn(FALSE)
        BY <1>7 DEF cb_get_device_info, Served, IndInv, InfoInv
    <2>3. valid' => told' = burner'
        BY <1>7, <2>2 DEF cb_get_device_info
    <2>4. r \in Responses \ {"WRITE DONE"}
        BY DEF Responses
    <2> QED BY <1>1, <2>1, <2>2, <2>3, <2>4
<1>8. CASE \E off \in Offsets, size \in Sizes : cb_write_lba(off, size) \/ cb_erase_lba(off, size)
    BY <1>8, WriteLbaInv, EraseLbaInv
<1> QED BY <1>2, <1>3, <1>4, <1>5, <1>6, <1>7, <1>8 DEF Command

(* The host takes the answer, and nothing else changes.                     *)
LEMMA HostReadsInv ==
    ASSUME TypeOK, IndInv, HostReads
    PROVE  IndInv'
<1>1. /\ UNCHANGED <<cards, usb, outReq, outFn, outLen, burner, valid, told, medium,
                     offset, dlSize, dlBytes, winBus, winOff, winSize, rx>>
      /\ usb = "configured" /\ inReq' = "idle" /\ rsp' = "NONE"
    BY DEF HostReads, link, io, dev, dl, hist, win
<1>2. Lifecycle' /\ DoneMeansStored'
    BY <1>1 DEF IndInv, Lifecycle, DoneMeansStored
<1>3. (Downloading' <=> Downloading) /\ (NoWrap' <=> NoWrap) /\ (Aligned' <=> Aligned)
      /\ (Starved' <=> Starved)
    BY <1>1 DEF Downloading, NoWrap, Aligned, Starved, Left
<1>4. StoredInv'
    BY <1>1, <1>3 DEF IndInv, StoredInv
<1>5. Confined' /\ InfoInv'
    BY <1>1 DEF IndInv, Confined, InfoInv, InformedWindow, Receiving, Capacity, LbaOf
<1>6. DownloadInv'
    BY <1>1, <1>3 DEF IndInv, DownloadInv
<1> QED BY <1>2, <1>4, <1>5, <1>6 DEF IndInv

LEMMA StutterInv ==
    ASSUME IndInv, UNCHANGED vars
    PROVE  IndInv'
<1>1. UNCHANGED <<cards, usb, outReq, outFn, outLen, burner, valid, told, medium, inReq, rsp,
                  offset, dlSize, dlBytes, winBus, winOff, winSize, rx>>
    BY DEF vars, link, io, dev, dl, hist, win
<1>2. Lifecycle' /\ DoneMeansStored'
    BY <1>1 DEF IndInv, Lifecycle, DoneMeansStored
<1>3. (Downloading' <=> Downloading) /\ (NoWrap' <=> NoWrap) /\ (Aligned' <=> Aligned)
      /\ (Starved' <=> Starved)
    BY <1>1 DEF Downloading, NoWrap, Aligned, Starved, Left
<1>4. StoredInv' /\ Confined' /\ InfoInv'
    BY <1>1, <1>3 DEF IndInv, StoredInv, Confined, InfoInv, InformedWindow, Receiving, Capacity, LbaOf
<1>5. DownloadInv'
    BY <1>1, <1>3 DEF IndInv, DownloadInv
<1> QED BY <1>2, <1>4, <1>5 DEF IndInv

LEMMA InitInv == Init => IndInv
<1> SUFFICES ASSUME Init PROVE IndInv
    OBVIOUS
<1>1. Lifecycle /\ ~Downloading /\ inReq = "null" /\ burner = NoBus
    BY DEF Init, Lifecycle, Downloading
<1>2. DownloadInv /\ StoredInv /\ DoneMeansStored /\ InfoInv
    BY <1>1 DEF Init, DownloadInv, StoredInv, DoneMeansStored, InfoInv, InformedWindow, Receiving
<1>3. Confined
    BY DEF Init, Confined
<1> QED BY <1>1, <1>2, <1>3 DEF IndInv

LEMMA StepInv == TypeOK /\ IndInv /\ [Next]_vars => IndInv'
<1> SUFFICES ASSUME TypeOK, IndInv, [Next]_vars PROVE IndInv'
    OBVIOUS
<1>1. CASE Command
    BY <1>1, CommandInv
<1>2. CASE Data
    BY <1>2, WriteFailedInv, GoesOnInv, DoneInv DEF Data
<1>3. CASE HostReads
    BY <1>3, HostReadsInv
<1>4. CASE Link
    BY <1>4, LinkInv
<1>5. CASE UNCHANGED vars
    BY <1>5, StutterInv
<1> QED BY <1>1, <1>2, <1>3, <1>4, <1>5 DEF Next

(* The inductive invariant holds in every reachable state.                  *)
THEOREM Inductive == Spec => []IndInv
BY TypeCorrect, InitInv, StepInv, PTL DEF Spec

---------------------------------------------------------------------------
(* WRITE DONE for a download that starts at a block boundary means that     *)
(* every byte of the announced window is the byte of the host's stream,     *)
(* for every card, block size, packet size and width of the counters.       *)
THEOREM WriteDoneIsHonest == Spec => []DoneMeansStored
<1>1. IndInv => DoneMeansStored
    BY DEF IndInv
<1> QED BY <1>1, Inductive, PTL

(* mmc_op's rounding, failed blocks and cut-off downloads included, a       *)
(* command changes no byte outside the blocks of the window it announced.   *)
THEOREM WritesAreConfined == Spec => []Confined
<1>1. IndInv => Confined
    BY DEF IndInv
<1> QED BY <1>1, Inductive, PTL

(* A running download goes to the device whose medium_info the host was     *)
(* last given and fits into it, whatever was probed before: cb_write_lba    *)
(* never uses what an earlier burner knew.                                  *)
THEOREM WindowsAreInformed == Spec => []InformedWindow
<1>1. IndInv => InformedWindow
    BY DEF IndInv, InfoInv
<1> QED BY <1>1, Inductive, PTL

(* Only a WRITE ERROR leaves a configured gadget without a queued out_req.  *)
THEOREM ListensUnlessFailed == Spec => []DeafOnlyAfterWriteError
<1>1. TypeOK /\ IndInv => DeafOnlyAfterWriteError
    BY DEF IndInv, Lifecycle, DeafOnlyAfterWriteError, TypeOK
<1> QED BY <1>1, TypeCorrect, Inductive, PTL

(* A running download of less than 4 GiB counts exactly the bytes the host  *)
(* has sent, and always asks for at least one more.                         *)
THEOREM DownloadKeepsStep == Spec => []StreamInStep
<1>1. TypeOK /\ IndInv => StreamInStep
    <2> SUFFICES ASSUME TypeOK, IndInv, Downloading, winSize < U32, winOff + winSize < U64
                 PROVE  /\ dlSize = winSize /\ dlBytes = rx /\ rx < dlSize
                        /\ offset = winOff + rx /\ outLen > 0
        BY DEF StreamInStep, Downloading
    <2>1. DownloadInv /\ NoWrap
        BY DEF IndInv, NoWrap
    <2>2. /\ dlSize = winSize /\ dlBytes < dlSize
          /\ outLen = rx_bytes_expected(dlSize, dlBytes)
          /\ rx = dlBytes \/ Starved
          /\ offset = winOff + dlBytes
        BY <2>1 DEF DownloadInv
    <2>3. ~Starved
        <3>1. dlSize < U32 /\ dlSize \in Nat /\ dlBytes \in Nat /\ U32 \in Nat
            BY <2>2, Widths DEF TypeOK
        <3>2. Left < U32
            BY <3>1 DEF Left
        <3>3. Left \in Int
            BY <3>1 DEF Left
        <3> QED BY <3>1, <3>2, <3>3 DEF Starved
    <2>4. outLen > 0
        <3>1. dlSize \in 0 .. U64 - 1 /\ dlBytes \in 0 .. U64 - 1
            BY DEF TypeOK
        <3> QED BY <2>2, <3>1, ExpectedRange
    <2>5. rx = dlBytes
        BY <2>2, <2>3
    <2> QED BY <2>2, <2>4, <2>5
<1> QED BY <1>1, TypeCorrect, Inductive, PTL
=============================================================================
