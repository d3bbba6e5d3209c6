--------------------------- MODULE SbiTlbProofs ---------------------------
(* Remote fences, for every number of harts, queue length and mix of        *)
(* requests.                                                                *)
EXTENDS SbiTlb, SequenceTheorems, FiniteSetTheorems, WellFoundedInduction, TLAPS

(* A hart that is not sending, or only empties its queue for an event, has  *)
(* no target; one that is posting a fence has.                              *)
Resting == {"run", "take", "ev", "exit", "stop", "off", "init_ipi", "init_msip", "init_tlb", "jump"}
Starting == {"init_ipi", "init_msip", "init_tlb", "jump"}

FlowOK(h) ==
    /\ ret[h] # "ev" => pc[h] \in {"deq", "ack"}
    /\ pc[h] \in {"enq", "sync"} \/ ret[h] # "ev" => op[h] = "tlb"
    /\ pc[h] \in {"enq", "set", "raise", "sync"} \/ ret[h] # "ev" => todo[h] # {}
    /\ pc[h] \in Resting \/ (pc[h] \in {"deq", "ack"} /\ ret[h] = "ev") => todo[h] = {}
    /\ pc[h] = "ack" <=> acks[h] # {}
    /\ pc[h] = "exit" => state[h] = "STOP_PENDING"
    /\ pc[h] = "off" => state[h] \in {"STOPPED", "START_PENDING"}
    /\ state[h] = "STOPPED" => pc[h] = "off"
    /\ pc[h] = "start" <=> op[h] = "start"
    /\ pc[h] \in Starting => state[h] = "START_PENDING"

Flow == \A h \in Hart : FlowOK(h)

(* Acknowledgements *)
AckInv ==
    /\ \A s, t \in Hart, i \in 0 .. NumEntries :
         Owed(s, t, i) => Posted(s) /\ t = Target(s) /\ sync[s] = 0
    /\ \A s, t \in Hart, i, j \in 0 .. NumEntries : Owed(s, t, i) /\ Owed(s, t, j) => i = j
    /\ \A s \in Hart : sync[s] = 1 => Posted(s)

(* Stopped harts *)
GoneInv == \A s \in Hart : \A t \in todo[s] :
    op[s] # "start" /\ state[t] \in {"STOPPED", "START_PENDING"} => t \in gone[s]

VainInv == \A s, t \in Hart :
    Posted(s) /\ t = Target(s) /\ sync[s] = 0 /\ (\A i \in 0 .. NumEntries : ~Owed(s, t, i))
       => t \in gone[s]

(* Posted fences and interrupts *)
Posting(t, P) == \E s \in Hart : pc[s] \in P /\ op[s] = "tlb" /\ Target(s) = t
Flag(t) == "tlb" \in ipi_type[t] \/ Posting(t, {"set"})
Bell(t) == msip[t] \/ Posting(t, {"set", "raise"})

Attentive(t) == \/ pc[t] \in {"run", "send", "enq", "set", "raise", "sync", "start", "jump"}
                \/ pc[t] \in {"deq", "ack"} /\ ret[t] # "ev"

LostOK(t) ==
    fifo[t] # << >> =>
        /\ Attentive(t) => Flag(t) /\ Bell(t)
        /\ pc[t] = "take" /\ state[t] = "STARTED" => Flag(t)
        /\ pc[t] = "ev" /\ state[t] = "STARTED" => "tlb" \in bits[t] \/ (Flag(t) /\ Bell(t))

LostInv == \A t \in Hart : LostOK(t)
---------------------------------------------------------------------------
(* The lowest member of a set of naturals is one of its members.            *)
LEMMA LowestIn ==
    ASSUME NEW S, S \subseteq Nat, S # {}
    PROVE  Lowest(S) \in S
<1> DEFINE R == {p \in Nat \X Nat : p[1] < p[2]}
<1>1. IsWellFoundedOn(R, Nat)
  <2>1. OpToRel(<, Nat) = R
    BY DEF OpToRel
  <2> QED
    BY <2>1, NatLessThanWellFounded
<1>2. PICK x \in S : \A y \in S : ~(<<y, x>> \in R)
  <2> HIDE DEF R
  <2>1. \E x \in S : \A y \in S : ~(<<y, x>> \in R)
    BY <1>1, WFMin
  <2> QED
    BY <2>1
<1>3. \A y \in S : x <= y
  <2> SUFFICES ASSUME NEW y \in S PROVE x <= y
    OBVIOUS
  <2>1. x \in Nat /\ y \in Nat
    OBVIOUS
  <2>2. ~(<<y, x>> \in R)
    BY <1>2
  <2>3. ~(y < x)
    BY <2>1, <2>2
  <2> QED
    BY <2>1, <2>3
<1> QED
  BY <1>3 DEF Lowest

LEMMA HartNat == Hart \subseteq Nat /\ IsFiniteSet(Hart)
BY TlbAssumption

LEMMA TargetIn ==
    ASSUME TypeOK, NEW h \in Hart, todo[h] # {}
    PROVE  Target(h) \in todo[h] /\ Target(h) \in Hart
<1>1. todo[h] \subseteq Hart
  BY DEF TypeOK
<1> QED
  BY <1>1, HartNat, LowestIn DEF Target

(* A step of h leaves what other harts have in registers alone, and starts  *)
(* at most those that are stopped.                                          *)
Others(h) ==
    \A g \in Hart \ {h} :
        /\ state'[g] = state[g] \/ (state[g] = "STOPPED" /\ state'[g] = "START_PENDING")
        /\ pc'[g] = pc[g] /\ op'[g] = op[g] /\ req'[g] = req[g]
        /\ todo'[g] = todo[g] /\ bits'[g] = bits[g] /\ acks'[g] = acks[g]
        /\ cnt'[g] = cnt[g] /\ ret'[g] = ret[g]

LEMMA OthersKeep ==
    ASSUME TypeOK, NEW h \in Hart, Step(h) \/ Smode(h)
    PROVE  Others(h)
<1> USE DEF Others, Goto, NextTarget, Call, shared, sender, local, hist, bound
<1>1. CASE ReadState(h) \/ SendDone(h) \/ SendPlain(h)
  BY <1>1 DEF TypeOK, ReadState, SendDone, SendPlain
<1>2. CASE FenceSelf(h) \/ FenceUpdate(h)
  BY <1>2 DEF TypeOK, FenceSelf, FenceUpdate
<1>3. CASE FenceEnqueue(h) \/ SetBit(h)
  BY <1>3 DEF TypeOK, FenceEnqueue, SetBit
<1>4. CASE Raise(h) \/ Sync(h)
  BY <1>4 DEF TypeOK, Raise, Sync
<1>5. CASE DequeueEmpty(h) \/ Dequeue(h)
  BY <1>5 DEF TypeOK, DequeueEmpty, Dequeue
<1>6. CASE Acknowledge(h)
  BY <1>6 DEF TypeOK, Acknowledge, EntryDone
<1>7. CASE ClearMsip(h) \/ TakeBits(h) \/ EvSmode(h)
  BY <1>7 DEF TypeOK, ClearMsip, TakeBits, EvSmode
<1>8. CASE EvHalt(h) \/ EvTlb(h) \/ EvDone(h)
  BY <1>8 DEF TypeOK, EvHalt, EvTlb, EvDone
<1>9. CASE HsmExit(h) \/ StartIpi(h) \/ HartWait(h) \/ InitIpi(h) \/ InitTlb(h) \/ Jump(h)
  BY <1>9 DEF TypeOK, HsmExit, StartIpi, HartWait, InitIpi, InitTlb, Jump
<1>10. CASE Fence(h) \/ SendEvent(h)
  BY <1>10 DEF TypeOK, Fence, SendEvent
<1>11. CASE ClearSmode(h) \/ Stop(h) \/ Start(h)
  BY <1>11 DEF TypeOK, ClearSmode, Stop, Start
<1> QED
  BY <1>1, <1>2, <1>3, <1>4, <1>5, <1>6, <1>7, <1>8, <1>9, <1>10, <1>11 DEF Step, Smode

---------------------------------------------------------------------------
(* Types of what the model's operators compute. *)
LEMMA Sizes == PageSize \in Nat \ {0} /\ ULong \in Nat \ {0} /\ ULong % PageSize = 0
               /\ NumEntries \in Nat \ {0}
BY TlbAssumption

(* Multiples of the page size. *)
LEMMA TimesMonotone ==
    ASSUME NEW p \in Nat \ {0}, NEW a \in Int, NEW b \in Int, a <= b
    PROVE  p * a <= p * b
<1>1. b - a \in Nat
  OBVIOUS
<1>2. p * (b - a) >= 0
  BY <1>1
<1>3. p * (b - a) = p * b - p * a
  OBVIOUS
<1> QED
  BY <1>2, <1>3

LEMMA DivMod ==
    ASSUME NEW a \in Nat, NEW p \in Nat \ {0}
    PROVE  a \div p \in Int /\ a % p \in 0 .. p - 1 /\ a = p * (a \div p) + (a % p)
OBVIOUS

LEMMA DivPage ==
    ASSUME NEW x \in 0 .. ULong - 1
    PROVE  x \div PageSize \in Page
<1> DEFINE k == x \div PageSize
           m == ULong \div PageSize
<1>1. k \in Int /\ m \in Int /\ x % PageSize \in 0 .. PageSize - 1
      /\ x = PageSize * k + (x % PageSize) /\ ULong = PageSize * m
  <2>1. \A a \in Nat, p \in Nat \ {0} :
           a \div p \in Int /\ a % p \in 0 .. p - 1 /\ a = p * (a \div p) + (a % p)
    BY DivMod
  <2>2. ULong = PageSize * m + 0 /\ m \in Int
    BY <2>1, Sizes
  <2>3. x \in Nat
    BY Sizes
  <2>4. PageSize * m \in Int
    BY <2>2, Sizes
  <2> HIDE DEF m
  <2> QED
    BY <2>1, <2>2, <2>3, <2>4, Sizes
<1>2. k >= 0
  <2>1. k <= -1 => PageSize * k <= - PageSize
    BY <1>1, Sizes, TimesMonotone
  <2> QED
    BY <1>1, <2>1, Sizes
<1>3. k < m
  <2>1. m <= k => PageSize * m <= PageSize * k
    BY <1>1, Sizes, TimesMonotone
  <2> QED
    BY <1>1, <2>1, Sizes
<1> HIDE DEF k, m
<1>4. k \in 0 .. m - 1
  BY <1>1, <1>2, <1>3
<1> QED
  BY <1>4 DEF Page, k, m

LEMMA PagesArePages ==
    ASSUME NEW e, e.start \in Nat
    PROVE  PagesOf(e) \subseteq Page
<1> SUFFICES ASSUME NEW i \in Page
             PROVE  ((e.start + i * PageSize) % ULong) \div PageSize \in Page
  BY DEF PagesOf
<1>1. i \in Nat
  BY Sizes DEF Page
<1>2. i * PageSize \in Nat
  BY <1>1, Sizes
<1>3. e.start + i * PageSize \in Int
  BY <1>2
<1>4. (e.start + i * PageSize) % ULong \in 0 .. ULong - 1
  BY <1>3, Sizes
<1> QED
  BY <1>4, DivPage

(* Flushed, with the three functions told apart. *)
Whole(e) == e.size = FLUSH_ALL \/ (e.start = 0 /\ e.size = 0)
Spaces(e) == IF e.fn = "sfence_vma" \/ (e.start = 0 /\ e.size = 0) THEN Asid ELSE {e.asid}

LEMMA FlushedIs ==
    ASSUME NEW e, e.fn \in Fns
    PROVE  Flushed(e) = IF e.fn = "fence_i" THEN {Icache}
                        ELSE (IF Whole(e) THEN Page ELSE PagesOf(e)) \X Spaces(e)
BY DEF Flushed, Fns, Whole, Spaces

LEMMA FlushedItems ==
    ASSUME NEW r, r.fn \in Fns, r.start \in Nat, r.asid \in Asid
    PROVE  Flushed(r) \subseteq Items
<1>2. r.fn \in Fns /\ r.start \in Nat /\ r.asid \in Asid
  OBVIOUS
<1>3. PagesOf(r) \subseteq Page
  BY <1>2, PagesArePages
<1>4. Spaces(r) \subseteq Asid
  BY <1>2 DEF Spaces
<1>5. ((IF Whole(r) THEN Page ELSE PagesOf(r)) \X Spaces(r)) \subseteq Page \X Asid
  BY <1>3, <1>4
<1> QED
  BY <1>2, <1>5, FlushedIs DEF Items

LEMMA RequestInfo ==
    /\ NoReq \in Info
    /\ \A r \in Requests : r \in Info
<1>1. 0 \in 0 .. ULong - 1
  BY Sizes
<1>2. NoReq \in Info
  BY <1>1, TlbAssumption DEF NoReq, Info, Fns
<1>3. Requests \subseteq [fn : Fns, start : 0 .. ULong - 1, size : 0 .. ULong - 1, asid : Asid]
  BY TlbAssumption
<1> QED
  BY <1>2, <1>3 DEF Info

LEMMA LimitedInfo ==
    ASSUME NEW r \in Info
    PROVE  Limited(r) \in Info /\ Limited(r).fn = r.fn /\ Limited(r).asid = r.asid
<1>1. 0 \in 0 .. ULong - 1 /\ FLUSH_ALL \in 0 .. ULong - 1
  BY Sizes DEF FLUSH_ALL
<1> QED
  BY <1>1 DEF Limited, Info

LEMMA TlbInfoEntry ==
    ASSUME NEW r \in Info, NEW h \in Hart
    PROVE  TlbInfo(r, h) \in Entry
<1>1. {h} \in (SUBSET Hart) \ {{}}
  <2>1. {h} # {} /\ {h} \in SUBSET Hart
    OBVIOUS
  <2> QED
    BY <2>1
<1> QED
  BY <1>1 DEF TlbInfo, Info, Entry

LEMMA MergedEntry ==
    ASSUME NEW n \in Entry, NEW c \in Entry
    PROVE  Merged(n, c) \in Entry /\ Merged(n, c).smask = c.smask \cup n.smask
<1>1. n.smask \in (SUBSET Hart) \ {{}} /\ c.smask \in (SUBSET Hart) \ {{}}
  BY DEF Entry
<1>2. c.smask \cup n.smask \in (SUBSET Hart) \ {{}}
  BY <1>1
<1> QED
  BY <1>2 DEF Merged, Entry

---------------------------------------------------------------------------
(* Types and control flow. *)
LEMMA NewFifo ==
    ASSUME TypeOK, NEW t \in Hart, NEW q, q \in Seq(Entry), Len(q) <= NumEntries,
           fifo' = [fifo EXCEPT ![t] = q]
    PROVE  /\ fifo' \in [Hart -> Seq(Entry)] /\ \A h \in Hart : Len(fifo'[h]) <= NumEntries
           /\ fifo'[t] = q /\ \A g \in Hart \ {t} : fifo'[g] = fifo[g]
BY DEF TypeOK

(* The parts of TypeOK that steps without a queue operation can disturb.    *)
LEMMA TypeSend ==
    ASSUME TypeOK, Flow, NEW h \in Hart,
           SendDone(h) \/ SendPlain(h) \/ SetBit(h) \/ Raise(h) \/ Sync(h) \/ FenceSelf(h)
    PROVE  TypeOK'
<1> USE DEF Goto, NextTarget, shared, sender, local, hist, bound
<1>1. CASE SendDone(h)
  BY <1>1, RequestInfo DEF TypeOK, SendDone, Pcs
<1>2. CASE SendPlain(h)
  BY <1>2 DEF TypeOK, SendPlain, Pcs
<1>3. CASE SetBit(h)
  <2>1. op[h] \in {"smode", "halt", "tlb"}
    BY <1>3 DEF TypeOK, SetBit, Flow, FlowOK
  <2>2. ipi_type' \in [Hart -> SUBSET {"smode", "halt", "tlb"}]
    BY <1>3, <2>1 DEF TypeOK, SetBit
  <2> QED
    BY <1>3, <2>2 DEF TypeOK, SetBit, Pcs
<1>4. CASE Raise(h)
  <2>1. msip' \in [Hart -> BOOLEAN]
    BY <1>4 DEF TypeOK, Raise
  <2>2. CASE op[h] = "tlb"
    <3>1. pc' = [pc EXCEPT ![h] = "sync"] /\ todo' = todo
      BY <1>4, <2>2 DEF Raise
    <3>2. pc' \in [Hart -> Pcs]
      BY <3>1 DEF TypeOK, Pcs
    <3> QED
      BY <1>4, <2>1, <3>1, <3>2 DEF TypeOK, Raise
  <2>3. CASE op[h] # "tlb"
    <3>1. pc' = [pc EXCEPT ![h] = "send"] /\ todo' = [todo EXCEPT ![h] = @ \ {Target(h)}]
      BY <1>4, <2>3 DEF Raise
    <3>2. pc' \in [Hart -> Pcs] /\ todo' \in [Hart -> SUBSET Hart]
      BY <3>1 DEF TypeOK, Pcs
    <3> QED
      BY <1>4, <2>1, <3>2 DEF TypeOK, Raise
  <2> QED
    BY <2>2, <2>3
<1>5. CASE Sync(h)
  <2>1. CASE sync[h] = 1
    <3>1. /\ pc' = [pc EXCEPT ![h] = "send"] /\ todo' = [todo EXCEPT ![h] = @ \ {Target(h)}]
          /\ sync' = [sync EXCEPT ![h] = 0] /\ ret' = ret
      BY <1>5, <2>1 DEF Sync
    <3>2. sync' \in [Hart -> 0 .. 1]
      BY <3>1 DEF TypeOK
    <3>3. pc' \in [Hart -> Pcs] /\ todo' \in [Hart -> SUBSET Hart]
      BY <3>1 DEF TypeOK, Pcs
    <3> QED
      BY <1>5, <3>1, <3>2, <3>3 DEF TypeOK, Sync
  <2>2. CASE sync[h] # 1
    <3>1. /\ pc' = [pc EXCEPT ![h] = "deq"] /\ todo' = todo
          /\ sync' = sync /\ ret' = [ret EXCEPT ![h] = "sync"]
      BY <1>5, <2>2 DEF Sync
    <3>2. pc' \in [Hart -> Pcs] /\ ret' \in [Hart -> {"enq", "sync", "ev"}]
      BY <3>1 DEF TypeOK, Pcs
    <3> QED
      BY <1>5, <3>1, <3>2 DEF TypeOK, Sync
  <2> QED
    BY <2>1, <2>2
<1>6. CASE FenceSelf(h)
  <2>1. req[h] \in Info
    BY DEF TypeOK
  <2>2. req' \in [Hart -> Info]
    BY <1>6, <2>1, LimitedInfo DEF TypeOK, FenceSelf
  <2>3. due' \in [Hart -> [Hart -> SUBSET Items]]
    BY <1>6 DEF TypeOK, FenceSelf, FlushedBy
  <2> QED
    BY <1>6, <2>2, <2>3 DEF TypeOK, FenceSelf, Pcs
<1> QED
  BY <1>1, <1>2, <1>3, <1>4, <1>5, <1>6

LEMMA TypeRead ==
    ASSUME TypeOK, NEW h \in Hart, ReadState(h)
    PROVE  TypeOK'
<1> DEFINE t == Lowest(scan[h])
<1>1. scan[h] \subseteq Hart /\ scan[h] # {}
  BY DEF TypeOK, ReadState
<1>2. t \in Hart
  BY <1>1, HartNat, LowestIn
<1>3. /\ scan' = [scan EXCEPT ![h] = @ \ {t}]
      /\ todo' = todo \/ todo' = [todo EXCEPT ![h] = @ \cup {t}]
      /\ gone' = gone \/ gone' = [gone EXCEPT ![h] = @ \ {t}]
      /\ due' = due \/ due' = [due EXCEPT ![h][t] = Flushed(req[h])]
  BY DEF ReadState
<1> HIDE DEF t
<1>4. scan' \in [Hart -> SUBSET Hart]
  <2>1. scan \in [Hart -> SUBSET Hart]
    BY DEF TypeOK
  <2> QED
    BY <1>3, <2>1
<1>5. todo' \in [Hart -> SUBSET Hart]
  <2>1. todo \in [Hart -> SUBSET Hart]
    BY DEF TypeOK
  <2>2. todo[h] \cup {t} \in SUBSET Hart
    BY <1>2, <2>1
  <2> QED
    BY <1>3, <2>1, <2>2
<1>6. gone' \in [Hart -> SUBSET Hart]
  <2>1. gone \in [Hart -> SUBSET Hart]
    BY DEF TypeOK
  <2>2. gone[h] \ {t} \in SUBSET Hart
    BY <2>1
  <2> QED
    BY <1>3, <2>1, <2>2
<1>7. due' \in [Hart -> [Hart -> SUBSET Items]]
  <2>1. req[h] \in Info
    BY DEF TypeOK
  <2>2. req[h].fn \in Fns /\ req[h].start \in Nat /\ req[h].asid \in Asid
    BY <2>1, Sizes DEF Info
  <2>3. Flushed(req[h]) \in SUBSET Items
    BY <2>2, FlushedItems
  <2>4. due \in [Hart -> [Hart -> SUBSET Items]]
    BY DEF TypeOK
  <2>5. [due EXCEPT ![h][t] = Flushed(req[h])] \in [Hart -> [Hart -> SUBSET Items]]
    BY <1>2, <2>3, <2>4
  <2> QED
    BY <1>3, <2>4, <2>5
<1> QED
  BY <1>4, <1>5, <1>6, <1>7 DEF TypeOK, ReadState, shared, local

LEMMA TypeIpi ==
    ASSUME TypeOK, NEW h \in Hart,
           \/ ClearMsip(h) \/ TakeBits(h) \/ EvSmode(h) \/ EvHalt(h) \/ EvTlb(h) \/ EvDone(h)
           \/ HsmExit(h) \/ InitIpi(h) \/ InitTlb(h) \/ Jump(h) \/ StartIpi(h) \/ HartWait(h)
           \/ ClearSmode(h) \/ Stop(h) \/ Start(h) \/ DequeueEmpty(h)
    PROVE  TypeOK'
<1> USE DEF Goto, shared, sender, local, hist, bound
<1>1. CASE ClearMsip(h)
  <2>1. pc' \in [Hart -> Pcs]
    BY <1>1 DEF TypeOK, ClearMsip, Pcs
  <2>2. msip' \in [Hart -> BOOLEAN]
    BY <1>1 DEF TypeOK, ClearMsip
  <2> QED
    BY <1>1, <2>1, <2>2 DEF TypeOK, ClearMsip
<1>2. CASE TakeBits(h)
  <2>1. pc' \in [Hart -> Pcs]
    BY <1>2 DEF TypeOK, TakeBits, Pcs
  <2>2. bits' \in [Hart -> SUBSET {"smode", "halt", "tlb"}]
    BY <1>2 DEF TypeOK, TakeBits
  <2>3. ipi_type' \in [Hart -> SUBSET {"smode", "halt", "tlb"}]
    BY <1>2 DEF TypeOK, TakeBits
  <2> QED
    BY <1>2, <2>1, <2>2, <2>3 DEF TypeOK, TakeBits
<1>3. CASE EvSmode(h)
  <2>1. ssip' \in [Hart -> BOOLEAN]
    BY <1>3 DEF TypeOK, EvSmode
  <2>2. bits' \in [Hart -> SUBSET {"smode", "halt", "tlb"}]
    BY <1>3 DEF TypeOK, EvSmode
  <2> QED
    BY <1>3, <2>1, <2>2 DEF TypeOK, EvSmode
<1>4. CASE EvHalt(h)
  <2>1. state' \in [Hart -> {"STARTED", "STOP_PENDING", "STOPPED", "START_PENDING"}]
    <3>1. state' = state \/ state' = [state EXCEPT ![h] = "STOP_PENDING"]
      BY <1>4 DEF EvHalt
    <3>2. state \in [Hart -> {"STARTED", "STOP_PENDING", "STOPPED", "START_PENDING"}]
      BY DEF TypeOK
    <3> QED
      BY <3>1, <3>2
  <2>2. pc' \in [Hart -> Pcs]
    BY <1>4 DEF TypeOK, EvHalt, Pcs
  <2>3. bits' \in [Hart -> SUBSET {"smode", "halt", "tlb"}]
    <3>1. bits' = [bits EXCEPT ![h] = {}] \/ bits' = [bits EXCEPT ![h] = @ \ {"halt"}]
      BY <1>4 DEF EvHalt
    <3>2. bits \in [Hart -> SUBSET {"smode", "halt", "tlb"}]
      BY DEF TypeOK
    <3>3. CASE bits' = [bits EXCEPT ![h] = {}]
      BY <3>2, <3>3
    <3>4. CASE bits' = [bits EXCEPT ![h] = @ \ {"halt"}]
      BY <3>2, <3>4
    <3> QED
      BY <3>1, <3>3, <3>4
  <2> QED
    BY <1>4, <2>1, <2>2, <2>3 DEF TypeOK, EvHalt
<1>5. CASE EvTlb(h)
  <2>1. pc' \in [Hart -> Pcs]
    BY <1>5 DEF TypeOK, EvTlb, Pcs
  <2>2. bits' \in [Hart -> SUBSET {"smode", "halt", "tlb"}]
    BY <1>5 DEF TypeOK, EvTlb
  <2> QED
    BY <1>5, <2>1, <2>2 DEF TypeOK, EvTlb
<1>6. CASE EvDone(h)
  <2>1. pc' \in [Hart -> Pcs]
    BY <1>6 DEF TypeOK, EvDone, Pcs
  <2> QED
    BY <1>6, <2>1 DEF TypeOK, EvDone
<1>7. CASE HsmExit(h)
  <2>1. pc' \in [Hart -> Pcs]
    BY <1>7 DEF TypeOK, HsmExit, Pcs
  <2>2. state' \in [Hart -> {"STARTED", "STOP_PENDING", "STOPPED", "START_PENDING"}]
    BY <1>7 DEF TypeOK, HsmExit
  <2>3. due' \in [Hart -> [Hart -> SUBSET Items]]
    BY <1>7 DEF TypeOK, HsmExit
  <2>4. gone' \in [Hart -> SUBSET Hart]
    BY <1>7 DEF TypeOK, HsmExit
  <2> QED
    BY <1>7, <2>1, <2>2, <2>3, <2>4 DEF TypeOK, HsmExit
<1>8. CASE InitIpi(h)
  <2>1. pc' \in [Hart -> Pcs]
    BY <1>8 DEF TypeOK, InitIpi, Pcs
  <2>2. msip' \in [Hart -> BOOLEAN]
    BY <1>8 DEF TypeOK, InitIpi
  <2>3. ipi_type' \in [Hart -> SUBSET {"smode", "halt", "tlb"}]
    BY <1>8 DEF TypeOK, InitIpi
  <2> QED
    BY <1>8, <2>1, <2>2, <2>3 DEF TypeOK, InitIpi
<1>9. CASE InitTlb(h)
  <2>1. fifo' \in [Hart -> Seq(Entry)] /\ \A g \in Hart : Len(fifo'[g]) <= NumEntries
    <3>1. << >> \in Seq(Entry) /\ Len(<< >>) <= NumEntries
      BY Sizes, EmptySeq
    <3> QED
      BY <1>9, <3>1, NewFifo DEF InitTlb
  <2>2. pc' \in [Hart -> Pcs]
    BY <1>9 DEF TypeOK, InitTlb, Pcs
  <2>3. sync' \in [Hart -> 0 .. 1]
    BY <1>9 DEF TypeOK, InitTlb
  <2> QED
    BY <1>9, <2>1, <2>2, <2>3 DEF TypeOK, InitTlb
<1>10. CASE Jump(h)
  <2>1. pc' \in [Hart -> Pcs]
    BY <1>10 DEF TypeOK, Jump, Pcs
  <2>2. state' \in [Hart -> {"STARTED", "STOP_PENDING", "STOPPED", "START_PENDING"}]
    BY <1>10 DEF TypeOK, Jump
  <2> QED
    BY <1>10, <2>1, <2>2 DEF TypeOK, Jump
<1>11. CASE ClearSmode(h)
  <2>1. ssip' \in [Hart -> BOOLEAN]
    BY <1>11 DEF TypeOK, ClearSmode
  <2> QED
    BY <1>11, <2>1 DEF TypeOK, ClearSmode
<1>12. CASE Stop(h)
  <2>1. pc' \in [Hart -> Pcs]
    BY <1>12 DEF TypeOK, Stop, Pcs
  <2>2. state' \in [Hart -> {"STARTED", "STOP_PENDING", "STOPPED", "START_PENDING"}]
    BY <1>12 DEF TypeOK, Stop
  <2> QED
    BY <1>12, <2>1, <2>2 DEF TypeOK, Stop
<1>13. CASE Start(h)
  <2>1. pc' \in [Hart -> Pcs]
    BY <1>13 DEF TypeOK, Start, Pcs
  <2>2. /\ state' \in [Hart -> {"STARTED", "STOP_PENDING", "STOPPED", "START_PENDING"}]
        /\ todo' \in [Hart -> SUBSET Hart]
    BY <1>13 DEF TypeOK, Start
  <2>3. op' \in [Hart -> {"smode", "halt", "tlb", "start"}]
    BY <1>13 DEF TypeOK, Start
  <2> QED
    BY <1>13, <2>1, <2>2, <2>3 DEF TypeOK, Start
<1>14. CASE DequeueEmpty(h)
  <2>1. pc' \in [Hart -> Pcs]
    BY <1>14 DEF TypeOK, DequeueEmpty, Pcs
  <2>2. cnt' \in [Hart -> 0 .. 1]
    BY <1>14 DEF TypeOK, DequeueEmpty
  <2>3. ret' \in [Hart -> {"enq", "sync", "ev"}]
    BY <1>14 DEF TypeOK, DequeueEmpty
  <2> QED
    BY <1>14, <2>1, <2>2, <2>3 DEF TypeOK, DequeueEmpty
<1>15. CASE StartIpi(h)
  <2>1. pc' \in [Hart -> Pcs]
    BY <1>15 DEF TypeOK, StartIpi, Pcs
  <2>2. msip' \in [Hart -> BOOLEAN] /\ todo' \in [Hart -> SUBSET Hart]
    BY <1>15 DEF TypeOK, StartIpi
  <2>3. op' \in [Hart -> {"smode", "halt", "tlb", "start"}]
    BY <1>15 DEF TypeOK, StartIpi
  <2> QED
    BY <1>15, <2>1, <2>2, <2>3 DEF TypeOK, StartIpi
<1>16. CASE HartWait(h)
  <2>1. pc' \in [Hart -> Pcs]
    BY <1>16 DEF TypeOK, HartWait, Pcs
  <2> QED
    BY <1>16, <2>1 DEF TypeOK, HartWait
<1> QED
  BY <1>1, <1>2, <1>3, <1>4, <1>5, <1>6, <1>7, <1>8, <1>9, <1>10, <1>11, <1>12, <1>13, <1>14,
     <1>15, <1>16

LEMMA TypeCall ==
    ASSUME TypeOK, NEW h \in Hart, Fence(h) \/ SendEvent(h)
    PROVE  TypeOK'
<1> USE DEF Goto, Call, shared, sender, local, hist, bound
<1>1. ASSUME NEW e \in {"smode", "halt", "tlb"}, NEW r \in Info, NEW m \in SUBSET Hart, Call(h, e, r, m),
             due' \in [Hart -> [Hart -> SUBSET Items]], spoilt' \in [Hart -> SUBSET Hart]
      PROVE  TypeOK'
  BY <1>1 DEF TypeOK, Pcs
<1>2. CASE Fence(h)
  <2>1. PICK r \in Requests, m \in Masks : Call(h, "tlb", r, m)
    BY <1>2 DEF Fence
  <2>2. r \in Info /\ m \in SUBSET Hart
    BY RequestInfo, TlbAssumption
  <2>3. due' \in [Hart -> [Hart -> SUBSET Items]] /\ spoilt' \in [Hart -> SUBSET Hart]
    BY <1>2 DEF Fence, TypeOK
  <2> QED
    BY <1>1, <2>1, <2>2, <2>3
<1>3. CASE SendEvent(h)
  <2>1. PICK e \in Events, m \in Masks : Call(h, e, NoReq, m)
    BY <1>3 DEF SendEvent
  <2>2. e \in {"smode", "halt", "tlb"} /\ m \in SUBSET Hart /\ NoReq \in Info
    BY RequestInfo, TlbAssumption
  <2>3. due' \in [Hart -> [Hart -> SUBSET Items]] /\ spoilt' \in [Hart -> SUBSET Hart]
    BY <1>3 DEF SendEvent, TypeOK
  <2> QED
    BY <1>1, <2>1, <2>2, <2>3
<1> QED
  BY <1>2, <1>3

(* The queue operations. *)
LEMMA UpdateEffect ==
    ASSUME TypeOK, NEW h \in Hart, FenceUpdate(h)
    PROVE  LET t == Target(h)
               n == TlbInfo(Limited(req[h]), h)
           IN  /\ t \in todo[h] /\ t \in Hart /\ n \in Entry
               /\ req' = [req EXCEPT ![h] = Limited(req[h])]
               /\ \/ /\ \E k \in 1 .. Len(fifo[t]) :
                          /\ Merges(n, fifo[t][k]) /\ fifo[t][k] \in Entry
                          /\ fifo' = [fifo EXCEPT ![t] = [fifo[t] EXCEPT ![k] = Merged(n, fifo[t][k])]]
                          /\ spoilt' = Spoil(n, fifo[t][k], t)
                     /\ pc' = [pc EXCEPT ![h] = "set"]
                  \/ fifo' = fifo /\ spoilt' = spoilt /\ pc' = [pc EXCEPT ![h] = "enq"]
<1> DEFINE t == Target(h)
           n == TlbInfo(Limited(req[h]), h)
           takers == {i \in DOMAIN fifo[t] : Merges(n, fifo[t][i])}
           k == Lowest(takers)
<1>1. t \in todo[h] /\ t \in Hart
  BY TargetIn DEF FenceUpdate
<1>2. req[h] \in Info
  BY DEF TypeOK
<1>3. n \in Entry
  BY <1>2, LimitedInfo, TlbInfoEntry
<1>4. fifo[t] \in Seq(Entry)
  BY <1>1 DEF TypeOK
<1>5. DOMAIN fifo[t] = 1 .. Len(fifo[t]) /\ Len(fifo[t]) \in Nat
  BY <1>4
<1>6. takers # {} => k \in 1 .. Len(fifo[t]) /\ Merges(n, fifo[t][k])
  <2>1. takers \subseteq Nat
    BY <1>5
  <2>2. takers # {} => k \in takers
    BY <2>1, LowestIn
  <2> QED
    BY <1>5, <2>2
<1>7. \A i \in 1 .. Len(fifo[t]) : fifo[t][i] \in Entry
  BY <1>4, ElementOfSeq
<1>8. \/ /\ takers # {} /\ fifo' = [fifo EXCEPT ![t][k] = Merged(n, @)] /\ Goto(h, "set")
         /\ spoilt' = Spoil(n, fifo[t][k], t)
      \/ takers = {} /\ Goto(h, "enq") /\ UNCHANGED <<fifo, spoilt>>
  BY DEF FenceUpdate
<1>9. [fifo EXCEPT ![t][k] = Merged(n, @)]
        = [fifo EXCEPT ![t] = [fifo[t] EXCEPT ![k] = Merged(n, fifo[t][k])]]
  OBVIOUS
<1>10. req' = [req EXCEPT ![h] = Limited(req[h])]
  BY DEF FenceUpdate
<1> HIDE DEF n, t, takers, k
<1>11. \/ /\ \E j \in 1 .. Len(fifo[t]) :
               /\ Merges(n, fifo[t][j]) /\ fifo[t][j] \in Entry
               /\ fifo' = [fifo EXCEPT ![t] = [fifo[t] EXCEPT ![j] = Merged(n, fifo[t][j])]]
               /\ spoilt' = Spoil(n, fifo[t][j], t)
          /\ pc' = [pc EXCEPT ![h] = "set"]
       \/ fifo' = fifo /\ spoilt' = spoilt /\ pc' = [pc EXCEPT ![h] = "enq"]
  BY <1>6, <1>7, <1>8, <1>9 DEF Goto
<1> QED
  BY <1>1, <1>3, <1>10, <1>11 DEF t, n

LEMMA TypeUpdate ==
    ASSUME TypeOK, NEW h \in Hart, FenceUpdate(h)
    PROVE  TypeOK'
<1> DEFINE t == Target(h)
           n == TlbInfo(Limited(req[h]), h)
<1>1. t \in Hart /\ n \in Entry /\ req' = [req EXCEPT ![h] = Limited(req[h])]
      /\ \/ /\ \E k \in 1 .. Len(fifo[t]) :
                 /\ fifo[t][k] \in Entry
                 /\ fifo' = [fifo EXCEPT ![t] = [fifo[t] EXCEPT ![k] = Merged(n, fifo[t][k])]]
            /\ pc' = [pc EXCEPT ![h] = "set"]
         \/ fifo' = fifo /\ pc' = [pc EXCEPT ![h] = "enq"]
  BY UpdateEffect
<1> HIDE DEF t, n
<1>2. fifo' \in [Hart -> Seq(Entry)] /\ \A g \in Hart : Len(fifo'[g]) <= NumEntries
  <2>1. CASE fifo' = fifo
    BY <2>1 DEF TypeOK
  <2>2. CASE fifo' # fifo
    <3>1. PICK k \in 1 .. Len(fifo[t]) :
             /\ fifo[t][k] \in Entry
             /\ fifo' = [fifo EXCEPT ![t] = [fifo[t] EXCEPT ![k] = Merged(n, fifo[t][k])]]
      BY <1>1, <2>2
    <3>2. Merged(n, fifo[t][k]) \in Entry
      BY <1>1, <3>1, MergedEntry
    <3>3. fifo[t] \in Seq(Entry) /\ Len(fifo[t]) <= NumEntries
      BY <1>1 DEF TypeOK
    <3> DEFINE q == [fifo[t] EXCEPT ![k] = Merged(n, fifo[t][k])]
    <3>4. q \in Seq(Entry) /\ Len(q) = Len(fifo[t])
      BY <3>2, <3>3, ExceptSeq
    <3>5. fifo' = [fifo EXCEPT ![t] = q]
      BY <3>1
    <3> HIDE DEF q
    <3> QED
      BY <1>1, <3>3, <3>4, <3>5, NewFifo
  <2> QED
    BY <2>1, <2>2
<1>3. req' \in [Hart -> Info]
  <2>1. req \in [Hart -> Info]
    BY DEF TypeOK
  <2>2. Limited(req[h]) \in Info
    BY <2>1, LimitedInfo
  <2> QED
    BY <1>1, <2>1, <2>2
<1>4. pc' \in [Hart -> Pcs]
  <2>1. \E p \in {"set", "enq"} : pc' = [pc EXCEPT ![h] = p]
    BY <1>1
  <2> QED
    BY <2>1 DEF TypeOK, Pcs
<1>5. spoilt' \in [Hart -> SUBSET Hart]
  <2>1. spoilt \in [Hart -> SUBSET Hart]
    BY DEF TypeOK
  <2>2. \A S : [s \in Hart |-> IF s \in S THEN spoilt[s] \cup {t} ELSE spoilt[s]] \in [Hart -> SUBSET Hart]
    BY <1>1, <2>1
  <2>3. \/ spoilt' = spoilt
        \/ \E S : spoilt' = [s \in Hart |-> IF s \in S THEN spoilt[s] \cup {t} ELSE spoilt[s]]
    BY DEF FenceUpdate, Spoil, t
  <2> QED
    BY <2>1, <2>2, <2>3
<1> QED
  BY <1>2, <1>3, <1>4, <1>5 DEF TypeOK, FenceUpdate, local

LEMMA TypeEnqueue ==
    ASSUME TypeOK, Flow, NEW h \in Hart, FenceEnqueue(h)
    PROVE  TypeOK'
<1>1. todo[h] # {} /\ pc[h] = "enq"
  BY DEF FenceEnqueue, Flow, FlowOK
<1>2. Target(h) \in Hart
  BY <1>1, TargetIn
<1>3. CASE HasSpace(Target(h))
  <2>1. /\ fifo' = [fifo EXCEPT ![Target(h)] = Append(@, TlbInfo(req[h], h))]
        /\ pc' = [pc EXCEPT ![h] = "set"] /\ ret' = ret
    BY <1>3 DEF FenceEnqueue, Goto
  <2>2. TlbInfo(req[h], h) \in Entry
    BY TlbInfoEntry DEF TypeOK
  <2>3. fifo[Target(h)] \in Seq(Entry) /\ Len(fifo[Target(h)]) < NumEntries
    BY <1>2, <1>3 DEF TypeOK, HasSpace
  <2> DEFINE q == Append(fifo[Target(h)], TlbInfo(req[h], h))
  <2>4. q \in Seq(Entry) /\ Len(q) = Len(fifo[Target(h)]) + 1 /\ Len(fifo[Target(h)]) \in Nat
    BY <2>2, <2>3, AppendProperties, LenProperties
  <2>5. fifo' = [fifo EXCEPT ![Target(h)] = q]
    BY <2>1
  <2> HIDE DEF q
  <2>6. Len(q) <= NumEntries
    BY <2>3, <2>4, Sizes
  <2>7. fifo' \in [Hart -> Seq(Entry)] /\ \A g \in Hart : Len(fifo'[g]) <= NumEntries
    BY <1>2, <2>4, <2>5, <2>6, NewFifo
  <2>8. pc' \in [Hart -> Pcs]
    BY <2>1 DEF TypeOK, Pcs
  <2> QED
    BY <2>1, <2>7, <2>8 DEF TypeOK, FenceEnqueue, sender, hist
<1>4. CASE ~HasSpace(Target(h))
  <2>1. fifo' = fifo /\ pc' = [pc EXCEPT ![h] = "deq"] /\ ret' = [ret EXCEPT ![h] = "enq"]
    BY <1>4 DEF FenceEnqueue, Goto
  <2>2. pc' \in [Hart -> Pcs] /\ ret' \in [Hart -> {"enq", "sync", "ev"}]
    BY <2>1 DEF TypeOK, Pcs
  <2> QED
    BY <2>1, <2>2 DEF TypeOK, FenceEnqueue, sender, hist
<1> QED
  BY <1>3, <1>4

LEMMA TypeDequeue ==
    ASSUME TypeOK, NEW h \in Hart, Dequeue(h)
    PROVE  /\ TypeOK' /\ Head(fifo[h]) = fifo[h][1] /\ Head(fifo[h]) \in Entry
           /\ 1 \in 1 .. Len(fifo[h]) /\ fifo' = [fifo EXCEPT ![h] = Tail(fifo[h])]
           /\ Len(Tail(fifo[h])) = Len(fifo[h]) - 1
           /\ \A i \in 1 .. Len(fifo[h]) - 1 : Tail(fifo[h])[i] = fifo[h][i + 1]
<1>1. fifo[h] \in Seq(Entry) /\ fifo[h] # << >> /\ Len(fifo[h]) <= NumEntries
  BY DEF TypeOK, Dequeue
<1>2. /\ Tail(fifo[h]) \in Seq(Entry) /\ Len(Tail(fifo[h])) = Len(fifo[h]) - 1
      /\ Head(fifo[h]) = fifo[h][1] /\ Head(fifo[h]) \in Entry
      /\ \A i \in 1 .. Len(fifo[h]) - 1 : Tail(fifo[h])[i] = fifo[h][i + 1]
  BY <1>1, HeadTailProperties
<1>3. Len(fifo[h]) \in Nat /\ Len(fifo[h]) # 0
  BY <1>1, LenProperties, EmptySeq
<1>4. 1 \in 1 .. Len(fifo[h]) /\ Len(Tail(fifo[h])) <= NumEntries
  BY <1>1, <1>2, <1>3, Sizes
<1>5. fifo' = [fifo EXCEPT ![h] = Tail(fifo[h])]
  BY DEF Dequeue
<1>6. fifo' \in [Hart -> Seq(Entry)] /\ \A g \in Hart : Len(fifo'[g]) <= NumEntries
  BY <1>2, <1>4, <1>5, NewFifo
<1>7. due' \in [Hart -> [Hart -> SUBSET Items]]
  BY DEF TypeOK, Dequeue, FlushedBy
<1>8. acks' \in [Hart -> SUBSET Hart]
  <2>1. Head(fifo[h]).smask \in SUBSET Hart
    BY <1>2 DEF Entry
  <2> QED
    BY <2>1 DEF TypeOK, Dequeue
<1>9. pc' \in [Hart -> Pcs]
  BY DEF TypeOK, Dequeue, Goto, Pcs
<1>10. TypeOK'
  BY <1>6, <1>7, <1>8, <1>9 DEF TypeOK, Dequeue, sender
<1> QED
  BY <1>2, <1>4, <1>5, <1>10

(* What an acknowledgement does, case by case. *)
LEMMA AckEffect ==
    ASSUME TypeOK, Flow, NEW h \in Hart, Acknowledge(h)
    PROVE  LET r == Lowest(acks[h]) IN
           /\ r \in acks[h] /\ r \in Hart /\ sync[r] = 0
           /\ sync' = [sync EXCEPT ![r] = 1] /\ acks' = [acks EXCEPT ![h] = @ \ {r}]
           /\ \/ /\ acks[h] = {r} /\ ret[h] # "ev"
                 /\ pc' = [pc EXCEPT ![h] = ret[h]] /\ ret' = [ret EXCEPT ![h] = "ev"]
                 /\ cnt' = [cnt EXCEPT ![h] = 0]
              \/ /\ acks[h] = {r} /\ ret[h] # "ev"
                 /\ pc' = [pc EXCEPT ![h] = "deq"] /\ ret' = ret
                 /\ cnt' = [cnt EXCEPT ![h] = 1]
              \/ /\ acks[h] = {r} /\ ret[h] = "ev"
                 /\ pc' = [pc EXCEPT ![h] = "deq"] /\ ret' = ret /\ cnt' = cnt
              \/ /\ acks[h] # {r} /\ pc' = pc /\ ret' = ret /\ cnt' = cnt
<1>1. acks[h] # {} /\ acks[h] \subseteq Hart
  BY DEF Acknowledge, Flow, FlowOK, TypeOK
<1>2. Lowest(acks[h]) \in acks[h]
  BY <1>1, HartNat, LowestIn
<1> DEFINE r == Lowest(acks[h])
<1>3. /\ sync[r] = 0 /\ sync' = [sync EXCEPT ![r] = 1]
      /\ acks' = [acks EXCEPT ![h] = @ \ {r}]
      /\ IF acks[h] = {r} THEN EntryDone(h) ELSE UNCHANGED <<pc, cnt, ret>>
  BY DEF Acknowledge
<1> HIDE DEF r
<1>4. \/ /\ acks[h] = {r} /\ ret[h] # "ev"
         /\ pc' = [pc EXCEPT ![h] = ret[h]] /\ ret' = [ret EXCEPT ![h] = "ev"]
         /\ cnt' = [cnt EXCEPT ![h] = 0]
      \/ /\ acks[h] = {r} /\ ret[h] # "ev"
         /\ pc' = [pc EXCEPT ![h] = "deq"] /\ ret' = ret
         /\ cnt' = [cnt EXCEPT ![h] = 1]
      \/ /\ acks[h] = {r} /\ ret[h] = "ev"
         /\ pc' = [pc EXCEPT ![h] = "deq"] /\ ret' = ret /\ cnt' = cnt
      \/ /\ acks[h] # {r} /\ pc' = pc /\ ret' = ret /\ cnt' = cnt
  BY <1>3 DEF EntryDone, Goto
<1>5. r \in acks[h] /\ r \in Hart
  BY <1>1, <1>2 DEF r
<1> QED
  BY <1>3, <1>4, <1>5 DEF r

LEMMA TypeAck ==
    ASSUME TypeOK, Flow, NEW h \in Hart, Acknowledge(h)
    PROVE  TypeOK'
<1> DEFINE r == Lowest(acks[h])
<1>1. /\ r \in acks[h] /\ r \in Hart
      /\ sync' = [sync EXCEPT ![r] = 1] /\ acks' = [acks EXCEPT ![h] = @ \ {r}]
      /\ (\E p \in {ret[h], "deq", pc[h]} : pc' = [pc EXCEPT ![h] = p])
      /\ (ret' = ret \/ ret' = [ret EXCEPT ![h] = "ev"])
      /\ (cnt' = cnt \/ \E c \in 0 .. 1 : cnt' = [cnt EXCEPT ![h] = c])
  <2>1. pc = [pc EXCEPT ![h] = pc[h]]
    BY DEF TypeOK
  <2> QED
    BY <2>1, AckEffect
<1> HIDE DEF r
<1>2. sync' \in [Hart -> 0 .. 1]
  BY <1>1 DEF TypeOK
<1>3. acks' \in [Hart -> SUBSET Hart]
  BY <1>1 DEF TypeOK
<1>4. pc' \in [Hart -> Pcs]
  <2>1. pc \in [Hart -> Pcs] /\ ret[h] \in Pcs /\ "deq" \in Pcs
    BY DEF TypeOK, Pcs
  <2> QED
    BY <1>1, <2>1
<1>5. ret' \in [Hart -> {"enq", "sync", "ev"}]
  BY <1>1 DEF TypeOK
<1>6. cnt' \in [Hart -> 0 .. 1]
  <2>1. cnt \in [Hart -> 0 .. 1]
    BY DEF TypeOK
  <2>2. ASSUME NEW c \in 0 .. 1, cnt' = [cnt EXCEPT ![h] = c] PROVE cnt' \in [Hart -> 0 .. 1]
    BY <2>1, <2>2
  <2> QED
    BY <1>1, <2>1, <2>2
<1> QED
  BY <1>2, <1>3, <1>4, <1>5, <1>6 DEF TypeOK, Acknowledge, sender, hist

LEMMA TypeStep ==
    ASSUME TypeOK, Flow, NEW h \in Hart, Step(h) \/ Smode(h)
    PROVE  TypeOK'
BY TypeSend, TypeRead, TypeIpi, TypeCall, TypeUpdate, TypeEnqueue, TypeDequeue, TypeAck DEF Step, Smode

LEMMA FlowStep ==
    ASSUME TypeOK, Flow, NEW h \in Hart, Step(h) \/ Smode(h)
    PROVE  Flow'
<1>1. Others(h)
  BY OthersKeep
<1>2. SUFFICES FlowOK(h)'
  BY <1>1 DEF Others, Flow, FlowOK, Starting
<1>3. FlowOK(h)
  BY DEF Flow
<1>4. /\ DOMAIN pc = Hart /\ DOMAIN ret = Hart /\ DOMAIN op = Hart /\ DOMAIN todo = Hart
      /\ DOMAIN acks = Hart /\ DOMAIN state = Hart
      /\ ret[h] \in {"enq", "sync", "ev"} /\ pc[h] \in Pcs
  BY DEF TypeOK
<1> USE DEF Goto, NextTarget, shared, sender, local, hist, bound, Resting, Starting
<1>5. CASE ReadState(h) \/ SendDone(h)
  BY <1>3, <1>4, <1>5 DEF FlowOK, ReadState, SendDone, Sending
<1>6. CASE SendPlain(h)
  BY <1>3, <1>4, <1>6 DEF FlowOK, SendPlain, Sending
<1>7. CASE FenceSelf(h)
  BY <1>3, <1>4, <1>7 DEF FlowOK, FenceSelf, Sending
<1>8. CASE FenceUpdate(h)
  BY <1>3, <1>4, <1>8 DEF FlowOK, FenceUpdate, Sending
<1>9. CASE FenceEnqueue(h)
  BY <1>3, <1>4, <1>9 DEF FlowOK, FenceEnqueue
<1>10. CASE SetBit(h)
  BY <1>3, <1>4, <1>10 DEF FlowOK, SetBit
<1>11. CASE Raise(h)
  BY <1>3, <1>4, <1>11 DEF FlowOK, Raise
<1>12. CASE Sync(h)
  BY <1>3, <1>4, <1>12 DEF FlowOK, Sync
<1>13. CASE DequeueEmpty(h)
  BY <1>3, <1>4, <1>13 DEF FlowOK, DequeueEmpty
<1>14. CASE Dequeue(h)
  <2>1. Head(fifo[h]).smask # {}
    BY <1>14, TypeDequeue DEF Entry
  <2> QED
    BY <1>3, <1>4, <1>14, <2>1 DEF FlowOK, Dequeue
<1>15. CASE Acknowledge(h)
  <2> DEFINE r == Lowest(acks[h])
  <2>1. /\ acks' = [acks EXCEPT ![h] = @ \ {r}] /\ r \in acks[h]
        /\ \/ /\ acks[h] = {r} /\ ret[h] # "ev"
              /\ pc' = [pc EXCEPT ![h] = ret[h]] /\ ret' = [ret EXCEPT ![h] = "ev"]
           \/ /\ acks[h] = {r} /\ pc' = [pc EXCEPT ![h] = "deq"] /\ ret' = ret
           \/ /\ acks[h] # {r} /\ pc' = pc /\ ret' = ret
    BY <1>15, AckEffect
  <2> HIDE DEF r
  <2>2. op' = op /\ todo' = todo /\ state' = state /\ pc[h] = "ack"
    BY <1>15 DEF Acknowledge
  <2> QED
    BY <1>3, <1>4, <2>1, <2>2 DEF FlowOK
<1>16. CASE ClearMsip(h) \/ TakeBits(h) \/ EvSmode(h)
  BY <1>3, <1>4, <1>16 DEF FlowOK, ClearMsip, TakeBits, EvSmode
<1>17. CASE EvHalt(h) \/ EvTlb(h) \/ EvDone(h)
  BY <1>3, <1>4, <1>17 DEF FlowOK, EvHalt, EvTlb, EvDone
<1>18. CASE HsmExit(h) \/ StartIpi(h) \/ HartWait(h) \/ InitIpi(h) \/ InitTlb(h) \/ Jump(h)
  BY <1>3, <1>4, <1>18 DEF FlowOK, HsmExit, StartIpi, HartWait, InitIpi, InitTlb, Jump
<1>19. CASE Fence(h) \/ SendEvent(h)
  <2>1. "start" \notin Events
    BY TlbAssumption
  <2> QED
    BY <1>3, <1>4, <1>19, <2>1 DEF FlowOK, Fence, SendEvent, Call
<1>20. CASE ClearSmode(h) \/ Stop(h)
  BY <1>3, <1>4, <1>20 DEF FlowOK, ClearSmode, Stop
<1>21. CASE Start(h)
  <2>1. PICK t \in Hart : state[t] = "STOPPED" /\ state' = [state EXCEPT ![t] = "START_PENDING"]
    BY <1>21 DEF Start
  <2>2. t # h /\ state'[h] = state[h]
    BY <1>3, <1>4, <1>21, <2>1 DEF FlowOK, Start
  <2> QED
    BY <1>3, <1>4, <1>21, <2>2 DEF FlowOK, Start
<1> QED
  BY <1>5, <1>6, <1>7, <1>8, <1>9, <1>10, <1>11, <1>12, <1>13, <1>14, <1>15, <1>16, <1>17,
     <1>18, <1>19, <1>20, <1>21 DEF Step, Smode

LEMMA BaseStarts == Init => TypeOK /\ Flow
<1> SUFFICES ASSUME Init PROVE TypeOK /\ Flow
  OBVIOUS
<1>1. fifo \in [Hart -> Seq(Entry)] /\ \A h \in Hart : Len(fifo[h]) <= NumEntries
  <2>1. << >> \in Seq(Entry) /\ Len(<< >>) <= NumEntries
    BY Sizes, EmptySeq
  <2> QED
    BY <2>1 DEF Init
<1>2. sync \in [Hart -> 0 .. 1] /\ cnt \in [Hart -> 0 .. 1]
  BY DEF Init
<1>3. req \in [Hart -> Info]
  BY RequestInfo DEF Init
<1>4. TypeOK
  BY <1>1, <1>2, <1>3 DEF Init, TypeOK, Pcs
<1>5. Flow
  BY DEF Init, Flow, FlowOK, Resting, Starting
<1> QED
  BY <1>4, <1>5

LEMMA BaseStep == TypeOK /\ Flow /\ [Next]_vars => TypeOK' /\ Flow'
<1> SUFFICES ASSUME TypeOK, Flow, [Next]_vars PROVE TypeOK' /\ Flow'
  OBVIOUS
<1>1. CASE UNCHANGED vars
  BY <1>1 DEF vars, shared, sender, local, hist, bound, TypeOK, Flow, FlowOK
<1>2. CASE Next
  BY <1>2, TypeStep, FlowStep DEF Next
<1> QED
  BY <1>1, <1>2

LEMMA BaseInductive == Spec => [](TypeOK /\ Flow)
BY BaseStarts, BaseStep, PTL DEF Spec

(* Queues never hold more than SBI_TLB_FIFO_NUM_ENTRIES entries, every      *)
(* entry keeps a sender to acknowledge, and the words harts share hold the  *)
(* values the code expects in them.                                         *)
THEOREM TlbTypeCorrect == Spec => []TypeOK
BY BaseInductive, PTL

---------------------------------------------------------------------------
(* Harts that stopped since the hart mask was read. *)
LEMMA GoneStep ==
    ASSUME TypeOK, Flow, GoneInv, NEW h \in Hart, Step(h) \/ Smode(h)
    PROVE  GoneInv'
<1>1. Others(h)
  BY OthersKeep
<1>2. \A s \in Hart : todo[s] \subseteq Hart
  BY DEF TypeOK
<1>3. /\ DOMAIN pc = Hart /\ DOMAIN todo = Hart /\ DOMAIN state = Hart /\ DOMAIN gone = Hart
  BY DEF TypeOK
<1> USE DEF Goto, NextTarget, shared, sender, local, hist, bound
<1>4. CASE Fence(h) \/ SendEvent(h)
  <2>1. todo' = todo /\ state' = state /\ gone' = [gone EXCEPT ![h] = {}]
    BY <1>4 DEF Fence, SendEvent, Call
  <2>2. todo[h] = {}
    BY <1>4 DEF Fence, SendEvent, Call, Flow, FlowOK, Resting
  <2> QED
    BY <1>1, <1>3, <2>1, <2>2 DEF GoneInv, Others
<1>5. CASE HsmExit(h)
  BY <1>2, <1>3, <1>5 DEF GoneInv, HsmExit
<1>6. CASE Start(h)
  <2>1. PICK t \in Hart : state[t] = "STOPPED" /\ state' = [state EXCEPT ![t] = "START_PENDING"]
    BY <1>6 DEF Start
  <2>2. gone' = gone /\ op'[h] = "start"
    BY <1>6 DEF Start, TypeOK
  <2>3. \A s \in Hart \ {h} : todo'[s] = todo[s] /\ op'[s] = op[s]
    BY <1>1 DEF Others
  <2> QED
    BY <1>2, <1>3, <2>1, <2>2, <2>3 DEF GoneInv
<1>11. CASE StartIpi(h)
  <2>1. state' = state /\ gone' = gone /\ todo'[h] = {}
    BY <1>3, <1>11 DEF StartIpi
  <2> QED
    BY <1>1, <2>1 DEF GoneInv, Others
<1>12. CASE ReadState(h)
  <2> DEFINE t == Lowest(scan[h])
  <2>1. /\ state' = state /\ op' = op
        /\ \/ /\ state[t] = "STARTED" /\ todo' = [todo EXCEPT ![h] = @ \cup {t}]
              /\ gone' = [gone EXCEPT ![h] = @ \ {t}]
           \/ todo' = todo /\ gone' = gone
    BY <1>12 DEF ReadState
  <2> HIDE DEF t
  <2> QED
    BY <1>3, <2>1 DEF GoneInv
<1>7. CASE EvHalt(h) \/ Stop(h) \/ Jump(h)
  <2>1. todo' = todo /\ gone' = gone /\ op' = op
    BY <1>7 DEF EvHalt, Stop, Jump
  <2>2. state'[h] \in {"STARTED", "STOP_PENDING"} \/ state' = state
    BY <1>3, <1>7 DEF EvHalt, Stop, Jump
  <2>3. \A t \in Hart \ {h} : state'[t] = state[t]
    BY <1>3, <1>7 DEF EvHalt, Stop, Jump
  <2> QED
    BY <1>2, <2>1, <2>2, <2>3 DEF GoneInv
<1>8. CASE /\ state' = state /\ gone' = gone /\ op' = op
           /\ todo' = todo \/ todo' = [todo EXCEPT ![h] = @ \ {Target(h)}]
  BY <1>3, <1>8 DEF GoneInv
<1>13. CASE SendDone(h)
  <2>1. state' = state /\ gone' = gone /\ todo' = todo /\ todo[h] = {}
    BY <1>13 DEF SendDone
  <2> QED
    BY <1>1, <2>1 DEF GoneInv, Others
<1>9. CASE \/ SendPlain(h) \/ FenceSelf(h) \/ FenceUpdate(h) \/ FenceEnqueue(h)
           \/ SetBit(h) \/ Raise(h) \/ Sync(h)
  <2>1. state' = state /\ gone' = gone /\ op' = op
        /\ (todo' = todo \/ todo' = [todo EXCEPT ![h] = @ \ {Target(h)}])
    BY <1>9 DEF SendPlain, FenceSelf, FenceUpdate, FenceEnqueue, SetBit, Raise, Sync
  <2> QED
    BY <1>8, <2>1
<1>10. CASE \/ DequeueEmpty(h) \/ Dequeue(h) \/ Acknowledge(h) \/ ClearMsip(h) \/ TakeBits(h)
            \/ EvSmode(h) \/ EvTlb(h) \/ EvDone(h) \/ HartWait(h) \/ InitIpi(h) \/ InitTlb(h)
            \/ ClearSmode(h)
  <2>1. state' = state /\ gone' = gone /\ todo' = todo /\ op' = op
    BY <1>10 DEF DequeueEmpty, Dequeue, Acknowledge, ClearMsip, TakeBits, EvSmode, EvTlb,
         EvDone, HartWait, InitIpi, InitTlb, ClearSmode
  <2> QED
    BY <1>8, <2>1
<1> QED
  BY <1>4, <1>5, <1>6, <1>7, <1>9, <1>10, <1>11, <1>12, <1>13 DEF Step, Smode

---------------------------------------------------------------------------
(* Acknowledgements. *)
LEMMA PostedKeep ==
    ASSUME NEW h \in Hart, Others(h)
    PROVE  \A g \in Hart \ {h} : (Posted(g)' <=> Posted(g)) /\ Target(g)' = Target(g)
BY DEF Others, Posted, Target

(* A step that neither posts nor acknowledges. *)
LEMMA AckQuiet ==
    ASSUME AckInv, VainInv, NEW h \in Hart, Others(h),
           fifo' = fifo, sync' = sync, acks' = acks,
           Posted(h)' <=> Posted(h), Posted(h) => todo'[h] = todo[h],
           \A g \in Hart : gone[g] \subseteq gone'[g] \/ ~Posted(g)
    PROVE  AckInv' /\ VainInv'
<1>1. \A s, t, i : Owed(s, t, i)' <=> Owed(s, t, i)
  BY DEF Owed
<1>2. \A g \in Hart : (Posted(g)' <=> Posted(g)) /\ (Posted(g) => Target(g)' = Target(g))
  BY PostedKeep DEF Target
<1>3. AckInv'
  <2>1. ASSUME NEW s \in Hart, NEW t \in Hart, NEW i \in 0 .. NumEntries, Owed(s, t, i)'
        PROVE  Posted(s)' /\ t = Target(s)' /\ sync'[s] = 0
    BY <1>1, <1>2, <2>1 DEF AckInv
  <2>2. ASSUME NEW s \in Hart, NEW t \in Hart, NEW i \in 0 .. NumEntries, NEW j \in 0 .. NumEntries,
               Owed(s, t, i)', Owed(s, t, j)'
        PROVE  i = j
    BY <1>1, <2>2 DEF AckInv
  <2>3. \A s \in Hart : sync'[s] = 1 => Posted(s)'
    BY <1>2 DEF AckInv
  <2> QED
    BY <2>1, <2>2, <2>3 DEF AckInv
<1>4. ASSUME NEW s \in Hart, NEW t \in Hart, Posted(s)', t = Target(s)', sync'[s] = 0,
             \A i \in 0 .. NumEntries : ~Owed(s, t, i)'
      PROVE  t \in gone'[s]
  <2>1. Posted(s) /\ t = Target(s)
    BY <1>2, <1>4
  <2>2. \A i \in 0 .. NumEntries : ~Owed(s, t, i)
    BY <1>1, <1>4
  <2>3. t \in gone[s]
    BY <1>4, <2>1, <2>2 DEF VainInv
  <2> QED
    BY <2>1, <2>3
<1>5. VainInv'
  BY <1>4 DEF VainInv
<1> QED
  BY <1>3, <1>5

(* A fence is merged into an entry or queued. *)
LEMMA AckPost ==
    ASSUME AckInv, VainInv, NEW h \in Hart, Others(h),
           NEW k \in 0 .. NumEntries, NEW u \in Hart, u = Target(h), sync[h] \in 0 .. 1,
           \A s, t \in Hart, i \in 0 .. NumEntries :
              Owed(s, t, i)' <=> Owed(s, t, i) \/ (s = h /\ t = u /\ i = k),
           sync' = sync, gone' = gone, todo' = todo, ~Posted(h), Posted(h)'
    PROVE  AckInv' /\ VainInv'
<1>1. \A g \in Hart : Target(g)' = Target(g)
  BY DEF Target
<1>2. \A g \in Hart \ {h} : Posted(g)' <=> Posted(g)
  BY PostedKeep
<1>3. sync[h] = 0 /\ \A t \in Hart, i \in 0 .. NumEntries : ~Owed(h, t, i)
  BY DEF AckInv
<1>4. ASSUME NEW s \in Hart, NEW t \in Hart, NEW i \in 0 .. NumEntries, Owed(s, t, i)'
      PROVE  Posted(s)' /\ t = Target(s)' /\ sync'[s] = 0
  <2>1. CASE s = h
    BY <1>1, <1>3, <1>4, <2>1
  <2>2. CASE s # h
    BY <1>1, <1>2, <1>4, <2>2 DEF AckInv
  <2> QED
    BY <2>1, <2>2
<1>5. ASSUME NEW s \in Hart, NEW t \in Hart, NEW i \in 0 .. NumEntries, NEW j \in 0 .. NumEntries,
             Owed(s, t, i)', Owed(s, t, j)'
      PROVE  i = j
  <2>1. CASE s = h
    BY <1>3, <1>5, <2>1
  <2>2. CASE s # h
    BY <1>5, <2>2 DEF AckInv
  <2> QED
    BY <2>1, <2>2
<1>6. \A s \in Hart : sync'[s] = 1 => Posted(s)'
  BY <1>2, <1>3 DEF AckInv
<1>7. AckInv'
  BY <1>4, <1>5, <1>6 DEF AckInv
<1>8. ASSUME NEW s \in Hart, NEW t \in Hart, Posted(s)', t = Target(s)', sync'[s] = 0,
             \A i \in 0 .. NumEntries : ~Owed(s, t, i)'
      PROVE  t \in gone'[s]
  <2>1. s # h
    BY <1>1, <1>8
  <2>2. Posted(s) /\ t = Target(s)
    BY <1>1, <1>2, <1>8, <2>1
  <2>3. \A i \in 0 .. NumEntries : ~Owed(s, t, i)
    BY <1>8
  <2> QED
    BY <1>8, <2>2, <2>3 DEF VainInv
<1>9. VainInv'
  BY <1>8 DEF VainInv
<1> QED
  BY <1>7, <1>9

LEMMA AckUpdate ==
    ASSUME TypeOK, Flow, AckInv, VainInv, NEW h \in Hart, FenceUpdate(h)
    PROVE  AckInv' /\ VainInv'
<1>1. Others(h)
  BY OthersKeep DEF Step
<1>2. /\ pc[h] = "send" /\ op[h] = "tlb" /\ ret[h] = "ev"
      /\ sync' = sync /\ acks' = acks /\ todo' = todo /\ op' = op /\ ret' = ret /\ gone' = gone
  BY DEF FenceUpdate, Sending, local, Flow, FlowOK
<1>3. ~Posted(h)
  BY <1>2 DEF Posted
<1> DEFINE n == TlbInfo(Limited(req[h]), h)
<1>4. PICK u : u = Target(h)
  OBVIOUS
<1>5. u \in Hart /\ n \in Entry
      /\ \/ /\ \E k \in 1 .. Len(fifo[u]) :
                 /\ fifo[u][k] \in Entry
                 /\ fifo' = [fifo EXCEPT ![u] = [fifo[u] EXCEPT ![k] = Merged(n, fifo[u][k])]]
            /\ pc' = [pc EXCEPT ![h] = "set"]
         \/ fifo' = fifo /\ pc' = [pc EXCEPT ![h] = "enq"]
  BY <1>4, UpdateEffect
<1>6. n.smask = {h}
  BY DEF TlbInfo
<1> HIDE DEF n
<1>7. CASE fifo' = fifo /\ pc' = [pc EXCEPT ![h] = "enq"]
  <2>1. ~Posted(h)'
    BY <1>2, <1>7 DEF Posted, TypeOK
  <2> QED
    BY <1>1, <1>2, <1>3, <1>7, <2>1, AckQuiet
<1>8. CASE /\ \E k \in 1 .. Len(fifo[u]) :
                 /\ fifo[u][k] \in Entry
                 /\ fifo' = [fifo EXCEPT ![u] = [fifo[u] EXCEPT ![k] = Merged(n, fifo[u][k])]]
           /\ pc' = [pc EXCEPT ![h] = "set"]
  <2>1. PICK k \in 1 .. Len(fifo[u]) :
           /\ fifo[u][k] \in Entry
           /\ fifo' = [fifo EXCEPT ![u] = [fifo[u] EXCEPT ![k] = Merged(n, fifo[u][k])]]
    BY <1>8
  <2>2. fifo \in [Hart -> Seq(Entry)] /\ fifo[u] \in Seq(Entry) /\ Len(fifo[u]) <= NumEntries
    BY <1>5 DEF TypeOK
  <2>3. Len(fifo[u]) \in Nat
    BY <2>2
  <2>4. k \in 0 .. NumEntries /\ k # 0
    BY <2>2, <2>3, Sizes
  <2>5. Merged(n, fifo[u][k]) \in Entry /\ Merged(n, fifo[u][k]).smask = fifo[u][k].smask \cup {h}
    BY <1>5, <1>6, <2>1, MergedEntry
  <2>6. /\ \A g \in Hart \ {u} : fifo'[g] = fifo[g]
        /\ fifo'[u] = [fifo[u] EXCEPT ![k] = Merged(n, fifo[u][k])]
    BY <1>5, <2>1, <2>2
  <2>7. /\ Len(fifo'[u]) = Len(fifo[u])
        /\ \A i \in 1 .. Len(fifo[u]) :
             fifo'[u][i] = IF i = k THEN Merged(n, fifo[u][k]) ELSE fifo[u][i]
    BY <2>2, <2>5, <2>6, ExceptSeq
  <2>8. ASSUME NEW s \in Hart, NEW t \in Hart, NEW i \in 0 .. NumEntries
        PROVE  Owed(s, t, i)' <=> Owed(s, t, i) \/ (s = h /\ t = u /\ i = k)
    <3>1. CASE t # u \/ i = 0
      BY <1>2, <2>4, <2>6, <3>1 DEF Owed
    <3>2. CASE t = u /\ i # 0
      <4>1. i <= Len(fifo[u]) => i \in 1 .. Len(fifo[u])
        BY <2>3, <3>2
      <4>2. i = k => i <= Len(fifo[u])
        BY <2>3
      <4>3. CASE i <= Len(fifo[u])
        <5>1. fifo'[u][i].smask = IF i = k THEN fifo[u][k].smask \cup {h} ELSE fifo[u][i].smask
          BY <2>5, <2>7, <4>1, <4>3
        <5> QED
          BY <2>7, <3>2, <4>3, <5>1 DEF Owed
      <4>4. CASE ~(i <= Len(fifo[u]))
        BY <2>7, <3>2, <4>2, <4>4 DEF Owed
      <4> QED
        BY <4>3, <4>4
    <3> QED
      BY <3>1, <3>2
  <2>9. Posted(h)'
    BY <1>2, <1>8 DEF Posted, TypeOK
  <2>10. sync[h] \in 0 .. 1
    BY DEF TypeOK
  <2> QED
    BY <1>1, <1>2, <1>3, <1>4, <1>5, <2>4, <2>8, <2>9, <2>10, AckPost
<1> QED
  BY <1>5, <1>7, <1>8

LEMMA AckEnqueue ==
    ASSUME TypeOK, Flow, AckInv, VainInv, NEW h \in Hart, FenceEnqueue(h)
    PROVE  AckInv' /\ VainInv'
<1>1. Others(h)
  BY OthersKeep DEF Step
<1>2. /\ pc[h] = "enq" /\ op[h] = "tlb" /\ ret[h] = "ev" /\ todo[h] # {}
      /\ sync' = sync /\ acks' = acks /\ todo' = todo /\ op' = op /\ gone' = gone
  BY DEF FenceEnqueue, sender, hist, Flow, FlowOK
<1>3. ~Posted(h)
  BY <1>2 DEF Posted
<1>4. PICK u : u = Target(h)
  OBVIOUS
<1>5. u \in Hart
  BY <1>2, <1>4, TargetIn
<1>6. CASE ~HasSpace(u)
  <2>1. fifo' = fifo /\ pc' = [pc EXCEPT ![h] = "deq"] /\ ret' = [ret EXCEPT ![h] = "enq"]
    BY <1>4, <1>6 DEF FenceEnqueue, Goto
  <2>2. ~Posted(h)'
    BY <2>1 DEF Posted, TypeOK
  <2> QED
    BY <1>1, <1>2, <1>3, <2>1, <2>2, AckQuiet
<1>7. CASE HasSpace(u)
  <2> DEFINE n == TlbInfo(req[h], h)
             k == Len(fifo[u]) + 1
  <2>1. /\ fifo' = [fifo EXCEPT ![u] = Append(fifo[u], n)]
        /\ pc' = [pc EXCEPT ![h] = "set"] /\ ret' = ret
    BY <1>4, <1>7 DEF FenceEnqueue, Goto
  <2>2. n \in Entry /\ n.smask = {h}
    BY TlbInfoEntry DEF TypeOK, TlbInfo
  <2>3. fifo \in [Hart -> Seq(Entry)] /\ fifo[u] \in Seq(Entry) /\ Len(fifo[u]) < NumEntries
    BY <1>5, <1>7 DEF TypeOK, HasSpace
  <2> HIDE DEF n
  <2>4. Len(fifo[u]) \in Nat
    BY <2>3
  <2>5. k \in 0 .. NumEntries
    BY <2>3, <2>4, Sizes
  <2>6. fifo'[u] = Append(fifo[u], n) /\ \A g \in Hart \ {u} : fifo'[g] = fifo[g]
    BY <1>5, <2>1, <2>3
  <2>7. /\ Len(fifo'[u]) = k /\ fifo'[u][k] = n
        /\ \A i \in 1 .. Len(fifo[u]) : fifo'[u][i] = fifo[u][i]
    BY <2>2, <2>3, <2>6, AppendProperties
  <2>8. ASSUME NEW s \in Hart, NEW t \in Hart, NEW i \in 0 .. NumEntries
        PROVE  Owed(s, t, i)' <=> Owed(s, t, i) \/ (s = h /\ t = u /\ i = k)
    <3>1. k # 0
      BY <2>4
    <3>2. CASE t # u \/ i = 0
      BY <1>2, <2>6, <3>1, <3>2 DEF Owed
    <3>3. CASE t = u /\ i # 0 /\ i <= Len(fifo[u])
      <4>1. i \in 1 .. Len(fifo[u]) /\ i <= k /\ i # k
        BY <2>4, <3>3
      <4> QED
        BY <2>7, <3>3, <4>1 DEF Owed
    <3>4. CASE t = u /\ i # 0 /\ ~(i <= Len(fifo[u]))
      <4>1. i <= k <=> i = k
        BY <2>4, <3>4
      <4> HIDE DEF k
      <4> QED
        BY <2>2, <2>7, <3>4, <4>1 DEF Owed
    <3> QED
      BY <3>2, <3>3, <3>4
  <2>9. Posted(h)'
    BY <1>2, <2>1 DEF Posted, TypeOK
  <2>10. sync[h] \in 0 .. 1
    BY DEF TypeOK
  <2> HIDE DEF k
  <2> QED
    BY <1>1, <1>2, <1>3, <1>4, <1>5, <2>5, <2>8, <2>9, <2>10, AckPost
<1> QED
  BY <1>6, <1>7

LEMMA AckSync ==
    ASSUME TypeOK, Flow, AckInv, VainInv, NEW h \in Hart, Sync(h)
    PROVE  AckInv' /\ VainInv'
<1>1. Others(h)
  BY OthersKeep DEF Step
<1>2. /\ pc[h] = "sync" /\ op[h] = "tlb" /\ ret[h] = "ev"
      /\ fifo' = fifo /\ acks' = acks /\ op' = op /\ gone' = gone
  BY DEF Sync, sender, hist, Flow, FlowOK
<1>3. Posted(h)
  BY <1>2 DEF Posted
<1>4. \A s, t, i : Owed(s, t, i)' <=> Owed(s, t, i)
  BY <1>2 DEF Owed
<1>5. \A g \in Hart \ {h} : (Posted(g)' <=> Posted(g)) /\ Target(g)' = Target(g)
  BY <1>1, PostedKeep
<1>6. CASE sync[h] # 1
  <2>1. /\ pc' = [pc EXCEPT ![h] = "deq"] /\ ret' = [ret EXCEPT ![h] = "sync"]
        /\ sync' = sync /\ todo' = todo
    BY <1>6 DEF Sync, Goto
  <2>2. Posted(h)'
    BY <2>1 DEF Posted, TypeOK
  <2> QED
    BY <1>1, <1>2, <1>3, <2>1, <2>2, AckQuiet
<1>7. CASE sync[h] = 1
  <2>1. sync' = [sync EXCEPT ![h] = 0] /\ pc' = [pc EXCEPT ![h] = "send"]
    BY <1>7 DEF Sync, NextTarget, Goto
  <2>2. sync'[h] = 0 /\ \A g \in Hart \ {h} : sync'[g] = sync[g]
    BY <2>1 DEF TypeOK
  <2>3. ~Posted(h)'
    BY <2>1 DEF Posted, TypeOK
  <2>4. \A t \in Hart, i \in 0 .. NumEntries : ~Owed(h, t, i)
    BY <1>7 DEF AckInv
  <2>5. ASSUME NEW s \in Hart, NEW t \in Hart, NEW i \in 0 .. NumEntries, Owed(s, t, i)'
        PROVE  Posted(s)' /\ t = Target(s)' /\ sync'[s] = 0
    <3>1. Owed(s, t, i) /\ s # h
      BY <1>4, <2>4, <2>5
    <3> QED
      BY <1>5, <2>2, <3>1 DEF AckInv
  <2>6. ASSUME NEW s \in Hart, NEW t \in Hart, NEW i \in 0 .. NumEntries, NEW j \in 0 .. NumEntries,
               Owed(s, t, i)', Owed(s, t, j)'
        PROVE  i = j
    BY <1>4, <2>6 DEF AckInv
  <2>7. \A s \in Hart : sync'[s] = 1 => Posted(s)'
    BY <1>5, <2>2 DEF AckInv
  <2>8. AckInv'
    BY <2>5, <2>6, <2>7 DEF AckInv
  <2>9. ASSUME NEW s \in Hart, NEW t \in Hart, Posted(s)', t = Target(s)', sync'[s] = 0,
               \A i \in 0 .. NumEntries : ~Owed(s, t, i)'
        PROVE  t \in gone'[s]
    <3>1. s # h
      BY <2>3, <2>9
    <3>2. Posted(s) /\ t = Target(s) /\ sync[s] = 0
      BY <1>5, <2>2, <2>9, <3>1
    <3>3. \A i \in 0 .. NumEntries : ~Owed(s, t, i)
      BY <1>4, <2>9
    <3> QED
      BY <1>2, <3>2, <3>3 DEF VainInv
  <2>10. VainInv'
    BY <2>9 DEF VainInv
  <2> QED
    BY <2>8, <2>10
<1> QED
  BY <1>6, <1>7

(* The entry that is taken out is still owed, by the hart that took it.     *)
LEMMA DequeueOwed ==
    ASSUME TypeOK, Flow, NEW h \in Hart, Dequeue(h),
           NEW s \in Hart, NEW t \in Hart, NEW i \in 0 .. NumEntries
    PROVE  /\ t # h => (Owed(s, t, i)' <=> Owed(s, t, i))
           /\ ~Owed(s, h, 0)
           /\ Owed(s, h, i)' <=> (i + 1 \in 0 .. NumEntries /\ Owed(s, h, i + 1))
<1>1. /\ Head(fifo[h]) = fifo[h][1] /\ 1 \in 1 .. Len(fifo[h])
      /\ fifo' = [fifo EXCEPT ![h] = Tail(fifo[h])]
      /\ Len(Tail(fifo[h])) = Len(fifo[h]) - 1
      /\ \A j \in 1 .. Len(fifo[h]) - 1 : Tail(fifo[h])[j] = fifo[h][j + 1]
  BY TypeDequeue
<1>2. acks' = [acks EXCEPT ![h] = Head(fifo[h]).smask] /\ acks[h] = {}
  BY DEF Dequeue, Flow, FlowOK
<1>3. DOMAIN fifo = Hart /\ DOMAIN acks = Hart /\ fifo[h] \in Seq(Entry) /\ Len(fifo[h]) <= NumEntries
  BY DEF TypeOK
<1>4. fifo'[h] = Tail(fifo[h]) /\ acks'[h] = fifo[h][1].smask
      /\ \A g \in Hart \ {h} : fifo'[g] = fifo[g] /\ acks'[g] = acks[g]
  BY <1>1, <1>2, <1>3
<1>5. Len(fifo[h]) \in Nat /\ NumEntries \in Nat
  BY <1>3, Sizes
<1>6. t # h => (Owed(s, t, i)' <=> Owed(s, t, i))
  BY <1>4 DEF Owed
<1>7. ~Owed(s, h, 0)
  BY <1>2 DEF Owed
<1>8. CASE i = 0
  <2>1. i + 1 = 1 /\ 1 \in 0 .. NumEntries /\ 1 <= Len(fifo[h])
    BY <1>1, <1>3, <1>5, <1>8
  <2> QED
    BY <1>4, <1>6, <1>7, <1>8, <2>1 DEF Owed
<1>9. CASE i # 0 /\ i + 1 <= Len(fifo[h])
  <2>1. i \in 1 .. Len(fifo[h]) - 1 /\ i <= Len(fifo[h]) - 1 /\ i + 1 \in 0 .. NumEntries /\ i + 1 # 0
    BY <1>3, <1>5, <1>9
  <2>2. fifo'[h][i] = fifo[h][i + 1] /\ Len(fifo'[h]) = Len(fifo[h]) - 1
    BY <1>1, <1>4, <2>1
  <2> QED
    BY <1>6, <1>7, <1>9, <2>1, <2>2 DEF Owed
<1>10. CASE i # 0 /\ ~(i + 1 <= Len(fifo[h]))
  <2>1. ~(i <= Len(fifo[h]) - 1) /\ i + 1 # 0
    BY <1>5, <1>10
  <2>2. Len(fifo'[h]) = Len(fifo[h]) - 1
    BY <1>1, <1>4
  <2> QED
    BY <1>6, <1>7, <1>10, <2>1, <2>2 DEF Owed
<1> QED
  BY <1>8, <1>9, <1>10

LEMMA AckDequeue ==
    ASSUME TypeOK, Flow, AckInv, VainInv, NEW h \in Hart, Dequeue(h)
    PROVE  AckInv' /\ VainInv'
<1>1. Others(h)
  BY OthersKeep DEF Step
<1>2. /\ pc[h] = "deq" /\ pc' = [pc EXCEPT ![h] = "ack"]
      /\ sync' = sync /\ op' = op /\ gone' = gone /\ ret' = ret /\ todo' = todo
  BY DEF Dequeue, sender, Goto
<1>3. \A g \in Hart : (Posted(g)' <=> Posted(g)) /\ Target(g)' = Target(g)
  BY <1>1, <1>2, PostedKeep DEF Posted, Target, TypeOK
<1>4. \A s, t \in Hart, i \in 0 .. NumEntries :
         /\ t # h => (Owed(s, t, i)' <=> Owed(s, t, i))
         /\ ~Owed(s, h, 0)
         /\ Owed(s, h, i)' <=> (i + 1 \in 0 .. NumEntries /\ Owed(s, h, i + 1))
  BY DequeueOwed
<1>5. ASSUME NEW s \in Hart, NEW t \in Hart, NEW i \in 0 .. NumEntries, Owed(s, t, i)'
      PROVE  Posted(s)' /\ t = Target(s)' /\ sync'[s] = 0
  BY <1>2, <1>3, <1>4, <1>5 DEF AckInv
<1>6. ASSUME NEW s \in Hart, NEW t \in Hart, NEW i \in 0 .. NumEntries, NEW j \in 0 .. NumEntries,
             Owed(s, t, i)', Owed(s, t, j)'
      PROVE  i = j
  <2>1. CASE t # h
    BY <1>4, <1>6, <2>1 DEF AckInv
  <2>2. CASE t = h
    <3>1. i + 1 = j + 1
      BY <1>4, <1>6, <2>2 DEF AckInv
    <3> QED
      BY <3>1
  <2> QED
    BY <2>1, <2>2
<1>7. \A s \in Hart : sync'[s] = 1 => Posted(s)'
  BY <1>2, <1>3 DEF AckInv
<1>8. AckInv'
  BY <1>5, <1>6, <1>7 DEF AckInv
<1>9. ASSUME NEW s \in Hart, NEW t \in Hart, Posted(s)', t = Target(s)', sync'[s] = 0,
             \A i \in 0 .. NumEntries : ~Owed(s, t, i)'
      PROVE  t \in gone'[s]
  <2>1. Posted(s) /\ t = Target(s) /\ sync[s] = 0
    BY <1>2, <1>3, <1>9
  <2>2. \A i \in 0 .. NumEntries : ~Owed(s, t, i)
    <3> SUFFICES ASSUME NEW i \in 0 .. NumEntries PROVE ~Owed(s, t, i)
      OBVIOUS
    <3>1. CASE t # h \/ i = 0
      BY <1>4, <1>9, <3>1
    <3>2. CASE t = h /\ i # 0
      <4>1. i - 1 \in 0 .. NumEntries /\ (i - 1) + 1 = i
        BY <3>2, Sizes
      <4> QED
        BY <1>4, <1>9, <3>2, <4>1
    <3> QED
      BY <3>1, <3>2
  <2> QED
    BY <1>2, <2>1, <2>2 DEF VainInv
<1>10. VainInv'
  BY <1>9 DEF VainInv
<1> QED
  BY <1>8, <1>10


LEMMA AckAcknowledge ==
    ASSUME TypeOK, Flow, AckInv, VainInv, NEW h \in Hart, Acknowledge(h)
    PROVE  AckInv' /\ VainInv'
<1>1. Others(h)
  BY OthersKeep DEF Step
<1>2. /\ pc[h] = "ack" /\ fifo' = fifo /\ op' = op /\ gone' = gone /\ todo' = todo
  BY DEF Acknowledge, sender, hist
<1> DEFINE r == Lowest(acks[h])
<1>3. /\ r \in acks[h] /\ r \in Hart
      /\ sync' = [sync EXCEPT ![r] = 1] /\ acks' = [acks EXCEPT ![h] = @ \ {r}]
      /\ \/ /\ ret[h] # "ev" /\ pc' = [pc EXCEPT ![h] = ret[h]]
            /\ ret' = [ret EXCEPT ![h] = "ev"]
         \/ pc' = [pc EXCEPT ![h] = "deq"] /\ ret' = ret
         \/ pc' = pc /\ ret' = ret
  BY AckEffect
<1> HIDE DEF r
<1>4. DOMAIN sync = Hart /\ DOMAIN acks = Hart /\ DOMAIN pc = Hart /\ DOMAIN ret = Hart
      /\ 0 \in 0 .. NumEntries /\ ret[h] \in {"enq", "sync", "ev"}
  BY Sizes DEF TypeOK
<1>5. sync'[r] = 1 /\ \A g \in Hart \ {r} : sync'[g] = sync[g]
  BY <1>3, <1>4
<1>6. Posted(h)' <=> Posted(h)
  <2>1. ret[h] # "ev" => op[h] = "tlb"
    BY DEF Flow, FlowOK
  <2> QED
    BY <1>2, <1>3, <1>4, <2>1 DEF Posted
<1>7. \A g \in Hart : (Posted(g)' <=> Posted(g)) /\ Target(g)' = Target(g)
  BY <1>1, <1>2, <1>6, PostedKeep DEF Target
<1>8. \A s, t \in Hart, i \in 0 .. NumEntries :
         Owed(s, t, i)' <=> Owed(s, t, i) /\ ~(s = r /\ t = h /\ i = 0)
  BY <1>2, <1>3, <1>4 DEF Owed
<1>9. Owed(r, h, 0)
  BY <1>3 DEF Owed
<1>10. Posted(r) /\ \A t \in Hart, i \in 0 .. NumEntries : Owed(r, t, i) => t = h /\ i = 0
  BY <1>3, <1>4, <1>9 DEF AckInv
<1>11. ASSUME NEW s \in Hart, NEW t \in Hart, NEW i \in 0 .. NumEntries, Owed(s, t, i)'
       PROVE  Posted(s)' /\ t = Target(s)' /\ sync'[s] = 0
  <2>1. Owed(s, t, i) /\ s # r
    BY <1>8, <1>10, <1>11
  <2> QED
    BY <1>5, <1>7, <2>1 DEF AckInv
<1>12. ASSUME NEW s \in Hart, NEW t \in Hart, NEW i \in 0 .. NumEntries, NEW j \in 0 .. NumEntries,
              Owed(s, t, i)', Owed(s, t, j)'
       PROVE  i = j
  BY <1>8, <1>12 DEF AckInv
<1>13. \A s \in Hart : sync'[s] = 1 => Posted(s)'
  BY <1>5, <1>7, <1>10 DEF AckInv
<1>14. AckInv'
  BY <1>11, <1>12, <1>13 DEF AckInv
<1>15. ASSUME NEW s \in Hart, NEW t \in Hart, Posted(s)', t = Target(s)', sync'[s] = 0,
              \A i \in 0 .. NumEntries : ~Owed(s, t, i)'
       PROVE  t \in gone'[s]
  <2>1. s # r
    BY <1>5, <1>15
  <2>2. Posted(s) /\ t = Target(s) /\ sync[s] = 0
    BY <1>5, <1>7, <1>15, <2>1
  <2>3. \A i \in 0 .. NumEntries : ~Owed(s, t, i)
    BY <1>8, <1>15, <2>1
  <2> QED
    BY <1>2, <2>2, <2>3 DEF VainInv
<1>16. VainInv'
  BY <1>15 DEF VainInv
<1> QED
  BY <1>14, <1>16

(* A hart that starts again throws its queue away: only harts that saw it   *)
(* stop lose an entry.                                                      *)
LEMMA AckInitTlb ==
    ASSUME TypeOK, Flow, AckInv, GoneInv, VainInv, NEW h \in Hart, InitTlb(h)
    PROVE  AckInv' /\ VainInv'
<1>1. Others(h)
  BY OthersKeep DEF Step
<1>2. /\ pc[h] = "init_tlb" /\ acks[h] = {} /\ ret[h] = "ev" /\ state[h] = "START_PENDING"
      /\ pc' = [pc EXCEPT ![h] = "jump"] /\ acks' = acks /\ gone' = gone /\ todo' = todo
      /\ op' = op /\ ret' = ret
      /\ fifo' = [fifo EXCEPT ![h] = << >>] /\ sync' = [sync EXCEPT ![h] = 0]
  BY DEF InitTlb, Goto, sender, local, hist, Flow, FlowOK, Starting
<1>3. DOMAIN fifo = Hart /\ DOMAIN sync = Hart /\ DOMAIN pc = Hart
  BY DEF TypeOK
<1>4. ~Posted(h) /\ ~Posted(h)'
  BY <1>2, <1>3 DEF Posted
<1>5. \A g \in Hart : (Posted(g)' <=> Posted(g)) /\ Target(g)' = Target(g)
  BY <1>1, <1>2, <1>4, PostedKeep DEF Target
<1>6. \A g \in Hart \ {h} : sync'[g] = sync[g] /\ fifo'[g] = fifo[g]
  BY <1>2, <1>3
<1>7. \A s, t \in Hart, i \in 0 .. NumEntries : Owed(s, t, i)' <=> Owed(s, t, i) /\ t # h
  <2> SUFFICES ASSUME NEW s \in Hart, NEW t \in Hart, NEW i \in 0 .. NumEntries
               PROVE  Owed(s, t, i)' <=> Owed(s, t, i) /\ t # h
    OBVIOUS
  <2>1. CASE t # h
    BY <1>2, <1>6, <2>1 DEF Owed
  <2>2. CASE t = h
    <3>1. fifo'[h] = << >> /\ Len(<< >>) = 0 /\ (i # 0 => ~(i <= 0))
      BY <1>2, <1>3, Sizes
    <3> QED
      BY <1>2, <2>2, <3>1 DEF Owed
  <2> QED
    BY <2>1, <2>2
<1>8. ASSUME NEW s \in Hart, NEW t \in Hart, NEW i \in 0 .. NumEntries, Owed(s, t, i)'
      PROVE  Posted(s)' /\ t = Target(s)' /\ sync'[s] = 0
  <2>1. Owed(s, t, i) /\ Posted(s) /\ t = Target(s) /\ sync[s] = 0
    BY <1>7, <1>8 DEF AckInv
  <2>2. s # h
    BY <1>4, <2>1
  <2> QED
    BY <1>5, <1>6, <2>1, <2>2
<1>9. ASSUME NEW s \in Hart, NEW t \in Hart, NEW i \in 0 .. NumEntries, NEW j \in 0 .. NumEntries,
             Owed(s, t, i)', Owed(s, t, j)'
      PROVE  i = j
  BY <1>7, <1>9 DEF AckInv
<1>10. \A s \in Hart : sync'[s] = 1 => Posted(s)'
  BY <1>2, <1>3, <1>5, <1>6 DEF AckInv
<1>11. AckInv'
  BY <1>8, <1>9, <1>10 DEF AckInv
<1>12. ASSUME NEW s \in Hart, NEW t \in Hart, Posted(s)', t = Target(s)', sync'[s] = 0,
              \A i \in 0 .. NumEntries : ~Owed(s, t, i)'
       PROVE  t \in gone'[s]
  <2>1. Posted(s) /\ t = Target(s) /\ s # h
    BY <1>4, <1>5, <1>12
  <2>2. CASE t = h
    <3>1. todo[s] # {} /\ op[s] # "start"
      BY <2>1 DEF Posted, Flow, FlowOK
    <3>2. t \in todo[s]
      BY <2>1, <3>1, TargetIn
    <3> QED
      BY <1>2, <2>2, <3>1, <3>2 DEF GoneInv
  <2>3. CASE t # h
    <3>1. \A i \in 0 .. NumEntries : ~Owed(s, t, i)
      BY <1>7, <1>12, <2>3
    <3>2. sync[s] = 0
      BY <1>6, <1>12, <2>1
    <3> QED
      BY <1>2, <2>1, <3>1, <3>2 DEF VainInv
  <2> QED
    BY <2>2, <2>3
<1>13. VainInv'
  BY <1>12 DEF VainInv
<1> QED
  BY <1>11, <1>13

LEMMA AckRest ==
    ASSUME TypeOK, Flow, AckInv, VainInv, NEW h \in Hart,
           \/ SendDone(h) \/ SendPlain(h) \/ FenceSelf(h) \/ SetBit(h) \/ Raise(h)
           \/ DequeueEmpty(h) \/ ClearMsip(h) \/ TakeBits(h) \/ EvSmode(h) \/ EvHalt(h)
           \/ EvTlb(h) \/ EvDone(h) \/ HsmExit(h) \/ InitIpi(h) \/ Jump(h) \/ Smode(h)
           \/ ReadState(h) \/ StartIpi(h) \/ HartWait(h)
    PROVE  AckInv' /\ VainInv'
<1>1. Others(h)
  BY OthersKeep DEF Step
<1>2. /\ DOMAIN pc = Hart /\ DOMAIN ret = Hart /\ DOMAIN op = Hart /\ DOMAIN todo = Hart
      /\ DOMAIN gone = Hart /\ ret[h] \in {"enq", "sync", "ev"}
  BY DEF TypeOK
<1>3. FlowOK(h)
  BY DEF Flow
<1> USE DEF Goto, NextTarget, shared, sender, local, hist, bound
<1>4. CASE /\ fifo' = fifo /\ sync' = sync /\ acks' = acks
           /\ Posted(h)' <=> Posted(h)
           /\ Posted(h) => todo'[h] = todo[h]
           /\ \A g \in Hart : gone[g] \subseteq gone'[g] \/ ~Posted(g)
  BY <1>1, <1>4, AckQuiet
<1>5. CASE SendDone(h) \/ SendPlain(h) \/ FenceSelf(h)
  <2>1. fifo' = fifo /\ sync' = sync /\ acks' = acks /\ gone' = gone /\ ret' = ret
    BY <1>5 DEF SendDone, SendPlain, FenceSelf
  <2>2. pc[h] = "send" /\ ret[h] = "ev"
    BY <1>3, <1>5 DEF FlowOK, Sending, SendDone, SendPlain, FenceSelf
  <2>3. CASE SendPlain(h)
    BY <1>2, <1>4, <2>1, <2>2, <2>3 DEF SendPlain, Posted
  <2>4. CASE SendDone(h) \/ FenceSelf(h)
    <3>1. pc'[h] \in {"run", "send"}
      BY <1>2, <2>4 DEF SendDone, FenceSelf
    <3> QED
      BY <1>4, <2>1, <2>2, <3>1 DEF Posted
  <2> QED
    BY <1>5, <2>3, <2>4
<1>6. CASE SetBit(h) \/ Raise(h)
  <2>1. fifo' = fifo /\ sync' = sync /\ acks' = acks /\ gone' = gone /\ ret' = ret /\ op' = op
    BY <1>6 DEF SetBit, Raise
  <2>2. pc[h] \in {"set", "raise"} /\ ret[h] = "ev"
    BY <1>3, <1>6 DEF FlowOK, SetBit, Raise
  <2>3. CASE SetBit(h)
    BY <1>2, <1>4, <2>1, <2>2, <2>3 DEF SetBit, Posted
  <2>4. CASE Raise(h) /\ op[h] = "tlb"
    BY <1>2, <1>4, <2>1, <2>2, <2>4 DEF Raise, Posted
  <2>5. CASE Raise(h) /\ op[h] # "tlb"
    BY <1>2, <1>4, <2>1, <2>2, <2>5 DEF Raise, Posted
  <2> QED
    BY <1>6, <2>3, <2>4, <2>5
<1>7. CASE DequeueEmpty(h)
  <2>1. /\ fifo' = fifo /\ sync' = sync /\ acks' = acks /\ gone' = gone /\ op' = op /\ todo' = todo
        /\ pc[h] = "deq" /\ pc'[h] = ret[h] /\ ret'[h] = "ev"
    BY <1>2, <1>7 DEF DequeueEmpty
  <2>2. Posted(h)' <=> Posted(h)
    BY <1>2, <1>3, <2>1 DEF Posted, FlowOK
  <2> QED
    BY <1>4, <2>1, <2>2
<1>8. CASE \/ ClearMsip(h) \/ TakeBits(h) \/ EvSmode(h) \/ EvHalt(h) \/ EvTlb(h) \/ EvDone(h)
           \/ HartWait(h) \/ InitIpi(h) \/ Jump(h) \/ ClearSmode(h) \/ Stop(h) \/ Start(h) \/ StartIpi(h)
  <2>1. /\ fifo' = fifo /\ sync' = sync /\ acks' = acks /\ gone' = gone
        /\ ret' = ret /\ pc[h] \in Resting \cup {"start"}
    BY <1>8 DEF ClearMsip, TakeBits, EvSmode, EvHalt, EvTlb, EvDone, HartWait, InitIpi, Jump,
         ClearSmode, Stop, Start, StartIpi, Resting
  <2>2. pc'[h] \in Resting \cup {"deq", "start"}
    BY <1>2, <1>8 DEF ClearMsip, TakeBits, EvSmode, EvHalt, EvTlb, EvDone, HartWait, InitIpi, Jump,
         ClearSmode, Stop, Start, StartIpi, Resting
  <2>3. ret[h] = "ev"
    BY <1>3, <2>1 DEF FlowOK, Resting
  <2> QED
    BY <1>4, <2>1, <2>2, <2>3 DEF Posted, Resting
<1>9. CASE HsmExit(h)
  <2>1. /\ fifo' = fifo /\ sync' = sync /\ acks' = acks /\ op' = op /\ todo' = todo
        /\ ret' = ret /\ pc[h] = "stop" /\ pc'[h] = "off" /\ \A g \in Hart : gone[g] \subseteq gone'[g]
    BY <1>2, <1>9 DEF HsmExit
  <2>2. ret[h] = "ev"
    BY <1>3, <2>1 DEF FlowOK
  <2> QED
    BY <1>4, <2>1, <2>2 DEF Posted
<1>10. CASE Fence(h) \/ SendEvent(h)
  <2>1. /\ fifo' = fifo /\ sync' = sync /\ acks' = acks /\ ret' = ret
        /\ pc[h] = "run" /\ pc'[h] = "send" /\ gone' = [gone EXCEPT ![h] = {}]
    BY <1>2, <1>10 DEF Fence, SendEvent, Call
  <2>2. ret[h] = "ev"
    BY <1>3, <2>1 DEF FlowOK
  <2>3. ~Posted(h) /\ ~Posted(h)'
    BY <2>1, <2>2 DEF Posted
  <2>4. \A g \in Hart : gone[g] \subseteq gone'[g] \/ ~Posted(g)
    BY <1>2, <2>1, <2>3
  <2> QED
    BY <1>4, <2>1, <2>3, <2>4
<1>11. CASE ReadState(h)
  <2>1. /\ fifo' = fifo /\ sync' = sync /\ acks' = acks /\ ret' = ret /\ pc' = pc /\ pc[h] = "send"
        /\ \A g \in Hart \ {h} : gone'[g] = gone[g]
    BY <1>2, <1>11 DEF ReadState
  <2>2. ret[h] = "ev"
    BY <1>3, <2>1 DEF FlowOK
  <2>3. ~Posted(h) /\ ~Posted(h)'
    BY <2>1, <2>2 DEF Posted
  <2> QED
    BY <1>4, <2>1, <2>3
<1> QED
  BY <1>5, <1>6, <1>7, <1>8, <1>9, <1>10, <1>11 DEF Smode

LEMMA AckStep ==
    ASSUME TypeOK, Flow, AckInv, GoneInv, VainInv, NEW h \in Hart, Step(h) \/ Smode(h)
    PROVE  AckInv' /\ VainInv'
BY AckUpdate, AckEnqueue, AckSync, AckDequeue, AckAcknowledge, AckInitTlb, AckRest DEF Step

LEMMA AckStarts == Init => AckInv /\ GoneInv /\ VainInv
<1> SUFFICES ASSUME Init PROVE AckInv /\ GoneInv /\ VainInv
  OBVIOUS
<1>1. \A s, t \in Hart, i \in 0 .. NumEntries : ~Owed(s, t, i)
  <2>1. Len(<< >>) = 0 /\ \A i \in 0 .. NumEntries : i # 0 => ~(i <= 0)
    BY Sizes
  <2> QED
    BY <2>1 DEF Init, Owed
<1>2. \A s \in Hart : ~Posted(s) /\ sync[s] = 0 /\ todo[s] = {}
  BY DEF Init, Posted
<1> QED
  BY <1>1, <1>2 DEF AckInv, GoneInv, VainInv

LEMMA AckNext ==
    TypeOK /\ Flow /\ AckInv /\ GoneInv /\ VainInv /\ [Next]_vars => AckInv' /\ GoneInv' /\ VainInv'
<1> SUFFICES ASSUME TypeOK, Flow, AckInv, GoneInv, VainInv, [Next]_vars
             PROVE  AckInv' /\ GoneInv' /\ VainInv'
  OBVIOUS
<1>1. CASE UNCHANGED vars
  <2>1. /\ fifo' = fifo /\ acks' = acks /\ sync' = sync /\ todo' = todo /\ gone' = gone
        /\ pc' = pc /\ op' = op /\ ret' = ret /\ state' = state
    BY <1>1 DEF vars, shared, sender, local, hist
  <2>2. GoneInv'
    BY <2>1 DEF GoneInv
  <2>3. \A s, t, i : Owed(s, t, i)' <=> Owed(s, t, i)
    BY <2>1 DEF Owed
  <2>4. \A s : (Posted(s)' <=> Posted(s)) /\ Target(s)' = Target(s)
    BY <2>1 DEF Posted, Target
  <2>5. AckInv'
    BY <2>1, <2>3, <2>4 DEF AckInv
  <2>6. VainInv'
    BY <2>1, <2>3, <2>4 DEF VainInv
  <2> QED
    BY <2>2, <2>5, <2>6
<1>2. CASE Next
  BY <1>2, AckStep, GoneStep DEF Next
<1> QED
  BY <1>1, <1>2

LEMMA AckInductive == Spec => [](TypeOK /\ Flow /\ AckInv /\ GoneInv /\ VainInv)
BY BaseStarts, BaseStep, AckStarts, AckNext, PTL DEF Spec

LEMMA AckImplies == TypeOK /\ AckInv => AckIsMine
<1> SUFFICES ASSUME TypeOK, AckInv, NEW s \in Hart
             PROVE  Cardinality(Owing(s)) + sync[s] <= (IF Posted(s) THEN 1 ELSE 0)
  BY DEF AckIsMine
<1>1. sync[s] \in 0 .. 1
  BY DEF TypeOK
<1>2. \A o \in Owing(s) : /\ o \in Hart \X (0 .. NumEntries) /\ o[1] \in Hart
                          /\ o[2] \in 0 .. NumEntries /\ Owed(s, o[1], o[2])
                          /\ Posted(s) /\ o[1] = Target(s) /\ sync[s] = 0
  BY DEF Owing, AckInv
<1>3. CASE Owing(s) = {}
  <2>1. Cardinality(Owing(s)) = 0
    BY <1>3, FS_EmptySet
  <2>2. sync[s] = 1 => Posted(s)
    BY DEF AckInv
  <2> QED
    BY <1>1, <2>1, <2>2
<1>4. CASE Owing(s) # {}
  <2>1. PICK a \in Owing(s) : TRUE
    BY <1>4
  <2>2. \A b \in Owing(s) : b = a
    <3> SUFFICES ASSUME NEW b \in Owing(s) PROVE b = a
      OBVIOUS
    <3>1. a[1] = b[1]
      BY <1>2
    <3>2. a[2] = b[2]
      BY <1>2, <3>1 DEF AckInv
    <3> QED
      BY <1>2, <3>1, <3>2
  <2>3. Owing(s) = {a}
    BY <2>2
  <2>4. Cardinality(Owing(s)) = 1
    BY <2>3, FS_Singleton
  <2>5. Posted(s) /\ sync[s] = 0
    BY <1>2, <2>1
  <2> QED
    BY <2>4, <2>5
<1> QED
  BY <1>3, <1>4

(* sbi_tlb_sync returns for the acknowledgement of its own fence only:      *)
(* sbi_tlb_entry_process never leaves a hart a second one, however entries  *)
(* are merged, drained by other loops or thrown away by sbi_tlb_init.       *)
THEOREM AcknowledgementsAreMine == Spec => []AckIsMine
BY AckInductive, AckImplies, PTL

LEMMA VainImplies == TypeOK /\ Flow /\ VainInv => WaitsInVainOnlyForStopped
<1> SUFFICES ASSUME TypeOK, Flow, VainInv, NEW s \in Hart, Posted(s), Owing(s) = {}, sync[s] = 0
             PROVE  Target(s) \in gone[s]
  BY DEF WaitsInVainOnlyForStopped
<1>1. todo[s] # {}
  BY DEF Posted, Flow, FlowOK
<1>2. PICK t \in Hart : t = Target(s)
  BY <1>1, TargetIn
<1>3. \A i \in 0 .. NumEntries : ~Owed(s, t, i)
  <2> SUFFICES ASSUME NEW i \in 0 .. NumEntries, Owed(s, t, i) PROVE FALSE
    OBVIOUS
  <2>1. <<t, i>> \in Owing(s)
    BY DEF Owing
  <2> QED
    BY <2>1
<1> QED
  BY <1>2, <1>3 DEF VainInv

(* A fence in sbi_tlb_sync that nobody will acknowledge was sent to a hart  *)
(* that stopped after sbi_ipi_send_many had read the hart mask; in-place    *)
(* updates, full queues and events lose no fence.                           *)
THEOREM VainWaitsAreForStopped == Spec => []WaitsInVainOnlyForStopped
BY AckInductive, VainImplies, PTL

---------------------------------------------------------------------------
(* Posted fences and the interrupts that announce them. *)
LEMMA PostingKeep ==
    ASSUME NEW h \in Hart, Others(h), NEW t, NEW P, pc[h] \notin P, Posting(t, P)
    PROVE  Posting(t, P)'
BY DEF Others, Posting, Target

(* Nobody but a hart in "set" or "raise" takes its announcement back.       *)
LEMMA AnnouncedKeep ==
    ASSUME NEW h \in Hart, Others(h), pc[h] \notin {"set", "raise"}, NEW t \in Hart
    PROVE  /\ Flag(t) /\ ("tlb" \in ipi_type[t] => "tlb" \in ipi_type'[t]) => Flag(t)'
           /\ Bell(t) /\ (msip[t] => msip'[t]) => Bell(t)'
<1>1. Posting(t, {"set"}) => Posting(t, {"set"})'
  BY PostingKeep
<1>2. Posting(t, {"set", "raise"}) => Posting(t, {"set", "raise"})'
  BY PostingKeep
<1> QED
  BY <1>1, <1>2 DEF Flag, Bell

LEMMA LostOthers ==
    ASSUME LostInv, NEW h \in Hart, Others(h), pc[h] \notin {"set", "raise"},
           NEW t \in Hart \ {h}, fifo'[t] = fifo[t],
           "tlb" \in ipi_type[t] => "tlb" \in ipi_type'[t], msip[t] => msip'[t]
    PROVE  LostOK(t)'
<1>1. (Flag(t) => Flag(t)') /\ (Bell(t) => Bell(t)')
  BY AnnouncedKeep
<1>2. /\ pc'[t] = pc[t] /\ bits'[t] = bits[t] /\ ret'[t] = ret[t]
      /\ state'[t] = "STARTED" => state[t] = "STARTED"
  BY DEF Others
<1>3. LostOK(t)
  BY DEF LostInv
<1> QED
  BY <1>1, <1>2, <1>3 DEF LostOK, Attentive

(* A fence that was just merged or queued is announced next.                *)
LEMMA LostPosted ==
    ASSUME NEW t \in Hart, NEW h \in Hart, pc'[h] = "set", op'[h] = "tlb", t = Target(h)'
    PROVE  LostOK(t)'
<1>1. Posting(t, {"set"})' /\ Posting(t, {"set", "raise"})'
  BY DEF Posting
<1> QED
  BY <1>1 DEF LostOK, Flag, Bell

(* Sending and waiting: the hart is attentive before and after. *)
LEMMA LostSend ==
    ASSUME TypeOK, Flow, LostInv, NEW h \in Hart,
           \/ ReadState(h) \/ SendDone(h) \/ SendPlain(h) \/ FenceSelf(h) \/ Sync(h) \/ Jump(h)
           \/ Start(h) \/ StartIpi(h)
           \/ Fence(h) \/ SendEvent(h) \/ ClearSmode(h) \/ Dequeue(h) \/ Acknowledge(h)
    PROVE  LostInv'
<1>1. Others(h)
  BY OthersKeep DEF Step, Smode
<1> USE DEF Goto, NextTarget, shared, sender, local, hist, bound
<1>2. ipi_type' = ipi_type /\ pc[h] \notin {"set", "raise"}
  BY DEF ReadState, SendDone, SendPlain, FenceSelf, Sync, Jump, Start, StartIpi, Fence, SendEvent, Call,
         ClearSmode, Dequeue, Acknowledge, Sending
<1>3. DOMAIN pc = Hart /\ DOMAIN fifo = Hart /\ DOMAIN ret = Hart /\ ret[h] \in {"enq", "sync", "ev"}
      /\ DOMAIN msip = Hart
  BY DEF TypeOK
<1>9. ASSUME NEW t \in Hart PROVE msip[t] => msip'[t]
  <2>1. msip' = msip \/ msip' = [msip EXCEPT ![Target(h)] = TRUE]
    BY DEF ReadState, SendDone, SendPlain, FenceSelf, Sync, Jump, Start, StartIpi, Fence, SendEvent, Call,
         ClearSmode, Dequeue, Acknowledge
  <2> QED
    BY <1>3, <2>1
<1>4. /\ \A t \in Hart \ {h} : fifo'[t] = fifo[t]
      /\ fifo'[h] # << >> => fifo[h] # << >>
  BY <1>3 DEF ReadState, SendDone, SendPlain, FenceSelf, Sync, Jump, Start, StartIpi, Fence, SendEvent,
         Call, ClearSmode, Dequeue, Acknowledge
<1>5. (Attentive(h)' => Attentive(h)) /\ pc'[h] \notin {"take", "ev"}
  <2>1. CASE \/ ReadState(h) \/ SendDone(h) \/ SendPlain(h) \/ FenceSelf(h) \/ Sync(h) \/ Jump(h)
             \/ Start(h) \/ StartIpi(h) \/ Fence(h) \/ SendEvent(h) \/ ClearSmode(h)
    <3>1. pc[h] \in {"run", "send", "sync", "start", "jump"}
      BY <2>1 DEF ReadState, SendDone, SendPlain, FenceSelf, Sync, Jump, Start, StartIpi, Fence, SendEvent,
           Call, ClearSmode, Sending
    <3>2. pc'[h] \in {"run", "send", "set", "start", "deq"}
      BY <1>3, <2>1 DEF ReadState, SendDone, SendPlain, FenceSelf, Sync, Jump, Start, StartIpi, Fence,
           SendEvent, Call, ClearSmode, Sending
    <3> QED
      BY <3>1, <3>2 DEF Attentive
  <2>2. CASE Dequeue(h)
    BY <1>3, <2>2 DEF Dequeue, Attentive
  <2>3. CASE Acknowledge(h)
    <3>1. pc[h] = "ack"
      BY <2>3 DEF Acknowledge
    <3>2. \/ ret[h] # "ev" /\ pc' = [pc EXCEPT ![h] = ret[h]]
          \/ pc' = [pc EXCEPT ![h] = "deq"] /\ ret' = ret
          \/ pc' = pc /\ ret' = ret
      BY <2>3, AckEffect
    <3> QED
      BY <1>3, <3>1, <3>2 DEF Attentive
  <2> QED
    BY <2>1, <2>2, <2>3
<1>6. \A t \in Hart \ {h} : LostOK(t)'
  <2> SUFFICES ASSUME NEW t \in Hart \ {h} PROVE LostOK(t)'
    OBVIOUS
  <2>1. msip[t] => msip'[t]
    BY <1>9
  <2>2. fifo'[t] = fifo[t] /\ ("tlb" \in ipi_type[t] => "tlb" \in ipi_type'[t])
    BY <1>2, <1>4
  <2> QED
    BY <1>1, <1>2, <2>1, <2>2, LostOthers
<1>7. (Flag(h) => Flag(h)') /\ (Bell(h) => Bell(h)')
  <2>1. msip[h] => msip'[h]
    BY <1>9
  <2>2. "tlb" \in ipi_type[h] => "tlb" \in ipi_type'[h]
    BY <1>2
  <2> QED
    BY <1>1, <1>2, <2>1, <2>2, AnnouncedKeep
<1>8. LostOK(h)'
  BY <1>4, <1>5, <1>7 DEF LostInv, LostOK
<1> QED
  BY <1>6, <1>8 DEF LostInv

(* A fence is merged into an entry or queued. *)
LEMMA LostPost ==
    ASSUME TypeOK, Flow, LostInv, NEW h \in Hart, FenceUpdate(h) \/ FenceEnqueue(h)
    PROVE  LostInv'
<1>1. Others(h)
  BY OthersKeep DEF Step
<1>2. /\ ipi_type' = ipi_type /\ msip' = msip /\ todo' = todo /\ op' = op
      /\ pc[h] \in {"send", "enq"} /\ op[h] = "tlb" /\ todo[h] # {}
  BY DEF FenceUpdate, FenceEnqueue, Sending, sender, Flow, FlowOK
<1>3. DOMAIN pc = Hart /\ DOMAIN ret = Hart /\ fifo \in [Hart -> Seq(Entry)]
  BY DEF TypeOK
<1>4. PICK u : u = Target(h)
  OBVIOUS
<1>5. u \in Hart /\ u = Target(h)'
  BY <1>2, <1>4, TargetIn DEF Target
<1>6. \A t \in Hart : (Flag(t) => Flag(t)') /\ (Bell(t) => Bell(t)')
  BY <1>1, <1>2, AnnouncedKeep
<1>7. \/ /\ \E q : fifo' = [fifo EXCEPT ![u] = q]
         /\ pc' = [pc EXCEPT ![h] = "set"]
      \/ /\ fifo' = fifo
         /\ \/ pc' = [pc EXCEPT ![h] = "enq"] /\ ret' = ret
            \/ pc' = [pc EXCEPT ![h] = "deq"] /\ ret' = [ret EXCEPT ![h] = "enq"]
  <2>1. CASE FenceUpdate(h)
    <3>1. ret' = ret
      BY <2>1 DEF FenceUpdate, local
    <3> QED
      BY <1>4, <2>1, <3>1, UpdateEffect
  <2>2. CASE FenceEnqueue(h)
    BY <1>4, <2>2 DEF FenceEnqueue, Goto
  <2> QED
    BY <2>1, <2>2
<1>8. CASE /\ \E q : fifo' = [fifo EXCEPT ![u] = q]
           /\ pc' = [pc EXCEPT ![h] = "set"]
  <2>1. LostOK(u)'
    BY <1>2, <1>3, <1>5, <1>8, LostPosted
  <2>2. \A t \in Hart \ {u} : fifo'[t] = fifo[t]
    BY <1>3, <1>8
  <2>3. \A t \in Hart \ {h, u} : LostOK(t)'
    BY <1>1, <1>2, <2>2, LostOthers
  <2>4. h # u => LostOK(h)'
    <3>1. h # u => fifo'[h] = fifo[h]
      BY <2>2
    <3>2. pc'[h] = "set" /\ Attentive(h)
      BY <1>2, <1>3, <1>8 DEF Attentive
    <3> QED
      BY <1>6, <3>1, <3>2 DEF LostInv, LostOK
  <2> QED
    BY <2>1, <2>3, <2>4 DEF LostInv
<1>9. CASE fifo' = fifo /\ pc'[h] \in {"enq", "deq"}
  <2>1. \A t \in Hart \ {h} : LostOK(t)'
    BY <1>1, <1>2, <1>9, LostOthers
  <2>2. Attentive(h)
    BY <1>2 DEF Attentive
  <2>3. LostOK(h)'
    BY <1>6, <1>9, <2>2 DEF LostInv, LostOK
  <2> QED
    BY <2>1, <2>3 DEF LostInv
<1> QED
  BY <1>3, <1>7, <1>8, <1>9

(* The event bit is set before the interrupt is raised. *)
LEMMA LostAnnounce ==
    ASSUME TypeOK, Flow, LostInv, NEW h \in Hart, SetBit(h) \/ Raise(h)
    PROVE  LostInv'
<1>1. Others(h)
  BY OthersKeep DEF Step
<1>2. PICK u : u = Target(h)
  OBVIOUS
<1>3. DOMAIN pc = Hart /\ DOMAIN ipi_type = Hart /\ DOMAIN msip = Hart
  BY DEF TypeOK
<1>4. todo[h] # {} /\ u \in Hart
  BY <1>2, TargetIn DEF SetBit, Raise, Flow, FlowOK
<1>5. fifo' = fifo /\ pc[h] \in {"set", "raise"} /\ pc'[h] \in {"raise", "sync", "send"}
  BY <1>3 DEF SetBit, Raise, NextTarget, Goto
<1>6. ASSUME NEW t \in Hart
      PROVE  (Flag(t) => Flag(t)') /\ (Bell(t) => Bell(t)')
  <2>1. CASE SetBit(h)
    <3>1. /\ ipi_type' = [ipi_type EXCEPT ![u] = @ \cup {op[h]}] /\ msip' = msip
          /\ pc[h] = "set" /\ pc'[h] = "raise" /\ op' = op /\ todo' = todo
      BY <1>2, <1>3, <2>1 DEF SetBit, Goto, sender
    <3>2. \A g : Target(g)' = Target(g)
      BY <3>1 DEF Target
    <3>3. Posting(t, {"set"}) => Posting(t, {"set"})' \/ "tlb" \in ipi_type'[t]
      BY <1>1, <1>2, <1>3, <1>4, <3>1, <3>2 DEF Posting, Others
    <3>4. Posting(t, {"set", "raise"}) => Posting(t, {"set", "raise"})'
      BY <1>1, <3>1, <3>2 DEF Posting, Others
    <3>5. "tlb" \in ipi_type[t] => "tlb" \in ipi_type'[t]
      BY <1>3, <1>4, <3>1
    <3> QED
      BY <3>1, <3>3, <3>4, <3>5 DEF Flag, Bell
  <2>2. CASE Raise(h)
    <3>1. /\ msip' = [msip EXCEPT ![u] = TRUE] /\ ipi_type' = ipi_type /\ pc[h] = "raise"
      BY <1>2, <2>2 DEF Raise
    <3>2. \A g \in Hart \ {h} : pc'[g] = pc[g] /\ op'[g] = op[g] /\ Target(g)' = Target(g)
      BY <1>1 DEF Others, Target
    <3>3. Posting(t, {"set"}) => Posting(t, {"set"})'
      BY <3>1, <3>2 DEF Posting
    <3>4. Posting(t, {"set", "raise"}) => Posting(t, {"set", "raise"})' \/ t = u
      BY <1>2, <3>2 DEF Posting
    <3>5. msip'[u] /\ (msip[t] => msip'[t])
      BY <1>3, <1>4, <3>1
    <3>6. Flag(t) => Flag(t)'
      BY <3>1, <3>3 DEF Flag
    <3>7. Bell(t) => Bell(t)'
      BY <3>4, <3>5 DEF Bell
    <3> QED
      BY <3>6, <3>7
  <2> QED
    BY <2>1, <2>2
<1>7. ASSUME NEW t \in Hart \ {h}
      PROVE  LostOK(t)'
  <2>1. /\ pc'[t] = pc[t] /\ bits'[t] = bits[t] /\ ret'[t] = ret[t]
        /\ state'[t] = "STARTED" => state[t] = "STARTED"
    BY <1>1 DEF Others
  <2>2. LostOK(t)
    BY DEF LostInv
  <2> QED
    BY <1>5, <1>6, <2>1, <2>2 DEF LostOK, Attentive
<1>8. Attentive(h)
  BY <1>5 DEF Attentive
<1>9. LostOK(h)'
  BY <1>5, <1>6, <1>8 DEF LostInv, LostOK
<1> QED
  BY <1>7, <1>9 DEF LostInv

(* sbi_ipi_process clears MSIP, then takes the bits, then empties the queue *)
LEMMA LostProcess ==
    ASSUME TypeOK, Flow, LostInv, NEW h \in Hart,
           \/ ClearMsip(h) \/ TakeBits(h) \/ EvSmode(h) \/ EvHalt(h) \/ EvTlb(h) \/ EvDone(h)
    PROVE  LostInv'
<1>1. Others(h)
  BY OthersKeep DEF Step
<1>2. /\ DOMAIN pc = Hart /\ DOMAIN ipi_type = Hart /\ DOMAIN msip = Hart /\ DOMAIN bits = Hart
      /\ DOMAIN state = Hart
  BY DEF TypeOK
<1> USE DEF Goto, shared, sender, local, hist, bound
<1>3. fifo' = fifo /\ pc[h] \in Resting
      /\ \A t \in Hart \ {h} : ipi_type'[t] = ipi_type[t] /\ msip'[t] = msip[t]
  BY <1>2 DEF ClearMsip, TakeBits, EvSmode, EvHalt, EvTlb, EvDone, Resting
<1>4. pc[h] \notin {"set", "raise"} /\ ret[h] = "ev"
  BY <1>3 DEF Resting, Flow, FlowOK
<1>5. \A t \in Hart \ {h} : LostOK(t)'
  BY <1>1, <1>3, <1>4, LostOthers
<1>6. LostOK(h)
  BY DEF LostInv
<1>7. LostOK(h)'
  <2>1. CASE ClearMsip(h)
    <3>1. pc'[h] = "take" /\ ipi_type' = ipi_type /\ state' = state
      BY <1>2, <2>1 DEF ClearMsip
    <3>2. pc[h] = "run" \/ state[h] # "STARTED"
      BY <2>1 DEF ClearMsip, Flow, FlowOK
    <3>3. Flag(h) => Flag(h)'
      BY <1>1, <1>4, <3>1, AnnouncedKeep
    <3> QED
      BY <1>3, <1>6, <3>1, <3>2, <3>3 DEF LostOK, Attentive
  <2>2. CASE TakeBits(h)
    <3>1. pc[h] = "take" /\ pc'[h] = "ev" /\ bits'[h] = ipi_type[h] /\ state' = state
      BY <1>2, <2>2 DEF TakeBits
    <3>2. Flag(h) => "tlb" \in bits'[h] \/ (Flag(h)' /\ Bell(h)')
      <4>1. CASE "tlb" \in ipi_type[h]
        BY <3>1, <4>1
      <4>2. CASE Posting(h, {"set"})
        <5>1. Posting(h, {"set"})'
          BY <1>1, <1>4, <4>2, PostingKeep
        <5>2. Posting(h, {"set", "raise"})'
          BY <5>1 DEF Posting
        <5> QED
          BY <5>1, <5>2 DEF Flag, Bell
      <4> QED
        BY <4>1, <4>2 DEF Flag
    <3> QED
      BY <1>3, <1>6, <3>1, <3>2 DEF LostOK, Attentive
  <2>3. CASE EvSmode(h)
    <3>1. /\ pc[h] = "ev" /\ pc' = pc /\ ipi_type' = ipi_type /\ msip' = msip /\ state' = state
          /\ "tlb" \in bits[h] => "tlb" \in bits'[h]
      BY <1>2, <2>3 DEF EvSmode
    <3>2. (Flag(h) => Flag(h)') /\ (Bell(h) => Bell(h)')
      BY <1>1, <1>4, <3>1, AnnouncedKeep
    <3> QED
      BY <1>3, <1>6, <3>1, <3>2 DEF LostOK, Attentive
  <2>4. CASE EvHalt(h)
    <3>1. pc'[h] \in {"exit", "ev"} /\ (pc'[h] = "ev" => state'[h] # "STARTED")
      BY <1>2, <2>4 DEF EvHalt
    <3> QED
      BY <3>1 DEF LostOK, Attentive
  <2>5. CASE EvTlb(h)
    <3>1. pc'[h] = "deq" /\ ret'[h] = "ev"
      BY <1>2, <1>4, <2>5 DEF EvTlb
    <3> QED
      BY <3>1 DEF LostOK, Attentive
  <2>6. CASE EvDone(h)
    <3>1. /\ pc[h] = "ev" /\ bits[h] = {} /\ ipi_type' = ipi_type /\ msip' = msip
          /\ pc'[h] = "stop" \/ (pc'[h] = "run" /\ state[h] = "STARTED")
      BY <1>2, <2>6 DEF EvDone
    <3>2. (Flag(h) => Flag(h)') /\ (Bell(h) => Bell(h)')
      BY <1>1, <1>4, <3>1, AnnouncedKeep
    <3> QED
      BY <1>3, <1>6, <3>1, <3>2 DEF LostOK, Attentive
  <2> QED
    BY <2>1, <2>2, <2>3, <2>4, <2>5, <2>6
<1> QED
  BY <1>5, <1>7 DEF LostInv

(* Emptied queues, and harts that go and come back. *)
LEMMA LostRest ==
    ASSUME TypeOK, Flow, LostInv, NEW h \in Hart,
           DequeueEmpty(h) \/ InitTlb(h) \/ HsmExit(h) \/ HartWait(h) \/ InitIpi(h) \/ Stop(h)
    PROVE  LostInv'
<1>1. Others(h)
  BY OthersKeep DEF Step, Smode
<1>2. /\ DOMAIN pc = Hart /\ DOMAIN ipi_type = Hart /\ DOMAIN msip = Hart /\ DOMAIN fifo = Hart
  BY DEF TypeOK
<1> USE DEF Goto, shared, sender, local, hist, bound
<1>3. \A t \in Hart \ {h} : ipi_type'[t] = ipi_type[t] /\ msip'[t] = msip[t] /\ fifo'[t] = fifo[t]
  BY <1>2 DEF DequeueEmpty, InitTlb, HsmExit, HartWait, InitIpi, Stop
<1>4. pc[h] \notin {"set", "raise"}
  BY DEF DequeueEmpty, InitTlb, HsmExit, HartWait, InitIpi, Stop
<1>5. \A t \in Hart \ {h} : LostOK(t)'
  BY <1>1, <1>3, <1>4, LostOthers
<1>6. CASE DequeueEmpty(h) \/ InitTlb(h)
  <2>1. fifo'[h] = << >>
    BY <1>2, <1>6 DEF DequeueEmpty, InitTlb
  <2> QED
    BY <1>5, <2>1 DEF LostInv, LostOK
<1>7. CASE HsmExit(h) \/ HartWait(h) \/ InitIpi(h) \/ Stop(h)
  <2>1. pc'[h] \in {"off", "init_ipi", "init_msip", "init_tlb", "exit"}
    BY <1>2, <1>7 DEF HsmExit, HartWait, InitIpi, Stop
  <2>2. LostOK(h)'
    BY <2>1 DEF LostOK, Attentive
  <2> QED
    BY <1>5, <2>2 DEF LostInv
<1> QED
  BY <1>6, <1>7

LEMMA LostStarts == Init => LostInv
BY DEF Init, LostInv, LostOK

LEMMA LostNext == TypeOK /\ Flow /\ LostInv /\ [Next]_vars => LostInv'
<1> SUFFICES ASSUME TypeOK, Flow, LostInv, [Next]_vars PROVE LostInv'
  OBVIOUS
<1>1. CASE UNCHANGED vars
  <2>1. /\ fifo' = fifo /\ ipi_type' = ipi_type /\ msip' = msip /\ todo' = todo /\ bits' = bits
        /\ pc' = pc /\ op' = op /\ ret' = ret /\ state' = state
    BY <1>1 DEF vars, shared, sender, local
  <2>2. \A t, P : Posting(t, P)' <=> Posting(t, P)
    BY <2>1 DEF Posting, Target
  <2> QED
    BY <2>1, <2>2 DEF LostInv, LostOK, Attentive, Flag, Bell
<1>2. CASE Next
  BY <1>2, LostSend, LostPost, LostAnnounce, LostProcess, LostRest DEF Next, Step, Smode
<1> QED
  BY <1>1, <1>2

LEMMA LostImplies == TypeOK /\ LostInv => NoLostFence
<1> SUFFICES ASSUME TypeOK, LostInv, NEW t \in Hart, pc[t] = "run", fifo[t] # << >>
             PROVE  \/ msip[t] /\ "tlb" \in ipi_type[t]
                    \/ \E s \in Hart : /\ pc[s] \in {"set", "raise"} /\ op[s] = "tlb"
                                       /\ Target(s) = t
  BY DEF NoLostFence
<1>1. Flag(t) /\ Bell(t)
  BY DEF LostInv, LostOK, Attentive
<1> QED
  BY <1>1 DEF Flag, Bell, Posting

(* A hart that is back in S-mode with a fence in its queue has the event    *)
(* bit and the interrupt for it, or their sender is about to set them: the  *)
(* order in which sbi_ipi_process and sbi_ipi_send touch the two loses      *)
(* nothing, and sbi_tlb_process cannot return early.                        *)
THEOREM FencesAreAnnounced == Spec => []NoLostFence
BY BaseStarts, BaseStep, LostStarts, LostNext, LostImplies, PTL DEF Spec

=============================================================================
