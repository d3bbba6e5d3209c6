------------------------- MODULE SbiTlbFlushProofs -------------------------
(* Remote fences: what was asked for is flushed.                            *)
(*                                                                          *)
(* sbi_tlb_update_cb merges ranges by comparing their ends, which wrap, and *)
(* takes no account of (0, 0) being everything or of ranges that begin      *)
(* within a page: it may merge such a request into an entry that does not   *)
(* flush it.  S-mode may ask for any range, and the theorems hold for every *)
(* set of requests: what is lost is lost to the fences in such a merge, at  *)
(* the hart where it happened, and to no others.                            *)
EXTENDS SbiTlbProofs

(* what sbi_tlb_update leaves of a request *)
Capped(r) == r.size <= PageSize \/ r.size = FLUSH_ALL

(* What is due to a fence that was in no such merge. *)
Due(s, t) == IF t \in spoilt[s] THEN {} ELSE due[s][t]

(* What is due from the fence of s, at each of its targets. *)
SenderOK(s) ==
    /\ \A t \in Hart : op[s] # "tlb" \/ t \notin todo[s] => Due(s, t) = {}
    /\ \A t \in Hart : Due(s, t) \subseteq Flushed(Limited(req[s]))
    /\ pc[s] = "enq" \/ ret[s] = "enq" => Limited(req[s]) = req[s]
    /\ \A t \in Hart : sync[s] = 1 /\ t = Target(s) => Due(s, t) = {}

(* What is due at t is in the entries that name the sender, and no longer   *)
(* due when an entry was taken out.                                         *)
QueueOK(t) ==
    /\ \A s \in acks[t] : Due(s, t) = {}
    /\ \A i \in DOMAIN fifo[t] : \A s \in fifo[t][i].smask : Due(s, t) \subseteq Flushed(fifo[t][i])

DueInv == \A h \in Hart : SenderOK(h) /\ QueueOK(h)

ShapeInv == \A t \in Hart : \A i \in DOMAIN fifo[t] : Capped(fifo[t][i])

---------------------------------------------------------------------------
(* The operators. *)
LEMMA FlushAll ==
    ASSUME NEW r, r.size \in 0 .. ULong - 1, r.size > PageSize
    PROVE  FLUSH_ALL > PageSize /\ FLUSH_ALL # 0 /\ r.size # 0
BY Sizes DEF FLUSH_ALL

LEMMA LimitedCases ==
    ASSUME NEW r \in Info
    PROVE  \/ /\ r.size <= PageSize /\ Limited(r) = r
           \/ /\ r.size > PageSize /\ FLUSH_ALL > PageSize /\ FLUSH_ALL # 0 /\ r.size # 0
              /\ Limited(r).start = 0 /\ Limited(r).size = FLUSH_ALL
              /\ Limited(r).fn = r.fn /\ Limited(r).asid = r.asid
<1>1. r.size \in 0 .. ULong - 1
  BY DEF Info
<1>2. CASE r.size > PageSize
  BY <1>1, <1>2, FlushAll DEF Limited
<1>3. CASE ~(r.size > PageSize)
  BY <1>1, <1>3, Sizes DEF Limited
<1> QED
  BY <1>2, <1>3

LEMMA LimitedAgain ==
    ASSUME NEW r \in Info
    PROVE  Limited(Limited(r)) = Limited(r)
<1>1. CASE Limited(r) = r
  BY <1>1
<1>2. CASE r.size > PageSize /\ FLUSH_ALL > PageSize
  <2>1. Limited(r) = [fn |-> r.fn, start |-> 0, size |-> FLUSH_ALL, asid |-> r.asid]
    BY <1>2 DEF Limited
  <2> QED
    BY <1>2, <2>1 DEF Limited
<1> QED
  BY <1>1, <1>2, LimitedCases

(* Over the limit everything is flushed, and never less than was asked for. *)
LEMMA LimitedFlushes ==
    ASSUME NEW r \in Info
    PROVE  Flushed(r) \subseteq Flushed(Limited(r))
<1>1. CASE Limited(r) = r
  BY <1>1
<1>2. CASE /\ FLUSH_ALL # 0 /\ r.size # 0
           /\ Limited(r).start = 0 /\ Limited(r).size = FLUSH_ALL
           /\ Limited(r).fn = r.fn /\ Limited(r).asid = r.asid
  <2>1. r.fn \in Fns /\ r.start \in Nat
    BY Sizes DEF Info
  <2>2. PagesOf(r) \subseteq Page
    BY <2>1, PagesArePages
  <2> DEFINE l == Limited(r)
  <2>3. Whole(l) /\ Spaces(l) = Spaces(r)
    BY <1>2 DEF Whole, Spaces
  <2>4. Flushed(r) = IF r.fn = "fence_i" THEN {Icache}
                     ELSE (IF Whole(r) THEN Page ELSE PagesOf(r)) \X Spaces(r)
    BY <2>1, FlushedIs
  <2>5. l.fn = r.fn
    BY <1>2
  <2> HIDE DEF l
  <2>6. Flushed(l) = IF r.fn = "fence_i" THEN {Icache} ELSE Page \X Spaces(r)
    BY <2>1, <2>3, <2>5, FlushedIs
  <2>7. ((IF Whole(r) THEN Page ELSE PagesOf(r)) \X Spaces(r)) \subseteq Page \X Spaces(r)
    BY <2>2
  <2>8. Flushed(r) \subseteq Flushed(l)
    BY <2>4, <2>6, <2>7
  <2> QED
    BY <2>8 DEF l
<1> QED
  BY <1>1, <1>2, LimitedCases

LEMMA LimitedCapped ==
    ASSUME NEW r \in Info
    PROVE  Capped(Limited(r))
BY LimitedCases DEF Capped

LEMMA TlbInfoSame ==
    ASSUME NEW r \in Info, NEW h
    PROVE  /\ Flushed(TlbInfo(r, h)) = Flushed(r)
           /\ Regular(TlbInfo(r, h)) <=> Regular(r)
           /\ Capped(TlbInfo(r, h)) <=> Capped(r)
<1> DEFINE n == TlbInfo(r, h)
<1>1. n.fn = r.fn /\ n.start = r.start /\ n.size = r.size /\ n.asid = r.asid /\ r.fn \in Fns
  BY DEF TlbInfo, Info
<1> HIDE DEF n
<1>2. PagesOf(n) = PagesOf(r)
  BY <1>1 DEF PagesOf
<1>3. (Whole(n) <=> Whole(r)) /\ Spaces(n) = Spaces(r)
  BY <1>1 DEF Whole, Spaces
<1>4. Flushed(n) = Flushed(r)
  BY <1>1, <1>2, <1>3, FlushedIs
<1>5. (Regular(n) <=> Regular(r)) /\ (Capped(n) <=> Capped(r))
  BY <1>1 DEF Regular, Capped
<1> QED
  BY <1>4, <1>5 DEF n

(* Pages begin a page apart. *)
LEMMA PageApart ==
    ASSUME NEW a \in Nat, NEW b \in Nat, a % PageSize = 0, b % PageSize = 0, a < b
    PROVE  a + PageSize <= b
<1> DEFINE j == a \div PageSize
           k == b \div PageSize
<1>1. PageSize \in Nat \ {0}
  BY Sizes
<1>2. j \in Int /\ k \in Int /\ a = PageSize * j /\ b = PageSize * k
  <2>1. j \in Int /\ a = PageSize * j + (a % PageSize)
    BY <1>1, DivMod
  <2>2. k \in Int /\ b = PageSize * k + (b % PageSize)
    BY <1>1, DivMod
  <2> HIDE DEF j, k
  <2>3. PageSize * j \in Int /\ PageSize * k \in Int
    BY <1>1, <2>1, <2>2
  <2> QED
    BY <2>1, <2>2, <2>3
<1> HIDE DEF j, k
<1>3. k <= j => PageSize * k <= PageSize * j
  BY <1>1, <1>2, TimesMonotone
<1>4. j + 1 <= k
  BY <1>2, <1>3
<1>5. PageSize * (j + 1) <= PageSize * k
  BY <1>1, <1>2, <1>4, TimesMonotone
<1>6. PageSize * (j + 1) = PageSize * j + PageSize
  BY <1>1, <1>2
<1> QED
  BY <1>1, <1>2, <1>5, <1>6

(* Of two ranges that begin together the longer one visits more pages.      *)
LEMMA PagesGrow ==
    ASSUME NEW a, NEW b, a.start = b.start, a.size \in Nat, b.size \in Nat, a.size <= b.size
    PROVE  PagesOf(a) \subseteq PagesOf(b)
<1>1. \A j \in Page : j * PageSize < a.size => j * PageSize < b.size
  <2> SUFFICES ASSUME NEW j \in Page, j * PageSize < a.size PROVE j * PageSize < b.size
    OBVIOUS
  <2>1. j \in Nat
    BY Sizes DEF Page
  <2>2. j * PageSize \in Nat
    BY <2>1, Sizes
  <2> QED
    BY <2>2
<1> QED
  BY <1>1 DEF PagesOf

LEMMA NoPages ==
    ASSUME NEW a, a.size = 0
    PROVE  PagesOf(a) = {}
<1>1. \A j \in Page : ~(j * PageSize < 0)
  <2> SUFFICES ASSUME NEW j \in Page PROVE ~(j * PageSize < 0)
    OBVIOUS
  <2>1. j \in Nat
    BY Sizes DEF Page
  <2>2. j * PageSize \in Nat
    BY <2>1, Sizes
  <2> QED
    BY <2>2
<1> QED
  BY <1>1 DEF PagesOf

Pages(e) == IF Whole(e) THEN Page ELSE PagesOf(e)

(* A range that lies within another one visits no page the other does not,  *)
(* when both begin with a page and the outer one is a page or everything.   *)
LEMMA PagesInside ==
    ASSUME NEW a \in Entry, NEW b \in Entry, a.fn # "fence_i", b.fn # "fence_i",
           Regular(a), Regular(b), Capped(b), b.start <= a.start, End(a) <= End(b)
    PROVE  Pages(a) \subseteq Pages(b)
<1>1. /\ a.start \in Nat /\ a.size \in Nat /\ b.start \in Nat /\ b.size \in Nat
      /\ ULong \in Nat \ {0} /\ PageSize \in Nat \ {0} /\ a.start < ULong /\ FLUSH_ALL = ULong - 1
  BY Sizes DEF Entry, FLUSH_ALL
<1>2. /\ a.start % PageSize = 0 /\ a.start + a.size < ULong /\ ~(a.start = 0 /\ a.size = 0)
      /\ b.start % PageSize = 0 /\ b.start + b.size < ULong /\ ~(b.start = 0 /\ b.size = 0)
  BY DEF Regular
<1>3. End(a) = a.start + a.size /\ End(b) = b.start + b.size
  <2>1. a.start + a.size \in Nat /\ b.start + b.size \in Nat
    BY <1>1
  <2> QED
    BY <1>1, <1>2, <2>1 DEF End
<1>4. PagesOf(a) \subseteq Page
  BY <1>1, PagesArePages
<1>5. (Whole(a) <=> a.size = ULong - 1) /\ (Whole(b) <=> b.size = ULong - 1)
  BY <1>1, <1>2 DEF Whole
<1>6. CASE Whole(b)
  BY <1>4, <1>6 DEF Pages
<1>7. CASE ~Whole(b) /\ a.start = b.start
  <2>1. a.size <= b.size /\ b.size # ULong - 1 /\ ~Whole(a)
    BY <1>1, <1>2, <1>3, <1>5, <1>7
  <2> QED
    BY <1>1, <1>7, <2>1, PagesGrow DEF Pages
<1>8. CASE ~Whole(b) /\ b.start < a.start
  <2>1. b.start + PageSize <= a.start
    BY <1>1, <1>2, <1>8, PageApart
  <2>2. b.size <= PageSize
    BY <1>1, <1>5, <1>8 DEF Capped
  <2>3. a.size = 0 /\ ULong - 1 # 0
    BY <1>1, <1>3, <1>8, <2>1, <2>2
  <2>4. PagesOf(a) = {} /\ ~Whole(a)
    BY <1>5, <2>3, NoPages
  <2> QED
    BY <2>4 DEF Pages
<1> QED
  BY <1>1, <1>6, <1>7, <1>8

(* sbi_tlb_update_cb: the merged entry flushes what both were to flush.     *)
LEMMA MergedFlushes ==
    ASSUME NEW n \in Entry, NEW c \in Entry, Regular(n), Regular(c), Capped(n), Capped(c), Merges(n, c)
    PROVE  /\ Flushed(n) \subseteq Flushed(Merged(n, c))
           /\ Flushed(c) \subseteq Flushed(Merged(n, c))
<1>1. /\ n.fn = c.fn /\ n.fn # "fence_i" /\ n.fn \in Fns
      /\ n.fn = "sfence_vma_asid" => n.asid = c.asid
      /\ Widens(n, c) \/ Within(n, c)
  BY DEF Merges, SameKind, Entry
<1>2. /\ n.start \in Nat /\ n.size \in Nat /\ c.start \in Nat /\ c.size \in Nat /\ ULong \in Nat \ {0}
  BY Sizes DEF Entry
<1>3. End(n) \in Int /\ End(c) \in Int
  <2>1. n.start + n.size \in Nat /\ c.start + c.size \in Nat
    BY <1>2
  <2> QED
    BY <1>2, <2>1 DEF End
<1> DEFINE range == IF Widens(n, c) THEN n ELSE c
           m == Merged(n, c)
<1>4. Pages(n) \subseteq Pages(range) /\ Pages(c) \subseteq Pages(range)
  <2>1. CASE Widens(n, c)
    <3>1. n.start <= c.start /\ End(c) <= End(n)
      BY <1>3, <2>1 DEF Widens
    <3> QED
      BY <1>1, <2>1, <3>1, PagesInside
  <2>2. CASE ~Widens(n, c)
    <3>1. c.start <= n.start /\ End(n) <= End(c)
      BY <1>1, <1>2, <2>2 DEF Within
    <3> QED
      BY <1>1, <2>2, <3>1, PagesInside
  <2> QED
    BY <2>1, <2>2
<1>5. /\ m.fn = c.fn /\ m.start = range.start /\ m.size = range.size /\ m.asid = c.asid
  BY DEF Merged
<1>6. Regular(range) /\ Capped(range) /\ range.fn = c.fn
  BY <1>1
<1> HIDE DEF range, m
<1>7. Regular(m)
  BY <1>5, <1>6 DEF Regular
<1>8. Pages(m) = Pages(range)
  <2>1. PagesOf(m) = PagesOf(range)
    BY <1>5 DEF PagesOf
  <2> QED
    BY <1>5, <2>1 DEF Pages, Whole
<1>9. Spaces(n) = Spaces(m) /\ Spaces(c) = Spaces(m)
  <2>1. ~(n.start = 0 /\ n.size = 0) /\ ~(c.start = 0 /\ c.size = 0) /\ ~(m.start = 0 /\ m.size = 0)
    BY <1>1, <1>5, <1>7 DEF Regular
  <2> QED
    BY <1>1, <1>5, <2>1 DEF Spaces, Fns
<1>10. Flushed(n) = Pages(n) \X Spaces(n) /\ Flushed(c) = Pages(c) \X Spaces(c)
       /\ Flushed(m) = Pages(m) \X Spaces(m)
  BY <1>1, <1>5, FlushedIs DEF Pages
<1>11. Flushed(n) \subseteq Flushed(m) /\ Flushed(c) \subseteq Flushed(m)
  BY <1>4, <1>8, <1>9, <1>10
<1> QED
  BY <1>11 DEF m

LEMMA MergedCapped ==
    ASSUME NEW n, NEW c, Capped(n), Capped(c)
    PROVE  Capped(Merged(n, c))
BY DEF Merged, Capped

---------------------------------------------------------------------------
LEMMA DueSame ==
    ASSUME due' = due, spoilt' = spoilt
    PROVE  \A s, t : Due(s, t)' = Due(s, t)
BY DEF Due

LEMMA DueFlushed ==
    ASSUME TypeOK, NEW h \in Hart, NEW e, FlushedBy(h, e), spoilt' = spoilt
    PROVE  /\ \A s, t \in Hart : Due(s, t)' \subseteq Due(s, t)
           /\ \A s \in Hart : Due(s, h)' = Due(s, h) \ Flushed(e)
<1>1. due \in [Hart -> [Hart -> SUBSET Items]]
  BY DEF TypeOK
<1>2. \A s, t \in Hart : due'[s][t] = IF t = h THEN due[s][h] \ Flushed(e) ELSE due[s][t]
  BY <1>1 DEF FlushedBy
<1> QED
  BY <1>2 DEF Due

(* What is due, step by step. *)
LEMMA SenderKeeps ==
    ASSUME NEW h \in Hart, Others(h), NEW s \in Hart \ {h}, SenderOK(s), sync'[s] = sync[s],
           \A t \in Hart : Due(s, t)' \subseteq Due(s, t)
    PROVE  SenderOK(s)'
<1>1. /\ pc'[s] = pc[s] /\ op'[s] = op[s] /\ req'[s] = req[s] /\ ret'[s] = ret[s] /\ todo'[s] = todo[s]
  BY DEF Others
<1>2. Target(s)' = Target(s)
  BY <1>1 DEF Target
<1>3. \A t \in Hart : op'[s] # "tlb" \/ t \notin todo'[s] => Due(s, t)' = {}
  BY <1>1 DEF SenderOK
<1>4. \A t \in Hart : Due(s, t)' \subseteq Flushed(Limited(req'[s]))
  BY <1>1 DEF SenderOK
<1>5. pc'[s] = "enq" \/ ret'[s] = "enq" => Limited(req'[s]) = req'[s]
  BY <1>1 DEF SenderOK
<1>6. \A t \in Hart : sync'[s] = 1 /\ t = Target(s)' => Due(s, t)' = {}
  BY <1>2 DEF SenderOK
<1> QED
  BY <1>3, <1>4, <1>5, <1>6 DEF SenderOK

LEMMA QueueKeeps ==
    ASSUME TypeOK, NEW t \in Hart, QueueOK(t), fifo'[t] = fifo[t], acks'[t] \subseteq acks[t],
           \A s \in Hart : Due(s, t)' \subseteq Due(s, t)
    PROVE  QueueOK(t)'
<1>1. acks[t] \subseteq Hart /\ fifo[t] \in Seq(Entry)
  BY DEF TypeOK
<1>2. \A i \in DOMAIN fifo[t] : fifo[t][i].smask \subseteq Hart
  <2> SUFFICES ASSUME NEW i \in DOMAIN fifo[t] PROVE fifo[t][i].smask \subseteq Hart
    OBVIOUS
  <2>1. fifo[t][i] \in Entry
    BY <1>1, ElementOfSeq
  <2> QED
    BY <2>1 DEF Entry
<1>3. \A s \in acks'[t] : Due(s, t)' = {}
  BY <1>1 DEF QueueOK
<1>4. \A i \in DOMAIN fifo'[t] : \A s \in fifo'[t][i].smask : Due(s, t)' \subseteq Flushed(fifo'[t][i])
  BY <1>2 DEF QueueOK
<1> QED
  BY <1>3, <1>4 DEF QueueOK

(* A hart whose fence is not posted is in no entry.                         *)
LEMMA NotPosted ==
    ASSUME TypeOK, AckInv, NEW h \in Hart, ~Posted(h), NEW t \in Hart
    PROVE  /\ h \notin acks[t] /\ \A i \in DOMAIN fifo[t] : h \notin fifo[t][i].smask
           /\ sync[h] = 0
<1>1. fifo[t] \in Seq(Entry) /\ Len(fifo[t]) <= NumEntries /\ sync[h] \in 0 .. 1
  BY DEF TypeOK
<1>2. \A i \in 0 .. NumEntries : ~Owed(h, t, i)
  BY DEF AckInv
<1>3. sync[h] = 0
  BY <1>1 DEF AckInv
<1>4. h \notin acks[t]
  <2>1. 0 \in 0 .. NumEntries
    BY Sizes
  <2> QED
    BY <1>2, <2>1 DEF Owed
<1>5. ASSUME NEW i \in DOMAIN fifo[t] PROVE h \notin fifo[t][i].smask
  <2>1. i \in 0 .. NumEntries /\ i # 0 /\ i <= Len(fifo[t])
    BY <1>1, Sizes
  <2> QED
    BY <1>2, <2>1 DEF Owed
<1> QED
  BY <1>3, <1>4, <1>5

(* Steps that leave queues, acknowledgements and requests alone. *)
LEMMA DueQuiet ==
    ASSUME TypeOK, DueInv, NEW h \in Hart, Others(h),
           fifo' = fifo, sync' = sync, acks' = acks, op'[h] = op[h], req'[h] = req[h], todo'[h] = todo[h],
           \A s, t \in Hart : Due(s, t)' \subseteq Due(s, t),
           pc'[h] = "enq" \/ ret'[h] = "enq" => pc[h] = "enq" \/ ret[h] = "enq"
    PROVE  DueInv'
<1>1. \A s \in Hart \ {h} : SenderOK(s)'
  BY SenderKeeps DEF DueInv
<1>2. \A t \in Hart : QueueOK(t)'
  BY QueueKeeps DEF DueInv
<1>3. SenderOK(h)'
  <2>1. SenderOK(h)
    BY DEF DueInv
  <2>2. Target(h)' = Target(h)
    BY DEF Target
  <2>3. \A t \in Hart : op'[h] # "tlb" \/ t \notin todo'[h] => Due(h, t)' = {}
    BY <2>1 DEF SenderOK
  <2>4. \A t \in Hart : Due(h, t)' \subseteq Flushed(Limited(req'[h]))
    BY <2>1 DEF SenderOK
  <2>5. pc'[h] = "enq" \/ ret'[h] = "enq" => Limited(req'[h]) = req'[h]
    BY <2>1 DEF SenderOK
  <2>6. \A t \in Hart : sync'[h] = 1 /\ t = Target(h)' => Due(h, t)' = {}
    BY <2>1, <2>2 DEF SenderOK
  <2> QED
    BY <2>3, <2>4, <2>5, <2>6 DEF SenderOK
<1> QED
  BY <1>1, <1>2, <1>3 DEF DueInv

(* Steps of a hart whose fence is not posted and that leave queues alone. *)
LEMMA DueSends ==
    ASSUME TypeOK, AckInv, DueInv, NEW h \in Hart, Others(h), ~Posted(h),
           fifo' = fifo, sync' = sync, acks' = acks,
           pc'[h] # "enq", ret'[h] # "enq",
           \A t \in Hart : op'[h] # "tlb" \/ t \notin todo'[h] => Due(h, t)' = {},
           \A t \in Hart : Due(h, t)' \subseteq Flushed(Limited(req'[h])),
           \A s \in Hart \ {h}, t \in Hart : Due(s, t)' \subseteq Due(s, t)
    PROVE  DueInv'
<1>1. \A s \in Hart \ {h} : SenderOK(s)'
  BY SenderKeeps DEF DueInv
<1>2. sync[h] = 0
  BY NotPosted
<1>3. SenderOK(h)'
  BY <1>2 DEF SenderOK
<1>4. ASSUME NEW t \in Hart PROVE QueueOK(t)'
  <2>1. h \notin acks[t] /\ \A i \in DOMAIN fifo[t] : h \notin fifo[t][i].smask
    BY NotPosted
  <2>2. QueueOK(t)
    BY DEF DueInv
  <2>3. acks[t] \subseteq Hart \ {h} /\ fifo[t] \in Seq(Entry)
    BY <2>1 DEF TypeOK
  <2>4. \A i \in DOMAIN fifo[t] : fifo[t][i].smask \subseteq Hart \ {h}
    <3> SUFFICES ASSUME NEW i \in DOMAIN fifo[t] PROVE fifo[t][i].smask \subseteq Hart \ {h}
      OBVIOUS
    <3>1. fifo[t][i] \in Entry
      BY <2>3, ElementOfSeq
    <3> QED
      BY <2>1, <3>1 DEF Entry
  <2>5. \A s \in acks'[t] : Due(s, t)' = {}
    BY <2>2, <2>3 DEF QueueOK
  <2>6. \A i \in DOMAIN fifo'[t] : \A s \in fifo'[t][i].smask : Due(s, t)' \subseteq Flushed(fifo'[t][i])
    BY <2>2, <2>4 DEF QueueOK
  <2> QED
    BY <2>5, <2>6 DEF QueueOK
<1> QED
  BY <1>1, <1>3, <1>4 DEF DueInv

LEMMA DueCall ==
    ASSUME TypeOK, Flow, AckInv, DueInv, NEW h \in Hart, Fence(h) \/ SendEvent(h)
    PROVE  DueInv'
<1>1. Others(h)
  BY OthersKeep DEF Smode
<1>2. /\ DOMAIN pc = Hart /\ due \in [Hart -> [Hart -> SUBSET Items]] /\ DOMAIN spoilt = Hart
  BY DEF TypeOK
<1> USE DEF Goto, Call, shared, sender, local, hist, bound
<1>3. /\ fifo' = fifo /\ sync' = sync /\ acks' = acks /\ ret' = ret
      /\ pc[h] = "run" /\ pc'[h] = "send"
  BY <1>2 DEF Fence, SendEvent
<1>4. ret[h] = "ev" /\ todo[h] = {}
  BY <1>3 DEF Flow, FlowOK, Resting
<1>5. ~Posted(h)
  BY <1>3, <1>4 DEF Posted
<1>6. todo' = todo
  BY DEF Fence, SendEvent
<1>7. CASE Fence(h)
  <2>1. due' = [due EXCEPT ![h] = [t \in Hart |-> {}]] /\ spoilt' = [spoilt EXCEPT ![h] = {}]
    BY <1>7 DEF Fence
  <2>2. \A t \in Hart : Due(h, t)' = {}
    BY <1>2, <2>1 DEF Due
  <2>3. \A s \in Hart \ {h}, t \in Hart : Due(s, t)' \subseteq Due(s, t)
    BY <1>2, <2>1 DEF Due
  <2> QED
    BY <1>1, <1>3, <1>4, <1>5, <2>2, <2>3, DueSends
<1>8. CASE SendEvent(h)
  <2>1. \A s, t : Due(s, t)' = Due(s, t)
    BY <1>8, DueSame DEF SendEvent
  <2>2. \A t \in Hart : Due(h, t) = {}
    BY <1>4 DEF DueInv, SenderOK
  <2> QED
    BY <1>1, <1>3, <1>4, <1>5, <2>1, <2>2, DueSends
<1> QED
  BY <1>7, <1>8

(* sbi_hsm_hart_interruptible_mask takes in another hart. *)
LEMMA DueRead ==
    ASSUME TypeOK, Flow, AckInv, DueInv, NEW h \in Hart, ReadState(h)
    PROVE  DueInv'
<1>1. Others(h)
  BY OthersKeep DEF Step
<1>2. /\ DOMAIN todo = Hart /\ due \in [Hart -> [Hart -> SUBSET Items]] /\ req[h] \in Info
  BY DEF TypeOK
<1>3. /\ fifo' = fifo /\ sync' = sync /\ acks' = acks /\ ret' = ret /\ req' = req /\ op' = op
      /\ pc[h] = "send" /\ pc' = pc /\ spoilt' = spoilt
  BY DEF ReadState, shared, local
<1>4. ret[h] = "ev"
  BY <1>3 DEF Flow, FlowOK
<1>5. ~Posted(h)
  BY <1>3, <1>4 DEF Posted
<1>6. SenderOK(h)
  BY DEF DueInv
<1> DEFINE u == Lowest(scan[h])
<1>7. u \in Hart
  BY HartNat, LowestIn DEF TypeOK, ReadState
<1>8. \/ /\ todo' = [todo EXCEPT ![h] = @ \cup {u}]
         /\ due' = IF op[h] = "tlb" THEN [due EXCEPT ![h][u] = Flushed(req[h])] ELSE due
      \/ todo' = todo /\ due' = due
  BY DEF ReadState
<1> HIDE DEF u
<1>9. \A s \in Hart \ {h}, t \in Hart : Due(s, t)' \subseteq Due(s, t)
  <2>1. \A s \in Hart \ {h} : due'[s] = due[s]
    BY <1>2, <1>8
  <2> QED
    BY <1>3, <2>1 DEF Due
<1>10. Flushed(req[h]) \subseteq Flushed(Limited(req[h]))
  BY <1>2, LimitedFlushes
<1>11. \A t \in Hart : \/ due'[h][t] = due[h][t]
                       \/ op[h] = "tlb" /\ t = u /\ t \in todo'[h] /\ due'[h][t] = Flushed(req[h])
  BY <1>2, <1>7, <1>8
<1>12. todo[h] \subseteq todo'[h]
  BY <1>2, <1>8
<1>13. \A t \in Hart : op'[h] # "tlb" \/ t \notin todo'[h] => Due(h, t)' = {}
  BY <1>3, <1>6, <1>11, <1>12 DEF SenderOK, Due
<1>14. \A t \in Hart : Due(h, t)' \subseteq Flushed(Limited(req'[h]))
  BY <1>3, <1>6, <1>10, <1>11 DEF SenderOK, Due
<1> QED
  BY <1>1, <1>3, <1>4, <1>5, <1>9, <1>13, <1>14, DueSends

(* sbi_hsm_hart_start, which sends no fence. *)
LEMMA DueStart ==
    ASSUME TypeOK, Flow, AckInv, DueInv, NEW h \in Hart, Start(h) \/ StartIpi(h)
    PROVE  DueInv'
<1>1. Others(h)
  BY OthersKeep DEF Step, Smode
<1>2. DOMAIN pc = Hart /\ DOMAIN todo = Hart /\ DOMAIN op = Hart
  BY DEF TypeOK
<1>3. /\ fifo' = fifo /\ sync' = sync /\ acks' = acks /\ ret' = ret
      /\ pc[h] \in {"run", "start"} /\ pc'[h] \in {"run", "start"} /\ due' = due /\ spoilt' = spoilt
  BY <1>2 DEF Start, StartIpi, Goto, shared, local, hist
<1>4. ret[h] = "ev" /\ (todo[h] = {} \/ op[h] # "tlb")
  BY <1>3 DEF Flow, FlowOK, Resting
<1>5. ~Posted(h)
  BY <1>3, <1>4 DEF Posted
<1>6. \A t \in Hart : Due(h, t) = {}
  BY <1>4 DEF DueInv, SenderOK
<1>7. \A s, t : Due(s, t)' = Due(s, t)
  BY <1>3, DueSame
<1> QED
  BY <1>1, <1>3, <1>4, <1>5, <1>6, <1>7, DueSends

LEMMA DueSelf ==
    ASSUME TypeOK, Flow, AckInv, DueInv, NEW h \in Hart, SendDone(h) \/ FenceSelf(h)
    PROVE  DueInv'
<1>1. Others(h)
  BY OthersKeep DEF Step
<1>2. /\ DOMAIN pc = Hart /\ DOMAIN req = Hart /\ DOMAIN todo = Hart /\ due \in [Hart -> [Hart -> SUBSET Items]]
      /\ req[h] \in Info
  BY DEF TypeOK
<1> USE DEF Goto, NextTarget, shared, sender, local, hist, bound
<1>3. /\ fifo' = fifo /\ sync' = sync /\ acks' = acks /\ ret' = ret
      /\ pc[h] = "send" /\ pc'[h] \in {"send", "run"}
  BY <1>2 DEF SendDone, FenceSelf, Sending
<1>4. ret[h] = "ev"
  BY <1>3 DEF Flow, FlowOK
<1>5. ~Posted(h)
  BY <1>3, <1>4 DEF Posted
<1>6. SenderOK(h)
  BY DEF DueInv
<1>7. CASE SendDone(h)
  <2>1. todo[h] = {} /\ \A s, t : Due(s, t)' = Due(s, t)
    BY <1>7, DueSame DEF SendDone
  <2>2. \A t \in Hart : Due(h, t) = {}
    BY <1>6, <2>1 DEF SenderOK
  <2> QED
    BY <1>1, <1>3, <1>4, <1>5, <2>1, <2>2, DueSends
<1>8. CASE FenceSelf(h)
  <2>1. /\ Target(h) = h /\ todo'[h] = todo[h] \ {h} /\ op' = op /\ req'[h] = Limited(req[h])
        /\ FlushedBy(h, Limited(req[h])) /\ spoilt' = spoilt
    BY <1>2, <1>8 DEF FenceSelf
  <2>2. \A s, t \in Hart : Due(s, t)' \subseteq Due(s, t)
    BY <2>1, DueFlushed
  <2>3. Due(h, h)' = {}
    <3>1. Due(h, h)' = Due(h, h) \ Flushed(Limited(req[h]))
      BY <2>1, DueFlushed
    <3> QED
      BY <1>6, <3>1 DEF SenderOK
  <2>4. \A t \in Hart : op'[h] # "tlb" \/ t \notin todo'[h] => Due(h, t)' = {}
    BY <1>6, <2>1, <2>2, <2>3 DEF SenderOK
  <2>5. \A t \in Hart : Due(h, t)' \subseteq Flushed(Limited(req'[h]))
    BY <1>2, <1>6, <2>1, <2>2, LimitedAgain DEF SenderOK
  <2> QED
    BY <1>1, <1>3, <1>4, <1>5, <2>2, <2>4, <2>5, DueSends
<1> QED
  BY <1>7, <1>8

(* An in-place update, or the decision to queue the request. *)
LEMMA DueUpdate ==
    ASSUME TypeOK, Flow, AckInv, ShapeInv, DueInv, NEW h \in Hart, FenceUpdate(h)
    PROVE  DueInv' /\ ShapeInv'
<1>1. Others(h)
  BY OthersKeep DEF Step
<1>2. /\ pc[h] = "send" /\ ret[h] = "ev" /\ sync' = sync /\ acks' = acks /\ todo' = todo /\ op' = op
      /\ ret' = ret /\ due' = due
  BY DEF FenceUpdate, Sending, local, Flow, FlowOK
<1>3. sync[h] = 0
  BY <1>2, NotPosted DEF Posted
<1>4. /\ DOMAIN req = Hart /\ DOMAIN pc = Hart /\ req[h] \in Info /\ fifo \in [Hart -> Seq(Entry)]
      /\ \A t \in Hart : acks[t] \subseteq Hart
  BY DEF TypeOK
<1>5. SenderOK(h)
  BY DEF DueInv
<1> DEFINE l == Limited(req[h])
           n == TlbInfo(l, h)
<1>6. PICK u : u = Target(h)
  OBVIOUS
<1>7. /\ u \in Hart /\ n \in Entry /\ req' = [req EXCEPT ![h] = l]
      /\ \/ /\ \E k \in 1 .. Len(fifo[u]) :
                 /\ Merges(n, fifo[u][k]) /\ fifo[u][k] \in Entry
                 /\ fifo' = [fifo EXCEPT ![u] = [fifo[u] EXCEPT ![k] = Merged(n, fifo[u][k])]]
                 /\ spoilt' = Spoil(n, fifo[u][k], u)
            /\ pc' = [pc EXCEPT ![h] = "set"]
         \/ fifo' = fifo /\ spoilt' = spoilt /\ pc' = [pc EXCEPT ![h] = "enq"]
  BY <1>6, UpdateEffect
<1>8. l \in Info /\ Limited(l) = l /\ Capped(l)
  BY <1>4, LimitedInfo, LimitedAgain, LimitedCapped
<1>9. n.smask = {h} /\ Flushed(n) = Flushed(l) /\ Capped(n)
  BY <1>8, TlbInfoSame DEF TlbInfo
<1>10. \A t \in Hart : Due(h, t) \subseteq Flushed(l)
  BY <1>5 DEF SenderOK
<1> HIDE DEF l, n
<1>11. req'[h] = l
  BY <1>4, <1>7
<1>12. \A s, t \in Hart : Due(s, t)' \subseteq Due(s, t)
  <2>1. \A s \in Hart : spoilt[s] \subseteq spoilt'[s]
    BY <1>7 DEF Spoil
  <2> QED
    BY <1>2, <2>1 DEF Due
<1>13. SenderOK(h)'
  <2>1. \A t \in Hart : op'[h] # "tlb" \/ t \notin todo'[h] => Due(h, t)' = {}
    BY <1>2, <1>5, <1>12 DEF SenderOK
  <2>2. \A t \in Hart : Due(h, t)' \subseteq Flushed(Limited(req'[h]))
    BY <1>8, <1>10, <1>11, <1>12
  <2> QED
    BY <1>2, <1>3, <1>8, <1>11, <2>1, <2>2 DEF SenderOK
<1>14. \A s \in Hart \ {h} : SenderOK(s)'
  BY <1>1, <1>2, <1>12, SenderKeeps DEF DueInv
<1>15. \A t \in Hart : fifo'[t] = fifo[t] => QueueOK(t)'
  BY <1>2, <1>12, QueueKeeps DEF DueInv
<1>16. CASE fifo' = fifo
  <2>1. DueInv'
    BY <1>13, <1>14, <1>15, <1>16 DEF DueInv
  <2>2. ShapeInv'
    BY <1>16 DEF ShapeInv
  <2> QED
    BY <2>1, <2>2
<1>17. CASE \E k \in 1 .. Len(fifo[u]) :
                /\ Merges(n, fifo[u][k]) /\ fifo[u][k] \in Entry
                /\ fifo' = [fifo EXCEPT ![u] = [fifo[u] EXCEPT ![k] = Merged(n, fifo[u][k])]]
                /\ spoilt' = Spoil(n, fifo[u][k], u)
  <2>1. PICK k \in 1 .. Len(fifo[u]) :
           /\ Merges(n, fifo[u][k]) /\ fifo[u][k] \in Entry
           /\ fifo' = [fifo EXCEPT ![u] = [fifo[u] EXCEPT ![k] = Merged(n, fifo[u][k])]]
           /\ spoilt' = Spoil(n, fifo[u][k], u)
    BY <1>17
  <2> DEFINE c == fifo[u][k]
             m == Merged(n, c)
  <2>2. fifo[u] \in Seq(Entry) /\ DOMAIN fifo[u] = 1 .. Len(fifo[u])
    BY <1>4, <1>7
  <2>3. Capped(c)
    BY <1>7, <2>2 DEF ShapeInv
  <2>4. c \in Entry /\ Merges(n, c) /\ spoilt' = Spoil(n, c, u) /\ c.smask \subseteq Hart
    BY <2>1 DEF Entry
  <2>5. /\ \A g \in Hart \ {u} : fifo'[g] = fifo[g]
        /\ fifo'[u] = [fifo[u] EXCEPT ![k] = m]
    BY <1>4, <1>7, <2>1
  <2> HIDE DEF c, m
  <2>6. m \in Entry /\ m.smask = c.smask \cup {h}
    BY <1>7, <1>9, <2>4, MergedEntry DEF m
  <2>7. Capped(m)
    BY <1>9, <2>3, MergedCapped DEF m
  <2>8. /\ DOMAIN fifo'[u] = DOMAIN fifo[u]
        /\ \A i \in DOMAIN fifo[u] : fifo'[u][i] = IF i = k THEN m ELSE fifo[u][i]
    BY <2>2, <2>5
  <2>9. QueueOK(u)
    BY <1>7 DEF DueInv
  <2>10. ASSUME NEW s \in c.smask \cup {h} PROVE Due(s, u)' \subseteq Flushed(m)
    <3>1. s \in Hart
      BY <2>4
    <3>2. CASE Regular(n) /\ Regular(c)
      <4>1. Flushed(n) \subseteq Flushed(m) /\ Flushed(c) \subseteq Flushed(m)
        BY <1>7, <1>9, <2>3, <2>4, <3>2, MergedFlushes DEF m
      <4>2. s = h => Due(s, u) \subseteq Flushed(n)
        BY <1>7, <1>9, <1>10
      <4>3. s # h => Due(s, u) \subseteq Flushed(c)
        BY <2>2, <2>9 DEF QueueOK, c
      <4> QED
        BY <1>7, <1>12, <3>1, <4>1, <4>2, <4>3
    <3>3. CASE ~(Regular(n) /\ Regular(c))
      <4>1. u \in spoilt'[s]
        BY <1>9, <2>4, <3>1, <3>3 DEF Spoil
      <4> QED
        BY <4>1 DEF Due
    <3> QED
      BY <3>2, <3>3
  <2>11. ASSUME NEW i \in DOMAIN fifo[u], NEW s \in fifo'[u][i].smask
         PROVE  Due(s, u)' \subseteq Flushed(fifo'[u][i])
    <3>1. CASE i # k
      <4>1. fifo'[u][i] = fifo[u][i] /\ fifo[u][i] \in Entry
        BY <2>2, <2>8, <3>1, ElementOfSeq
      <4>2. s \in Hart
        BY <4>1 DEF Entry
      <4> QED
        BY <1>7, <1>12, <2>9, <4>1, <4>2 DEF QueueOK
    <3>2. CASE i = k
      BY <2>6, <2>8, <2>10, <3>2
    <3> QED
      BY <3>1, <3>2
  <2>12. QueueOK(u)'
    <3>1. \A s \in acks'[u] : Due(s, u)' = {}
      BY <1>2, <1>4, <1>7, <1>12, <2>9 DEF QueueOK
    <3> QED
      BY <2>8, <2>11, <3>1 DEF QueueOK
  <2>13. DueInv'
    BY <1>13, <1>14, <1>15, <2>5, <2>12 DEF DueInv
  <2>14. \A t \in Hart : \A i \in DOMAIN fifo'[t] : Capped(fifo'[t][i])
    BY <2>5, <2>7, <2>8 DEF ShapeInv
  <2> QED
    BY <2>13, <2>14 DEF ShapeInv
<1> QED
  BY <1>7, <1>16, <1>17

LEMMA DueEnqueue ==
    ASSUME TypeOK, Flow, AckInv, ShapeInv, DueInv, NEW h \in Hart, FenceEnqueue(h)
    PROVE  DueInv' /\ ShapeInv'
<1>1. Others(h)
  BY OthersKeep DEF Step
<1>2. /\ pc[h] = "enq" /\ ret[h] = "ev" /\ todo[h] # {}
      /\ sync' = sync /\ acks' = acks /\ todo' = todo /\ op' = op /\ req' = req
      /\ \A s, t : Due(s, t)' = Due(s, t)
  BY DueSame DEF FenceEnqueue, sender, hist, Flow, FlowOK
<1>3. DOMAIN pc = Hart /\ req[h] \in Info /\ fifo \in [Hart -> Seq(Entry)]
  BY DEF TypeOK
<1>4. PICK u : u = Target(h)
  OBVIOUS
<1>5. u \in Hart
  BY <1>2, <1>4, TargetIn
<1>6. SenderOK(h)
  BY DEF DueInv
<1>7. CASE fifo' = fifo
  <2>1. DueInv'
    BY <1>1, <1>2, <1>7, DueQuiet
  <2> QED
    BY <1>2, <1>7, <2>1 DEF ShapeInv
<1>8. CASE fifo' # fifo
  <2> DEFINE n == TlbInfo(req[h], h)
             k == Len(fifo[u]) + 1
  <2>1. fifo' = [fifo EXCEPT ![u] = Append(fifo[u], n)] /\ pc' = [pc EXCEPT ![h] = "set"] /\ ret' = ret
    BY <1>4, <1>8 DEF FenceEnqueue, Goto
  <2>2. Limited(req[h]) = req[h]
    BY <1>2, <1>6 DEF SenderOK
  <2>3. Capped(req[h])
    BY <1>3, <2>2, LimitedCapped
  <2>4. n \in Entry /\ n.smask = {h} /\ Flushed(n) = Flushed(req[h]) /\ Capped(n)
    BY <1>3, <2>3, TlbInfoEntry, TlbInfoSame DEF TlbInfo
  <2> HIDE DEF n
  <2>5. fifo[u] \in Seq(Entry) /\ DOMAIN fifo[u] = 1 .. Len(fifo[u]) /\ Len(fifo[u]) \in Nat
    BY <1>3, <1>5
  <2>6. fifo'[u] = Append(fifo[u], n) /\ \A g \in Hart \ {u} : fifo'[g] = fifo[g]
    BY <1>3, <1>5, <2>1
  <2>7. /\ fifo'[u] \in Seq(Entry) /\ Len(fifo'[u]) = k /\ fifo'[u][k] = n
        /\ \A i \in 1 .. Len(fifo[u]) : fifo'[u][i] = fifo[u][i]
    BY <2>4, <2>5, <2>6, AppendProperties
  <2>8. DOMAIN fifo'[u] = DOMAIN fifo[u] \cup {k}
    BY <2>5, <2>7
  <2> HIDE DEF k
  <2>9. QueueOK(u)
    BY <1>5 DEF DueInv
  <2>10. ASSUME NEW i \in DOMAIN fifo'[u], NEW s \in fifo'[u][i].smask
         PROVE  Due(s, u)' \subseteq Flushed(fifo'[u][i])
    <3>1. CASE i = k
      <4>1. s = h /\ Due(h, u) \subseteq Flushed(req[h])
        BY <1>5, <1>6, <2>2, <2>4, <2>7, <3>1 DEF SenderOK
      <4> QED
        BY <1>2, <2>4, <2>7, <3>1, <4>1
    <3>2. CASE i # k
      <4>1. i \in DOMAIN fifo[u] /\ fifo'[u][i] = fifo[u][i]
        BY <2>5, <2>7, <2>8, <3>2
      <4> QED
        BY <1>2, <2>9, <4>1 DEF QueueOK
    <3> QED
      BY <3>1, <3>2
  <2>11. QueueOK(u)'
    <3>1. \A s \in acks'[u] : Due(s, u)' = {}
      BY <1>2, <2>9 DEF QueueOK
    <3> QED
      BY <2>10, <3>1 DEF QueueOK
  <2>12. \A t \in Hart \ {u} : QueueOK(t)'
    BY <1>2, <2>6, QueueKeeps DEF DueInv
  <2>13. \A s \in Hart \ {h} : SenderOK(s)'
    BY <1>1, <1>2, SenderKeeps DEF DueInv
  <2>14. SenderOK(h)'
    <3>1. Target(h)' = Target(h)
      BY <1>2 DEF Target
    <3>2. \A t \in Hart : op'[h] # "tlb" \/ t \notin todo'[h] => Due(h, t)' = {}
      BY <1>2, <1>6 DEF SenderOK
    <3>3. \A t \in Hart : Due(h, t)' \subseteq Flushed(Limited(req'[h]))
      BY <1>2, <1>6 DEF SenderOK
    <3>4. \A t \in Hart : sync'[h] = 1 /\ t = Target(h)' => Due(h, t)' = {}
      BY <1>2, <1>6, <3>1 DEF SenderOK
    <3>5. Limited(req'[h]) = req'[h]
      BY <1>2, <2>2
    <3> QED
      BY <3>2, <3>3, <3>4, <3>5 DEF SenderOK
  <2>15. DueInv'
    BY <2>11, <2>12, <2>13, <2>14 DEF DueInv
  <2>16. \A t \in Hart : \A i \in DOMAIN fifo'[t] : Capped(fifo'[t][i])
    <3> SUFFICES ASSUME NEW t \in Hart, NEW i \in DOMAIN fifo'[t]
                 PROVE  Capped(fifo'[t][i])
      OBVIOUS
    <3>1. CASE t # u
      BY <2>6, <3>1 DEF ShapeInv
    <3>2. CASE t = u /\ i = k
      BY <2>4, <2>7, <3>2
    <3>3. CASE t = u /\ i # k
      <4>1. i \in DOMAIN fifo[u] /\ fifo'[u][i] = fifo[u][i]
        BY <2>5, <2>7, <2>8, <3>3
      <4> QED
        BY <1>5, <3>3, <4>1 DEF ShapeInv
    <3> QED
      BY <3>1, <3>2, <3>3
  <2> QED
    BY <2>15, <2>16 DEF ShapeInv
<1> QED
  BY <1>7, <1>8

(* The hart at hand is done with: its fence was acknowledged, or the event  *)
(* is none that waits.                                                      *)
LEMMA DueNextTarget ==
    ASSUME TypeOK, Flow, DueInv, NEW h \in Hart, Sync(h) \/ Raise(h)
    PROVE  DueInv'
<1>1. Others(h)
  BY OthersKeep DEF Step
<1>2. DOMAIN pc = Hart /\ DOMAIN ret = Hart /\ DOMAIN todo = Hart /\ DOMAIN sync = Hart
  BY DEF TypeOK
<1>3. /\ fifo' = fifo /\ acks' = acks /\ op' = op /\ req' = req /\ \A s, t : Due(s, t)' = Due(s, t)
      /\ pc'[h] \in {"sync", "send", "deq"} /\ ret[h] = "ev" /\ ret'[h] \in {"ev", "sync"}
  BY <1>2, DueSame DEF Sync, Raise, NextTarget, Goto, local, hist, Flow, FlowOK
<1>4. CASE sync' = sync /\ todo' = todo
  BY <1>1, <1>3, <1>4, DueQuiet
<1>5. CASE /\ todo'[h] = todo[h] \ {Target(h)}
           /\ \/ sync' = sync /\ op[h] # "tlb"
              \/ sync[h] = 1 /\ sync' = [sync EXCEPT ![h] = 0]
  <2>1. \A s \in Hart \ {h} : sync'[s] = sync[s]
    BY <1>2, <1>5
  <2>2. \A s \in Hart \ {h} : SenderOK(s)'
    BY <1>1, <1>3, <2>1, SenderKeeps DEF DueInv
  <2>3. \A t \in Hart : QueueOK(t)'
    BY <1>3, QueueKeeps DEF DueInv
  <2>4. SenderOK(h)
    BY DEF DueInv
  <2>5. PICK u : u = Target(h)
    OBVIOUS
  <2>6. \A t \in Hart : op'[h] # "tlb" \/ t \notin todo'[h] => Due(h, t)' = {}
    <3>1. todo'[h] = todo[h] \ {u}
      BY <1>5, <2>5
    <3>2. ASSUME NEW t \in Hart, t = u PROVE Due(h, t) = {}
      <4>1. CASE op[h] # "tlb"
        BY <2>4, <4>1 DEF SenderOK
      <4>2. CASE sync[h] = 1
        BY <2>4, <2>5, <3>2, <4>2 DEF SenderOK
      <4> QED
        BY <1>5, <4>1, <4>2
    <3> QED
      BY <1>3, <2>4, <3>1, <3>2 DEF SenderOK
  <2>7. \A t \in Hart : Due(h, t)' \subseteq Flushed(Limited(req'[h]))
    BY <1>3, <2>4 DEF SenderOK
  <2>8. \A t \in Hart : sync'[h] = 1 => Due(h, t)' = {}
    BY <1>2, <1>3, <1>5, <2>4 DEF SenderOK
  <2>9. SenderOK(h)'
    BY <1>3, <2>6, <2>7, <2>8 DEF SenderOK
  <2> QED
    BY <2>2, <2>3, <2>9 DEF DueInv
<1> QED
  BY <1>2, <1>4, <1>5 DEF Sync, Raise, NextTarget

(* An entry is taken out and executed: what it names is no longer due.      *)
LEMMA DueDequeue ==
    ASSUME TypeOK, Flow, DueInv, NEW h \in Hart, Dequeue(h)
    PROVE  DueInv'
<1>1. Others(h)
  BY OthersKeep DEF Step
<1>2. DOMAIN pc = Hart /\ DOMAIN acks = Hart
      /\ fifo \in [Hart -> Seq(Entry)] /\ fifo[h] \in Seq(Entry)
  BY DEF TypeOK
<1> DEFINE e == Head(fifo[h])
<1>3. /\ pc[h] = "deq" /\ pc'[h] = "ack" /\ sync' = sync /\ op' = op /\ req' = req /\ todo' = todo
      /\ ret' = ret /\ acks'[h] = e.smask /\ \A t \in Hart \ {h} : acks'[t] = acks[t]
      /\ FlushedBy(h, e) /\ spoilt' = spoilt
  BY <1>2 DEF Dequeue, Goto, sender
<1>4. /\ e = fifo[h][1] /\ e \in Entry /\ 1 \in 1 .. Len(fifo[h])
      /\ fifo' = [fifo EXCEPT ![h] = Tail(fifo[h])]
      /\ Len(Tail(fifo[h])) = Len(fifo[h]) - 1
      /\ \A i \in 1 .. Len(fifo[h]) - 1 : Tail(fifo[h])[i] = fifo[h][i + 1]
  BY TypeDequeue
<1>5. Tail(fifo[h]) \in Seq(Entry) /\ Len(fifo[h]) \in Nat /\ DOMAIN fifo[h] = 1 .. Len(fifo[h])
  BY <1>2 DEF Dequeue
<1> HIDE DEF e
<1>6. fifo'[h] = Tail(fifo[h]) /\ \A g \in Hart \ {h} : fifo'[g] = fifo[g]
  BY <1>2, <1>4
<1>7. DOMAIN fifo'[h] = 1 .. Len(fifo[h]) - 1
  <2>1. DOMAIN Tail(fifo[h]) = 1 .. Len(Tail(fifo[h]))
    BY <1>5, LenProperties
  <2> QED
    BY <1>4, <1>6, <2>1
<1>8. /\ \A s, t \in Hart : Due(s, t)' \subseteq Due(s, t)
      /\ \A s \in Hart : Due(s, h)' = Due(s, h) \ Flushed(e)
  BY <1>3, DueFlushed
<1>9. \A s \in Hart \ {h} : SenderOK(s)'
  BY <1>1, <1>3, <1>8, SenderKeeps DEF DueInv
<1>10. SenderOK(h)'
  <2>1. SenderOK(h) /\ Target(h)' = Target(h)
    BY <1>3 DEF DueInv, Target
  <2>2. \A t \in Hart : op'[h] # "tlb" \/ t \notin todo'[h] => Due(h, t)' = {}
    BY <1>3, <1>8, <2>1 DEF SenderOK
  <2>3. \A t \in Hart : Due(h, t)' \subseteq Flushed(Limited(req'[h]))
    BY <1>3, <1>8, <2>1 DEF SenderOK
  <2>4. \A t \in Hart : sync'[h] = 1 /\ t = Target(h)' => Due(h, t)' = {}
    BY <1>3, <1>8, <2>1 DEF SenderOK
  <2>5. ret'[h] = "enq" => Limited(req'[h]) = req'[h]
    BY <1>3, <2>1 DEF SenderOK
  <2> QED
    BY <1>3, <2>2, <2>3, <2>4, <2>5 DEF SenderOK
<1>11. \A t \in Hart \ {h} : QueueOK(t)'
  BY <1>3, <1>6, <1>8, QueueKeeps DEF DueInv
<1>12. QueueOK(h)
  BY DEF DueInv
<1>13. \A s \in acks'[h] : Due(s, h)' = {}
  <2>1. e.smask \subseteq Hart
    BY <1>4 DEF Entry
  <2>2. \A s \in e.smask : Due(s, h) \subseteq Flushed(e)
    BY <1>4, <1>5, <1>12 DEF QueueOK
  <2> QED
    BY <1>3, <1>8, <2>1, <2>2
<1>14. ASSUME NEW i \in DOMAIN fifo'[h], NEW s \in fifo'[h][i].smask
       PROVE  Due(s, h)' \subseteq Flushed(fifo'[h][i])
  <2>1. fifo'[h][i] = fifo[h][i + 1] /\ i + 1 \in DOMAIN fifo[h]
    BY <1>4, <1>5, <1>6, <1>7
  <2>2. fifo[h][i + 1] \in Entry
    BY <1>2, <1>5, <2>1, ElementOfSeq
  <2>3. s \in Hart
    BY <2>1, <2>2 DEF Entry
  <2>4. Due(s, h) \subseteq Flushed(fifo[h][i + 1])
    BY <1>12, <2>1 DEF QueueOK
  <2> QED
    BY <1>8, <2>1, <2>3, <2>4
<1>15. QueueOK(h)'
  BY <1>13, <1>14 DEF QueueOK
<1> QED
  BY <1>9, <1>10, <1>11, <1>15 DEF DueInv

(* An acknowledgement is given when nothing is due any more. *)
LEMMA DueAcknowledge ==
    ASSUME TypeOK, Flow, AckInv, DueInv, NEW h \in Hart, Acknowledge(h)
    PROVE  DueInv'
<1>1. Others(h)
  BY OthersKeep DEF Step
<1>2. /\ pc[h] = "ack" /\ fifo' = fifo /\ op' = op /\ todo' = todo /\ req' = req
      /\ \A s, t : Due(s, t)' = Due(s, t)
  BY DueSame DEF Acknowledge, sender, hist
<1> DEFINE r == Lowest(acks[h])
<1>3. /\ r \in acks[h] /\ r \in Hart
      /\ sync' = [sync EXCEPT ![r] = 1] /\ acks' = [acks EXCEPT ![h] = @ \ {r}]
      /\ \/ /\ ret[h] # "ev" /\ pc' = [pc EXCEPT ![h] = ret[h]]
            /\ ret' = [ret EXCEPT ![h] = "ev"]
         \/ pc' = [pc EXCEPT ![h] = "deq"] /\ ret' = ret
         \/ pc' = pc /\ ret' = ret
  BY AckEffect
<1> HIDE DEF r
<1>4. DOMAIN sync = Hart /\ DOMAIN acks = Hart /\ DOMAIN pc = Hart /\ DOMAIN ret = Hart
      /\ 0 \in 0 .. NumEntries
  BY Sizes DEF TypeOK
<1>5. \A g \in Hart \ {r} : sync'[g] = sync[g]
  BY <1>3, <1>4
<1>6. \A g \in Hart : acks'[g] \subseteq acks[g]
  BY <1>3, <1>4
<1>7. \A t \in Hart : QueueOK(t)'
  BY <1>2, <1>6, QueueKeeps DEF DueInv
<1>8. Owed(r, h, 0)
  BY <1>3 DEF Owed
<1>9. h = Target(r) /\ Due(r, h) = {}
  BY <1>3, <1>4, <1>8 DEF AckInv, DueInv, QueueOK
<1>10. pc'[h] = "enq" \/ ret'[h] = "enq" => ret[h] = "enq"
  BY <1>2, <1>3, <1>4
<1>11. ASSUME NEW s \in Hart PROVE SenderOK(s)'
  <2>1. SenderOK(s)
    BY DEF DueInv
  <2>2. Target(s)' = Target(s)
    BY <1>2 DEF Target
  <2>3. \A t \in Hart : op'[s] # "tlb" \/ t \notin todo'[s] => Due(s, t)' = {}
    BY <1>2, <2>1 DEF SenderOK
  <2>4. \A t \in Hart : Due(s, t)' \subseteq Flushed(Limited(req'[s]))
    BY <1>2, <2>1 DEF SenderOK
  <2>5. pc'[s] = "enq" \/ ret'[s] = "enq" => pc[s] = "enq" \/ ret[s] = "enq"
    BY <1>1, <1>10 DEF Others
  <2>6. pc'[s] = "enq" \/ ret'[s] = "enq" => Limited(req'[s]) = req'[s]
    BY <1>2, <2>1, <2>5 DEF SenderOK
  <2>7. \A t \in Hart : sync'[s] = 1 /\ t = Target(s)' => Due(s, t)' = {}
    <3>1. CASE s = r
      BY <1>2, <1>9, <2>2, <3>1
    <3>2. CASE s # r
      BY <1>2, <1>5, <2>1, <2>2, <3>2 DEF SenderOK
    <3> QED
      BY <3>1, <3>2
  <2> QED
    BY <2>3, <2>4, <2>6, <2>7 DEF SenderOK
<1> QED
  BY <1>7, <1>11 DEF DueInv

LEMMA DueInitTlb ==
    ASSUME TypeOK, Flow, AckInv, DueInv, NEW h \in Hart, InitTlb(h)
    PROVE  DueInv'
<1>1. Others(h)
  BY OthersKeep DEF Step
<1>2. /\ pc[h] = "init_tlb" /\ ret[h] = "ev" /\ DOMAIN pc = Hart /\ DOMAIN fifo = Hart /\ DOMAIN sync = Hart
  BY DEF InitTlb, Flow, FlowOK, TypeOK
<1>3. /\ pc'[h] = "jump" /\ acks' = acks /\ todo' = todo /\ op' = op /\ ret' = ret /\ req' = req
      /\ \A s, t : Due(s, t)' = Due(s, t)
      /\ fifo'[h] = << >> /\ \A g \in Hart \ {h} : fifo'[g] = fifo[g] /\ sync'[g] = sync[g]
      /\ sync'[h] = 0
  BY <1>2, DueSame DEF InitTlb, Goto, sender, local, hist
<1>4. \A s \in Hart \ {h} : SenderOK(s)'
  BY <1>1, <1>3, SenderKeeps DEF DueInv
<1>5. SenderOK(h)'
  <2>1. SenderOK(h)
    BY DEF DueInv
  <2>2. \A t \in Hart : op'[h] # "tlb" \/ t \notin todo'[h] => Due(h, t)' = {}
    BY <1>3, <2>1 DEF SenderOK
  <2>3. \A t \in Hart : Due(h, t)' \subseteq Flushed(Limited(req'[h]))
    BY <1>3, <2>1 DEF SenderOK
  <2> QED
    BY <1>2, <1>3, <2>2, <2>3 DEF SenderOK
<1>6. \A t \in Hart \ {h} : QueueOK(t)'
  BY <1>3, QueueKeeps DEF DueInv
<1>7. QueueOK(h)'
  <2>1. QueueOK(h) /\ DOMAIN << >> = {}
    BY DEF DueInv
  <2>2. \A s \in acks'[h] : Due(s, h)' = {}
    BY <1>3, <2>1 DEF QueueOK
  <2> QED
    BY <1>3, <2>1, <2>2 DEF QueueOK
<1> QED
  BY <1>4, <1>5, <1>6, <1>7 DEF DueInv

LEMMA DueRest ==
    ASSUME TypeOK, Flow, DueInv, NEW h \in Hart,
           \/ SendPlain(h) \/ SetBit(h) \/ DequeueEmpty(h) \/ ClearMsip(h) \/ TakeBits(h)
           \/ EvSmode(h) \/ EvHalt(h) \/ EvTlb(h) \/ EvDone(h) \/ HsmExit(h) \/ InitIpi(h)
           \/ HartWait(h) \/ Jump(h) \/ ClearSmode(h) \/ Stop(h)
    PROVE  DueInv'
<1>1. Others(h)
  BY OthersKeep DEF Step, Smode
<1>2. DOMAIN pc = Hart /\ DOMAIN ret = Hart /\ due \in [Hart -> [Hart -> SUBSET Items]]
  BY DEF TypeOK
<1> USE DEF Goto, shared, sender, local, hist, bound
<1>3. fifo' = fifo /\ sync' = sync /\ acks' = acks /\ op' = op /\ req' = req /\ todo' = todo
  BY DEF SendPlain, SetBit, DequeueEmpty, ClearMsip, TakeBits, EvSmode, EvHalt, EvTlb, EvDone,
         HsmExit, HartWait, InitIpi, Jump, ClearSmode, Stop, Sending
<1>4. \A s, t \in Hart : Due(s, t)' \subseteq Due(s, t)
  <2>1. CASE HsmExit(h)
    BY <1>2, <2>1 DEF HsmExit, Due
  <2>2. CASE ~HsmExit(h)
    <3>1. due' = due /\ spoilt' = spoilt
      BY <2>2 DEF SendPlain, SetBit, DequeueEmpty, ClearMsip, TakeBits, EvSmode, EvHalt, EvTlb,
         EvDone, HartWait, InitIpi, Jump, ClearSmode, Stop
    <3> QED
      BY <3>1, DueSame
  <2> QED
    BY <2>1, <2>2
<1>5. pc'[h] = "enq" \/ ret'[h] = "enq" => pc[h] = "enq" \/ ret[h] = "enq"
  <2>1. CASE DequeueEmpty(h)
    BY <1>2, <2>1 DEF DequeueEmpty
  <2>2. CASE ~DequeueEmpty(h)
    BY <1>2, <2>2 DEF SendPlain, SetBit, ClearMsip, TakeBits, EvSmode, EvHalt, EvTlb, EvDone,
         HsmExit, HartWait, InitIpi, Jump, ClearSmode, Stop, Sending
  <2> QED
    BY <2>1, <2>2
<1> QED
  BY <1>1, <1>3, <1>4, <1>5, DueQuiet

LEMMA DueStep ==
    ASSUME TypeOK, Flow, AckInv, ShapeInv, DueInv, NEW h \in Hart, Step(h) \/ Smode(h)
    PROVE  DueInv'
BY DueCall, DueRead, DueStart, DueSelf, DueUpdate, DueEnqueue, DueNextTarget, DueDequeue, DueAcknowledge,
   DueInitTlb, DueRest DEF Step, Smode

(* Entries are within the limit. *)
LEMMA ShapeStep ==
    ASSUME TypeOK, Flow, AckInv, ShapeInv, DueInv, NEW h \in Hart, Step(h) \/ Smode(h)
    PROVE  ShapeInv'
<1>1. DOMAIN fifo = Hart /\ fifo[h] \in Seq(Entry)
  BY DEF TypeOK
<1>2. CASE FenceUpdate(h) \/ FenceEnqueue(h)
  BY <1>2, DueUpdate, DueEnqueue
<1>3. CASE Dequeue(h)
  <2>1. /\ 1 \in 1 .. Len(fifo[h]) /\ fifo' = [fifo EXCEPT ![h] = Tail(fifo[h])]
        /\ Len(Tail(fifo[h])) = Len(fifo[h]) - 1
        /\ \A i \in 1 .. Len(fifo[h]) - 1 : Tail(fifo[h])[i] = fifo[h][i + 1]
    BY <1>3, TypeDequeue
  <2>2. Tail(fifo[h]) \in Seq(Entry) /\ Len(fifo[h]) \in Nat /\ DOMAIN fifo[h] = 1 .. Len(fifo[h])
    BY <1>1, <1>3 DEF Dequeue
  <2>3. fifo'[h] = Tail(fifo[h]) /\ \A g \in Hart \ {h} : fifo'[g] = fifo[g]
    BY <1>1, <2>1
  <2>4. \A i \in DOMAIN fifo'[h] : i + 1 \in DOMAIN fifo[h] /\ fifo'[h][i] = fifo[h][i + 1]
    <3>1. DOMAIN fifo'[h] = 1 .. Len(fifo[h]) - 1
      <4>1. DOMAIN Tail(fifo[h]) = 1 .. Len(Tail(fifo[h]))
        BY <2>2, LenProperties
      <4> QED
        BY <2>1, <2>3, <4>1
    <3> QED
      BY <2>1, <2>2, <2>3, <3>1
  <2> QED
    BY <2>3, <2>4 DEF ShapeInv
<1>4. CASE InitTlb(h)
  <2>1. /\ fifo'[h] = << >> /\ DOMAIN << >> = {}
        /\ \A g \in Hart \ {h} : fifo'[g] = fifo[g]
    BY <1>1, <1>4 DEF InitTlb
  <2> QED
    BY <2>1 DEF ShapeInv
<1>5. CASE \/ ReadState(h) \/ SendDone(h) \/ SendPlain(h) \/ FenceSelf(h) \/ SetBit(h) \/ Raise(h)
           \/ Sync(h) \/ DequeueEmpty(h) \/ Acknowledge(h) \/ ClearMsip(h) \/ TakeBits(h) \/ EvSmode(h)
           \/ EvHalt(h) \/ EvTlb(h) \/ EvDone(h) \/ HsmExit(h) \/ StartIpi(h) \/ HartWait(h)
           \/ InitIpi(h) \/ Jump(h) \/ Smode(h)
  <2>1. fifo' = fifo
    BY <1>5 DEF ReadState, SendDone, SendPlain, FenceSelf, SetBit, Raise, Sync, DequeueEmpty, Acknowledge,
         ClearMsip, TakeBits, EvSmode, EvHalt, EvTlb, EvDone, HsmExit, StartIpi, HartWait, InitIpi, Jump,
         Smode, Fence, SendEvent, Call, ClearSmode, Stop, Start, shared
  <2> QED
    BY <2>1 DEF ShapeInv
<1> QED
  BY <1>2, <1>3, <1>4, <1>5 DEF Step

FlushInv == TypeOK /\ Flow /\ AckInv /\ GoneInv /\ VainInv /\ ShapeInv /\ DueInv

LEMMA FlushStarts == Init => FlushInv
<1> SUFFICES ASSUME Init PROVE FlushInv
  OBVIOUS
<1>1. TypeOK /\ Flow /\ AckInv /\ GoneInv /\ VainInv
  BY BaseStarts, AckStarts
<1>2. DOMAIN << >> = {}
  OBVIOUS
<1>3. ShapeInv
  BY <1>2 DEF Init, ShapeInv
<1>4. \A s, t \in Hart : Due(s, t) = {}
  BY DEF Init, Due
<1>5. DueInv
  BY <1>2, <1>4 DEF Init, DueInv, SenderOK, QueueOK
<1> QED
  BY <1>1, <1>3, <1>5 DEF FlushInv

LEMMA FlushNext == FlushInv /\ [Next]_vars => FlushInv'
<1> SUFFICES ASSUME FlushInv, [Next]_vars PROVE FlushInv'
  OBVIOUS
<1>1. TypeOK' /\ Flow' /\ AckInv' /\ GoneInv' /\ VainInv'
  BY BaseStep, AckNext DEF FlushInv
<1>2. CASE UNCHANGED vars
  <2>1. /\ fifo' = fifo /\ acks' = acks /\ sync' = sync /\ todo' = todo
        /\ pc' = pc /\ op' = op /\ ret' = ret /\ req' = req /\ \A s, t : Due(s, t)' = Due(s, t)
    BY <1>2, DueSame DEF vars, shared, sender, local, hist
  <2>2. ShapeInv'
    BY <2>1 DEF FlushInv, ShapeInv
  <2>3. \A s \in Hart : Target(s)' = Target(s)
    BY <2>1 DEF Target
  <2>4. DueInv'
    BY <2>1, <2>3 DEF FlushInv, DueInv, SenderOK, QueueOK
  <2> QED
    BY <1>1, <2>2, <2>4 DEF FlushInv
<1>3. CASE Next
  BY <1>1, <1>3, DueStep, ShapeStep DEF FlushInv, Next
<1> QED
  BY <1>2, <1>3

LEMMA FlushInductive == Spec => []FlushInv
BY FlushStarts, FlushNext, PTL DEF Spec

LEMMA FlushImplies == FlushInv => FenceDone /\ RegularMergesCover
BY DEF FlushInv, DueInv, SenderOK, QueueOK, Due, FenceDone, RegularMergesCover

(* sbi_tlb_request passes on from a hart, and returns, only when that hart  *)
(* has flushed all it was asked to or stopped, whatever S-mode asks for:    *)
(* ranges over the limit, full queues, merged entries and stopped harts     *)
(* included.  Excepted are the fences that sbi_tlb_update_cb put there into *)
(* one entry with a range that is not regular, or that are not themselves.  *)
THEOREM FencesAreExecuted == Spec => []FenceDone
BY FlushInductive, FlushImplies, PTL

(* A queue entry flushes all that is due to any of the senders in its mask, *)
(* so sbi_tlb_update_cb may merge what is regular or over the limit: an     *)
(* entry that does not was made from a range that is neither.               *)
THEOREM EntriesCoverRequests == Spec => []RegularMergesCover
BY FlushInductive, FlushImplies, PTL

=============================================================================
