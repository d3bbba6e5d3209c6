--------------------------- MODULE SbiFifoProofs ---------------------------
(* The FIFO, for every capacity, callback and number of harts.              *)
EXTENDS SbiFifo, SbiLockProofs

(* Entries before the one an in-place update is at did not take the request *)
Scanned(h) ==
    /\ reg[h] \in Nat
    /\ reg[h] < avail \/ reg[h] = 0
    /\ \A i \in 0 .. NumEntries - 1 :
         i < reg[h] => Fptr(call[h].req.arg, queue[Wrap(tail + i)]).verdict = "UNCHANGED"

(* What the hart with the lock knows at each step between lock and unlock.  *)
Inside(h) ==
    \/ /\ step[h] = "body" /\ call[h].done = FALSE
       /\ call[h].req.op = "inplace_update" => Scanned(h)
    \/ /\ step[h] = "count" /\ call[h].done = FALSE /\ call[h].req.op = "enqueue"
       /\ avail < NumEntries /\ queue[Wrap(tail + avail)] = call[h].req.arg
    \/ /\ step[h] = "count" /\ call[h].done = FALSE /\ call[h].req.op = "dequeue"
       /\ avail > 0 /\ reg[h] = queue[tail]
    \/ /\ step[h] = "tail" /\ call[h].done = TRUE /\ call[h].req.op = "dequeue"
       /\ avail < NumEntries
    \/ /\ step[h] = "clear" /\ call[h].done = TRUE /\ call[h].req.op = "reset"
       /\ avail = 0
    \/ step[h] = "unlock" /\ call[h].done = TRUE

(* A hart without the lock has touched nothing. *)
Outside(h) ==
    /\ step[h] = "body" /\ reg[h] = 0 /\ call[h].done = FALSE
    /\ at[h] = "out" => call[h] = Idle

Shape ==
    /\ DOMAIN call = Hart /\ DOMAIN reg = Hart
    /\ call = [h \in Hart |-> [req |-> call[h].req, done |-> call[h].done, ret |-> call[h].ret]]
    /\ reg = [h \in Hart |-> reg[h]]
    /\ \A h \in Hart : at[h] # "out" => call[h].req \in Calls

(* The entries in use were queued by a caller. *)
Used == \A i \in 0 .. NumEntries - 1 : i < avail => queue[Wrap(first + i)] \in Entry

Ring ==
    /\ queue \in [Index -> Entry \cup {Zero}]
    /\ avail \in 0 .. NumEntries
    /\ tail \in Index
    /\ step \in [Hart -> {"body", "count", "tail", "clear", "unlock"}]

FifoInv ==
    /\ LockInv
    /\ Ring
    /\ Shape
    /\ \A h \in Hart : IF at[h] = "in" THEN Inside(h) ELSE Outside(h)
    /\ Used

---------------------------------------------------------------------------
LEMMA Size == NumEntries \in Nat \ {0}
BY FifoAssumption

(* Index arithmetic. *)
LEMMA WrapIn ==
    ASSUME NEW t \in Index, NEW i \in 0 .. NumEntries
    PROVE  Wrap(t + i) \in Index
BY Size DEF Wrap, Index

LEMMA WrapInjective ==
    ASSUME NEW t \in Index, NEW i \in 0 .. NumEntries - 1, NEW j \in 0 .. NumEntries - 1,
           Wrap(t + i) = Wrap(t + j)
    PROVE  i = j
BY Size DEF Wrap, Index

LEMMA WrapShift ==
    ASSUME NEW t \in Index, NEW i \in 0 .. NumEntries - 1
    PROVE  Wrap(Wrap(t + 1) + i) = Wrap(t + (i + 1))
BY Size DEF Wrap, Index

LEMMA WrapZero ==
    ASSUME NEW t \in Index
    PROVE  Wrap(t) = t /\ Wrap(t + 0) = t
BY Size DEF Wrap, Index

---------------------------------------------------------------------------
(* One hart at a time is inside, so the others are where they started.      *)
LEMMA Alone ==
    ASSUME FifoInv, NEW h \in Hart, at[h] = "in"
    PROVE  /\ \A g \in Hart \ {h} : at[g] # "in" /\ Outside(g)
           /\ Inside(h)
           /\ first = IF step[h] = "tail" THEN Wrap(tail + 1) ELSE tail
<1>1. \A g \in Hart : at[g] = "in" => g = h
  BY DEF FifoInv, LockInv, TicketInv, Active
<1>2. \A g \in Hart \ {h} : at[g] # "in" /\ Outside(g)
  BY <1>1 DEF FifoInv
<1>3. Inside(h)
  BY DEF FifoInv
<1>4. \A g \in Hart \ {h} : step[g] # "tail"
  BY <1>2 DEF Outside
<1>5. (\E g \in Hart : step[g] = "tail") <=> step[h] = "tail"
  BY <1>4
<1> QED
  BY <1>2, <1>3, <1>5 DEF first

LEMMA NobodyIn ==
    ASSUME FifoInv, \A h \in Hart : at[h] # "in"
    PROVE  first = tail /\ \A h \in Hart : Outside(h)
BY DEF FifoInv, Outside, first

LEMMA FirstIn == FifoInv => first \in Index
<1> SUFFICES ASSUME FifoInv PROVE first \in Index
  OBVIOUS
<1>1. tail \in Index
  BY DEF FifoInv, Ring
<1>2. Wrap(tail + 1) \in Index
  BY <1>1, WrapIn, Size
<1> QED
  BY <1>1, <1>2 DEF first

(* A step of the hart with the lock: only its own registers change.         *)
LEMMA InsideStep ==
    ASSUME FifoInv, NEW h \in Hart, at[h] = "in", UNCHANGED lockVars,
           NEW d, NEW r, NEW x, NEW s \in {"body", "count", "tail", "clear", "unlock"},
           call' = [call EXCEPT ![h] = [req |-> call[h].req, done |-> d, ret |-> r]],
           step' = [step EXCEPT ![h] = s],
           reg' = [reg EXCEPT ![h] = x],
           queue' \in [Index -> Entry \cup {Zero}],
           avail' \in 0 .. NumEntries, tail' \in Index,
           Inside(h)',
           \A i \in 0 .. NumEntries - 1 : i < avail' =>
              queue'[Wrap((IF s = "tail" THEN Wrap(tail' + 1) ELSE tail') + i)] \in Entry
    PROVE  FifoInv'
<1>1. LockInv'
  <2>1. LockInv
    BY DEF FifoInv
  <2> QED
    BY <2>1, LockStep
<1>2. Ring'
  BY DEF FifoInv, Ring
<1>3. /\ DOMAIN call = Hart /\ DOMAIN reg = Hart
      /\ \A g \in Hart : call[g] = [req |-> call[g].req, done |-> call[g].done, ret |-> call[g].ret]
      /\ \A g \in Hart : at[g] # "out" => call[g].req \in Calls
  BY DEF FifoInv, Shape
<1>4. /\ DOMAIN call' = Hart /\ DOMAIN reg' = Hart
      /\ call' = [g \in Hart |-> call'[g]] /\ reg' = [g \in Hart |-> reg'[g]]
      /\ call'[h] = [req |-> call[h].req, done |-> d, ret |-> r]
      /\ \A g \in Hart \ {h} : call'[g] = call[g] /\ reg'[g] = reg[g]
  BY <1>3
<1>5. call'[h] = [req |-> call'[h].req, done |-> call'[h].done, ret |-> call'[h].ret]
      /\ call'[h].req = call[h].req
  BY <1>4
<1>6. \A g \in Hart : call'[g] = [req |-> call'[g].req, done |-> call'[g].done, ret |-> call'[g].ret]
  BY <1>3, <1>4, <1>5
<1>7. \A g \in Hart : call'[g].req = call[g].req
  BY <1>4, <1>5
<1>8. at' = at
  BY DEF lockVars
<1>9. Shape'
  BY <1>3, <1>4, <1>6, <1>7, <1>8 DEF Shape
<1>10. \A g \in Hart \ {h} : at'[g] # "in" /\ Outside(g)'
  <2> SUFFICES ASSUME NEW g \in Hart \ {h} PROVE at'[g] # "in" /\ Outside(g)'
    OBVIOUS
  <2>1. at[g] # "in" /\ Outside(g)
    BY Alone
  <2>2. step'[g] = step[g]
    BY DEF FifoInv, Ring
  <2> QED
    BY <2>1, <2>2, <1>4, <1>8 DEF Outside
<1>11. \A g \in Hart : IF at'[g] = "in" THEN Inside(g)' ELSE Outside(g)'
  BY <1>8, <1>10
<1>12. step'[h] = s /\ \A g \in Hart \ {h} : step'[g] # "tail"
  BY <1>10 DEF FifoInv, Ring, Outside
<1>13. first' = IF s = "tail" THEN Wrap(tail' + 1) ELSE tail'
  <2>1. (\E g \in Hart : step'[g] = "tail") <=> s = "tail"
    BY <1>12
  <2> QED
    BY <2>1 DEF first, Wrap
<1>14. Used'
  BY <1>13 DEF Used, Wrap
<1> QED
  BY <1>1, <1>2, <1>9, <1>11, <1>14 DEF FifoInv

(* The record form of what Result, Goto and the rest do to call. *)
LEMMA CallKept ==
    ASSUME FifoInv, NEW h \in Hart
    PROVE  /\ call = [call EXCEPT ![h] = [req |-> call[h].req, done |-> call[h].done, ret |-> call[h].ret]]
           /\ reg = [reg EXCEPT ![h] = reg[h]]
           /\ step = [step EXCEPT ![h] = step[h]]
<1>1. /\ DOMAIN call = Hart /\ DOMAIN reg = Hart
      /\ call = [g \in Hart |-> [req |-> call[g].req, done |-> call[g].done, ret |-> call[g].ret]]
      /\ reg = [g \in Hart |-> reg[g]]
  BY DEF FifoInv, Shape
<1>2. step \in [Hart -> {"body", "count", "tail", "clear", "unlock"}]
  BY DEF FifoInv, Ring
<1>3. call[h] = [req |-> call[h].req, done |-> call[h].done, ret |-> call[h].ret]
  BY <1>1
<1>4. call = [call EXCEPT ![h] = call[h]]
  BY <1>1
<1>5. reg = [reg EXCEPT ![h] = reg[h]]
  BY <1>1
<1>6. step = [step EXCEPT ![h] = step[h]]
  BY <1>2
<1> QED
  BY <1>3, <1>4, <1>5, <1>6

---------------------------------------------------------------------------
(* The step a hart leaves with its result known. *)
LEMMA ResultStep ==
    ASSUME FifoInv, NEW h \in Hart, at[h] = "in", NEW r, NEW s \in {"tail", "clear", "unlock"},
           Result(h, r, s),
           queue' \in [Index -> Entry \cup {Zero}], avail' \in 0 .. NumEntries, tail' \in Index,
           s = "tail" => call[h].req.op = "dequeue" /\ avail' < NumEntries,
           s = "clear" => call[h].req.op = "reset" /\ avail' = 0,
           \A i \in 0 .. NumEntries - 1 : i < avail' =>
              queue'[Wrap((IF s = "tail" THEN Wrap(tail' + 1) ELSE tail') + i)] \in Entry
    PROVE  FifoInv'
<1>1. /\ call' = [call EXCEPT ![h] = [req |-> call[h].req, done |-> TRUE, ret |-> r]]
      /\ step' = [step EXCEPT ![h] = s]
      /\ reg' = [reg EXCEPT ![h] = reg[h]]
      /\ UNCHANGED lockVars
  BY CallKept DEF Result, Done
<1>2. DOMAIN call = Hart /\ step'[h] = s
  BY <1>1 DEF FifoInv, Shape, Ring
<1>3. call'[h] = [req |-> call[h].req, done |-> TRUE, ret |-> r]
  BY <1>1, <1>2
<1>4. call'[h].done = TRUE /\ call'[h].req = call[h].req
  BY <1>3
<1>5. Inside(h)'
  BY <1>2, <1>4 DEF Inside
<1>6. s \in {"body", "count", "tail", "clear", "unlock"}
  OBVIOUS
<1> QED
  BY <1>1, <1>5, <1>6, InsideStep

(* With the ring as it was, the entries in use are. *)
LEMMA UsedNow ==
    ASSUME FifoInv, NEW h \in Hart, at[h] = "in", step[h] # "tail"
    PROVE  /\ \A i \in 0 .. NumEntries - 1 : i < avail => queue[Wrap(tail + i)] \in Entry
           /\ queue \in [Index -> Entry \cup {Zero}] /\ avail \in 0 .. NumEntries /\ tail \in Index
BY Alone DEF FifoInv, Used, Ring

LEMMA StepEnqueueCopy ==
    ASSUME FifoInv, NEW h \in Hart, EnqueueCopy(h)
    PROVE  FifoInv'
<1> USE DEF EnqueueCopy, Holds
<1>1. at[h] = "in" /\ step[h] = "body" /\ call[h].req.op = "enqueue"
  OBVIOUS
<1>2. /\ \A i \in 0 .. NumEntries - 1 : i < avail => queue[Wrap(tail + i)] \in Entry
      /\ queue \in [Index -> Entry \cup {Zero}] /\ avail \in 0 .. NumEntries /\ tail \in Index
  BY <1>1, UsedNow
<1>3. CASE avail = NumEntries /\ Result(h, "ENOSPC", "unlock") /\ UNCHANGED fifo
  <2>1. queue' = queue /\ avail' = avail /\ tail' = tail
    BY <1>3 DEF fifo
  <2> QED
    BY <1>1, <1>2, <1>3, <2>1, ResultStep
<1>4. CASE /\ avail # NumEntries
           /\ queue' = [queue EXCEPT ![Wrap(tail + avail)] = call[h].req.arg]
           /\ Goto(h, "count")
           /\ UNCHANGED <<avail, tail>>
  <2>1. call[h].req \in Calls
    BY <1>1 DEF FifoInv, Shape
  <2>2. call[h].req.arg \in Entry
    BY <1>1, <2>1 DEF Calls
  <2>3. Wrap(tail + avail) \in Index /\ avail \in 0 .. NumEntries - 1
    <3>1. avail # NumEntries
      BY <1>4
    <3>2. avail \in 0 .. NumEntries - 1
      BY <1>2, <3>1, Size
    <3> QED
      BY <1>2, <3>2, WrapIn
  <2>4. queue' \in [Index -> Entry \cup {Zero}]
    BY <1>2, <1>4, <2>2, <2>3
  <2>5. /\ call' = call /\ reg' = reg /\ UNCHANGED lockVars
        /\ step' = [step EXCEPT ![h] = "count"]
    BY <1>4 DEF Goto
  <2>6. /\ call' = [call EXCEPT ![h] = [req |-> call[h].req, done |-> call[h].done, ret |-> call[h].ret]]
        /\ reg' = [reg EXCEPT ![h] = reg[h]]
    BY <2>5, CallKept
  <2>7. Inside(h)'
    <3>1. call[h].done = FALSE
      BY <1>1, Alone DEF Inside
    <3>2. step'[h] = "count"
      BY <2>5 DEF FifoInv, Ring
    <3>3. queue'[Wrap(tail + avail)] = call[h].req.arg
      BY <1>2, <1>4, <2>3
    <3>4. avail < NumEntries
      BY <2>3, Size
    <3>5. tail' = tail /\ avail' = avail
      BY <1>4
    <3> QED
      BY <1>1, <2>5, <3>1, <3>2, <3>3, <3>4, <3>5 DEF Inside, Wrap
  <2>8. \A i \in 0 .. NumEntries - 1 : i < avail' => queue'[Wrap(tail' + i)] \in Entry
    <3> SUFFICES ASSUME NEW i \in 0 .. NumEntries - 1, i < avail
                 PROVE  queue'[Wrap(tail + i)] \in Entry
      BY <1>4
    <3>1. Wrap(tail + i) \in Index /\ queue[Wrap(tail + i)] \in Entry
      BY <1>2, WrapIn, Size
    <3> QED
      BY <1>2, <1>4, <2>2, <3>1
  <2>9. avail' \in 0 .. NumEntries /\ tail' \in Index
    BY <1>2, <1>4
  <2>10. "count" \in {"body", "count", "tail", "clear", "unlock"} /\ "count" # "tail"
    OBVIOUS
  <2>11. \A i \in 0 .. NumEntries - 1 : i < avail' =>
           queue'[Wrap((IF "count" = "tail" THEN Wrap(tail' + 1) ELSE tail') + i)] \in Entry
    BY <2>8
  <2>12. UNCHANGED lockVars /\ step' = [step EXCEPT ![h] = "count"] /\ at[h] = "in"
    BY <1>1, <2>5
  <2> QED
    BY <2>4, <2>6, <2>7, <2>9, <2>10, <2>11, <2>12, InsideStep
<1> QED
  BY <1>3, <1>4

LEMMA StepEnqueueCount ==
    ASSUME FifoInv, NEW h \in Hart, EnqueueCount(h)
    PROVE  FifoInv'
<1> USE DEF EnqueueCount, Holds
<1>1. at[h] = "in" /\ step[h] = "count" /\ call[h].req.op = "enqueue"
  OBVIOUS
<1>2. /\ \A i \in 0 .. NumEntries - 1 : i < avail => queue[Wrap(tail + i)] \in Entry
      /\ queue \in [Index -> Entry \cup {Zero}] /\ avail \in 0 .. NumEntries /\ tail \in Index
  BY <1>1, UsedNow
<1>3. avail < NumEntries /\ queue[Wrap(tail + avail)] = call[h].req.arg
  BY <1>1, Alone DEF Inside
<1>4. call[h].req.arg \in Entry
  <2>1. call[h].req \in Calls
    BY <1>1 DEF FifoInv, Shape
  <2> QED
    BY <1>1, <2>1 DEF Calls
<1>5. avail' = avail + 1 /\ avail' \in 0 .. NumEntries
  BY <1>2, <1>3, Size
<1>6. \A i \in 0 .. NumEntries - 1 : i < avail' => queue[Wrap(tail + i)] \in Entry
  <2> SUFFICES ASSUME NEW i \in 0 .. NumEntries - 1, i < avail + 1
               PROVE  queue[Wrap(tail + i)] \in Entry
    BY <1>5
  <2>1. i = avail \/ i < avail
    BY <1>2
  <2> QED
    BY <1>2, <1>3, <1>4, <2>1
<1>7. queue' = queue /\ tail' = tail /\ Result(h, "ok", "unlock")
  OBVIOUS
<1> QED
  BY <1>1, <1>2, <1>5, <1>6, <1>7, ResultStep

LEMMA StepDequeueCopy ==
    ASSUME FifoInv, NEW h \in Hart, DequeueCopy(h)
    PROVE  FifoInv'
<1> USE DEF DequeueCopy, Holds
<1>1. at[h] = "in" /\ step[h] = "body" /\ call[h].req.op = "dequeue"
  OBVIOUS
<1>2. /\ \A i \in 0 .. NumEntries - 1 : i < avail => queue[Wrap(tail + i)] \in Entry
      /\ queue \in [Index -> Entry \cup {Zero}] /\ avail \in 0 .. NumEntries /\ tail \in Index
  BY <1>1, UsedNow
<1>3. queue' = queue /\ avail' = avail /\ tail' = tail
  BY DEF fifo
<1>4. CASE avail = 0 /\ Result(h, "ENOENT", "unlock")
  BY <1>1, <1>2, <1>3, <1>4, ResultStep
<1>5. CASE /\ avail # 0
           /\ reg' = [reg EXCEPT ![h] = queue[tail]]
           /\ step' = [step EXCEPT ![h] = "count"]
           /\ UNCHANGED <<lockVars, call>>
  <2>1. call' = [call EXCEPT ![h] = [req |-> call[h].req, done |-> call[h].done, ret |-> call[h].ret]]
    BY <1>5, CallKept
  <2>2. Inside(h)'
    <3>1. call[h].done = FALSE /\ call' = call
      BY <1>1, <1>5, Alone DEF Inside
    <3>2. step'[h] = "count"
      BY <1>5 DEF FifoInv, Ring
    <3>3. reg'[h] = queue[tail]
      BY <1>5 DEF FifoInv, Shape
    <3>4. avail > 0
      BY <1>2, <1>5
    <3> QED
      BY <1>1, <1>3, <3>1, <3>2, <3>3, <3>4 DEF Inside
  <2>3. \A i \in 0 .. NumEntries - 1 : i < avail' =>
           queue'[Wrap((IF "count" = "tail" THEN Wrap(tail' + 1) ELSE tail') + i)] \in Entry
    BY <1>2, <1>3
  <2>4. "count" \in {"body", "count", "tail", "clear", "unlock"}
    OBVIOUS
  <2> QED
    BY <1>1, <1>2, <1>3, <1>5, <2>1, <2>2, <2>3, <2>4, InsideStep
<1> QED
  BY <1>4, <1>5

LEMMA StepDequeueCount ==
    ASSUME FifoInv, NEW h \in Hart, DequeueCount(h)
    PROVE  FifoInv'
<1> USE DEF DequeueCount, Holds
<1>1. at[h] = "in" /\ step[h] = "count" /\ call[h].req.op = "dequeue"
  OBVIOUS
<1>2. /\ \A i \in 0 .. NumEntries - 1 : i < avail => queue[Wrap(tail + i)] \in Entry
      /\ queue \in [Index -> Entry \cup {Zero}] /\ avail \in 0 .. NumEntries /\ tail \in Index
  BY <1>1, UsedNow
<1>3. avail > 0
  BY <1>1, Alone DEF Inside
<1>4. avail' = avail - 1 /\ avail' \in 0 .. NumEntries /\ avail' < NumEntries
  BY <1>2, <1>3, Size
<1>5. \A i \in 0 .. NumEntries - 1 : i < avail' => queue[Wrap(Wrap(tail + 1) + i)] \in Entry
  <2> SUFFICES ASSUME NEW i \in 0 .. NumEntries - 1, i < avail - 1
               PROVE  queue[Wrap(Wrap(tail + 1) + i)] \in Entry
    BY <1>4
  <2>1. i + 1 \in 0 .. NumEntries - 1 /\ i + 1 < avail
    <3>1. avail \in 0 .. NumEntries
      BY <1>2
    <3> QED
      BY <3>1, Size
  <2>2. Wrap(Wrap(tail + 1) + i) = Wrap(tail + (i + 1))
    BY <1>2, WrapShift
  <2> QED
    BY <1>2, <2>1, <2>2
<1>6. queue' = queue /\ tail' = tail /\ Result(h, reg[h], "tail")
  OBVIOUS
<1>7. \A i \in 0 .. NumEntries - 1 : i < avail' =>
           queue'[Wrap((IF "tail" = "tail" THEN Wrap(tail' + 1) ELSE tail') + i)] \in Entry
  BY <1>5, <1>6
<1>8. "tail" \in {"tail", "clear", "unlock"}
  OBVIOUS
<1> QED
  BY <1>1, <1>2, <1>4, <1>6, <1>7, <1>8, ResultStep

LEMMA StepDequeueTail ==
    ASSUME FifoInv, NEW h \in Hart, DequeueTail(h)
    PROVE  FifoInv'
<1> USE DEF DequeueTail, Holds
<1>1. at[h] = "in" /\ step[h] = "tail" /\ call[h].req.op = "dequeue"
  OBVIOUS
<1>2. queue \in [Index -> Entry \cup {Zero}] /\ avail \in 0 .. NumEntries /\ tail \in Index
  BY DEF FifoInv, Ring
<1>3. first = Wrap(tail + 1) /\ call[h].done = TRUE
  BY <1>1, Alone DEF Inside
<1>4. tail' = first /\ queue' = queue /\ avail' = avail
  BY <1>3
<1>5. tail' \in Index
  BY <1>4, FirstIn
<1>6. \A i \in 0 .. NumEntries - 1 : i < avail' =>
         queue'[Wrap((IF "unlock" = "tail" THEN Wrap(tail' + 1) ELSE tail') + i)] \in Entry
  BY <1>4 DEF FifoInv, Used
<1>7. /\ call' = call /\ reg' = reg /\ UNCHANGED lockVars
      /\ step' = [step EXCEPT ![h] = "unlock"]
  BY DEF Goto
<1>8. /\ call' = [call EXCEPT ![h] = [req |-> call[h].req, done |-> call[h].done, ret |-> call[h].ret]]
      /\ reg' = [reg EXCEPT ![h] = reg[h]]
  BY <1>7, CallKept
<1>9. Inside(h)'
  <2>1. step'[h] = "unlock"
    BY <1>7 DEF FifoInv, Ring
  <2> QED
    BY <1>3, <1>7, <2>1 DEF Inside
<1>10. UNCHANGED lockVars /\ step' = [step EXCEPT ![h] = "unlock"] /\ at[h] = "in"
       /\ "unlock" \in {"body", "count", "tail", "clear", "unlock"}
  BY <1>1, <1>7
<1>11. queue' \in [Index -> Entry \cup {Zero}] /\ avail' \in 0 .. NumEntries
  BY <1>2, <1>4
<1> QED
  BY <1>5, <1>6, <1>8, <1>9, <1>10, <1>11, InsideStep

LEMMA StepResetAvail ==
    ASSUME FifoInv, NEW h \in Hart, ResetAvail(h)
    PROVE  FifoInv'
<1> USE DEF ResetAvail, Holds
<1>1. at[h] = "in" /\ call[h].req.op = "reset" /\ Result(h, "ok", "clear")
      /\ "clear" \in {"tail", "clear", "unlock"}
  OBVIOUS
<1>2. queue' \in [Index -> Entry \cup {Zero}] /\ tail' \in Index
  BY DEF FifoInv, Ring
<1>3. avail' = 0
  OBVIOUS
<1>4. avail' \in 0 .. NumEntries
  BY <1>3, Size
<1>5. \A i \in 0 .. NumEntries - 1 : i < avail' =>
         queue'[Wrap((IF "clear" = "tail" THEN Wrap(tail' + 1) ELSE tail') + i)] \in Entry
  BY <1>3, Size
<1> QED
  BY <1>1, <1>2, <1>3, <1>4, <1>5, ResultStep

LEMMA StepResetClear ==
    ASSUME FifoInv, NEW h \in Hart, ResetClear(h)
    PROVE  FifoInv'
<1> USE DEF ResetClear, Holds
<1>1. at[h] = "in" /\ step[h] = "clear"
  OBVIOUS
<1>2. call[h].done = TRUE /\ avail = 0
  BY <1>1, Alone DEF Inside
<1>3. queue' \in [Index -> Entry \cup {Zero}]
  OBVIOUS
<1>4. avail' \in 0 .. NumEntries /\ tail' \in Index
  BY <1>2, Size DEF Index
<1>5. \A i \in 0 .. NumEntries - 1 : i < avail' =>
         queue'[Wrap((IF "unlock" = "tail" THEN Wrap(tail' + 1) ELSE tail') + i)] \in Entry
  BY <1>2, Size
<1>6. /\ call' = call /\ reg' = reg /\ UNCHANGED lockVars
      /\ step' = [step EXCEPT ![h] = "unlock"]
  BY DEF Goto
<1>7. /\ call' = [call EXCEPT ![h] = [req |-> call[h].req, done |-> call[h].done, ret |-> call[h].ret]]
      /\ reg' = [reg EXCEPT ![h] = reg[h]]
  BY <1>6, CallKept
<1>8. Inside(h)'
  <2>1. step'[h] = "unlock"
    BY <1>6 DEF FifoInv, Ring
  <2> QED
    BY <1>2, <1>6, <2>1 DEF Inside
<1>9. UNCHANGED lockVars /\ step' = [step EXCEPT ![h] = "unlock"] /\ at[h] = "in"
      /\ "unlock" \in {"body", "count", "tail", "clear", "unlock"}
  BY <1>1, <1>6
<1> QED
  BY <1>3, <1>4, <1>5, <1>7, <1>8, <1>9, InsideStep

LEMMA StepQuery ==
    ASSUME FifoInv, NEW h \in Hart, Query(h)
    PROVE  FifoInv'
<1>1. PICK r : at[h] = "in" /\ step[h] = "body" /\ Result(h, r, "unlock")
  BY DEF Query, Holds
<1>2. queue' = queue /\ avail' = avail /\ tail' = tail
  BY DEF Query, fifo
<1>3. /\ \A i \in 0 .. NumEntries - 1 : i < avail => queue[Wrap(tail + i)] \in Entry
      /\ queue \in [Index -> Entry \cup {Zero}] /\ avail \in 0 .. NumEntries /\ tail \in Index
  BY <1>1, UsedNow
<1> QED
  BY <1>1, <1>2, <1>3, ResultStep

(* One round of the loop of sbi_fifo_inplace_update. *)
LEMMA StepInplaceUpdate ==
    ASSUME FifoInv, NEW h \in Hart, InplaceUpdate(h)
    PROVE  FifoInv'
<1>1. at[h] = "in" /\ step[h] = "body" /\ call[h].req.op = "inplace_update"
  BY DEF InplaceUpdate, Holds
<1>2. /\ \A i \in 0 .. NumEntries - 1 : i < avail => queue[Wrap(tail + i)] \in Entry
      /\ queue \in [Index -> Entry \cup {Zero}] /\ avail \in 0 .. NumEntries /\ tail \in Index
  BY <1>1, UsedNow
<1>3. avail' = avail /\ tail' = tail
  BY DEF InplaceUpdate
<1>4. CASE avail = 0 /\ Result(h, "UNCHANGED", "unlock") /\ UNCHANGED queue
  BY <1>1, <1>2, <1>3, <1>4, ResultStep
<1>5. CASE avail # 0
  <2> DEFINE n == reg[h]
             arg == call[h].req.arg
             index == Wrap(tail + n)
             r == Fptr(arg, queue[index])
  <2>1. /\ queue' = [queue EXCEPT ![index] = r.entry]
        /\ IF r.verdict # "UNCHANGED" \/ n + 1 = avail
           THEN Result(h, r.verdict, "unlock")
           ELSE /\ reg' = [reg EXCEPT ![h] = n + 1]
                /\ UNCHANGED <<lockVars, call, step>>
    <3>1. DOMAIN reg = Hart
      BY DEF FifoInv, Shape
    <3> QED
      BY <1>5, <3>1 DEF InplaceUpdate
  <2>2. call[h].done = FALSE /\ Scanned(h)
    BY <1>1, Alone DEF Inside
  <2>3. n \in 0 .. NumEntries - 1 /\ n < avail
    <3>1. n \in Nat /\ (n < avail \/ n = 0)
      BY <2>2 DEF Scanned
    <3>2. avail \in 0 .. NumEntries
      BY <1>2
    <3> QED
      BY <1>5, <3>1, <3>2, Size
  <2>4. arg \in Entry
    <3>1. call[h].req \in Calls
      BY <1>1 DEF FifoInv, Shape
    <3> QED
      BY <1>1, <3>1 DEF Calls
  <2>5. index \in Index /\ queue[index] \in Entry
    <3>1. n \in 0 .. NumEntries
      BY <2>3, Size
    <3> QED
      BY <1>2, <2>3, <3>1, WrapIn
  <2>6. r.entry \in Entry /\ (r.verdict = "UNCHANGED" => r.entry = queue[index])
    BY <2>4, <2>5, FifoAssumption
  <2> HIDE DEF r, index, arg
  <2>7. queue' \in [Index -> Entry \cup {Zero}]
    BY <1>2, <2>1, <2>5, <2>6
  <2>8. \A i \in 0 .. NumEntries - 1 : i < avail => queue'[Wrap(tail + i)] \in Entry
    <3> SUFFICES ASSUME NEW i \in 0 .. NumEntries - 1, i < avail
                 PROVE  queue'[Wrap(tail + i)] \in Entry
      OBVIOUS
    <3>1. Wrap(tail + i) \in Index /\ queue[Wrap(tail + i)] \in Entry
      BY <1>2, WrapIn, Size
    <3> QED
      BY <1>2, <2>1, <2>6, <3>1
  <2>9. CASE r.verdict # "UNCHANGED" \/ n + 1 = avail
    <3>1. Result(h, r.verdict, "unlock")
      BY <2>1, <2>9
    <3>2. \A i \in 0 .. NumEntries - 1 : i < avail' => queue'[Wrap(tail' + i)] \in Entry
      BY <1>3, <2>8
    <3>3. avail' \in 0 .. NumEntries /\ tail' \in Index
      BY <1>2, <1>3
    <3> QED
      BY <1>1, <2>7, <3>1, <3>2, <3>3, ResultStep
  <2>10. CASE ~(r.verdict # "UNCHANGED" \/ n + 1 = avail)
    <3>1. reg' = [reg EXCEPT ![h] = n + 1] /\ UNCHANGED lockVars /\ call' = call /\ step' = step
      BY <2>1, <2>10
    <3>2. queue' = queue
      BY <1>2, <2>1, <2>5, <2>6, <2>10
    <3>3. /\ call' = [call EXCEPT ![h] = [req |-> call[h].req, done |-> call[h].done, ret |-> call[h].ret]]
          /\ step' = [step EXCEPT ![h] = "body"]
      BY <1>1, <3>1, CallKept
    <3>4. reg'[h] = n + 1
      BY <3>1 DEF FifoInv, Shape
    <3>5. n + 1 < avail /\ n + 1 \in Nat
      <4>1. n + 1 # avail
        BY <2>10
      <4>2. avail \in 0 .. NumEntries /\ NumEntries \in Nat
        BY <1>2, Size
      <4> HIDE DEF n
      <4> QED
        BY <4>1, <4>2, <2>3
    <3>6. \A i \in 0 .. NumEntries - 1 :
             i < n + 1 => Fptr(arg, queue[Wrap(tail + i)]).verdict = "UNCHANGED"
      <4> SUFFICES ASSUME NEW i \in 0 .. NumEntries - 1, i < n + 1
                   PROVE  Fptr(arg, queue[Wrap(tail + i)]).verdict = "UNCHANGED"
        OBVIOUS
      <4>1. i < n \/ i = n
        BY <2>3
      <4>2. CASE i < n
        BY <4>2, <2>2 DEF Scanned, arg
      <4>3. CASE i = n
        BY <4>3, <2>10 DEF r, index
      <4> QED
        BY <4>1, <4>2, <4>3
    <3>7. Scanned(h)'
      <4>1. call'[h].req.arg = arg
        BY <3>1 DEF arg
      <4> QED
        BY <1>3, <3>2, <3>4, <3>5, <3>6, <4>1 DEF Scanned, Wrap
    <3>8. Inside(h)'
      <4>1. step'[h] = "body" /\ call'[h].done = FALSE
        BY <1>1, <2>2, <3>1
      <4> QED
        BY <3>7, <4>1 DEF Inside
    <3>9. \A i \in 0 .. NumEntries - 1 : i < avail' =>
             queue'[Wrap((IF "body" = "tail" THEN Wrap(tail' + 1) ELSE tail') + i)] \in Entry
      BY <1>3, <2>8
    <3>10. avail' \in 0 .. NumEntries /\ tail' \in Index /\ UNCHANGED lockVars
           /\ "body" \in {"body", "count", "tail", "clear", "unlock"}
      BY <1>2, <1>3, <3>1
    <3>11. reg' = [reg EXCEPT ![h] = n + 1]
      BY <3>1
    <3> HIDE DEF n
    <3> QED
      BY <1>1, <2>7, <3>3, <3>8, <3>9, <3>10, <3>11, InsideStep
  <2> QED
    BY <2>9, <2>10
<1> QED
  BY <1>4, <1>5 DEF InplaceUpdate

LEMMA StepStart ==
    ASSUME FifoInv, NEW h \in Hart, Start(h)
    PROVE  FifoInv' /\ at[h] = "out" /\ call[h] = Idle
<1>1. PICK c \in Calls : call' = [call EXCEPT ![h] = Pending(c)]
  BY DEF Start
<1>2. /\ spin_lock(h) /\ at[h] = "out" /\ at' = [at EXCEPT ![h] = "spin"]
      /\ step' = step /\ reg' = reg /\ queue' = queue /\ avail' = avail /\ tail' = tail
  BY DEF Start, spin_lock, fifo
<1>3. LockInv'
  BY <1>2, TakesTicket DEF FifoInv, spin_lock
<1>4. Outside(h) /\ call[h] = Idle
  BY <1>2 DEF FifoInv, Outside
<1>5. at \in [Hart -> {"out", "spin", "in"}]
  BY DEF FifoInv, LockInv, LockTypeOK
<1>6. /\ DOMAIN call = Hart /\ DOMAIN reg = Hart /\ reg = [g \in Hart |-> reg[g]]
      /\ \A g \in Hart : call[g] = [req |-> call[g].req, done |-> call[g].done, ret |-> call[g].ret]
      /\ \A g \in Hart : at[g] # "out" => call[g].req \in Calls
  BY DEF FifoInv, Shape
<1>7. call'[h] = [req |-> c, done |-> FALSE, ret |-> "none"] /\ at'[h] = "spin"
      /\ DOMAIN call' = Hart /\ call' = [g \in Hart |-> call'[g]]
  BY <1>1, <1>2, <1>5, <1>6 DEF Pending
<1>8. \A g \in Hart \ {h} : call'[g] = call[g] /\ at'[g] = at[g]
  BY <1>1, <1>2, <1>5, <1>6
<1>9. call'[h].req = c /\ call'[h].done = FALSE /\ call'[h].ret = "none"
  BY <1>7
<1>10. Shape'
  <2>1. \A g \in Hart : call'[g] = [req |-> call'[g].req, done |-> call'[g].done, ret |-> call'[g].ret]
    BY <1>6, <1>7, <1>8, <1>9
  <2>2. \A g \in Hart : at'[g] # "out" => call'[g].req \in Calls
    BY <1>6, <1>8, <1>9
  <2> QED
    BY <1>2, <1>6, <1>7, <2>1, <2>2 DEF Shape
<1>11. Ring'
  BY <1>2 DEF FifoInv, Ring
<1>12. Used'
  <2>1. first' = first
    BY <1>2 DEF first, Wrap
  <2> QED
    BY <1>2, <2>1 DEF FifoInv, Used, Wrap
<1>13. Outside(h)'
  BY <1>2, <1>4, <1>7, <1>9 DEF Outside
<1>14. \A g \in Hart \ {h} : IF at'[g] = "in" THEN Inside(g)' ELSE Outside(g)'
  BY <1>2, <1>8 DEF FifoInv, Inside, Outside, Scanned, Wrap
<1>15. \A g \in Hart : IF at'[g] = "in" THEN Inside(g)' ELSE Outside(g)'
  BY <1>7, <1>13, <1>14
<1> QED
  BY <1>2, <1>3, <1>4, <1>10, <1>11, <1>12, <1>15 DEF FifoInv

LEMMA StepLocked ==
    ASSUME FifoInv, NEW h \in Hart, Locked(h)
    PROVE  FifoInv'
<1>1. /\ at[h] = "spin" /\ at' = [at EXCEPT ![h] = "in"] /\ call' = call
      /\ step' = step /\ reg' = reg /\ queue' = queue /\ avail' = avail /\ tail' = tail
  BY DEF Locked, Granted, fifo
<1>2. LockInv'
  BY GrantKeeps DEF FifoInv, Locked
<1>3. at \in [Hart -> {"out", "spin", "in"}]
  BY DEF FifoInv, LockInv, LockTypeOK
<1>4. at'[h] = "in" /\ \A g \in Hart \ {h} : at'[g] = at[g]
  BY <1>1, <1>3
<1>5. Ring'
  BY <1>1 DEF FifoInv, Ring
<1>6. Used'
  <2>1. first' = first
    BY <1>1 DEF first, Wrap
  <2> QED
    BY <1>1, <2>1 DEF FifoInv, Used, Wrap
<1>7. Shape'
  <2>1. \A g \in Hart : at'[g] # "out" => at[g] # "out"
    BY <1>1, <1>4
  <2> QED
    BY <1>1, <2>1 DEF FifoInv, Shape
<1>8. Inside(h)'
  <2>1. Outside(h)
    BY <1>1 DEF FifoInv
  <2>2. Scanned(h)'
    <3>1. reg'[h] = 0
      BY <1>1, <2>1 DEF Outside
    <3> QED
      BY <3>1, Size DEF Scanned
  <2> QED
    BY <1>1, <2>1, <2>2 DEF Inside, Outside
<1>9. \A g \in Hart \ {h} : IF at'[g] = "in" THEN Inside(g)' ELSE Outside(g)'
  BY <1>1, <1>4 DEF FifoInv, Inside, Outside, Scanned, Wrap
<1>10. \A g \in Hart : IF at'[g] = "in" THEN Inside(g)' ELSE Outside(g)'
  BY <1>4, <1>8, <1>9
<1> QED
  BY <1>2, <1>5, <1>6, <1>7, <1>10 DEF FifoInv

LEMMA StepUnlock ==
    ASSUME FifoInv, NEW h \in Hart, Unlock(h)
    PROVE  FifoInv'
<1>1. /\ at[h] = "in" /\ at' = [at EXCEPT ![h] = "out"] /\ step[h] = "unlock"
      /\ call' = [call EXCEPT ![h] = Idle] /\ step' = [step EXCEPT ![h] = "body"]
      /\ reg' = [reg EXCEPT ![h] = 0] /\ queue' = queue /\ avail' = avail /\ tail' = tail
  BY DEF Unlock, spin_unlock, fifo
<1>2. LockInv'
  BY GivesTicketBack DEF FifoInv, Unlock
<1>3. at \in [Hart -> {"out", "spin", "in"}]
      /\ step \in [Hart -> {"body", "count", "tail", "clear", "unlock"}]
  BY DEF FifoInv, LockInv, LockTypeOK, Ring
<1>4. /\ DOMAIN call = Hart /\ DOMAIN reg = Hart /\ reg = [g \in Hart |-> reg[g]]
      /\ \A g \in Hart : call[g] = [req |-> call[g].req, done |-> call[g].done, ret |-> call[g].ret]
      /\ \A g \in Hart : at[g] # "out" => call[g].req \in Calls
  BY DEF FifoInv, Shape
<1>5. /\ at'[h] = "out" /\ step'[h] = "body" /\ reg'[h] = 0 /\ call'[h] = Idle
      /\ DOMAIN call' = Hart /\ DOMAIN reg' = Hart
      /\ call' = [g \in Hart |-> call'[g]] /\ reg' = [g \in Hart |-> reg'[g]]
  BY <1>1, <1>3, <1>4
<1>6. \A g \in Hart \ {h} : /\ at'[g] = at[g] /\ step'[g] = step[g]
                            /\ reg'[g] = reg[g] /\ call'[g] = call[g]
  BY <1>1, <1>3, <1>4
<1>7. \A g \in Hart \ {h} : at[g] # "in" /\ Outside(g)
  BY <1>1, Alone
<1>8. call'[h] = [req |-> call'[h].req, done |-> call'[h].done, ret |-> call'[h].ret]
      /\ call'[h].done = FALSE
  BY <1>5 DEF Idle, Pending
<1>9. Shape'
  <2>1. \A g \in Hart : call'[g] = [req |-> call'[g].req, done |-> call'[g].done, ret |-> call'[g].ret]
    BY <1>4, <1>6, <1>8
  <2>2. \A g \in Hart : at'[g] # "out" => call'[g].req \in Calls
    BY <1>4, <1>5, <1>6
  <2> QED
    BY <1>5, <2>1, <2>2 DEF Shape
<1>10. Ring'
  BY <1>1, <1>3 DEF FifoInv, Ring
<1>11. \A g \in Hart : at'[g] # "in" /\ Outside(g)'
  <2>1. Outside(h)'
    BY <1>5, <1>8 DEF Outside, Idle
  <2>2. \A g \in Hart \ {h} : at'[g] # "in" /\ Outside(g)'
    BY <1>6, <1>7 DEF Outside, Idle
  <2> QED
    BY <1>5, <2>1, <2>2
<1>12. Used'
  <2>1. first = tail
    BY <1>1, Alone
  <2>2. first' = tail
    BY <1>1, <1>11 DEF first, Outside
  <2> QED
    BY <1>1, <2>1, <2>2 DEF FifoInv, Used, Wrap
<1> QED
  BY <1>2, <1>9, <1>10, <1>11, <1>12 DEF FifoInv

LEMMA FifoStarts == Init => FifoInv
<1> SUFFICES ASSUME Init PROVE FifoInv
  OBVIOUS
<1>1. LockInv
  BY LockStarts DEF Init
<1>2. Ring
  <2>1. queue \in [Index -> Entry \cup {Zero}]
    BY DEF Init
  <2>2. avail \in 0 .. NumEntries /\ tail \in Index
    BY Size DEF Init, Index
  <2> QED
    BY <2>1, <2>2 DEF Init, Ring
<1>3. \A h \in Hart : at[h] = "out" /\ call[h] = Idle /\ step[h] = "body" /\ reg[h] = 0
  BY DEF Init, LockInit
<1>4. Idle = [req |-> Idle.req, done |-> Idle.done, ret |-> Idle.ret] /\ Idle.done = FALSE
  BY DEF Idle, Pending
<1>5. Shape
  BY <1>3, <1>4 DEF Init, Shape
<1>6. \A h \in Hart : at[h] # "in" /\ Outside(h)
  BY <1>3, <1>4 DEF Outside
<1>7. Used
  BY Size DEF Init, Used
<1> QED
  BY <1>1, <1>2, <1>5, <1>6, <1>7 DEF FifoInv

LEMMA FifoStep == FifoInv /\ [Next]_vars => FifoInv'
<1> SUFFICES ASSUME FifoInv, [Next]_vars PROVE FifoInv'
  OBVIOUS
<1>1. CASE UNCHANGED vars
  <2>1. /\ UNCHANGED lockVars /\ queue' = queue /\ avail' = avail /\ tail' = tail
        /\ call' = call /\ step' = step /\ reg' = reg /\ at' = at
    BY <1>1 DEF vars, fifo, lockVars
  <2>2. LockInv'
    BY <2>1, LockStep DEF FifoInv
  <2>3. first' = first
    BY <2>1 DEF first, Wrap
  <2> QED
    BY <2>1, <2>2, <2>3
    DEF FifoInv, Ring, Shape, Inside, Outside, Scanned, Used, Wrap
<1>2. ASSUME NEW h \in Hart, Start(h) PROVE FifoInv'
  BY <1>2, StepStart
<1>3. ASSUME NEW h \in Hart, Run(h) PROVE FifoInv'
  BY <1>3, StepLocked, StepEnqueueCopy, StepEnqueueCount, StepDequeueCopy, StepDequeueCount,
     StepDequeueTail, StepInplaceUpdate, StepResetAvail, StepResetClear, StepQuery, StepUnlock
     DEF Run
<1> QED
  BY <1>1, <1>2, <1>3 DEF Next

(* The ring, the lock and every hart in one of the functions satisfy        *)
(* FifoInv at all times.                                                    *)
THEOREM FifoInductive == Spec => []FifoInv
BY FifoStarts, FifoStep, PTL DEF Spec

(* struct sbi_fifo stays a ring: avail never passes num_entries or goes     *)
(* below zero, tail stays an index, and the lock word keeps its width.      *)
THEOREM FifoTypeCorrect == Spec => []FifoTypeOK
<1>1. FifoInv => FifoTypeOK
  BY DEF FifoInv, FifoTypeOK, Ring, LockInv
<1> QED
  BY <1>1, FifoInductive, PTL

---------------------------------------------------------------------------
(* The refinement: q is the sequence of the entries in use.                 *)
QueueOK ==
    /\ q \in Seq(Entry) /\ Len(q) = avail /\ avail \in Nat
    /\ \A i \in 1 .. avail : q[i] = queue[Wrap(first + (i - 1))]

LEMMA QueueIsOK == FifoInv => QueueOK
<1> SUFFICES ASSUME FifoInv PROVE QueueOK
  OBVIOUS
<1>1. avail \in 0 .. NumEntries /\ avail \in Nat
  BY Size DEF FifoInv, Ring
<1>2. first \in Int
  BY FirstIn DEF Index
<1>3. \A i \in 1 .. avail : first + i - 1 = first + (i - 1)
  BY <1>1, <1>2
<1>4. \A i \in 1 .. avail : q[i] = queue[Wrap(first + (i - 1))]
  BY <1>3 DEF q
<1>5. \A i \in 1 .. avail : q[i] \in Entry
  <2> SUFFICES ASSUME NEW i \in 1 .. avail PROVE q[i] \in Entry
    OBVIOUS
  <2>1. i - 1 \in 0 .. NumEntries - 1 /\ i - 1 < avail
    BY <1>1, Size
  <2> QED
    BY <2>1, <1>4 DEF FifoInv, Used
<1>6. q \in [1 .. avail -> Entry]
  BY <1>5 DEF q
<1>7. q \in Seq(Entry) /\ Len(q) = avail
  BY <1>1, <1>6
<1> QED
  BY <1>1, <1>4, <1>7 DEF QueueOK

LEMMA QueueOKNext == FifoInv' => QueueOK'
BY QueueIsOK, PTL

LEMMA QueueKept ==
    ASSUME queue' = queue, avail' = avail, first' = first
    PROVE  q' = q
BY DEF q, Wrap

(* Where a hart is inside, and the step is not "tail" before or after.      *)
LEMMA FirstStays ==
    ASSUME FifoInv, FifoInv', NEW h \in Hart, at[h] = "in", at' = at,
           step[h] # "tail", step'[h] # "tail"
    PROVE  first = tail /\ first' = tail'
<1>1. first = tail
  BY Alone
<1>2. \A g \in Hart \ {h} : step'[g] # "tail"
  <2> SUFFICES ASSUME NEW g \in Hart \ {h} PROVE step'[g] # "tail"
    OBVIOUS
  <2>1. at[g] # "in"
    BY Alone
  <2>2. Outside(g)'
    BY <2>1 DEF FifoInv
  <2> QED
    BY <2>2 DEF Outside
<1>3. first' = tail'
  BY <1>2 DEF first
<1> QED
  BY <1>1, <1>3

(* A call that took no effect yet may take it. *)
LEMMA MayApply ==
    ASSUME FifoInv, NEW h \in Hart, at[h] = "in", step[h] \in {"body", "count"}
    PROVE  call[h].req \in Calls /\ call[h].req.op # "none" /\ ~call[h].done
<1>1. call[h].req \in Calls
  BY DEF FifoInv, Shape
<1>2. call[h].done = FALSE
  BY Alone DEF Inside
<1> QED
  BY <1>1, <1>2 DEF Calls

(* The two pieces of Result that the refinement needs. *)
LEMMA ResultIs ==
    ASSUME FifoInv, NEW h \in Hart, NEW r, NEW s, Result(h, r, s)
    PROVE  /\ call' = [call EXCEPT ![h] = Queue!Done(@.req, r)]
           /\ at' = at /\ step'[h] = s
BY DEF Result, Done, Queue!Done, lockVars, FifoInv, Ring

LEMMA RefineStart ==
    ASSUME FifoInv, NEW h \in Hart, Start(h)
    PROVE  Queue!Invoke(h)
<1>1. call[h] = Queue!Idle
  BY StepStart DEF Idle, Pending, Queue!Idle, Queue!Pending
<1>2. \E o \in Queue!Ops : call' = [call EXCEPT ![h] = Queue!Pending(o)]
  BY DEF Start, Calls, Queue!Ops, Pending, Queue!Pending
<1>3. q' = q
  <2>1. queue' = queue /\ avail' = avail /\ tail' = tail /\ step' = step
    BY DEF Start, fifo
  <2>2. first' = first
    BY <2>1 DEF first, Wrap
  <2> QED
    BY <2>1, <2>2, QueueKept
<1> QED
  BY <1>1, <1>2, <1>3 DEF Queue!Invoke

LEMMA RefineLocked ==
    ASSUME FifoInv, NEW h \in Hart, Locked(h)
    PROVE  UNCHANGED <<q, call>>
<1>1. queue' = queue /\ avail' = avail /\ tail' = tail /\ step' = step /\ call' = call
  BY DEF Locked, fifo
<1>2. first' = first
  BY <1>1 DEF first, Wrap
<1> QED
  BY <1>1, <1>2, QueueKept

LEMMA RefineUnlock ==
    ASSUME FifoInv, NEW h \in Hart, Unlock(h)
    PROVE  Queue!Return(h)
<1>1. /\ at[h] = "in" /\ at' = [at EXCEPT ![h] = "out"] /\ step[h] = "unlock"
      /\ call' = [call EXCEPT ![h] = Idle] /\ queue' = queue /\ avail' = avail /\ tail' = tail
  BY DEF Unlock, spin_unlock, fifo
<1>2. FifoInv'
  BY StepUnlock
<1>3. call[h].done
  BY <1>1, Alone DEF Inside
<1>4. first = tail
  BY <1>1, Alone
<1>5. \A g \in Hart : at'[g] # "in"
  BY <1>1, Alone DEF FifoInv, LockInv, LockTypeOK
<1>6. \A g \in Hart : step'[g] # "tail"
  BY <1>2, <1>5 DEF FifoInv, Outside
<1>7. first' = first
  BY <1>1, <1>4, <1>6 DEF first
<1>8. q' = q
  BY <1>1, <1>7, QueueKept
<1>9. Idle = Queue!Idle
  BY DEF Idle, Pending, Queue!Idle, Queue!Pending
<1> QED
  BY <1>1, <1>3, <1>8, <1>9 DEF Queue!Return

LEMMA RefineQuery ==
    ASSUME FifoInv, NEW h \in Hart, Query(h)
    PROVE  Queue!Apply(h)
<1>1. PICK r : /\ at[h] = "in" /\ step[h] = "body" /\ Result(h, r, "unlock")
               /\ \/ call[h].req.op = "is_full" /\ r = (avail = NumEntries)
                  \/ call[h].req.op = "is_empty" /\ r = (avail = 0)
                  \/ call[h].req.op = "avail" /\ r = avail
  BY DEF Query, Holds
<1>2. queue' = queue /\ avail' = avail /\ tail' = tail
  BY DEF Query, fifo
<1>3. call' = [call EXCEPT ![h] = Queue!Done(@.req, r)] /\ at' = at /\ step'[h] = "unlock"
  BY <1>1, ResultIs
<1>4. FifoInv'
  BY StepQuery
<1>5. first' = first
  BY <1>1, <1>2, <1>3, <1>4, FirstStays
<1>6. q' = q
  BY <1>2, <1>5, QueueKept
<1>7. Queue!Effect(h, q, r)
  BY <1>3, <1>6 DEF Queue!Effect
<1>8. Len(q) = avail /\ q \in Seq(Entry)
  BY QueueIsOK DEF QueueOK
<1>9. (q = << >>) = (avail = 0)
  BY <1>8, EmptySeq
<1>10. call[h].req.op # "none" /\ ~call[h].done
  BY <1>1, MayApply
<1>11. CASE call[h].req.op = "is_full" /\ r = (avail = NumEntries)
  BY <1>7, <1>8, <1>10, <1>11 DEF Queue!Apply
<1>12. CASE call[h].req.op = "is_empty" /\ r = (avail = 0)
  BY <1>7, <1>9, <1>10, <1>12 DEF Queue!Apply
<1>13. CASE call[h].req.op = "avail" /\ r = avail
  BY <1>7, <1>8, <1>10, <1>13 DEF Queue!Apply
<1> QED
  BY <1>1, <1>11, <1>12, <1>13

LEMMA RefineReset ==
    ASSUME FifoInv, NEW h \in Hart, ResetAvail(h)
    PROVE  Queue!Apply(h)
<1>1. at[h] = "in" /\ step[h] = "body" /\ call[h].req.op = "reset" /\ avail' = 0
      /\ Result(h, "ok", "clear")
  BY DEF ResetAvail, Holds
<1>2. FifoInv'
  BY StepResetAvail
<1>3. q' \in Seq(Entry) /\ Len(q') = 0
  BY <1>1, <1>2, QueueOKNext DEF QueueOK
<1>4. q' = << >>
  BY <1>3, EmptySeq
<1>5. call' = [call EXCEPT ![h] = Queue!Done(@.req, "ok")]
  BY <1>1, ResultIs
<1>6. call[h].req.op # "none" /\ ~call[h].done
  BY <1>1, MayApply
<1> QED
  BY <1>1, <1>4, <1>5, <1>6 DEF Queue!Apply, Queue!Effect

LEMMA RefineResetClear ==
    ASSUME FifoInv, NEW h \in Hart, ResetClear(h)
    PROVE  UNCHANGED <<q, call>>
<1>1. at[h] = "in" /\ step[h] = "clear" /\ avail' = avail /\ call' = call
  BY DEF ResetClear, Holds, Goto
<1>2. FifoInv'
  BY StepResetClear
<1>3. avail = 0
  BY <1>1, Alone DEF Inside
<1>4. q \in Seq(Entry) /\ Len(q) = 0 /\ q' \in Seq(Entry) /\ Len(q') = 0
  BY <1>1, <1>2, <1>3, QueueIsOK, QueueOKNext DEF QueueOK
<1>5. q = << >> /\ q' = << >>
  BY <1>4, EmptySeq
<1> QED
  BY <1>1, <1>5

LEMMA RefineDequeueTail ==
    ASSUME FifoInv, NEW h \in Hart, DequeueTail(h)
    PROVE  UNCHANGED <<q, call>>
<1>1. /\ at[h] = "in" /\ step[h] = "tail" /\ avail' = avail /\ queue' = queue /\ call' = call
      /\ tail' = Wrap(tail + 1) /\ at' = at /\ step' = [step EXCEPT ![h] = "unlock"]
  BY DEF DequeueTail, Holds, Goto, lockVars
<1>2. FifoInv' /\ step'[h] # "tail"
  BY <1>1, StepDequeueTail DEF FifoInv, Ring
<1>3. first = tail'
  BY <1>1, Alone
<1>4. first' = tail'
  <2>1. \A g \in Hart \ {h} : step'[g] # "tail"
    <3>1. \A g \in Hart \ {h} : Outside(g)
      BY <1>1, Alone
    <3> QED
      BY <1>1, <3>1 DEF Outside, FifoInv, Ring
  <2> QED
    BY <1>2, <2>1 DEF first
<1> QED
  BY <1>1, <1>3, <1>4, QueueKept

(* The copy goes to a slot that is not in use; a full queue says so.        *)
LEMMA RefineEnqueueCopy ==
    ASSUME FifoInv, NEW h \in Hart, EnqueueCopy(h)
    PROVE  Queue!Apply(h) \/ UNCHANGED <<q, call>>
<1>1. at[h] = "in" /\ step[h] = "body" /\ call[h].req.op = "enqueue" /\ avail' = avail /\ tail' = tail
  BY DEF EnqueueCopy, Holds, fifo
<1>2. FifoInv'
  BY StepEnqueueCopy
<1>3. QueueOK /\ QueueOK'
  BY <1>2, QueueIsOK, QueueOKNext
<1>4. CASE avail = NumEntries /\ Result(h, "ENOSPC", "unlock") /\ UNCHANGED fifo
  <2>1. call' = [call EXCEPT ![h] = Queue!Done(@.req, "ENOSPC")] /\ at' = at /\ step'[h] = "unlock"
    BY <1>4, ResultIs
  <2>2. first' = first
    BY <1>1, <1>2, <2>1, FirstStays
  <2>3. q' = q
    BY <1>4, <2>2, QueueKept DEF fifo
  <2>4. Len(q) = NumEntries
    BY <1>3, <1>4 DEF QueueOK
  <2>5. call[h].req.op # "none" /\ ~call[h].done
    BY <1>1, MayApply
  <2> QED
    BY <1>1, <2>1, <2>3, <2>4, <2>5 DEF Queue!Apply, Queue!Enqueue, Queue!Effect
<1>5. CASE /\ avail # NumEntries
           /\ queue' = [queue EXCEPT ![Wrap(tail + avail)] = call[h].req.arg]
           /\ Goto(h, "count")
  <2>1. call' = call /\ at' = at /\ step'[h] = "count"
    BY <1>5 DEF Goto, lockVars, FifoInv, Ring
  <2>2. first = tail /\ first' = tail
    BY <1>1, <1>2, <2>1, FirstStays
  <2>3. tail \in Index /\ avail \in 0 .. NumEntries /\ queue \in [Index -> Entry \cup {Zero}]
    BY DEF FifoInv, Ring
  <2>4. avail \in 0 .. NumEntries - 1 /\ avail \in Nat
    <3>1. avail # NumEntries
      BY <1>5
    <3> QED
      BY <2>3, <3>1, Size
  <2>5. \A i \in 1 .. avail : q'[i] = q[i]
    <3> SUFFICES ASSUME NEW i \in 1 .. avail PROVE q'[i] = q[i]
      OBVIOUS
    <3>1. i - 1 \in 0 .. NumEntries - 1 /\ i - 1 \in 0 .. NumEntries /\ i - 1 # avail
      BY <2>4, Size
    <3>2. Wrap(tail + (i - 1)) \in Index
      BY <2>3, <3>1, WrapIn
    <3>3. Wrap(tail + (i - 1)) # Wrap(tail + avail)
      BY <2>3, <2>4, <3>1, WrapInjective
    <3>4. queue'[Wrap(tail + (i - 1))] = queue[Wrap(tail + (i - 1))]
      BY <1>5, <2>3, <3>2, <3>3
    <3>5. q[i] = queue[Wrap(tail + (i - 1))]
      BY <1>3, <2>2 DEF QueueOK
    <3>6. q'[i] = queue'[Wrap(tail + (i - 1))]
      <4>1. i \in 1 .. avail'
        BY <1>1
      <4> QED
        BY <1>3, <2>2, <4>1 DEF QueueOK, Wrap
    <3> QED
      BY <3>4, <3>5, <3>6
  <2>6. q' = q
    <3>1. q \in Seq(Entry) /\ q' \in Seq(Entry) /\ Len(q) = avail /\ Len(q') = avail
      BY <1>1, <1>3 DEF QueueOK
    <3> QED
      BY <2>5, <3>1, SeqEqual
  <2> QED
    BY <2>1, <2>6
<1> QED
  BY <1>4, <1>5 DEF EnqueueCopy

(* Counting the new entry appends it. *)
LEMMA RefineEnqueueCount ==
    ASSUME FifoInv, NEW h \in Hart, EnqueueCount(h)
    PROVE  Queue!Apply(h)
<1>1. /\ at[h] = "in" /\ step[h] = "count" /\ call[h].req.op = "enqueue"
      /\ avail' = avail + 1 /\ tail' = tail /\ queue' = queue /\ Result(h, "ok", "unlock")
  BY DEF EnqueueCount, Holds
<1>2. FifoInv'
  BY StepEnqueueCount
<1>3. QueueOK /\ QueueOK'
  BY <1>2, QueueIsOK, QueueOKNext
<1>4. avail < NumEntries /\ queue[Wrap(tail + avail)] = call[h].req.arg
  BY <1>1, Alone DEF Inside
<1>5. call' = [call EXCEPT ![h] = Queue!Done(@.req, "ok")] /\ at' = at /\ step'[h] = "unlock"
  BY <1>1, ResultIs
<1>6. first = tail /\ first' = tail
  BY <1>1, <1>2, <1>5, FirstStays
<1>7. avail \in Nat /\ tail \in Nat
  BY Size DEF FifoInv, Ring, Index
<1>8. /\ q \in Seq(Entry) /\ Len(q) = avail
      /\ \A i \in 1 .. avail : q[i] = queue[Wrap(tail + (i - 1))]
  BY <1>3, <1>6 DEF QueueOK
<1>9. /\ q' \in Seq(Entry) /\ Len(q') = avail + 1
      /\ \A i \in 1 .. avail + 1 : q'[i] = queue[Wrap(tail + (i - 1))]
  BY <1>1, <1>3, <1>6 DEF QueueOK, Wrap
<1>10. call[h].req \in Calls /\ call[h].req.op # "none" /\ ~call[h].done
  BY <1>1, MayApply
<1> DEFINE e == call[h].req.arg
<1>11. e \in Entry
  BY <1>1, <1>10 DEF Calls
<1> HIDE DEF e
<1>12. /\ Append(q, e) \in Seq(Entry) /\ Len(Append(q, e)) = avail + 1
       /\ \A i \in 1 .. avail : Append(q, e)[i] = q[i]
       /\ Append(q, e)[avail + 1] = e
  BY <1>8, <1>11, AppendProperties
<1>13. \A i \in 1 .. avail + 1 : q'[i] = Append(q, e)[i]
  <2> SUFFICES ASSUME NEW i \in 1 .. avail + 1 PROVE q'[i] = Append(q, e)[i]
    OBVIOUS
  <2>1. i \in 1 .. avail \/ i = avail + 1
    BY <1>7
  <2>2. CASE i \in 1 .. avail
    BY <2>2, <1>8, <1>9, <1>12
  <2>3. CASE i = avail + 1
    <3>1. i - 1 = avail
      BY <2>3, <1>7
    <3> QED
      BY <2>3, <3>1, <1>4, <1>9, <1>12 DEF e
  <2> QED
    BY <2>1, <2>2, <2>3
<1>14. q' = Append(q, e)
  BY <1>9, <1>12, <1>13, SeqEqual
<1>15. Len(q) # NumEntries
  BY <1>4, <1>7, <1>8, Size
<1> QED
  BY <1>1, <1>5, <1>10, <1>14, <1>15 DEF Queue!Apply, Queue!Enqueue, Queue!Effect, e

LEMMA RefineDequeueCopy ==
    ASSUME FifoInv, NEW h \in Hart, DequeueCopy(h)
    PROVE  Queue!Apply(h) \/ UNCHANGED <<q, call>>
<1>1. /\ at[h] = "in" /\ step[h] = "body" /\ call[h].req.op = "dequeue"
      /\ avail' = avail /\ tail' = tail /\ queue' = queue
  BY DEF DequeueCopy, Holds, fifo
<1>2. FifoInv'
  BY StepDequeueCopy
<1>3. CASE avail = 0 /\ Result(h, "ENOENT", "unlock")
  <2>1. call' = [call EXCEPT ![h] = Queue!Done(@.req, "ENOENT")] /\ at' = at /\ step'[h] = "unlock"
    BY <1>3, ResultIs
  <2>2. first' = first
    BY <1>1, <1>2, <2>1, FirstStays
  <2>3. q' = q
    BY <1>1, <2>2, QueueKept
  <2>4. q \in Seq(Entry) /\ Len(q) = 0
    BY <1>3, QueueIsOK DEF QueueOK
  <2>5. q = << >>
    BY <2>4, EmptySeq
  <2>6. call[h].req.op # "none" /\ ~call[h].done
    BY <1>1, MayApply
  <2> QED
    BY <1>1, <2>1, <2>3, <2>5, <2>6 DEF Queue!Apply, Queue!Dequeue, Queue!Effect
<1>4. CASE /\ avail # 0
           /\ step' = [step EXCEPT ![h] = "count"]
           /\ UNCHANGED <<lockVars, call>>
  <2>1. call' = call /\ at' = at /\ step'[h] = "count"
    BY <1>4 DEF lockVars, FifoInv, Ring
  <2>2. first' = first
    BY <1>1, <1>2, <2>1, FirstStays
  <2> QED
    BY <1>1, <2>1, <2>2, QueueKept
<1> QED
  BY <1>3, <1>4 DEF DequeueCopy

(* Counting down removes the oldest entry, the one in the register.         *)
LEMMA RefineDequeueCount ==
    ASSUME FifoInv, NEW h \in Hart, DequeueCount(h)
    PROVE  Queue!Apply(h)
<1>1. /\ at[h] = "in" /\ step[h] = "count" /\ call[h].req.op = "dequeue"
      /\ avail' = avail - 1 /\ tail' = tail /\ queue' = queue /\ Result(h, reg[h], "tail")
  BY DEF DequeueCount, Holds
<1>2. FifoInv'
  BY StepDequeueCount
<1>3. QueueOK /\ QueueOK'
  BY <1>2, QueueIsOK, QueueOKNext
<1>4. avail > 0 /\ reg[h] = queue[tail]
  BY <1>1, Alone DEF Inside
<1>5. call' = [call EXCEPT ![h] = Queue!Done(@.req, reg[h])] /\ at' = at /\ step'[h] = "tail"
  BY <1>1, ResultIs
<1>6. first = tail
  BY <1>1, Alone
<1>7. first' = Wrap(tail + 1)
  BY <1>1, <1>5 DEF first, Wrap
<1>8. avail \in Nat /\ avail \in 0 .. NumEntries /\ tail \in Index
  BY Size DEF FifoInv, Ring
<1>9. /\ q \in Seq(Entry) /\ Len(q) = avail
      /\ \A i \in 1 .. avail : q[i] = queue[Wrap(tail + (i - 1))]
  BY <1>3, <1>6 DEF QueueOK
<1>10. /\ q' \in Seq(Entry) /\ Len(q') = avail - 1
       /\ \A i \in 1 .. avail - 1 : q'[i] = queue[Wrap(Wrap(tail + 1) + (i - 1))]
  BY <1>1, <1>3, <1>7 DEF QueueOK, Wrap
<1>11. q # << >>
  BY <1>4, <1>8, <1>9, EmptySeq
<1>12. /\ Tail(q) \in Seq(Entry) /\ Len(Tail(q)) = avail - 1 /\ Head(q) = q[1]
       /\ \A i \in 1 .. avail - 1 : Tail(q)[i] = q[i + 1]
  BY <1>9, <1>11, HeadTailProperties
<1>13. \A i \in 1 .. avail - 1 : q'[i] = Tail(q)[i]
  <2> SUFFICES ASSUME NEW i \in 1 .. avail - 1 PROVE q'[i] = Tail(q)[i]
    OBVIOUS
  <2>1. i + 1 \in 1 .. avail /\ i - 1 \in 0 .. NumEntries - 1 /\ (i + 1) - 1 = i /\ (i - 1) + 1 = i
    BY <1>8, Size
  <2>2. Wrap(Wrap(tail + 1) + (i - 1)) = Wrap(tail + i)
    BY <1>8, <2>1, WrapShift
  <2> QED
    BY <1>9, <1>10, <1>12, <2>1, <2>2
<1>14. q' = Tail(q)
  BY <1>10, <1>12, <1>13, SeqEqual
<1>15. Head(q) = reg[h]
  <2>1. 1 \in 1 .. avail /\ 1 - 1 = 0
    BY <1>4, <1>8
  <2>2. Wrap(tail + 0) = tail
    BY <1>8, WrapZero
  <2> QED
    BY <1>4, <1>9, <1>12, <2>1, <2>2
<1>16. call[h].req.op # "none" /\ ~call[h].done
  BY <1>1, MayApply
<1> QED
  BY <1>1, <1>5, <1>11, <1>14, <1>15, <1>16 DEF Queue!Apply, Queue!Dequeue, Queue!Effect

(* A round that ends the scan gives the verdict of the oldest entry that    *)
(* takes the request, and changes that entry only; others change nothing.   *)
LEMMA RefineInplaceUpdate ==
    ASSUME FifoInv, NEW h \in Hart, InplaceUpdate(h)
    PROVE  Queue!Apply(h) \/ UNCHANGED <<q, call>>
<1>1. /\ at[h] = "in" /\ step[h] = "body" /\ call[h].req.op = "inplace_update"
      /\ avail' = avail /\ tail' = tail
  BY DEF InplaceUpdate, Holds
<1>2. FifoInv'
  BY StepInplaceUpdate
<1>3. QueueOK /\ QueueOK'
  BY <1>2, QueueIsOK, QueueOKNext
<1>4. call[h].req \in Calls /\ call[h].req.op # "none" /\ ~call[h].done
  BY <1>1, MayApply
<1>5. q \in Seq(Entry) /\ Len(q) = avail /\ DOMAIN q = 1 .. avail
  BY <1>3 DEF QueueOK
<1>6. CASE avail = 0 /\ Result(h, "UNCHANGED", "unlock") /\ UNCHANGED queue
  <2>1. call' = [call EXCEPT ![h] = Queue!Done(@.req, "UNCHANGED")] /\ at' = at /\ step'[h] = "unlock"
    BY <1>6, ResultIs
  <2>2. first' = first
    BY <1>1, <1>2, <2>1, FirstStays
  <2>3. q' = q
    BY <1>1, <1>6, <2>2, QueueKept
  <2>4. \A i \in DOMAIN q : ~Queue!Takes(h, i)
    BY <1>5, <1>6
  <2> QED
    BY <1>1, <1>4, <2>1, <2>3, <2>4 DEF Queue!Apply, Queue!InplaceUpdate, Queue!Effect
<1>7. CASE avail # 0
  <2> DEFINE n == reg[h]
             arg == call[h].req.arg
             index == Wrap(tail + n)
             r == Fptr(arg, queue[index])
  <2>1. /\ queue' = [queue EXCEPT ![index] = r.entry]
        /\ IF r.verdict # "UNCHANGED" \/ n + 1 = avail
           THEN Result(h, r.verdict, "unlock")
           ELSE UNCHANGED <<lockVars, call, step>>
    BY <1>7 DEF InplaceUpdate
  <2>2. Scanned(h)
    BY <1>1, Alone DEF Inside
  <2>3. /\ tail \in Index /\ avail \in 0 .. NumEntries /\ avail \in Nat
        /\ queue \in [Index -> Entry \cup {Zero}]
    BY Size DEF FifoInv, Ring
  <2>4. n \in Nat /\ n < avail
    <3>1. n \in Nat /\ (n < avail \/ n = 0)
      BY <2>2 DEF Scanned
    <3> QED
      BY <1>7, <2>3, <3>1
  <2>5. arg \in Entry
    BY <1>1, <1>4 DEF Calls
  <2>6. \A i \in 0 .. NumEntries - 1 : i < n => Fptr(arg, queue[Wrap(tail + i)]).verdict = "UNCHANGED"
    BY <2>2 DEF Scanned
  <2>7. at' = at /\ step'[h] # "tail"
    BY <1>1, <2>1, ResultIs DEF lockVars
  <2>8. first = tail /\ first' = tail
    BY <1>1, <1>2, <2>7, FirstStays
  <2>9. n \in 0 .. NumEntries - 1 /\ n + 1 \in 1 .. avail /\ (n + 1) - 1 = n
    <3> HIDE DEF n
    <3> QED
      BY <2>3, <2>4, Size
  <2>10. index \in Index
    <3>1. n \in 0 .. NumEntries
      BY <2>9, Size
    <3> QED
      BY <2>3, <3>1, WrapIn
  <2>11. /\ \A i \in 1 .. avail : q[i] = queue[Wrap(tail + (i - 1))]
         /\ \A i \in 1 .. avail : q'[i] = queue'[Wrap(tail + (i - 1))]
         /\ q' \in Seq(Entry) /\ Len(q') = avail
    BY <1>1, <1>3, <2>8 DEF QueueOK, Wrap
  <2>12. q[n + 1] = queue[index] /\ q[n + 1] \in Entry
    BY <1>5, <2>9, <2>11, ElementOfSeq
  <2>13. r.entry \in Entry /\ (r.verdict = "UNCHANGED" => r.entry = queue[index])
    BY <2>5, <2>12, FifoAssumption
  <2>14. ASSUME NEW j \in 1 .. avail, j < n + 1
         PROVE  ~Queue!Takes(h, j)
    <3>1. j - 1 \in 0 .. NumEntries - 1 /\ j - 1 < n
      <4> HIDE DEF n
      <4> QED
        BY <2>3, <2>4, <2>14, Size
    <3> QED
      BY <2>6, <2>11, <3>1 DEF Queue!Takes
  <2>15. Queue!Takes(h, n + 1) <=> r.verdict # "UNCHANGED"
    BY <2>12 DEF Queue!Takes
  <2> HIDE DEF n, arg, index, r
  <2>16. r = Fptr(call[h].req.arg, q[n + 1])
    BY <2>12 DEF r, arg
  <2>17. \A i \in 1 .. avail : i # n + 1 => q'[i] = q[i]
    <3> SUFFICES ASSUME NEW i \in 1 .. avail, i # n + 1 PROVE q'[i] = q[i]
      OBVIOUS
    <3>1. i - 1 \in 0 .. NumEntries - 1 /\ i - 1 \in 0 .. NumEntries /\ i - 1 # n
      BY <2>3, <2>4, Size
    <3>2. Wrap(tail + (i - 1)) \in Index
      BY <2>3, <3>1, WrapIn
    <3>3. Wrap(tail + (i - 1)) # index
      BY <2>3, <2>9, <3>1, WrapInjective DEF index
    <3>4. queue'[Wrap(tail + (i - 1))] = queue[Wrap(tail + (i - 1))]
      BY <2>1, <2>3, <3>2, <3>3
    <3> QED
      BY <2>11, <3>4
  <2>18. q'[n + 1] = r.entry
    <3>1. q'[n + 1] = queue'[index]
      BY <2>9, <2>11 DEF index
    <3> QED
      BY <2>1, <2>3, <2>10, <3>1
  <2>19. CASE r.verdict # "UNCHANGED"
    <3>1. Result(h, r.verdict, "unlock")
      BY <2>1, <2>19
    <3>2. call' = [call EXCEPT ![h] = Queue!Done(@.req, r.verdict)]
      BY <3>1, ResultIs
    <3> DEFINE nq == [q EXCEPT ![n + 1] = r.entry]
    <3>3. /\ nq \in Seq(Entry) /\ Len(nq) = avail
          /\ \A i \in 1 .. avail : nq[i] = IF i = n + 1 THEN r.entry ELSE q[i]
      BY <1>5, <2>9, <2>13, ExceptSeq
    <3> HIDE DEF nq
    <3>4. \A i \in 1 .. avail : q'[i] = nq[i]
      BY <2>17, <2>18, <3>3
    <3>5. q' = nq
      BY <2>11, <3>3, <3>4, SeqEqual
    <3>6. n + 1 \in DOMAIN q /\ Queue!Takes(h, n + 1)
      BY <1>5, <2>9, <2>15, <2>19
    <3>7. \A j \in 1 .. (n + 1) - 1 : ~Queue!Takes(h, j)
      <4> SUFFICES ASSUME NEW j \in 1 .. (n + 1) - 1 PROVE ~Queue!Takes(h, j)
        OBVIOUS
      <4>1. j \in 1 .. avail /\ j < n + 1
        BY <2>3, <2>4
      <4> QED
        BY <2>14, <4>1
    <3>8. Queue!Effect(h, [q EXCEPT ![n + 1] = r.entry], r.verdict)
      BY <3>2, <3>5 DEF Queue!Effect, nq
    <3>9. Queue!InplaceUpdate(h)
      BY <3>6, <3>7, <3>8, <2>16 DEF Queue!InplaceUpdate
    <3> QED
      BY <1>1, <1>4, <3>9 DEF Queue!Apply
  <2>20. CASE r.verdict = "UNCHANGED"
    <3>1. q'[n + 1] = q[n + 1]
      BY <2>12, <2>13, <2>18, <2>20
    <3>2. \A i \in 1 .. avail : q'[i] = q[i]
      BY <2>17, <3>1
    <3>3. q' = q
      BY <1>5, <2>11, <3>2, SeqEqual
    <3>4. CASE n + 1 = avail
      <4>1. call' = [call EXCEPT ![h] = Queue!Done(@.req, "UNCHANGED")]
        BY <2>1, <2>20, <3>4, ResultIs
      <4>2. \A j \in DOMAIN q : ~Queue!Takes(h, j)
        <5> SUFFICES ASSUME NEW j \in 1 .. avail PROVE ~Queue!Takes(h, j)
          BY <1>5
        <5>1. j < n + 1 \/ j = n + 1
          BY <2>3, <2>4, <3>4
        <5> QED
          BY <5>1, <2>14, <2>15, <2>20
      <4>3. Queue!InplaceUpdate(h)
        BY <3>3, <4>1, <4>2 DEF Queue!InplaceUpdate, Queue!Effect
      <4> QED
        BY <1>1, <1>4, <4>3 DEF Queue!Apply
    <3>5. CASE n + 1 # avail
      <4>1. call' = call
        BY <2>1, <2>20, <3>5
      <4> QED
        BY <3>3, <4>1
    <3> QED
      BY <3>4, <3>5
  <2> QED
    BY <2>19, <2>20
<1> QED
  BY <1>6, <1>7 DEF InplaceUpdate

LEMMA RefineInit == Init => Queue!Init
<1> SUFFICES ASSUME Init PROVE Queue!Init
  OBVIOUS
<1>1. q \in Seq(Entry) /\ Len(q) = 0
  BY FifoStarts, QueueIsOK DEF QueueOK, Init
<1>2. q = << >>
  BY <1>1, EmptySeq
<1> QED
  BY <1>2 DEF Queue!Init, Init, Idle, Pending, Queue!Idle, Queue!Pending

LEMMA RefineStep == FifoInv /\ [Next]_vars => [Queue!Next]_<<q, call>>
<1> SUFFICES ASSUME FifoInv, [Next]_vars
             PROVE  Queue!Next \/ UNCHANGED <<q, call>>
  OBVIOUS
<1>1. CASE UNCHANGED vars
  <2>1. queue' = queue /\ avail' = avail /\ tail' = tail /\ step' = step /\ call' = call
    BY <1>1 DEF vars, fifo
  <2>2. first' = first
    BY <2>1 DEF first, Wrap
  <2> QED
    BY <2>1, <2>2, QueueKept
<1>2. ASSUME NEW h \in Hart, Start(h) PROVE Queue!Next
  BY <1>2, RefineStart DEF Queue!Next
<1>3. ASSUME NEW h \in Hart, Run(h)
      PROVE  Queue!Apply(h) \/ Queue!Return(h) \/ UNCHANGED <<q, call>>
  BY <1>3, RefineLocked, RefineEnqueueCopy, RefineEnqueueCount, RefineDequeueCopy,
     RefineDequeueCount, RefineDequeueTail, RefineInplaceUpdate, RefineReset,
     RefineResetClear, RefineQuery, RefineUnlock DEF Run
<1> QED
  BY <1>1, <1>2, <1>3 DEF Next, Queue!Next

(* The functions of sbi_fifo.c, interleaved in any way by any number of     *)
(* harts, are a bounded queue: each call takes effect at one instant        *)
(* between its start and its return, with the result the queue gives; no    *)
(* entry is lost, repeated or reordered.  This is IsBoundedQueue without    *)
(* its fairness.                                                            *)
THEOREM FifoIsAQueue == Spec => Queue!Behaviour
BY RefineInit, RefineStep, FifoInductive, PTL DEF Spec, Queue!Behaviour
=============================================================================
