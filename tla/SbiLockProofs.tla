--------------------------- MODULE SbiLockProofs ---------------------------
(* The ticket lock, for any number of harts below the number of tickets.    *)
EXTENDS SbiLock, Sequences, FiniteSetTheorems, SequenceTheorems, TLAPS

Active == {h \in Hart : at[h] # "out"}

(* Ahead without the remainder: how far a ticket is behind the owner.       *)
Dist(t) == IF t >= owner THEN t - owner ELSE t - owner + TicketMod

(* The tickets in use are those from owner up to next, each held by exactly *)
(* one hart, and the hart inside holds the owner's.                         *)
TicketInv ==
    /\ Cardinality(Active) = Dist(next)
    /\ \A h \in Active : Dist(ticket[h]) < Dist(next)
    /\ \A g, h \in Active : ticket[g] = ticket[h] => g = h
    /\ \A i \in 0 .. Dist(next) - 1 : \E h \in Active : Dist(ticket[h]) = i
    /\ \A h \in Hart : at[h] = "in" => ticket[h] = owner

LockInv == LockTypeOK /\ TicketInv

---------------------------------------------------------------------------
LEMMA Constants == /\ TicketMod \in Nat \ {0}
                   /\ Cardinality(Hart) \in Nat /\ Cardinality(Hart) < TicketMod
BY LockAssumption, FS_CardinalityType

(* Remainders of numbers that are at most one modulus off.                  *)
LEMMA SmallMod ==
    ASSUME NEW a \in Int, NEW m \in Nat \ {0}, - m <= a, a < 2 * m
    PROVE  a % m = IF a < 0 THEN a + m ELSE IF a < m THEN a ELSE a - m
<1>1. a % m \in 0 .. m - 1 /\ a \div m \in Int /\ a = m * (a \div m) + (a % m)
  OBVIOUS
<1> DEFINE q == a \div m
<1>2. ASSUME NEW k \in Int, k >= 2 PROVE m * k >= 2 * m
  BY <1>2
<1>3. ASSUME NEW k \in Int, k <= -2 PROVE m * k <= - 2 * m
  BY <1>3
<1>4. q \in -1 .. 1
  BY <1>1, <1>2, <1>3
<1>5. q = -1 \/ q = 0 \/ q = 1
  BY <1>4
<1> QED
  BY <1>1, <1>5

LEMMA BumpValue ==
    ASSUME NEW t \in Ticket
    PROVE  Bump(t) = (IF t = TicketMod - 1 THEN 0 ELSE t + 1) /\ Bump(t) \in Ticket
<1>1. t + 1 \in Int /\ - TicketMod <= t + 1 /\ t + 1 < 2 * TicketMod
  BY Constants DEF Ticket
<1>2. (t + 1) % TicketMod = IF t + 1 < 0 THEN t + 1 + TicketMod
                            ELSE IF t + 1 < TicketMod THEN t + 1 ELSE t + 1 - TicketMod
  <2>1. \A a \in Int : - TicketMod <= a /\ a < 2 * TicketMod =>
            a % TicketMod = IF a < 0 THEN a + TicketMod
                            ELSE IF a < TicketMod THEN a ELSE a - TicketMod
    BY Constants, SmallMod
  <2> QED
    BY <1>1, <2>1, Constants DEF Ticket
<1> QED
  BY <1>2, Constants DEF Bump, Ticket

LEMMA AheadIsDist ==
    ASSUME LockTypeOK, NEW t \in Ticket
    PROVE  Ahead(t) = Dist(t) /\ Dist(t) \in 0 .. TicketMod - 1
<1>1. t - owner \in Int /\ - TicketMod <= t - owner /\ t - owner < TicketMod /\ t - owner < 2 * TicketMod
  BY Constants DEF Ticket, LockTypeOK
<1>2. (t - owner) % TicketMod =
         IF t - owner < 0 THEN t - owner + TicketMod
         ELSE IF t - owner < TicketMod THEN t - owner ELSE t - owner - TicketMod
  BY <1>1, Constants, SmallMod
<1> QED
  BY <1>1, <1>2, Constants DEF Ahead, Dist, Ticket, LockTypeOK

LEMMA ActiveFinite ==
    /\ IsFiniteSet(Active) /\ Cardinality(Active) \in Nat
    /\ \A h \in Hart : h \notin Active => Cardinality(Active) < Cardinality(Hart)
<1>1. Active \in SUBSET Hart
  BY DEF Active
<1>2. IsFiniteSet(Active) /\ Cardinality(Active) <= Cardinality(Hart)
      /\ (Cardinality(Hart) = Cardinality(Active) => Hart = Active)
  BY <1>1, LockAssumption, FS_Subset
<1>3. Cardinality(Active) \in Nat
  BY <1>2, FS_CardinalityType
<1> QED
  BY <1>2, <1>3, Constants

---------------------------------------------------------------------------
(* A hart takes a ticket: in spin_lock it then spins, in spin_trylock it is *)
(* in, because the ticket is the owner's.                                   *)
LEMMA TakesTicket ==
    ASSUME LockInv, NEW h \in Hart, NEW p \in {"spin", "in"},
           at[h] = "out", p = "in" => owner = next,
           ticket' = [ticket EXCEPT ![h] = next], next' = Bump(next),
           at' = [at EXCEPT ![h] = p], owner' = owner
    PROVE  LockInv' /\ Active' = Active \cup {h} /\ Dist(next)' = Dist(next) + 1
           /\ \A t \in Ticket : Dist(t)' = Dist(t)
<1> USE DEF LockInv
<1>1. Active' = Active \cup {h} /\ h \notin Active /\ Active \subseteq Hart
  BY DEF Active, LockTypeOK
<1>2. LockTypeOK'
  BY BumpValue DEF LockTypeOK
<1>3. Cardinality(Active)' = Cardinality(Active) + 1
  BY <1>1, ActiveFinite, FS_AddElement
<1>4. Cardinality(Active) + 1 < TicketMod
  BY <1>1, ActiveFinite, Constants
<1>5. \A t \in Ticket : Dist(t)' = Dist(t) /\ Dist(t) \in 0 .. TicketMod - 1
  BY AheadIsDist DEF Dist
<1>6. Dist(next)' = Dist(next) + 1 /\ Dist(next) + 1 < TicketMod
  <2>1. Dist(next) + 1 < TicketMod
    BY <1>4 DEF TicketInv
  <2> QED
    BY <2>1, BumpValue, Constants DEF Dist, LockTypeOK, Ticket
<1>7. ticket'[h] = next /\ next \in Ticket /\ (Dist(ticket[h]))' = Dist(next)
  BY <1>5 DEF LockTypeOK, Dist
<1>8. \A g \in Active : /\ ticket'[g] = ticket[g] /\ ticket[g] \in Ticket /\ g # h
                        /\ (Dist(ticket[g]))' = Dist(ticket[g])
  BY <1>1, <1>5 DEF LockTypeOK, Dist
<1>9. \A g \in Active : ticket[g] # next /\ Dist(ticket[g]) < Dist(next)
  BY <1>5, <1>8 DEF TicketInv, LockTypeOK
<1>10. Dist(next) \in Nat
  BY <1>5 DEF LockTypeOK
<1>11. TicketInv'
  <2>1. Cardinality(Active)' = Dist(next)'
    BY <1>3, <1>6 DEF TicketInv
  <2>2. \A g \in Active' : (Dist(ticket[g]))' < Dist(next)'
    <3> SUFFICES ASSUME NEW g \in Active' PROVE (Dist(ticket[g]))' < Dist(next)'
      OBVIOUS
    <3>1. CASE g = h
      BY <3>1, <1>6, <1>7, <1>10
    <3>2. CASE g \in Active
      <4>1. Dist(ticket[g]) \in Int
        BY <3>2, <1>8, <1>5
      <4> QED
        BY <3>2, <4>1, <1>6, <1>8, <1>9, <1>10
    <3> QED
      BY <3>1, <3>2, <1>1
  <2>3. \A f, g \in Active' : ticket'[f] = ticket'[g] => f = g
    BY <1>1, <1>7, <1>8, <1>9 DEF TicketInv
  <2>4. \A i \in 0 .. Dist(next)' - 1 : \E g \in Active' : (Dist(ticket[g]))' = i
    <3> SUFFICES ASSUME NEW i \in 0 .. Dist(next)' - 1
                 PROVE  \E g \in Active' : (Dist(ticket[g]))' = i
      OBVIOUS
    <3>1. i = Dist(next) \/ i \in 0 .. Dist(next) - 1
      BY <1>6, <1>10
    <3>2. CASE i = Dist(next)
      BY <3>2, <1>1, <1>7
    <3>3. CASE i \in 0 .. Dist(next) - 1
      <4>1. PICK g \in Active : Dist(ticket[g]) = i
        BY <3>3 DEF TicketInv
      <4> QED
        BY <4>1, <1>1, <1>8
    <3> QED
      BY <3>1, <3>2, <3>3
  <2>5. \A g \in Hart : at'[g] = "in" => ticket'[g] = owner'
    <3> SUFFICES ASSUME NEW g \in Hart, at'[g] = "in" PROVE ticket'[g] = owner'
      OBVIOUS
    <3>1. CASE g = h
      BY <3>1, <1>7 DEF LockTypeOK
    <3>2. CASE g # h
      <4>1. at[g] = "in" /\ ticket'[g] = ticket[g]
        BY <3>2 DEF LockTypeOK
      <4> QED
        BY <4>1 DEF TicketInv
    <3> QED
      BY <3>1, <3>2
  <2> QED
    BY <2>1, <2>2, <2>3, <2>4, <2>5 DEF TicketInv
<1> QED
  BY <1>1, <1>2, <1>5, <1>6, <1>11

(* The hart inside leaves: every other ticket is one nearer to the owner.   *)
LEMMA GivesTicketBack ==
    ASSUME LockInv, NEW h \in Hart, spin_unlock(h)
    PROVE  LockInv' /\ Active' = Active \ {h} /\ Dist(next)' = Dist(next) - 1
           /\ h \in Active /\ Dist(ticket[h]) = 0
           /\ \A g \in Active \ {h} : ticket'[g] = ticket[g]
                                     /\ (Dist(ticket[g]))' = Dist(ticket[g]) - 1
<1> USE DEF LockInv, spin_unlock
<1>1. Active' = Active \ {h} /\ h \in Active /\ Active \subseteq Hart
  BY DEF Active, LockTypeOK
<1>2. LockTypeOK'
  <2>1. 0 \in Ticket
    BY Constants DEF Ticket
  <2> QED
    BY <2>1, BumpValue DEF LockTypeOK
<1>3. Cardinality(Active)' = Cardinality(Active) - 1
  BY <1>1, ActiveFinite, FS_RemoveElement
<1>4. ticket[h] = owner /\ Dist(ticket[h]) = 0
  <2>1. ticket[h] = owner /\ owner \in Int
    BY DEF TicketInv, LockTypeOK, Ticket
  <2> QED
    BY <2>1 DEF Dist
<1>5. \A t \in Ticket : Dist(t) \in 0 .. TicketMod - 1
  BY AheadIsDist
<1>6. \A t \in Ticket : t # owner => Dist(t)' = Dist(t) - 1 /\ Dist(t) >= 1
  BY BumpValue, Constants DEF Dist, LockTypeOK, Ticket
<1>7. next \in Ticket /\ next # owner
  BY <1>1, <1>4, <1>5 DEF TicketInv, LockTypeOK, Dist
<1>8. Dist(next)' = Dist(next) - 1 /\ Dist(next) >= 1 /\ Dist(next) \in Int
  <2>1. Dist(next)' = (IF next >= owner' THEN next - owner' ELSE next - owner' + TicketMod)
    BY DEF Dist
  <2> QED
    BY <2>1, <1>5, <1>7, BumpValue, Constants DEF Dist, LockTypeOK, Ticket
<1>9. \A g \in Active \ {h} : /\ ticket'[g] = ticket[g] /\ ticket[g] \in Ticket
                              /\ ticket[g] # owner
  BY <1>1, <1>4 DEF TicketInv, LockTypeOK
<1>10. \A g \in Active \ {h} : (Dist(ticket[g]))' = Dist(ticket[g]) - 1 /\ Dist(ticket[g]) \in Int
                               /\ Dist(ticket[g]) >= 1
  BY <1>5, <1>9, BumpValue, Constants DEF Dist, LockTypeOK, Ticket
<1>11. TicketInv'
  <2>1. Cardinality(Active)' = Dist(next)'
    BY <1>3, <1>8 DEF TicketInv
  <2>2. \A g \in Active' : (Dist(ticket[g]))' < Dist(next)'
    BY <1>1, <1>8, <1>10 DEF TicketInv
  <2>3. \A f, g \in Active' : ticket'[f] = ticket'[g] => f = g
    BY <1>1, <1>9 DEF TicketInv
  <2>4. \A i \in 0 .. Dist(next)' - 1 : \E g \in Active' : (Dist(ticket[g]))' = i
    <3> SUFFICES ASSUME NEW i \in 0 .. Dist(next)' - 1
                 PROVE  \E g \in Active' : (Dist(ticket[g]))' = i
      OBVIOUS
    <3>1. i + 1 \in 0 .. Dist(next) - 1
      BY <1>8
    <3>2. PICK g \in Active : Dist(ticket[g]) = i + 1
      BY <3>1 DEF TicketInv
    <3>3. g # h
      BY <3>1, <3>2, <1>4
    <3> QED
      BY <3>1, <3>2, <3>3, <1>1, <1>10
  <2>5. \A g \in Hart : at'[g] = "in" => ticket'[g] = owner'
    <3>1. \A g \in Hart : at'[g] = "in" => g # h /\ at[g] = "in" /\ g \in Active
      BY DEF LockTypeOK, Active
    <3> QED
      BY <3>1, <1>9 DEF TicketInv
  <2> QED
    BY <2>1, <2>2, <2>3, <2>4, <2>5 DEF TicketInv
<1> QED
  BY <1>1, <1>2, <1>4, <1>8, <1>9, <1>10, <1>11

LEMMA GrantKeeps ==
    ASSUME LockInv, NEW h \in Hart, Granted(h)
    PROVE  LockInv' /\ Active' = Active
<1> USE DEF LockInv, Granted
<1>1. LockTypeOK'
  BY DEF LockTypeOK
<1>2. Active' = Active
  BY DEF Active, LockTypeOK
<1>3. \A t : Dist(t)' = Dist(t)
  BY DEF Dist
<1>4. TicketInv'
  BY <1>2 DEF TicketInv, Dist, LockTypeOK
<1> QED
  BY <1>1, <1>2, <1>4

LEMMA LockStep == LockInv /\ [LockNext]_lockVars => LockInv'
<1> SUFFICES ASSUME LockInv, [LockNext]_lockVars PROVE LockInv'
  OBVIOUS
<1>1. CASE UNCHANGED lockVars
  BY <1>1 DEF lockVars, LockInv, LockTypeOK, TicketInv, Active, Dist
<1>2. ASSUME NEW h \in Hart, spin_lock(h) PROVE LockInv'
  BY <1>2, TakesTicket DEF spin_lock
<1>3. ASSUME NEW h \in Hart, spin_trylock(h) PROVE LockInv'
  BY <1>3, TakesTicket DEF spin_trylock
<1>4. ASSUME NEW h \in Hart, Granted(h) PROVE LockInv'
  BY <1>4, GrantKeeps
<1>5. ASSUME NEW h \in Hart, spin_unlock(h) PROVE LockInv'
  BY <1>5, GivesTicketBack
<1> QED
  BY <1>1, <1>2, <1>3, <1>4, <1>5 DEF LockNext

LEMMA LockStarts == LockInit => LockInv
<1> SUFFICES ASSUME LockInit PROVE LockInv
  OBVIOUS
<1>1. LockTypeOK /\ Active = {}
  BY Constants DEF LockInit, LockTypeOK, Ticket, Active
<1>2. Dist(next) = 0 /\ Cardinality(Active) = 0
  BY <1>1, FS_EmptySet DEF LockInit, Dist
<1> QED
  BY <1>1, <1>2 DEF LockInv, TicketInv, LockInit

(* The lock word and the harts that use it satisfy LockInv at all times.    *)
THEOREM LockInductive == LockSpec => []LockInv
BY LockStarts, LockStep, PTL DEF LockSpec

(* Both halves of the lock word keep their width (riscv_locks.c).           *)
THEOREM LockTypeCorrect == LockSpec => []LockTypeOK
<1>1. LockInv => LockTypeOK
  BY DEF LockInv
<1> QED
  BY <1>1, LockInductive, PTL

(* Harts are never in the lock together, for every number of harts below    *)
(* the number of tickets, across every wrap of the counters.                *)
THEOREM LockExcludes == LockSpec => []MutualExclusion
<1>1. LockInv => MutualExclusion
  BY DEF LockInv, TicketInv, MutualExclusion, Active
<1> QED
  BY <1>1, LockInductive, PTL

---------------------------------------------------------------------------
(* The refinement.  The line FairLock keeps is the harts in the order of    *)
(* their distance from the owner.                                           *)
LineOK ==
    /\ line \in Seq(Hart) /\ Len(line) = Dist(next) /\ Dist(next) \in Nat
    /\ \A i \in 1 .. Dist(next) :
          line[i] \in Active /\ Dist(ticket[line[i]]) = i - 1
    /\ \A g, h \in Active : Dist(ticket[g]) = Dist(ticket[h]) => g = h

LEMMA LineIsOK == LockInv => LineOK
<1> SUFFICES ASSUME LockInv PROVE LineOK
  OBVIOUS
<1> USE DEF LockInv
<1>1. Ahead(next) = Dist(next) /\ Dist(next) \in Nat
  BY AheadIsDist, Constants DEF LockTypeOK
<1>2. \A h \in Hart : Ahead(ticket[h]) = Dist(ticket[h]) /\ ticket[h] \in Ticket
  BY AheadIsDist DEF LockTypeOK
<1>3. line = [i \in 1 .. Dist(next) |->
                CHOOSE h \in Hart : at[h] # "out" /\ Ahead(ticket[h]) = i - 1]
  BY <1>1 DEF line
<1>4. ASSUME NEW i \in 1 .. Dist(next)
      PROVE  line[i] \in Active /\ Dist(ticket[line[i]]) = i - 1
  <2>1. i - 1 \in 0 .. Dist(next) - 1
    BY <1>1
  <2>2. PICK h \in Active : Dist(ticket[h]) = i - 1
    BY <2>1 DEF TicketInv
  <2>3. \E g \in Hart : at[g] # "out" /\ Ahead(ticket[g]) = i - 1
    BY <2>2, <1>2 DEF Active
  <2> DEFINE c == CHOOSE g \in Hart : at[g] # "out" /\ Ahead(ticket[g]) = i - 1
  <2>4. c \in Hart /\ at[c] # "out" /\ Ahead(ticket[c]) = i - 1
    BY <2>3
  <2>5. line[i] = c
    BY <1>3
  <2> HIDE DEF c
  <2> QED
    BY <2>4, <2>5, <1>2 DEF Active
<1>5. line \in [1 .. Dist(next) -> Hart]
  BY <1>3, <1>4 DEF Active
<1>6. line \in Seq(Hart) /\ Len(line) = Dist(next)
  BY <1>1, <1>5
<1>7. \A a, b \in Ticket : Dist(a) = Dist(b) => a = b
  BY Constants DEF Dist, Ticket, LockTypeOK
<1>8. \A g, h \in Active : Dist(ticket[g]) = Dist(ticket[h]) => g = h
  BY <1>2, <1>7 DEF TicketInv, Active
<1> QED
  BY <1>1, <1>4, <1>6, <1>8 DEF LineOK

LEMMA LineOKNext == LockInv' => LineOK'
BY LineIsOK, PTL

LEMMA AskStep ==
    ASSUME LockInv, NEW h \in Hart, spin_lock(h)
    PROVE  Fair!Ask(h)
<1>1. LockInv' /\ Active' = Active \cup {h} /\ Dist(next)' = Dist(next) + 1
      /\ \A t \in Ticket : Dist(t)' = Dist(t)
  BY TakesTicket DEF spin_lock
<1>2. LineOK /\ LineOK'
  BY <1>1, LineIsOK, LineOKNext
<1>3. h \notin Active
  BY DEF spin_lock, Active
<1>4. ~Fair!Waits(h)
  BY <1>2, <1>3 DEF LineOK, Fair!Waits
<1>5. /\ \A g \in Active : ticket'[g] = ticket[g] /\ (Dist(ticket[g]))' = Dist(ticket[g])
      /\ (Dist(ticket[h]))' = Dist(next)
  BY <1>3 DEF spin_lock, LockInv, LockTypeOK, Active, Dist
<1>6. Dist(next) \in Nat /\ h \in Hart
  BY <1>2 DEF LineOK
<1>7. \A i \in 1 .. Dist(next) : line'[i] = line[i]
  <2> SUFFICES ASSUME NEW i \in 1 .. Dist(next) PROVE line'[i] = line[i]
    OBVIOUS
  <2>1. line[i] \in Active /\ Dist(ticket[line[i]]) = i - 1
    BY <1>2 DEF LineOK
  <2>2. i \in 1 .. Dist(next)'
    BY <1>1, <1>6
  <2>3. PICK a : a = line'[i]
    OBVIOUS
  <2>4. a \in Active' /\ (Dist(ticket[a]))' = i - 1
    BY <1>2, <2>2, <2>3 DEF LineOK
  <2>5. a # h
    BY <2>4, <1>5, <1>6
  <2>6. a \in Active /\ Dist(ticket[a]) = i - 1
    BY <2>4, <2>5, <1>1, <1>5
  <2> QED
    BY <2>1, <2>3, <2>6, <1>2 DEF LineOK
<1>8. line'[Dist(next) + 1] = h
  <2>1. Dist(next) + 1 \in 1 .. Dist(next)'
    BY <1>1, <1>6
  <2>2. PICK a : a = line'[Dist(next) + 1]
    OBVIOUS
  <2>3. a \in Active' /\ (Dist(ticket[a]))' = Dist(next)
    BY <1>2, <1>6, <2>1, <2>2 DEF LineOK
  <2>4. h \in Active'
    BY <1>1
  <2> QED
    BY <2>2, <2>3, <2>4, <1>2, <1>5 DEF LineOK
<1>9. line' = Append(line, h)
  <2>1. line \in Seq(Hart) /\ line' \in Seq(Hart) /\ Len(line) = Dist(next) /\ Len(line') = Dist(next) + 1
    BY <1>1, <1>2 DEF LineOK
  <2>2. /\ Append(line, h) \in Seq(Hart) /\ Len(Append(line, h)) = Dist(next) + 1
        /\ \A i \in 1 .. Dist(next) : Append(line, h)[i] = line[i]
        /\ Append(line, h)[Dist(next) + 1] = h
    BY <2>1, AppendProperties
  <2>3. \A i \in 1 .. Len(line') : line'[i] = Append(line, h)[i]
    BY <2>1, <2>2, <1>6, <1>7, <1>8
  <2> QED
    BY <2>1, <2>2, <2>3, SeqEqual
<1>10. held' = held
  BY DEF held, spin_lock, LockInv, LockTypeOK
<1> QED
  BY <1>4, <1>9, <1>10 DEF Fair!Ask

LEMMA TryStep ==
    ASSUME LockInv, NEW h \in Hart, spin_trylock(h)
    PROVE  Fair!TryGrant(h)
<1>1. LockInv' /\ Active' = Active \cup {h} /\ Dist(next)' = Dist(next) + 1
  BY TakesTicket DEF spin_trylock
<1>2. LineOK /\ LineOK'
  BY <1>1, LineIsOK, LineOKNext
<1>3. Dist(next) = 0
  BY DEF spin_trylock, Dist, LockInv, LockTypeOK, Ticket
<1>4. Active = {}
  <2>1. \A g \in Active : Dist(ticket[g]) \in Nat /\ Dist(ticket[g]) < 0
    BY <1>3, AheadIsDist DEF LockInv, TicketInv, LockTypeOK, Active
  <2> QED
    BY <2>1
<1>5. line = << >>
  BY <1>2, <1>3 DEF LineOK
<1>6. line' \in Seq(Hart) /\ Len(line') = 1 /\ line'[1] = h
  BY <1>1, <1>2, <1>3, <1>4 DEF LineOK
<1>7. line' = <<h>>
  <2>1. <<h>> \in Seq(Hart) /\ Len(<<h>>) = 1 /\ <<h>>[1] = h
    OBVIOUS
  <2> QED
    BY <2>1, <1>6, SeqEqual
<1>8. held' = TRUE
  BY DEF held, spin_trylock, LockInv, LockTypeOK
<1> QED
  BY <1>5, <1>7, <1>8 DEF Fair!TryGrant

LEMMA GrantStep ==
    ASSUME LockInv, NEW h \in Hart, Granted(h)
    PROVE  Fair!Grant
<1>1. LockInv' /\ Active' = Active
  BY GrantKeeps
<1>2. LineOK
  BY LineIsOK
<1>3. h \in Active /\ Dist(next) # 0
  <2>1. h \in Active /\ Dist(ticket[h]) < Dist(next) /\ Dist(ticket[h]) \in Nat
    BY AheadIsDist DEF Granted, Active, LockInv, TicketInv, LockTypeOK
  <2> QED
    BY <2>1, <1>2 DEF LineOK
<1>4. line # << >>
  BY <1>2, <1>3 DEF LineOK
<1>5. held = FALSE
  BY <1>3 DEF held, Granted, LockInv, TicketInv, Active
<1>6. held' = TRUE
  BY DEF held, Granted, LockInv, LockTypeOK
<1>7. line' = line
  <2>1. \A t : Ahead(t)' = Ahead(t)
    BY DEF Ahead, Granted
  <2>2. \A i, g : g \in Hart =>
           ((at'[g] # "out" /\ Ahead(ticket[g])' = i) <=> (at[g] # "out" /\ Ahead(ticket[g]) = i))
    BY DEF Granted, Ahead, LockInv, LockTypeOK
  <2> QED
    BY <2>1, <2>2 DEF line, Granted
<1> QED
  BY <1>4, <1>5, <1>6, <1>7 DEF Fair!Grant

LEMMA ReleaseStep ==
    ASSUME LockInv, NEW h \in Hart, spin_unlock(h)
    PROVE  Fair!Release
<1>1. /\ LockInv' /\ Active' = Active \ {h} /\ Dist(next)' = Dist(next) - 1
      /\ h \in Active /\ Dist(ticket[h]) = 0
      /\ \A g \in Active \ {h} : ticket'[g] = ticket[g]
                                  /\ (Dist(ticket[g]))' = Dist(ticket[g]) - 1
  BY GivesTicketBack
<1>2. LineOK /\ LineOK'
  BY <1>1, LineIsOK, LineOKNext
<1>3. Dist(next) \in Nat /\ Dist(next) >= 1
  BY <1>1, <1>2 DEF LineOK
<1>4. line \in Seq(Hart) /\ Len(line) = Dist(next) /\ line # << >>
      /\ line' \in Seq(Hart) /\ Len(line') = Dist(next) - 1
  BY <1>1, <1>2, <1>3 DEF LineOK
<1>5. /\ Tail(line) \in Seq(Hart) /\ Len(Tail(line)) = Dist(next) - 1
      /\ \A i \in 1 .. Dist(next) - 1 : Tail(line)[i] = line[i + 1]
  BY <1>4, HeadTailProperties
<1>6. \A i \in 1 .. Dist(next) - 1 : line'[i] = line[i + 1]
  <2> SUFFICES ASSUME NEW i \in 1 .. Dist(next) - 1 PROVE line'[i] = line[i + 1]
    OBVIOUS
  <2>1. i + 1 \in 1 .. Dist(next) /\ i \in 1 .. Dist(next)' /\ (i + 1) - 1 = i
    BY <1>1, <1>3
  <2>2. line[i + 1] \in Active /\ Dist(ticket[line[i + 1]]) = i
    BY <1>2, <2>1 DEF LineOK
  <2>3. PICK a : a = line'[i]
    OBVIOUS
  <2>4. a \in Active' /\ (Dist(ticket[a]))' = i - 1
    BY <1>2, <2>1, <2>3 DEF LineOK
  <2>5. a \in Active /\ Dist(ticket[a]) - 1 = i - 1 /\ ticket[a] \in Ticket
    BY <1>1, <2>4 DEF LockInv, LockTypeOK, Active
  <2>6. Dist(ticket[a]) \in Int
    BY <2>5, AheadIsDist DEF LockInv
  <2>7. Dist(ticket[a]) = i
    BY <2>5, <2>6
  <2> QED
    BY <2>2, <2>3, <2>5, <2>7, <1>2 DEF LineOK
<1>7. line' = Tail(line)
  BY <1>4, <1>5, <1>6, SeqEqual
<1>8. held = TRUE
  BY DEF held, spin_unlock
<1>9. held' = FALSE
  <2>1. \A g \in Hart : at[g] = "in" => g = h
    BY <1>1 DEF LockInv, TicketInv, Active, spin_unlock
  <2> QED
    BY <2>1 DEF held, spin_unlock, LockInv, LockTypeOK
<1> QED
  BY <1>7, <1>8, <1>9 DEF Fair!Release

LEMMA StutterStep == UNCHANGED lockVars => UNCHANGED <<line, held>>
BY DEF lockVars, line, held, Ahead

LEMMA FairStarts == LockInit => Fair!Init
<1> SUFFICES ASSUME LockInit PROVE Fair!Init
  OBVIOUS
<1>1. LineOK /\ Dist(next) = 0
  BY LockStarts, LineIsOK DEF LockInit, Dist
<1>2. line = << >> /\ held = FALSE
  BY <1>1 DEF LineOK, LockInit, held
<1> QED
  BY <1>2 DEF Fair!Init

LEMMA FairStep == LockInv /\ [LockNext]_lockVars => [Fair!Next]_<<line, held>>
<1> SUFFICES ASSUME LockInv, [LockNext]_lockVars
             PROVE  Fair!Next \/ UNCHANGED <<line, held>>
  OBVIOUS
<1>1. CASE UNCHANGED lockVars
  BY <1>1, StutterStep
<1>2. ASSUME NEW h \in Hart, spin_lock(h) PROVE Fair!Next
  BY <1>2, AskStep DEF Fair!Next
<1>3. ASSUME NEW h \in Hart, spin_trylock(h) PROVE Fair!Next
  BY <1>3, TryStep DEF Fair!Next
<1>4. ASSUME NEW h \in Hart, Granted(h) PROVE Fair!Next
  BY <1>4, GrantStep DEF Fair!Next
<1>5. ASSUME NEW h \in Hart, spin_unlock(h) PROVE Fair!Next
  BY <1>5, ReleaseStep DEF Fair!Next
<1> QED
  BY <1>1, <1>2, <1>3, <1>4, <1>5 DEF LockNext

(* riscv_locks.c implements a lock that serves in the order of asking:      *)
(* every step of the ticket lock is a step of FairLock, or changes neither  *)
(* the line nor whether the lock is held.                                   *)
THEOREM LockIsFair == LockSpec => ServesInOrder
BY FairStarts, FairStep, LockInductive, PTL DEF LockSpec, ServesInOrder, Fair!Spec
=============================================================================
