---------------------------- MODULE Skills_proofs ----------------------------
(***************************************************************************)
(* The audit ledger and the skill manager, for any number of threads,      *)
(* names and bodies and any bounds.                                        *)
(***************************************************************************)
EXTENDS Skills, SequenceTheorems, TLAPS

\* The steps of a thread that uses the ledger, and the death of all of them.
LedgerMove ==
    \/ \E w \in Writers : Stamp(w) \/ Recording(w) \/ Return(w)
    \/ AuditCrash

LedgerTypes ==
    /\ lines \in Seq(Line) /\ written \in Seq(Line)
    /\ holder \in Writers \cup {Nobody}
    /\ stage \in [Writers -> Stages]
    /\ event \in [Writers -> 0..MaxRecords]
    /\ stamps \in 0..MaxRecords /\ faults \in Nat

\* The file holds the last lines that were written.
Newest(file, all) ==
    /\ Len(file) <= Len(all)
    /\ \A i \in 1..Len(file) : file[i] = all[Len(all) - Len(file) + i]

Enough(file, all) == Len(file) >= Len(all) \/ Len(file) >= MaxEvents

\* A torn line belongs to no event yet.
Torn == \A i \in 1..Len(written) : written[i].kind = "torn" => written[i].event = 0

OnRecord(e) == \E i \in 1..Len(written) : written[i].event = e

\* Who holds the lock, and what the others may count on meanwhile.
LockOwner ==
    \A w \in Writers :
        /\ stage[w] \in {"appended", "trimming"} => holder = w
        /\ stage[w] = "trimming" => Len(lines) > MaxEvents
        /\ stage[w] # "none" => event[w] # 0
        /\ stage[w] \in {"appended", "trimming", "recorded"} => OnRecord(event[w])

LedgerInv ==
    /\ LedgerTypes
    /\ Newest(lines, written) /\ Enough(lines, written)
    /\ Len(lines) <= MaxEvents + faults + (IF holder = Nobody THEN 0 ELSE 1)
    /\ Torn /\ LockOwner

USE AuditAssumption, SkillsAssumption

----------------------------------------------------------------------------
\* Lines

\* A part of a sequence, element by element.
LEMMA Cut ==
    ASSUME NEW S, NEW s \in Seq(S), NEW m \in 1 .. Len(s) + 1, NEW n \in m - 1 .. Len(s)
    PROVE  /\ SubSeq(s, m, n) \in Seq(S)
           /\ Len(SubSeq(s, m, n)) = n - m + 1
           /\ \A i \in 1 .. n - m + 1 : SubSeq(s, m, n)[i] = s[m + i - 1]
  <1>1. m \in Int /\ n \in Int /\ Len(s) \in Nat
    OBVIOUS
  <1>2. \A i \in m .. n : s[i] \in S
    BY <1>1
  <1>3. /\ SubSeq(s, m, n) \in Seq(S)
        /\ Len(SubSeq(s, m, n)) = IF m <= n THEN n - m + 1 ELSE 0
        /\ \A i \in 1 .. n - m + 1 : SubSeq(s, m, n)[i] = s[m + i - 1]
    BY <1>1, <1>2, SubSeqProperties
  <1> QED
    BY <1>1, <1>3

\* A line put at the end, or at the end of a torn one, keeps every event that
\* was there, and adds its own.
LEMMA PutWhole ==
    ASSUME NEW file \in Seq(Line), NEW e \in 0..MaxRecords
    PROVE  /\ Put(file, e) \in Seq(Line)
           /\ Len(Put(file, e)) = IF TornEnd(file) THEN Len(file) ELSE Len(file) + 1
           /\ Put(file, e)[Len(Put(file, e))]
                  = [event |-> e, kind |-> IF TornEnd(file) THEN "merged" ELSE "whole"]
           /\ \A i \in 1..Len(Put(file, e)) : i # Len(Put(file, e)) =>
                  i \in 1..Len(file) /\ Put(file, e)[i] = file[i]
  <1> DEFINE k == IF TornEnd(file) THEN "merged" ELSE "whole"
             new == [event |-> e, kind |-> k]
             old == IF TornEnd(file) THEN Front(file) ELSE file
  <1>1. new \in Line
    BY DEF Line
  <1>2. Put(file, e) = Append(old, new)
    BY DEF Put
  <1>3. /\ old \in Seq(Line)
        /\ Len(old) = IF TornEnd(file) THEN Len(file) - 1 ELSE Len(file)
        /\ \A i \in 1..Len(old) : i \in 1..Len(file) /\ old[i] = file[i]
    <2>1. CASE TornEnd(file)
      <3>1. Len(file) \in Nat /\ Len(file) # 0
        BY <2>1 DEF TornEnd
      <3>2. /\ SubSeq(file, 1, Len(file) - 1) \in Seq(Line)
            /\ Len(SubSeq(file, 1, Len(file) - 1)) = Len(file) - 1
            /\ \A i \in 1 .. Len(file) - 1 : SubSeq(file, 1, Len(file) - 1)[i] = file[i]
        <4>1. 1 \in 1 .. Len(file) + 1 /\ Len(file) - 1 \in 1 - 1 .. Len(file)
          BY <3>1
        <4> DEFINE n == Len(file) - 1
        <4> HIDE DEF n
        <4>2. /\ SubSeq(file, 1, n) \in Seq(Line)
              /\ Len(SubSeq(file, 1, n)) = n - 1 + 1
              /\ \A i \in 1 .. n - 1 + 1 : SubSeq(file, 1, n)[i] = file[1 + i - 1]
          BY <3>1, <4>1, Cut DEF n
        <4>3. n \in Nat
          BY <3>1 DEF n
        <4>4. n - 1 + 1 = n /\ \A i \in 1 .. n : 1 + i - 1 = i
          BY <4>3
        <4> QED
          BY <4>2, <4>4 DEF n
      <3> QED
        BY <2>1, <3>1, <3>2 DEF Front
    <2>2. CASE ~TornEnd(file)
      BY <2>2
    <2> QED
      BY <2>1, <2>2
  <1> HIDE DEF old
  <1>4. /\ Append(old, new) \in Seq(Line)
        /\ Len(Append(old, new)) = Len(old) + 1
        /\ Append(old, new)[Len(old) + 1] = new
        /\ \A i \in 1..Len(old) : Append(old, new)[i] = old[i]
    BY <1>1, <1>3
  <1>5. Len(file) \in Nat /\ Len(old) \in Nat
    BY <1>3
  <1> QED
    BY <1>2, <1>3, <1>4, <1>5

\* The same for a line that is cut short.
LEMMA PutTorn ==
    ASSUME NEW file \in Seq(Line)
    PROVE  /\ PutPart(file) \in Seq(Line)
           /\ TornEnd(file) => PutPart(file) = file
           /\ ~TornEnd(file) =>
                  /\ Len(PutPart(file)) = Len(file) + 1
                  /\ PutPart(file)[Len(file) + 1] = [event |-> 0, kind |-> "torn"]
                  /\ \A i \in 1..Len(file) : PutPart(file)[i] = file[i]
  <1> DEFINE new == [event |-> 0, kind |-> "torn"]
  <1>1. new \in Line
    BY DEF Line
  <1> HIDE DEF new
  <1>2. /\ Append(file, new) \in Seq(Line)
        /\ Len(Append(file, new)) = Len(file) + 1
        /\ Append(file, new)[Len(file) + 1] = new
        /\ \A i \in 1..Len(file) : Append(file, new)[i] = file[i]
    BY <1>1
  <1>3. PutPart(file) = IF TornEnd(file) THEN file ELSE Append(file, new)
    BY DEF PutPart, new
  <1> QED
    BY <1>2, <1>3 DEF new

\* A file that is the end of another one is torn when that one is.
LEMMA SameEnd ==
    ASSUME NEW file \in Seq(Line), NEW all \in Seq(Line),
           Newest(file, all), Enough(file, all)
    PROVE  TornEnd(file) <=> TornEnd(all)
  <1>1. Len(file) \in Nat /\ Len(all) \in Nat /\ Len(file) <= Len(all) /\ MaxEvents \in Nat \ {0}
    BY DEF Newest
  <1>2. Len(file) = 0 <=> Len(all) = 0
    BY <1>1 DEF Enough
  <1>3. (file = <<>> <=> Len(file) = 0) /\ (all = <<>> <=> Len(all) = 0)
    OBVIOUS
  <1>4. Len(file) # 0 => file[Len(file)] = all[Len(all)]
    <2> SUFFICES ASSUME Len(file) # 0 PROVE file[Len(file)] = all[Len(all)]
      OBVIOUS
    <2>1. Len(file) \in 1..Len(file)
      BY <1>1
    <2>2. Len(all) - Len(file) + Len(file) = Len(all)
      BY <1>1
    <2> QED
      BY <2>1, <2>2 DEF Newest
  <1> QED
    BY <1>2, <1>3, <1>4 DEF TornEnd, Last

\* Writing to both keeps the file the end of what was written.
LEMMA PutKeeps ==
    ASSUME NEW file \in Seq(Line), NEW all \in Seq(Line), NEW e \in 0..MaxRecords,
           Newest(file, all), Enough(file, all)
    PROVE  /\ Newest(Put(file, e), Put(all, e)) /\ Enough(Put(file, e), Put(all, e))
           /\ Len(Put(file, e)) \in Len(file) .. Len(file) + 1
  <1> DEFINE f == Put(file, e)
             a == Put(all, e)
  <1>1. TornEnd(file) <=> TornEnd(all)
    BY SameEnd
  <1>2. /\ f \in Seq(Line)
        /\ Len(f) = IF TornEnd(file) THEN Len(file) ELSE Len(file) + 1
        /\ f[Len(f)] = [event |-> e, kind |-> IF TornEnd(file) THEN "merged" ELSE "whole"]
        /\ \A i \in 1..Len(f) : i # Len(f) => i \in 1..Len(file) /\ f[i] = file[i]
    BY PutWhole
  <1>3. /\ a \in Seq(Line)
        /\ Len(a) = IF TornEnd(all) THEN Len(all) ELSE Len(all) + 1
        /\ a[Len(a)] = [event |-> e, kind |-> IF TornEnd(all) THEN "merged" ELSE "whole"]
        /\ \A i \in 1..Len(a) : i # Len(a) => i \in 1..Len(all) /\ a[i] = all[i]
    BY PutWhole
  <1> HIDE DEF f, a
  <1>4. /\ Len(file) \in Nat /\ Len(all) \in Nat /\ Len(f) \in Nat /\ Len(a) \in Nat
        /\ Len(file) <= Len(all) /\ MaxEvents \in Nat
    BY <1>2, <1>3 DEF Newest
  <1>5. Len(f) <= Len(a) /\ Len(a) - Len(f) = Len(all) - Len(file)
    BY <1>1, <1>2, <1>3, <1>4
  <1>6. ASSUME NEW i \in 1..Len(f) PROVE f[i] = a[Len(a) - Len(f) + i]
    <2>1. CASE i = Len(f)
      <3>1. Len(a) - Len(f) + i = Len(a)
        BY <1>4, <2>1
      <3> QED
        BY <1>1, <1>2, <1>3, <2>1, <3>1
    <2>2. CASE i # Len(f)
      <3>1. i \in 1..Len(file) /\ f[i] = file[i]
        BY <1>2, <2>2
      <3>2. file[i] = all[Len(all) - Len(file) + i]
        BY <3>1 DEF Newest
      <3>3. /\ Len(a) - Len(f) + i \in 1..Len(a) /\ Len(a) - Len(f) + i # Len(a)
            /\ Len(a) - Len(f) + i = Len(all) - Len(file) + i
        BY <1>4, <1>5, <2>2
      <3> QED
        BY <1>3, <3>1, <3>2, <3>3
    <2> QED
      BY <2>1, <2>2
  <1>7. Newest(f, a)
    BY <1>5, <1>6 DEF Newest
  <1>8. Enough(f, a)
    BY <1>1, <1>2, <1>3, <1>4 DEF Enough
  <1>9. Len(f) \in Len(file) .. Len(file) + 1
    BY <1>2, <1>4
  <1> QED
    BY <1>7, <1>8, <1>9 DEF f, a

LEMMA PutPartKeeps ==
    ASSUME NEW file \in Seq(Line), NEW all \in Seq(Line),
           Newest(file, all), Enough(file, all)
    PROVE  /\ Newest(PutPart(file), PutPart(all)) /\ Enough(PutPart(file), PutPart(all))
           /\ Len(PutPart(file)) \in Len(file) .. Len(file) + 1
  <1>1. TornEnd(file) <=> TornEnd(all)
    BY SameEnd
  <1>2. Len(file) \in Nat /\ Len(all) \in Nat /\ Len(file) <= Len(all) /\ MaxEvents \in Nat
    BY DEF Newest
  <1>3. CASE TornEnd(file)
    BY <1>1, <1>2, <1>3, PutTorn
  <1>4. CASE ~TornEnd(file)
    <2> DEFINE f == PutPart(file)
               a == PutPart(all)
    <2>1. /\ Len(f) = Len(file) + 1 /\ f[Len(file) + 1] = [event |-> 0, kind |-> "torn"]
          /\ \A i \in 1..Len(file) : f[i] = file[i]
      BY <1>4, PutTorn
    <2>2. /\ Len(a) = Len(all) + 1 /\ a[Len(all) + 1] = [event |-> 0, kind |-> "torn"]
          /\ \A i \in 1..Len(all) : a[i] = all[i]
      BY <1>1, <1>4, PutTorn
    <2> HIDE DEF f, a
    <2>3. ASSUME NEW i \in 1..Len(f) PROVE f[i] = a[Len(a) - Len(f) + i]
      <3>1. CASE i = Len(file) + 1
        <4>1. Len(a) - Len(f) + i = Len(all) + 1
          BY <1>2, <2>1, <2>2, <3>1
        <4> QED
          BY <2>1, <2>2, <3>1, <4>1
      <3>2. CASE i \in 1..Len(file)
        <4>1. /\ Len(a) - Len(f) + i = Len(all) - Len(file) + i
              /\ Len(all) - Len(file) + i \in 1..Len(all)
          BY <1>2, <2>1, <2>2, <3>2
        <4>2. file[i] = all[Len(all) - Len(file) + i]
          BY <3>2 DEF Newest
        <4> QED
          BY <2>1, <2>2, <3>2, <4>1, <4>2
      <3> QED
        BY <1>2, <2>1, <3>1, <3>2
    <2>4. Newest(f, a) /\ Enough(f, a) /\ Len(f) \in Len(file) .. Len(file) + 1
      BY <1>2, <2>1, <2>2, <2>3 DEF Newest, Enough
    <2> QED
      BY <2>4 DEF f, a
  <1> QED
    BY <1>3, <1>4

\* No event is lost by what is written behind it.
LEMMA PutOnRecord ==
    ASSUME NEW all \in Seq(Line), NEW e \in 0..MaxRecords,
           \A i \in 1..Len(all) : all[i].kind = "torn" => all[i].event = 0
    PROVE  LET a == Put(all, e) IN
           /\ \A i \in 1..Len(a) : a[i].kind = "torn" => a[i].event = 0
           /\ a[Len(a)].event = e /\ Len(a) \in 1..Len(a)
           /\ \A d \in 1..MaxRecords :
                  (\E i \in 1..Len(all) : all[i].event = d) => \E i \in 1..Len(a) : a[i].event = d
  <1> DEFINE a == Put(all, e)
  <1>1. /\ a \in Seq(Line)
        /\ Len(a) = IF TornEnd(all) THEN Len(all) ELSE Len(all) + 1
        /\ a[Len(a)] = [event |-> e, kind |-> IF TornEnd(all) THEN "merged" ELSE "whole"]
        /\ \A i \in 1..Len(a) : i # Len(a) => i \in 1..Len(all) /\ a[i] = all[i]
    BY PutWhole
  <1> HIDE DEF a
  <1>2. Len(all) \in Nat /\ (TornEnd(all) => Len(all) # 0 /\ all[Len(all)].kind = "torn")
    BY DEF TornEnd, Last
  <1>3. Len(a) \in 1..Len(a)
    BY <1>1, <1>2
  <1>4. a[Len(a)].event = e /\ a[Len(a)].kind # "torn"
    BY <1>1
  <1>5. \A i \in 1..Len(a) : a[i].kind = "torn" => a[i].event = 0
    BY <1>1, <1>4
  <1>6. ASSUME NEW d \in 1..MaxRecords, NEW i \in 1..Len(all), all[i].event = d
        PROVE  \E j \in 1..Len(a) : a[j].event = d
    <2>1. ~(TornEnd(all) /\ i = Len(all))
      BY <1>2, <1>6
    <2>2. i \in 1..Len(a) /\ i # Len(a)
      BY <1>1, <1>2, <2>1
    <2> QED
      BY <1>1, <1>6, <2>2
  <1> QED
    BY <1>3, <1>4, <1>5, <1>6 DEF a

LEMMA PutPartOnRecord ==
    ASSUME NEW all \in Seq(Line),
           \A i \in 1..Len(all) : all[i].kind = "torn" => all[i].event = 0
    PROVE  LET a == PutPart(all) IN
           /\ \A i \in 1..Len(a) : a[i].kind = "torn" => a[i].event = 0
           /\ \A d \in 1..MaxRecords :
                  (\E i \in 1..Len(all) : all[i].event = d) => \E i \in 1..Len(a) : a[i].event = d
  <1>1. CASE TornEnd(all)
    BY <1>1, PutTorn
  <1>2. CASE ~TornEnd(all)
    <2> DEFINE a == PutPart(all)
    <2>1. /\ Len(a) = Len(all) + 1 /\ a[Len(all) + 1] = [event |-> 0, kind |-> "torn"]
          /\ \A i \in 1..Len(all) : a[i] = all[i]
      BY <1>2, PutTorn
    <2> HIDE DEF a
    <2>2. Len(all) \in Nat
      OBVIOUS
    <2>3. \A i \in 1..Len(a) : i \in 1..Len(all) \/ i = Len(all) + 1
      BY <2>1, <2>2
    <2>4. 1..Len(all) \subseteq 1..Len(a)
      BY <2>1, <2>2
    <2> QED
      BY <2>1, <2>3, <2>4 DEF a
  <1> QED
    BY <1>1, <1>2

----------------------------------------------------------------------------
\* The steps of the ledger

Kept == \A d \in 1..MaxRecords : OnRecord(d) => OnRecord(d)'

Bound == Len(lines) <= MaxEvents + faults + (IF holder = Nobody THEN 0 ELSE 1)

LEMMA StageMoves ==
    ASSUME NEW w \in Writers, NEW s \in Stages, stage \in [Writers -> Stages], Stage(w, s)
    PROVE  /\ stage' \in [Writers -> Stages]
           /\ stage'[w] = s /\ \A v \in Writers : v # w => stage'[v] = stage[v]
  BY DEF Stage

\* A step that writes nothing keeps what is said of the two files.
LEMMA FilesUnchanged ==
    ASSUME LedgerInv, UNCHANGED <<lines, written>>
    PROVE  /\ lines' \in Seq(Line) /\ written' \in Seq(Line)
           /\ Newest(lines, written)' /\ Enough(lines, written)' /\ Torn' /\ Kept
           /\ \A d : OnRecord(d)' <=> OnRecord(d)
  <1> USE DEF LedgerInv, LedgerTypes
  <1>1. lines' \in Seq(Line) /\ written' \in Seq(Line)
    OBVIOUS
  <1>2. Newest(lines, written)' /\ Enough(lines, written)'
    BY DEF Newest, Enough
  <1>3. Torn' /\ \A d : OnRecord(d)' <=> OnRecord(d)
    BY DEF Torn, OnRecord
  <1> QED
    BY <1>1, <1>2, <1>3 DEF Kept

\* The whole line of event e was written.
LEMMA LineWritten ==
    ASSUME LedgerInv, NEW e \in 0..MaxRecords,
           lines' = Put(lines, e), written' = Put(written, e)
    PROVE  /\ lines' \in Seq(Line) /\ written' \in Seq(Line)
           /\ Newest(lines, written)' /\ Enough(lines, written)' /\ Torn' /\ Kept
           /\ OnRecord(e)' /\ Len(lines') \in Len(lines) .. Len(lines) + 1
  <1>1. lines \in Seq(Line) /\ written \in Seq(Line) /\ Newest(lines, written)
        /\ Enough(lines, written)
    BY DEF LedgerInv, LedgerTypes
  <1>2. lines' \in Seq(Line) /\ written' \in Seq(Line)
    BY <1>1, PutWhole
  <1>3. Newest(lines', written') /\ Enough(lines', written')
        /\ Len(lines') \in Len(lines) .. Len(lines) + 1
    BY <1>1, PutKeeps
  <1>4. Newest(lines, written)' /\ Enough(lines, written)'
    BY <1>3 DEF Newest, Enough
  <1>5. \A i \in 1..Len(written) : written[i].kind = "torn" => written[i].event = 0
    BY DEF LedgerInv, Torn
  <1>6. /\ \A i \in 1..Len(written') : written'[i].kind = "torn" => written'[i].event = 0
        /\ written'[Len(written')].event = e /\ Len(written') \in 1..Len(written')
        /\ \A d \in 1..MaxRecords :
               (\E i \in 1..Len(written) : written[i].event = d) =>
                   \E i \in 1..Len(written') : written'[i].event = d
    BY <1>1, <1>5, PutOnRecord
  <1> QED
    BY <1>2, <1>3, <1>4, <1>6 DEF Torn, Kept, OnRecord

\* A part of a line was written.
LEMMA PartWritten ==
    ASSUME LedgerInv, lines' = PutPart(lines), written' = PutPart(written)
    PROVE  /\ lines' \in Seq(Line) /\ written' \in Seq(Line)
           /\ Newest(lines, written)' /\ Enough(lines, written)' /\ Torn' /\ Kept
           /\ Len(lines') \in Len(lines) .. Len(lines) + 1
  <1>1. lines \in Seq(Line) /\ written \in Seq(Line) /\ Newest(lines, written)
        /\ Enough(lines, written)
    BY DEF LedgerInv, LedgerTypes
  <1>2. lines' \in Seq(Line) /\ written' \in Seq(Line)
    BY <1>1, PutTorn
  <1>3. Newest(lines', written') /\ Enough(lines', written')
        /\ Len(lines') \in Len(lines) .. Len(lines) + 1
    BY <1>1, PutPartKeeps
  <1>4. Newest(lines, written)' /\ Enough(lines, written)'
    BY <1>3 DEF Newest, Enough
  <1>5. \A i \in 1..Len(written) : written[i].kind = "torn" => written[i].event = 0
    BY DEF LedgerInv, Torn
  <1>6. /\ \A i \in 1..Len(written') : written'[i].kind = "torn" => written'[i].event = 0
        /\ \A d \in 1..MaxRecords :
               (\E i \in 1..Len(written) : written[i].event = d) =>
                   \E i \in 1..Len(written') : written'[i].event = d
    BY <1>1, <1>5, PutPartOnRecord
  <1> QED
    BY <1>2, <1>3, <1>4, <1>6 DEF Torn, Kept, OnRecord

LEMMA LedgerNumbers ==
    ASSUME LedgerInv
    PROVE  /\ Len(lines) \in Nat /\ Len(written) \in Nat /\ MaxEvents \in Nat \ {0}
           /\ faults \in Nat /\ MaxRecords \in Nat /\ MaxFaults \in Nat
  BY DEF LedgerInv, LedgerTypes

LEMMA StampKeeps ==
    ASSUME LedgerInv, NEW w \in Writers, Stamp(w)
    PROVE  LedgerInv' /\ Kept
  <1>1. /\ stage' \in [Writers -> Stages] /\ stage'[w] = "stamped"
        /\ \A v \in Writers : v # w => stage'[v] = stage[v]
    BY StageMoves DEF Stamp, LedgerInv, LedgerTypes, Stages
  <1>2. UNCHANGED <<lines, written, holder, faults>>
    BY DEF Stamp
  <1>3. stamps' \in 1..MaxRecords
    BY LedgerNumbers DEF Stamp, LedgerInv, LedgerTypes
  <1>4. /\ event' \in [Writers -> 0..MaxRecords] /\ event'[w] # 0
        /\ \A v \in Writers : v # w => event'[v] = event[v]
    BY <1>3, LedgerNumbers DEF Stamp, LedgerInv, LedgerTypes
  <1>5. LedgerTypes'
    BY <1>1, <1>2, <1>3, <1>4, FilesUnchanged DEF LedgerInv, LedgerTypes
  <1>6. LockOwner'
    BY <1>1, <1>2, <1>4, FilesUnchanged DEF LedgerInv, LockOwner
  <1> QED
    BY <1>2, <1>5, <1>6, FilesUnchanged DEF LedgerInv

LEMMA AppendLineKeeps ==
    ASSUME LedgerInv, NEW w \in Writers, AppendLine(w)
    PROVE  LedgerInv' /\ Kept
  <1>1. /\ stage' \in [Writers -> Stages] /\ stage'[w] = "appended"
        /\ \A v \in Writers : v # w => stage'[v] = stage[v]
    BY StageMoves DEF AppendLine, LedgerInv, LedgerTypes, Stages
  <1>2. UNCHANGED <<event, stamps, faults>> /\ holder = Nobody /\ holder' = w
    BY DEF AppendLine
  <1>3. event[w] \in 1..MaxRecords
    BY LedgerNumbers DEF AppendLine, LedgerInv, LedgerTypes, LockOwner
  <1>4. /\ lines' \in Seq(Line) /\ written' \in Seq(Line)
        /\ Newest(lines, written)' /\ Enough(lines, written)' /\ Torn' /\ Kept
        /\ OnRecord(event[w])' /\ Len(lines') \in Len(lines) .. Len(lines) + 1
    BY <1>3, LineWritten DEF AppendLine
  <1>5. LedgerTypes'
    BY <1>1, <1>2, <1>4 DEF LedgerInv, LedgerTypes
  <1>6. ASSUME NEW v \in Writers, v # w
        PROVE  stage'[v] \notin {"appended", "trimming"}
    BY <1>1, <1>2, <1>6, AuditAssumption DEF LedgerInv, LockOwner
  <1>7. ASSUME NEW v \in Writers, stage'[v] # "none"
        PROVE  event'[v] \in 1..MaxRecords
    BY <1>1, <1>2, <1>3, <1>7, LedgerNumbers DEF LedgerInv, LedgerTypes, LockOwner
  <1>8. ASSUME NEW v \in Writers, stage'[v] \in {"appended", "trimming", "recorded"}
        PROVE  OnRecord(event[v])'
    <2>1. CASE v = w
      BY <1>4, <2>1
    <2>2. CASE v # w
      <3>1. OnRecord(event[v])
        BY <1>1, <1>8, <2>2 DEF LedgerInv, LockOwner
      <3>2. event[v] \in 1..MaxRecords
        BY <1>2, <1>7, <1>8
      <3> QED
        BY <1>2, <1>4, <3>1, <3>2 DEF Kept, OnRecord
    <2> QED
      BY <2>1, <2>2
  <1>9. LockOwner'
    <2>1. ASSUME NEW v \in Writers
          PROVE  /\ stage'[v] \in {"appended", "trimming"} => holder' = v
                 /\ stage'[v] = "trimming" => Len(lines') > MaxEvents
                 /\ stage'[v] # "none" => event'[v] # 0
                 /\ stage'[v] \in {"appended", "trimming", "recorded"} => OnRecord(event[v])'
      BY <1>1, <1>2, <1>6, <1>7, <1>8, LedgerNumbers
    <2>2. \A v \in Writers : event'[v] = event[v]
      BY <1>2
    <2> QED
      BY <2>1, <2>2 DEF LockOwner, OnRecord
  <1>10. Bound'
    BY <1>2, <1>4, AuditAssumption, LedgerNumbers DEF LedgerInv, Bound
  <1> QED
    BY <1>4, <1>5, <1>9, <1>10 DEF LedgerInv, Bound

LEMMA RecordsStay ==
    ASSUME LedgerInv, Kept, event' = event
    PROVE  \A v \in Writers :
               stage[v] \in {"appended", "trimming", "recorded"} => OnRecord(event[v])'
  <1> SUFFICES ASSUME NEW v \in Writers, stage[v] \in {"appended", "trimming", "recorded"}
               PROVE  OnRecord(event[v])'
    OBVIOUS
  <1>1. OnRecord(event[v]) /\ event[v] \in 1..MaxRecords
    BY LedgerNumbers DEF LedgerInv, LedgerTypes, LockOwner
  <1> QED
    BY <1>1 DEF Kept, OnRecord

LEMMA AppendFailsKeeps ==
    ASSUME LedgerInv, NEW w \in Writers, AppendFails(w)
    PROVE  LedgerInv' /\ Kept
  <1>1. /\ stage' \in [Writers -> Stages] /\ stage'[w] = "raised"
        /\ \A v \in Writers : v # w => stage'[v] = stage[v]
    BY StageMoves DEF AppendFails, LedgerInv, LedgerTypes, Stages
  <1>2. UNCHANGED <<event, stamps>> /\ holder = Nobody /\ holder' = holder
        /\ faults' = faults + 1 /\ stage[w] = "stamped"
    BY DEF AppendFails
  <1>3. event[w] \in 0..MaxRecords
    BY DEF LedgerInv, LedgerTypes
  <1>4. /\ lines' \in Seq(Line) /\ written' \in Seq(Line)
        /\ Newest(lines, written)' /\ Enough(lines, written)' /\ Torn' /\ Kept
        /\ Len(lines') \in Len(lines) .. Len(lines) + 1
    <2>1. CASE UNCHANGED <<lines, written>>
      BY <2>1, FilesUnchanged, LedgerNumbers
    <2>2. CASE lines' = PutPart(lines) /\ written' = PutPart(written)
      BY <2>2, PartWritten
    <2>3. CASE lines' = Put(lines, event[w]) /\ written' = Put(written, event[w])
      BY <1>3, <2>3, LineWritten
    <2> QED
      BY <2>1, <2>2, <2>3 DEF AppendFails
  <1>5. LedgerTypes'
    BY <1>1, <1>2, <1>4, LedgerNumbers DEF LedgerInv, LedgerTypes
  <1>6. \A v \in Writers : stage[v] \notin {"appended", "trimming"}
    BY <1>2, AuditAssumption DEF LedgerInv, LockOwner
  <1>7. \A v \in Writers :
            stage[v] \in {"appended", "trimming", "recorded"} => OnRecord(event[v])'
    BY <1>2, <1>4, RecordsStay
  <1>8. ASSUME NEW v \in Writers
        PROVE  /\ stage'[v] \in {"appended", "trimming"} => holder' = v
               /\ stage'[v] = "trimming" => Len(lines') > MaxEvents
               /\ stage'[v] # "none" => event'[v] # 0
               /\ stage'[v] \in {"appended", "trimming", "recorded"} => OnRecord(event[v])'
    BY <1>1, <1>2, <1>6, <1>7 DEF LedgerInv, LockOwner
  <1>9. LockOwner'
    BY <1>8 DEF LockOwner
  <1>10. Bound'
    BY <1>2, <1>4, LedgerNumbers DEF LedgerInv, Bound
  <1> QED
    BY <1>4, <1>5, <1>9, <1>10 DEF LedgerInv, Bound

LEMMA NothingToTrimKeeps ==
    ASSUME LedgerInv, NEW w \in Writers, NothingToTrim(w)
    PROVE  LedgerInv' /\ Kept
  <1>1. /\ stage' \in [Writers -> Stages] /\ stage'[w] = "recorded"
        /\ \A v \in Writers : v # w => stage'[v] = stage[v]
    BY StageMoves DEF NothingToTrim, LedgerInv, LedgerTypes, Stages
  <1>2. UNCHANGED <<lines, written, event, stamps, faults>> /\ holder' = Nobody
        /\ stage[w] = "appended" /\ Len(lines) <= MaxEvents
    BY DEF NothingToTrim
  <1>3. holder = w
    BY <1>2 DEF LedgerInv, LockOwner
  <1>4. LedgerTypes'
    BY <1>1, <1>2, FilesUnchanged DEF LedgerInv, LedgerTypes
  <1>5. \A v \in Writers :
            stage[v] \in {"appended", "trimming", "recorded"} => OnRecord(event[v])'
    BY <1>2, FilesUnchanged, RecordsStay
  <1>6. ASSUME NEW v \in Writers
        PROVE  /\ stage'[v] \notin {"appended", "trimming"}
               /\ stage'[v] # "none" => event'[v] # 0
               /\ stage'[v] = "recorded" => OnRecord(event[v])'
    BY <1>1, <1>2, <1>3, <1>5 DEF LedgerInv, LockOwner
  <1>7. LockOwner'
    BY <1>6 DEF LockOwner
  <1>8. Bound'
    BY <1>2, LedgerNumbers DEF Bound
  <1> QED
    BY <1>2, <1>4, <1>7, <1>8, FilesUnchanged DEF LedgerInv, Bound

LEMMA RewriteKeeps ==
    ASSUME LedgerInv, NEW w \in Writers, Rewrite(w)
    PROVE  LedgerInv' /\ Kept
  <1>1. /\ stage' \in [Writers -> Stages] /\ stage'[w] = "trimming"
        /\ \A v \in Writers : v # w => stage'[v] = stage[v]
    BY StageMoves DEF Rewrite, LedgerInv, LedgerTypes, Stages
  <1>2. UNCHANGED <<lines, written, holder, event, stamps, faults>>
        /\ stage[w] = "appended" /\ Len(lines) > MaxEvents
    BY DEF Rewrite
  <1>3. LedgerTypes'
    BY <1>1, <1>2, FilesUnchanged DEF LedgerInv, LedgerTypes
  <1>4. \A v \in Writers :
            stage[v] \in {"appended", "trimming", "recorded"} => OnRecord(event[v])'
    BY <1>2, FilesUnchanged, RecordsStay
  <1>5. ASSUME NEW v \in Writers
        PROVE  /\ stage'[v] \in {"appended", "trimming"} => holder' = v
               /\ stage'[v] = "trimming" => Len(lines') > MaxEvents
               /\ stage'[v] # "none" => event'[v] # 0
               /\ stage'[v] \in {"appended", "trimming", "recorded"} => OnRecord(event[v])'
    BY <1>1, <1>2, <1>4 DEF LedgerInv, LockOwner
  <1>6. LockOwner'
    BY <1>5 DEF LockOwner
  <1> QED
    BY <1>2, <1>3, <1>6, FilesUnchanged DEF LedgerInv

\* The lines that are kept are the last MaxEvents of the file.
LEMMA RetainedLines ==
    ASSUME LedgerInv, Len(lines) > MaxEvents
    PROVE  /\ Retained \in Seq(Line) /\ Len(Retained) = MaxEvents
           /\ Newest(Retained, written) /\ Enough(Retained, written)
  <1> DEFINE m == Len(lines) - MaxEvents + 1
             n == Len(lines)
  <1>1. Len(lines) \in Nat /\ Len(written) \in Nat /\ MaxEvents \in Nat \ {0}
        /\ Len(lines) <= Len(written)
    BY LedgerNumbers DEF LedgerInv, Newest
  <1>2. m \in 1 .. Len(lines) + 1 /\ n \in m - 1 .. Len(lines) /\ n - m + 1 = MaxEvents
    BY <1>1
  <1>3. Retained = SubSeq(lines, m, n) /\ lines \in Seq(Line)
    BY DEF Retained, LedgerInv, LedgerTypes
  <1> HIDE DEF m, n
  <1>4. /\ Retained \in Seq(Line) /\ Len(Retained) = n - m + 1
        /\ \A i \in 1 .. n - m + 1 : Retained[i] = lines[m + i - 1]
    BY <1>2, <1>3, Cut
  <1>5. Len(Retained) = MaxEvents
    BY <1>2, <1>4
  <1>6. ASSUME NEW i \in 1 .. MaxEvents
        PROVE  Retained[i] = written[Len(written) - MaxEvents + i]
    <2>1. Retained[i] = lines[m + i - 1]
      BY <1>2, <1>4
    <2>2. /\ m + i - 1 \in 1..Len(lines)
          /\ Len(written) - Len(lines) + (m + i - 1) = Len(written) - MaxEvents + i
      BY <1>1 DEF m
    <2> QED
      BY <2>1, <2>2 DEF LedgerInv, Newest
  <1>7. Newest(Retained, written) /\ Enough(Retained, written)
    BY <1>1, <1>5, <1>6 DEF Newest, Enough
  <1> QED
    BY <1>4, <1>5, <1>7

LEMMA ReplaceKeeps ==
    ASSUME LedgerInv, NEW w \in Writers, Replace(w)
    PROVE  LedgerInv' /\ Kept
  <1>1. /\ stage' \in [Writers -> Stages] /\ stage'[w] = "recorded"
        /\ \A v \in Writers : v # w => stage'[v] = stage[v]
    BY StageMoves DEF Replace, LedgerInv, LedgerTypes, Stages
  <1>2. UNCHANGED <<written, event, stamps, faults>> /\ holder' = Nobody
        /\ stage[w] = "trimming" /\ lines' = Retained
    BY DEF Replace
  <1>3. holder = w /\ Len(lines) > MaxEvents
    BY <1>2 DEF LedgerInv, LockOwner
  <1>4. /\ lines' \in Seq(Line) /\ Len(lines') = MaxEvents
        /\ Newest(lines', written) /\ Enough(lines', written)
    BY <1>2, <1>3, RetainedLines
  <1>5. Newest(lines, written)' /\ Enough(lines, written)'
    BY <1>2, <1>4 DEF Newest, Enough
  <1>6. Torn' /\ Kept
    BY <1>2 DEF LedgerInv, Torn, Kept, OnRecord
  <1>7. LedgerTypes'
    BY <1>1, <1>2, <1>4 DEF LedgerInv, LedgerTypes
  <1>8. \A v \in Writers :
            stage[v] \in {"appended", "trimming", "recorded"} => OnRecord(event[v])'
    BY <1>2, <1>6, RecordsStay
  <1>9. ASSUME NEW v \in Writers
        PROVE  /\ stage'[v] \notin {"appended", "trimming"}
               /\ stage'[v] # "none" => event'[v] # 0
               /\ stage'[v] = "recorded" => OnRecord(event[v])'
    BY <1>1, <1>2, <1>3, <1>8 DEF LedgerInv, LockOwner
  <1>10. LockOwner'
    BY <1>9 DEF LockOwner
  <1>11. Bound'
    BY <1>2, <1>4, LedgerNumbers DEF Bound
  <1> QED
    BY <1>5, <1>6, <1>7, <1>10, <1>11 DEF LedgerInv, Bound

LEMMA TrimFailsKeeps ==
    ASSUME LedgerInv, NEW w \in Writers, TrimFails(w)
    PROVE  LedgerInv' /\ Kept
  <1>1. /\ stage' \in [Writers -> Stages] /\ stage'[w] = "raised"
        /\ \A v \in Writers : v # w => stage'[v] = stage[v]
    BY StageMoves DEF TrimFails, LedgerInv, LedgerTypes, Stages
  <1>2. UNCHANGED <<lines, written, event, stamps>> /\ holder' = Nobody
        /\ stage[w] \in {"appended", "trimming"} /\ faults' = faults + 1
    BY DEF TrimFails
  <1>3. holder = w
    BY <1>2 DEF LedgerInv, LockOwner
  <1>4. LedgerTypes'
    BY <1>1, <1>2, FilesUnchanged, LedgerNumbers DEF LedgerInv, LedgerTypes
  <1>5. \A v \in Writers :
            stage[v] \in {"appended", "trimming", "recorded"} => OnRecord(event[v])'
    BY <1>2, FilesUnchanged, RecordsStay
  <1>6. ASSUME NEW v \in Writers
        PROVE  /\ stage'[v] \notin {"appended", "trimming"}
               /\ stage'[v] # "none" => event'[v] # 0
               /\ stage'[v] = "recorded" => OnRecord(event[v])'
    BY <1>1, <1>2, <1>3, <1>5 DEF LedgerInv, LockOwner
  <1>7. LockOwner'
    BY <1>6 DEF LockOwner
  <1>8. Bound'
    BY <1>2, <1>3, LedgerNumbers, AuditAssumption DEF LedgerInv, Bound
  <1> QED
    BY <1>2, <1>4, <1>7, <1>8, FilesUnchanged DEF LedgerInv, Bound

LEMMA ReturnKeeps ==
    ASSUME LedgerInv, NEW w \in Writers, Return(w)
    PROVE  LedgerInv' /\ Kept
  <1>1. /\ stage' \in [Writers -> Stages] /\ stage'[w] = "none"
        /\ \A v \in Writers : v # w => stage'[v] = stage[v]
    BY StageMoves DEF Return, LedgerInv, LedgerTypes, Stages
  <1>2. UNCHANGED <<lines, written, holder, stamps, faults>>
    BY DEF Return
  <1>3. /\ event' \in [Writers -> 0..MaxRecords]
        /\ \A v \in Writers : v # w => event'[v] = event[v]
    BY LedgerNumbers DEF Return, LedgerInv, LedgerTypes
  <1>4. LedgerTypes'
    BY <1>1, <1>2, <1>3, FilesUnchanged DEF LedgerInv, LedgerTypes
  <1>5. LockOwner'
    BY <1>1, <1>2, <1>3, FilesUnchanged DEF LedgerInv, LockOwner
  <1> QED
    BY <1>2, <1>4, <1>5, FilesUnchanged DEF LedgerInv

LEMMA CrashKeeps ==
    ASSUME LedgerInv, AuditCrash
    PROVE  LedgerInv' /\ Kept
  <1>1. /\ stage' \in [Writers -> Stages] /\ event' \in [Writers -> 0..MaxRecords]
        /\ \A v \in Writers : stage'[v] = "none"
    BY LedgerNumbers DEF AuditCrash, Stages
  <1>2. UNCHANGED stamps /\ holder' = Nobody /\ faults' = faults + 1
    BY DEF AuditCrash
  <1>3. /\ lines' \in Seq(Line) /\ written' \in Seq(Line)
        /\ Newest(lines, written)' /\ Enough(lines, written)' /\ Torn' /\ Kept
        /\ Len(lines') <= Len(lines) + (IF holder = Nobody THEN 1 ELSE 0)
        /\ Len(lines') \in Nat
    <2>1. CASE UNCHANGED <<lines, written>>
      BY <2>1, FilesUnchanged, LedgerNumbers
    <2>2. CASE holder = Nobody /\ lines' = PutPart(lines) /\ written' = PutPart(written)
      BY <2>2, PartWritten, LedgerNumbers
    <2> QED
      BY <2>1, <2>2 DEF AuditCrash
  <1>4. LedgerTypes'
    BY <1>1, <1>2, <1>3, LedgerNumbers DEF LedgerInv, LedgerTypes
  <1>5. LockOwner'
    BY <1>1 DEF LockOwner
  <1>6. Bound'
    BY <1>2, <1>3, LedgerNumbers DEF LedgerInv, Bound
  <1> QED
    BY <1>3, <1>4, <1>5, <1>6 DEF LedgerInv, Bound

LEMMA LedgerStepKeeps ==
    ASSUME LedgerInv, LedgerMove
    PROVE  LedgerInv' /\ Kept
  <1>1. ASSUME NEW w \in Writers, Recording(w) PROVE LedgerInv' /\ Kept
    BY <1>1, AppendLineKeeps, AppendFailsKeeps, NothingToTrimKeeps, RewriteKeeps,
       ReplaceKeeps, TrimFailsKeeps DEF Recording
  <1> QED
    BY <1>1, StampKeeps, ReturnKeeps, CrashKeeps DEF LedgerMove

----------------------------------------------------------------------------
\* The skill manager

Importing == {"quarantine", "scan", "disable", "verify", "install", "move", "lock"}

SkillTypes ==
    /\ source \in Bundle \cup {Empty} /\ files \in Bundle \cup {Empty}
    /\ pc \in {"idle", "audit"} \cup Importing
    /\ quarantine \in [Names -> Bundle \cup {Empty}]
    /\ active \in [Names -> Bundle \cup {Empty}]
    /\ managed \subseteq Names /\ disabled \subseteq Names /\ enabled \subseteq Names
    /\ answered \subseteq 1..MaxRecords

\* What each step of an import may count on: the quarantined bundle is the one
\* that was collected, then the one that was scanned, and its name is disabled.
ImportProgress ==
    /\ pc \in Importing => files \in Bundle
    /\ pc \in {"scan", "disable", "verify", "install", "move"} => quarantine[files.name] = files
    /\ pc \in {"disable", "verify", "install", "move"} => files.body \in Allowed
    /\ pc \in {"install", "move"} => files.name \in disabled

SkillsInv ==
    /\ SkillTypes /\ ImportProgress
    /\ VisibleOnlyEnabled /\ InstalledAsScanned

AllOnRecord == \A e \in answered : OnRecord(e)

LEMMA SkillsInitially == Init => LedgerInv /\ SkillsInv /\ AllOnRecord
  <1> SUFFICES ASSUME Init PROVE LedgerInv /\ SkillsInv /\ AllOnRecord
    OBVIOUS
  <1> USE DEF Init, AuditInit
  <1>1. LedgerTypes
    BY DEF LedgerTypes, Stages
  <1>2. Newest(lines, written) /\ Enough(lines, written) /\ Torn /\ LockOwner
    BY DEF Newest, Enough, Torn, LockOwner
  <1>3. Len(lines) <= MaxEvents + faults + (IF holder = Nobody THEN 0 ELSE 1)
    OBVIOUS
  <1>4. SkillTypes
    BY DEF SkillTypes
  <1>5. ImportProgress
    BY DEF ImportProgress, Importing
  <1>6. VisibleOnlyEnabled /\ InstalledAsScanned
    BY DEF VisibleOnlyEnabled, Visible, InstalledAsScanned, Exists
  <1> QED
    BY <1>1, <1>2, <1>3, <1>4, <1>5, <1>6 DEF LedgerInv, SkillsInv, AllOnRecord

\* Every step leaves the ledger alone or is one of the ledger's.
LEMMA SkillsLedger ==
    ASSUME LedgerInv, [Next]_vars
    PROVE  LedgerInv' /\ Kept
  <1>1. ASSUME UNCHANGED auditVars PROVE LedgerInv' /\ Kept
    BY <1>1 DEF auditVars, LedgerInv, LedgerTypes, Newest, Enough, Torn, LockOwner, OnRecord, Kept
  <1>2. CASE StepFails
    <2>1. UNCHANGED <<lines, written, holder, stage, event, stamps>> /\ faults' = faults + 1
      BY <1>2 DEF StepFails
    <2>2. LedgerTypes' /\ LockOwner'
      BY <2>1, LedgerNumbers, FilesUnchanged DEF LedgerInv, LedgerTypes, LockOwner
    <2>3. Bound'
      BY <2>1, LedgerNumbers DEF LedgerInv, Bound
    <2> QED
      BY <2>1, <2>2, <2>3, FilesUnchanged DEF LedgerInv, Bound
  <1>3. CASE RecordEvent \/ Answer \/ OtherRecords \/ LedgerStep \/ Crash
    <2>1. LedgerMove
      BY <1>3 DEF RecordEvent, Answer, OtherRecords, LedgerStep, Crash, LedgerMove
    <2> QED
      BY <2>1, LedgerStepKeeps
  <1>4. CASE \/ Collect \/ Quarantine \/ Scan \/ PersistDisabled \/ VerifyDisabled
             \/ LookForTarget \/ Move \/ MoveRefused \/ RecordInstall
             \/ \E n \in Names, on \in BOOLEAN : SetEnabled(n, on)
             \/ List \/ (\E n \in Names : Inspect(n)) \/ EditSource
             \/ (\E n \in Names : Uninstall(n) \/ Install(n))
    <2>1. UNCHANGED auditVars
      BY <1>4 DEF Collect, Quarantine, Scan, PersistDisabled, VerifyDisabled,
                  LookForTarget, Move, MoveRefused, RecordInstall, SetEnabled, List, Inspect,
                  EditSource, Uninstall, Install
    <2> QED
      BY <1>1, <2>1
  <1>5. CASE UNCHANGED vars
    BY <1>1, <1>5 DEF vars
  <1> QED
    BY <1>2, <1>3, <1>4, <1>5 DEF Next

\* Steps that leave the directories and the names alone, outside an import.
LEMMA NothingMoves ==
    ASSUME SkillsInv, SkillTypes',
           UNCHANGED <<active, disabled, enabled>>,
           UNCHANGED <<pc, files, quarantine>> \/ pc' \in {"idle", "audit"}
    PROVE  SkillsInv'
  <1>1. ImportProgress'
    BY DEF SkillsInv, ImportProgress, Importing
  <1>2. VisibleOnlyEnabled' /\ InstalledAsScanned'
    BY DEF SkillsInv, VisibleOnlyEnabled, Visible, InstalledAsScanned, Exists
  <1> QED
    BY <1>1, <1>2 DEF SkillsInv

LEMMA CollectKeeps == SkillsInv /\ Collect => SkillsInv'
  <1> SUFFICES ASSUME SkillsInv, Collect PROVE SkillsInv'
    OBVIOUS
  <1>1. /\ UNCHANGED <<source, quarantine, active, managed, disabled, enabled, answered>>
        /\ files' = source /\ source \in Bundle \cup {Empty}
        /\ pc' = IF source = Empty THEN "audit" ELSE "quarantine"
    BY DEF Collect, End, Go, diskVars, SkillsInv, SkillTypes
  <1>2. SkillTypes'
    BY <1>1 DEF SkillsInv, SkillTypes, Importing
  <1>3. ImportProgress'
    BY <1>1 DEF ImportProgress, Importing
  <1>4. VisibleOnlyEnabled' /\ InstalledAsScanned'
    BY <1>1 DEF SkillsInv, VisibleOnlyEnabled, Visible, InstalledAsScanned, Exists
  <1> QED
    BY <1>2, <1>3, <1>4 DEF SkillsInv

LEMMA QuarantineKeeps == SkillsInv /\ Quarantine => SkillsInv'
  <1> SUFFICES ASSUME SkillsInv, Quarantine PROVE SkillsInv'
    OBVIOUS
  <1>1. /\ UNCHANGED <<source, files, active, managed, disabled, enabled, answered>>
        /\ pc' = "scan" /\ quarantine' = [quarantine EXCEPT ![files.name] = files]
    BY DEF Quarantine, Go
  <1>2. files \in Bundle /\ files.name \in Names
    BY DEF Quarantine, SkillsInv, ImportProgress, Importing, Bundle
  <1>3. quarantine \in [Names -> Bundle \cup {Empty}]
    BY DEF SkillsInv, SkillTypes
  <1>4. quarantine' \in [Names -> Bundle \cup {Empty}] /\ quarantine'[files.name] = files
    BY <1>1, <1>2, <1>3
  <1>5. SkillTypes'
    BY <1>1, <1>4 DEF SkillsInv, SkillTypes, Importing
  <1>6. ImportProgress'
    BY <1>1, <1>2, <1>4 DEF ImportProgress
  <1>7. VisibleOnlyEnabled' /\ InstalledAsScanned'
    BY <1>1 DEF SkillsInv, VisibleOnlyEnabled, Visible, InstalledAsScanned, Exists
  <1> QED
    BY <1>5, <1>6, <1>7 DEF SkillsInv

LEMMA ScanKeeps == SkillsInv /\ Scan => SkillsInv'
  <1> SUFFICES ASSUME SkillsInv, Scan PROVE SkillsInv'
    OBVIOUS
  <1>1. /\ UNCHANGED <<source, files, quarantine, active, managed, disabled, enabled, answered>>
        /\ pc = "scan"
        /\ pc' = IF quarantine[files.name].body \in Allowed THEN "disable" ELSE "audit"
    BY DEF Scan, End, Go, diskVars
  <1>2. SkillTypes'
    BY <1>1 DEF SkillsInv, SkillTypes, Importing
  <1>3. ImportProgress'
    BY <1>1 DEF SkillsInv, ImportProgress, Importing
  <1>4. VisibleOnlyEnabled' /\ InstalledAsScanned'
    BY <1>1 DEF SkillsInv, VisibleOnlyEnabled, Visible, InstalledAsScanned, Exists
  <1> QED
    BY <1>2, <1>3, <1>4 DEF SkillsInv

LEMMA PersistKeeps == SkillsInv /\ PersistDisabled => SkillsInv'
  <1> SUFFICES ASSUME SkillsInv, PersistDisabled PROVE SkillsInv'
    OBVIOUS
  <1>1. /\ UNCHANGED <<source, files, quarantine, active, managed, enabled, answered>>
        /\ pc = "disable" /\ pc' = "verify" /\ disabled' = disabled \cup {files.name}
    BY DEF PersistDisabled, Go
  <1>2. files.name \in Names
    BY <1>1 DEF SkillsInv, ImportProgress, Importing, Bundle
  <1>3. SkillTypes'
    BY <1>1, <1>2 DEF SkillsInv, SkillTypes, Importing
  <1>4. ImportProgress'
    BY <1>1 DEF SkillsInv, ImportProgress, Importing
  <1>5. VisibleOnlyEnabled' /\ InstalledAsScanned'
    BY <1>1 DEF SkillsInv, VisibleOnlyEnabled, Visible, InstalledAsScanned, Exists
  <1> QED
    BY <1>3, <1>4, <1>5 DEF SkillsInv

LEMMA VerifyKeeps == SkillsInv /\ VerifyDisabled => SkillsInv'
  <1> SUFFICES ASSUME SkillsInv, VerifyDisabled PROVE SkillsInv'
    OBVIOUS
  <1>1. /\ UNCHANGED <<source, files, quarantine, active, managed, disabled, enabled, answered>>
        /\ pc = "verify" /\ pc' = IF files.name \in disabled THEN "install" ELSE "audit"
    BY DEF VerifyDisabled, End, Go, diskVars
  <1>2. SkillTypes'
    BY <1>1 DEF SkillsInv, SkillTypes, Importing
  <1>3. ImportProgress'
    BY <1>1 DEF SkillsInv, ImportProgress, Importing
  <1>4. VisibleOnlyEnabled' /\ InstalledAsScanned'
    BY <1>1 DEF SkillsInv, VisibleOnlyEnabled, Visible, InstalledAsScanned, Exists
  <1> QED
    BY <1>2, <1>3, <1>4 DEF SkillsInv

LEMMA LookKeeps == SkillsInv /\ LookForTarget => SkillsInv'
  <1> SUFFICES ASSUME SkillsInv, LookForTarget PROVE SkillsInv'
    OBVIOUS
  <1>1. /\ UNCHANGED <<source, files, quarantine, active, managed, disabled, enabled, answered>>
        /\ pc = "install" /\ pc' \in {"move", "audit"}
    BY DEF LookForTarget, End, Go, diskVars
  <1>2. SkillTypes'
    BY <1>1 DEF SkillsInv, SkillTypes, Importing
  <1>3. ImportProgress'
    BY <1>1 DEF SkillsInv, ImportProgress, Importing
  <1>4. VisibleOnlyEnabled' /\ InstalledAsScanned'
    BY <1>1 DEF SkillsInv, VisibleOnlyEnabled, Visible, InstalledAsScanned, Exists
  <1> QED
    BY <1>2, <1>3, <1>4 DEF SkillsInv

LEMMA MoveKeeps == SkillsInv /\ Move => SkillsInv'
  <1> SUFFICES ASSUME SkillsInv, Move PROVE SkillsInv'
    OBVIOUS
  <1> DEFINE n == files.name
  <1>1. /\ UNCHANGED <<source, files, managed, disabled, answered>>
        /\ pc = "move" /\ pc' = "lock"
        /\ active' = [active EXCEPT ![n] = quarantine[n]]
        /\ quarantine' = [quarantine EXCEPT ![n] = Empty]
        /\ enabled' = enabled \ {n}
    BY DEF Move, Go
  <1>2. files \in Bundle /\ n \in Names /\ quarantine[n] = files /\ files.body \in Allowed
        /\ n \in disabled
    BY <1>1 DEF SkillsInv, ImportProgress, Importing, Bundle
  <1>3. quarantine \in [Names -> Bundle \cup {Empty}] /\ active \in [Names -> Bundle \cup {Empty}]
    BY DEF SkillsInv, SkillTypes
  <1> HIDE DEF n
  <1>4. quarantine' \in [Names -> Bundle \cup {Empty}] /\ active' \in [Names -> Bundle \cup {Empty}]
        /\ active'[n] = files /\ \A m \in Names : m # n => active'[m] = active[m]
    BY <1>1, <1>2, <1>3
  <1>5. SkillTypes'
    BY <1>1, <1>4 DEF SkillsInv, SkillTypes, Importing
  <1>6. ImportProgress'
    BY <1>1, <1>2 DEF ImportProgress
  <1>7. VisibleOnlyEnabled'
    BY <1>1, <1>2, <1>4 DEF SkillsInv, VisibleOnlyEnabled, Visible, Exists
  <1>8. InstalledAsScanned'
    <2>1. ASSUME NEW m \in Names, active'[m] # Empty
          PROVE  active'[m].name = m /\ active'[m].body \in Allowed
      BY <1>2, <1>4, <2>1 DEF SkillsInv, InstalledAsScanned, Exists, n
    <2> QED
      BY <2>1 DEF InstalledAsScanned, Exists
  <1> QED
    BY <1>5, <1>6, <1>7, <1>8 DEF SkillsInv

LEMMA RecordInstallKeeps == SkillsInv /\ RecordInstall => SkillsInv'
  <1> SUFFICES ASSUME SkillsInv, RecordInstall PROVE SkillsInv'
    OBVIOUS
  <1>1. /\ UNCHANGED <<source, files, quarantine, active, disabled, enabled, answered>>
        /\ pc = "lock" /\ pc' = "audit" /\ managed' = managed \cup {files.name}
    BY DEF RecordInstall, End
  <1>2. files.name \in Names
    BY <1>1 DEF SkillsInv, ImportProgress, Importing, Bundle
  <1>3. SkillTypes'
    BY <1>1, <1>2 DEF SkillsInv, SkillTypes
  <1> QED
    BY <1>1, <1>3, NothingMoves

LEMMA SetEnabledKeeps ==
    ASSUME SkillsInv, NEW n \in Names, NEW on \in BOOLEAN, SetEnabled(n, on)
    PROVE  SkillsInv'
  <1>1. /\ UNCHANGED <<source, files, quarantine, active, managed, answered>>
        /\ pc' = "audit"
        /\ \/ on /\ disabled' = disabled \ {n} /\ enabled' = enabled \cup {n}
           \/ ~on /\ disabled' = disabled \cup {n} /\ enabled' = enabled \ {n}
           \/ UNCHANGED <<disabled, enabled>>
    BY DEF SetEnabled, End
  <1>2. SkillTypes'
    BY <1>1 DEF SkillsInv, SkillTypes
  <1>3. ImportProgress'
    BY <1>1 DEF ImportProgress, Importing
  <1>4. VisibleOnlyEnabled' /\ InstalledAsScanned'
    BY <1>1 DEF SkillsInv, VisibleOnlyEnabled, Visible, InstalledAsScanned, Exists
  <1> QED
    BY <1>2, <1>3, <1>4 DEF SkillsInv

LEMMA UninstallKeeps ==
    ASSUME SkillsInv, NEW n \in Names, Uninstall(n)
    PROVE  SkillsInv'
  <1>1. /\ UNCHANGED <<source, pc, files, quarantine, disabled, enabled, answered>>
        /\ managed' = managed \ {n} /\ active' = [active EXCEPT ![n] = Empty]
    BY DEF Uninstall
  <1>2. active \in [Names -> Bundle \cup {Empty}]
    BY DEF SkillsInv, SkillTypes
  <1>3. active' \in [Names -> Bundle \cup {Empty}] /\ active'[n] = Empty
        /\ \A m \in Names : m # n => active'[m] = active[m]
    BY <1>1, <1>2
  <1>4. SkillTypes'
    BY <1>1, <1>3 DEF SkillsInv, SkillTypes
  <1>5. ImportProgress'
    BY <1>1 DEF SkillsInv, ImportProgress
  <1>6. VisibleOnlyEnabled'
    BY <1>1, <1>3 DEF SkillsInv, VisibleOnlyEnabled, Visible, Exists
  <1>7. InstalledAsScanned'
    BY <1>3 DEF SkillsInv, InstalledAsScanned, Exists
  <1> QED
    BY <1>4, <1>5, <1>6, <1>7 DEF SkillsInv

LEMMA InstallKeeps ==
    ASSUME SkillsInv, NEW n \in Names, Install(n)
    PROVE  SkillsInv'
  <1>1. PICK b \in Allowed : active' = [active EXCEPT ![n] = [name |-> n, body |-> b]]
    BY DEF Install
  <1>2. /\ UNCHANGED <<source, pc, files, quarantine, disabled, answered>>
        /\ managed' = managed \cup {n} /\ enabled' = enabled \cup {n}
    BY DEF Install
  <1>3. active \in [Names -> Bundle \cup {Empty}] /\ [name |-> n, body |-> b] \in Bundle
    BY DEF SkillsInv, SkillTypes, Bundle
  <1>4. active' \in [Names -> Bundle \cup {Empty}] /\ active'[n] = [name |-> n, body |-> b]
        /\ \A m \in Names : m # n => active'[m] = active[m]
    BY <1>1, <1>3
  <1>5. SkillTypes'
    BY <1>2, <1>4 DEF SkillsInv, SkillTypes
  <1>6. ImportProgress'
    BY <1>2 DEF SkillsInv, ImportProgress
  <1>7. VisibleOnlyEnabled'
    BY <1>2, <1>4 DEF SkillsInv, VisibleOnlyEnabled, Visible, Exists
  <1>8. InstalledAsScanned'
    BY <1>4 DEF SkillsInv, InstalledAsScanned, Exists
  <1> QED
    BY <1>5, <1>6, <1>7, <1>8 DEF SkillsInv

LEMMA SkillsStep == LedgerInv /\ SkillsInv /\ [Next]_vars => SkillsInv'
  <1> SUFFICES ASSUME LedgerInv, SkillsInv, [Next]_vars PROVE SkillsInv'
    OBVIOUS
  <1>1. CASE MoveRefused \/ StepFails \/ List \/ \E n \in Names : Inspect(n)
    <2>1. /\ UNCHANGED <<source, quarantine, active, managed, disabled, enabled, answered>>
          /\ UNCHANGED files /\ pc' = "audit"
      BY <1>1 DEF MoveRefused, StepFails, List, Inspect, End, diskVars
    <2>2. SkillTypes'
      BY <2>1 DEF SkillsInv, SkillTypes
    <2> QED
      BY <2>1, <2>2, NothingMoves
  <1>2. CASE Answer
    <2>1. /\ UNCHANGED <<source, quarantine, active, managed, disabled, enabled>>
          /\ files' = Empty /\ pc' = "idle"
          /\ answered' = answered \/ (stage[Manager] # "none" /\ answered' = answered \cup {event[Manager]})
      BY <1>2 DEF Answer, diskVars
    <2>2. stage[Manager] # "none" => event[Manager] \in 1..MaxRecords
      BY LedgerNumbers DEF LedgerInv, LedgerTypes, LockOwner
    <2>3. SkillTypes'
      BY <2>1, <2>2 DEF SkillsInv, SkillTypes
    <2> QED
      BY <2>1, <2>3, NothingMoves
  <1>3. CASE RecordEvent \/ OtherRecords \/ LedgerStep \/ UNCHANGED vars
    <2>1. UNCHANGED <<source, pc, files, quarantine, active, managed, disabled, enabled, answered>>
      BY <1>3 DEF RecordEvent, OtherRecords, LedgerStep, vars, diskVars
    <2>2. SkillTypes'
      BY <2>1 DEF SkillsInv, SkillTypes
    <2> QED
      BY <2>1, <2>2, NothingMoves
  <1>4. CASE Crash
    <2>1. /\ UNCHANGED <<source, quarantine, active, managed, disabled, enabled, answered>>
          /\ files' = Empty /\ pc' = "idle"
      BY <1>4 DEF Crash, diskVars
    <2>2. SkillTypes'
      BY <2>1 DEF SkillsInv, SkillTypes
    <2> QED
      BY <2>1, <2>2, NothingMoves
  <1>5. CASE EditSource
    <2>1. /\ UNCHANGED <<pc, files, quarantine, active, managed, disabled, enabled, answered>>
          /\ source' \in Bundle \cup {Empty}
      BY <1>5 DEF EditSource, diskVars
    <2>2. SkillTypes'
      BY <2>1 DEF SkillsInv, SkillTypes
    <2> QED
      BY <2>1, <2>2, NothingMoves
  <1> QED
    BY <1>1, <1>2, <1>3, <1>4, <1>5, CollectKeeps, QuarantineKeeps, ScanKeeps, PersistKeeps,
       VerifyKeeps, LookKeeps, MoveKeeps, RecordInstallKeeps, SetEnabledKeeps, UninstallKeeps,
       InstallKeeps
    DEF Next

\* Every answered request has its event among the lines that were written.
LEMMA AnsweredStep ==
    LedgerInv /\ SkillsInv /\ AllOnRecord /\ [Next]_vars => AllOnRecord'
  <1> SUFFICES ASSUME LedgerInv, SkillsInv, AllOnRecord, [Next]_vars,
                      NEW e \in answered'
               PROVE  OnRecord(e)'
    BY DEF AllOnRecord, OnRecord
  <1>1. Kept
    BY SkillsLedger
  <1>2. answered' = answered \/ (Answer /\ stage[Manager] = "recorded"
                                 /\ answered' = answered \cup {event[Manager]})
    BY DEF Next, vars, diskVars, Collect, Quarantine, Scan, PersistDisabled, VerifyDisabled,
           LookForTarget, Move, MoveRefused, RecordInstall, StepFails, SetEnabled, List,
           Inspect, RecordEvent, Answer, OtherRecords, LedgerStep, EditSource, Uninstall,
           Install, Crash
  <1>3. CASE e \in answered
    BY <1>1, <1>3 DEF AllOnRecord, Kept, SkillsInv, SkillTypes
  <1>4. CASE stage[Manager] = "recorded" /\ e = event[Manager]
    <2>1. OnRecord(e) /\ e \in 1..MaxRecords
      BY <1>4, LedgerNumbers DEF LedgerInv, LedgerTypes, LockOwner
    <2> QED
      BY <1>1, <2>1 DEF Kept
  <1> QED
    BY <1>2, <1>3, <1>4

----------------------------------------------------------------------------
\* Theorems

\* The inductive invariant of the ledger and of the skill manager above it.
THEOREM SkillsInvariance == Spec => [](LedgerInv /\ SkillsInv /\ AllOnRecord)
  <1> QED
    BY SkillsInitially, SkillsLedger, SkillsStep, AnsweredStep, PTL DEF Spec

\* The ledger is the newest part of what was written: no failed, interrupted or
\* concurrent call of AuditLedger.record loses a line the bound keeps.
THEOREM LedgerIsNewest == Spec => []LedgerKeepsNewest
  <1>1. ASSUME LedgerInv PROVE LedgerKeepsNewest
    <2>1. /\ lines \in Seq(Line) /\ written \in Seq(Line) /\ Newest(lines, written)
          /\ Enough(lines, written)
          /\ Len(lines) <= MaxEvents + faults + (IF holder = Nobody THEN 0 ELSE 1)
      BY <1>1 DEF LedgerInv, LedgerTypes
    <2>2. Len(lines) \in Nat /\ Len(written) \in Nat /\ MaxEvents \in Nat
      BY <2>1
    <2> DEFINE k == Len(lines)
               f == Reverse(lines)
               a == Reverse(written)
    <2>3. /\ Len(f) = k /\ \A i \in 1..k : f[i] = lines[k - i + 1]
          /\ Len(a) = Len(written)
          /\ \A i \in 1..Len(written) : a[i] = written[Len(written) - i + 1]
          /\ f \in Seq(Line) /\ a \in Seq(Line)
      BY <2>1, <2>2 DEF Reverse
    <2>4. k \in Nat /\ k <= Len(written)
      BY <2>1, <2>2 DEF Newest
    <2> HIDE DEF f, a
    <2>5. ASSUME NEW i \in 1..k PROVE f[i] = a[i]
      <3>1. k - i + 1 \in 1..k /\ i \in 1..Len(written)
            /\ Len(written) - k + (k - i + 1) = Len(written) - i + 1
        BY <2>2, <2>4
      <3>2. lines[k - i + 1] = written[Len(written) - k + (k - i + 1)]
        BY <2>1, <3>1 DEF Newest
      <3> QED
        BY <2>3, <3>1, <3>2
    <2>6. SubSeq(f, 1, k) = SubSeq(a, 1, k)
      BY <2>3, <2>4, <2>5
    <2>7. IsSuffix(lines, written)
      BY <2>2, <2>3, <2>4, <2>6 DEF IsSuffix, IsPrefix, f, a
    <2> QED
      BY <2>1, <2>2, <2>7 DEF LedgerKeepsNewest, Enough
  <1> QED
    BY <1>1, SkillsInvariance, PTL

\* What was answered is on the ledger until the bound pushes it out.
THEOREM AnswersAreOnRecord == Spec => []AnsweredOnLedger
  <1>1. ASSUME LedgerInv, AllOnRecord PROVE AnsweredOnLedger
    <2> SUFFICES ASSUME NEW e \in answered
                 PROVE  \/ \E i \in DOMAIN lines : lines[i].event = e
                        \/ \E i \in DOMAIN written :
                               written[i].event = e /\ Len(written) - i >= MaxEvents
      BY DEF AnsweredOnLedger
    <2>1. /\ Len(lines) \in Nat /\ Len(written) \in Nat /\ MaxEvents \in Nat
          /\ Len(lines) <= Len(written) /\ Enough(lines, written)
          /\ DOMAIN lines = 1..Len(lines) /\ DOMAIN written = 1..Len(written)
      BY <1>1, LedgerNumbers DEF LedgerInv, LedgerTypes, Newest
    <2>2. PICK i \in 1..Len(written) : written[i].event = e
      BY <1>1 DEF AllOnRecord, OnRecord
    <2>3. CASE Len(written) - i >= MaxEvents
      BY <2>1, <2>2, <2>3
    <2>4. CASE ~(Len(written) - i >= MaxEvents)
      <3> DEFINE j == i - (Len(written) - Len(lines))
      <3>1. j \in 1..Len(lines) /\ Len(written) - Len(lines) + j = i
        BY <2>1, <2>4 DEF Enough
      <3>2. lines[j] = written[i]
        BY <1>1, <3>1 DEF LedgerInv, Newest
      <3> QED
        BY <2>1, <2>2, <3>1, <3>2
    <2> QED
      BY <2>3, <2>4
  <1> QED
    BY <1>1, SkillsInvariance, PTL

\* Nothing an import installs is seen before a request enabled it.
THEOREM ImportsAreHidden == Spec => []VisibleOnlyEnabled
  <1>1. SkillsInv => VisibleOnlyEnabled
    BY DEF SkillsInv
  <1> QED
    BY <1>1, SkillsInvariance, PTL

\* What is installed is what the scan accepted.
THEOREM ImportsAreScanned == Spec => []InstalledAsScanned
  <1>1. SkillsInv => InstalledAsScanned
    BY DEF SkillsInv
  <1> QED
    BY <1>1, SkillsInvariance, PTL

=============================================================================
