----------------------------- MODULE DdminProofs ------------------------------
(***************************************************************************)
(* What ddmin returns, for arguments of every length and every predicate.  *)
(*                                                                         *)
(* 1-minimality is not inductive.  What the scan knows in the middle is    *)
(* that the parts before `part' were refused, and only when a part is a    *)
(* single item (granularity >= Length) is that a fact about items; the     *)
(* offset `start' must then be equal to `part', which needs the closed     *)
(* form of the running sum of widths.  When such a scan ends every single  *)
(* deletion has been refused, so the linear pass refuses them all again;   *)
(* only with one item left does it learn anything.                         *)
(***************************************************************************)
EXTENDS Ddmin, SequenceTheorems, TLAPS

-------------------------------------------------------------------------------
(* Facts about the operators of Deletion, for sequences of every length.     *)

\* No part is empty: the test `if width' of _partition_ranges never fails.
LEMMA WidthPositive ==
    ASSUME NEW length \in Nat, NEW parts \in 1..length, NEW i \in Nat
    PROVE  Width(length, parts, i) \in Nat \ {0}
<1>1. length \div parts \in Nat /\ length \div parts >= 1
  BY SMT
<1>2. QED
  BY <1>1, SMT DEF Width

LEMMA DivisionType ==
    ASSUME NEW length \in Nat, NEW parts \in 1..length
    PROVE  length \div parts \in Nat /\ length % parts \in Nat
BY SMT

\* As many parts as items: every part is a single item.
LEMMA WidthOfItems ==
    ASSUME NEW length \in Nat \ {0}, NEW i \in Nat
    PROVE  /\ length \div length = 1
           /\ length % length = 0
           /\ Width(length, length, i) = 1
<1>1. length \div length = 1 /\ length % length = 0
  BY SMT
<1>2. QED
  BY <1>1, SMT DEF Width

\* Deleting the items at start+1 .. end: what is left, and where it was.
LEMMA WithoutProperties ==
    ASSUME NEW S, NEW seq \in Seq(S), NEW s \in Nat, NEW e \in Nat,
           s <= Len(seq), s <= e
    PROVE  /\ Without(seq, s, e) \in Seq(S)
           /\ Len(Without(seq, s, e)) = s + (IF e <= Len(seq) THEN Len(seq) - e ELSE 0)
           /\ \A i \in 1..Len(Without(seq, s, e)) :
                Without(seq, s, e)[i] = IF i <= s THEN seq[i] ELSE seq[i - s + e]
<1> DEFINE left == SubSeq(seq, 1, s)
           right == SubSeq(seq, e + 1, Len(seq))
<1>1. /\ left \in Seq(S)
      /\ Len(left) = s
      /\ \A i \in 1..s : left[i] = seq[i]
  BY SubSeqProperties, LenProperties, ElementOfSeq
<1>2. /\ right \in Seq(S)
      /\ Len(right) = IF e <= Len(seq) THEN Len(seq) - e ELSE 0
      /\ \A i \in 1..(Len(seq) - e) : right[i] = seq[i + e]
  BY SubSeqProperties, LenProperties, ElementOfSeq
<1>3. Len(seq) \in Nat
  BY LenProperties
<1>4. Without(seq, s, e) = left \o right
  BY DEF Without
<1> HIDE DEF left, right
<1>5. /\ left \o right \in Seq(S)
      /\ Len(left \o right) = Len(left) + Len(right)
      /\ \A i \in 1..Len(left) + Len(right) :
           (left \o right)[i] = IF i <= Len(left) THEN left[i] ELSE right[i - Len(left)]
  BY <1>1, <1>2, ConcatProperties
<1>6. ASSUME NEW i \in 1..Len(left) + Len(right)
      PROVE  (left \o right)[i] = IF i <= s THEN seq[i] ELSE seq[i - s + e]
  <2>1. CASE i <= s
    BY <1>1, <1>5, <2>1
  <2>2. CASE i > s
    <3>1. i - s \in 1..(Len(seq) - e)
      BY <1>1, <1>2, <1>3, <2>2
    <3>2. QED
      BY SMTT(60), <1>1, <1>2, <1>5, <2>2, <3>1
  <2>3. QED
    BY <1>1, <1>2, <1>3, <2>1, <2>2
<1>7. QED
  BY <1>1, <1>2, <1>5, <1>4, <1>6

\* In a sequence without repetitions, deleting a part deletes its items and no
\* others.
LEMMA WithoutRange ==
    ASSUME NEW S, NEW seq \in Seq(S), NEW s \in Nat, NEW e \in Nat,
           s < e, s < Len(seq),
           \A i, j \in 1..Len(seq) : seq[i] = seq[j] => i = j
    PROVE  /\ Range(Without(seq, s, e)) \subseteq Range(seq)
           /\ seq[s + 1] \in Range(seq) \ Range(Without(seq, s, e))
           /\ e = s + 1 => Range(Without(seq, s, e)) = Range(seq) \ {seq[e]}
<1> DEFINE rest == Without(seq, s, e)
<1>1. Len(seq) \in Nat /\ DOMAIN seq = 1..Len(seq)
  BY LenProperties
<1>2. /\ rest \in Seq(S)
      /\ Len(rest) = s + (IF e <= Len(seq) THEN Len(seq) - e ELSE 0)
      /\ \A i \in 1..Len(rest) : rest[i] = IF i <= s THEN seq[i] ELSE seq[i - s + e]
  BY <1>1, WithoutProperties
<1>3. DOMAIN rest = 1..Len(rest) /\ Len(rest) \in Nat
  BY <1>2, LenProperties
<1> HIDE DEF rest
<1>4. ASSUME NEW i \in 1..Len(rest)
      PROVE  \E j \in 1..Len(seq) : j # s + 1 /\ rest[i] = seq[j]
  <2>1. CASE i <= s
    BY <1>1, <1>2, <2>1
  <2>2. CASE i > s
    <3>1. i - s + e \in 1..Len(seq) /\ i - s + e # s + 1
      BY <1>1, <1>2, <1>3, <2>2
    <3>2. QED
      BY <1>2, <2>2, <3>1
  <2>3. QED
    BY SMTT(60), <1>3, <2>1, <2>2
<1>5. ASSUME e = s + 1, NEW j \in 1..Len(seq), j # e
      PROVE  \E i \in 1..Len(rest) : rest[i] = seq[j]
  <2>1. CASE j <= s
    <3>1. s <= Len(rest)
      BY <1>1, <1>2
    <3>2. j \in 1..Len(rest)
      BY <1>3, <2>1, <3>1
    <3>3. QED
      BY <1>2, <2>1, <3>2
  <2>2. CASE j > s
    <3>1. Len(rest) = Len(seq) - 1
      <4>1. e <= Len(seq)
        BY <1>1, <1>5
      <4>2. Len(rest) = s + (Len(seq) - e)
        BY <1>2, <4>1, Zenon
      <4>3. QED
        BY <1>1, <1>5, <4>2
    <3>2. j - 1 \in 1..Len(rest) /\ ~(j - 1 <= s) /\ (j - 1) - s + e = j
      BY <1>1, <1>5, <2>2, <3>1
    <3>3. rest[j - 1] = seq[(j - 1) - s + e]
      BY <1>2, <3>2
    <3>4. QED
      BY <3>2, <3>3
  <2>3. QED
    BY <2>1, <2>2
<1>6. Range(seq) = {seq[j] : j \in 1..Len(seq)} /\ Range(rest) = {rest[i] : i \in 1..Len(rest)}
  BY <1>1, <1>3 DEF Range
<1>7. s + 1 \in 1..Len(seq)
  BY <1>1
<1>8. Range(rest) \subseteq Range(seq) /\ seq[s + 1] \in Range(seq) \ Range(rest)
  BY SMTT(60), <1>4, <1>6, <1>7
<1>9. ASSUME e = s + 1 PROVE Range(rest) = Range(seq) \ {seq[e]}
  <2>1. ASSUME NEW x \in Range(seq) \ {seq[e]}
        PROVE  x \in Range(rest)
    <3>1. PICK j \in 1..Len(seq) : x = seq[j]
      BY <1>6
    <3>2. j # e
      BY <2>1, <3>1
    <3>3. QED
      BY <1>5, <1>6, <1>9, <3>1, <3>2
  <2>2. QED
    BY <1>8, <1>9, <2>1
<1>10. QED
  BY <1>8, <1>9 DEF rest

-------------------------------------------------------------------------------
(* The inductive invariant.                                                  *)

\* `start' is the sum of the widths of the parts before `part'.
StartIsSum ==
    phase = "scan" =>
        /\ Length >= 2
        /\ part < PartsNow
        /\ start = part * (Length \div PartsNow) + Smaller(part, Length % PartsNow)

\* Where parts are single items, the items before `part' cannot be deleted.
ScannedItemsRefused ==
    phase = "scan" /\ granularity >= Length =>
        \A i \in 1..part : ~Reproduces(WithoutItem(current, i))

\* The linear pass starts where the scan left nothing to delete, or with at
\* most one item.
LinearItemsRefused ==
    phase \in {"linear", "done"} =>
        \A i \in 1..Length : Length >= 2 \/ i <= index => ~Reproduces(WithoutItem(current, i))

LinearRunsOver ==
    /\ phase \notin {"linear", "done"} => index = 0
    /\ phase = "done" => index >= Length

IInv ==
    /\ TypeOK
    /\ InOrder
    /\ NeverLosesFailure
    /\ StartIsSum
    /\ ScannedItemsRefused
    /\ LinearItemsRefused
    /\ LinearRunsOver

-------------------------------------------------------------------------------

\* The argument is in order and each of its items is itself.
LEMMA InitialItems ==
    ASSUME NEW n \in Nat
    PROVE  /\ [i \in 1..n |-> i] \in Seq(1..n)
           /\ Len([i \in 1..n |-> i]) = n
<1>1. [i \in 1..n |-> i] \in Seq(1..n)
  BY IsASeq
<1>2. QED
  BY <1>1, LenProperties

\* Deleting a part of a candidate leaves a candidate: items of the argument, in
\* order.
LEMMA CandidateType ==
    ASSUME TypeOK, InOrder, NEW s \in Nat, NEW e \in Nat, s < e, s < Length
    PROVE  /\ Without(current, s, e) \in Seq(Positions)
           /\ Len(Without(current, s, e)) < Length
           /\ \A i, j \in 1..Len(Without(current, s, e)) :
                i < j => Without(current, s, e)[i] < Without(current, s, e)[j]
<1> DEFINE rest == Without(current, s, e)
<1>1. current \in Seq(Positions) /\ Length \in Nat
  BY LenProperties DEF TypeOK, Length
<1>2. /\ rest \in Seq(Positions)
      /\ Len(rest) = s + (IF e <= Length THEN Length - e ELSE 0)
      /\ \A i \in 1..Len(rest) :
           rest[i] = IF i <= s THEN current[i] ELSE current[i - s + e]
  <2>1. PICK seq : seq = current
    OBVIOUS
  <2>2. seq \in Seq(Positions) /\ s <= Len(seq) /\ s <= e
    BY <1>1, <2>1 DEF Length
  <2>3. /\ Without(seq, s, e) \in Seq(Positions)
        /\ Len(Without(seq, s, e)) = s + (IF e <= Len(seq) THEN Len(seq) - e ELSE 0)
        /\ \A i \in 1..Len(Without(seq, s, e)) :
             Without(seq, s, e)[i] = IF i <= s THEN seq[i] ELSE seq[i - s + e]
    BY <2>2, WithoutProperties
  <2> QED
    BY <2>1, <2>3 DEF Length
<1>3. Len(rest) \in Nat
  BY <1>2, LenProperties
<1> HIDE DEF rest
<1>4. Len(rest) < Length
  BY <1>1, <1>2
<1>5. ASSUME NEW i \in 1..Len(rest), NEW j \in 1..Len(rest), i < j
      PROVE  rest[i] < rest[j]
  <2> DEFINE from(k) == IF k <= s THEN k ELSE k - s + e
  <2>1. from(i) \in 1..Length /\ from(j) \in 1..Length /\ from(i) < from(j)
    BY <1>1, <1>2, <1>3, <1>5
  <2>2. rest[i] = current[from(i)] /\ rest[j] = current[from(j)]
    BY <1>2
  <2>3. QED
    BY <2>1, <2>2 DEF InOrder
<1>6. QED
  BY <1>2, <1>4, <1>5 DEF rest

\* The part under trial is not empty and starts inside the candidate.
LEMMA PartInside ==
    ASSUME TypeOK, StartIsSum, phase = "scan"
    PROVE  /\ PartsNow \in 2..Length
           /\ Width(Length, PartsNow, part) \in Nat \ {0}
           /\ start < Length
           /\ End \in Nat
           /\ start < End
           /\ End <= Length
           /\ End = (part + 1) * (Length \div PartsNow)
                      + Smaller(part + 1, Length % PartsNow)
           /\ part + 1 = PartsNow => End = Length
<1> DEFINE L == Length
           P == PartsNow
           q == L \div P
           r == L % P
<1>1. L \in Nat /\ L >= 2 /\ granularity \in Nat /\ granularity >= 2 /\ part \in Nat /\ start \in Nat
  BY LenProperties DEF TypeOK, StartIsSum, Length
<1>2. P \in 2..L
  BY <1>1 DEF PartsNow, Parts, Smaller
<1>3. q \in Nat /\ r \in Nat /\ r < P /\ L = P * q + r
  BY <1>1, <1>2, SMT
<1>4. Width(L, P, part) \in Nat \ {0}
  BY <1>1, <1>2, WidthPositive
<1>5. Width(L, P, part) = q + (IF part < r THEN 1 ELSE 0)
  BY DEF Width
<1>6. start = part * q + Smaller(part, r) /\ part < P
  BY DEF StartIsSum
<1>7. End = start + Width(L, P, part)
  BY DEF End
<1> HIDE DEF L, P, q, r
<1>8. (part + 1) * q = part * q + q
  BY <1>1, <1>3
<1>9. End = (part + 1) * q + Smaller(part + 1, r)
  BY <1>1, <1>3, <1>5, <1>6, <1>7, <1>8 DEF Smaller
<1>10. part + 1 = P => End = L
  BY <1>1, <1>2, <1>3, <1>9 DEF Smaller
<1>11. End <= L
  <2>1. (part + 1) * q <= P * q
    BY <1>1, <1>2, <1>3, <1>6, SMT
  <2>2. (part + 1) * q \in Nat /\ P * q \in Nat
    BY <1>1, <1>2, <1>3
  <2>3. QED
    BY <1>1, <1>3, <1>9, <2>1, <2>2 DEF Smaller
<1>12. End \in Nat /\ start < End
  BY <1>1, <1>4, <1>7
<1>13. start < L
  BY <1>1, <1>11, <1>12
<1>14. QED
  BY <1>2, <1>4, <1>9, <1>10, <1>11, <1>12, <1>13 DEF L, P, q, r

\* A scan whose parts are single items tries to delete item part + 1.
LEMMA SingleItemPart ==
    ASSUME TypeOK, StartIsSum, phase = "scan", granularity >= Length
    PROVE  /\ PartsNow = Length
           /\ ScanCandidate = WithoutItem(current, part + 1)
<1>1. Length \in Nat /\ Length >= 2 /\ granularity \in Nat /\ part \in Nat /\ start \in Nat
  BY LenProperties DEF TypeOK, StartIsSum, Length
<1>2. PartsNow = Length
  BY <1>1 DEF PartsNow, Parts, Smaller
<1>3. Length \div Length = 1 /\ Length % Length = 0 /\ Width(Length, Length, part) = 1
  BY <1>1, WidthOfItems
<1>4. start = part * 1 + Smaller(part, 0)
  BY <1>2, <1>3 DEF StartIsSum
<1>5. start = part
  BY <1>1, <1>4 DEF Smaller
<1>6. End = part + 1
  BY <1>1, <1>2, <1>3, <1>5 DEF End
<1>7. (part + 1) - 1 = part
  BY <1>1
<1>8. QED
  BY <1>2, <1>5, <1>6, <1>7 DEF ScanCandidate, WithoutItem

-------------------------------------------------------------------------------
(* The invariant.                                                            *)

LEMMA InitIInv == Init => IInv
<1> SUFFICES ASSUME Init PROVE IInv
  OBVIOUS
<1>1. PICK n \in 0..MaxItems : /\ items = [i \in 1..n |-> i]
                               /\ verdict \in [SUBSET (1..n) -> Results]
  BY DEF Init
<1>2. n \in Nat
  BY MaxItemsAssumption
<1>3. items \in Seq(1..n) /\ Len(items) = n
  BY <1>1, <1>2, InitialItems
<1>4. current \in Seq(Positions) /\ Length = n
  BY <1>3 DEF Init, Positions, Length
<1>5. items \in Seq(Nat)
  BY <1>2, <1>3, SeqMonotonic
<1>6. TypeOK
  <2>1. verdict \in [SUBSET Positions -> Results]
    BY <1>1, <1>3 DEF Positions
  <2>2. verdict \in [SUBSET Positions -> Verdicts]
    BY <2>1, ResultsAssumption
  <2> QED
    BY <1>1, <1>3, <1>4, <1>5, <2>2 DEF Init, TypeOK, Positions
<1>7. InOrder
  BY <1>1, <1>2, <1>4 DEF Init, InOrder
<1>8. QED
  BY <1>6, <1>7 DEF Init, IInv, NeverLosesFailure, StartIsSum, ScannedItemsRefused,
    LinearItemsRefused, LinearRunsOver

\* A scan starts with no part refused and offset 0.
LEMMA EnterScanFacts ==
    ASSUME TypeOK', EnterScan(Length')
    PROVE  /\ phase' \in {"scan", "linear"}
           /\ StartIsSum'
           /\ ScannedItemsRefused'
           /\ phase' = "linear" => Length' < 2
<1>1. Length' \in Nat /\ granularity' \in Nat /\ granularity' >= 2
  BY LenProperties DEF TypeOK, Length
<1>2. part' = 0 /\ start' = 0
  BY DEF EnterScan
<1>3. ASSUME phase' = "scan" PROVE StartIsSum'
  <2>1. Length' >= 2
    BY <1>1, <1>3 DEF EnterScan
  <2>2. PartsNow' \in 1..Length'
    BY <1>1, <2>1 DEF PartsNow, Parts, Smaller
  <2>3. Length' \div PartsNow' \in Nat /\ Length' % PartsNow' \in Nat
    BY <1>1, <2>2, DivisionType
  <2>4. 0 = 0 * (Length' \div PartsNow') + Smaller(0, Length' % PartsNow')
    BY <2>3 DEF Smaller
  <2>5. QED
    BY <1>1, <1>2, <2>1, <2>2, <2>4 DEF StartIsSum
<1>4. QED
  BY <1>1, <1>2, <1>3 DEF EnterScan, StartIsSum, ScannedItemsRefused

\* With fewer than two items the linear pass starts knowing nothing.
LEMMA LinearStart ==
    ASSUME Length \in Nat, Length < 2, index = 0
    PROVE  LinearItemsRefused
BY DEF LinearItemsRefused

LEMMA AcceptPartIInv == ASSUME IInv, AcceptPart PROVE IInv'
<1>1. TypeOK /\ InOrder /\ StartIsSum /\ phase = "scan"
  BY DEF IInv, AcceptPart
<1>2. start \in Nat /\ End \in Nat /\ start < End /\ start < Length
  BY <1>1, PartInside DEF TypeOK
<1>3. /\ current' = ScanCandidate
      /\ granularity' = Larger(2, granularity - 1)
      /\ EnterScan(Len(ScanCandidate))
      /\ UNCHANGED <<items, verdict, index>>
      /\ Reproduces(ScanCandidate)
  BY DEF AcceptPart
<1>4. /\ ScanCandidate \in Seq(Positions)
      /\ \A i, j \in 1..Len(ScanCandidate) : i < j => ScanCandidate[i] < ScanCandidate[j]
  BY <1>1, <1>2, CandidateType DEF ScanCandidate
<1>5. TypeOK'
  BY <1>1, <1>3, <1>4 DEF TypeOK, EnterScan, Larger, Positions
<1>6. InOrder'
  BY <1>3, <1>4 DEF InOrder, Length
<1>7. NeverLosesFailure'
  BY <1>3 DEF NeverLosesFailure, Reproduces
<1>8. Length' = Len(ScanCandidate)
  BY <1>3 DEF Length
<1>9. /\ phase' \in {"scan", "linear"}
      /\ StartIsSum'
      /\ ScannedItemsRefused'
      /\ phase' = "linear" => Length' < 2
  BY <1>3, <1>5, <1>8, EnterScanFacts
<1>10. index' = 0 /\ Length' \in Nat
  BY <1>1, <1>3, <1>4, <1>8, LenProperties DEF IInv, LinearRunsOver
<1>11. LinearItemsRefused'
  BY <1>9, <1>10 DEF LinearItemsRefused
<1>12. LinearRunsOver'
  BY <1>9, <1>10 DEF LinearRunsOver
<1>13. QED
  BY <1>5, <1>6, <1>7, <1>9, <1>11, <1>12 DEF IInv

LEMMA RejectPartIInv == ASSUME IInv, RejectPart PROVE IInv'
<1>1. TypeOK /\ InOrder /\ StartIsSum /\ phase = "scan"
  BY DEF IInv, RejectPart
<1>2. /\ part' = part + 1
      /\ start' = End
      /\ UNCHANGED <<items, verdict, current, granularity, index, phase>>
      /\ part + 1 < PartsNow
      /\ ~Reproduces(ScanCandidate)
  BY DEF RejectPart
<1>3. End \in Nat /\ End = (part + 1) * (Length \div PartsNow)
                             + Smaller(part + 1, Length % PartsNow)
  BY <1>1, PartInside
<1>4. TypeOK'
  BY <1>1, <1>2, <1>3 DEF TypeOK, Positions
<1>5. Length' = Length /\ PartsNow' = PartsNow
  BY <1>2 DEF Length, PartsNow
<1>6. StartIsSum'
  BY <1>1, <1>2, <1>3, <1>5 DEF StartIsSum
<1>7. ScannedItemsRefused'
  <2> SUFFICES ASSUME granularity >= Length, NEW i \in 1..(part + 1)
               PROVE  ~Reproduces(WithoutItem(current, i))
    BY <1>2, <1>5 DEF ScannedItemsRefused, Reproduces
  <2>1. CASE i = part + 1
    BY <1>1, <1>2, <2>1, SingleItemPart
  <2>2. CASE i # part + 1
    <3>1. i \in 1..part
      BY <1>1, <2>2 DEF TypeOK
    <3>2. QED
      BY <1>1, <3>1 DEF IInv, ScannedItemsRefused
  <2>3. QED
    BY <2>1, <2>2
<1>8. InOrder' /\ NeverLosesFailure' /\ LinearItemsRefused' /\ LinearRunsOver'
  BY <1>1, <1>2, <1>5 DEF IInv, InOrder, NeverLosesFailure, LinearItemsRefused,
    LinearRunsOver, Reproduces
<1>9. QED
  BY <1>4, <1>6, <1>7, <1>8 DEF IInv

LEMMA RefineIInv == ASSUME IInv, Refine PROVE IInv'
<1>1. TypeOK /\ InOrder /\ StartIsSum /\ phase = "scan"
  BY DEF IInv, Refine
<1>2. /\ granularity' = Smaller(Length, granularity * 2)
      /\ EnterScan(Length)
      /\ UNCHANGED <<items, verdict, current, index>>
  BY DEF Refine
<1>3. Length \in Nat /\ Length >= 2 /\ Length' = Length
  BY <1>1, <1>2, LenProperties DEF TypeOK, StartIsSum, Length
<1>4. granularity' \in Nat /\ granularity' >= 2
  BY <1>1, <1>2, <1>3 DEF TypeOK, Smaller
<1>5. TypeOK'
  BY <1>1, <1>2, <1>4 DEF TypeOK, EnterScan, Positions
<1>6. /\ phase' \in {"scan", "linear"}
      /\ StartIsSum'
      /\ ScannedItemsRefused'
      /\ phase' = "linear" => Length' < 2
  BY <1>2, <1>3, <1>5, EnterScanFacts
<1>7. phase' = "scan"
  BY <1>3, <1>6
<1>8. InOrder' /\ NeverLosesFailure' /\ LinearItemsRefused' /\ LinearRunsOver'
  BY <1>1, <1>2, <1>3, <1>7 DEF IInv, InOrder, NeverLosesFailure, LinearItemsRefused,
    LinearRunsOver, Reproduces
<1>9. QED
  BY <1>5, <1>6, <1>8 DEF IInv

\* The step that carries the argument: the last single-item part is refused,
\* so every item has been.
LEMMA EndScanIInv == ASSUME IInv, EndScan PROVE IInv'
<1>1. TypeOK /\ InOrder /\ StartIsSum /\ phase = "scan"
  BY DEF IInv, EndScan
<1>2. /\ phase' = "linear"
      /\ UNCHANGED <<items, verdict, current, granularity, part, start, index>>
      /\ granularity >= Length
      /\ part + 1 = PartsNow
      /\ ~Reproduces(ScanCandidate)
  BY DEF EndScan
<1>3. PartsNow = Length /\ ScanCandidate = WithoutItem(current, part + 1)
  BY <1>1, <1>2, SingleItemPart
<1>4. \A i \in 1..Length : ~Reproduces(WithoutItem(current, i))
  <2> TAKE i \in 1..Length
  <2>1. CASE i = part + 1
    BY <1>2, <1>3, <2>1
  <2>2. CASE i # part + 1
    <3>1. i \in 1..part
      BY <1>1, <1>2, <1>3, <2>2 DEF TypeOK
    <3>2. QED
      BY <1>1, <1>2, <3>1 DEF IInv, ScannedItemsRefused
  <2>3. QED
    BY <2>1, <2>2
<1>5. TypeOK'
  BY <1>1, <1>2 DEF TypeOK, Positions
<1>6. Length' = Length
  BY <1>2 DEF Length
<1>7. LinearItemsRefused'
  BY <1>2, <1>4, <1>6 DEF LinearItemsRefused, Reproduces
<1>8. InOrder' /\ NeverLosesFailure' /\ LinearRunsOver'
  BY <1>1, <1>2, <1>6 DEF IInv, InOrder, NeverLosesFailure, LinearRunsOver, Reproduces
<1>9. StartIsSum' /\ ScannedItemsRefused'
  BY <1>2 DEF StartIsSum, ScannedItemsRefused
<1>10. QED
  BY <1>5, <1>7, <1>8, <1>9 DEF IInv

\* Only the last remaining item can be deleted by the linear pass.
LEMMA LinearAcceptsLast ==
    ASSUME IInv, AcceptItem
    PROVE  Length = 1 /\ index = 0 /\ LinearCandidate = <<>>
<1>1. TypeOK /\ InOrder /\ phase = "linear" /\ index < Length /\ Reproduces(LinearCandidate)
  BY DEF IInv, AcceptItem
<1>2. Length \in Nat /\ index \in Nat
  BY <1>1, LenProperties DEF TypeOK, Length
<1>3. LinearCandidate = WithoutItem(current, index + 1) /\ index + 1 \in 1..Length
  BY <1>1, <1>2 DEF LinearCandidate, WithoutItem
<1>4. ~(Length >= 2)
  BY <1>1, <1>3 DEF IInv, LinearItemsRefused
<1>5. Length = 1 /\ index = 0
  BY <1>1, <1>2, <1>4
<1>6. index + 1 \in Nat /\ index < index + 1
  BY <1>2
<1>7. Len(LinearCandidate) < Length /\ LinearCandidate \in Seq(Positions)
  BY <1>1, <1>2, <1>6, CandidateType DEF LinearCandidate
<1>8. Len(LinearCandidate) = 0
  BY <1>5, <1>7, LenProperties
<1>9. QED
  BY <1>5, <1>7, <1>8, EmptySeq

LEMMA AcceptItemIInv == ASSUME IInv, AcceptItem PROVE IInv'
<1>1. TypeOK /\ InOrder /\ phase = "linear" /\ index < Length
  BY DEF IInv, AcceptItem
<1>2. Length = 1 /\ index = 0 /\ LinearCandidate = <<>>
  BY LinearAcceptsLast
<1>3. /\ current' = LinearCandidate
      /\ UNCHANGED <<items, verdict, granularity, part, start, index, phase>>
      /\ Reproduces(LinearCandidate)
  BY DEF AcceptItem
<1>4. LinearCandidate \in Seq(Positions) /\ Len(LinearCandidate) = 0
  BY <1>2, EmptySeq
<1>5. TypeOK'
  BY <1>1, <1>3, <1>4 DEF TypeOK, Positions
<1>6. Length' = 0
  BY <1>3, <1>4 DEF Length
<1>7. InOrder' /\ LinearItemsRefused'
  BY <1>6 DEF InOrder, LinearItemsRefused
<1>8. NeverLosesFailure'
  BY <1>3 DEF NeverLosesFailure, Reproduces
<1>9. StartIsSum' /\ ScannedItemsRefused' /\ LinearRunsOver'
  BY <1>1, <1>3 DEF StartIsSum, ScannedItemsRefused, LinearRunsOver
<1>10. QED
  BY <1>5, <1>7, <1>8, <1>9 DEF IInv

LEMMA RejectItemIInv == ASSUME IInv, RejectItem PROVE IInv'
<1>1. TypeOK /\ InOrder /\ phase = "linear" /\ index < Length /\ ~Reproduces(LinearCandidate)
  BY DEF IInv, RejectItem
<1>2. /\ index' = index + 1
      /\ UNCHANGED <<items, verdict, current, granularity, part, start, phase>>
  BY DEF RejectItem
<1>3. TypeOK'
  BY <1>1, <1>2 DEF TypeOK, Positions
<1>4. Length' = Length /\ Length \in Nat /\ index \in Nat
  BY <1>1, <1>2, LenProperties DEF TypeOK, Length
<1>5. LinearCandidate = WithoutItem(current, index + 1)
  BY <1>4 DEF LinearCandidate, WithoutItem
<1>6. LinearItemsRefused'
  <2> SUFFICES ASSUME NEW i \in 1..Length, Length >= 2 \/ i <= index + 1
               PROVE  ~Reproduces(WithoutItem(current, i))
    BY <1>2, <1>4 DEF LinearItemsRefused, Reproduces
  <2>1. CASE i = index + 1
    BY <1>1, <1>5, <2>1
  <2>2. CASE i # index + 1
    BY <1>1, <1>4, <2>2 DEF IInv, LinearItemsRefused
  <2>3. QED
    BY <2>1, <2>2
<1>7. InOrder' /\ NeverLosesFailure'
  BY <1>1, <1>2, <1>4 DEF IInv, InOrder, NeverLosesFailure, Reproduces
<1>8. StartIsSum' /\ ScannedItemsRefused' /\ LinearRunsOver'
  BY <1>1, <1>2 DEF StartIsSum, ScannedItemsRefused, LinearRunsOver
<1>9. QED
  BY <1>3, <1>6, <1>7, <1>8 DEF IInv

LEMMA NextIInv == IInv /\ [Next]_vars => IInv'
<1> SUFFICES ASSUME IInv, [Next]_vars PROVE IInv'
  OBVIOUS
<1>1. CASE InitialReproduces
  <2>1. TypeOK /\ phase = "initial"
    BY <1>1 DEF IInv, InitialReproduces
  <2>2. /\ Reproduces(current)
        /\ EnterScan(Length)
        /\ UNCHANGED <<items, verdict, current, granularity, index>>
    BY <1>1 DEF InitialReproduces
  <2>3. TypeOK'
    BY <2>1, <2>2 DEF TypeOK, EnterScan, Positions
  <2>4. Length' = Length /\ Length \in Nat
    BY <2>1, <2>2, LenProperties DEF TypeOK, Length
  <2>5. /\ phase' \in {"scan", "linear"}
        /\ StartIsSum'
        /\ ScannedItemsRefused'
        /\ phase' = "linear" => Length' < 2
    BY <2>2, <2>3, <2>4, EnterScanFacts
  <2>6. index' = 0
    BY <2>1, <2>2 DEF IInv, LinearRunsOver
  <2>7. LinearItemsRefused' /\ LinearRunsOver'
    BY <2>4, <2>5, <2>6 DEF LinearItemsRefused, LinearRunsOver
  <2>8. InOrder' /\ NeverLosesFailure'
    BY <2>2, <2>4 DEF IInv, InOrder, NeverLosesFailure, Reproduces
  <2>9. QED
    BY <2>3, <2>5, <2>7, <2>8 DEF IInv
<1>2. CASE InitialFails
  <2>1. /\ phase' = "raised"
        /\ UNCHANGED <<items, verdict, current, granularity, part, start, index>>
        /\ phase = "initial"
    BY <1>2 DEF InitialFails
  <2>2. TypeOK'
    BY <2>1 DEF IInv, TypeOK, Positions
  <2>3. InOrder' /\ NeverLosesFailure'
    BY <2>1 DEF IInv, InOrder, NeverLosesFailure, Length
  <2>4. StartIsSum' /\ ScannedItemsRefused' /\ LinearItemsRefused' /\ LinearRunsOver'
    BY <2>1 DEF IInv, StartIsSum, ScannedItemsRefused, LinearItemsRefused, LinearRunsOver
  <2>5. QED
    BY <2>2, <2>3, <2>4 DEF IInv
<1>3. CASE AcceptPart
  BY <1>3, AcceptPartIInv
<1>4. CASE RejectPart
  BY <1>4, RejectPartIInv
<1>5. CASE Refine
  BY <1>5, RefineIInv
<1>6. CASE EndScan
  BY <1>6, EndScanIInv
<1>7. CASE AcceptItem
  BY <1>7, AcceptItemIInv
<1>8. CASE RejectItem
  BY <1>8, RejectItemIInv
<1>9. CASE Return
  <2>1. /\ phase = "linear"
        /\ index >= Length
        /\ phase' = "done"
        /\ UNCHANGED <<items, verdict, current, granularity, part, start, index>>
    BY <1>9 DEF Return
  <2>2. TypeOK'
    BY <2>1 DEF IInv, TypeOK, Positions
  <2>3. InOrder' /\ NeverLosesFailure' /\ LinearItemsRefused' /\ LinearRunsOver'
    BY <2>1 DEF IInv, InOrder, NeverLosesFailure, LinearItemsRefused, LinearRunsOver,
      Length, Reproduces
  <2>4. StartIsSum' /\ ScannedItemsRefused'
    BY <2>1 DEF StartIsSum, ScannedItemsRefused
  <2>5. QED
    BY <2>2, <2>3, <2>4 DEF IInv
<1>10. CASE UNCHANGED vars
  BY <1>10 DEF vars, IInv, TypeOK, InOrder, NeverLosesFailure, StartIsSum,
    ScannedItemsRefused, LinearItemsRefused, LinearRunsOver, Positions, Length,
    PartsNow, Reproduces
<1>11. QED
  BY <1>1, <1>2, <1>3, <1>4, <1>5, <1>6, <1>7, <1>8, <1>9, <1>10 DEF Next

LEMMA InvariantHolds == Spec => []IInv
BY InitIInv, NextIInv, PTL DEF Spec

-------------------------------------------------------------------------------
(* What the runs check on small instances, for every length and predicate.   *)

\* Every variable of ddmin stays in its type: in particular what is kept is
\* always a sequence of items of the argument.
THEOREM TypeCorrect == Spec => []TypeOK
<1>1. IInv => TypeOK
  BY DEF IInv
<1>2. QED
  BY <1>1, InvariantHolds, PTL

\* ddmin returns the items it keeps in the order of the argument.
THEOREM KeepsOrder == Spec => []InOrder
<1>1. IInv => InOrder
  BY DEF IInv
<1>2. QED
  BY <1>1, InvariantHolds, PTL

\* Once the argument was seen to reproduce, what ddmin holds reproduces.
THEOREM FailureIsKept == Spec => []NeverLosesFailure
<1>1. IInv => NeverLosesFailure
  BY DEF IInv
<1>2. QED
  BY <1>1, InvariantHolds, PTL

\* The promise of the docstring: what ddmin returns is 1-minimal.
THEOREM ReturnsOneMinimal == Spec => []OneMinimal
<1>1. IInv => OneMinimal
  <2> SUFFICES ASSUME IInv, phase = "done", NEW i \in 1..Length
               PROVE  ~Reproduces(WithoutItem(current, i))
    BY DEF OneMinimal
  <2>1. Length \in Nat /\ index \in Nat /\ index >= Length
    BY LenProperties DEF IInv, TypeOK, Length, LinearRunsOver
  <2>2. i <= index
    BY <2>1
  <2>3. QED
    BY <2>2 DEF IInv, LinearItemsRefused
<1>2. QED
  BY <1>1, InvariantHolds, PTL

\* The parts of a scan are non-empty slices of the candidate and the last one
\* ends where the candidate ends.
THEOREM ScansInside == Spec => []ScanStaysInside
<1>1. IInv => ScanStaysInside
  BY PartInside DEF IInv, ScanStaysInside, StartIsSum
<1>2. QED
  BY <1>1, InvariantHolds, PTL

\* The linear pass after the scan deletes nothing but a single last item.
THEOREM LinearPassIsRedundant == Spec => LinearPassOnlyEmpties
<1>1. IInv /\ [Next]_vars => [AcceptItem => current' = <<>>]_vars
  <2> SUFFICES ASSUME IInv, AcceptItem PROVE current' = <<>>
    OBVIOUS
  <2>1. LinearCandidate = <<>>
    BY LinearAcceptsLast
  <2>2. QED
    BY <2>1 DEF AcceptItem
<1>2. QED
  BY <1>1, InvariantHolds, PTL DEF Spec, LinearPassOnlyEmpties

-------------------------------------------------------------------------------
(* Refinement.                                                               *)

LEMMA OrderedIsInjective ==
    ASSUME TypeOK, InOrder
    PROVE  \A i, j \in 1..Length : current[i] = current[j] => i = j
<1> SUFFICES ASSUME NEW i \in 1..Length, NEW j \in 1..Length, current[i] = current[j], i # j
             PROVE  FALSE
  OBVIOUS
<1>1. current \in Seq(Positions) /\ Length \in Nat
  BY LenProperties DEF TypeOK, Length
<1>2. current[i] \in Positions /\ current[j] \in Positions
  BY <1>1, ElementOfSeq DEF Length
<1>3. current[i] \in Nat
  BY <1>2, LenProperties DEF TypeOK, Positions
<1>4. CASE i < j
  BY <1>3, <1>4 DEF InOrder
<1>5. CASE j < i
  BY <1>3, <1>5 DEF InOrder
<1>6. QED
  BY <1>1, <1>4, <1>5

\* Deleting a part is a step of the contract: strictly fewer items, all kept.
LEMMA DeletionShrinks ==
    ASSUME TypeOK, InOrder, NEW s \in Nat, NEW e \in Nat, s < e, s < Length
    PROVE  /\ Range(Without(current, s, e)) \subseteq Range(current)
           /\ Range(Without(current, s, e)) # Range(current)
<1>1. current \in Seq(Positions)
  BY DEF TypeOK
<1>2. QED
  BY <1>1, OrderedIsInjective, WithoutRange DEF Length

\* ddmin implements the contract of delta debugging.
THEOREM Refinement == Spec => ImplementsShrinking
<1>1. Init => Contract!Init
  BY DEF Init, Contract!Init
<1>2. IInv /\ [Next]_vars => [Contract!Next]_<<verdict, Range(current),
            CASE phase = "initial" -> "unchecked"
              [] phase \in {"scan", "linear"} -> "shrinking"
              [] OTHER -> phase>>
  <2> DEFINE status == CASE phase = "initial" -> "unchecked"
                         [] phase \in {"scan", "linear"} -> "shrinking"
                         [] OTHER -> phase
  <2> SUFFICES ASSUME IInv, [Next]_vars
               PROVE  Contract!Next \/ UNCHANGED <<verdict, Range(current), status>>
    OBVIOUS
  <2>1. CASE InitialReproduces
    BY <2>1 DEF InitialReproduces, EnterScan, Reproduces, Contract!Next, Contract!Start
  <2>2. CASE InitialFails
    BY <2>2 DEF InitialFails, Reproduces, Contract!Next, Contract!Refuse
  <2>3. CASE AcceptPart
    <3>1. start \in Nat /\ End \in Nat /\ start < End /\ start < Length
      BY <2>3, PartInside DEF IInv, AcceptPart, TypeOK
    <3>2. Range(ScanCandidate) \subseteq Range(current) /\ Range(ScanCandidate) # Range(current)
      BY <3>1, DeletionShrinks DEF IInv, ScanCandidate
    <3>3. QED
      BY <2>3, <3>2 DEF AcceptPart, EnterScan, Reproduces, Contract!Next, Contract!Shrink
  <2>4. CASE RejectPart
    BY <2>4 DEF RejectPart
  <2>5. CASE Refine
    BY <2>5 DEF Refine, EnterScan
  <2>6. CASE EndScan
    BY <2>6 DEF EndScan
  <2>7. CASE AcceptItem
    <3>1. Length = 1 /\ index = 0
      BY <2>7, LinearAcceptsLast
    <3>2. Range(LinearCandidate) \subseteq Range(current) /\ Range(LinearCandidate) # Range(current)
      BY <3>1, DeletionShrinks DEF IInv, LinearCandidate
    <3>3. QED
      BY <2>7, <3>2 DEF AcceptItem, Reproduces, Contract!Next, Contract!Shrink
  <2>8. CASE RejectItem
    BY <2>8 DEF RejectItem
  <2>9. CASE Return
    <3>1. \A i \in 1..Length : ~Reproduces(WithoutItem(current, i))
      <4>1. Length \in Nat /\ index \in Nat /\ index >= Length /\ phase = "linear"
        BY <2>9, LenProperties DEF IInv, TypeOK, Length, Return
      <4>2. QED
        BY <4>1 DEF IInv, LinearItemsRefused
    <3>2. ASSUME NEW x \in Range(current)
          PROVE  verdict[Range(current) \ {x}] # "reproduces"
      <4>1. current \in Seq(Positions) /\ Length \in Nat
        BY LenProperties DEF IInv, TypeOK, Length
      <4>2. PICK i \in 1..Length : x = current[i]
        BY <4>1, LenProperties DEF Range, Length
      <4>3. i - 1 \in Nat /\ i \in Nat /\ i - 1 < i /\ i - 1 < Length /\ i = (i - 1) + 1
        BY <4>1
      <4>4. \A k, j \in 1..Len(current) : current[k] = current[j] => k = j
        BY OrderedIsInjective DEF IInv, Length
      <4>5. Range(Without(current, i - 1, i)) = Range(current) \ {current[i]}
        BY <4>1, <4>3, <4>4, WithoutRange DEF Length
      <4>6. QED
        BY <3>1, <4>2, <4>5 DEF Reproduces, WithoutItem
    <3>3. QED
      BY <2>9, <3>2 DEF Return, Contract!Next, Contract!Finish
  <2>10. CASE UNCHANGED vars
    BY <2>10 DEF vars
  <2>11. QED
    BY <2>1, <2>2, <2>3, <2>4, <2>5, <2>6, <2>7, <2>8, <2>9, <2>10 DEF Next
<1>3. QED
  BY <1>1, <1>2, InvariantHolds, PTL DEF Spec, ImplementsShrinking, Contract!Spec
===============================================================================
