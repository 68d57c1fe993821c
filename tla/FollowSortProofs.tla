--------------------------- MODULE FollowSortProofs ---------------------------
(***************************************************************************)
(* Proofs about FollowSort, for lists of any length.                       *)
(***************************************************************************)
EXTENDS FollowSort, TLAPS, SequenceTheorems, WellFoundedInduction

\* The program counter, and what holds between the passes of the loop.
Progress ==
    /\ pc = "read" => list = input /\ sorted = 1 /\ it = 2
    /\ pc = "scan" => 1 <= sorted /\ sorted < it /\ it <= Len(list) + 1
    /\ pc = "done" => Continuous(list)
    /\ pc = "thrown" => Contract!StuckAt(list, sorted)

SortInv ==
    /\ FollowSortTypeOK
    /\ NothingLost
    /\ Progress
    /\ PrefixContinuous
    /\ PassedSegmentsDoNotFit

-----------------------------------------------------------------------------
(* Sequences.                                                              *)

\* A function on 1 .. n is a sequence of length n, whatever built it.
LEMMA FunctionIsSequence ==
    ASSUME NEW S, NEW n \in Nat, NEW f \in [1 .. n -> S]
    PROVE  f \in Seq(S) /\ Len(f) = n
<1>1. f \in Seq(S)
  BY SeqDef
<1>2. Len(f) \in Nat /\ DOMAIN f = 1 .. Len(f)
  BY <1>1, LenProperties
<1>3. 1 .. Len(f) = 1 .. n
  BY <1>2
<1> QED
  BY <1>1, <1>2, <1>3

\* The list is a sequence as long as the one that was read.
LEMMA ListIsSequence ==
    ASSUME FollowSortTypeOK
    PROVE  /\ input \in Seq(Segment) /\ Len(input) \in Nat
           /\ DOMAIN input = 1 .. Len(input)
           /\ list \in Seq(Segment) /\ Len(list) = Len(input)
           /\ DOMAIN list = 1 .. Len(input)
<1>1. input \in Seq(Segment)
  BY InputAssumption DEF FollowSortTypeOK
<1>2. Len(input) \in Nat /\ DOMAIN input = 1 .. Len(input)
  BY <1>1, LenProperties
<1>3. list \in [1 .. Len(input) -> Segment]
  BY <1>2 DEF FollowSortTypeOK
<1> QED
  BY <1>1, <1>2, <1>3, FunctionIsSequence

\* Exchanging two entries keeps the type, and every entry is where it was or at
\* the other place.
LEMMA Exchanging ==
    ASSUME NEW n \in Nat, NEW l \in [1 .. n -> Segment],
           NEW i \in 1 .. n, NEW j \in 1 .. n
    PROVE  /\ Exchanged(l, i, j) \in [1 .. n -> Segment]
           /\ Exchanged(l, i, j)[i] = l[j]
           /\ Exchanged(l, i, j)[j] = l[i]
           /\ \A k \in 1 .. n : k # i /\ k # j => Exchanged(l, i, j)[k] = l[k]
  BY DEF Exchanged

\* Rotating brings entry m to the front and moves those before it by one.
LEMMA Rotating ==
    ASSUME NEW n \in Nat, NEW l \in [1 .. n -> Segment], NEW m \in 1 .. n
    PROVE  /\ Rotated(l, m) \in [1 .. n -> Segment]
           /\ Rotated(l, m)[1] = l[m]
           /\ \A k \in 2 .. m : Rotated(l, m)[k] = l[k - 1]
           /\ \A k \in m + 1 .. n : Rotated(l, m)[k] = l[k]
  BY DEF Rotated

Injective(l, n) == \A i, j \in 1 .. n : l[i] = l[j] => i = j
Covers(l, m, n) ==
    /\ \A i \in 1 .. n : \E j \in 1 .. n : l[j] = m[i]
    /\ \A j \in 1 .. n : \E i \in 1 .. n : l[j] = m[i]

\* A list with the entries of l covers what l covers.
LEMMA CoveringTwice ==
    ASSUME NEW n \in Nat, NEW x, NEW l, NEW m, Covers(l, m, n),
           \A p \in 1 .. n : \E q \in 1 .. n : x[p] = l[q],
           \A q \in 1 .. n : \E p \in 1 .. n : x[p] = l[q]
    PROVE  Covers(x, m, n)
<1>1. \A p \in 1 .. n : \E i \in 1 .. n : x[p] = m[i]
  <2> TAKE p \in 1 .. n
  <2>1. PICK q \in 1 .. n : x[p] = l[q]
    OBVIOUS
  <2>2. PICK i \in 1 .. n : l[q] = m[i]
    BY DEF Covers
  <2> QED
    BY <2>1, <2>2
<1>2. \A i \in 1 .. n : \E p \in 1 .. n : x[p] = m[i]
  <2> TAKE i \in 1 .. n
  <2>1. PICK q \in 1 .. n : l[q] = m[i]
    BY DEF Covers
  <2>2. PICK p \in 1 .. n : x[p] = l[q]
    OBVIOUS
  <2> QED
    BY <2>1, <2>2
<1> QED
  BY <1>1, <1>2 DEF Covers

\* A rearranged list stays one when two of its entries are exchanged.
LEMMA ExchangeRearranges ==
    ASSUME NEW n \in Nat, NEW l \in [1 .. n -> Segment], NEW m,
           NEW i \in 1 .. n, NEW j \in 1 .. n,
           Injective(l, n), Covers(l, m, n)
    PROVE  Injective(Exchanged(l, i, j), n) /\ Covers(Exchanged(l, i, j), m, n)
<1> DEFINE x == Exchanged(l, i, j)
<1>1. /\ x[i] = l[j] /\ x[j] = l[i]
      /\ \A k \in 1 .. n : k # i /\ k # j => x[k] = l[k]
  BY Exchanging
<1> HIDE DEF x
<1>2. Injective(x, n)
  BY <1>1 DEF Injective
<1>3. \A p \in 1 .. n : \E q \in 1 .. n : x[p] = l[q]
  <2> TAKE p \in 1 .. n
  <2>1. x[p] = l[j] \/ x[p] = l[i] \/ x[p] = l[p]
    BY <1>1
  <2> QED
    BY <2>1
<1>4. \A q \in 1 .. n : \E p \in 1 .. n : x[p] = l[q]
  <2> TAKE q \in 1 .. n
  <2>1. l[q] = x[j] \/ l[q] = x[i] \/ l[q] = x[q]
    BY <1>1
  <2> QED
    BY <2>1
<1>5. Covers(x, m, n)
  BY <1>3, <1>4, CoveringTwice
<1> QED
  BY <1>2, <1>5 DEF x

\* It also stays one when it is rotated.
LEMMA RotationRearranges ==
    ASSUME NEW n \in Nat, NEW l \in [1 .. n -> Segment], NEW m,
           NEW k \in 1 .. n, Injective(l, n), Covers(l, m, n)
    PROVE  Injective(Rotated(l, k), n) /\ Covers(Rotated(l, k), m, n)
<1> DEFINE x == Rotated(l, k)
           Source(p) == IF p = 1 THEN k ELSE IF p <= k THEN p - 1 ELSE p
<1>1. \A p \in 1 .. n : Source(p) \in 1 .. n /\ x[p] = l[Source(p)]
  BY DEF Rotated
<1>2. \A p, q \in 1 .. n : Source(p) = Source(q) => p = q
  OBVIOUS
<1>3. \A q \in 1 .. n : \E p \in 1 .. n : Source(p) = q
  <2> TAKE q \in 1 .. n
  <2> DEFINE p == IF q = k THEN 1 ELSE IF q < k THEN q + 1 ELSE q
  <2> WITNESS p \in 1 .. n
  <2> QED
    OBVIOUS
<1> HIDE DEF x, Source
<1>4. Injective(x, n)
  BY <1>1, <1>2 DEF Injective
<1>5. \A p \in 1 .. n : \E q \in 1 .. n : x[p] = l[q]
  BY <1>1
<1>6. \A q \in 1 .. n : \E p \in 1 .. n : x[p] = l[q]
  BY <1>1, <1>3
<1>7. Covers(x, m, n)
  BY <1>5, <1>6, CoveringTwice
<1> QED
  BY <1>4, <1>7 DEF x

\* What the invariant says of the list, in terms of its length n.
LEMMA RearrangedList ==
    ASSUME FollowSortTypeOK
    PROVE  NothingLost <=> /\ Injective(list, Len(input))
                           /\ Covers(list, input, Len(input))
  BY ListIsSequence DEF NothingLost, Contract!Rearranges, Injective, Covers

-----------------------------------------------------------------------------
(* The invariant.                                                          *)

LEMMA InitSorts == Init => SortInv
<1> SUFFICES ASSUME Init PROVE SortInv
  OBVIOUS
<1>1. /\ input \in Seq(Segment) /\ list = input
      /\ \A i, j \in DOMAIN input : input[i] = input[j] => i = j
  BY InputAssumption DEF Init
<1>2. /\ Len(input) \in Nat /\ DOMAIN input = 1 .. Len(input)
      /\ input \in [1 .. Len(input) -> Segment]
  BY <1>1, LenProperties
<1>3. FollowSortTypeOK
  <2>1. list \in [DOMAIN input -> Segment] /\ Len(list) = Len(input)
    BY <1>1, <1>2
  <2>2. sorted \in 1 .. Len(list) + 1 /\ it \in 2 .. Len(list) + 2
    BY <1>2, <2>1 DEF Init
  <2>3. swapped \in BOOLEAN /\ pc \in {"read", "scan", "done", "thrown"}
    BY DEF Init
  <2> QED
    BY <2>1, <2>2, <2>3 DEF Init, FollowSortTypeOK
<1>4. NothingLost
  BY <1>1, <1>2 DEF NothingLost, Contract!Rearranges
<1> QED
  BY <1>1, <1>3, <1>4
  DEF SortInv, Init, Progress, PrefixContinuous, PassedSegmentsDoNotFit

\* After the read, a list that is out of order is scanned from its start.
LEMMA ReadSorts == SortInv /\ ReadCPACS => SortInv'
<1> SUFFICES ASSUME SortInv, ReadCPACS PROVE SortInv'
  OBVIOUS
<1>1. FollowSortTypeOK' /\ NothingLost'
  BY DEF SortInv, ReadCPACS, FollowSortTypeOK, NothingLost, Contract!Rearranges
<1>2. Len(list) \in Nat
  BY ListIsSequence DEF SortInv
<1>3. Progress'
  BY <1>2 DEF SortInv, ReadCPACS, Progress, NeedReordering, Continuous,
     Contract!Continuous, Contract!ContinuousUpTo, Contract!Follows
<1>4. PrefixContinuous' /\ PassedSegmentsDoNotFit'
  BY <1>2 DEF SortInv, ReadCPACS, Progress, PrefixContinuous,
     PassedSegmentsDoNotFit, Contract!ContinuousUpTo
<1> QED
  BY <1>1, <1>3, <1>4 DEF SortInv

\* What every step of the scan knows of the positions.
LEMMA ScanPositions ==
    ASSUME SortInv, Scanning
    PROVE  /\ Len(list) \in Nat /\ Len(list) = Len(input)
           /\ DOMAIN input = 1 .. Len(list)
           /\ list \in [1 .. Len(list) -> Segment]
           /\ sorted \in 1 .. Len(list) /\ sorted < it /\ it \in 1 .. Len(list)
           /\ sorted + 1 \in 1 .. Len(list)
           /\ Injective(list, Len(list)) /\ Covers(list, input, Len(list))
           /\ \A i \in 1 .. sorted - 1 : Follows(list[i + 1], list[i])
<1>1. /\ Len(list) \in Nat /\ Len(list) = Len(input)
      /\ DOMAIN input = 1 .. Len(list)
  BY ListIsSequence DEF SortInv
<1>2. list \in [1 .. Len(list) -> Segment]
  BY <1>1 DEF SortInv, FollowSortTypeOK
<1>3. sorted \in 1 .. Len(list) /\ sorted < it /\ it \in 1 .. Len(list)
      /\ sorted + 1 \in 1 .. Len(list)
  BY <1>1 DEF SortInv, Scanning, Progress, FollowSortTypeOK
<1>4. Injective(list, Len(list)) /\ Covers(list, input, Len(list))
  BY <1>1, RearrangedList DEF SortInv
<1>5. \A i \in 1 .. sorted - 1 : Follows(list[i + 1], list[i])
  BY DEF SortInv, Scanning, PrefixContinuous, Contract!ContinuousUpTo, Follows
<1> QED
  BY <1>1, <1>2, <1>3, <1>4, <1>5

\* A step of the scan that leaves a rearranged list, with one more sorted entry.
LEMMA GrownList ==
    ASSUME SortInv, Scanning,
           list' \in [1 .. Len(list) -> Segment],
           Injective(list', Len(list)), Covers(list', input, Len(list)),
           \A i \in 1 .. sorted : Contract!Follows(list'[i + 1], list'[i]),
           sorted' = sorted + 1, it' = it + 1, swapped' = TRUE,
           UNCHANGED <<ends, input, pc>>
    PROVE  SortInv'
<1>1. /\ Len(list) \in Nat /\ Len(list) = Len(input)
      /\ DOMAIN input = 1 .. Len(list)
      /\ sorted \in 1 .. Len(list) /\ sorted < it /\ it \in 1 .. Len(list)
  BY ScanPositions
<1>2. Len(list') = Len(list)
  BY <1>1, FunctionIsSequence
<1>3. FollowSortTypeOK'
  BY <1>1, <1>2 DEF SortInv, FollowSortTypeOK
<1>4. NothingLost'
  <2>1. DOMAIN list' = 1 .. Len(list)
    OBVIOUS
  <2> QED
    BY <1>1, <1>2, <2>1 DEF NothingLost, Contract!Rearranges, Injective, Covers
<1>5. Progress'
  BY <1>1, <1>2 DEF Scanning, Progress
<1>6. PrefixContinuous'
  <2>1. \A i \in 1 .. sorted' - 1 : ends'[list'[i + 1]].from = ends'[list'[i]].to
    BY <1>1 DEF Contract!Follows
  <2> QED
    BY <1>1, <2>1 DEF PrefixContinuous, Contract!ContinuousUpTo, Contract!Follows
<1>7. PassedSegmentsDoNotFit'
  BY DEF PassedSegmentsDoNotFit
<1> QED
  BY <1>3, <1>4, <1>5, <1>6, <1>7 DEF SortInv

LEMMA ExtendSorts == SortInv /\ Extend => SortInv'
<1> SUFFICES ASSUME SortInv, Extend PROVE SortInv'
  OBVIOUS
<1> DEFINE n == Len(list)
<1>1. Scanning
  BY DEF Extend
<1>2. /\ n \in Nat /\ list \in [1 .. n -> Segment]
      /\ sorted \in 1 .. n /\ sorted < it /\ it \in 1 .. n /\ sorted + 1 \in 1 .. n
      /\ Injective(list, n) /\ Covers(list, input, n)
      /\ \A i \in 1 .. sorted - 1 : Follows(list[i + 1], list[i])
  BY <1>1, ScanPositions
<1> HIDE DEF n
<1>3. /\ list' = Exchanged(list, it, sorted + 1)
      /\ Follows(list[it], list[sorted])
      /\ sorted' = sorted + 1 /\ it' = it + 1 /\ swapped' = TRUE
      /\ UNCHANGED <<ends, input, pc>>
  BY DEF Extend
<1>4. /\ list' \in [1 .. n -> Segment]
      /\ list'[sorted + 1] = list[it]
      /\ \A k \in 1 .. sorted : list'[k] = list[k]
  <2>1. /\ list' \in [1 .. n -> Segment]
        /\ list'[sorted + 1] = list[it]
        /\ \A k \in 1 .. n : k # it /\ k # sorted + 1 => list'[k] = list[k]
    BY <1>2, <1>3, Exchanging
  <2>2. \A k \in 1 .. sorted : k \in 1 .. n /\ k # it /\ k # sorted + 1
    BY <1>2
  <2> QED
    BY <2>1, <2>2
<1>5. Injective(list', n) /\ Covers(list', input, n)
  BY <1>2, <1>3, ExchangeRearranges
<1>6. \A i \in 1 .. sorted : Contract!Follows(list'[i + 1], list'[i])
  BY <1>2, <1>3, <1>4 DEF Follows
<1> QED
  BY <1>1, <1>3, <1>4, <1>5, <1>6, GrownList DEF n

LEMMA PrependSorts == SortInv /\ Prepend => SortInv'
<1> SUFFICES ASSUME SortInv, Prepend PROVE SortInv'
  OBVIOUS
<1> DEFINE n == Len(list)
           moved == Exchanged(list, it, sorted + 1)
<1>1. Scanning
  BY DEF Prepend
<1>2. /\ n \in Nat /\ list \in [1 .. n -> Segment]
      /\ sorted \in 1 .. n /\ sorted < it /\ it \in 1 .. n /\ sorted + 1 \in 1 .. n
      /\ Injective(list, n) /\ Covers(list, input, n)
      /\ \A i \in 1 .. sorted - 1 : Follows(list[i + 1], list[i])
  BY <1>1, ScanPositions
<1> HIDE DEF n
<1>3. /\ list' = Rotated(moved, sorted + 1)
      /\ Follows(list[1], list[it])
      /\ sorted' = sorted + 1 /\ it' = it + 1 /\ swapped' = TRUE
      /\ UNCHANGED <<ends, input, pc>>
  BY DEF Prepend
<1>4. /\ moved \in [1 .. n -> Segment]
      /\ moved[sorted + 1] = list[it]
      /\ \A k \in 1 .. sorted : moved[k] = list[k]
  BY <1>2, Exchanging
<1>5. Injective(moved, n) /\ Covers(moved, input, n)
  BY <1>2, ExchangeRearranges
<1> HIDE DEF moved
<1>6. /\ list' \in [1 .. n -> Segment]
      /\ list'[1] = list[it]
      /\ \A k \in 2 .. sorted + 1 : list'[k] = list[k - 1]
  <2>1. /\ list' \in [1 .. n -> Segment]
        /\ list'[1] = moved[sorted + 1]
        /\ \A k \in 2 .. sorted + 1 : list'[k] = moved[k - 1]
    BY <1>2, <1>3, <1>4, Rotating
  <2> QED
    BY <1>2, <1>4, <2>1
<1>7. Injective(list', n) /\ Covers(list', input, n)
  BY <1>2, <1>3, <1>4, <1>5, RotationRearranges
<1>8. \A i \in 1 .. sorted : Contract!Follows(list'[i + 1], list'[i])
  <2> SUFFICES ASSUME NEW i \in 1 .. sorted
               PROVE  Contract!Follows(list'[i + 1], list'[i])
    OBVIOUS
  <2>1. CASE i = 1
    BY <1>2, <1>3, <1>6, <2>1 DEF Follows
  <2>2. CASE i # 1
    <3>1. i - 1 \in 1 .. sorted - 1 /\ i + 1 \in 2 .. sorted + 1 /\ i \in 2 .. sorted + 1
      BY <1>2, <2>2
    <3>2. list'[i] = list[i - 1] /\ list'[i + 1] = list[(i - 1) + 1]
      BY <1>2, <1>6, <3>1
    <3> QED
      BY <1>2, <3>1, <3>2 DEF Follows
  <2> QED
    BY <2>1, <2>2
<1> QED
  BY <1>1, <1>3, <1>6, <1>7, <1>8, GrownList DEF n

LEMMA PassSorts == SortInv /\ Pass => SortInv'
<1> SUFFICES ASSUME SortInv, Pass PROVE SortInv'
  OBVIOUS
<1>1. Scanning /\ UNCHANGED <<ends, input, list, sorted, swapped, pc>> /\ it' = it + 1
  BY DEF Pass
<1>2. /\ Len(list) \in Nat
      /\ sorted \in 1 .. Len(list) /\ sorted < it /\ it \in 1 .. Len(list)
  BY <1>1, ScanPositions
<1>3. FollowSortTypeOK' /\ NothingLost'
  BY <1>1, <1>2 DEF SortInv, FollowSortTypeOK, NothingLost, Contract!Rearranges
<1>4. Progress'
  BY <1>1, <1>2 DEF Scanning, SortInv, Progress
<1>5. PrefixContinuous'
  BY <1>1, <1>2 DEF SortInv, PrefixContinuous, Contract!ContinuousUpTo, Contract!Follows
<1>6. PassedSegmentsDoNotFit'
  <2> SUFFICES ASSUME ~swapped, NEW i \in sorted + 1 .. it
               PROVE  ~Follows(list[i], list[sorted]) /\ ~Follows(list[1], list[i])
    BY <1>1, <1>2 DEF PassedSegmentsDoNotFit, Follows, Contract!Follows
  <2>1. CASE i = it
    BY <2>1 DEF Pass
  <2>2. CASE i # it
    BY <1>1, <1>2, <2>2 DEF Scanning, SortInv, PassedSegmentsDoNotFit
  <2> QED
    BY <2>1, <2>2
<1> QED
  BY <1>3, <1>4, <1>5, <1>6 DEF SortInv

LEMMA NextPassSorts == SortInv /\ NextPass => SortInv'
<1> SUFFICES ASSUME SortInv, NextPass PROVE SortInv'
  OBVIOUS
<1>1. /\ pc = "scan" /\ it > Len(list) /\ swapped' = FALSE /\ it' = sorted + 1
      /\ UNCHANGED <<ends, input, list, sorted, pc>>
  BY DEF NextPass
<1>2. /\ Len(list) \in Nat /\ sorted \in 1 .. Len(list) /\ sorted < it
  BY <1>1, ListIsSequence DEF SortInv, Progress, FollowSortTypeOK
<1>3. FollowSortTypeOK' /\ NothingLost'
  <2>1. it' \in 2 .. Len(list) + 2
    BY <1>1, <1>2
  <2>2. sorted' \in 1 .. Len(list') + 1 /\ it' \in 2 .. Len(list') + 2
    BY <1>1, <1>2, <2>1
  <2>3. FollowSortTypeOK'
    BY <1>1, <2>1, <2>2 DEF SortInv, FollowSortTypeOK
  <2> QED
    BY <1>1, <2>3 DEF SortInv, NothingLost, Contract!Rearranges
<1>4. Progress'
  BY <1>1, <1>2 DEF Progress
<1>5. PrefixContinuous' /\ PassedSegmentsDoNotFit'
  BY <1>1, <1>2 DEF SortInv, PrefixContinuous, PassedSegmentsDoNotFit,
     Contract!ContinuousUpTo, Contract!Follows
<1> QED
  BY <1>3, <1>4, <1>5 DEF SortInv

\* When the last pass added nothing, the whole list is sorted or nothing fits.
LEMMA FinishSorts == SortInv /\ Finish => SortInv'
<1> SUFFICES ASSUME SortInv, Finish PROVE SortInv'
  OBVIOUS
<1>1. /\ pc = "scan" /\ it > Len(list) /\ ~swapped
      /\ pc' = IF sorted = Len(list) THEN "done" ELSE "thrown"
      /\ UNCHANGED <<ends, input, list, sorted, it, swapped>>
  BY DEF Finish
<1>2. /\ Len(list) \in Nat /\ sorted \in 1 .. Len(list) /\ it = Len(list) + 1
  BY <1>1, ListIsSequence DEF SortInv, Progress, FollowSortTypeOK
<1>3. FollowSortTypeOK' /\ NothingLost'
  BY <1>1, <1>2 DEF SortInv, FollowSortTypeOK, NothingLost, Contract!Rearranges
<1>4. Contract!ContinuousUpTo(list, sorted)
  BY <1>1 DEF SortInv, PrefixContinuous
<1>5. CASE sorted = Len(list)
  <2>1. Progress'
    BY <1>1, <1>4, <1>5 DEF Progress, Continuous, Contract!Continuous,
       Contract!ContinuousUpTo, Contract!Follows
  <2> QED
    BY <1>1, <1>3, <1>5, <2>1 DEF SortInv, PrefixContinuous, PassedSegmentsDoNotFit
<1>6. CASE sorted # Len(list)
  <2>1. \A i \in sorted + 1 .. Len(list) :
           ~Follows(list[i], list[sorted]) /\ ~Follows(list[1], list[i])
    BY <1>1, <1>2 DEF SortInv, PassedSegmentsDoNotFit
  <2>2. Contract!StuckAt(list, sorted)
    BY <1>2, <1>4, <1>6, <2>1 DEF Contract!StuckAt, Follows
  <2>3. Progress'
    BY <1>1, <1>6, <2>2 DEF Progress, Contract!StuckAt, Contract!ContinuousUpTo,
       Contract!Follows
  <2> QED
    BY <1>1, <1>3, <1>6, <2>3 DEF SortInv, PrefixContinuous, PassedSegmentsDoNotFit
<1> QED
  BY <1>5, <1>6

-----------------------------------------------------------------------------
(* The theorems.                                                           *)

LEMMA NextSorts == SortInv /\ [Next]_vars => SortInv'
<1> SUFFICES ASSUME SortInv, [Next]_vars PROVE SortInv'
  OBVIOUS
<1>1. CASE ReadCPACS
  BY <1>1, ReadSorts
<1>2. CASE Extend
  BY <1>2, ExtendSorts
<1>3. CASE Prepend
  BY <1>3, PrependSorts
<1>4. CASE Pass
  BY <1>4, PassSorts
<1>5. CASE NextPass
  BY <1>5, NextPassSorts
<1>6. CASE Finish
  BY <1>6, FinishSorts
<1>7. CASE UNCHANGED vars
  BY <1>7 DEF vars, SortInv, FollowSortTypeOK, NothingLost, Progress, PrefixContinuous,
     PassedSegmentsDoNotFit, Continuous, Contract!Rearranges, Contract!StuckAt,
     Contract!Continuous, Contract!ContinuousUpTo, Follows, Contract!Follows
<1> QED
  BY <1>1, <1>2, <1>3, <1>4, <1>5, <1>6, <1>7 DEF Next

\* The invariant of the loop of follow_sort, for every list of segments.
THEOREM SortInvariant == Spec => []SortInv
  BY InitSorts, NextSorts, PTL DEF Spec

\* The positions of the loop stay in the list.
THEOREM SortTypeCorrect == Spec => []FollowSortTypeOK
<1>1. SortInv => FollowSortTypeOK
  BY DEF SortInv
<1> QED
  BY <1>1, SortInvariant, PTL

\* The sorted part is in order at every step.
THEOREM PrefixStaysContinuous == Spec => []PrefixContinuous
<1>1. SortInv => PrefixContinuous
  BY DEF SortInv
<1> QED
  BY <1>1, SortInvariant, PTL

\* No segment is lost or duplicated, also when an error is thrown.
THEOREM SortLosesNothing == Spec => []NothingLost
<1>1. SortInv => NothingLost
  BY DEF SortInv
<1> QED
  BY <1>1, SortInvariant, PTL

\* What a pass without an addition left behind fits nowhere.
THEOREM PassedSegmentsNeverFit == Spec => []PassedSegmentsDoNotFit
<1>1. SortInv => PassedSegmentsDoNotFit
  BY DEF SortInv
<1> QED
  BY <1>1, SortInvariant, PTL

-----------------------------------------------------------------------------
(* Refinement.                                                             *)

LEMMA InitContract == Init => Contract!ContractInit
  BY DEF Init, Contract!ContractInit

\* Where the sort ends, the caller's list makes its one step.
LEMMA EndIsContractStep ==
    ASSUME SortInv, SortInv', pc \in {"read", "scan"}, pc' \in {"done", "thrown"},
           UNCHANGED <<ends, input, list, sorted>>
    PROVE  Contract!ContractNext
<1>1. list' \in [DOMAIN input -> Segment] /\ Contract!Rearranges(list', input)
  BY DEF SortInv, FollowSortTypeOK, NothingLost, Contract!Rearranges
<1>2. CASE pc' = "done"
  <2>1. Contract!Continuous(list')
    BY <1>2 DEF SortInv, Progress, Continuous, Contract!Continuous,
       Contract!ContinuousUpTo, Contract!Follows
  <2> QED
    BY <1>1, <1>2, <2>1 DEF Contract!ContractNext, Contract!Succeed
<1>3. CASE pc' = "thrown"
  <2>1. Contract!StuckAt(list', sorted)
    BY <1>3 DEF SortInv, Progress, Contract!StuckAt, Contract!ContinuousUpTo,
       Contract!Follows
  <2>2. sorted \in DOMAIN input
    BY <2>1, ListIsSequence DEF SortInv, Contract!StuckAt
  <2> QED
    BY <1>1, <1>3, <2>1, <2>2 DEF Contract!ContractNext, Contract!Fail
<1> QED
  BY <1>2, <1>3

LEMMA NextContract ==
    SortInv /\ SortInv' /\ [Next]_vars => [Contract!ContractNext]_(Contract!contract)
<1> SUFFICES ASSUME SortInv, SortInv', [Next]_vars
             PROVE  [Contract!ContractNext]_(Contract!contract)
  OBVIOUS
<1>1. CASE ReadCPACS
  <2>1. CASE NeedReordering
    BY <1>1, <2>1 DEF ReadCPACS, Contract!contract
  <2>2. CASE ~NeedReordering
    BY <1>1, <2>2, EndIsContractStep DEF ReadCPACS
  <2> QED
    BY <2>1, <2>2
<1>2. CASE Extend
  BY <1>2 DEF Extend, Scanning, Contract!contract
<1>3. CASE Prepend
  BY <1>3 DEF Prepend, Scanning, Contract!contract
<1>4. CASE Pass
  BY <1>4 DEF Pass, Scanning, Contract!contract
<1>5. CASE NextPass
  BY <1>5 DEF NextPass, Contract!contract
<1>6. CASE Finish
  BY <1>6, EndIsContractStep DEF Finish
<1>7. CASE UNCHANGED vars
  BY <1>7 DEF vars, Contract!contract
<1> QED
  BY <1>1, <1>2, <1>3, <1>4, <1>5, <1>6, <1>7 DEF Next

\* To its caller, putting segments in order is one step that keeps the contract.
THEOREM SortImplementsContract == Spec => ImplementsContract
<1>1. Spec => []SortInv
  BY SortInvariant
<1> QED
  BY <1>1, InitContract, NextContract, PTL DEF Spec, ImplementsContract, Contract!ContractSpec

-----------------------------------------------------------------------------
(* Where an error is thrown there is no order.                             *)

\* A non-empty set of natural numbers has a smallest one.
LEMMA SmallestOf ==
    ASSUME NEW T \in SUBSET Nat, T # {}
    PROVE  \E x \in T : \A y \in T : x <= y
<1> DEFINE R == OpToRel(<, Nat)
<1>1. IsWellFoundedOn(R, Nat)
  BY NatLessThanWellFounded
<1>2. \A x, y \in Nat : x < y => <<x, y>> \in R
  BY DEF OpToRel
<1> HIDE DEF R
<1>3. PICK x \in T : \A y \in T : ~(<<y, x>> \in R)
  BY <1>1, WFMin
<1>4. \A y \in T : x <= y
  <2> TAKE y \in T
  <2>1. x \in Nat /\ y \in Nat /\ ~(y < x)
    BY <1>2, <1>3
  <2> QED
    BY <2>1
<1> QED
  BY <1>4

\* A set of positions that holds with each its neighbours, if it has any member,
\* has all positions.
LEMMA ClosedPositions ==
    ASSUME NEW n \in Nat, NEW In \in SUBSET (1 .. n), NEW p \in In,
           \A q \in 1 .. n - 1 : q \in In <=> q + 1 \in In
    PROVE  In = 1 .. n
<1>1. \A q \in p .. n : q \in In
  <2> DEFINE T == {q \in Nat : q \in p .. n /\ q \notin In}
  <2>1. CASE T = {}
    <3> TAKE q \in p .. n
    <3>1. q \in Nat /\ q \notin T
      BY <2>1
    <3> QED
      BY <3>1
  <2>2. CASE T # {}
    <3>1. T \in SUBSET Nat
      OBVIOUS
    <3> HIDE DEF T
    <3>2. PICK q \in T : \A y \in T : q <= y
      BY <2>2, <3>1, SmallestOf
    <3> USE DEF T
    <3>3. q \in p .. n /\ q \notin In
      BY <3>2
    <3>4. q - 1 \in 1 .. n - 1 /\ q - 1 \in p .. n /\ (q - 1) + 1 = q
      BY <3>3
    <3>5. q - 1 \notin T
      BY <3>2, <3>4
    <3> QED
      BY <3>3, <3>4, <3>5
  <2> QED
    BY <2>1, <2>2
<1>2. \A q \in 1 .. p : q \in In
  <2> DEFINE T == {d \in Nat : d \in 0 .. p - 1 /\ p - d \notin In}
  <2>1. CASE T = {}
    <3> TAKE q \in 1 .. p
    <3>1. p - q \in Nat /\ p - q \in 0 .. p - 1 /\ p - (p - q) = q
      OBVIOUS
    <3>2. p - q \notin T
      BY <2>1
    <3> QED
      BY <3>1, <3>2
  <2>2. CASE T # {}
    <3>1. T \in SUBSET Nat
      OBVIOUS
    <3> HIDE DEF T
    <3>2. PICK d \in T : \A y \in T : d <= y
      BY <2>2, <3>1, SmallestOf
    <3> USE DEF T
    <3>3. d \in 0 .. p - 1 /\ p - d \notin In
      BY <3>2
    <3>4. d # 0
      BY <3>3
    <3>5. d - 1 \in Nat /\ d - 1 \in 0 .. p - 1 /\ d - 1 \notin T
      BY <3>2, <3>3, <3>4
    <3>6. p - (d - 1) \in In /\ p - d \in 1 .. n - 1 /\ (p - d) + 1 = p - (d - 1)
      BY <3>3, <3>4, <3>5
    <3> QED
      BY <3>3, <3>6
  <2> QED
    BY <2>1, <2>2
<1>3. \A q \in 1 .. n : q \in p .. n \/ q \in 1 .. p
  OBVIOUS
<1> QED
  BY <1>1, <1>2, <1>3

\* If the sorted part of an unambiguous list is stuck, no order c of the same
\* segments is continuous: along c, the sorted part would have no boundary.
LEMMA StuckHasNoChain ==
    ASSUME NEW n \in Nat, NEW l, NEW c, NEW s \in 1 .. n - 1,
           Injective(l, n), Covers(c, l, n),
           \A i, j \in 1 .. n : \/ ends[l[i]].from = ends[l[j]].from
                               \/ ends[l[i]].to = ends[l[j]].to
                               => i = j,
           \A i \in 1 .. s - 1 : Follows(l[i + 1], l[i]),
           \A i \in s + 1 .. n : ~Follows(l[i], l[s]) /\ ~Follows(l[1], l[i]),
           \A i \in 1 .. n - 1 : Follows(c[i + 1], c[i])
    PROVE  FALSE
<1> DEFINE In == {p \in 1 .. n : \E k \in 1 .. s : c[p] = l[k]}
<1>1. \A p \in 1 .. n : \E m \in 1 .. n : c[p] = l[m]
  BY DEF Covers
<1>2. \A p \in 1 .. n - 1 : p \in In => p + 1 \in In
  <2> SUFFICES ASSUME NEW p \in 1 .. n - 1, p \in In PROVE p + 1 \in In
    OBVIOUS
  <2>1. PICK k \in 1 .. s : c[p] = l[k]
    OBVIOUS
  <2>2. PICK m \in 1 .. n : c[p + 1] = l[m]
    BY <1>1
  <2>3. ends[l[m]].from = ends[l[k]].to
    BY <2>1, <2>2 DEF Follows, Contract!Follows
  <2>4. CASE k = s
    <3>1. ~(m \in s + 1 .. n)
      BY <2>3, <2>4 DEF Follows, Contract!Follows
    <3>2. m \in 1 .. s
      BY <3>1
    <3> QED
      BY <2>2, <3>2
  <2>5. CASE k # s
    <3>1. k \in 1 .. s - 1 /\ k + 1 \in 1 .. s /\ k + 1 \in 1 .. n
      BY <2>5
    <3>2. ends[l[k + 1]].from = ends[l[k]].to
      BY <3>1 DEF Follows, Contract!Follows
    <3>3. m = k + 1
      BY <2>3, <3>1, <3>2
    <3> QED
      BY <2>2, <3>1, <3>3
  <2> QED
    BY <2>4, <2>5
<1>3. \A p \in 1 .. n - 1 : p + 1 \in In => p \in In
  <2> SUFFICES ASSUME NEW p \in 1 .. n - 1, p + 1 \in In PROVE p \in In
    OBVIOUS
  <2>1. PICK k \in 1 .. s : c[p + 1] = l[k]
    OBVIOUS
  <2>2. PICK m \in 1 .. n : c[p] = l[m]
    BY <1>1
  <2>3. ends[l[k]].from = ends[l[m]].to
    BY <2>1, <2>2 DEF Follows, Contract!Follows
  <2>4. CASE k = 1
    <3>1. ~(m \in s + 1 .. n)
      BY <2>3, <2>4 DEF Follows, Contract!Follows
    <3>2. m \in 1 .. s
      BY <3>1
    <3> QED
      BY <2>2, <3>2
  <2>5. CASE k # 1
    <3>1. k - 1 \in 1 .. s - 1 /\ k - 1 \in 1 .. s /\ k - 1 \in 1 .. n
          /\ (k - 1) + 1 = k
      BY <2>5
    <3>2. ends[l[k]].from = ends[l[k - 1]].to
      BY <3>1 DEF Follows, Contract!Follows
    <3>3. m = k - 1
      BY <2>3, <3>1, <3>2
    <3> QED
      BY <2>2, <3>1, <3>3
  <2> QED
    BY <2>4, <2>5
<1>4. \A m \in 1 .. n : \E p \in 1 .. n : c[p] = l[m]
  BY DEF Covers
<1>5. PICK p \in 1 .. n : c[p] = l[1]
  BY <1>4
<1>6. PICK q \in 1 .. n : c[q] = l[n]
  BY <1>4
<1>7. p \in In
  BY <1>5
<1>8. q \notin In
  BY <1>6 DEF Injective
<1> HIDE DEF In
<1>9. In = 1 .. n
  <2>1. In \in SUBSET (1 .. n)
    BY DEF In
  <2> QED
    BY <1>2, <1>3, <1>7, <2>1, ClosedPositions
<1> QED
  BY <1>8, <1>9

LEMMA ErrorMeansNoOrder == SortInv => ChainsAreSorted
<1> SUFFICES ASSUME SortInv, pc = "thrown", Unambiguous,
                    NEW order \in [DOMAIN input -> DOMAIN input]
             PROVE  ~LET chain == [i \in DOMAIN input |-> input[order[i]]]
                     IN Contract!Rearranges(chain, input) /\ Continuous(chain)
  BY DEF ChainsAreSorted
<1> DEFINE c == [i \in DOMAIN input |-> input[order[i]]]
           n == Len(input)
<1> SUFFICES ASSUME Contract!Rearranges(c, input), Continuous(c) PROVE FALSE
  OBVIOUS
<1>1. /\ input \in Seq(Segment) /\ n \in Nat /\ DOMAIN input = 1 .. n
      /\ list \in Seq(Segment) /\ Len(list) = n /\ DOMAIN list = 1 .. n
  BY ListIsSequence DEF SortInv
<1>2. c \in [1 .. n -> Segment] /\ Len(c) = n /\ DOMAIN c = 1 .. n
  <2>1. c \in [1 .. n -> Segment]
    <3>1. input \in [1 .. n -> Segment]
      BY <1>1, LenProperties
    <3> QED
      BY <1>1, <3>1
  <2> QED
    BY <1>1, <2>1, FunctionIsSequence
<1>3. Injective(list, n) /\ Covers(list, input, n)
  BY RearrangedList DEF SortInv
<1>4. Covers(c, input, n)
  BY <1>1, <1>2 DEF Contract!Rearranges, Covers
<1>5. \A i \in 1 .. n - 1 : Follows(c[i + 1], c[i])
  BY <1>2 DEF Continuous, Contract!Continuous, Contract!ContinuousUpTo, Follows
<1> HIDE DEF c, n
<1>6. Covers(c, list, n)
  <2>1. \A i \in 1 .. n : \E j \in 1 .. n : c[j] = list[i]
    <3> TAKE i \in 1 .. n
    <3>1. PICK k \in 1 .. n : list[i] = input[k]
      BY <1>3 DEF Covers
    <3>2. PICK j \in 1 .. n : c[j] = input[k]
      BY <1>4 DEF Covers
    <3> QED
      BY <3>1, <3>2
  <2>2. \A j \in 1 .. n : \E i \in 1 .. n : c[j] = list[i]
    <3> TAKE j \in 1 .. n
    <3>1. PICK k \in 1 .. n : c[j] = input[k]
      BY <1>4 DEF Covers
    <3>2. PICK i \in 1 .. n : list[i] = input[k]
      BY <1>3 DEF Covers
    <3> QED
      BY <3>1, <3>2
  <2> QED
    BY <2>1, <2>2 DEF Covers
<1>7. \A i, j \in 1 .. n : \/ ends[list[i]].from = ends[list[j]].from
                          \/ ends[list[i]].to = ends[list[j]].to
                          => i = j
  <2> TAKE i, j \in 1 .. n
  <2> HAVE \/ ends[list[i]].from = ends[list[j]].from
           \/ ends[list[i]].to = ends[list[j]].to
  <2>1. PICK k \in 1 .. n : list[i] = input[k]
    BY <1>3 DEF Covers
  <2>2. PICK m \in 1 .. n : list[j] = input[m]
    BY <1>3 DEF Covers
  <2>3. k = m
    BY <1>1, <2>1, <2>2 DEF Unambiguous
  <2> QED
    BY <1>3, <2>1, <2>2, <2>3 DEF Injective
<1>8. /\ sorted \in 1 .. n - 1
      /\ \A i \in 1 .. sorted - 1 : Follows(list[i + 1], list[i])
      /\ \A i \in sorted + 1 .. n : /\ ~Follows(list[i], list[sorted])
                                   /\ ~Follows(list[1], list[i])
  BY <1>1 DEF SortInv, Progress, Contract!StuckAt, Contract!ContinuousUpTo, Follows
<1> QED
  BY <1>1, <1>3, <1>5, <1>6, <1>7, <1>8, StuckHasNoChain

\* The segments of a chain are put in order, however many there are and however
\* they are mixed up; an error means that there is no order.
THEOREM ChainsAreAlwaysSorted == Spec => []ChainsAreSorted
  BY SortInvariant, ErrorMeansNoOrder, PTL

=============================================================================
