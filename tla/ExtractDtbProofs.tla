-------------------------- MODULE ExtractDtbProofs --------------------------
(* TypeOK and FindsEveryTree of ExtractDtb, for any images and containers, any *)
(* size of a header and any least size of a tree.                              *)
EXTENDS ExtractDtb, FiniteSetTheorems, TLAPS

(* What has been written is what there is in front of the place to go on at.   *)
IsTree(i) == IF kind = "raw" THEN IsFdt(i) ELSE image[i] = "fdt"
Passed == {i \in DOMAIN image : i < off /\ IsTree(i)}

DtbInv ==
  /\ TypeOK /\ image \in Images \cup Containers
  /\ {written[n] : n \in DOMAIN written} = Passed
  /\ Len(written) = Cardinality(Passed)
  /\ \A m, n \in DOMAIN written : m < n => written[m] < written[n]
  /\ state = "done" => \A i \in DOMAIN image : IsTree(i) => i < off

-----------------------------------------------------------------------------
(* A set of numbers has a least one: of the intervals that end in one of them, *)
(* one has no other inside it.                                                 *)
LEMMA LeastMember ==
  ASSUME NEW S \in SUBSET Nat, S # {}
  PROVE  Min(S) \in S /\ \A i \in S : Min(S) <= i
<1> DEFINE T == {1..i : i \in S}
<1>1. T \subseteq FiniteSubsetsOf(Nat) /\ T # {}
  <2>1. \A i \in S : 1..i \subseteq Nat /\ IsFiniteSet(1..i)
    BY FS_Interval
  <2> QED  BY <2>1 DEF FiniteSubsetsOf
<1> HIDE DEF T
<1>2. PICK x \in T : \A y \in T : <<y, x>> \notin StrictSubsetOrdering(Nat)
  BY <1>1, FS_StrictSubsetOrderingWellFounded, WFMin
<1>3. PICK i \in S : x = 1..i
  BY DEF T
<1>4. ASSUME NEW j \in S, j < i PROVE FALSE
  <2>1. 1..j \in T
    BY DEF T
  <2>2. 1..j \subseteq 1..i /\ i \in 1..i /\ i \notin 1..j /\ 1..i \subseteq Nat
    BY <1>4
  <2>3. <<1..j, x>> \in StrictSubsetOrdering(Nat)
    BY <1>3, <2>2 DEF StrictSubsetOrdering
  <2> QED  BY <1>2, <2>1, <2>3
<1>5. \A j \in S : i <= j
  BY <1>4
<1> QED  BY <1>5 DEF Min

LEMMA ImageType ==
  ASSUME ImagesAssumption, image \in Images \cup Containers
  PROVE  Len(image) \in Nat /\ DOMAIN image = 1..Len(image)
  BY DEF ImagesAssumption

LEMMA PassedIsFinite ==
  ASSUME ImagesAssumption, DtbInv
  PROVE  IsFiniteSet(Passed)
<1>1. DOMAIN image = 1..Len(image) /\ Len(image) \in Int
  BY ImageType DEF DtbInv
<1>2. IsFiniteSet(1..Len(image))
  BY <1>1, FS_Interval
<1>3. Passed \in SUBSET (1..Len(image))
  BY <1>1 DEF Passed
<1> QED  BY <1>2, <1>3, FS_Subset

-----------------------------------------------------------------------------
LEMMA DtbInit ==
  ASSUME ImagesAssumption, Init
  PROVE  DtbInv
<1>1. image \in Images \cup Containers
  BY DEF Init
<1>2. TypeOK
  BY <1>1, ImageType DEF Init, TypeOK
<1>3. Passed = {}
  BY <1>1, ImageType DEF Init, Passed
<1> QED  BY <1>1, <1>2, <1>3, FS_EmptySet DEF Init, DtbInv

(* The scan goes on behind i, where there is a tree or not, and it has left    *)
(* none out in between.                                                        *)
LEMMA Advance ==
  ASSUME ImagesAssumption, DtbInv, state = "scanning",
         NEW i \in DOMAIN image, off <= i,
         \A j \in DOMAIN image : off <= j /\ j < i => ~IsTree(j),
         off' = i + 1,
         written' = IF IsTree(i) THEN Append(written, i) ELSE written,
         UNCHANGED <<kind, image, state>>
  PROVE  DtbInv'
<1>1. /\ Len(image) \in Nat /\ DOMAIN image = 1..Len(image)
      /\ off \in 1..Len(image) + 1 /\ written \in Seq(1..Len(image))
  BY ImageType DEF DtbInv, TypeOK
<1>2. \A j \in DOMAIN image : IsTree(j)' = IsTree(j)
  BY DEF IsTree, IsFdt, Left
<1>3. Passed' = IF IsTree(i) THEN Passed \cup {i} ELSE Passed
  <2>1. Passed' = {j \in DOMAIN image : j < i + 1 /\ IsTree(j)}
    BY <1>2 DEF Passed
  <2>2. \A j \in DOMAIN image :
          (j < i + 1 /\ IsTree(j)) <=> ((j < off /\ IsTree(j)) \/ (j = i /\ IsTree(i)))
    BY <1>1
  <2> QED  BY <2>1, <2>2 DEF Passed
<1>4. i \notin Passed
  BY <1>1 DEF Passed
<1>5. TypeOK'
  <2>1. off' \in 1..Len(image) + 1
    BY <1>1
  <2>2. i \in 1..Len(image) /\ written \in Seq(1..Len(image))
    BY <1>1
  <2>3. written' \in Seq(1..Len(image))
    <3>1. CASE IsTree(i)
      BY <2>2, <3>1
    <3>2. CASE ~IsTree(i)
      BY <2>2, <3>2
    <3> QED  BY <3>1, <3>2
  <2> QED  BY <2>1, <2>3 DEF DtbInv, TypeOK
<1>6. CASE IsTree(i)
  <2>1. /\ Len(written') = Len(written) + 1
        /\ DOMAIN written' = 1..Len(written) + 1 /\ DOMAIN written = 1..Len(written)
        /\ Len(written) \in Nat
        /\ \A n \in DOMAIN written : written'[n] = written[n]
        /\ written'[Len(written) + 1] = i
    BY <1>1, <1>6
  <2>2. {written'[n] : n \in DOMAIN written'} = Passed'
    <3>1. {written'[n] : n \in DOMAIN written'} = {written[n] : n \in DOMAIN written} \cup {i}
      BY <2>1
    <3> QED  BY <1>3, <1>6, <3>1 DEF DtbInv
  <2>3. Len(written') = Cardinality(Passed')
    <3>1. IsFiniteSet(Passed)
      BY PassedIsFinite
    <3>2. Cardinality(Passed \cup {i}) = Cardinality(Passed) + 1
      BY <1>4, <3>1, FS_AddElement
    <3> QED  BY <1>3, <1>6, <2>1, <3>2 DEF DtbInv
  <2>4. \A n \in DOMAIN written : written[n] < i
    <3>1. \A n \in DOMAIN written : written[n] \in Passed
      BY DEF DtbInv
    <3> QED  BY <1>1, <3>1 DEF Passed
  <2>5. \A m, n \in DOMAIN written' : m < n => written'[m] < written'[n]
    <3>1. \A m, n \in DOMAIN written : m < n => written[m] < written[n]
      BY DEF DtbInv
    <3> QED  BY <2>1, <2>4, <3>1
  <2> QED  BY <1>5, <2>2, <2>3, <2>5 DEF DtbInv
<1>7. CASE ~IsTree(i)
  BY <1>3, <1>5, <1>7 DEF DtbInv
<1> QED  BY <1>6, <1>7

(* The scan ends, at the end of the image or at a table that is cut off.       *)
LEMMA Ends ==
  ASSUME ImagesAssumption, DtbInv, state' \in {"done", "raised"},
         state' = "done" => \A i \in DOMAIN image : IsTree(i) => i < off,
         UNCHANGED <<kind, image, off, written>>
  PROVE  DtbInv'
<1>1. \A j \in DOMAIN image : IsTree(j)' = IsTree(j)
  BY DEF IsTree, IsFdt, Left
<1>2. Passed' = Passed
  BY <1>1 DEF Passed
<1> QED  BY <1>1, <1>2 DEF DtbInv, TypeOK

LEMMA DtbStep ==
  ASSUME ImagesAssumption, DtbInv, [Next]_vars
  PROVE  DtbInv'
<1>1. /\ Len(image) \in Nat /\ DOMAIN image = 1..Len(image)
      /\ off \in 1..Len(image) + 1
  BY ImageType DEF DtbInv, TypeOK
<1>2. CASE UNCHANGED vars
  <2>1. Passed' = Passed /\ \A j \in DOMAIN image : IsTree(j)' = IsTree(j)
    BY <1>2 DEF vars, Passed, IsTree, IsFdt, Left
  <2> QED  BY <1>2, <2>1 DEF vars, DtbInv, TypeOK
<1>3. CASE Scan
  <2> DEFINE hits == {i \in off..Len(image) : image[i] # 0}
  <2>0. kind = "raw" /\ state = "scanning" /\ UNCHANGED <<kind, image>>
    BY <1>3 DEF Scan
  <2>1. \A i \in DOMAIN image : off <= i /\ IsTree(i) => i \in hits
    BY <1>1, <2>0 DEF IsTree, IsFdt
  <2>2. CASE hits = {}
    <3>1. state' = "done" /\ UNCHANGED <<off, written>>
      BY <1>3, <2>2 DEF Scan
    <3> QED  BY <1>1, <2>0, <2>1, <2>2, <3>1, Ends
  <2>3. CASE hits # {}
    <3> DEFINE i == Min(hits)
    <3>1. i \in hits /\ \A j \in hits : i <= j
      <4>1. hits \in SUBSET Nat
        BY <1>1
      <4> QED  BY <2>3, <4>1, LeastMember
    <3>2. /\ off' = i + 1 /\ UNCHANGED state
          /\ written' = IF IsTree(i) THEN Append(written, i) ELSE written
      BY <1>3, <2>0, <2>3 DEF Scan, AfterMagic, IsTree
    <3> HIDE DEF i
    <3>3. i \in DOMAIN image /\ off <= i
      BY <1>1, <3>1
    <3>4. \A j \in DOMAIN image : off <= j /\ j < i => ~IsTree(j)
      BY <1>1, <2>1, <3>1, <3>3
    <3> QED  BY <2>0, <3>2, <3>3, <3>4, Advance
  <2> QED  BY <2>2, <2>3
<1>4. CASE Entry
  <2>0. kind = "dtbo" /\ state = "scanning" /\ UNCHANGED <<kind, image>>
    BY <1>4 DEF Entry
  <2>1. CASE off > Len(image)
    <3>1. state' = "done" /\ UNCHANGED <<off, written>>
      BY <1>4, <2>1 DEF Entry
    <3> QED  BY <1>1, <2>0, <2>1, <3>1, Ends
  <2>2. CASE off <= Len(image) /\ image[off] = "cut"
    <3>1. state' = "raised" /\ UNCHANGED <<off, written>>
      BY <1>1, <1>4, <2>2 DEF Entry
    <3> QED  BY <2>0, <3>1, Ends
  <2>3. CASE off <= Len(image) /\ image[off] # "cut"
    <3>1. /\ off' = off + 1 /\ UNCHANGED state
          /\ written' = IF IsTree(off) THEN Append(written, off) ELSE written
      BY <1>1, <1>4, <2>0, <2>3 DEF Entry, IsTree
    <3>2. off \in DOMAIN image
      BY <1>1, <2>3
    <3>3. \A j \in DOMAIN image : off <= j /\ j < off => ~IsTree(j)
      BY <1>1
    <3> QED  BY <1>1, <2>0, <3>1, <3>2, <3>3, Advance
  <2> QED  BY <1>1, <2>1, <2>2, <2>3
<1> QED  BY <1>2, <1>3, <1>4 DEF Next

-----------------------------------------------------------------------------
LEMMA Invariance == ASSUME ImagesAssumption PROVE Spec => []DtbInv
<1>1. DtbInv /\ [Next]_vars => DtbInv'
  BY DtbStep
<1> QED  BY <1>1, DtbInit, PTL DEF Spec

(* The variables have their types.                                             *)
THEOREM TypeCorrect == ASSUME ImagesAssumption PROVE Spec => []TypeOK
<1>1. DtbInv => TypeOK
  BY DEF DtbInv
<1> QED  BY <1>1, Invariance, PTL

(* Every device tree of an image of any length is written once and in order,   *)
(* and nothing else (extract_appended, extract_dtbo).                          *)
THEOREM EveryTreeIsFound == ASSUME ImagesAssumption PROVE Spec => []FindsEveryTree
<1>1. DtbInv => FindsEveryTree
  <2> SUFFICES ASSUME DtbInv, state = "done" PROVE FindsEveryTree
    BY DEF FindsEveryTree
  <2>1. Passed = {i \in DOMAIN image : IF kind = "raw" THEN IsFdt(i) ELSE image[i] = "fdt"}
    BY DEF DtbInv, Passed, IsTree
  <2> QED  BY <2>1 DEF DtbInv, FindsEveryTree
<1> QED  BY <1>1, Invariance, PTL
=============================================================================
