---------------------------- MODULE QueryProofs ----------------------------
(* Proofs about Query: types, and what merging, over-fetching and filtering *)
(* the results of segments return.                                         *)
EXTENDS Query, FiniteSetTheorems, SequenceTheorems, WellFoundedInduction, TLAPS

-----------------------------------------------------------------------------
(* Nearest hits                                                            *)

Closer(S, q, h) == {g \in S : Dist(q, g.at) < Dist(q, h.at)}

LEMMA DistNat == \A p, q \in Points : Dist(p, q) \in Nat
    BY FlatAssumption DEF Dist

LEMMA HitDist == \A q \in Points, h \in Hit : Dist(q, h.at) \in Nat
    BY DistNat DEF Hit

LEMMA NearestDef ==
    ASSUME NEW S, NEW q, NEW k
    PROVE  Nearest(S, q, k) = {h \in S : Cardinality(Closer(S, q, h)) < k}
    BY DEF Nearest, Closer

LEMMA CloserFinite ==
    ASSUME NEW S, IsFiniteSet(S), NEW q, NEW h
    PROVE  /\ IsFiniteSet(Closer(S, q, h))
           /\ Cardinality(Closer(S, q, h)) \in Nat
    <1>1. Closer(S, q, h) \in SUBSET S
        BY DEF Closer
    <1> QED
        BY <1>1, FS_Subset, FS_CardinalityType

\* Among fewer hits a hit is near enough if it is among more.
LEMMA NearestOfFewer ==
    ASSUME NEW T, IsFiniteSet(T), NEW S \in SUBSET T, NEW q, NEW k \in Nat,
           NEW h \in S, h \in Nearest(T, q, k)
    PROVE  h \in Nearest(S, q, k)
    <1>1. Closer(S, q, h) \in SUBSET Closer(T, q, h)
        BY DEF Closer
    <1>2. Cardinality(Closer(S, q, h)) <= Cardinality(Closer(T, q, h))
        BY <1>1, CloserFinite, FS_Subset
    <1>3. IsFiniteSet(S)
        BY FS_Subset
    <1>4. Cardinality(Closer(S, q, h)) \in Nat /\ Cardinality(Closer(T, q, h)) \in Nat
        BY <1>3, CloserFinite
    <1> QED
        BY <1>2, <1>4, NearestDef

\* Some hit has no closer one.
LEMMA LeastHit ==
    ASSUME NEW R, R \subseteq Hit, R # {}, NEW q \in Points
    PROVE  \E m \in R : \A g \in R : ~(Dist(q, g.at) < Dist(q, m.at))
    <1> DEFINE D == {Dist(q, g.at) : g \in R}
    <1>1. D \subseteq Nat /\ D # {}
        BY HitDist
    <1>2. PICK x \in D : \A y \in D : ~(<<y, x>> \in OpToRel(<, Nat))
        BY <1>1, NatLessThanWellFounded, WFMin
    <1>3. \A y \in D : ~(y < x)
        BY <1>1, <1>2 DEF OpToRel
    <1>4. PICK m \in R : x = Dist(q, m.at)
        BY <1>2
    <1> QED
        BY <1>3, <1>4

\* k of the nearest are k, if there are as many.
LEMMA NearestEnough ==
    ASSUME NEW C, IsFiniteSet(C), C \subseteq Hit, NEW q \in Points, NEW k \in Nat,
           k <= Cardinality(C)
    PROVE  k <= Cardinality(Nearest(C, q, k))
    <1> DEFINE N == Nearest(C, q, k)
    <1>1. N \in SUBSET C /\ IsFiniteSet(N) /\ Cardinality(N) \in Nat /\ Cardinality(C) \in Nat
        BY NearestDef, FS_Subset, FS_CardinalityType
    <1>2. SUFFICES ASSUME Cardinality(N) < k PROVE FALSE
        BY <1>1
    <1>3. C \ N # {}
        BY <1>1, <1>2
    <1>4. PICK m \in C \ N : \A g \in C \ N : ~(Dist(q, g.at) < Dist(q, m.at))
        BY <1>3, LeastHit
    <1>5. Closer(C, q, m) \in SUBSET N
        BY <1>4 DEF Closer
    <1>6. Cardinality(Closer(C, q, m)) <= Cardinality(N)
        BY <1>1, <1>5, FS_Subset
    <1>7. Cardinality(Closer(C, q, m)) < k
        BY <1>1, <1>2, <1>6, CloserFinite
    <1> QED
        BY <1>4, <1>7, NearestDef

\* The nearest of a part that has the nearest of all are the nearest of all.
LEMMA NearestOfPart ==
    ASSUME NEW U, IsFiniteSet(U), U \subseteq Hit, NEW q \in Points, NEW k \in Nat,
           NEW T \in SUBSET U, Nearest(U, q, k) \subseteq T
    PROVE  Nearest(T, q, k) = Nearest(U, q, k)
    <1>1. ASSUME NEW h \in Nearest(U, q, k) PROVE h \in Nearest(T, q, k)
        BY NearestOfFewer
    <1>2. ASSUME NEW h \in Nearest(T, q, k), h \notin Nearest(U, q, k) PROVE FALSE
        <2> DEFINE C == Closer(U, q, h)
                   N == Nearest(C, q, k)
        <2>1. h \in T /\ h \in U /\ C \in SUBSET U /\ C \subseteq Hit
            BY <1>2, NearestDef DEF Closer
        <2>2. IsFiniteSet(C) /\ Cardinality(C) \in Nat
            BY CloserFinite
        <2>3. k <= Cardinality(C)
            BY <1>2, <2>1, <2>2, NearestDef
        <2>4. k <= Cardinality(N)
            BY <2>1, <2>2, <2>3, NearestEnough
        <2>5. ASSUME NEW g \in N PROVE g \in Closer(T, q, h)
            <3>1. g \in C /\ Cardinality(Closer(C, q, g)) < k
                BY NearestDef
            <3>2. g \in U /\ Dist(q, g.at) < Dist(q, h.at)
                BY <3>1 DEF Closer
            <3>3. Closer(U, q, g) = Closer(C, q, g)
                BY <2>1, <3>2, HitDist DEF Closer
            <3>4. g \in Nearest(U, q, k)
                BY <3>1, <3>2, <3>3, NearestDef
            <3> QED
                BY <3>2, <3>4 DEF Closer
        <2>6. IsFiniteSet(T)
            BY FS_Subset
        <2>7. N \in SUBSET Closer(T, q, h)
            BY <2>5
        <2>8. Cardinality(N) <= Cardinality(Closer(T, q, h))
            BY <2>6, <2>7, CloserFinite, FS_Subset
        <2>9. Cardinality(N) \in Nat /\ Cardinality(Closer(T, q, h)) \in Nat
            BY <2>6, <2>7, CloserFinite, FS_Subset, FS_CardinalityType
        <2>10. Cardinality(Closer(T, q, h)) < k
            BY NearestDef
        <2> QED
            BY <2>4, <2>8, <2>9, <2>10
    <1> QED
        BY <1>1, <1>2

\* Merging the nearest of every part of U gives the nearest of U.
LEMMA MergeIsExact ==
    ASSUME NEW U, IsFiniteSet(U), U \subseteq Hit, NEW q \in Points, NEW k \in Nat,
           NEW F, UNION F = U
    PROVE  Nearest(UNION {Nearest(S, q, k) : S \in F}, q, k) = Nearest(U, q, k)
    <1> DEFINE T == UNION {Nearest(S, q, k) : S \in F}
    <1>1. T \in SUBSET U
        BY NearestDef
    <1>2. ASSUME NEW h \in Nearest(U, q, k) PROVE h \in T
        <2>1. PICK S \in F : h \in S
            BY NearestDef
        <2>2. S \in SUBSET U
            BY <2>1
        <2>3. h \in Nearest(S, q, k)
            BY <2>1, <2>2, NearestOfFewer
        <2> QED
            BY <2>1, <2>3
    <1> HIDE DEF T
    <1>3. Nearest(T, q, k) = Nearest(U, q, k)
        BY <1>1, <1>2, NearestOfPart
    <1> QED
        BY <1>3 DEF T

\* More of the nearest include the nearest.
LEMMA NearestOfMore ==
    ASSUME NEW U, IsFiniteSet(U), NEW q, NEW k \in Nat, NEW n \in Nat, k <= n
    PROVE  Nearest(U, q, k) \subseteq Nearest(U, q, n)
    <1>1. \A h : Cardinality(Closer(U, q, h)) \in Nat
        BY CloserFinite
    <1> QED
        BY <1>1, NearestDef

-----------------------------------------------------------------------------
(* Type correctness.                                                       *)

AllSegments == {segments[i] : i \in DOMAIN segments} \cup {mutable}

\* A removal needs a vector to count down: the documents of id_to_idx_ are no
\* more than the vectors that are scanned.
Mapped(ix) == {d \in Docs : ix.slotOf[d] # 0}

FlatOK(ix) == FlatLike(ix) /\ Cardinality(Mapped(ix)) <= ix.size

SegmentOK(seg) == SegmentLike(seg) /\ FlatOK(seg.index)

OKSegments ==
    {seg \in [index : [data : Seq(Points), ids : Seq(Docs \cup {Invalid}),
                       slotOf : [Docs -> Nat], size : Nat],
              count : Nat] : SegmentOK(seg)}

LEMMA MappedFinite ==
    ASSUME NEW ix
    PROVE  IsFiniteSet(Mapped(ix)) /\ Cardinality(Mapped(ix)) \in Nat
    BY QueryAssumption, FS_Subset, FS_CardinalityType DEF Mapped

LEMMA FreshOK == FreshSegment \in OKSegments
    <1>1. EmptyFlat.data \in Seq(Points) /\ EmptyFlat.ids \in Seq(Docs \cup {Invalid})
        BY DEF EmptyFlat
    <1>2. Mapped(EmptyFlat) = {}
        BY DEF EmptyFlat, Mapped
    <1>3. Cardinality(Mapped(EmptyFlat)) = 0
        BY <1>2, FS_EmptySet
    <1>4. FlatLike(EmptyFlat) /\ EmptyFlat.size = 0
        BY <1>1 DEF EmptyFlat, FlatLike
    <1>5. SegmentOK(FreshSegment)
        BY <1>3, <1>4 DEF FreshSegment, SegmentLike, SegmentOK, FlatOK
    <1> QED
        BY <1>4, <1>5 DEF FlatLike, FreshSegment, OKSegments

LEMMA InsertOK ==
    ASSUME NEW seg \in OKSegments, NEW d \in Docs, NEW p \in Points
    PROVE  Inserted(seg, d, p) \in OKSegments
    <1> DEFINE ix == seg.index
               kept == SubSeq(ix.data, 1, ix.size)
               after == FlatInsert(ix, d, p)
    <1>1. /\ ix.data \in Seq(Points) /\ ix.ids \in Seq(Docs \cup {Invalid})
          /\ ix.slotOf \in [Docs -> Nat] /\ ix.size \in Nat
          /\ ix.size <= Len(ix.data) /\ ix.size <= Len(ix.ids)
          /\ \A c \in Docs : ix.slotOf[c] <= Len(ix.ids)
          /\ seg.count \in 0 .. ix.size
          /\ Cardinality(Mapped(ix)) <= ix.size
        BY DEF OKSegments, SegmentOK, FlatOK, SegmentLike, FlatLike
    <1>2. kept \in Seq(Points) /\ Len(kept) = ix.size
        BY <1>1
    <1>3. /\ Append(kept, p) \in Seq(Points) /\ Len(Append(kept, p)) = ix.size + 1
          /\ Append(ix.ids, d) \in Seq(Docs \cup {Invalid})
          /\ Len(Append(ix.ids, d)) = Len(ix.ids) + 1
        BY <1>1, <1>2
    <1>4. \A c \in Docs : [ix.slotOf EXCEPT ![d] = ix.size + 1][c] <= Len(ix.ids) + 1
        BY <1>1
    <1>5. FlatLike(after)
        BY <1>1, <1>3, <1>4 DEF FlatInsert, FlatLike
    <1>6. Cardinality(Mapped(after)) <= ix.size + 1
        <2>1. Mapped(after) \in SUBSET (Mapped(ix) \cup {d})
            BY <1>1 DEF FlatInsert, Mapped
        <2>2. /\ IsFiniteSet(Mapped(ix) \cup {d})
              /\ Cardinality(Mapped(ix) \cup {d}) <= Cardinality(Mapped(ix)) + 1
            <3>1. IsFiniteSet(Mapped(ix)) /\ Cardinality(Mapped(ix)) \in Nat
                BY MappedFinite
            <3>2. /\ IsFiniteSet(Mapped(ix) \cup {d})
                  /\ Cardinality(Mapped(ix) \cup {d}) =
                        IF d \in Mapped(ix) THEN Cardinality(Mapped(ix)) ELSE Cardinality(Mapped(ix)) + 1
                BY <3>1, FS_AddElement, Zenon
            <3> QED
                BY <3>1, <3>2
        <2>3. Cardinality(Mapped(after)) <= Cardinality(Mapped(ix) \cup {d})
            BY <2>1, <2>2, FS_Subset
        <2>4. Cardinality(Mapped(ix) \cup {d}) \in Nat
            BY <2>2, FS_CardinalityType
        <2> QED
            BY <1>1, <2>2, <2>3, <2>4, MappedFinite
    <1>7. after.size = ix.size + 1
        BY DEF FlatInsert
    <1> HIDE DEF after
    <1>8. Inserted(seg, d, p) = [index |-> after, count |-> seg.count + 1]
        BY DEF Inserted, after
    <1>9. after \in [data : Seq(Points), ids : Seq(Docs \cup {Invalid}),
                     slotOf : [Docs -> Nat], size : Nat]
        BY <1>5 DEF FlatLike
    <1>10. seg.count + 1 \in 0 .. after.size
        BY <1>1, <1>7
    <1>11. SegmentOK(Inserted(seg, d, p))
        BY <1>5, <1>6, <1>7, <1>8, <1>10 DEF SegmentOK, FlatOK, SegmentLike
    <1> QED
        BY <1>8, <1>9, <1>10, <1>11 DEF OKSegments

LEMMA RemoveOK ==
    ASSUME NEW seg \in OKSegments, NEW d \in Docs
    PROVE  [index |-> FlatRemove(seg.index, d),
                 count |-> IF seg.count > 0 THEN seg.count - 1 ELSE 0] \in OKSegments
    <1> DEFINE ix == seg.index
               after == FlatRemove(ix, d)
    <1>1. /\ ix.data \in Seq(Points) /\ ix.ids \in Seq(Docs \cup {Invalid})
          /\ ix.slotOf \in [Docs -> Nat] /\ ix.size \in Nat
          /\ ix.size <= Len(ix.data) /\ ix.size <= Len(ix.ids)
          /\ \A c \in Docs : ix.slotOf[c] <= Len(ix.ids)
          /\ seg.count \in 0 .. ix.size
          /\ Cardinality(Mapped(ix)) <= ix.size
        BY DEF OKSegments, SegmentOK, FlatOK, SegmentLike, FlatLike
    <1>2. CASE ix.slotOf[d] = 0
        <2>1. after = ix
            BY <1>2 DEF FlatRemove
        <2> QED
            BY <1>1, <2>1 DEF OKSegments, SegmentOK, FlatOK, SegmentLike
    <1>3. CASE ix.slotOf[d] # 0
        <2>1. /\ after.data = ix.data
              /\ after.ids = [ix.ids EXCEPT ![ix.slotOf[d]] = Invalid]
              /\ after.slotOf = [ix.slotOf EXCEPT ![d] = 0]
              /\ after.size = ix.size - 1
              /\ after = [data |-> after.data, ids |-> after.ids,
                          slotOf |-> after.slotOf, size |-> after.size]
            BY <1>3 DEF FlatRemove
        <2>2. Mapped(after) = Mapped(ix) \ {d} /\ d \in Mapped(ix)
            BY <1>1, <1>3, <2>1 DEF Mapped
        <2>3. Cardinality(Mapped(after)) = Cardinality(Mapped(ix)) - 1
            BY <2>2, MappedFinite, FS_RemoveElement
        <2>4. after.size \in Nat /\ Cardinality(Mapped(after)) <= after.size
            BY <1>1, <2>1, <2>3, MappedFinite
        <2>5. after.ids \in Seq(Docs \cup {Invalid}) /\ Len(after.ids) = Len(ix.ids)
            <3>1. ix.slotOf[d] \in 1 .. Len(ix.ids)
                BY <1>1, <1>3
            <3> QED
                BY <1>1, <2>1, <3>1, ExceptSeq
        <2>6. after.slotOf \in [Docs -> Nat] /\ \A c \in Docs : after.slotOf[c] <= Len(ix.ids)
            BY <1>1, <2>1
        <2> HIDE DEF after
        <2>7. FlatLike(after)
            <3>1. after \in [data : Seq(Points), ids : Seq(Docs \cup {Invalid}),
                             slotOf : [Docs -> Nat], size : Nat]
                BY <1>1, <2>1, <2>4, <2>5, <2>6
            <3>2. after.size <= Len(after.data) /\ after.size <= Len(after.ids)
                BY <1>1, <2>1, <2>5
            <3> QED
                BY <2>5, <2>6, <3>1, <3>2 DEF FlatLike
        <2>8. (IF seg.count > 0 THEN seg.count - 1 ELSE 0) \in 0 .. after.size
            BY <1>1, <2>1, <2>4
        <2> QED
            BY <2>4, <2>7, <2>8 DEF OKSegments, SegmentOK, FlatOK, SegmentLike, FlatLike, after
    <1> QED
        BY <1>2, <1>3

\* TypeOK and what it rests on.
TInv ==
    /\ segments \in Seq(OKSegments)
    /\ mutable \in OKSegments
    /\ tags \in [Docs -> (SUBSET Tags) \cup {Invalid}]
    /\ upserts \in Seq(Hit)
    /\ careful \in BOOLEAN

LEMMA InitTInv == Init => TInv
    <1> SUFFICES ASSUME Init PROVE TInv
        OBVIOUS
    <1>1. careful \in BOOLEAN
        BY DEF Init
    <1> QED
        BY <1>1, FreshOK DEF Init, TInv

LEMMA StepTInv == TInv /\ [Next]_vars => TInv'
    <1> SUFFICES ASSUME TInv, [Next]_vars PROVE TInv'
        OBVIOUS
    <1>0. careful' \in BOOLEAN
        <2>1. careful \in BOOLEAN
            BY DEF TInv
        <2> QED
            BY <2>1 DEF Next, vars, Upsert, Remove
    <1>1. CASE UNCHANGED vars
        BY <1>0, <1>1 DEF vars, TInv
    <1>2. ASSUME NEW d \in Docs, NEW p \in Points, NEW ts \in SUBSET Tags, Upsert(d, p, ts)
          PROVE  TInv'
        <2> DEFINE filled == Inserted(mutable, d, p)
        <2>1. filled \in OKSegments
            BY InsertOK DEF TInv
        <2>2. /\ tags' \in [Docs -> (SUBSET Tags) \cup {Invalid}]
              /\ upserts' \in Seq(Hit)
            BY <1>2 DEF Upsert, TInv, Hit
        <2>3. CASE filled.count >= Threshold
            <3>1. segments' = Append(segments, filled) /\ mutable' = FreshSegment
                BY <1>2, <2>3 DEF Upsert
            <3>2. segments' \in Seq(OKSegments)
                BY <2>1, <3>1 DEF TInv
            <3> QED
                BY <1>0, <2>2, <3>1, <3>2, FreshOK DEF TInv
        <2>4. CASE ~(filled.count >= Threshold)
            <3>1. segments' = segments /\ mutable' = filled
                BY <1>2, <2>4 DEF Upsert
            <3> QED
                BY <1>0, <2>1, <2>2, <3>1 DEF TInv
        <2> QED
            BY <2>3, <2>4
    <1>3. ASSUME NEW d \in Docs, Remove(d)
          PROVE  TInv'
        <2>1. mutable' \in OKSegments
            BY <1>3, RemoveOK DEF Remove, TInv
        <2>2. tags' \in [Docs -> (SUBSET Tags) \cup {Invalid}] /\ UNCHANGED <<segments, upserts>>
            BY <1>3 DEF Remove, TInv
        <2> QED
            BY <1>0, <2>1, <2>2 DEF TInv
    <1> QED
        BY <1>1, <1>2, <1>3 DEF Next

LEMMA TypeInvariant == Spec => []TInv
    BY InitTInv, StepTInv, PTL DEF Spec

\* No index is ever scanned or written behind the end of an array, and no size
\* goes below zero, whatever was inserted, replaced and removed.
THEOREM TypeCorrect == Spec => []TypeOK
    <1>1. TInv => TypeOK
        BY DEF TInv, TypeOK, OKSegments, SegmentOK
    <1> QED
        BY <1>1, TypeInvariant, PTL

-----------------------------------------------------------------------------
(* While nothing is removed, the indexes hold the upserted vectors.        *)

Full(seg) ==
    /\ seg.count = seg.index.size
    /\ Len(seg.index.data) = seg.index.size
    /\ Len(seg.index.ids) = seg.index.size
    /\ \A i \in 1 .. seg.index.size : seg.index.ids[i] # Invalid

HitsOf(R) == UNION {FlatHits(seg.index) : seg \in R}

Indexed == HitsOf(AllSegments)

SInv ==
    /\ IsFiniteSet(Stored)
    /\ careful => (\A seg \in AllSegments : Full(seg)) /\ Indexed = Stored

LEMMA HitsOfOneMore ==
    ASSUME NEW R, NEW seg
    PROVE  HitsOf(R \cup {seg}) = HitsOf(R) \cup FlatHits(seg.index)
    <1>1. ASSUME NEW h PROVE h \in HitsOf(R \cup {seg}) <=> h \in HitsOf(R) \cup FlatHits(seg.index)
        BY DEF HitsOf
    <1> QED
        BY <1>1

LEMMA AppendedSet ==
    ASSUME NEW S, NEW s \in Seq(S), NEW x \in S
    PROVE  {Append(s, x)[i] : i \in DOMAIN Append(s, x)} = {s[i] : i \in DOMAIN s} \cup {x}
    <1>1. /\ DOMAIN Append(s, x) = 1 .. Len(s) + 1 /\ DOMAIN s = 1 .. Len(s) /\ Len(s) \in Nat
          /\ \A i \in 1 .. Len(s) : Append(s, x)[i] = s[i]
          /\ Append(s, x)[Len(s) + 1] = x
        OBVIOUS
    <1>2. 1 .. Len(s) + 1 = (1 .. Len(s)) \cup {Len(s) + 1}
        BY <1>1
    <1> QED
        BY <1>1, <1>2

LEMMA FreshFull == Full(FreshSegment) /\ FlatHits(FreshSegment.index) = {}
    BY DEF Full, FreshSegment, EmptyFlat, FlatHits

LEMMA InsertFull ==
    ASSUME NEW seg \in OKSegments, Full(seg), NEW d \in Docs, NEW p \in Points
    PROVE  /\ Full(Inserted(seg, d, p))
           /\ FlatHits(Inserted(seg, d, p).index)
                  = FlatHits(seg.index) \cup {[doc |-> d, at |-> p]}
    <1> DEFINE ix == seg.index
               n == ix.size
               after == Inserted(seg, d, p).index
    <1>1. /\ ix.data \in Seq(Points) /\ ix.ids \in Seq(Docs \cup {Invalid}) /\ n \in Nat
          /\ Len(ix.data) = n /\ Len(ix.ids) = n
          /\ \A i \in 1 .. n : ix.ids[i] # Invalid
          /\ d # Invalid
        BY FlatAssumption DEF OKSegments, Full
    <1>2. /\ after.data = Append(SubSeq(ix.data, 1, n), p)
          /\ after.ids = Append(ix.ids, d)
          /\ after.size = n + 1
          /\ Inserted(seg, d, p).count = seg.count + 1
        BY DEF Inserted, FlatInsert
    <1>3. SubSeq(ix.data, 1, n) = ix.data
        BY <1>1
    <1>4. /\ Len(after.data) = n + 1 /\ Len(after.ids) = n + 1
          /\ \A i \in 1 .. n : after.data[i] = ix.data[i] /\ after.ids[i] = ix.ids[i]
          /\ after.data[n + 1] = p /\ after.ids[n + 1] = d
        BY <1>1, <1>2, <1>3
    <1>5. 1 .. n + 1 = (1 .. n) \cup {n + 1}
        BY <1>1
    <1>6. \A i \in 1 .. n + 1 : after.ids[i] # Invalid
        BY <1>1, <1>4, <1>5
    <1>7. FlatHits(after) = {[doc |-> after.ids[i], at |-> after.data[i]] : i \in 1 .. n + 1}
        BY <1>2, <1>6 DEF FlatHits
    <1>8. FlatHits(ix) = {[doc |-> ix.ids[i], at |-> ix.data[i]] : i \in 1 .. n}
        BY <1>1 DEF FlatHits
    <1> HIDE DEF after, ix, n
    <1>9. FlatHits(after) = FlatHits(ix) \cup {[doc |-> d, at |-> p]}
        <2> DEFINE hit(i) == [doc |-> after.ids[i], at |-> after.data[i]]
        <2>1. FlatHits(after) = {hit(i) : i \in 1 .. n} \cup {hit(n + 1)}
            BY <1>5, <1>7
        <2>2. {hit(i) : i \in 1 .. n} = FlatHits(ix)
            BY <1>4, <1>8
        <2>3. hit(n + 1) = [doc |-> d, at |-> p]
            BY <1>4
        <2> QED
            BY <2>1, <2>2, <2>3
    <1>10. Full(Inserted(seg, d, p))
        BY <1>2, <1>4, <1>6 DEF Full, after, ix, n
    <1> QED
        BY <1>9, <1>10 DEF after, ix

LEMMA InitSInv == Init => SInv
    <1> SUFFICES ASSUME Init PROVE SInv
        OBVIOUS
    <1>1. Stored = {} /\ AllSegments = {FreshSegment}
        BY DEF Init, Stored, AllSegments
    <1>2. Indexed = {}
        <2>1. ASSUME NEW h \in Indexed PROVE FALSE
            BY <1>1, <2>1, FreshFull DEF Indexed, HitsOf
        <2> QED
            BY <2>1
    <1> QED
        BY <1>1, <1>2, FreshFull, FS_EmptySet DEF SInv

LEMMA UpsertSInv ==
    ASSUME TInv, SInv, NEW d \in Docs, NEW p \in Points, NEW ts \in SUBSET Tags, Upsert(d, p, ts)
    PROVE  SInv'
    <1> DEFINE hit == [doc |-> d, at |-> p]
               filled == Inserted(mutable, d, p)
    <1>1. Stored' = Stored \cup {hit}
        <2>1. upserts' = Append(upserts, hit) /\ hit \in Hit /\ upserts \in Seq(Hit)
            BY DEF Upsert, TInv, Hit
        <2> QED
            BY <2>1, AppendedSet DEF Stored
    <1>2. IsFiniteSet(Stored')
        BY <1>1, FS_AddElement DEF SInv
    <1>3. ASSUME careful'
          PROVE  (\A seg \in AllSegments' : Full(seg)) /\ Indexed' = Stored'
        <2>1. /\ \A seg \in AllSegments : Full(seg)
              /\ Indexed = Stored
              /\ mutable \in OKSegments /\ mutable \in AllSegments
            BY <1>3 DEF Upsert, SInv, TInv, AllSegments
        <2>2. Full(filled) /\ FlatHits(filled.index) = FlatHits(mutable.index) \cup {hit}
            BY <2>1, InsertFull
        <2>3. filled \in OKSegments
            BY <2>1, InsertOK
        <2> DEFINE rest == {segments[i] : i \in DOMAIN segments}
        <2>4. AllSegments' = rest \cup {filled, FreshSegment} \/ AllSegments' = rest \cup {filled}
            <3>1. CASE filled.count >= Threshold
                <4>1. segments' = Append(segments, filled) /\ mutable' = FreshSegment
                    BY <3>1 DEF Upsert
                <4> HIDE DEF filled
                <4>2. {segments'[i] : i \in DOMAIN segments'} = rest \cup {filled}
                    BY <2>3, <4>1, AppendedSet DEF TInv
                <4> QED
                    BY <4>1, <4>2 DEF AllSegments
            <3>2. CASE ~(filled.count >= Threshold)
                BY <3>2 DEF Upsert, AllSegments
            <3> QED
                BY <3>1, <3>2
        <2> HIDE DEF filled
        <2>5. \A seg \in AllSegments' : Full(seg)
            BY <2>1, <2>2, <2>4, FreshFull DEF AllSegments
        <2>6. Indexed = HitsOf(rest) \cup FlatHits(mutable.index)
            BY HitsOfOneMore DEF Indexed, AllSegments
        <2>7. Indexed' = HitsOf(rest) \cup FlatHits(filled.index)
            <3>1. Indexed' = HitsOf(AllSegments')
                BY DEF Indexed, HitsOf
            <3>2. HitsOf(rest \cup {filled}) = HitsOf(rest) \cup FlatHits(filled.index)
                BY HitsOfOneMore
            <3>3. HitsOf(rest \cup {filled, FreshSegment}) = HitsOf(rest \cup {filled})
                <4>1. rest \cup {filled, FreshSegment} = (rest \cup {filled}) \cup {FreshSegment}
                    OBVIOUS
                <4> QED
                    BY <4>1, HitsOfOneMore, FreshFull
            <3> QED
                BY <2>4, <3>1, <3>2, <3>3
        <2>8. Indexed' = Stored'
            BY <1>1, <2>1, <2>2, <2>6, <2>7
        <2> QED
            BY <2>5, <2>8
    <1> QED
        BY <1>2, <1>3 DEF SInv

LEMMA StepSInv == TInv /\ SInv /\ [Next]_vars => SInv'
    <1> SUFFICES ASSUME TInv, SInv, [Next]_vars PROVE SInv'
        OBVIOUS
    <1>1. CASE UNCHANGED vars
        BY <1>1 DEF vars, SInv, Stored, Indexed, AllSegments
    <1>2. ASSUME NEW d \in Docs, Remove(d) PROVE SInv'
        BY <1>2 DEF Remove, SInv, Stored
    <1> QED
        BY <1>1, <1>2, UpsertSInv DEF Next

LEMMA StoredInvariant == Spec => [](TInv /\ SInv)
    <1>1. Init => TInv /\ SInv
        BY InitTInv, InitSInv
    <1>2. TInv /\ SInv /\ [Next]_vars => (TInv /\ SInv)'
        BY StepTInv, StepSInv
    <1> QED
        BY <1>1, <1>2, PTL DEF Spec

-----------------------------------------------------------------------------
(* What queries return.                                                    *)

Chosen(allowed) == {h \in Stored : h.doc \in allowed}

LEMMA StoredHits == TInv => Stored \subseteq Hit
    BY DEF TInv, Stored

LEMMA ChosenFinite ==
    ASSUME TInv, SInv, NEW allowed
    PROVE  IsFiniteSet(Chosen(allowed)) /\ Chosen(allowed) \subseteq Hit
    <1>1. Chosen(allowed) \in SUBSET Stored
        BY DEF Chosen
    <1> QED
        BY <1>1, StoredHits, FS_Subset DEF SInv

\* The search over all segments is exact: skipping the segments that count
\* nothing loses nothing, and neither does merging.
LEMMA SegmentsExact ==
    ASSUME TInv, SInv, careful, NEW q \in Points, NEW k \in Nat, NEW allowed
    PROVE  SearchSegments(q, k, allowed) = Nearest(Chosen(allowed), q, k)
    <1> DEFINE visited == {s \in AllSegments : s.count > 0}
               Part(s) == {h \in FlatHits(s.index) : h.doc \in allowed}
               F == {Part(s) : s \in visited}
    <1>1. /\ \A s \in AllSegments : Full(s) /\ s \in OKSegments
          /\ \A h : h \in Stored <=> \E s \in AllSegments : h \in FlatHits(s.index)
        BY DEF SInv, TInv, AllSegments, Indexed, HitsOf
    <1>2. ASSUME NEW s \in AllSegments, NEW h \in FlatHits(s.index) PROVE s \in visited
        <2>1. s.count = s.index.size /\ s.index.size \in Nat
            BY <1>1 DEF Full, OKSegments
        <2>2. 1 .. s.index.size # {}
            BY DEF FlatHits
        <2> QED
            BY <2>1, <2>2
    <1>3. UNION F = Chosen(allowed)
        <2>1. ASSUME NEW h \in Chosen(allowed) PROVE h \in UNION F
            <3>1. PICK s \in AllSegments : h \in FlatHits(s.index)
                BY <1>1 DEF Chosen
            <3>2. h \in Part(s) /\ s \in visited
                BY <1>2, <3>1 DEF Chosen
            <3> QED
                BY <3>2
        <2>2. ASSUME NEW h \in UNION F PROVE h \in Chosen(allowed)
            <3>1. PICK s \in visited : h \in Part(s)
                OBVIOUS
            <3> QED
                BY <1>1, <3>1 DEF Chosen
        <2> QED
            BY <2>1, <2>2
    <1>4. SearchSegments(q, k, allowed) = Nearest(UNION {Nearest(S, q, k) : S \in F}, q, k)
        <2>1. \A s : FlatSearch(s.index, q, k, allowed) = Nearest(Part(s), q, k)
            BY DEF FlatSearch
        <2> HIDE DEF Part
        <2>2. {FlatSearch(s.index, q, k, allowed) : s \in visited} = {Nearest(S, q, k) : S \in F}
            BY <2>1
        <2>3. SearchSegments(q, k, allowed)
                  = Nearest(UNION {FlatSearch(s.index, q, k, allowed) : s \in visited}, q, k)
            BY DEF SearchSegments, AllSegments
        <2> QED
            BY <2>2, <2>3
    <1> HIDE DEF F
    <1> QED
        BY <1>3, <1>4, ChosenFinite, MergeIsExact

LEMMA ChosenAll == TInv => Chosen(Docs) = Stored
    BY StoredHits DEF Chosen, Hit

LEMMA CountsNat ==
    ASSUME NEW t
    PROVE  /\ Cardinality(Present) \in Nat
           /\ IsFiniteSet(Matching(t)) /\ Cardinality(Matching(t)) \in Nat
           /\ Matching(t) # {} => Cardinality(Matching(t)) > 0
    <1>1. Present \in SUBSET Docs /\ Matching(t) \in SUBSET Docs
        BY DEF Present, Matching
    <1>2. IsFiniteSet(Present) /\ IsFiniteSet(Matching(t))
        BY <1>1, QueryAssumption, FS_Subset
    <1>3. Cardinality(Present) \in Nat /\ Cardinality(Matching(t)) \in Nat
        BY <1>2, FS_CardinalityType
    <1>4. Cardinality(Matching(t)) = 0 <=> Matching(t) = {}
        BY <1>2, FS_EmptySet
    <1> QED
        BY <1>2, <1>3, <1>4

LEMMA OverfetchNat == \A t : Overfetch(t) \in Nat
    <1> SUFFICES ASSUME NEW t PROVE Overfetch(t) \in Nat
        OBVIOUS
    <1>1. CASE Matching(t) = {}
        BY <1>1 DEF Overfetch
    <1>2. CASE Matching(t) # {}
        <2> DEFINE a == Cardinality(Present)
                   b == Cardinality(Matching(t))
        <2>1. a \in Nat /\ b \in Nat /\ b > 0
            BY <1>2, CountsNat
        <2> HIDE DEF a, b
        <2>2. CeilDiv(a, b) \in Nat
            BY <2>1 DEF CeilDiv
        <2>3. Overfetch(t) = Lesser(CeilDiv(a, b), MaxOverfetch)
            BY <1>2 DEF Overfetch, a, b
        <2> QED
            BY <2>2, <2>3 DEF Lesser, MaxOverfetch
    <1> QED
        BY <1>1, <1>2

LEMMA SearchUnfiltered ==
    ASSUME TInv, SInv, careful, NEW q \in Points, NEW k \in Nat
    PROVE  Search(q, k, NoFilter) = Nearest(Stored, q, k)
    <1>1. Search(q, k, NoFilter) = SearchSegments(q, k, Docs)
        BY DEF Search, Plan
    <1> QED
        BY <1>1, SegmentsExact, ChosenAll

LEMMA SearchPreFiltered ==
    ASSUME TInv, SInv, careful, NEW q \in Points, NEW k \in Nat,
           NEW t \in Tags, ~Unselective(t)
    PROVE  Search(q, k, t) = Nearest(Chosen(Matching(t)), q, k)
    <1> DEFINE U == Chosen(Matching(t))
    <1>1. t # NoFilter
        BY QueryAssumption
    <1>2. Search(q, k, t) = Nearest(SearchSegments(q, 2 * k, Matching(t)), q, k)
        BY <1>1 DEF Search, Plan
    <1>3. 2 * k \in Nat /\ k <= 2 * k
        OBVIOUS
    <1>4. SearchSegments(q, 2 * k, Matching(t)) = Nearest(U, q, 2 * k)
        BY <1>3, SegmentsExact
    <1>5. Nearest(U, q, k) \subseteq Nearest(U, q, 2 * k)
        BY <1>3, ChosenFinite, NearestOfMore
    <1>6. Nearest(U, q, 2 * k) \in SUBSET U
        BY NearestDef
    <1> HIDE DEF U
    <1>7. Nearest(Nearest(U, q, 2 * k), q, k) = Nearest(U, q, k)
        BY <1>5, <1>6, ChosenFinite, NearestOfPart DEF U
    <1> QED
        BY <1>2, <1>4, <1>7 DEF U

LEMMA SearchPostFiltered ==
    ASSUME TInv, SInv, careful, NEW q \in Points, NEW k \in Nat,
           NEW t \in Tags, Unselective(t)
    PROVE  /\ k * Overfetch(t) \in Nat
           /\ Search(q, k, t) =
                Nearest({h \in Nearest(Stored, q, k * Overfetch(t)) : h.doc \in Matching(t)}, q, k)
    <1>1. t # NoFilter
        BY QueryAssumption
    <1>2. k * Overfetch(t) \in Nat
        BY OverfetchNat
    <1>3. SearchSegments(q, k * Overfetch(t), Docs) = Nearest(Stored, q, k * Overfetch(t))
        BY <1>2, SegmentsExact, ChosenAll
    <1> QED
        BY <1>1, <1>2, <1>3 DEF Search, Plan

LEMMA SelectiveStep == TInv /\ SInv => SelectiveExact
    <1> SUFFICES ASSUME TInv, SInv, careful,
                        NEW q \in Points, NEW k \in TopKs, NEW t \in Tags \cup {NoFilter},
                        t = NoFilter \/ 5 * Cardinality(Matching(t)) <= Cardinality(Present)
                 PROVE  Search(q, k, t) = Nearest(Wanted(t), q, k)
        BY DEF SelectiveExact
    <1>0. k \in Nat
        BY QueryAssumption
    <1>1. CASE t = NoFilter
        BY <1>0, <1>1, SearchUnfiltered DEF Wanted
    <1>2. CASE t # NoFilter /\ Matching(t) # {}
        <2>1. ~Unselective(t)
            BY <1>2, CountsNat DEF Unselective
        <2> QED
            BY <1>0, <1>2, <2>1, SearchPreFiltered DEF Wanted, Chosen
    <1>3. CASE t # NoFilter /\ Matching(t) = {}
        <2>1. Unselective(t)
            BY <1>3 DEF Unselective
        <2>2. Search(q, k, t) =
                Nearest({h \in Nearest(Stored, q, k * Overfetch(t)) : h.doc \in Matching(t)}, q, k)
            BY <1>0, <1>3, <2>1, SearchPostFiltered
        <2>3. /\ {h \in Nearest(Stored, q, k * Overfetch(t)) : h.doc \in Matching(t)} = {}
              /\ Wanted(t) = {}
            BY <1>3 DEF Wanted
        <2> QED
            BY <2>2, <2>3
    <1> QED
        BY <1>1, <1>2, <1>3

\* For any number of segments, documents and results asked for: a query without
\* a filter, or with one that few documents match, is exact.
THEOREM SelectiveIsExact == Spec => []SelectiveExact
    BY StoredInvariant, SelectiveStep, PTL

LEMMA NearestFirstStep == TInv /\ SInv => NearestFirst
    <1> SUFFICES ASSUME TInv, SInv, careful,
                        NEW q \in Points, NEW k \in TopKs, NEW t \in Tags
                 PROVE  LET found == Search(q, k, t)
                        IN  /\ found \subseteq Nearest(Wanted(t), q, k)
                            /\ \A h \in Nearest(Wanted(t), q, k) \ found :
                                   /\ \A g \in found : Dist(q, g.at) < Dist(q, h.at)
                                   /\ h \notin Nearest(Stored, q, k * Overfetch(t))
        BY DEF NearestFirst
    <1> DEFINE found == Search(q, k, t)
               W == Wanted(t)
               n == k * Overfetch(t)
               fetched == Nearest(Stored, q, n)
               left == {h \in fetched : h.doc \in Matching(t)}
    <1>0. k \in Nat /\ t # NoFilter
        BY QueryAssumption
    <1>1. W = Chosen(Matching(t)) /\ W \in SUBSET Stored /\ IsFiniteSet(W) /\ W \subseteq Hit
        BY <1>0, ChosenFinite DEF Wanted, Chosen
    <1>2. IsFiniteSet(Stored) /\ Stored \subseteq Hit
        BY StoredHits DEF SInv
    <1>3. CASE ~Unselective(t)
        <2>1. found = Nearest(W, q, k)
            BY <1>0, <1>1, <1>3, SearchPreFiltered
        <2> QED
            BY <2>1
    <1>4. CASE Unselective(t)
        <2>1. n \in Nat /\ found = Nearest(left, q, k)
            BY <1>0, <1>4, SearchPostFiltered
        <2>2. left \in SUBSET W /\ IsFiniteSet(left)
            <3>1. fetched \subseteq Stored
                BY NearestDef
            <3>2. left \in SUBSET W
                BY <1>1, <3>1 DEF Chosen
            <3> QED
                BY <1>1, <3>2, FS_Subset
        <2>3. \A g \in fetched, h \in Stored :
                  ~(Dist(q, g.at) < Dist(q, h.at)) => h \in fetched
            <3> SUFFICES ASSUME NEW g \in fetched, NEW h \in Stored,
                                ~(Dist(q, g.at) < Dist(q, h.at))
                         PROVE  h \in fetched
                OBVIOUS
            <3>1. g \in Stored /\ Cardinality(Closer(Stored, q, g)) < n
                BY NearestDef
            <3>2. Closer(Stored, q, h) \in SUBSET Closer(Stored, q, g)
                BY <1>2, <3>1, HitDist DEF Closer
            <3>3. Cardinality(Closer(Stored, q, h)) <= Cardinality(Closer(Stored, q, g))
                BY <1>2, <3>2, CloserFinite, FS_Subset
            <3>4. Cardinality(Closer(Stored, q, h)) \in Nat /\ Cardinality(Closer(Stored, q, g)) \in Nat
                BY <1>2, CloserFinite
            <3> QED
                BY <2>1, <3>1, <3>3, <3>4, NearestDef
        <2>4. ASSUME NEW h \in left PROVE Closer(left, q, h) = Closer(W, q, h)
            <3>1. ASSUME NEW g \in Closer(W, q, h) PROVE g \in left
                <4>1. g \in W /\ g \in Stored /\ h \in fetched /\ h \in Stored
                      /\ Dist(q, g.at) < Dist(q, h.at)
                    BY <1>1, <2>2 DEF Closer
                <4>2. ~(Dist(q, h.at) < Dist(q, g.at))
                    BY <1>2, <4>1, HitDist
                <4>3. g \in fetched
                    BY <2>3, <4>1, <4>2
                <4> QED
                    BY <1>1, <4>1, <4>3 DEF Chosen
            <3> QED
                BY <2>2, <3>1 DEF Closer
        <2>5. \A h \in left : h \in found <=> h \in Nearest(W, q, k)
            BY <2>1, <2>2, <2>4, NearestDef
        <2>6. found \subseteq left
            BY <2>1, NearestDef
        <2>7. ASSUME NEW h \in Nearest(W, q, k) \ found PROVE h \notin fetched
            <3>1. h \in W
                BY NearestDef
            <3>2. h \in fetched => h \in left
                BY <1>1, <3>1 DEF Chosen
            <3> QED
                BY <2>5, <3>2
        <2>8. ASSUME NEW h \in Nearest(W, q, k) \ found, NEW g \in found
              PROVE  Dist(q, g.at) < Dist(q, h.at)
            <3>1. g \in fetched /\ h \in Stored
                BY <1>1, <2>6, NearestDef
            <3> QED
                BY <2>3, <2>7, <3>1
        <2>9. found \subseteq Nearest(W, q, k)
            BY <2>5, <2>6
        <2> QED
            BY <2>7, <2>8, <2>9
    <1> QED
        BY <1>3, <1>4

\* For any filter: what a query returns is nearest first, and what it misses was
\* not fetched.
THEOREM FoundIsNearest == Spec => []NearestFirst
    BY StoredInvariant, NearestFirstStep, PTL
=============================================================================
