------------------------------ MODULE WalProofs ------------------------------
(* Proofs about Wal: what replay returns, for every file that appends,      *)
(* short writes, crashes, power failures and bit rot can leave; and about   *)
(* WalSync, the thread that syncs it.                                       *)
EXTENDS Wal, WalSync, SequenceTheorems, WellFoundedInduction, TLAPS

-----------------------------------------------------------------------------
(* Induction over the natural numbers, about sets.                         *)

LEMMA LeastNat ==
    ASSUME NEW T, T \subseteq Nat, T # {}
    PROVE  \E n \in T : \A m \in T : n <= m
    <1>1. IsWellFoundedOn(OpToRel(<, Nat), Nat)
        BY NatLessThanWellFounded
    <1>2. PICK n \in T : \A m \in T : <<m, n>> \notin OpToRel(<, Nat)
        BY <1>1, WFMin, Zenon
    <1>3. \A m \in T : ~(m < n)
        BY <1>2 DEF OpToRel
    <1>4. n \in Nat /\ \A m \in T : m \in Nat
        OBVIOUS
    <1> QED
        BY <1>3, <1>4

LEMMA Induction ==
    ASSUME NEW S, 0 \in S, \A n \in Nat : n \in S => n + 1 \in S
    PROVE  Nat \subseteq S
    <1> SUFFICES ASSUME Nat \ S # {} PROVE FALSE
        OBVIOUS
    <1>1. PICK n \in Nat \ S : \A m \in Nat \ S : n <= m
        BY LeastNat
    <1>2. n # 0 /\ n - 1 \in Nat /\ (n - 1) + 1 = n /\ ~(n <= n - 1)
        OBVIOUS
    <1>3. n - 1 \in S
        BY <1>1, <1>2
    <1> QED
        BY <1>2, <1>3

-----------------------------------------------------------------------------
(* The words of an entry.                                                  *)

Body == [doc : Nat, dim : Nat, len : Nat]

Entries == {Encode(n, body) : n \in Nat, body \in Body}

Word == {Rotten} \cup UNION {{words[k] : k \in 1 .. Len(words)} : words \in Entries}

\* The parts of an entry with a vector of dim floats and len bytes of metadata.
Shaped(words, dim, len) ==
    /\ Len(words) = dim + len + 5
    /\ words[1] = Magic
    /\ words[3] = <<"dim", dim>>
    /\ words[4 + dim] = <<"meta_len", len>>
    /\ words[dim + len + 5] = <<"crc", SubSeq(words, 1, dim + len + 4)>>
    /\ \A k \in 1 .. dim + len + 4 :
           /\ words[k][1] # "crc"
           /\ words[k][1] \in {"dim", "meta_len"} => words[k][2] \in Nat

LEMMA FieldIs ==
    ASSUME NEW S, NEW name, <<name>> \in S, NEW n \in Nat
    PROVE  /\ Field(name, n) \in Seq(S) /\ Len(Field(name, n)) = n
           /\ \A k \in 1 .. n : Field(name, n)[k] = <<name>>
    BY DEF Field

LEMMA Joined ==
    ASSUME NEW S, NEW s \in Seq(S), NEW t \in Seq(S)
    PROVE  /\ s \o t \in Seq(S) /\ Len(s \o t) = Len(s) + Len(t)
           /\ \A k \in 1 .. Len(s) : (s \o t)[k] = s[k]
           /\ \A k \in 1 .. Len(t) : (s \o t)[Len(s) + k] = t[k]
    OBVIOUS

LEMMA Emptiness ==
    ASSUME NEW S, NEW s \in Seq(S)
    PROVE  s # <<>> <=> 1 <= Len(s)
    OBVIOUS

LEMMA EncodeShape ==
    ASSUME NEW n, NEW body \in Body
    PROVE  /\ \E S : Encode(n, body) \in Seq(S)
           /\ Shaped(Encode(n, body), body.dim, body.len)
    <1> DEFINE dim == body.dim
               len == body.len
               head == <<Magic, <<"head", n, body.doc>>, <<"dim", dim>>>>
               floats == Field("float", dim)
               meta == <<<<"meta_len", len>>>>
               bytes == Field("byte", len)
               covered == head \o floats \o meta \o bytes
               crc == <<"crc", covered>>
               S == {Magic, <<"head", n, body.doc>>, <<"dim", dim>>, <<"float">>,
                     <<"meta_len", len>>, <<"byte">>, crc}
    <1>1. dim \in Nat /\ len \in Nat
        BY DEF Body
    <1>2. /\ head \in Seq(S) /\ Len(head) = 3
          /\ head[1] = Magic /\ head[2] = <<"head", n, body.doc>> /\ head[3] = <<"dim", dim>>
        OBVIOUS
    <1>3. meta \in Seq(S) /\ Len(meta) = 1 /\ meta[1] = <<"meta_len", len>>
        OBVIOUS
    <1>4. crc \in S /\ <<"float">> \in S /\ <<"byte">> \in S
        OBVIOUS
    <1> HIDE DEF S, dim, len, head, meta
    <1>5. floats \in Seq(S) /\ Len(floats) = dim /\ \A k \in 1 .. dim : floats[k] = <<"float">>
        BY <1>1, <1>4, FieldIs
    <1>6. bytes \in Seq(S) /\ Len(bytes) = len /\ \A k \in 1 .. len : bytes[k] = <<"byte">>
        BY <1>1, <1>4, FieldIs
    <1> HIDE DEF floats, bytes
    <1> DEFINE front  == head \o floats
               middle == front \o meta
    <1>7. /\ front \in Seq(S) /\ Len(front) = 3 + dim
          /\ \A k \in 1 .. 3 : front[k] = head[k]
          /\ \A k \in 1 .. dim : front[3 + k] = <<"float">>
        <2>1. /\ head \o floats \in Seq(S) /\ Len(head \o floats) = Len(head) + Len(floats)
              /\ \A k \in 1 .. Len(head) : (head \o floats)[k] = head[k]
              /\ \A k \in 1 .. Len(floats) : (head \o floats)[Len(head) + k] = floats[k]
            <3>1. head \in Seq(S) /\ floats \in Seq(S)
                BY <1>2, <1>5
            <3> HIDE DEF covered, crc, front, middle
            <3> QED
                BY <3>1, Joined, SMT
        <2> HIDE DEF front
        <2>2. front = head \o floats
            BY DEF front
        <2> QED
            BY <1>2, <1>5, <2>1, <2>2
    <1> HIDE DEF front
    <1>8. /\ middle \in Seq(S) /\ Len(middle) = 4 + dim
          /\ \A k \in 1 .. 3 : middle[k] = head[k]
          /\ \A k \in 1 .. dim : middle[3 + k] = <<"float">>
          /\ middle[4 + dim] = <<"meta_len", len>>
        <2>1. /\ middle \in Seq(S) /\ Len(middle) = (3 + dim) + 1
              /\ \A k \in 1 .. 3 + dim : middle[k] = front[k]
              /\ \A k \in 1 .. 1 : middle[(3 + dim) + k] = meta[k]
            <3>1. /\ front \o meta \in Seq(S) /\ Len(front \o meta) = Len(front) + Len(meta)
                  /\ \A k \in 1 .. Len(front) : (front \o meta)[k] = front[k]
                  /\ \A k \in 1 .. Len(meta) : (front \o meta)[Len(front) + k] = meta[k]
                <4>1. front \in Seq(S) /\ meta \in Seq(S)
                    BY <1>3, <1>7
                <4> HIDE DEF covered, crc, front, middle
                <4> QED
                    BY <4>1, Joined, SMT
            <3> HIDE DEF middle
            <3>2. middle = front \o meta
                BY DEF middle
            <3> QED
                BY <1>3, <1>7, <3>1, <3>2
        <2> HIDE DEF middle
        <2>2. /\ \A k \in 1 .. 3 : k \in 1 .. 3 + dim
              /\ \A k \in 1 .. dim : 3 + k \in 1 .. 3 + dim
              /\ (3 + dim) + 1 = 4 + dim /\ 1 \in 1 .. 1
            BY <1>1
        <2> QED
            BY <1>3, <1>7, <2>1, <2>2
    <1> HIDE DEF middle
    <1>9. covered = middle \o bytes
        BY DEF middle, front
    <1> HIDE DEF covered
    <1>10. /\ covered \in Seq(S) /\ Len(covered) = dim + len + 4
           /\ \A k \in 1 .. 3 : covered[k] = head[k]
           /\ \A k \in 1 .. dim : covered[3 + k] = <<"float">>
           /\ covered[4 + dim] = <<"meta_len", len>>
           /\ \A k \in 1 .. len : covered[4 + dim + k] = <<"byte">>
        <2>1. /\ covered \in Seq(S) /\ Len(covered) = (4 + dim) + len
              /\ \A k \in 1 .. 4 + dim : covered[k] = middle[k]
              /\ \A k \in 1 .. len : covered[(4 + dim) + k] = bytes[k]
            <3>1. /\ middle \o bytes \in Seq(S) /\ Len(middle \o bytes) = Len(middle) + Len(bytes)
                  /\ \A k \in 1 .. Len(middle) : (middle \o bytes)[k] = middle[k]
                  /\ \A k \in 1 .. Len(bytes) : (middle \o bytes)[Len(middle) + k] = bytes[k]
                <4>1. middle \in Seq(S) /\ bytes \in Seq(S)
                    BY <1>6, <1>8
                <4> HIDE DEF covered, crc, front, middle
                <4> QED
                    BY <4>1, Joined, SMT
            <3> QED
                BY <1>6, <1>8, <1>9, <3>1
        <2>2. /\ \A k \in 1 .. 3 : k \in 1 .. 4 + dim
              /\ \A k \in 1 .. dim : 3 + k \in 1 .. 4 + dim
              /\ 4 + dim \in 1 .. 4 + dim /\ (4 + dim) + len = dim + len + 4
            BY <1>1
        <2> QED
            BY <1>1, <1>6, <1>8, <2>1, <2>2
    <1>11. Encode(n, body) = Append(covered, crc)
        BY DEF Encode, covered, crc, head, floats, meta, bytes, dim, len
    <1> HIDE DEF crc
    <1> DEFINE words == Append(covered, crc)
    <1>12. /\ words \in Seq(S) /\ Len(words) = dim + len + 5
           /\ words[dim + len + 5] = crc
           /\ \A k \in 1 .. dim + len + 4 : words[k] = covered[k]
        BY <1>1, <1>4, <1>10
    <1> HIDE DEF words
    <1>13. SubSeq(words, 1, dim + len + 4) = covered
        <2>1. dim + len + 4 \in Nat /\ \A k \in 1 .. dim + len + 4 : k \in 1 .. Len(words)
            BY <1>1, <1>12
        <2>2. /\ SubSeq(words, 1, dim + len + 4) \in Seq(S)
              /\ Len(SubSeq(words, 1, dim + len + 4)) = dim + len + 4
              /\ \A k \in 1 .. dim + len + 4 : SubSeq(words, 1, dim + len + 4)[k] = words[k]
            BY <1>12, <2>1
        <2> HIDE DEF S
        <2> QED
            BY <1>10, <1>12, <2>2, SeqEqual
    <1>14. /\ words[1] = Magic /\ words[3] = <<"dim", dim>>
           /\ words[4 + dim] = <<"meta_len", len>>
        BY <1>1, <1>2, <1>10, <1>12
    <1>15. \A k \in 1 .. dim + len + 4 :
               /\ words[k][1] # "crc"
               /\ words[k][1] \in {"dim", "meta_len"} => words[k][2] \in Nat
        <2> SUFFICES ASSUME NEW k \in 1 .. dim + len + 4
                     PROVE  /\ words[k][1] # "crc"
                            /\ words[k][1] \in {"dim", "meta_len"} => words[k][2] \in Nat
            OBVIOUS
        <2>0. \/ k \in 1 .. 3 \/ (k - 3 \in 1 .. dim /\ 3 + (k - 3) = k)
              \/ k = 4 + dim \/ (k - (4 + dim) \in 1 .. len /\ 4 + dim + (k - (4 + dim)) = k)
            BY <1>1
        <2>1. \/ words[k] = <<"magic">> \/ words[k] = <<"head", n, body.doc>>
              \/ words[k] = <<"dim", dim>> \/ words[k] = <<"float">>
              \/ words[k] = <<"meta_len", len>> \/ words[k] = <<"byte">>
            <3>1. CASE k \in 1 .. 3
                BY <1>2, <1>10, <1>12, <3>1 DEF Magic
            <3>2. CASE k - 3 \in 1 .. dim /\ 3 + (k - 3) = k
                BY <1>10, <1>12, <3>2
            <3>3. CASE k = 4 + dim
                BY <1>10, <1>12, <3>3
            <3>4. CASE k - (4 + dim) \in 1 .. len /\ 4 + dim + (k - (4 + dim)) = k
                BY <1>10, <1>12, <3>4
            <3> QED
                BY <2>0, <3>1, <3>2, <3>3, <3>4
        <2> QED
            BY <1>1, <2>1
    <1> QED
        BY <1>11, <1>12, <1>13, <1>14, <1>15 DEF Shaped, words, crc, dim, len

LEMMA EntryIs ==
    ASSUME NEW words \in Entries
    PROVE  /\ words \in Seq(Word) /\ Len(words) \in Nat /\ Len(words) >= MinEntry
           /\ \E dim \in Nat, len \in Nat : Shaped(words, dim, len)
    <1>1. PICK n \in Nat, body \in Body : words = Encode(n, body)
        BY DEF Entries
    <1>2. body.dim \in Nat /\ body.len \in Nat
        BY DEF Body
    <1>3. Shaped(words, body.dim, body.len)
        BY <1>1, EncodeShape
    <1>4. PICK S : words \in Seq(S)
        BY <1>1, EncodeShape
    <1>5. \A k \in 1 .. Len(words) : words[k] \in Word
        BY DEF Word
    <1>6. words \in Seq(Word)
        BY <1>4, <1>5
    <1>7. Len(words) \in Nat /\ Len(words) >= MinEntry
        BY <1>2, <1>3 DEF Shaped, MinEntry
    <1> QED
        BY <1>2, <1>3, <1>6, <1>7

LEMMA WordIs ==
    ASSUME NEW word \in Word
    PROVE  word[1] \in {"dim", "meta_len"} => word[2] \in Nat
    <1>1. CASE word = Rotten
        BY <1>1 DEF Rotten
    <1>2. ASSUME NEW words \in Entries, NEW k \in 1 .. Len(words), word = words[k]
          PROVE  word[1] \in {"dim", "meta_len"} => word[2] \in Nat
        <2>1. PICK dim \in Nat, len \in Nat : Shaped(words, dim, len)
            BY EntryIs
        <2>2. CASE k \in 1 .. dim + len + 4
            BY <1>2, <2>1, <2>2 DEF Shaped
        <2>3. CASE k = dim + len + 5
            <3>1. word = <<"crc", SubSeq(words, 1, dim + len + 4)>>
                BY <1>2, <2>1, <2>3 DEF Shaped
            <3> QED
                BY <3>1
        <2>4. k \in 1 .. dim + len + 5
            BY <2>1 DEF Shaped
        <2> QED
            BY <2>2, <2>3, <2>4
    <1> QED
        BY <1>1, <1>2 DEF Word

\* Only the last word of an entry is a checksum.
LEMMA OneChecksum ==
    ASSUME NEW words \in Entries, NEW k \in 1 .. Len(words)
    PROVE  /\ words[k][1] = "crc" => k = Len(words)
           /\ words[Len(words)] = <<"crc", SubSeq(words, 1, Len(words) - 1)>>
    <1>1. PICK dim \in Nat, len \in Nat : Shaped(words, dim, len)
        BY EntryIs
    <1>2. Len(words) = dim + len + 5 /\ Len(words) - 1 = dim + len + 4
        BY <1>1 DEF Shaped
    <1> QED
        BY <1>1, <1>2 DEF Shaped

-----------------------------------------------------------------------------
(* Where the appends lie, as a relation between a file and a log.          *)

Appends == [at : Nat, words : Entries, durable : BOOLEAN]

LastIn(f, l, i) == IF i = Len(l) THEN Len(f) ELSE l[i + 1].at - 1

\* The i-th append begins at or before its last word, which its entry reaches
\* and which lies before the appends that follow.
Fits(f, l, i) ==
    /\ l[i].at \in 1 .. LastIn(f, l, i)
    /\ LastIn(f, l, i) < l[i].at + Len(l[i].words)
    /\ LastIn(f, l, i) <= Len(f)
    /\ \A j \in i + 1 .. Len(l) : LastIn(f, l, i) < l[j].at

\* What the file holds of the i-th append was written by it, or has rotten.
Holds(f, l, i) ==
    \A q \in l[i].at .. LastIn(f, l, i) :
        f[q] = l[i].words[q - l[i].at + 1] \/ f[q] = Rotten

Placed(f, l) ==
    /\ f \in Seq(Word) /\ l \in Seq(Appends)
    /\ f # <<>> <=> l # <<>>
    /\ l # <<>> => l[1].at = 1
    /\ \A i \in 1 .. Len(l) : Fits(f, l, i) /\ Holds(f, l, i)

LEMMA PlacedTypes ==
    ASSUME NEW f, NEW l, Placed(f, l)
    PROVE  /\ f \in Seq(Word) /\ Len(f) \in Nat /\ l \in Seq(Appends) /\ Len(l) \in Nat
           /\ \A i \in 1 .. Len(l) :
                  /\ l[i] \in Appends /\ l[i].at \in Nat /\ l[i].words \in Entries
                  /\ l[i].durable \in BOOLEAN /\ LastIn(f, l, i) \in Nat
                  /\ Len(l[i].words) \in Nat
    <1>1. f \in Seq(Word) /\ Len(f) \in Nat /\ l \in Seq(Appends) /\ Len(l) \in Nat
        BY DEF Placed
    <1>2. ASSUME NEW i \in 1 .. Len(l)
          PROVE  /\ l[i] \in Appends /\ l[i].at \in Nat /\ l[i].words \in Entries
                 /\ l[i].durable \in BOOLEAN
        <2>1. l[i] \in Appends
            BY <1>1
        <2> QED
            BY <2>1 DEF Appends
    <1>3. ASSUME NEW i \in 1 .. Len(l)
          PROVE  LastIn(f, l, i) \in Nat
        <2>1. CASE i = Len(l)
            BY <1>1, <2>1 DEF LastIn
        <2>2. CASE i # Len(l)
            <3>1. i + 1 \in 1 .. Len(l)
                BY <1>1, <2>2
            <3>2. l[i + 1].at >= 1
                BY <3>1, <1>2 DEF Placed, Fits
            <3> QED
                BY <1>2, <2>2, <3>1, <3>2 DEF LastIn
        <2> QED
            BY <2>1, <2>2
    <1> QED
        BY <1>1, <1>2, <1>3, EntryIs

\* What an append does to the file and to the log.
Extends(f, l, words, k, g, h) ==
    /\ g \in Seq(Word) /\ Len(g) = Len(f) + k
    /\ \A q \in 1 .. Len(f) : g[q] = f[q]
    /\ \A j \in 1 .. k : g[Len(f) + j] = words[j]
    /\ h \in Seq(Appends) /\ Len(h) = Len(l) + 1
    /\ \A i \in 1 .. Len(l) : h[i] = l[i]
    /\ h[Len(l) + 1].at = Len(f) + 1 /\ h[Len(l) + 1].words = words

LEMMA ExtendPlaced ==
    ASSUME NEW f, NEW l, Placed(f, l), NEW words \in Entries, NEW k \in 1 .. Len(words),
           NEW g, NEW h, Extends(f, l, words, k, g, h)
    PROVE  /\ Placed(g, h)
           /\ \A i \in 1 .. Len(l) : LastIn(g, h, i) = LastIn(f, l, i)
    <1> DEFINE last == h[Len(l) + 1]
    <1>1. /\ f \in Seq(Word) /\ Len(f) \in Nat /\ l \in Seq(Appends) /\ Len(l) \in Nat
          /\ words \in Seq(Word) /\ k \in Nat /\ k >= 1 /\ k <= Len(words) /\ Len(words) \in Nat
        BY PlacedTypes, EntryIs
    <1>4. /\ g \in Seq(Word) /\ Len(g) = Len(f) + k
          /\ \A q \in 1 .. Len(f) : g[q] = f[q]
          /\ \A j \in 1 .. k : g[Len(f) + j] = words[j]
        BY DEF Extends
    <1>5. /\ h \in Seq(Appends) /\ Len(h) = Len(l) + 1
          /\ \A i \in 1 .. Len(l) : h[i] = l[i]
          /\ h[Len(l) + 1] = last
        BY DEF Extends
    <1>6. last.at = Len(f) + 1 /\ last.words = words
        BY DEF Extends
    <1> HIDE DEF last
    <1>7. ASSUME NEW i \in 1 .. Len(l)
          PROVE  LastIn(g, h, i) = LastIn(f, l, i)
        <2>1. CASE i = Len(l)
            BY <1>1, <1>5, <1>6, <2>1 DEF LastIn
        <2>2. CASE i # Len(l)
            <3>1. i + 1 \in 1 .. Len(l) /\ i # Len(h)
                BY <1>1, <1>5, <2>2
            <3> QED
                BY <1>5, <2>2, <3>1 DEF LastIn
        <2> QED
            BY <2>1, <2>2
    <1>8. LastIn(g, h, Len(l) + 1) = Len(f) + k
        BY <1>1, <1>4, <1>5 DEF LastIn
    <1>9. ASSUME NEW i \in 1 .. Len(l)
          PROVE  Fits(g, h, i) /\ Holds(g, h, i)
        <2>1. Fits(f, l, i) /\ Holds(f, l, i) /\ h[i] = l[i] /\ l[i].at \in Nat
              /\ LastIn(f, l, i) \in Nat
            BY <1>5, PlacedTypes DEF Placed
        <2>2. Fits(g, h, i)
            <3>1. \A j \in i + 1 .. Len(h) : LastIn(g, h, i) < h[j].at
                <4> SUFFICES ASSUME NEW j \in i + 1 .. Len(h) PROVE LastIn(g, h, i) < h[j].at
                    OBVIOUS
                <4>1. CASE j = Len(l) + 1
                    BY <1>1, <1>5, <1>6, <1>7, <2>1, <4>1 DEF Fits
                <4>2. CASE j # Len(l) + 1
                    <5>1. Len(l) \in Nat /\ Len(h) = Len(l) + 1
                        BY <1>1, <1>5
                    <5>2. j \in i + 1 .. Len(l) /\ j \in 1 .. Len(l)
                        <6>1. i \in Nat /\ i >= 1 /\ j \in Nat /\ i + 1 <= j /\ j <= Len(h)
                            BY <5>1
                        <6> QED
                            BY <4>2, <5>1, <6>1
                    <5> QED
                        BY <1>5, <1>7, <2>1, <5>2 DEF Fits
                <4> QED
                    BY <4>1, <4>2
            <3> QED
                BY <1>1, <1>4, <1>7, <2>1, <3>1 DEF Fits
        <2>3. Holds(g, h, i)
            <3> SUFFICES ASSUME NEW q \in l[i].at .. LastIn(f, l, i)
                         PROVE  g[q] = l[i].words[q - l[i].at + 1] \/ g[q] = Rotten
                BY <1>7, <2>1 DEF Holds
            <3>1. q \in 1 .. Len(f)
                BY <1>1, <2>1 DEF Fits
            <3> QED
                BY <1>4, <2>1, <3>1 DEF Holds
        <2> QED
            BY <2>2, <2>3
    <1>10. Fits(g, h, Len(l) + 1)
        BY <1>1, <1>4, <1>5, <1>6, <1>8 DEF Fits
    <1>11. Holds(g, h, Len(l) + 1)
        <2> SUFFICES ASSUME NEW q \in Len(f) + 1 .. Len(f) + k
                     PROVE  g[q] = words[q - (Len(f) + 1) + 1]
            BY <1>5, <1>6, <1>8 DEF Holds
        <2>1. q - Len(f) \in 1 .. k /\ Len(f) + (q - Len(f)) = q
              /\ q - (Len(f) + 1) + 1 = q - Len(f)
            BY <1>1
        <2> QED
            BY <1>4, <2>1
    <1>12. h[1].at = 1
        <2>1. CASE l = <<>>
            <3>1. f = <<>> /\ Len(f) = 0 /\ Len(l) = 0
                BY <2>1 DEF Placed
            <3> QED
                BY <1>5, <1>6, <3>1
        <2>2. CASE l # <<>>
            <3>1. 1 \in 1 .. Len(l) /\ l[1].at = 1
                BY <1>1, <2>2 DEF Placed
            <3> QED
                BY <1>5, <3>1
        <2> QED
            BY <2>1, <2>2
    <1>13. g # <<>> /\ h # <<>>
        <2>1. 1 <= Len(g) /\ 1 <= Len(h)
            BY <1>1, <1>4, <1>5
        <2> QED
            BY <1>4, <1>5, <2>1, Emptiness
    <1>14. \A i \in 1 .. Len(h) : i \in 1 .. Len(l) \/ i = Len(l) + 1
        BY <1>1, <1>5
    <1>15. Placed(g, h)
        BY <1>4, <1>5, <1>9, <1>10, <1>11, <1>12, <1>13, <1>14 DEF Placed
    <1> QED
        BY <1>7, <1>15

LEMMA AppendPlaced ==
    ASSUME NEW f, NEW l, Placed(f, l), NEW words \in Entries, NEW k \in 1 .. Len(words),
           NEW g, g = f \o SubSeq(words, 1, k),
           NEW h, h = Append(l, [at |-> Len(f) + 1, words |-> words, durable |-> FALSE])
    PROVE  Extends(f, l, words, k, g, h) /\ h[Len(l) + 1].durable = FALSE
    <1> DEFINE part == SubSeq(words, 1, k)
               last == [at |-> Len(f) + 1, words |-> words, durable |-> FALSE]
    <1>1. /\ f \in Seq(Word) /\ Len(f) \in Nat /\ l \in Seq(Appends) /\ Len(l) \in Nat
          /\ words \in Seq(Word) /\ k \in Nat /\ k >= 1 /\ k <= Len(words) /\ Len(words) \in Nat
        BY PlacedTypes, EntryIs
    <1>2. part \in Seq(Word) /\ Len(part) = k /\ \A j \in 1 .. k : part[j] = words[j]
        BY <1>1
    <1>3. last \in Appends
        BY <1>1 DEF Appends
    <1> HIDE DEF part, last
    <1>4. /\ g \in Seq(Word) /\ Len(g) = Len(f) + k
          /\ \A q \in 1 .. Len(f) : g[q] = f[q]
          /\ \A j \in 1 .. k : g[Len(f) + j] = words[j]
        <2>1. g = f \o part
            BY DEF part
        <2> QED
            BY <1>1, <1>2, <2>1
    <1>5. /\ h \in Seq(Appends) /\ Len(h) = Len(l) + 1
          /\ \A i \in 1 .. Len(l) : h[i] = l[i]
          /\ h[Len(l) + 1] = last
        <2>1. h = Append(l, last)
            BY DEF last
        <2> QED
            BY <1>1, <1>3, <2>1
    <1>6. last.at = Len(f) + 1 /\ last.words = words /\ last.durable = FALSE
        BY DEF last
    <1> QED
        BY <1>4, <1>5, <1>6 DEF Extends

\* What a power failure does to them.
Cuts(f, l, n, m, g, h) ==
    /\ \A i \in 1 .. Len(l) : i <= m <=> l[i].at <= n
    /\ g = SubSeq(f, 1, n)
    /\ h = SubSeq(l, 1, m)

LEMMA CutPlaced ==
    ASSUME NEW f, NEW l, Placed(f, l), NEW n \in 0 .. Len(f), NEW m \in 0 .. Len(l),
           NEW g, NEW h, Cuts(f, l, n, m, g, h)
    PROVE  /\ Placed(g, h) /\ Len(g) = n /\ Len(h) = m
           /\ \A i \in 1 .. m : h[i] = l[i] /\ LastIn(g, h, i) <= n
    <1>1. /\ f \in Seq(Word) /\ Len(f) \in Nat /\ l \in Seq(Appends) /\ Len(l) \in Nat
          /\ n \in Nat /\ m \in Nat /\ n <= Len(f) /\ m <= Len(l)
        BY PlacedTypes
    <1>0. \A i \in 1 .. Len(l) : i <= m <=> l[i].at <= n
        BY DEF Cuts
    <1>2. g \in Seq(Word) /\ Len(g) = n /\ \A q \in 1 .. n : g[q] = f[q]
        BY <1>1 DEF Cuts
    <1>3. h \in Seq(Appends) /\ Len(h) = m /\ \A i \in 1 .. m : h[i] = l[i]
        BY <1>1 DEF Cuts
    <1>4. ASSUME NEW i \in 1 .. m
          PROVE  /\ LastIn(g, h, i) \in Nat /\ LastIn(g, h, i) <= n
                 /\ LastIn(g, h, i) <= LastIn(f, l, i) /\ l[i].at <= LastIn(g, h, i)
                 /\ \A j \in i + 1 .. m : LastIn(g, h, i) < l[j].at
        <2>1. i \in 1 .. Len(l) /\ l[i].at <= n /\ l[i].at \in Nat
            BY <1>0, <1>1, PlacedTypes
        <2>2. CASE i = m
            <3>1. LastIn(g, h, i) = n
                BY <1>2, <1>3, <2>2 DEF LastIn
            <3>2. n <= LastIn(f, l, i)
                <4>1. CASE i = Len(l)
                    BY <1>1, <4>1 DEF LastIn
                <4>2. CASE i # Len(l)
                    <5>1. i + 1 \in 1 .. Len(l) /\ ~(i + 1 <= m)
                        BY <1>1, <2>2, <4>2
                    <5>2. l[i + 1].at \in Nat /\ ~(l[i + 1].at <= n)
                        BY <1>0, <5>1, PlacedTypes
                    <5> QED
                        BY <1>1, <4>2, <5>2 DEF LastIn
                <4> QED
                    BY <4>1, <4>2
            <3> QED
                BY <1>1, <2>1, <2>2, <3>1, <3>2
        <2>3. CASE i # m
            <3>1. i + 1 \in 1 .. m /\ i + 1 \in 1 .. Len(l) /\ i # Len(l) /\ i + 1 <= m
                BY <1>1, <2>3
            <3>2. LastIn(g, h, i) = LastIn(f, l, i) /\ LastIn(f, l, i) = l[i + 1].at - 1
                BY <1>3, <2>3, <3>1 DEF LastIn
            <3>3. l[i + 1].at <= n /\ l[i + 1].at \in Nat /\ LastIn(f, l, i) \in Nat
                BY <1>0, <2>1, <3>1, PlacedTypes
            <3>4. Fits(f, l, i)
                BY <2>1 DEF Placed
            <3> QED
                BY <1>1, <2>1, <3>2, <3>3, <3>4 DEF Fits
        <2> QED
            BY <2>2, <2>3
    <1>5. ASSUME NEW i \in 1 .. m
          PROVE  Fits(g, h, i) /\ Holds(g, h, i)
        <2>1. /\ i \in 1 .. Len(l) /\ Fits(f, l, i) /\ Holds(f, l, i) /\ h[i] = l[i]
              /\ l[i].at \in Nat /\ LastIn(f, l, i) \in Nat /\ Len(l[i].words) \in Nat
            <3>1. i \in 1 .. Len(l)
                BY <1>1
            <3> QED
                BY <1>3, <3>1, PlacedTypes DEF Placed
        <2>2. Fits(g, h, i)
            <3>1. \A j \in i + 1 .. Len(h) : LastIn(g, h, i) < h[j].at
                BY <1>1, <1>3, <1>4
            <3> QED
                BY <1>2, <1>4, <2>1, <3>1, SMTT(20) DEF Fits
        <2>3. Holds(g, h, i)
            <3> SUFFICES ASSUME NEW q \in l[i].at .. LastIn(g, h, i)
                         PROVE  g[q] = l[i].words[q - l[i].at + 1] \/ g[q] = Rotten
                BY <2>1 DEF Holds
            <3>1. q \in 1 .. n /\ q \in l[i].at .. LastIn(f, l, i)
                BY <1>1, <1>4, <2>1 DEF Fits
            <3> QED
                BY <1>2, <2>1, <3>1 DEF Holds
        <2> QED
            BY <2>2, <2>3
    <1>6. /\ g # <<>> <=> h # <<>>
          /\ h # <<>> => h[1].at = 1
        <2>1. CASE l = <<>>
            BY <1>1, <1>2, <1>3, <2>1 DEF Placed
        <2>2. CASE l # <<>>
            <3>1. 1 \in 1 .. Len(l) /\ l[1].at = 1
                BY <1>1, <2>2 DEF Placed
            <3>2. 1 <= m <=> 1 <= n
                BY <1>0, <3>1
            <3>3. (g # <<>> <=> 1 <= n) /\ (h # <<>> <=> 1 <= m)
                BY <1>2, <1>3, Emptiness
            <3>4. 1 <= m => h[1] = l[1]
                BY <1>1, <1>3
            <3> QED
                BY <3>1, <3>2, <3>3, <3>4
        <2> QED
            BY <2>1, <2>2
    <1>7. Placed(g, h)
        BY <1>2, <1>3, <1>5, <1>6 DEF Placed
    <1> QED
        BY <1>2, <1>3, <1>4, <1>7

LEMMA RotPlaced ==
    ASSUME NEW f, NEW l, Placed(f, l), NEW r \in 1 .. Len(f),
           NEW g, g = [f EXCEPT ![r] = Rotten]
    PROVE  Placed(g, l) /\ Len(g) = Len(f)
    <1>1. f \in Seq(Word) /\ Len(f) \in Nat /\ Rotten \in Word
        BY PlacedTypes DEF Word
    <1>2. g \in Seq(Word) /\ Len(g) = Len(f) /\ \A q \in 1 .. Len(f) : g[q] \in {f[q], Rotten}
        BY <1>1
    <1>3. \A i \in 1 .. Len(l) : LastIn(g, l, i) = LastIn(f, l, i)
        BY <1>2 DEF LastIn
    <1>4. ASSUME NEW i \in 1 .. Len(l)
          PROVE  Fits(g, l, i) /\ Holds(g, l, i)
        <2>1. Fits(f, l, i) /\ Holds(f, l, i)
            BY DEF Placed
        <2>2. Fits(g, l, i)
            BY <1>2, <1>3, <2>1 DEF Fits
        <2>3. l[i].at \in Nat /\ LastIn(f, l, i) \in Nat
            BY PlacedTypes
        <2>4. \A q \in l[i].at .. LastIn(f, l, i) : q \in 1 .. Len(f)
            BY <1>1, <2>1, <2>3 DEF Fits
        <2>5. Holds(g, l, i)
            BY <1>2, <1>3, <2>1, <2>4 DEF Holds
        <2> QED
            BY <2>2, <2>5
    <1>5. (g # <<>>) <=> (f # <<>>)
        BY <1>1, <1>2, Emptiness
    <1>6. Placed(g, l)
        BY <1>2, <1>4, <1>5 DEF Placed
    <1> QED
        BY <1>2, <1>6

Returned(l, d) == [l EXCEPT ![Len(l)].durable = d]

LEMMA ReturnPlaced ==
    ASSUME NEW f, NEW l, Placed(f, l), l # <<>>, NEW d \in BOOLEAN, NEW h, h = Returned(l, d)
    PROVE  /\ Placed(f, h) /\ Len(h) = Len(l)
           /\ \A i \in 1 .. Len(l) : LastIn(f, h, i) = LastIn(f, l, i)
           /\ \A i \in 1 .. Len(l) : i # Len(l) => h[i].durable = l[i].durable
           /\ h[Len(l)].durable = d
    <1>1. l \in Seq(Appends) /\ Len(l) \in Nat /\ Len(l) \in 1 .. Len(l)
        BY PlacedTypes, Emptiness
    <1>2. Len(h) = Len(l) /\ \A i \in 1 .. Len(l) : i # Len(l) => h[i] = l[i]
        BY <1>1 DEF Returned
    <1>3. h[Len(l)] = [l[Len(l)] EXCEPT !.durable = d]
        BY <1>1 DEF Returned
    <1>4. /\ h[Len(l)].at = l[Len(l)].at /\ h[Len(l)].words = l[Len(l)].words
          /\ h[Len(l)].durable = d /\ h[Len(l)] \in Appends
        <2>1. l[Len(l)] \in Appends
            BY <1>1
        <2> QED
            BY <1>3, <2>1 DEF Appends
    <1>5. \A i \in 1 .. Len(l) :
              h[i].at = l[i].at /\ h[i].words = l[i].words /\ h[i] \in Appends
        BY <1>1, <1>2, <1>4
    <1>6. h \in Seq(Appends)
        <2>1. h \in Seq(Appends \cup {h[Len(l)]})
            BY <1>1, <1>3 DEF Returned
        <2> QED
            BY <1>2, <1>5, <2>1
    <1>7. ASSUME NEW i \in 1 .. Len(l)
          PROVE  LastIn(f, h, i) = LastIn(f, l, i)
        <2>1. CASE i = Len(l)
            BY <1>2, <2>1 DEF LastIn
        <2>2. CASE i # Len(l)
            <3>1. i + 1 \in 1 .. Len(l)
                BY <1>1, <2>2
            <3> QED
                BY <1>2, <1>5, <2>2, <3>1 DEF LastIn
        <2> QED
            BY <2>1, <2>2
    <1>8. ASSUME NEW i \in 1 .. Len(l)
          PROVE  Fits(f, h, i) /\ Holds(f, h, i)
        <2>1. Fits(f, l, i) /\ Holds(f, l, i) /\ h[i].at = l[i].at /\ h[i].words = l[i].words
            BY <1>5 DEF Placed
        <2>2. \A j \in i + 1 .. Len(l) : h[j].at = l[j].at
            <3>1. \A j \in i + 1 .. Len(l) : j \in 1 .. Len(l)
                BY <1>1
            <3> QED
                BY <1>5, <3>1
        <2>3. Fits(f, h, i)
            BY <1>2, <1>7, <2>1, <2>2 DEF Fits
        <2>4. Holds(f, h, i)
            BY <1>7, <2>1 DEF Holds
        <2> QED
            BY <2>3, <2>4
    <1>9. h # <<>> /\ h[1].at = 1
        <2>1. 1 \in 1 .. Len(l) /\ l[1].at = 1
            BY <1>1 DEF Placed
        <2> QED
            BY <1>1, <1>2, <1>5, <1>6, <2>1, Emptiness
    <1>10. Placed(f, h)
        <2>1. f \in Seq(Word) /\ f # <<>>
            BY DEF Placed
        <2> QED
            BY <1>2, <1>6, <1>8, <1>9, <2>1 DEF Placed
    <1> QED
        BY <1>2, <1>4, <1>7, <1>10

-----------------------------------------------------------------------------
(* The inductive invariant: the file is the appends of the log, one after  *)
(* the other, each perhaps cut and rotten, and what was promised to be     *)
(* durable is synced.                                                      *)

Promised(f, l, n) == \A i \in 1 .. Len(l) : l[i].durable => LastIn(f, l, i) <= n

Scalars ==
    /\ synced \in 0 .. Len(file)
    /\ writer \in {"closed", "open", "wrote"}
    /\ policy \in Policies
    /\ seq \in WalSeqStart .. WalSeqStart + MaxSeq
    /\ writer = "wrote" => log # <<>>

FInv == Placed(file, log) /\ Promised(file, log, synced) /\ Scalars

LEMMA FInvInit == Init => FInv
    <1> SUFFICES ASSUME Init PROVE FInv
        OBVIOUS
    <1>1. file = <<>> /\ log = <<>> /\ Len(file) = 0 /\ Len(log) = 0
        BY DEF Init
    <1>2. Placed(file, log) /\ Promised(file, log, synced)
        BY <1>1 DEF Placed, Promised
    <1>3. Scalars
        BY <1>1, WalAssumption DEF Init, Scalars, WalSeqStart
    <1> QED
        BY <1>2, <1>3 DEF FInv

\* A write of k of an entry's words keeps the invariant's parts about the file.
LEMMA WrittenKeeps ==
    ASSUME FInv, NEW n \in Nat, NEW body \in Bodies, NEW k \in 0 .. Len(Encode(n, body)),
           Written(Encode(n, body), k), synced' = synced
    PROVE  /\ Placed(file, log)' /\ Promised(file, log, synced)'
           /\ synced' \in 0 .. Len(file')
           /\ (k = 0 => log' = log) /\ (k > 0 => log' # <<>>)
    <1> DEFINE words == Encode(n, body)
    <1>1. words \in Entries
        BY WalAssumption DEF Entries, Body
    <1>2. words \in Seq(Word) /\ Len(words) \in Nat
        BY <1>1, EntryIs
    <1>3. /\ file' = file \o SubSeq(words, 1, k)
          /\ log' = IF k = 0 THEN log
                    ELSE Append(log, [at |-> Len(file) + 1, words |-> words, durable |-> FALSE])
        BY DEF Written
    <1>4. k \in 0 .. Len(words)
        OBVIOUS
    <1> HIDE DEF words
    <1>5. Placed(file, log) /\ Promised(file, log, synced) /\ synced \in 0 .. Len(file)
        BY DEF FInv, Scalars
    <1>6. file \in Seq(Word) /\ Len(file) \in Nat /\ log \in Seq(Appends) /\ Len(log) \in Nat
        BY <1>5, PlacedTypes
    <1>7. CASE k = 0
        <2>1. SubSeq(words, 1, 0) = <<>>
            BY <1>2
        <2>2. file' = file /\ log' = log
            BY <1>3, <1>6, <1>7, <2>1
        <2> QED
            BY <1>5, <1>7, <2>2
    <1>8. CASE k # 0
        <2>1. k \in 1 .. Len(words)
            BY <1>2, <1>4, <1>8
        <2>2. /\ file' = file \o SubSeq(words, 1, k)
              /\ log' = Append(log, [at |-> Len(file) + 1, words |-> words, durable |-> FALSE])
            BY <1>3, <1>8
        <2>3. Extends(file, log, words, k, file', log') /\ log'[Len(log) + 1].durable = FALSE
            BY <1>1, <1>5, <2>1, <2>2, AppendPlaced
        <2>4. /\ Placed(file', log')
              /\ \A i \in 1 .. Len(log) : LastIn(file', log', i) = LastIn(file, log, i)
            BY <1>1, <1>5, <2>1, <2>3, ExtendPlaced
        <2>5. /\ Len(file') = Len(file) + k /\ Len(log') = Len(log) + 1
              /\ \A i \in 1 .. Len(log) : log'[i] = log[i]
              /\ log' \in Seq(Appends)
            BY <2>3 DEF Extends
        <2>6. Promised(file', log', synced)
            <3> SUFFICES ASSUME NEW i \in 1 .. Len(log'), log'[i].durable
                         PROVE  LastIn(file', log', i) <= synced
                BY DEF Promised
            <3>1. i \in 1 .. Len(log)
                BY <1>6, <2>3, <2>5
            <3> QED
                BY <1>5, <2>4, <2>5, <3>1 DEF Promised
        <2>7. log' # <<>>
            <3>1. 1 <= Len(log')
                BY <1>6, <2>5
            <3> QED
                BY <2>5, <3>1, Emptiness
        <2> QED
            BY <1>5, <1>6, <1>8, <2>1, <2>4, <2>5, <2>6, <2>7
    <1> QED
        BY <1>7, <1>8

LEMMA FInvNext == FInv /\ [Next]_vars => FInv'
    <1> SUFFICES ASSUME FInv, [Next]_vars PROVE FInv'
        OBVIOUS
    <1>1. Placed(file, log) /\ Promised(file, log, synced) /\ Scalars
        BY DEF FInv
    <1>2. file \in Seq(Word) /\ Len(file) \in Nat /\ log \in Seq(Appends) /\ Len(log) \in Nat
          /\ synced \in Nat /\ synced <= Len(file) /\ seq \in Nat /\ MaxSeq \in Nat
        BY <1>1, PlacedTypes, WalAssumption DEF Scalars, WalSeqStart
    <1>3. \A i \in 1 .. Len(log) : LastIn(file, log, i) \in Nat /\ LastIn(file, log, i) <= Len(file)
        BY <1>1, PlacedTypes DEF Placed, Fits
    <1>4. CASE UNCHANGED vars
        BY <1>1, <1>4 DEF vars, FInv, Scalars
    <1>5. CASE Open
        BY <1>1, <1>2, <1>5 DEF Open, FInv, Scalars, WalSeqStart
    <1>6. ASSUME NEW body \in Bodies, Write(body)
          PROVE  FInv'
        <2>1. /\ Written(Encode(seq, body), Len(Encode(seq, body))) /\ seq < WalSeqStart + MaxSeq
              /\ writer' = "wrote" /\ synced' = synced /\ policy' = policy
            BY <1>6 DEF Write
        <2>2. Encode(seq, body) \in Entries
            BY <1>2, WalAssumption DEF Entries, Body
        <2>3. Len(Encode(seq, body)) \in Nat /\ Len(Encode(seq, body)) > 0
            BY <2>2, EntryIs DEF MinEntry
        <2>4. Len(Encode(seq, body)) \in 0 .. Len(Encode(seq, body))
            BY <2>3
        <2>5. /\ Placed(file, log)' /\ Promised(file, log, synced)'
              /\ synced' \in 0 .. Len(file') /\ log' # <<>>
            BY <1>2, <2>1, <2>3, <2>4, WrittenKeeps
        <2>6. seq' = seq + 1
            BY <2>1 DEF Written
        <2> QED
            BY <1>1, <1>2, <2>1, <2>5, <2>6 DEF FInv, Scalars, WalSeqStart
    <1>7. ASSUME NEW body \in Bodies, ShortWrite(body)
          PROVE  FInv'
        <2>1. PICK k \in 0 .. Len(Encode(seq, body)) - 1 : Written(Encode(seq, body), k)
            BY <1>7 DEF ShortWrite
        <2>2. /\ writer = "open" /\ writer' = writer /\ synced' = synced /\ policy' = policy
              /\ seq < WalSeqStart + MaxSeq
            BY <1>7 DEF ShortWrite
        <2>3. Encode(seq, body) \in Entries
            BY <1>2, WalAssumption DEF Entries, Body
        <2>4. Len(Encode(seq, body)) \in Nat
            BY <2>3, EntryIs
        <2>5. k \in 0 .. Len(Encode(seq, body))
            BY <2>4
        <2>6. /\ Placed(file, log)' /\ Promised(file, log, synced)'
              /\ synced' \in 0 .. Len(file')
            BY <1>2, <2>1, <2>2, <2>5, WrittenKeeps
        <2>7. seq' = seq + 1
            BY <2>1 DEF Written
        <2> QED
            BY <1>1, <1>2, <2>2, <2>6, <2>7 DEF FInv, Scalars, WalSeqStart
    <1>8. CASE Return
        <2> DEFINE d == policy = "ALWAYS"
        <2>1. /\ log # <<>> /\ log' = Returned(log, d) /\ d \in BOOLEAN
              /\ synced' = IF d THEN Len(file) ELSE synced
              /\ writer' = "open" /\ file' = file /\ policy' = policy /\ seq' = seq
            BY <1>1, <1>8 DEF Return, Returned, Scalars
        <2> HIDE DEF d
        <2>2. /\ Placed(file, log') /\ Len(log') = Len(log)
              /\ \A i \in 1 .. Len(log) : LastIn(file, log', i) = LastIn(file, log, i)
              /\ \A i \in 1 .. Len(log) : i # Len(log) => log'[i].durable = log[i].durable
              /\ log'[Len(log)].durable = d
            BY <1>1, <2>1, ReturnPlaced
        <2>3. Promised(file, log', synced')
            <3> SUFFICES ASSUME NEW i \in 1 .. Len(log), log'[i].durable
                         PROVE  LastIn(file, log, i) <= synced'
                BY <2>2 DEF Promised
            <3>1. CASE d
                BY <1>3, <2>1, <3>1
            <3>2. CASE ~d
                <4>1. log[i].durable
                    BY <2>2, <3>2
                <4> QED
                    BY <1>1, <2>1, <3>2, <4>1 DEF Promised
            <3> QED
                BY <3>1, <3>2
        <2>4. synced' \in 0 .. Len(file)
            BY <1>2, <2>1
        <2> QED
            BY <1>1, <2>1, <2>2, <2>3, <2>4 DEF FInv, Scalars
    <1>9. CASE PeriodicSync \/ Close
        <2>1. /\ synced' = Len(file) /\ file' = file /\ log' = log /\ policy' = policy /\ seq' = seq
              /\ writer' = writer \/ writer' = "closed"
            BY <1>9 DEF PeriodicSync, Close
        <2>2. Promised(file, log, Len(file))
            BY <1>3 DEF Promised
        <2> QED
            BY <1>1, <1>2, <2>1, <2>2 DEF FInv, Scalars
    <1>10. CASE Crash
        BY <1>1, <1>10 DEF Crash, FInv, Scalars
    <1>11. CASE PowerFail
        <2>1. /\ writer' = "closed" /\ policy' = policy /\ seq' = seq
            BY <1>11 DEF PowerFail
        <2>2. PICK n \in synced .. Len(file), m \in 0 .. Len(log) :
                  Cuts(file, log, n, m, file', log') /\ synced' = n
            BY <1>11 DEF PowerFail, Cuts
        <2>3. n \in 0 .. Len(file) /\ n \in Nat
            BY <1>2
        <2>4. /\ Placed(file', log') /\ Len(file') = n /\ Len(log') = m
              /\ \A i \in 1 .. m : LastIn(file', log', i) <= n
            BY <1>1, <2>2, <2>3, CutPlaced
        <2>5. Promised(file', log', synced')
            BY <2>2, <2>4 DEF Promised
        <2>6. synced' \in 0 .. Len(file')
            BY <2>2, <2>3, <2>4
        <2> QED
            BY <1>1, <2>1, <2>4, <2>5, <2>6 DEF FInv, Scalars
    <1>12. CASE Rot
        <2>1. /\ synced' = synced /\ log' = log /\ writer' = writer /\ policy' = policy
              /\ seq' = seq /\ \E i \in 1 .. synced : file' = [file EXCEPT ![i] = Rotten]
            BY <1>12 DEF Rot
        <2>2. PICK r \in 1 .. synced : file' = [file EXCEPT ![r] = Rotten]
            BY <2>1
        <2>3. r \in 1 .. Len(file)
            BY <1>2
        <2>4. Placed(file', log) /\ Len(file') = Len(file)
            BY <1>1, <2>2, <2>3, RotPlaced
        <2>5. Promised(file', log, synced)
            BY <1>1, <2>4 DEF Promised, LastIn
        <2> QED
            BY <1>1, <2>1, <2>4, <2>5 DEF FInv, Scalars
    <1> QED
        BY <1>4, <1>5, <1>6, <1>7, <1>8, <1>9, <1>10, <1>11, <1>12 DEF Next

\* Whatever has happened to the file, it is the appends of the log in order.
THEOREM FileInvariant == Spec => []FInv
    BY FInvInit, FInvNext, PTL DEF Spec

\* The appends lie in the file one after the other, and no more is synced than
\* is there.
THEOREM TypeCorrect == Spec => []TypeOK
    <1>1. FInv => TypeOK
        <2> SUFFICES ASSUME FInv PROVE TypeOK
            OBVIOUS
        <2>1. \A i \in 1 .. Len(log) : LastIn(file, log, i) = LastWord(i)
            BY DEF LastIn, LastWord
        <2> QED
            BY <2>1 DEF FInv, Placed, Fits, Scalars, TypeOK
    <1> QED
        BY <1>1, FileInvariant, PTL

-----------------------------------------------------------------------------
(* What replay returns.                                                    *)

LEMMA LengthIs ==
    ASSUME NEW word \in Word, NEW junk \in Nat
    PROVE  Length(word, junk) \in Nat
    BY WordIs DEF Length

LEMMA EndIs ==
    ASSUME NEW f \in Seq(Word), NEW junk \in Nat, NEW p \in 1 .. Len(f) + 1
    PROVE  EndOf(f, p, junk) \in {0} \cup p + 5 .. Len(f) + 1
    <1> DEFINE metaLen == p + 3 + Length(f[p + 2], junk)
               crc == metaLen + 1 + Length(f[metaLen], junk)
    <1> SUFFICES ASSUME EndOf(f, p, junk) # 0
                 PROVE  EndOf(f, p, junk) \in p + 5 .. Len(f) + 1
        OBVIOUS
    <1>1. Len(f) \in Nat /\ p \in Nat /\ p >= 1
        OBVIOUS
    <1>2. ~(p + MinEntry - 1 > Len(f) \/ f[p] # Magic)
        BY DEF EndOf
    <1>3. EndOf(f, p, junk) = IF metaLen > Len(f) THEN 0
                              ELSE IF crc > Len(f) THEN 0 ELSE crc + 1
        BY <1>2 DEF EndOf
    <1>4. ~(metaLen > Len(f))
        BY <1>3
    <1>5. EndOf(f, p, junk) = IF crc > Len(f) THEN 0 ELSE crc + 1
        BY <1>3, <1>4
    <1> HIDE DEF crc
    <1>6. ~(crc > Len(f)) /\ EndOf(f, p, junk) = crc + 1
        BY <1>5
    <1>7. Length(f[p + 2], junk) \in Nat
        <2>1. p + 2 \in 1 .. Len(f)
            BY <1>1, <1>2 DEF MinEntry
        <2>2. f[p + 2] \in Word
            BY <2>1
        <2> QED
            BY <2>2, LengthIs
    <1>8. metaLen \in 1 .. Len(f) /\ metaLen >= p + 3
        BY <1>1, <1>4, <1>7
    <1> HIDE DEF metaLen
    <1>9. Length(f[metaLen], junk) \in Nat
        <2>1. f[metaLen] \in Word
            BY <1>8
        <2> QED
            BY <2>1, LengthIs
    <1>10. crc >= p + 4 /\ crc \in Nat
        BY <1>1, <1>8, <1>9 DEF crc
    <1> QED
        BY <1>1, <1>6, <1>10

\* The entry at p, if replay returns it, and the rest.
Kept(f, junk, p) == IF CrcMatches(f, p, EndOf(f, p, junk)) THEN {p} ELSE {}

\* g holds what replay returns from each place on, from lo to the end.
Unrolls(f, junk, g, lo) ==
    g = [p \in lo .. Len(f) + 1 |->
            IF EndOf(f, p, junk) = 0 THEN {}
            ELSE Kept(f, junk, p) \cup g[EndOf(f, p, junk)]]

LEMMA UnrollExists ==
    ASSUME NEW f \in Seq(Word), NEW junk \in Nat
    PROVE  \E g : Unrolls(f, junk, g, 1)
    <1> DEFINE S == {k \in Nat : k <= Len(f) + 1 => \E g : Unrolls(f, junk, g, Len(f) + 2 - k)}
    <1>1. Len(f) \in Nat
        OBVIOUS
    <1>2. 0 \in S
        <2> DEFINE e == [p \in Len(f) + 2 .. Len(f) + 1 |-> {}]
        <2>1. Len(f) + 2 .. Len(f) + 1 = {}
            BY <1>1
        <2>2. Unrolls(f, junk, e, Len(f) + 2)
            BY <2>1 DEF Unrolls
        <2>3. Len(f) + 2 - 0 = Len(f) + 2
            BY <1>1
        <2> QED
            BY <2>2, <2>3
    <1>3. ASSUME NEW k \in Nat, k \in S
          PROVE  k + 1 \in S
        <2> SUFFICES ASSUME k + 1 <= Len(f) + 1
                     PROVE  \E g : Unrolls(f, junk, g, Len(f) + 2 - (k + 1))
            OBVIOUS
        <2> DEFINE lo == Len(f) + 2 - (k + 1)
        <2>1. /\ k <= Len(f) + 1 /\ Len(f) + 2 - k = lo + 1 /\ lo \in 1 .. Len(f) + 1
            BY <1>1
        <2>2. PICK g : Unrolls(f, junk, g, lo + 1)
            BY <1>3, <2>1
        <2> HIDE DEF lo
        <2> DEFINE first == IF EndOf(f, lo, junk) = 0 THEN {}
                            ELSE Kept(f, junk, lo) \cup g[EndOf(f, lo, junk)]
                   h == [p \in lo .. Len(f) + 1 |-> IF p = lo THEN first ELSE g[p]]
        <2>3. \A p \in lo + 1 .. Len(f) + 1 :
                  g[p] = IF EndOf(f, p, junk) = 0 THEN {}
                         ELSE Kept(f, junk, p) \cup g[EndOf(f, p, junk)]
            BY <2>2 DEF Unrolls
        <2>4. \A p \in lo .. Len(f) + 1 :
                  EndOf(f, p, junk) # 0 =>
                      /\ EndOf(f, p, junk) \in lo .. Len(f) + 1 /\ EndOf(f, p, junk) # lo
            <3> SUFFICES ASSUME NEW p \in lo .. Len(f) + 1, EndOf(f, p, junk) # 0
                         PROVE  EndOf(f, p, junk) \in lo .. Len(f) + 1 /\ EndOf(f, p, junk) # lo
                OBVIOUS
            <3>1. p \in 1 .. Len(f) + 1 /\ lo \in Nat /\ p >= lo /\ p \in Nat
                BY <2>1
            <3>2. EndOf(f, p, junk) \in p + 5 .. Len(f) + 1
                BY <3>1, EndIs
            <3> QED
                BY <1>1, <3>1, <3>2
        <2>5. \A p \in lo .. Len(f) + 1 : h[p] = IF p = lo THEN first ELSE g[p]
            OBVIOUS
        <2> HIDE DEF h
        <2>6. \A p \in lo .. Len(f) + 1 :
                  EndOf(f, p, junk) # 0 => h[EndOf(f, p, junk)] = g[EndOf(f, p, junk)]
            BY <2>4, <2>5
        <2>7. \A p \in lo .. Len(f) + 1 :
                  h[p] = IF EndOf(f, p, junk) = 0 THEN {}
                         ELSE Kept(f, junk, p) \cup h[EndOf(f, p, junk)]
            <3> SUFFICES ASSUME NEW p \in lo .. Len(f) + 1
                         PROVE  h[p] = IF EndOf(f, p, junk) = 0 THEN {}
                                       ELSE Kept(f, junk, p) \cup h[EndOf(f, p, junk)]
                OBVIOUS
            <3>1. CASE p = lo
                BY <2>5, <2>6, <3>1
            <3>2. CASE p # lo
                <4>1. p \in lo + 1 .. Len(f) + 1
                    BY <2>1, <3>2
                <4> QED
                    BY <2>3, <2>5, <2>6, <3>2, <4>1
            <3> QED
                BY <3>1, <3>2
        <2>8. h = [p \in lo .. Len(f) + 1 |-> h[p]]
            BY DEF h
        <2>9. Unrolls(f, junk, h, lo)
            BY <2>7, <2>8 DEF Unrolls
        <2> QED
            BY <2>9 DEF lo
    <1> HIDE DEF S
    <1>4. Len(f) + 1 \in S
        BY <1>1, <1>2, <1>3, Induction
    <1>5. Len(f) + 2 - (Len(f) + 1) = 1 /\ Len(f) + 1 <= Len(f) + 1
        BY <1>1
    <1> QED
        BY <1>4, <1>5 DEF S

LEMMA ReplayIs ==
    ASSUME NEW f \in Seq(Word), NEW junk \in Nat
    PROVE  \E g : Unrolls(f, junk, g, 1) /\ Replay(f, junk) = g[1]
    <1> DEFINE from == CHOOSE g : Unrolls(f, junk, g, 1)
    <1>1. Unrolls(f, junk, from, 1)
        BY UnrollExists
    <1>2. Replay(f, junk) = from[1]
        BY DEF Replay, Unrolls, Kept
    <1> QED
        BY <1>1, <1>2

\* What replay returns begins an entry whose checksum matches.
Matches(f, junk, p) ==
    /\ p \in 1 .. Len(f) + 1
    /\ EndOf(f, p, junk) # 0
    /\ CrcMatches(f, p, EndOf(f, p, junk))

LEMMA ReturnedMatch ==
    ASSUME NEW f \in Seq(Word), NEW junk \in Nat, NEW g, Unrolls(f, junk, g, 1),
           NEW q \in 1 .. Len(f) + 1
    PROVE  \A p \in g[q] : p >= q /\ Matches(f, junk, p)
    <1> DEFINE Right(r) == \A p \in g[r] : p >= r /\ Matches(f, junk, p)
               S == {k \in Nat : \A r \in 1 .. Len(f) + 1 : r >= Len(f) + 2 - k => Right(r)}
    <1>1. Len(f) \in Nat
        OBVIOUS
    <1>2. 0 \in S
        BY <1>1
    <1>3. ASSUME NEW k \in Nat, k \in S
          PROVE  k + 1 \in S
        <2> SUFFICES ASSUME NEW r \in 1 .. Len(f) + 1, r >= Len(f) + 2 - (k + 1)
                     PROVE  Right(r)
            OBVIOUS
        <2>1. g[r] = IF EndOf(f, r, junk) = 0 THEN {}
                     ELSE Kept(f, junk, r) \cup g[EndOf(f, r, junk)]
            BY DEF Unrolls
        <2>2. CASE EndOf(f, r, junk) = 0
            BY <2>1, <2>2
        <2>3. CASE EndOf(f, r, junk) # 0
            <3>1. EndOf(f, r, junk) \in r + 5 .. Len(f) + 1 /\ r \in Nat
                BY <2>3, EndIs
            <3>2. /\ EndOf(f, r, junk) \in 1 .. Len(f) + 1 /\ EndOf(f, r, junk) >= Len(f) + 2 - k
                  /\ EndOf(f, r, junk) >= r /\ EndOf(f, r, junk) \in Nat
                BY <1>1, <3>1
            <3>3. Right(EndOf(f, r, junk))
                BY <1>3, <3>2
            <3>4. \A p \in g[EndOf(f, r, junk)] : p >= r /\ Matches(f, junk, p)
                <4> SUFFICES ASSUME NEW p \in g[EndOf(f, r, junk)]
                             PROVE  p >= r /\ Matches(f, junk, p)
                    OBVIOUS
                <4>1. p >= EndOf(f, r, junk) /\ Matches(f, junk, p)
                    BY <3>3
                <4>2. p \in Nat
                    BY <4>1 DEF Matches
                <4> QED
                    BY <3>1, <3>2, <4>1, <4>2
            <3>5. \A p \in Kept(f, junk, r) : p >= r /\ Matches(f, junk, p)
                BY <2>3, <3>1 DEF Kept, Matches
            <3> QED
                BY <2>1, <2>3, <3>4, <3>5
        <2> QED
            BY <2>2, <2>3
    <1> HIDE DEF S
    <1>4. Len(f) + 1 \in S
        BY <1>1, <1>2, <1>3, Induction
    <1>5. q >= Len(f) + 2 - (Len(f) + 1)
        BY <1>1
    <1> QED
        BY <1>4, <1>5 DEF S

\* The append a word of the file belongs to.
LEMMA Owner ==
    ASSUME NEW f, NEW l, Placed(f, l), NEW q \in 1 .. Len(f)
    PROVE  \E i \in 1 .. Len(l) : q \in l[i].at .. LastIn(f, l, i)
    <1>1. f \in Seq(Word) /\ Len(f) \in Nat /\ l \in Seq(Appends) /\ Len(l) \in Nat
        BY PlacedTypes
    <1>2. l # <<>> /\ l[1].at = 1 /\ 1 \in 1 .. Len(l) /\ Len(l) \in 1 .. Len(l)
        <2>1. f # <<>>
            BY <1>1, Emptiness
        <2>2. l # <<>> /\ l[1].at = 1
            BY <2>1 DEF Placed
        <2> QED
            BY <1>1, <2>2, Emptiness
    <1> DEFINE T == {i \in 1 .. Len(l) : q <= LastIn(f, l, i)}
    <1>3. T \subseteq Nat /\ Len(l) \in T
        BY <1>2 DEF LastIn
    <1>4. PICK i \in T : \A j \in T : i <= j
        BY <1>3, LeastNat
    <1>5. l[i].at <= q
        <2>1. CASE i = 1
            BY <1>2, <2>1
        <2>2. CASE i # 1
            <3>1. i - 1 \in 1 .. Len(l) /\ i - 1 # Len(l) /\ (i - 1) + 1 = i /\ ~(i <= i - 1)
                BY <1>1, <2>2
            <3>2. i - 1 \notin T
                BY <1>4, <3>1
            <3>3. LastIn(f, l, i - 1) = l[i].at - 1
                BY <3>1 DEF LastIn
            <3>4. l[i].at \in Nat
                BY PlacedTypes
            <3>5. ~(q <= LastIn(f, l, i - 1))
                BY <3>1, <3>2
            <3> QED
                BY <3>3, <3>4, <3>5
        <2> QED
            BY <2>1, <2>2
    <1>6. l[i].at \in Nat /\ LastIn(f, l, i) \in Nat /\ i \in 1 .. Len(l) /\ q <= LastIn(f, l, i)
        BY PlacedTypes
    <1> QED
        BY <1>5, <1>6

LEMMA Distinct ==
    ASSUME NEW f, NEW l, Placed(f, l), NEW i \in 1 .. Len(l), NEW j \in 1 .. Len(l),
           l[i].at = l[j].at
    PROVE  i = j
    <1>1. \A a \in 1 .. Len(l), b \in 1 .. Len(l) : a < b => l[a].at < l[b].at
        <2> SUFFICES ASSUME NEW a \in 1 .. Len(l), NEW b \in 1 .. Len(l), a < b
                     PROVE  l[a].at < l[b].at
            OBVIOUS
        <2>1. Fits(f, l, a) /\ b \in a + 1 .. Len(l)
            BY PlacedTypes DEF Placed
        <2>2. l[a].at \in Nat /\ l[b].at \in Nat /\ LastIn(f, l, a) \in Nat
            BY PlacedTypes
        <2> QED
            BY <2>1, <2>2, SMTT(20) DEF Fits
    <1>2. l[i].at \in Nat /\ l[j].at \in Nat
        BY PlacedTypes
    <1> QED
        BY <1>1, <1>2

IntactIn(f, l, i) == SubSeq(f, l[i].at, LastIn(f, l, i)) = l[i].words

\* A piece of a sequence, word by word.
LEMMA Piece ==
    ASSUME NEW S, NEW s \in Seq(S), NEW a \in Nat, NEW b \in Nat, a >= 1, a <= b + 1, b <= Len(s)
    PROVE  /\ SubSeq(s, a, b) \in Seq(S) /\ Len(SubSeq(s, a, b)) = b - a + 1
           /\ \A k \in 1 .. b - a + 1 : SubSeq(s, a, b)[k] = s[a + k - 1]
    <1>1. \A k \in a .. b : s[k] \in S
        OBVIOUS
    <1> QED
        BY <1>1

LEMMA SameChecksum ==
    ASSUME NEW a, NEW b, <<"crc", a>> = <<"crc", b>>
    PROVE  a = b
    OBVIOUS

\* A checksum that matches is that of an entry, whole and where it was written.
LEMMA MatchIsWhole ==
    ASSUME NEW f, NEW l, Placed(f, l), NEW p \in Nat, p >= 1,
           NEW end \in Nat, end >= p + 2, end <= Len(f) + 1, CrcMatches(f, p, end)
    PROVE  \E i \in 1 .. Len(l) : l[i].at = p /\ IntactIn(f, l, i)
    <1> DEFINE q == end - 1
    <1>1. /\ f \in Seq(Word) /\ Len(f) \in Nat /\ q \in 1 .. Len(f) /\ q \in Nat
          /\ q - 1 \in Nat /\ end - 2 = q - 1 /\ p <= q - 1
        BY PlacedTypes
    <1>2. f[q] = <<"crc", SubSeq(f, p, q - 1)>>
        BY <1>1 DEF CrcMatches
    <1> HIDE DEF q
    <1>3. PICK i \in 1 .. Len(l) : q \in l[i].at .. LastIn(f, l, i)
        BY <1>1, Owner
    <1> DEFINE at == l[i].at
               last == LastIn(f, l, i)
               words == l[i].words
               n == Len(words)
               k == q - at + 1
    <1>4. /\ words \in Entries /\ at \in Nat /\ last \in Nat /\ n \in Nat
          /\ at >= 1 /\ last < at + n /\ last <= Len(f) /\ q >= at /\ q <= last
        BY <1>3, PlacedTypes DEF Placed, Fits
    <1>6. \A r \in at .. last : f[r] = words[r - at + 1] \/ f[r] = Rotten
        BY DEF Placed, Holds
    <1> HIDE DEF at, last, words, n, k
    <1>5. k \in 1 .. n
        BY <1>1, <1>4 DEF k
    <1>7. f[q] = words[k]
        <2>1. f[q] = words[k] \/ f[q] = Rotten
            BY <1>1, <1>4, <1>6 DEF k
        <2>2. f[q] # Rotten
            BY <1>2 DEF Rotten
        <2> QED
            BY <2>1, <2>2
    <1>8. k = n /\ words[n] = <<"crc", SubSeq(words, 1, n - 1)>>
        <2>1. words[k][1] = "crc"
            BY <1>2, <1>7
        <2> QED
            BY <1>4, <1>5, <2>1, OneChecksum DEF n
    <1>9. SubSeq(f, p, q - 1) = SubSeq(words, 1, n - 1)
        <2>1. <<"crc", SubSeq(f, p, q - 1)>> = <<"crc", SubSeq(words, 1, n - 1)>>
            BY <1>2, <1>7, <1>8, Zenon
        <2> QED
            BY <2>1, SameChecksum
    <1>10. words \in Seq(Word) /\ n \in Nat /\ Len(words) = n /\ n >= 5 /\ n - 1 \in Nat
        BY <1>4, EntryIs DEF n, MinEntry
    <1>11. /\ Len(SubSeq(f, p, q - 1)) = (q - 1) - p + 1
           /\ \A j \in 1 .. (q - 1) - p + 1 : SubSeq(f, p, q - 1)[j] = f[p + j - 1]
        <2>1. p <= (q - 1) + 1 /\ q - 1 <= Len(f)
            BY <1>1
        <2> QED
            BY <1>1, <2>1, Piece
    <1>12. /\ Len(SubSeq(words, 1, n - 1)) = (n - 1) - 1 + 1
           /\ \A j \in 1 .. (n - 1) - 1 + 1 : SubSeq(words, 1, n - 1)[j] = words[1 + j - 1]
        <2>1. 1 <= (n - 1) + 1 /\ n - 1 <= Len(words)
            BY <1>10
        <2> QED
            BY <1>10, <2>1, Piece
    <1>13. q - p = n - 1
        BY <1>1, <1>9, <1>10, <1>11, <1>12
    <1>14. at = p /\ last = q
        BY <1>1, <1>4, <1>8, <1>13 DEF k
    <1>15. \A j \in 1 .. n : f[at + j - 1] = words[j]
        <2> SUFFICES ASSUME NEW j \in 1 .. n PROVE f[at + j - 1] = words[j]
            OBVIOUS
        <2>1. CASE j = n
            <3>1. at + j - 1 = q
                BY <1>1, <1>4, <1>10, <1>13, <1>14, <2>1
            <3> QED
                BY <1>7, <1>8, <2>1, <3>1
        <2>2. CASE j # n
            <3>1. j \in 1 .. (q - 1) - p + 1 /\ j \in 1 .. (n - 1) - 1 + 1 /\ 1 + j - 1 = j
                BY <1>1, <1>10, <1>13, <2>2
            <3>2. SubSeq(f, p, q - 1)[j] = f[p + j - 1]
                BY <1>11, <3>1
            <3>3. SubSeq(words, 1, n - 1)[j] = words[1 + j - 1]
                BY <1>12, <3>1
            <3> QED
                BY <1>9, <1>14, <3>1, <3>2, <3>3
        <2> QED
            BY <2>1, <2>2
    <1>16. /\ SubSeq(f, at, last) \in Seq(Word) /\ Len(SubSeq(f, at, last)) = last - at + 1
           /\ \A j \in 1 .. last - at + 1 : SubSeq(f, at, last)[j] = f[at + j - 1]
        <2>1. at <= last + 1
            BY <1>1, <1>4
        <2> QED
            BY <1>1, <1>4, <2>1, Piece
    <1>17. last - at + 1 = n
        BY <1>1, <1>4, <1>10, <1>13, <1>14
    <1>18. SubSeq(f, at, last) = words
        BY <1>10, <1>15, <1>16, <1>17, SeqEqual
    <1> QED
        BY <1>14, <1>18 DEF IntactIn, at, last, words

LEMMA ReplayedAreWhole ==
    ASSUME NEW f, NEW l, Placed(f, l), NEW junk \in Nat, NEW p \in Replay(f, junk)
    PROVE  \E i \in 1 .. Len(l) : l[i].at = p /\ IntactIn(f, l, i)
    <1>1. f \in Seq(Word) /\ Len(f) \in Nat
        BY PlacedTypes
    <1>2. PICK g : Unrolls(f, junk, g, 1) /\ Replay(f, junk) = g[1]
        BY <1>1, ReplayIs
    <1>3. 1 \in 1 .. Len(f) + 1
        BY <1>1
    <1>4. Matches(f, junk, p)
        BY <1>1, <1>2, <1>3, ReturnedMatch
    <1>5. p \in 1 .. Len(f) + 1 /\ CrcMatches(f, p, EndOf(f, p, junk))
        BY <1>4 DEF Matches
    <1>6. EndOf(f, p, junk) \in p + 5 .. Len(f) + 1
        BY <1>1, <1>4, EndIs DEF Matches
    <1>7. /\ p \in Nat /\ p >= 1 /\ EndOf(f, p, junk) \in Nat
          /\ EndOf(f, p, junk) >= p + 2 /\ EndOf(f, p, junk) <= Len(f) + 1
        BY <1>1, <1>5, <1>6
    <1> QED
        BY <1>5, <1>7, MatchIsWhole

LEMMA SameIntact ==
    ASSUME NEW i
    PROVE  Intact(i) <=> IntactIn(file, log, i)
    BY DEF Intact, IntactIn, LastWord, LastIn

\* Replay returns nothing that was not appended whole, at the place where it was
\* appended, whatever torn and rotten words the file holds and however they are
\* read: a checksum that matches is the last word of an entry, and what it covers
\* says where that entry begins.
THEOREM NothingIsFabricated == Spec => []NoFabrication
    <1>1. FInv => NoFabrication
        <2> SUFFICES ASSUME FInv, NEW junk \in Junk, NEW p \in Replay(file, junk)
                     PROVE  \E i \in 1 .. Len(log) : log[i].at = p /\ Intact(i)
            BY DEF NoFabrication
        <2>1. Placed(file, log) /\ junk \in Nat
            BY WalAssumption DEF FInv
        <2> QED
            BY <2>1, ReplayedAreWhole, SameIntact
    <1> QED
        BY <1>1, FileInvariant, PTL

-----------------------------------------------------------------------------
(* How far replay gets.                                                    *)

\* The entry is at a, and the words that say where it ends are as written.
FramedAt(f, a, words) ==
    /\ a \in Nat /\ a >= 1 /\ a + Len(words) - 1 <= Len(f)
    /\ \A k \in 1 .. Len(words) :
           words[k][1] \in {"magic", "dim", "meta_len"} => f[a + k - 1] = words[k]

LEMMA FramedEnd ==
    ASSUME NEW f \in Seq(Word), NEW junk \in Nat, NEW words \in Entries, NEW a \in Nat,
           FramedAt(f, a, words)
    PROVE  EndOf(f, a, junk) = a + Len(words)
    <1>1. PICK dim \in Nat, len \in Nat : Shaped(words, dim, len)
        BY EntryIs
    <1>2. Len(words) = dim + len + 5 /\ a >= 1 /\ a + Len(words) - 1 <= Len(f) /\ Len(f) \in Nat
        BY <1>1 DEF Shaped, FramedAt
    <1>3. f[a] = Magic
        <2>1. words[1] = Magic /\ 1 \in 1 .. Len(words) /\ a + 1 - 1 = a
            BY <1>1, <1>2 DEF Shaped
        <2>2. words[1][1] = "magic"
            BY <2>1 DEF Magic
        <2> QED
            BY <2>1, <2>2 DEF FramedAt
    <1>4. Length(f[a + 2], junk) = dim
        <2>1. words[3] = <<"dim", dim>> /\ 3 \in 1 .. Len(words) /\ a + 3 - 1 = a + 2
            BY <1>1, <1>2 DEF Shaped
        <2>2. words[3][1] = "dim"
            BY <2>1
        <2>3. f[a + 2] = <<"dim", dim>>
            BY <2>1, <2>2 DEF FramedAt
        <2> QED
            BY <2>3 DEF Length
    <1>5. Length(f[a + 3 + dim], junk) = len
        <2>1. /\ words[4 + dim] = <<"meta_len", len>> /\ 4 + dim \in 1 .. Len(words)
              /\ a + (4 + dim) - 1 = a + 3 + dim
            BY <1>1, <1>2 DEF Shaped
        <2>2. words[4 + dim][1] = "meta_len"
            BY <2>1
        <2>3. f[a + 3 + dim] = <<"meta_len", len>>
            BY <2>1, <2>2 DEF FramedAt
        <2> QED
            BY <2>3 DEF Length
    <1>6. ~(a + MinEntry - 1 > Len(f) \/ f[a] # Magic)
        BY <1>2, <1>3 DEF MinEntry
    <1>7. EndOf(f, a, junk) = IF a + 3 + dim > Len(f) THEN 0
                              ELSE IF a + 3 + dim + 1 + len > Len(f) THEN 0
                              ELSE a + 3 + dim + 1 + len + 1
        BY <1>4, <1>5, <1>6, Zenon DEF EndOf
    <1> QED
        BY <1>2, <1>7

\* Entries in a row, framed, from the start of the file up to the i-th.
Row(f, l, i) ==
    /\ l[1].at = 1
    /\ \A j \in 1 .. i : FramedAt(f, l[j].at, l[j].words)
    /\ \A j \in 1 .. i - 1 : l[j + 1].at = l[j].at + Len(l[j].words) /\ l[j].at < l[i].at

\* Replay comes to the end of the row, and returns its last entry if that
\* entry's checksum matches.
LEMMA Reached ==
    ASSUME NEW f \in Seq(Word), NEW junk \in Nat, NEW l \in Seq(Appends),
           NEW i \in 1 .. Len(l), Row(f, l, i)
    PROVE  l[i].at \in Replay(f, junk) <=> CrcMatches(f, l[i].at, l[i].at + Len(l[i].words))
    <1>1. PICK g : Unrolls(f, junk, g, 1) /\ Replay(f, junk) = g[1]
        BY ReplayIs
    <1>2. Len(f) \in Nat /\ Len(l) \in Nat /\ i \in Nat /\ i >= 1
        OBVIOUS
    <1>3. ASSUME NEW j \in 1 .. i
          PROVE  /\ l[j].at \in 1 .. Len(f) + 1 /\ l[j].at \in Nat
                 /\ EndOf(f, l[j].at, junk) = l[j].at + Len(l[j].words)
                 /\ l[j].at + Len(l[j].words) \in 1 .. Len(f) + 1
                 /\ l[j].at < l[j].at + Len(l[j].words)
                 /\ g[l[j].at] = Kept(f, junk, l[j].at) \cup g[l[j].at + Len(l[j].words)]
        <2>1. l[j].words \in Entries /\ FramedAt(f, l[j].at, l[j].words)
            <3>1. l[j] \in Appends
                BY <1>2
            <3> QED
                BY <3>1 DEF Appends, Row
        <2>2. Len(l[j].words) \in Nat /\ Len(l[j].words) >= 5
            BY <2>1, EntryIs DEF MinEntry
        <2>3. /\ l[j].at \in Nat /\ l[j].at >= 1
              /\ l[j].at + Len(l[j].words) - 1 <= Len(f)
            BY <2>1 DEF FramedAt
        <2>4. EndOf(f, l[j].at, junk) = l[j].at + Len(l[j].words)
            BY <2>1, <2>3, FramedEnd
        <2>5. l[j].at \in 1 .. Len(f) + 1 /\ l[j].at + Len(l[j].words) # 0
            BY <1>2, <2>2, <2>3
        <2>6. g[l[j].at] = Kept(f, junk, l[j].at) \cup g[l[j].at + Len(l[j].words)]
            BY <1>1, <2>4, <2>5 DEF Unrolls
        <2> QED
            BY <1>2, <2>2, <2>3, <2>4, <2>5, <2>6, SMTT(20)
    <1> DEFINE S == {k \in Nat : k + 1 <= i => (l[i].at \in g[1] <=> l[i].at \in g[l[k + 1].at])}
    <1>4. 0 \in S
        BY DEF Row
    <1>5. ASSUME NEW k \in Nat, k \in S
          PROVE  k + 1 \in S
        <2> SUFFICES ASSUME k + 1 + 1 <= i
                     PROVE  l[i].at \in g[1] <=> l[i].at \in g[l[k + 1 + 1].at]
            OBVIOUS
        <2>1. k + 1 \in 1 .. i /\ k + 1 \in 1 .. i - 1 /\ k + 1 <= i
            BY <1>2
        <2>2. l[i].at \in g[1] <=> l[i].at \in g[l[k + 1].at]
            BY <1>5, <2>1
        <2>3. /\ l[k + 1 + 1].at = l[k + 1].at + Len(l[k + 1].words)
              /\ l[k + 1].at < l[i].at
            BY <2>1 DEF Row
        <2>4. /\ g[l[k + 1].at] = Kept(f, junk, l[k + 1].at) \cup g[l[k + 1 + 1].at]
              /\ l[k + 1].at \in Nat
            BY <1>3, <2>1, <2>3
        <2>5. l[i].at \notin Kept(f, junk, l[k + 1].at)
            BY <2>3, <2>4 DEF Kept
        <2> QED
            BY <2>2, <2>4, <2>5
    <1> HIDE DEF S
    <1>6. i - 1 \in S
        <2>1. i - 1 \in Nat
            BY <1>2
        <2> QED
            BY <1>4, <1>5, <2>1, Induction
    <1>7. l[i].at \in g[1] <=> l[i].at \in g[l[i].at]
        <2>1. (i - 1) + 1 = i /\ i <= i
            BY <1>2
        <2> QED
            BY <1>6, <2>1 DEF S
    <1> DEFINE end == l[i].at + Len(l[i].words)
    <1>8. /\ end \in 1 .. Len(f) + 1 /\ l[i].at < end /\ l[i].at \in Nat
          /\ EndOf(f, l[i].at, junk) = end
          /\ g[l[i].at] = Kept(f, junk, l[i].at) \cup g[end]
        <2>1. i \in 1 .. i
            BY <1>2
        <2> QED
            BY <1>3, <2>1
    <1> HIDE DEF end
    <1>9. l[i].at \notin g[end]
        <2>1. l[i].at \in g[end] => l[i].at >= end
            BY <1>1, <1>8, ReturnedMatch
        <2> QED
            BY <1>8, <2>1
    <1>10. l[i].at \in g[l[i].at] <=> CrcMatches(f, l[i].at, end)
        BY <1>8, <1>9 DEF Kept
    <1> QED
        BY <1>1, <1>7, <1>10 DEF end

\* An entry that is as it was written has a checksum that matches.
LEMMA WholeMatches ==
    ASSUME NEW f \in Seq(Word), NEW words \in Entries, NEW a \in Nat, a >= 1,
           a + Len(words) - 1 <= Len(f), SubSeq(f, a, a + Len(words) - 1) = words
    PROVE  CrcMatches(f, a, a + Len(words))
    <1> DEFINE n == Len(words)
    <1>1. words \in Seq(Word) /\ n \in Nat /\ n >= 5 /\ Len(words) = n /\ Len(f) \in Nat
        BY EntryIs DEF MinEntry
    <1>2. words[n] = <<"crc", SubSeq(words, 1, n - 1)>>
        <2>1. n \in 1 .. Len(words)
            BY <1>1
        <2> QED
            BY <2>1, OneChecksum
    <1> HIDE DEF n
    <1>3. a + n - 1 <= Len(f) /\ SubSeq(f, a, a + n - 1) = words
        BY DEF n
    <1>4. \A k \in 1 .. n : words[k] = f[a + k - 1]
        <2>1. a + n - 1 \in Nat /\ a <= (a + n - 1) + 1 /\ (a + n - 1) - a + 1 = n
            BY <1>1
        <2>2. \A k \in 1 .. (a + n - 1) - a + 1 : SubSeq(f, a, a + n - 1)[k] = f[a + k - 1]
            BY <1>3, <2>1, Piece
        <2> QED
            BY <1>3, <2>1, <2>2
    <1>5. f[a + n - 1] = words[n]
        BY <1>1, <1>4
    <1>6. SubSeq(f, a, a + n - 2) = SubSeq(words, 1, n - 1)
        <2> DEFINE s == SubSeq(f, a, a + n - 2)
                   t == SubSeq(words, 1, n - 1)
        <2>1. /\ s \in Seq(Word) /\ Len(s) = (a + n - 2) - a + 1
              /\ \A k \in 1 .. (a + n - 2) - a + 1 : s[k] = f[a + k - 1]
            <3>1. a + n - 2 \in Nat /\ a <= (a + n - 2) + 1 /\ a + n - 2 <= Len(f)
                BY <1>1, <1>3
            <3> QED
                BY <3>1, Piece
        <2>2. /\ t \in Seq(Word) /\ Len(t) = (n - 1) - 1 + 1
              /\ \A k \in 1 .. (n - 1) - 1 + 1 : t[k] = words[1 + k - 1]
            <3>1. n - 1 \in Nat /\ 1 <= (n - 1) + 1 /\ n - 1 <= Len(words)
                BY <1>1
            <3> QED
                BY <1>1, <3>1, Piece
        <2> HIDE DEF s, t
        <2>3. Len(s) = n - 1 /\ Len(t) = n - 1
            BY <1>1, <2>1, <2>2
        <2>4. \A k \in 1 .. n - 1 : s[k] = t[k]
            <3> SUFFICES ASSUME NEW k \in 1 .. n - 1 PROVE s[k] = t[k]
                OBVIOUS
            <3>1. /\ k \in 1 .. (a + n - 2) - a + 1 /\ k \in 1 .. (n - 1) - 1 + 1
                  /\ 1 + k - 1 = k /\ k \in 1 .. n
                BY <1>1
            <3>2. s[k] = f[a + k - 1]
                BY <2>1, <3>1
            <3>3. t[k] = words[1 + k - 1]
                BY <2>2, <3>1
            <3> QED
                BY <1>4, <3>1, <3>2, <3>3
        <2>5. s = t
            BY <2>1, <2>2, <2>3, <2>4, SeqEqual
        <2> QED
            BY <2>5 DEF s, t
    <1>7. a + n - 1 = (a + n) - 1 /\ a + n - 2 = (a + n) - 2
        BY <1>1
    <1>8. f[(a + n) - 1] = <<"crc", SubSeq(f, a, (a + n) - 2)>>
        BY <1>2, <1>5, <1>6, <1>7
    <1> QED
        BY <1>8 DEF CrcMatches, n

\* The appends before a reachable one, and it, are a row in the file and in
\* every file that begins with the same words.
LEMMA ReachableIsRow ==
    ASSUME FInv, NEW i \in 1 .. Len(log), Reachable(i),
           NEW f \in Seq(Word), Len(f) >= LastWord(i), \A q \in 1 .. LastWord(i) : f[q] = file[q]
    PROVE  /\ Row(f, log, i)
           /\ log[i].at + Len(log[i].words) - 1 = LastWord(i)
    <1>1. Placed(file, log)
        BY DEF FInv
    <1>2. /\ Len(file) \in Nat /\ Len(log) \in Nat /\ i \in Nat /\ i >= 1 /\ Len(f) \in Nat
          /\ LastWord(i) \in Nat
        <2>1. LastWord(i) = LastIn(file, log, i)
            BY DEF LastWord, LastIn
        <2> QED
            BY <1>1, <2>1, PlacedTypes
    <1>3. ASSUME NEW j \in 1 .. i
          PROVE  /\ log[j].at \in Nat /\ log[j].at >= 1 /\ Len(log[j].words) \in Nat
                 /\ log[j].at + Len(log[j].words) - 1 = LastWord(j)
                 /\ LastWord(j) \in Nat /\ LastWord(j) <= LastWord(i)
                 /\ j # i => LastWord(j) < log[i].at /\ LastWord(j) = log[j + 1].at - 1
        <2>1. j \in 1 .. Len(log) /\ j \in Nat /\ j <= i
            BY <1>2
        <2>2. LastWord(j) = LastIn(file, log, j) /\ LastWord(i) = LastIn(file, log, i)
            BY DEF LastWord, LastIn
        <2>3. Fits(file, log, j) /\ Fits(file, log, i)
            BY <1>1, <2>1 DEF Placed
        <2>4. log[j].at \in Nat /\ log[i].at \in Nat /\ Len(log[j].words) \in Nat
              /\ LastWord(j) \in Nat
            BY <1>1, <2>1, <2>2, PlacedTypes
        <2>5. log[j].at + Len(log[j].words) - 1 = LastWord(j)
            BY DEF Reachable, Framed, Complete
        <2>6. j # i => LastWord(j) < log[i].at
            <3>1. j # i => i \in j + 1 .. Len(log)
                BY <1>2, <2>1
            <3> QED
                BY <2>2, <2>3, <3>1 DEF Fits
        <2>7. j # i => j # Len(log) /\ LastWord(j) = log[j + 1].at - 1
            BY <1>2, <2>1 DEF LastWord
        <2>8. log[j].at >= 1 /\ log[i].at <= LastWord(i)
            BY <1>2, <2>2, <2>3, <2>4 DEF Fits
        <2>9. LastWord(j) <= LastWord(i)
            BY <1>2, <2>4, <2>6, <2>8
        <2> QED
            BY <2>4, <2>5, <2>6, <2>7, <2>8, <2>9
    <1>4. ASSUME NEW j \in 1 .. i
          PROVE  FramedAt(f, log[j].at, log[j].words)
        <2>1. /\ log[j].at \in Nat /\ log[j].at >= 1 /\ Len(log[j].words) \in Nat
              /\ log[j].at + Len(log[j].words) - 1 = LastWord(j)
              /\ LastWord(j) \in Nat /\ LastWord(j) <= LastWord(i)
            BY <1>3
        <2>2. ASSUME NEW k \in 1 .. Len(log[j].words),
                     log[j].words[k][1] \in {"magic", "dim", "meta_len"}
              PROVE  f[log[j].at + k - 1] = log[j].words[k]
            <3>1. file[log[j].at + k - 1] = log[j].words[k]
                BY <2>2 DEF Reachable, Framed
            <3>2. log[j].at + k - 1 \in 1 .. LastWord(i)
                BY <1>2, <2>1, SMTT(20)
            <3> QED
                BY <3>1, <3>2
        <2>3. log[j].at + Len(log[j].words) - 1 <= Len(f)
            BY <1>2, <2>1
        <2> QED
            BY <2>1, <2>2, <2>3 DEF FramedAt
    <1>5. ASSUME NEW j \in 1 .. i - 1
          PROVE  log[j + 1].at = log[j].at + Len(log[j].words) /\ log[j].at < log[i].at
        <2>1. j \in 1 .. i /\ j # i /\ j + 1 \in 1 .. Len(log)
            BY <1>2
        <2>2. log[j + 1].at \in Nat /\ log[i].at \in Nat /\ log[j].at \in Nat
              /\ log[j].at <= LastWord(j)
            <3>1. Fits(file, log, j) /\ LastWord(j) = LastIn(file, log, j) /\ j \in 1 .. Len(log)
                BY <1>1, <1>2 DEF Placed, LastWord, LastIn
            <3> QED
                BY <1>1, <2>1, <3>1, PlacedTypes, SMTT(20) DEF Fits
        <2>3. /\ log[j].at + Len(log[j].words) - 1 = LastWord(j) /\ LastWord(j) \in Nat
              /\ LastWord(j) = log[j + 1].at - 1 /\ LastWord(j) < log[i].at
              /\ Len(log[j].words) \in Nat
            BY <1>3, <2>1
        <2>4. log[j].at < log[i].at
            BY <2>2, <2>3, SMTT(20)
        <2>5. log[j + 1].at = LastWord(j) + 1
            BY <2>2, <2>3
        <2>6. LastWord(j) + 1 = log[j].at + Len(log[j].words)
            <3>1. \A a \in Nat, b \in Nat, c \in Nat : a + b - 1 = c => c + 1 = a + b
                OBVIOUS
            <3> QED
                BY <2>2, <2>3, <3>1, Zenon
        <2> QED
            BY <2>4, <2>5, <2>6
    <1>6. log[1].at = 1
        <2>1. log # <<>>
            BY <1>2
        <2> QED
            BY <1>1, <2>1 DEF Placed
    <1>7. i \in 1 .. i
        BY <1>2
    <1> QED
        BY <1>3, <1>4, <1>5, <1>6, <1>7 DEF Row

LEMMA IntactReturned ==
    ASSUME FInv, NEW i \in 1 .. Len(log), Reachable(i), Intact(i), NEW junk \in Nat,
           NEW f \in Seq(Word), Len(f) >= LastWord(i), \A q \in 1 .. LastWord(i) : f[q] = file[q]
    PROVE  log[i].at \in Replay(f, junk)
    <1> DEFINE at == log[i].at
               words == log[i].words
               last == LastWord(i)
    <1>1. Row(f, log, i) /\ at + Len(words) - 1 = last
        BY ReachableIsRow
    <1>2. /\ Placed(file, log) /\ file \in Seq(Word) /\ Len(file) \in Nat /\ log \in Seq(Appends)
          /\ words \in Entries /\ at \in Nat /\ Len(words) \in Nat
        BY PlacedTypes DEF FInv
    <1>3. at >= 1 /\ at <= last /\ last <= Len(file) /\ last \in Nat
        <2>1. Fits(file, log, i) /\ last = LastIn(file, log, i)
            BY <1>2 DEF Placed, LastWord, LastIn
        <2>2. last \in Nat
            BY <1>2, <2>1, PlacedTypes
        <2> QED
            BY <1>2, <2>1, <2>2 DEF Fits
    <1>4. SubSeq(file, at, last) = words
        BY DEF Intact
    <1>5. log[i].at \in Replay(f, junk) <=> CrcMatches(f, at, at + Len(words))
        BY <1>1, <1>2, Reached
    <1> HIDE DEF at, words, last
    <1>6. Len(f) \in Nat /\ last <= Len(f) /\ \A q \in 1 .. last : f[q] = file[q]
        BY DEF last
    <1>7. SubSeq(f, at, last) = words
        <2>1. /\ SubSeq(f, at, last) \in Seq(Word) /\ Len(SubSeq(f, at, last)) = last - at + 1
              /\ \A k \in 1 .. last - at + 1 : SubSeq(f, at, last)[k] = f[at + k - 1]
            <3>1. at <= last + 1
                BY <1>2, <1>3
            <3> QED
                BY <1>2, <1>3, <1>6, <3>1, Piece
        <2>2. /\ SubSeq(file, at, last) \in Seq(Word) /\ Len(SubSeq(file, at, last)) = last - at + 1
              /\ \A k \in 1 .. last - at + 1 : SubSeq(file, at, last)[k] = file[at + k - 1]
            <3>1. at <= last + 1
                BY <1>2, <1>3
            <3> QED
                BY <1>2, <1>3, <3>1, Piece
        <2>3. \A k \in 1 .. last - at + 1 : f[at + k - 1] = file[at + k - 1]
            <3>1. \A k \in 1 .. last - at + 1 : at + k - 1 \in 1 .. last
                BY <1>2, <1>3
            <3> QED
                BY <1>6, <3>1
        <2>4. SubSeq(f, at, last) = SubSeq(file, at, last)
            BY <2>1, <2>2, <2>3, SeqEqual
        <2> QED
            BY <1>4, <2>4
    <1>8. CrcMatches(f, at, at + Len(words))
        BY <1>1, <1>2, <1>3, <1>6, <1>7, WholeMatches
    <1> QED
        BY <1>5, <1>8

\* Damage to what an entry says costs that entry and no other: before the first
\* torn entry or damaged length, replay returns exactly the intact entries.
THEOREM OnlyDamagedSkipped == Spec => []SkipsOnlyDamaged
    <1>1. FInv => SkipsOnlyDamaged
        <2> SUFFICES ASSUME FInv, NEW junk \in Junk, NEW i \in 1 .. Len(log), Reachable(i)
                     PROVE  log[i].at \in Replay(file, junk) <=> Intact(i)
            BY DEF SkipsOnlyDamaged
        <2>1. junk \in Nat /\ Placed(file, log)
            BY WalAssumption DEF FInv
        <2>2. ASSUME log[i].at \in Replay(file, junk)
              PROVE  Intact(i)
            <3>1. PICK j \in 1 .. Len(log) : log[j].at = log[i].at /\ IntactIn(file, log, j)
                BY <2>1, <2>2, ReplayedAreWhole
            <3>2. j = i
                BY <2>1, <3>1, Distinct
            <3> QED
                BY <3>1, <3>2, SameIntact
        <2>3. ASSUME Intact(i)
              PROVE  log[i].at \in Replay(file, junk)
            <3>1. file \in Seq(Word) /\ Len(file) >= LastWord(i)
                <4>1. Fits(file, log, i) /\ LastWord(i) = LastIn(file, log, i)
                    BY <2>1 DEF Placed, LastWord, LastIn
                <4>2. LastWord(i) \in Nat
                    BY <2>1, <4>1, PlacedTypes
                <4> QED
                    BY <2>1, <4>1, <4>2 DEF Fits, Placed
            <3> QED
                BY <2>1, <2>3, <3>1, IntactReturned
        <2> QED
            BY <2>2, <2>3
    <1> QED
        BY <1>1, FileInvariant, PTL

\* With SYNC_ALWAYS, an append that returned is replayed after a power failure
\* now or later, if no append before it was cut short: all its words, and all
\* before them, are synced.
THEOREM DurableSurvives == Spec => []SurvivesPowerLoss
    <1>1. FInv => SurvivesPowerLoss
        <2> SUFFICES ASSUME FInv, NEW n \in synced .. Len(file), NEW junk \in Junk,
                            NEW i \in 1 .. Len(log), log[i].durable, Reachable(i), Intact(i)
                     PROVE  log[i].at \in Replay(SubSeq(file, 1, n), junk)
            BY DEF SurvivesPowerLoss
        <2>1. /\ junk \in Nat /\ Placed(file, log) /\ Promised(file, log, synced)
              /\ synced \in 0 .. Len(file)
            BY WalAssumption DEF FInv, Scalars
        <2>2. LastWord(i) <= synced /\ LastWord(i) \in Nat
            <3>1. LastWord(i) = LastIn(file, log, i)
                BY DEF LastWord, LastIn
            <3> QED
                BY <2>1, <3>1, PlacedTypes DEF Promised
        <2>3. file \in Seq(Word) /\ Len(file) \in Nat /\ n \in Nat /\ n <= Len(file)
              /\ LastWord(i) <= n
            BY <2>1, <2>2, PlacedTypes
        <2>4. /\ SubSeq(file, 1, n) \in Seq(Word) /\ Len(SubSeq(file, 1, n)) = n
              /\ \A q \in 1 .. n : SubSeq(file, 1, n)[q] = file[q]
            BY <2>3
        <2>5. \A q \in 1 .. LastWord(i) : SubSeq(file, 1, n)[q] = file[q]
            BY <2>2, <2>3, <2>4
        <2> QED
            BY <2>1, <2>3, <2>4, <2>5, IntactReturned
    <1> QED
        BY <1>1, FileInvariant, PTL

-----------------------------------------------------------------------------
(* WalSync, the thread of SYNC_PERIODIC: no wakeup is lost and a closed     *)
(* file is final, for any number of writes.                                *)

(* The mutex has the holder its program counters say. *)
MutexHeld ==
    /\ owner = "thread" <=> thread \in {"test", "block", "fsync"}
    /\ owner = "dtor" <=> dtor = "store"

(* stop_sync_ is set in the one step that releases the destructor's lock.  A
   thread about to block tested it under the same lock, so it is not set; a
   thread that is blocked when it gets set is there until the notification. *)
StopSeen ==
    /\ stop <=> dtor \notin {"none", "store"}
    /\ thread = "block" => ~stop
    /\ thread = "waiting" => ~stop \/ dtor = "notify"
    /\ thread = "ended" => stop

(* The destructor's last steps come after the thread, and in their order. *)
TeardownOrder ==
    /\ dtor \in {"sync", "close", "gone"} => thread = "ended"
    /\ dtor \in {"close", "gone"} => flushed = written
    /\ open <=> dtor # "gone"

SyncInv == SyncTypeOK /\ MutexHeld /\ StopSeen /\ TeardownOrder

LEMMA InitSyncInv == SyncInit => SyncInv
    <1> SUFFICES ASSUME SyncInit PROVE SyncInv
        OBVIOUS
    <1>1. SyncTypeOK BY DEF SyncInit, SyncTypeOK
    <1>2. MutexHeld BY DEF SyncInit, MutexHeld
    <1>3. StopSeen BY DEF SyncInit, StopSeen
    <1>4. TeardownOrder BY DEF SyncInit, TeardownOrder
    <1>5. QED BY <1>1, <1>2, <1>3, <1>4 DEF SyncInv

LEMMA NextSyncInv == SyncInv /\ [SyncNext]_syncVars => SyncInv'
    <1> SUFFICES ASSUME SyncInv, [SyncNext]_syncVars PROVE SyncInv'
        OBVIOUS
    <1> USE DEF SyncInv, SyncTypeOK, MutexHeld, StopSeen, TeardownOrder
    <1>1. CASE WriteReturns BY <1>1 DEF WriteReturns
    <1>2. CASE Check BY <1>2 DEF Check
    <1>3. CASE Lock BY <1>3 DEF Lock
    <1>4. CASE Test BY <1>4 DEF Test
    <1>5. CASE Block BY <1>5 DEF Block
    <1>6. CASE Timeout BY <1>6 DEF Timeout
    <1>7. CASE SpuriousWakeup BY <1>7 DEF SpuriousWakeup
    <1>8. CASE LockAfterTimeout BY <1>8 DEF LockAfterTimeout
    <1>9. CASE Fsync BY <1>9 DEF Fsync
    <1>10. CASE Destroy BY <1>10 DEF Destroy
    <1>11. CASE Store BY <1>11 DEF Store
    <1>12. CASE Notify BY <1>12 DEF Notify
    <1>13. CASE Join BY <1>13 DEF Join
    <1>14. CASE FinalSync BY <1>14 DEF FinalSync
    <1>15. CASE CloseFile BY <1>15 DEF CloseFile
    <1>16. CASE UNCHANGED syncVars BY <1>16 DEF syncVars
    <1>17. QED
        BY <1>1, <1>2, <1>3, <1>4, <1>5, <1>6, <1>7, <1>8, <1>9, <1>10, <1>11, <1>12,
           <1>13, <1>14, <1>15, <1>16
        DEF SyncNext, ThreadStep, Teardown

LEMMA SyncInvariance == SyncSpec => []SyncInv
    <1>1. QED BY InitSyncInv, NextSyncInv, PTL DEF SyncSpec

(* A destructor that waits for the thread never finds it asleep: the predicate
   is tested, and stop_sync_ stored, under one mutex. *)
THEOREM WakeupNotLost == SyncSpec => []NoLostWakeup
    <1>1. SyncInv => NoLostWakeup
        BY DEF SyncInv, StopSeen, NoLostWakeup
    <1>2. QED BY <1>1, SyncInvariance, PTL

(* After close(fd) nobody touches the descriptor and nothing is unsynced. *)
THEOREM CloseIsFinal == SyncSpec => []ClosedIsFinal
    <1>1. SyncInv => ClosedIsFinal
        BY DEF SyncInv, SyncTypeOK, TeardownOrder, ClosedIsFinal
    <1>2. QED BY <1>1, SyncInvariance, PTL
=============================================================================
