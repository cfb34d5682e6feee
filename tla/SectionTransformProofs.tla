----------------------- MODULE SectionTransformProofs -----------------------
(***************************************************************************)
(* Proofs about the boards.txt edit of rename_esp32_to_nuttyfi32().        *)
(*                                                                         *)
(* The end of the ESP32 Dev Module section is computed by the code with    *)
(* two loops (the scan for a line that ends the section, and the ".name="  *)
(* fallback), and defined by the spec as the first line after the anchor   *)
(* that is not part of the section.  Both are minima of sets of line       *)
(* numbers, so the proof rests on the well-foundedness of < on Nat, taken  *)
(* from WellFoundedInduction, and not on induction over boards.txt.        *)
(*                                                                         *)
(* The copy loop keeps the lines it appends in their order: the k-th line *)
(* appended is the section line of rank k among those copied, and rank is *)
(* a bijection onto 1..n because an injection between two finite sets of  *)
(* the same size is onto (FiniteSetTheorems).  The four invariants of      *)
(* MCSectionTransform are proved for a boards.txt of any length.           *)
(***************************************************************************)
EXTENDS SectionTransform, FiniteSetTheorems, SequenceTheorems, TLAPS

(* MinOf picks the least element of a nonempty set of naturals: the first  *)
(* index the code's "for i in range(...): if ...: break" loops stop at.    *)
LEMMA MinOfNat ==
    ASSUME NEW S \in SUBSET Nat, S # {}
    PROVE  /\ MinOf(S) \in S
           /\ \A j \in S : MinOf(S) <= j
<1>1. \E x \in S : \A y \in S : ~(<<y, x>> \in OpToRel(<, Nat))
    BY NatLessThanWellFounded, WFMin
<1>2. PICK x \in S : \A y \in S : ~(<<y, x>> \in OpToRel(<, Nat))
    BY <1>1
<1>3. \A y \in S : x <= y
    <2> TAKE y \in S
    <2>1. <<y, x>> \in Nat \X Nat
        OBVIOUS
    <2>2. y < x => <<y, x>> \in OpToRel(<, Nat)
        BY <2>1 DEF OpToRel
    <2>3. ~(y < x)
        BY <1>2, <2>2
    <2> QED BY <2>3
<1> QED BY <1>3 DEF MinOf

(* The anchor index is 0, or a line number of the file.                   *)
LEMMA SectionStartRange ==
    ASSUME NEW t \in Seq(Lines)
    PROVE  SectionStart(t) \in 0 .. Len(t)
<1> DEFINE A == {i \in DOMAIN t : t[i] = Anchor}
<1>1. A \subseteq 1 .. Len(t)
    OBVIOUS
<1>2. CASE A # {}
    <2>0. A \subseteq Nat
        BY <1>1
    <2>1. MinOf(A) \in A
        BY <2>0, <1>2, MinOfNat
    <2> QED BY <1>1, <1>2, <2>1 DEF SectionStart
<1>3. CASE A = {}
    BY <1>3 DEF SectionStart
<1> QED BY <1>2, <1>3

(* The end index of the section is after its start, and at most one past   *)
(* the last line: lines[esp32_end:esp32_end] is always a legal slice.      *)
LEMMA SectionEndRange ==
    ASSUME NEW t \in Seq(Lines), NEW s \in 0 .. Len(t)
    PROVE  SectionEnd(t, s) \in s + 1 .. Len(t) + 1
<1> DEFINE E == {i \in s + 1 .. Len(t) : EndsSection(t[i])}
           F == {i \in s + 1 .. Len(t) :
                     HasNameMarker(t[i]) /\ ~StartsOld(t[i]) /\ t[i] # Comment}
<1>0. E \subseteq Nat /\ F \subseteq Nat
    OBVIOUS
<1>1. CASE E # {}
    <2>1. MinOf(E) \in E
        BY <1>0, <1>1, MinOfNat
    <2> QED BY <1>1, <2>1 DEF SectionEnd, ScanEnd
<1>2. CASE E = {} /\ F # {}
    <2>1. MinOf(F) \in F
        BY <1>0, <1>2, MinOfNat
    <2> QED BY <1>2, <2>1 DEF SectionEnd, ScanEnd, FallbackEnd
<1>3. CASE E = {} /\ F = {}
    BY <1>3 DEF SectionEnd, ScanEnd, FallbackEnd
<1> QED BY <1>1, <1>2, <1>3

(* For every boards.txt and every start index, the scan and the fallback   *)
(* end the section where the spec says it ends: the first line after the  *)
(* start that is not blank, not a comment and not an esp32. key, or the    *)
(* end of the file.                                                        *)
LEMMA SectionEndIsSpecEnd ==
    ASSUME NEW t \in Seq(Lines), NEW s \in Nat
    PROVE  SectionEnd(t, s) = SpecEnd(t, s)
<1> DEFINE E == {i \in s + 1 .. Len(t) : EndsSection(t[i])}
           Ok(e) == /\ \A i \in s + 1 .. e - 1 : SectionLine(t[i])
                    /\ e <= Len(t) => ~SectionLine(t[e])
<1>1. \A i \in s + 1 .. Len(t) : EndsSection(t[i]) <=> ~SectionLine(t[i])
    BY DEF EndsSection, SectionLine
<1>2. SpecEnd(t, s) = CHOOSE e \in s + 1 .. Len(t) + 1 : Ok(e)
    BY DEF SpecEnd
<1>3. CASE E # {}
    <2> DEFINE m == MinOf(E)
    <2>0. E \subseteq Nat
        OBVIOUS
    <2>1. m \in E /\ \A j \in E : m <= j
        BY <1>3, <2>0, MinOfNat
    <2>2. SectionEnd(t, s) = m
        BY <1>3, <2>1 DEF SectionEnd, ScanEnd
    <2>3. \A e \in s + 1 .. Len(t) + 1 : Ok(e) <=> e = m
        BY <2>1, <1>1
    <2>4. m \in s + 1 .. Len(t) + 1
        BY <2>1
    <2> QED BY <2>2, <2>3, <2>4, <1>2
<1>4. CASE E = {}
    <2>1. \A i \in s + 1 .. Len(t) : SectionLine(t[i])
        BY <1>1, <1>4
    <2>2. ScanEnd(t, s) = 0
        BY <1>4 DEF ScanEnd
    <2>3. Blank \notin KeyLines
        BY DEF Blank, KeyLines, Boards
    <2>4. FallbackEnd(t, s) = Len(t) + 1
        BY <2>1, <2>3 DEF FallbackEnd, HasNameMarker, SectionLine, StartsOld
    <2>5. \A e \in s + 1 .. Len(t) + 1 : Ok(e) <=> e = Len(t) + 1
        BY <2>1, <1>1, <1>4
    <2> QED BY <2>2, <2>4, <2>5, <1>2 DEF SectionEnd
<1> QED BY <1>3, <1>4

-----------------------------------------------------------------------------
(* The copy loop.  Among a finite set I of line numbers, the rank of a     *)
(* line is at least 1 and at most the size of I, and a later line has a    *)
(* larger rank: rank numbers the lines of I in order.                      *)
LEMMA RankRange ==
    ASSUME NEW I \in SUBSET Nat, IsFiniteSet(I), NEW i \in I
    PROVE  Rank(I, i) \in 1 .. Cardinality(I)
<1> DEFINE U == {j \in I : j <= i}
<1>1. IsFiniteSet(U) /\ Cardinality(U) <= Cardinality(I)
    BY FS_Subset
<1>2. Cardinality(U) \in Nat /\ Cardinality(I) \in Nat
    BY <1>1, FS_CardinalityType
<1>3. Cardinality(U) # 0
    <2>1. i \in U
        OBVIOUS
    <2> QED BY <1>1, <2>1, FS_EmptySet
<1> QED BY <1>1, <1>2, <1>3 DEF Rank

LEMMA RankStrict ==
    ASSUME NEW I \in SUBSET Nat, IsFiniteSet(I),
           NEW i \in I, NEW i2 \in I, i < i2
    PROVE  Rank(I, i) < Rank(I, i2)
<1> DEFINE U == {j \in I : j <= i}
           U2 == {j \in I : j <= i2}
<1>1. U \subseteq U2
    <2> SUFFICES ASSUME NEW j \in U PROVE j \in U2
        OBVIOUS
    <2>1. j \in Nat /\ i \in Nat /\ i2 \in Nat /\ j <= i
        OBVIOUS
    <2> QED BY <2>1
<1>2. IsFiniteSet(U2)
    BY FS_Subset
<1>3. /\ IsFiniteSet(U)
      /\ Cardinality(U) <= Cardinality(U2)
      /\ Cardinality(U2) = Cardinality(U) => U2 = U
    BY <1>1, <1>2, FS_Subset
<1>4. U2 # U
    <2>1. i2 \in U2 /\ i2 \notin U
        OBVIOUS
    <2> QED BY <2>1
<1>5. Cardinality(U) \in Nat /\ Cardinality(U2) \in Nat
    BY <1>2, <1>3, FS_CardinalityType
<1> QED BY <1>3, <1>4, <1>5 DEF Rank

(* Every rank from 1 to the size of I is the rank of a line of I: the loop *)
(* appends one line for each of them.                                      *)
LEMMA RankOnto ==
    ASSUME NEW I \in SUBSET Nat, IsFiniteSet(I), NEW k \in 1 .. Cardinality(I)
    PROVE  \E i \in I : Rank(I, i) = k
<1> DEFINE c == Cardinality(I)
           r == [i \in I |-> Rank(I, i)]
<1>1. r \in [I -> 1 .. c]
    BY RankRange
<1>2. IsInjective(r)
    <2> SUFFICES ASSUME NEW a \in I, NEW b \in I, r[a] = r[b] PROVE a = b
        BY DEF IsInjective
    <2>1. Rank(I, a) = Rank(I, b)
        OBVIOUS
    <2>2. Rank(I, a) \in Nat /\ Rank(I, b) \in Nat
        BY RankRange
    <2>3. a < b => Rank(I, a) < Rank(I, b)
        BY RankStrict
    <2>4. b < a => Rank(I, b) < Rank(I, a)
        BY RankStrict
    <2> QED BY <2>1, <2>2, <2>3, <2>4
<1>3. r \in Injection(I, 1 .. c)
    BY <1>1, <1>2 DEF Injection
<1>4. c \in Nat
    BY FS_CardinalityType
<1>5. IsFiniteSet(1 .. c) /\ Cardinality(1 .. c) = c
    BY <1>4, FS_Interval
<1>6. r \in Surjection(I, 1 .. c)
    BY <1>3, <1>5, FS_Injection
<1> QED BY <1>6 DEF Surjection

(* The lines the copy loop appends to the banner.                         *)
LEMMA CopiedAtFinite ==
    ASSUME NEW sec \in Seq(Lines)
    PROVE  /\ CopiedAt(sec) \subseteq 1 .. Len(sec)
           /\ IsFiniteSet(CopiedAt(sec))
           /\ Cardinality(CopiedAt(sec)) \in Nat
<1>1. CopiedAt(sec) \subseteq 1 .. Len(sec)
    BY DEF CopiedAt
<1>2. IsFiniteSet(1 .. Len(sec))
    BY FS_Interval
<1>3. IsFiniteSet(CopiedAt(sec))
    BY <1>1, <1>2, FS_Subset
<1> QED BY <1>1, <1>3, FS_CardinalityType

(* A function on 1 .. n is a sequence of length n.                        *)
LEMMA FunctionIsSeq ==
    ASSUME NEW S, NEW n \in Nat, NEW f \in [1 .. n -> S]
    PROVE  f \in Seq(S) /\ Len(f) = n
<1>1. f \in Seq(S)
    OBVIOUS
<1>2. DOMAIN f = 1 .. Len(f) /\ Len(f) \in Nat
    BY <1>1, LenProperties
<1> QED BY <1>1, <1>2

(* Renaming a line of boards.txt gives a line of boards.txt.               *)
LEMMA RenamedType ==
    ASSUME NEW l \in Lines
    PROVE  Renamed(l) \in Lines
<1>1. CASE l \in KeyLines /\ StartsOld(l)
    <2>1. Renamed(l) = [board |-> "nuttyfi32", key |-> l.key]
        BY <1>1 DEF Renamed, KeyLines
    <2> QED BY <1>1, <2>1 DEF Lines, KeyLines, Boards
<1>2. CASE l \in KeyLines /\ ~StartsOld(l)
    BY <1>2 DEF Renamed, Lines
<1>3. CASE l \in {Blank, Comment}
    <2>1. Blank.board = "" /\ Comment.board = "#"
        BY DEF Blank, Comment
    <2>2. ~StartsOld(l)
        BY <1>3, <2>1 DEF StartsOld
    <2> QED BY <1>3, <2>2 DEF Renamed, Lines
<1> QED BY <1>1, <1>2, <1>3 DEF Lines

(* The new section is the banner and one line per copied line.            *)
LEMMA NewSectionType ==
    ASSUME NEW sec \in Seq(Lines)
    PROVE  /\ NewSection(sec) \in Seq(Lines)
           /\ Len(NewSection(sec)) = 5 + Cardinality(CopiedAt(sec))
<1> DEFINE I == CopiedAt(sec)
           c == Cardinality(I)
           body == [k \in 1 .. c |-> Renamed(sec[CHOOSE i \in I : Rank(I, i) = k])]
<1>1. I \subseteq 1 .. Len(sec) /\ IsFiniteSet(I) /\ c \in Nat
    BY CopiedAtFinite
<1>2. \A k \in 1 .. c : (CHOOSE i \in I : Rank(I, i) = k) \in I
    BY <1>1, RankOnto
<1>3. \A k \in 1 .. c : sec[CHOOSE i \in I : Rank(I, i) = k] \in Lines
    BY <1>1, <1>2
<1>4. body \in [1 .. c -> Lines]
    BY <1>3, RenamedType
<1>5. body \in Seq(Lines) /\ Len(body) = c
    BY <1>1, <1>4, FunctionIsSeq
<1>6. Banner \in Seq(Lines) /\ Len(Banner) = 5
    BY DEF Banner, Lines
<1>7. NewSection(sec) = Banner \o body
    BY DEF NewSection
<1>8. Banner \o body \in Seq(Lines) /\ Len(Banner \o body) = Len(Banner) + Len(body)
    BY <1>5, <1>6, ConcatProperties
<1> QED BY <1>5, <1>6, <1>7, <1>8

(* A slice lines[m-1:n] of a boards.txt is a boards.txt of n - m + 1      *)
(* lines, empty when n = m - 1.                                            *)
LEMMA SliceOfLines ==
    ASSUME NEW t \in Seq(Lines), NEW m \in 1 .. Len(t) + 1, NEW n \in m - 1 .. Len(t)
    PROVE  /\ SubSeq(t, m, n) \in Seq(Lines)
           /\ Len(SubSeq(t, m, n)) = n - m + 1
           /\ \A i \in 1 .. n - m + 1 : SubSeq(t, m, n)[i] = t[m + i - 1]
<1>1. \A i \in m .. n : t[i] \in Lines
    BY ElementOfSeq
<1>2. m \in Int /\ n \in Int
    OBVIOUS
<1> QED BY <1>1, <1>2, SubSeqProperties

(* The three slices the edit reads: the lines before the end index, the   *)
(* section (lines[esp32_start:esp32_end]) and the lines from the end index *)
(* on; the result splices the new section in between.                     *)
LEMMA DuplicateParts ==
    ASSUME NEW t \in Seq(Lines), SectionStart(t) # 0
    PROVE  LET s == SectionStart(t)
               e == SectionEnd(t, s)
           IN
           /\ s \in 1 .. Len(t)
           /\ e \in s + 1 .. Len(t) + 1
           /\ SubSeq(t, 1, e - 1) \in Seq(Lines)
           /\ Len(SubSeq(t, 1, e - 1)) = e - 1
           /\ \A i \in 1 .. e - 1 : SubSeq(t, 1, e - 1)[i] = t[i]
           /\ SubSeq(t, s, e - 1) \in Seq(Lines)
           /\ Len(SubSeq(t, s, e - 1)) = e - s
           /\ \A i \in 1 .. e - s : SubSeq(t, s, e - 1)[i] = t[s + i - 1]
           /\ SubSeq(t, e, Len(t)) \in Seq(Lines)
           /\ Len(SubSeq(t, e, Len(t))) = Len(t) - e + 1
           /\ \A i \in 1 .. Len(t) - e + 1 : SubSeq(t, e, Len(t))[i] = t[e + i - 1]
           /\ DuplicateSection(t) =
                  SubSeq(t, 1, e - 1) \o NewSection(SubSeq(t, s, e - 1))
                      \o SubSeq(t, e, Len(t))
<1> DEFINE s == SectionStart(t)
           e == SectionEnd(t, s)
<1>1. s \in 1 .. Len(t)
    BY SectionStartRange
<1>2. e \in s + 1 .. Len(t) + 1
    BY <1>1, SectionEndRange
<1>3. SubSeq(t, 1, e - 1) \in Seq(Lines)
      /\ Len(SubSeq(t, 1, e - 1)) = e - 1
      /\ \A i \in 1 .. e - 1 : SubSeq(t, 1, e - 1)[i] = t[i]
    <2>1. \A i \in 1 .. e - 1 : SubSeq(t, 1, e - 1)[i] = t[1 + i - 1]
        BY <1>1, <1>2, SliceOfLines
    <2>2. \A i \in 1 .. e - 1 : 1 + i - 1 = i
        OBVIOUS
    <2> QED BY <1>1, <1>2, <2>1, <2>2, SliceOfLines
<1>4. SubSeq(t, s, e - 1) \in Seq(Lines)
      /\ Len(SubSeq(t, s, e - 1)) = e - s
      /\ \A i \in 1 .. e - s : SubSeq(t, s, e - 1)[i] = t[s + i - 1]
    BY <1>1, <1>2, SliceOfLines
<1>5. SubSeq(t, e, Len(t)) \in Seq(Lines)
      /\ Len(SubSeq(t, e, Len(t))) = Len(t) - e + 1
      /\ \A i \in 1 .. Len(t) - e + 1 : SubSeq(t, e, Len(t))[i] = t[e + i - 1]
    BY <1>1, <1>2, SliceOfLines
<1>6. DuplicateSection(t) =
          SubSeq(t, 1, e - 1) \o NewSection(SubSeq(t, s, e - 1))
              \o SubSeq(t, e, Len(t))
    BY DEF DuplicateSection
<1> QED BY <1>1, <1>2, <1>3, <1>4, <1>5, <1>6

(* The edit turns a boards.txt into a boards.txt.                          *)
LEMMA DuplicateType ==
    ASSUME NEW t \in Seq(Lines)
    PROVE  DuplicateSection(t) \in Seq(Lines)
<1>1. CASE SectionStart(t) = 0
    BY <1>1 DEF DuplicateSection
<1>2. CASE SectionStart(t) # 0
    <2> DEFINE s == SectionStart(t)
               e == SectionEnd(t, s)
    <2>1. /\ SubSeq(t, 1, e - 1) \in Seq(Lines)
          /\ SubSeq(t, s, e - 1) \in Seq(Lines)
          /\ SubSeq(t, e, Len(t)) \in Seq(Lines)
          /\ DuplicateSection(t) =
                 SubSeq(t, 1, e - 1) \o NewSection(SubSeq(t, s, e - 1))
                     \o SubSeq(t, e, Len(t))
        BY <1>2, DuplicateParts
    <2>2. NewSection(SubSeq(t, s, e - 1)) \in Seq(Lines)
        BY <2>1, NewSectionType
    <2>3. SubSeq(t, 1, e - 1) \o NewSection(SubSeq(t, s, e - 1)) \in Seq(Lines)
        BY <2>1, <2>2, ConcatProperties
    <2> QED BY <2>1, <2>3, ConcatProperties
<1> QED BY <1>1, <1>2

(* Splicing N between P and Q keeps P before it and Q after it.           *)
LEMMA SpliceKeeps ==
    ASSUME NEW S, NEW P \in Seq(S), NEW N \in Seq(S), NEW Q \in Seq(S)
    PROVE  /\ P \o N \o Q \in Seq(S)
           /\ Len(P \o N \o Q) = Len(P) + Len(N) + Len(Q)
           /\ SubSeq(P \o N \o Q, 1, Len(P)) = P
           /\ SubSeq(P \o N \o Q, Len(P) + Len(N) + 1, Len(P \o N \o Q)) = Q
<1> DEFINE o == P \o N \o Q
           p == Len(P)
           m == Len(N)
           q == Len(Q)
<1>1. p \in Nat /\ m \in Nat /\ q \in Nat
    BY LenProperties
<1>2. /\ P \o N \in Seq(S)
      /\ Len(P \o N) = p + m
      /\ \A i \in 1 .. p + m : (P \o N)[i] = IF i <= p THEN P[i] ELSE N[i - p]
    BY ConcatProperties
<1>3. /\ o \in Seq(S)
      /\ Len(o) = p + m + q
      /\ \A i \in 1 .. p + m + q :
             o[i] = IF i <= p + m THEN (P \o N)[i] ELSE Q[i - (p + m)]
    BY <1>2, ConcatProperties
<1>4. \A i \in 1 .. p + m + q : o[i] \in S
    BY <1>1, <1>3, ElementOfSeq
<1>5. SubSeq(o, 1, p) = P
    <2>1. /\ SubSeq(o, 1, p) \in Seq(S)
          /\ Len(SubSeq(o, 1, p)) = p
          /\ \A i \in 1 .. p : SubSeq(o, 1, p)[i] = o[1 + i - 1]
        BY <1>1, <1>4, SubSeqProperties
    <2>2. \A i \in 1 .. p : SubSeq(o, 1, p)[i] = P[i]
        BY <1>1, <1>2, <1>3, <2>1
    <2> QED BY <1>1, <2>1, <2>2, SeqEqual
<1>6. SubSeq(o, p + m + 1, Len(o)) = Q
    <2>1. /\ SubSeq(o, p + m + 1, p + m + q) \in Seq(S)
          /\ Len(SubSeq(o, p + m + 1, p + m + q)) = q
          /\ \A i \in 1 .. q : SubSeq(o, p + m + 1, p + m + q)[i] = o[p + m + 1 + i - 1]
        BY <1>1, <1>4, SubSeqProperties
    <2>2. \A i \in 1 .. q : SubSeq(o, p + m + 1, p + m + q)[i] = Q[i]
        BY <1>1, <1>3, <2>1
    <2> QED BY <1>1, <1>3, <2>1, <2>2, SeqEqual
<1> QED BY <1>3, <1>5, <1>6

(* Reading o as t with a block of ins lines inserted after line a.        *)
InsertedAt(t, o) ==
    \E a \in SectionStart(t) .. Len(t) :
        LET ins == Len(o) - Len(t)
        IN  /\ ins >= 0
            /\ SubSeq(o, 1, a) = SubSeq(t, 1, a)
            /\ SubSeq(o, a + ins + 1, Len(o)) = SubSeq(t, a + 1, Len(t))

(* The edit only inserts, after the anchor: every boards.txt with the      *)
(* anchor gets the new section at the end index of the old one, and every  *)
(* other is left as it is.                                                 *)
LEMMA EditInserts ==
    ASSUME NEW t \in Seq(Lines)
    PROVE  InsertedAt(t, DuplicateSection(t))
<1>1. CASE SectionStart(t) = 0
    <2>1. DuplicateSection(t) = t
        BY <1>1 DEF DuplicateSection
    <2>2. 0 \in SectionStart(t) .. Len(t)
        BY <1>1
    <2> QED BY <2>1, <2>2 DEF InsertedAt
<1>2. CASE SectionStart(t) # 0
    <2> DEFINE s == SectionStart(t)
               e == SectionEnd(t, s)
               Before == SubSeq(t, 1, e - 1)
               Copy == NewSection(SubSeq(t, s, e - 1))
               After == SubSeq(t, e, Len(t))
               k == Len(Copy)
               Out == DuplicateSection(t)
    <2>1. /\ s \in 1 .. Len(t)
          /\ e \in s + 1 .. Len(t) + 1
          /\ Before \in Seq(Lines) /\ Len(Before) = e - 1
          /\ SubSeq(t, s, e - 1) \in Seq(Lines)
          /\ After \in Seq(Lines) /\ Len(After) = Len(t) - e + 1
          /\ Out = Before \o Copy \o After
        BY <1>2, DuplicateParts
    <2>2. Copy \in Seq(Lines) /\ k \in Nat
        BY <2>1, NewSectionType, LenProperties
    <2> HIDE DEF s, e, Before, Copy, After, k, Out
    <2>3. /\ Len(Before \o Copy \o After) = Len(Before) + Len(Copy) + Len(After)
          /\ SubSeq(Before \o Copy \o After, 1, Len(Before)) = Before
          /\ SubSeq(Before \o Copy \o After, Len(Before) + Len(Copy) + 1,
                    Len(Before \o Copy \o After)) = After
        <3>1. Before \in Seq(Lines) /\ Copy \in Seq(Lines) /\ After \in Seq(Lines)
            BY <2>1, <2>2
        <3> QED BY <3>1, SpliceKeeps
    <2>4. /\ Len(Out) = Len(t) + k
          /\ SubSeq(Out, 1, e - 1) = Before
          /\ SubSeq(Out, e - 1 + k + 1, Len(Out)) = After
        <3>1. Out = Before \o Copy \o After
            BY <2>1
        <3>2. Len(Before) = e - 1 /\ Len(After) = Len(t) - e + 1 /\ e \in Nat
            BY <2>1
        <3>3. Len(Copy) = k
            BY DEF k
        <3>4. Len(t) \in Nat /\ k \in Nat
            BY <2>2, LenProperties
        <3>5. Len(Out) = Len(t) + k
            <4>1. Len(Out) = Len(Before) + Len(Copy) + Len(After)
                BY <2>3, <3>1
            <4> QED BY <4>1, <3>2, <3>3, <3>4
        <3>6. SubSeq(Out, 1, e - 1) = Before
            BY <2>3, <3>1, <3>2
        <3>7. e - 1 + k + 1 = Len(Before) + Len(Copy) + 1
            BY <3>2, <3>3, <3>4
        <3>8. SubSeq(Out, e - 1 + k + 1, Len(Out)) = After
            BY <2>3, <3>1, <3>7
        <3> QED BY <3>5, <3>6, <3>8
    <2>5. /\ e - 1 \in SectionStart(t) .. Len(t)
          /\ Before = SubSeq(t, 1, e - 1)
          /\ After = SubSeq(t, e - 1 + 1, Len(t))
        BY <2>1 DEF s, Before, After
    <2>6. DuplicateSection(t) = Out
        BY DEF Out
    <2>7. Len(Out) - Len(t) = k /\ k >= 0
        BY <2>2, <2>4, LenProperties
    <2>8. InsertedAt(t, Out)
        <3>1. SubSeq(Out, 1, e - 1) = SubSeq(t, 1, e - 1)
            BY <2>4, <2>5
        <3>2. SubSeq(Out, (e - 1) + (Len(Out) - Len(t)) + 1, Len(Out))
                = SubSeq(t, (e - 1) + 1, Len(t))
            BY <2>4, <2>5, <2>7
        <3> QED BY <2>5, <2>7, <3>1, <3>2 DEF InsertedAt
    <2> QED BY <2>6, <2>8
<1> QED BY <1>1, <1>2

-----------------------------------------------------------------------------
(* The file the edit reads, the file it writes and the flag that it has    *)
(* run keep their types: the boards.txt written is a sequence of lines,    *)
(* whatever the section holds.                                             *)
THEOREM TypeCorrect == Spec => []TypeOK
<1>1. Init => TypeOK
    <2> SUFFICES ASSUME Init PROVE TypeOK
        OBVIOUS
    <2>1. PICK m \in 0 .. MaxLines : text \in [1 .. m -> Lines]
        BY DEF Init, SeqUpTo
    <2>2. text \in Seq(Lines)
        BY <2>1, SectionAssumption
    <2>3. out \in Seq(Lines)
        BY EmptySeq DEF Init
    <2>4. done \in BOOLEAN
        BY DEF Init
    <2> QED BY <2>2, <2>3, <2>4 DEF TypeOK
<1>2. TypeOK /\ [Next]_vars => TypeOK'
    BY DuplicateType DEF TypeOK, Next, Duplicate, vars
<1> QED BY <1>1, <1>2, PTL DEF Spec

(* The section rename_esp32_to_nuttyfi32() copies ends exactly where the   *)
(* spec's section ends, in every run and for every boards.txt of any       *)
(* length and any set of keys: the scan loop and its ".name=" fallback     *)
(* never cut an esp32. key after a blank line or a comment out of the      *)
(* copy, and never take another board's key into it.                       *)
THEOREM SectionEndSafe == Spec => []SectionEndAgrees
<1>1. TypeOK => SectionEndAgrees
    BY SectionStartRange, SectionEndIsSpecEnd DEF TypeOK, SectionEndAgrees
<1> QED BY TypeCorrect, <1>1, PTL

(* Once the edit has run, the file it wrote is the edit of the file it     *)
(* read, which it never changes.                                           *)
OutIsEdit == done => out = DuplicateSection(text)

LEMMA OutInvariant == Spec => []OutIsEdit
<1>1. Init => OutIsEdit
    BY DEF Init, OutIsEdit
<1>2. OutIsEdit /\ [Next]_vars => OutIsEdit'
    BY DEF OutIsEdit, Next, Duplicate, vars
<1> QED BY <1>1, <1>2, PTL DEF Spec

(* The boards.txt rename_esp32_to_nuttyfi32() writes is the one it read    *)
(* with one block inserted after the anchor, in every run and for every    *)
(* boards.txt: lines[esp32_end:esp32_end] = ... overwrites no line, so the *)
(* esp32 board stays installable beside the nuttyfi32 one.                 *)
THEOREM InsertOnlySafe == Spec => []OriginalPreserved
<1>1. TypeOK /\ OutIsEdit => OriginalPreserved
    <2> SUFFICES ASSUME TypeOK, OutIsEdit, done
                 PROVE  InsertedAt(text, out)
        BY DEF OriginalPreserved, InsertedAt
    <2>1. out = DuplicateSection(text) /\ text \in Seq(Lines)
        BY DEF OutIsEdit, TypeOK
    <2> QED BY <2>1, EditInserts
<1> QED BY TypeCorrect, OutInvariant, <1>1, PTL

-----------------------------------------------------------------------------
(* Key uniqueness of spliced files.  No key line of A occurs in B.         *)
KeysApart(A, B) ==
    \A i \in DOMAIN A, j \in DOMAIN B : A[i] \in KeyLines => A[i] # B[j]

(* No line of A belongs to the nuttyfi32 board.                            *)
NoNewBoard(A) == \A i \in DOMAIN A : A[i].board # "nuttyfi32"

(* Every key line of A belongs to the nuttyfi32 board.                     *)
OnlyNewKeys(A) == \A i \in DOMAIN A : A[i] \in KeyLines => A[i].board = "nuttyfi32"

(* Two files with unique keys, none of the first's in the second, make one *)
(* with unique keys.                                                       *)
LEMMA ConcatUnique ==
    ASSUME NEW A \in Seq(Lines), NEW B \in Seq(Lines),
           UniqueKeys(A), UniqueKeys(B), KeysApart(A, B)
    PROVE  UniqueKeys(A \o B)
<1> DEFINE a == Len(A)
           b == Len(B)
<1>1. a \in Nat /\ b \in Nat
    BY LenProperties
<1>2. /\ A \o B \in Seq(Lines)
      /\ DOMAIN (A \o B) = 1 .. a + b
      /\ \A i \in 1 .. a + b : (A \o B)[i] = IF i <= a THEN A[i] ELSE B[i - a]
    BY ConcatProperties, LenProperties
<1> SUFFICES ASSUME NEW i \in 1 .. a + b, NEW j \in 1 .. a + b, i # j,
                    (A \o B)[i] \in KeyLines, (A \o B)[i] = (A \o B)[j]
             PROVE  FALSE
    BY <1>2 DEF UniqueKeys
<1>3. DOMAIN A = 1 .. a /\ DOMAIN B = 1 .. b
    BY LenProperties
<1>4. CASE i <= a /\ j <= a
    BY <1>1, <1>2, <1>3, <1>4 DEF UniqueKeys
<1>5. CASE i > a /\ j > a
    BY <1>1, <1>2, <1>3, <1>5 DEF UniqueKeys
<1>6. CASE i <= a /\ j > a
    BY <1>1, <1>2, <1>3, <1>6 DEF KeysApart
<1>7. CASE i > a /\ j <= a
    BY <1>1, <1>2, <1>3, <1>7 DEF KeysApart
<1> QED BY <1>1, <1>4, <1>5, <1>6, <1>7

(* A file spliced from A and B keeps its key lines out of C when A and B   *)
(* do.                                                                     *)
LEMMA ConcatApart ==
    ASSUME NEW A \in Seq(Lines), NEW B \in Seq(Lines), NEW C \in Seq(Lines),
           KeysApart(A, C), KeysApart(B, C)
    PROVE  KeysApart(A \o B, C)
<1> DEFINE a == Len(A)
           b == Len(B)
<1>1. a \in Nat /\ b \in Nat /\ DOMAIN A = 1 .. a /\ DOMAIN B = 1 .. b
    BY LenProperties
<1>2. /\ DOMAIN (A \o B) = 1 .. a + b
      /\ \A i \in 1 .. a + b : (A \o B)[i] = IF i <= a THEN A[i] ELSE B[i - a]
    BY ConcatProperties, LenProperties
<1> QED BY <1>1, <1>2 DEF KeysApart

(* The nuttyfi32 key lines of B are kept out of a file with no nuttyfi32   *)
(* line, and its key lines out of B.                                       *)
LEMMA BoardsApart ==
    ASSUME NEW A \in Seq(Lines), NEW B \in Seq(Lines),
           NoNewBoard(A), OnlyNewKeys(B)
    PROVE  KeysApart(A, B) /\ KeysApart(B, A)
BY DEF KeysApart, NoNewBoard, OnlyNewKeys

(* A slice of a file with unique keys and no nuttyfi32 line has unique     *)
(* keys and no nuttyfi32 line.                                             *)
LEMMA SliceKeeps ==
    ASSUME NEW t \in Seq(Lines), NEW m \in 1 .. Len(t) + 1, NEW n \in m - 1 .. Len(t)
    PROVE  /\ UniqueKeys(t) => UniqueKeys(SubSeq(t, m, n))
           /\ NoNewBoard(t) => NoNewBoard(SubSeq(t, m, n))
<1>1. /\ SubSeq(t, m, n) \in Seq(Lines)
      /\ Len(SubSeq(t, m, n)) = n - m + 1
      /\ \A i \in 1 .. n - m + 1 : SubSeq(t, m, n)[i] = t[m + i - 1]
    BY SliceOfLines
<1>2. DOMAIN SubSeq(t, m, n) = 1 .. n - m + 1 /\ DOMAIN t = 1 .. Len(t)
    BY <1>1, LenProperties
<1>3. \A i \in 1 .. n - m + 1 : m + i - 1 \in 1 .. Len(t)
    OBVIOUS
<1>4. UniqueKeys(t) => UniqueKeys(SubSeq(t, m, n))
    <2> SUFFICES ASSUME UniqueKeys(t),
                        NEW i \in 1 .. n - m + 1, NEW j \in 1 .. n - m + 1, i # j,
                        SubSeq(t, m, n)[i] \in KeyLines
                 PROVE  SubSeq(t, m, n)[i] # SubSeq(t, m, n)[j]
        BY <1>2 DEF UniqueKeys
    <2>1. m + i - 1 # m + j - 1
        OBVIOUS
    <2> QED BY <1>1, <1>2, <1>3, <2>1 DEF UniqueKeys
<1>5. NoNewBoard(t) => NoNewBoard(SubSeq(t, m, n))
    BY <1>1, <1>2, <1>3 DEF NoNewBoard
<1> QED BY <1>4, <1>5

(* The lines before the end index and the lines from it on share no key    *)
(* line, in a file with unique keys.                                       *)
LEMMA SplitApart ==
    ASSUME NEW t \in Seq(Lines), UniqueKeys(t), NEW e \in 1 .. Len(t) + 1
    PROVE  KeysApart(SubSeq(t, 1, e - 1), SubSeq(t, e, Len(t)))
<1>1. /\ \A i \in 1 .. e - 1 : SubSeq(t, 1, e - 1)[i] = t[1 + i - 1]
      /\ DOMAIN SubSeq(t, 1, e - 1) = 1 .. e - 1
    BY SliceOfLines, LenProperties
<1>2. /\ \A i \in 1 .. Len(t) - e + 1 : SubSeq(t, e, Len(t))[i] = t[e + i - 1]
      /\ DOMAIN SubSeq(t, e, Len(t)) = 1 .. Len(t) - e + 1
    BY SliceOfLines, LenProperties
<1>3. DOMAIN t = 1 .. Len(t)
    BY LenProperties
<1> QED BY <1>1, <1>2, <1>3 DEF KeysApart, UniqueKeys

(* A key line of the copy is an esp32. key line of the section, renamed.   *)
LEMMA CopiedKeyLine ==
    ASSUME NEW l \in Lines, Copied(l), Renamed(l) \in KeyLines
    PROVE  /\ l \in KeyLines
           /\ l.board = "esp32"
           /\ Renamed(l) = [board |-> "nuttyfi32", key |-> l.key]
<1>1. Blank \notin KeyLines /\ Comment \notin KeyLines
    BY DEF Blank, Comment, KeyLines, Boards
<1>2. ~StartsOld(Blank) /\ ~StartsOld(Comment)
    BY DEF StartsOld, Blank, Comment
<1>3. StartsOld(l)
    BY <1>1, <1>2 DEF Copied, Renamed
<1>4. l \in KeyLines
    BY <1>2, <1>3 DEF Lines
<1> QED BY <1>3, <1>4 DEF Renamed, StartsOld, KeyLines

(* The section the loop builds has unique keys, all of the nuttyfi32       *)
(* board, when the section it copies has unique keys: two copied lines     *)
(* come from two different esp32. lines.                                   *)
LEMMA NewSectionKeys ==
    ASSUME NEW sec \in Seq(Lines), UniqueKeys(sec)
    PROVE  UniqueKeys(NewSection(sec)) /\ OnlyNewKeys(NewSection(sec))
<1> DEFINE I == CopiedAt(sec)
           c == Cardinality(I)
           pick(k) == CHOOSE i \in I : Rank(I, i) = k
           body == [k \in 1 .. c |-> Renamed(sec[pick(k)])]
<1>1. I \subseteq 1 .. Len(sec) /\ IsFiniteSet(I) /\ c \in Nat
    BY CopiedAtFinite
<1>2. \A k \in 1 .. c : pick(k) \in I /\ Rank(I, pick(k)) = k
    BY <1>1, RankOnto
<1>3. NewSection(sec) = Banner \o body
    BY DEF NewSection
<1>4. \A k \in 1 .. c : body[k] = Renamed(sec[pick(k)])
    OBVIOUS
<1> HIDE DEF pick, body
<1>5. \A k \in 1 .. c : /\ pick(k) \in 1 .. Len(sec)
                        /\ sec[pick(k)] \in Lines
                        /\ Copied(sec[pick(k)])
    <2> TAKE k \in 1 .. c
    <2>1. pick(k) \in I
        BY <1>2
    <2>2. pick(k) \in 1 .. Len(sec) /\ Copied(sec[pick(k)])
        BY <1>1, <2>1 DEF CopiedAt
    <2> QED BY <2>2, ElementOfSeq
<1>6. body \in [1 .. c -> Lines]
    <2>1. body = [k \in 1 .. c |-> Renamed(sec[pick(k)])]
        BY DEF body
    <2> QED BY <2>1, <1>5, RenamedType
<1>7. body \in Seq(Lines) /\ Len(body) = c /\ DOMAIN body = 1 .. c
    BY <1>1, <1>6, FunctionIsSeq
<1>8. /\ Banner \in Seq(Lines)
      /\ Len(Banner) = 5
      /\ DOMAIN Banner = 1 .. 5
      /\ \A i \in 1 .. 5 : Banner[i] \in {Blank, Comment}
    BY DEF Banner, Lines
<1>9. Blank \notin KeyLines /\ Comment \notin KeyLines
    BY DEF Blank, Comment, KeyLines, Boards
<1>10. UniqueKeys(Banner) /\ OnlyNewKeys(Banner) /\ KeysApart(Banner, body)
    BY <1>8, <1>9 DEF UniqueKeys, OnlyNewKeys, KeysApart
<1>11. \A k \in 1 .. c : body[k] \in KeyLines =>
          /\ sec[pick(k)] \in KeyLines
          /\ sec[pick(k)].board = "esp32"
          /\ body[k] = [board |-> "nuttyfi32", key |-> sec[pick(k)].key]
    <2> TAKE k \in 1 .. c
    <2> HAVE body[k] \in KeyLines
    <2>1. Renamed(sec[pick(k)]) \in KeyLines
        BY <1>4
    <2> QED BY <1>4, <1>5, <2>1, CopiedKeyLine
<1>12. OnlyNewKeys(body)
    BY <1>7, <1>11 DEF OnlyNewKeys
<1>13. UniqueKeys(body)
    <2> SUFFICES ASSUME NEW k \in 1 .. c, NEW k2 \in 1 .. c, k # k2,
                        body[k] \in KeyLines, body[k] = body[k2]
                 PROVE  FALSE
        BY <1>7 DEF UniqueKeys
    <2>1. body[k2] \in KeyLines
        OBVIOUS
    <2>2. /\ sec[pick(k)] \in KeyLines /\ sec[pick(k2)] \in KeyLines
          /\ sec[pick(k)].board = "esp32" /\ sec[pick(k2)].board = "esp32"
          /\ sec[pick(k)].key = sec[pick(k2)].key
        <3>1. /\ sec[pick(k)] \in KeyLines
              /\ sec[pick(k)].board = "esp32"
              /\ body[k] = [board |-> "nuttyfi32", key |-> sec[pick(k)].key]
            BY <1>11
        <3>2. /\ sec[pick(k2)] \in KeyLines
              /\ sec[pick(k2)].board = "esp32"
              /\ body[k2] = [board |-> "nuttyfi32", key |-> sec[pick(k2)].key]
            BY <2>1, <1>11
        <3>3. [board |-> "nuttyfi32", key |-> sec[pick(k)].key]
                = [board |-> "nuttyfi32", key |-> sec[pick(k2)].key]
            BY <3>1, <3>2
        <3>4. sec[pick(k)].key = sec[pick(k2)].key
            BY <3>3, Zenon
        <3> QED BY <3>1, <3>2, <3>4
    <2>3. sec[pick(k)] = sec[pick(k2)]
        BY <2>2 DEF KeyLines
    <2>4. pick(k) # pick(k2)
        BY <1>2
    <2> QED BY <1>5, <2>2, <2>3, <2>4, LenProperties DEF UniqueKeys
<1>14. UniqueKeys(Banner \o body)
    BY <1>7, <1>8, <1>10, <1>13, ConcatUnique
<1>15. OnlyNewKeys(Banner \o body)
    <2>1. /\ DOMAIN (Banner \o body) = 1 .. 5 + c
          /\ \A i \in 1 .. 5 + c :
                 (Banner \o body)[i] = IF i <= 5 THEN Banner[i] ELSE body[i - 5]
        <3>1. /\ Banner \o body \in Seq(Lines)
              /\ Len(Banner \o body) = 5 + c
              /\ \A i \in 1 .. 5 + c :
                     (Banner \o body)[i] = IF i <= 5 THEN Banner[i] ELSE body[i - 5]
            <4>1. /\ Banner \o body \in Seq(Lines)
                  /\ Len(Banner \o body) = Len(Banner) + Len(body)
                  /\ \A i \in 1 .. Len(Banner) + Len(body) :
                         (Banner \o body)[i] =
                             IF i <= Len(Banner) THEN Banner[i] ELSE body[i - Len(Banner)]
                BY <1>7, <1>8, ConcatProperties
            <4> QED BY <4>1, <1>7, <1>8
        <3> QED BY <3>1, LenProperties
    <2> QED BY <1>1, <1>10, <1>12, <2>1, <1>7, <1>8 DEF OnlyNewKeys
<1> QED BY <1>3, <1>14, <1>15

(* The edit of a boards.txt with unique keys and no nuttyfi32 line has     *)
(* unique keys: the lines before and after the new section are the old    *)
(* ones, and the new section adds only nuttyfi32 keys, none twice.         *)
LEMMA EditKeepsKeysUnique ==
    ASSUME NEW t \in Seq(Lines), UniqueKeys(t), NoNewBoard(t)
    PROVE  UniqueKeys(DuplicateSection(t))
<1>1. CASE SectionStart(t) = 0
    BY <1>1 DEF DuplicateSection
<1>2. CASE SectionStart(t) # 0
    <2> DEFINE st == SectionStart(t)
               en == SectionEnd(t, st)
               Before == SubSeq(t, 1, en - 1)
               Sec == SubSeq(t, st, en - 1)
               Copy == NewSection(Sec)
               After == SubSeq(t, en, Len(t))
    <2>1. /\ st \in 1 .. Len(t)
          /\ en \in st + 1 .. Len(t) + 1
          /\ Before \in Seq(Lines)
          /\ Sec \in Seq(Lines)
          /\ After \in Seq(Lines)
          /\ DuplicateSection(t) = Before \o Copy \o After
        BY <1>2, DuplicateParts
    <2>2. /\ UniqueKeys(Before) /\ NoNewBoard(Before)
          /\ UniqueKeys(After) /\ NoNewBoard(After)
          /\ UniqueKeys(Sec)
          /\ KeysApart(Before, After)
        <3>1. en \in 1 .. Len(t) + 1 /\ en - 1 \in 0 .. Len(t) /\ st \in 1 .. Len(t) + 1
            BY <2>1
        <3> HIDE DEF st, en, Before, Sec, Copy, After
        <3>2. UniqueKeys(Before) /\ NoNewBoard(Before)
            BY <3>1, SliceKeeps DEF Before
        <3>3. UniqueKeys(After) /\ NoNewBoard(After)
            BY <3>1, SliceKeeps DEF After
        <3>4. UniqueKeys(Sec)
            BY <2>1, <3>1, SliceKeeps DEF Sec
        <3>5. KeysApart(Before, After)
            BY <3>1, SplitApart DEF Before, After
        <3> QED BY <3>2, <3>3, <3>4, <3>5
    <2> HIDE DEF st, en, Before, Sec, Copy, After
    <2>3. Copy \in Seq(Lines) /\ UniqueKeys(Copy) /\ OnlyNewKeys(Copy)
        BY <2>1, <2>2, NewSectionType, NewSectionKeys DEF Copy
    <2>4. KeysApart(Before, Copy) /\ KeysApart(Copy, After)
        BY <2>1, <2>2, <2>3, BoardsApart
    <2>5. Before \o Copy \in Seq(Lines) /\ UniqueKeys(Before \o Copy)
        BY <2>1, <2>2, <2>3, <2>4, ConcatProperties, ConcatUnique
    <2>6. KeysApart(Before \o Copy, After)
        BY <2>1, <2>2, <2>3, <2>4, ConcatApart
    <2>7. UniqueKeys(Before \o Copy \o After)
        BY <2>1, <2>2, <2>5, <2>6, ConcatUnique
    <2> QED BY <2>1, <2>7
<1> QED BY <1>1, <1>2

(* rename_esp32_to_nuttyfi32() run once on a boards.txt whose keys are     *)
(* unique and that has no nuttyfi32 board leaves every key unique, in      *)
(* every run and for every boards.txt: the copied section defines each     *)
(* nuttyfi32. key once and redefines no key of another board.              *)
THEOREM KeysUniqueSafe == Spec => []KeysUniqueAfterOnce
<1>1. TypeOK /\ OutIsEdit => KeysUniqueAfterOnce
    <2> SUFFICES ASSUME TypeOK, OutIsEdit, done, UniqueKeys(text),
                        \A i \in DOMAIN text : text[i].board # "nuttyfi32"
                 PROVE  UniqueKeys(out)
        BY DEF KeysUniqueAfterOnce
    <2>1. out = DuplicateSection(text) /\ text \in Seq(Lines) /\ NoNewBoard(text)
        BY DEF OutIsEdit, TypeOK, NoNewBoard
    <2> QED BY <2>1, EditKeepsKeysUnique
<1> QED BY TypeCorrect, OutInvariant, <1>1, PTL

=============================================================================
