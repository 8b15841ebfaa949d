------------------------- MODULE AsyncBarStoreProofs -------------------------
(***************************************************************************)
(* Proofs about BarStore and AsyncBarStore, for any number of bars,        *)
(* sessions and callers and a channel of any capacity.                     *)
(*                                                                         *)
(* The first part is about the file alone, under StoreSpec.  Its invariant *)
(* speaks of the content, the file with the buffer behind it: every action *)
(* extends the content, or cuts its end off when the store goes away.  The *)
(* second part shows that AsyncSpec implements StoreSpec, so that the first*)
(* part holds for it, and the third what flush and close promise.          *)
(***************************************************************************)
EXTENDS AsyncBarStore, FiniteLemmas

-----------------------------------------------------------------------------
(* The file.                                                               *)

\* What is or will be in the file if nothing goes wrong.
Content == file \o buf

Head2(b) == [bar |-> b, part |-> "head"]
Tail2(b) == [bar |-> b, part |-> "tail"]

\* The sequence f is the beginning of g.
Starts(f, g) == Len(f) <= Len(g) /\ \A i \in 1 .. Len(f) : g[i] = f[i]

Dangling(f) == f # <<>> /\ f[Len(f)].part = "head"

\* The bars of the session under way that were taken with Ok.
CurrentOk == {b \in DOMAIN results : isOpen /\ results[b] = sessions}

\* Pieces belong to bars that were appended, results to sessions that were.
Numbered ==
    /\ \A i \in 1 .. Len(Content) : Content[i].bar \in DOMAIN results
    /\ \A b \in DOMAIN results : results[b] <= sessions
    /\ isOpen => sessions > 0

\* The content of one session has no holes, and all of the current session is
\* in it.
ContentOrdered ==
    /\ \A b \in DOMAIN results, c \in DOMAIN results :
           b < c /\ results[b] = results[c] /\ results[b] # 0 =>
               \A i \in 1 .. Len(Content) : Content[i].bar = c =>
                   \E j \in 1 .. i - 1 : Content[j] = Tail2(b)
    /\ \A b \in CurrentOk : \E j \in 1 .. Len(Content) : Content[j] = Tail2(b)

\* The records that a flush has acknowledged, or will if it succeeds now, and that
\* are not on a line of their own.
Lost == (durable \cup CurrentOk) \ Stored(Content)

\* Each interruption leaves a fragment at most, and each fragment spoils one record.
LossCounted ==
    Cardinality(Lost) + (IF Dangling(Content) THEN 1 ELSE 0) <= interruptions

\* What was acknowledged does not depend on the buffer.
DurableInFile == durable \cap Stored(Content) \subseteq Stored(file)

StoreInv ==
    StoreTypeOK /\ Numbered /\ ContentOrdered /\ LossCounted /\ DurableInFile

-----------------------------------------------------------------------------
(* Lines.                                                                  *)

LEMMA PieceFields ==
    ASSUME NEW b \in BarIds
    PROVE  /\ Head2(b) \in Piece /\ Head2(b).bar = b /\ Head2(b).part = "head"
           /\ Tail2(b) \in Piece /\ Tail2(b).bar = b /\ Tail2(b).part = "tail"
BY DEF Head2, Tail2, Piece

LEMMA RecordPieces ==
    ASSUME NEW b \in BarIds
    PROVE  /\ Record(b) \in Seq(Piece) /\ Len(Record(b)) = 2
           /\ Record(b)[1] = Head2(b) /\ Record(b)[2] = Tail2(b)
           /\ Fragment(b) \in Seq(Piece) /\ Len(Fragment(b)) = 1 /\ Fragment(b)[1] = Head2(b)
<1> DEFINE h == Head2(b)
           l == Tail2(b)
<1>1. h \in Piece /\ l \in Piece
  BY PieceFields
<1>2. Record(b) = <<h>> \o <<l>> /\ Fragment(b) = <<h>>
  BY DEF Record, Fragment, Head2, Tail2
<1> HIDE DEF h, l
<1>3. /\ <<h>> \in Seq(Piece) /\ <<l>> \in Seq(Piece) /\ Len(<<h>>) = 1 /\ Len(<<l>>) = 1
      /\ <<h>>[1] = h /\ <<l>>[1] = l
  BY <1>1
<1>4. /\ <<h>> \o <<l>> \in Seq(Piece) /\ Len(<<h>> \o <<l>>) = 2
      /\ (<<h>> \o <<l>>)[1] = h /\ (<<h>> \o <<l>>)[2] = l
  BY <1>1
<1> QED
  BY <1>2, <1>3, <1>4 DEF h, l

\* What is behind a line does not change what the line says.
LEMMA StoredStarts ==
    ASSUME NEW f \in Seq(Piece), NEW g \in Seq(Piece), Starts(f, g)
    PROVE  Stored(f) \subseteq Stored(g)
<1>1. Len(f) \in Nat /\ Len(g) \in Nat /\ Len(f) <= Len(g)
      /\ \A i \in 1 .. Len(f) : g[i] = f[i]
  BY DEF Starts
<1>2. ASSUME NEW i \in WholeLines(f)
      PROVE  i \in WholeLines(g) /\ g[i].bar = f[i].bar
  <2>1. /\ i \in 1 .. Len(f) - 1 /\ i + 1 \in 1 .. Len(f) /\ i \in 1 .. Len(f)
        /\ i # 1 => i - 1 \in 1 .. Len(f)
        /\ i \in 1 .. Len(g) - 1
    BY <1>1, <1>2 DEF WholeLines
  <2>2. g[i] = f[i] /\ g[i + 1] = f[i + 1] /\ (i # 1 => g[i - 1] = f[i - 1])
    BY <1>1, <2>1
  <2> QED
    BY <1>2, <2>1, <2>2 DEF WholeLines
<1> QED
  BY <1>2 DEF Stored

\* A whole record is a line of its own unless it is behind a fragment.
LEMMA AppendRecord ==
    ASSUME NEW f \in Seq(Piece), NEW b \in BarIds
    PROVE  LET g == f \o Record(b) IN
           /\ g \in Seq(Piece) /\ Starts(f, g) /\ ~Dangling(g)
           /\ Len(g) = Len(f) + 2
           /\ g[Len(f) + 1] = Head2(b) /\ g[Len(f) + 2] = Tail2(b)
           /\ Stored(g) \subseteq Stored(f) \cup {b}
           /\ ~Dangling(f) => b \in Stored(g)
<1> DEFINE r == Record(b)
           g == f \o r
<1>2. r \in Seq(Piece) /\ Len(r) = 2 /\ r[1] = Head2(b) /\ r[2] = Tail2(b)
  BY RecordPieces
<1> HIDE DEF r
<1>3. /\ g \in Seq(Piece) /\ Len(g) = Len(f) + 2 /\ Len(f) \in Nat
      /\ \A i \in 1 .. Len(f) : g[i] = f[i]
      /\ g[Len(f) + 1] = r[1] /\ g[Len(f) + 2] = r[2]
  <2>1. r \in Seq(Piece)
    BY <1>2
  <2>2. /\ g \in Seq(Piece) /\ Len(g) = Len(f) + Len(r)
        /\ \A i \in 1 .. Len(f) + Len(r) : g[i] = IF i <= Len(f) THEN f[i] ELSE r[i - Len(f)]
    BY <2>1, ConcatProperties, ZenonT(30)
  <2> HIDE DEF g
  <2>3. Len(f) \in Nat /\ Len(g) = Len(f) + 2
    BY <1>2, <2>2
  <2>4. \A i \in 1 .. Len(f) : g[i] = f[i]
    BY <1>2, <2>2, <2>3
  <2>5. g[Len(f) + 1] = r[1] /\ g[Len(f) + 2] = r[2]
    BY <1>2, <2>2, <2>3
  <2> QED
    BY <2>2, <2>3, <2>4, <2>5
<1> HIDE DEF g
<1>4. Starts(f, g)
  BY <1>3 DEF Starts
<1>5. ~Dangling(g)
  BY <1>2, <1>3, PieceFields DEF Dangling
<1>6. ASSUME NEW i \in WholeLines(g)
      PROVE  \/ i \in WholeLines(f) /\ g[i] = f[i]
             \/ g[i].bar = b
  <2>1. /\ i \in 1 .. Len(f) + 1
        /\ i = 1 \/ g[i - 1].part = "tail"
        /\ g[i].part = "head" /\ g[i + 1].part = "tail"
    BY <1>3 DEF WholeLines
  <2>2. CASE i = Len(f) + 1
    BY <1>2, <1>3, <2>2, PieceFields
  <2>3. CASE i = Len(f)
    BY <1>2, <1>3, <2>1, <2>3, PieceFields
  <2>4. CASE i \in 1 .. Len(f) - 1
    <3>1. i \in 1 .. Len(f) /\ i + 1 \in 1 .. Len(f) /\ (i # 1 => i - 1 \in 1 .. Len(f))
      BY <1>3, <2>4
    <3>2. /\ g[i] = f[i] /\ g[i + 1] = f[i + 1] /\ (i # 1 => g[i - 1] = f[i - 1])
      BY <1>3, <3>1
    <3> QED
      BY <2>1, <2>4, <3>2 DEF WholeLines
  <2> QED
    BY <1>3, <2>1, <2>2, <2>3, <2>4
<1>7. Stored(g) \subseteq Stored(f) \cup {b}
  BY <1>6 DEF Stored
<1>8. ASSUME ~Dangling(f) PROVE b \in Stored(g)
  <2>1. Len(f) + 1 = 1 \/ g[Len(f)].part = "tail"
    <3>1. CASE f = <<>>
      BY <3>1
    <3>2. CASE f # <<>>
      <4>1. Len(f) \in 1 .. Len(f) /\ f[Len(f)] \in Piece /\ f[Len(f)].part # "head"
        BY <1>3, <1>8, <3>2 DEF Dangling
      <4> QED
        BY <1>3, <4>1 DEF Piece
    <3> QED
      BY <3>1, <3>2
  <2>2. Len(f) + 1 \in WholeLines(g)
    BY <1>2, <1>3, <2>1, PieceFields DEF WholeLines
  <2>3. g[Len(f) + 1].bar = b
    BY <1>2, <1>3, PieceFields
  <2> QED
    BY <2>2, <2>3 DEF Stored
<1> QED
  BY <1>2, <1>3, <1>4, <1>5, <1>7, <1>8 DEF g, r

\* A fragment is no line.
LEMMA AppendFragment ==
    ASSUME NEW f \in Seq(Piece), NEW b \in BarIds
    PROVE  LET g == f \o Fragment(b) IN
           /\ g \in Seq(Piece) /\ Starts(f, g)
           /\ Len(g) = Len(f) + 1 /\ g[Len(f) + 1] = Head2(b)
           /\ Stored(g) = Stored(f)
<1> DEFINE r == Fragment(b)
           g == f \o r
<1>2. r \in Seq(Piece) /\ Len(r) = 1 /\ r[1] = Head2(b)
  BY RecordPieces
<1> HIDE DEF r
<1>3. /\ g \in Seq(Piece) /\ Len(g) = Len(f) + 1 /\ Len(f) \in Nat
      /\ \A i \in 1 .. Len(f) : g[i] = f[i]
      /\ g[Len(f) + 1] = r[1]
  BY <1>2, ConcatProperties, SMTT(30)
<1> HIDE DEF g
<1>4. Starts(f, g)
  BY <1>3 DEF Starts
<1>5. ASSUME NEW i \in WholeLines(g)
      PROVE  i \in WholeLines(f) /\ g[i] = f[i]
  <2>1. /\ i \in 1 .. Len(f)
        /\ i = 1 \/ g[i - 1].part = "tail"
        /\ g[i].part = "head" /\ g[i + 1].part = "tail"
    BY <1>3 DEF WholeLines
  <2>2. i # Len(f)
    BY <1>2, <1>3, <2>1, PieceFields
  <2>3. i \in 1 .. Len(f) - 1
    BY <1>3, <2>1, <2>2
  <2>4. /\ g[i] = f[i] /\ g[i + 1] = f[i + 1] /\ (i # 1 => g[i - 1] = f[i - 1])
    BY <1>3, <2>3
  <2> QED
    BY <2>1, <2>3, <2>4 DEF WholeLines
<1>6. Stored(g) \subseteq Stored(f)
  BY <1>5 DEF Stored
<1>7. Stored(f) \subseteq Stored(g)
  BY <1>3, <1>4, StoredStarts
<1> QED
  BY <1>2, <1>3, <1>4, <1>6, <1>7 DEF g, r

-----------------------------------------------------------------------------
(* What the operations do to the content.                                  *)

LEMMA ContentFacts ==
    ASSUME StoreTypeOK
    PROVE  /\ file \in Seq(Piece) /\ buf \in Seq(Piece) /\ Content \in Seq(Piece)
           /\ Len(Content) = Len(file) + Len(buf) /\ Starts(file, Content)
           /\ buf = <<>> => Content = file
<1>1. file \in Seq(Piece) /\ buf \in Seq(Piece)
  BY DEF StoreTypeOK
<1>2. /\ Content \in Seq(Piece) /\ Len(Content) = Len(file) + Len(buf)
      /\ \A i \in 1 .. Len(file) + Len(buf) :
             Content[i] = IF i <= Len(file) THEN file[i] ELSE buf[i - Len(file)]
  BY <1>1, ConcatProperties, Zenon DEF Content
<1>3. Len(file) \in Nat /\ Len(buf) \in Nat
  BY <1>1
<1>4. Starts(file, Content)
  BY <1>2, <1>3 DEF Starts
<1>5. buf = <<>> => Content = file
  BY <1>1, ConcatEmptySeq DEF Content
<1> QED
  BY <1>1, <1>2, <1>4, <1>5

LEMMA StartsConcat ==
    ASSUME NEW f \in Seq(Piece), NEW x \in Seq(Piece)
    PROVE  f \o x \in Seq(Piece) /\ Starts(f, f \o x)
<1> DEFINE g == f \o x
<1>1. /\ g \in Seq(Piece) /\ Len(g) = Len(f) + Len(x)
      /\ \A i \in 1 .. Len(f) + Len(x) : g[i] = IF i <= Len(f) THEN f[i] ELSE x[i - Len(f)]
  BY ConcatProperties, Zenon
<1> HIDE DEF g
<1>2. Len(f) \in Nat /\ Len(x) \in Nat
  OBVIOUS
<1>3. Starts(f, g)
  BY <1>1, <1>2 DEF Starts
<1> QED
  BY <1>1, <1>3 DEF g

\* Spilling moves bytes from the buffer to the file, whatever was put behind it.
LEMMA SpillContent ==
    ASSUME StoreTypeOK, NEW x \in Seq(Piece), NEW k \in 0 .. Len(buf \o x), Spill(buf \o x, k)
    PROVE  /\ file' \in Seq(Piece) /\ buf' \in Seq(Piece)
           /\ Content' = Content \o x /\ Starts(file, file')
<1> DEFINE c == buf \o x
           spilled == SubSeq(c, 1, k)
           kept == SubSeq(c, k + 1, Len(c))
<1>1. file \in Seq(Piece) /\ buf \in Seq(Piece) /\ c \in Seq(Piece)
  BY ConcatProperties DEF StoreTypeOK
<1>2. file' = file \o spilled /\ buf' = kept /\ k \in 0 .. Len(c)
  BY DEF Spill
<1>3. spilled \o kept = c
  <2> HIDE DEF c
  <2>1. Len(c) \in Nat /\ 1 \in 1 .. Len(c) + 1 /\ k \in 1 - 1 .. Len(c) /\ Len(c) \in k .. Len(c)
    BY <1>1, <1>2
  <2>2. spilled \o kept = SubSeq(c, 1, Len(c))
    BY <1>1, <2>1, ConcatAdjacentSubSeq
  <2> QED
    BY <1>1, <2>2, SubSeqFull
<1>4. spilled \in Seq(Piece) /\ kept \in Seq(Piece)
  <2> HIDE DEF c
  <2>1. Len(c) \in Nat /\ k \in Nat /\ k <= Len(c)
    BY <1>1, <1>2
  <2>2. /\ \A i \in 1 .. k : c[i] \in Piece
        /\ \A i \in k + 1 .. Len(c) : c[i] \in Piece
    BY <1>1, <2>1
  <2> QED
    BY <2>1, <2>2, SubSeqProperties
<1>5. (file \o spilled) \o kept = file \o (spilled \o kept)
  <2>1. file \in Seq(Piece) /\ spilled \in Seq(Piece) /\ kept \in Seq(Piece)
    BY <1>1, <1>4
  <2> HIDE DEF spilled, kept
  <2> QED
    BY <2>1, ConcatAssociative, SMTT(30)
<1>6. file \o (buf \o x) = (file \o buf) \o x
  BY <1>1, ConcatAssociative, SMTT(30)
<1>7. Content' = Content \o x
  BY <1>2, <1>3, <1>5, <1>6 DEF Content
<1> HIDE DEF spilled, kept
<1>8. file' \in Seq(Piece) /\ Starts(file, file')
  BY <1>1, <1>2, <1>4, StartsConcat
<1> QED
  BY <1>2, <1>4, <1>7, <1>8

\* The same without new bytes.
LEMMA SpillBuffer ==
    ASSUME StoreTypeOK, NEW k \in 0 .. Len(buf), Spill(buf, k)
    PROVE  /\ file' \in Seq(Piece) /\ buf' \in Seq(Piece)
           /\ Content' = Content /\ Starts(file, file')
           /\ k = Len(buf) => buf' = <<>> /\ file' = Content
<1>1. buf \in Seq(Piece) /\ <<>> \in Seq(Piece) /\ Content \in Seq(Piece)
  BY ContentFacts
<1>2. buf \o <<>> = buf /\ Content \o <<>> = Content
  BY <1>1, ConcatEmptySeq
<1>3. /\ file' \in Seq(Piece) /\ buf' \in Seq(Piece)
      /\ Content' = Content /\ Starts(file, file')
  BY <1>1, <1>2, SpillContent
<1>4. ASSUME k = Len(buf) PROVE buf' = <<>> /\ file' = Content
  <2>1. Len(buf) \in Nat
    BY <1>1
  <2>2. SubSeq(buf, 1, Len(buf)) = buf /\ SubSeq(buf, Len(buf) + 1, Len(buf)) = <<>>
    BY <1>1, <2>1, SubSeqFull, SubSeqEmpty
  <2> QED
    BY <1>4, <2>2 DEF Spill, Content
<1> QED
  BY <1>3, <1>4

\* A bar's result is put behind those of the bars before it.
LEMMA ReturnedAppends ==
    ASSUME StoreTypeOK, NEW r \in 0 .. MaxSessions, Returned(Len(results) + 1, r),
           Len(results) < MaxBars
    PROVE  /\ results' \in Seq(0 .. MaxSessions)
           /\ Len(results') = Len(results) + 1 /\ Len(results) \in Nat
           /\ DOMAIN results = 1 .. Len(results) /\ DOMAIN results' = 1 .. Len(results) + 1
           /\ \A b \in DOMAIN results : results'[b] = results[b]
           /\ results'[Len(results) + 1] = r
<1> DEFINE n == Len(results)
<1>1. results \in Seq(0 .. MaxSessions) /\ n \in Nat /\ DOMAIN results = 1 .. n
  BY DEF StoreTypeOK
<1>2. (1 .. n) \cup {n + 1} = 1 .. n + 1
  BY <1>1
<1>3. results' = [x \in 1 .. n + 1 |-> IF x = n + 1 THEN r ELSE results[x]]
  BY <1>1, <1>2 DEF Returned
<1>4. \A x \in 1 .. n : x \in 1 .. n + 1 /\ x # n + 1 /\ results[x] \in 0 .. MaxSessions
  <2>1. \A x \in 1 .. n : results[x] \in 0 .. MaxSessions
    BY <1>1, ElementOfSeq
  <2> HIDE DEF n
  <2> QED
    BY <1>1, <2>1
<1>5. n + 1 \in Nat /\ n + 1 \in 1 .. n + 1
  BY <1>1
<1> HIDE DEF n
<1>6. \A x \in 1 .. n + 1 : x # n + 1 => x \in 1 .. n
  BY <1>1
<1>7. results' \in [1 .. n + 1 -> 0 .. MaxSessions]
  BY <1>3, <1>4, <1>6
<1>8. results' \in Seq(0 .. MaxSessions)
  BY <1>5, <1>7, SeqDef
<1>9. DOMAIN results' = 1 .. n + 1
  BY <1>3
<1>10. Len(results') = n + 1
  BY <1>5, <1>8, <1>9, LenProperties
<1> QED
  BY <1>1, <1>3, <1>4, <1>5, <1>8, <1>9, <1>10 DEF n

-----------------------------------------------------------------------------
(* The invariant of the file.                                              *)

LEMMA LostFinite ==
    ASSUME StoreTypeOK
    PROVE  /\ IsFiniteSet(Lost) /\ Cardinality(Lost) \in Nat
           /\ durable \cup CurrentOk \subseteq DOMAIN results
           /\ DOMAIN results = 1 .. Len(results) /\ Len(results) \in Nat
           /\ interruptions \in Nat
<1>1. DOMAIN results = 1 .. Len(results) /\ Len(results) \in Nat
  BY DEF StoreTypeOK
<1>2. durable \cup CurrentOk \subseteq DOMAIN results
  BY DEF StoreTypeOK, CurrentOk
<1>3. IsFiniteSet(1 .. Len(results))
  BY <1>1, FS_Interval
<1>4. Lost \subseteq 1 .. Len(results)
  BY <1>1, <1>2 DEF Lost
<1>5. IsFiniteSet(Lost)
  BY <1>3, <1>4, FS_Subset
<1> QED
  BY <1>1, <1>2, <1>5, FS_CardinalityType DEF StoreTypeOK

\* The loss can only grow by what is newly lost, a bar at most.
LEMMA LossGrows ==
    ASSUME NEW A, NEW B, IsFiniteSet(A), IsFiniteSet(B), NEW n, B \subseteq A \cup {n}
    PROVE  /\ Cardinality(A) \in Nat /\ Cardinality(B) \in Nat
           /\ Cardinality(B) <= Cardinality(A) + 1
           /\ B \subseteq A => Cardinality(B) <= Cardinality(A)
<1>1. IsFiniteSet(A \cup {n}) /\ Cardinality(A) \in Nat /\ Cardinality(B) \in Nat
  BY FS_AddElement, FS_CardinalityType
<1>2. Cardinality(A \cup {n}) \in {Cardinality(A), Cardinality(A) + 1}
  BY FS_AddElement
<1>3. Cardinality(B) <= Cardinality(A \cup {n})
  BY <1>1, FS_Subset
<1>4. B \subseteq A => Cardinality(B) <= Cardinality(A)
  BY FS_Subset
<1> QED
  BY <1>1, <1>2, <1>3, <1>4

LEMMA InitStoreInv == StoreInit => StoreInv
<1> SUFFICES ASSUME StoreInit PROVE StoreInv
  OBVIOUS
<1>1. /\ file = <<>> /\ buf = <<>> /\ results = <<>> /\ durable = {} /\ isOpen = FALSE
      /\ sessions = 0 /\ interruptions = 0
      /\ DOMAIN results = {} /\ Len(results) = 0
  BY DEF StoreInit
<1>2. StoreTypeOK
  <2>1. /\ file \in Seq(Piece) /\ buf \in Seq(Piece) /\ results \in Seq(0 .. MaxSessions)
    BY <1>1
  <2>2. 0 \in 0 .. MaxSessions /\ 0 <= MaxBars
    BY BarStoreAssumption
  <2> QED
    BY <1>1, <2>1, <2>2 DEF StoreTypeOK
<1>3. Content = <<>> /\ Len(Content) = 0 /\ Content \in Seq(Piece)
  BY <1>1, <1>2, ContentFacts
<1>4. ~Dangling(Content) /\ CurrentOk = {} /\ Lost = {}
  BY <1>1, <1>3 DEF Dangling, CurrentOk, Lost
<1>5. Cardinality(Lost) = 0
  BY <1>4, FS_EmptySet
<1> QED
  BY <1>1, <1>2, <1>3, <1>4, <1>5
     DEF StoreInv, Numbered, ContentOrdered, LossCounted, DurableInFile

\* A record is appended.
LEMMA AppendOkKeeps ==
    ASSUME StoreInv, isOpen, Len(results) < MaxBars, AppendOk(Len(results) + 1)
    PROVE  StoreInv'
<1> DEFINE n == Len(results) + 1
           C == Content
           D == Content'
<1>1. /\ StoreTypeOK /\ Numbered /\ ContentOrdered /\ LossCounted /\ DurableInFile
  BY DEF StoreInv
<1>2. UNCHANGED <<isOpen, sessions, durable, interruptions>>
  BY DEF AppendOk
<1>3. n \in BarIds /\ n \in Nat \ {0} /\ sessions \in 0 .. MaxSessions
  <2>1. Len(results) \in Nat /\ sessions \in 0 .. MaxSessions
    BY <1>1 DEF StoreTypeOK
  <2> QED
    BY <2>1, BarStoreAssumption DEF BarIds
<1>4. /\ results' \in Seq(0 .. MaxSessions) /\ Len(results') = n
      /\ DOMAIN results = 1 .. n - 1 /\ DOMAIN results' = 1 .. n
      /\ \A b \in DOMAIN results : results'[b] = results[b]
      /\ results'[n] = sessions
  BY <1>1, <1>3, ReturnedAppends DEF AppendOk
<1>5. PICK k \in {0, Len(buf), Len(buf) + 1} : Spill(buf \o Record(n), k)
  BY DEF AppendOk
<1>6. Record(n) \in Seq(Piece) /\ Len(Record(n)) = 2
  <2> HIDE DEF n
  <2> QED
    BY <1>3, RecordPieces
<1>7. k \in 0 .. Len(buf \o Record(n))
  <2>1. buf \in Seq(Piece) /\ Len(buf) \in Nat
    BY <1>1 DEF StoreTypeOK
  <2>2. Len(buf \o Record(n)) = Len(buf) + 2
    <3> HIDE DEF n
    <3>1. Len(buf \o Record(n)) = Len(buf) + Len(Record(n))
      BY <1>6, <2>1, ConcatProperties, Zenon
    <3> QED
      BY <1>6, <3>1
  <2> QED
    BY <1>5, <2>1, <2>2
<1>8. /\ file' \in Seq(Piece) /\ buf' \in Seq(Piece)
      /\ D = C \o Record(n) /\ Starts(file, file')
  <2> HIDE DEF n
  <2> QED
    BY <1>1, <1>5, <1>6, <1>7, SpillContent
<1>9. C \in Seq(Piece) /\ file \in Seq(Piece) /\ Len(C) \in Nat
  BY <1>1, ContentFacts
<1>10. /\ D \in Seq(Piece) /\ Starts(C, D) /\ ~Dangling(D) /\ Len(D) = Len(C) + 2
       /\ D[Len(C) + 1] = Head2(n) /\ D[Len(C) + 2] = Tail2(n)
       /\ Stored(D) \subseteq Stored(C) \cup {n}
       /\ ~Dangling(C) => n \in Stored(D)
  <2> HIDE DEF C, D, n
  <2> QED
    BY <1>3, <1>8, <1>9, AppendRecord
<1>11. Stored(C) \subseteq Stored(D) /\ Stored(file) \subseteq Stored(file')
  <2> HIDE DEF C, D
  <2> QED
    BY <1>8, <1>9, <1>10, StoredStarts
<1> HIDE DEF n, C, D
<1>12. CurrentOk' = CurrentOk \cup {n}
  <2>1. DOMAIN results' = DOMAIN results \cup {n} /\ n \notin DOMAIN results
    BY <1>3, <1>4
  <2> QED
    BY <1>2, <1>4, <2>1 DEF CurrentOk
<1>13. StoreTypeOK'
  <2>1. durable \subseteq DOMAIN results' /\ Len(results') <= MaxBars
    BY <1>1, <1>3, <1>4 DEF StoreTypeOK, BarIds
  <2> QED
    BY <1>1, <1>2, <1>4, <1>8, <2>1 DEF StoreTypeOK
<1>14. \A i \in 1 .. Len(D) :
           \/ i \in 1 .. Len(C) /\ D[i] = C[i] /\ C[i].bar \in DOMAIN results
           \/ i \in {Len(C) + 1, Len(C) + 2} /\ D[i].bar = n
  <2>1. Head2(n).bar = n /\ Tail2(n).bar = n
    BY <1>3, PieceFields
  <2> QED
    BY <1>1, <1>9, <1>10, <2>1 DEF Numbered, Starts, C
<1>15. Numbered'
  <2>1. \A i \in 1 .. Len(D) : D[i].bar \in DOMAIN results'
    <3>1. DOMAIN results \subseteq DOMAIN results' /\ n \in DOMAIN results'
      BY <1>3, <1>4
    <3> QED
      BY <1>14, <3>1
  <2>2. \A b \in DOMAIN results' : results'[b] <= sessions
    <3>1. \A b \in DOMAIN results' : b \in DOMAIN results \/ b = n
      BY <1>3, <1>4
    <3> QED
      BY <1>1, <1>3, <1>4, <3>1 DEF Numbered
  <2> QED
    BY <1>1, <1>2, <2>1, <2>2 DEF Numbered, D
<1>16. ContentOrdered'
  <2>1. ASSUME NEW b \in DOMAIN results', NEW c \in DOMAIN results',
               b < c, results'[b] = results'[c], results'[b] # 0,
               NEW i \in 1 .. Len(D), D[i].bar = c
        PROVE  \E j \in 1 .. i - 1 : D[j] = Tail2(b)
    <3>1. b \in DOMAIN results /\ b \in Nat
      BY <1>3, <1>4, <2>1
    <3>2. CASE i \in 1 .. Len(C) /\ D[i] = C[i] /\ C[i].bar \in DOMAIN results
      <4>1. PICK j \in 1 .. i - 1 : C[j] = Tail2(b)
        BY <1>1, <1>4, <2>1, <3>1, <3>2 DEF ContentOrdered, C
      <4>2. j \in 1 .. Len(C) /\ D[j] = C[j]
        BY <1>9, <1>10, <3>2 DEF Starts
      <4> QED
        BY <4>1, <4>2
    <3>3. CASE i \in {Len(C) + 1, Len(C) + 2} /\ D[i].bar = n
      <4>1. b \in CurrentOk
        BY <1>4, <2>1, <3>1, <3>3 DEF CurrentOk
      <4>2. PICK j \in 1 .. Len(C) : C[j] = Tail2(b)
        BY <1>1, <4>1 DEF ContentOrdered, C
      <4>3. j \in 1 .. i - 1 /\ D[j] = C[j]
        BY <1>9, <1>10, <3>3 DEF Starts
      <4> QED
        BY <4>2, <4>3
    <3> QED
      BY <1>14, <3>2, <3>3
  <2>2. ASSUME NEW b \in CurrentOk' PROVE \E j \in 1 .. Len(D) : D[j] = Tail2(b)
    <3>1. CASE b = n
      BY <1>9, <1>10, <3>1
    <3>2. CASE b \in CurrentOk
      <4>1. PICK j \in 1 .. Len(C) : C[j] = Tail2(b)
        BY <1>1, <3>2 DEF ContentOrdered, C
      <4> QED
        BY <1>9, <1>10, <4>1 DEF Starts
    <3> QED
      BY <1>12, <3>1, <3>2
  <2> QED
    BY <2>1, <2>2 DEF ContentOrdered, D
<1>17. LossCounted'
  <2>1. /\ IsFiniteSet(Lost) /\ interruptions \in Nat
    BY <1>1, LostFinite
  <2>2. Lost' = (durable \cup CurrentOk \cup {n}) \ Stored(D)
    BY <1>2, <1>12 DEF Lost, D
  <2>3. Lost = (durable \cup CurrentOk) \ Stored(C)
    BY DEF Lost, C
  <2>4. Lost' \subseteq Lost \cup {n} /\ (~Dangling(C) => Lost' \subseteq Lost)
    BY <1>10, <1>11, <2>2, <2>3
  <2>5. IsFiniteSet(Lost')
    BY <2>1, <2>4, FS_AddElement, FS_Subset
  <2>6. /\ Cardinality(Lost) \in Nat /\ Cardinality(Lost') \in Nat
        /\ Cardinality(Lost') <= Cardinality(Lost) + 1
        /\ ~Dangling(C) => Cardinality(Lost') <= Cardinality(Lost)
    BY <2>1, <2>4, <2>5, LossGrows
  <2>7. Cardinality(Lost) + (IF Dangling(C) THEN 1 ELSE 0) <= interruptions
    BY <1>1 DEF LossCounted, C
  <2>8. Cardinality(Lost') + 0 <= interruptions
    BY <2>1, <2>6, <2>7
  <2> QED
    BY <1>2, <1>10, <2>8 DEF LossCounted, D
<1>18. DurableInFile'
  <2>1. n \notin durable
    BY <1>1, <1>3, <1>4 DEF StoreTypeOK
  <2> QED
    BY <1>1, <1>2, <1>10, <1>11, <2>1 DEF DurableInFile, C, D
<1> QED
  BY <1>13, <1>15, <1>16, <1>17, <1>18 DEF StoreInv

\* An append that fails has written a fragment or nothing, and its bar is none
\* of those of the session.
LEMMA AppendFailsContent ==
    ASSUME StoreTypeOK, NEW n \in BarIds, AppendFails(n)
    PROVE  /\ file' \in Seq(Piece) /\ buf' \in Seq(Piece)
           /\ Content' \in {Content, Content \o Fragment(n)} /\ Starts(file, file')
<1>1. PICK c \in {buf, buf \o Fragment(n)} : \E k \in 0 .. Len(c) - 1 : Spill(c, k)
  BY DEF AppendFails
<1>2. PICK k \in 0 .. Len(c) - 1 : Spill(c, k)
  BY <1>1
<1>3. buf \in Seq(Piece) /\ Fragment(n) \in Seq(Piece)
  BY RecordPieces DEF StoreTypeOK
<1>4. buf \o Fragment(n) \in Seq(Piece)
  BY <1>3, ConcatProperties
<1>5. c \in Seq(Piece)
  BY <1>3, <1>4
<1>6. k \in 0 .. Len(c)
  BY <1>2, <1>5
<1>7. CASE c = buf
  BY <1>2, <1>6, <1>7, SpillBuffer
<1>8. CASE c = buf \o Fragment(n)
  BY <1>2, <1>3, <1>6, <1>8, SpillContent
<1> QED
  BY <1>7, <1>8

LEMMA AppendFailsKeeps ==
    ASSUME StoreInv, isOpen, Len(results) < MaxBars, AppendFails(Len(results) + 1)
    PROVE  StoreInv'
<1> DEFINE n == Len(results) + 1
           C == Content
           D == Content'
<1>1. /\ StoreTypeOK /\ Numbered /\ ContentOrdered /\ LossCounted /\ DurableInFile
  BY DEF StoreInv
<1>2. UNCHANGED <<isOpen, sessions, durable>> /\ interruptions' = interruptions + 1
      /\ buf # <<>>
  BY DEF AppendFails
<1>3. n \in BarIds /\ n \in Nat \ {0} /\ 0 \in 0 .. MaxSessions
  <2>1. Len(results) \in Nat
    BY <1>1 DEF StoreTypeOK
  <2> QED
    BY <2>1, BarStoreAssumption DEF BarIds
<1>4. /\ results' \in Seq(0 .. MaxSessions) /\ Len(results') = n
      /\ DOMAIN results = 1 .. n - 1 /\ DOMAIN results' = 1 .. n
      /\ \A b \in DOMAIN results : results'[b] = results[b]
      /\ results'[n] = 0
  BY <1>1, <1>3, ReturnedAppends DEF AppendFails
<1>5. C \in Seq(Piece) /\ file \in Seq(Piece) /\ Len(C) \in Nat
  BY <1>1, ContentFacts
<1> HIDE DEF n
<1>6. /\ file' \in Seq(Piece) /\ buf' \in Seq(Piece)
      /\ D \in {C, C \o Fragment(n)} /\ Starts(file, file')
  BY <1>1, <1>3, AppendFailsContent DEF n
<1> HIDE DEF C, D
<1>7. /\ D \in Seq(Piece) /\ Starts(C, D) /\ Stored(D) = Stored(C)
      /\ \/ Len(D) = Len(C)
         \/ Len(D) = Len(C) + 1 /\ D[Len(C) + 1] = Head2(n)
  <2>1. CASE D = C
    BY <1>5, <2>1 DEF Starts
  <2>2. CASE D = C \o Fragment(n)
    BY <1>3, <1>5, <2>2, AppendFragment
  <2> QED
    BY <1>6, <2>1, <2>2
<1>8. Stored(file) \subseteq Stored(file')
  BY <1>5, <1>6, StoredStarts
<1>9. DOMAIN results' = DOMAIN results \cup {n} /\ n \notin DOMAIN results
  BY <1>3, <1>4
<1>10. sessions \in Nat /\ sessions # 0
  BY <1>1 DEF Numbered, StoreTypeOK
<1>11. CurrentOk' = CurrentOk
  BY <1>2, <1>4, <1>9, <1>10 DEF CurrentOk
<1>12. StoreTypeOK'
  <2>1. durable \subseteq DOMAIN results' /\ Len(results') <= MaxBars
    BY <1>1, <1>3, <1>4, <1>9 DEF StoreTypeOK, BarIds
  <2>2. interruptions' \in Nat
    BY <1>1, <1>2 DEF StoreTypeOK
  <2> QED
    BY <1>1, <1>2, <1>4, <1>6, <2>1, <2>2 DEF StoreTypeOK
<1>13. \A i \in 1 .. Len(D) :
           \/ i \in 1 .. Len(C) /\ D[i] = C[i] /\ C[i].bar \in DOMAIN results
           \/ D[i].bar = n
  <2>1. Head2(n).bar = n
    BY <1>3, PieceFields
  <2> QED
    BY <1>1, <1>5, <1>7, <2>1 DEF Numbered, Starts, C
<1>14. Numbered'
  <2>1. \A i \in 1 .. Len(D) : D[i].bar \in DOMAIN results'
    BY <1>9, <1>13
  <2>2. \A b \in DOMAIN results' : results'[b] <= sessions
    BY <1>1, <1>4, <1>9, <1>10 DEF Numbered
  <2> QED
    BY <1>1, <1>2, <2>1, <2>2 DEF Numbered, D
<1>15. ContentOrdered'
  <2>1. ASSUME NEW b \in DOMAIN results', NEW c \in DOMAIN results',
               b < c, results'[b] = results'[c], results'[b] # 0,
               NEW i \in 1 .. Len(D), D[i].bar = c
        PROVE  \E j \in 1 .. i - 1 : D[j] = Tail2(b)
    <3>1. b \in DOMAIN results /\ c \in DOMAIN results /\ c # n
      BY <1>4, <1>9, <2>1
    <3>2. i \in 1 .. Len(C) /\ C[i].bar = c
      BY <1>13, <2>1, <3>1
    <3>3. PICK j \in 1 .. i - 1 : C[j] = Tail2(b)
      BY <1>1, <1>4, <2>1, <3>1, <3>2 DEF ContentOrdered, C
    <3>4. j \in 1 .. Len(C) /\ D[j] = C[j]
      BY <1>5, <1>7, <3>2 DEF Starts
    <3> QED
      BY <3>3, <3>4
  <2>2. ASSUME NEW b \in CurrentOk' PROVE \E j \in 1 .. Len(D) : D[j] = Tail2(b)
    <3>1. PICK j \in 1 .. Len(C) : C[j] = Tail2(b)
      BY <1>1, <1>11, <2>2 DEF ContentOrdered, C
    <3> QED
      BY <1>5, <1>7, <3>1 DEF Starts
  <2> QED
    BY <2>1, <2>2 DEF ContentOrdered, D
<1>16. LossCounted'
  <2>1. Cardinality(Lost) \in Nat /\ interruptions \in Nat
    BY <1>1, LostFinite
  <2>2. Lost' = Lost
    BY <1>2, <1>7, <1>11 DEF Lost, C, D
  <2>3. Cardinality(Lost) <= interruptions
    BY <1>1, <2>1 DEF LossCounted
  <2> QED
    BY <1>2, <2>1, <2>2, <2>3 DEF LossCounted
<1>17. DurableInFile'
  BY <1>1, <1>2, <1>7, <1>8 DEF DurableInFile, C, D
<1> QED
  BY <1>12, <1>14, <1>15, <1>16, <1>17 DEF StoreInv

\* A flush moves bytes, and what it acknowledges is in the file.
LEMMA FlushKeeps ==
    ASSUME StoreInv, isOpen, FlushOk \/ FlushFails
    PROVE  StoreInv'
<1>1. /\ StoreTypeOK /\ Numbered /\ ContentOrdered /\ LossCounted /\ DurableInFile
  BY DEF StoreInv
<1>2. buf \in Seq(Piece) /\ Len(buf) \in Nat /\ Content \in Seq(Piece) /\ file \in Seq(Piece)
  BY <1>1, ContentFacts
<1>3. UNCHANGED <<isOpen, sessions, results, interruptions>>
  BY DEF FlushOk, FlushFails
<1>4. PICK k \in 0 .. Len(buf) : Spill(buf, k) /\ (FlushOk => k = Len(buf))
  <2>1. CASE FlushOk
    BY <1>2, <2>1 DEF FlushOk
  <2>2. CASE FlushFails /\ ~FlushOk
    <3>1. PICK k \in 0 .. Len(buf) - 1 : Spill(buf, k)
      BY <2>2 DEF FlushFails
    <3>2. k \in 0 .. Len(buf)
      BY <1>2
    <3> QED
      BY <2>2, <3>1, <3>2
  <2> QED
    BY <2>1, <2>2
<1>5. /\ file' \in Seq(Piece) /\ buf' \in Seq(Piece)
      /\ Content' = Content /\ Starts(file, file')
      /\ k = Len(buf) => file' = Content
  BY <1>1, <1>4, SpillBuffer
<1>6. Stored(file) \subseteq Stored(file')
  BY <1>2, <1>5, StoredStarts
<1>7. /\ CurrentOk' = CurrentOk
      /\ \/ durable' = durable
         \/ durable' = durable \cup CurrentOk /\ file' = Content
  BY <1>3, <1>4, <1>5 DEF CurrentOk, FlushOk, FlushFails
<1>8. StoreTypeOK'
  <2>1. CurrentOk \subseteq DOMAIN results
    BY DEF CurrentOk
  <2> QED
    BY <1>1, <1>3, <1>5, <1>7, <2>1 DEF StoreTypeOK
<1>9. Numbered' /\ ContentOrdered'
  BY <1>1, <1>3, <1>5, <1>7 DEF Numbered, ContentOrdered
<1>10. Lost' = Lost
  BY <1>5, <1>7 DEF Lost
<1>11. LossCounted'
  BY <1>1, <1>3, <1>5, <1>10 DEF LossCounted
<1>12. DurableInFile'
  BY <1>1, <1>5, <1>6, <1>7 DEF DurableInFile
<1> QED
  BY <1>8, <1>9, <1>11, <1>12 DEF StoreInv

\* The store goes away, by a drop or a crash: the content is cut off, not in the
\* part that is in the file.
LEMMA CutKeeps ==
    ASSUME StoreInv, isOpen' = FALSE, buf' = <<>>, UNCHANGED <<sessions, results, durable>>,
           file' \in Seq(Piece), Starts(file, file'), Starts(file', Content),
           \/ file' = Content /\ interruptions' = interruptions
           \/ interruptions' = interruptions + 1
    PROVE  StoreInv'
<1>1. /\ StoreTypeOK /\ Numbered /\ ContentOrdered /\ LossCounted /\ DurableInFile
  BY DEF StoreInv
<1>2. /\ Content \in Seq(Piece) /\ file \in Seq(Piece) /\ Len(Content) \in Nat
      /\ interruptions \in Nat /\ Len(file') \in Nat
  BY <1>1, ContentFacts DEF StoreTypeOK
<1>3. Content' = file'
  BY ConcatEmptySeq DEF Content
<1>4. /\ Len(file') <= Len(Content)
      /\ \A i \in 1 .. Len(file') : i \in 1 .. Len(Content) /\ file'[i] = Content[i]
  BY <1>2 DEF Starts
<1>5. CurrentOk' = {}
  BY DEF CurrentOk
<1>6. StoreTypeOK'
  <2>1. interruptions' \in Nat /\ buf' \in Seq(Piece)
    BY <1>2
  <2> QED
    BY <1>1, <2>1 DEF StoreTypeOK
<1>7. Numbered'
  BY <1>1, <1>3, <1>4 DEF Numbered
<1>8. ContentOrdered'
  <2>1. ASSUME NEW b \in DOMAIN results, NEW c \in DOMAIN results,
               b < c, results[b] = results[c], results[b] # 0,
               NEW i \in 1 .. Len(file'), file'[i].bar = c
        PROVE  \E j \in 1 .. i - 1 : file'[j] = Tail2(b)
    <3>1. PICK j \in 1 .. i - 1 : Content[j] = Tail2(b)
      BY <1>1, <1>4, <2>1 DEF ContentOrdered
    <3>2. j \in 1 .. Len(file')
      BY <1>2
    <3> QED
      BY <1>4, <3>1, <3>2
  <2> QED
    BY <1>3, <1>5, <2>1 DEF ContentOrdered
<1>9. Stored(file) \subseteq Stored(file') /\ Stored(file') \subseteq Stored(Content)
  BY <1>2, StoredStarts
<1>10. Lost' \subseteq Lost
  BY <1>1, <1>3, <1>5, <1>9 DEF Lost, DurableInFile
<1>11. LossCounted'
  <2>1. /\ IsFiniteSet(Lost) /\ Cardinality(Lost) \in Nat
    BY <1>1, LostFinite
  <2>2. Cardinality(Lost') \in Nat /\ Cardinality(Lost') <= Cardinality(Lost)
    BY <1>10, <2>1, FS_Subset, FS_CardinalityType
  <2>3. Cardinality(Lost) + (IF Dangling(Content) THEN 1 ELSE 0) <= interruptions
    BY <1>1 DEF LossCounted
  <2>4. Cardinality(Lost') + (IF Dangling(file') THEN 1 ELSE 0) <= interruptions'
    <3>1. CASE file' = Content /\ interruptions' = interruptions
      <4> DEFINE x == IF Dangling(Content) THEN 1 ELSE 0
      <4>1. x \in Nat
        OBVIOUS
      <4> HIDE DEF x
      <4>2. Cardinality(Lost') + x <= interruptions
        BY <1>2, <2>1, <2>2, <2>3, <4>1 DEF x
      <4> QED
        BY <3>1, <4>2 DEF x
    <3>2. CASE interruptions' = interruptions + 1
      BY <1>2, <2>1, <2>2, <2>3, <3>2
    <3> QED
      BY <3>1, <3>2
  <2> QED
    BY <1>3, <2>4 DEF LossCounted
<1>12. DurableInFile'
  BY <1>3 DEF DurableInFile
<1> QED
  BY <1>6, <1>7, <1>8, <1>11, <1>12 DEF StoreInv

LEMMA DropFacts ==
    ASSUME StoreTypeOK, DropStore
    PROVE  /\ file' \in Seq(Piece) /\ Starts(file, file') /\ Starts(file', Content)
           /\ \/ file' = Content /\ interruptions' = interruptions
              \/ interruptions' = interruptions + 1
<1>1. buf \in Seq(Piece) /\ file \in Seq(Piece) /\ Len(buf) \in Nat /\ Content \in Seq(Piece)
  BY ContentFacts
<1>2. PICK k \in 0 .. Len(buf) :
          /\ file' = file \o SubSeq(buf, 1, k)
          /\ interruptions' = interruptions + (IF k < Len(buf) THEN 1 ELSE 0)
  BY DEF DropStore
<1> DEFINE written == SubSeq(buf, 1, k)
           lost == SubSeq(buf, k + 1, Len(buf))
<1>3. written \in Seq(Piece) /\ lost \in Seq(Piece)
  <2>1. /\ \A i \in 1 .. k : buf[i] \in Piece
        /\ \A i \in k + 1 .. Len(buf) : buf[i] \in Piece
    BY <1>1
  <2> QED
    BY <1>1, <2>1, SubSeqProperties
<1>4. written \o lost = buf
  <2>1. 1 \in 1 .. Len(buf) + 1 /\ k \in 1 - 1 .. Len(buf) /\ Len(buf) \in k .. Len(buf)
    BY <1>1
  <2>2. written \o lost = SubSeq(buf, 1, Len(buf))
    BY <1>1, <2>1, ConcatAdjacentSubSeq
  <2> QED
    BY <1>1, <2>2, SubSeqFull
<1>5. k = Len(buf) => written = buf
  BY <1>1, SubSeqFull
<1> HIDE DEF written, lost
<1>6. file' = file \o written
  BY <1>2 DEF written
<1>7. file' \in Seq(Piece) /\ Starts(file, file')
  BY <1>1, <1>3, <1>6, StartsConcat
<1>8. file' \o lost = Content
  <2>1. (file \o written) \o lost = file \o (written \o lost)
    <3>1. file \in Seq(Piece) /\ written \in Seq(Piece) /\ lost \in Seq(Piece)
      BY <1>1, <1>3
    <3> QED
      BY <3>1, ConcatAssociative, SMTT(30)
  <2> QED
    BY <1>4, <1>6, <2>1 DEF Content
<1>9. Starts(file', Content)
  BY <1>3, <1>7, <1>8, StartsConcat
<1>10. CASE k = Len(buf)
  <2>1. file' = Content
    BY <1>5, <1>6, <1>10 DEF Content
  <2>2. interruptions' = interruptions
    BY <1>1, <1>2, <1>10 DEF StoreTypeOK
  <2> QED
    BY <1>7, <1>9, <2>1, <2>2
<1>11. CASE k # Len(buf)
  <2>1. interruptions' = interruptions + 1
    BY <1>1, <1>2, <1>11
  <2> QED
    BY <1>7, <1>9, <2>1
<1> QED
  BY <1>10, <1>11

\* A new session begins with an empty buffer and none of the bars.
LEMMA OpenKeeps ==
    ASSUME StoreInv, Open
    PROVE  StoreInv'
<1>1. /\ StoreTypeOK /\ Numbered /\ ContentOrdered /\ LossCounted /\ DurableInFile
  BY DEF StoreInv
<1>2. /\ ~isOpen /\ sessions < MaxSessions /\ isOpen' = TRUE /\ sessions' = sessions + 1
      /\ UNCHANGED <<file, buf, results, durable, interruptions>>
  BY DEF Open, OpenStore
<1>3. sessions \in Nat /\ sessions' \in 0 .. MaxSessions /\ sessions' > 0
  BY <1>1, <1>2, BarStoreAssumption DEF StoreTypeOK
<1>4. \A b \in DOMAIN results : results[b] \in Nat /\ results[b] <= sessions
  <2>1. \A b \in DOMAIN results : results[b] \in 0 .. MaxSessions
    <3>1. results \in Seq(0 .. MaxSessions) /\ DOMAIN results = 1 .. Len(results)
      BY <1>1 DEF StoreTypeOK
    <3> QED
      BY <3>1, ElementOfSeq
  <2> QED
    BY <1>1, <2>1 DEF Numbered
<1>5. Content' = Content /\ CurrentOk' = {} /\ CurrentOk = {}
  BY <1>2, <1>3, <1>4 DEF Content, CurrentOk
<1>6. StoreTypeOK'
  BY <1>1, <1>2, <1>3 DEF StoreTypeOK
<1>7. Numbered'
  BY <1>1, <1>2, <1>3, <1>4, <1>5 DEF Numbered
<1>8. ContentOrdered'
  BY <1>1, <1>2, <1>5 DEF ContentOrdered
<1>9. LossCounted' /\ DurableInFile'
  BY <1>1, <1>2, <1>5 DEF LossCounted, DurableInFile, Lost
<1> QED
  BY <1>6, <1>7, <1>8, <1>9 DEF StoreInv

LEMMA NextStoreInv == StoreInv /\ [StoreNext]_storeVars => StoreInv'
<1> SUFFICES ASSUME StoreInv, [StoreNext]_storeVars PROVE StoreInv'
  OBVIOUS
<1>1. StoreTypeOK /\ Len(results) \in Nat
  BY DEF StoreInv, StoreTypeOK
<1>2. CASE AppendBar
  <2>1. Len(results) < MaxBars
    BY <1>1, <1>2, BarStoreAssumption DEF AppendBar
  <2> QED
    BY <1>2, <2>1, AppendOkKeeps, AppendFailsKeeps DEF AppendBar
<1>3. CASE Drop
  <2>1. /\ isOpen' = FALSE /\ buf' = <<>> /\ UNCHANGED <<sessions, results, durable>>
    BY <1>3 DEF Drop, DropStore
  <2> QED
    BY <1>1, <1>3, <2>1, DropFacts, CutKeeps DEF Drop
<1>4. CASE Crash
  <2>1. /\ isOpen' = FALSE /\ buf' = <<>> /\ UNCHANGED <<sessions, results, durable>>
        /\ interruptions' = interruptions + 1 /\ file' = file
    BY <1>4 DEF Crash
  <2>2. file' \in Seq(Piece) /\ Starts(file, file') /\ Starts(file', Content)
    <3>1. file \in Seq(Piece) /\ Starts(file, Content) /\ Len(file) \in Nat
      BY <1>1, ContentFacts
    <3> QED
      BY <2>1, <3>1 DEF Starts
  <2> QED
    BY <2>1, <2>2, CutKeeps
<1>5. CASE UNCHANGED storeVars
  <2>1. Content' = Content /\ CurrentOk' = CurrentOk
    BY <1>5 DEF storeVars, Content, CurrentOk
  <2> QED
    BY <1>5, <2>1 DEF storeVars, StoreInv, StoreTypeOK, Numbered, ContentOrdered, LossCounted,
                      DurableInFile, Lost
<1> QED
  BY <1>2, <1>3, <1>4, <1>5, OpenKeeps, FlushKeeps DEF StoreNext, Flush

LEMMA StoreInvImplies == StoreInv => StoreTypeOK /\ NoHoles /\ LossPerInterruption
<1> SUFFICES ASSUME StoreInv PROVE StoreTypeOK /\ NoHoles /\ LossPerInterruption
  OBVIOUS
<1>1. /\ StoreTypeOK /\ Numbered /\ ContentOrdered /\ LossCounted /\ DurableInFile
  BY DEF StoreInv
<1>2. /\ file \in Seq(Piece) /\ Content \in Seq(Piece) /\ Starts(file, Content)
  BY <1>1, ContentFacts
<1>3. /\ DOMAIN file = 1 .. Len(file) /\ Len(file) \in Nat /\ Len(Content) \in Nat
      /\ \A i \in 1 .. Len(file) : i \in 1 .. Len(Content) /\ Content[i] = file[i]
  BY <1>2 DEF Starts
<1>4. NoHoles
  <2> SUFFICES ASSUME NEW b \in DOMAIN results, NEW c \in DOMAIN results,
                      b < c, results[b] = results[c], results[b] # 0,
                      NEW i \in DOMAIN file, file[i].bar = c
               PROVE  \E j \in DOMAIN file : file[j] = Tail2(b)
    BY DEF NoHoles, Tail2
  <2>1. PICK j \in 1 .. i - 1 : Content[j] = Tail2(b)
    BY <1>1, <1>3 DEF ContentOrdered
  <2>2. j \in 1 .. Len(file)
    BY <1>3
  <2> QED
    BY <1>3, <2>1, <2>2
<1>5. LossPerInterruption
  <2>1. durable \ Stored(file) \subseteq Lost
    BY <1>1 DEF DurableInFile, Lost
  <2>2. /\ IsFiniteSet(Lost) /\ Cardinality(Lost) \in Nat /\ interruptions \in Nat
    BY <1>1, LostFinite
  <2>3. /\ Cardinality(durable \ Stored(file)) <= Cardinality(Lost)
        /\ Cardinality(durable \ Stored(file)) \in Nat
    BY <2>1, <2>2, FS_Subset, FS_CardinalityType
  <2>4. Cardinality(Lost) <= interruptions
    BY <1>1, <2>2 DEF LossCounted
  <2> QED
    BY <2>2, <2>3, <2>4 DEF LossPerInterruption
<1> QED
  BY <1>1, <1>4, <1>5

\* Of what one process appended the file holds a prefix, whenever writing fails
\* or ends, for any number of bars and of sessions.
THEOREM StoreHasNoHoles == StoreSpec => []NoHoles
BY InitStoreInv, NextStoreInv, StoreInvImplies, PTL DEF StoreSpec

\* Every failed append, failed drop and crash spoils at most one record that a
\* flush has acknowledged or will acknowledge.
THEOREM StoreLossBounded == StoreSpec => []LossPerInterruption
BY InitStoreInv, NextStoreInv, StoreInvImplies, PTL DEF StoreSpec

-----------------------------------------------------------------------------
(* The channel.                                                            *)

Carries(i, kind) == queue[i].kind = kind

\* The threads: who has gone has left nothing behind, and the worker stops
\* in order only after the owner has asked it to.
ThreadsOrdered ==
    /\ worker = "starting" => sessions < MaxSessions /\ Len(results) = inherited
    /\ worker \in {"finished", "failed"} => queue = <<>>
    /\ owner \in {"closed", "down"} => worker \in {"finished", "failed"}
    /\ worker \in {"finishing", "finished"} => owner # "open"
    /\ inherited <= Len(results) /\ Len(results) <= accepted

\* While the worker can still take them, the channel holds the bars that were
\* accepted and not yet appended, each once and in order.
BarsQueued ==
    worker \in {"starting", "running"} =>
        /\ \A i \in 1 .. Len(queue) : Carries(i, "bar") =>
               /\ queue[i].bar \in Len(results) + 1 .. accepted
               /\ \A j \in 1 .. i - 1 : Carries(j, "bar") => queue[j].bar < queue[i].bar
        /\ \A n \in Len(results) + 1 .. accepted :
               \E i \in 1 .. Len(queue) : Carries(i, "bar") /\ queue[i].bar = n

\* A caller has one flush in the channel at most, and the bars behind it came later.
FlushesQueued ==
    /\ \A c \in Callers : promised[c] <= accepted
    /\ \A i \in 1 .. Len(queue) : Carries(i, "flush") =>
           /\ ack[queue[i].by] = "waiting"
           /\ \A j \in i + 1 .. Len(queue) :
                  /\ Carries(j, "bar") => queue[j].bar > promised[queue[i].by]
                  /\ Carries(j, "flush") => queue[j].by # queue[i].by

\* A shutdown is the last message.
ShutdownLast ==
    \A i \in 1 .. Len(queue) : Carries(i, "shutdown") => i = Len(queue) /\ owner # "open"

ChannelInv == AsyncTypeOK /\ ThreadsOrdered /\ BarsQueued /\ FlushesQueued /\ ShutdownLast

-----------------------------------------------------------------------------
(* What flush and close promise.                                           *)

GluedIn(f) ==
    {inherited + 1} \cap {f[i].bar : i \in {i \in 2 .. Len(f) : f[i - 1].part = "head"}}

\* The bars of this process up to n are in f, but for one behind a fragment.
Covers(f, n) == (inherited + 1) .. n \subseteq Stored(f) \cup GluedIn(f)

\* A worker that runs has lost nothing yet, and it has closed the fragment of an
\* earlier process with its first record.
AllWritten ==
    worker = "running" =>
        /\ Covers(Content, Len(results))
        /\ Dangling(Content) => Len(results) = inherited

\* An answer of Ok to the shutdown message, and one of close itself.
CloseInv ==
    /\ worker \in {"finishing", "finished"} /\ answer = "ok" => Covers(file, accepted)
    /\ closed = "ok" => worker = "finished" /\ answer = "ok" /\ owner = "closed"

AsyncInv == ChannelInv /\ AllWritten /\ FlushCovers /\ CloseInv

-----------------------------------------------------------------------------
(* The operations on the channel.                                          *)

LEMMA MessageKinds ==
    /\ \A n \in BarIds : LET m == [kind |-> "bar", bar |-> n] IN
           m \in Message /\ m.kind = "bar" /\ m.bar = n
    /\ \A c \in Callers : LET m == [kind |-> "flush", by |-> c] IN
           m \in Message /\ m.kind = "flush" /\ m.by = c
    /\ [kind |-> "shutdown"] \in Message /\ [kind |-> "shutdown"].kind = "shutdown"
    /\ \A m \in Message :
           /\ m.kind = "bar" => m.bar \in BarIds
           /\ m.kind = "flush" => m.by \in Callers
BY DEF Message

LEMMA QueueFacts ==
    ASSUME AsyncTypeOK
    PROVE  /\ queue \in Seq(Message) /\ Len(queue) \in Nat
           /\ Len(results) \in Nat /\ accepted \in Nat /\ inherited \in Nat /\ sessions \in Nat
           /\ accepted <= MaxBars /\ MaxBars \in Nat /\ Capacity \in Nat /\ MaxSessions \in Nat
           /\ \A i \in 1 .. Len(queue) :
                  /\ queue[i] \in Message
                  /\ Carries(i, "bar") => queue[i].bar \in Nat
                  /\ Carries(i, "flush") => queue[i].by \in Callers
           /\ \A c \in Callers : promised[c] \in Nat
<1>1. /\ queue \in Seq(Message) /\ Len(queue) \in Nat /\ Len(results) \in Nat
      /\ \A i \in 1 .. Len(queue) : queue[i] \in Message
  BY DEF AsyncTypeOK, StoreTypeOK
<1>2. /\ MaxBars \in Nat /\ Capacity \in Nat /\ MaxSessions \in Nat
  BY BarStoreAssumption, AsyncAssumption
<1>3. /\ accepted \in Nat /\ inherited \in Nat /\ sessions \in Nat /\ accepted <= MaxBars
  BY <1>2 DEF AsyncTypeOK, StoreTypeOK
<1>4. \A c \in Callers : promised[c] \in Nat
  BY <1>2 DEF AsyncTypeOK
<1>5. \A i \in 1 .. Len(queue) :
          /\ Carries(i, "bar") => queue[i].bar \in Nat
          /\ Carries(i, "flush") => queue[i].by \in Callers
  BY <1>1, <1>2, MessageKinds DEF Carries, BarIds
<1> QED
  BY <1>1, <1>2, <1>3, <1>4, <1>5

LEMMA SendFacts ==
    ASSUME AsyncTypeOK, NEW m \in Message, Send(m)
    PROVE  /\ queue' \in Seq(Message) /\ Len(queue') = Len(queue) + 1 /\ Len(queue') <= Capacity
           /\ \A i \in 1 .. Len(queue) : queue'[i] = queue[i]
           /\ queue'[Len(queue) + 1] = m
           /\ worker \notin {"finished", "failed"}
<1>1. queue \in Seq(Message) /\ Len(queue) \in Nat /\ Capacity \in Nat
  BY QueueFacts
<1>2. queue' = Append(queue, m) /\ Len(queue) < Capacity /\ worker \notin {"finished", "failed"}
  BY DEF Send, Connected
<1>3. /\ Append(queue, m) \in Seq(Message) /\ Len(Append(queue, m)) = Len(queue) + 1
      /\ \A i \in 1 .. Len(queue) : Append(queue, m)[i] = queue[i]
      /\ Append(queue, m)[Len(queue) + 1] = m
  BY <1>1, AppendProperties
<1> QED
  BY <1>1, <1>2, <1>3

LEMMA ReceivesFacts ==
    ASSUME AsyncTypeOK, NEW kind, Receives(kind)
    PROVE  /\ queue' \in Seq(Message) /\ Len(queue') = Len(queue) - 1 /\ Len(queue) >= 1
           /\ Len(queue') <= Capacity
           /\ \A i \in 1 .. Len(queue') : queue'[i] = queue[i + 1]
           /\ Head(queue) = queue[1] /\ queue[1].kind = kind /\ queue[1] \in Message
           /\ worker = "running"
<1>1. queue \in Seq(Message) /\ queue # <<>> /\ queue' = Tail(queue) /\ Head(queue).kind = kind
      /\ worker = "running"
  BY DEF Receives, AsyncTypeOK
<1>2. /\ Tail(queue) \in Seq(Message) /\ Head(queue) = queue[1] /\ Head(queue) \in Message
      /\ Len(Tail(queue)) = Len(queue) - 1 /\ Len(queue) \in Nat \ {0}
      /\ \A i \in 1 .. Len(queue) - 1 : Tail(queue)[i] = queue[i + 1]
  BY <1>1, HeadTailProperties
<1>3. Len(queue) <= Capacity /\ Capacity \in Nat
  BY QueueFacts DEF AsyncTypeOK
<1> QED
  BY <1>1, <1>2, <1>3

\* The next bar to be taken out is the one after the last that was appended.
LEMMA NextBar ==
    ASSUME AsyncTypeOK, BarsQueued, Receives("bar")
    PROVE  Head(queue).bar = Len(results) + 1 /\ Len(results) < MaxBars
           /\ Len(results) + 1 <= accepted
<1>1. /\ Len(queue) \in Nat /\ Len(results) \in Nat /\ accepted \in Nat /\ accepted <= MaxBars
      /\ MaxBars \in Nat
  BY QueueFacts
<1>2. 1 \in 1 .. Len(queue) /\ Carries(1, "bar") /\ Head(queue) = queue[1] /\ worker = "running"
  BY <1>1, ReceivesFacts DEF Carries
<1>3. queue[1].bar \in Len(results) + 1 .. accepted
  BY <1>2 DEF BarsQueued
<1>4. PICK i \in 1 .. Len(queue) : Carries(i, "bar") /\ queue[i].bar = Len(results) + 1
  BY <1>1, <1>2, <1>3 DEF BarsQueued
<1>5. i = 1
  <2>1. SUFFICES ASSUME i # 1 PROVE FALSE
    OBVIOUS
  <2>2. 1 \in 1 .. i - 1
    BY <1>1, <2>1
  <2>3. queue[1].bar < queue[i].bar
    BY <1>2, <1>4, <2>2 DEF BarsQueued
  <2> QED
    BY <1>1, <1>3, <1>4, <2>3
<1> QED
  BY <1>1, <1>2, <1>3, <1>4, <1>5

-----------------------------------------------------------------------------
(* The steps as the file sees them.                                        *)

\* Every step of the asynchronous store is one of BarStore, or none.
LEMMA StepIsStoreStep ==
    ASSUME AsyncTypeOK, ThreadsOrdered, BarsQueued, [AsyncNext]_asyncVars
    PROVE  [StoreNext]_storeVars
<1>1. CASE WorkerOpen
  <2>1. worker = "starting" /\ OpenStore
    BY <1>1 DEF WorkerOpen
  <2>2. ~isOpen /\ sessions < MaxSessions
    BY <2>1 DEF AsyncTypeOK, ThreadsOrdered
  <2> QED
    BY <2>1, <2>2 DEF StoreNext, Open
<1>2. CASE WorkerAppend
  <2>1. Receives("bar") /\ worker = "running"
    BY <1>2 DEF WorkerAppend, Receives
  <2>2. Head(queue).bar = Len(results) + 1 /\ Len(results) < MaxBars
    BY <2>1, NextBar
  <2>3. Len(results) + 1 <= MaxBars /\ isOpen
    BY <2>1, <2>2, QueueFacts DEF AsyncTypeOK
  <2>4. AppendOk(Len(results) + 1) \/ AppendFails(Len(results) + 1)
    BY <1>2, <2>2 DEF WorkerAppend
  <2> QED
    BY <2>3, <2>4 DEF StoreNext, AppendBar
<1>3. CASE WorkerFlush \/ WorkerShutdown
  <2>1. worker = "running" /\ (FlushOk \/ FlushFails)
    BY <1>3 DEF WorkerFlush, WorkerShutdown, Receives
  <2> QED
    BY <2>1 DEF StoreNext, Flush, AsyncTypeOK
<1>4. CASE WorkerExit
  <2>1. worker \in {"failing", "finishing"} /\ DropStore
    BY <1>4 DEF WorkerExit
  <2> QED
    BY <2>1 DEF StoreNext, Drop, AsyncTypeOK
<1>5. CASE CrashProcess
  BY <1>5 DEF CrashProcess, StoreNext, Crash
<1>6. CASE WorkerOpenFails \/ CloseSend \/ CloseAnswered \/ CloseJoin \/ Reopen
  BY <1>6 DEF WorkerOpenFails, CloseSend, CloseAnswered, CloseJoin, Reopen
<1>7. CASE \E c \in Callers : Enqueue(c) \/ FlushSend(c) \/ FlushRefused(c)
  BY <1>7 DEF Enqueue, FlushSend, FlushRefused
<1>8. CASE UNCHANGED asyncVars
  BY <1>8 DEF asyncVars
<1> QED
  BY <1>1, <1>2, <1>3, <1>4, <1>5, <1>6, <1>7, <1>8 DEF AsyncNext, WorkerNext, OwnerNext

-----------------------------------------------------------------------------
(* The invariant of the channel.                                           *)

\* The worker takes the first message out.
LEMMA PopKeeps ==
    ASSUME ChannelInv, NEW kind, Receives(kind),
           UNCHANGED <<promised, inherited, accepted, owner>>,
           \/ kind = "bar" /\ Len(results') = Len(results) + 1
           \/ kind # "bar" /\ Len(results') = Len(results),
           \A c \in Callers : ack'[c] = ack[c] \/ (kind = "flush" /\ c = queue[1].by)
    PROVE  BarsQueued' /\ FlushesQueued' /\ ShutdownLast'
<1>1. AsyncTypeOK /\ ThreadsOrdered /\ BarsQueued /\ FlushesQueued /\ ShutdownLast
  BY DEF ChannelInv
<1>2. /\ Len(queue) \in Nat /\ Len(results) \in Nat /\ accepted \in Nat
      /\ \A i \in 1 .. Len(queue) :
             /\ Carries(i, "bar") => queue[i].bar \in Nat
             /\ Carries(i, "flush") => queue[i].by \in Callers
      /\ \A c \in Callers : promised[c] \in Nat
  BY <1>1, QueueFacts
<1>3. /\ Len(queue') = Len(queue) - 1 /\ Len(queue) >= 1
      /\ \A i \in 1 .. Len(queue') : queue'[i] = queue[i + 1]
      /\ Carries(1, kind) /\ worker = "running"
  BY <1>1, ReceivesFacts DEF Carries
<1>4. \A i \in 1 .. Len(queue') :
          /\ i + 1 \in 2 .. Len(queue) /\ i + 1 \in 1 .. Len(queue)
          /\ \A k : queue'[i].kind = k <=> Carries(i + 1, k)
  BY <1>2, <1>3 DEF Carries
<1>5. /\ \A i \in 1 .. Len(queue) : Carries(i, "bar") =>
             /\ queue[i].bar \in Len(results) + 1 .. accepted
             /\ \A j \in 1 .. i - 1 : Carries(j, "bar") => queue[j].bar < queue[i].bar
      /\ \A n \in Len(results) + 1 .. accepted :
             \E i \in 1 .. Len(queue) : Carries(i, "bar") /\ queue[i].bar = n
  BY <1>1, <1>3 DEF BarsQueued
<1>6. kind = "bar" => queue[1].bar = Len(results) + 1
  BY <1>1, NextBar, ReceivesFacts
<1>7. BarsQueued'
  <2>1. ASSUME NEW i \in 1 .. Len(queue'), queue'[i].kind = "bar"
        PROVE  /\ queue'[i].bar \in Len(results') + 1 .. accepted
               /\ \A j \in 1 .. i - 1 : queue'[j].kind = "bar" => queue'[j].bar < queue'[i].bar
    <3>1. /\ Carries(i + 1, "bar") /\ i + 1 \in 1 .. Len(queue) /\ queue'[i] = queue[i + 1]
          /\ 1 \in 1 .. (i + 1) - 1
      BY <1>2, <1>3, <1>4, <2>1
    <3>2. queue[i + 1].bar \in Len(results) + 1 .. accepted
      BY <1>5, <3>1
    <3>3. queue[i + 1].bar \in Len(results') + 1 .. accepted
      <4>1. CASE kind = "bar"
        <5>1. queue[1].bar < queue[i + 1].bar
          BY <1>3, <1>5, <3>1, <4>1
        <5> QED
          BY <1>2, <1>6, <3>2, <4>1, <5>1
      <4>2. CASE kind # "bar"
        BY <3>2, <4>2
      <4> QED
        BY <4>1, <4>2
    <3>4. ASSUME NEW j \in 1 .. i - 1, queue'[j].kind = "bar"
          PROVE  queue'[j].bar < queue'[i].bar
      <4>1. j \in 1 .. Len(queue') /\ j + 1 \in 1 .. (i + 1) - 1
        BY <1>2, <1>3
      <4>2. Carries(j + 1, "bar") /\ queue'[j] = queue[j + 1]
        BY <1>3, <1>4, <3>4, <4>1
      <4> QED
        BY <1>5, <3>1, <4>1, <4>2
    <3> QED
      BY <3>1, <3>3, <3>4
  <2>2. ASSUME NEW n \in Len(results') + 1 .. accepted
        PROVE  \E i \in 1 .. Len(queue') : queue'[i].kind = "bar" /\ queue'[i].bar = n
    <3>1. n \in Len(results) + 1 .. accepted
      BY <1>2
    <3>2. PICK i \in 1 .. Len(queue) : Carries(i, "bar") /\ queue[i].bar = n
      BY <1>5, <3>1
    <3>3. i # 1
      <4>1. CASE kind = "bar"
        BY <1>2, <1>6, <3>2, <4>1
      <4>2. CASE kind # "bar"
        BY <1>3, <3>2, <4>2 DEF Carries
      <4> QED
        BY <4>1, <4>2
    <3>4. i - 1 \in 1 .. Len(queue') /\ (i - 1) + 1 = i
      BY <1>2, <1>3, <3>3
    <3>5. queue'[i - 1] = queue[i]
      BY <1>3, <3>4
    <3> QED
      BY <3>2, <3>4, <3>5 DEF Carries
  <2> QED
    BY <2>1, <2>2 DEF BarsQueued, Carries
<1>8. FlushesQueued'
  <2>1. ASSUME NEW i \in 1 .. Len(queue'), queue'[i].kind = "flush"
        PROVE  /\ ack'[queue'[i].by] = "waiting"
               /\ \A j \in i + 1 .. Len(queue') :
                      /\ queue'[j].kind = "bar" => queue'[j].bar > promised[queue'[i].by]
                      /\ queue'[j].kind = "flush" => queue'[j].by # queue'[i].by
    <3>1. /\ Carries(i + 1, "flush") /\ i + 1 \in 1 .. Len(queue) /\ queue'[i] = queue[i + 1]
          /\ i + 1 \in 1 + 1 .. Len(queue) /\ 1 \in 1 .. Len(queue)
      BY <1>2, <1>3, <1>4, <2>1
    <3>2. queue[i + 1].by \in Callers /\ ack[queue[i + 1].by] = "waiting"
      BY <1>1, <1>2, <3>1 DEF FlushesQueued
    <3>3. kind = "flush" => queue[i + 1].by # queue[1].by
      BY <1>1, <1>3, <3>1 DEF FlushesQueued
    <3>4. ASSUME NEW j \in i + 1 .. Len(queue')
          PROVE  /\ queue'[j].kind = "bar" => queue'[j].bar > promised[queue'[i].by]
                 /\ queue'[j].kind = "flush" => queue'[j].by # queue'[i].by
      <4>1. j \in 1 .. Len(queue') /\ j + 1 \in (i + 1) + 1 .. Len(queue)
        BY <1>2, <1>3
      <4>2. /\ queue'[j] = queue[j + 1]
            /\ \A k : queue'[j].kind = k <=> Carries(j + 1, k)
        BY <1>3, <1>4, <4>1
      <4> QED
        BY <1>1, <3>1, <4>1, <4>2 DEF FlushesQueued
    <3> QED
      BY <3>1, <3>2, <3>3, <3>4
  <2> QED
    BY <1>1, <2>1 DEF FlushesQueued, Carries
<1>9. ShutdownLast'
  BY <1>1, <1>2, <1>3, <1>4 DEF ShutdownLast, Carries
<1> QED
  BY <1>7, <1>8, <1>9

\* The receiver is gone, and with it everything that was in the channel.
LEMMA ClearKeeps ==
    ASSUME queue' = <<>>, worker' \notin {"starting", "running"},
           \A c \in Callers : promised'[c] <= accepted'
    PROVE  BarsQueued' /\ FlushesQueued' /\ ShutdownLast'
<1>1. \A i \in 1 .. Len(queue') : FALSE
  OBVIOUS
<1> QED
  BY <1>1 DEF BarsQueued, FlushesQueued, ShutdownLast

\* enqueue_bar puts the next bar behind all others.
LEMMA EnqueueKeeps ==
    ASSUME ChannelInv, StoreTypeOK', NEW c \in Callers, Enqueue(c)
    PROVE  ChannelInv'
<1> DEFINE m == [kind |-> "bar", bar |-> accepted + 1]
<1>1. AsyncTypeOK /\ ThreadsOrdered /\ BarsQueued /\ FlushesQueued /\ ShutdownLast
  BY DEF ChannelInv
<1>2. /\ Len(queue) \in Nat /\ Len(results) \in Nat /\ accepted \in Nat /\ MaxBars \in Nat
      /\ inherited \in Nat
      /\ \A i \in 1 .. Len(queue) :
             /\ Carries(i, "bar") => queue[i].bar \in Nat
             /\ Carries(i, "flush") => queue[i].by \in Callers
      /\ \A d \in Callers : promised[d] \in Nat
  BY <1>1, QueueFacts
<1>3. /\ owner = "open" /\ accepted < MaxBars /\ Send(m) /\ accepted' = accepted + 1
      /\ UNCHANGED <<storeVars, worker, ack, promised, inherited, owner, answer, closed>>
  BY DEF Enqueue, Idle
<1>4. m \in Message /\ m.kind = "bar" /\ m.bar = accepted + 1
  <2>1. accepted + 1 \in BarIds
    BY <1>2, <1>3 DEF BarIds
  <2> QED
    BY <2>1, MessageKinds
<1> HIDE DEF m
<1>5. /\ queue' \in Seq(Message) /\ Len(queue') = Len(queue) + 1 /\ Len(queue') <= Capacity
      /\ \A i \in 1 .. Len(queue) : queue'[i] = queue[i]
      /\ queue'[Len(queue) + 1] = m
      /\ worker \notin {"finished", "failed"}
  BY <1>1, <1>3, <1>4, SendFacts
<1>6. \A i \in 1 .. Len(queue') : i \in 1 .. Len(queue) \/ i = Len(queue) + 1
  BY <1>2, <1>5
<1>7. UNCHANGED <<isOpen, sessions, results>>
  BY <1>3 DEF storeVars
<1>8. AsyncTypeOK'
  <2>1. accepted' \in 0 .. MaxBars /\ inherited \in 0 .. accepted'
    BY <1>1, <1>2, <1>3 DEF AsyncTypeOK
  <2> QED
    BY <1>1, <1>3, <1>5, <1>7, <2>1 DEF AsyncTypeOK
<1>9. ThreadsOrdered'
  BY <1>1, <1>2, <1>3, <1>5, <1>7 DEF ThreadsOrdered
<1>10. BarsQueued'
  <2> SUFFICES ASSUME worker \in {"starting", "running"}
               PROVE  /\ \A i \in 1 .. Len(queue') : queue'[i].kind = "bar" =>
                             /\ queue'[i].bar \in Len(results) + 1 .. accepted + 1
                             /\ \A j \in 1 .. i - 1 : queue'[j].kind = "bar" =>
                                    queue'[j].bar < queue'[i].bar
                      /\ \A n \in Len(results) + 1 .. accepted + 1 :
                             \E i \in 1 .. Len(queue') : queue'[i].kind = "bar" /\ queue'[i].bar = n
    BY <1>3, <1>7 DEF BarsQueued, Carries
  <2>1. \A i \in 1 .. Len(queue) : queue[i].kind = "bar" =>
            /\ queue[i].bar \in Len(results) + 1 .. accepted
            /\ \A j \in 1 .. i - 1 : queue[j].kind = "bar" => queue[j].bar < queue[i].bar
    BY <1>1 DEF BarsQueued, Carries
  <2>2. \A n \in Len(results) + 1 .. accepted :
            \E i \in 1 .. Len(queue) : queue[i].kind = "bar" /\ queue[i].bar = n
    BY <1>1 DEF BarsQueued, Carries
  <2>3. ASSUME NEW i \in 1 .. Len(queue'), queue'[i].kind = "bar"
        PROVE  /\ queue'[i].bar \in Len(results) + 1 .. accepted + 1
               /\ \A j \in 1 .. i - 1 : queue'[j].kind = "bar" => queue'[j].bar < queue'[i].bar
    <3>1. CASE i \in 1 .. Len(queue)
      <4>1. \A j \in 1 .. i - 1 : j \in 1 .. Len(queue)
        BY <1>2, <3>1
      <4> QED
        BY <1>2, <1>5, <2>1, <2>3, <3>1, <4>1
    <3>2. CASE i = Len(queue) + 1
      <4>1. Len(results) <= accepted
        BY <1>1 DEF ThreadsOrdered
      <4>2. \A j \in 1 .. i - 1 : j \in 1 .. Len(queue)
        BY <1>2, <3>2
      <4> QED
        BY <1>2, <1>4, <1>5, <2>1, <3>2, <4>1, <4>2
    <3> QED
      BY <1>6, <3>1, <3>2
  <2>4. ASSUME NEW n \in Len(results) + 1 .. accepted + 1
        PROVE  \E i \in 1 .. Len(queue') : queue'[i].kind = "bar" /\ queue'[i].bar = n
    <3>1. CASE n = accepted + 1
      BY <1>2, <1>4, <1>5, <3>1
    <3>2. CASE n # accepted + 1
      <4>1. n \in Len(results) + 1 .. accepted
        BY <1>2, <3>2
      <4>2. PICK i \in 1 .. Len(queue) : queue[i].kind = "bar" /\ queue[i].bar = n
        BY <2>2, <4>1
      <4>3. i \in 1 .. Len(queue')
        BY <1>2, <1>5
      <4> QED
        BY <1>5, <4>2, <4>3
    <3> QED
      BY <3>1, <3>2
  <2> QED
    BY <2>3, <2>4
<1>11. FlushesQueued'
  <2>1. \A d \in Callers : promised[d] <= accepted /\ promised[d] <= accepted + 1
                           /\ accepted + 1 > promised[d]
    BY <1>1, <1>2 DEF FlushesQueued
  <2>2. ASSUME NEW i \in 1 .. Len(queue'), queue'[i].kind = "flush"
        PROVE  /\ ack[queue'[i].by] = "waiting"
               /\ \A j \in i + 1 .. Len(queue') :
                      /\ queue'[j].kind = "bar" => queue'[j].bar > promised[queue'[i].by]
                      /\ queue'[j].kind = "flush" => queue'[j].by # queue'[i].by
    <3>1. i \in 1 .. Len(queue) /\ queue'[i] = queue[i]
      BY <1>4, <1>5, <1>6, <2>2
    <3>2. queue[i].by \in Callers /\ ack[queue[i].by] = "waiting"
      BY <1>1, <1>2, <2>2, <3>1 DEF FlushesQueued, Carries
    <3>3. ASSUME NEW j \in i + 1 .. Len(queue')
          PROVE  /\ queue'[j].kind = "bar" => queue'[j].bar > promised[queue'[i].by]
                 /\ queue'[j].kind = "flush" => queue'[j].by # queue'[i].by
      <4>1. CASE j = Len(queue) + 1
        BY <1>4, <1>5, <2>1, <3>1, <3>2, <4>1
      <4>2. CASE j # Len(queue) + 1
        <5>1. j \in i + 1 .. Len(queue) /\ j \in 1 .. Len(queue)
          BY <1>2, <1>5, <3>1, <4>2
        <5> QED
          BY <1>1, <1>5, <2>2, <3>1, <5>1 DEF FlushesQueued, Carries
      <4> QED
        BY <4>1, <4>2
    <3> QED
      BY <3>1, <3>2, <3>3
  <2> QED
    BY <1>3, <2>1, <2>2 DEF FlushesQueued, Carries
<1>12. ShutdownLast'
  BY <1>1, <1>3, <1>4, <1>5, <1>6 DEF ShutdownLast, Carries
<1> QED
  BY <1>8, <1>9, <1>10, <1>11, <1>12 DEF ChannelInv

\* A message that carries no bar changes nothing for the bars.
LEMMA PushKeepsBars ==
    ASSUME ChannelInv, NEW m \in Message, m.kind # "bar", Send(m),
           UNCHANGED <<results, accepted, worker>>
    PROVE  BarsQueued'
<1>1. AsyncTypeOK /\ BarsQueued
  BY DEF ChannelInv
<1>2. Len(queue) \in Nat
  BY <1>1, QueueFacts
<1>3. /\ Len(queue') = Len(queue) + 1
      /\ \A i \in 1 .. Len(queue) : queue'[i] = queue[i]
      /\ queue'[Len(queue) + 1] = m
  BY <1>1, SendFacts
<1>4. \A i \in 1 .. Len(queue') : i \in 1 .. Len(queue) \/ i = Len(queue) + 1
  BY <1>2, <1>3
<1>5. \A i \in 1 .. Len(queue) :
          /\ i \in 1 .. Len(queue')
          /\ \A j \in 1 .. i - 1 : j \in 1 .. Len(queue)
  BY <1>2, <1>3
<1>6. \A i \in 1 .. Len(queue') : queue'[i].kind = "bar" => i \in 1 .. Len(queue)
  BY <1>3, <1>4
<1> SUFFICES ASSUME worker \in {"starting", "running"}
             PROVE  /\ \A i \in 1 .. Len(queue') : queue'[i].kind = "bar" =>
                           /\ queue'[i].bar \in Len(results) + 1 .. accepted
                           /\ \A j \in 1 .. i - 1 : queue'[j].kind = "bar" =>
                                  queue'[j].bar < queue'[i].bar
                    /\ \A n \in Len(results) + 1 .. accepted :
                           \E i \in 1 .. Len(queue') : queue'[i].kind = "bar" /\ queue'[i].bar = n
  BY DEF BarsQueued, Carries
<1>7. /\ \A i \in 1 .. Len(queue) : queue[i].kind = "bar" =>
            /\ queue[i].bar \in Len(results) + 1 .. accepted
            /\ \A j \in 1 .. i - 1 : queue[j].kind = "bar" => queue[j].bar < queue[i].bar
      /\ \A n \in Len(results) + 1 .. accepted :
            \E i \in 1 .. Len(queue) : queue[i].kind = "bar" /\ queue[i].bar = n
  BY <1>1 DEF BarsQueued, Carries
<1>8. ASSUME NEW i \in 1 .. Len(queue'), queue'[i].kind = "bar"
      PROVE  /\ queue'[i].bar \in Len(results) + 1 .. accepted
             /\ \A j \in 1 .. i - 1 : queue'[j].kind = "bar" => queue'[j].bar < queue'[i].bar
  BY <1>3, <1>5, <1>6, <1>7, <1>8
<1>9. ASSUME NEW n \in Len(results) + 1 .. accepted
      PROVE  \E i \in 1 .. Len(queue') : queue'[i].kind = "bar" /\ queue'[i].bar = n
  <2>1. PICK i \in 1 .. Len(queue) : queue[i].kind = "bar" /\ queue[i].bar = n
    BY <1>7
  <2> QED
    BY <1>3, <1>5, <2>1
<1> QED
  BY <1>8, <1>9

\* flush puts its message behind the bars that it promises.
LEMMA FlushSendKeeps ==
    ASSUME ChannelInv, StoreTypeOK', NEW c \in Callers, FlushSend(c)
    PROVE  ChannelInv'
<1> DEFINE m == [kind |-> "flush", by |-> c]
<1>1. AsyncTypeOK /\ ThreadsOrdered /\ BarsQueued /\ FlushesQueued /\ ShutdownLast
  BY DEF ChannelInv
<1>2. /\ Len(queue) \in Nat /\ accepted \in Nat /\ accepted <= MaxBars
      /\ \A i \in 1 .. Len(queue) : Carries(i, "flush") => queue[i].by \in Callers
  BY <1>1, QueueFacts
<1>3. /\ owner = "open" /\ ack[c] # "waiting" /\ Send(m)
      /\ ack' = [ack EXCEPT ![c] = "waiting"] /\ promised' = [promised EXCEPT ![c] = accepted]
      /\ UNCHANGED <<storeVars, worker, inherited, accepted, owner, answer, closed>>
  BY DEF FlushSend, Idle
<1>4. m \in Message /\ m.kind = "flush" /\ m.by = c
  BY MessageKinds
<1> HIDE DEF m
<1>5. /\ queue' \in Seq(Message) /\ Len(queue') = Len(queue) + 1 /\ Len(queue') <= Capacity
      /\ \A i \in 1 .. Len(queue) : queue'[i] = queue[i]
      /\ queue'[Len(queue) + 1] = m
      /\ worker \notin {"finished", "failed"}
  BY <1>1, <1>3, <1>4, SendFacts
<1>6. \A i \in 1 .. Len(queue') : i \in 1 .. Len(queue) \/ i = Len(queue) + 1
  BY <1>2, <1>5
<1>7. UNCHANGED <<isOpen, sessions, results>>
  BY <1>3 DEF storeVars
<1>8. /\ ack' \in [Callers -> Answers \cup {"waiting"}] /\ promised' \in [Callers -> 0 .. MaxBars]
      /\ ack'[c] = "waiting" /\ promised'[c] = accepted
      /\ \A d \in Callers \ {c} : ack'[d] = ack[d] /\ promised'[d] = promised[d]
  <2>1. accepted \in 0 .. MaxBars
    BY <1>1 DEF AsyncTypeOK
  <2> QED
    BY <1>1, <1>3, <2>1 DEF AsyncTypeOK
<1>9. AsyncTypeOK'
  BY <1>1, <1>3, <1>5, <1>7, <1>8 DEF AsyncTypeOK
<1>10. ThreadsOrdered'
  BY <1>1, <1>3, <1>5, <1>7 DEF ThreadsOrdered
<1>11. BarsQueued'
  BY <1>3, <1>4, <1>7, PushKeepsBars
<1>12. FlushesQueued'
  <2>1. \A d \in Callers : promised'[d] <= accepted
    BY <1>1, <1>2, <1>8 DEF FlushesQueued
  <2>2. ASSUME NEW i \in 1 .. Len(queue'), queue'[i].kind = "flush"
        PROVE  /\ ack'[queue'[i].by] = "waiting"
               /\ \A j \in i + 1 .. Len(queue') :
                      /\ queue'[j].kind = "bar" => queue'[j].bar > promised'[queue'[i].by]
                      /\ queue'[j].kind = "flush" => queue'[j].by # queue'[i].by
    <3>1. CASE i = Len(queue) + 1
      BY <1>2, <1>4, <1>5, <1>8, <3>1
    <3>2. CASE i \in 1 .. Len(queue)
      <4>1. Carries(i, "flush") /\ queue'[i] = queue[i]
        BY <1>5, <2>2, <3>2 DEF Carries
      <4>2. queue[i].by \in Callers \ {c} /\ ack[queue[i].by] = "waiting"
        BY <1>1, <1>2, <1>3, <3>2, <4>1 DEF FlushesQueued
      <4>3. ASSUME NEW j \in i + 1 .. Len(queue')
            PROVE  /\ queue'[j].kind = "bar" => queue'[j].bar > promised'[queue'[i].by]
                   /\ queue'[j].kind = "flush" => queue'[j].by # queue'[i].by
        <5>1. CASE j = Len(queue) + 1
          BY <1>4, <1>5, <4>1, <4>2, <5>1
        <5>2. CASE j # Len(queue) + 1
          <6>1. j \in i + 1 .. Len(queue) /\ j \in 1 .. Len(queue)
            BY <1>2, <1>5, <3>2, <5>2
          <6>2. queue'[j] = queue[j]
            BY <1>5, <6>1
          <6> QED
            BY <1>1, <1>8, <3>2, <4>1, <4>2, <6>1, <6>2 DEF FlushesQueued, Carries
        <5> QED
          BY <5>1, <5>2
      <4> QED
        BY <1>8, <4>1, <4>2, <4>3
    <3> QED
      BY <1>6, <3>1, <3>2
  <2> QED
    BY <1>3, <2>1, <2>2 DEF FlushesQueued, Carries
<1>13. ShutdownLast'
  BY <1>1, <1>3, <1>4, <1>5, <1>6 DEF ShutdownLast, Carries
<1> QED
  BY <1>9, <1>10, <1>11, <1>12, <1>13 DEF ChannelInv

\* A flush that is refused touches only its caller.
LEMMA FlushRefusedKeeps ==
    ASSUME ChannelInv, StoreTypeOK', NEW c \in Callers, FlushRefused(c)
    PROVE  ChannelInv'
<1>1. AsyncTypeOK /\ ThreadsOrdered /\ BarsQueued /\ FlushesQueued /\ ShutdownLast
  BY DEF ChannelInv
<1>2. /\ owner = "open" /\ ack[c] # "waiting"
      /\ ack' = [ack EXCEPT ![c] = "error"] /\ promised' = [promised EXCEPT ![c] = accepted]
      /\ UNCHANGED <<storeVars, queue, worker, inherited, accepted, owner, answer, closed>>
  BY DEF FlushRefused, Idle
<1>3. UNCHANGED <<isOpen, sessions, results>>
  BY <1>2 DEF storeVars
<1>4. /\ \A i \in 1 .. Len(queue) : Carries(i, "flush") => queue[i].by \in Callers
      /\ accepted \in 0 .. MaxBars /\ accepted <= accepted
  BY <1>1, QueueFacts DEF AsyncTypeOK
<1>5. /\ ack' \in [Callers -> Answers \cup {"waiting"}] /\ promised' \in [Callers -> 0 .. MaxBars]
      /\ promised'[c] = accepted
      /\ \A d \in Callers \ {c} : ack'[d] = ack[d] /\ promised'[d] = promised[d]
  BY <1>1, <1>2, <1>4 DEF AsyncTypeOK, Answers
<1>6. AsyncTypeOK'
  BY <1>1, <1>2, <1>3, <1>5 DEF AsyncTypeOK
<1>7. ThreadsOrdered' /\ BarsQueued' /\ ShutdownLast'
  BY <1>1, <1>2, <1>3 DEF ThreadsOrdered, BarsQueued, ShutdownLast, Carries
<1>8. FlushesQueued'
  <2>1. \A d \in Callers : promised'[d] <= accepted
    BY <1>1, <1>4, <1>5 DEF FlushesQueued
  <2>2. \A i \in 1 .. Len(queue) : Carries(i, "flush") => queue[i].by \in Callers \ {c}
    BY <1>1, <1>2, <1>4 DEF FlushesQueued
  <2> QED
    BY <1>1, <1>2, <1>5, <2>1, <2>2 DEF FlushesQueued, Carries
<1> QED
  BY <1>6, <1>7, <1>8 DEF ChannelInv

\* The owner asks the worker to stop, or finds the channel full or closed.
LEMMA CloseSendKeeps ==
    ASSUME ChannelInv, StoreTypeOK', CloseSend
    PROVE  ChannelInv'
<1> DEFINE m == [kind |-> "shutdown"]
<1>1. AsyncTypeOK /\ ThreadsOrdered /\ BarsQueued /\ FlushesQueued /\ ShutdownLast
  BY DEF ChannelInv
<1>2. /\ owner = "open" /\ \A c \in Callers : ack[c] # "waiting"
      /\ UNCHANGED <<storeVars, worker, ack, promised, inherited, accepted, closed>>
      /\ owner' \in {"waiting", "joining"} /\ answer' \in {"none", "full", "ok"}
      /\ Send(m) \/ queue' = queue
  BY DEF CloseSend
<1>3. /\ Len(queue) \in Nat
      /\ \A i \in 1 .. Len(queue) : Carries(i, "flush") => queue[i].by \in Callers
  BY <1>1, QueueFacts
<1>4. UNCHANGED <<isOpen, sessions, results>>
  BY <1>2 DEF storeVars
<1>5. m \in Message /\ m.kind = "shutdown"
  BY MessageKinds
<1> HIDE DEF m
<1>6. \A i \in 1 .. Len(queue) : ~Carries(i, "flush") /\ ~Carries(i, "shutdown")
  BY <1>1, <1>2, <1>3 DEF FlushesQueued, ShutdownLast
<1>7. \/ queue' = queue
      \/ /\ queue' \in Seq(Message) /\ Len(queue') = Len(queue) + 1 /\ Len(queue') <= Capacity
         /\ \A i \in 1 .. Len(queue) : queue'[i] = queue[i]
         /\ queue'[Len(queue) + 1] = m
         /\ worker \notin {"finished", "failed"}
  BY <1>1, <1>2, <1>5, SendFacts
<1>8. \A i \in 1 .. Len(queue') :
          \/ i \in 1 .. Len(queue) /\ queue'[i] = queue[i]
          \/ i = Len(queue') /\ queue'[i] = m
  BY <1>3, <1>7
<1>9. AsyncTypeOK'
  <2>1. queue' \in Seq(Message) /\ Len(queue') <= Capacity
    BY <1>1, <1>7 DEF AsyncTypeOK
  <2>2. answer' \in Answers \cup {"full"}
    BY <1>2 DEF Answers
  <2> QED
    BY <1>1, <1>2, <1>4, <2>1, <2>2 DEF AsyncTypeOK
<1>10. ThreadsOrdered'
  BY <1>1, <1>2, <1>4, <1>7 DEF ThreadsOrdered
<1>11. BarsQueued'
  <2>1. CASE queue' = queue
    BY <1>1, <1>2, <1>4, <2>1 DEF BarsQueued, Carries
  <2>2. CASE Send(m)
    BY <1>2, <1>4, <1>5, <2>2, PushKeepsBars
  <2> QED
    BY <1>2, <2>1, <2>2
<1>12. FlushesQueued' /\ ShutdownLast'
  <2>1. \A i \in 1 .. Len(queue') :
            /\ queue'[i].kind # "flush"
            /\ queue'[i].kind = "shutdown" => i = Len(queue')
    BY <1>5, <1>6, <1>8 DEF Carries
  <2>2. owner' # "open" /\ \A c \in Callers : promised'[c] <= accepted'
    BY <1>1, <1>2 DEF FlushesQueued
  <2> QED
    BY <2>1, <2>2 DEF FlushesQueued, ShutdownLast, Carries
<1> QED
  BY <1>9, <1>10, <1>11, <1>12 DEF ChannelInv

\* The owner waits and goes on.
LEMMA CloseWaitKeeps ==
    ASSUME ChannelInv, StoreTypeOK', CloseAnswered \/ CloseJoin
    PROVE  ChannelInv'
<1>1. AsyncTypeOK /\ ThreadsOrdered /\ BarsQueued /\ FlushesQueued /\ ShutdownLast
  BY DEF ChannelInv
<1>2. /\ owner # "open" /\ UNCHANGED <<storeVars, queue, worker, ack, promised, inherited, accepted, answer>>
      /\ \/ owner' = "joining" /\ closed' = closed
         \/ /\ owner' = "closed" /\ closed' \in {"ok", "error"}
            /\ worker \in {"finished", "failed"}
  BY DEF CloseAnswered, CloseJoin, Connected
<1>3. UNCHANGED <<isOpen, sessions, results>>
  BY <1>2 DEF storeVars
<1>4. AsyncTypeOK'
  BY <1>1, <1>2, <1>3 DEF AsyncTypeOK
<1>5. ThreadsOrdered' /\ BarsQueued' /\ FlushesQueued' /\ ShutdownLast'
  BY <1>1, <1>2, <1>3 DEF ThreadsOrdered, BarsQueued, FlushesQueued, ShutdownLast, Carries
<1> QED
  BY <1>4, <1>5 DEF ChannelInv

LEMMA WorkerOpenKeeps ==
    ASSUME ChannelInv, StoreTypeOK', WorkerOpen
    PROVE  ChannelInv'
<1>1. AsyncTypeOK /\ ThreadsOrdered /\ BarsQueued /\ FlushesQueued /\ ShutdownLast
  BY DEF ChannelInv
<1>2. /\ worker = "starting" /\ worker' = "running" /\ isOpen' = TRUE /\ results' = results
      /\ UNCHANGED <<queue, ack, promised, inherited, accepted, owner, answer, closed>>
  BY DEF WorkerOpen, OpenStore
<1>3. AsyncTypeOK'
  BY <1>1, <1>2 DEF AsyncTypeOK
<1>4. ThreadsOrdered' /\ BarsQueued' /\ FlushesQueued' /\ ShutdownLast'
  BY <1>1, <1>2 DEF ThreadsOrdered, BarsQueued, FlushesQueued, ShutdownLast, Carries
<1> QED
  BY <1>3, <1>4 DEF ChannelInv

LEMMA WorkerAppendKeeps ==
    ASSUME ChannelInv, StoreTypeOK', WorkerAppend
    PROVE  ChannelInv'
<1>1. AsyncTypeOK /\ ThreadsOrdered /\ BarsQueued /\ FlushesQueued /\ ShutdownLast
  BY DEF ChannelInv
<1>2. Receives("bar") /\ worker = "running" /\ worker' \in {"running", "failing"}
  BY <1>1, ReceivesFacts DEF WorkerAppend
<1>3. Head(queue).bar = Len(results) + 1 /\ Len(results) < MaxBars /\ Len(results) + 1 <= accepted
      /\ Len(results) \in Nat
  BY <1>1, <1>2, NextBar, QueueFacts
<1>4. /\ Returned(Len(results) + 1, sessions) \/ Returned(Len(results) + 1, 0)
      /\ UNCHANGED <<isOpen, sessions, ack, promised, inherited, accepted, owner, answer, closed>>
  BY <1>2, <1>3 DEF WorkerAppend, AppendOk, AppendFails
<1>5. StoreTypeOK /\ sessions \in 0 .. MaxSessions /\ 0 \in 0 .. MaxSessions
  BY <1>1, BarStoreAssumption DEF AsyncTypeOK, StoreTypeOK
<1>6. Len(results') = Len(results) + 1
  BY <1>3, <1>4, <1>5, ReturnedAppends
<1>7. queue' \in Seq(Message) /\ Len(queue') <= Capacity
  BY <1>1, <1>2, ReceivesFacts
<1>8. AsyncTypeOK'
  BY <1>1, <1>2, <1>4, <1>7 DEF AsyncTypeOK
<1>9. ThreadsOrdered'
  <2>1. inherited <= Len(results')
    BY <1>1, <1>3, <1>6, QueueFacts DEF ThreadsOrdered
  <2> QED
    BY <1>1, <1>2, <1>3, <1>4, <1>6, <2>1 DEF ThreadsOrdered
<1>10. BarsQueued' /\ FlushesQueued' /\ ShutdownLast'
  BY <1>2, <1>4, <1>6, PopKeeps
<1> QED
  BY <1>8, <1>9, <1>10 DEF ChannelInv

LEMMA WorkerFlushKeeps ==
    ASSUME ChannelInv, StoreTypeOK', WorkerFlush
    PROVE  ChannelInv'
<1>1. AsyncTypeOK /\ ThreadsOrdered /\ BarsQueued /\ FlushesQueued /\ ShutdownLast
  BY DEF ChannelInv
<1>2. /\ Receives("flush") /\ worker = "running" /\ 1 \in 1 .. Len(queue)
      /\ Head(queue) = queue[1] /\ Carries(1, "flush")
      /\ queue' \in Seq(Message) /\ Len(queue') <= Capacity
  BY <1>1, ReceivesFacts, QueueFacts DEF WorkerFlush, Carries
<1>3. queue[1].by \in Callers
  BY <1>1, <1>2, QueueFacts
<1>4. /\ \/ ack' = [ack EXCEPT ![queue[1].by] = "ok"]
         \/ ack' = [ack EXCEPT ![queue[1].by] = "error"]
      /\ UNCHANGED <<isOpen, sessions, results, worker, promised, inherited, accepted, owner,
                     answer, closed>>
  BY <1>2 DEF WorkerFlush, FlushOk, FlushFails
<1>5. /\ ack' \in [Callers -> Answers \cup {"waiting"}]
      /\ \A c \in Callers : ack'[c] = ack[c] \/ c = queue[1].by
  BY <1>1, <1>3, <1>4 DEF AsyncTypeOK, Answers
<1>6. AsyncTypeOK'
  BY <1>1, <1>2, <1>4, <1>5 DEF AsyncTypeOK
<1>7. ThreadsOrdered'
  BY <1>1, <1>2, <1>4 DEF ThreadsOrdered
<1>8. BarsQueued' /\ FlushesQueued' /\ ShutdownLast'
  BY <1>2, <1>4, <1>5, PopKeeps
<1> QED
  BY <1>6, <1>7, <1>8 DEF ChannelInv

LEMMA WorkerShutdownKeeps ==
    ASSUME ChannelInv, StoreTypeOK', WorkerShutdown
    PROVE  ChannelInv'
<1>1. AsyncTypeOK /\ ThreadsOrdered /\ BarsQueued /\ FlushesQueued /\ ShutdownLast
  BY DEF ChannelInv
<1>2. /\ Receives("shutdown") /\ worker = "running" /\ 1 \in 1 .. Len(queue)
      /\ Carries(1, "shutdown")
      /\ queue' \in Seq(Message) /\ Len(queue') <= Capacity
  BY <1>1, ReceivesFacts, QueueFacts DEF WorkerShutdown, Carries
<1>3. /\ worker' = "finishing" /\ answer' \in {"ok", "error"}
      /\ UNCHANGED <<isOpen, sessions, results, ack, promised, inherited, accepted, owner, closed>>
  BY DEF WorkerShutdown, FlushOk, FlushFails
<1>4. owner # "open"
  BY <1>1, <1>2 DEF ShutdownLast
<1>5. AsyncTypeOK'
  BY <1>1, <1>2, <1>3 DEF AsyncTypeOK, Answers
<1>6. ThreadsOrdered'
  BY <1>1, <1>2, <1>3, <1>4 DEF ThreadsOrdered
<1>7. BarsQueued' /\ FlushesQueued' /\ ShutdownLast'
  BY <1>2, <1>3, PopKeeps
<1> QED
  BY <1>5, <1>6, <1>7 DEF ChannelInv

\* The worker ends, with an error or in order.
LEMMA WorkerEndKeeps ==
    ASSUME ChannelInv, StoreTypeOK', WorkerOpenFails \/ WorkerExit
    PROVE  ChannelInv'
<1>1. AsyncTypeOK /\ ThreadsOrdered /\ BarsQueued /\ FlushesQueued /\ ShutdownLast
  BY DEF ChannelInv
<1>2. /\ \/ worker = "starting" /\ worker' = "failed" /\ isOpen' = isOpen
         \/ worker = "failing" /\ worker' = "failed" /\ isOpen' = FALSE
         \/ worker = "finishing" /\ worker' = "finished" /\ isOpen' = FALSE
      /\ UNCHANGED <<sessions, results, promised, inherited, accepted, owner, closed>>
      /\ queue' = <<>> /\ DropReceiver
  BY DEF WorkerOpenFails, WorkerExit, DropReceiver, DropStore, storeVars
<1>3. ack' \in [Callers -> Answers \cup {"waiting"}] /\ answer' \in Answers \cup {"full"}
  BY <1>1, <1>2 DEF DropReceiver, AsyncTypeOK, Answers
<1>4. queue' \in Seq(Message) /\ Len(queue') <= Capacity
  BY <1>1, <1>2, QueueFacts
<1>5. AsyncTypeOK'
  BY <1>1, <1>2, <1>3, <1>4 DEF AsyncTypeOK
<1>6. ThreadsOrdered'
  BY <1>1, <1>2 DEF ThreadsOrdered
<1>7. BarsQueued' /\ FlushesQueued' /\ ShutdownLast'
  BY <1>1, <1>2, ClearKeeps DEF FlushesQueued
<1> QED
  BY <1>5, <1>6, <1>7 DEF ChannelInv

LEMMA CrashProcessKeeps ==
    ASSUME ChannelInv, StoreTypeOK', CrashProcess
    PROVE  ChannelInv'
<1>1. AsyncTypeOK /\ ThreadsOrdered /\ BarsQueued /\ FlushesQueued /\ ShutdownLast
  BY DEF ChannelInv
<1>2. /\ owner' = "down" /\ worker' = "finished" /\ queue' = <<>>
      /\ ack' = [c \in Callers |-> "none"] /\ promised' = [c \in Callers |-> 0]
      /\ answer' = "none" /\ closed' = "none" /\ isOpen' = FALSE
      /\ UNCHANGED <<inherited, accepted, results>>
  BY <1>1 DEF CrashProcess, Crash, storeVars, AsyncTypeOK, StoreTypeOK
<1>3. queue' \in Seq(Message) /\ Len(queue') <= Capacity /\ 0 \in 0 .. MaxBars /\ accepted \in Nat
  BY <1>1, <1>2, QueueFacts
<1>4. AsyncTypeOK'
  BY <1>1, <1>2, <1>3 DEF AsyncTypeOK, Answers
<1>5. ThreadsOrdered'
  BY <1>1, <1>2 DEF ThreadsOrdered
<1>6. \A c \in Callers : promised'[c] <= accepted'
  BY <1>2, <1>3
<1>7. BarsQueued' /\ FlushesQueued' /\ ShutdownLast'
  BY <1>2, <1>6, ClearKeeps
<1> QED
  BY <1>4, <1>5, <1>7 DEF ChannelInv

LEMMA ReopenKeeps ==
    ASSUME ChannelInv, StoreTypeOK', Reopen
    PROVE  ChannelInv'
<1>1. AsyncTypeOK /\ ThreadsOrdered /\ BarsQueued /\ FlushesQueued /\ ShutdownLast
  BY DEF ChannelInv
<1>2. /\ owner' = "open" /\ worker' = "starting" /\ sessions < MaxSessions
      /\ inherited' = Len(results) /\ accepted' = Len(results)
      /\ ack' = [c \in Callers |-> "none"] /\ promised' = [c \in Callers |-> 0]
      /\ answer' = "none" /\ closed' = "none"
      /\ UNCHANGED <<isOpen, sessions, results, queue>>
      /\ worker \in {"finished", "failed"} /\ queue = <<>>
  BY <1>1 DEF Reopen, storeVars, ThreadsOrdered
<1>3. /\ Len(results) \in 0 .. MaxBars /\ 0 \in 0 .. MaxBars /\ Len(results) \in 0 .. Len(results)
      /\ Len(results) \in Nat
  BY <1>1, QueueFacts DEF AsyncTypeOK, StoreTypeOK
<1>4. AsyncTypeOK'
  BY <1>1, <1>2, <1>3 DEF AsyncTypeOK, Answers
<1>5. ThreadsOrdered'
  BY <1>2, <1>3 DEF ThreadsOrdered
<1>6. BarsQueued' /\ FlushesQueued' /\ ShutdownLast'
  <2>1. /\ \A i \in 1 .. Len(queue') : FALSE
        /\ \A n \in Len(results') + 1 .. accepted' : FALSE
        /\ \A c \in Callers : promised'[c] <= accepted'
    BY <1>2, <1>3
  <2> QED
    BY <2>1 DEF BarsQueued, FlushesQueued, ShutdownLast
<1> QED
  BY <1>4, <1>5, <1>6 DEF ChannelInv

LEMMA InitChannelInv == AsyncInit => ChannelInv
<1> SUFFICES ASSUME AsyncInit PROVE ChannelInv
  OBVIOUS
<1>1. StoreTypeOK
  BY InitStoreInv DEF AsyncInit, StoreInv
<1>2. /\ queue = <<>> /\ worker = "starting" /\ isOpen = FALSE /\ sessions = 0 /\ results = <<>>
      /\ ack = [c \in Callers |-> "none"] /\ promised = [c \in Callers |-> 0]
      /\ inherited = 0 /\ accepted = 0 /\ owner = "open" /\ answer = "none" /\ closed = "none"
  BY DEF AsyncInit, StoreInit
<1>3. /\ queue \in Seq(Message) /\ Len(queue) = 0 /\ Len(results) = 0 /\ 0 <= Capacity
      /\ 0 \in 0 .. MaxBars /\ 0 \in 0 .. 0 /\ 0 < MaxSessions
  BY <1>2, BarStoreAssumption, AsyncAssumption
<1>4. AsyncTypeOK
  BY <1>1, <1>2, <1>3 DEF AsyncTypeOK, Answers
<1>5. ThreadsOrdered
  BY <1>2, <1>3 DEF ThreadsOrdered
<1>6. BarsQueued /\ FlushesQueued /\ ShutdownLast
  <2>1. /\ \A i \in 1 .. Len(queue) : FALSE
        /\ \A n \in Len(results) + 1 .. accepted : FALSE
        /\ \A c \in Callers : promised[c] <= accepted
    BY <1>2, <1>3
  <2> QED
    BY <2>1 DEF BarsQueued, FlushesQueued, ShutdownLast
<1> QED
  BY <1>4, <1>5, <1>6 DEF ChannelInv

LEMMA NextChannelInv == StoreInv /\ ChannelInv /\ [AsyncNext]_asyncVars => StoreInv' /\ ChannelInv'
<1> SUFFICES ASSUME StoreInv, ChannelInv, [AsyncNext]_asyncVars PROVE StoreInv' /\ ChannelInv'
  OBVIOUS
<1>1. [StoreNext]_storeVars
  BY StepIsStoreStep DEF ChannelInv
<1>2. StoreInv' /\ StoreTypeOK'
  BY <1>1, NextStoreInv DEF StoreInv
<1>3. CASE UNCHANGED asyncVars
  BY <1>2, <1>3 DEF asyncVars, channelVars, storeVars, ChannelInv, AsyncTypeOK, ThreadsOrdered,
                    BarsQueued, FlushesQueued, ShutdownLast, Carries
<1> QED
  BY <1>2, <1>3, EnqueueKeeps, FlushSendKeeps, FlushRefusedKeeps, CloseSendKeeps, CloseWaitKeeps,
     WorkerOpenKeeps, WorkerAppendKeeps, WorkerFlushKeeps, WorkerShutdownKeeps, WorkerEndKeeps,
     CrashProcessKeeps, ReopenKeeps
     DEF AsyncNext, WorkerNext, OwnerNext

\* The asynchronous store is typed as it should be, and its channel never holds more
\* than its capacity.
THEOREM AsyncTypeHolds == AsyncSpec => []AsyncTypeOK
<1>1. AsyncInit => StoreInv /\ ChannelInv
  BY InitStoreInv, InitChannelInv DEF AsyncInit
<1> QED
  BY <1>1, NextChannelInv, PTL DEF AsyncSpec, ChannelInv

\* Callers, channel, worker and processes add nothing to what can happen to the
\* file: the asynchronous store implements the store of one thread.
THEOREM ImplementsStore == AsyncSpec => StoreSpec
<1>1. AsyncInit => StoreInv /\ ChannelInv /\ StoreInit
  BY InitStoreInv, InitChannelInv DEF AsyncInit
<1>2. ChannelInv /\ [AsyncNext]_asyncVars => [StoreNext]_storeVars
  BY StepIsStoreStep DEF ChannelInv
<1> QED
  BY <1>1, <1>2, NextChannelInv, PTL DEF AsyncSpec, StoreSpec

\* What one process stored is a prefix of what its callers had accepted, and one
\* interruption costs at most one acknowledged record, however the threads interleave.
THEOREM AsyncStoreKeepsTheFile == AsyncSpec => [](NoHoles /\ LossPerInterruption)
BY ImplementsStore, StoreHasNoHoles, StoreLossBounded, PTL

-----------------------------------------------------------------------------
(* What flush and close promise: the proof.                                *)

\* What a file covers, a longer one that starts with it covers too.
LEMMA CoversStarts ==
    ASSUME NEW f \in Seq(Piece), NEW g \in Seq(Piece), Starts(f, g), NEW n, Covers(f, n)
    PROVE  Covers(g, n)
<1>1. Stored(f) \subseteq Stored(g)
  BY StoredStarts
<1>2. GluedIn(f) \subseteq GluedIn(g)
  <2>1. Len(f) \in Nat /\ Len(g) \in Nat /\ Len(f) <= Len(g)
        /\ \A i \in 1 .. Len(f) : g[i] = f[i]
    BY DEF Starts
  <2>2. \A i \in 2 .. Len(f) : i \in 1 .. Len(f) /\ i - 1 \in 1 .. Len(f) /\ i \in 2 .. Len(g)
    BY <2>1
  <2>3. \A i \in 2 .. Len(f) : f[i - 1].part = "head" =>
            i \in 2 .. Len(g) /\ g[i - 1].part = "head" /\ g[i].bar = f[i].bar
    BY <2>1, <2>2
  <2> QED
    BY <2>3 DEF GluedIn
<1> QED
  BY <1>1, <1>2 DEF Covers

\* With the file and where the process began unchanged, so is what is covered.
LEMMA CoversFewer ==
    ASSUME NEW f, NEW m \in Nat, NEW n \in Nat, m <= n, inherited \in Nat, Covers(f, n)
    PROVE  Covers(f, m)
<1>1. (inherited + 1) .. m \subseteq (inherited + 1) .. n
  OBVIOUS
<1> QED
  BY <1>1 DEF Covers

\* The file only grows, when the buffer is written out ...
LEMMA FlushGrows ==
    ASSUME StoreTypeOK, FlushOk \/ FlushFails \/ DropStore
    PROVE  file' \in Seq(Piece) /\ file \in Seq(Piece) /\ Starts(file, file')
<1>1. /\ buf \in Seq(Piece) /\ file \in Seq(Piece) /\ Len(buf) \in Nat
  BY ContentFacts
<1>2. CASE FlushOk
  <2>1. Spill(buf, Len(buf)) /\ Len(buf) \in 0 .. Len(buf)
    BY <1>1, <1>2 DEF FlushOk
  <2> QED
    BY <1>1, <2>1, SpillBuffer
<1>3. CASE FlushFails
  <2>1. PICK k \in 0 .. Len(buf) - 1 : Spill(buf, k)
    BY <1>3 DEF FlushFails
  <2>2. k \in 0 .. Len(buf)
    BY <1>1
  <2> QED
    BY <1>1, <2>1, <2>2, SpillBuffer
<1>4. CASE DropStore
  BY <1>1, <1>4, DropFacts
<1> QED
  BY <1>2, <1>3, <1>4

\* ... and when a record is appended.
LEMMA AppendGrows ==
    ASSUME StoreTypeOK, NEW n \in BarIds, AppendOk(n) \/ AppendFails(n)
    PROVE  file' \in Seq(Piece) /\ file \in Seq(Piece) /\ Starts(file, file')
<1>1. /\ buf \in Seq(Piece) /\ file \in Seq(Piece) /\ Len(buf) \in Nat
  BY ContentFacts
<1>2. CASE AppendOk(n)
  <2>1. Record(n) \in Seq(Piece) /\ Len(Record(n)) = 2
    BY RecordPieces
  <2>2. Len(buf \o Record(n)) = Len(buf) + 2
    <3> DEFINE r == Record(n)
    <3> HIDE DEF r
    <3>1. Len(buf \o r) = Len(buf) + Len(r)
      BY <1>1, <2>1, ConcatProperties, Zenon DEF r
    <3> QED
      BY <2>1, <3>1 DEF r
  <2>3. PICK k \in {0, Len(buf), Len(buf) + 1} : Spill(buf \o Record(n), k)
    BY <1>2 DEF AppendOk
  <2>4. k \in 0 .. Len(buf \o Record(n))
    BY <1>1, <2>2
  <2> QED
    BY <1>1, <2>1, <2>3, <2>4, SpillContent
<1>3. CASE AppendFails(n)
  BY <1>1, <1>3, AppendFailsContent
<1> QED
  BY <1>2, <1>3

\* A flush that succeeds leaves all of the content in the file.
LEMMA FlushOkContent ==
    ASSUME StoreTypeOK, FlushOk
    PROVE  file' = Content /\ Content' = Content
<1>1. /\ Len(buf) \in Nat
  BY ContentFacts
<1>2. Spill(buf, Len(buf)) /\ Len(buf) \in 0 .. Len(buf)
  BY <1>1 DEF FlushOk
<1> QED
  BY <1>2, SpillBuffer

\* A bar that is appended is covered: on a line of its own, or behind the
\* fragment of an earlier process if it is the first of this one.
LEMMA AppendCovers ==
    ASSUME StoreTypeOK, Len(results) < MaxBars, inherited \in Nat, inherited <= Len(results),
           Covers(Content, Len(results)), Dangling(Content) => Len(results) = inherited,
           AppendOk(Len(results) + 1), inherited' = inherited
    PROVE  Covers(Content', Len(results) + 1) /\ ~Dangling(Content')
<1> DEFINE n == Len(results) + 1
           C == Content
           D == Content'
<1>1. n \in BarIds /\ n \in Nat /\ Len(results) \in Nat
  BY BarStoreAssumption DEF StoreTypeOK, BarIds
<1>2. PICK k \in {0, Len(buf), Len(buf) + 1} : Spill(buf \o Record(n), k)
  BY DEF AppendOk
<1> HIDE DEF n
<1>3. /\ Record(n) \in Seq(Piece) /\ Len(Record(n)) = 2
      /\ buf \in Seq(Piece) /\ Len(buf) \in Nat /\ C \in Seq(Piece) /\ Len(C) \in Nat
  BY <1>1, RecordPieces, ContentFacts
<1>4. Len(buf \o Record(n)) = Len(buf) + 2
  <2> DEFINE r == Record(n)
  <2> HIDE DEF r
  <2>1. r \in Seq(Piece) /\ buf \in Seq(Piece)
    BY <1>3 DEF r
  <2>2. Len(buf \o r) = Len(buf) + Len(r)
    BY <2>1, ConcatProperties, Zenon
  <2> QED
    BY <1>3, <2>2 DEF r
<1>5. k \in 0 .. Len(buf \o Record(n))
  BY <1>3, <1>4
<1>6. D = C \o Record(n)
  BY <1>2, <1>3, <1>5, SpillContent
<1> HIDE DEF C, D
<1>7. /\ D \in Seq(Piece) /\ Starts(C, D) /\ ~Dangling(D)
      /\ Len(D) = Len(C) + 2
      /\ D[Len(C) + 1] = Head2(n) /\ D[Len(C) + 2] = Tail2(n)
      /\ ~Dangling(C) => n \in Stored(D)
  BY <1>1, <1>3, <1>6, AppendRecord
<1>8. Covers(D, Len(results))
  BY <1>3, <1>7, CoversStarts DEF C
<1>9. n \in Stored(D) \cup GluedIn(D)
  <2>1. CASE ~Dangling(C)
    BY <1>7, <2>1
  <2>2. CASE Dangling(C)
    <3>1. n = inherited + 1
      BY <2>2 DEF C, n
    <3>2. Len(C) \in 1 .. Len(C) /\ C[Len(C)].part = "head" /\ Len(C) + 1 \in 2 .. Len(D)
      BY <1>3, <1>7, <2>2 DEF Dangling
    <3>3. D[(Len(C) + 1) - 1].part = "head" /\ D[Len(C) + 1].bar = n
      BY <1>1, <1>3, <1>7, <3>2, PieceFields DEF Starts
    <3> QED
      BY <3>1, <3>2, <3>3 DEF GluedIn
  <2> QED
    BY <2>1, <2>2
<1>10. (inherited + 1) .. n \subseteq ((inherited + 1) .. Len(results)) \cup {n}
  BY <1>1 DEF n
<1>11. Covers(D, n)
  BY <1>8, <1>9, <1>10 DEF Covers
<1> QED
  BY <1>7, <1>11 DEF D, n

\* When the worker takes a flush out, all that it promises has been appended.
LEMMA FlushBehindBars ==
    ASSUME ChannelInv, Receives("flush")
    PROVE  queue[1].by \in Callers /\ promised[queue[1].by] <= Len(results)
<1>1. AsyncTypeOK /\ ThreadsOrdered /\ BarsQueued /\ FlushesQueued
  BY DEF ChannelInv
<1>2. /\ worker = "running" /\ 1 \in 1 .. Len(queue) /\ Carries(1, "flush")
  BY <1>1, ReceivesFacts, QueueFacts DEF Carries
<1>3. /\ queue[1].by \in Callers /\ Len(queue) \in Nat /\ Len(results) \in Nat
      /\ \A c \in Callers : promised[c] \in Nat
  BY <1>1, <1>2, QueueFacts
<1> DEFINE p == promised[queue[1].by]
<1>4. p \in Nat /\ p <= accepted
  BY <1>1, <1>3 DEF FlushesQueued
<1>5. SUFFICES ASSUME p > Len(results) PROVE FALSE
  BY <1>3, <1>4
<1>6. p \in Len(results) + 1 .. accepted
  BY <1>1, <1>3, <1>4, <1>5, QueueFacts
<1>7. PICK i \in 1 .. Len(queue) : Carries(i, "bar") /\ queue[i].bar = p
  BY <1>1, <1>2, <1>6 DEF BarsQueued
<1>8. i \in 1 + 1 .. Len(queue)
  BY <1>2, <1>3, <1>7 DEF Carries
<1>9. queue[i].bar > p
  BY <1>1, <1>2, <1>7, <1>8 DEF FlushesQueued
<1> QED
  BY <1>4, <1>7, <1>9

\* And when it takes the shutdown out, all that was accepted.
LEMMA ShutdownBehindBars ==
    ASSUME ChannelInv, Receives("shutdown")
    PROVE  accepted = Len(results)
<1>1. AsyncTypeOK /\ ThreadsOrdered /\ BarsQueued /\ ShutdownLast
  BY DEF ChannelInv
<1>2. /\ worker = "running" /\ 1 \in 1 .. Len(queue) /\ Carries(1, "shutdown")
  BY <1>1, ReceivesFacts, QueueFacts DEF Carries
<1>3. Len(queue) = 1 /\ accepted \in Nat /\ Len(results) \in Nat /\ Len(results) <= accepted
  BY <1>1, <1>2, QueueFacts DEF ShutdownLast, ThreadsOrdered
<1>4. SUFFICES ASSUME Len(results) < accepted PROVE FALSE
  BY <1>3
<1>5. PICK i \in 1 .. Len(queue) : Carries(i, "bar")
  <2>1. accepted \in Len(results) + 1 .. accepted
    BY <1>3, <1>4
  <2> QED
    BY <1>1, <1>2, <2>1 DEF BarsQueued
<1> QED
  BY <1>2, <1>3, <1>5 DEF Carries

\* An answer that a flush has got keeps its worth while its process lives.
LEMMA FlushStaysCovered ==
    ASSUME FlushCovers, UNCHANGED <<inherited, promised>>,
           file \in Seq(Piece), file' \in Seq(Piece), Starts(file, file'),
           NEW c \in Callers, ack[c] = "ok"
    PROVE  (inherited + 1) .. promised[c] \subseteq Stored(file') \cup GluedIn(file')
<1>1. Covers(file, promised[c])
  BY DEF FlushCovers, Covers, Glued, GluedIn
<1>2. Covers(file', promised[c])
  BY <1>1, CoversStarts
<1> QED
  BY <1>2 DEF Covers

LEMMA PrimedFlushCovers ==
    ASSUME inherited' = inherited,
           \A c \in Callers : ack'[c] = "ok" =>
               (inherited + 1) .. promised'[c] \subseteq Stored(file') \cup GluedIn(file')
    PROVE  FlushCovers'
BY DEF FlushCovers, Glued, GluedIn, Stored, WholeLines

LEMMA NextPromises ==
    ASSUME StoreInv, AsyncInv, [AsyncNext]_asyncVars
    PROVE  AllWritten' /\ FlushCovers' /\ CloseInv'
<1>1. /\ StoreTypeOK /\ ChannelInv /\ AsyncTypeOK /\ ThreadsOrdered
      /\ AllWritten /\ FlushCovers /\ CloseInv
  BY DEF AsyncInv, ChannelInv, StoreInv
<1>2. /\ file \in Seq(Piece) /\ Content \in Seq(Piece)
      /\ Len(results) \in Nat /\ inherited \in Nat /\ accepted \in Nat
      /\ MaxBars \in Nat /\ \A c \in Callers : promised[c] \in Nat
  BY <1>1, ContentFacts, QueueFacts
<1>3. closed = "ok" => worker = "finished" /\ owner = "closed"
  BY <1>1 DEF CloseInv
<1>4. CASE \E c \in Callers : Enqueue(c) \/ FlushSend(c) \/ FlushRefused(c)
  <2>1. PICK c \in Callers : Enqueue(c) \/ FlushSend(c) \/ FlushRefused(c)
    BY <1>4
  <2>2. /\ owner = "open" /\ UNCHANGED <<file, buf, results, worker, inherited, closed>>
        /\ \/ UNCHANGED <<ack, promised>>
           \/ ack' = [ack EXCEPT ![c] = "waiting"] /\ promised' = [promised EXCEPT ![c] = accepted]
           \/ ack' = [ack EXCEPT ![c] = "error"] /\ promised' = [promised EXCEPT ![c] = accepted]
    BY <2>1 DEF Enqueue, FlushSend, FlushRefused, Idle, storeVars
  <2>3. worker \notin {"finishing", "finished"} /\ closed # "ok"
    BY <1>1, <1>3, <2>2 DEF ThreadsOrdered
  <2>4. AllWritten'
    BY <1>1, <2>2 DEF AllWritten, Covers, GluedIn, Content, Dangling
  <2>5. \A d \in Callers : ack'[d] = "ok" => ack[d] = "ok" /\ promised'[d] = promised[d]
    BY <1>1, <2>2 DEF AsyncTypeOK
  <2>6. FlushCovers'
    <3>1. Stored(file)' = Stored(file) /\ Glued' = Glued /\ inherited' = inherited
      BY <2>2 DEF Stored, WholeLines, Glued
    <3> QED
      BY <1>1, <2>5, <3>1 DEF FlushCovers
  <2> QED
    BY <2>2, <2>3, <2>4, <2>6 DEF CloseInv
<1>5. CASE OwnerNext
  <2>1. /\ UNCHANGED <<file, buf, results, worker, inherited, accepted, ack, promised>>
    BY <1>5 DEF OwnerNext, CloseSend, CloseAnswered, CloseJoin, storeVars
  <2>2. AllWritten' /\ FlushCovers'
    <3>1. AllWritten'
      BY <1>1, <2>1 DEF AllWritten, Covers, GluedIn, Content, Dangling
    <3>2. FlushCovers'
      <4>1. Stored(file)' = Stored(file) /\ Glued' = Glued /\ inherited' = inherited
        BY <2>1 DEF Stored, WholeLines, Glued
      <4> QED
        BY <1>1, <2>1, <4>1 DEF FlushCovers
    <3> QED
      BY <3>1, <3>2
  <2>3. CASE CloseSend
    <3>1. /\ owner = "open" /\ closed' = closed
      BY <2>3 DEF CloseSend
    <3>2. worker \notin {"finishing", "finished"} /\ closed # "ok"
      BY <1>1, <1>3, <3>1 DEF ThreadsOrdered
    <3> QED
      BY <2>1, <2>2, <3>1, <3>2 DEF CloseInv
  <2>4. CASE CloseAnswered
    <3>1. closed' = closed /\ owner = "waiting" /\ answer' = answer
      BY <2>4 DEF CloseAnswered
    <3>2. closed # "ok"
      BY <1>3, <3>1
    <3>3. worker \in {"finishing", "finished"} /\ answer = "ok" => Covers(file, accepted)
      BY <1>1 DEF CloseInv
    <3>4. CloseInv'
      BY <2>1, <3>1, <3>2, <3>3 DEF CloseInv, Covers, GluedIn, Stored, WholeLines
    <3> QED
      BY <2>2, <3>4
  <2>5. CASE CloseJoin
    <3>1. /\ owner' = "closed" /\ answer' = answer /\ worker \in {"finished", "failed"}
          /\ closed' = "ok" => worker # "failed" /\ answer = "ok"
      BY <2>5 DEF CloseJoin, Connected
    <3>2. closed' = "ok" => worker = "finished" /\ answer = "ok"
      BY <3>1
    <3>3. worker \in {"finishing", "finished"} /\ answer = "ok" => Covers(file, accepted)
      BY <1>1 DEF CloseInv
    <3>4. CloseInv'
      BY <2>1, <3>1, <3>2, <3>3 DEF CloseInv, Covers, GluedIn, Stored, WholeLines
    <3> QED
      BY <2>2, <3>4
  <2> QED
    BY <1>5, <2>3, <2>4, <2>5 DEF OwnerNext
<1>6. CASE WorkerOpen
  <2>1. /\ worker = "starting" /\ worker' = "running"
        /\ UNCHANGED <<file, buf, results, inherited, accepted, ack, promised, closed>>
    BY <1>6 DEF WorkerOpen, OpenStore
  <2>2. Len(results) = inherited /\ closed # "ok"
    BY <1>1, <1>3, <2>1 DEF ThreadsOrdered
  <2>3. (inherited + 1) .. Len(results) = {}
    BY <1>2, <2>2
  <2>4. AllWritten'
    BY <2>1, <2>2, <2>3 DEF AllWritten, Covers
  <2>5. FlushCovers' /\ CloseInv'
    BY <1>1, <2>1, <2>2 DEF FlushCovers, Glued, CloseInv
  <2> QED
    BY <2>4, <2>5
<1>7. CASE WorkerOpenFails
  <2>1. /\ worker = "starting" /\ worker' = "failed"
        /\ UNCHANGED <<file, inherited, promised, closed>>
        /\ \A c \in Callers : ack'[c] = "ok" => ack[c] = "ok"
    BY <1>7 DEF WorkerOpenFails, DropReceiver, storeVars
  <2>2. FlushCovers'
    BY <1>1, <2>1 DEF FlushCovers, Glued
  <2> QED
    BY <1>3, <2>1, <2>2 DEF AllWritten, CloseInv
<1>8. CASE WorkerAppend
  <2>1. Receives("bar") /\ worker = "running" /\ worker' \in {"running", "failing"}
    BY <1>1, <1>8, ReceivesFacts DEF WorkerAppend
  <2>2. Head(queue).bar = Len(results) + 1 /\ Len(results) < MaxBars
    BY <1>1, <2>1, NextBar DEF ChannelInv
  <2>3. /\ AppendOk(Len(results) + 1) \/ AppendFails(Len(results) + 1)
        /\ worker' = "running" => AppendOk(Len(results) + 1)
        /\ UNCHANGED <<ack, promised, inherited, accepted, owner, answer, closed>>
    BY <1>8, <2>1, <2>2 DEF WorkerAppend
  <2>4. Len(results) + 1 \in BarIds
    BY <1>2, <2>2 DEF BarIds
  <2>5. file' \in Seq(Piece) /\ Starts(file, file')
    BY <1>1, <2>3, <2>4, AppendGrows
  <2>6. FlushCovers'
    BY <1>1, <1>2, <2>3, <2>5, FlushStaysCovered, PrimedFlushCovers
  <2>7. AllWritten'
    <3> SUFFICES ASSUME worker' = "running" PROVE AllWritten'
      BY DEF AllWritten
    <3>1. AppendOk(Len(results) + 1) /\ inherited <= Len(results)
      BY <1>1, <2>3 DEF ThreadsOrdered
    <3>2. Covers(Content', Len(results) + 1) /\ ~Dangling(Content')
      BY <1>1, <1>2, <2>1, <2>2, <2>3, <3>1, AppendCovers DEF AllWritten
    <3>3. Len(results') = Len(results) + 1
      <4>1. Returned(Len(results) + 1, sessions) /\ sessions \in 0 .. MaxSessions
        BY <1>1, <3>1 DEF AppendOk, StoreTypeOK
      <4> QED
        BY <1>1, <2>2, <4>1, ReturnedAppends
    <3>4. (inherited' + 1) .. Len(results') \subseteq
              Stored(Content') \cup GluedIn(Content')
      BY <2>3, <3>2, <3>3 DEF Covers
    <3> QED
      BY <2>3, <3>2, <3>4 DEF AllWritten, Covers, GluedIn, Dangling, Stored, WholeLines
  <2>8. CloseInv'
    BY <1>3, <2>1, <2>3 DEF CloseInv
  <2> QED
    BY <2>6, <2>7, <2>8

<1>9. CASE WorkerFlush
  <2>1. /\ Receives("flush") /\ worker = "running" /\ Head(queue) = queue[1]
        /\ queue[1].by \in Callers /\ promised[queue[1].by] <= Len(results)
    BY <1>1, <1>9, ReceivesFacts, FlushBehindBars DEF WorkerFlush
  <2> DEFINE c == queue[1].by
  <2>2. /\ \/ FlushOk /\ ack' = [ack EXCEPT ![c] = "ok"]
           \/ FlushFails /\ ack' = [ack EXCEPT ![c] = "error"]
        /\ UNCHANGED <<results, worker, promised, inherited, accepted, owner, answer, closed>>
    BY <1>9, <2>1 DEF WorkerFlush, FlushOk, FlushFails
  <2>3. /\ file' \in Seq(Piece) /\ Starts(file, file') /\ Content' = Content
        /\ FlushOk => file' = Content
    <3>1. CASE FlushOk
      <4>1. Spill(buf, Len(buf)) /\ Len(buf) \in 0 .. Len(buf)
        BY <1>1, <3>1, ContentFacts DEF FlushOk
      <4> QED
        BY <1>1, <3>1, <4>1, SpillBuffer, FlushOkContent
    <3>2. CASE FlushFails /\ ~FlushOk
      <4>1. PICK k \in 0 .. Len(buf) - 1 : Spill(buf, k)
        BY <3>2 DEF FlushFails
      <4>2. k \in 0 .. Len(buf)
        BY <1>1, ContentFacts
      <4> QED
        BY <1>1, <3>2, <4>1, <4>2, SpillBuffer
    <3> QED
      BY <2>2, <3>1, <3>2
  <2>4. AllWritten'
    BY <1>1, <2>2, <2>3 DEF AllWritten, Covers, GluedIn, Dangling, Stored, WholeLines
  <2>5. ASSUME NEW d \in Callers, ack'[d] = "ok"
        PROVE  (inherited + 1) .. promised'[d] \subseteq Stored(file') \cup GluedIn(file')
    <3>1. CASE ack[d] = "ok"
      BY <1>1, <1>2, <2>2, <2>3, <3>1, FlushStaysCovered
    <3>2. CASE ack[d] # "ok"
      <4>1. d = c /\ FlushOk
        BY <1>1, <2>1, <2>2, <2>5, <3>2 DEF AsyncTypeOK
      <4>2. Covers(Content, Len(results))
        BY <1>1, <2>1 DEF AllWritten
      <4>3. Covers(Content, promised[d])
        BY <1>2, <2>1, <4>1, <4>2, CoversFewer
      <4> QED
        BY <2>2, <2>3, <4>1, <4>3 DEF Covers
    <3> QED
      BY <3>1, <3>2
  <2>6. FlushCovers'
    BY <2>2, <2>5, PrimedFlushCovers
  <2>7. CloseInv'
    BY <1>3, <2>1, <2>2 DEF CloseInv
  <2> QED
    BY <2>4, <2>6, <2>7
<1>10. CASE WorkerShutdown
  <2>1. Receives("shutdown") /\ worker = "running" /\ accepted = Len(results)
    BY <1>1, <1>10, ReceivesFacts, ShutdownBehindBars DEF WorkerShutdown
  <2>2. /\ \/ FlushOk /\ answer' = "ok"
           \/ FlushFails /\ answer' = "error"
        /\ worker' = "finishing"
        /\ UNCHANGED <<ack, promised, inherited, accepted, owner, closed>>
    BY <1>10 DEF WorkerShutdown
  <2>3. file' \in Seq(Piece) /\ Starts(file, file')
    BY <1>1, <2>2, FlushGrows
  <2>4. FlushCovers'
    BY <1>1, <1>2, <2>2, <2>3, FlushStaysCovered, PrimedFlushCovers
  <2>5. answer' = "ok" => Covers(file', accepted)
    <3> SUFFICES ASSUME answer' = "ok" PROVE Covers(file', accepted)
      OBVIOUS
    <3>1. FlushOk /\ Covers(Content, Len(results))
      BY <1>1, <2>1, <2>2 DEF AllWritten
    <3> QED
      BY <1>1, <2>1, <3>1, FlushOkContent
  <2>6. CloseInv'
    BY <1>3, <2>1, <2>2, <2>5 DEF CloseInv, Covers, GluedIn, Stored, WholeLines
  <2> QED
    BY <2>2, <2>4, <2>6 DEF AllWritten
<1>11. CASE WorkerExit
  <2>1. /\ \/ worker = "failing" /\ worker' = "failed"
           \/ worker = "finishing" /\ worker' = "finished"
        /\ DropStore /\ UNCHANGED <<promised, inherited, accepted, owner, closed>>
        /\ answer' = "gone" \/ answer' = answer
        /\ \A c \in Callers : ack'[c] = "ok" => ack[c] = "ok"
    BY <1>11 DEF WorkerExit, DropReceiver
  <2>2. file' \in Seq(Piece) /\ Starts(file, file')
    BY <1>1, <2>1, FlushGrows
  <2>3. FlushCovers'
    BY <1>1, <1>2, <2>1, <2>2, FlushStaysCovered, PrimedFlushCovers
  <2>4. worker = "finishing" /\ answer' = "ok" => Covers(file', accepted)
    BY <1>1, <1>2, <2>1, <2>2, CoversStarts DEF CloseInv
  <2>5. CloseInv'
    BY <1>3, <2>1, <2>4 DEF CloseInv, Covers, GluedIn, Stored, WholeLines
  <2> QED
    BY <2>1, <2>3, <2>5 DEF AllWritten
<1>12. CASE CrashProcess \/ Reopen
  <2>1. /\ worker' \in {"starting", "finished"} /\ answer' = "none" /\ closed' = "none"
        /\ ack' = [c \in Callers |-> "none"]
    BY <1>12 DEF CrashProcess, Reopen
  <2> QED
    BY <2>1 DEF AllWritten, FlushCovers, CloseInv
<1>13. CASE UNCHANGED asyncVars
  <2>1. /\ UNCHANGED <<file, buf, results, worker, ack, promised, inherited, accepted, owner,
                       answer, closed>>
    BY <1>13 DEF asyncVars, channelVars, storeVars
  <2> QED
    BY <1>1, <2>1 DEF AllWritten, FlushCovers, Glued, CloseInv, Covers, GluedIn, Content, Dangling
<1> QED
  BY <1>4, <1>5, <1>6, <1>7, <1>8, <1>9, <1>10, <1>11, <1>12, <1>13 DEF AsyncNext, WorkerNext

LEMMA InitAsyncInv == AsyncInit => StoreInv /\ AsyncInv
<1> SUFFICES ASSUME AsyncInit PROVE StoreInv /\ AsyncInv
  OBVIOUS
<1>1. StoreInv /\ ChannelInv
  BY InitStoreInv, InitChannelInv DEF AsyncInit
<1>2. /\ worker = "starting" /\ answer = "none" /\ closed = "none"
      /\ ack = [c \in Callers |-> "none"]
  BY DEF AsyncInit
<1>3. AllWritten /\ FlushCovers /\ CloseInv
  BY <1>2 DEF AllWritten, FlushCovers, CloseInv
<1> QED
  BY <1>1, <1>3 DEF AsyncInv

LEMMA NextAsyncInv == StoreInv /\ AsyncInv /\ [AsyncNext]_asyncVars => StoreInv' /\ AsyncInv'
<1> SUFFICES ASSUME StoreInv, AsyncInv, [AsyncNext]_asyncVars PROVE StoreInv' /\ AsyncInv'
  OBVIOUS
<1>1. StoreInv' /\ ChannelInv'
  BY NextChannelInv DEF AsyncInv
<1> QED
  BY <1>1, NextPromises DEF AsyncInv

\* A flush that returned Ok covers every bar the store had accepted before, for any
\* number of callers, bars and processes and any capacity of the channel.
THEOREM FlushCoversHolds == AsyncSpec => []FlushCovers
BY InitAsyncInv, NextAsyncInv, PTL DEF AsyncSpec, AsyncInv

\* A close that returned Ok has lost none of the bars that were accepted.
THEOREM CloseOkCompleteHolds == AsyncSpec => []CloseOkComplete
<1>1. AsyncInv => CloseOkComplete
  BY DEF AsyncInv, CloseInv, CloseOkComplete, Covers, Glued, GluedIn
<1> QED
  BY <1>1, InitAsyncInv, NextAsyncInv, PTL DEF AsyncSpec

=============================================================================
