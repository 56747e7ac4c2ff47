---------------------------- MODULE StoresProofs ----------------------------
(***************************************************************************)
(* What the stores keep: the transcripts' cache, whatever is written to    *)
(* the files, and the push subscriptions, whatever fails or restarts, for  *)
(* any number of files, readers, subscriptions and restarts.               *)
(***************************************************************************)
EXTENDS MCStores, FiniteSetTheorems, SequenceTheorems, TLAPS

Object == Transcripts!Object
Busy == {"verify", "retained", "bytes", "generation", "marks", "stat"}

Lines == Seq(Line)

ObjectType ==
  [size: Nat, version: Nat, offset: Nat, start: Nat, lines: Lines,
   marks: [prefix: Lines, boundary: Lines], kept: Lines]

LoadType ==
  [phase: Busy \union {"idle", "open"}, attempt: Nat, ino: Ino \union {0}, info: Nat,
   obj: Object \union {0}, reuse: BOOLEAN, buffer: Lines]

RequestType ==
  [kind: {"none", "transcript", "record"}, phase: {"idle", "loading", "status", "done", "failed"},
   obj: Object \union {0}, lines: Lines, version: Nat, start: Nat]

StoreTyped ==
  /\ was \in Seq(Contents) /\ was # <<>>
  /\ path \in Ino /\ ino \in [Ino -> 1..Len(was)]
  /\ cache \in [Ino -> Object \union {0}]
  /\ obj \in [Object -> ObjectType]
  /\ load \in LoadType /\ req \in [Reader -> RequestType]
  /\ \A r \in Reader : req[r].phase = "status" => req[r].obj # 0

\* The object a read works on is nobody else's; without a read there is none.
ReadTyped ==
  IF load.phase \in Busy
  THEN /\ load.ino \in Ino /\ load.info \in 1..Len(was) /\ load.obj \in Object
       /\ \A i \in Ino : cache[i] # load.obj
       /\ cache[load.ino] = 0
  ELSE load.obj = 0

OneEntryEach == \A i, j \in Ino : cache[i] = cache[j] /\ cache[i] # 0 => i = j

\* Object o holds what has been consumed of content c, up to its offset.
Follows(o, c) ==
  /\ o.start = Transcripts!StartOf(c) /\ o.offset \div 2 <= c.size \div 2
  /\ o.lines = SubSeq(c.text, Transcripts!FirstLine(o.start), o.offset \div 2)
  /\ o.start > 0 /\ o.offset # o.start => o.offset \div 2 = c.size \div 2

\* All of it.
Covers(o, c) == Follows(o, c) /\ o.offset \div 2 = c.size \div 2

\* From the beginning of the file, what was kept for the next read is what was read.
KeepsLines(o) == o.start = 0 => o.kept = o.lines

\* Object o is the version of w that it is stamped with.
Whole(o, w) ==
  /\ o.version \in 1..Len(w) /\ o.size = w[o.version].size
  /\ Covers(o, w[o.version]) /\ KeepsLines(o)

CacheIsWhole == \A i \in Ino : cache[i] # 0 => Whole(obj[cache[i]], was)

\* Object o may be read on for version v of w.
Fits(o, w, v) ==
  /\ w[v].size >= o.size
  /\ ~(w[v].size <= o.size /\ v # o.version)
  /\ ~(o.start = 0 /\ Transcripts!StartOf(w[v]) > 0)
  /\ ~(o.start > 0 /\ w[v].size # o.size)

\* The buffer of read l goes on where object o stops in content c.
Reading(l, o, c) ==
  /\ Follows(o, c) /\ (l.reuse => KeepsLines(o))
  /\ o.offset \div 2 + Len(l.buffer) <= c.size \div 2
  /\ l.buffer = SubSeq(c.text, o.offset \div 2 + 1, o.offset \div 2 + Len(l.buffer))

\* What read l has made of its version in object o, while nothing was written since it began.
ReadSoFar(l, o, w) ==
  /\ l.phase \in {"verify", "retained"} =>
       l.reuse /\ l.buffer = <<>> /\ Whole(o, w) /\ Fits(o, w, l.info)
  /\ l.phase = "bytes" => Reading(l, o, w[l.info])
  /\ l.phase = "generation" => Covers(o, w[l.info])
  /\ l.phase \in {"marks", "stat"} => Covers(o, w[l.info]) /\ KeepsLines(o)

ReadIsTrue ==
  load.phase \in Busy /\ ino[load.ino] = load.info => ReadSoFar(load, obj[load.obj], was)

StoreInv == StoreTyped /\ ReadTyped /\ OneEntryEach /\ CacheIsWhole /\ ReadIsTrue

----------------------------------------------------------------------------
(* Lemmas about the operators.                                             *)

\* The values of a function on a finite set are at most as many as its arguments.
LEMMA ImageSize ==
  ASSUME NEW S, IsFiniteSet(S), NEW g
  PROVE  IsFiniteSet({g[x] : x \in S}) /\ Cardinality({g[x] : x \in S}) <= Cardinality(S)
<1> DEFINE T == {g[x] : x \in S}
           f == [x \in S |-> g[x]]
<1>1. f \in Surjection(S, T)
  BY DEF Surjection
<1> QED BY <1>1, FS_Surjection

\* Two finite sets together have at most as many members as both.
LEMMA UnionSize ==
  ASSUME NEW S, IsFiniteSet(S), NEW T, IsFiniteSet(T)
  PROVE  IsFiniteSet(S \cup T) /\ Cardinality(S \cup T) <= Cardinality(S) + Cardinality(T)
<1>1. IsFiniteSet(S \cup T) /\ Cardinality(S \cup T) = Cardinality(S) + Cardinality(T) - Cardinality(S \cap T)
  BY FS_Union
<1>2. IsFiniteSet(S \cap T)
  BY FS_Intersection
<1>3. Cardinality(S) \in Nat /\ Cardinality(T) \in Nat /\ Cardinality(S \cap T) \in Nat
  BY <1>2, FS_CardinalityType
<1> QED BY <1>1, <1>3

\* A set of fewer elements does not cover the objects.
LEMMA ObjectsLast ==
  ASSUME NEW S, IsFiniteSet(S), Cardinality(S) <= Cardinality(Ino) + Cardinality(Reader)
  PROVE  \E o \in Object : o \notin S
<1>1. Cardinality(Ino) \in Nat /\ Cardinality(Reader) \in Nat
  BY TranscriptsAssumption, FS_CardinalityType
<1>2. IsFiniteSet(Object) /\ Cardinality(Object) = Cardinality(Ino) + Cardinality(Reader) + 1
  <2> DEFINE n == Cardinality(Ino) + Cardinality(Reader) + 1
  <2>1. n \in Nat /\ n >= 1
    BY <1>1
  <2> HIDE DEF n
  <2>2. IsFiniteSet(1..n) /\ Cardinality(1..n) = n
    BY <2>1, FS_Interval
  <2>3. Object = 1..n
    <3>1. /\ Transcripts!Cardinality(Ino) = Cardinality(Ino)
          /\ Transcripts!Cardinality(Reader) = Cardinality(Reader)
      BY Zenon DEF Transcripts!Cardinality, Cardinality
    <3> QED BY <3>1 DEF Object, Transcripts!Object, n
  <2> QED BY <2>2, <2>3 DEF n
<1>3. Cardinality(S) \in Nat
  BY FS_CardinalityType
<1>4. Object \subseteq S => Cardinality(Object) <= Cardinality(S)
  BY FS_Subset
<1> QED BY <1>1, <1>2, <1>3, <1>4

\* There is always an object that nobody uses.
LEMMA SomeUnused ==
  ASSUME StoreTyped, ReadTyped, load.phase \in Busy \cup {"open"}
  PROVE  Transcripts!Unused \in Object /\ Transcripts!Unused \notin Transcripts!InUse
<1> DEFINE others == Ino \ {load.ino}
           C == {cache[i] : i \in IF load.phase = "open" THEN Ino ELSE others}
           R == {req[r].obj : r \in Reader}
           L == IF load.phase = "open" THEN {} ELSE {load.obj}
<1>1. IsFiniteSet(Ino) /\ IsFiniteSet(Reader) /\ Cardinality(Ino) \in Nat /\ Cardinality(Reader) \in Nat
  BY TranscriptsAssumption, FS_CardinalityType
<1>2. IsFiniteSet(R) /\ Cardinality(R) <= Cardinality(Reader)
  <2> DEFINE g == [r \in Reader |-> req[r].obj]
  <2>1. R = {g[r] : r \in Reader}
    OBVIOUS
  <2> HIDE DEF g
  <2>2. IsFiniteSet({g[r] : r \in Reader}) /\ Cardinality({g[r] : r \in Reader}) <= Cardinality(Reader)
    BY <1>1, ImageSize
  <2> HIDE DEF R
  <2> QED BY <2>1, <2>2
<1>3. IsFiniteSet(C \cup L) /\ Cardinality(C \cup L) <= Cardinality(Ino)
  <2>1. CASE load.phase = "open"
    <3>1. C = {cache[i] : i \in Ino} /\ C \cup L = C
      BY <2>1
    <3>2. IsFiniteSet({cache[i] : i \in Ino}) /\ Cardinality({cache[i] : i \in Ino}) <= Cardinality(Ino)
      BY <1>1, ImageSize
    <3> QED BY <3>1, <3>2
  <2>2. CASE load.phase # "open"
    <3>1. load.ino \in Ino
      BY <2>2 DEF ReadTyped
    <3>2. IsFiniteSet(others) /\ Cardinality(others) = Cardinality(Ino) - 1
      BY <1>1, <3>1, FS_RemoveElement
    <3> HIDE DEF others
    <3>3. C = {cache[i] : i \in others} /\ L = {load.obj}
      BY <2>2
    <3> HIDE DEF C, L
    <3>4. IsFiniteSet(C) /\ Cardinality(C) <= Cardinality(Ino) - 1
      BY <3>2, <3>3, ImageSize
    <3>5. Cardinality(C) \in Nat
      BY <3>4, FS_CardinalityType
    <3>6. IsFiniteSet(C \cup {load.obj}) /\ Cardinality(C \cup {load.obj}) <= Cardinality(C) + 1
      BY <3>4, <3>5, FS_AddElement
    <3>7. Cardinality(C \cup {load.obj}) \in Nat
      BY <3>6, FS_CardinalityType
    <3> QED BY <1>1, <3>3, <3>4, <3>5, <3>6, <3>7
  <2> QED BY <2>1, <2>2
<1>4. Transcripts!InUse \subseteq ((C \cup L) \cup R) \cup {0}
  BY DEF Transcripts!InUse, ReadTyped, Busy
<1> HIDE DEF C, L, R
<1>5. IsFiniteSet((C \cup L) \cup R) /\ Cardinality((C \cup L) \cup R) <= Cardinality(Ino) + Cardinality(Reader)
  <2>1. Cardinality(C \cup L) \in Nat /\ Cardinality(R) \in Nat
    BY <1>2, <1>3, FS_CardinalityType
  <2>2. IsFiniteSet((C \cup L) \cup R) /\ Cardinality((C \cup L) \cup R) <= Cardinality(C \cup L) + Cardinality(R)
    BY <1>2, <1>3, UnionSize
  <2>3. Cardinality((C \cup L) \cup R) \in Nat
    BY <2>2, FS_CardinalityType
  <2> QED BY <1>1, <1>2, <1>3, <2>1, <2>2, <2>3
<1>6. PICK o \in Object : o \notin (C \cup L) \cup R
  BY <1>5, ObjectsLast
<1>7. o # 0
  BY DEF Object, Transcripts!Object
<1>8. o \notin Transcripts!InUse
  BY <1>4, <1>6, <1>7
<1> QED BY <1>8 DEF Transcripts!Unused, Object

\* A content is a record of its lines and its size, and a version of the file is one.
LEMMA ContentTyped ==
  ASSUME NEW c \in Contents
  PROVE  c.size \in Nat /\ c.text \in Lines /\ c.size \div 2 <= Len(c.text) /\ c.size \div 2 \in Nat
BY TranscriptsAssumption DEF Lines

\* A piece of a sequence of lines is one.
LEMMA PieceTyped ==
  ASSUME NEW t \in Lines, NEW m \in Nat \ {0}, NEW n \in Nat, n <= Len(t)
  PROVE  /\ SubSeq(t, m, n) \in Lines
         /\ Len(SubSeq(t, m, n)) = IF m <= n THEN n - m + 1 ELSE 0
<1>1. \A i \in m..n : t[i] \in Line
  BY DEF Lines
<1> QED BY <1>1, SubSeqProperties DEF Lines

LEMMA BytesTyped ==
  ASSUME NEW c \in Contents, NEW from \in Nat, NEW to \in Nat
  PROVE  Transcripts!Bytes(c, from, to) \in Lines
<1>1. from \div 2 + 1 \in Nat \ {0} /\ Transcripts!Least(to, c.size) \div 2 \in Nat
      /\ Transcripts!Least(to, c.size) \div 2 <= Len(c.text) /\ c.text \in Lines
  BY ContentTyped DEF Transcripts!Least
<1> QED BY <1>1, PieceTyped DEF Transcripts!Bytes

LEMMA MarksTyped ==
  ASSUME NEW c \in Contents, NEW offset \in Nat
  PROVE  Transcripts!Marks(c, offset) \in [prefix: Lines, boundary: Lines]
<1> DEFINE sampled == 2 * Transcripts!Least(offset \div 2, Sample)
<1>1. sampled \in Nat /\ offset - sampled \in Nat
  BY TranscriptsAssumption DEF Transcripts!Least
<1> HIDE DEF sampled
<1>2. Transcripts!Bytes(c, 0, sampled) \in Lines /\ Transcripts!Bytes(c, offset - sampled, offset) \in Lines
  BY <1>1, BytesTyped
<1> QED BY <1>2 DEF Transcripts!Marks, sampled

\* A fresh object has consumed nothing of the content it is made for.
LEMMA FreshFollows ==
  ASSUME NEW c \in Contents
  PROVE  /\ Transcripts!Fresh(c) \in ObjectType
         /\ Follows(Transcripts!Fresh(c), c)
         /\ KeepsLines(Transcripts!Fresh(c))
<1> DEFINE s == Transcripts!StartOf(c)
<1>1. /\ s \in Nat /\ s \div 2 \in Nat /\ s \div 2 <= c.size \div 2 /\ c.text \in Lines
      /\ s = 0 => s \div 2 = 0
  BY ContentTyped, TranscriptsAssumption DEF Transcripts!StartOf
<1> HIDE DEF s
<1>2. Transcripts!Marks(c, 0) \in [prefix: Lines, boundary: Lines] /\ <<>> \in Lines
  BY MarksTyped DEF Lines
<1>3. Transcripts!FirstLine(s) \in Nat /\ Transcripts!FirstLine(s) > s \div 2
  BY <1>1 DEF Transcripts!FirstLine
<1>4. SubSeq(c.text, Transcripts!FirstLine(s), s \div 2) = <<>>
  BY <1>1, <1>3, SubSeqEmpty
<1> QED BY <1>1, <1>2, <1>4 DEF Transcripts!Fresh, ObjectType, Follows, KeepsLines, s

\* What was verified is what the version begins with: the object is of the same version, or
\* of one whose lines are read again and are the same.
LEMMA VerifiedFollows ==
  ASSUME NEW w \in Seq(Contents), NEW v \in 1..Len(w), NEW o \in ObjectType,
         Whole(o, w), Fits(o, w, v),
         w[v].size <= o.size \/ o.kept = Transcripts!Bytes(w[v], o.start, o.offset)
  PROVE  Follows(o, w[v]) /\ KeepsLines(o)
<1>1. /\ w[v] \in Contents /\ w[v].size \in Nat /\ o.size \in Nat /\ o.offset \in Nat /\ o.start \in Nat
      /\ Transcripts!StartOf(w[v]) \in Nat
  BY ContentTyped, TranscriptsAssumption DEF ObjectType, Transcripts!StartOf
<1>2. CASE w[v].size <= o.size
  <2>1. v = o.version
    BY <1>2 DEF Fits
  <2> QED BY <2>1 DEF Whole, Covers
<1>3. CASE w[v].size > o.size /\ o.kept = Transcripts!Bytes(w[v], o.start, o.offset)
  <2>1. o.start = 0 /\ Transcripts!StartOf(w[v]) = 0
    BY <1>1, <1>3 DEF Fits
  <2>2. o.offset \div 2 = o.size \div 2 /\ o.kept = o.lines
    BY <2>1 DEF Whole, Covers, KeepsLines
  <2>3. o.size \div 2 <= w[v].size \div 2
    BY <1>1, <1>3
  <2>4. Transcripts!Least(o.offset, w[v].size) \div 2 = o.offset \div 2
    BY <1>1, <2>2, <2>3 DEF Transcripts!Least
  <2>5. 0 \div 2 + 1 = 1
    OBVIOUS
  <2>6. o.lines = SubSeq(w[v].text, Transcripts!FirstLine(o.start), o.offset \div 2)
    BY <1>3, <2>1, <2>2, <2>4, <2>5 DEF Transcripts!Bytes, Transcripts!FirstLine
  <2> QED BY <2>1, <2>2, <2>3, <2>6 DEF Follows, Whole
<1> QED BY <1>1, <1>2, <1>3

\* Reading a little more of a version keeps the buffer a part of it.
LEMMA BufferGrows ==
  ASSUME NEW c \in Contents, NEW k \in Nat, NEW b1 \in Lines, k + Len(b1) <= c.size \div 2,
         b1 = SubSeq(c.text, k + 1, k + Len(b1)),
         NEW n \in Nat, n >= 1, k + Len(b1) + n <= c.size \div 2
  PROVE  b1 \o SubSeq(SubSeq(c.text, k + Len(b1) + 1, c.size \div 2), 1, n)
           = SubSeq(c.text, k + 1, k + Len(b1) + n)
<1> DEFINE t == c.text
           m == k + Len(b1)
           z == c.size \div 2
<1>1. t \in Seq(Line) /\ z \in Nat /\ z <= Len(t) /\ m \in Nat /\ k <= m
  BY ContentTyped DEF Lines
<1>2. Len(SubSeq(t, m + 1, z)) = z - m
  BY <1>1, SubSeqProperties
<1> HIDE DEF t, m, z
<1>3. n <= z - m
  BY <1>1 DEF m, z
<1>4. SubSeq(SubSeq(t, m + 1, z), 1, n) = SubSeq(t, m + 1, m + n)
  <2>1. m + 1 \in 1..Len(t) + 1 /\ z \in Nat
    BY <1>1, <1>3
  <2> QED BY <1>1, <1>2, <1>3, <2>1, SubSeqOfSubSeq
<1>5. SubSeq(t, k + 1, m) \o SubSeq(t, m + 1, m + n) = SubSeq(t, k + 1, m + n)
  BY <1>1, <1>3, ConcatAdjacentSubSeq
<1> QED BY <1>4, <1>5 DEF t, m, z

\* Halves of sizes and offsets are counts of lines.
LEMMA Halves ==
  /\ \A n \in Nat : n \div 2 \in Nat
  /\ \A n, m \in Nat : (n + 2 * m) \div 2 = n \div 2 + m
OBVIOUS

\* The object that has consumed a version to its end, once the buffer is parsed.
LEMMA ParsedCovers ==
  ASSUME NEW c \in Contents, NEW o \in ObjectType, NEW l \in LoadType, Reading(l, o, c),
         o.offset \div 2 + Len(l.buffer) = c.size \div 2
  PROVE  Covers(Transcripts!Parsed(o, l.buffer), c)
<1> DEFINE buf == l.buffer
           k == o.offset \div 2
           z == c.size \div 2
           whole == IF o.start > 0 /\ o.offset = o.start /\ buf # <<>> THEN Tail(buf) ELSE buf
           p == Transcripts!Parsed(o, buf)
<1>1. /\ buf \in Lines /\ k \in Nat /\ z \in Nat /\ z <= Len(c.text) /\ c.text \in Lines
      /\ o.start \in Nat /\ o.offset \in Nat
  BY SMTT(30), ContentTyped DEF LoadType, ObjectType
<1>2. Follows(o, c) /\ k + Len(buf) = z /\ buf = SubSeq(c.text, k + 1, z)
  BY DEF Reading
<1>3. CASE buf = <<>>
  <2>1. p = o
    BY <1>3 DEF Transcripts!Parsed
  <2>2. Len(buf) = 0
    BY <1>3
  <2> QED BY <1>1, <1>2, <2>1, <2>2 DEF Covers
<1>4. CASE buf # <<>>
  <2>1. k < z
    BY <1>1, <1>2, <1>4 DEF Lines
  <2> DEFINE f == Transcripts!FirstLine(o.start)
  <2>2. o.lines = SubSeq(c.text, f, k) /\ o.start = Transcripts!StartOf(c) /\ (o.start > 0 => o.offset = o.start)
    BY SMTT(30), <1>1, <1>2, <2>1 DEF Follows
  <2>3. o.lines \o whole = SubSeq(c.text, f, z)
    <3>1. CASE o.start = 0
      <4>1. f = 1 /\ whole = buf
        BY <3>1 DEF Transcripts!FirstLine
      <4>2. SubSeq(c.text, 1, k) \o SubSeq(c.text, k + 1, z) = SubSeq(c.text, 1, z)
        <5>1. 1 \in 1..Len(c.text) + 1 /\ k \in 0..Len(c.text) /\ z \in k..Len(c.text) /\ 1 - 1 = 0
          BY <1>1, <2>1 DEF Lines
        <5> HIDE DEF k, z
        <5> QED BY <1>1, <5>1, ConcatAdjacentSubSeq DEF Lines
      <4> QED BY <1>2, <2>2, <4>1, <4>2
    <3>2. CASE o.start > 0
      <4>1. f = k + 2 /\ whole = Tail(buf)
        BY <1>4, <2>2, <3>2 DEF Transcripts!FirstLine
      <4>2. Tail(SubSeq(c.text, k + 1, z)) = SubSeq(c.text, k + 2, z)
        <5>1. k + 1 \in 1..Len(c.text) /\ z \in (k + 1)..Len(c.text) /\ (k + 1) + 1 = k + 2
          BY SMTT(30), <1>1, <2>1
        <5>2. Tail(SubSeq(c.text, k + 1, z)) = SubSeq(c.text, (k + 1) + 1, z)
          BY <1>1, <5>1, HeadTailOfSubSeq DEF Lines
        <5> QED BY <5>1, <5>2
      <4>3. SubSeq(c.text, k + 2, k) = <<>>
        BY <1>1, SubSeqEmpty
      <4>4. SubSeq(c.text, k + 2, z) \in Seq(Line)
        <5>1. k + 2 \in Nat \ {0}
          BY <1>1
        <5> QED BY <1>1, <5>1, PieceTyped DEF Lines
      <4> HIDE DEF f, whole, buf, k, z
      <4>5. o.lines \o whole = <<>> \o SubSeq(c.text, k + 2, z)
        BY <1>2, <2>2, <4>1, <4>2, <4>3
      <4>6. o.lines \o whole = SubSeq(c.text, k + 2, z)
        BY <4>4, <4>5
      <4> QED BY <4>1, <4>6
    <3>3. o.start = 0 \/ o.start > 0
      BY <1>1
    <3> QED BY <3>1, <3>2, <3>3, Zenon
  <2>4. p.start = o.start /\ p.lines = o.lines \o whole /\ p.offset = 2 * (k + Len(buf))
    BY <1>4 DEF Transcripts!Parsed, ObjectType
  <2> HIDE DEF whole, p, f
  <2>5. p.offset \div 2 = z
    BY SMTT(30), <1>1, <1>2, <2>4
  <2>6. p.lines = SubSeq(c.text, Transcripts!FirstLine(p.start), z)
    BY <2>3, <2>4 DEF f
  <2>7. Covers(p, c)
    <3>1. p.offset \div 2 <= c.size \div 2 /\ p.offset \div 2 = c.size \div 2
      BY <1>1, <2>5
    <3>2. p.start = Transcripts!StartOf(c)
      BY <2>2, <2>4
    <3>3. p.lines = SubSeq(c.text, Transcripts!FirstLine(p.start), p.offset \div 2)
      BY <2>5, <2>6
    <3> QED BY <3>1, <3>2, <3>3 DEF Covers, Follows
  <2> QED BY <2>7 DEF p
<1> QED BY <1>3, <1>4

LEMMA ParsedTyped ==
  ASSUME NEW o \in ObjectType, NEW buf \in Lines
  PROVE  /\ Transcripts!Parsed(o, buf) \in ObjectType
         /\ buf = <<>> => Transcripts!Parsed(o, buf) = o
<1>1. CASE buf = <<>>
  BY <1>1 DEF Transcripts!Parsed
<1>2. CASE buf # <<>>
  <2> DEFINE whole == IF o.start > 0 /\ o.offset = o.start /\ buf # <<>> THEN Tail(buf) ELSE buf
             m == o.lines \o whole
             n == 2 * (o.offset \div 2 + Len(buf))
  <2>1. whole \in Lines
    BY <1>2 DEF Lines
  <2>2. o.lines \in Lines /\ o.offset \in Nat /\ Len(buf) \in Nat
    BY DEF ObjectType, Lines
  <2>3. m \in Lines /\ n \in Nat
    <3> HIDE DEF whole
    <3> QED BY <2>1, <2>2 DEF Lines
  <2>4. Transcripts!Parsed(o, buf) = [o EXCEPT !.lines = m, !.offset = n]
    BY <1>2 DEF Transcripts!Parsed
  <2> HIDE DEF m, n
  <2> QED BY <1>2, <2>3, <2>4 DEF ObjectType
<1> QED BY <1>1, <1>2

----------------------------------------------------------------------------
(* Every step keeps the invariant.                                         *)

\* An object that is no entry of the cache may change, and entries may go.
LEMMA CacheFrame ==
  ASSUME CacheIsWhole, was' = was,
         \A i \in Ino : cache'[i] # 0 => cache'[i] = cache[i] /\ obj'[cache[i]] = obj[cache[i]]
  PROVE  CacheIsWhole'
<1>1. ASSUME NEW i \in Ino, cache'[i] # 0 PROVE Whole(obj'[cache'[i]], was')
  <2>1. cache'[i] = cache[i] /\ obj'[cache'[i]] = obj[cache[i]]
    BY <1>1
  <2> QED BY <1>1, <2>1 DEF CacheIsWhole
<1> QED BY <1>1 DEF CacheIsWhole, Whole, Covers, Follows, KeepsLines

\* A read that starts has no object yet.
LEMMA IdleTyped ==
  /\ Transcripts!Idle \in LoadType /\ Transcripts!Idle.phase = "idle" /\ Transcripts!Idle.obj = 0
  /\ [Transcripts!Idle EXCEPT !.phase = "open"] \in LoadType
  /\ [Transcripts!Idle EXCEPT !.phase = "open"].phase = "open"
  /\ [Transcripts!Idle EXCEPT !.phase = "open"].obj = 0
<1> DEFINE x == Transcripts!Idle
<1>1. <<>> \in Lines
  BY DEF Lines
<1>2. x \in LoadType /\ x.phase = "idle" /\ x.obj = 0
  BY <1>1 DEF Transcripts!Idle, Transcripts!NoObject, LoadType
<1> HIDE DEF x
<1>3. [x EXCEPT !.phase = "open"] \in LoadType /\ [x EXCEPT !.phase = "open"].phase = "open"
      /\ [x EXCEPT !.phase = "open"].obj = 0
  BY <1>2 DEF LoadType
<1> QED BY <1>2, <1>3 DEF x

\* A write adds a version: what held of the versions there were still does, and a read of
\* the inode that is written no longer counts.
LEMMA WriteKeeps == ASSUME StoreInv, Transcripts!Write PROVE StoreInv'
<1> USE DEF StoreInv
<1>1. PICK c \in Contents, i \in Ino :
        was' = Append(was, c) /\ path' = i /\ ino' = [ino EXCEPT ![i] = Len(was) + 1]
  BY DEF Transcripts!Write
<1>2. UNCHANGED <<cache, obj, load, req>>
  BY DEF Transcripts!Write
<1>3. /\ was' \in Seq(Contents) /\ was' # <<>> /\ Len(was') = Len(was) + 1 /\ Len(was) \in Nat
      /\ \A v \in 1..Len(was) : was'[v] = was[v] /\ v \in 1..Len(was')
  BY <1>1 DEF StoreTyped
<1>4. StoreTyped'
  <2>1. ino' \in [Ino -> 1..Len(was')]
    BY <1>1, <1>3 DEF StoreTyped
  <2> QED BY <1>1, <1>2, <1>3, <2>1 DEF StoreTyped
<1>5. ReadTyped' /\ OneEntryEach'
  BY <1>2, <1>3 DEF ReadTyped, OneEntryEach
<1>6. ASSUME NEW o, Whole(o, was) PROVE Whole(o, was')
  BY <1>3, <1>6 DEF Whole
<1>7. CacheIsWhole'
  BY <1>2, <1>6 DEF CacheIsWhole
<1>8. ReadIsTrue'
  <2> SUFFICES ASSUME load.phase \in Busy, ino'[load.ino] = load.info
               PROVE  ReadSoFar(load, obj[load.obj], was')
    BY <1>2 DEF ReadIsTrue
  <2>1. load.ino \in Ino /\ load.info \in 1..Len(was)
    BY DEF ReadTyped
  <2>2. ino[load.ino] = load.info
    BY <1>1, <1>3, <2>1 DEF StoreTyped
  <2>3. ReadSoFar(load, obj[load.obj], was)
    BY <2>2 DEF ReadIsTrue
  <2>4. was'[load.info] = was[load.info]
    BY <1>3, <2>1
  <2> QED BY <1>6, <2>3, <2>4 DEF ReadSoFar, Fits
<1> QED BY <1>4, <1>5, <1>7, <1>8

\* A request that comes, or resumes, leaves the store alone but for the read it may start.
LEMMA AskKeeps == ASSUME StoreInv, NEW r \in Reader, Transcripts!Ask(r) PROVE StoreInv'
<1> USE DEF StoreInv
<1>1. UNCHANGED <<was, ino, path, cache, obj>>
  BY DEF Transcripts!Ask
<1>2. PICK kind \in {"transcript", "record"} : req' = [req EXCEPT ![r].kind = kind, ![r].phase = "loading"]
  BY DEF Transcripts!Ask
<1>3. /\ req' \in [Reader -> RequestType]
      /\ \A s \in Reader : req'[s].phase = "status" => req'[s].obj # 0
  <2>1. req[r] \in RequestType
    BY DEF StoreTyped
  <2> DEFINE q == [[req[r] EXCEPT !.kind = kind] EXCEPT !.phase = "loading"]
  <2>2. q \in RequestType /\ q.phase = "loading"
    BY <2>1 DEF RequestType
  <2>3. req' = [req EXCEPT ![r] = q]
    BY <1>2 DEF StoreTyped
  <2> HIDE DEF q
  <2> QED BY <2>2, <2>3 DEF StoreTyped
<1>4. load' = load \/ (load.phase = "idle" /\ load' = [Transcripts!Idle EXCEPT !.phase = "open"])
  BY DEF Transcripts!Ask
<1>5. CASE load' = load
  BY <1>1, <1>3, <1>5 DEF StoreTyped, ReadTyped, OneEntryEach, CacheIsWhole, ReadIsTrue, ReadSoFar,
     Reading, Covers, Follows, KeepsLines, Whole, Fits
<1>6. CASE load.phase = "idle" /\ load' = [Transcripts!Idle EXCEPT !.phase = "open"]
  <2>1. load' \in LoadType /\ load'.phase = "open" /\ load'.obj = 0
    BY <1>6, IdleTyped
  <2>2. StoreTyped' /\ ReadTyped' /\ OneEntryEach' /\ ReadIsTrue'
    BY <1>1, <1>3, <2>1 DEF StoreTyped, ReadTyped, OneEntryEach, ReadIsTrue, Busy
  <2>3. CacheIsWhole'
    BY <1>1 DEF CacheIsWhole, Whole, Covers, Follows, KeepsLines
  <2> QED BY <2>2, <2>3
<1> QED BY <1>4, <1>5, <1>6

LEMMA AnswerKeeps == ASSUME StoreInv, NEW r \in Reader, Transcripts!Answer(r) PROVE StoreInv'
<1> USE DEF StoreInv
<1>1. UNCHANGED <<was, ino, path, cache, obj, load>>
  BY DEF Transcripts!Answer
<1>2. /\ req' \in [Reader -> RequestType]
      /\ \A s \in Reader : req'[s].phase = "status" => req'[s].obj # 0
  <2>1. req[r] \in RequestType /\ req[r].phase = "status"
    BY DEF StoreTyped, Transcripts!Answer
  <2> DEFINE x == obj[req[r].obj]
             q == [req[r] EXCEPT !.phase = "done", !.obj = 0, !.lines = x.lines,
                                 !.version = x.version, !.start = x.start]
  <2>2. req[r].obj \in Object
    BY <2>1 DEF StoreTyped, RequestType
  <2>3. x.lines \in Lines /\ x.version \in Nat /\ x.start \in Nat
    BY <2>2 DEF StoreTyped, ObjectType
  <2>4. req' = [req EXCEPT ![r] = q]
    BY DEF Transcripts!Answer, Transcripts!NoObject
  <2> HIDE DEF x
  <2>5. q \in RequestType /\ q.phase = "done"
    BY <2>1, <2>3 DEF RequestType
  <2> HIDE DEF q
  <2> QED BY <2>4, <2>5 DEF StoreTyped
<1> QED BY <1>1, <1>2 DEF StoreTyped, ReadTyped, OneEntryEach, CacheIsWhole, ReadIsTrue, ReadSoFar,
     Reading, Covers, Follows, KeepsLines, Whole, Fits

\* The path is opened: the entry of its inode leaves the cache, and is read on if it fits.
LEMMA OpenKeeps == ASSUME StoreInv, Transcripts!Open PROVE StoreInv'
<1> USE DEF StoreInv
<1> DEFINE v == ino[path]
           cached == cache[path]
           reuse == cached # Transcripts!NoObject /\ Transcripts!SizesFit(obj[cached], v)
           o == IF reuse THEN cached ELSE Transcripts!Unused
           next == IF reuse THEN "verify" ELSE "bytes"
           f == Transcripts!Fresh(was[v])
<1>1. /\ load.phase = "open"
      /\ load' = [load EXCEPT !.ino = path, !.info = v, !.obj = o, !.reuse = reuse, !.buffer = <<>>,
                              !.phase = next]
      /\ cache' = [cache EXCEPT ![path] = 0]
      /\ obj' = IF reuse THEN obj ELSE [obj EXCEPT ![o] = f]
      /\ UNCHANGED <<was, ino, path, req>>
  BY DEF Transcripts!Open, Transcripts!Taken, Transcripts!NoObject
<1>2. /\ path \in Ino /\ v \in 1..Len(was) /\ was[v] \in Contents /\ cached \in Object \cup {0}
      /\ Len(was) \in Nat /\ was \in Seq(Contents)
  BY DEF StoreTyped
<1>3. Transcripts!Unused \in Object /\ Transcripts!Unused \notin Transcripts!InUse
  BY <1>1, SomeUnused
<1>4. o \in Object /\ \A i \in Ino : cache'[i] # o
  <2>1. CASE reuse
    <3>1. o = cached /\ o # 0 /\ o \in Object
      BY <1>2, <2>1 DEF Transcripts!NoObject
    <3>2. \A i \in Ino : cache[i] = cached => i = path
      BY <1>2, <3>1 DEF OneEntryEach
    <3> QED BY <1>1, <1>2, <3>1, <3>2 DEF StoreTyped
  <2>2. CASE ~reuse
    <3>1. o = Transcripts!Unused /\ o \in Object /\ o # 0
      BY <1>3, <2>2 DEF Object, Transcripts!Object
    <3>2. \A i \in Ino : cache[i] # o
      BY <1>3, <3>1 DEF Transcripts!InUse
    <3> HIDE DEF o
    <3> QED BY <1>1, <1>2, <3>1, <3>2 DEF StoreTyped
  <2> QED BY <2>1, <2>2
<1>5. f \in ObjectType /\ Follows(f, was[v]) /\ KeepsLines(f)
  BY <1>2, FreshFollows
<1>6. reuse \in BOOLEAN /\ next \in Busy /\ next # "idle" /\ <<>> \in Lines /\ v \in Nat
  BY <1>2 DEF Busy, Lines
<1>7. reuse => cached # 0 /\ Whole(obj[cached], was) /\ Fits(obj[cached], was, v)
  BY <1>2 DEF Transcripts!NoObject, CacheIsWhole, Transcripts!SizesFit, Fits
<1>8. /\ next = "verify" => reuse /\ o = cached
      /\ next = "bytes" => ~reuse
      /\ next \in {"verify", "bytes"}
  OBVIOUS
<1> HIDE DEF v, cached, reuse, o, next, f
<1>9. load' \in LoadType /\ load'.phase = next /\ load'.obj = o /\ load'.ino = path /\ load'.info = v
      /\ load'.reuse = reuse /\ load'.buffer = <<>>
  <2>1. load \in LoadType
    BY DEF StoreTyped
  <2> QED BY <1>1, <1>2, <1>4, <1>6, <2>1 DEF LoadType
<1>10. obj' \in [Object -> ObjectType] /\ (~reuse => obj'[o] = f) /\ (reuse => obj' = obj)
       /\ \A x \in Object \ {o} : obj'[x] = obj[x]
  BY <1>1, <1>4, <1>5 DEF StoreTyped
<1>11. cache' \in [Ino -> Object \cup {0}] /\ cache'[path] = 0
       /\ \A i \in Ino : cache'[i] # 0 => cache'[i] = cache[i]
  BY <1>1, <1>2 DEF StoreTyped
<1>12. StoreTyped'
  BY <1>1, <1>9, <1>10, <1>11 DEF StoreTyped
<1>13. ReadTyped'
  BY <1>1, <1>2, <1>4, <1>6, <1>9, <1>11 DEF ReadTyped
<1>14. OneEntryEach'
  BY <1>11 DEF OneEntryEach
<1>15. CacheIsWhole'
  <2>1. \A i \in Ino : cache'[i] # 0 => cache'[i] = cache[i] /\ obj'[cache[i]] = obj[cache[i]]
    BY <1>4, <1>10, <1>11
  <2> QED BY <1>1, <2>1, CacheFrame
<1>16. ReadIsTrue'
  <2>1. CASE reuse
    <3>1. next = "verify" /\ obj'[load'.obj] = obj[cached]
      BY <1>8, <1>9, <1>10, <2>1
    <3>2. ReadSoFar(load', obj[cached], was)
      BY <1>7, <1>9, <2>1, <3>1 DEF ReadSoFar
    <3> QED BY ZenonT(60), <1>1, <3>1, <3>2 DEF ReadIsTrue, ReadSoFar, Reading, Covers, Follows, KeepsLines, Whole,
               Fits
  <2>2. CASE ~reuse
    <3>1. next = "bytes" /\ obj'[load'.obj] = f
      BY <1>8, <1>9, <1>10, <2>2
    <3>2. Reading(load', f, was[v])
      <4>1. f.offset \in Nat /\ f.offset \div 2 \in Nat /\ was[v].size \div 2 \in Nat
        BY <1>2, <1>5, ContentTyped DEF ObjectType
      <4>2. f.offset \div 2 + Len(load'.buffer) = f.offset \div 2 /\ f.offset \div 2 <= was[v].size \div 2
        BY <1>5, <1>9, <4>1 DEF Follows
      <4>3. SubSeq(was[v].text, f.offset \div 2 + 1, f.offset \div 2) = <<>>
        BY <4>1, SubSeqEmpty
      <4> QED BY <1>5, <1>9, <4>2, <4>3 DEF Reading
    <3>3. ReadSoFar(load', f, was)
      BY <1>9, <3>1, <3>2 DEF ReadSoFar
    <3> QED BY <1>1, <3>1, <3>3 DEF ReadIsTrue, ReadSoFar, Reading, Covers, Follows, KeepsLines, Whole,
               Fits
  <2> QED BY <2>1, <2>2
<1> QED BY <1>12, <1>13, <1>14, <1>15, <1>16

\* A read that has its object goes on with it, or with another that is nobody's: the state
\* of the read is all there is to show.
LEMMA ReadFrame ==
  ASSUME StoreInv, load.phase \in Busy, UNCHANGED <<was, ino, path, cache, req>>,
         NEW l \in LoadType, load' = l, l.phase \in Busy, l.ino = load.ino, l.info = load.info,
         NEW x \in ObjectType, l.obj = load.obj \/ l.obj \notin Transcripts!InUse, l.obj \in Object,
         obj' = [obj EXCEPT ![l.obj] = x],
         ino[load.ino] = load.info => ReadSoFar(l, x, was)
  PROVE  StoreInv'
<1> USE DEF StoreInv
<1>1. \A i \in Ino : cache[i] # l.obj
  BY DEF ReadTyped, Transcripts!InUse
<1>2. StoreTyped'
  BY DEF StoreTyped
<1>3. ReadTyped' /\ OneEntryEach'
  BY <1>1 DEF ReadTyped, OneEntryEach
<1>4. CacheIsWhole'
  <2>1. \A i \in Ino : cache'[i] # 0 => cache'[i] = cache[i] /\ obj'[cache[i]] = obj[cache[i]]
    BY <1>1 DEF StoreTyped
  <2> QED BY <2>1, CacheFrame
<1>5. obj'[l.obj] = x
  BY DEF StoreTyped
<1>6. ReadIsTrue'
  BY ZenonT(60), <1>5 DEF ReadIsTrue, ReadSoFar, Reading, Covers, Follows, KeepsLines, Whole, Fits
<1> QED BY <1>2, <1>3, <1>4, <1>6

\* What is known of a read under way, and of the version it began with.
LEMMA ReadFacts ==
  ASSUME StoreInv, load.phase \in Busy
  PROVE  /\ load \in LoadType /\ load.ino \in Ino /\ load.info \in 1..Len(was) /\ load.obj \in Object
         /\ obj[load.obj] \in ObjectType /\ was \in Seq(Contents)
         /\ was[load.info] \in Contents /\ was[ino[load.ino]] \in Contents
         /\ ino[load.ino] = load.info => ReadSoFar(load, obj[load.obj], was)
BY DEF StoreInv, StoreTyped, ReadTyped, ReadIsTrue

LEMMA VerifyKeeps == ASSUME StoreInv, Transcripts!Verify PROVE StoreInv'
<1> DEFINE x == obj[load.obj]
           c == was[load.info]
           now == was[ino[load.ino]]
           same == IF load.phase = "verify" THEN x.marks = Transcripts!Marks(now, x.offset)
                   ELSE x.kept = Transcripts!Bytes(now, x.start, x.offset)
           grown == c.size > x.size
           p == IF load.phase = "verify" /\ grown THEN "retained" ELSE "bytes"
           o == Transcripts!Unused
<1>1. /\ load.phase \in {"verify", "retained"} /\ load.phase \in Busy
      /\ UNCHANGED <<was, ino, path, cache, req>>
      /\ IF same THEN load' = [load EXCEPT !.phase = p] /\ obj' = obj
         ELSE /\ load' = [load EXCEPT !.phase = "bytes", !.reuse = FALSE, !.obj = o]
              /\ obj' = [obj EXCEPT ![o] = Transcripts!Fresh(c)]
  BY DEF Transcripts!Verify, Transcripts!Held, Transcripts!Now, Busy
<1>2. /\ load \in LoadType /\ load.ino \in Ino /\ load.info \in 1..Len(was) /\ load.obj \in Object
      /\ x \in ObjectType /\ c \in Contents /\ was \in Seq(Contents)
      /\ ino[load.ino] = load.info => ReadSoFar(load, x, was)
  BY <1>1, ReadFacts
<1>3. ino[load.ino] = load.info =>
        /\ load.reuse /\ load.buffer = <<>> /\ Whole(x, was) /\ Fits(x, was, load.info) /\ now = c
  BY <1>1, <1>2 DEF ReadSoFar
<1>4. CASE same
  <2> DEFINE l == [load EXCEPT !.phase = p]
  <2>1. /\ l \in LoadType /\ l.phase = p /\ l.ino = load.ino /\ l.info = load.info /\ l.obj = load.obj
        /\ l.reuse = load.reuse /\ l.buffer = load.buffer /\ p \in {"retained", "bytes"} /\ p \in Busy
    BY <1>2 DEF LoadType, Busy
  <2>2. load' = l /\ obj' = [obj EXCEPT ![l.obj] = x]
    <3>1. obj' = obj /\ obj = [obj EXCEPT ![load.obj] = x]
      BY <1>1, <1>2, <1>4 DEF StoreInv, StoreTyped
    <3> QED BY <1>1, <1>4, <2>1, <3>1
  <2>3. p = "bytes" => load.phase = "retained" \/ ~grown
    BY <1>1
  <2>4. load.phase = "retained" => x.kept = Transcripts!Bytes(now, x.start, x.offset)
    BY <1>4
  <2>5. c.size \in Nat /\ x.size \in Nat /\ x.offset \in Nat /\ x.offset \div 2 \in Nat
    <3>1. x.offset \in Nat /\ x.size \in Nat
      BY <1>2 DEF ObjectType
    <3>2. c.size \in Nat
      BY <1>2, ContentTyped
    <3> QED BY <3>1, <3>2, Halves
  <2> HIDE DEF l, p, same
  <2>6. ASSUME ino[load.ino] = load.info PROVE ReadSoFar(l, x, was)
    <3>1. CASE p = "retained"
      BY <1>3, <2>1, <2>6, <3>1 DEF ReadSoFar
    <3>2. CASE p = "bytes"
      <4>1. c.size <= x.size \/ x.kept = Transcripts!Bytes(c, x.start, x.offset)
        BY <1>3, <2>3, <2>4, <2>5, <2>6, <3>2
      <4> HIDE DEF x, grown, now
      <4>2. Follows(x, c) /\ KeepsLines(x)
        BY <1>2, <1>3, <2>6, <4>1, VerifiedFollows
      <4>3. x.offset \div 2 + Len(l.buffer) = x.offset \div 2 /\ x.offset \div 2 <= c.size \div 2
        BY <1>3, <2>1, <2>5, <2>6, <4>2 DEF Follows
      <4>4. SubSeq(c.text, x.offset \div 2 + 1, x.offset \div 2) = <<>>
        BY <2>5, SubSeqEmpty
      <4>5. Reading(l, x, c)
        BY <1>3, <2>1, <2>6, <4>2, <4>3, <4>4 DEF Reading
      <4> QED BY <2>1, <3>2, <4>5 DEF ReadSoFar
    <3> QED BY <2>1, <3>1, <3>2
  <2> HIDE DEF x
  <2> QED BY <1>1, <1>2, <2>1, <2>2, <2>6, ReadFrame
<1>5. CASE ~same
  <2> DEFINE l == [load EXCEPT !.phase = "bytes", !.reuse = FALSE, !.obj = o]
             f == Transcripts!Fresh(c)
  <2>1. o \in Object /\ o \notin Transcripts!InUse
    BY <1>1, SomeUnused DEF StoreInv
  <2>2. /\ l \in LoadType /\ l.phase = "bytes" /\ l.ino = load.ino /\ l.info = load.info /\ l.obj = o
        /\ l.reuse = FALSE /\ l.buffer = load.buffer /\ "bytes" \in Busy
    BY <1>2, <2>1 DEF LoadType, Busy
  <2>3. f \in ObjectType /\ Follows(f, c) /\ KeepsLines(f)
    BY <1>2, FreshFollows
  <2>4. load' = l /\ obj' = [obj EXCEPT ![l.obj] = f]
    BY <1>1, <1>5, <2>2
  <2> HIDE DEF l, f
  <2>5. ASSUME ino[load.ino] = load.info PROVE ReadSoFar(l, f, was)
    <3>1. f.offset \in Nat /\ f.offset \div 2 \in Nat /\ c.size \div 2 \in Nat
      <4>1. f.offset \in Nat
        BY <2>3 DEF ObjectType
      <4>2. c.size \in Nat
        BY <1>2, ContentTyped
      <4> QED BY <4>1, <4>2, Halves
    <3>2. f.offset \div 2 + Len(l.buffer) = f.offset \div 2 /\ f.offset \div 2 <= c.size \div 2
      BY <1>3, <2>2, <2>3, <2>5, <3>1 DEF Follows
    <3>3. SubSeq(c.text, f.offset \div 2 + 1, f.offset \div 2) = <<>>
      BY <3>1, SubSeqEmpty
    <3>4. Reading(l, f, c)
      BY <1>3, <2>2, <2>3, <2>5, <3>2, <3>3 DEF Reading
    <3> QED BY <2>2, <3>4 DEF ReadSoFar
  <2>6. l.obj \in Object /\ l.obj \notin Transcripts!InUse
    BY <2>1, <2>2
  <2> HIDE DEF o
  <2> QED BY <1>1, <1>2, <2>2, <2>3, <2>4, <2>5, <2>6, ReadFrame
<1> QED BY <1>4, <1>5

LEMMA ReadBytesKeeps == ASSUME StoreInv, Transcripts!ReadBytes PROVE StoreInv'
<1> DEFINE x == obj[load.obj]
           c == was[load.info]
           now == was[ino[load.ino]]
           k == x.offset \div 2
           z == c.size \div 2
           from == x.offset + 2 * Len(load.buffer)
           rest == Transcripts!Bytes(now, from, c.size)
<1>1. /\ load.phase = "bytes" /\ load.phase \in Busy /\ UNCHANGED <<was, ino, path, cache, req>>
      /\ IF rest = <<>>
         THEN /\ obj' = [obj EXCEPT ![load.obj] = Transcripts!Parsed(x, load.buffer)]
              /\ load' = [load EXCEPT !.phase = IF load.reuse /\ load.buffer = <<>> THEN "marks" ELSE "generation"]
         ELSE /\ \E n \in 1 .. Len(rest) : load' = [load EXCEPT !.buffer = @ \o SubSeq(rest, 1, n)]
              /\ obj' = obj
  BY DEF Transcripts!ReadBytes, Transcripts!Held, Transcripts!Now, Busy
<1>2. /\ load \in LoadType /\ load.ino \in Ino /\ load.info \in 1..Len(was) /\ load.obj \in Object
      /\ x \in ObjectType /\ c \in Contents /\ now \in Contents /\ was \in Seq(Contents)
      /\ ino[load.ino] = load.info => ReadSoFar(load, x, was)
  BY <1>1, ReadFacts
<1>3. ino[load.ino] = load.info => Reading(load, x, c) /\ now = c
  BY <1>1, <1>2 DEF ReadSoFar
<1>4. /\ x.offset \in Nat /\ k \in Nat /\ z \in Nat /\ load.buffer \in Lines /\ Len(load.buffer) \in Nat
      /\ from \in Nat /\ from \div 2 = k + Len(load.buffer) /\ c.size \in Nat
  <2>1. x.offset \in Nat /\ load.buffer \in Lines
    BY <1>2 DEF ObjectType, LoadType
  <2>2. c.size \in Nat
    BY <1>2, ContentTyped
  <2>3. Len(load.buffer) \in Nat
    BY <2>1 DEF Lines
  <2>4. k \in Nat /\ z \in Nat
    BY <2>1, <2>2, Halves
  <2>5. from \div 2 = k + Len(load.buffer)
    BY <2>1, <2>3, Halves, Zenon
  <2>6. from \in Nat
    BY <2>1, <2>3
  <2> HIDE DEF k, z, from
  <2> QED BY <2>1, <2>2, <2>3, <2>4, <2>5, <2>6
<1>5. rest \in Lines
  BY <1>2, <1>4, BytesTyped
<1>6. now = c => rest = SubSeq(c.text, k + Len(load.buffer) + 1, z)
  BY <1>4 DEF Transcripts!Bytes, Transcripts!Least
<1>7. z <= Len(c.text) /\ c.text \in Lines
  BY <1>2, ContentTyped
<1> HIDE DEF x, c, now, k, z, from, rest
<1>8. CASE rest = <<>>
  <2> DEFINE q == Transcripts!Parsed(x, load.buffer)
             p == IF load.reuse /\ load.buffer = <<>> THEN "marks" ELSE "generation"
             l == [load EXCEPT !.phase = p]
  <2>1. /\ l \in LoadType /\ l.phase = p /\ l.ino = load.ino /\ l.info = load.info /\ l.obj = load.obj
        /\ l.reuse = load.reuse /\ l.buffer = load.buffer /\ p \in Busy
    BY <1>2 DEF LoadType, Busy
  <2>2. q \in ObjectType /\ (load.buffer = <<>> => q = x)
    BY <1>2, <1>4, ParsedTyped
  <2>3. load' = l /\ obj' = [obj EXCEPT ![l.obj] = q]
    BY <1>1, <1>8, <2>1
  <2>4. p \in {"marks", "generation"} /\ (p = "marks" => load.reuse /\ load.buffer = <<>>)
    OBVIOUS
  <2> HIDE DEF q, p, l
  <2>5. ASSUME ino[load.ino] = load.info PROVE ReadSoFar(l, q, was)
    <3>1. k + Len(load.buffer) = z
      <4>1. SubSeq(c.text, k + Len(load.buffer) + 1, z) = <<>>
        BY <1>3, <1>6, <1>8, <2>5
      <4>2. Len(SubSeq(c.text, k + Len(load.buffer) + 1, z))
              = IF k + Len(load.buffer) + 1 <= z THEN z - (k + Len(load.buffer) + 1) + 1 ELSE 0
        <5>1. k + Len(load.buffer) + 1 \in Nat \ {0}
          BY <1>4
        <5> QED BY <1>4, <1>7, <5>1, PieceTyped
      <4>3. k + Len(load.buffer) <= z
        BY <1>3, <2>5 DEF Reading, k, z
      <4>4. Len(SubSeq(c.text, k + Len(load.buffer) + 1, z)) = 0
        <5>1. Len(<<>>) = 0
          OBVIOUS
        <5> QED BY <4>1, <5>1, Zenon
      <4> QED BY <1>4, <4>2, <4>3, <4>4
    <3>2. Covers(q, c)
      BY <1>2, <1>3, <2>5, <3>1, ParsedCovers DEF k, z, q
    <3>3. p = "marks" => KeepsLines(q)
      BY <1>3, <2>2, <2>4, <2>5 DEF Reading
    <3> QED BY <2>1, <2>4, <3>2, <3>3 DEF ReadSoFar, c
  <2> QED BY <1>1, <1>2, <2>1, <2>2, <2>3, <2>5, ReadFrame
<1>9. CASE rest # <<>>
  <2>1. PICK n \in 1..Len(rest) : load' = [load EXCEPT !.buffer = @ \o SubSeq(rest, 1, n)]
    BY <1>1, <1>9
  <2> DEFINE more == SubSeq(rest, 1, n)
             l == [load EXCEPT !.buffer = load.buffer \o more]
  <2>2. n \in Nat /\ n >= 1 /\ n <= Len(rest) /\ Len(rest) \in Nat
    BY <1>5, <2>1 DEF Lines
  <2>3. more \in Lines /\ Len(more) = n
    <3>1. 1 \in Nat \ {0}
      OBVIOUS
    <3>2. more \in Lines /\ Len(more) = IF 1 <= n THEN n - 1 + 1 ELSE 0
      BY <1>5, <2>2, <3>1, PieceTyped
    <3> QED BY <2>2, <3>2
  <2> HIDE DEF more
  <2>4. load.buffer \o more \in Lines /\ Len(load.buffer \o more) = Len(load.buffer) + n
    <3>1. load.buffer \in Seq(Line) /\ more \in Seq(Line)
      BY <1>4, <2>3 DEF Lines
    <3> QED BY <2>3, <3>1, ConcatProperties DEF Lines
  <2>5. /\ l \in LoadType /\ l.phase = "bytes" /\ l.ino = load.ino /\ l.info = load.info /\ l.obj = load.obj
        /\ l.reuse = load.reuse /\ l.buffer = load.buffer \o more /\ "bytes" \in Busy
    BY <1>1, <1>2, <2>4 DEF LoadType, Busy
  <2>6. load' = l /\ obj' = [obj EXCEPT ![l.obj] = x]
    <3>1. obj = [obj EXCEPT ![load.obj] = x]
      BY <1>2 DEF StoreInv, StoreTyped, x
    <3> QED BY <1>1, <1>9, <2>1, <2>5, <3>1 DEF more
  <2> HIDE DEF l
  <2>7. ASSUME ino[load.ino] = load.info PROVE ReadSoFar(l, x, was)
    <3>1. Reading(load, x, c) /\ now = c
      BY <1>3, <2>7
    <3>2. k + Len(load.buffer) <= z /\ load.buffer = SubSeq(c.text, k + 1, k + Len(load.buffer))
      BY <3>1 DEF Reading, k, z
    <3>3. Len(rest) = IF k + Len(load.buffer) + 1 <= z THEN z - (k + Len(load.buffer) + 1) + 1 ELSE 0
      <4>1. k + Len(load.buffer) + 1 \in Nat \ {0}
        BY <1>4
      <4>2. Len(SubSeq(c.text, k + Len(load.buffer) + 1, z))
              = IF k + Len(load.buffer) + 1 <= z THEN z - (k + Len(load.buffer) + 1) + 1 ELSE 0
        BY <1>4, <1>7, <4>1, PieceTyped
      <4> QED BY <1>6, <3>1, <4>2
    <3>4. k + Len(load.buffer) + n <= z
      BY <1>4, <2>2, <3>2, <3>3
    <3>5. load.buffer \o more = SubSeq(c.text, k + 1, k + Len(load.buffer) + n)
      <4>1. /\ k + Len(load.buffer) <= c.size \div 2 /\ k + Len(load.buffer) + n <= c.size \div 2
            /\ more = SubSeq(SubSeq(c.text, k + Len(load.buffer) + 1, c.size \div 2), 1, n)
        BY <1>6, <3>1, <3>2, <3>4 DEF z, more
      <4> HIDE DEF more
      <4>2. load.buffer \o SubSeq(SubSeq(c.text, k + Len(load.buffer) + 1, c.size \div 2), 1, n)
              = SubSeq(c.text, k + 1, k + Len(load.buffer) + n)
        <5>1. c \in Contents /\ k \in Nat /\ load.buffer \in Lines /\ n \in Nat /\ n >= 1
          BY <1>2, <1>4, <2>2
        <5>2. load.buffer = SubSeq(c.text, k + 1, k + Len(load.buffer))
          BY <3>2
        <5>3. k + Len(load.buffer) <= c.size \div 2
          BY <4>1
        <5>4. k + Len(load.buffer) + n <= c.size \div 2
          BY <4>1
        <5> DEFINE bb == load.buffer
        <5> HIDE DEF bb
        <5>5. bb \in Lines /\ bb = SubSeq(c.text, k + 1, k + Len(bb)) /\ k + Len(bb) <= c.size \div 2
              /\ k + Len(bb) + n <= c.size \div 2
          BY <5>1, <5>2, <5>3, <5>4, Zenon DEF bb
        <5>6. bb \o SubSeq(SubSeq(c.text, k + Len(bb) + 1, c.size \div 2), 1, n)
                = SubSeq(c.text, k + 1, k + Len(bb) + n)
          BY <5>1, <5>5, BufferGrows, Zenon
        <5> QED BY <5>6, Zenon DEF bb
      <4> QED BY <4>1, <4>2
    <3>6. Reading(l, x, c)
      <4>1. Follows(x, c) /\ (l.reuse => KeepsLines(x))
        BY <2>5, <3>1 DEF Reading
      <4>2. k + Len(l.buffer) = k + Len(load.buffer) + n
        <5>1. Len(l.buffer) = Len(load.buffer) + n
          BY <2>4, <2>5
        <5> QED BY <1>4, <2>2, <5>1
      <4> QED BY <2>5, <3>4, <3>5, <4>1, <4>2 DEF Reading, k, z
    <3> QED BY <2>5, <3>6 DEF ReadSoFar, c
  <2> QED BY <1>1, <1>2, <2>5, <2>6, <2>7, ReadFrame
<1> QED BY <1>8, <1>9

LEMMA RememberKeeps == ASSUME StoreInv, Transcripts!Remember PROVE StoreInv'
<1> DEFINE x == obj[load.obj]
           c == was[load.info]
           now == was[ino[load.ino]]
           held == Transcripts!Bytes(now, x.start, x.offset)
           marks == Transcripts!Marks(now, x.offset)
           p == IF load.phase = "generation" THEN "marks" ELSE "stat"
           q == IF load.phase = "generation" THEN [x EXCEPT !.kept = held] ELSE [x EXCEPT !.marks = marks]
           l == [load EXCEPT !.phase = p]
<1>1. /\ load.phase \in {"generation", "marks"} /\ load.phase \in Busy
      /\ UNCHANGED <<was, ino, path, cache, req>>
      /\ obj' = [obj EXCEPT ![load.obj] = q] /\ load' = l
  BY DEF Transcripts!Remember, Transcripts!Held, Transcripts!Now, Busy
<1>2. /\ load \in LoadType /\ load.ino \in Ino /\ load.info \in 1..Len(was) /\ load.obj \in Object
      /\ x \in ObjectType /\ c \in Contents /\ now \in Contents
      /\ ino[load.ino] = load.info => ReadSoFar(load, x, was)
  BY <1>1, ReadFacts
<1>3. x.start \in Nat /\ x.offset \in Nat
  BY <1>2 DEF ObjectType
<1>4. held \in Lines /\ marks \in [prefix: Lines, boundary: Lines]
  BY <1>2, <1>3, BytesTyped, MarksTyped
<1>5. /\ l \in LoadType /\ l.phase = p /\ l.ino = load.ino /\ l.info = load.info /\ l.obj = load.obj
      /\ p \in Busy
  BY <1>2 DEF LoadType, Busy
<1> HIDE DEF held, marks
<1>6. /\ q \in ObjectType /\ q.start = x.start /\ q.offset = x.offset /\ q.lines = x.lines
      /\ load.phase = "generation" => q.kept = held
      /\ load.phase # "generation" => q.kept = x.kept
  BY <1>2, <1>4 DEF ObjectType
<1>7. c.size \in Nat
  BY <1>2, ContentTyped
<1> HIDE DEF q, l, x, now
<1>8. ASSUME ino[load.ino] = load.info PROVE ReadSoFar(l, q, was)
  <2>1. Covers(x, c) /\ (load.phase = "marks" => KeepsLines(x)) /\ now = c
    BY <1>1, <1>2, <1>8 DEF ReadSoFar, now
  <2>2. Covers(q, c)
    BY <1>6, <2>1 DEF Covers, Follows
  <2>3. KeepsLines(q)
    <3>1. CASE load.phase = "marks"
      BY <1>6, <2>1, <3>1 DEF KeepsLines
    <3>2. CASE load.phase = "generation" /\ x.start = 0
      <4>1. Transcripts!Least(x.offset, c.size) \div 2 = x.offset \div 2
        BY <1>3, <1>7, <2>1 DEF Transcripts!Least, Covers
      <4>2. 0 \div 2 + 1 = 1
        OBVIOUS
      <4>3. held = SubSeq(c.text, 1, x.offset \div 2)
        BY <2>1, <3>2, <4>1, <4>2 DEF held, Transcripts!Bytes
      <4>4. x.lines = SubSeq(c.text, 1, x.offset \div 2)
        BY <2>1, <3>2 DEF Covers, Follows, Transcripts!FirstLine
      <4> QED BY <1>6, <3>2, <4>3, <4>4 DEF KeepsLines
    <3> QED BY <1>1, <1>6, <3>1, <3>2 DEF KeepsLines
  <2> QED BY <1>5, <2>2, <2>3 DEF ReadSoFar
<1> QED BY <1>1, <1>2, <1>5, <1>6, <1>8, ReadFrame

\* The requests that wait are given an object, or the failure.
LEMMA ResolveTyped ==
  ASSUME StoreTyped, NEW o \in Object \cup {0}, NEW x, x \in ObjectType \/ o = 0,
         Transcripts!Resolve(o, x)
  PROVE  /\ req' \in [Reader -> RequestType]
         /\ \A r \in Reader : req'[r].phase = "status" => req'[r].obj # 0
<1> DEFINE next(r) ==
             IF req[r].phase # "loading" THEN req[r]
             ELSE IF o = 0 THEN [req[r] EXCEPT !.phase = "failed"]
             ELSE IF req[r].kind = "transcript" THEN [req[r] EXCEPT !.phase = "status", !.obj = o]
             ELSE [req[r] EXCEPT !.phase = "done", !.lines = x.lines, !.version = x.version, !.start = x.start]
<1>1. req' = [r \in Reader |-> next(r)]
  BY DEF Transcripts!Resolve, Transcripts!NoObject
<1>2. ASSUME NEW r \in Reader
      PROVE  next(r) \in RequestType /\ (next(r).phase = "status" => next(r).obj # 0)
  <2>1. req[r] \in RequestType /\ (req[r].phase = "status" => req[r].obj # 0)
    BY DEF StoreTyped
  <2>2. [req[r] EXCEPT !.phase = "failed"] \in RequestType /\ [req[r] EXCEPT !.phase = "failed"].phase = "failed"
    BY <2>1 DEF RequestType
  <2>3. CASE req[r].phase = "loading" /\ o # 0
    <3>1. x.lines \in Lines /\ x.version \in Nat /\ x.start \in Nat
      BY <2>3 DEF ObjectType
    <3>2. /\ [req[r] EXCEPT !.phase = "status", !.obj = o] \in RequestType
          /\ [req[r] EXCEPT !.phase = "status", !.obj = o].obj = o
      BY <2>1 DEF RequestType
    <3> DEFINE d == [req[r] EXCEPT !.phase = "done", !.lines = x.lines, !.version = x.version, !.start = x.start]
    <3>3. d \in RequestType /\ d.phase = "done"
      BY <2>1, <3>1 DEF RequestType
    <3> HIDE DEF d
    <3>4. next(r) = IF req[r].kind = "transcript" THEN [req[r] EXCEPT !.phase = "status", !.obj = o] ELSE d
      BY <2>3 DEF d
    <3> HIDE DEF next
    <3> QED BY <2>3, <3>2, <3>3, <3>4
  <2>4. CASE ~(req[r].phase = "loading" /\ o # 0)
    <3>1. next(r) = req[r] \/ next(r) = [req[r] EXCEPT !.phase = "failed"]
      BY <2>4
    <3> HIDE DEF next
    <3> QED BY <2>1, <2>2, <3>1
  <2> QED BY <2>3, <2>4
<1> HIDE DEF next
<1> QED BY <1>1, <1>2

\* A read that ends without an object leaves the store as it is.
LEMMA EndKeeps ==
  ASSUME StoreInv, UNCHANGED <<was, ino, path, cache, obj>>, load' \in LoadType,
         load'.phase \in {"idle", "open"}, load'.obj = 0,
         req' \in [Reader -> RequestType],
         \A r \in Reader : req'[r].phase = "status" => req'[r].obj # 0
  PROVE  StoreInv'
<1>1. StoreTyped' /\ ReadTyped' /\ OneEntryEach' /\ ReadIsTrue'
  BY DEF StoreInv, StoreTyped, ReadTyped, OneEntryEach, ReadIsTrue, Busy
<1>2. CacheIsWhole'
  BY CacheFrame DEF StoreInv
<1> QED BY <1>1, <1>2 DEF StoreInv

LEMMA OpenFailsKeeps == ASSUME StoreInv, Transcripts!OpenFails PROVE StoreInv'
<1>1. /\ UNCHANGED <<was, ino, path, cache, obj>> /\ load' = Transcripts!Idle
      /\ Transcripts!Resolve(0, Transcripts!Idle)
  BY DEF Transcripts!OpenFails, Transcripts!NoObject
<1>2. /\ req' \in [Reader -> RequestType]
      /\ \A r \in Reader : req'[r].phase = "status" => req'[r].obj # 0
  BY <1>1, ResolveTyped DEF StoreInv
<1> QED BY <1>1, <1>2, IdleTyped, EndKeeps

\* A read that saw one version puts its object in the cache.
LEMMA StatKeeps == ASSUME StoreInv, Transcripts!Stat PROVE StoreInv'
<1> DEFINE x == obj[load.obj]
           c == was[load.info]
           o == [x EXCEPT !.size = c.size, !.version = load.info]
<1>1. load.phase = "stat" /\ load.phase \in Busy /\ UNCHANGED <<was, ino, path>>
  BY DEF Transcripts!Stat, Busy
<1>2. /\ load \in LoadType /\ load.ino \in Ino /\ load.info \in 1..Len(was) /\ load.obj \in Object
      /\ x \in ObjectType /\ c \in Contents /\ was \in Seq(Contents)
      /\ ino[load.ino] = load.info => ReadSoFar(load, x, was)
  BY <1>1, ReadFacts
<1>3. c.size \in Nat /\ load.info \in Nat
  BY <1>2, ContentTyped
<1>4. /\ o \in ObjectType /\ o.size = c.size /\ o.version = load.info /\ o.start = x.start
      /\ o.offset = x.offset /\ o.lines = x.lines /\ o.kept = x.kept
  BY <1>2, <1>3 DEF ObjectType
<1>5. CASE ino[load.ino] = load.info
  <2>1. PICK evicted \in SUBSET Ino :
          /\ obj' = [obj EXCEPT ![load.obj] = o]
          /\ cache' = [i \in Ino |-> IF i \in evicted THEN 0 ELSE IF i = load.ino THEN load.obj ELSE cache[i]]
          /\ load' = Transcripts!Idle /\ Transcripts!Resolve(load.obj, o)
    BY <1>1, <1>5 DEF Transcripts!Stat, Transcripts!Unaltered, Transcripts!Stamped, Transcripts!Held,
       Transcripts!NoObject
  <2> HIDE DEF o
  <2>2. /\ req' \in [Reader -> RequestType]
        /\ \A r \in Reader : req'[r].phase = "status" => req'[r].obj # 0
    BY <1>2, <1>4, <2>1, ResolveTyped DEF StoreInv
  <2>3. /\ obj' \in [Object -> ObjectType] /\ obj'[load.obj] = o
        /\ \A y \in Object \ {load.obj} : obj'[y] = obj[y]
    BY <1>2, <1>4, <2>1 DEF StoreInv, StoreTyped
  <2>4. /\ cache' \in [Ino -> Object \cup {0}]
        /\ \A i \in Ino : \/ cache'[i] = 0
                          \/ i = load.ino /\ cache'[i] = load.obj
                          \/ i # load.ino /\ cache'[i] = cache[i]
    BY <1>2, <2>1 DEF StoreInv, StoreTyped
  <2>5. \A i \in Ino : cache[i] # load.obj
    BY <1>1 DEF StoreInv, ReadTyped
  <2>6. StoreTyped' /\ ReadTyped' /\ ReadIsTrue'
    BY <1>1, <2>1, <2>2, <2>3, <2>4, IdleTyped DEF StoreInv, StoreTyped, ReadTyped, ReadIsTrue, Busy
  <2>7. OneEntryEach'
    BY <2>4, <2>5 DEF StoreInv, OneEntryEach
  <2>8. Whole(o, was)
    <3>1. Covers(x, c) /\ KeepsLines(x)
      BY <1>1, <1>2, <1>5 DEF ReadSoFar
    <3>2. Covers(o, c) /\ KeepsLines(o)
      BY <1>4, <3>1 DEF Covers, Follows, KeepsLines
    <3> QED BY <1>2, <1>4, <3>2 DEF Whole
  <2>9. ASSUME NEW i \in Ino, cache'[i] # 0 PROVE Whole(obj'[cache'[i]], was)
    <3>1. CASE cache'[i] = load.obj
      BY <2>3, <2>8, <3>1
    <3>2. CASE cache'[i] = cache[i] /\ cache'[i] # load.obj
      <4>1. cache[i] \in Object \ {load.obj} /\ Whole(obj[cache[i]], was)
        BY <2>9, <3>2 DEF StoreInv, StoreTyped, CacheIsWhole
      <4> QED BY <2>3, <3>2, <4>1
    <3> QED BY <2>4, <2>9, <3>1, <3>2
  <2>10. CacheIsWhole'
    BY <1>1, <2>9 DEF CacheIsWhole, Whole, Covers, Follows, KeepsLines
  <2> QED BY <2>6, <2>7, <2>10 DEF StoreInv
<1>6. CASE ino[load.ino] # load.info
  <2>1. /\ UNCHANGED <<cache, obj>>
        /\ \/ load' = [Transcripts!Idle EXCEPT !.phase = "open", !.attempt = load.attempt + 1] /\ req' = req
           \/ load' = Transcripts!Idle /\ Transcripts!Resolve(0, Transcripts!Idle)
    BY <1>1, <1>6 DEF Transcripts!Stat, Transcripts!Unaltered, Transcripts!NoObject
  <2>2. CASE load' = [Transcripts!Idle EXCEPT !.phase = "open", !.attempt = load.attempt + 1] /\ req' = req
    <3> DEFINE z == Transcripts!Idle
    <3>1. z \in LoadType /\ z.obj = 0
      BY IdleTyped
    <3>2. load.attempt + 1 \in Nat
      BY <1>2 DEF LoadType
    <3>3. load' = [z EXCEPT !.phase = "open", !.attempt = load.attempt + 1]
      BY <2>2
    <3> HIDE DEF z
    <3>4. load' \in LoadType /\ load'.phase = "open" /\ load'.obj = 0
      BY <3>1, <3>2, <3>3 DEF LoadType
    <3> QED BY <1>1, <2>1, <2>2, <3>4, EndKeeps DEF StoreInv, StoreTyped
  <2>3. CASE load' = Transcripts!Idle /\ Transcripts!Resolve(0, Transcripts!Idle)
    <3>1. /\ req' \in [Reader -> RequestType]
          /\ \A r \in Reader : req'[r].phase = "status" => req'[r].obj # 0
      BY <2>3, ResolveTyped DEF StoreInv
    <3> QED BY <1>1, <2>1, <2>3, <3>1, IdleTyped, EndKeeps
  <2> QED BY <2>1, <2>2, <2>3
<1> QED BY <1>5, <1>6

LEMMA StepStore == StoreInv /\ [Transcripts!Next]_store => StoreInv'
<1>1. ASSUME StoreInv, Transcripts!Next PROVE StoreInv'
  BY <1>1, WriteKeeps, AskKeeps, AnswerKeeps, OpenKeeps, OpenFailsKeeps, VerifyKeeps, ReadBytesKeeps,
     RememberKeeps, StatKeeps DEF Transcripts!Next
<1>2. ASSUME StoreInv, UNCHANGED store PROVE StoreInv'
  BY <1>2 DEF store, StoreInv, StoreTyped, ReadTyped, OneEntryEach, CacheIsWhole, ReadIsTrue, ReadSoFar,
     Reading, Covers, Follows, KeepsLines, Whole, Fits
<1> QED BY <1>1, <1>2

LEMMA InitStore == Transcripts!Init => StoreInv
<1> SUFFICES ASSUME Transcripts!Init PROVE StoreInv
  OBVIOUS
<1>1. PICK c \in Contents : was = <<c>>
  BY DEF Transcripts!Init
<1>2. was \in Seq(Contents) /\ was # <<>> /\ Len(was) = 1 /\ was[1] = c
  BY <1>1
<1>3. Transcripts!Fresh(was[1]) \in ObjectType
  BY <1>2, FreshFollows
<1>4. /\ path \in Ino /\ ino = [i \in Ino |-> 1] /\ cache = [i \in Ino |-> 0] /\ load = Transcripts!Idle
      /\ obj = [o \in Object |-> Transcripts!Fresh(was[1])]
      /\ req = [r \in Reader |-> Transcripts!NotAsked]
  BY DEF Transcripts!Init, Transcripts!NoObject, Object
<1>5. Transcripts!NotAsked \in RequestType /\ Transcripts!NotAsked.phase = "idle"
  BY DEF Transcripts!NotAsked, Transcripts!NoObject, RequestType, Lines
<1>6. StoreTyped
  BY <1>2, <1>3, <1>4, <1>5, IdleTyped DEF StoreTyped
<1> QED BY <1>4, <1>6, IdleTyped DEF StoreInv, ReadTyped, OneEntryEach, CacheIsWhole, ReadIsTrue, Busy

\* Whatever is written to a session's file, and whenever, an entry of the transcripts'
\* cache (bridge/transcript.ts) holds the lines of the one version it is stamped with.
THEOREM TranscriptsCacheIsTrue == MCSpec => []CacheIsTrue
<1>1. MCInit => Transcripts!Init
  BY DEF MCInit
<1>2. [MCNext]_<<vars, store, part>> => [Transcripts!Next]_store
  BY DEF MCNext
<1>3. StoreInv => CacheIsTrue
  <2> SUFFICES ASSUME StoreInv, NEW i \in Ino, cache[i] # 0
               PROVE  LET o == obj[cache[i]] IN o.version > 0 /\ o.lines = Transcripts!LinesOf(was[o.version], o.start)
    BY DEF CacheIsTrue, Transcripts!CacheIsTrue, Transcripts!NoObject
  <2>1. Whole(obj[cache[i]], was) /\ was \in Seq(Contents)
    BY DEF StoreInv, StoreTyped, CacheIsWhole
  <2> DEFINE o == obj[cache[i]]
             c == was[o.version]
  <2>2. o.version \in 1..Len(was) /\ Len(was) \in Nat
    BY <2>1 DEF Whole
  <2>3. o.lines = SubSeq(c.text, Transcripts!FirstLine(o.start), c.size \div 2)
    BY <2>1 DEF Whole, Covers, Follows
  <2>4. o.version > 0
    BY <2>2
  <2> HIDE DEF o, c
  <2>5. o.lines = Transcripts!LinesOf(c, o.start)
    BY <2>3 DEF Transcripts!LinesOf
  <2> QED BY <2>4, <2>5 DEF o, c
<1> QED BY <1>1, <1>2, <1>3, InitStore, StepStore, PTL DEF MCSpec

----------------------------------------------------------------------------
(* What the push subscriptions keep.                                       *)

Keys == {c.key : c \in Config} \union {NoKey}
AllEps == Endpoint \union Endpoints(InitialFile) \union {NoEndpoint}
Owners == {x.owner : x \in InitialFile} \union {"local", "unrestricted", "nobody", None, Me.device}
Entries == [ep: AllEps, owner: Owners]
Senders == Flow \union {"nobody"}

MutationType ==
  [op: {"add", "remove", "inactive", "dead"}, ep: Endpoint \union {NoEndpoint}, eps: SUBSET AllEps,
   owner: Owners, from: Senders \union {"cast"}, stage: {"queued", "writing", "renamed"},
   next: SUBSET Entries]

FlowType ==
  [pc: {"idle", "config", "lookup", "renew", "subscribe", "post", "disable", "delete", "look", "status",
        "register"},
   sub: Endpoint \union {NoEndpoint}, key: Keys, created: BOOLEAN, off: BOOLEAN, alone: BOOLEAN,
   reply: {"none", "ok", "error"}]

CastType ==
  [pc: {"idle", "pruning", "sending", "pruningDead"}, to: SUBSET AllEps, dead: SUBSET AllEps, quiet: BOOLEAN]

PushTyped ==
  /\ cfg \in Config /\ file \subseteq Entries /\ subs \subseteq Entries
  /\ chain \in Seq(MutationType)
  /\ cast \in CastType
  /\ wire \subseteq [op: {"add", "remove"}, ep: Endpoint, from: Senders]
  /\ mine \in Endpoint \union {NoEndpoint} /\ keyOf \in [Endpoint -> Keys] /\ alive \subseteq Endpoint
  /\ optedOut \in BOOLEAN /\ flow \in [Flow -> FlowType]

\* An endpoint that was never made is nowhere.
Nowhere(e) ==
  /\ e # mine /\ e \notin alive /\ e \notin kept
  /\ e \notin Endpoints(file) /\ e \notin Endpoints(subs)
  /\ e \notin cast.to /\ e \notin cast.dead
  /\ \A r \in wire : r.ep # e
  /\ \A i \in DOMAIN chain : chain[i].ep # e /\ e \notin chain[i].eps
  /\ \A f \in Flow : flow[f].sub # e
UnmadeIsNowhere == \A e \in Endpoint : keyOf[e] = NoKey => Nowhere(e)

FlowsSound ==
  /\ \A f \in Flow :
       /\ flow[f].pc \in {"lookup", "renew", "subscribe"} => flow[f].key # NoKey
       /\ flow[f].pc \in {"renew", "post", "delete", "status", "register"} => flow[f].sub # NoEndpoint
  /\ flow["setup"].pc \in {"idle", "config", "lookup", "renew", "subscribe", "post"}

\* A flow c waits for the answer to a request.
Awaits(c, op, e) ==
  /\ c.reply = "none" /\ c.sub = e
  /\ IF op = "add" THEN c.pc \in {"post", "register"} ELSE c.pc = "delete"

FlowsWait ==
  /\ \A r \in wire : r.from \in Flow => Awaits(flow[r.from], r.op, r.ep)
  /\ \A i \in DOMAIN chain : chain[i].from \in Flow => Awaits(flow[chain[i].from], chain[i].op, chain[i].ep)
  /\ \A i, j \in DOMAIN chain : chain[i].from \in Flow /\ chain[i].from = chain[j].from => i = j
  /\ \A r \in wire, i \in DOMAIN chain : ~(r.from \in Flow /\ r.from = chain[i].from)

MutationSound(m) ==
  /\ m.op \in {"add", "remove"} <=> m.from # "cast"
  /\ m.op \in {"add", "remove"} => m.ep # NoEndpoint
  /\ m.op = "add" => m.owner # None /\ OwnerIsActive(m.owner, cfg)
  /\ m.eps \intersect alive = {}

HeadSound(m) ==
  /\ m.stage # "queued" =>
       /\ m.next = Apply(m, subs).next
       /\ m.op = "add" => Apply(m, subs).result = "stored"
       /\ m.op = "remove" => Apply(m, subs).result = "removed"
  /\ m.stage = "renamed" => file = m.next

ChainSound ==
  /\ \A i \in DOMAIN chain : MutationSound(chain[i]) /\ (i # 1 => chain[i].stage = "queued")
  /\ chain # <<>> => HeadSound(chain[1])

Bounded(s) == IsFiniteSet(s) /\ Cardinality(s) <= MaxSubs
StoreSound ==
  /\ Bounded(file) /\ Bounded(subs)
  /\ \A x \in subs : OwnerIsActive(x.owner, cfg)
  /\ \A x \in file \union subs : x.ep \in Endpoint => x.owner # None

Renamed == chain # <<>> /\ chain[1].stage = "renamed"

Durable ==
  /\ kept \intersect alive \subseteq Endpoints(file) \intersect Endpoints(subs)
  /\ gone \intersect Endpoints(file) \subseteq unswept
  /\ ~Renamed => (Endpoints(file) \intersect Endpoint) \ Endpoints(subs) \subseteq unswept
  /\ ~Renamed => gone \intersect Endpoints(subs) \subseteq unswept

NothingAdds ==
  /\ flow["setup"].pc = "idle"
  /\ \A r \in wire : r.op # "add"
  /\ \A i \in DOMAIN chain : chain[i].op # "add"

AloneSound ==
  LET c == flow["control"]
  IN  c.alone /\ c.pc \in {"disable", "delete"} =>
        /\ NothingAdds
        /\ c.pc = "delete" => mine \in {c.sub, NoEndpoint} /\ (c.reply = "ok" => c.sub \in gone)

OffSound ==
  LET c == flow["control"]
  IN  off = "yes" =>
        /\ optedOut /\ NothingAdds
        /\ c.pc \in {"idle", "look", "disable", "delete"} /\ (c.pc = "look" => c.off)
        /\ mine = NoEndpoint \/ mine \in gone

CastSound ==
  /\ cast.dead \intersect alive = {}
  /\ cast.quiet /\ mine # NoEndpoint => mine \notin cast.to
  /\ ~rude

PushInv ==
  /\ PushTyped /\ UnmadeIsNowhere /\ FlowsSound /\ FlowsWait /\ ChainSound /\ StoreSound /\ Durable
  /\ AloneSound /\ OffSound /\ CastSound

\* The lemmas below hold of any number of endpoints, entries and requests.
LEMMA PushConstants ==
  /\ MaxSubs \in Nat /\ MaxEndpoints \in Nat
  /\ NoEndpoint \notin Endpoint /\ Endpoint \subseteq AllEps
  /\ Endpoints(InitialFile) \subseteq AllEps /\ Endpoints(InitialFile) \intersect Endpoint = {}
  /\ InitialFile \subseteq Entries /\ Bounded(InitialFile)
<1>1. NoEndpoint \notin Endpoint /\ Endpoint \subseteq AllEps /\ Endpoints(InitialFile) \subseteq AllEps
  BY PushAssumption DEF Endpoint, NoEndpoint, AllEps
<1>2. Endpoints(InitialFile) \intersect Endpoint = {}
  BY PushAssumption DEF Endpoints
<1>3. ASSUME NEW x \in InitialFile PROVE x \in Entries
  <2>1. x = [ep |-> x.ep, owner |-> x.owner] /\ x.ep \in AllEps /\ x.owner \in Owners
    BY PushAssumption DEF Entry, AllEps, Endpoints, Owners
  <2> QED BY <2>1 DEF Entries
<1> QED BY <1>1, <1>2, <1>3, PushAssumption DEF Bounded

----------------------------------------------------------------------------
(* Who owns a subscription.                                                *)

LEMMA OwnersTyped ==
  ASSUME NEW c
  PROVE  OwnerOf(DeviceAuth(Me, c)) \in Owners /\ ActorOf(DeviceAuth(Me, c)) \in Owners
<1>1. DeviceAuth(Me, c).device \in {None, Me.device}
  BY DEF DeviceAuth
<1> QED BY <1>1 DEF OwnerOf, ActorOf, Owners

\* Whoever may write has an owner, and one that is allowed.
LEMMA GuardedOwner ==
  ASSUME NEW c, Guard(Me, c, "write")
  PROVE  OwnerOf(DeviceAuth(Me, c)) # None /\ OwnerIsActive(OwnerOf(DeviceAuth(Me, c)), c)
<1> DEFINE auth == DeviceAuth(Me, c)
<1>1. CASE ~c.deviceHeader
  <2>1. auth.enforced = FALSE
    BY <1>1 DEF DeviceAuth
  <2> HIDE DEF auth
  <2>2. OwnerOf(auth) = "unrestricted"
    BY <2>1 DEF OwnerOf
  <2> QED BY <1>1, <2>2, PushAssumption DEF OwnerIsActive, auth
<1>2. CASE c.deviceHeader
  <2>1. auth.enforced = TRUE /\ auth.device = Me.device
    BY <1>2 DEF DeviceAuth
  <2>2. Me.device # None => Me.device \in c.allow
    <3>1. auth.authorized
      BY DEF Guard
    <3> QED BY <1>2, <3>1 DEF DeviceAuth
  <2> HIDE DEF auth
  <2>3. CASE Me.device = None
    <3>1. OwnerOf(auth) = "local"
      BY <2>1, <2>3 DEF OwnerOf
    <3> QED BY <3>1, PushAssumption DEF OwnerIsActive, auth
  <2>4. CASE Me.device # None
    <3>1. OwnerOf(auth) = Me.device
      BY <2>1, <2>4 DEF OwnerOf
    <3> QED BY <2>2, <2>4, <3>1, PushAssumption DEF OwnerIsActive, auth
  <2> QED BY <2>3, <2>4
<1> QED BY <1>1, <1>2

----------------------------------------------------------------------------
(* What the operators on sets of entries do.                               *)

LEMMA EntryTyped ==
  ASSUME NEW e \in AllEps, NEW o \in Owners
  PROVE  Entry(e, o) \in Entries /\ Entry(e, o).ep = e /\ Entry(e, o).owner = o
BY DEF Entry, Entries

LEMMA EndpointsOf ==
  ASSUME NEW s, NEW e
  PROVE  /\ e \in Endpoints(s) <=> \E x \in s : x.ep = e
         /\ Of(s, e) = {} <=> e \notin Endpoints(s)
BY DEF Endpoints, Of

\* What a mutation makes of the map s, by what it is.
LEMMA AddApplied ==
  ASSUME NEW m, m.op = "add", NEW s
  PROVE  LET n == (s \ Of(s, m.ep)) \union {Entry(m.ep, m.owner)}
         IN  /\ Apply(m, s).result = "stored" => Apply(m, s).next = n
             /\ Apply(m, s).result # "stored" => Apply(m, s).result = "full" /\ Apply(m, s).next = s
             /\ Apply(m, s).result = "stored" => Of(s, m.ep) # {} \/ ~(Cardinality(s) >= MaxSubs)
<1>1. Apply(m, s) = IF Of(s, m.ep) = {} /\ Cardinality(s) >= MaxSubs THEN [next |-> s, result |-> "full"]
         ELSE [next |-> (s \ Of(s, m.ep)) \union {Entry(m.ep, m.owner)}, result |-> "stored"]
  BY DEF Apply
<1> QED BY <1>1

LEMMA RemoveApplied ==
  ASSUME NEW m, m.op = "remove", NEW s
  PROVE  /\ Apply(m, s).result = "removed" => Apply(m, s).next = s \ Of(s, m.ep)
         /\ Apply(m, s).result # "removed" => Apply(m, s).result = "forbidden" /\ Apply(m, s).next = s
<1>1. Apply(m, s) = IF \A x \in Of(s, m.ep) : Permitted(m.owner, x.owner)
         THEN [next |-> s \ Of(s, m.ep), result |-> "removed"]
         ELSE [next |-> s, result |-> "forbidden"]
  BY DEF Apply
<1> QED BY <1>1

LEMMA PruneApplied ==
  ASSUME NEW m, NEW s
  PROVE  /\ m.op = "inactive" => Apply(m, s) = [next |-> {x \in s : OwnerIsActive(x.owner, cfg)}, result |-> "done"]
         /\ m.op = "dead" => Apply(m, s) = [next |-> {x \in s : x.ep \notin m.eps}, result |-> "done"]
BY DEF Apply

\* It stays within the bound, and adds at most the entry it is for.
LEMMA ApplyBounded ==
  ASSUME NEW m \in MutationType, NEW s \in SUBSET Entries, Bounded(s)
  PROVE  /\ Bounded(Apply(m, s).next) /\ Apply(m, s).next \subseteq Entries
         /\ Apply(m, s).next \subseteq s \union {Entry(m.ep, m.owner)}
         /\ m.op # "add" => Apply(m, s).next \subseteq s
<1> DEFINE n == Apply(m, s).next
<1>1. m.ep \in AllEps /\ m.owner \in Owners /\ MaxSubs \in Nat
  BY PushConstants DEF MutationType, AllEps
<1>2. Entry(m.ep, m.owner) \in Entries
  BY <1>1, EntryTyped
<1>3. Cardinality(s) \in Nat
  BY FS_CardinalityType DEF Bounded
<1>4. ASSUME n \subseteq s PROVE Bounded(n) /\ n \subseteq Entries
  <2> HIDE DEF n
  <2>1. IsFiniteSet(n) /\ Cardinality(n) <= Cardinality(s)
    BY <1>4, FS_Subset DEF Bounded
  <2>2. Cardinality(n) \in Nat
    BY <2>1, FS_CardinalityType
  <2> QED BY <1>1, <1>3, <1>4, <2>1, <2>2 DEF Bounded
<1>5. CASE m.op = "add" /\ Apply(m, s).result = "stored"
  <2> DEFINE rest == s \ Of(s, m.ep)
             x == Entry(m.ep, m.owner)
  <2>1. n = rest \union {x} /\ (Of(s, m.ep) # {} \/ ~(Cardinality(s) >= MaxSubs))
    BY <1>5, AddApplied
  <2>2. rest \subseteq s /\ IsFiniteSet(rest) /\ Cardinality(rest) <= Cardinality(s)
    BY FS_Subset DEF Bounded
  <2>3. Of(s, m.ep) # {} => Cardinality(rest) # Cardinality(s)
    <3>1. Of(s, m.ep) \subseteq s
      BY DEF Of
    <3>2. Of(s, m.ep) # {} => rest # s
      BY <3>1
    <3> QED BY <2>2, <3>2, FS_Subset DEF Bounded
  <2>4. Cardinality(rest) \in Nat
    BY <2>2, FS_CardinalityType
  <2> HIDE DEF rest, x
  <2>5. IsFiniteSet(rest \union {x}) /\ Cardinality(rest \union {x}) <= Cardinality(rest) + 1
    BY <2>2, <2>4, FS_AddElement
  <2>6. Cardinality(rest \union {x}) \in Nat
    BY <2>5, FS_CardinalityType
  <2>7. Cardinality(rest \union {x}) <= MaxSubs
    BY <1>1, <1>3, <2>1, <2>2, <2>3, <2>4, <2>5, <2>6 DEF Bounded
  <2> HIDE DEF n
  <2>8. Bounded(n)
    BY <2>1, <2>5, <2>7 DEF Bounded
  <2> QED BY <1>2, <1>5, <2>1, <2>2, <2>8 DEF n, x
<1>6. CASE ~(m.op = "add" /\ Apply(m, s).result = "stored")
  <2>1. m.op \in {"add", "remove", "inactive", "dead"}
    BY DEF MutationType
  <2>2. n \subseteq s
    <3>1. CASE m.op = "add"
      BY <1>6, <3>1, AddApplied
    <3>2. CASE m.op = "remove"
      BY <3>2, RemoveApplied
    <3>3. CASE m.op = "inactive"
      BY <3>3, PruneApplied
    <3>4. CASE m.op = "dead"
      BY <3>4, PruneApplied
    <3> QED BY <2>1, <3>1, <3>2, <3>3, <3>4
  <2> QED BY <1>4, <2>2
<1> QED BY <1>5, <1>6

\* load() takes every entry of the file that can be used, since there are no more than it takes.
LEMMA LoadedUsable ==
  ASSUME NEW f \in SUBSET Entries, Bounded(f), NEW c
  PROVE  /\ Loaded(f, c) = {x \in {Adopt(y, c) : y \in f} : x.owner # None /\ OwnerIsActive(x.owner, c)}
         /\ Bounded(Loaded(f, c)) /\ Loaded(f, c) \subseteq Entries
         /\ Endpoints(Loaded(f, c)) \subseteq Endpoints(f)
<1> DEFINE adopted == {Adopt(y, c) : y \in f}
           usable == {x \in adopted : x.owner # None /\ OwnerIsActive(x.owner, c)}
           g == [y \in f |-> Adopt(y, c)]
<1>1. IsFiniteSet(f) /\ Cardinality(f) <= MaxSubs /\ MaxSubs \in Nat /\ Cardinality(f) \in Nat
  BY PushConstants, FS_CardinalityType DEF Bounded
<1>2. adopted = {g[y] : y \in f}
  OBVIOUS
<1>3. IsFiniteSet(adopted) /\ Cardinality(adopted) <= Cardinality(f)
  <2> HIDE DEF g
  <2>1. IsFiniteSet({g[y] : y \in f}) /\ Cardinality({g[y] : y \in f}) <= Cardinality(f)
    BY <1>1, ImageSize
  <2> HIDE DEF adopted
  <2> QED BY <1>2, <2>1
<1>4. usable \subseteq adopted
  OBVIOUS
<1>5. ASSUME NEW y \in f
      PROVE  Adopt(y, c) \in Entries /\ Adopt(y, c).ep = y.ep
  <2>1. y.ep \in AllEps /\ y \in Entries /\ "unrestricted" \in Owners /\ None \in Owners
    BY DEF Entries, Owners
  <2>2. CASE y.owner = None
    <3>1. Adopt(y, c) = Entry(y.ep, IF c.deviceHeader THEN None ELSE "unrestricted")
      BY <2>2 DEF Adopt
    <3> QED BY <2>1, <3>1, EntryTyped
  <2>3. CASE y.owner # None
    BY <2>1, <2>3 DEF Adopt
  <2> QED BY <2>2, <2>3
<1>6. Loaded(f, c) = CHOOSE s \in SUBSET usable : Cardinality(s) = IF Cardinality(usable) < MaxSubs
                                                    THEN Cardinality(usable) ELSE MaxSubs
  BY DEF Loaded
<1> HIDE DEF adopted, g
<1>7. IsFiniteSet(usable) /\ Cardinality(usable) <= Cardinality(adopted)
  BY <1>3, <1>4, FS_Subset
<1> HIDE DEF usable
<1>8. Cardinality(usable) \in Nat /\ Cardinality(adopted) \in Nat
  BY <1>3, <1>7, FS_CardinalityType
<1>9. (IF Cardinality(usable) < MaxSubs THEN Cardinality(usable) ELSE MaxSubs) = Cardinality(usable)
  BY <1>1, <1>3, <1>7, <1>8
<1>10. Loaded(f, c) = usable
  <2>1. \A s \in SUBSET usable : Cardinality(s) = Cardinality(usable) => s = usable
    BY <1>7, FS_Subset
  <2>2. usable \in SUBSET usable
    OBVIOUS
  <2>3. Loaded(f, c) = CHOOSE s \in SUBSET usable : Cardinality(s) = Cardinality(usable)
    BY <1>6, <1>9
  <2> QED BY <2>1, <2>2, <2>3
<1>11. usable \subseteq Entries /\ \A x \in usable : x.ep \in Endpoints(f)
  BY <1>5 DEF usable, adopted, Endpoints
<1>12. Bounded(usable)
  BY <1>1, <1>3, <1>7, <1>8 DEF Bounded
<1>13. Endpoints(usable) \subseteq Endpoints(f)
  BY <1>11, EndpointsOf
<1> QED BY <1>10, <1>11, <1>12, <1>13 DEF usable, adopted

----------------------------------------------------------------------------
(* The bridge.                                                             *)

LEMMA ChainTyped ==
  ASSUME PushTyped
  PROVE  /\ DOMAIN chain = 1..Len(chain) /\ Len(chain) \in Nat
         /\ \A i \in DOMAIN chain : chain[i] \in MutationType
         /\ chain # <<>> => 1 \in DOMAIN chain
BY DEF PushTyped

\* The mutations after the first.
LEMMA WithoutHead ==
  ASSUME PushTyped, chain # <<>>, chain' = Without(1)
  PROVE  /\ chain' \in Seq(MutationType)
         /\ \A k \in DOMAIN chain' : k + 1 \in DOMAIN chain /\ k \in Nat /\ chain'[k] = chain[k + 1]
<1>1. chain \in Seq(MutationType) /\ Len(chain) \in Nat /\ Len(chain) >= 1 /\ DOMAIN chain = 1..Len(chain)
  BY DEF PushTyped
<1>2. chain' = <<>> \o SubSeq(chain, 2, Len(chain))
  <2>1. SubSeq(chain, 1, 1 - 1) = <<>>
    BY SubSeqEmpty
  <2>2. 1 + 1 = 2
    OBVIOUS
  <2> QED BY <2>1, <2>2 DEF Without
<1>3. SubSeq(chain, 2, Len(chain)) = Tail(chain)
  BY <1>1
<1>4. Tail(chain) \in Seq(MutationType) /\ Len(Tail(chain)) = Len(chain) - 1
      /\ \A k \in 1..Len(Tail(chain)) : Tail(chain)[k] = chain[k + 1]
  BY <1>1
<1>5. chain' = Tail(chain)
  BY <1>2, <1>3, <1>4
<1>6. DOMAIN chain' = 1..Len(Tail(chain))
  BY <1>4, <1>5
<1> QED BY <1>1, <1>4, <1>5, <1>6

\* An answer changes nothing of the flows but the reply of the one that waits.
SameFlows == \A g \in Flow :
  /\ flow'[g].pc = flow[g].pc /\ flow'[g].sub = flow[g].sub /\ flow'[g].key = flow[g].key
  /\ flow'[g].off = flow[g].off /\ flow'[g].alone = flow[g].alone

LEMMA ReplyGiven ==
  ASSUME PushTyped, NEW f, NEW answer \in {"ok", "error"}, Reply(f, answer)
  PROVE  /\ flow' \in [Flow -> FlowType] /\ SameFlows
         /\ \A g \in Flow : g # f => flow'[g].reply = flow[g].reply
         /\ f \in Flow => flow'[f].reply = answer
<1>1. flow \in [Flow -> FlowType]
  BY DEF PushTyped
<1>2. CASE f \in Flow
  <2>1. flow' = [flow EXCEPT ![f].reply = answer]
    BY <1>2 DEF Reply
  <2> DEFINE q == [flow[f] EXCEPT !.reply = answer]
  <2>2. /\ q \in FlowType /\ q.pc = flow[f].pc /\ q.sub = flow[f].sub /\ q.key = flow[f].key
        /\ q.off = flow[f].off /\ q.alone = flow[f].alone /\ q.reply = answer
    BY <1>1, <1>2 DEF FlowType
  <2>3. flow' = [flow EXCEPT ![f] = q]
    BY <2>1
  <2> HIDE DEF q
  <2> QED BY <1>1, <1>2, <2>2, <2>3 DEF SameFlows
<1>3. CASE f \notin Flow
  BY <1>1, <1>3 DEF Reply, SameFlows
<1> QED BY <1>2, <1>3

LEMMA NoCastTyped == NoCast \in CastType /\ NoCast.to = {} /\ NoCast.dead = {} /\ ~NoCast.quiet
BY DEF NoCast, CastType

\* A mutation that settles leaves the chain to the next; what it is told is true of the
\* file and of the map now.
LEMMA SettleChanges ==
  ASSUME PushInv, chain # <<>>, NEW now \in SUBSET Entries,
         NEW result \in {"stored", "full", "removed", "forbidden", "done", "error"},
         Settle(1, chain[1], result, now),
         UNCHANGED <<cfg, file, wire, browser, unswept, off, rude>>,
         gone \intersect Endpoints(now) \subseteq unswept
  PROVE  /\ flow' \in [Flow -> FlowType] /\ SameFlows
         /\ cast' \in CastType /\ cast'.dead \subseteq cast.dead
         /\ cast'.to \subseteq cast.to \union Endpoints(now)
         /\ cast'.quiet /\ mine # NoEndpoint => mine \notin cast'.to
         /\ kept' \subseteq kept \union {chain[1].ep}
         /\ gone \subseteq gone'
         /\ chain[1].op = "remove" /\ chain[1].from # "cast" /\ result = "removed" => chain[1].ep \in gone'
         /\ \A g \in Flow : \/ flow'[g].reply = flow[g].reply
                            \/ /\ chain[1].from = g
                               /\ flow'[g].reply = "ok" => result \in {"stored", "removed"}
<1> DEFINE m == chain[1]
           answer == IF result \in {"stored", "removed"} THEN "ok" ELSE "error"
           q == off = "yes" /\ mine \notin unswept
<1>a. PushTyped /\ OffSound /\ CastSound
  BY DEF PushInv
<1>1. CASE m.from = "cast"
  <2>1. /\ \/ cast' = NoCast
           \/ cast' = [cast EXCEPT !.pc = "sending", !.to = Endpoints(now), !.quiet = q]
        /\ UNCHANGED <<flow, kept, gone>>
    BY <1>1 DEF Settle
  <2>2. q \in BOOLEAN
    OBVIOUS
  <2>3. /\ cast' \in CastType /\ cast'.dead \subseteq cast.dead
        /\ (cast'.to = Endpoints(now) /\ cast'.quiet = q) \/ (cast'.to = {} /\ ~cast'.quiet)
    <3>1. CASE cast' = NoCast
      BY <3>1, NoCastTyped
    <3>2. CASE cast' = [cast EXCEPT !.pc = "sending", !.to = Endpoints(now), !.quiet = q]
      <4>1. Endpoints(now) \in SUBSET AllEps
        BY DEF Endpoints, Entries
      <4>2. cast \in CastType
        BY <1>a DEF PushTyped
      <4> HIDE DEF q
      <4> QED BY <2>2, <3>2, <4>1, <4>2 DEF CastType
    <3> QED BY <2>1, <3>1, <3>2
  <2>4. cast'.quiet /\ mine # NoEndpoint => mine \notin cast'.to
    <3>1. CASE cast'.to = Endpoints(now) /\ cast'.quiet = q /\ q /\ mine # NoEndpoint
      <4>1. mine \in gone
        BY <1>a, <3>1 DEF OffSound
      <4> QED BY <3>1, <4>1
    <3> QED BY <2>3, <3>1
  <2>5. flow' \in [Flow -> FlowType] /\ SameFlows /\ kept' = kept /\ gone' = gone
        /\ \A g \in Flow : flow'[g].reply = flow[g].reply
    BY <1>a, <2>1 DEF PushTyped, SameFlows
  <2> HIDE DEF q
  <2> QED BY <1>1, <2>3, <2>4, <2>5
<1>2. CASE m.from # "cast"
  <2>1. /\ Reply(m.from, answer) /\ cast' = cast
        /\ kept' = IF result = "stored" THEN kept \union {m.ep} ELSE kept
        /\ gone' = IF m.op = "remove" /\ result = "removed" THEN gone \union {m.ep} ELSE gone
    BY <1>2 DEF Settle
  <2>2. answer \in {"ok", "error"} /\ (answer = "ok" => result \in {"stored", "removed"})
    OBVIOUS
  <2> HIDE DEF answer
  <2>3. /\ flow' \in [Flow -> FlowType] /\ SameFlows
        /\ \A g \in Flow : g # m.from => flow'[g].reply = flow[g].reply
        /\ m.from \in Flow => flow'[m.from].reply = answer
    BY <1>a, <2>1, <2>2, ReplyGiven
  <2>4. cast' \in CastType /\ (cast'.quiet /\ mine # NoEndpoint => mine \notin cast'.to)
    BY <1>a, <2>1 DEF PushTyped, CastSound
  <2>5. /\ kept' \subseteq kept \union {m.ep} /\ gone \subseteq gone'
        /\ m.op = "remove" /\ result = "removed" => m.ep \in gone'
    BY <2>1
  <2> HIDE DEF m
  <2>6. \A g \in Flow : \/ flow'[g].reply = flow[g].reply
                        \/ /\ m.from = g
                           /\ flow'[g].reply = "ok" => result \in {"stored", "removed"}
    BY <2>2, <2>3
  <2> QED BY <2>1, <2>3, <2>4, <2>5, <2>6 DEF m
<1> QED BY <1>1, <1>2

LEMMA SettleKeeps ==
  ASSUME PushInv, chain # <<>>, NEW now \in SUBSET Entries,
         NEW result \in {"stored", "full", "removed", "forbidden", "done", "error"},
         Settle(1, chain[1], result, now),
         UNCHANGED <<cfg, file, wire, browser, unswept, off, rude>>, subs' = now,
         chain[1].op = "remove" => result # "stored",
         Bounded(now),
         \A x \in now : OwnerIsActive(x.owner, cfg) /\ (x.ep \in Endpoint => x.owner # None),
         Endpoints(now) \subseteq Endpoints(subs) \union Endpoints(file),
         kept' \intersect alive \subseteq Endpoints(file) \intersect Endpoints(now),
         gone' \intersect Endpoints(file) \subseteq unswept,
         (Endpoints(file) \intersect Endpoint) \ Endpoints(now) \subseteq unswept,
         gone' \intersect Endpoints(now) \subseteq unswept
  PROVE  PushInv'
<1> DEFINE m == chain[1]
<1>a. PushTyped /\ UnmadeIsNowhere /\ FlowsSound /\ FlowsWait /\ ChainSound /\ StoreSound /\ Durable
      /\ AloneSound /\ OffSound /\ CastSound
  BY DEF PushInv
<1>b. UNCHANGED <<mine, keyOf, alive, optedOut>>
  BY DEF browser
<1>1. /\ chain' \in Seq(MutationType)
      /\ \A k \in DOMAIN chain' : k + 1 \in DOMAIN chain /\ k \in Nat /\ chain'[k] = chain[k + 1]
      /\ chain' # <<>> => 1 \in DOMAIN chain'
  <2>1. chain' = Without(1)
    BY DEF Settle
  <2>2. chain' \in Seq(MutationType)
        /\ \A k \in DOMAIN chain' : k + 1 \in DOMAIN chain /\ k \in Nat /\ chain'[k] = chain[k + 1]
    BY <1>a, <2>1, WithoutHead
  <2> QED BY <2>2
<1>2. m \in MutationType /\ 1 \in DOMAIN chain /\ MutationSound(m) /\ DOMAIN chain = 1..Len(chain)
  BY <1>a, ChainTyped DEF ChainSound
<1>3. \A k \in DOMAIN chain' : \E i \in DOMAIN chain : i # 1 /\ chain'[k] = chain[i]
  <2> SUFFICES ASSUME NEW k \in DOMAIN chain' PROVE \E i \in DOMAIN chain : i # 1 /\ chain'[k] = chain[i]
    OBVIOUS
  <2>1. k + 1 # 1
    <3>1. k \in 1..Len(chain')
      BY <1>1
    <3> QED BY <3>1
  <2> QED BY <1>1, <2>1
<1>4. gone \intersect Endpoints(now) \subseteq unswept
  <2>1. gone \subseteq gone'
    BY DEF Settle
  <2> QED BY <2>1
<1>5. /\ flow' \in [Flow -> FlowType] /\ SameFlows
      /\ cast' \in CastType /\ cast'.dead \subseteq cast.dead
      /\ cast'.to \subseteq cast.to \union Endpoints(now)
      /\ cast'.quiet /\ mine # NoEndpoint => mine \notin cast'.to
      /\ kept' \subseteq kept \union {m.ep}
      /\ gone \subseteq gone'
      /\ m.op = "remove" /\ m.from # "cast" /\ result = "removed" => m.ep \in gone'
      /\ \A g \in Flow : \/ flow'[g].reply = flow[g].reply
                         \/ /\ m.from = g
                            /\ flow'[g].reply = "ok" => result \in {"stored", "removed"}
  BY <1>4, SettleChanges
<1>c. file' = file /\ cfg' = cfg /\ wire' = wire /\ unswept' = unswept /\ off' = off /\ rude' = rude
  OBVIOUS
<1>6. PushTyped'
  BY <1>a, <1>b, <1>c, <1>1, <1>5 DEF PushTyped
<1>7. UnmadeIsNowhere'
  <2> SUFFICES ASSUME NEW e \in Endpoint, keyOf'[e] = NoKey PROVE Nowhere(e)'
    BY DEF UnmadeIsNowhere
  <2>1. Nowhere(e)
    BY <1>a, <1>b DEF UnmadeIsNowhere
  <2>2. e # mine' /\ e \notin alive' /\ e \notin Endpoints(file') /\ (\A r \in wire' : r.ep # e)
    BY <2>1, <1>b, <1>c DEF Nowhere
  <2>3. e \notin kept' /\ e \notin Endpoints(subs') /\ e \notin cast'.to /\ e \notin cast'.dead
    BY <2>1, <1>2, <1>5 DEF Nowhere
  <2>4. \A i \in DOMAIN chain' : chain'[i].ep # e /\ e \notin chain'[i].eps
    BY <2>1, <1>3 DEF Nowhere
  <2>5. \A f \in Flow : flow'[f].sub # e
    BY <2>1, <1>5 DEF Nowhere, SameFlows
  <2> QED BY <2>2, <2>3, <2>4, <2>5 DEF Nowhere
<1>8. FlowsSound'
  BY <1>a, <1>5 DEF FlowsSound, SameFlows, Flow
<1>9. FlowsWait'
  <2>1. ASSUME NEW g \in Flow, NEW op, NEW e, Awaits(flow[g], op, e), m.from # g
         PROVE  Awaits(flow'[g], op, e)
    BY <1>5, <2>1 DEF Awaits, SameFlows
  <2>2. \A r \in wire' : r.from \in Flow => Awaits(flow'[r.from], r.op, r.ep)
    BY <1>a, <1>c, <1>2, <2>1 DEF FlowsWait
  <2>3. \A i \in DOMAIN chain' : chain'[i].from \in Flow =>
          Awaits(flow'[chain'[i].from], chain'[i].op, chain'[i].ep)
    BY <1>a, <1>2, <1>3, <2>1 DEF FlowsWait
  <2>4. \A i, j \in DOMAIN chain' : chain'[i].from \in Flow /\ chain'[i].from = chain'[j].from => i = j
    <3> SUFFICES ASSUME NEW i \in DOMAIN chain', NEW j \in DOMAIN chain', chain'[i].from \in Flow,
                        chain'[i].from = chain'[j].from
                 PROVE  i = j
      OBVIOUS
    <3>1. i + 1 = j + 1
      BY <1>a, <1>1 DEF FlowsWait
    <3> QED BY <1>1, <3>1
  <2>5. \A r \in wire', i \in DOMAIN chain' : ~(r.from \in Flow /\ r.from = chain'[i].from)
    BY <1>a, <1>c, <1>3 DEF FlowsWait
  <2> QED BY <2>2, <2>3, <2>4, <2>5 DEF FlowsWait
<1>10. ChainSound'
  <2>1. \A i \in DOMAIN chain' : MutationSound(chain[i])' /\ chain'[i].stage = "queued"
    BY <1>a, <1>b, <1>c, <1>3 DEF ChainSound, MutationSound
  <2> QED BY <1>1, <2>1 DEF ChainSound, HeadSound
<1>11. StoreSound'
  BY <1>a, <1>c DEF StoreSound
<1>12. Durable'
  BY <1>b, <1>c DEF Durable
<1>13. NothingAdds => NothingAdds'
  BY <1>c, <1>3, <1>5 DEF NothingAdds, SameFlows, Flow
<1>14. AloneSound'
  <2> SUFFICES ASSUME flow'["control"].alone, flow'["control"].pc \in {"disable", "delete"}
               PROVE  /\ NothingAdds'
                      /\ flow'["control"].pc = "delete" =>
                           /\ mine' \in {flow'["control"].sub, NoEndpoint}
                           /\ flow'["control"].reply = "ok" => flow'["control"].sub \in gone'
    BY DEF AloneSound
  <2>1. "control" \in Flow /\ flow["control"].alone /\ flow["control"].pc = flow'["control"].pc
        /\ flow["control"].sub = flow'["control"].sub
    BY <1>5 DEF Flow, SameFlows
  <2>2. NothingAdds /\ (flow["control"].pc = "delete" =>
                          /\ mine \in {flow["control"].sub, NoEndpoint}
                          /\ flow["control"].reply = "ok" => flow["control"].sub \in gone)
    BY <1>a, <2>1 DEF AloneSound
  <2>3. ASSUME flow["control"].pc = "delete", flow'["control"].reply = "ok", flow["control"].reply # "ok"
        PROVE  flow["control"].sub \in gone'
    <3>1. m.from = "control" /\ result \in {"stored", "removed"}
      BY <1>5, <2>1, <2>3
    <3>2. m.op # "add" /\ m.ep = flow["control"].sub
      BY <1>a, <1>2, <2>1, <2>3, <3>1 DEF FlowsWait, Awaits
    <3>3. m.op = "remove"
      BY <1>2, <3>1, <3>2 DEF MutationSound
    <3> QED BY <1>5, <3>1, <3>2, <3>3
  <2> QED BY <1>b, <1>5, <1>13, <2>1, <2>2, <2>3
<1>15. OffSound'
  <2> SUFFICES ASSUME off' = "yes"
               PROVE  /\ optedOut' /\ NothingAdds'
                      /\ flow'["control"].pc \in {"idle", "look", "disable", "delete"}
                      /\ flow'["control"].pc = "look" => flow'["control"].off
                      /\ mine' = NoEndpoint \/ mine' \in gone'
    BY DEF OffSound
  <2>1. "control" \in Flow
    BY DEF Flow
  <2> QED BY <1>a, <1>b, <1>c, <1>5, <1>13, <2>1 DEF OffSound, SameFlows
<1>16. CastSound'
  BY <1>a, <1>b, <1>c, <1>5 DEF CastSound
<1> QED BY <1>6, <1>7, <1>8, <1>9, <1>10, <1>11, <1>12, <1>14, <1>15, <1>16 DEF PushInv

\* A mutation that moves to its next stage does to the map what it did before.
LEMMA ApplySame ==
  ASSUME NEW m, NEW n, n.op = m.op, n.ep = m.ep, n.eps = m.eps, n.owner = m.owner, NEW s
  PROVE  Apply(n, s) = Apply(m, s)
BY DEF Apply

LEMMA StageKeeps ==
  ASSUME PushInv, chain # <<>>, NEW n \in MutationType, chain' = [chain EXCEPT ![1] = n],
         n.op = chain[1].op, n.ep = chain[1].ep, n.eps = chain[1].eps, n.owner = chain[1].owner,
         n.from = chain[1].from,
         UNCHANGED <<cfg, subs, cast, flow, browser, wire, off, rude>>,
         file' \subseteq Entries, Bounded(file'),
         \A x \in file' : x.ep \in Endpoint => x.owner # None,
         Endpoints(file') \subseteq Endpoints(file) \union Endpoints(subs) \union {n.ep},
         kept' \subseteq kept, n.op # "add" => gone' = gone,
         n.stage # "queued" => /\ n.next = Apply(n, subs).next
                               /\ n.op = "add" => Apply(n, subs).result = "stored"
                               /\ n.op = "remove" => Apply(n, subs).result = "removed",
         n.stage = "renamed" => file' = n.next,
         Durable'
  PROVE  PushInv'
<1>a. PushTyped /\ UnmadeIsNowhere /\ FlowsSound /\ FlowsWait /\ ChainSound /\ StoreSound /\ Durable
      /\ AloneSound /\ OffSound /\ CastSound
  BY DEF PushInv
<1>b. /\ UNCHANGED <<mine, keyOf, alive, optedOut>>
      /\ cfg' = cfg /\ subs' = subs /\ cast' = cast /\ flow' = flow /\ wire' = wire /\ off' = off
      /\ rude' = rude
  BY DEF browser
<1>1. chain \in Seq(MutationType) /\ 1 \in DOMAIN chain
  BY <1>a, ChainTyped DEF PushTyped
<1>2. chain' \in Seq(MutationType) /\ DOMAIN chain' = DOMAIN chain /\ chain'[1] = n
      /\ \A i \in DOMAIN chain : i # 1 => chain'[i] = chain[i]
  BY <1>1
<1>3. \A i \in DOMAIN chain : /\ chain'[i].op = chain[i].op /\ chain'[i].ep = chain[i].ep
                              /\ chain'[i].eps = chain[i].eps /\ chain'[i].owner = chain[i].owner
                              /\ chain'[i].from = chain[i].from
  BY <1>2
<1>6. PushTyped'
  BY <1>a, <1>b, <1>2 DEF PushTyped
<1>7. UnmadeIsNowhere'
  <2> SUFFICES ASSUME NEW e \in Endpoint, keyOf'[e] = NoKey PROVE Nowhere(e)'
    BY DEF UnmadeIsNowhere
  <2>1. Nowhere(e)
    BY <1>a, <1>b DEF UnmadeIsNowhere
  <2>2. e \notin Endpoints(file') /\ e \notin kept'
    BY <2>1, <1>1 DEF Nowhere
  <2>4. \A i \in DOMAIN chain' : chain'[i].ep # e /\ e \notin chain'[i].eps
    BY <2>1, <1>2, <1>3 DEF Nowhere
  <2> QED BY <1>b, <2>1, <2>2, <2>4 DEF Nowhere
<1>8. FlowsSound'
  BY <1>a, <1>b DEF FlowsSound
<1>9. FlowsWait'
  BY <1>a, <1>b, <1>2, <1>3 DEF FlowsWait
<1>10. ChainSound'
  <2>1. \A i \in DOMAIN chain' : MutationSound(chain[i])' /\ (i # 1 => chain'[i].stage = "queued")
    BY <1>a, <1>b, <1>2, <1>3 DEF ChainSound, MutationSound
  <2>2. Apply(n, subs)' = Apply(n, subs)
    BY <1>b DEF Apply
  <2> QED BY <1>b, <1>2, <2>1, <2>2 DEF ChainSound, HeadSound
<1>11. StoreSound'
  BY <1>a, <1>b DEF StoreSound
<1>13. NothingAdds' = NothingAdds
  BY <1>b, <1>2, <1>3 DEF NothingAdds
<1>14. AloneSound'
  <2>1. NothingAdds => gone' = gone
    BY <1>1 DEF NothingAdds
  <2> QED BY <1>a, <1>b, <1>13, <2>1 DEF AloneSound
<1>15. OffSound'
  <2>1. NothingAdds => gone' = gone
    BY <1>1 DEF NothingAdds
  <2> QED BY <1>a, <1>b, <1>13, <2>1 DEF OffSound
<1>16. CastSound'
  BY <1>a, <1>b DEF CastSound
<1> QED BY <1>6, <1>7, <1>8, <1>9, <1>10, <1>11, <1>14, <1>15, <1>16 DEF PushInv

\* What is made of the map by the first mutation of the chain.
LEMMA HeadResult ==
  ASSUME PushInv, chain # <<>>
  PROVE  LET m == chain[1]
             next == Apply(m, subs).next
         IN  /\ m \in MutationType /\ MutationSound(m) /\ 1 \in DOMAIN chain
             /\ Apply(m, subs).result \in {"stored", "full", "removed", "forbidden", "done"}
             /\ Bounded(next) /\ next \subseteq Entries
             /\ \A x \in next : OwnerIsActive(x.owner, cfg) /\ (x.ep \in Endpoint => x.owner # None)
             /\ Endpoints(next) \subseteq Endpoints(subs) \union {m.ep}
             /\ m.op = "add" /\ Apply(m, subs).result = "stored" =>
                  Endpoints(next) = Endpoints(subs) \union {m.ep}
             /\ m.op = "add" /\ Apply(m, subs).result # "stored" => next = subs
             /\ m.op = "remove" /\ Apply(m, subs).result = "removed" =>
                  Endpoints(next) = Endpoints(subs) \ {m.ep}
             /\ m.op = "remove" => Apply(m, subs).result \in {"removed", "forbidden"}
             /\ m.op = "remove" /\ Apply(m, subs).result # "removed" => next = subs
             /\ m.op # "add" => Apply(m, subs).result # "stored" /\ next \subseteq subs
             /\ m.op \notin {"add", "remove"} => Endpoints(subs) \intersect alive \subseteq Endpoints(next)
<1> DEFINE m == chain[1]
           next == Apply(m, subs).next
           result == Apply(m, subs).result
<1>a. PushTyped /\ ChainSound /\ StoreSound
  BY DEF PushInv
<1>1. m \in MutationType /\ MutationSound(m) /\ 1 \in DOMAIN chain
  BY <1>a, ChainTyped DEF ChainSound
<1>2. subs \in SUBSET Entries /\ Bounded(subs)
  BY <1>a DEF PushTyped, StoreSound
<1>3. /\ Bounded(next) /\ next \subseteq Entries /\ next \subseteq subs \union {Entry(m.ep, m.owner)}
      /\ m.op # "add" => next \subseteq subs
  BY <1>1, <1>2, ApplyBounded
<1>4. m.op \in {"add", "remove", "inactive", "dead"} /\ m.ep \in AllEps /\ m.owner \in Owners
  BY <1>1, PushConstants DEF MutationType, AllEps
<1>5. Entry(m.ep, m.owner).ep = m.ep /\ Entry(m.ep, m.owner).owner = m.owner
  BY <1>4, EntryTyped
<1>6. m.op = "add" => m.owner # None /\ OwnerIsActive(m.owner, cfg)
  BY <1>1 DEF MutationSound
<1>7. \A x \in next : OwnerIsActive(x.owner, cfg) /\ (x.ep \in Endpoint => x.owner # None)
  <2>1. \A x \in subs : OwnerIsActive(x.owner, cfg) /\ (x.ep \in Endpoint => x.owner # None)
    BY <1>a DEF StoreSound
  <2> HIDE DEF m, next
  <2> QED BY <1>3, <1>5, <1>6, <2>1
<1>8. Endpoints(next) \subseteq Endpoints(subs) \union {m.ep}
  <2> HIDE DEF m, next
  <2> QED BY <1>3, <1>5 DEF Endpoints
<1>9. CASE m.op = "add"
  <2>1. /\ result = "stored" => next = (subs \ Of(subs, m.ep)) \union {Entry(m.ep, m.owner)}
        /\ result # "stored" => result = "full" /\ next = subs
    BY <1>9, AddApplied
  <2> HIDE DEF m, next, result
  <2>2. result = "stored" => Endpoints(next) = Endpoints(subs) \union {m.ep}
    BY <1>5, <2>1 DEF Endpoints, Of
  <2> QED BY <1>1, <1>3, <1>7, <1>8, <1>9, <2>1, <2>2 DEF m, next, result
<1>10. CASE m.op = "remove"
  <2>1. /\ result = "removed" => next = subs \ Of(subs, m.ep)
        /\ result # "removed" => result = "forbidden" /\ next = subs
    BY <1>10, RemoveApplied
  <2> HIDE DEF m, next, result
  <2>2. result = "removed" => Endpoints(next) = Endpoints(subs) \ {m.ep}
    BY <2>1 DEF Endpoints, Of
  <2> QED BY <1>1, <1>3, <1>7, <1>8, <1>10, <2>1, <2>2 DEF m, next, result
<1>11. CASE m.op \in {"inactive", "dead"}
  <2>1. /\ m.op = "inactive" => next = {x \in subs : OwnerIsActive(x.owner, cfg)} /\ result = "done"
        /\ m.op = "dead" => next = {x \in subs : x.ep \notin m.eps} /\ result = "done"
    BY PruneApplied
  <2>2. m.eps \intersect alive = {} /\ \A x \in subs : OwnerIsActive(x.owner, cfg)
    BY <1>a, <1>1 DEF MutationSound, StoreSound
  <2> HIDE DEF m, next, result
  <2>3. Endpoints(subs) \intersect alive \subseteq Endpoints(next)
    BY <1>11, <2>1, <2>2 DEF Endpoints
  <2>4. result = "done"
    BY <1>11, <2>1
  <2> QED BY <1>1, <1>3, <1>7, <1>8, <1>11, <2>3, <2>4 DEF m, next, result
<1> QED BY <1>4, <1>9, <1>10, <1>11

LEMMA ApplyKeeps ==
  ASSUME PushInv, chain # <<>>, ApplyMutation(1)
  PROVE  PushInv'
<1> DEFINE m == chain[1]
           next == Apply(m, subs).next
           result == Apply(m, subs).result
           n == [m EXCEPT !.stage = "writing", !.next = next]
<1>a. PushTyped /\ ChainSound /\ StoreSound /\ Durable
  BY DEF PushInv
<1>b. /\ m.stage = "queued"
      /\ IF next = subs /\ result # "stored" THEN Settle(1, m, result, subs)
         ELSE /\ chain' = [chain EXCEPT ![1].stage = "writing", ![1].next = next]
              /\ UNCHANGED <<cast, flow, kept, gone>>
      /\ UNCHANGED <<cfg, file, subs, wire, browser, spent, unswept, off, rude>>
  BY DEF ApplyMutation
<1>1. /\ m \in MutationType /\ MutationSound(m) /\ 1 \in DOMAIN chain
      /\ result \in {"stored", "full", "removed", "forbidden", "done"}
      /\ Bounded(next) /\ next \subseteq Entries
      /\ m.op = "add" /\ result # "stored" => next = subs
      /\ m.op = "remove" /\ result = "removed" => Endpoints(next) = Endpoints(subs) \ {m.ep}
      /\ m.op = "remove" => result \in {"removed", "forbidden"}
      /\ m.op = "remove" /\ result # "removed" => next = subs
  BY HeadResult
<1>2. ~Renamed
  BY <1>b DEF Renamed
<1>3. CASE next = subs /\ result # "stored"
  <2>1. Settle(1, m, result, subs)
    BY <1>b, <1>3
  <2>2. kept' = kept
    BY <1>3, <2>1 DEF Settle
  <2>3. \A e \in gone' : e \in gone \/ (e = m.ep /\ e \notin Endpoints(subs) /\ e \in Endpoint)
    <3>1. CASE m.op = "remove" /\ result = "removed" /\ m.from # "cast"
      <4>1. m.ep \notin Endpoints(subs)
        BY <1>1, <1>3, <3>1
      <4>2. m.ep \in Endpoint
        BY <1>1, <3>1 DEF MutationSound, MutationType
      <4> QED BY <2>1, <3>1, <4>1, <4>2 DEF Settle
    <3>2. CASE ~(m.op = "remove" /\ result = "removed" /\ m.from # "cast")
      BY <2>1, <3>2 DEF Settle
    <3> QED BY <3>1, <3>2
  <2>4. /\ subs \in SUBSET Entries /\ Bounded(subs)
        /\ \A x \in subs : OwnerIsActive(x.owner, cfg) /\ (x.ep \in Endpoint => x.owner # None)
    BY <1>a DEF PushTyped, StoreSound
  <2>5. /\ kept \intersect alive \subseteq Endpoints(file) \intersect Endpoints(subs)
        /\ gone \intersect Endpoints(file) \subseteq unswept
        /\ (Endpoints(file) \intersect Endpoint) \ Endpoints(subs) \subseteq unswept
        /\ gone \intersect Endpoints(subs) \subseteq unswept
    BY <1>a, <1>2 DEF Durable
  <2>6. /\ gone' \intersect Endpoints(file) \subseteq unswept
        /\ gone' \intersect Endpoints(subs) \subseteq unswept
    BY <2>3, <2>5
  <2>7. kept' \intersect alive \subseteq Endpoints(file) \intersect Endpoints(subs)
    BY <2>2, <2>5
  <2>8. result \in {"stored", "full", "removed", "forbidden", "done", "error"}
        /\ (m.op = "remove" => result # "stored")
    BY <1>1
  <2>9. UNCHANGED <<cfg, file, wire, browser, unswept, off, rude>> /\ subs' = subs
    BY <1>b
  <2> HIDE DEF result
  <2> QED BY <2>1, <2>4, <2>5, <2>6, <2>7, <2>8, <2>9, SettleKeeps
<1>4. CASE ~(next = subs /\ result # "stored")
  <2>1. /\ chain' = [chain EXCEPT ![1].stage = "writing", ![1].next = next]
        /\ UNCHANGED <<cast, flow, kept, gone>>
    BY <1>b, <1>4
  <2>2. chain' = [chain EXCEPT ![1] = n]
    BY <2>1
  <2> HIDE DEF next
  <2>3. /\ n \in MutationType /\ n.op = m.op /\ n.ep = m.ep /\ n.eps = m.eps /\ n.owner = m.owner
        /\ n.from = m.from /\ n.stage = "writing" /\ n.next = next
    BY <1>1 DEF MutationType
  <2> HIDE DEF n
  <2>4. Apply(n, subs) = Apply(m, subs)
    BY <2>3, ApplySame
  <2>5. /\ n.next = Apply(n, subs).next
        /\ n.op = "add" => Apply(n, subs).result = "stored"
        /\ n.op = "remove" => Apply(n, subs).result = "removed"
    BY <1>1, <1>4, <2>3, <2>4 DEF next
  <2>6. /\ file' = file /\ subs' = subs /\ kept' = kept /\ gone' = gone /\ unswept' = unswept
        /\ UNCHANGED <<cfg, subs, cast, flow, browser, wire, off, rude>> /\ UNCHANGED alive
    BY <1>b, <2>1 DEF browser
  <2>7. /\ file' \subseteq Entries /\ Bounded(file')
        /\ \A x \in file' : x.ep \in Endpoint => x.owner # None
        /\ Endpoints(file') \subseteq Endpoints(file) \union Endpoints(subs) \union {n.ep}
        /\ kept' \subseteq kept
    BY <1>a, <2>6 DEF PushTyped, StoreSound
  <2>8. Durable'
    <3>1. /\ kept \intersect alive \subseteq Endpoints(file) \intersect Endpoints(subs)
          /\ gone \intersect Endpoints(file) \subseteq unswept
          /\ (Endpoints(file) \intersect Endpoint) \ Endpoints(subs) \subseteq unswept
          /\ gone \intersect Endpoints(subs) \subseteq unswept
      BY <1>a, <1>2 DEF Durable
    <3> QED BY <2>6, <3>1 DEF Durable
  <2>9. n.stage # "renamed"
    BY <2>3
  <2> HIDE DEF m
  <2> QED BY <2>2, <2>3, <2>5, <2>6, <2>7, <2>8, <2>9, StageKeeps DEF m
<1> QED BY <1>3, <1>4

LEMMA SwapKeeps ==
  ASSUME PushInv, chain # <<>>, WriteState(1)
  PROVE  PushInv'
<1> DEFINE m == chain[1]
           next == Apply(m, subs).next
           result == Apply(m, subs).result
           n == [m EXCEPT !.stage = "renamed"]
<1>a. PushTyped /\ ChainSound /\ StoreSound /\ Durable
  BY DEF PushInv
<1>b. m.stage = "writing" /\ UNCHANGED <<cfg, subs, wire, browser, off, rude>>
  BY DEF WriteState
<1>1. /\ m \in MutationType /\ MutationSound(m) /\ 1 \in DOMAIN chain
      /\ Bounded(next) /\ next \subseteq Entries
      /\ \A x \in next : OwnerIsActive(x.owner, cfg) /\ (x.ep \in Endpoint => x.owner # None)
      /\ Endpoints(next) \subseteq Endpoints(subs) \union {m.ep}
      /\ m.op = "add" /\ result = "stored" => Endpoints(next) = Endpoints(subs) \union {m.ep}
      /\ m.op = "remove" /\ result = "removed" => Endpoints(next) = Endpoints(subs) \ {m.ep}
      /\ m.op # "add" => next \subseteq subs
      /\ m.op \notin {"add", "remove"} => Endpoints(subs) \intersect alive \subseteq Endpoints(next)
  BY HeadResult
<1>2. ~Renamed
  BY <1>b DEF Renamed
<1>3. m.next = next /\ (m.op = "add" => result = "stored") /\ (m.op = "remove" => result = "removed")
  BY <1>a, <1>b DEF ChainSound, HeadSound
<1>4. /\ kept \intersect alive \subseteq Endpoints(file) \intersect Endpoints(subs)
      /\ gone \intersect Endpoints(file) \subseteq unswept
      /\ (Endpoints(file) \intersect Endpoint) \ Endpoints(subs) \subseteq unswept
      /\ gone \intersect Endpoints(subs) \subseteq unswept
  BY <1>a, <1>2 DEF Durable
<1>5. CASE /\ file' = m.next
           /\ chain' = [chain EXCEPT ![1].stage = "renamed"]
           /\ kept' = IF m.op = "remove" THEN kept \ {m.ep} ELSE kept
           /\ gone' = IF m.op = "add" THEN gone \ {m.ep} ELSE gone
           /\ unswept' = (unswept \intersect Endpoints(file')) \ (IF m.op = "add" THEN {m.ep} ELSE {})
           /\ UNCHANGED <<cast, flow, spent>>
  <2>2. chain' = [chain EXCEPT ![1] = n]
    BY <1>5
  <2>3. /\ n \in MutationType /\ n.op = m.op /\ n.ep = m.ep /\ n.eps = m.eps /\ n.owner = m.owner
        /\ n.from = m.from /\ n.stage = "renamed" /\ n.next = m.next
    BY <1>1 DEF MutationType
  <2> HIDE DEF n
  <2>4. Apply(n, subs) = Apply(m, subs)
    BY <2>3, ApplySame
  <2>5. /\ n.next = Apply(n, subs).next
        /\ n.op = "add" => Apply(n, subs).result = "stored"
        /\ n.op = "remove" => Apply(n, subs).result = "removed"
        /\ file' = n.next
    BY <1>3, <1>5, <2>3, <2>4
  <2>6. /\ UNCHANGED <<cfg, subs, cast, flow, browser, wire, off, rude>> /\ UNCHANGED alive
        /\ subs' = subs /\ file' = next
    BY <1>b, <1>3, <1>5 DEF browser
  <2>7. kept' \subseteq kept /\ (n.op # "add" => gone' = gone)
    BY <1>5, <2>3
  <2> HIDE DEF next, result
  <2>8. /\ file' \subseteq Entries /\ Bounded(file')
        /\ \A x \in file' : x.ep \in Endpoint => x.owner # None
        /\ Endpoints(file') \subseteq Endpoints(file) \union Endpoints(subs) \union {n.ep}
    BY <1>1, <2>3, <2>6
  <2>9. Durable'
    <3>1. Endpoints(file)' = Endpoints(next) /\ Endpoints(subs)' = Endpoints(subs)
      BY <2>6 DEF Endpoints
    <3>2. m.op # "add" => Endpoints(next) \subseteq Endpoints(subs)
      BY <1>1 DEF Endpoints
    <3>3. Renamed'
      <4>1. chain' # <<>> /\ chain'[1] = n
        BY <1>a, <1>1, <2>2 DEF PushTyped
      <4> QED BY <2>3, <4>1 DEF Renamed
    <3>4. kept' \intersect alive' \subseteq Endpoints(next) \intersect Endpoints(subs)
      <4>1. CASE m.op = "add"
        BY <1>1, <1>3, <1>4, <1>5, <2>6, <4>1
      <4>2. CASE m.op = "remove"
        BY <1>1, <1>3, <1>4, <1>5, <2>6, <4>2
      <4>3. CASE m.op \notin {"add", "remove"}
        BY <1>1, <1>4, <1>5, <2>6, <4>3
      <4> QED BY <4>1, <4>2, <4>3
    <3>5. gone' \intersect Endpoints(next) \subseteq unswept'
      <4>1. CASE m.op = "add"
        BY <1>1, <1>3, <1>4, <1>5, <3>1, <4>1
      <4>2. CASE m.op # "add"
        BY <1>4, <1>5, <3>1, <3>2, <4>2
      <4> QED BY <4>1, <4>2
    <3> QED BY <3>1, <3>3, <3>4, <3>5 DEF Durable
  <2> HIDE DEF m
  <2> QED BY <2>2, <2>3, <2>5, <2>6, <2>7, <2>8, <2>9, StageKeeps DEF m
<1>6. CASE Settle(1, m, "error", subs) /\ UNCHANGED <<file, unswept>>
  <2>1. kept' = kept /\ gone' = gone
    BY <1>6 DEF Settle
  <2>2. /\ subs \in SUBSET Entries /\ Bounded(subs)
        /\ \A x \in subs : OwnerIsActive(x.owner, cfg) /\ (x.ep \in Endpoint => x.owner # None)
    BY <1>a DEF PushTyped, StoreSound
  <2>3. UNCHANGED <<cfg, file, wire, browser, unswept, off, rude>> /\ subs' = subs
    BY <1>b, <1>6
  <2>4. Settle(1, chain[1], "error", subs)
    BY <1>6
  <2>5. /\ kept' \intersect alive \subseteq Endpoints(file) \intersect Endpoints(subs)
        /\ gone' \intersect Endpoints(file) \subseteq unswept
        /\ (Endpoints(file) \intersect Endpoint) \ Endpoints(subs) \subseteq unswept
        /\ gone' \intersect Endpoints(subs) \subseteq unswept
    BY <1>4, <2>1
  <2> HIDE DEF m
  <2> QED BY <2>2, <2>3, <2>4, <2>5, SettleKeeps
<1> QED BY <1>5, <1>6 DEF WriteState

LEMMA ReplaceKeeps ==
  ASSUME PushInv, chain # <<>>, ReplaceSubscriptions(1)
  PROVE  PushInv'
<1> DEFINE m == chain[1]
           next == Apply(m, subs).next
           result == Apply(m, subs).result
           r == IF m.op = "add" THEN "stored" ELSE "removed"
<1>a. PushTyped /\ ChainSound /\ StoreSound /\ Durable
  BY DEF PushInv
<1>b. /\ m.stage = "renamed" /\ subs' = m.next /\ Settle(1, m, r, m.next)
      /\ UNCHANGED <<cfg, file, wire, browser, spent, unswept, off, rude>>
  BY DEF ReplaceSubscriptions
<1>1. /\ m \in MutationType /\ MutationSound(m) /\ 1 \in DOMAIN chain
      /\ Bounded(next) /\ next \subseteq Entries
      /\ \A x \in next : OwnerIsActive(x.owner, cfg) /\ (x.ep \in Endpoint => x.owner # None)
      /\ m.op = "add" /\ result = "stored" => Endpoints(next) = Endpoints(subs) \union {m.ep}
      /\ m.op = "remove" /\ result = "removed" => Endpoints(next) = Endpoints(subs) \ {m.ep}
  BY HeadResult
<1>3. /\ m.next = next /\ (m.op = "add" => result = "stored") /\ (m.op = "remove" => result = "removed")
      /\ file = next
  BY <1>a, <1>b DEF ChainSound, HeadSound
<1>4. /\ kept \intersect alive \subseteq Endpoints(file)
      /\ gone \intersect Endpoints(file) \subseteq unswept
  BY <1>a DEF Durable
<1>5. r \in {"stored", "full", "removed", "forbidden", "done", "error"} /\ (m.op = "remove" => r # "stored")
      /\ (r = "stored" => m.op = "add")
  OBVIOUS
<1>6. kept' \intersect alive \subseteq Endpoints(file)
  <2>1. CASE r = "stored" /\ m.from # "cast"
    <3>1. kept' = kept \union {m.ep}
      BY <1>b, <2>1 DEF Settle
    <3>2. m.ep \in Endpoints(file)
      BY <1>1, <1>3, <1>5, <2>1
    <3> QED BY <1>4, <3>1, <3>2
  <2>2. CASE ~(r = "stored" /\ m.from # "cast")
    <3>1. kept' = kept
      BY <1>b, <2>2 DEF Settle
    <3> QED BY <1>4, <3>1
  <2> QED BY <2>1, <2>2
<1>7. gone' \intersect Endpoints(file) \subseteq unswept
  <2>1. CASE m.op = "remove" /\ m.from # "cast"
    <3>1. gone' \subseteq gone \union {m.ep}
      BY <1>b, <2>1 DEF Settle
    <3>2. m.ep \notin Endpoints(file)
      BY <1>1, <1>3, <2>1
    <3> QED BY <1>4, <3>1, <3>2
  <2>2. CASE ~(m.op = "remove" /\ m.from # "cast")
    <3>1. gone' = gone
      BY <1>b, <2>2 DEF Settle
    <3> QED BY <1>4, <3>1
  <2> QED BY <2>1, <2>2
<1>8. /\ UNCHANGED <<cfg, file, wire, browser, unswept, off, rude>> /\ subs' = next
      /\ Settle(1, m, r, next)
  BY <1>b, <1>3
<1> HIDE DEF next, r
<1>9. /\ kept' \intersect alive \subseteq Endpoints(file) \intersect Endpoints(next)
      /\ (Endpoints(file) \intersect Endpoint) \ Endpoints(next) \subseteq unswept
      /\ gone' \intersect Endpoints(next) \subseteq unswept
      /\ Endpoints(next) \subseteq Endpoints(subs) \union Endpoints(file)
  BY <1>3, <1>6, <1>7
<1> QED BY <1>1, <1>5, <1>6, <1>7, <1>8, <1>9, SettleKeeps

LEMMA BridgeKeeps ==
  ASSUME PushInv, NEW i \in DOMAIN chain, BridgeStep(i)
  PROVE  PushInv'
<1>1. ChainSound /\ chain # <<>>
  BY ChainTyped DEF PushInv
<1>2. i = 1
  BY <1>1 DEF BridgeStep, ApplyMutation, WriteState, ReplaceSubscriptions, MyTurn, ChainSound
<1> QED BY <1>1, <1>2, ApplyKeeps, SwapKeeps, ReplaceKeeps DEF BridgeStep

\* A mutation that joins the chain.
LEMMA QueueKeeps ==
  ASSUME PushInv, NEW n \in MutationType, chain' = Append(chain, n), n.stage = "queued",
         MutationSound(n), cast' \in CastType, cast'.to \subseteq cast.to, cast'.dead \subseteq cast.dead,
         cast'.quiet => cast.quiet,
         wire' \subseteq wire, UNCHANGED <<cfg, file, subs, browser, flow, kept, gone, unswept, off, rude>>,
         \A e \in Endpoint : Nowhere(e) => n.ep # e /\ e \notin n.eps,
         n.from \in Flow => /\ Awaits(flow[n.from], n.op, n.ep)
                            /\ \A r \in wire' : r.from # n.from
                            /\ \A i \in DOMAIN chain : chain[i].from # n.from,
         n.op = "add" => ~NothingAdds
  PROVE  PushInv'
<1>a. PushTyped /\ UnmadeIsNowhere /\ FlowsSound /\ FlowsWait /\ ChainSound /\ StoreSound /\ Durable
      /\ AloneSound /\ OffSound /\ CastSound
  BY DEF PushInv
<1>b. /\ UNCHANGED <<mine, keyOf, alive, optedOut>>
      /\ cfg' = cfg /\ subs' = subs /\ file' = file /\ flow' = flow /\ off' = off /\ rude' = rude
      /\ kept' = kept /\ gone' = gone /\ unswept' = unswept
  BY DEF browser
<1>1. chain \in Seq(MutationType) /\ DOMAIN chain = 1..Len(chain) /\ Len(chain) \in Nat
  BY <1>a, ChainTyped DEF PushTyped
<1>2. /\ chain' \in Seq(MutationType) /\ DOMAIN chain' = 1..(Len(chain) + 1)
      /\ \A i \in DOMAIN chain : i \in DOMAIN chain' /\ chain'[i] = chain[i]
      /\ Len(chain) + 1 \in DOMAIN chain' /\ chain'[Len(chain) + 1] = n
      /\ chain' # <<>>
  BY <1>1
<1>3. /\ \A i \in DOMAIN chain' : \/ i \in DOMAIN chain /\ chain'[i] = chain[i]
                                  \/ i = Len(chain) + 1 /\ chain'[i] = n
      /\ chain # <<>> => chain'[1] = chain[1]
      /\ chain = <<>> => chain'[1] = n
  BY <1>1, <1>2
<1>6. PushTyped'
  BY <1>a, <1>b, <1>2 DEF PushTyped
<1>7. UnmadeIsNowhere'
  <2> SUFFICES ASSUME NEW e \in Endpoint, keyOf'[e] = NoKey PROVE Nowhere(e)'
    BY DEF UnmadeIsNowhere
  <2>1. Nowhere(e)
    BY <1>a, <1>b DEF UnmadeIsNowhere
  <2>2. \A i \in DOMAIN chain' : chain'[i].ep # e /\ e \notin chain'[i].eps
    BY <2>1, <1>3 DEF Nowhere
  <2> QED BY <1>b, <2>1, <2>2 DEF Nowhere
<1>8. FlowsSound'
  BY <1>a, <1>b DEF FlowsSound
<1>9. FlowsWait'
  <2>2. \A r \in wire' : r.from \in Flow => Awaits(flow'[r.from], r.op, r.ep)
    BY <1>a, <1>b DEF FlowsWait
  <2>3. \A i \in DOMAIN chain' : chain'[i].from \in Flow =>
          Awaits(flow'[chain'[i].from], chain'[i].op, chain'[i].ep)
    BY <1>a, <1>b, <1>3 DEF FlowsWait
  <2>4. \A i, j \in DOMAIN chain' : chain'[i].from \in Flow /\ chain'[i].from = chain'[j].from => i = j
    BY <1>a, <1>3 DEF FlowsWait
  <2>5. \A r \in wire', i \in DOMAIN chain' : ~(r.from \in Flow /\ r.from = chain'[i].from)
    BY <1>a, <1>3 DEF FlowsWait
  <2> QED BY <2>2, <2>3, <2>4, <2>5 DEF FlowsWait
<1>10. ChainSound'
  <2>1. \A i \in DOMAIN chain : MutationSound(chain[i])' /\ (i # 1 => chain'[i].stage = "queued")
    BY <1>a, <1>b, <1>3, <1>2 DEF ChainSound, MutationSound
  <2>2. \A i \in DOMAIN chain' : MutationSound(chain[i])' /\ (i # 1 => chain'[i].stage = "queued")
    <3> SUFFICES ASSUME NEW i \in DOMAIN chain' PROVE MutationSound(chain[i])' /\ (i # 1 => chain'[i].stage = "queued")
      OBVIOUS
    <3>1. CASE i \in DOMAIN chain
      BY <2>1, <3>1
    <3>2. CASE chain'[i] = n
      BY <1>b, <3>2 DEF MutationSound
    <3> QED BY <1>3, <3>1, <3>2
  <2>3. HeadSound(chain[1])'
    <3>1. CASE chain = <<>>
      BY <1>3, <3>1 DEF HeadSound
    <3>2. CASE chain # <<>>
      BY <1>a, <1>b, <1>3, <3>2 DEF ChainSound, HeadSound, Apply
    <3> QED BY <3>1, <3>2
  <2> QED BY <2>2, <2>3 DEF ChainSound
<1>11. StoreSound'
  BY <1>a, <1>b DEF StoreSound
<1>12. Durable'
  <2>1. Renamed' = Renamed
    BY <1>3 DEF Renamed
  <2> QED BY <1>a, <1>b, <2>1 DEF Durable
<1>13. NothingAdds => NothingAdds'
  <2> SUFFICES ASSUME NothingAdds PROVE NothingAdds'
    OBVIOUS
  <2>1. \A i \in DOMAIN chain' : chain'[i].op # "add"
    BY <1>3 DEF NothingAdds
  <2> QED BY <1>b, <2>1 DEF NothingAdds
<1>14. AloneSound'
  BY <1>a, <1>b, <1>13 DEF AloneSound
<1>15. OffSound'
  BY <1>a, <1>b, <1>13 DEF OffSound
<1>16. CastSound'
  BY <1>a, <1>b DEF CastSound
<1> QED BY <1>6, <1>7, <1>8, <1>9, <1>10, <1>11, <1>12, <1>14, <1>15, <1>16 DEF PushInv

\* A request of a flow is the only one of it that is on its way.
LEMMA OneRequest ==
  ASSUME PushTyped, FlowsWait, NEW r \in wire, r.from \in Flow
  PROVE  /\ \A s \in wire \ {r} : s.from # r.from
         /\ \A i \in DOMAIN chain : chain[i].from # r.from
<1>1. ASSUME NEW s \in wire, s.from = r.from PROVE s = r
  <2>1. Awaits(flow[r.from], r.op, r.ep) /\ Awaits(flow[r.from], s.op, s.ep)
    BY <1>1 DEF FlowsWait
  <2>2. r \in [op: {"add", "remove"}, ep: Endpoint, from: Senders]
        /\ s \in [op: {"add", "remove"}, ep: Endpoint, from: Senders]
    BY DEF PushTyped
  <2>3. s.op = r.op /\ s.ep = r.ep
    BY <2>1, <2>2 DEF Awaits
  <2> QED BY <1>1, <2>2, <2>3
<1>2. \A i \in DOMAIN chain : chain[i].from # r.from
  BY DEF FlowsWait
<1> QED BY <1>1, <1>2

LEMMA QueuedTyped ==
  ASSUME NEW op \in {"add", "remove", "inactive", "dead"}, NEW ep \in Endpoint \union {NoEndpoint},
         NEW eps \in SUBSET AllEps, NEW o \in Owners, NEW from \in Senders \union {"cast"}
  PROVE  LET n == Mutation(op, ep, eps, o, from)
         IN  /\ n \in MutationType /\ n.op = op /\ n.ep = ep /\ n.eps = eps /\ n.owner = o /\ n.from = from
             /\ n.stage = "queued"
BY DEF Mutation, MutationType

LEMMA ServeKeeps ==
  ASSUME PushInv, NEW r \in wire, Serve(r)
  PROVE  PushInv'
<1> DEFINE auth == DeviceAuth(Me, cfg)
           actor == IF r.op = "add" THEN OwnerOf(auth) ELSE ActorOf(auth)
           n == Mutation(r.op, r.ep, {}, actor, r.from)
<1>a. PushTyped /\ UnmadeIsNowhere /\ FlowsSound /\ FlowsWait /\ ChainSound /\ StoreSound /\ Durable
      /\ AloneSound /\ OffSound /\ CastSound
  BY DEF PushInv
<1>b. wire' = wire \ {r} /\ UNCHANGED <<cfg, file, subs, cast, browser, spent, kept, gone, unswept, off, rude>>
  BY DEF Serve
<1>1. r.op \in {"add", "remove"} /\ r.ep \in Endpoint /\ r.from \in Senders
  BY <1>a DEF PushTyped
<1>2. r.from \in Flow => /\ \A s \in wire' : s.from # r.from
                         /\ \A i \in DOMAIN chain : chain[i].from # r.from
                         /\ Awaits(flow[r.from], r.op, r.ep)
  BY <1>a, <1>b, OneRequest DEF FlowsWait
<1>3. CASE /\ Guard(Me, cfg, IF r.op = "add" THEN "write" ELSE "read")
           /\ chain' = Append(chain, n) /\ UNCHANGED flow
  <2>1. actor \in Owners
    BY OwnersTyped
  <2>2. r.op = "add" => actor # None /\ OwnerIsActive(actor, cfg)
    BY <1>3, GuardedOwner
  <2> HIDE DEF actor
  <2>3. /\ n \in MutationType /\ n.op = r.op /\ n.ep = r.ep /\ n.eps = {} /\ n.owner = actor
        /\ n.from = r.from /\ n.stage = "queued"
    BY <1>1, <2>1, QueuedTyped
  <2> HIDE DEF n
  <2>4. MutationSound(n)
    <3>1. n.from # "cast" /\ n.ep # NoEndpoint
      BY <1>1, <2>3, PushConstants DEF Senders, Flow
    <3> QED BY <1>1, <2>2, <2>3, <3>1 DEF MutationSound
  <2>5. \A e \in Endpoint : Nowhere(e) => n.ep # e /\ e \notin n.eps
    BY <2>3 DEF Nowhere
  <2>6. n.op = "add" => ~NothingAdds
    BY <2>3 DEF NothingAdds
  <2>7. cast' \in CastType /\ cast' = cast /\ wire' \subseteq wire
    BY <1>a, <1>b DEF PushTyped
  <2>8. UNCHANGED <<cfg, file, subs, browser, flow, kept, gone, unswept, off, rude>>
    BY <1>b, <1>3
  <2>9. n.from \in Flow => /\ Awaits(flow[n.from], n.op, n.ep)
                           /\ \A s \in wire' : s.from # n.from
                           /\ \A i \in DOMAIN chain : chain[i].from # n.from
    BY <1>2, <2>3
  <2>10. chain' = Append(chain, n)
    BY <1>3
  <2> QED BY <2>3, <2>4, <2>5, <2>6, <2>7, <2>8, <2>9, <2>10, QueueKeeps
<1>4. CASE Reply(r.from, "error") /\ UNCHANGED chain
  <2>b. /\ UNCHANGED <<mine, keyOf, alive, optedOut>>
        /\ cfg' = cfg /\ subs' = subs /\ file' = file /\ off' = off /\ rude' = rude /\ cast' = cast
        /\ kept' = kept /\ gone' = gone /\ unswept' = unswept /\ chain' = chain
    BY <1>b, <1>4 DEF browser
  <2>1. /\ flow' \in [Flow -> FlowType] /\ SameFlows
        /\ \A g \in Flow : g # r.from => flow'[g].reply = flow[g].reply
        /\ r.from \in Flow => flow'[r.from].reply = "error"
    BY <1>a, <1>4, ReplyGiven
  <2>2. PushTyped'
    BY <1>a, <1>b, <2>b, <2>1 DEF PushTyped
  <2>3. UnmadeIsNowhere'
    BY <1>a, <1>b, <2>b, <2>1 DEF UnmadeIsNowhere, Nowhere, SameFlows
  <2>4. FlowsSound'
    BY <1>a, <2>1 DEF FlowsSound, SameFlows, Flow
  <2>5. FlowsWait'
    <3>1. ASSUME NEW g \in Flow, NEW op, NEW e, Awaits(flow[g], op, e), r.from # g
          PROVE  Awaits(flow'[g], op, e)
      BY <2>1, <3>1 DEF Awaits, SameFlows
    <3>2. \A s \in wire' : s.from \in Flow => Awaits(flow'[s.from], s.op, s.ep)
      BY <1>a, <1>b, <1>2, <3>1 DEF FlowsWait
    <3>3. \A i \in DOMAIN chain' : chain'[i].from \in Flow =>
            Awaits(flow'[chain'[i].from], chain'[i].op, chain'[i].ep)
      BY <1>a, <1>2, <2>b, <3>1 DEF FlowsWait
    <3> QED BY <1>a, <1>b, <2>b, <3>2, <3>3 DEF FlowsWait
  <2>6. ChainSound' /\ StoreSound' /\ Durable'
    BY <1>a, <2>b DEF ChainSound, MutationSound, HeadSound, Apply, StoreSound, Durable, Renamed
  <2>7. NothingAdds => NothingAdds'
    BY <1>b, <2>b, <2>1 DEF NothingAdds, SameFlows, Flow
  <2>8. "control" \in Flow /\ (flow'["control"].reply = "ok" => flow["control"].reply = "ok")
    BY <2>1 DEF Flow
  <2>9. AloneSound' /\ OffSound' /\ CastSound'
    BY <1>a, <2>b, <2>1, <2>7, <2>8 DEF AloneSound, OffSound, CastSound, SameFlows
  <2> QED BY <2>2, <2>3, <2>4, <2>5, <2>6, <2>9 DEF PushInv
<1>5. \/ /\ Guard(Me, cfg, IF r.op = "add" THEN "write" ELSE "read")
         /\ chain' = Append(chain, n) /\ UNCHANGED flow
      \/ Reply(r.from, "error") /\ UNCHANGED chain
  BY DEF Serve
<1> QED BY <1>3, <1>4, <1>5

LEMMA BroadcastKeeps ==
  ASSUME PushInv, Broadcast
  PROVE  PushInv'
<1> DEFINE n == Mutation("inactive", NoEndpoint, {}, None, "cast")
<1>a. PushTyped
  BY DEF PushInv
<1>b. /\ cast' = [NoCast EXCEPT !.pc = "pruning"] /\ chain' = Append(chain, n)
      /\ UNCHANGED <<cfg, file, subs, wire, browser, flow, kept, gone, unswept, off, rude>>
  BY DEF Broadcast
<1>1. None \in Owners
  BY DEF Owners
<1>2. /\ n \in MutationType /\ n.op = "inactive" /\ n.ep = NoEndpoint /\ n.eps = {}
      /\ n.from = "cast" /\ n.stage = "queued"
  BY <1>1, QueuedTyped
<1> HIDE DEF n
<1>3. cast' \in CastType /\ cast'.to = {} /\ cast'.dead = {} /\ ~cast'.quiet
  BY <1>b DEF NoCast, CastType
<1>4. MutationSound(n) /\ (n.op = "add" => ~NothingAdds) /\ n.from \notin Flow
  BY <1>2 DEF MutationSound, Flow
<1>5. \A e \in Endpoint : Nowhere(e) => n.ep # e /\ e \notin n.eps
  BY <1>2, PushConstants
<1>6. /\ UNCHANGED <<cfg, file, subs, browser, flow, kept, gone, unswept, off, rude>>
      /\ wire' \subseteq wire
  BY <1>b
<1> QED BY <1>b, <1>2, <1>3, <1>4, <1>5, <1>6, QueueKeeps

LEMMA CastKeeps ==
  ASSUME PushInv, cast' \in CastType, cast'.to \subseteq cast.to, cast'.dead \subseteq cast.dead \union cast.to,
         cast'.dead \intersect alive = {}, cast'.quiet => cast.quiet, ~rude',
         UNCHANGED <<server, wire, browser, flow, kept, gone, unswept, off>>
  PROVE  PushInv'
<1>a. PushTyped /\ UnmadeIsNowhere /\ FlowsSound /\ FlowsWait /\ ChainSound /\ StoreSound /\ Durable
      /\ AloneSound /\ OffSound /\ CastSound
  BY DEF PushInv
<1>b. /\ UNCHANGED <<mine, keyOf, alive, optedOut>>
      /\ cfg' = cfg /\ subs' = subs /\ file' = file /\ chain' = chain /\ flow' = flow /\ off' = off
      /\ wire' = wire /\ kept' = kept /\ gone' = gone /\ unswept' = unswept
  BY DEF browser, server
<1>1. PushTyped'
  BY <1>a, <1>b DEF PushTyped
<1>2. UnmadeIsNowhere'
  <2> SUFFICES ASSUME NEW e \in Endpoint, keyOf'[e] = NoKey PROVE Nowhere(e)'
    BY DEF UnmadeIsNowhere
  <2>1. Nowhere(e)
    BY <1>a, <1>b DEF UnmadeIsNowhere
  <2> QED BY <1>b, <2>1 DEF Nowhere
<1>3. FlowsSound' /\ FlowsWait' /\ StoreSound' /\ Durable'
  BY <1>a, <1>b DEF FlowsSound, FlowsWait, StoreSound, Durable, Renamed
<1>4. ChainSound'
  BY <1>a, <1>b DEF ChainSound, MutationSound, HeadSound, Apply
<1>5. AloneSound' /\ OffSound'
  BY <1>a, <1>b DEF AloneSound, OffSound, NothingAdds
<1>6. CastSound'
  BY <1>a, <1>b DEF CastSound
<1> QED BY <1>1, <1>2, <1>3, <1>4, <1>5, <1>6 DEF PushInv

LEMMA SendKeeps ==
  ASSUME PushInv, NEW e \in cast.to, Send(e)
  PROVE  PushInv'
<1>a. PushTyped /\ CastSound
  BY DEF PushInv
<1>1. cast \in CastType /\ e \in AllEps
  BY <1>a DEF PushTyped, CastType
<1>2. /\ cast' = [cast EXCEPT !.to = @ \ {e}, !.dead = IF e \in alive THEN @ ELSE @ \union {e}]
      /\ rude' = (rude \/ (e = mine /\ e \in alive /\ keyOf[e] = cfg.key /\ off = "yes" /\ cast.quiet))
      /\ UNCHANGED <<server, wire, browser, flow, spent, kept, gone, unswept, off>>
  BY DEF Send
<1>3. /\ cast' \in CastType /\ cast'.to = cast.to \ {e} /\ cast'.quiet = cast.quiet
      /\ cast'.dead = IF e \in alive THEN cast.dead ELSE cast.dead \union {e}
  BY <1>1, <1>2 DEF CastType
<1>4. ~rude'
  <2>1. e \in alive => e # NoEndpoint
    BY <1>a, PushConstants DEF PushTyped
  <2> QED BY <1>a, <1>2, <2>1 DEF CastSound
<1>5. cast'.dead \intersect alive = {}
  BY <1>a, <1>3 DEF CastSound
<1> QED BY <1>2, <1>3, <1>4, <1>5, CastKeeps

LEMMA PruneKeeps ==
  ASSUME PushInv, Prune
  PROVE  PushInv'
<1> DEFINE n == Mutation("dead", NoEndpoint, cast.dead, None, "cast")
<1>a. PushTyped /\ CastSound /\ UnmadeIsNowhere
  BY DEF PushInv
<1>b. UNCHANGED <<cfg, file, subs, wire, browser, spent, flow, kept, gone, unswept, off, rude>>
  BY DEF Prune
<1>1. CASE cast' = NoCast /\ UNCHANGED chain
  <2>1. /\ cast' \in CastType /\ cast'.to \subseteq cast.to /\ cast'.dead \subseteq cast.dead \union cast.to
        /\ cast'.dead \intersect alive = {} /\ (cast'.quiet => cast.quiet)
    BY <1>1, NoCastTyped
  <2>2. ~rude' /\ UNCHANGED <<server, wire, browser, flow, kept, gone, unswept, off>>
    BY <1>a, <1>b, <1>1 DEF CastSound, server
  <2> QED BY <2>1, <2>2, CastKeeps
<1>2. CASE cast' = [cast EXCEPT !.pc = "pruningDead"] /\ chain' = Append(chain, n)
  <2>1. None \in Owners /\ cast \in CastType /\ cast.dead \in SUBSET AllEps
    BY <1>a DEF Owners, PushTyped, CastType
  <2>2. /\ n \in MutationType /\ n.op = "dead" /\ n.ep = NoEndpoint /\ n.eps = cast.dead
        /\ n.from = "cast" /\ n.stage = "queued"
    BY <2>1, QueuedTyped
  <2> HIDE DEF n
  <2>3. cast' \in CastType /\ cast'.to = cast.to /\ cast'.dead = cast.dead /\ cast'.quiet = cast.quiet
    BY <1>2, <2>1 DEF CastType
  <2>4. MutationSound(n) /\ (n.op = "add" => ~NothingAdds) /\ n.from \notin Flow
    BY <1>a, <2>2 DEF MutationSound, Flow, CastSound
  <2>5. \A e \in Endpoint : Nowhere(e) => n.ep # e /\ e \notin n.eps
    BY <2>2, PushConstants DEF Nowhere
  <2>6. /\ UNCHANGED <<cfg, file, subs, browser, flow, kept, gone, unswept, off, rude>>
        /\ wire' \subseteq wire /\ chain' = Append(chain, n)
        /\ cast'.to \subseteq cast.to /\ cast'.dead \subseteq cast.dead /\ (cast'.quiet => cast.quiet)
    BY <1>b, <1>2, <2>3
  <2> QED BY <2>2, <2>3, <2>4, <2>5, <2>6, QueueKeeps
<1> QED BY <1>1, <1>2 DEF Prune

\* What load() makes of the file: the entries that an active owner has, as they were.
LEMMA LoadKeeps ==
  ASSUME PushTyped, StoreSound, NEW c
  PROVE  /\ Loaded(file, c) \subseteq Entries /\ Bounded(Loaded(file, c))
         /\ Endpoints(Loaded(file, c)) \subseteq Endpoints(file)
         /\ \A x \in Loaded(file, c) : OwnerIsActive(x.owner, c) /\ x.owner # None
         /\ \A e \in Endpoints(file) \intersect Endpoint :
              (\A x \in Of(file, e) : OwnerIsActive(x.owner, c)) => e \in Endpoints(Loaded(file, c))
<1>1. file \in SUBSET Entries /\ Bounded(file)
  BY DEF PushTyped, StoreSound
<1>2. /\ Loaded(file, c) = {x \in {Adopt(y, c) : y \in file} : x.owner # None /\ OwnerIsActive(x.owner, c)}
      /\ Bounded(Loaded(file, c)) /\ Loaded(file, c) \subseteq Entries
      /\ Endpoints(Loaded(file, c)) \subseteq Endpoints(file)
  BY <1>1, LoadedUsable
<1>3. \A x \in Loaded(file, c) : OwnerIsActive(x.owner, c) /\ x.owner # None
  BY <1>2
<1>4. ASSUME NEW e \in Endpoints(file) \intersect Endpoint, \A x \in Of(file, e) : OwnerIsActive(x.owner, c)
      PROVE  e \in Endpoints(Loaded(file, c))
  <2>1. PICK y \in file : y.ep = e
    BY EndpointsOf
  <2>2. y.owner # None
    BY <2>1 DEF StoreSound
  <2>3. Adopt(y, c) = y
    BY <2>2 DEF Adopt
  <2>4. OwnerIsActive(y.owner, c)
    BY <1>4, <2>1 DEF Of
  <2>5. y \in Loaded(file, c)
    BY <1>2, <2>2, <2>3, <2>4
  <2> QED BY <2>1, <2>5, EndpointsOf
<1> QED BY <1>2, <1>3, <1>4

LEMMA RestartKeeps ==
  ASSUME PushInv, Restart
  PROVE  PushInv'
<1>a. PushTyped /\ UnmadeIsNowhere /\ FlowsSound /\ FlowsWait /\ ChainSound /\ StoreSound /\ Durable
      /\ AloneSound /\ OffSound /\ CastSound
  BY DEF PushInv
<1>b. /\ UNCHANGED <<mine, keyOf, alive, optedOut>>
      /\ wire' = wire /\ off' = off /\ rude' = rude /\ gone' = gone
      /\ chain' = <<>> /\ cast' = NoCast /\ cfg' \in Config
      /\ subs' = Loaded(file, cfg') /\ file' \in {file, subs'}
      /\ kept' = {e \in kept : \A x \in Of(file, e) : OwnerIsActive(x.owner, cfg')}
      /\ unswept' = (unswept \intersect Endpoints(file')) \union (Endpoints(file') \ Endpoints(subs'))
      /\ flow' = [f \in Flow |-> IF \E i \in DOMAIN chain : chain[i].from = f
                                 THEN [flow[f] EXCEPT !.reply = "error"] ELSE flow[f]]
  BY DEF Restart, browser
<1>1. /\ subs' \subseteq Entries /\ Bounded(subs') /\ Endpoints(subs') \subseteq Endpoints(file)
      /\ \A x \in subs' : OwnerIsActive(x.owner, cfg') /\ x.owner # None
      /\ \A e \in Endpoints(file) \intersect Endpoint :
           (\A x \in Of(file, e) : OwnerIsActive(x.owner, cfg')) => e \in Endpoints(subs')
  BY <1>a, <1>b, LoadKeeps
<1>2. file' \subseteq Entries /\ Bounded(file') /\ Endpoints(file') \subseteq Endpoints(file)
      /\ Endpoints(subs') \subseteq Endpoints(file')
      /\ \A x \in file' : x.ep \in Endpoint => x.owner # None
  BY <1>a, <1>b, <1>1 DEF PushTyped, StoreSound
<1>3. /\ flow' \in [Flow -> FlowType] /\ SameFlows
      /\ \A g \in Flow : /\ flow'[g].reply = flow[g].reply \/ flow'[g].reply = "error"
                         /\ (\A i \in DOMAIN chain : chain[i].from # g) => flow'[g] = flow[g]
  <2>1. ASSUME NEW g \in Flow
        PROVE  LET q == [flow[g] EXCEPT !.reply = "error"]
               IN  /\ q \in FlowType /\ q.pc = flow[g].pc /\ q.sub = flow[g].sub /\ q.key = flow[g].key
                   /\ q.off = flow[g].off /\ q.alone = flow[g].alone /\ q.reply = "error"
    <3>1. flow[g] \in FlowType
      BY <1>a DEF PushTyped
    <3> QED BY <3>1 DEF FlowType
  <2>2. ASSUME NEW g \in Flow
        PROVE  /\ flow'[g] = [flow[g] EXCEPT !.reply = "error"] \/ flow'[g] = flow[g]
               /\ (\A i \in DOMAIN chain : chain[i].from # g) => flow'[g] = flow[g]
    BY <1>b
  <2>3. ASSUME NEW g \in Flow
        PROVE  /\ flow'[g] \in FlowType
               /\ flow'[g].pc = flow[g].pc /\ flow'[g].sub = flow[g].sub /\ flow'[g].key = flow[g].key
               /\ flow'[g].off = flow[g].off /\ flow'[g].alone = flow[g].alone
               /\ flow'[g].reply = flow[g].reply \/ flow'[g].reply = "error"
    <3>1. CASE flow'[g] = flow[g]
      BY <1>a, <3>1 DEF PushTyped
    <3>2. CASE flow'[g] = [flow[g] EXCEPT !.reply = "error"]
      <4> DEFINE q == [flow[g] EXCEPT !.reply = "error"]
      <4>1. /\ q \in FlowType /\ q.pc = flow[g].pc /\ q.sub = flow[g].sub /\ q.key = flow[g].key
            /\ q.off = flow[g].off /\ q.alone = flow[g].alone /\ q.reply = "error"
        BY <2>1
      <4>2. flow'[g] = q
        BY <3>2
      <4> HIDE DEF q
      <4> QED BY <4>1, <4>2
    <3> QED BY <2>2, <3>1, <3>2
  <2>4. flow' = [f \in Flow |-> flow'[f]]
    BY <1>b
  <2>5. flow' \in [Flow -> FlowType]
    BY <2>3, <2>4
  <2> QED BY <2>2, <2>3, <2>5 DEF SameFlows
<1>4. PushTyped'
  BY <1>a, <1>b, <1>1, <1>2, <1>3, NoCastTyped DEF PushTyped
<1>5. UnmadeIsNowhere'
  <2> SUFFICES ASSUME NEW e \in Endpoint, keyOf'[e] = NoKey PROVE Nowhere(e)'
    BY DEF UnmadeIsNowhere
  <2>1. Nowhere(e)
    BY <1>a, <1>b DEF UnmadeIsNowhere
  <2>2. e \notin kept' /\ e \notin Endpoints(file') /\ e \notin Endpoints(subs')
    BY <1>b, <1>1, <1>2, <2>1 DEF Nowhere
  <2>3. e \notin cast'.to /\ e \notin cast'.dead /\ DOMAIN chain' = {}
    BY <1>b, NoCastTyped
  <2>4. \A f \in Flow : flow'[f].sub # e
    BY <1>3, <2>1 DEF Nowhere, SameFlows
  <2> QED BY <1>b, <2>1, <2>2, <2>3, <2>4 DEF Nowhere
<1>6. FlowsSound'
  BY <1>a, <1>3 DEF FlowsSound, SameFlows, Flow
<1>7. DOMAIN chain' = {}
  BY <1>b
<1>8. FlowsWait'
  <2>1. \A r \in wire' : r.from \in Flow => Awaits(flow'[r.from], r.op, r.ep)
    <3> SUFFICES ASSUME NEW r \in wire, r.from \in Flow PROVE Awaits(flow'[r.from], r.op, r.ep)
      BY <1>b
    <3>1. \A i \in DOMAIN chain : chain[i].from # r.from
      BY <1>a, OneRequest
    <3>2. flow'[r.from] = flow[r.from]
      BY <1>3, <3>1
    <3> QED BY <1>a, <3>2 DEF FlowsWait
  <2> QED BY <1>7, <2>1 DEF FlowsWait
<1>9. ChainSound'
  BY <1>b, <1>7 DEF ChainSound
<1>10. StoreSound'
  BY <1>1, <1>2 DEF StoreSound
<1>11. Durable'
  <2>1. kept' \intersect alive' \subseteq Endpoints(file)' \intersect Endpoints(subs)'
    <3> SUFFICES ASSUME NEW e \in kept', e \in alive PROVE e \in Endpoints(file') /\ e \in Endpoints(subs')
      BY <1>b DEF Endpoints
    <3>1. e \in Endpoints(file) /\ e \in Endpoint /\ \A x \in Of(file, e) : OwnerIsActive(x.owner, cfg')
      BY <1>a, <1>b DEF Durable, PushTyped
    <3> QED BY <1>1, <1>2, <3>1
  <2>2. gone' \intersect Endpoints(file)' \subseteq unswept'
    <3> SUFFICES ASSUME NEW e \in gone, e \in Endpoints(file') PROVE e \in unswept'
      BY <1>b DEF Endpoints
    <3>1. e \in unswept
      BY <1>a, <1>2 DEF Durable
    <3> QED BY <1>b, <3>1
  <2>3. (Endpoints(file') \ Endpoints(subs')) \subseteq unswept'
    BY <1>b
  <2>4. /\ Endpoints(file)' = Endpoints(file') /\ Endpoints(subs)' = Endpoints(subs')
    BY DEF Endpoints
  <2>5. gone' \intersect Endpoints(subs)' \subseteq unswept'
    BY <1>2, <2>2, <2>4
  <2>6. (Endpoints(file)' \intersect Endpoint) \ Endpoints(subs)' \subseteq unswept'
    BY <2>3, <2>4
  <2> QED BY <2>1, <2>2, <2>5, <2>6 DEF Durable
<1>12. NothingAdds => NothingAdds'
  BY <1>b, <1>7, <1>3 DEF NothingAdds, SameFlows, Flow
<1>13. "control" \in Flow /\ (flow'["control"].reply = "ok" => flow["control"].reply = "ok")
  BY <1>3 DEF Flow
<1>14. AloneSound' /\ OffSound'
  BY <1>a, <1>b, <1>3, <1>12, <1>13 DEF AloneSound, OffSound, SameFlows
<1>15. CastSound'
  BY <1>a, <1>b, NoCastTyped DEF CastSound
<1> QED BY <1>4, <1>5, <1>6, <1>8, <1>9, <1>10, <1>11, <1>14, <1>15 DEF PushInv

----------------------------------------------------------------------------
(* The browser.                                                            *)

\* Flow f moves; of the other flow at most its claim to be alone is withdrawn.
FlowMoves(f) ==
  /\ flow' \in [Flow -> FlowType]
  /\ \A g \in Flow \ {f} :
       /\ flow'[g].pc = flow[g].pc /\ flow'[g].sub = flow[g].sub /\ flow'[g].key = flow[g].key
       /\ flow'[g].off = flow[g].off /\ flow'[g].reply = flow[g].reply
       /\ flow'[g].alone => flow[g].alone

\* Where it moves to, it has what it needs there.
Equipped(f) ==
  /\ flow'[f].pc \in {"lookup", "renew", "subscribe"} => flow'[f].key # NoKey
  /\ flow'[f].pc \in {"renew", "post", "delete", "status", "register"} => flow'[f].sub # NoEndpoint
  /\ f = "setup" => flow'[f].pc \in {"idle", "config", "lookup", "renew", "subscribe", "post"}

\* It sends at most the request that it then waits for.
Asks(f) ==
  \/ wire' = wire
  \/ \E op \in {"add", "remove"}, e \in Endpoint : Request(f, op, e) /\ Awaits(flow'[f], op, e)

\* What the push manager makes is new, and is marked with its key.
ManagerMoves(f) ==
  /\ mine' \in Endpoint \union {NoEndpoint} /\ keyOf' \in [Endpoint -> Keys] /\ alive' \subseteq Endpoint
  /\ optedOut' \in BOOLEAN
  /\ \A e \in Endpoint : keyOf'[e] = NoKey =>
       keyOf[e] = NoKey /\ e # mine' /\ e \notin alive' /\ e # flow'[f].sub
  /\ \A e \in alive' : e \in alive \/ keyOf[e] = NoKey
  /\ mine' \in {mine, NoEndpoint} \/ keyOf[mine'] = NoKey

Waits(f) == flow[f].pc \in {"post", "delete", "register"} /\ flow[f].reply = "none"

LEMMA BrowserKeeps ==
  ASSUME PushInv, NEW f \in Flow, ~Waits(f), FlowMoves(f), Equipped(f), Asks(f), ManagerMoves(f),
         UNCHANGED <<server, cast, kept, gone, unswept, rude>>, AloneSound', OffSound'
  PROVE  PushInv'
<1>a. PushTyped /\ UnmadeIsNowhere /\ FlowsSound /\ FlowsWait /\ ChainSound /\ StoreSound /\ Durable /\ CastSound
  BY DEF PushInv
<1>b. /\ cfg' = cfg /\ subs' = subs /\ file' = file /\ chain' = chain /\ cast' = cast
      /\ kept' = kept /\ gone' = gone /\ unswept' = unswept /\ rude' = rude
  BY DEF server
<1>1. \A op, e : ~Awaits(flow[f], op, e)
  BY DEF Waits, Awaits
<1>2. (\A r \in wire : r.from # f) /\ (\A i \in DOMAIN chain : chain[i].from # f)
  BY <1>a, <1>1 DEF FlowsWait
<1>3. ASSUME wire' # wire
      PROVE  \E r : /\ wire' = wire \union {r} /\ r \in [op: {"add", "remove"}, ep: Endpoint, from: Senders]
                    /\ r.from = f /\ Awaits(flow'[f], r.op, r.ep)
  <2>1. PICK op \in {"add", "remove"}, e \in Endpoint : Request(f, op, e) /\ Awaits(flow'[f], op, e)
    BY <1>3 DEF Asks
  <2>2. f \in Senders
    BY DEF Senders
  <2> DEFINE r == [op |-> op, ep |-> e, from |-> f]
  <2>3. wire' = wire \union {r}
    BY <2>1 DEF Request
  <2>4. r \in [op: {"add", "remove"}, ep: Endpoint, from: Senders] /\ r.op = op /\ r.ep = e /\ r.from = f
    BY <2>2
  <2> HIDE DEF r
  <2> QED BY <2>1, <2>3, <2>4
<1>4. \A r \in wire' : \/ r \in wire
                       \/ /\ r \in [op: {"add", "remove"}, ep: Endpoint, from: Senders]
                          /\ r.from = f /\ Awaits(flow'[f], r.op, r.ep)
  BY <1>3
<1>5. PushTyped'
  <2>1. wire' \subseteq [op: {"add", "remove"}, ep: Endpoint, from: Senders]
    BY <1>a, <1>4 DEF PushTyped
  <2> QED BY <1>a, <1>b, <2>1 DEF PushTyped, FlowMoves, ManagerMoves
<1>6. UnmadeIsNowhere'
  <2> SUFFICES ASSUME NEW e \in Endpoint, keyOf'[e] = NoKey PROVE Nowhere(e)'
    BY DEF UnmadeIsNowhere
  <2>1. keyOf[e] = NoKey /\ e # mine' /\ e \notin alive' /\ e # flow'[f].sub
    BY DEF ManagerMoves
  <2>2. Nowhere(e)
    BY <1>a, <2>1 DEF UnmadeIsNowhere
  <2>3. \A g \in Flow : flow'[g].sub # e
    BY <2>1, <2>2 DEF Nowhere, FlowMoves
  <2>4. \A r \in wire' : r.ep # e
    <3>1. \A r : Awaits(flow'[f], r.op, r.ep) => r.ep = flow'[f].sub
      BY DEF Awaits
    <3> QED BY <1>4, <2>1, <2>2, <3>1 DEF Nowhere
  <2> QED BY <1>b, <2>1, <2>2, <2>3, <2>4 DEF Nowhere
<1>7. FlowsSound'
  <2>1. ASSUME NEW g \in Flow, g # f
        PROVE  flow'[g].pc = flow[g].pc /\ flow'[g].sub = flow[g].sub /\ flow'[g].key = flow[g].key
    BY <2>1 DEF FlowMoves
  <2>2. "setup" \in Flow
    BY DEF Flow
  <2> QED BY <1>a, <2>1, <2>2 DEF FlowsSound, Equipped
<1>8. FlowsWait'
  <2>1. ASSUME NEW g \in Flow, NEW op, NEW e, Awaits(flow[g], op, e), g # f
        PROVE  Awaits(flow'[g], op, e)
    BY <2>1 DEF Awaits, FlowMoves
  <2>2. \A r \in wire' : r.from \in Flow => Awaits(flow'[r.from], r.op, r.ep)
    BY <1>a, <1>2, <1>4, <2>1 DEF FlowsWait
  <2>3. \A i \in DOMAIN chain' : chain'[i].from \in Flow =>
          Awaits(flow'[chain'[i].from], chain'[i].op, chain'[i].ep)
    BY <1>a, <1>b, <1>2, <2>1 DEF FlowsWait
  <2>4. \A r \in wire', i \in DOMAIN chain' : ~(r.from \in Flow /\ r.from = chain'[i].from)
    BY <1>a, <1>b, <1>2, <1>4 DEF FlowsWait
  <2> QED BY <1>a, <1>b, <2>2, <2>3, <2>4 DEF FlowsWait
<1>9. \A e \in alive' : e \in alive \/ Nowhere(e)
  BY <1>a DEF ManagerMoves, UnmadeIsNowhere
<1>10. ChainSound'
  <2>1. \A i \in DOMAIN chain : chain[i].eps \intersect alive' = {}
    BY <1>a, <1>9 DEF ChainSound, MutationSound, Nowhere
  <2> QED BY <1>a, <1>b, <2>1 DEF ChainSound, MutationSound, HeadSound, Apply
<1>11. StoreSound'
  BY <1>a, <1>b DEF StoreSound
<1>12. Durable'
  <2>1. kept \intersect alive' \subseteq kept \intersect alive
    BY <1>9 DEF Nowhere
  <2> QED BY <1>a, <1>b, <2>1 DEF Durable, Renamed
<1>13. CastSound'
  <2>1. cast.dead \intersect alive' = {}
    BY <1>a, <1>9 DEF CastSound, Nowhere
  <2>2. cast.quiet /\ mine' # NoEndpoint => mine' \notin cast.to
    <3>1. mine' \in {mine, NoEndpoint} \/ Nowhere(mine')
      BY <1>a DEF ManagerMoves, UnmadeIsNowhere
    <3> QED BY <1>a, <3>1 DEF CastSound, Nowhere
  <2> QED BY <1>a, <1>b, <2>1, <2>2 DEF CastSound
<1> QED BY <1>5, <1>6, <1>7, <1>8, <1>10, <1>11, <1>12, <1>13 DEF PushInv

\* A flow on its way to a registration, or that checks one, is none of a browser that is
\* switched off, or that is switched off alone.
LEMMA OptInKeeps ==
  ASSUME PushInv, NEW f \in Flow, ~Waits(f), FlowMoves(f), Equipped(f), Asks(f), ManagerMoves(f),
         UNCHANGED <<server, cast, kept, gone, unswept, rude, off>>,
         flow[f].pc \in {"config", "lookup", "renew", "subscribe", "post", "status", "register"},
         flow'[f].pc \notin {"disable", "delete"}
  PROVE  PushInv'
<1>1. AloneSound /\ OffSound /\ off' = off
  BY DEF PushInv
<1>2. CASE f = "setup"
  <2>1. ~NothingAdds
    BY <1>2 DEF NothingAdds
  <2>2. /\ flow'["control"].pc = flow["control"].pc /\ (flow'["control"].alone => flow["control"].alone)
    BY <1>2 DEF FlowMoves, Flow
  <2>3. AloneSound' /\ OffSound'
    BY <1>1, <2>1, <2>2 DEF AloneSound, OffSound
  <2> QED BY <2>3, BrowserKeeps
<1>3. CASE f = "control"
  <2>1. AloneSound' /\ OffSound'
    BY <1>1, <1>3 DEF AloneSound, OffSound
  <2> QED BY <2>1, BrowserKeeps
<1> QED BY <1>2, <1>3 DEF Flow

\* Where a flow moves to.
LEMMA GoMoves ==
  ASSUME PushTyped, NEW f \in Flow,
         NEW pc \in {"idle", "config", "lookup", "renew", "subscribe", "post", "disable", "delete", "look",
                     "status", "register"},
         NEW ch, DOMAIN ch \subseteq {"sub", "key", "created", "off"},
         "sub" \in DOMAIN ch => ch["sub"] \in Endpoint \union {NoEndpoint},
         "key" \in DOMAIN ch => ch["key"] \in Keys,
         "created" \in DOMAIN ch => ch["created"] \in BOOLEAN,
         "off" \in DOMAIN ch => ch["off"] \in BOOLEAN,
         Go(f, pc, ch)
  PROVE  /\ FlowMoves(f)
         /\ flow'[f].pc = pc /\ flow'[f].reply = "none" /\ flow'[f].alone = flow[f].alone
         /\ flow'[f].sub = IF "sub" \in DOMAIN ch THEN ch["sub"] ELSE flow[f].sub
         /\ flow'[f].key = IF "key" \in DOMAIN ch THEN ch["key"] ELSE flow[f].key
         /\ flow'[f].off = IF "off" \in DOMAIN ch THEN ch["off"] ELSE flow[f].off
<1> DEFINE c == flow[f]
           d == [x \in DOMAIN c |-> IF x = "pc" THEN pc ELSE IF x = "reply" THEN "none"
                                    ELSE IF x \in DOMAIN ch THEN ch[x] ELSE c[x]]
<1>1. flow \in [Flow -> FlowType] /\ c \in FlowType
  BY DEF PushTyped
<1>2. DOMAIN c = {"pc", "sub", "key", "created", "off", "alone", "reply"}
  BY <1>1 DEF FlowType
<1>3. /\ d.pc = pc /\ d.reply = "none" /\ d.alone = c.alone
      /\ d.sub = IF "sub" \in DOMAIN ch THEN ch["sub"] ELSE c.sub
      /\ d.key = IF "key" \in DOMAIN ch THEN ch["key"] ELSE c.key
      /\ d.off = IF "off" \in DOMAIN ch THEN ch["off"] ELSE c.off
      /\ d.created = IF "created" \in DOMAIN ch THEN ch["created"] ELSE c.created
  <2> HIDE DEF c
  <2>1. "alone" \notin DOMAIN ch
    OBVIOUS
  <2> QED BY <1>2, <2>1
<1>4. d \in FlowType
  <2>1. /\ d.sub \in Endpoint \union {NoEndpoint} /\ d.key \in Keys /\ d.off \in BOOLEAN
        /\ d.created \in BOOLEAN /\ d.alone \in BOOLEAN
    BY <1>1, <1>3 DEF FlowType
  <2>2. DOMAIN d = {"pc", "sub", "key", "created", "off", "alone", "reply"}
    BY <1>2
  <2>3. d = [x \in {"pc", "sub", "key", "created", "off", "alone", "reply"} |-> d[x]]
    BY <1>2
  <2> HIDE DEF d
  <2> QED BY <1>3, <2>1, <2>3 DEF FlowType
<1>5. flow' = [flow EXCEPT ![f] = d]
  BY DEF Go
<1> HIDE DEF d
<1>6. flow' \in [Flow -> FlowType] /\ flow'[f] = d /\ \A g \in Flow \ {f} : flow'[g] = flow[g]
  BY <1>1, <1>4, <1>5
<1>7. FlowMoves(f)
  BY <1>6 DEF FlowMoves
<1> QED BY <1>3, <1>6, <1>7

LEMMA DoneMoves ==
  ASSUME PushTyped, NEW f \in Flow, NEW d \in BOOLEAN, Done(f, d)
  PROVE  /\ FlowMoves(f)
         /\ \/ flow'[f].pc = "idle"
            \/ flow'[f].pc = "look" /\ f = "control" /\ flow'[f].off = d
         /\ flow[f].pc \in {"look", "status", "register"} => flow'[f].pc = "idle"
         /\ flow'[f].sub \in {flow[f].sub, NoEndpoint}
<1>1. CASE f = "control" /\ flow[f].pc \notin {"look", "status", "register"}
  <2> DEFINE ch == [off |-> d]
  <2>1. DOMAIN ch = {"off"} /\ ch["off"] = d
    OBVIOUS
  <2>2. Go(f, "look", ch)
    BY <1>1 DEF Done
  <2> HIDE DEF ch
  <2>3. FlowMoves(f) /\ flow'[f].pc = "look" /\ flow'[f].off = d /\ flow'[f].sub = flow[f].sub
    <3>1. /\ DOMAIN ch \subseteq {"sub", "key", "created", "off"}
          /\ "sub" \notin DOMAIN ch /\ "key" \notin DOMAIN ch /\ "created" \notin DOMAIN ch
          /\ "off" \in DOMAIN ch /\ ch["off"] \in BOOLEAN
      BY <2>1
    <3> QED BY <2>1, <2>2, <3>1, GoMoves
  <2> QED BY <1>1, <2>3
<1>2. CASE ~(f = "control" /\ flow[f].pc \notin {"look", "status", "register"})
  <2>1. flow' = [flow EXCEPT ![f] = NoFlow]
    BY <1>2 DEF Done
  <2>2. NoFlow \in FlowType /\ NoFlow.pc = "idle" /\ NoFlow.sub = NoEndpoint
    BY DEF NoFlow, FlowType, Keys
  <2>3. flow \in [Flow -> FlowType]
    BY DEF PushTyped
  <2>4. flow' \in [Flow -> FlowType] /\ flow'[f] = NoFlow /\ \A g \in Flow \ {f} : flow'[g] = flow[g]
    BY <2>1, <2>2, <2>3
  <2> QED BY <2>2, <2>4 DEF FlowMoves
<1> QED BY <1>1, <1>2

LEMMA ManagerSame ==
  ASSUME PushInv, NEW f \in Flow, mine' \in {mine, NoEndpoint}, keyOf' = keyOf, alive' \subseteq alive,
         optedOut' \in BOOLEAN, flow'[f].sub \in {flow[f].sub, mine, NoEndpoint}
  PROVE  ManagerMoves(f)
<1>1. PushTyped /\ UnmadeIsNowhere
  BY DEF PushInv
<1>2. mine' \in Endpoint \union {NoEndpoint} /\ keyOf' \in [Endpoint -> Keys] /\ alive' \subseteq Endpoint
  BY <1>1 DEF PushTyped
<1>3. \A e \in Endpoint : keyOf'[e] = NoKey =>
        keyOf[e] = NoKey /\ e # mine' /\ e \notin alive' /\ e # flow'[f].sub
  BY <1>1, PushConstants DEF UnmadeIsNowhere, Nowhere
<1> QED BY <1>2, <1>3 DEF ManagerMoves

OptIn == {"config", "lookup", "renew", "subscribe", "post", "status", "register"}

\* A flow of this kind ends.
LEMMA DoneKeeps ==
  ASSUME PushInv, NEW f \in Flow, ~Waits(f), NEW d \in BOOLEAN, Done(f, d), flow[f].pc \in OptIn,
         UNCHANGED <<server, cast, wire, kept, gone, unswept, rude, off>>,
         mine' \in {mine, NoEndpoint}, keyOf' = keyOf, alive' \subseteq alive, optedOut' \in BOOLEAN
  PROVE  PushInv'
<1>1. PushTyped
  BY DEF PushInv
<1>2. /\ FlowMoves(f)
      /\ flow'[f].pc = "idle" \/ (flow'[f].pc = "look" /\ f = "control")
      /\ flow'[f].sub \in {flow[f].sub, NoEndpoint}
  BY <1>1, DoneMoves
<1>3. ManagerMoves(f)
  BY <1>2, ManagerSame
<1>4. Equipped(f) /\ Asks(f)
  BY <1>2 DEF Equipped, Asks
<1>5. UNCHANGED <<server, cast, kept, gone, unswept, rude, off>>
  OBVIOUS
<1>6. flow'[f].pc \notin {"disable", "delete"}
  BY <1>2
<1> QED BY <1>2, <1>3, <1>4, <1>5, <1>6, OptInKeeps DEF OptIn

\* One of this kind goes on.
LEMMA OnKeeps ==
  ASSUME PushInv, NEW f \in Flow, ~Waits(f), flow[f].pc \in OptIn, NEW pc \in OptIn, NEW ch,
         DOMAIN ch \subseteq {"sub", "key", "created", "off"},
         "sub" \in DOMAIN ch => ch["sub"] \in Endpoint \union {NoEndpoint},
         "key" \in DOMAIN ch => ch["key"] \in Keys,
         "created" \in DOMAIN ch => ch["created"] \in BOOLEAN,
         "off" \in DOMAIN ch => ch["off"] \in BOOLEAN,
         Go(f, pc, ch),
         UNCHANGED <<server, cast, kept, gone, unswept, rude, off>>,
         pc \in {"lookup", "renew", "subscribe"} =>
           (IF "key" \in DOMAIN ch THEN ch["key"] ELSE flow[f].key) # NoKey,
         pc \in {"renew", "post", "status", "register"} =>
           (IF "sub" \in DOMAIN ch THEN ch["sub"] ELSE flow[f].sub) # NoEndpoint,
         pc \in {"status", "register"} => f # "setup",
         \/ wire' = wire
         \/ /\ pc \in {"post", "register"}
            /\ LET e == IF "sub" \in DOMAIN ch THEN ch["sub"] ELSE flow[f].sub
               IN  e \in Endpoint /\ Request(f, "add", e),
         ManagerMoves(f)
  PROVE  PushInv'
<1>1. PushTyped
  BY DEF PushInv
<1>2. pc \in {"idle", "config", "lookup", "renew", "subscribe", "post", "disable", "delete", "look",
              "status", "register"}
  BY DEF OptIn
<1>3. /\ FlowMoves(f)
      /\ flow'[f].pc = pc /\ flow'[f].reply = "none"
      /\ flow'[f].sub = IF "sub" \in DOMAIN ch THEN ch["sub"] ELSE flow[f].sub
      /\ flow'[f].key = IF "key" \in DOMAIN ch THEN ch["key"] ELSE flow[f].key
  BY <1>1, <1>2, GoMoves
<1>4. Equipped(f)
  BY <1>3 DEF Equipped, OptIn
<1>5. Asks(f)
  <2>1. CASE wire' = wire
    BY <2>1 DEF Asks
  <2>2. CASE pc \in {"post", "register"} /\ flow'[f].sub \in Endpoint /\ Request(f, "add", flow'[f].sub)
    <3>1. Awaits(flow'[f], "add", flow'[f].sub)
      BY <1>3, <2>2 DEF Awaits
    <3> QED BY <2>2, <3>1 DEF Asks
  <2> QED BY <1>3, <2>1, <2>2
<1>6. flow'[f].pc \notin {"disable", "delete"}
  BY <1>3 DEF OptIn
<1> QED BY <1>3, <1>4, <1>5, <1>6, OptInKeeps DEF OptIn

LEMMA PushFacts ==
  ASSUME PushInv, NEW f \in Flow
  PROVE  /\ flow[f] \in FlowType /\ flow[f].sub \in Endpoint \union {NoEndpoint} /\ flow[f].key \in Keys
         /\ flow[f].off \in BOOLEAN /\ optedOut \in BOOLEAN /\ cfg.key \in Keys
         /\ mine \in Endpoint \union {NoEndpoint} /\ keyOf \in [Endpoint -> Keys]
         /\ flow[f].pc \in {"lookup", "renew", "subscribe"} => flow[f].key # NoKey
         /\ flow[f].pc \in {"renew", "post", "delete", "status", "register"} => flow[f].sub # NoEndpoint
         /\ flow[f].pc \in {"disable", "delete", "look", "status", "register"} => f = "control"
<1>1. PushTyped /\ FlowsSound
  BY DEF PushInv
<1>2. flow[f] \in FlowType /\ cfg \in Config
  BY <1>1 DEF PushTyped
<1>3. cfg.key \in Keys
  BY <1>2 DEF Keys
<1> QED BY <1>1, <1>2, <1>3 DEF PushTyped, FlowType, FlowsSound, Flow

LEMMA FetchConfigKeeps ==
  ASSUME PushInv, NEW f \in Flow, FetchConfig(f)
  PROVE  PushInv'
<1>a. /\ flow[f].pc = "config" /\ UNCHANGED <<server, cast, wire, browser, kept, gone, unswept, off, rude>>
      /\ (cfg.key # NoKey /\ Go(f, "lookup", [key |-> cfg.key])) \/ Done(f, optedOut)
  BY DEF FetchConfig
<1>b. /\ mine' = mine /\ keyOf' = keyOf /\ alive' = alive /\ optedOut' = optedOut /\ wire' = wire
      /\ UNCHANGED <<server, cast, kept, gone, unswept, rude, off>>
      /\ UNCHANGED <<server, cast, wire, kept, gone, unswept, rude, off>>
  BY <1>a DEF browser
<1>c. ~Waits(f) /\ flow[f].pc \in OptIn /\ optedOut \in BOOLEAN /\ cfg.key \in Keys
  BY <1>a, PushFacts DEF Waits, OptIn
<1>1. CASE cfg.key # NoKey /\ Go(f, "lookup", [key |-> cfg.key])
  <2> DEFINE ch == [key |-> cfg.key]
  <2>1. DOMAIN ch = {"key"} /\ ch["key"] = cfg.key /\ Go(f, "lookup", ch)
    BY <1>1
  <2> HIDE DEF ch
  <2>2. /\ DOMAIN ch \subseteq {"sub", "key", "created", "off"} /\ "lookup" \in OptIn
        /\ "sub" \notin DOMAIN ch /\ "created" \notin DOMAIN ch /\ "off" \notin DOMAIN ch
        /\ "key" \in DOMAIN ch /\ ch["key"] \in Keys
    BY <1>c, <2>1 DEF OptIn
  <2>3. flow'[f].sub = flow[f].sub
    <3>1. PushTyped
      BY DEF PushInv
    <3> QED BY <2>1, <2>2, <3>1, GoMoves
  <2>4. ManagerMoves(f)
    BY <1>b, <1>c, <2>3, ManagerSame
  <2> QED BY <1>b, <1>c, <1>1, <2>1, <2>2, <2>4, OnKeeps
<1>2. CASE Done(f, optedOut)
  BY <1>b, <1>c, <1>2, DoneKeeps
<1> QED BY <1>a, <1>1, <1>2

LEMMA LookupKeeps ==
  ASSUME PushInv, NEW f \in Flow, Lookup(f)
  PROVE  PushInv'
<1>a. /\ flow[f].pc = "lookup"
      /\ UNCHANGED <<server, cast, browser, spent, kept, gone, unswept, off, rude>>
      /\ \/ Go(f, "subscribe", <<>>) /\ wire' = wire
         \/ mine # NoEndpoint /\ Go(f, "renew", [sub |-> mine]) /\ wire' = wire
         \/ mine # NoEndpoint /\ Go(f, "post", [sub |-> mine]) /\ Request(f, "add", mine)
  BY DEF Lookup
<1>b. /\ mine' = mine /\ keyOf' = keyOf /\ alive' = alive /\ optedOut' = optedOut
      /\ UNCHANGED <<server, cast, kept, gone, unswept, rude, off>>
  BY <1>a DEF browser
<1>c. /\ ~Waits(f) /\ flow[f].pc \in OptIn /\ optedOut \in BOOLEAN /\ flow[f].key # NoKey
      /\ mine \in Endpoint \union {NoEndpoint} /\ PushTyped
  BY <1>a, PushFacts DEF Waits, OptIn, PushInv
<1>1. CASE Go(f, "subscribe", <<>>) /\ wire' = wire
  <2> DEFINE ch == <<>>
  <2>1. DOMAIN ch = {} /\ Go(f, "subscribe", ch)
    BY <1>1
  <2> HIDE DEF ch
  <2>2. flow'[f].sub = flow[f].sub
    BY <1>c, <2>1, GoMoves
  <2>3. ManagerMoves(f)
    BY <1>b, <1>c, <2>2, ManagerSame
  <2>4. "subscribe" \in OptIn
    BY DEF OptIn
  <2> QED BY <1>b, <1>c, <1>1, <2>1, <2>3, <2>4, OnKeeps
<1>2. ASSUME mine # NoEndpoint, NEW pc \in {"renew", "post"}, Go(f, pc, [sub |-> mine]),
             wire' = wire \/ (pc = "post" /\ Request(f, "add", mine))
      PROVE  PushInv'
  <2> DEFINE ch == [sub |-> mine]
  <2>1. DOMAIN ch = {"sub"} /\ ch["sub"] = mine /\ Go(f, pc, ch)
    BY <1>2
  <2> HIDE DEF ch
  <2>2. /\ DOMAIN ch \subseteq {"sub", "key", "created", "off"} /\ pc \in OptIn
        /\ "key" \notin DOMAIN ch /\ "created" \notin DOMAIN ch /\ "off" \notin DOMAIN ch
        /\ "sub" \in DOMAIN ch /\ ch["sub"] \in Endpoint \union {NoEndpoint}
        /\ pc \in {"idle", "config", "lookup", "renew", "subscribe", "post", "disable", "delete", "look",
                   "status", "register"}
    BY <1>c, <1>2, <2>1 DEF OptIn
  <2>3. flow'[f].sub = mine
    BY <1>c, <2>1, <2>2, GoMoves
  <2>4. ManagerMoves(f)
    BY <1>b, <1>c, <2>3, ManagerSame
  <2>5. wire' = wire \/ (pc \in {"post", "register"} /\ ch["sub"] \in Endpoint /\ Request(f, "add", ch["sub"]))
    BY <1>c, <1>2, <2>1
  <2> QED BY <1>b, <1>c, <1>2, <2>1, <2>2, <2>4, <2>5, OnKeeps
<1> QED BY <1>a, <1>1, <1>2

LEMMA RenewKeeps ==
  ASSUME PushInv, NEW f \in Flow, Renew(f)
  PROVE  PushInv'
<1>a. /\ flow[f].pc = "renew" /\ Unsubscribed(flow[f].sub) /\ Go(f, "subscribe", [sub |-> NoEndpoint])
      /\ UNCHANGED <<server, cast, wire, spent, kept, gone, unswept, off, rude>>
  BY DEF Renew
<1>b. /\ mine' \in {mine, NoEndpoint} /\ keyOf' = keyOf /\ alive' \subseteq alive /\ optedOut' = optedOut
      /\ UNCHANGED <<server, cast, kept, gone, unswept, rude, off>> /\ wire' = wire
  BY <1>a DEF Unsubscribed
<1>c. /\ ~Waits(f) /\ flow[f].pc \in OptIn /\ optedOut \in BOOLEAN /\ flow[f].key # NoKey /\ PushTyped
  BY <1>a, PushFacts DEF Waits, OptIn, PushInv
<1> DEFINE ch == [sub |-> NoEndpoint]
<1>1. DOMAIN ch = {"sub"} /\ ch["sub"] = NoEndpoint /\ Go(f, "subscribe", ch) /\ "subscribe" \in OptIn
  BY <1>a DEF OptIn
<1> HIDE DEF ch
<1>2. /\ DOMAIN ch \subseteq {"sub", "key", "created", "off"}
      /\ "key" \notin DOMAIN ch /\ "created" \notin DOMAIN ch /\ "off" \notin DOMAIN ch
      /\ "sub" \in DOMAIN ch /\ ch["sub"] \in Endpoint \union {NoEndpoint}
  BY <1>1
<1>3. flow'[f].sub = NoEndpoint
  BY <1>c, <1>1, <1>2, GoMoves
<1>4. ManagerMoves(f)
  BY <1>b, <1>c, <1>3, ManagerSame
<1> QED BY <1>b, <1>c, <1>1, <1>2, <1>4, OnKeeps

LEMMA SubscribeKeeps ==
  ASSUME PushInv, NEW f \in Flow, Subscribe(f)
  PROVE  PushInv'
<1>a. /\ flow[f].pc = "subscribe"
      /\ UNCHANGED <<server, cast, spent, kept, gone, unswept, off, rude>>
      /\ \/ /\ UNCHANGED optedOut
            /\ \E e \in Endpoint :
                 /\ keyOf[e] = NoKey
                 /\ mine' = e /\ alive' = alive \union {e} /\ keyOf' = [keyOf EXCEPT ![e] = flow[f].key]
                 /\ Go(f, "post", [sub |-> e, created |-> TRUE]) /\ Request(f, "add", e)
         \/ /\ mine # NoEndpoint /\ UNCHANGED browser
            /\ Go(f, "post", [sub |-> mine, created |-> TRUE]) /\ Request(f, "add", mine)
         \/ Done(f, optedOut) /\ UNCHANGED <<wire, browser>>
  BY DEF Subscribe
<1>b. UNCHANGED <<server, cast, kept, gone, unswept, rude, off>>
  BY <1>a
<1>c. /\ ~Waits(f) /\ flow[f].pc \in OptIn /\ optedOut \in BOOLEAN /\ flow[f].key # NoKey
      /\ flow[f].key \in Keys /\ keyOf \in [Endpoint -> Keys]
      /\ mine \in Endpoint \union {NoEndpoint} /\ PushTyped /\ "post" \in OptIn
  BY <1>a, PushFacts DEF Waits, OptIn, PushInv
<1>1. ASSUME NEW e \in Endpoint, Go(f, "post", [sub |-> e, created |-> TRUE]), Request(f, "add", e),
             flow'[f].sub = e => ManagerMoves(f)
      PROVE  PushInv'
  <2> DEFINE ch == [sub |-> e, created |-> TRUE]
  <2>1. DOMAIN ch = {"sub", "created"} /\ ch["sub"] = e /\ ch["created"] = TRUE /\ Go(f, "post", ch)
    BY <1>1
  <2> HIDE DEF ch
  <2>2. /\ DOMAIN ch \subseteq {"sub", "key", "created", "off"}
        /\ "key" \notin DOMAIN ch /\ "off" \notin DOMAIN ch
        /\ "sub" \in DOMAIN ch /\ ch["sub"] \in Endpoint \union {NoEndpoint}
        /\ "created" \in DOMAIN ch /\ ch["created"] \in BOOLEAN
    BY <2>1
  <2>3. flow'[f].sub = e
    BY <1>c, <2>1, <2>2, GoMoves
  <2>4. ManagerMoves(f)
    BY <1>1, <2>3
  <2>5. e # NoEndpoint
    BY PushConstants
  <2> QED BY <1>b, <1>c, <1>1, <2>1, <2>2, <2>4, <2>5, OnKeeps
<1>2. ASSUME NEW e \in Endpoint, keyOf[e] = NoKey, mine' = e, alive' = alive \union {e},
             keyOf' = [keyOf EXCEPT ![e] = flow[f].key], UNCHANGED optedOut, flow'[f].sub = e
      PROVE  ManagerMoves(f)
  <2>1. /\ keyOf' \in [Endpoint -> Keys] /\ keyOf'[e] # NoKey
        /\ \A d \in Endpoint : d # e => keyOf'[d] = keyOf[d]
    BY <1>c, <1>2
  <2>2. alive' \subseteq Endpoint
    BY <1>c, <1>2 DEF PushTyped
  <2>3. \A d \in Endpoint : keyOf'[d] = NoKey => d # e /\ keyOf[d] = NoKey /\ d \notin alive
    <3>1. UnmadeIsNowhere
      BY DEF PushInv
    <3> QED BY <2>1, <3>1 DEF UnmadeIsNowhere, Nowhere
  <2> QED BY <1>c, <1>2, <2>1, <2>2, <2>3 DEF ManagerMoves
<1>3. CASE /\ UNCHANGED optedOut
           /\ \E e \in Endpoint :
                /\ keyOf[e] = NoKey
                /\ mine' = e /\ alive' = alive \union {e} /\ keyOf' = [keyOf EXCEPT ![e] = flow[f].key]
                /\ Go(f, "post", [sub |-> e, created |-> TRUE]) /\ Request(f, "add", e)
  BY <1>1, <1>2, <1>3
<1>4. CASE /\ mine # NoEndpoint /\ UNCHANGED browser
           /\ Go(f, "post", [sub |-> mine, created |-> TRUE]) /\ Request(f, "add", mine)
  <2>1. mine \in Endpoint
    BY <1>c, <1>4
  <2>2. ASSUME flow'[f].sub = mine PROVE ManagerMoves(f)
    BY <1>c, <1>4, <2>2, ManagerSame DEF browser
  <2> QED BY <1>1, <1>4, <2>1, <2>2
<1>5. CASE Done(f, optedOut) /\ UNCHANGED <<wire, browser>>
  <2>1. /\ mine' \in {mine, NoEndpoint} /\ keyOf' = keyOf /\ alive' \subseteq alive /\ optedOut' \in BOOLEAN
        /\ UNCHANGED <<server, cast, wire, kept, gone, unswept, rude, off>>
    BY <1>b, <1>c, <1>5 DEF browser
  <2> QED BY <1>c, <1>5, <2>1, DoneKeeps
<1> QED BY <1>a, <1>3, <1>4, <1>5

LEMMA AnsweredKeeps ==
  ASSUME PushInv, NEW f \in Flow, Registered(f) \/ Checked(f)
  PROVE  PushInv'
<1>a. /\ flow[f].pc \in {"post", "register"} /\ flow[f].reply # "none"
      /\ UNCHANGED <<server, cast, wire, kept, gone, unswept, rude, off>>
      /\ \/ optedOut' = FALSE /\ Done(f, FALSE) /\ UNCHANGED <<mine, keyOf, alive>>
         \/ Unsubscribed(flow[f].sub) /\ Done(f, optedOut)
         \/ Done(f, optedOut) /\ UNCHANGED browser
  BY DEF Registered, Checked
<1>b. ~Waits(f) /\ flow[f].pc \in OptIn /\ optedOut \in BOOLEAN
  BY <1>a, PushFacts DEF Waits, OptIn
<1>1. CASE optedOut' = FALSE /\ Done(f, FALSE) /\ UNCHANGED <<mine, keyOf, alive>>
  BY <1>a, <1>b, <1>1, DoneKeeps
<1>2. CASE Unsubscribed(flow[f].sub) /\ Done(f, optedOut)
  <2>1. mine' \in {mine, NoEndpoint} /\ keyOf' = keyOf /\ alive' \subseteq alive /\ optedOut' \in BOOLEAN
    BY <1>b, <1>2 DEF Unsubscribed
  <2> QED BY <1>a, <1>b, <1>2, <2>1, DoneKeeps
<1>3. CASE Done(f, optedOut) /\ UNCHANGED browser
  <2>1. mine' \in {mine, NoEndpoint} /\ keyOf' = keyOf /\ alive' \subseteq alive /\ optedOut' \in BOOLEAN
    BY <1>b, <1>3 DEF browser
  <2> QED BY <1>a, <1>b, <1>3, <2>1, DoneKeeps
<1> QED BY <1>a, <1>1, <1>2, <1>3

LEMMA ManagerFailsKeeps ==
  ASSUME PushInv, NEW f \in Flow, ManagerFails(f)
  PROVE  PushInv'
<1>a. /\ flow[f].pc \in {"renew", "subscribe"} \/ (flow[f].pc = "post" /\ flow[f].reply # "none")
      /\ Done(f, optedOut)
      /\ UNCHANGED <<server, cast, wire, browser, kept, gone, unswept, rude, off>>
  BY DEF ManagerFails
<1>b. ~Waits(f) /\ flow[f].pc \in OptIn /\ optedOut \in BOOLEAN
  BY <1>a, PushFacts DEF Waits, OptIn
<1>1. mine' \in {mine, NoEndpoint} /\ keyOf' = keyOf /\ alive' \subseteq alive /\ optedOut' \in BOOLEAN
  BY <1>a, <1>b DEF browser
<1> QED BY <1>a, <1>b, <1>1, DoneKeeps

LEMMA FetchStatusKeeps ==
  ASSUME PushInv, NEW f \in Flow, FetchStatus(f)
  PROVE  PushInv'
<1>a. /\ flow[f].pc = "status"
      /\ UNCHANGED <<server, cast, browser, spent, kept, gone, unswept, off, rude>>
      /\ \/ Go(f, "register", <<>>) /\ Request(f, "add", flow[f].sub)
         \/ Done(f, optedOut) /\ UNCHANGED wire
  BY DEF FetchStatus
<1>b. /\ mine' = mine /\ keyOf' = keyOf /\ alive' = alive /\ optedOut' = optedOut
      /\ UNCHANGED <<server, cast, kept, gone, unswept, rude, off>>
  BY <1>a DEF browser
<1>c. /\ ~Waits(f) /\ flow[f].pc \in OptIn /\ optedOut \in BOOLEAN /\ flow[f].sub \in Endpoint
      /\ flow[f].sub # NoEndpoint /\ f # "setup" /\ "register" \in OptIn /\ PushTyped
  BY <1>a, PushFacts DEF Waits, OptIn, PushInv
<1>1. CASE Go(f, "register", <<>>) /\ Request(f, "add", flow[f].sub)
  <2> DEFINE ch == <<>>
  <2>1. DOMAIN ch = {} /\ Go(f, "register", ch)
    BY <1>1
  <2> HIDE DEF ch
  <2>2. flow'[f].sub = flow[f].sub
    BY <1>c, <2>1, GoMoves
  <2>3. ManagerMoves(f)
    BY <1>b, <1>c, <2>2, ManagerSame
  <2> QED BY <1>b, <1>c, <1>1, <2>1, <2>3, OnKeeps
<1>2. CASE Done(f, optedOut) /\ UNCHANGED wire
  BY <1>b, <1>c, <1>2, DoneKeeps
<1> QED BY <1>a, <1>1, <1>2

\* The dialog's flow ends, or goes on with what its user was told.
LEMMA SwitchKeeps ==
  ASSUME PushInv, NEW f \in Flow, f = "control", ~Waits(f), NEW d \in BOOLEAN, Done(f, d),
         UNCHANGED <<server, cast, wire, kept, gone, unswept, rude>>,
         mine' \in {mine, NoEndpoint}, keyOf' = keyOf, alive' \subseteq alive, optedOut' \in BOOLEAN,
         off' = "yes" => /\ optedOut' /\ NothingAdds /\ (flow[f].pc # "look" => d)
                         /\ mine' = NoEndpoint \/ mine' \in gone
  PROVE  PushInv'
<1>1. PushTyped
  BY DEF PushInv
<1>2. /\ FlowMoves(f)
      /\ flow'[f].pc = "idle" \/ (flow'[f].pc = "look" /\ flow'[f].off = d)
      /\ flow[f].pc = "look" => flow'[f].pc = "idle"
      /\ flow'[f].sub \in {flow[f].sub, NoEndpoint}
  BY <1>1, DoneMoves
<1>3. ManagerMoves(f)
  BY <1>2, ManagerSame
<1>4. Equipped(f) /\ Asks(f)
  BY <1>2 DEF Equipped, Asks
<1>5. UNCHANGED <<server, cast, kept, gone, unswept, rude>> /\ wire' = wire /\ chain' = chain
      /\ gone' = gone
  BY DEF server
<1>6. NothingAdds => NothingAdds'
  BY <1>2, <1>5 DEF NothingAdds, FlowMoves, Flow
<1>7. AloneSound'
  BY <1>2 DEF AloneSound
<1>8. OffSound'
  BY <1>2, <1>5, <1>6 DEF OffSound
<1> QED BY <1>2, <1>3, <1>4, <1>5, <1>7, <1>8, BrowserKeeps

LEMMA LookKeeps ==
  ASSUME PushInv, NEW f \in Flow, Look(f)
  PROVE  PushInv'
<1>a. /\ flow[f].pc = "look"
      /\ UNCHANGED <<server, cast, wire, browser, spent, kept, gone, unswept, off, rude>>
      /\ \/ mine # NoEndpoint /\ ~flow[f].off /\ Go(f, "status", [sub |-> mine])
         \/ Done(f, optedOut)
  BY DEF Look, Repairs
<1>b. /\ mine' = mine /\ keyOf' = keyOf /\ alive' = alive /\ optedOut' = optedOut
      /\ UNCHANGED <<server, cast, wire, kept, gone, unswept, rude>> /\ off' = off /\ wire' = wire
      /\ UNCHANGED <<server, cast, kept, gone, unswept, rude>>
  BY <1>a DEF browser
<1>c. /\ ~Waits(f) /\ f = "control" /\ optedOut \in BOOLEAN
      /\ mine \in Endpoint \union {NoEndpoint} /\ PushTyped /\ OffSound
  BY <1>a, PushFacts DEF Waits, PushInv
<1>1. CASE mine # NoEndpoint /\ ~flow[f].off /\ Go(f, "status", [sub |-> mine])
  <2> DEFINE ch == [sub |-> mine]
  <2>1. DOMAIN ch = {"sub"} /\ ch["sub"] = mine /\ Go(f, "status", ch)
    BY <1>1
  <2> HIDE DEF ch
  <2>2. /\ DOMAIN ch \subseteq {"sub", "key", "created", "off"}
        /\ "key" \notin DOMAIN ch /\ "created" \notin DOMAIN ch /\ "off" \notin DOMAIN ch
        /\ "sub" \in DOMAIN ch /\ ch["sub"] \in Endpoint \union {NoEndpoint}
    BY <1>c, <2>1
  <2>3. FlowMoves(f) /\ flow'[f].pc = "status" /\ flow'[f].sub = mine
    BY <1>c, <2>1, <2>2, GoMoves
  <2>4. ManagerMoves(f) /\ Equipped(f) /\ Asks(f)
    BY <1>1, <1>b, <1>c, <2>3, ManagerSame DEF Equipped, Asks
  <2>5. AloneSound'
    BY <1>c, <2>3 DEF AloneSound
  <2>6. OffSound'
    BY <1>a, <1>b, <1>c, <1>1 DEF OffSound
  <2> QED BY <1>b, <1>c, <2>3, <2>4, <2>5, <2>6, BrowserKeeps
<1>2. CASE Done(f, optedOut)
  <2>1. off' = "yes" => /\ optedOut' /\ NothingAdds /\ (flow[f].pc # "look" => optedOut)
                        /\ mine' = NoEndpoint \/ mine' \in gone
    BY <1>a, <1>b, <1>c DEF OffSound
  <2>2. /\ mine' \in {mine, NoEndpoint} /\ keyOf' = keyOf /\ alive' \subseteq alive /\ optedOut' \in BOOLEAN
    BY <1>b, <1>c
  <2> QED BY <1>b, <1>c, <1>2, <2>1, <2>2, SwitchKeeps
<1> QED BY <1>a, <1>1, <1>2

LEMMA DisableLookupKeeps ==
  ASSUME PushInv, NEW f \in Flow, DisableLookup(f)
  PROVE  PushInv'
<1>a. /\ flow[f].pc = "disable"
      /\ UNCHANGED <<server, cast, mine, keyOf, alive, spent, kept, gone, unswept, rude>>
      /\ \/ /\ mine = NoEndpoint /\ optedOut' = TRUE /\ Done(f, TRUE) /\ off' = Switched(f)
            /\ UNCHANGED wire
         \/ /\ mine # NoEndpoint
            /\ Go(f, "delete", [sub |-> mine]) /\ Request(f, "remove", mine) /\ UNCHANGED <<optedOut, off>>
  BY DEF DisableLookup
<1>b. /\ mine' = mine /\ keyOf' = keyOf /\ alive' = alive
      /\ UNCHANGED <<server, cast, kept, gone, unswept, rude>> /\ chain' = chain /\ gone' = gone
  BY <1>a DEF server
<1>c. /\ ~Waits(f) /\ f = "control" /\ optedOut \in BOOLEAN
      /\ mine \in Endpoint \union {NoEndpoint} /\ PushTyped /\ OffSound /\ AloneSound
  BY <1>a, PushFacts DEF Waits, PushInv
<1>1. CASE mine = NoEndpoint /\ optedOut' = TRUE /\ Done(f, TRUE) /\ off' = Switched(f) /\ UNCHANGED wire
  <2>1. off' = "yes" => NothingAdds
    BY <1>a, <1>c, <1>1 DEF Switched, AloneSound
  <2>2. UNCHANGED <<server, cast, wire, kept, gone, unswept, rude>>
    BY <1>b, <1>1
  <2> QED BY <1>b, <1>c, <1>1, <2>1, <2>2, SwitchKeeps
<1>2. CASE /\ mine # NoEndpoint
           /\ Go(f, "delete", [sub |-> mine]) /\ Request(f, "remove", mine) /\ UNCHANGED <<optedOut, off>>
  <2> DEFINE ch == [sub |-> mine]
  <2>1. DOMAIN ch = {"sub"} /\ ch["sub"] = mine /\ Go(f, "delete", ch)
    BY <1>2
  <2> HIDE DEF ch
  <2>2. /\ DOMAIN ch \subseteq {"sub", "key", "created", "off"}
        /\ "key" \notin DOMAIN ch /\ "created" \notin DOMAIN ch /\ "off" \notin DOMAIN ch
        /\ "sub" \in DOMAIN ch /\ ch["sub"] \in Endpoint \union {NoEndpoint}
    BY <1>c, <2>1
  <2>3. /\ FlowMoves(f) /\ flow'[f].pc = "delete" /\ flow'[f].sub = mine /\ flow'[f].reply = "none"
        /\ flow'[f].alone = flow[f].alone
    BY <1>c, <2>1, <2>2, GoMoves
  <2>4. ManagerMoves(f) /\ Equipped(f)
    BY <1>2, <1>b, <1>c, <2>3, ManagerSame DEF Equipped
  <2>5. Asks(f)
    <3>1. Awaits(flow'[f], "remove", mine) /\ mine \in Endpoint
      BY <1>2, <1>c, <2>3 DEF Awaits
    <3> QED BY <1>2, <3>1 DEF Asks
  <2>6. NothingAdds => NothingAdds'
    <3>1. \A r \in wire' : r \in wire \/ r.op = "remove"
      BY <1>2 DEF Request
    <3>2. flow'["setup"].pc = flow["setup"].pc
      BY <1>c, <2>3 DEF FlowMoves, Flow
    <3> QED BY <1>b, <3>1, <3>2 DEF NothingAdds
  <2>7. AloneSound'
    BY <1>a, <1>b, <1>c, <2>3, <2>6 DEF AloneSound
  <2>8. OffSound'
    BY <1>2, <1>b, <1>c, <2>3, <2>6 DEF OffSound
  <2> QED BY <1>b, <1>c, <2>3, <2>4, <2>5, <2>7, <2>8, BrowserKeeps
<1> QED BY <1>a, <1>1, <1>2

LEMMA DisabledKeeps ==
  ASSUME PushInv, NEW f \in Flow, Disabled(f)
  PROVE  PushInv'
<1>a. /\ flow[f].pc = "delete" /\ flow[f].reply # "none"
      /\ UNCHANGED <<server, cast, wire, kept, gone, unswept, rude>>
      /\ \/ /\ alive' = alive \ {flow[f].sub} /\ mine' = IF mine = flow[f].sub THEN NoEndpoint ELSE mine
            /\ optedOut' = TRUE /\ Done(f, TRUE) /\ off' = Switched(f) /\ UNCHANGED keyOf
         \/ /\ flow[f].reply = "ok" /\ optedOut' = TRUE /\ Done(f, TRUE) /\ off' = Switched(f)
            /\ UNCHANGED <<mine, keyOf, alive>>
         \/ Done(f, optedOut) /\ UNCHANGED <<optedOut, off, mine, keyOf, alive>>
  BY DEF Disabled
<1>c. /\ ~Waits(f) /\ f = "control" /\ optedOut \in BOOLEAN /\ PushTyped /\ OffSound /\ AloneSound
      /\ flow[f].reply \in {"none", "ok", "error"}
  BY <1>a, PushFacts DEF Waits, PushInv, FlowType
<1>1. ASSUME Switched(f) = "yes" PROVE NothingAdds /\ mine \in {flow[f].sub, NoEndpoint}
                                       /\ (flow[f].reply = "ok" => flow[f].sub \in gone)
  BY <1>a, <1>c, <1>1 DEF Switched, AloneSound
<1>2. CASE /\ alive' = alive \ {flow[f].sub} /\ mine' = IF mine = flow[f].sub THEN NoEndpoint ELSE mine
           /\ optedOut' = TRUE /\ Done(f, TRUE) /\ off' = Switched(f) /\ UNCHANGED keyOf
  <2>1. off' = "yes" => NothingAdds /\ mine' = NoEndpoint
    BY <1>1, <1>2
  <2>2. mine' \in {mine, NoEndpoint} /\ alive' \subseteq alive
    BY <1>2
  <2> QED BY <1>a, <1>c, <1>2, <2>1, <2>2, SwitchKeeps
<1>3. CASE /\ flow[f].reply = "ok" /\ optedOut' = TRUE /\ Done(f, TRUE) /\ off' = Switched(f)
           /\ UNCHANGED <<mine, keyOf, alive>>
  <2>1. off' = "yes" => NothingAdds /\ (mine' = NoEndpoint \/ mine' \in gone)
    BY <1>1, <1>3
  <2> QED BY <1>a, <1>c, <1>3, <2>1, SwitchKeeps
<1>4. CASE Done(f, optedOut) /\ UNCHANGED <<optedOut, off, mine, keyOf, alive>>
  <2>1. off' = "yes" => optedOut /\ NothingAdds /\ (mine' = NoEndpoint \/ mine' \in gone)
    BY <1>c, <1>4 DEF OffSound
  <2> QED BY <1>a, <1>c, <1>4, <2>1, SwitchKeeps
<1> QED BY <1>a, <1>2, <1>3, <1>4

LEMMA StartSetupKeeps ==
  ASSUME PushInv, StartSetup
  PROVE  PushInv'
<1> DEFINE s == [NoFlow EXCEPT !.pc = "config"]
           c == [flow["control"] EXCEPT !.alone = FALSE]
<1>a. /\ flow["setup"].pc = "idle" /\ ~optedOut
      /\ flow' = [flow EXCEPT !["setup"] = [NoFlow EXCEPT !.pc = "config"], !["control"].alone = FALSE]
      /\ UNCHANGED <<server, cast, wire, browser, kept, gone, unswept, off, rude>>
  BY DEF StartSetup
<1>b. /\ mine' = mine /\ keyOf' = keyOf /\ alive' = alive /\ optedOut' = optedOut /\ wire' = wire
      /\ UNCHANGED <<server, cast, kept, gone, unswept, rude>> /\ off' = off
  BY <1>a DEF browser
<1>c. /\ flow \in [Flow -> FlowType] /\ "setup" \in Flow /\ "control" \in Flow /\ OffSound
      /\ optedOut \in BOOLEAN
  BY DEF PushInv, PushTyped, Flow
<1>1. s \in FlowType /\ s.pc = "config" /\ s.sub = NoEndpoint
  BY DEF NoFlow, FlowType, Keys
<1>2. flow["control"] \in FlowType
  BY <1>c
<1>3. /\ c \in FlowType /\ c.pc = flow["control"].pc /\ c.sub = flow["control"].sub
      /\ c.key = flow["control"].key /\ c.off = flow["control"].off /\ c.reply = flow["control"].reply
      /\ c.alone = FALSE
  BY <1>2 DEF FlowType
<1>4. flow' = [flow EXCEPT !["setup"] = s, !["control"] = c]
  BY <1>a
<1> HIDE DEF s, c
<1>5. flow' \in [Flow -> FlowType] /\ flow'["setup"] = s /\ flow'["control"] = c
  BY <1>c, <1>1, <1>3, <1>4
<1>6. FlowMoves("setup")
  BY <1>3, <1>5 DEF FlowMoves, Flow
<1>7. Equipped("setup") /\ Asks("setup") /\ ~Waits("setup")
  BY <1>a, <1>b, <1>1, <1>5 DEF Equipped, Asks, Waits
<1>8. ManagerMoves("setup")
  BY <1>b, <1>c, <1>1, <1>5, ManagerSame
<1>9. AloneSound' /\ OffSound'
  BY <1>a, <1>b, <1>c, <1>3, <1>5 DEF AloneSound, OffSound
<1> QED BY <1>b, <1>c, <1>6, <1>7, <1>8, <1>9, BrowserKeeps

LEMMA StartControlKeeps ==
  ASSUME PushInv, NEW pc \in {"config", "disable", "look"}, StartControl(pc)
  PROVE  PushInv'
<1> DEFINE c == [NoFlow EXCEPT !.pc = pc, !.off = optedOut, !.alone = Quiet]
<1>a. /\ flow["control"].pc = "idle"
      /\ flow' = [flow EXCEPT !["control"] = c]
      /\ off' = IF pc = "config" THEN "no" ELSE off
      /\ UNCHANGED rude
      /\ UNCHANGED <<server, cast, wire, browser, kept, gone, unswept>>
  BY DEF StartControl
<1>b. /\ mine' = mine /\ keyOf' = keyOf /\ alive' = alive /\ optedOut' = optedOut /\ wire' = wire
      /\ UNCHANGED <<server, cast, kept, gone, unswept, rude>> /\ chain' = chain /\ gone' = gone
  BY <1>a DEF browser, server
<1>c. /\ flow \in [Flow -> FlowType] /\ "setup" \in Flow /\ "control" \in Flow /\ OffSound
      /\ optedOut \in BOOLEAN
  BY DEF PushInv, PushTyped, Flow
<1>1. Quiet \in BOOLEAN /\ (Quiet => NothingAdds)
  BY DEF Quiet, NothingAdds, Flow
<1>2. c \in FlowType /\ c.pc = pc /\ c.sub = NoEndpoint /\ c.off = optedOut /\ c.alone = Quiet
  BY <1>c, <1>1 DEF NoFlow, FlowType, Keys
<1> HIDE DEF c
<1>3. /\ flow' \in [Flow -> FlowType] /\ flow'["control"] = c
      /\ \A g \in Flow \ {"control"} : flow'[g] = flow[g]
  BY <1>a, <1>c, <1>2
<1>4. FlowMoves("control")
  BY <1>3 DEF FlowMoves
<1>5. Equipped("control") /\ Asks("control") /\ ~Waits("control")
  BY <1>a, <1>b, <1>2, <1>3 DEF Equipped, Asks, Waits
<1>6. ManagerMoves("control")
  BY <1>b, <1>c, <1>2, <1>3, ManagerSame
<1>7. NothingAdds => NothingAdds'
  BY <1>b, <1>3 DEF NothingAdds, Flow
<1>8. AloneSound'
  BY <1>1, <1>2, <1>3, <1>7 DEF AloneSound
<1>9. OffSound'
  BY <1>a, <1>b, <1>c, <1>2, <1>3, <1>7 DEF OffSound
<1> QED BY <1>b, <1>c, <1>4, <1>5, <1>6, <1>8, <1>9, BrowserKeeps

\* The flow no longer waits for its request, which nobody waits for now.
LEMMA LoseKeeps ==
  ASSUME PushInv, NEW f \in Flow, LoseAnswer(f)
  PROVE  PushInv'
<1>a. PushTyped /\ UnmadeIsNowhere /\ FlowsSound /\ FlowsWait /\ ChainSound /\ StoreSound /\ Durable
      /\ AloneSound /\ OffSound /\ CastSound
  BY DEF PushInv
<1>b. /\ flow' = [flow EXCEPT ![f].reply = "error"]
      /\ \E late \in {{}, {r \in wire : r.from = f}} :
           wire' = {r \in wire : r.from # f} \union {[r EXCEPT !.from = "nobody"] : r \in late}
      /\ chain' = [i \in DOMAIN chain |->
                     IF chain[i].from = f THEN [chain[i] EXCEPT !.from = "nobody"] ELSE chain[i]]
      /\ UNCHANGED <<cfg, file, subs, cast, browser, kept, gone, unswept, off, rude>>
  BY DEF LoseAnswer
<1>c. /\ UNCHANGED <<mine, keyOf, alive, optedOut>>
      /\ cfg' = cfg /\ subs' = subs /\ file' = file /\ off' = off /\ rude' = rude /\ cast' = cast
      /\ kept' = kept /\ gone' = gone /\ unswept' = unswept
  BY <1>b DEF browser
<1>1. /\ flow' \in [Flow -> FlowType] /\ SameFlows /\ flow'[f].reply = "error"
      /\ \A g \in Flow : g # f => flow'[g].reply = flow[g].reply
  <2>1. Reply(f, "error")
    BY <1>b DEF Reply
  <2> QED BY <1>a, <2>1, ReplyGiven
<1>d. "nobody" \notin Flow /\ "nobody" \in Senders /\ f # "cast" /\ "setup" \in Flow /\ "control" \in Flow
  BY DEF Flow, Senders
<1>2. ASSUME NEW r \in wire'
      PROVE  /\ r \in [op: {"add", "remove"}, ep: Endpoint, from: Senders]
             /\ r.from # f
             /\ r \in wire \/ (r.from = "nobody" /\ \E s \in wire : s.op = r.op /\ s.ep = r.ep)
  <2>1. CASE r \in wire /\ r.from # f
    BY <1>a, <2>1 DEF PushTyped
  <2>2. CASE \E s \in wire : r = [s EXCEPT !.from = "nobody"]
    <3>1. PICK s \in wire : r = [s EXCEPT !.from = "nobody"]
      BY <2>2
    <3>2. s \in [op: {"add", "remove"}, ep: Endpoint, from: Senders]
      BY <1>a DEF PushTyped
    <3>3. /\ r \in [op: {"add", "remove"}, ep: Endpoint, from: Senders]
          /\ r.from = "nobody" /\ s.op = r.op /\ s.ep = r.ep
      BY <1>d, <3>1, <3>2
    <3> QED BY <1>d, <3>3
  <2> QED BY <1>b, <2>1, <2>2
<1>3. chain \in Seq(MutationType) /\ DOMAIN chain = 1..Len(chain) /\ Len(chain) \in Nat
      /\ \A i \in DOMAIN chain : chain[i] \in MutationType
  BY <1>a, ChainTyped DEF PushTyped
<1>4. ASSUME NEW i \in DOMAIN chain
      PROVE  LET n == [chain[i] EXCEPT !.from = "nobody"]
             IN  /\ n \in MutationType /\ n.op = chain[i].op /\ n.ep = chain[i].ep /\ n.eps = chain[i].eps
                 /\ n.owner = chain[i].owner /\ n.stage = chain[i].stage /\ n.next = chain[i].next
                 /\ n.from = "nobody"
  BY <1>d, <1>3 DEF MutationType
<1>5. DOMAIN chain' = DOMAIN chain
      /\ \A i \in DOMAIN chain :
           /\ chain[i].from = f => chain'[i] = [chain[i] EXCEPT !.from = "nobody"]
           /\ chain[i].from # f => chain'[i] = chain[i]
  BY <1>b
<1>6. ASSUME NEW i \in DOMAIN chain
      PROVE  /\ chain'[i] \in MutationType /\ chain'[i].op = chain[i].op /\ chain'[i].ep = chain[i].ep
             /\ chain'[i].eps = chain[i].eps /\ chain'[i].owner = chain[i].owner
             /\ chain'[i].stage = chain[i].stage /\ chain'[i].next = chain[i].next
             /\ chain'[i].from # f
             /\ (chain'[i].from = chain[i].from) \/ (chain[i].from = f /\ chain'[i].from = "nobody")
  <2> DEFINE n == [chain[i] EXCEPT !.from = "nobody"]
  <2>1. /\ n \in MutationType /\ n.op = chain[i].op /\ n.ep = chain[i].ep /\ n.eps = chain[i].eps
        /\ n.owner = chain[i].owner /\ n.stage = chain[i].stage /\ n.next = chain[i].next
        /\ n.from = "nobody"
    BY <1>4
  <2>2. chain'[i] = n \/ chain[i].from # f
    BY <1>5
  <2> HIDE DEF n
  <2> QED BY <1>d, <1>3, <1>5, <2>1, <2>2 DEF n
<1>7. chain' \in Seq(MutationType) /\ (chain' # <<>> => chain # <<>>) /\ Len(chain') = Len(chain)
  <2>1. chain' = [i \in 1..Len(chain) |-> chain'[i]]
    BY <1>b, <1>3, <1>5
  <2>2. \A i \in 1..Len(chain) : chain'[i] \in MutationType
    BY <1>3, <1>6
  <2> DEFINE c == chain'
  <2>3. c \in [1..Len(chain) -> MutationType]
    BY <2>1, <2>2
  <2> HIDE DEF c
  <2>4. c \in Seq(MutationType) /\ Len(c) = Len(chain)
    BY <1>3, <2>3
  <2>5. c # <<>> => chain # <<>>
    BY <1>3, <2>3, <2>4
  <2> QED BY <2>4, <2>5 DEF c
<1>8. PushTyped'
  BY <1>a, <1>c, <1>1, <1>2, <1>7 DEF PushTyped
<1>9. UnmadeIsNowhere'
  <2> SUFFICES ASSUME NEW e \in Endpoint, keyOf'[e] = NoKey PROVE Nowhere(e)'
    BY DEF UnmadeIsNowhere
  <2>1. Nowhere(e)
    BY <1>a, <1>c DEF UnmadeIsNowhere
  <2>2. \A r \in wire' : r.ep # e
    BY <1>2, <2>1 DEF Nowhere
  <2>3. \A i \in DOMAIN chain' : chain'[i].ep # e /\ e \notin chain'[i].eps
    BY <1>5, <1>6, <2>1 DEF Nowhere
  <2>4. \A g \in Flow : flow'[g].sub # e
    BY <1>1, <2>1 DEF Nowhere, SameFlows
  <2> QED BY <1>c, <2>1, <2>2, <2>3, <2>4 DEF Nowhere
<1>10. FlowsSound'
  BY <1>a, <1>1 DEF FlowsSound, SameFlows, Flow
<1>11. FlowsWait'
  <2>1. ASSUME NEW g \in Flow, NEW op, NEW e, Awaits(flow[g], op, e), g # f PROVE Awaits(flow'[g], op, e)
    BY <1>1, <2>1 DEF Awaits, SameFlows
  <2>2. \A r \in wire' : r.from \in Flow => Awaits(flow'[r.from], r.op, r.ep)
    BY <1>a, <1>d, <1>2, <2>1 DEF FlowsWait
  <2>3. \A i \in DOMAIN chain' : chain'[i].from \in Flow =>
          Awaits(flow'[chain'[i].from], chain'[i].op, chain'[i].ep)
    <3> SUFFICES ASSUME NEW i \in DOMAIN chain, chain'[i].from \in Flow
                 PROVE  Awaits(flow'[chain'[i].from], chain'[i].op, chain'[i].ep)
      BY <1>5
    <3>1. chain'[i].from = chain[i].from /\ chain[i].from # f
      BY <1>d, <1>6
    <3>2. Awaits(flow[chain[i].from], chain[i].op, chain[i].ep)
      BY <1>a, <3>1 DEF FlowsWait
    <3>3. Awaits(flow'[chain[i].from], chain[i].op, chain[i].ep)
      BY <2>1, <3>1, <3>2
    <3> QED BY <1>6, <3>1, <3>3
  <2>4. \A i, j \in DOMAIN chain' : chain'[i].from \in Flow /\ chain'[i].from = chain'[j].from => i = j
    BY <1>a, <1>d, <1>5, <1>6 DEF FlowsWait
  <2>5. \A r \in wire', i \in DOMAIN chain' : ~(r.from \in Flow /\ r.from = chain'[i].from)
    BY <1>a, <1>d, <1>2, <1>5, <1>6 DEF FlowsWait
  <2> QED BY <2>2, <2>3, <2>4, <2>5 DEF FlowsWait
<1>12. ChainSound'
  <2>1. ASSUME NEW i \in DOMAIN chain PROVE MutationSound(chain[i])' /\ (i # 1 => chain'[i].stage = "queued")
    BY <1>a, <1>c, <1>d, <1>6 DEF ChainSound, MutationSound
  <2>2. ASSUME chain # <<>> PROVE HeadSound(chain[1])'
    <3>1. 1 \in DOMAIN chain /\ HeadSound(chain[1])
      BY <1>a, <1>3, <2>2 DEF ChainSound
    <3>2. Apply(chain[1], subs)' = Apply(chain[1], subs)
      BY <1>c, <1>6, <3>1 DEF Apply
    <3> QED BY <1>c, <1>6, <3>1, <3>2 DEF HeadSound
  <2> QED BY <1>5, <1>7, <2>1, <2>2 DEF ChainSound
<1>13. StoreSound'
  BY <1>a, <1>c DEF StoreSound
<1>14. Durable'
  <2>1. Renamed' <=> Renamed
    <3>1. (chain' = <<>>) <=> (chain = <<>>)
      BY <1>3, <1>7
    <3>2. chain # <<>> => chain'[1].stage = chain[1].stage
      BY <1>3, <1>6
    <3> QED BY <3>1, <3>2 DEF Renamed
  <2> QED BY <1>a, <1>c, <2>1 DEF Durable
<1>15. NothingAdds => NothingAdds'
  <2> SUFFICES ASSUME NothingAdds PROVE NothingAdds'
    OBVIOUS
  <2>1. \A r \in wire' : r.op # "add"
    BY <1>2 DEF NothingAdds
  <2>2. \A i \in DOMAIN chain' : chain'[i].op # "add"
    BY <1>5, <1>6 DEF NothingAdds
  <2>3. flow'["setup"].pc = "idle"
    BY <1>d, <1>1 DEF NothingAdds, SameFlows
  <2> QED BY <2>1, <2>2, <2>3 DEF NothingAdds
<1>16. flow'["control"].reply = "ok" => flow["control"].reply = "ok"
  BY <1>d, <1>1
<1>17. AloneSound' /\ OffSound' /\ CastSound'
  BY <1>a, <1>c, <1>d, <1>1, <1>15, <1>16 DEF AloneSound, OffSound, CastSound, SameFlows
<1> QED BY <1>8, <1>9, <1>10, <1>11, <1>12, <1>13, <1>14, <1>17 DEF PushInv

----------------------------------------------------------------------------
(* Every step of the push subscriptions keeps it.                          *)

LEMMA FlowKeeps ==
  ASSUME PushInv, NEW f \in Flow, FlowStep(f)
  PROVE  PushInv'
BY FetchConfigKeeps, LookupKeeps, RenewKeeps, SubscribeKeeps, AnsweredKeeps, ManagerFailsKeeps,
   DisableLookupKeeps, DisabledKeeps, LookKeeps, FetchStatusKeeps
   DEF FlowStep

LEMMA StepPush ==
  ASSUME PushInv, [Next]_vars
  PROVE  PushInv'
<1>1. CASE UNCHANGED vars
  <2>1. /\ cfg' = cfg /\ file' = file /\ subs' = subs /\ chain' = chain /\ cast' = cast /\ wire' = wire
        /\ mine' = mine /\ keyOf' = keyOf /\ alive' = alive /\ optedOut' = optedOut /\ flow' = flow
        /\ kept' = kept /\ gone' = gone /\ unswept' = unswept /\ off' = off /\ rude' = rude
    BY <1>1 DEF vars, server, browser
  <2>2. PushTyped' /\ UnmadeIsNowhere' /\ FlowsSound' /\ FlowsWait'
    BY <2>1 DEF PushInv, PushTyped, UnmadeIsNowhere, Nowhere, FlowsSound, FlowsWait
  <2>3. ChainSound'
    BY <2>1 DEF PushInv, ChainSound, MutationSound, HeadSound, Apply
  <2>4. StoreSound' /\ Durable'
    BY <2>1 DEF PushInv, StoreSound, Durable, Renamed
  <2>5. AloneSound' /\ OffSound' /\ CastSound'
    BY <2>1 DEF PushInv, AloneSound, OffSound, NothingAdds, CastSound
  <2> QED BY <2>2, <2>3, <2>4, <2>5 DEF PushInv
<1>2. CASE \E r \in wire : Serve(r)
  BY <1>2, ServeKeeps
<1>3. CASE \E i \in DOMAIN chain : BridgeStep(i)
  BY <1>3, BridgeKeeps
<1>4. CASE Broadcast \/ (\E e \in cast.to : Send(e)) \/ Prune
  BY <1>4, BroadcastKeeps, SendKeeps, PruneKeeps
<1>5. CASE Restart
  BY <1>5, RestartKeeps
<1>6. CASE StartSetup \/ \E pc \in {"config", "disable", "look"} : StartControl(pc)
  BY <1>6, StartSetupKeeps, StartControlKeeps
<1>7. CASE \E f \in Flow : FlowStep(f) \/ LoseAnswer(f)
  BY <1>7, FlowKeeps, LoseKeeps
<1> QED BY <1>1, <1>2, <1>3, <1>4, <1>5, <1>6, <1>7 DEF Next

LEMMA InitPush == Init => PushInv
<1> SUFFICES ASSUME Init PROVE PushInv
  OBVIOUS
<1>1. /\ cfg \in Config /\ subs = Loaded(InitialFile, cfg) /\ file \in {InitialFile, subs}
      /\ chain = <<>> /\ cast = NoCast /\ wire = {}
      /\ mine = NoEndpoint /\ keyOf = [e \in Endpoint |-> NoKey] /\ alive = {} /\ optedOut = FALSE
      /\ flow = [f \in Flow |-> NoFlow]
      /\ kept = {} /\ gone = {} /\ unswept = {} /\ off = "no" /\ rude = FALSE
  BY DEF Init
<1>2. InitialFile \in SUBSET Entries /\ Bounded(InitialFile) /\ Endpoints(InitialFile) \intersect Endpoint = {}
  BY PushConstants
<1>3. /\ subs = {x \in {Adopt(y, cfg) : y \in InitialFile} : x.owner # None /\ OwnerIsActive(x.owner, cfg)}
      /\ Bounded(subs) /\ subs \subseteq Entries /\ Endpoints(subs) \subseteq Endpoints(InitialFile)
  BY <1>1, <1>2, LoadedUsable
<1>4. \A x \in subs : OwnerIsActive(x.owner, cfg)
  BY <1>3
<1>5. /\ file \subseteq Entries /\ Bounded(file) /\ Endpoints(file) \intersect Endpoint = {}
      /\ Endpoints(subs) \intersect Endpoint = {}
  BY <1>1, <1>2, <1>3
<1>6. \A x \in file \union subs : x.ep \notin Endpoint
  BY <1>5 DEF Endpoints
<1>7. NoFlow \in FlowType /\ NoFlow.pc = "idle" /\ NoFlow.sub = NoEndpoint /\ NoFlow.alone = FALSE
  BY DEF NoFlow, FlowType, Keys
<1>8. flow \in [Flow -> FlowType] /\ \A f \in Flow : flow[f] = NoFlow
  BY <1>1, <1>7
<1>9. chain \in Seq(MutationType) /\ DOMAIN chain = {}
  BY <1>1
<1>10. keyOf \in [Endpoint -> Keys]
  BY <1>1 DEF Keys
<1>d. "setup" \in Flow /\ "control" \in Flow
  BY DEF Flow
<1>11. PushTyped
  BY <1>1, <1>3, <1>5, <1>8, <1>9, <1>10, NoCastTyped DEF PushTyped
<1>12. UnmadeIsNowhere
  BY <1>1, <1>5, <1>7, <1>8, <1>9, NoCastTyped, PushConstants DEF UnmadeIsNowhere, Nowhere
<1>13. FlowsSound /\ FlowsWait
  BY <1>1, <1>7, <1>8, <1>9, <1>d DEF FlowsSound, FlowsWait
<1>14. ChainSound
  BY <1>1, <1>9 DEF ChainSound
<1>15. StoreSound
  BY <1>3, <1>4, <1>5, <1>6 DEF StoreSound
<1>16. Durable
  BY <1>1, <1>5 DEF Durable
<1>17. AloneSound /\ OffSound
  BY <1>1, <1>7, <1>8, <1>d DEF AloneSound, OffSound
<1>18. CastSound
  BY <1>1, NoCastTyped DEF CastSound
<1> QED BY <1>11, <1>12, <1>13, <1>14, <1>15, <1>16, <1>17, <1>18 DEF PushInv

LEMMA PushInvariant == MCSpec => []PushInv
<1>1. MCInit => PushInv
  BY InitPush DEF MCInit
<1>2. PushInv /\ [MCNext]_<<vars, store, part>> => PushInv'
  <2> SUFFICES ASSUME PushInv, [MCNext]_<<vars, store, part>> PROVE PushInv'
    OBVIOUS
  <2>1. [Next]_vars
    BY DEF MCNext
  <2> QED BY <2>1, StepPush
<1> QED BY <1>1, <1>2, PTL DEF MCSpec

\* The registrations that the bridge confirmed are on disk and the removals that it confirmed are
\* not (transact(), subscribe() and unsubscribe() of bridge/push.ts): with any configurations,
\* any number of endpoints, flows, faults, broadcasts and restarts, and whatever the file held.
THEOREM PushIsDurable == MCSpec => []ConfirmedIsDurable
<1>1. PushInv => ConfirmedIsDurable
  BY DEF PushInv, Durable, ConfirmedIsDurable
<1> QED BY <1>1, PushInvariant, PTL

\* A browser whose user switched push off, with nothing else of it in flight, is not reached by a
\* broadcast that begins after that (disablePush() of web/src/lib/push.ts, broadcast() of
\* bridge/push.ts).
THEOREM PushIsSilent == MCSpec => []OffIsSilent
<1>1. PushInv => OffIsSilent
  BY DEF PushInv, CastSound, OffIsSilent
<1> QED BY <1>1, PushInvariant, PTL

=============================================================================
