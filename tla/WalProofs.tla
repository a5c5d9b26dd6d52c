------------------------------ MODULE WalProofs ------------------------------
(***************************************************************************)
(* The log keeps what it answered and what it lets the accumulator read:   *)
(* for any number of records of any sizes, any segment size and batch,     *)
(* any crashes of the process and the machine, losses of the disk and      *)
(* faults.                                                                 *)
(***************************************************************************)
EXTENDS Wal, FiniteSetTheorems, SequenceTheorems, WellFoundedInduction, TLAPS

(* The invariant.  A log that was harmed promises nothing more, and a log  *)
(* that could not be opened is never used again: it is about the others.   *)

Fine == harmed = {} /\ mode # "refused"

Pieces(body) ==
  /\ body \in Seq([rec : Rec, len : Nat \ {0}])
  /\ \A i \in DOMAIN body : body[i].len <= Size[body[i].rec]

FileShape(f) ==
  /\ f = [head |-> f.head, first |-> f.first, body |-> f.body, safe |-> f.safe]
  /\ f.head \in BOOLEAN /\ f.first \in Nat /\ Pieces(f.body)
  /\ f.safe \in 0..Len(f.body)
  /\ ~f.head => f.body = <<>>

CopyShape(c) ==
  /\ c = [first |-> c.first, body |-> c.body]
  /\ c.first \in Nat /\ Pieces(c.body)

Typed ==
  /\ DOMAIN files \subseteq Nat /\ DOMAIN archive \subseteq Nat
  /\ \A n \in DOMAIN files : FileShape(files[n])
  /\ \A n \in DOMAIN archive : CopyShape(archive[n])
  /\ cur \in Nat /\ current \in Nat /\ next_seq \in Nat /\ synced \in Nat
  /\ opened \in Nat /\ submitted \in Nat
  /\ acked \subseteq [rec : Rec, seq : Nat]
  /\ mode \in {"up", "down"} /\ batch \in Seq(Rec)
  /\ pc \in {"idle", "create", "header", "switch", "write", "sync", "ack"}
  /\ mode = "down" => pc = "idle"
  /\ pc # "idle" => batch # <<>>

\* Only the last piece of a file can be torn, once the process is gone, and
\* only behind what was synced.
Untorn ==
  /\ \A n \in DOMAIN files : \A i \in DOMAIN files[n].body :
       mode = "up" \/ i < Len(files[n].body) \/ i <= files[n].safe
         => Complete(files[n].body[i])
  /\ \A n \in DOMAIN archive : \A i \in DOMAIN archive[n].body :
       Complete(archive[n].body[i])

\* An archived segment is the local one at some time: neither has a record
\* where the other has a different one, and while the log is open the local
\* one has all the records the archive has.
Agree ==
  /\ mode = "up" => DOMAIN archive \subseteq DOMAIN files
  /\ \A n \in DOMAIN files : n \in DOMAIN archive =>
       /\ files[n].head /\ archive[n].first = files[n].first
       /\ \A i \in DOMAIN files[n].body : i \in DOMAIN archive[n].body =>
            files[n].body[i].rec = archive[n].body[i].rec
       /\ mode = "up" => Len(archive[n].body) <= Len(files[n].body)

\* No segment follows the one after the current one, and that one is empty.
Ends ==
  /\ DOMAIN files \cup DOMAIN archive \subseteq 1..(cur + 1)
  /\ mode = "up" => cur \in DOMAIN files /\ \A n \in DOMAIN files : n <= cur => files[n].head
  /\ current # 0 => current \in {cur, cur + 1} \cap DOMAIN files
  /\ \A n \in DOMAIN files : n > cur => files[n].body = <<>>
  /\ \A n \in DOMAIN archive : n > cur => archive[n].body = <<>>

Copies(n) ==
  (IF n \in DOMAIN files /\ files[n].head THEN {files[n]} ELSE {})
    \cup (IF n \in DOMAIN archive THEN {archive[n]} ELSE {})

\* Numbers go on from segment to segment, whichever copy is taken.
Ordered ==
  \A n, m \in 1..(cur + 1) : n < m =>
    \A x \in Copies(n), y \in Copies(m) : x.first + Len(x.body) <= y.first

\* How far the commit thread is.
Threaded ==
  mode = "up" =>
    /\ files[cur].first + Len(files[cur].body) =
         next_seq + (IF pc = "sync" THEN Len(batch) ELSE 0)
    /\ pc = "header" => cur + 1 \in DOMAIN files /\ ~files[cur + 1].head
    /\ pc = "switch" => cur + 1 \in DOMAIN files /\ files[cur + 1] = NewSegment(next_seq)
    /\ pc = "ack" => files[cur].safe = Len(files[cur].body)
    /\ pc \in {"sync", "ack"} =>
         /\ Len(batch) <= Len(files[cur].body)
         /\ \A i \in DOMAIN batch :
              files[cur].body[Len(files[cur].body) - Len(batch) + i].rec = batch[i]

\* What the watermark stands for.
Marked ==
  mode = "up" =>
    /\ synced < next_seq \/ synced = 0
    /\ \A n \in DOMAIN files : \A i \in DOMAIN files[n].body :
         files[n].first + i - 1 < next_seq =>
           /\ files[n].first + i - 1 <= synced
           /\ files[n].first + i - 1 >= opened => i <= files[n].safe

InFile(a) ==
  \E n \in DOMAIN files : \E i \in 1..files[n].safe :
    files[n].body[i].rec = a.rec /\ files[n].first + i - 1 = a.seq

InArchive(a) ==
  \E n \in DOMAIN archive : \E i \in DOMAIN archive[n].body :
    archive[n].body[i].rec = a.rec /\ archive[n].first + i - 1 = a.seq

\* What was acknowledged is synced or archived.
Located ==
  \A a \in acked :
    /\ InFile(a) \/ InArchive(a)
    /\ mode = "up" => a.seq < next_seq

WInv ==
  /\ Fine => Typed
  /\ Fine => Untorn
  /\ Fine => Agree
  /\ Fine => Ends
  /\ Fine => Ordered
  /\ Fine => Threaded
  /\ Fine => Marked
  /\ Fine => Located

-----------------------------------------------------------------------------
(* Files and what can be read of them. *)

\* A set of numbers that is not empty has a least one.
LEMMA LeastNumber ==
  ASSUME NEW X, X \subseteq Nat, X # {}
  PROVE  \E m \in X : \A x \in X : m <= x
<1> DEFINE R == {ss \in Nat \X Nat : ss[1] < ss[2]}
<1>1. IsWellFoundedOn(R, Nat)
  BY NatLessThanWellFounded DEF OpToRel
<1>2. PICK m \in X : \A y \in X : ~ (<<y, m>> \in R)
  <2> HIDE DEF R
  <2> QED BY <1>1, WFMin
<1>3. ASSUME NEW x \in X, x < m PROVE FALSE
  <2>1. <<x, m>> \in Nat \X Nat
    BY DEF R
  <2>2. <<x, m>>[1] < <<x, m>>[2]
    BY <1>3
  <2>3. <<x, m>> \in R
    BY <2>1, <2>2
  <2> QED BY <1>2, <2>3
<1>4. \A x \in X : m <= x
  <2> HIDE DEF R
  <2> QED BY <1>3
<1> QED BY <1>4

\* The largest of a set is what it is.
LEMMA MaxIs ==
  ASSUME NEW S, S \subseteq Nat, NEW k \in S, \A y \in S : y <= k
  PROVE  Max(S) = k
<1>1. \A x \in S : (\A y \in S : x >= y) => x = k
  OBVIOUS
<1>2. QED
  BY <1>1 DEF Max

\* A bounded set of numbers has a largest.
LEMMA MaxBounded ==
  ASSUME NEW S, S # {}, NEW b \in Nat, S \subseteq 0..b
  PROVE  Max(S) \in S /\ \A y \in S : y <= Max(S)
<1> DEFINE T == {x \in 0..b : \A y \in S : y <= x}
<1>1. T \subseteq Nat /\ T # {}
  <2>1. b \in T
    OBVIOUS
  <2>2. QED
    BY <2>1
<1>2. PICK k \in T : \A x \in T : k <= x
  <2> HIDE DEF T
  <2>1. QED
    BY <1>1, LeastNumber
<1>3. k \in S
  <2> SUFFICES ASSUME k \notin S PROVE FALSE
    OBVIOUS
  <2>1. PICK y \in S : TRUE
    OBVIOUS
  <2>2. k \in Nat /\ y \in Nat /\ y <= k /\ y # k
    BY <2>1
  <2>3. k - 1 \in T
    BY <2>2
  <2>4. QED
    BY <1>2, <2>2, <2>3
<1>4. S \subseteq Nat /\ \A y \in S : y <= k
  OBVIOUS
<1>5. Max(S) = k
  BY <1>3, <1>4, MaxIs
<1>6. QED
  BY <1>3, <1>4, <1>5

LEMMA PieceFacts ==
  ASSUME NEW body, Pieces(body)
  PROVE  /\ Len(body) \in Nat /\ DOMAIN body = 1..Len(body)
         /\ \A i \in 1..Len(body) :
              /\ body[i].rec \in Rec /\ body[i].len \in Nat /\ body[i].len # 0
              /\ Size[body[i].rec] \in Nat /\ body[i].len <= Size[body[i].rec]
<1> DEFINE P == [rec : Rec, len : Nat \ {0}]
<1>1. body \in Seq(P)
  BY DEF Pieces
<1>2. Len(body) \in Nat /\ DOMAIN body = 1..Len(body) /\ \A i \in 1..Len(body) : body[i] \in P
  <2> HIDE DEF P
  <2>1. QED
    BY <1>1, LenProperties, ElementOfSeq
<1>3. ASSUME NEW i \in 1..Len(body)
      PROVE  body[i].rec \in Rec /\ body[i].len \in Nat /\ body[i].len # 0
  <2>1. body[i] \in P
    BY <1>2
  <2>2. QED
    BY <2>1
<1>4. \A r \in Rec : Size[r] \in Nat
  BY WalAssumption
<1>5. QED
  BY <1>2, <1>3, <1>4 DEF Pieces

LEMMA ReadableIs ==
  ASSUME NEW f, Pieces(f.body), NEW k \in 0..Len(f.body),
         \A i \in 1..k : Complete(f.body[i]),
         k = Len(f.body) \/ ~Complete(f.body[k + 1])
  PROVE  Readable(f) = k
<1> DEFINE S == {j \in 0..Len(f.body) : \A i \in 1..j : Complete(f.body[i])}
<1>0. Len(f.body) \in Nat
  BY PieceFacts
<1>1. k \in S /\ S \subseteq Nat
  BY <1>0
<1>2. \A y \in S : y <= k
  BY <1>0
<1>3. Max(S) = k
  BY <1>1, <1>2, MaxIs
<1>4. QED
  BY <1>3 DEF Readable

\* Of a file of whole records everything is read.
LEMMA DecodeWhole ==
  ASSUME NEW f, Pieces(f.body), f.first \in Nat,
         \A i \in DOMAIN f.body : Complete(f.body[i])
  PROVE  /\ DOMAIN Decode(f) = DOMAIN f.body
         /\ \A i \in DOMAIN f.body :
              Decode(f)[i] = [rec |-> f.body[i].rec, seq |-> f.first + i - 1]
<1>1. DOMAIN f.body = 1..Len(f.body) /\ Len(f.body) \in Nat
  BY PieceFacts
<1>2. Readable(f) = Len(f.body)
  <2>1. Len(f.body) \in 0..Len(f.body) /\ \A i \in 1..Len(f.body) : Complete(f.body[i])
    BY <1>1
  <2>2. QED
    BY <2>1, ReadableIs
<1>3. QED
  BY <1>1, <1>2 DEF Decode

BytesOf(body) == UNION {{i} \X (1..body[i].len) : i \in DOMAIN body}

LEMMA InBytes ==
  ASSUME NEW body, NEW i, NEW b
  PROVE  <<i, b>> \in BytesOf(body) <=> i \in DOMAIN body /\ b \in 1..body[i].len
<1>1. ASSUME <<i, b>> \in BytesOf(body)
      PROVE  i \in DOMAIN body /\ b \in 1..body[i].len
  <2>1. PICK j \in DOMAIN body : <<i, b>> \in {j} \X (1..body[j].len)
    BY <1>1, Zenon DEF BytesOf
  <2>2. i = j /\ b \in 1..body[j].len
    BY <2>1
  <2>3. QED
    BY <2>2
<1>2. ASSUME i \in DOMAIN body, b \in 1..body[i].len
      PROVE  <<i, b>> \in BytesOf(body)
  <2>1. <<i, b>> \in {i} \X (1..body[i].len)
    BY <1>2
  <2>2. QED
    BY <1>2, <2>1, Zenon DEF BytesOf
<1>3. QED
  BY <1>1, <1>2

LEMMA InBytesForm ==
  ASSUME NEW body, NEW p \in BytesOf(body)
  PROVE  \E i \in DOMAIN body : \E b \in 1..body[i].len : p = <<i, b>>
<1>1. PICK j \in DOMAIN body : p \in {j} \X (1..body[j].len)
  BY Zenon DEF BytesOf
<1>2. QED
  BY <1>1

\* What a function on a finite set yields is finite.
LEMMA ImageFinite ==
  ASSUME NEW S, IsFiniteSet(S), NEW G, G = [x \in S |-> G[x]], NEW T, T = {G[x] : x \in S}
  PROVE  IsFiniteSet(T)
<1>1. G \in [S -> T] /\ \A t \in T : \E x \in S : G[x] = t
  OBVIOUS
<1>2. G \in Surjection(S, T)
  BY <1>1 DEF Surjection
<1>3. QED
  BY <1>2, FS_Surjection

LEMMA ProductFinite ==
  ASSUME NEW S, IsFiniteSet(S), NEW T, IsFiniteSet(T)
  PROVE  IsFiniteSet(S \X T)
BY FS_Product

LEMMA RowFinite ==
  ASSUME NEW i, NEW b \in Nat
  PROVE  IsFiniteSet({i} \X (1..b))
<1>1. IsFiniteSet({i})
  BY FS_Singleton
<1>2. IsFiniteSet(1..b)
  BY FS_Interval
<1>3. QED
  BY <1>1, <1>2, ProductFinite, Zenon

LEMMA BytesFinite ==
  ASSUME NEW body, Pieces(body)
  PROVE  IsFiniteSet(BytesOf(body))
<1>1. /\ DOMAIN body = 1..Len(body) /\ Len(body) \in Nat
      /\ \A i \in DOMAIN body : body[i].len \in Nat
  BY PieceFacts
<1> DEFINE P == {{i} \X (1..body[i].len) : i \in DOMAIN body}
           G == [i \in DOMAIN body |-> {i} \X (1..body[i].len)]
<1>2. IsFiniteSet(DOMAIN body)
  BY <1>1, FS_Interval
<1>3. G = [i \in DOMAIN body |-> G[i]] /\ P = {G[i] : i \in DOMAIN body}
  OBVIOUS
<1>4. IsFiniteSet(P)
  <2> HIDE DEF G, P
  <2>1. QED
    BY <1>2, <1>3, ImageFinite
<1>5. ASSUME NEW Q \in P PROVE IsFiniteSet(Q)
  <2>1. PICK i \in DOMAIN body : Q = {i} \X (1..body[i].len)
    BY <1>5
  <2>2. body[i].len \in Nat
    BY <1>1
  <2>3. IsFiniteSet({i} \X (1..body[i].len))
    BY <2>2, RowFinite
  <2>4. QED
    BY <2>1, <2>3, Zenon
<1>6. IsFiniteSet(UNION P)
  <2> HIDE DEF P
  <2>1. QED
    BY <1>4, <1>5, FS_UNION
<1>7. QED
  BY <1>6 DEF BytesOf

LEMMA MoreBytes ==
  ASSUME NEW f, NEW c, Pieces(f), Pieces(c), BytesOf(f) \subseteq BytesOf(c),
         NEW p \in BytesOf(c), p \notin BytesOf(f)
  PROVE  Bytes(c) > Bytes(f)
<1>1. IsFiniteSet(BytesOf(c)) /\ IsFiniteSet(BytesOf(f))
  BY BytesFinite
<1>2. /\ Cardinality(BytesOf(f)) \in Nat /\ Cardinality(BytesOf(c)) \in Nat
      /\ Cardinality(BytesOf(f)) <= Cardinality(BytesOf(c))
      /\ Cardinality(BytesOf(f)) # Cardinality(BytesOf(c))
  BY <1>1, FS_Subset, FS_CardinalityType
<1>3. QED
  BY <1>2 DEF Bytes, BytesOf

\* Where the copy is at least as long, it has all the bytes.
LEMMA BytesWithin ==
  ASSUME NEW f, NEW c, Pieces(f), Pieces(c),
         \A i \in DOMAIN c : Complete(c[i]),
         \A i \in DOMAIN f : i \in DOMAIN c => f[i].rec = c[i].rec,
         Len(f) <= Len(c)
  PROVE  BytesOf(f) \subseteq BytesOf(c)
<1> SUFFICES ASSUME NEW p \in BytesOf(f) PROVE p \in BytesOf(c)
  OBVIOUS
<1>1. PICK i \in DOMAIN f : \E b \in 1..f[i].len : p = <<i, b>>
  BY InBytesForm
<1>2. PICK b \in 1..f[i].len : p = <<i, b>>
  BY <1>1
<1>3. i \in 1..Len(f) /\ i \in DOMAIN c /\ i \in 1..Len(c)
  BY PieceFacts
<1>4. f[i].len \in Nat /\ f[i].len <= Size[f[i].rec] /\ c[i].len \in Nat
  BY <1>3, PieceFacts
<1>5. c[i].len = Size[c[i].rec] /\ f[i].rec = c[i].rec
  BY <1>3 DEF Complete
<1>6. b \in 1..c[i].len
  BY <1>4, <1>5
<1>7. QED
  BY <1>2, <1>3, <1>6, InBytes

\* A file that is not shorter than its archived copy has its records.
LEMMA NotShorter ==
  ASSUME NEW f, NEW c, Pieces(f), Pieces(c),
         \A i \in DOMAIN c : Complete(c[i]),
         \A i \in DOMAIN f : i \in DOMAIN c => f[i].rec = c[i].rec,
         ~(Bytes(c) > Bytes(f))
  PROVE  /\ Len(c) <= Len(f)
         /\ Len(c) = Len(f) => \A i \in DOMAIN f : Complete(f[i])
<1>1. Len(f) \in Nat /\ DOMAIN f = 1..Len(f)
  BY PieceFacts
<1>2. Len(c) \in Nat /\ DOMAIN c = 1..Len(c)
  BY PieceFacts
<1>3. ASSUME Len(c) > Len(f) PROVE FALSE
  <2>1. Len(c) \in 1..Len(c) /\ Len(c) \notin 1..Len(f) /\ Len(f) <= Len(c)
    BY <1>1, <1>2, <1>3
  <2>2. c[Len(c)].len \in Nat /\ c[Len(c)].len # 0
    BY <2>1, PieceFacts
  <2>3. 1 \in 1..c[Len(c)].len
    BY <2>2
  <2>4. <<Len(c), 1>> \in BytesOf(c) /\ <<Len(c), 1>> \notin BytesOf(f)
    BY <1>1, <1>2, <2>1, <2>3, InBytes
  <2>5. QED
    BY <2>1, <2>4, BytesWithin, MoreBytes
<1>4. ASSUME Len(c) = Len(f), NEW i \in DOMAIN f, ~Complete(f[i]) PROVE FALSE
  <2>1. i \in 1..Len(f) /\ i \in 1..Len(c) /\ Len(f) <= Len(c) /\ i \in DOMAIN c
    BY <1>1, <1>2, <1>4
  <2>2. f[i].len \in Nat /\ f[i].len <= Size[f[i].rec] /\ c[i].len \in Nat
    BY <2>1, PieceFacts
  <2>3. c[i].len = Size[c[i].rec] /\ f[i].rec = c[i].rec /\ f[i].len # Size[f[i].rec]
    BY <1>4, <2>1 DEF Complete
  <2>4. c[i].len \in 1..c[i].len /\ c[i].len \notin 1..f[i].len
    BY <2>2, <2>3
  <2>5. <<i, c[i].len>> \in BytesOf(c) /\ <<i, c[i].len>> \notin BytesOf(f)
    BY <2>1, <2>4, InBytes
  <2>6. QED
    BY <2>1, <2>5, BytesWithin, MoreBytes
<1>5. Len(c) <= Len(f)
  BY <1>1, <1>2, <1>3
<1>6. QED
  BY <1>4, <1>5

-----------------------------------------------------------------------------
(* What the invariant says of a reader. *)

NumberAt(n, i) == files[n].first + i - 1
Entry(n, i) == [rec |-> files[n].body[i].rec, seq |-> NumberAt(n, i)]

LEMMA TypedFile ==
  ASSUME Typed, NEW n \in DOMAIN files
  PROVE  /\ n \in Nat /\ files[n].first \in Nat /\ Pieces(files[n].body)
         /\ Len(files[n].body) \in Nat /\ DOMAIN files[n].body = 1..Len(files[n].body)
         /\ files[n].safe \in 0..Len(files[n].body)
         /\ \A i \in DOMAIN files[n].body : files[n].head /\ NumberAt(n, i) \in Nat
<1>1. FileShape(files[n]) /\ n \in Nat
  BY DEF Typed
<1>2. files[n].first \in Nat /\ Pieces(files[n].body) /\ files[n].safe \in 0..Len(files[n].body)
  BY <1>1 DEF FileShape
<1>3. Len(files[n].body) \in Nat /\ DOMAIN files[n].body = 1..Len(files[n].body)
  BY <1>2, PieceFacts
<1>4. ASSUME NEW i \in DOMAIN files[n].body PROVE files[n].head /\ NumberAt(n, i) \in Nat
  <2>1. files[n].body # <<>>
    BY <1>4
  <2>2. QED
    BY <1>1, <1>2, <1>3, <2>1 DEF FileShape, NumberAt
<1>5. QED
  BY <1>1, <1>2, <1>3, <1>4

LEMMA TypedCopy ==
  ASSUME Typed, NEW n \in DOMAIN archive
  PROVE  /\ n \in Nat /\ archive[n].first \in Nat /\ Pieces(archive[n].body)
         /\ Len(archive[n].body) \in Nat /\ DOMAIN archive[n].body = 1..Len(archive[n].body)
<1>1. CopyShape(archive[n]) /\ n \in Nat
  BY DEF Typed
<1>2. archive[n].first \in Nat /\ Pieces(archive[n].body)
  BY <1>1 DEF CopyShape
<1>3. QED
  BY <1>1, <1>2, PieceFacts

\* The segments stand in the order of their numbers.
LEMMA Numbered ==
  ASSUME Typed, Ends, Ordered, NEW n \in DOMAIN files, NEW m \in DOMAIN files, n < m,
         NEW i \in DOMAIN files[n].body, NEW j \in DOMAIN files[m].body
  PROVE  NumberAt(n, i) < NumberAt(m, j)
<1>1. n \in 1..(cur + 1) /\ m \in 1..(cur + 1)
  BY DEF Ends
<1>2. files[n] \in Copies(n) /\ files[m] \in Copies(m)
  BY TypedFile DEF Copies
<1>3. files[n].first + Len(files[n].body) <= files[m].first
  BY <1>1, <1>2 DEF Ordered
<1>4. files[n].first \in Nat /\ Len(files[n].body) \in Nat /\ DOMAIN files[n].body = 1..Len(files[n].body)
  BY TypedFile
<1>5. files[m].first \in Nat /\ Len(files[m].body) \in Nat /\ DOMAIN files[m].body = 1..Len(files[m].body)
  BY TypedFile
<1>6. i \in Nat /\ i <= Len(files[n].body) /\ j \in Nat /\ j >= 1
  BY <1>4, <1>5
<1>7. QED
  BY <1>3, <1>4, <1>5, <1>6 DEF NumberAt

\* While the log is open every record in it can be read.
LEMMA UpIsRead ==
  ASSUME Typed, Untorn, mode = "up", NEW n \in DOMAIN files
  PROVE  /\ DOMAIN Decode(files[n]) = DOMAIN files[n].body
         /\ \A i \in DOMAIN files[n].body : Decode(files[n])[i] = Entry(n, i)
<1>1. \A i \in DOMAIN files[n].body : Complete(files[n].body[i])
  BY DEF Untorn
<1>2. Pieces(files[n].body) /\ files[n].first \in Nat
  BY TypedFile
<1>3. QED
  BY <1>1, <1>2, DecodeWhole DEF Entry, NumberAt

LEMMA InPlaces ==
  ASSUME NEW p
  PROVE  p \in Places <=> \E n \in DOMAIN files : \E i \in DOMAIN Decode(files[n]) : p = <<n, i>>
<1>1. ASSUME p \in Places
      PROVE  \E n \in DOMAIN files : \E i \in DOMAIN Decode(files[n]) : p = <<n, i>>
  <2>1. PICK n \in DOMAIN files : p \in {n} \X DOMAIN Decode(files[n])
    BY <1>1, Zenon DEF Places
  <2>2. QED
    BY <2>1
<1>2. ASSUME NEW n \in DOMAIN files, NEW i \in DOMAIN Decode(files[n]), p = <<n, i>>
      PROVE  p \in Places
  <2>1. p \in {n} \X DOMAIN Decode(files[n])
    BY <1>2
  <2>2. QED
    BY <2>1, Zenon DEF Places
<1>3. QED
  BY <1>1, <1>2

\* The accumulator reads the records up to the watermark, all and only these.
LEMMA VisibleIs ==
  ASSUME Typed, Untorn, Ends, Ordered, mode = "up"
  PROVE  /\ \A n \in DOMAIN files : \A i \in DOMAIN files[n].body :
              NumberAt(n, i) <= synced => Entry(n, i) \in Visible
         /\ \A e \in Visible : \E n \in DOMAIN files : \E i \in DOMAIN files[n].body :
              e = Entry(n, i) /\ NumberAt(n, i) <= synced
<1>0. synced \in Nat
  BY DEF Typed
<1>1. ASSUME NEW n \in DOMAIN files, NEW i \in DOMAIN files[n].body
      PROVE  /\ <<n, i>> \in Places /\ At(<<n, i>>) = Entry(n, i)
             /\ At(<<n, i>>).seq = NumberAt(n, i) /\ NumberAt(n, i) \in Nat
  <2>1. i \in DOMAIN Decode(files[n]) /\ Decode(files[n])[i] = Entry(n, i)
    BY UpIsRead
  <2>2. QED
    BY <2>1, InPlaces, TypedFile DEF At, Entry
<1>2. ASSUME NEW p \in Places
      PROVE  \E n \in DOMAIN files : \E i \in DOMAIN files[n].body : p = <<n, i>>
  BY InPlaces, UpIsRead
<1>3. ASSUME NEW n \in DOMAIN files, NEW i \in DOMAIN files[n].body, NumberAt(n, i) <= synced
      PROVE  Entry(n, i) \in Visible
  <2>1. ASSUME NEW y \in Places, At(y).seq >= synced + 1 PROVE Before(<<n, i>>, y)
    <3>1a. PICK m \in DOMAIN files : \E j \in DOMAIN files[m].body : y = <<m, j>>
      BY <1>2
    <3>1. PICK j \in DOMAIN files[m].body : y = <<m, j>>
      BY <3>1a
    <3>2. NumberAt(m, j) > NumberAt(n, i) /\ NumberAt(m, j) \in Nat /\ NumberAt(n, i) \in Nat
      <4>1. At(y).seq = NumberAt(m, j) /\ NumberAt(m, j) \in Nat
        BY <1>1, <3>1
      <4>2. NumberAt(n, i) \in Nat
        BY <1>1
      <4>3. NumberAt(m, j) >= synced + 1 /\ NumberAt(n, i) <= synced
        BY <1>3, <2>1, <4>1
      <4>4. QED
        BY <1>0, <4>1, <4>2, <4>3
    <3>3. ~(m < n)
      BY <3>2, Numbered
    <3>4. m = n => i < j
      <4>1. files[n].first \in Nat /\ i \in Nat /\ j \in Nat
        <5>1. DOMAIN files[n].body = 1..Len(files[n].body) /\ DOMAIN files[m].body = 1..Len(files[m].body)
              /\ files[n].first \in Nat
          BY TypedFile
        <5>2. QED
          BY <5>1
      <4>2. QED
        BY <3>2, <4>1 DEF NumberAt
    <3>5. n \in Nat /\ m \in Nat
      BY TypedFile
    <3>6. QED
      BY <3>1, <3>3, <3>4, <3>5 DEF Before
  <2>2. <<n, i>> \in Places /\ At(<<n, i>>) = Entry(n, i) /\ At(<<n, i>>).seq >= 0
    BY <1>1
  <2>3. QED
    BY <2>1, <2>2 DEF Visible, Scan
<1>4. ASSUME NEW e \in Visible
      PROVE  \E n \in DOMAIN files : \E i \in DOMAIN files[n].body :
               e = Entry(n, i) /\ NumberAt(n, i) <= synced
  <2>1. PICK p \in Places : /\ e = At(p)
                            /\ \A y \in Places : At(y).seq >= synced + 1 => Before(p, y)
    BY DEF Visible, Scan
  <2>2a. PICK n \in DOMAIN files : \E i \in DOMAIN files[n].body : p = <<n, i>>
    BY <1>2
  <2>2. PICK i \in DOMAIN files[n].body : p = <<n, i>>
    BY <2>2a
  <2>3. ~Before(<<n, i>>, <<n, i>>)
    <3>1. n \in Nat /\ i \in Nat
      BY TypedFile
    <3>2. QED
      BY <3>1 DEF Before
  <2>4. ~(NumberAt(n, i) >= synced + 1)
    BY <1>1, <2>1, <2>2, <2>3
  <2>5. NumberAt(n, i) <= synced /\ e = Entry(n, i)
    BY <1>0, <1>1, <2>1, <2>2, <2>4
  <2>6. QED
    BY <2>5
<1>5. QED
  BY <1>3, <1>4

\* Two records in the log do not share a number.
LEMMA OneEach ==
  ASSUME Typed, Ends, Ordered, NEW n \in DOMAIN files, NEW m \in DOMAIN files,
         NEW i \in DOMAIN files[n].body, NEW j \in DOMAIN files[m].body,
         NumberAt(n, i) = NumberAt(m, j)
  PROVE  n = m /\ i = j
<1>1. n \in Nat /\ m \in Nat /\ NumberAt(n, i) \in Nat /\ NumberAt(m, j) \in Nat
  BY TypedFile
<1>2. ~(n < m) /\ ~(m < n)
  BY <1>1, Numbered
<1>3. n = m
  BY <1>1, <1>2
<1>4. files[n].first \in Nat /\ i \in Nat /\ j \in Nat
  <2>1. i \in 1..Len(files[n].body) /\ j \in 1..Len(files[m].body)
    BY TypedFile
  <2>2. QED
    BY <2>1, TypedFile
<1>5. QED
  BY <1>3, <1>4 DEF NumberAt

LEMMA InvAcked ==
  ASSUME WInv
  PROVE  AckedReadableUnlessHarmed
<1> SUFFICES ASSUME harmed = {}, mode = "up", NEW a \in acked
             PROVE  {e \in Visible : e.seq = a.seq} = {a}
  BY DEF AckedReadableUnlessHarmed, AckedReadable
<1>1. Typed /\ Untorn /\ Agree /\ Ends /\ Ordered /\ Marked /\ Located
  BY DEF WInv, Fine
<1>2. a = [rec |-> a.rec, seq |-> a.seq] /\ a.seq \in Nat
  BY <1>1 DEF Typed
<1>3a. PICK n \in DOMAIN files : \E i \in DOMAIN files[n].body : a = Entry(n, i)
  <2>1. CASE InFile(a)
    <3>1a. PICK n \in DOMAIN files : \E i \in 1..files[n].safe :
            files[n].body[i].rec = a.rec /\ NumberAt(n, i) = a.seq
      BY <2>1 DEF InFile, NumberAt
    <3>1. PICK i \in 1..files[n].safe :
            files[n].body[i].rec = a.rec /\ NumberAt(n, i) = a.seq
      BY <3>1a
    <3>2. i \in DOMAIN files[n].body
      BY <1>1, TypedFile
    <3>3. QED
      BY <1>2, <3>1, <3>2 DEF Entry
  <2>2. CASE InArchive(a)
    <3>1a. PICK n \in DOMAIN archive : \E i \in DOMAIN archive[n].body :
            archive[n].body[i].rec = a.rec /\ archive[n].first + i - 1 = a.seq
      BY <2>2 DEF InArchive
    <3>1. PICK i \in DOMAIN archive[n].body :
            archive[n].body[i].rec = a.rec /\ archive[n].first + i - 1 = a.seq
      BY <3>1a
    <3>2. n \in DOMAIN files /\ archive[n].first = files[n].first
          /\ Len(archive[n].body) <= Len(files[n].body)
      BY <1>1 DEF Agree
    <3>3. i \in DOMAIN files[n].body
      BY <1>1, <3>2, TypedFile, TypedCopy
    <3>4. files[n].body[i].rec = archive[n].body[i].rec
      BY <1>1, <3>2, <3>3 DEF Agree
    <3>5. QED
      BY <1>2, <3>1, <3>2, <3>3, <3>4 DEF Entry, NumberAt
  <2>3. QED
    BY <1>1, <2>1, <2>2 DEF Located
<1>3. PICK i \in DOMAIN files[n].body : a = Entry(n, i)
  BY <1>3a
<1>4. NumberAt(n, i) = a.seq
  BY <1>3 DEF Entry
<1>5. a \in Visible
  <2>1. NumberAt(n, i) < next_seq
    BY <1>1, <1>4 DEF Located
  <2>2. NumberAt(n, i) <= synced
    BY <1>1, <2>1 DEF Marked, NumberAt
  <2>3. QED
    BY <1>1, <1>3, <2>2, VisibleIs
<1>6. ASSUME NEW e \in Visible, e.seq = a.seq PROVE e = a
  <2>1a. PICK m \in DOMAIN files : \E j \in DOMAIN files[m].body : e = Entry(m, j)
    BY <1>1, VisibleIs
  <2>1. PICK j \in DOMAIN files[m].body : e = Entry(m, j)
    BY <2>1a
  <2>2. NumberAt(m, j) = NumberAt(n, i)
    BY <1>4, <1>6, <2>1 DEF Entry
  <2>3. m = n /\ j = i
    BY <1>1, <2>2, OneEach
  <2>4. QED
    BY <1>3, <2>1, <2>3
<1>7. QED
  BY <1>5, <1>6

LEMMA InvHonest ==
  ASSUME WInv
  PROVE  WatermarkHonest
<1> SUFFICES ASSUME harmed = {}, mode = "up",
                    NEW n \in DOMAIN files, NEW i \in DOMAIN Decode(files[n]),
                    LET e == Decode(files[n])[i] IN e \in Visible /\ e.seq >= opened /\ e.seq > 0
             PROVE  i <= files[n].safe
  BY DEF WatermarkHonest
<1>1. Typed /\ Untorn /\ Ends /\ Ordered /\ Marked
  BY DEF WInv, Fine
<1>2. i \in DOMAIN files[n].body /\ Decode(files[n])[i] = Entry(n, i)
  BY <1>1, UpIsRead
<1>3. Entry(n, i) \in Visible /\ NumberAt(n, i) >= opened /\ NumberAt(n, i) > 0
  BY <1>2 DEF Entry
<1>4a. PICK m \in DOMAIN files : \E j \in DOMAIN files[m].body :
        Entry(n, i) = Entry(m, j) /\ NumberAt(m, j) <= synced
  BY <1>1, <1>3, VisibleIs
<1>4. PICK j \in DOMAIN files[m].body :
        Entry(n, i) = Entry(m, j) /\ NumberAt(m, j) <= synced
  BY <1>4a
<1>5. NumberAt(n, i) = NumberAt(m, j)
  BY <1>4 DEF Entry
<1>6. synced < next_seq
  <2>1. synced # 0
    <3>1. NumberAt(m, j) > 0 /\ NumberAt(m, j) \in Nat
      BY <1>1, <1>3, <1>5, TypedFile
    <3>2. QED
      BY <1>4, <3>1
  <2>2. QED
    BY <1>1, <2>1 DEF Marked
<1>7. NumberAt(n, i) < next_seq
  <2>1. NumberAt(n, i) \in Nat /\ synced \in Nat /\ next_seq \in Nat
    BY <1>1, <1>2, TypedFile DEF Typed
  <2>2. QED
    BY <1>4, <1>5, <1>6, <2>1
<1>8. QED
  BY <1>1, <1>2, <1>3, <1>7 DEF Marked, NumberAt

-----------------------------------------------------------------------------
(* The steps of an open log. *)

End(n) == files[n].first + Len(files[n].body)

Extended(f, g) ==
  /\ g.head = f.head /\ g.first = f.first /\ f.safe <= g.safe
  /\ Len(f.body) <= Len(g.body)
  /\ \A i \in DOMAIN f.body : g.body[i] = f.body[i]

\* What the thread does to the files: the current one may grow while there is
\* none after it, the one after it may be created and be given its header.
GoesOn ==
  /\ mode = "up" /\ UNCHANGED <<mode, archive, cur, current>>
  /\ DOMAIN files \subseteq DOMAIN files'
  /\ DOMAIN files' \subseteq DOMAIN files \cup {cur + 1}
  /\ \A n \in DOMAIN files' : FileShape(files'[n])
  /\ \A n \in DOMAIN files' : \A i \in DOMAIN files'[n].body : Complete(files'[n].body[i])
  /\ \A n \in DOMAIN files : files[n].head => Extended(files[n], files'[n])
  /\ \A n \in DOMAIN files : n # cur => files'[n].body = files[n].body
  /\ files'[cur].body # files[cur].body => cur + 1 \notin DOMAIN files'
  /\ cur + 1 \in DOMAIN files' /\ (cur + 1 \notin DOMAIN files \/ ~files[cur + 1].head) =>
       /\ files'[cur + 1].body = <<>>
       /\ files'[cur + 1].head => End(cur) <= files'[cur + 1].first

LEMMA GoneOnUntorn ==
  ASSUME Untorn, GoesOn
  PROVE  Untorn'
BY DEF Untorn, GoesOn, Complete

LEMMA GoneOnAgree ==
  ASSUME Typed, Agree, GoesOn
  PROVE  Agree'
<1>1. mode' = "up" /\ mode = "up" /\ archive' = archive
  BY DEF GoesOn
<1>2. DOMAIN archive' \subseteq DOMAIN files'
  BY <1>1 DEF Agree, GoesOn
<1>3. ASSUME NEW n \in DOMAIN files', n \in DOMAIN archive'
      PROVE  /\ files'[n].head /\ archive'[n].first = files'[n].first
             /\ \A i \in DOMAIN files'[n].body : i \in DOMAIN archive'[n].body =>
                  files'[n].body[i].rec = archive'[n].body[i].rec
             /\ Len(archive'[n].body) <= Len(files'[n].body)
  <2>1. n \in DOMAIN files /\ n \in DOMAIN archive
    BY <1>1, <1>3 DEF Agree
  <2>2. /\ files[n].head /\ archive[n].first = files[n].first
        /\ Len(archive[n].body) <= Len(files[n].body)
        /\ \A i \in DOMAIN files[n].body : i \in DOMAIN archive[n].body =>
             files[n].body[i].rec = archive[n].body[i].rec
    BY <1>1, <2>1 DEF Agree
  <2>3. Extended(files[n], files'[n])
    BY <2>1, <2>2 DEF GoesOn
  <2>4. /\ Len(archive[n].body) \in Nat /\ DOMAIN archive[n].body = 1..Len(archive[n].body)
    BY <2>1, TypedCopy
  <2>5. Len(files[n].body) \in Nat /\ DOMAIN files[n].body = 1..Len(files[n].body)
    BY <2>1, TypedFile
  <2>6. Len(files'[n].body) \in Nat
    BY <1>3, PieceFacts DEF GoesOn, FileShape
  <2>7. ASSUME NEW i \in DOMAIN archive[n].body
        PROVE  files'[n].body[i].rec = archive[n].body[i].rec
    <3>1. i \in DOMAIN files[n].body
      BY <2>2, <2>4, <2>5
    <3>2. files'[n].body[i] = files[n].body[i]
      BY <2>3, <3>1 DEF Extended
    <3>3. QED
      BY <2>2, <3>1, <3>2
  <2>8. Len(archive[n].body) <= Len(files'[n].body)
    BY <2>2, <2>3, <2>4, <2>5, <2>6 DEF Extended
  <2>9. files'[n].head /\ archive[n].first = files'[n].first
    BY <2>2, <2>3 DEF Extended
  <2>10. QED
    BY <1>1, <2>7, <2>8, <2>9
<1>4. QED
  BY <1>1, <1>2, <1>3 DEF Agree

LEMMA GoneOnEnds ==
  ASSUME Typed, Ends, GoesOn
  PROVE  Ends'
<1>1. mode' = "up" /\ mode = "up" /\ archive' = archive /\ cur' = cur /\ current' = current
  BY DEF GoesOn
<1>2. DOMAIN files' \cup DOMAIN archive' \subseteq 1..(cur' + 1)
  <2>1. cur \in Nat
    BY DEF Typed
  <2>2. QED
    BY <1>1, <2>1 DEF Ends, GoesOn
<1>3. cur' \in DOMAIN files' /\ \A n \in DOMAIN files' : n <= cur' => files'[n].head
  <2>1. cur \in DOMAIN files /\ DOMAIN files \subseteq DOMAIN files'
    BY <1>1 DEF Ends, GoesOn
  <2>2. ASSUME NEW n \in DOMAIN files', n <= cur PROVE files'[n].head
    <3>1. n \in DOMAIN files
      BY <2>2 DEF GoesOn, Typed
    <3>2. files[n].head
      BY <1>1, <2>2, <3>1 DEF Ends
    <3>3. QED
      BY <3>1, <3>2 DEF GoesOn, Extended
  <2>3. QED
    BY <1>1, <2>1, <2>2
<1>4. current' # 0 => current' \in {cur', cur' + 1} \cap DOMAIN files'
  BY <1>1 DEF Ends, GoesOn
<1>5. ASSUME NEW n \in DOMAIN files', n > cur PROVE files'[n].body = <<>>
  <2>1. CASE n \in DOMAIN files
    <3>1. files[n].body = <<>> /\ n # cur
      BY <1>5, <2>1 DEF Ends, Typed
    <3>2. QED
      BY <2>1, <3>1 DEF GoesOn
  <2>2. CASE n \notin DOMAIN files
    BY <2>2 DEF GoesOn
  <2>3. QED
    BY <2>1, <2>2
<1>6. QED
  BY <1>1, <1>2, <1>3, <1>4, <1>5 DEF Ends

LEMMA CopyTyped ==
  ASSUME Typed, NEW n, NEW z \in Copies(n)
  PROVE  z.first \in Nat /\ Len(z.body) \in Nat
<1>1. CASE n \in DOMAIN files /\ z = files[n]
  BY <1>1, TypedFile
<1>2. CASE n \in DOMAIN archive /\ z = archive[n]
  BY <1>2, TypedCopy
<1>3. QED
  BY <1>1, <1>2 DEF Copies

\* A copy that is there after such a step was there before, or is the current
\* file that has grown, or the new one after it.
LEMMA GoneOnOrdered ==
  ASSUME Typed, Agree, Ends, Ordered, GoesOn
  PROVE  Ordered'
<1>1. mode = "up" /\ archive' = archive /\ cur' = cur /\ cur \in Nat
  BY DEF GoesOn, Typed
<1>2. cur \in DOMAIN files /\ files[cur] \in Copies(cur)
  BY <1>1, TypedFile DEF Ends, Copies
<1> SUFFICES ASSUME NEW n \in 1..(cur + 1), NEW m \in 1..(cur + 1), n < m,
                    NEW x \in Copies(n)', NEW y \in Copies(m)'
             PROVE  x.first + Len(x.body) <= y.first
  BY <1>1 DEF Ordered
<1>3. n <= cur /\ n \in Nat /\ m \in Nat
  BY <1>1
<1>4. \E z \in Copies(n) : z.first = x.first /\ (n # cur => z.body = x.body)
        /\ (x = files'[n] \/ z = x)
  <2>1. CASE n \in DOMAIN archive /\ x = archive[n]
    BY <1>1, <2>1 DEF Copies
  <2>2. CASE n \in DOMAIN files' /\ x = files'[n]
    <3>1. n \in DOMAIN files
      BY <1>3, <2>2, <1>1 DEF GoesOn
    <3>2. files[n].head
      BY <1>1, <1>3, <3>1 DEF Ends
    <3>3. Extended(files[n], files'[n]) /\ (n # cur => files'[n].body = files[n].body)
      BY <3>1, <3>2 DEF GoesOn
    <3>4. files[n] \in Copies(n)
      BY <3>1, <3>2 DEF Copies
    <3>5. QED
      BY <2>2, <3>3, <3>4 DEF Extended
  <2>3. QED
    BY <1>1, <2>1, <2>2 DEF Copies
<1>5. PICK z \in Copies(n) : z.first = x.first /\ (n # cur => z.body = x.body)
        /\ (x = files'[n] \/ z = x)
  BY <1>4
<1>6. CASE \E w \in Copies(m) : w.first = y.first
  <2>1. PICK w \in Copies(m) : w.first = y.first
    BY <1>6
  <2>2. z.first + Len(z.body) <= w.first
    BY DEF Ordered
  <2>3. CASE z.body = x.body
    BY <1>5, <2>1, <2>2, <2>3
  <2>4. CASE z.body # x.body
    <3>1. n = cur /\ m = cur + 1 /\ x = files'[cur]
      BY <1>1, <1>3, <1>5, <2>4
    <3>2. CASE files'[cur].body = files[cur].body
      <4>1. files[cur].first + Len(files[cur].body) <= w.first
        BY <1>2, <3>1 DEF Ordered
      <4>2. files[cur].head
        BY <1>1, <1>2 DEF Ends
      <4>3. files'[cur].first = files[cur].first
        BY <1>2, <4>2 DEF GoesOn, Extended
      <4>4. QED
        BY <2>1, <3>1, <3>2, <4>1, <4>3
    <3>3. CASE files'[cur].body # files[cur].body
      <4>1. cur + 1 \notin DOMAIN files'
        BY <3>3 DEF GoesOn
      <4>2. cur + 1 \notin DOMAIN archive
        BY <1>1, <4>1 DEF Agree, GoesOn
      <4>3. QED
        BY <1>1, <3>1, <4>1, <4>2 DEF Copies
    <3>4. QED
      BY <3>2, <3>3
  <2>5. QED
    BY <2>3, <2>4
<1>7. CASE ~\E w \in Copies(m) : w.first = y.first
  <2>1. m \in DOMAIN files' /\ y = files'[m] /\ files'[m].head
    BY <1>1, <1>7 DEF Copies
  <2>2. m \notin DOMAIN files \/ ~files[m].head
    <3> SUFFICES ASSUME m \in DOMAIN files, files[m].head PROVE FALSE
      OBVIOUS
    <3>1. files[m] \in Copies(m) /\ files[m].first = y.first
      BY <2>1 DEF Copies, GoesOn, Extended
    <3>2. QED
      BY <1>7, <3>1
  <2>3. m = cur + 1
    BY <1>1, <2>1, <2>2 DEF GoesOn, Ends
  <2>4. End(cur) <= y.first /\ cur + 1 \in DOMAIN files'
    BY <2>1, <2>2, <2>3 DEF GoesOn
  <2>5. files'[cur].body = files[cur].body /\ files'[cur].first = files[cur].first
    <3>1. files[cur].head
      BY <1>1, <1>2 DEF Ends
    <3>2. QED
      BY <1>2, <2>4, <3>1 DEF GoesOn, Extended
  <2>6. z.first + Len(z.body) <= End(cur)
    <3>1. CASE n = cur /\ z = files[cur]
      <4>1. End(cur) \in Nat
        BY <1>2, TypedFile DEF End
      <4>2. QED
        BY <3>1, <4>1 DEF End
    <3>2. CASE n = cur /\ n \in DOMAIN archive /\ z = archive[cur]
      <4>1. archive[cur].first = files[cur].first /\ Len(archive[cur].body) <= Len(files[cur].body)
        BY <1>1, <1>2, <3>2 DEF Agree
      <4>2. files[cur].first \in Nat /\ Len(files[cur].body) \in Nat
        BY <1>2, TypedFile
      <4>3. cur \in DOMAIN archive
        BY <3>2
      <4>4. Len(archive[cur].body) \in Nat
        BY <4>3, TypedCopy
      <4>5. z.first = files[cur].first /\ Len(z.body) \in Nat /\ Len(z.body) <= Len(files[cur].body)
        BY <3>2, <4>1, <4>4
      <4>6. QED
        BY <4>2, <4>5 DEF End
    <3>3. CASE n # cur
      <4>1. n < cur /\ cur \in 1..(cur + 1)
        BY <1>1, <1>3, <3>3
      <4>2. z.first + Len(z.body) <= files[cur].first
        BY <1>2, <4>1 DEF Ordered
      <4>3. /\ files[cur].first \in Nat /\ Len(files[cur].body) \in Nat
        BY <1>2, TypedFile
      <4>4. z.first \in Nat /\ Len(z.body) \in Nat
        BY CopyTyped
      <4>5. QED
        BY <4>2, <4>3, <4>4 DEF End
    <3>4. QED
      BY <3>1, <3>2, <3>3 DEF Copies
  <2>7. (x.first = z.first /\ Len(x.body) = Len(z.body)) \/ x.first + Len(x.body) = End(cur)
    <3>1. CASE z = x
      BY <3>1
    <3>2. CASE x = files'[n] /\ n = cur
      BY <2>5, <3>2 DEF End
    <3>3. CASE n # cur
      BY <1>5, <3>3
    <3>4. QED
      BY <1>5, <3>1, <3>2, <3>3
  <2>8. z.first \in Nat /\ Len(z.body) \in Nat /\ End(cur) \in Nat /\ y.first \in Nat
    <3>1. z.first \in Nat /\ Len(z.body) \in Nat
      BY CopyTyped
    <3>2. End(cur) \in Nat
      BY <1>2, TypedFile DEF End
    <3>3. y.first \in Nat
      BY <2>1 DEF GoesOn, FileShape
    <3>4. QED
      BY <3>1, <3>2, <3>3
  <2>9. QED
    BY <2>4, <2>6, <2>7, <2>8
<1>8. QED
  BY <1>6, <1>7

LEMMA GoneOnLocated ==
  ASSUME Typed, Located, GoesOn, acked' = acked, next_seq' \in Nat, next_seq <= next_seq'
  PROVE  Located'
<1>1. mode = "up" /\ archive' = archive
  BY DEF GoesOn
<1> SUFFICES ASSUME NEW a \in acked
             PROVE  (InFile(a)' \/ InArchive(a)') /\ a.seq < next_seq'
  BY DEF Located
<1>2. a.seq < next_seq'
  <2>1. a.seq < next_seq /\ a.seq \in Nat /\ next_seq \in Nat
    BY <1>1 DEF Located, Typed
  <2>2. QED
    BY <2>1
<1>3. CASE InArchive(a)
  BY <1>1, <1>2, <1>3 DEF InArchive
<1>4. CASE InFile(a)
  <2>1. PICK n \in DOMAIN files : \E i \in 1..files[n].safe :
          files[n].body[i].rec = a.rec /\ files[n].first + i - 1 = a.seq
    BY <1>4 DEF InFile
  <2>2. PICK i \in 1..files[n].safe :
          files[n].body[i].rec = a.rec /\ files[n].first + i - 1 = a.seq
    BY <2>1
  <2>3. i \in DOMAIN files[n].body /\ files[n].safe \in Nat
    <3>1. files[n].safe \in 0..Len(files[n].body) /\ Len(files[n].body) \in Nat
          /\ DOMAIN files[n].body = 1..Len(files[n].body)
      BY TypedFile
    <3>2. QED
      BY <3>1
  <2>4. Extended(files[n], files'[n]) /\ n \in DOMAIN files'
    BY <2>3, TypedFile DEF GoesOn
  <2>5. files'[n].safe \in Nat
    <3>1. FileShape(files'[n])
      BY <2>4 DEF GoesOn
    <3>2. files'[n].safe \in 0..Len(files'[n].body) /\ Len(files'[n].body) \in Nat
      BY <3>1, PieceFacts DEF FileShape
    <3>3. QED
      BY <3>2
  <2>6. i \in 1..files'[n].safe /\ files'[n].body[i].rec = a.rec /\ files'[n].first + i - 1 = a.seq
    BY <2>2, <2>3, <2>4, <2>5 DEF Extended
  <2>7. QED
    BY <1>2, <2>4, <2>6 DEF InFile
<1>5. QED
  BY <1>1, <1>2, <1>3, <1>4 DEF Located

\* The steps that leave files and archive alone.
LEMMA StillLog ==
  ASSUME UNCHANGED <<files, archive, cur, current, mode>>
  PROVE  /\ Untorn => Untorn'
         /\ Agree => Agree'
         /\ Ends => Ends'
         /\ Ordered => Ordered'
         /\ Located /\ UNCHANGED <<acked, next_seq>> => Located'
<1>1. Untorn => Untorn'
  BY DEF Untorn, Complete
<1>2. Agree => Agree'
  BY DEF Agree
<1>3. Ends => Ends'
  BY DEF Ends
<1>4. Ordered => Ordered'
  BY DEF Ordered, Copies
<1>5. Located /\ UNCHANGED <<acked, next_seq>> => Located'
  BY DEF Located, InFile, InArchive
<1>6. QED
  BY <1>1, <1>2, <1>3, <1>4, <1>5

Good == Typed /\ Untorn /\ Agree /\ Ends /\ Ordered /\ Threaded /\ Marked /\ Located

LEMMA InitGood == Init => Good
<1> SUFFICES ASSUME Init PROVE Good
  OBVIOUS
<1>1. /\ DOMAIN files = {1} /\ files[1] = NewSegment(0) /\ DOMAIN archive = {}
      /\ cur = 1 /\ current = 1
  BY DEF Init
<1>2. <<>> \in Seq([rec : Rec, len : Nat \ {0}]) /\ Len(<<>>) = 0 /\ DOMAIN <<>> = {}
  OBVIOUS
<1>3. Typed
  <2>1. FileShape(files[1])
    BY <1>1, <1>2 DEF NewSegment, FileShape, Pieces
  <2>2. QED
    BY <1>1, <2>1 DEF Init, Typed
<1>4. Untorn /\ Agree /\ Ends /\ Ordered
  <2>1. Untorn
    BY <1>1, <1>2 DEF Untorn, NewSegment
  <2>2. Agree
    BY <1>1 DEF Agree
  <2>3. Ends
    BY <1>1, <1>2 DEF Ends, NewSegment
  <2>4. Ordered
    BY <1>1, <1>2 DEF Ordered, Copies, NewSegment
  <2>5. QED
    BY <2>1, <2>2, <2>3, <2>4
<1>5. Threaded /\ Marked /\ Located
  <2>1. Threaded
    BY <1>1, <1>2 DEF Init, Threaded, NewSegment
  <2>2. Marked
    BY <1>1, <1>2 DEF Init, Marked, NewSegment
  <2>3. Located
    BY DEF Init, Located
  <2>4. QED
    BY <2>1, <2>2, <2>3
<1>6. QED
  BY <1>3, <1>4, <1>5 DEF Good

LEMMA CollectGood ==
  ASSUME Good, NEW k \in 1..MaxBatch, Collect(k)
  PROVE  Good'
<1>1. Typed /\ mode = "up" /\ pc = "idle"
  BY DEF Good, Collect
<1>2. UNCHANGED <<files, archive, cur, current, mode, acked, next_seq, synced, opened>>
  BY DEF Collect, disk, archived
<1>3. k \in Nat /\ k >= 1 /\ submitted \in Nat /\ submitted + k <= NumRecs /\ NumRecs \in Nat
  BY <1>1, WalAssumption DEF Collect, Typed
<1>4. batch' = [i \in 1..k |-> submitted + i]
  BY DEF Collect
<1>5. batch' \in Seq(Rec) /\ batch' # <<>>
  <2>1. \A i \in 1..k : submitted + i \in Rec
    BY <1>3 DEF Rec
  <2>2. batch' \in Seq(Rec) /\ Len(batch') = k
    BY <1>3, <1>4, <2>1
  <2>3. QED
    BY <1>3, <2>2
<1>6. Typed'
  <2>1. pc' \in {"write", "create"} /\ submitted' = submitted + k
    BY DEF Collect
  <2>2. QED
    BY <1>1, <1>2, <1>3, <1>5, <2>1 DEF Typed
<1>7. Untorn' /\ Agree' /\ Ends' /\ Ordered' /\ Located'
  BY <1>2, StillLog DEF Good
<1>8. Threaded'
  <2>1. pc' \in {"write", "create"}
    BY DEF Collect
  <2>2. files'[cur'].first + Len(files'[cur'].body) = next_seq' + 0
    BY <1>1, <1>2 DEF Good, Threaded
  <2>3. QED
    BY <2>1, <2>2 DEF Threaded
<1>9. Marked'
  BY <1>2 DEF Good, Marked
<1>10. QED
  BY <1>6, <1>7, <1>8, <1>9 DEF Good

LEMMA AnswerGood ==
  ASSUME Good, Answer
  PROVE  Good'
<1>1. Typed /\ mode = "up" /\ pc = "ack" /\ pc' = "idle" /\ batch' = <<>>
  BY DEF Good, Answer
<1>2. UNCHANGED <<files, archive, cur, current, mode, next_seq, synced, opened, submitted>>
  BY DEF Answer, disk, archived
<1> DEFINE L == Len(files[cur].body)
<1>3. /\ files[cur].first + L = next_seq /\ files[cur].safe = L
      /\ Len(batch) <= L
      /\ \A i \in DOMAIN batch : files[cur].body[L - Len(batch) + i].rec = batch[i]
  BY <1>1 DEF Good, Threaded, Typed
<1>4. /\ cur \in DOMAIN files /\ files[cur].first \in Nat /\ L \in Nat /\ next_seq \in Nat
      /\ Len(batch) \in Nat /\ DOMAIN batch = 1..Len(batch) /\ \A i \in DOMAIN batch : batch[i] \in Rec
  <2>1. cur \in DOMAIN files
    BY <1>1 DEF Good, Ends
  <2>2. batch \in Seq(Rec) /\ next_seq \in Nat
    BY <1>1 DEF Typed
  <2>3. QED
    BY <1>1, <2>1, <2>2, TypedFile, LenProperties, ElementOfSeq
<1>5. ASSUME NEW i \in DOMAIN batch
      PROVE  LET a == [rec |-> batch[i], seq |-> next_seq - Len(batch) + i - 1] IN
             a \in [rec : Rec, seq : Nat] /\ InFile(a) /\ a.seq < next_seq
  <2> DEFINE j == L - Len(batch) + i
             a == [rec |-> batch[i], seq |-> next_seq - Len(batch) + i - 1]
  <2> HIDE DEF L
  <2>1. i \in Nat /\ i >= 1 /\ i <= Len(batch)
    BY <1>4
  <2>2. j \in 1..files[cur].safe /\ files[cur].body[j].rec = batch[i]
    BY <1>3, <1>4, <2>1
  <2>3. files[cur].first + j - 1 = next_seq - Len(batch) + i - 1
        /\ next_seq - Len(batch) + i - 1 \in Nat /\ next_seq - Len(batch) + i - 1 < next_seq
    BY <1>3, <1>4, <2>1
  <2>4. a.rec = batch[i] /\ a.seq = next_seq - Len(batch) + i - 1 /\ batch[i] \in Rec
    BY <1>4
  <2> HIDE DEF j, a
  <2>5. InFile(a)
    BY <1>4, <2>2, <2>3, <2>4 DEF InFile
  <2>6. QED
    BY <2>3, <2>4, <2>5 DEF a
<1>6. acked' = acked \cup {[rec |-> batch[i], seq |-> next_seq - Len(batch) + i - 1] : i \in DOMAIN batch}
  BY DEF Answer
<1>7. ASSUME NEW a \in acked'
      PROVE  a \in [rec : Rec, seq : Nat] /\ (InFile(a) \/ InArchive(a)) /\ a.seq < next_seq
  <2>1. CASE a \in acked
    BY <1>1, <2>1 DEF Good, Located, Typed
  <2>2. CASE a \notin acked
    <3>1. PICK i \in DOMAIN batch : a = [rec |-> batch[i], seq |-> next_seq - Len(batch) + i - 1]
      BY <1>6, <2>2
    <3>2. QED
      BY <1>5, <3>1
  <2>3. QED
    BY <2>1, <2>2
<1>8. Typed'
  <2>1. acked' \subseteq [rec : Rec, seq : Nat]
    BY <1>7
  <2>2. mode' = "up" /\ submitted' = submitted
    BY <1>1, <1>2
  <2>3. batch' \in Seq(Rec)
    BY <1>1
  <2>4. QED
    BY <1>1, <1>2, <2>1, <2>2, <2>3 DEF Typed
<1>9. Untorn' /\ Agree' /\ Ends' /\ Ordered'
  BY <1>2, StillLog DEF Good
<1>10. Located'
  BY <1>2, <1>7 DEF Located, InFile, InArchive
<1>11. Threaded'
  BY <1>1, <1>2, <1>3, <1>4 DEF Threaded
<1>12. Marked'
  BY <1>2 DEF Good, Marked
<1>13. QED
  BY <1>8, <1>9, <1>10, <1>11, <1>12 DEF Good

LEMMA GoneOnGood ==
  ASSUME Good, GoesOn, acked' = acked, next_seq' \in Nat, next_seq <= next_seq',
         synced' \in Nat, opened' = opened, submitted' = submitted, batch' \in Seq(Rec),
         pc' \in {"idle", "create", "header", "switch", "write", "sync", "ack"},
         pc' # "idle" => batch' # <<>>, Threaded', Marked'
  PROVE  Good'
<1>1. Typed /\ Untorn /\ Agree /\ Ends /\ Ordered /\ Located /\ mode' = "up"
  BY DEF Good, GoesOn
<1>2. Typed'
  <2>1. DOMAIN files' \subseteq Nat /\ \A n \in DOMAIN files' : FileShape(files'[n])
    BY <1>1 DEF GoesOn, Typed
  <2>2. UNCHANGED <<archive, cur, current>>
    BY DEF GoesOn
  <2>3. QED
    BY <1>1, <2>1, <2>2 DEF Typed
<1>3. Untorn' /\ Agree' /\ Ends' /\ Ordered' /\ Located'
  BY <1>1, GoneOnUntorn, GoneOnAgree, GoneOnEnds, GoneOnOrdered, GoneOnLocated
<1>4. QED
  BY <1>2, <1>3 DEF Good

\* The watermark stands for the same when what is new has numbers of its own.
LEMMA GoneOnMarked ==
  ASSUME Typed, Ends, Marked, GoesOn, UNCHANGED <<next_seq, synced, opened>>,
         \A i \in DOMAIN files'[cur].body :
           i \in DOMAIN files[cur].body \/ ~(files'[cur].first + i - 1 < next_seq)
  PROVE  Marked'
<1>1. mode = "up" /\ (synced < next_seq \/ synced = 0) /\ cur' = cur
  BY DEF Marked, GoesOn
<1>2. ASSUME NEW n \in DOMAIN files', NEW i \in DOMAIN files'[n].body,
             files'[n].first + i - 1 < next_seq
      PROVE  /\ files'[n].first + i - 1 <= synced
             /\ files'[n].first + i - 1 >= opened => i <= files'[n].safe
  <2>1. n \in DOMAIN files
    BY <1>2 DEF GoesOn
  <2>2. i \in DOMAIN files[n].body
    BY <1>2, <2>1 DEF GoesOn
  <2>3. files[n].head
    BY <2>1, <2>2, TypedFile
  <2>4. Extended(files[n], files'[n]) /\ FileShape(files'[n])
    BY <2>1, <2>3 DEF GoesOn
  <2>5. files'[n].first = files[n].first /\ files[n].safe <= files'[n].safe
    BY <2>4 DEF Extended
  <2>6. /\ files[n].first + i - 1 <= synced
        /\ files[n].first + i - 1 >= opened => i <= files[n].safe
    BY <1>1, <1>2, <2>1, <2>2, <2>5 DEF Marked
  <2>7. i \in Nat /\ files[n].safe \in Nat /\ files'[n].safe \in Nat
    <3>1. files[n].safe \in 0..Len(files[n].body) /\ Len(files[n].body) \in Nat
          /\ DOMAIN files[n].body = 1..Len(files[n].body)
      BY <2>1, TypedFile
    <3>2. files'[n].safe \in 0..Len(files'[n].body) /\ Len(files'[n].body) \in Nat
      BY <2>4, PieceFacts DEF FileShape
    <3>3. QED
      BY <2>2, <3>1, <3>2
  <2>8. QED
    BY <2>5, <2>6, <2>7
<1>3. QED
  BY <1>1, <1>2 DEF Marked

LEMMA EmptyShape ==
  /\ Pieces(<<>>) /\ Len(<<>>) = 0 /\ DOMAIN <<>> = {}
  /\ FileShape(Headless)
  /\ \A k \in Nat : FileShape(NewSegment(k))
<1>1. Pieces(<<>>) /\ Len(<<>>) = 0 /\ DOMAIN <<>> = {}
  BY DEF Pieces
<1>2. QED
  BY <1>1 DEF FileShape, Headless, NewSegment

\* The current file is synced: all of it stands for good.
LEMMA SyncedFile ==
  ASSUME Typed, Untorn, Ends, mode = "up", NEW g,
         g = [files[cur] EXCEPT !.safe = Len(files[cur].body)]
  PROVE  /\ FileShape(g) /\ Extended(files[cur], g)
         /\ g.head = files[cur].head /\ g.first = files[cur].first /\ g.body = files[cur].body
         /\ g.safe = Len(files[cur].body)
<1>1. cur \in DOMAIN files
  BY DEF Ends
<1>2. FileShape(files[cur])
  BY <1>1 DEF Typed
<1>3. files[cur].safe \in 0..Len(files[cur].body) /\ Len(files[cur].body) \in Nat
  BY <1>1, TypedFile
<1>4. /\ g = [head |-> g.head, first |-> g.first, body |-> g.body, safe |-> g.safe]
      /\ g.head = files[cur].head /\ g.first = files[cur].first /\ g.body = files[cur].body
      /\ g.safe = Len(files[cur].body)
  BY <1>2 DEF FileShape
<1>5. FileShape(g)
  BY <1>2, <1>3, <1>4 DEF FileShape
<1>6. Extended(files[cur], g)
  BY <1>3, <1>4 DEF Extended
<1>7. QED
  BY <1>4, <1>5, <1>6

LEMMA SelfExtended ==
  ASSUME Typed, NEW n \in DOMAIN files
  PROVE  Extended(files[n], files[n])
<1>1. files[n].safe \in 0..Len(files[n].body) /\ Len(files[n].body) \in Nat
  BY TypedFile
<1>2. QED
  BY <1>1 DEF Extended

LEMMA RotateCreateGood ==
  ASSUME Good, RotateCreate
  PROVE  Good'
<1>1. Typed /\ Untorn /\ Ends /\ Marked /\ Threaded /\ mode = "up" /\ pc = "create" /\ cur \in Nat
  BY DEF Good, RotateCreate, Typed
<1>2. UNCHANGED <<archive, cur, current, mode, acked, next_seq, synced, opened, submitted>>
  BY DEF RotateCreate, archived
<1>3. /\ cur \in DOMAIN files /\ cur + 1 # cur
      /\ files[cur].first + Len(files[cur].body) = next_seq
      /\ next_seq \in Nat
  BY <1>1 DEF Ends, Threaded, Typed
<1> DEFINE g == [files[cur] EXCEPT !.safe = Len(files[cur].body)]
           S == [files EXCEPT ![cur].safe = Len(files[cur].body)]
<1>4. DOMAIN S = DOMAIN files /\ S[cur] = g /\ \A n \in DOMAIN files : n # cur => S[n] = files[n]
  BY <1>3
<1>5. /\ FileShape(g) /\ Extended(files[cur], g)
      /\ g.head = files[cur].head /\ g.first = files[cur].first /\ g.body = files[cur].body
  BY <1>1, SyncedFile
<1>6. \/ DOMAIN files' = DOMAIN files /\ pc' = "idle" /\ batch' = <<>>
      \/ /\ cur + 1 \notin DOMAIN files /\ DOMAIN files' = DOMAIN files \cup {cur + 1}
         /\ files'[cur + 1] = Headless /\ pc' = "header" /\ batch' = batch
  <2>1. CASE cur + 1 \in DOMAIN files
    BY <1>4, <2>1 DEF RotateCreate, Refuse
  <2>2. CASE cur + 1 \notin DOMAIN files
    <3>1. files' = With(S, cur + 1, Headless) /\ pc' = "header" /\ batch' = batch
      BY <2>2 DEF RotateCreate
    <3>2. QED
      BY <1>4, <2>2, <3>1 DEF With
  <2>3. QED
    BY <2>1, <2>2
<1>7. files'[cur] = g /\ \A n \in DOMAIN files : n # cur => files'[n] = files[n]
  <2>1. CASE cur + 1 \in DOMAIN files
    BY <1>4, <2>1 DEF RotateCreate
  <2>2. CASE cur + 1 \notin DOMAIN files
    <3>1. files' = With(S, cur + 1, Headless)
      BY <2>2 DEF RotateCreate
    <3>2. QED
      BY <1>3, <1>4, <2>2, <3>1 DEF With
  <2>3. QED
    BY <2>1, <2>2
<1> HIDE DEF g, S
<1>8. GoesOn
  <2>1. \A n \in DOMAIN files' : FileShape(files'[n])
    BY <1>1, <1>5, <1>6, <1>7, EmptyShape DEF Typed
  <2>2. \A n \in DOMAIN files : Extended(files[n], files'[n]) /\ files'[n].body = files[n].body
    BY <1>1, <1>5, <1>7, SelfExtended
  <2>3. \A n \in DOMAIN files' : \A i \in DOMAIN files'[n].body : Complete(files'[n].body[i])
    <3>1. ASSUME NEW n \in DOMAIN files', NEW i \in DOMAIN files'[n].body
          PROVE  Complete(files'[n].body[i])
      <4>1. n \in DOMAIN files
        BY <1>6, <3>1, EmptyShape DEF Headless
      <4>2. QED
        BY <1>1, <2>2, <3>1, <4>1 DEF Untorn
    <3>2. QED
      BY <3>1
  <2>4. cur + 1 \in DOMAIN files' /\ (cur + 1 \notin DOMAIN files \/ ~files[cur + 1].head) =>
          /\ files'[cur + 1].body = <<>> /\ ~files'[cur + 1].head
    <3>1. CASE cur + 1 \in DOMAIN files
      <4>1. ~files[cur + 1].head => files[cur + 1].body = <<>>
        BY <1>1, <3>1 DEF Typed, FileShape
      <4>2. QED
        BY <1>3, <1>7, <3>1, <4>1
    <3>2. CASE cur + 1 \notin DOMAIN files
      BY <1>6, <3>2 DEF Headless
    <3>3. QED
      BY <3>1, <3>2
  <2>5. QED
    BY <1>1, <1>2, <1>3, <1>6, <2>1, <2>2, <2>3, <2>4 DEF GoesOn
<1>9. Marked'
  BY <1>1, <1>2, <1>5, <1>7, <1>8, GoneOnMarked
<1>10. Threaded'
  <2>1. files'[cur'].first + Len(files'[cur'].body) = next_seq' + 0
    BY <1>2, <1>3, <1>5, <1>7
  <2>2. pc' = "header" => cur' + 1 \in DOMAIN files' /\ ~files'[cur' + 1].head
    BY <1>2, <1>6 DEF Headless
  <2>3. pc' \in {"idle", "header"}
    BY <1>6
  <2>4. QED
    BY <2>1, <2>2, <2>3 DEF Threaded
<1>11. batch' \in Seq(Rec) /\ (pc' # "idle" => batch' # <<>>)
  <2>1. batch \in Seq(Rec) /\ batch # <<>>
    BY <1>1 DEF Typed
  <2>2. (pc' = "idle" /\ batch' = <<>>) \/ (pc' = "header" /\ batch' = batch)
    BY <1>6
  <2>3. <<>> \in Seq(Rec)
    OBVIOUS
  <2>4. QED
    BY <2>1, <2>2, <2>3, Zenon
<1>12. next_seq' \in Nat /\ next_seq <= next_seq' /\ synced' \in Nat
  <2>1. next_seq' = next_seq /\ synced' = synced /\ synced \in Nat
    BY <1>1, <1>2 DEF Typed
  <2>2. QED
    BY <1>3, <2>1
<1>13. pc' \in {"idle", "header"}
  BY <1>6
<1>14. acked' = acked /\ opened' = opened /\ submitted' = submitted
  BY <1>2
<1>15. QED
  BY <1>8, <1>9, <1>10, <1>11, <1>12, <1>13, <1>14, GoneOnGood

LEMMA RotateHeaderGood ==
  ASSUME Good, RotateHeader
  PROVE  Good'
<1>1. Typed /\ Untorn /\ Ends /\ Marked /\ Threaded /\ mode = "up" /\ pc = "header" /\ cur \in Nat
  BY DEF Good, RotateHeader, Typed
<1>2. UNCHANGED <<archive, cur, current, mode, acked, next_seq, synced, opened, submitted>>
  BY DEF RotateHeader, archived
<1>3. /\ cur \in DOMAIN files /\ cur + 1 # cur
      /\ files[cur].first + Len(files[cur].body) = next_seq
      /\ next_seq \in Nat /\ cur + 1 \in DOMAIN files /\ ~files[cur + 1].head
  BY <1>1 DEF Ends, Threaded, Typed
<1>4. CASE files' = files /\ pc' = "idle" /\ batch' = <<>>
  <2>1. Untorn' /\ Agree' /\ Ends' /\ Ordered' /\ Located'
    BY <1>2, <1>4, StillLog DEF Good
  <2>2. Typed'
    BY <1>1, <1>2, <1>4 DEF Typed
  <2>3. Threaded'
    BY <1>1, <1>2, <1>3, <1>4 DEF Threaded
  <2>4. Marked'
    BY <1>1, <1>2, <1>4 DEF Marked
  <2>5. QED
    BY <2>1, <2>2, <2>3, <2>4 DEF Good
<1>5. CASE pc' = "switch" /\ batch' = batch /\ files' = [files EXCEPT ![cur + 1] = NewSegment(next_seq)]
  <2>1. /\ DOMAIN files' = DOMAIN files /\ files'[cur + 1] = NewSegment(next_seq)
        /\ \A n \in DOMAIN files : n # cur + 1 => files'[n] = files[n]
    BY <1>3, <1>5
  <2>2. files[cur + 1].body = <<>>
    BY <1>1, <1>3 DEF Typed, FileShape
  <2>3. \A n \in DOMAIN files : files'[n].body = files[n].body
    BY <2>1, <2>2 DEF NewSegment
  <2>4. GoesOn
    <3>1. \A n \in DOMAIN files' : FileShape(files'[n])
      BY <1>1, <1>3, <2>1, EmptyShape DEF Typed
    <3>2. \A n \in DOMAIN files : files[n].head => Extended(files[n], files'[n])
      BY <1>1, <1>3, <2>1, SelfExtended
    <3>3. \A n \in DOMAIN files' : \A i \in DOMAIN files'[n].body : Complete(files'[n].body[i])
      BY <1>1, <2>1, <2>3 DEF Untorn
    <3>4. files'[cur + 1].body = <<>> /\ End(cur) <= files'[cur + 1].first
      BY <1>3, <2>1 DEF End, NewSegment
    <3>5. QED
      BY <1>1, <1>2, <1>3, <2>1, <2>3, <3>1, <3>2, <3>3, <3>4 DEF GoesOn
  <2>5. Marked'
    BY <1>1, <1>2, <1>3, <2>1, <2>4, GoneOnMarked
  <2>6. Threaded'
    <3>1. files'[cur] = files[cur]
      BY <1>3, <2>1
    <3>2. QED
      BY <1>2, <1>3, <1>5, <2>1, <3>1 DEF Threaded
  <2>7. QED
    BY <1>1, <1>2, <1>3, <1>5, <2>4, <2>5, <2>6, GoneOnGood DEF Typed
<1>6. QED
  BY <1>4, <1>5 DEF RotateHeader, Refuse

LEMMA RotateSwitchGood ==
  ASSUME Good, RotateSwitch
  PROVE  Good'
<1>1. Typed /\ Untorn /\ Agree /\ Ends /\ Ordered /\ Located /\ Marked /\ Threaded
      /\ mode = "up" /\ pc = "switch" /\ cur \in Nat
  BY DEF Good, RotateSwitch, Typed
<1>2. UNCHANGED <<files, archive, mode, acked, next_seq, synced, opened, submitted>>
  BY DEF RotateSwitch, archived
<1>3. /\ cur \in DOMAIN files /\ cur + 1 \in DOMAIN files /\ files[cur + 1] = NewSegment(next_seq)
      /\ files[cur].first + Len(files[cur].body) = next_seq /\ next_seq \in Nat
  BY <1>1 DEF Ends, Threaded, Typed
<1>4. Untorn' /\ Agree' /\ Located' /\ Marked'
  <2>1. Untorn' /\ Agree'
    BY <1>1, <1>2 DEF Untorn, Agree, Complete
  <2>2. Located'
    BY <1>1, <1>2 DEF Located, InFile, InArchive
  <2>3. Marked'
    BY <1>1, <1>2 DEF Marked
  <2>4. QED
    BY <2>1, <2>2, <2>3
<1>5. CASE pc' = "write" /\ cur' = cur + 1 /\ current' = cur + 1 /\ batch' = batch
  <2>1. Typed'
    BY <1>1, <1>2, <1>5 DEF Typed
  <2>2. Ends'
    <3>1. DOMAIN files \cup DOMAIN archive \subseteq 1..(cur + 1)
      BY <1>1 DEF Ends
    <3>2. \A n \in DOMAIN files : n <= cur + 1 => files[n].head
      <4>1. \A n \in DOMAIN files : n <= cur => files[n].head
        BY <1>1 DEF Ends
      <4>2. files[cur + 1].head
        BY <1>3 DEF NewSegment
      <4>3. QED
        BY <1>1, <3>1, <4>1, <4>2
    <3>3. QED
      BY <1>1, <1>2, <1>3, <1>5, <3>1, <3>2 DEF Ends
  <2>3. Ordered'
    <3>1. DOMAIN files \cup DOMAIN archive \subseteq 1..(cur + 1)
      BY <1>1 DEF Ends
    <3> SUFFICES ASSUME NEW n \in 1..(cur + 2), NEW m \in 1..(cur + 2), n < m,
                        NEW x \in Copies(n), NEW y \in Copies(m)
                 PROVE  x.first + Len(x.body) <= y.first
      BY <1>1, <1>2, <1>5 DEF Ordered, Copies
    <3>2. n \in 1..(cur + 1) /\ m \in 1..(cur + 1)
      BY <3>1 DEF Copies
    <3>3. QED
      BY <1>1, <3>2 DEF Ordered
  <2>4. Threaded'
    <3>1. files'[cur'].first + Len(files'[cur'].body) = next_seq' + 0
      BY <1>2, <1>3, <1>5, EmptyShape DEF NewSegment
    <3>2. QED
      BY <1>5, <3>1 DEF Threaded
  <2>5. QED
    BY <1>4, <2>1, <2>2, <2>3, <2>4 DEF Good
<1>6. CASE pc' = "idle" /\ batch' = <<>> /\ current' \in {current, cur + 1} /\ cur' = cur
  <2>1. Typed'
    BY <1>1, <1>2, <1>6 DEF Typed
  <2>2. Ends'
    BY <1>1, <1>2, <1>3, <1>6 DEF Ends
  <2>3. Ordered'
    BY <1>1, <1>2, <1>6 DEF Ordered, Copies
  <2>4. Threaded'
    BY <1>2, <1>3, <1>6 DEF Threaded
  <2>5. QED
    BY <1>4, <2>1, <2>2, <2>3, <2>4 DEF Good
<1>7. QED
  BY <1>5, <1>6 DEF RotateSwitch, Refuse

LEMMA WholePieces ==
  ASSUME NEW recs \in Seq(Rec)
  PROVE  /\ Pieces(Whole(recs)) /\ Len(Whole(recs)) = Len(recs)
         /\ DOMAIN Whole(recs) = DOMAIN recs
         /\ \A i \in DOMAIN recs : Whole(recs)[i].rec = recs[i] /\ Complete(Whole(recs)[i])
<1> DEFINE P == [rec : Rec, len : Nat \ {0}]
<1>1. /\ DOMAIN recs = 1..Len(recs) /\ Len(recs) \in Nat
      /\ \A i \in DOMAIN recs : recs[i] \in Rec
  BY LenProperties, ElementOfSeq
<1>2. \A r \in Rec : Size[r] \in Nat \ {0}
  BY WalAssumption
<1>3. ASSUME NEW i \in DOMAIN recs
      PROVE  /\ Whole(recs)[i] = [rec |-> recs[i], len |-> Size[recs[i]]]
             /\ Whole(recs)[i] \in P
  BY <1>1, <1>2, <1>3 DEF Whole
<1>4. Whole(recs) \in Seq(P) /\ Len(Whole(recs)) = Len(recs)
  <2>1. Whole(recs) = [i \in 1..Len(recs) |-> Whole(recs)[i]] /\ DOMAIN Whole(recs) = DOMAIN recs
    BY <1>1 DEF Whole
  <2>2. \A i \in 1..Len(recs) : Whole(recs)[i] \in P
    BY <1>1, <1>3
  <2> HIDE DEF P
  <2>3. Whole(recs) \in [1..Len(recs) -> P]
    BY <2>1, <2>2
  <2>4. QED
    BY <1>1, <2>3
<1>5. DOMAIN Whole(recs) = DOMAIN recs
  BY DEF Whole
<1>6. ASSUME NEW i \in DOMAIN recs
      PROVE  /\ Whole(recs)[i].rec = recs[i] /\ Complete(Whole(recs)[i])
             /\ Whole(recs)[i].len <= Size[Whole(recs)[i].rec]
  <2>1. Size[recs[i]] \in Nat /\ Size[recs[i]] <= Size[recs[i]]
    BY <1>1, <1>2
  <2>2. Whole(recs)[i].rec = recs[i] /\ Whole(recs)[i].len = Size[recs[i]]
    BY DEF Whole
  <2>3. QED
    BY <2>1, <2>2 DEF Complete
<1>7. QED
  BY <1>4, <1>5, <1>6 DEF Pieces

LEMMA JoinedPieces ==
  ASSUME NEW a, NEW b, Pieces(a), Pieces(b)
  PROVE  /\ Pieces(a \o b) /\ Len(a \o b) = Len(a) + Len(b)
         /\ DOMAIN (a \o b) = 1..(Len(a) + Len(b))
         /\ \A i \in DOMAIN a : (a \o b)[i] = a[i]
         /\ \A i \in DOMAIN (a \o b) : i \notin DOMAIN a =>
              i - Len(a) \in DOMAIN b /\ (a \o b)[i] = b[i - Len(a)]
<1> DEFINE P == [rec : Rec, len : Nat \ {0}]
<1>1. a \in Seq(P) /\ b \in Seq(P)
  BY DEF Pieces
<1>2. /\ Len(a) \in Nat /\ DOMAIN a = 1..Len(a)
      /\ Len(b) \in Nat /\ DOMAIN b = 1..Len(b)
  BY PieceFacts
<1>3. /\ a \o b \in Seq(P) /\ Len(a \o b) = Len(a) + Len(b)
      /\ DOMAIN (a \o b) = 1..(Len(a) + Len(b))
      /\ \A i \in 1..(Len(a) + Len(b)) :
           (a \o b)[i] = IF i <= Len(a) THEN a[i] ELSE b[i - Len(a)]
  <2> HIDE DEF P
  <2>1. QED
    BY <1>1, ConcatProperties, LenProperties
<1>4. \A i \in DOMAIN a : (a \o b)[i] = a[i]
  BY <1>2, <1>3
<1>5. \A i \in DOMAIN (a \o b) : i \notin DOMAIN a =>
        i - Len(a) \in DOMAIN b /\ (a \o b)[i] = b[i - Len(a)]
  BY <1>2, <1>3
<1>6. \A i \in DOMAIN (a \o b) : (a \o b)[i].len <= Size[(a \o b)[i].rec]
  <2>1. ASSUME NEW i \in DOMAIN (a \o b) PROVE (a \o b)[i].len <= Size[(a \o b)[i].rec]
    <3>1. CASE i \in DOMAIN a
      BY <1>4, <3>1 DEF Pieces
    <3>2. CASE i \notin DOMAIN a
      BY <1>5, <3>2 DEF Pieces
    <3>3. QED
      BY <3>1, <3>2
  <2>2. QED
    BY <2>1
<1>7. QED
  BY <1>3, <1>4, <1>5, <1>6 DEF Pieces

LEMMA GrownRecord ==
  ASSUME NEW f, f = [head |-> f.head, first |-> f.first, body |-> f.body, safe |-> f.safe],
         NEW b, NEW g, g = [f EXCEPT !.body = b]
  PROVE  /\ g = [head |-> g.head, first |-> g.first, body |-> g.body, safe |-> g.safe]
         /\ g.head = f.head /\ g.first = f.first /\ g.body = b /\ g.safe = f.safe
OBVIOUS

\* Whole records appended to the current file, with no segment after it.
LEMMA AppendGoesOn ==
  ASSUME Typed, Untorn, Ends, mode = "up", UNCHANGED <<mode, archive, cur, current>>,
         NEW w, Pieces(w), \A i \in DOMAIN w : Complete(w[i]),
         w # <<>> => cur + 1 \notin DOMAIN files, files' = Appended(w)
  PROVE  /\ GoesOn /\ DOMAIN files' = DOMAIN files
         /\ files'[cur].first = files[cur].first /\ files'[cur].body = files[cur].body \o w
<1>1. cur \in DOMAIN files /\ cur \in Nat /\ cur + 1 # cur
  BY DEF Ends, Typed
<1>2. FileShape(files[cur]) /\ Pieces(files[cur].body) /\ Len(w) \in Nat
      /\ files[cur].safe \in 0..Len(files[cur].body) /\ Len(files[cur].body) \in Nat
  BY <1>1, TypedFile, PieceFacts DEF Typed
<1>g. PICK g : g = [files[cur] EXCEPT !.body = files[cur].body \o w]
  OBVIOUS
<1>3. /\ DOMAIN files' = DOMAIN files /\ files'[cur] = g
      /\ \A n \in DOMAIN files : n # cur => files'[n] = files[n]
  BY <1>1, <1>g DEF Appended
<1>4. /\ g = [head |-> g.head, first |-> g.first, body |-> g.body, safe |-> g.safe]
      /\ g.head = files[cur].head /\ g.first = files[cur].first
      /\ g.body = files[cur].body \o w /\ g.safe = files[cur].safe
  <2>1. files[cur] = [head |-> files[cur].head, first |-> files[cur].first,
                      body |-> files[cur].body, safe |-> files[cur].safe]
    BY <1>2 DEF FileShape
  <2>2. QED
    BY <1>g, <2>1, GrownRecord
<1>5. /\ Pieces(g.body) /\ Len(g.body) = Len(files[cur].body) + Len(w)
      /\ \A i \in DOMAIN files[cur].body : g.body[i] = files[cur].body[i]
      /\ \A i \in DOMAIN g.body : i \notin DOMAIN files[cur].body =>
           i - Len(files[cur].body) \in DOMAIN w /\ g.body[i] = w[i - Len(files[cur].body)]
  BY <1>2, <1>4, JoinedPieces
<1>6. files[cur].head
  BY <1>1 DEF Ends
<1>7. FileShape(g) /\ Extended(files[cur], g)
  <2>1. g.safe \in 0..Len(g.body)
    BY <1>2, <1>4, <1>5
  <2>2. FileShape(g)
    BY <1>2, <1>4, <1>5, <1>6, <2>1 DEF FileShape
  <2>3. Extended(files[cur], g)
    BY <1>2, <1>4, <1>5 DEF Extended
  <2>4. QED
    BY <2>2, <2>3
<1>8. \A n \in DOMAIN files' : FileShape(files'[n])
  BY <1>3, <1>7 DEF Typed
<1>9. \A n \in DOMAIN files : Extended(files[n], files'[n])
  BY <1>3, <1>7, SelfExtended
<1>10. \A n \in DOMAIN files' : \A i \in DOMAIN files'[n].body : Complete(files'[n].body[i])
  <2>1. ASSUME NEW i \in DOMAIN g.body PROVE Complete(g.body[i])
    <3>1. CASE i \in DOMAIN files[cur].body
      BY <1>1, <1>5, <3>1 DEF Untorn
    <3>2. CASE i \notin DOMAIN files[cur].body
      BY <1>5, <3>2
    <3>3. QED
      BY <3>1, <3>2
  <2>2. ASSUME NEW n \in DOMAIN files, n # cur, NEW i \in DOMAIN files[n].body
        PROVE  Complete(files[n].body[i])
    BY DEF Untorn
  <2>3. QED
    BY <1>3, <2>1, <2>2
<1>11. files'[cur].body # files[cur].body => cur + 1 \notin DOMAIN files'
  <2>1. w = <<>> => g.body = files[cur].body
    <3>1. files[cur].body \in Seq([rec : Rec, len : Nat \ {0}])
      BY <1>2 DEF Pieces
    <3>2. files[cur].body \o <<>> = files[cur].body
      BY <3>1, ConcatEmptySeq
    <3>3. QED
      BY <1>4, <3>2
  <2>2. QED
    BY <1>3, <2>1
<1>12. cur + 1 \in DOMAIN files' /\ (cur + 1 \notin DOMAIN files \/ ~files[cur + 1].head) =>
         /\ files'[cur + 1].body = <<>>
         /\ files'[cur + 1].head => End(cur) <= files'[cur + 1].first
  <2>1. ASSUME cur + 1 \in DOMAIN files, ~files[cur + 1].head
        PROVE  files[cur + 1].body = <<>> /\ ~files[cur + 1].head
    BY <2>1 DEF Typed, FileShape
  <2>2. QED
    BY <1>1, <1>3, <2>1
<1>13. GoesOn
  BY <1>3, <1>8, <1>9, <1>10, <1>11, <1>12 DEF GoesOn
<1>14. QED
  BY <1>3, <1>4, <1>13

LEMMA Behind ==
  ASSUME NEW a \in Nat, NEW l \in Nat, NEW i \in 1..l
  PROVE  /\ a + i \in 1..(a + l) /\ a + i \notin 1..a
         /\ (a + i) - a = i /\ (a + l) - l + i = a + i
OBVIOUS

LEMMA WriteGood ==
  ASSUME Good, Write, harmed' = {}
  PROVE  Good'
<1>1. Typed /\ Untorn /\ Ends /\ Marked /\ Threaded /\ mode = "up" /\ pc = "write"
  BY DEF Good, Write
<1>2. UNCHANGED <<archive, cur, current, mode, acked, next_seq, synced, opened, submitted>>
  BY DEF Write, archived
<1>3. /\ cur \in DOMAIN files /\ next_seq \in Nat /\ synced' \in Nat /\ next_seq' = next_seq
      /\ batch \in Seq(Rec) /\ batch # <<>>
      /\ files[cur].first + Len(files[cur].body) = next_seq
  <2>1. next_seq \in Nat /\ synced \in Nat /\ batch \in Seq(Rec) /\ batch # <<>>
    BY <1>1 DEF Typed
  <2>2. cur \in DOMAIN files /\ files[cur].first + Len(files[cur].body) = next_seq
    BY <1>1 DEF Ends, Threaded, Typed
  <2>3. QED
    BY <1>2, <2>1, <2>2
<1>4. /\ files[cur].first \in Nat /\ Pieces(files[cur].body) /\ Len(files[cur].body) \in Nat
      /\ DOMAIN files[cur].body = 1..Len(files[cur].body)
  BY <1>1, <1>3, TypedFile
<1>5. \E w : /\ files' = Appended(w) /\ Pieces(w) /\ (\A i \in DOMAIN w : Complete(w[i]))
             /\ w # <<>> => cur + 1 \notin DOMAIN files
             /\ \/ w = <<>> /\ pc' = "idle" /\ batch' = <<>>
                \/ w = Whole(batch) /\ pc' = "sync" /\ batch' = batch
  <2>1. CASE pc' = "sync" /\ files' = Appended(Whole(batch)) /\ batch' = batch
             /\ harmed' = harmed \cup (IF cur + 1 \in DOMAIN files THEN {"stray"} ELSE {})
    <3>1. cur + 1 \notin DOMAIN files
      BY <2>1
    <3>2. QED
      BY <1>3, <2>1, <3>1, WholePieces
  <2>2. CASE Refuse /\ \E w \in Torn(batch) : files' = Appended(w)
               /\ harmed' = harmed \cup (IF w # <<>> THEN {"write"} ELSE {})
    <3>1. PICK w \in Torn(batch) : files' = Appended(w)
               /\ harmed' = harmed \cup (IF w # <<>> THEN {"write"} ELSE {})
      BY <2>2
    <3>2. w = <<>>
      BY <3>1
    <3>3. Pieces(<<>>) /\ DOMAIN <<>> = {}
      BY EmptyShape
    <3>4. QED
      BY <2>2, <3>1, <3>2, <3>3 DEF Refuse
  <2>3. QED
    BY <2>1, <2>2 DEF Write
<1>6. PICK w : /\ files' = Appended(w) /\ Pieces(w) /\ (\A i \in DOMAIN w : Complete(w[i]))
               /\ w # <<>> => cur + 1 \notin DOMAIN files
               /\ \/ w = <<>> /\ pc' = "idle" /\ batch' = <<>>
                  \/ w = Whole(batch) /\ pc' = "sync" /\ batch' = batch
  BY <1>5
<1>7. /\ GoesOn /\ DOMAIN files' = DOMAIN files
      /\ files'[cur].first = files[cur].first /\ files'[cur].body = files[cur].body \o w
  BY <1>1, <1>2, <1>6, AppendGoesOn
<1>8. /\ Len(files'[cur].body) = Len(files[cur].body) + Len(w) /\ Len(w) \in Nat
      /\ DOMAIN files'[cur].body = 1..(Len(files[cur].body) + Len(w))
      /\ \A i \in DOMAIN files'[cur].body : i \notin DOMAIN files[cur].body =>
           i - Len(files[cur].body) \in DOMAIN w /\ files'[cur].body[i] = w[i - Len(files[cur].body)]
  BY <1>4, <1>6, <1>7, JoinedPieces, PieceFacts
<1>9. Marked'
  <2>1. ASSUME NEW i \in DOMAIN files'[cur].body, i \notin DOMAIN files[cur].body
        PROVE  ~(files'[cur].first + i - 1 < next_seq)
    BY <1>3, <1>4, <1>7, <1>8, <2>1
  <2>2. QED
    BY <1>1, <1>2, <1>7, <2>1, GoneOnMarked
<1>10. Threaded'
  <2>1. CASE w = <<>> /\ pc' = "idle"
    <3>1. files'[cur'].first + Len(files'[cur'].body) = next_seq' + 0
      BY <1>2, <1>3, <1>4, <1>7, <1>8, <2>1, EmptyShape
    <3>2. QED
      BY <2>1, <3>1 DEF Threaded
  <2>2. CASE w = Whole(batch) /\ pc' = "sync" /\ batch' = batch
    <3>1. /\ Len(w) = Len(batch) /\ DOMAIN w = DOMAIN batch /\ DOMAIN batch = 1..Len(batch)
          /\ \A i \in DOMAIN batch : w[i].rec = batch[i]
      BY <1>3, <2>2, WholePieces, LenProperties
    <3>a. Len(batch) \in Nat /\ Len(files'[cur].body) = Len(files[cur].body) + Len(batch)
      BY <1>8, <3>1
    <3>2. files'[cur].first + Len(files'[cur].body) = next_seq' + Len(batch)
      <4>1. files[cur].first + (Len(files[cur].body) + Len(batch)) = next_seq + Len(batch)
        <5>1. files[cur].first \in Nat /\ Len(files[cur].body) \in Nat /\ Len(batch) \in Nat
          BY <1>4, <3>a
        <5>2. files[cur].first + Len(files[cur].body) = next_seq
          BY <1>3
        <5>3. QED
          BY <5>1, <5>2
      <4>2. QED
        BY <1>3, <1>7, <3>a, <4>1
    <3>3. Len(batch) <= Len(files'[cur].body)
      BY <1>4, <3>a
    <3>4. ASSUME NEW i \in DOMAIN batch
          PROVE  files'[cur].body[Len(files'[cur].body) - Len(batch) + i].rec = batch[i]
      <4> DEFINE j == Len(files[cur].body) + i
      <4>1. /\ i \in Nat /\ i >= 1 /\ i <= Len(batch)
        BY <1>8, <3>1
      <4>2. j \in DOMAIN files'[cur].body /\ j \notin DOMAIN files[cur].body
            /\ j - Len(files[cur].body) = i /\ Len(files'[cur].body) - Len(batch) + i = j
        <5>1. Len(files[cur].body) \in Nat /\ Len(w) = Len(batch) /\ Len(batch) \in Nat
          BY <1>4, <3>1, <3>a
        <5>2. /\ j \in 1..(Len(files[cur].body) + Len(w)) /\ j \notin 1..Len(files[cur].body)
              /\ j - Len(files[cur].body) = i
              /\ (Len(files[cur].body) + Len(batch)) - Len(batch) + i = j
          <6>1. i \in 1..Len(batch)
            BY <3>1
          <6>2. QED
            BY <5>1, <6>1, Behind
        <5>3. QED
          BY <1>4, <1>8, <3>a, <5>2
      <4>3. QED
        BY <1>8, <3>1, <4>2
    <3>5. QED
      BY <1>2, <2>2, <3>2, <3>3, <3>4 DEF Threaded
  <2>3. QED
    BY <1>6, <2>1, <2>2
<1>11. batch' \in Seq(Rec) /\ (pc' # "idle" => batch' # <<>>) /\ pc' \in {"idle", "sync"}
  <2>1. (pc' = "idle" /\ batch' = <<>>) \/ (pc' = "sync" /\ batch' = batch)
    BY <1>6
  <2>2. <<>> \in Seq(Rec)
    OBVIOUS
  <2>3. QED
    BY <1>3, <2>1, <2>2, Zenon
<1>12. next_seq' \in Nat /\ next_seq <= next_seq'
  BY <1>3
<1>13. acked' = acked /\ opened' = opened /\ submitted' = submitted
  BY <1>2
<1>14. pc' \in {"idle", "create", "header", "switch", "write", "sync", "ack"}
  BY <1>11
<1>15. QED
  BY <1>3, <1>7, <1>9, <1>10, <1>11, <1>12, <1>13, <1>14, GoneOnGood

LEMMA SyncGood ==
  ASSUME Good, Sync, harmed' = {}
  PROVE  Good'
<1>1. Typed /\ Untorn /\ Ends /\ Ordered /\ Marked /\ Threaded /\ mode = "up" /\ pc = "sync"
  BY DEF Good, Sync
<1>2. UNCHANGED <<archive, cur, current, mode, acked, opened, submitted>>
  BY DEF Sync, archived
<1>3. /\ pc' = "ack" /\ files' = [files EXCEPT ![cur].safe = Len(files[cur].body)]
      /\ next_seq' = next_seq + Len(batch) /\ synced' = next_seq + Len(batch) - 1
      /\ batch' = batch
  BY DEF Sync
<1>4. /\ cur \in DOMAIN files /\ cur \in Nat /\ cur + 1 # cur
      /\ files[cur].first + Len(files[cur].body) = next_seq + Len(batch)
      /\ Len(batch) <= Len(files[cur].body)
      /\ \A i \in DOMAIN batch :
           files[cur].body[Len(files[cur].body) - Len(batch) + i].rec = batch[i]
  BY <1>1 DEF Ends, Threaded, Typed
<1>5. /\ next_seq \in Nat /\ Len(batch) \in Nat /\ Len(batch) # 0 /\ batch \in Seq(Rec) /\ batch # <<>>
  <2>1. next_seq \in Nat /\ batch \in Seq(Rec) /\ batch # <<>>
    BY <1>1 DEF Typed
  <2>2. Len(batch) \in Nat /\ Len(batch) # 0
    BY <2>1, LenProperties, EmptySeq
  <2>3. QED
    BY <2>1, <2>2
<1>6. files[cur].first \in Nat /\ Len(files[cur].body) \in Nat
  BY <1>1, <1>4, TypedFile
<1>g. PICK g : g = [files[cur] EXCEPT !.safe = Len(files[cur].body)]
  OBVIOUS
<1>7. /\ DOMAIN files' = DOMAIN files /\ files'[cur] = g
      /\ \A n \in DOMAIN files : n # cur => files'[n] = files[n]
  BY <1>3, <1>4, <1>g
<1>8. /\ FileShape(g) /\ Extended(files[cur], g)
      /\ g.head = files[cur].head /\ g.first = files[cur].first /\ g.body = files[cur].body
      /\ g.safe = Len(files[cur].body)
  BY <1>1, <1>g, SyncedFile
<1>9. GoesOn
  <2>1. \A n \in DOMAIN files' : FileShape(files'[n])
    BY <1>1, <1>7, <1>8 DEF Typed
  <2>2. \A n \in DOMAIN files : Extended(files[n], files'[n]) /\ files'[n].body = files[n].body
    BY <1>1, <1>7, <1>8, SelfExtended
  <2>3. \A n \in DOMAIN files' : \A i \in DOMAIN files'[n].body : Complete(files'[n].body[i])
    BY <1>1, <1>7, <2>2 DEF Untorn
  <2>4. cur + 1 \in DOMAIN files' /\ (cur + 1 \notin DOMAIN files \/ ~files[cur + 1].head) =>
          /\ files'[cur + 1].body = <<>> /\ ~files'[cur + 1].head
    <3>1. ASSUME cur + 1 \in DOMAIN files, ~files[cur + 1].head
          PROVE  files[cur + 1].body = <<>>
      BY <1>1, <3>1 DEF Typed, FileShape
    <3>2. QED
      BY <1>4, <1>7, <3>1
  <2>5. QED
    BY <1>1, <1>2, <1>4, <1>7, <2>1, <2>2, <2>3, <2>4 DEF GoesOn
<1>10. Threaded'
  <2>1. files'[cur].first = files[cur].first /\ files'[cur].body = files[cur].body
        /\ files'[cur].safe = Len(files'[cur].body)
    BY <1>7, <1>8
  <2>2. files'[cur'].first + Len(files'[cur'].body) = next_seq' + 0
    BY <1>2, <1>3, <1>4, <1>5, <2>1
  <2>3. /\ Len(batch') <= Len(files'[cur'].body)
        /\ \A i \in DOMAIN batch' :
             files'[cur'].body[Len(files'[cur'].body) - Len(batch') + i].rec = batch'[i]
    BY <1>2, <1>3, <1>4, <2>1
  <2>4. QED
    BY <1>2, <1>3, <2>1, <2>2, <2>3 DEF Threaded
<1>11. Marked'
  <2>1. synced' < next_seq'
    <3>1. next_seq \in Nat /\ Len(batch) \in Nat
      BY <1>5
    <3>2. next_seq' = next_seq + Len(batch) /\ synced' = next_seq + Len(batch) - 1
      BY <1>3
    <3>3. next_seq + Len(batch) - 1 < next_seq + Len(batch)
      BY <3>1
    <3>4. QED
      BY <3>2, <3>3, Zenon
  <2>2. ASSUME NEW n \in DOMAIN files, NEW i \in DOMAIN files[n].body,
               files[n].first + i - 1 < next_seq'
        PROVE  /\ files[n].first + i - 1 <= synced'
               /\ files[n].first + i - 1 >= opened => i <= files'[n].safe
    <3>1. NumberAt(n, i) \in Nat /\ n \in Nat /\ files[n].head
      BY <1>1, TypedFile
    <3>2. NumberAt(n, i) <= synced'
      BY <1>3, <1>5, <2>2, <3>1 DEF NumberAt
    <3>3. CASE n = cur
      <4>1. i \in 1..Len(files[cur].body)
        BY <1>1, <3>3, TypedFile
      <4>2. QED
        BY <1>6, <1>7, <1>8, <3>2, <3>3, <4>1 DEF NumberAt
    <3>4. CASE n # cur
      <4>1. ~(n > cur)
        <5>1. n > cur => files[n].body = <<>>
          BY <1>1 DEF Ends
        <5>2. QED
          BY <5>1, EmptyShape
      <4>2. n < cur /\ n \in 1..(cur + 1) /\ cur \in 1..(cur + 1)
        BY <1>1, <1>4, <3>1, <3>4, <4>1 DEF Ends
      <4>3. files[n] \in Copies(n) /\ files[cur] \in Copies(cur)
        BY <1>1, <1>4, <3>1 DEF Copies, Ends
      <4>4. files[n].first + Len(files[n].body) <= files[cur].first
        BY <1>1, <4>2, <4>3 DEF Ordered
      <4>5. /\ files[n].first \in Nat /\ Len(files[n].body) \in Nat /\ i \in 1..Len(files[n].body)
        BY <1>1, TypedFile
      <4>6. files[cur].first <= next_seq
        BY <1>4, <1>5, <1>6
      <4>7. files[n].first + i - 1 < next_seq
        <5>1. files[n].first + i - 1 < files[n].first + Len(files[n].body)
          BY <4>5
        <5>2. files[n].first + i - 1 \in Int /\ files[n].first + Len(files[n].body) \in Nat
          BY <4>5
        <5>3. QED
          BY <1>5, <1>6, <4>4, <4>6, <5>1, <5>2
      <4>8. files[n].first + i - 1 >= opened => i <= files[n].safe
        BY <1>1, <4>7 DEF Marked
      <4>9. QED
        BY <1>7, <3>2, <3>4, <4>8 DEF NumberAt
    <3>5. QED
      BY <3>3, <3>4
  <2>3. \A n \in DOMAIN files : files'[n].first = files[n].first /\ files'[n].body = files[n].body
    BY <1>7, <1>8
  <2>4. QED
    BY <1>2, <1>7, <2>1, <2>2, <2>3 DEF Marked
<1>12. next_seq' \in Nat /\ next_seq <= next_seq' /\ synced' \in Nat
  BY <1>3, <1>5
<1>13. batch' \in Seq(Rec) /\ batch' # <<>>
       /\ pc' \in {"idle", "create", "header", "switch", "write", "sync", "ack"}
  BY <1>3, <1>5
<1>14. QED
  BY <1>2, <1>9, <1>10, <1>11, <1>12, <1>13, GoneOnGood

LEMMA ArchiveGood ==
  ASSUME Good, NEW n \in Seg, ArchiveSegment(n)
  PROVE  Good'
<1>1. Typed /\ Untorn /\ Agree /\ Ends /\ Ordered /\ Located /\ Marked /\ Threaded
      /\ mode = "up" /\ n \in DOMAIN files /\ files[n].head
  BY DEF Good, ArchiveSegment
<1>2. UNCHANGED <<files, current, mode, pc, batch, cur, next_seq, synced, opened, submitted, acked>>
  BY DEF ArchiveSegment, disk, thread
<1>3. archive' = With(archive, n, [first |-> files[n].first, body |-> files[n].body])
  BY DEF ArchiveSegment
<1>4. /\ DOMAIN archive' = DOMAIN archive \cup {n}
      /\ archive'[n] = [first |-> files[n].first, body |-> files[n].body]
      /\ \A m \in DOMAIN archive : m # n => archive'[m] = archive[m]
  BY <1>3 DEF With
<1>5. archive'[n].first = files[n].first /\ archive'[n].body = files[n].body
  BY <1>4
<1>6. Typed'
  <2>1. CopyShape(archive'[n])
    BY <1>1, <1>4, <1>5, TypedFile DEF CopyShape
  <2>2. \A m \in DOMAIN archive' : CopyShape(archive'[m])
    BY <1>1, <1>4, <2>1 DEF Typed
  <2>3. DOMAIN archive' \subseteq Nat
    BY <1>1, <1>4 DEF Typed
  <2>4. QED
    BY <1>1, <1>2, <2>2, <2>3 DEF Typed
<1>7. Untorn'
  <2>1. \A i \in DOMAIN files[n].body : Complete(files[n].body[i])
    BY <1>1 DEF Untorn
  <2>2. \A m \in DOMAIN archive' : \A i \in DOMAIN archive'[m].body : Complete(archive'[m].body[i])
    BY <1>1, <1>4, <1>5, <2>1 DEF Untorn
  <2>3. QED
    BY <1>1, <1>2, <2>2 DEF Untorn, Complete
<1>8. Agree'
  <2>1. DOMAIN archive' \subseteq DOMAIN files'
    BY <1>1, <1>2, <1>4 DEF Agree
  <2>2. ASSUME NEW m \in DOMAIN files, m \in DOMAIN archive'
        PROVE  /\ files[m].head /\ archive'[m].first = files[m].first
               /\ \A i \in DOMAIN files[m].body : i \in DOMAIN archive'[m].body =>
                    files[m].body[i].rec = archive'[m].body[i].rec
               /\ Len(archive'[m].body) <= Len(files[m].body)
    <3>1. CASE m = n
      <4>1. Len(files[n].body) \in Nat
        BY <1>1, TypedFile
      <4>2. QED
        BY <1>1, <1>5, <3>1, <4>1
    <3>2. CASE m # n
      <4>1. m \in DOMAIN archive /\ archive'[m] = archive[m]
        BY <1>4, <2>2, <3>2
      <4>2. QED
        BY <1>1, <4>1 DEF Agree
    <3>3. QED
      BY <3>1, <3>2
  <2>3. QED
    BY <1>2, <2>1, <2>2 DEF Agree
<1>9. Ends'
  <2>1. DOMAIN files \cup DOMAIN archive' \subseteq 1..(cur + 1)
    BY <1>1, <1>4 DEF Ends
  <2>2. \A m \in DOMAIN archive' : m > cur => archive'[m].body = <<>>
    BY <1>1, <1>4, <1>5 DEF Ends
  <2>3. QED
    BY <1>1, <1>2, <2>1, <2>2 DEF Ends
<1>10. Ordered'
  <2>1. ASSUME NEW m, NEW x \in Copies(m)'
        PROVE  \E z \in Copies(m) : z.first = x.first /\ z.body = x.body
    <3>1. CASE m = n /\ x = archive'[n]
      <4>1. files[n] \in Copies(m)
        BY <1>1, <3>1 DEF Copies
      <4>2. QED
        BY <1>5, <3>1, <4>1
    <3>2. CASE ~(m = n /\ x = archive'[n])
      BY <1>2, <1>4, <3>2 DEF Copies
    <3>3. QED
      BY <3>1, <3>2
  <2> SUFFICES ASSUME NEW k \in 1..(cur + 1), NEW m \in 1..(cur + 1), k < m,
                      NEW x \in Copies(k)', NEW y \in Copies(m)'
               PROVE  x.first + Len(x.body) <= y.first
    BY <1>2 DEF Ordered
  <2>2. PICK z \in Copies(k) : z.first = x.first /\ z.body = x.body
    BY <2>1
  <2>3. PICK w \in Copies(m) : w.first = y.first /\ w.body = y.body
    BY <2>1
  <2>4. z.first + Len(z.body) <= w.first
    BY <1>1 DEF Ordered
  <2>5. QED
    BY <2>2, <2>3, <2>4
<1>11. Threaded' /\ Marked'
  <2>1. Threaded'
    BY <1>1, <1>2 DEF Threaded
  <2>2. Marked'
    BY <1>1, <1>2 DEF Marked
  <2>3. QED
    BY <2>1, <2>2
<1>12. Located'
  <2>1. ASSUME NEW a \in acked PROVE InFile(a)' \/ InArchive(a)'
    <3>1. CASE InFile(a)
      BY <1>2, <3>1 DEF InFile
    <3>2. CASE InArchive(a)
      <4>1. PICK m \in DOMAIN archive : \E i \in DOMAIN archive[m].body :
              archive[m].body[i].rec = a.rec /\ archive[m].first + i - 1 = a.seq
        BY <3>2 DEF InArchive
      <4>2. PICK i \in DOMAIN archive[m].body :
              archive[m].body[i].rec = a.rec /\ archive[m].first + i - 1 = a.seq
        BY <4>1
      <4>3. CASE m # n
        <5>1. m \in DOMAIN archive' /\ archive'[m] = archive[m]
          BY <1>4, <4>3
        <5>2. QED
          BY <4>2, <5>1 DEF InArchive
      <4>4. CASE m = n
        <5>1. /\ archive[n].first = files[n].first /\ Len(archive[n].body) <= Len(files[n].body)
              /\ \A j \in DOMAIN files[n].body : j \in DOMAIN archive[n].body =>
                    files[n].body[j].rec = archive[n].body[j].rec
          BY <1>1, <4>4 DEF Agree
        <5>2. DOMAIN archive[n].body = 1..Len(archive[n].body) /\ Len(archive[n].body) \in Nat
          BY <1>1, <4>4, TypedCopy
        <5>3. DOMAIN files[n].body = 1..Len(files[n].body) /\ Len(files[n].body) \in Nat
          BY <1>1, TypedFile
        <5>4. i \in DOMAIN files[n].body
          BY <4>4, <5>1, <5>2, <5>3
        <5>5. i \in DOMAIN archive'[n].body /\ archive'[n].body[i].rec = a.rec
              /\ archive'[n].first + i - 1 = a.seq
          BY <1>5, <4>2, <4>4, <5>1, <5>4
        <5>6. QED
          BY <1>4, <5>5 DEF InArchive
      <4>5. QED
        BY <4>3, <4>4
    <3>3. QED
      BY <1>1, <3>1, <3>2 DEF Located
  <2>2. QED
    BY <1>1, <1>2, <2>1 DEF Located
<1>13. QED
  BY <1>6, <1>7, <1>8, <1>9, <1>10, <1>11, <1>12 DEF Good

-----------------------------------------------------------------------------
(* Stops: what is left of a file is a beginning of it, at least what was    *)
(* synced, and torn at most at its end.                                     *)

CutFrom(f, g) ==
  /\ FileShape(g)
  /\ g.head = f.head /\ g.first = f.first /\ g.safe = f.safe
  /\ Len(g.body) <= Len(f.body) /\ f.safe <= Len(g.body)
  /\ \A i \in DOMAIN g.body : g.body[i].rec = f.body[i].rec
  /\ \A i \in DOMAIN g.body : i < Len(g.body) \/ i <= g.safe => Complete(g.body[i])

LEMMA BeginPieces ==
  ASSUME NEW body, Pieces(body), NEW k \in 0..Len(body)
  PROVE  /\ Pieces(SubSeq(body, 1, k)) /\ Len(SubSeq(body, 1, k)) = k
         /\ DOMAIN SubSeq(body, 1, k) = 1..k
         /\ \A i \in 1..k : SubSeq(body, 1, k)[i] = body[i]
<1> DEFINE P == [rec : Rec, len : Nat \ {0}]
           s == SubSeq(body, 1, k)
<1>1. body \in Seq(P)
  BY DEF Pieces
<1>2. Len(body) \in Nat /\ DOMAIN body = 1..Len(body) /\ k \in Nat /\ k <= Len(body)
  BY PieceFacts
<1>3. \A i \in 1..k : body[i] \in P
  <2> HIDE DEF P
  <2>1. \A i \in 1..Len(body) : body[i] \in P
    BY <1>1, <1>2, ElementOfSeq
  <2>2. QED
    BY <1>2, <2>1
<1>4. s \in Seq(P) /\ Len(s) = (IF 1 <= k THEN k - 1 + 1 ELSE 0)
      /\ \A i \in 1..(k - 1 + 1) : s[i] = body[1 + i - 1]
  <2> HIDE DEF P
  <2>1. 1 \in Int /\ k \in Int
    BY <1>2
  <2>2. QED
    BY <1>3, <2>1, SubSeqProperties
<1>5. Len(s) = k /\ \A i \in 1..k : s[i] = body[i]
  BY <1>2, <1>4
<1>6. DOMAIN s = 1..Len(s)
  <2> HIDE DEF P, s
  <2>1. QED
    BY <1>4, LenProperties
<1>7. \A i \in 1..k : s[i].len <= Size[s[i].rec]
  BY <1>2, <1>5 DEF Pieces
<1> HIDE DEF s
<1>8. Pieces(s)
  BY <1>4, <1>5, <1>6, <1>7 DEF Pieces
<1>9. QED
  BY <1>5, <1>6, <1>8 DEF s

LEMMA TornPieces ==
  ASSUME NEW body, Pieces(body), NEW p \in [rec : Rec, len : Nat \ {0}], p.len <= Size[p.rec]
  PROVE  /\ Pieces(Append(body, p)) /\ Len(Append(body, p)) = Len(body) + 1
         /\ DOMAIN Append(body, p) = 1..(Len(body) + 1)
         /\ \A i \in 1..Len(body) : Append(body, p)[i] = body[i]
         /\ Append(body, p)[Len(body) + 1] = p
<1> DEFINE P == [rec : Rec, len : Nat \ {0}]
           s == Append(body, p)
<1>1. body \in Seq(P) /\ Len(body) \in Nat /\ DOMAIN body = 1..Len(body)
  BY PieceFacts DEF Pieces
<1>2. /\ s \in Seq(P) /\ Len(s) = Len(body) + 1
      /\ \A i \in 1..Len(body) : s[i] = body[i]
      /\ s[Len(body) + 1] = p
  <2>1. p \in P
    OBVIOUS
  <2> HIDE DEF P
  <2>2. QED
    BY <1>1, <2>1, AppendProperties
<1>3. DOMAIN s = 1..Len(s)
  <2> HIDE DEF P, s
  <2>1. QED
    BY <1>2, LenProperties
<1>4. ASSUME NEW i \in DOMAIN s PROVE s[i].len <= Size[s[i].rec]
  <2> HIDE DEF s
  <2>1. CASE i \in 1..Len(body)
    BY <1>1, <1>2, <2>1 DEF Pieces
  <2>2. CASE i \notin 1..Len(body)
    <3>1. i = Len(body) + 1
      BY <1>1, <1>2, <1>3, <2>2
    <3>2. QED
      BY <1>2, <3>1
  <2>3. QED
    BY <2>1, <2>2
<1> HIDE DEF s
<1>5. Pieces(s)
  BY <1>2, <1>4 DEF Pieces
<1>6. QED
  BY <1>2, <1>3, <1>5 DEF s

\* What is kept of a whole file is such a beginning.
LEMMA KeptIsCut ==
  ASSUME NEW f, FileShape(f), \A i \in DOMAIN f.body : Complete(f.body[i]), NEW g \in Kept(f)
  PROVE  CutFrom(f, g)
<1>1. /\ f = [head |-> f.head, first |-> f.first, body |-> f.body, safe |-> f.safe]
      /\ f.head \in BOOLEAN /\ f.first \in Nat /\ Pieces(f.body)
      /\ f.safe \in 0..Len(f.body) /\ (~f.head => f.body = <<>>)
  BY DEF FileShape
<1>2. Len(f.body) \in Nat /\ DOMAIN f.body = 1..Len(f.body) /\ f.safe \in Nat /\ f.safe <= Len(f.body)
  BY <1>1, PieceFacts
<1>3. ASSUME NEW b, g = [f EXCEPT !.body = b], Pieces(b), Len(b) <= Len(f.body), f.safe <= Len(b),
             \A i \in DOMAIN b : b[i].rec = f.body[i].rec,
             \A i \in DOMAIN b : i < Len(b) \/ i <= f.safe => Complete(b[i]),
             ~f.head => b = <<>>
      PROVE  CutFrom(f, g)
  <2>1. /\ g = [head |-> g.head, first |-> g.first, body |-> g.body, safe |-> g.safe]
        /\ g.head = f.head /\ g.first = f.first /\ g.body = b /\ g.safe = f.safe
    BY <1>1, <1>3, GrownRecord
  <2>2. Len(b) \in Nat
    BY <1>3, PieceFacts
  <2>3. g.safe \in 0..Len(g.body)
    BY <1>2, <1>3, <2>1, <2>2
  <2>4. FileShape(g)
    BY <1>1, <1>3, <2>1, <2>3 DEF FileShape
  <2>5. QED
    BY <1>3, <2>1, <2>4 DEF CutFrom
<1>4. CASE \E k \in f.safe..Len(f.body) : g = [f EXCEPT !.body = SubSeq(f.body, 1, k)]
  <2>1. PICK k \in f.safe..Len(f.body) : g = [f EXCEPT !.body = SubSeq(f.body, 1, k)]
    BY <1>4
  <2>2. k \in 0..Len(f.body) /\ k \in Nat
    BY <1>2
  <2>b. PICK b : b = SubSeq(f.body, 1, k)
    OBVIOUS
  <2>3. Pieces(b) /\ Len(b) = k /\ DOMAIN b = 1..k /\ \A i \in 1..k : b[i] = f.body[i]
    BY <1>1, <2>b, <2>2, BeginPieces
  <2>4. \A i \in DOMAIN b : b[i].rec = f.body[i].rec /\ Complete(b[i])
    BY <1>2, <2>2, <2>3
  <2>5. ~f.head => b = <<>>
    <3>1. ~f.head => k = 0
      BY <1>1, <2>2, EmptyShape
    <3>2. k = 0 => b = <<>>
      BY <2>b, SubSeqEmpty
    <3>3. QED
      BY <3>1, <3>2
  <2>6. Len(b) <= Len(f.body) /\ f.safe <= Len(b)
    BY <1>2, <2>2, <2>3
  <2>7. QED
    BY <1>3, <2>1, <2>b, <2>3, <2>4, <2>5, <2>6
<1>5. CASE \E k \in {j \in (f.safe + 1)..Len(f.body) : f.body[j].len > 1} :
             g = [f EXCEPT !.body = Append(SubSeq(f.body, 1, k - 1), [f.body[k] EXCEPT !.len = @ - 1])]
  <2>1. PICK k \in {j \in (f.safe + 1)..Len(f.body) : f.body[j].len > 1} :
             g = [f EXCEPT !.body = Append(SubSeq(f.body, 1, k - 1), [f.body[k] EXCEPT !.len = @ - 1])]
    BY <1>5
  <2>2. /\ k \in 1..Len(f.body) /\ k - 1 \in 0..Len(f.body) /\ k - 1 \in Nat /\ k \in Nat
        /\ k <= Len(f.body) /\ f.safe <= k - 1 /\ f.body[k].len > 1
    BY <1>2
  <2>a. PICK a : a = SubSeq(f.body, 1, k - 1)
    OBVIOUS
  <2>3. Pieces(a) /\ Len(a) = k - 1 /\ \A i \in 1..(k - 1) : a[i] = f.body[i]
    BY <1>1, <2>a, <2>2, BeginPieces
  <2>p. PICK p : p = [f.body[k] EXCEPT !.len = @ - 1]
    OBVIOUS
  <2>4. p \in [rec : Rec, len : Nat \ {0}] /\ p.len <= Size[p.rec] /\ p.rec = f.body[k].rec
    <3>1. f.body[k] \in [rec : Rec, len : Nat \ {0}] /\ f.body[k].len <= Size[f.body[k].rec]
      <4>1. f.body \in Seq([rec : Rec, len : Nat \ {0}])
        BY <1>1 DEF Pieces
      <4>2. f.body[k] \in [rec : Rec, len : Nat \ {0}]
        BY <2>2, <4>1, ElementOfSeq
      <4>3. f.body[k].len <= Size[f.body[k].rec]
        BY <1>1, <1>2, <2>2 DEF Pieces
      <4>4. QED
        BY <4>2, <4>3
    <3>2. Size[f.body[k].rec] \in Nat /\ f.body[k].len \in Nat /\ f.body[k].rec \in Rec
      BY <1>1, <2>2, PieceFacts
    <3>3. p.rec = f.body[k].rec /\ p.len = f.body[k].len - 1
          /\ p = [rec |-> f.body[k].rec, len |-> f.body[k].len - 1]
      BY <2>p, <3>1
    <3>4. f.body[k].len - 1 \in Nat \ {0} /\ f.body[k].len - 1 <= Size[f.body[k].rec]
      BY <2>2, <3>1, <3>2
    <3>5. QED
      BY <3>2, <3>3, <3>4
  <2>b. PICK b : b = Append(a, p)
    OBVIOUS
  <2>5. /\ Pieces(b) /\ Len(b) = (k - 1) + 1 /\ DOMAIN b = 1..((k - 1) + 1)
        /\ \A i \in 1..(k - 1) : b[i] = a[i]
        /\ b[(k - 1) + 1] = p
    BY <2>b, <2>3, <2>4, TornPieces
  <2>6. (k - 1) + 1 = k
    BY <2>2
  <2>7. \A i \in DOMAIN b : b[i].rec = f.body[i].rec
    <3>1. ASSUME NEW i \in 1..k PROVE b[i].rec = f.body[i].rec
      <4>1. CASE i = k
        BY <2>4, <2>5, <2>6, <4>1
      <4>2. CASE i # k
        <5>1. i \in 1..(k - 1)
          BY <2>2, <4>2
        <5>2. QED
          BY <2>3, <2>5, <5>1
      <4>3. QED
        BY <4>1, <4>2
    <3>2. QED
      BY <2>5, <2>6, <3>1
  <2>8. \A i \in DOMAIN b : i < Len(b) \/ i <= f.safe => Complete(b[i])
    <3>1. ASSUME NEW i \in 1..k, i < k \/ i <= f.safe PROVE Complete(b[i])
      <4>1. i \in 1..(k - 1) /\ i \in DOMAIN f.body
        BY <1>2, <2>2, <3>1
      <4>2. QED
        BY <2>3, <2>5, <4>1
    <3>2. QED
      BY <2>5, <2>6, <3>1
  <2>9. f.head
    BY <1>1, <2>2, EmptyShape
  <2>10. Len(b) <= Len(f.body) /\ f.safe <= Len(b)
    BY <1>2, <2>2, <2>5, <2>6
  <2>11. QED
    BY <1>3, <2>1, <2>a, <2>p, <2>b, <2>5, <2>7, <2>8, <2>9, <2>10
<1>6. QED
  BY <1>4, <1>5 DEF Kept

LEMMA WholeIsCut ==
  ASSUME NEW f, FileShape(f), \A i \in DOMAIN f.body : Complete(f.body[i])
  PROVE  CutFrom(f, f)
<1>1. Len(f.body) \in Nat /\ f.safe \in 0..Len(f.body)
  BY PieceFacts DEF FileShape
<1>2. QED
  BY <1>1 DEF CutFrom

LEMMA NotLonger ==
  ASSUME NEW a \in Nat, NEW b \in Nat, NEW l \in Nat, NEW m \in Nat, l <= m, a + m <= b
  PROVE  a + l <= b
OBVIOUS

\* A stop that loses at most files that are not yet named.
LEMMA CutGood ==
  ASSUME Good, mode = "up", mode' = "down", pc' = "idle", batch' = <<>>,
         UNCHANGED <<archive, cur, current, next_seq, synced, opened, submitted, acked>>,
         DOMAIN files' \subseteq DOMAIN files,
         \A n \in DOMAIN files : n \notin DOMAIN files' => n > cur /\ n > current,
         \A n \in DOMAIN files' : CutFrom(files[n], files'[n])
  PROVE  Good'
<1>1. Typed /\ Untorn /\ Agree /\ Ends /\ Ordered /\ Located /\ cur \in Nat /\ current \in Nat
  BY DEF Good, Typed
<1>2. Typed'
  <2>1. \A n \in DOMAIN files' : FileShape(files'[n])
    BY DEF CutFrom
  <2>2. <<>> \in Seq(Rec)
    OBVIOUS
  <2>3. QED
    BY <1>1, <2>1, <2>2 DEF Typed
<1>3. Untorn'
  BY <1>1 DEF Untorn, CutFrom, Complete
<1>4. Agree'
  <2>1. ASSUME NEW n \in DOMAIN files', n \in DOMAIN archive
        PROVE  /\ files'[n].head /\ archive[n].first = files'[n].first
               /\ \A i \in DOMAIN files'[n].body : i \in DOMAIN archive[n].body =>
                    files'[n].body[i].rec = archive[n].body[i].rec
    <3>1. /\ files[n].head /\ archive[n].first = files[n].first
          /\ \A i \in DOMAIN files[n].body : i \in DOMAIN archive[n].body =>
               files[n].body[i].rec = archive[n].body[i].rec
      BY <1>1, <2>1 DEF Agree
    <3>2. CutFrom(files[n], files'[n]) /\ n \in DOMAIN files
      BY <2>1
    <3>3. DOMAIN files[n].body = 1..Len(files[n].body) /\ Len(files[n].body) \in Nat
      BY <1>1, <3>2, TypedFile
    <3>4. DOMAIN files'[n].body = 1..Len(files'[n].body) /\ Len(files'[n].body) \in Nat
      BY <3>2, PieceFacts DEF CutFrom, FileShape
    <3>5. DOMAIN files'[n].body \subseteq DOMAIN files[n].body
      BY <3>2, <3>3, <3>4 DEF CutFrom
    <3>6. QED
      BY <3>1, <3>2, <3>5 DEF CutFrom
  <2>2. QED
    BY <2>1 DEF Agree
<1>5. Ends'
  <2>1. \A n \in DOMAIN files' : n > cur => files'[n].body = <<>>
    <3>1. ASSUME NEW n \in DOMAIN files', n > cur PROVE files'[n].body = <<>>
      <4>1. files[n].body = <<>> /\ CutFrom(files[n], files'[n])
        BY <1>1, <3>1 DEF Ends
      <4>2. Len(files'[n].body) <= 0 /\ FileShape(files'[n])
        BY <4>1, EmptyShape DEF CutFrom
      <4>3. Len(files'[n].body) \in Nat /\ files'[n].body \in Seq([rec : Rec, len : Nat \ {0}])
        BY <4>2, PieceFacts DEF FileShape, Pieces
      <4>4. Len(files'[n].body) = 0
        BY <4>2, <4>3
      <4>5. QED
        BY <4>3, <4>4, EmptySeq
    <3>2. QED
      BY <3>1
  <2>2. current # 0 => current \in {cur, cur + 1} \cap DOMAIN files'
    <3>1. current \in DOMAIN files => current \in DOMAIN files'
      BY <1>1
    <3>2. QED
      BY <1>1, <3>1 DEF Ends
  <2>3. QED
    BY <1>1, <2>1, <2>2 DEF Ends
<1>6. Ordered'
  <2>1. ASSUME NEW n, NEW x \in Copies(n)'
        PROVE  /\ \E z \in Copies(n) : z.first = x.first /\ Len(x.body) <= Len(z.body)
               /\ Len(x.body) \in Nat
    <3>1. CASE n \in DOMAIN archive /\ x = archive[n]
      <4>1. Len(archive[n].body) \in Nat
        BY <1>1, <3>1, TypedCopy
      <4>2. QED
        BY <3>1, <4>1 DEF Copies
    <3>2. CASE n \in DOMAIN files' /\ files'[n].head /\ x = files'[n]
      <4>1. n \in DOMAIN files /\ CutFrom(files[n], files'[n])
        BY <3>2
      <4>2. files[n] \in Copies(n) /\ files[n].first = x.first /\ Len(x.body) <= Len(files[n].body)
        BY <3>2, <4>1 DEF CutFrom, Copies
      <4>3. Len(x.body) \in Nat
        BY <3>2, <4>1, PieceFacts DEF CutFrom, FileShape
      <4>4. QED
        BY <4>2, <4>3
    <3>3. QED
      BY <3>1, <3>2 DEF Copies
  <2> SUFFICES ASSUME NEW k \in 1..(cur + 1), NEW m \in 1..(cur + 1), k < m,
                      NEW x \in Copies(k)', NEW y \in Copies(m)'
               PROVE  x.first + Len(x.body) <= y.first
    BY DEF Ordered
  <2>2. PICK z \in Copies(k) : z.first = x.first /\ Len(x.body) <= Len(z.body)
    BY <2>1
  <2>3. PICK w \in Copies(m) : w.first = y.first
    BY <2>1
  <2>4. z.first + Len(z.body) <= w.first
    BY <1>1 DEF Ordered
  <2>5. z.first \in Nat /\ Len(z.body) \in Nat /\ w.first \in Nat /\ Len(x.body) \in Nat
    BY <1>1, <2>1, CopyTyped
  <2>6. z.first + Len(x.body) <= w.first
    BY <2>2, <2>4, <2>5, NotLonger
  <2>7. QED
    BY <2>2, <2>3, <2>6
<1>7. Threaded' /\ Marked'
  BY DEF Threaded, Marked
<1>8. Located'
  <2>1. ASSUME NEW a \in acked PROVE InFile(a)' \/ InArchive(a)'
    <3>1. CASE InArchive(a)
      BY <3>1 DEF InArchive
    <3>2. CASE InFile(a)
      <4>1. PICK n \in DOMAIN files : \E i \in 1..files[n].safe :
              files[n].body[i].rec = a.rec /\ files[n].first + i - 1 = a.seq
        BY <3>2 DEF InFile
      <4>2. PICK i \in 1..files[n].safe :
              files[n].body[i].rec = a.rec /\ files[n].first + i - 1 = a.seq
        BY <4>1
      <4>3. files[n].safe \in Nat /\ files[n].safe <= Len(files[n].body)
            /\ DOMAIN files[n].body = 1..Len(files[n].body) /\ Len(files[n].body) \in Nat
        BY <1>1, TypedFile
      <4>4. i \in DOMAIN files[n].body
        BY <4>3
      <4>5. n \in DOMAIN files'
        <5>1. ~(n > cur)
          BY <1>1, <4>4, EmptyShape DEF Ends
        <5>2. QED
          BY <5>1
      <4>6. CutFrom(files[n], files'[n])
        BY <4>5
      <4>7. DOMAIN files'[n].body = 1..Len(files'[n].body) /\ Len(files'[n].body) \in Nat
        BY <4>6, PieceFacts DEF CutFrom, FileShape
      <4>8. i \in DOMAIN files'[n].body /\ i \in 1..files'[n].safe
        BY <4>3, <4>6, <4>7 DEF CutFrom
      <4>9. files'[n].body[i].rec = a.rec /\ files'[n].first + i - 1 = a.seq
        BY <4>2, <4>6, <4>8 DEF CutFrom
      <4>10. QED
        BY <4>5, <4>8, <4>9 DEF InFile
    <3>3. QED
      BY <1>1, <3>1, <3>2 DEF Located
  <2>2. QED
    BY <2>1 DEF Located
<1>9. QED
  BY <1>2, <1>3, <1>4, <1>5, <1>6, <1>7, <1>8 DEF Good

LEMMA KillGood ==
  ASSUME Good, Kill
  PROVE  Good'
<1>1. /\ mode = "up" /\ mode' = "down" /\ pc' = "idle" /\ batch' = <<>>
      /\ UNCHANGED <<files, archive, cur, current, next_seq, synced, opened, submitted, acked>>
  BY DEF Kill, Stop, disk
<1>2. ASSUME NEW n \in DOMAIN files PROVE CutFrom(files[n], files[n])
  <2>1. FileShape(files[n])
    BY DEF Good, Typed
  <2>2. \A i \in DOMAIN files[n].body : Complete(files[n].body[i])
    BY <1>1 DEF Good, Untorn
  <2>3. QED
    BY <2>1, <2>2, WholeIsCut
<1>3. QED
  BY <1>1, <1>2, CutGood

LEMMA PowerLossGood ==
  ASSUME Good, PowerLoss
  PROVE  Good'
<1>1. /\ mode = "up" /\ mode' = "down" /\ pc' = "idle" /\ batch' = <<>>
      /\ UNCHANGED <<archive, cur, current, next_seq, synced, opened, submitted, acked>>
  BY DEF PowerLoss, Stop
<1>2. PICK lost \in SUBSET (cur + 1..MaxSegments \cap {n \in DOMAIN files : n > current}) :
        files' \in {g \in [DOMAIN files \ lost -> UNION {Kept(files[n]) : n \in DOMAIN files}] :
                      \A n \in DOMAIN g : g[n] \in Kept(files[n])}
  BY DEF PowerLoss
<1>3. DOMAIN files' = DOMAIN files \ lost /\ \A n \in DOMAIN files' : files'[n] \in Kept(files[n])
  <2>1. files' \in [DOMAIN files \ lost -> UNION {Kept(files[n]) : n \in DOMAIN files}]
    BY <1>2
  <2>2. \A n \in DOMAIN files' : files'[n] \in Kept(files[n])
    BY <1>2
  <2>3. QED
    BY <2>1, <2>2
<1>4. \A n \in lost : n > cur /\ n > current
  <2>1. cur \in Nat /\ MaxSegments \in Nat
    BY WalAssumption DEF Good, Typed
  <2>2. \A n \in lost : n \in cur + 1..MaxSegments /\ n > current
    BY <1>2
  <2>3. QED
    BY <2>1, <2>2
<1>5. ASSUME NEW n \in DOMAIN files' PROVE CutFrom(files[n], files'[n])
  <2>1. FileShape(files[n]) /\ files'[n] \in Kept(files[n])
    BY <1>3 DEF Good, Typed
  <2>2. \A i \in DOMAIN files[n].body : Complete(files[n].body[i])
    BY <1>1, <1>3 DEF Good, Untorn
  <2>3. QED
    BY <2>1, <2>2, KeptIsCut
<1>6. /\ DOMAIN files' \subseteq DOMAIN files
      /\ \A n \in DOMAIN files : n \notin DOMAIN files' => n > cur /\ n > current
  BY <1>3, <1>4
<1>7. QED
  BY <1>1, <1>5, <1>6, CutGood

LEMMA DiskLossGood ==
  ASSUME Good, DiskLoss
  PROVE  Good'
<1>1. /\ mode' = "down" /\ pc' = "idle" /\ batch' = <<>> /\ DOMAIN files' = {} /\ current' = 0
      /\ UNCHANGED <<archive, cur, next_seq, synced, opened, submitted>>
  BY DEF DiskLoss, Stop
<1>2. acked' = {a \in acked : \E n \in DOMAIN archive : a \in Range(Decode(archive[n]))}
  BY DEF DiskLoss
<1>3. Typed /\ Untorn /\ Agree /\ Ends /\ Ordered
  BY DEF Good
<1>4. Typed'
  <2>1. <<>> \in Seq(Rec)
    OBVIOUS
  <2>2. acked' \subseteq [rec : Rec, seq : Nat]
    BY <1>2, <1>3 DEF Typed
  <2>3. QED
    BY <1>1, <1>3, <2>1, <2>2 DEF Typed
<1>5. Untorn' /\ Agree'
  <2>1. Untorn'
    BY <1>1, <1>3 DEF Untorn, Complete
  <2>2. Agree'
    BY <1>1 DEF Agree
  <2>3. QED
    BY <2>1, <2>2
<1>6. Ends'
  BY <1>1, <1>3 DEF Ends
<1>7. Ordered'
  BY <1>1, <1>3 DEF Ordered, Copies
<1>8. Threaded' /\ Marked'
  BY <1>1 DEF Threaded, Marked
<1>9. Located'
  <2>1. ASSUME NEW a \in acked' PROVE InArchive(a)
    <3>1. PICK n \in DOMAIN archive : a \in Range(Decode(archive[n]))
      BY <1>2
    <3>2. Pieces(archive[n].body) /\ archive[n].first \in Nat
      BY <1>3, TypedCopy
    <3>3. \A i \in DOMAIN archive[n].body : Complete(archive[n].body[i])
      BY <1>3 DEF Untorn
    <3>4. PICK i \in DOMAIN Decode(archive[n]) : a = Decode(archive[n])[i]
      BY <3>1 DEF Range
    <3>5. i \in DOMAIN archive[n].body
          /\ a = [rec |-> archive[n].body[i].rec, seq |-> archive[n].first + i - 1]
      BY <3>2, <3>3, <3>4, DecodeWhole
    <3>6. QED
      BY <3>5 DEF InArchive
  <2>2. \A a \in acked' : InArchive(a)'
    BY <1>1, <2>1 DEF InArchive
  <2>3. QED
    BY <1>1, <2>2 DEF Located
<1>10. QED
  BY <1>4, <1>5, <1>6, <1>7, <1>8, <1>9 DEF Good

-----------------------------------------------------------------------------
(* Starts: torn tails are cut, and of the archived segments those are taken *)
(* back that the disk has less of.                                          *)

LEMMA ReadableOf ==
  ASSUME NEW f, Pieces(f.body)
  PROVE  /\ Readable(f) \in 0..Len(f.body)
         /\ \A i \in 1..Readable(f) : Complete(f.body[i])
         /\ \A k \in 0..Len(f.body) : (\A i \in 1..k : Complete(f.body[i])) => k <= Readable(f)
<1> DEFINE S == {k \in 0..Len(f.body) : \A i \in 1..k : Complete(f.body[i])}
<1>1. Len(f.body) \in Nat
  BY PieceFacts
<1>2. 0 \in S /\ S \subseteq 0..Len(f.body)
  BY <1>1
<1>3. Max(S) \in S /\ \A y \in S : y <= Max(S)
  <2> HIDE DEF S
  <2>1. S # {}
    BY <1>2
  <2>2. QED
    BY <1>1, <1>2, <2>1, MaxBounded
<1>4. Readable(f) = Max(S)
  BY DEF Readable
<1>5. QED
  BY <1>3, <1>4

LEMMA RepairedIs ==
  ASSUME NEW f, FileShape(f), NEW g, g = Repaired(f)
  PROVE  /\ FileShape(g) /\ g.head = f.head /\ g.first = f.first
         /\ Len(g.body) = Readable(f) /\ Len(g.body) <= Len(f.body)
         /\ \A i \in DOMAIN g.body : i \in DOMAIN f.body /\ g.body[i] = f.body[i]
         /\ \A i \in DOMAIN g.body : Complete(g.body[i])
         /\ f.safe <= Readable(f) => f.safe <= g.safe
<1>1. /\ f = [head |-> f.head, first |-> f.first, body |-> f.body, safe |-> f.safe]
      /\ f.head \in BOOLEAN /\ f.first \in Nat /\ Pieces(f.body)
      /\ f.safe \in 0..Len(f.body) /\ (~f.head => f.body = <<>>)
  BY DEF FileShape
<1>2. /\ Len(f.body) \in Nat /\ DOMAIN f.body = 1..Len(f.body)
      /\ f.safe \in Nat /\ f.safe <= Len(f.body)
  BY <1>1, PieceFacts
<1>3. Readable(f) \in 0..Len(f.body) /\ \A i \in 1..Readable(f) : Complete(f.body[i])
  BY <1>1, ReadableOf
<1>4. CASE Readable(f) = Len(f.body)
  <2>1. g = f
    BY <1>4 DEF Repaired
  <2>2. QED
    BY <1>2, <1>3, <1>4, <2>1
<1>5. CASE Readable(f) # Len(f.body)
  <2>b. PICK b : b = SubSeq(f.body, 1, Readable(f))
    OBVIOUS
  <2>1. g = [f EXCEPT !.body = b, !.safe = Readable(f)]
    BY <1>5, <2>b DEF Repaired
  <2>2. /\ g = [head |-> g.head, first |-> g.first, body |-> g.body, safe |-> g.safe]
        /\ g.head = f.head /\ g.first = f.first /\ g.body = b /\ g.safe = Readable(f)
    BY <1>1, <2>1
  <2>3. Pieces(b) /\ Len(b) = Readable(f) /\ DOMAIN b = 1..Readable(f)
        /\ \A i \in 1..Readable(f) : b[i] = f.body[i]
    BY <1>1, <1>3, <2>b, BeginPieces
  <2>4. ~f.head => b = <<>>
    <3>1. ~f.head => Readable(f) = 0
      BY <1>1, <1>3, EmptyShape
    <3>2. Readable(f) = 0 => b = <<>>
      BY <2>b, SubSeqEmpty
    <3>3. QED
      BY <3>1, <3>2
  <2>5. Readable(f) \in Nat /\ Readable(f) <= Len(f.body)
    BY <1>2, <1>3
  <2>6. FileShape(g)
    <3>1. g.safe \in 0..Len(g.body)
      BY <2>2, <2>3, <2>5
    <3>2. QED
      BY <1>1, <2>2, <2>3, <2>4, <3>1 DEF FileShape
  <2>7. \A i \in DOMAIN b : i \in DOMAIN f.body /\ b[i] = f.body[i] /\ Complete(b[i])
    BY <1>2, <1>3, <2>3, <2>5
  <2>8. QED
    BY <1>2, <2>2, <2>3, <2>5, <2>6, <2>7
<1>6. QED
  BY <1>4, <1>5

\* A copy with more bytes has at least what is whole at the beginning.
LEMMA LongerCopy ==
  ASSUME NEW f, NEW c, Pieces(f), Pieces(c), Bytes(c) > Bytes(f),
         \A i \in DOMAIN c : Complete(c[i]),
         \A i \in DOMAIN f : i \in DOMAIN c => f[i].rec = c[i].rec,
         NEW k \in 0..Len(f), \A i \in 1..k : Complete(f[i])
  PROVE  k <= Len(c)
<1>1. Len(f) \in Nat /\ DOMAIN f = 1..Len(f) /\ k \in Nat
  BY PieceFacts
<1>2. Len(c) \in Nat /\ DOMAIN c = 1..Len(c)
  BY PieceFacts
<1> SUFFICES ASSUME ~(k <= Len(c)) PROVE FALSE
  OBVIOUS
<1>3. BytesOf(c) \subseteq BytesOf(f)
  <2> SUFFICES ASSUME NEW p \in BytesOf(c) PROVE p \in BytesOf(f)
    OBVIOUS
  <2>1. PICK i \in DOMAIN c : \E b \in 1..c[i].len : p = <<i, b>>
    BY InBytesForm
  <2>2. PICK b \in 1..c[i].len : p = <<i, b>>
    BY <2>1
  <2>3. i \in 1..k /\ i \in DOMAIN f
    BY <1>1, <1>2
  <2>4. c[i].len = Size[c[i].rec] /\ f[i].len = Size[f[i].rec] /\ f[i].rec = c[i].rec
    BY <2>3 DEF Complete
  <2>5. QED
    BY <2>2, <2>3, <2>4, InBytes
<1>4. IsFiniteSet(BytesOf(f)) /\ IsFiniteSet(BytesOf(c))
  BY BytesFinite
<1>5. /\ Cardinality(BytesOf(c)) <= Cardinality(BytesOf(f))
      /\ Cardinality(BytesOf(c)) \in Nat /\ Cardinality(BytesOf(f)) \in Nat
  BY <1>3, <1>4, FS_Subset, FS_CardinalityType
<1>6. Bytes(c) <= Bytes(f) /\ Bytes(c) \in Nat /\ Bytes(f) \in Nat
  BY <1>5 DEF Bytes, BytesOf
<1>7. QED
  BY <1>6

\* What becomes of a segment: it has all the archive has of it, it is no
\* longer than the copy it comes from, and what was synced is in one or the other.
Taken(g, n) ==
  /\ FileShape(g) /\ g.head
  /\ \A i \in DOMAIN g.body : Complete(g.body[i])
  /\ \E z \in Copies(n) : z.first = g.first /\ Len(g.body) <= Len(z.body)
  /\ n \in DOMAIN archive =>
       /\ archive[n].first = g.first /\ Len(archive[n].body) <= Len(g.body)
       /\ \A i \in DOMAIN archive[n].body : g.body[i].rec = archive[n].body[i].rec
  /\ n \in DOMAIN files => \A i \in 1..files[n].safe :
       /\ files[n].first = g.first
       /\ \/ i <= g.safe /\ g.body[i].rec = files[n].body[i].rec
          \/ n \in DOMAIN archive /\ i \in DOMAIN archive[n].body
               /\ archive[n].body[i].rec = files[n].body[i].rec

CopyOf(n) == [head |-> TRUE, first |-> archive[n].first, body |-> archive[n].body, safe |-> 0]

LEMMA ArchiveTaken ==
  ASSUME Good, NEW n \in Replaced, NEW g, g = Repaired(CopyOf(n))
  PROVE  Taken(g, n)
<1>1. Typed /\ Untorn /\ Agree
  BY DEF Good
<1>2. n \in DOMAIN archive
        /\ (n \in DOMAIN files /\ files[n].head => Bytes(archive[n].body) > Bytes(files[n].body))
  BY DEF Replaced
<1>3. /\ archive[n].first \in Nat /\ Pieces(archive[n].body) /\ Len(archive[n].body) \in Nat
      /\ DOMAIN archive[n].body = 1..Len(archive[n].body)
      /\ \A i \in DOMAIN archive[n].body : Complete(archive[n].body[i])
  BY <1>1, <1>2, TypedCopy DEF Untorn
<1>c. PICK f : f = CopyOf(n)
  OBVIOUS
<1>4. /\ f.head /\ f.first = archive[n].first /\ f.body = archive[n].body /\ f.safe = 0
      /\ f = [head |-> f.head, first |-> f.first, body |-> f.body, safe |-> f.safe]
  BY <1>c DEF CopyOf
<1>5. FileShape(f)
  BY <1>3, <1>4 DEF FileShape
<1>6. Readable(f) = Len(f.body)
  <2>1. Len(f.body) \in 0..Len(f.body) /\ \A i \in 1..Len(f.body) : Complete(f.body[i])
    BY <1>3, <1>4
  <2>2. QED
    BY <1>3, <1>4, <2>1, ReadableIs
<1>7. g = f
  BY <1>c, <1>6 DEF Repaired
<1>8. archive[n] \in Copies(n)
  BY <1>2 DEF Copies
<1>9. ASSUME n \in DOMAIN files, NEW i \in 1..files[n].safe
      PROVE  /\ files[n].first = g.first /\ i \in DOMAIN archive[n].body
             /\ archive[n].body[i].rec = files[n].body[i].rec
  <2>1. /\ Pieces(files[n].body) /\ Len(files[n].body) \in Nat
        /\ DOMAIN files[n].body = 1..Len(files[n].body)
        /\ files[n].safe \in 0..Len(files[n].body)
    BY <1>1, <1>9, TypedFile
  <2>2. i \in DOMAIN files[n].body /\ i \in Nat /\ files[n].safe \in Nat /\ i <= files[n].safe
    BY <2>1
  <2>3. files[n].head
    BY <1>1, <1>9, <2>2, TypedFile
  <2>4. /\ archive[n].first = files[n].first
        /\ \A j \in DOMAIN files[n].body : j \in DOMAIN archive[n].body =>
             files[n].body[j].rec = archive[n].body[j].rec
    BY <1>1, <1>2, <1>9 DEF Agree
  <2>5. \A j \in 1..files[n].safe : Complete(files[n].body[j])
    BY <1>1, <1>9, <2>1 DEF Untorn
  <2>6. files[n].safe <= Len(archive[n].body)
    BY <1>2, <1>3, <1>9, <2>1, <2>3, <2>4, <2>5, LongerCopy
  <2>7. i \in DOMAIN archive[n].body
    BY <1>3, <2>2, <2>6
  <2>8. QED
    BY <1>4, <1>7, <2>2, <2>4, <2>7
<1>10. QED
  BY <1>2, <1>3, <1>4, <1>5, <1>7, <1>8, <1>9 DEF Taken

LEMMA FileTaken ==
  ASSUME Good, NEW n \in DOMAIN files, n \notin Replaced, files[n].head,
         NEW g, g = Repaired(files[n])
  PROVE  Taken(g, n)
<1>1. Typed /\ Untorn /\ Agree
  BY DEF Good
<1>2. /\ FileShape(files[n]) /\ Pieces(files[n].body) /\ Len(files[n].body) \in Nat
      /\ DOMAIN files[n].body = 1..Len(files[n].body)
      /\ files[n].safe \in 0..Len(files[n].body)
  BY <1>1, TypedFile DEF Typed
<1>3. /\ FileShape(g) /\ g.head /\ g.first = files[n].first
      /\ Len(g.body) = Readable(files[n]) /\ Len(g.body) <= Len(files[n].body)
      /\ \A i \in DOMAIN g.body : i \in DOMAIN files[n].body /\ g.body[i] = files[n].body[i]
      /\ \A i \in DOMAIN g.body : Complete(g.body[i])
      /\ files[n].safe <= Readable(files[n]) => files[n].safe <= g.safe
  BY <1>2, RepairedIs
<1>4. Len(g.body) \in Nat /\ DOMAIN g.body = 1..Len(g.body)
      /\ g.safe \in 0..Len(g.body)
  BY <1>3, PieceFacts DEF FileShape
<1>5. \A k \in 0..Len(files[n].body) :
        (\A i \in 1..k : Complete(files[n].body[i])) => k <= Len(g.body)
  BY <1>2, <1>3, ReadableOf
<1>6. files[n] \in Copies(n)
  BY DEF Copies
<1>7. files[n].safe <= g.safe
  <2>1. \A i \in 1..files[n].safe : Complete(files[n].body[i])
    BY <1>1, <1>2 DEF Untorn
  <2>2. files[n].safe <= Len(g.body)
    BY <1>2, <1>5, <2>1
  <2>3. QED
    BY <1>3, <2>2
<1>8. ASSUME NEW i \in 1..files[n].safe
      PROVE  i <= g.safe /\ g.body[i].rec = files[n].body[i].rec
  <2>1. i \in Nat /\ files[n].safe \in Nat /\ i <= files[n].safe /\ i >= 1
    BY <1>2
  <2>2. g.safe \in Nat /\ g.safe <= Len(g.body)
    BY <1>4
  <2>3. i <= g.safe /\ i \in DOMAIN g.body
    BY <1>4, <1>7, <2>1, <2>2
  <2>4. QED
    BY <1>3, <2>3
<1>9. ASSUME n \in DOMAIN archive
      PROVE  /\ archive[n].first = g.first /\ Len(archive[n].body) <= Len(g.body)
             /\ \A i \in DOMAIN archive[n].body : g.body[i].rec = archive[n].body[i].rec
  <2>1. /\ Pieces(archive[n].body) /\ Len(archive[n].body) \in Nat
        /\ DOMAIN archive[n].body = 1..Len(archive[n].body)
        /\ \A i \in DOMAIN archive[n].body : Complete(archive[n].body[i])
    BY <1>1, <1>9, TypedCopy DEF Untorn
  <2>2. /\ archive[n].first = files[n].first
        /\ \A j \in DOMAIN files[n].body : j \in DOMAIN archive[n].body =>
             files[n].body[j].rec = archive[n].body[j].rec
    BY <1>1, <1>9 DEF Agree
  <2>3. ~(Bytes(archive[n].body) > Bytes(files[n].body))
    BY <1>9 DEF Replaced
  <2>4. /\ Len(archive[n].body) <= Len(files[n].body)
        /\ Len(archive[n].body) = Len(files[n].body) =>
             \A i \in DOMAIN files[n].body : Complete(files[n].body[i])
    BY <1>2, <2>1, <2>2, <2>3, NotShorter
  <2>5. Len(archive[n].body) <= Len(g.body)
    <3>1. ASSUME NEW i \in 1..Len(archive[n].body) PROVE Complete(files[n].body[i])
      <4>1. i \in DOMAIN files[n].body
        BY <1>2, <2>1, <2>4
      <4>2. CASE Len(archive[n].body) = Len(files[n].body)
        BY <2>4, <4>1, <4>2
      <4>3. CASE Len(archive[n].body) # Len(files[n].body)
        <5>1. i < Len(files[n].body)
          BY <1>2, <2>1, <2>4, <4>3
        <5>2. QED
          BY <1>1, <4>1, <5>1 DEF Untorn
      <4>4. QED
        BY <4>2, <4>3
    <3>2. Len(archive[n].body) \in 0..Len(files[n].body)
      BY <1>2, <2>1, <2>4
    <3>3. QED
      BY <1>5, <3>1, <3>2
  <2>6. ASSUME NEW i \in DOMAIN archive[n].body PROVE g.body[i].rec = archive[n].body[i].rec
    <3>1. i \in DOMAIN g.body
      BY <1>4, <2>1, <2>5
    <3>2. g.body[i] = files[n].body[i] /\ i \in DOMAIN files[n].body
      BY <1>3, <3>1
    <3>3. QED
      BY <2>2, <3>2
  <2>7. QED
    BY <1>3, <2>2, <2>5, <2>6
<1>10. QED
  BY <1>3, <1>6, <1>8, <1>9 DEF Taken

\* The files a start finds or takes back, repaired.
Ready(fs) ==
  /\ DOMAIN fs = DOMAIN files \cup DOMAIN archive /\ DOMAIN fs # {}
  /\ \A n \in DOMAIN fs : Taken(fs[n], n)

LEMMA ReadyFile ==
  ASSUME NEW fs, Ready(fs), NEW n \in DOMAIN fs
  PROVE  /\ FileShape(fs[n]) /\ fs[n].first \in Nat /\ Pieces(fs[n].body)
         /\ Len(fs[n].body) \in Nat /\ DOMAIN fs[n].body = 1..Len(fs[n].body)
         /\ fs[n].safe \in 0..Len(fs[n].body)
<1>1. FileShape(fs[n])
  BY DEF Ready, Taken
<1>2. QED
  BY <1>1, PieceFacts DEF FileShape

LEMMA ReadyOrdered ==
  ASSUME Good, NEW fs, Ready(fs), NEW n \in DOMAIN fs, NEW m \in DOMAIN fs, n < m
  PROVE  fs[n].first + Len(fs[n].body) <= fs[m].first
<1>1. PICK z \in Copies(n) : z.first = fs[n].first /\ Len(fs[n].body) <= Len(z.body)
  BY DEF Ready, Taken
<1>2. PICK w \in Copies(m) : w.first = fs[m].first
  BY DEF Ready, Taken
<1>3. n \in 1..(cur + 1) /\ m \in 1..(cur + 1)
  BY DEF Ready, Good, Ends
<1>4. z.first + Len(z.body) <= w.first
  BY <1>3 DEF Good, Ordered
<1>5. z.first \in Nat /\ Len(z.body) \in Nat /\ w.first \in Nat
  BY CopyTyped DEF Good
<1>6. Len(fs[n].body) \in Nat
  BY ReadyFile
<1>7. z.first + Len(fs[n].body) <= w.first
  BY <1>1, <1>4, <1>5, <1>6, NotLonger
<1>8. QED
  BY <1>1, <1>2, <1>7

LEMMA EmptyBody ==
  ASSUME NEW body, Pieces(body), Len(body) <= 0
  PROVE  body = <<>>
<1>1. body \in Seq([rec : Rec, len : Nat \ {0}]) /\ Len(body) \in Nat
  BY PieceFacts DEF Pieces
<1>2. Len(body) = 0
  BY <1>1
<1>3. QED
  BY <1>1, <1>2, EmptySeq

\* The segment that becomes active is the last that has a record, or later.
LEMMA ActiveIs ==
  ASSUME Good, NEW fs, Ready(fs), NEW a, a = Active(fs)
  PROVE  /\ a \in DOMAIN fs /\ a \in Nat /\ DOMAIN fs \subseteq 1..(a + 1)
         /\ \A n \in DOMAIN fs : n > a => fs[n].body = <<>>
         /\ current # 0 => current = a
<1>1. /\ DOMAIN files \cup DOMAIN archive \subseteq 1..(cur + 1) /\ cur \in Nat /\ current \in Nat
      /\ current # 0 => current \in {cur, cur + 1} \cap DOMAIN files
      /\ \A n \in DOMAIN files : n > cur => files[n].body = <<>>
      /\ \A n \in DOMAIN archive : n > cur => archive[n].body = <<>>
  BY DEF Good, Ends, Typed
<1>2. DOMAIN fs \subseteq 1..(cur + 1) /\ DOMAIN fs # {}
  BY <1>1 DEF Ready
<1>3. CASE current # 0
  <2>1. a = current /\ a \in DOMAIN fs /\ a \in {cur, cur + 1}
    BY <1>1, <1>3 DEF Active, Ready
  <2>2. a \in Nat /\ cur <= a
    BY <1>1, <2>1
  <2>3. DOMAIN fs \subseteq 1..(a + 1)
    BY <1>1, <1>2, <2>2
  <2>4. ASSUME NEW n \in DOMAIN fs, n > a PROVE fs[n].body = <<>>
    <3>1. n > cur
      BY <1>1, <1>2, <2>2, <2>4
    <3>2. PICK z \in Copies(n) : Len(fs[n].body) <= Len(z.body)
      BY DEF Ready, Taken
    <3>3. z.body = <<>>
      BY <1>1, <3>1 DEF Copies
    <3>4. QED
      BY <3>2, <3>3, EmptyShape, EmptyBody, ReadyFile
  <2>5. QED
    BY <2>1, <2>2, <2>3, <2>4
<1>4. CASE current = 0
  <2>1. 0 \notin DOMAIN fs
    BY <1>2
  <2>2. a = Max(DOMAIN fs)
    BY <1>4, <2>1 DEF Active
  <2>3. DOMAIN fs \subseteq 0..(cur + 1) /\ cur + 1 \in Nat
    BY <1>1, <1>2
  <2>4. a \in DOMAIN fs /\ \A n \in DOMAIN fs : n <= a
    BY <1>2, <2>2, <2>3, MaxBounded
  <2>5. a \in Nat /\ \A n \in DOMAIN fs : n \in Nat /\ n >= 1
    BY <1>2, <2>4
  <2>6. DOMAIN fs \subseteq 1..(a + 1) /\ \A n \in DOMAIN fs : ~(n > a)
    BY <2>4, <2>5
  <2>7. QED
    BY <1>4, <2>4, <2>5, <2>6
<1>5. QED
  BY <1>3, <1>4

LEMMA WithinLength ==
  ASSUME NEW p \in Nat, NEW l \in Nat, NEW i \in 1..l
  PROVE  /\ p + i - 1 \in Nat /\ p + i - 1 + 1 \in Nat /\ p + l \in Nat
         /\ p + i - 1 + 1 <= p + l
OBVIOUS

LEMMA NoLessLater ==
  ASSUME NEW x \in Nat, NEW y \in Nat, NEW l \in Nat, x <= y
  PROVE  x <= y + l
OBVIOUS

LEMMA NoLessBefore ==
  ASSUME NEW x \in Nat, NEW y \in Nat, NEW l \in Nat, x + l <= y
  PROVE  x <= y
OBVIOUS

LEMMA NoLessThrough ==
  ASSUME NEW x \in Nat, NEW y \in Nat, NEW z \in Nat, x <= y, y <= z
  PROVE  x <= z
OBVIOUS

\* All the numbers there are come before the end of the active segment.
LEMMA BeforeEnd ==
  ASSUME Good, NEW fs, Ready(fs), NEW a, a = Active(fs),
         NEW n \in DOMAIN fs, NEW i \in DOMAIN fs[n].body
  PROVE  /\ fs[n].first + i - 1 \in Nat
         /\ fs[n].first + i - 1 + 1 <= fs[a].first + Len(fs[a].body)
<1>1. /\ a \in DOMAIN fs /\ a \in Nat /\ DOMAIN fs \subseteq 1..(a + 1)
      /\ n > a => fs[n].body = <<>>
  BY ActiveIs
<1>2. fs[n].first \in Nat /\ Len(fs[n].body) \in Nat /\ i \in 1..Len(fs[n].body)
  BY ReadyFile
<1>3. fs[a].first \in Nat /\ Len(fs[a].body) \in Nat
  BY <1>1, ReadyFile
<1>4. n \in Nat /\ ~(n > a)
  BY <1>1, EmptyShape
<1>5. /\ fs[n].first + i - 1 \in Nat /\ fs[n].first + i - 1 + 1 \in Nat
      /\ fs[n].first + Len(fs[n].body) \in Nat
      /\ fs[n].first + i - 1 + 1 <= fs[n].first + Len(fs[n].body)
  BY <1>2, WithinLength
<1>6. fs[n].first + Len(fs[n].body) <= fs[a].first + Len(fs[a].body)
  <2>1. CASE n = a
    BY <1>3, <2>1
  <2>2. CASE n # a
    <3>1. n < a
      BY <1>1, <1>4, <2>2
    <3>2. fs[n].first + Len(fs[n].body) <= fs[a].first
      BY <1>1, <3>1, ReadyOrdered
    <3>3. fs[n].first + Len(fs[n].body) \in Nat
      BY <1>2
    <3>4. QED
      BY <1>3, <3>2, <3>3, NoLessLater
  <2>3. QED
    BY <2>1, <2>2
<1>7. fs[a].first + Len(fs[a].body) \in Nat
  BY <1>3
<1>8. QED
  BY <1>5, <1>6, <1>7, NoLessThrough

LEMMA MinIs ==
  ASSUME NEW S, S \subseteq Nat, S # {}
  PROVE  Min(S) \in S /\ \A x \in S : Min(S) <= x
<1>1. \E m \in S : \A x \in S : m <= x
  BY LeastNumber
<1>2. QED
  BY <1>1 DEF Min

LEMMA RecoveredIs ==
  ASSUME Good, NEW fs, Ready(fs), NEW a, a = Active(fs), NEW r, r = Recovered(fs)
  PROVE  /\ r.synced \in Nat /\ r.next \in Nat
         /\ r.next <= fs[a].first + Len(fs[a].body)
         /\ r.synced < r.next \/ r.synced = 0
         /\ \A n \in DOMAIN fs : \A i \in DOMAIN fs[n].body : fs[n].first + i - 1 <= r.synced
<1> DEFINE seqs == UNION {{e.seq : e \in Range(Decode(fs[n]))} : n \in DOMAIN fs}
           end == fs[a].first + Len(fs[a].body)
<1>1. /\ a \in DOMAIN fs /\ a \in Nat /\ DOMAIN fs \subseteq 1..(a + 1)
  BY ActiveIs
<1>2. fs[a].first \in Nat /\ Len(fs[a].body) \in Nat /\ end \in Nat
  BY <1>1, ReadyFile
<1>3. ASSUME NEW n \in DOMAIN fs
      PROVE  /\ DOMAIN Decode(fs[n]) = DOMAIN fs[n].body
             /\ \A i \in DOMAIN fs[n].body : Decode(fs[n])[i].seq = fs[n].first + i - 1
  <2>1. Pieces(fs[n].body) /\ fs[n].first \in Nat
    BY ReadyFile
  <2>2. \A i \in DOMAIN fs[n].body : Complete(fs[n].body[i])
    BY DEF Ready, Taken
  <2>3. DOMAIN Decode(fs[n]) = DOMAIN fs[n].body
        /\ \A i \in DOMAIN fs[n].body :
             Decode(fs[n])[i] = [rec |-> fs[n].body[i].rec, seq |-> fs[n].first + i - 1]
    BY <2>1, <2>2, DecodeWhole
  <2>4. ASSUME NEW i \in DOMAIN fs[n].body PROVE Decode(fs[n])[i].seq = fs[n].first + i - 1
    <3>1. Decode(fs[n])[i] = [rec |-> fs[n].body[i].rec, seq |-> fs[n].first + i - 1]
      BY <2>3
    <3>2. QED
      BY <3>1
  <2>5. QED
    BY <2>3, <2>4
<1>4. ASSUME NEW s \in seqs
      PROVE  s \in Nat /\ s + 1 <= end
  <2>1. PICK n \in DOMAIN fs : s \in {e.seq : e \in Range(Decode(fs[n]))}
    BY <1>4
  <2>2. PICK e \in Range(Decode(fs[n])) : s = e.seq
    BY <2>1
  <2>3. PICK i \in DOMAIN Decode(fs[n]) : e = Decode(fs[n])[i]
    BY <2>2 DEF Range
  <2>4. i \in DOMAIN fs[n].body /\ s = fs[n].first + i - 1
    BY <1>3, <2>2, <2>3
  <2>5. QED
    BY <2>4, BeforeEnd
<1>5. ASSUME NEW n \in DOMAIN fs, NEW i \in DOMAIN fs[n].body
      PROVE  fs[n].first + i - 1 \in seqs
  <2>1. i \in DOMAIN Decode(fs[n]) /\ Decode(fs[n])[i].seq = fs[n].first + i - 1
    BY <1>3
  <2>2. Decode(fs[n])[i] \in Range(Decode(fs[n]))
    BY <2>1 DEF Range
  <2>3. fs[n].first + i - 1 \in {e.seq : e \in Range(Decode(fs[n]))}
    BY <2>1, <2>2
  <2>4. QED
    BY <2>3
<1>6. r = IF seqs # {} THEN [synced |-> Max(seqs), next |-> Max(seqs) + 1]
          ELSE [synced |-> 0, next |-> fs[Min(DOMAIN fs)].first]
  BY DEF Recovered
<1> HIDE DEF seqs
<1>7. CASE seqs # {}
  <2>1. seqs \subseteq 0..end
    BY <1>2, <1>4
  <2>2. Max(seqs) \in seqs /\ \A y \in seqs : y <= Max(seqs)
    <3> HIDE DEF end
    <3>1. QED
      BY <1>2, <1>7, <2>1, MaxBounded
  <2>3. r.synced = Max(seqs) /\ r.next = Max(seqs) + 1
    BY <1>6, <1>7
  <2>4. Max(seqs) \in Nat /\ Max(seqs) + 1 <= end
    BY <1>4, <2>2
  <2>5. Max(seqs) < Max(seqs) + 1 /\ Max(seqs) + 1 \in Nat
    BY <2>4
  <2>6. QED
    BY <1>5, <2>2, <2>3, <2>4, <2>5
<1>8. CASE seqs = {}
  <2>1. r.synced = 0 /\ r.next = fs[Min(DOMAIN fs)].first
    BY <1>6, <1>8
  <2>2. DOMAIN fs \subseteq Nat
    BY <1>1
  <2>3. Min(DOMAIN fs) \in DOMAIN fs /\ Min(DOMAIN fs) <= a
    BY <1>1, <2>2, MinIs
  <2>m. PICK m : m = Min(DOMAIN fs)
    OBVIOUS
  <2>4. m \in DOMAIN fs /\ m <= a /\ m \in Nat
    BY <1>1, <2>3, <2>m
  <2>5. fs[m].first \in Nat /\ Len(fs[m].body) \in Nat
    BY <2>4, ReadyFile
  <2>6. fs[m].first <= end
    <3>1. CASE m = a
      BY <1>2, <3>1
    <3>2. CASE m # a
      <4>1. m < a
        BY <1>1, <2>4, <3>2
      <4>2. fs[m].first + Len(fs[m].body) <= fs[a].first
        BY <1>1, <2>4, <4>1, ReadyOrdered
      <4>3. fs[m].first <= fs[a].first
        BY <1>2, <2>5, <4>2, NoLessBefore
      <4>4. QED
        BY <1>2, <2>5, <4>3, NoLessLater
    <3>3. QED
      BY <3>1, <3>2
  <2>7. QED
    BY <1>5, <1>8, <2>1, <2>m, <2>5, <2>6
<1>9. QED
  BY <1>7, <1>8

LEMMA LargerOf ==
  ASSUME NEW x \in Nat, NEW y \in Nat, x <= y
  PROVE  Max({x, y}) = y
<1>1. {x, y} \subseteq Nat /\ y \in {x, y} /\ \A z \in {x, y} : z <= y
  OBVIOUS
<1>2. QED
  BY <1>1, MaxIs

LEMMA OpenAtGood ==
  ASSUME Good, mode = "down", NEW fs, Ready(fs), OpenAt(fs, Active(fs), Recovered(fs)),
         UNCHANGED <<archive, pc, batch, submitted, acked>>
  PROVE  Good'
<1>a. PICK a : a = Active(fs)
  OBVIOUS
<1>r. PICK r : r = Recovered(fs)
  OBVIOUS
<1>1. Typed /\ Untorn /\ Agree /\ Ends /\ Ordered /\ Located /\ pc = "idle"
  BY DEF Good, Typed
<1>2. /\ mode' = "up" /\ files' = fs /\ current' = current /\ cur' = a /\ synced' = r.synced
      /\ next_seq' = Max({r.next, fs[a].first + Len(fs[a].body)}) /\ opened' = next_seq'
  BY <1>a, <1>r DEF OpenAt
<1>3. /\ a \in DOMAIN fs /\ a \in Nat /\ DOMAIN fs \subseteq 1..(a + 1)
      /\ \A n \in DOMAIN fs : n > a => fs[n].body = <<>>
      /\ current # 0 => current = a
  BY <1>a, ActiveIs
<1> DEFINE end == fs[a].first + Len(fs[a].body)
<1>4. fs[a].first \in Nat /\ Len(fs[a].body) \in Nat /\ end \in Nat
  BY <1>3, ReadyFile
<1> HIDE DEF end
<1>5. /\ r.synced \in Nat /\ r.next \in Nat /\ r.next <= end
      /\ r.synced < r.next \/ r.synced = 0
      /\ \A n \in DOMAIN fs : \A i \in DOMAIN fs[n].body : fs[n].first + i - 1 <= r.synced
  BY <1>a, <1>r, RecoveredIs DEF end
<1>6. next_seq' = end
  <2>1. Max({r.next, end}) = end
    BY <1>4, <1>5, LargerOf
  <2>2. QED
    BY <1>2, <2>1 DEF end
<1>7. Typed'
  <2>1. \A n \in DOMAIN fs : FileShape(fs[n])
    BY ReadyFile
  <2>2. DOMAIN fs \subseteq Nat
    BY <1>3
  <2>3. cur' \in Nat /\ next_seq' \in Nat /\ synced' \in Nat /\ opened' \in Nat
    BY <1>2, <1>3, <1>4, <1>5, <1>6
  <2>4. QED
    BY <1>1, <1>2, <2>1, <2>2, <2>3 DEF Typed
<1>8. Untorn'
  <2>1. \A n \in DOMAIN fs : \A i \in DOMAIN fs[n].body : Complete(fs[n].body[i])
    BY DEF Ready, Taken
  <2>2. QED
    BY <1>1, <1>2, <2>1 DEF Untorn, Complete
<1>9. ASSUME NEW n \in DOMAIN archive
      PROVE  /\ n \in DOMAIN fs /\ fs[n].head /\ archive[n].first = fs[n].first
             /\ Len(archive[n].body) <= Len(fs[n].body)
             /\ \A i \in DOMAIN archive[n].body : fs[n].body[i].rec = archive[n].body[i].rec
  BY DEF Ready, Taken
<1>10. Agree'
  <2>1. DOMAIN archive \subseteq DOMAIN fs
    BY <1>9
  <2>2. QED
    BY <1>2, <1>9, <2>1 DEF Agree
<1>11. Ends'
  <2>1. ASSUME NEW n \in DOMAIN archive, n > a PROVE archive[n].body = <<>>
    <3>1. fs[n].body = <<>> /\ Len(archive[n].body) <= Len(fs[n].body)
      BY <1>3, <1>9, <2>1
    <3>2. Pieces(archive[n].body) /\ Len(archive[n].body) <= 0
      BY <1>1, <3>1, EmptyShape, TypedCopy
    <3>3. QED
      BY <3>2, EmptyBody
  <2>2. DOMAIN fs \cup DOMAIN archive \subseteq 1..(a + 1)
    BY <1>3, <1>9
  <2>3. \A n \in DOMAIN fs : fs[n].head
    BY DEF Ready, Taken
  <2>4. QED
    BY <1>2, <1>3, <2>1, <2>2, <2>3 DEF Ends
<1>12. ASSUME NEW n, NEW x \in Copies(n)'
       PROVE  /\ n \in 1..(cur + 1) /\ Len(x.body) \in Nat
              /\ \E z \in Copies(n) : z.first = x.first /\ Len(x.body) <= Len(z.body)
  <2>1. CASE n \in DOMAIN archive /\ x = archive[n]
    <3>1. Len(archive[n].body) \in Nat
      BY <1>1, <2>1, TypedCopy
    <3>2. n \in 1..(cur + 1)
      BY <1>1, <2>1 DEF Ends
    <3>3. QED
      BY <2>1, <3>1, <3>2 DEF Copies
  <2>2. CASE n \in DOMAIN fs /\ x = fs[n]
    <3>1. Len(fs[n].body) \in Nat
      BY <2>2, ReadyFile
    <3>2. n \in 1..(cur + 1)
      BY <1>1, <2>2 DEF Ends, Ready
    <3>3. \E z \in Copies(n) : z.first = fs[n].first /\ Len(fs[n].body) <= Len(z.body)
      BY <2>2 DEF Ready, Taken
    <3>4. QED
      BY <2>2, <3>1, <3>2, <3>3
  <2>3. QED
    BY <1>2, <2>1, <2>2 DEF Copies
<1>13. Ordered'
  <2> SUFFICES ASSUME NEW k \in 1..(a + 1), NEW m \in 1..(a + 1), k < m,
                      NEW x \in Copies(k)', NEW y \in Copies(m)'
               PROVE  x.first + Len(x.body) <= y.first
    BY <1>2 DEF Ordered
  <2>1. PICK z \in Copies(k) : z.first = x.first /\ Len(x.body) <= Len(z.body)
    BY <1>12
  <2>2. PICK w \in Copies(m) : w.first = y.first
    BY <1>12
  <2>3. k \in 1..(cur + 1) /\ m \in 1..(cur + 1) /\ Len(x.body) \in Nat
    BY <1>12
  <2>4. z.first + Len(z.body) <= w.first
    BY <1>1, <2>3 DEF Ordered
  <2>5. z.first \in Nat /\ Len(z.body) \in Nat /\ w.first \in Nat
    BY <1>1, CopyTyped
  <2>6. z.first + Len(x.body) <= w.first
    BY <2>1, <2>3, <2>4, <2>5, NotLonger
  <2>7. QED
    BY <2>1, <2>2, <2>6
<1>14. Threaded'
  <2>1. files'[cur'].first + Len(files'[cur'].body) = next_seq' + 0
    <3>1. fs[a].first + Len(fs[a].body) = next_seq'
      BY <1>6 DEF end
    <3>2. next_seq' \in Nat
      BY <1>4, <1>6
    <3>3. QED
      BY <1>2, <3>1, <3>2
  <2>2. pc' = "idle"
    BY <1>1
  <2>3. QED
    BY <2>1, <2>2 DEF Threaded
<1>15. Marked'
  <2>1. synced' < next_seq' \/ synced' = 0
    BY <1>2, <1>4, <1>5, <1>6
  <2>2. ASSUME NEW n \in DOMAIN fs, NEW i \in DOMAIN fs[n].body, fs[n].first + i - 1 < end
        PROVE  fs[n].first + i - 1 <= r.synced /\ ~(fs[n].first + i - 1 >= end)
    <3>1. fs[n].first + i - 1 \in Nat
      BY <1>a, BeforeEnd
    <3>2. QED
      BY <1>4, <1>5, <2>2, <3>1
  <2>3. QED
    BY <1>2, <1>6, <2>1, <2>2 DEF Marked
<1>16. Located'
  <2>1. ASSUME NEW n \in DOMAIN fs, NEW i \in DOMAIN fs[n].body, NEW s, s = fs[n].first + i - 1
        PROVE  s < next_seq'
    <3>1. s \in Nat /\ s + 1 <= end
      BY <1>a, <2>1, BeforeEnd DEF end
    <3>2. QED
      BY <1>4, <1>6, <3>1
  <2>2. ASSUME NEW a1 \in acked, InArchive(a1)
        PROVE  InArchive(a1)' /\ a1.seq < next_seq'
    <3>1. PICK n \in DOMAIN archive : \E i \in DOMAIN archive[n].body :
            archive[n].body[i].rec = a1.rec /\ archive[n].first + i - 1 = a1.seq
      BY <2>2 DEF InArchive
    <3>2. PICK i \in DOMAIN archive[n].body :
            archive[n].body[i].rec = a1.rec /\ archive[n].first + i - 1 = a1.seq
      BY <3>1
    <3>3. n \in DOMAIN fs /\ archive[n].first = fs[n].first
          /\ Len(archive[n].body) <= Len(fs[n].body)
      BY <1>9
    <3>4. DOMAIN archive[n].body = 1..Len(archive[n].body) /\ Len(archive[n].body) \in Nat
      BY <1>1, TypedCopy
    <3>5. DOMAIN fs[n].body = 1..Len(fs[n].body) /\ Len(fs[n].body) \in Nat
      BY <3>3, ReadyFile
    <3>6. i \in DOMAIN fs[n].body
      BY <3>3, <3>4, <3>5
    <3>7. a1.seq < next_seq'
      BY <2>1, <3>2, <3>3, <3>6
    <3>8. InArchive(a1)'
      BY <1>2, <3>2 DEF InArchive
    <3>9. QED
      BY <3>7, <3>8
  <2>3. ASSUME NEW a1 \in acked, InFile(a1)
        PROVE  (InFile(a1)' \/ InArchive(a1)') /\ a1.seq < next_seq'
    <3>1. PICK n \in DOMAIN files : \E i \in 1..files[n].safe :
            files[n].body[i].rec = a1.rec /\ files[n].first + i - 1 = a1.seq
      BY <2>3 DEF InFile
    <3>2. PICK i \in 1..files[n].safe :
            files[n].body[i].rec = a1.rec /\ files[n].first + i - 1 = a1.seq
      BY <3>1
    <3>3. n \in DOMAIN fs
      BY DEF Ready
    <3>4. /\ files[n].first = fs[n].first
          /\ \/ i <= fs[n].safe /\ fs[n].body[i].rec = files[n].body[i].rec
             \/ n \in DOMAIN archive /\ i \in DOMAIN archive[n].body
                  /\ archive[n].body[i].rec = files[n].body[i].rec
      BY <3>3 DEF Ready, Taken
    <3>5. CASE n \in DOMAIN archive /\ i \in DOMAIN archive[n].body
                 /\ archive[n].body[i].rec = files[n].body[i].rec
      <4>1. archive[n].first = fs[n].first
        BY <1>9, <3>5
      <4>2. archive[n].body[i].rec = a1.rec /\ archive[n].first + i - 1 = a1.seq
        BY <3>2, <3>4, <3>5, <4>1
      <4>3. InArchive(a1)
        BY <3>5, <4>2 DEF InArchive
      <4>4. QED
        BY <2>2, <4>3
    <3>6. CASE i <= fs[n].safe /\ fs[n].body[i].rec = files[n].body[i].rec
      <4>1. /\ fs[n].safe \in 0..Len(fs[n].body) /\ Len(fs[n].body) \in Nat
            /\ DOMAIN fs[n].body = 1..Len(fs[n].body)
        BY <3>3, ReadyFile
      <4>2. files[n].safe \in 0..Len(files[n].body) /\ Len(files[n].body) \in Nat
        BY <1>1, TypedFile
      <4>3. i \in Nat /\ i >= 1
        BY <4>2
      <4>4. i \in 1..fs[n].safe /\ i \in DOMAIN fs[n].body
        BY <3>6, <4>1, <4>3
      <4>5. fs[n].body[i].rec = a1.rec /\ fs[n].first + i - 1 = a1.seq
        BY <3>2, <3>4, <3>6
      <4>6. InFile(a1)'
        BY <1>2, <3>3, <4>4, <4>5 DEF InFile
      <4>7. a1.seq < next_seq'
        BY <2>1, <3>3, <4>4, <4>5
      <4>8. QED
        BY <4>6, <4>7
    <3>7. QED
      BY <3>4, <3>5, <3>6
  <2>4. ASSUME NEW a1 \in acked
        PROVE  (InFile(a1)' \/ InArchive(a1)') /\ a1.seq < next_seq'
    BY <1>1, <2>2, <2>3 DEF Located
  <2>5. QED
    BY <2>4 DEF Located
<1>17. QED
  BY <1>7, <1>8, <1>10, <1>11, <1>13, <1>14, <1>15, <1>16 DEF Good

\* A log of which neither the disk nor the archive has anything begins anew.
LEMMA FreshGood ==
  ASSUME Good, DOMAIN files = {}, DOMAIN archive = {},
         mode' = "up", files' = [n \in {1} |-> NewSegment(0)], current' = 1,
         cur' = 1, next_seq' = 0, synced' = 0, opened' = 0, mode = "down",
         UNCHANGED <<archive, pc, batch, submitted, acked>>
  PROVE  Good'
<1>1. Typed /\ Located /\ pc = "idle"
  BY DEF Good, Typed
<1>2. /\ DOMAIN files' = {1} /\ files'[1] = NewSegment(0) /\ DOMAIN archive' = {}
  OBVIOUS
<1>3. acked' = {}
  BY <1>1 DEF Located, InFile, InArchive
<1>4. Typed'
  <2>1. FileShape(files'[1])
    BY <1>2, EmptyShape
  <2>2. QED
    BY <1>1, <1>2, <2>1 DEF Typed
<1>5. Untorn' /\ Agree' /\ Ends' /\ Ordered'
  <2>1. Untorn'
    BY <1>2, EmptyShape DEF Untorn, NewSegment
  <2>2. Agree'
    BY <1>2 DEF Agree
  <2>3. Ends'
    BY <1>2, EmptyShape DEF Ends, NewSegment
  <2>4. Ordered'
    BY <1>2 DEF Ordered, Copies, NewSegment
  <2>5. QED
    BY <2>1, <2>2, <2>3, <2>4
<1>6. Threaded' /\ Marked' /\ Located'
  <2>1. Threaded'
    BY <1>1, <1>2, EmptyShape DEF Threaded, NewSegment
  <2>2. Marked'
    BY <1>2, EmptyShape DEF Marked, NewSegment
  <2>3. Located'
    BY <1>3 DEF Located
  <2>4. QED
    BY <2>1, <2>2, <2>3
<1>7. QED
  BY <1>4, <1>5, <1>6 DEF Good

LEMMA OpenGood ==
  ASSUME Good, NEW found, Open(found), mode' # "refused",
         DOMAIN found = DOMAIN files \cup Replaced,
         \A n \in DOMAIN found :
           found[n] = IF n \in Replaced THEN CopyOf(n) ELSE files[n]
  PROVE  Good'
<1>1. mode = "down" /\ UNCHANGED <<archive, pc, batch, submitted, acked>>
  BY DEF Open, archived
<1>2. \A n \in DOMAIN found : found[n].head
  BY DEF Open
<1>3. DOMAIN found = DOMAIN files \cup DOMAIN archive
  <2>1. \A n \in DOMAIN archive : n \in DOMAIN files \/ n \in Replaced
    BY DEF Replaced
  <2>2. \A n \in Replaced : n \in DOMAIN archive
    BY DEF Replaced
  <2>3. QED
    BY <2>1, <2>2
<1>4. CASE DOMAIN found = {}
  <2>1. /\ mode' = "up" /\ files' = [n \in {1} |-> NewSegment(0)] /\ current' = 1
        /\ cur' = 1 /\ next_seq' = 0 /\ synced' = 0 /\ opened' = 0
    BY <1>4 DEF Open
  <2>2. DOMAIN files = {} /\ DOMAIN archive = {}
    BY <1>3, <1>4
  <2>3. QED
    BY <1>1, <2>1, <2>2, FreshGood
<1>5. CASE DOMAIN found # {}
  <2>1. \E fs \in {RepairAll(found)} : OpenAt(fs, Active(fs), Recovered(fs))
    BY <1>2, <1>5 DEF Open
  <2>2. PICK fs \in {RepairAll(found)} : OpenAt(fs, Active(fs), Recovered(fs))
    BY <2>1
  <2>3. DOMAIN fs = DOMAIN found /\ \A n \in DOMAIN fs : fs[n] = Repaired(found[n])
    BY <2>2 DEF RepairAll
  <2>4. ASSUME NEW n \in DOMAIN fs PROVE Taken(fs[n], n)
    <3>1. CASE n \in Replaced
      <4>1. fs[n] = Repaired(CopyOf(n))
        BY <2>3, <3>1
      <4>2. QED
        BY <3>1, <4>1, ArchiveTaken
    <3>2. CASE n \notin Replaced
      <4>1. n \in DOMAIN files /\ found[n] = files[n]
        BY <2>3, <3>2
      <4>2. fs[n] = Repaired(files[n]) /\ files[n].head
        BY <1>2, <2>3, <4>1
      <4>3. QED
        BY <3>2, <4>1, <4>2, FileTaken
    <3>3. QED
      BY <3>1, <3>2
  <2>5. Ready(fs)
    BY <1>3, <1>5, <2>3, <2>4 DEF Ready
  <2>6. QED
    BY <1>1, <2>2, <2>5, OpenAtGood
<1>6. QED
  BY <1>4, <1>5

LEMMA StartGood ==
  ASSUME Good, Start, mode' # "refused"
  PROVE  Good'
<1>1. PICK found \in {Restored} : Open(found)
  BY DEF Start
<1>2. /\ DOMAIN found = DOMAIN files \cup Replaced
      /\ \A n \in DOMAIN found : found[n] = IF n \in Replaced THEN CopyOf(n) ELSE files[n]
  BY <1>1 DEF Restored, CopyOf
<1>3. QED
  BY <1>1, <1>2, OpenGood

\* A start without the archive is as good when the archive had nothing to give.
LEMMA StartWithoutArchiveGood ==
  ASSUME Good, StartWithoutArchive, mode' # "refused", harmed' = {}
  PROVE  Good'
<1>1. Open(files) /\ harmed' = harmed \cup (IF Replaced # {} THEN {"restore"} ELSE {})
  BY DEF StartWithoutArchive
<1>2. Replaced = {}
  BY <1>1
<1>3. QED
  BY <1>1, <1>2, OpenGood

-----------------------------------------------------------------------------
(* The invariant is inductive.                                             *)

LEMMA WInvIs == WInv <=> (Fine => Good)
BY DEF WInv, Good

\* A harmed log stays harmed, and a refused one refused.
LEMMA StepFine ==
  ASSUME [Next]_vars, Fine'
  PROVE  Fine
<1>1. CASE \E k \in 1..MaxBatch : Collect(k)
  BY <1>1 DEF Collect, Fine
<1>2. CASE RotateCreate \/ RotateHeader \/ RotateSwitch
  BY <1>2 DEF RotateCreate, RotateHeader, RotateSwitch, Fine
<1>3. CASE Write
  <2>1. mode = "up" /\ mode' = mode
    BY <1>3 DEF Write
  <2>2. harmed \subseteq harmed'
    BY <1>3 DEF Write
  <2>3. QED
    BY <2>1, <2>2 DEF Fine
<1>4. CASE Sync
  <2>1. mode = "up" /\ harmed \subseteq harmed'
    BY <1>4 DEF Sync
  <2>2. QED
    BY <2>1 DEF Fine
<1>5. CASE Answer
  BY <1>5 DEF Answer, Fine
<1>6. CASE \E n \in Seg : ArchiveSegment(n)
  BY <1>6 DEF ArchiveSegment, Fine
<1>7. CASE Kill \/ PowerLoss \/ DiskLoss
  BY <1>7 DEF Kill, PowerLoss, DiskLoss, Stop, Fine
<1>8. CASE Start
  BY <1>8 DEF Start, Fine
<1>9. CASE StartWithoutArchive
  <2>1. mode = "down" /\ harmed \subseteq harmed'
    BY <1>9 DEF StartWithoutArchive, Open
  <2>2. QED
    BY <2>1 DEF Fine
<1>10. CASE UNCHANGED vars
  BY <1>10 DEF vars, Fine
<1>11. QED
  BY <1>1, <1>2, <1>3, <1>4, <1>5, <1>6, <1>7, <1>8, <1>9, <1>10 DEF Next

LEMMA StillGood ==
  ASSUME Good, UNCHANGED vars
  PROVE  Good'
<1>1. UNCHANGED <<files, current, archive, mode, pc, batch, cur, next_seq, synced, opened,
                  submitted, acked>>
  BY DEF vars, disk, archived, thread
<1>2. Typed /\ Threaded /\ Marked
  BY DEF Good
<1>3. Untorn' /\ Agree' /\ Ends' /\ Ordered' /\ Located'
  BY <1>1, StillLog DEF Good
<1>4. Typed'
  BY <1>1, <1>2 DEF Typed
<1>5. Threaded' /\ Marked'
  BY <1>1, <1>2 DEF Threaded, Marked
<1>6. QED
  BY <1>3, <1>4, <1>5 DEF Good

LEMMA InitWInv == Init => WInv
BY InitGood, WInvIs

LEMMA StepWInv == WInv /\ [Next]_vars => WInv'
<1> SUFFICES ASSUME WInv, [Next]_vars, Fine' PROVE Good'
  BY DEF WInv, Good
<1>1. Good /\ harmed' = {} /\ mode' # "refused"
  BY StepFine, WInvIs DEF Fine
<1>2. CASE \E k \in 1..MaxBatch : Collect(k)
  BY <1>1, <1>2, CollectGood
<1>3. CASE RotateCreate
  BY <1>1, <1>3, RotateCreateGood
<1>4. CASE RotateHeader
  BY <1>1, <1>4, RotateHeaderGood
<1>5. CASE RotateSwitch
  BY <1>1, <1>5, RotateSwitchGood
<1>6. CASE Write
  BY <1>1, <1>6, WriteGood
<1>7. CASE Sync
  BY <1>1, <1>7, SyncGood
<1>8. CASE Answer
  BY <1>1, <1>8, AnswerGood
<1>9. CASE \E n \in Seg : ArchiveSegment(n)
  BY <1>1, <1>9, ArchiveGood
<1>10. CASE Kill
  BY <1>1, <1>10, KillGood
<1>11. CASE PowerLoss
  BY <1>1, <1>11, PowerLossGood
<1>12. CASE DiskLoss
  BY <1>1, <1>12, DiskLossGood
<1>13. CASE Start
  BY <1>1, <1>13, StartGood
<1>14. CASE StartWithoutArchive
  BY <1>1, <1>14, StartWithoutArchiveGood
<1>15. CASE UNCHANGED vars
  BY <1>1, <1>15, StillGood
<1>16. QED
  BY <1>2, <1>3, <1>4, <1>5, <1>6, <1>7, <1>8, <1>9, <1>10, <1>11, <1>12, <1>13,
     <1>14, <1>15 DEF Next

\* The invariant holds of every behaviour of the log and its archive
\* (crates/wal, ingest/src/wal_archive.rs).
THEOREM WInvHolds == Spec => []WInv
<1>1. Init => WInv
  BY InitWInv
<1>2. WInv /\ [Next]_vars => WInv'
  BY StepWInv
<1>3. QED
  BY <1>1, <1>2, PTL DEF Spec

\* Every number a caller was told is found by the readers of the log, with its
\* record and no other, through any crashes, starts and losses of the disk the
\* archive covers, in a log that no refused write, no stray segment and no
\* failed restore has harmed (the answer of writer.rs:347, wal_archive.rs:15).
THEOREM AnswersAreRead == Spec => []AckedReadableUnlessHarmed
<1>1. WInv => AckedReadableUnlessHarmed
  BY InvAcked
<1>2. QED
  BY <1>1, WInvHolds, PTL

\* What a reader is let at by the watermark, of this process and in such a log,
\* is synced: no crash of the machine takes it back (the watermark of
\* writer.rs:347, moved behind sync_all and before the answers).
THEOREM WatermarkIsSynced == Spec => []WatermarkHonest
<1>1. WInv => WatermarkHonest
  BY InvHonest
<1>2. QED
  BY <1>1, WInvHolds, PTL
=============================================================================
