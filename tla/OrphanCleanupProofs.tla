------------------------ MODULE OrphanCleanupProofs -------------------------
(***************************************************************************)
(* What the collectors leave alone, for any number of writers, statements,  *)
(* queries and collectors, any grace and any lifetime of announcements.     *)
(* Where the catalog is in the process: the objects of announced files, the *)
(* vectors of files that are there, and what a query may read for as long   *)
(* as the grace lasts (OInv).  In both deployments: everything no collector *)
(* has found unknown as late as the grace after its upload (GInv).          *)
(***************************************************************************)
EXTENDS OrphanCleanup, SequenceTheorems, FiniteSetTheorems, WellFoundedInduction, TLAPS

(* The invariant. *)

JobShape(x) ==
    \/ x = Idle
    \/ x = [at |-> x.at, inputs |-> x.inputs, keys |-> x.keys] /\ x.at # "none"

StmtShape(x) ==
    \/ x = Idle
    \/ /\ x = [at |-> x.at, anchor |-> x.anchor, new |-> x.new]
       /\ x.at # "none" /\ x.new \in Batches \cup {NoFile}

RoundShape(x) ==
    \/ x = Idle
    \/ x = [at |-> "listed", objects |-> x.objects]
    \/ x = [at |-> "known", objects |-> x.objects, known |-> x.known]
    \/ /\ x = [at |-> "judge", objects |-> x.objects, known |-> x.known,
               referenced |-> x.referenced, read |-> x.read, old |-> x.old]
       /\ x.read \in 0..Now

QueryShape(x) ==
    \/ x = Idle
    \/ /\ x = [at |-> "reading", snapshot |-> x.snapshot, since |-> x.since]
       /\ x.snapshot \in 0..snapshot_version /\ x.since \in 0..Now

FileShape(f) ==
    f = [table |-> f.table, shard |-> f.shard, rows |-> f.rows,
         valid_from |-> f.valid_from, deleted_at |-> f.deleted_at]

JobShapes == DOMAIN job = Batches /\ \A b \in Batches : JobShape(job[b])
StmtShapes == DOMAIN stmt = DvIds /\ \A d \in DvIds : StmtShape(stmt[d])
RoundShapes == DOMAIN round = Collectors /\ \A g \in Collectors : RoundShape(round[g])
QueryShapes == DOMAIN query = Queries /\ \A q \in Queries : QueryShape(query[q])
SeenShape(s) == DOMAIN s \subseteq Batches /\ \A b \in DOMAIN s : s[b] \in 0..Now
SeenShapes ==
    DOMAIN first_seen = Collectors /\ \A g \in Collectors : SeenShape(first_seen[g])

Shapes == JobShapes /\ StmtShapes /\ RoundShapes /\ QueryShapes /\ SeenShapes

\* Windows have opened, and closed if at all, so a retired file is not present.
Manifest ==
    /\ snapshot_version \in Nat
    /\ \A b \in DOMAIN files :
          /\ b \in Batches /\ FileShape(files[b])
          /\ files[b].valid_from \in 0..snapshot_version
          /\ files[b].deleted_at \in 0..snapshot_version

\* A file in the manifest has its job behind it, and no job writes the new file
\* of an UPDATE.
Owned ==
    /\ \A b \in DOMAIN files : b \in NewFiles \/ job[b].at = "done"
    /\ \A b \in Batches : job[b].at # "none" => b \notin NewFiles

\* From its announcement to its commit a batch is in flight.
Flying ==
    \A b \in Batches :
        /\ job[b].at \in {"announced", "uploaded", "written"} => b \in DOMAIN in_flight
        /\ job[b].at \in {"uploaded", "written"} => Data(b) \in objects

\* A statement marks a file of the manifest, and only that.
Anchored ==
    /\ \A d \in Started : stmt[d].anchor \in DOMAIN files
    /\ \A k \in DOMAIN deletions : k[1] \in Started /\ k[2] = stmt[k[1]].anchor

\* What the store holds, or a listing of it: data objects of batches in flight
\* or done, vectors of files.
Stock(S) ==
    /\ IsFiniteSet(S) /\ S \subseteq Batches \X ({"data"} \cup DvIds)
    /\ \A b \in Batches :
          Data(b) \in S /\ b \notin NewFiles /\ job[b].at # "done"
              => b \in DOMAIN in_flight
    /\ \A b \in Batches, d \in DvIds : <<b, d>> \in S => b \in DOMAIN files

\* Nobody will read it from now on, but for the queries under way.
Finished(b) == job[b].at = "done" /\ b \notin Present

\* What a round has listed and not found known is finished; a data object that
\* was not listed next to a vector of its file does not come back.
RoundOK(r) ==
    /\ Stock(r.objects)
    /\ \A b \in Batches, d \in DvIds :
          <<b, d>> \in r.objects /\ Data(b) \notin r.objects => Data(b) \notin objects
    /\ r.at \in {"known", "judge"} =>
          \A b \in Batches \ r.known :
              /\ Data(b) \in r.objects /\ b \notin NewFiles => Finished(b)
              /\ \A d \in DvIds : <<b, d>> \in r.objects => b \notin Present

Rounds == \A g \in Collectors : round[g].at # "none" => RoundOK(round[g])

\* The vector of a statement that has begun is there with its file, committed
\* or not.
VectorsKept ==
    Grace > 0 =>
        \A d \in Started :
            stmt[d].anchor \in Present /\ Data(stmt[d].anchor) \in objects
                => <<stmt[d].anchor, d>> \in objects

\* A query that has not outlived the grace may still read the file.
Reading(q, b) ==
    /\ query[q].at = "reading" /\ Now - query[q].since < Grace
    /\ b \in VisibleFiles(Table, query[q].snapshot)
    /\ b \notin NewFiles \cup shared

\* A file is observed only when it is finished, and from then on no query
\* begins that reads it: those that do began before.
SeenOK(seen) ==
    \A b \in DOMAIN seen :
        /\ b \notin NewFiles \cup shared => Finished(b)
        /\ \A q \in Queries : Reading(q, b) => seen[b] >= query[q].since

Observed == \A g \in Collectors : SeenOK(first_seen[g])

\* A query has begun before the round asked for the vectors, and nothing it
\* reads was old then.
JudgedOK(seen, r) ==
    /\ r.old \subseteq DOMAIN seen
    /\ \A q \in Queries, b \in Batches : Reading(q, b) =>
          /\ b \notin r.old
          /\ Data(b) \in r.objects /\ b \notin r.known => r.read >= query[q].since

Judged == \A g \in Collectors : round[g].at = "judge" => JudgedOK(first_seen[g], round[g])

Served == \A q \in Queries, b \in Batches : Reading(q, b) => Data(b) \in objects

AnnouncedThere == \A b \in Present : b \notin NewFiles => Data(b) \in objects

OInv ==
    /\ Shapes /\ Manifest /\ Owned /\ Flying /\ Anchored /\ Stock(objects)
    /\ Rounds /\ AnnouncedThere /\ VectorsKept /\ Observed /\ Judged /\ Served

-----------------------------------------------------------------------------
(* What a walk over the paths of a batch concludes. *)

\* A set of numbers that is not empty has a least one.
LEMMA LeastNumber ==
    ASSUME NEW X, X \subseteq Nat, X # {}
    PROVE  \E m \in X : \A x \in X : m <= x
<1> DEFINE R == {ss \in Nat \X Nat : ss[1] < ss[2]}
<1>1. IsWellFoundedOn(R, Nat)
  BY NatLessThanWellFounded DEF OpToRel
<1>2. PICK m \in X : \A y \in X : ~ (<<y, m>> \in R)
  <2> HIDE DEF R
  <2> QED BY <1>1, WFMin
<1>3. ASSUME NEW x \in X, x < m PROVE FALSE
  <2>1. <<x, m>> \in Nat \X Nat
    BY DEF R
  <2>2. <<x, m>>[1] < <<x, m>>[2]
    BY <1>3
  <2>3. <<x, m>> \in R
    BY <2>1, <2>2
  <2> QED BY <1>2, <2>3
<1>4. \A x \in X : m <= x
  <2> HIDE DEF R
  <2> QED BY <1>3
<1> QED BY <1>4

\* A set of numbers with 0 and the successors of its members is all of them.
LEMMA NumbersByStep ==
    ASSUME NEW X, X \subseteq Nat, 0 \in X, \A n \in X : n + 1 \in X
    PROVE  X = Nat
<1> SUFFICES ASSUME Nat \ X # {} PROVE FALSE
  OBVIOUS
<1>1. PICK m \in Nat \ X : \A x \in Nat \ X : m <= x
  BY LeastNumber
<1>2. m - 1 \in Nat /\ m - 1 \notin Nat \ X
  BY <1>1
<1>3. m - 1 \in X /\ (m - 1) + 1 = m
  BY <1>2
<1> QED BY <1>1, <1>3

Start(b, seen, r) ==
    [at |-> IF b \in DOMAIN seen THEN seen[b] ELSE -1,
     old |-> Grace = 0 \/ b \in r.old, gone |-> {}]

\* The first n steps of the walk of Verdict.
IsWalk(w, n, b, seen, r, refused) ==
    w = [i \in 0..n |-> IF i = 0 THEN Start(b, seen, r)
                        ELSE JudgePath(w[i - 1], PathsOf(b, r)[i], r, refused)]

LEMMA WalkExists ==
    ASSUME NEW n \in Nat, NEW b, NEW seen, NEW r, NEW refused
    PROVE  \E w : IsWalk(w, n, b, seen, r, refused)
<1> DEFINE X == {m \in Nat : \E w : IsWalk(w, m, b, seen, r, refused)}
<1>1. 0 \in X
  <2> DEFINE w == [i \in 0..0 |-> Start(b, seen, r)]
  <2>1. IsWalk(w, 0, b, seen, r, refused)
    BY DEF IsWalk
  <2> QED BY <2>1
<1>2. ASSUME NEW m \in X PROVE m + 1 \in X
  <2>1. PICK w : IsWalk(w, m, b, seen, r, refused)
    OBVIOUS
  <2> DEFINE J(acc, i) == JudgePath(acc, PathsOf(b, r)[i], r, refused)
  <2> DEFINE v == [i \in 0..(m + 1) |-> IF i <= m THEN w[i] ELSE J(w[m], m + 1)]
  <2>2. \A i \in 0..m : v[i] = w[i]
    OBVIOUS
  <2>3. v[m + 1] = J(v[m], m + 1)
    BY <2>2
  <2>4. \A i \in 0..m : w[i] = IF i = 0 THEN Start(b, seen, r) ELSE J(w[i - 1], i)
    BY <2>1 DEF IsWalk
  <2> HIDE DEF J
  <2>5. ASSUME NEW i \in 0..(m + 1)
        PROVE  v[i] = IF i = 0 THEN Start(b, seen, r) ELSE J(v[i - 1], i)
    <3>1. CASE i = m + 1
      BY <2>3, <3>1
    <3>2. CASE i # m + 1
      <4>1. i \in 0..m /\ (i # 0 => i - 1 \in 0..m)
        BY <3>2
      <4> QED BY <2>2, <2>4, <4>1
    <3> QED BY <3>1, <3>2
  <2>6. v = [i \in 0..(m + 1) |-> v[i]]
    OBVIOUS
  <2> HIDE DEF v
  <2>7. v = [i \in 0..(m + 1) |-> IF i = 0 THEN Start(b, seen, r) ELSE J(v[i - 1], i)]
    BY <2>5, <2>6
  <2>8. IsWalk(v, m + 1, b, seen, r, refused)
    BY <2>7 DEF IsWalk, J
  <2> QED BY <2>8
<1>3. X \subseteq Nat
  OBVIOUS
<1> HIDE DEF X
<1>4. X = Nat
  BY <1>1, <1>2, <1>3, NumbersByStep
<1> QED BY <1>4 DEF X

LEMMA VerdictIsWalk ==
    ASSUME NEW b, NEW seen, NEW r, NEW refused, Len(PathsOf(b, r)) \in Nat
    PROVE  \E w : /\ IsWalk(w, Len(PathsOf(b, r)), b, seen, r, refused)
                  /\ Verdict(b, seen, r, refused) = w[Len(PathsOf(b, r))]
<1> DEFINE W == CHOOSE w : IsWalk(w, Len(PathsOf(b, r)), b, seen, r, refused)
<1>1. IsWalk(W, Len(PathsOf(b, r)), b, seen, r, refused)
  BY WalkExists
<1>2. Verdict(b, seen, r, refused) = W[Len(PathsOf(b, r))]
  BY DEF Verdict, IsWalk, Start
<1> HIDE DEF W
<1> QED BY <1>1, <1>2

LEMMA OneAndMore ==
    ASSUME NEW X, NEW d \in X, NEW t \in Seq(X)
    PROVE  /\ Len(<<d>> \o t) = 1 + Len(t) /\ Len(t) \in Nat
           /\ (<<d>> \o t)[1] = d
           /\ \A i \in 2..(1 + Len(t)) : (<<d>> \o t)[i] = t[i - 1]
<1>1. <<d>> \in Seq(X) /\ Len(<<d>>) = 1 /\ <<d>>[1] = d
  OBVIOUS
<1>2. Len(t) \in Nat
  OBVIOUS
<1> QED BY <1>1, <1>2, ConcatProperties

\* The paths of a batch, the data file first if it was listed.
LEMMA PathsAreThose ==
    ASSUME NEW b, NEW r, IsFiniteSet(r.objects)
    PROVE  /\ Len(PathsOf(b, r)) \in Nat
           /\ \A i \in 1..Len(PathsOf(b, r)) :
                 /\ PathsOf(b, r)[i] \in r.objects
                 /\ PathsOf(b, r)[i][1] = b
                 /\ PathsOf(b, r)[i] = Data(b) => i = 1
           /\ Data(b) \in r.objects => Len(PathsOf(b, r)) > 0 /\ PathsOf(b, r)[1] = Data(b)
<1>0. PICK X : X = r.objects
  OBVIOUS
<1> DEFINE S == {p \in X : p[1] = b /\ p # Data(b)}
<1> DEFINE rest == SetToSeq(S)
<1>1. Cardinality(S) \in Nat /\ ExistsBijection(1..Cardinality(S), S)
  <2>1. S \subseteq X /\ IsFiniteSet(X)
    BY <1>0
  <2> QED BY <2>1, FS_Subset, FS_CardinalityType
<1>2. \E f \in [1..Cardinality(S) -> S] : IsInjective(f)
  BY <1>1 DEF ExistsBijection, Bijection, Injection
<1>3. rest \in [1..Cardinality(S) -> S]
  BY <1>2 DEF SetToSeq
<1> HIDE DEF rest
<1>4. rest \in Seq(S) /\ Len(rest) = Cardinality(S)
  <2> HIDE DEF S
  <2>1. PICK n \in Nat : n = Cardinality(S)
    BY <1>1
  <2>2. rest \in [1..n -> S]
    BY <1>3, <2>1
  <2>3. rest \in Seq(S) /\ Len(rest) = n
    BY <2>1, <2>2
  <2> QED BY <2>1, <2>3
<1>5. \A i \in 1..Len(rest) : rest[i] \in X /\ rest[i][1] = b /\ rest[i] # Data(b)
  BY <1>3, <1>4
<1>6. rest \in Seq(X) /\ Len(rest) \in Nat
  BY <1>1, <1>3, <1>4
<1>7. Data(b)[1] = b
  BY DEF Data
<1>8. CASE Data(b) \in X
  <2>1. PICK s : s = PathsOf(b, r)
    OBVIOUS
  <2>2. s = <<Data(b)>> \o rest
    BY <1>0, <1>8, <2>1 DEF PathsOf, rest
  <2>3. /\ Len(s) = 1 + Len(rest) /\ s[1] = Data(b)
        /\ \A i \in 2..(1 + Len(rest)) : s[i] = rest[i - 1]
    BY <1>6, <1>8, <2>2, OneAndMore
  <2>4. ASSUME NEW i \in 1..Len(s) PROVE s[i] \in X /\ s[i][1] = b /\ (s[i] = Data(b) => i = 1)
    <3>1. CASE i = 1
      BY <1>7, <1>8, <2>3, <3>1
    <3>2. CASE i # 1
      <4>1. i \in 2..(1 + Len(rest)) /\ i - 1 \in 1..Len(rest)
        BY <1>6, <2>3, <3>2
      <4> QED BY <1>5, <2>3, <4>1
    <3> QED BY <3>1, <3>2
  <2>5. Len(s) \in Nat /\ Len(s) > 0
    BY <1>6, <2>3
  <2> QED BY <1>0, <2>1, <2>3, <2>4, <2>5
<1>9. CASE Data(b) \notin X
  <2>1. PICK s : s = PathsOf(b, r)
    OBVIOUS
  <2>2. s = rest
    <3>1. s = << >> \o rest
      BY <1>0, <1>9, <2>1 DEF PathsOf, rest
    <3> QED BY <3>1, <1>6, ConcatEmptySeq
  <2> QED BY <1>0, <1>5, <1>6, <1>9, <2>1, <2>2
<1> QED BY <1>8, <1>9

\* What the walk has concluded after i paths.
WalkOK(x, i, b, seen, r) ==
    /\ x = [at |-> x.at, old |-> x.old, gone |-> x.gone]
    /\ x.at = -1 \/ x.at = r.read \/ (b \in DOMAIN seen /\ x.at = seen[b])
    /\ \A p \in x.gone : p \in r.objects /\ p[1] = b /\ ~IsObjectProtected(p, r)
    /\ x.old \/ x.gone # {} => Grace = 0 \/ b \in r.old
    /\ i = 0 => x.gone = {}
    /\ i > 0 /\ Grace # 0 /\ Data(b) \in r.objects /\ b \in r.known => ~x.old /\ x.gone = {}

LEMMA JudgeOne ==
    ASSUME NEW i \in Nat, NEW b, NEW seen, NEW r, NEW refused, NEW x, NEW p,
           WalkOK(x, i, b, seen, r),
           p \in r.objects, p[1] = b, p = Data(b) => i = 0,
           Data(b) \in r.objects /\ i = 0 => p = Data(b)
    PROVE  WalkOK(JudgePath(x, p, r, refused), i + 1, b, seen, r)
<1>1. PICK y : y = JudgePath(x, p, r, refused)
  OBVIOUS
<1>2. /\ x = [at |-> x.at, old |-> x.old, gone |-> x.gone]
      /\ x.at = -1 \/ x.at = r.read \/ (b \in DOMAIN seen /\ x.at = seen[b])
      /\ \A q \in x.gone : q \in r.objects /\ q[1] = b /\ ~IsObjectProtected(q, r)
      /\ x.old \/ x.gone # {} => Grace = 0 \/ b \in r.old
      /\ i = 0 => x.gone = {}
      /\ i > 0 /\ Grace # 0 /\ Data(b) \in r.objects /\ b \in r.known => ~x.old /\ x.gone = {}
  BY DEF WalkOK
<1>3. CASE IsObjectProtected(p, r)
  <2>1. y = [at |-> -1, old |-> Grace = 0, gone |-> x.gone]
    BY <1>1, <1>2, <1>3 DEF JudgePath, Unseen
  <2>2. Grace # 0 /\ Data(b) \in r.objects /\ b \in r.known => x.gone = {}
    BY <1>2
  <2>3. y.at = -1 /\ y.old = (Grace = 0) /\ y.gone = x.gone
    BY <2>1
  <2>4. y = [at |-> y.at, old |-> y.old, gone |-> y.gone]
    BY <2>1
  <2>5. i + 1 # 0
    OBVIOUS
  <2> QED BY <1>1, <1>2, <2>2, <2>3, <2>4, <2>5 DEF WalkOK
<1>4. CASE ~IsObjectProtected(p, r) /\ x.old /\ p \notin refused
  <2>1. y = [at |-> -1, old |-> Grace = 0, gone |-> x.gone \cup {p}]
    BY <1>1, <1>2, <1>4 DEF JudgePath, Unseen
  <2>2. Grace = 0 \/ b \in r.old
    BY <1>2, <1>4
  <2>3. ~(Grace # 0 /\ Data(b) \in r.objects /\ b \in r.known)
    <3>1. CASE i = 0
      BY <1>4, <3>1 DEF IsObjectProtected, Data
    <3>2. CASE i # 0
      BY <1>2, <1>4, <3>2
    <3> QED BY <3>1, <3>2
  <2>4. \A q \in y.gone : q \in r.objects /\ q[1] = b /\ ~IsObjectProtected(q, r)
    BY <1>2, <1>4, <2>1
  <2> QED BY <1>1, <2>1, <2>2, <2>3, <2>4 DEF WalkOK
<1>5. CASE ~IsObjectProtected(p, r) /\ ~(x.old /\ p \notin refused)
  <2>1. y = [at |-> IF x.at = -1 THEN r.read ELSE x.at, old |-> x.old, gone |-> x.gone]
    BY <1>1, <1>2, <1>5 DEF JudgePath
  <2>2. i = 0 => ~(Data(b) \in r.objects /\ b \in r.known)
    BY <1>5 DEF IsObjectProtected, Data
  <2> QED BY <1>1, <1>2, <2>1, <2>2 DEF WalkOK
<1> QED BY <1>3, <1>4, <1>5

\* A walk deletes paths of its batch that are not protected; the data file
\* only if it has been seen long ago, and no vector next to a known file.
LEMMA VerdictOK ==
    ASSUME NEW b, NEW seen, NEW r, NEW refused, IsFiniteSet(r.objects)
    PROVE  \E i \in Nat : /\ WalkOK(Verdict(b, seen, r, refused), i, b, seen, r)
                          /\ Data(b) \in r.objects => i > 0
<1>1. PICK s : s = PathsOf(b, r)
  OBVIOUS
<1>2. PICK n \in Nat : n = Len(s)
  BY <1>1, PathsAreThose
<1>3. /\ \A i \in 1..n : s[i] \in r.objects /\ s[i][1] = b /\ (s[i] = Data(b) => i = 1)
      /\ Data(b) \in r.objects => n > 0 /\ s[1] = Data(b)
  BY <1>1, <1>2, PathsAreThose
<1>4. PICK w : IsWalk(w, n, b, seen, r, refused) /\ Verdict(b, seen, r, refused) = w[n]
  BY <1>1, <1>2, VerdictIsWalk
<1>5. \A i \in 0..n : w[i] = IF i = 0 THEN Start(b, seen, r) ELSE JudgePath(w[i - 1], s[i], r, refused)
  BY <1>1, <1>4 DEF IsWalk
<1> DEFINE X == {i \in Nat : i <= n => WalkOK(w[i], i, b, seen, r)}
<1>6. 0 \in X
  <2>1. w[0] = Start(b, seen, r)
    BY <1>5
  <2>2. /\ w[0] = [at |-> w[0].at, old |-> w[0].old, gone |-> w[0].gone]
        /\ w[0].gone = {} /\ (w[0].old => Grace = 0 \/ b \in r.old)
        /\ w[0].at = -1 \/ (b \in DOMAIN seen /\ w[0].at = seen[b])
    <3>1. PICK v : v = IF b \in DOMAIN seen THEN seen[b] ELSE -1
      OBVIOUS
    <3> DEFINE o == Grace = 0 \/ b \in r.old
    <3>2. w[0] = [at |-> v, old |-> o, gone |-> {}]
      BY <2>1, <3>1 DEF Start
    <3>o. o => Grace = 0 \/ b \in r.old
      OBVIOUS
    <3> HIDE DEF o
    <3>3. v = -1 \/ (b \in DOMAIN seen /\ v = seen[b])
      BY <3>1
    <3>4. w[0].at = v /\ w[0].gone = {} /\ (w[0].old => Grace = 0 \/ b \in r.old)
      <4>1. w[0].at = v /\ w[0].gone = {} /\ w[0].old = o
        BY <3>2
      <4> QED BY <3>o, <4>1
    <3>5. w[0] = [at |-> w[0].at, old |-> w[0].old, gone |-> w[0].gone]
      BY <3>2
    <3> QED BY <3>3, <3>4, <3>5
  <2>3. WalkOK(w[0], 0, b, seen, r)
    BY <2>2 DEF WalkOK
  <2> QED BY <2>3
<1>7. ASSUME NEW i \in X PROVE i + 1 \in X
  <2>1. SUFFICES ASSUME i + 1 <= n PROVE WalkOK(w[i + 1], i + 1, b, seen, r)
    OBVIOUS
  <2>2. i \in Nat /\ WalkOK(w[i], i, b, seen, r) /\ i + 1 \in 1..n /\ i + 1 \in 0..n
    BY <2>1
  <2>3. w[i + 1] = JudgePath(w[i], s[i + 1], r, refused)
    BY <1>5, <2>2
  <2>4. PICK p : p = s[i + 1]
    OBVIOUS
  <2>5. /\ p \in r.objects /\ p[1] = b /\ (p = Data(b) => i = 0)
        /\ Data(b) \in r.objects /\ i = 0 => p = Data(b)
    BY <1>3, <2>2, <2>4
  <2> HIDE DEF X
  <2> QED BY <2>2, <2>3, <2>4, <2>5, JudgeOne
<1>8. X \subseteq Nat
  OBVIOUS
<1> HIDE DEF X
<1>9. n \in X
  BY <1>6, <1>7, <1>8, NumbersByStep
<1>10. WalkOK(w[n], n, b, seen, r)
  BY <1>9 DEF X
<1> QED BY <1>3, <1>4, <1>10

-----------------------------------------------------------------------------
(* What the operations do to the manifest. *)

LEMMA NowIsLate == Now \in Nat /\ Grace \in Nat /\ Grace <= Now
<1>1. Grace \in Nat /\ TTL \in Nat
  BY CleanupAssumption
<1>2. \E x \in {Grace, TTL} : \A y \in {Grace, TTL} : x >= y
  <2>1. CASE Grace >= TTL
    BY <1>1, <2>1
  <2>2. CASE TTL >= Grace
    BY <1>1, <2>2
  <2> QED BY <1>1, <2>1, <2>2
<1>3. Now \in {Grace, TTL} /\ \A y \in {Grace, TTL} : Now >= y
  BY <1>2 DEF Now, Max
<1> QED BY <1>1, <1>3

\* A file is present as long as it is not retired.
LEMMA PresentIs ==
    ASSUME Manifest, NEW b
    PROVE  b \in Present <=> b \in DOMAIN files /\ files[b].deleted_at = 0
BY DEF Manifest, Present, ProtectsAt

\* Files come in at the next snapshot and are retired at the next snapshot.
FilesGrow ==
    /\ snapshot_version' \in Nat /\ snapshot_version <= snapshot_version'
    /\ \A b \in DOMAIN files :
          /\ b \in DOMAIN files'
          /\ files'[b].table = files[b].table
          /\ files'[b].valid_from = files[b].valid_from
          /\ \/ files'[b].deleted_at = files[b].deleted_at
             \/ files[b].deleted_at = 0 /\ files'[b].deleted_at > snapshot_version
    /\ \A b \in DOMAIN files' \ DOMAIN files : files'[b].valid_from > snapshot_version

FilesStep(New, I) ==
    /\ snapshot_version' = snapshot_version + 1
    /\ DOMAIN files' = DOMAIN files \cup New
    /\ \A b \in New : \E t, s, n : files'[b] = NewFile(t, s, n)
    /\ \A b \in DOMAIN files \ I : files'[b] = files[b]
    /\ \A b \in I : files'[b] = [files[b] EXCEPT !.deleted_at = snapshot_version + 1]

LEMMA StepGrows ==
    ASSUME Manifest, NEW New \in SUBSET Batches, NEW I \in SUBSET DOMAIN files,
           New \cap DOMAIN files = {}, \A b \in I : files[b].deleted_at = 0,
           FilesStep(New, I)
    PROVE  FilesGrow /\ Manifest'
<1>1. snapshot_version \in Nat /\ snapshot_version' = snapshot_version + 1
  BY DEF Manifest, FilesStep
<1>2. ASSUME NEW b \in New
      PROVE  FileShape(files'[b]) /\ files'[b].valid_from = snapshot_version + 1 /\ files'[b].deleted_at = 0
  <2>1. PICK t, s, n : files'[b] = NewFile(t, s, n)
    BY DEF FilesStep
  <2> QED BY <2>1 DEF NewFile, FileShape
<1>3. ASSUME NEW b \in I
      PROVE  /\ FileShape(files'[b]) /\ files'[b].table = files[b].table
             /\ files'[b].valid_from = files[b].valid_from
             /\ files'[b].deleted_at = snapshot_version + 1
  <2>1. files'[b] = [files[b] EXCEPT !.deleted_at = snapshot_version + 1] /\ FileShape(files[b])
    BY DEF FilesStep, Manifest
  <2> QED BY <2>1 DEF FileShape
<1>4. \A b \in DOMAIN files \ I : files'[b] = files[b]
  BY DEF FilesStep
<1>5. DOMAIN files' = DOMAIN files \cup New
  BY DEF FilesStep
<1>6. FilesGrow
  BY <1>1, <1>2, <1>3, <1>4, <1>5 DEF FilesGrow
<1>7. ASSUME NEW b \in DOMAIN files'
      PROVE  /\ b \in Batches /\ FileShape(files'[b])
             /\ files'[b].valid_from \in 0..snapshot_version'
             /\ files'[b].deleted_at \in 0..snapshot_version'
  <2>1. CASE b \in New
    BY <1>1, <1>2, <2>1
  <2>2. CASE b \in I
    BY <1>1, <1>3, <2>2 DEF Manifest
  <2>3. CASE b \in DOMAIN files \ I
    BY <1>1, <1>4, <2>3 DEF Manifest
  <2> QED BY <1>5, <2>1, <2>2, <2>3
<1>8. Manifest'
  BY <1>1, <1>7 DEF Manifest
<1> QED BY <1>6, <1>8

LEMMA StillGrows ==
    ASSUME Manifest, files' = files,
           snapshot_version' = snapshot_version \/ snapshot_version' = snapshot_version + 1
    PROVE  FilesGrow /\ Manifest'
<1>1. FilesGrow
  BY DEF FilesGrow, Manifest
<1>2. Manifest'
  BY DEF Manifest
<1> QED BY <1>1, <1>2

LEMMA CommitAdds ==
    ASSUME Manifest, NEW b \in Batches, NEW K, NEW s, NEW n, NEW at, CommitFiles(b, Table, s, n, K, at)
    PROVE  /\ FilesGrow /\ Manifest' /\ b \notin DOMAIN files
           /\ DOMAIN files' = DOMAIN files \cup {b} /\ DOMAIN in_flight' = DOMAIN in_flight \ {b}
           /\ deletions' = deletions
<1>1. /\ b \notin DOMAIN files /\ files' = Over(Entry(b, NewFile(Table, s, n)), files)
      /\ in_flight' = Without(in_flight, {b}) /\ deletions' = deletions
      /\ snapshot_version' = snapshot_version + 1
  BY DEF CommitFiles, CommitAccepted, NextSnapshot
<1>2. FilesStep({b}, {})
  BY <1>1 DEF FilesStep, Over, Entry
<1>3. FilesGrow /\ Manifest'
  BY <1>1, <1>2, StepGrows
<1>4. DOMAIN files' = DOMAIN files \cup {b}
  BY <1>2 DEF FilesStep
<1>5. DOMAIN in_flight' = DOMAIN in_flight \ {b}
  BY <1>1 DEF Without, Restrict
<1> QED BY <1>1, <1>3, <1>4, <1>5

LEMMA MergeAdds ==
    ASSUME Manifest, NEW n \in Batches, n \notin DOMAIN files, NEW O, NEW s, NEW m, NEW e, NEW p,
           CommitCompaction(O, n, Table, s, m, e, p)
    PROVE  /\ FilesGrow /\ Manifest'
           /\ DOMAIN files' = DOMAIN files \cup {n} /\ DOMAIN in_flight' = DOMAIN in_flight \ {n}
           /\ deletions' = deletions
<1>1. /\ \A b \in O : AnchorAlive(b)
      /\ files' = Over(Entry(n, NewFile(Table, s, m)), Over(Retired(InputsLeft(O)), files))
      /\ in_flight' = Without(in_flight, {n}) /\ deletions' = deletions
      /\ snapshot_version' = snapshot_version + 1
  BY DEF CommitCompaction, CompactionAccepted, NextSnapshot
<1>2. InputsLeft(O) \subseteq DOMAIN files /\ \A b \in InputsLeft(O) : files[b].deleted_at = 0
  BY <1>1 DEF InputsLeft, AnchorAlive
<1>3. FilesStep({n}, InputsLeft(O))
  <2>1. PICK I : I = InputsLeft(O)
    OBVIOUS
  <2>2. PICK f : f = Over(Retired(I), files)
    OBVIOUS
  <2>3. /\ DOMAIN f = DOMAIN files
        /\ \A b \in DOMAIN files \ I : f[b] = files[b]
        /\ \A b \in I : f[b] = [files[b] EXCEPT !.deleted_at = snapshot_version + 1]
    BY <1>2, <2>1, <2>2 DEF Over, Retired
  <2>4. files' = Over(Entry(n, NewFile(Table, s, m)), f)
    BY <1>1, <2>1, <2>2
  <2>5. /\ DOMAIN files' = DOMAIN files \cup {n} /\ files'[n] = NewFile(Table, s, m)
        /\ \A b \in DOMAIN files : files'[b] = f[b]
    BY <2>3, <2>4 DEF Over, Entry
  <2> QED BY <1>1, <1>2, <2>1, <2>3, <2>5 DEF FilesStep
<1>4. FilesGrow /\ Manifest'
  BY <1>2, <1>3, StepGrows
<1>5. DOMAIN files' = DOMAIN files \cup {n}
  BY <1>3 DEF FilesStep
<1>6. DOMAIN in_flight' = DOMAIN in_flight \ {n}
  BY <1>1 DEF Without, Restrict
<1> QED BY <1>1, <1>4, <1>5, <1>6

LEMMA DeletionsAdd ==
    ASSUME Manifest, NEW d, NEW D, ApplyDeletions(d, Table, D)
    PROVE  /\ FilesGrow /\ Manifest' /\ files' = files /\ in_flight' = in_flight
           /\ DOMAIN deletions' \subseteq DOMAIN deletions \cup ({d} \X DOMAIN D)
<1>1. /\ files' = files /\ snapshot_version' = snapshot_version + 1 /\ in_flight' = in_flight
      /\ deletions' = Over(NewDeletions(Table, FreshDeletions(d, D), D), deletions)
  BY DEF ApplyDeletions, NextSnapshot, memory
<1>2. DOMAIN deletions' \subseteq DOMAIN deletions \cup ({d} \X DOMAIN D)
  BY <1>1 DEF Over, NewDeletions, FreshDeletions
<1> QED BY <1>1, <1>2, StillGrows

LEMMA UpdateAdds ==
    ASSUME Manifest, NEW d, NEW D, NEW N, NEW at, DOMAIN N \subseteq Batches,
           ApplyUpdate(d, Table, D, N, at)
    PROVE  /\ FilesGrow /\ Manifest' /\ in_flight' = in_flight
           /\ DOMAIN files' = DOMAIN files \cup DOMAIN N
           /\ DOMAIN deletions' \subseteq DOMAIN deletions \cup ({d} \X DOMAIN D)
<1>1. PICK new : new = DOMAIN N \ DOMAIN files
  OBVIOUS
<1>2. /\ files' = Over([b \in new |-> NewFile(Table, N[b].shard, N[b].rows)], files)
      /\ snapshot_version' = snapshot_version + 1 /\ in_flight' = in_flight
      /\ deletions' = Over(NewDeletions(Table, FreshDeletions(d, D), D), deletions)
  BY <1>1 DEF ApplyUpdate, NextSnapshot
<1>3. FilesStep(new, {})
  BY <1>1, <1>2 DEF FilesStep, Over
<1>4. FilesGrow /\ Manifest'
  BY <1>1, <1>3, StepGrows
<1>5. DOMAIN files' = DOMAIN files \cup DOMAIN N
  BY <1>1, <1>3 DEF FilesStep
<1>6. DOMAIN deletions' \subseteq DOMAIN deletions \cup ({d} \X DOMAIN D)
  BY <1>2 DEF Over, NewDeletions, FreshDeletions
<1> QED BY <1>2, <1>4, <1>5, <1>6

-----------------------------------------------------------------------------
(* Steps of writers, statements and the sweep, as the collectors see them. *)

LEMMA NowStays == Now' = Now
BY DEF Now

\* The collectors and the queries keep their shapes.
LEMMA ShapesStay ==
    ASSUME Shapes, UNCHANGED <<round, first_seen, query>>, Manifest, FilesGrow, JobShapes', StmtShapes'
    PROVE  Shapes'
<1>1. UNCHANGED <<round, first_seen, query>> /\ Now' = Now
  BY NowStays
<1>2. RoundShapes'
  <2>1. \A g \in Collectors : RoundShape(round'[g])
    BY <1>1 DEF Shapes, RoundShapes
  <2> QED BY <1>1, <2>1 DEF Shapes, RoundShapes, RoundShape, Idle
<1>3. SeenShapes'
  BY <1>1 DEF Shapes, SeenShapes, SeenShape
<1>4. QueryShapes'
  <2>1. snapshot_version \in Nat /\ snapshot_version' \in Nat /\ snapshot_version <= snapshot_version'
    BY DEF FilesGrow, Manifest
  <2>2. ASSUME NEW q \in Queries PROVE QueryShape(query[q])'
    <3>1. QueryShape(query[q]) /\ query'[q] = query[q]
      BY <1>1 DEF Shapes, QueryShapes
    <3>2. query[q].snapshot \in 0..snapshot_version => query[q].snapshot \in 0..snapshot_version'
      BY <2>1
    <3> QED BY <1>1, <3>1, <3>2 DEF QueryShape, Idle
  <2>3. DOMAIN query' = Queries
    BY <1>1 DEF Shapes, QueryShapes
  <2> QED BY <2>2, <2>3 DEF QueryShapes
<1> QED BY <1>2, <1>3, <1>4 DEF Shapes

Calm ==
    /\ FilesGrow /\ Manifest'
    /\ \A b \in DOMAIN files' \ DOMAIN files : job[b].at # "done"
    /\ NewFiles \subseteq NewFiles'
    /\ \A b \in Batches : job[b].at = "done" => job'[b].at = "done"
    /\ objects \subseteq objects'
    /\ \A b \in Batches : Data(b) \in objects' \ objects => b \notin DOMAIN files
    /\ \A b \in DOMAIN in_flight \ DOMAIN in_flight' : job'[b].at = "done"
    /\ UNCHANGED <<gcVars, query>>

\* What is finished stays finished, and a file no longer present stays so.
LEMMA FinishedStays ==
    ASSUME Manifest, Calm, NEW b \in Batches
    PROVE  /\ b \notin Present /\ (b \in DOMAIN files \/ job[b].at = "done") => b \notin Present'
           /\ Finished(b) => Finished(b)'
<1>1. ASSUME b \notin Present, b \in DOMAIN files \/ job[b].at = "done" PROVE b \notin Present'
  <2>1. b \in DOMAIN files => files[b].deleted_at # 0
    BY <1>1, PresentIs
  <2>2. b \in DOMAIN files' => b \in DOMAIN files
    BY <1>1 DEF Calm
  <2>3. b \in DOMAIN files => files'[b].deleted_at = files[b].deleted_at
    BY <2>1 DEF Calm, FilesGrow
  <2>4. b \in DOMAIN files' => files'[b].deleted_at # 0 /\ files'[b].deleted_at <= snapshot_version'
    BY <2>1, <2>2, <2>3 DEF Calm, Manifest
  <2>5. snapshot_version' \in Nat
    BY DEF Calm, FilesGrow
  <2> QED BY <2>4, <2>5 DEF Calm, Manifest, Present, ProtectsAt
<1>2. Finished(b) => Finished(b)'
  BY <1>1 DEF Finished, Calm
<1> QED BY <1>1, <1>2

LEMMA StockStays ==
    ASSUME Calm, NEW CONSTANT S, Stock(S)
    PROVE  Stock(S)'
<1>1. DOMAIN files \subseteq DOMAIN files'
  BY DEF Calm, FilesGrow
<1>2. ASSUME NEW b \in Batches, Data(b) \in S, b \notin NewFiles', job'[b].at # "done"
      PROVE  b \in DOMAIN in_flight'
  <2>1. b \notin NewFiles /\ job[b].at # "done"
    BY <1>2 DEF Calm
  <2>2. b \in DOMAIN in_flight
    BY <1>2, <2>1 DEF Stock
  <2> QED BY <1>2, <2>2 DEF Calm
<1> QED BY <1>1, <1>2 DEF Stock, Data

\* Nothing becomes visible at a snapshot that a query has read.
LEMMA ReadingStays ==
    ASSUME Shapes, Manifest, Calm, NEW q \in Queries, NEW b, Reading(q, b)'
    PROVE  Reading(q, b)
<1>1. query' = query /\ shared' = shared /\ NewFiles \subseteq NewFiles'
  BY DEF Calm, gcVars
<1>2. query[q].at = "reading" /\ Now - query[q].since < Grace
  BY <1>1 DEF Reading, Now
<1>3. query[q].snapshot \in 0..snapshot_version /\ snapshot_version \in Nat
  BY <1>2 DEF Shapes, QueryShapes, QueryShape, Idle, Manifest
<1>4. PICK s : s = query[q].snapshot
  OBVIOUS
<1>5. s \in Nat /\ s <= snapshot_version
  BY <1>3, <1>4
<1>6. b \in DOMAIN files' /\ files'[b].table = Table /\ VisibleAt(files'[b], s)
  BY <1>1, <1>4 DEF Reading, VisibleFiles
<1>7. files'[b].valid_from <= s /\ ProtectsAt(files'[b], s)
  BY <1>6 DEF VisibleAt
<1>8. b \in DOMAIN files
  BY <1>5, <1>6, <1>7 DEF Calm, FilesGrow, Manifest
<1>9. files[b].table = Table /\ files[b].valid_from <= s /\ ProtectsAt(files[b], s)
  BY <1>6, <1>7, <1>8 DEF Calm, FilesGrow, ProtectsAt
<1>10. b \in VisibleFiles(Table, query[q].snapshot)
  BY <1>4, <1>8, <1>9 DEF VisibleFiles, VisibleAt
<1>11. b \notin NewFiles \cup shared
  BY <1>1 DEF Reading
<1> QED BY <1>2, <1>10, <1>11 DEF Reading

LEMMA CalmKeeps ==
    ASSUME OInv, Calm
    PROVE  Rounds' /\ Observed' /\ Judged' /\ Served'
<1>1. round' = round /\ first_seen' = first_seen /\ shared' = shared /\ query' = query
  BY DEF Calm, gcVars
<1>2. Shapes /\ Manifest
  BY DEF OInv
<1>3. /\ NewFiles \subseteq NewFiles' /\ objects \subseteq objects'
      /\ \A b \in Batches : Data(b) \in objects' \ objects => b \notin DOMAIN files
  BY DEF Calm
<1>4. \A q \in Queries : \A b : Reading(q, b)' => Reading(q, b)
  BY <1>2, ReadingStays
<1>5. \A b \in Batches : /\ Finished(b) => Finished(b)'
                         /\ b \notin Present /\ b \in DOMAIN files => b \notin Present'
  BY <1>2, FinishedStays
<1>6. Rounds'
  <2> SUFFICES ASSUME NEW g \in Collectors, round[g].at # "none" PROVE RoundOK(round[g])'
    BY <1>1 DEF Rounds
  <2>1. RoundOK(round[g])
    BY DEF OInv, Rounds
  <2>2. PICK r : r = round[g]
    OBVIOUS
  <2>3. /\ Stock(r.objects)
        /\ \A b \in Batches, d \in DvIds :
              <<b, d>> \in r.objects /\ Data(b) \notin r.objects => Data(b) \notin objects
        /\ r.at \in {"known", "judge"} =>
              \A b \in Batches \ r.known :
                  /\ Data(b) \in r.objects /\ b \notin NewFiles => Finished(b)
                  /\ \A d \in DvIds : <<b, d>> \in r.objects => b \notin Present
    BY <2>1, <2>2 DEF RoundOK
  <2>4. \A b \in Batches, d \in DvIds : <<b, d>> \in r.objects => b \in DOMAIN files
    BY <2>3 DEF Stock
  <2>5. Stock(r.objects)'
    BY <2>3, StockStays
  <2>6. \A b \in Batches, d \in DvIds :
            <<b, d>> \in r.objects /\ Data(b) \notin r.objects => Data(b) \notin objects'
    BY <1>3, <2>3, <2>4
  <2>7. r.at \in {"known", "judge"} =>
            \A b \in Batches \ r.known :
                /\ Data(b) \in r.objects /\ b \notin NewFiles' => Finished(b)'
                /\ \A d \in DvIds : <<b, d>> \in r.objects => b \notin Present'
    BY <1>3, <1>5, <2>3, <2>4
  <2>8. r = round'[g]
    BY <1>1, <2>2
  <2> QED BY <2>5, <2>6, <2>7, <2>8 DEF RoundOK, Data, Stock
<1>7. Observed'
  <2> SUFFICES ASSUME NEW g \in Collectors, NEW b \in DOMAIN first_seen[g]
               PROVE  /\ b \notin NewFiles' \cup shared => Finished(b)'
                      /\ \A q \in Queries : Reading(q, b)' => first_seen[g][b] >= query[q].since
    BY <1>1 DEF Observed, SeenOK
  <2>1. b \in Batches
    BY <1>2 DEF Shapes, SeenShapes, SeenShape
  <2>2. /\ b \notin NewFiles \cup shared => Finished(b)
        /\ \A q \in Queries : Reading(q, b) => first_seen[g][b] >= query[q].since
    BY DEF OInv, Observed, SeenOK
  <2> QED BY <1>3, <1>4, <1>5, <2>1, <2>2
<1>8. Judged'
  <2> SUFFICES ASSUME NEW g \in Collectors, round[g].at = "judge"
               PROVE  /\ round[g].old \subseteq DOMAIN first_seen[g]
                      /\ \A q \in Queries, b \in Batches : Reading(q, b)' =>
                            /\ b \notin round[g].old
                            /\ Data(b) \in round[g].objects /\ b \notin round[g].known
                                   => round[g].read >= query[q].since
    BY <1>1 DEF Judged, JudgedOK, Data
  <2> QED BY <1>4 DEF OInv, Judged, JudgedOK
<1>9. Served'
  <2> SUFFICES ASSUME NEW q \in Queries, NEW b \in Batches, Reading(q, b)' PROVE Data(b) \in objects'
    BY DEF Served, Data
  <2>1. Reading(q, b)
    BY <1>4
  <2> QED BY <1>3, <2>1 DEF OInv, Served
<1> QED BY <1>6, <1>7, <1>8, <1>9

-----------------------------------------------------------------------------
(* Flushes and merges. *)

\* A job moves on, and with its commit its file comes in.
LEMMA JobStep ==
    ASSUME OInv, NEW b \in Batches, NEW x, JobShape(x), x.at # "none",
           job' = [job EXCEPT ![b] = x], job[b].at # "done", b \notin NewFiles,
           FilesGrow, Manifest', deletions' = deletions,
           stmt' = stmt, UNCHANGED gcVars, query' = query,
           DOMAIN files' \ DOMAIN files \subseteq {b},
           b \in DOMAIN files' \ DOMAIN files
               => x.at = "done" /\ Data(b) \in objects',
           objects \subseteq objects', objects' \subseteq objects \cup {Data(b)},
           DOMAIN in_flight \ {b} \subseteq DOMAIN in_flight',
           b \in DOMAIN in_flight => b \in DOMAIN in_flight' \/ x.at = "done",
           x.at # "done" /\ Data(b) \in objects' => b \in DOMAIN in_flight',
           x.at \in {"announced", "uploaded", "written"} => b \in DOMAIN in_flight',
           x.at \in {"uploaded", "written"} => Data(b) \in objects'
    PROVE  OInv'
<1>1. Shapes /\ Manifest /\ Owned /\ Flying /\ Anchored /\ Stock(objects) /\ AnnouncedThere /\ VectorsKept
  BY DEF OInv
<1>2. /\ DOMAIN job' = Batches /\ job'[b] = x
      /\ \A y \in Batches \ {b} : job'[y] = job[y]
  BY <1>1 DEF Shapes, JobShapes
<1>3. Started' = Started /\ NewFiles' = NewFiles
  BY DEF Started, NewFiles
<1>4. b \notin DOMAIN files
  BY <1>1 DEF Owned
<1>5. \A y \in Batches : Data(y) \in objects' => Data(y) \in objects \/ y = b
  BY DEF Data
<1>6. Calm
  <2>1. \A y \in DOMAIN files' \ DOMAIN files : job[y].at # "done"
    OBVIOUS
  <2>2. \A y \in Batches : job[y].at = "done" => job'[y].at = "done"
    BY <1>2
  <2>3. \A y \in Batches : Data(y) \in objects' \ objects => y \notin DOMAIN files
    BY <1>4, <1>5
  <2>4. \A y \in DOMAIN in_flight \ DOMAIN in_flight' : job'[y].at = "done"
    BY <1>2
  <2> QED BY <1>3, <2>1, <2>2, <2>3, <2>4 DEF Calm
<1>7. Rounds' /\ Observed' /\ Judged' /\ Served'
  BY <1>6, CalmKeeps
<1>8. Shapes'
  <2>1. JobShapes'
    <3>1. \A y \in Batches : JobShape(job'[y])
      BY <1>1, <1>2 DEF Shapes, JobShapes
    <3> QED BY <1>2, <3>1 DEF JobShapes, JobShape, Idle
  <2>2. StmtShapes'
    BY <1>1 DEF Shapes, StmtShapes, StmtShape, Idle
  <2>3. UNCHANGED <<round, first_seen, query>>
    BY DEF gcVars
  <2> QED BY <1>1, <2>1, <2>2, <2>3, ShapesStay
<1>9. Owned'
  BY <1>1, <1>2, <1>3 DEF Owned, Manifest
<1>10. Flying'
  <2>1. ASSUME NEW y \in Batches
        PROVE  /\ job'[y].at \in {"announced", "uploaded", "written"} => y \in DOMAIN in_flight'
               /\ job'[y].at \in {"uploaded", "written"} => Data(y) \in objects'
    <3>1. CASE y = b
      BY <1>2, <2>1, <3>1
    <3>2. CASE y # b
      BY <1>1, <1>2, <2>1, <3>2 DEF Flying
    <3> QED BY <3>1, <3>2
  <2>2. \A y \in Batches : Data(y)' = Data(y)
    BY DEF Data
  <2> QED BY <2>1, <2>2 DEF Flying
<1>11. Anchored'
  BY <1>1, <1>3, <1>6 DEF Anchored, Calm, FilesGrow
<1>12. Stock(objects)'
  <2>1. IsFiniteSet(objects')
    BY <1>1, FS_AddElement, FS_Subset DEF Stock
  <2>2. objects' \subseteq Batches \X ({"data"} \cup DvIds)
    BY <1>1 DEF Stock, Data
  <2>3. ASSUME NEW y \in Batches, Data(y) \in objects', y \notin NewFiles, job'[y].at # "done"
        PROVE  y \in DOMAIN in_flight'
    <3>1. CASE y = b
      BY <1>2, <2>3, <3>1
    <3>2. CASE y # b
      BY <1>1, <1>2, <1>5, <2>3, <3>2 DEF Stock
    <3> QED BY <3>1, <3>2
  <2>4. ASSUME NEW y \in Batches, NEW d \in DvIds, <<y, d>> \in objects' PROVE y \in DOMAIN files'
    <3>1. <<y, d>> # Data(b)
      BY CleanupAssumption DEF Data
    <3>2. y \in DOMAIN files
      BY <1>1, <2>4, <3>1 DEF Stock
    <3> QED BY <3>2 DEF FilesGrow
  <2> QED BY <1>3, <2>1, <2>2, <2>3, <2>4 DEF Stock, Data
<1>13. AnnouncedThere'
  <2> SUFFICES ASSUME NEW y \in Present', y \notin NewFiles PROVE Data(y) \in objects'
    BY <1>3 DEF AnnouncedThere, Data
  <2>1. y \in DOMAIN files' /\ y \in Batches
    BY DEF Present, Manifest
  <2>2. CASE y \in DOMAIN files
    BY <1>1, <1>6, <2>1, <2>2, FinishedStays DEF AnnouncedThere
  <2>3. CASE y \notin DOMAIN files
    BY <2>1, <2>3
  <2> QED BY <2>2, <2>3
<1>14. VectorsKept'
  <2> SUFFICES ASSUME Grace > 0, NEW d \in Started, stmt[d].anchor \in Present', Data(stmt[d].anchor) \in objects'
               PROVE  <<stmt[d].anchor, d>> \in objects'
    BY <1>3 DEF VectorsKept, Data
  <2>1. stmt[d].anchor \in DOMAIN files /\ stmt[d].anchor \in Batches
    BY <1>1 DEF Anchored, Manifest
  <2>2. stmt[d].anchor \in Present
    BY <1>1, <1>6, <2>1, FinishedStays
  <2>3. Data(stmt[d].anchor) \in objects
    BY <1>4, <1>5, <2>1
  <2> QED BY <1>1, <2>2, <2>3 DEF VectorsKept
<1> QED BY <1>7, <1>8, <1>9, <1>10, <1>11, <1>12, <1>13, <1>14 DEF OInv

\* The manifest and the rest stay as they are.
Quiet ==
    /\ UNCHANGED <<files, snapshot_version, deletions, stmt>>
    /\ UNCHANGED gcVars /\ query' = query

\* Only a job moves, and perhaps its announcement.
LEMMA JobMoves ==
    ASSUME OInv, Quiet, NEW b \in Batches, NEW x, JobShape(x), x.at # "none",
           job' = [job EXCEPT ![b] = x], job[b].at # "done", b \notin NewFiles, objects' = objects,
           \/ DOMAIN in_flight' = DOMAIN in_flight
           \/ DOMAIN in_flight' = DOMAIN in_flight \cup {b}
           \/ DOMAIN in_flight' = DOMAIN in_flight \ {b} /\ x.at = "done",
           x.at \in {"announced", "uploaded", "written"} => b \in DOMAIN in_flight',
           x.at \in {"uploaded", "written"} => Data(b) \in objects
    PROVE  OInv'
<1>1. FilesGrow /\ Manifest'
  BY StillGrows DEF OInv, Quiet
<1>2. x.at # "done" /\ Data(b) \in objects' => b \in DOMAIN in_flight'
  BY DEF OInv, Stock
<1>3. /\ deletions' = deletions /\ stmt' = stmt /\ UNCHANGED gcVars /\ query' = query
      /\ files' = files
  BY DEF Quiet
<1> QED BY <1>1, <1>2, <1>3, JobStep

LEMMA BeginKeeps ==
    ASSUME OInv, NEW b \in Batches, (\E K : BeginFlush(b, K)) \/ BeginMerge(b)
    PROVE  OInv'
<1>1. PICK I, K : job' = [job EXCEPT ![b] = [at |-> "pending", inputs |-> I, keys |-> K]]
  BY DEF BeginFlush, BeginMerge
<1>2. Unused(b) /\ Quiet /\ objects' = objects /\ in_flight' = in_flight
  BY DEF BeginFlush, BeginMerge, Quiet, catalogVars, dataVars, memory, counters
<1>3. PICK x : x = [at |-> "pending", inputs |-> I, keys |-> K]
  OBVIOUS
<1>4. JobShape(x) /\ x.at = "pending"
  BY <1>3 DEF JobShape
<1>5. job[b].at # "done" /\ b \notin NewFiles
  BY <1>2 DEF Unused, Idle
<1> QED BY <1>1, <1>2, <1>3, <1>4, <1>5, JobMoves

\* A job under way goes on to another stage.
LEMMA JobShaped ==
    ASSUME JobShapes, NEW b \in Batches, job[b].at # "none", NEW at, at # "none",
           job' = [job EXCEPT ![b].at = at]
    PROVE  \E x : JobShape(x) /\ x.at = at /\ job' = [job EXCEPT ![b] = x]
<1>1. JobShape(job[b]) /\ DOMAIN job = Batches
  BY DEF JobShapes
<1>2. job[b] = [at |-> job[b].at, inputs |-> job[b].inputs, keys |-> job[b].keys]
  BY <1>1 DEF JobShape, Idle
<1>3. PICK x : x = [job[b] EXCEPT !.at = at]
  OBVIOUS
<1>4. x = [at |-> at, inputs |-> job[b].inputs, keys |-> job[b].keys]
  BY <1>2, <1>3
<1>5. JobShape(x) /\ x.at = at
  BY <1>4 DEF JobShape
<1>6. job' = [job EXCEPT ![b] = x]
  BY <1>1, <1>3
<1> QED BY <1>5, <1>6

LEMMA JobMoved ==
    ASSUME OInv, NEW b \in Batches, job[b].at # "none", NEW at, at # "none",
           job' = [job EXCEPT ![b].at = at]
    PROVE  b \notin NewFiles /\ \E x : JobShape(x) /\ x.at = at /\ job' = [job EXCEPT ![b] = x]
BY JobShaped DEF OInv, Shapes, Owned

LEMMA AnnounceKeeps == ASSUME OInv, NEW b \in Batches, Announce(b) PROVE OInv'
<1>1. job[b].at = "pending" /\ job' = [job EXCEPT ![b].at = "announced"] /\ objects' = objects
  BY DEF Announce
<1>2. Quiet /\ DOMAIN in_flight' = DOMAIN in_flight \cup {b}
  <2>1. CASE b \in DOMAIN in_flight
    BY <2>1 DEF Announce, Quiet, catalogVars, dataVars, memory, counters
  <2>2. CASE b \notin DOMAIN in_flight
    <3>1. RecordInFlight(b, Now)
      BY <2>2 DEF Announce
    <3>2. DOMAIN in_flight' = DOMAIN in_flight \cup {b}
      BY <3>1 DEF RecordInFlight, Over, Entry
    <3>3. Quiet
      BY <3>1 DEF RecordInFlight, Announce, Quiet, dataVars, counters
    <3> QED BY <3>2, <3>3
  <2> QED BY <2>1, <2>2
<1>3. b \notin NewFiles /\ \E x : JobShape(x) /\ x.at = "announced" /\ job' = [job EXCEPT ![b] = x]
  BY <1>1, JobMoved
<1> QED BY <1>1, <1>2, <1>3, JobMoves

LEMMA UploadKeeps == ASSUME OInv, NEW b \in Batches, Upload(b) PROVE OInv'
<1>1. /\ job[b].at = "announced" /\ job' = [job EXCEPT ![b].at = "uploaded"]
      /\ objects' = objects \cup {Data(b)}
  BY DEF Upload
<1>2. Quiet /\ in_flight' = in_flight
  BY DEF Upload, Quiet, catalogVars, dataVars, memory, counters
<1>3. PICK x : JobShape(x) /\ x.at = "uploaded" /\ job' = [job EXCEPT ![b] = x]
  BY <1>1, JobMoved
<1>4. b \notin NewFiles
  BY <1>1, JobMoved
<1>5. b \in DOMAIN in_flight
  BY <1>1 DEF OInv, Flying
<1>6. FilesGrow /\ Manifest'
  BY <1>2, StillGrows DEF OInv, Quiet
<1>7. /\ deletions' = deletions /\ stmt' = stmt /\ UNCHANGED gcVars /\ query' = query
      /\ files' = files
  BY <1>2 DEF Quiet
<1> QED BY <1>1, <1>2, <1>3, <1>4, <1>5, <1>6, <1>7, JobStep

LEMMA LogUploadKeeps == ASSUME OInv, NEW b \in Batches, LogUpload(b) PROVE OInv'
<1>1. job[b].at = "uploaded" /\ job' = [job EXCEPT ![b].at = "written"] /\ objects' = objects
  BY DEF LogUpload
<1>2. Quiet /\ in_flight' = in_flight
  BY DEF LogUpload, Quiet, catalogVars, dataVars, memory, counters
<1>3. b \notin NewFiles /\ \E x : JobShape(x) /\ x.at = "written" /\ job' = [job EXCEPT ![b] = x]
  BY <1>1, JobMoved
<1>4. b \in DOMAIN in_flight /\ Data(b) \in objects
  BY <1>1 DEF OInv, Flying
<1> QED BY <1>1, <1>2, <1>3, <1>4, JobMoves

LEMMA DieKeeps == ASSUME OInv, NEW b \in Batches, Die(b) PROVE OInv'
<1>1. /\ job[b].at \in {"pending", "announced", "uploaded"} /\ objects' = objects
      /\ job' = [job EXCEPT ![b].at = "pending"] \/ job' = [job EXCEPT ![b] = Done]
  BY DEF Die
<1>2. Quiet /\ in_flight' = in_flight
  BY DEF Die, Quiet, catalogVars, dataVars, memory, counters
<1>3. b \notin NewFiles /\ \E x : /\ JobShape(x) /\ x.at \in {"pending", "done"}
                                  /\ job' = [job EXCEPT ![b] = x]
  <2>1. CASE job' = [job EXCEPT ![b].at = "pending"]
    BY <1>1, <2>1, JobMoved
  <2>2. CASE job' = [job EXCEPT ![b] = Done]
    <3>1. JobShape(Done) /\ Done.at = "done"
      BY DEF JobShape, Done
    <3>2. b \notin NewFiles
      BY <1>1 DEF OInv, Owned
    <3> QED BY <2>2, <3>1, <3>2
  <2> QED BY <1>1, <2>1, <2>2
<1>4. job[b].at # "done"
  BY <1>1
<1> QED BY <1>1, <1>2, <1>3, <1>4, JobMoves

LEMMA CommitKeeps == ASSUME OInv, NEW b \in Batches, Commit(b) PROVE OInv'
<1>1. /\ job[b].at = "written" /\ job' = [job EXCEPT ![b] = Done]
      /\ UNCHANGED <<objects, stmt, gcVars, query>>
  BY DEF Commit
<1>2. b \notin NewFiles /\ Data(b) \in objects /\ Manifest
  BY <1>1 DEF OInv, Owned, Flying
<1>3. JobShape(Done) /\ Done.at = "done"
  BY DEF JobShape, Done
<1>4. CASE CommitFiles(b, Table, Shard, 1, job[b].keys, 0)
  <2>1. /\ FilesGrow /\ Manifest' /\ DOMAIN files' = DOMAIN files \cup {b}
        /\ DOMAIN in_flight' = DOMAIN in_flight \ {b} /\ deletions' = deletions
    BY <1>2, <1>4, CommitAdds
  <2> QED BY <1>1, <1>2, <1>3, <2>1, JobStep
<1>5. CASE CommitDuplicate(b, job[b].keys)
  <2>1. Quiet /\ DOMAIN in_flight' = DOMAIN in_flight \ {b}
    BY <1>1, <1>5 DEF CommitDuplicate, Quiet, dataVars, counters, Without, Restrict
  <2> QED BY <1>1, <1>2, <1>3, <2>1, JobMoves
<1> QED BY <1>4, <1>5 DEF Commit

LEMMA CommitMergeKeeps == ASSUME OInv, NEW n \in Batches, CommitMerge(n) PROVE OInv'
<1>1. /\ job[n].at = "uploaded" /\ job' = [job EXCEPT ![n] = Done]
      /\ UNCHANGED <<objects, stmt, gcVars, query>>
  BY DEF CommitMerge
<1>2. /\ n \notin NewFiles /\ Data(n) \in objects /\ Manifest
      /\ n \notin DOMAIN files
  BY <1>1 DEF OInv, Owned, Flying
<1>3. JobShape(Done) /\ Done.at = "done"
  BY DEF JobShape, Done
<1>4. CASE CommitCompaction(job[n].inputs, n, Table, Shard, 1, 0, "compaction")
  <2>1. /\ FilesGrow /\ Manifest' /\ DOMAIN files' = DOMAIN files \cup {n}
        /\ DOMAIN in_flight' = DOMAIN in_flight \ {n} /\ deletions' = deletions
    BY <1>2, <1>4, MergeAdds
  <2> QED BY <1>1, <1>2, <1>3, <2>1, JobStep
<1>5. CASE UNCHANGED catalogVars
  <2>1. Quiet /\ in_flight' = in_flight
    BY <1>1, <1>5 DEF Quiet, catalogVars, dataVars, memory, counters
  <2> QED BY <1>1, <1>2, <1>3, <2>1, JobMoves
<1> QED BY <1>4, <1>5 DEF CommitMerge

LEMMA WriterKeeps == ASSUME OInv, WriterStep PROVE OInv'
BY BeginKeeps, AnnounceKeeps, UploadKeeps, LogUploadKeeps, CommitKeeps, CommitMergeKeeps, DieKeeps
   DEF WriterStep

LEMMA SweepKeeps == ASSUME ~metanode, OInv, Sweep PROVE OInv'
BY DEF OInv, Sweep

-----------------------------------------------------------------------------
(* DELETE and UPDATE. *)

\* A statement that has begun moves on, perhaps with its changes to the catalog.
LEMMA StmtMoves ==
    ASSUME OInv, NEW d \in DvIds, stmt[d].at # "none", NEW at, at # "none",
           stmt' = [stmt EXCEPT ![d].at = at], FilesGrow, Manifest',
           DOMAIN files' \subseteq DOMAIN files \cup {stmt[d].new},
           DOMAIN deletions' \subseteq DOMAIN deletions \cup {<<d, stmt[d].anchor>>},
           in_flight' = in_flight, objects' = objects, job' = job,
           UNCHANGED gcVars, query' = query
    PROVE  OInv'
<1>1. Shapes /\ Manifest /\ Owned /\ Flying /\ Anchored /\ Stock(objects) /\ AnnouncedThere /\ VectorsKept
  BY DEF OInv
<1>2. /\ DOMAIN stmt = DvIds /\ StmtShape(stmt[d])
      /\ d \in Started
  BY <1>1 DEF Shapes, StmtShapes, Started, Idle
<1>3. PICK x : x = stmt[d]
  OBVIOUS
<1>4. x = [at |-> x.at, anchor |-> x.anchor, new |-> x.new]
  BY <1>2, <1>3 DEF StmtShape, Idle
<1>5. PICK y : y = [at |-> at, anchor |-> x.anchor, new |-> x.new]
  OBVIOUS
<1>6. /\ DOMAIN stmt' = DvIds /\ stmt'[d] = y
      /\ \A e \in DvIds \ {d} : stmt'[e] = stmt[e]
  BY <1>2, <1>3, <1>4, <1>5
<1>7. y # Idle /\ StmtShape(y) /\ y.anchor = x.anchor /\ y.new = x.new
  <2>1. x.new \in Batches \cup {NoFile}
    BY <1>2, <1>3 DEF StmtShape, Idle
  <2> QED BY <1>5, <2>1 DEF StmtShape, Idle
<1>8. Started' = Started
  <2>1. \A e \in DvIds : stmt'[e] # Idle <=> stmt[e] # Idle
    BY <1>2, <1>6, <1>7 DEF Started
  <2> QED BY <2>1 DEF Started, Idle
<1>9. \A e \in Started : stmt'[e].anchor = stmt[e].anchor /\ stmt'[e].new = stmt[e].new
  BY <1>3, <1>6, <1>7 DEF Started
<1>10. NewFiles' = NewFiles /\ stmt[d].new \in NewFiles
  <2>1. \A e \in DvIds : stmt'[e] # Idle <=> stmt[e] # Idle
    BY <1>2, <1>6, <1>7 DEF Started
  <2> QED BY <1>2, <1>8, <1>9 DEF NewFiles
<1>11. \A b \in DOMAIN files' \ DOMAIN files : b \in NewFiles /\ b \in Batches /\ job[b].at # "done"
  BY <1>1, <1>10 DEF Manifest, Owned
<1>12. Calm
  BY <1>10, <1>11 DEF Calm
<1>13. Rounds' /\ Observed' /\ Judged' /\ Served'
  BY <1>12, CalmKeeps
<1>14. Shapes'
  <2>1. JobShapes'
    BY <1>1 DEF Shapes, JobShapes, JobShape, Idle
  <2>2. StmtShapes'
    <3>1. \A e \in DvIds : StmtShape(stmt'[e])
      BY <1>1, <1>6, <1>7 DEF Shapes, StmtShapes
    <3> QED BY <1>6, <3>1 DEF StmtShapes, StmtShape, Idle
  <2>3. UNCHANGED <<round, first_seen, query>>
    BY DEF gcVars
  <2> QED BY <1>1, <2>1, <2>2, <2>3, ShapesStay
<1>15. Owned'
  BY <1>1, <1>10, <1>11 DEF Owned
<1>16. Flying'
  <2>1. \A b \in Batches : Data(b)' = Data(b)
    BY DEF Data
  <2> QED BY <1>1, <2>1 DEF Flying
<1>17. Anchored'
  <2>1. \A e \in Started : stmt'[e].anchor \in DOMAIN files'
    BY <1>1, <1>9 DEF Anchored, FilesGrow
  <2>2. \A k \in DOMAIN deletions' : k[1] \in Started /\ k[2] = stmt'[k[1]].anchor
    <3> SUFFICES ASSUME NEW k \in DOMAIN deletions' PROVE k[1] \in Started /\ k[2] = stmt'[k[1]].anchor
      OBVIOUS
    <3>1. CASE k = <<d, stmt[d].anchor>>
      BY <1>2, <1>9, <3>1
    <3>2. CASE k \in DOMAIN deletions
      BY <1>1, <1>9, <3>2 DEF Anchored
    <3> QED BY <3>1, <3>2
  <2> QED BY <1>8, <2>1, <2>2 DEF Anchored
<1>18. Stock(objects)'
  <2>1. PICK S : S = objects
    OBVIOUS
  <2>2. Stock(S)
    BY <1>1, <2>1
  <2>3. Stock(S)'
    BY <1>12, <2>2, StockStays
  <2> QED BY <2>1, <2>3 DEF Stock, Data
<1>19. AnnouncedThere'
  <2> SUFFICES ASSUME NEW b \in Present', b \notin NewFiles PROVE Data(b) \in objects
    BY <1>10 DEF AnnouncedThere, Data
  <2>1. b \in DOMAIN files' /\ b \in Batches
    BY DEF Present, Manifest
  <2>2. b \in DOMAIN files
    BY <1>11, <2>1
  <2>3. b \in Present
    BY <1>1, <1>12, <2>1, <2>2, FinishedStays
  <2> QED BY <1>1, <2>3 DEF AnnouncedThere
<1>20. VectorsKept'
  <2> SUFFICES ASSUME Grace > 0, NEW e \in Started, stmt[e].anchor \in Present',
                      Data(stmt[e].anchor) \in objects
               PROVE  <<stmt[e].anchor, e>> \in objects
    BY <1>8, <1>9 DEF VectorsKept, Data
  <2>1. stmt[e].anchor \in DOMAIN files /\ stmt[e].anchor \in Batches
    BY <1>1 DEF Anchored, Manifest
  <2>2. stmt[e].anchor \in Present
    BY <1>1, <1>12, <2>1, FinishedStays
  <2> QED BY <1>1, <2>2 DEF VectorsKept
<1> QED BY <1>13, <1>14, <1>15, <1>16, <1>17, <1>18, <1>19, <1>20 DEF OInv

LEMMA LogKeeps ==
    ASSUME OInv, NEW d \in DvIds, LogStatement(d) \/ DieBeforeLog(d)
    PROVE  OInv'
<1>1. PICK at : at # "none" /\ stmt' = [stmt EXCEPT ![d].at = at]
  BY DEF LogStatement, DieBeforeLog
<1>2. /\ stmt[d].at # "none"
      /\ UNCHANGED <<catalogVars, objects, job, gcVars, query>>
  BY DEF LogStatement, DieBeforeLog
<1>3. UNCHANGED <<files, snapshot_version, deletions, in_flight>>
  BY <1>2 DEF catalogVars, dataVars, memory, counters
<1>4. FilesGrow /\ Manifest'
  BY <1>3, StillGrows DEF OInv
<1> QED BY <1>1, <1>2, <1>3, <1>4, StmtMoves

LEMMA ApplyKeeps == ASSUME OInv, NEW d \in DvIds, ApplyStatement(d) PROVE OInv'
<1>1. /\ stmt[d].at = "logged" /\ stmt' = [stmt EXCEPT ![d].at = "done"]
      /\ UNCHANGED <<objects, job, gcVars, query>>
  BY DEF ApplyStatement
<1>2. PICK b, n : b = stmt[d].anchor /\ n = stmt[d].new
  OBVIOUS
<1>3. Manifest
  BY DEF OInv
<1>4. DOMAIN Entry(b, 1) = {b}
  BY DEF Entry
<1>5. CASE UNCHANGED catalogVars
  <2>1. UNCHANGED <<files, snapshot_version, deletions, in_flight>>
    BY <1>5 DEF catalogVars, dataVars, memory, counters
  <2>2. FilesGrow /\ Manifest'
    BY <1>3, <2>1, StillGrows
  <2> QED BY <1>1, <2>1, <2>2, StmtMoves
<1>6. CASE ApplyDeletions(d, Table, Entry(b, 1))
  <2>1. /\ FilesGrow /\ Manifest' /\ files' = files /\ in_flight' = in_flight
        /\ DOMAIN deletions' \subseteq DOMAIN deletions \cup ({d} \X DOMAIN Entry(b, 1))
    BY <1>3, <1>6, DeletionsAdd
  <2>2. DOMAIN deletions' \subseteq DOMAIN deletions \cup {<<d, stmt[d].anchor>>}
    BY <1>2, <1>4, <2>1
  <2>3. DOMAIN files' \subseteq DOMAIN files \cup {stmt[d].new}
    BY <2>1
  <2> QED BY <1>1, <2>1, <2>2, <2>3, StmtMoves
<1>7. CASE /\ n # NoFile
           /\ ApplyUpdate(d, Table, Entry(b, 1), Entry(n, [shard |-> Shard, rows |-> 1]), 0)
  <2>0. PICK N : N = Entry(n, [shard |-> Shard, rows |-> 1])
    OBVIOUS
  <2>1. DOMAIN N = {n}
    BY <2>0 DEF Entry
  <2>2. n \in Batches
    <3>1. StmtShape(stmt[d])
      BY DEF OInv, Shapes, StmtShapes
    <3>2. stmt[d] # Idle
      BY <1>1 DEF Idle
    <3>3. stmt[d].new \in Batches \cup {NoFile}
      BY <3>1, <3>2 DEF StmtShape
    <3>4. n # NoFile
      BY <1>7, Zenon
    <3> QED BY <1>2, <3>3, <3>4
  <2>3. PICK D : D = Entry(b, 1)
    OBVIOUS
  <2>4. ApplyUpdate(d, Table, D, N, 0)
    BY <1>7, <2>0, <2>3
  <2>5. DOMAIN N \subseteq Batches
    BY <2>1, <2>2
  <2>6. /\ FilesGrow /\ Manifest' /\ in_flight' = in_flight
        /\ DOMAIN files' = DOMAIN files \cup DOMAIN N
        /\ DOMAIN deletions' \subseteq DOMAIN deletions \cup ({d} \X DOMAIN D)
    BY <1>3, <2>4, <2>5, UpdateAdds
  <2>7. DOMAIN deletions' \subseteq DOMAIN deletions \cup {<<d, stmt[d].anchor>>}
    BY <1>2, <1>4, <2>3, <2>6
  <2>8. DOMAIN files' \subseteq DOMAIN files \cup {stmt[d].new}
    BY <1>2, <2>1, <2>6
  <2> QED BY <1>1, <2>6, <2>7, <2>8, StmtMoves
<1> QED BY <1>2, <1>5, <1>6, <1>7 DEF ApplyStatement

LEMMA BeginStatementKeeps ==
    ASSUME OInv, NEW d \in DvIds, NEW b \in Batches, NEW n \in Batches \cup {NoFile},
           BeginStatement(d, b, n)
    PROVE  OInv'
<1>1. Shapes /\ Manifest /\ Owned /\ Flying /\ Anchored /\ Stock(objects) /\ AnnouncedThere /\ VectorsKept
  BY DEF OInv
<1>2. /\ stmt[d] = Idle /\ b \in DOMAIN files
      /\ n # NoFile => n \notin NewFiles /\ job[n].at = "none"
      /\ stmt' = [stmt EXCEPT ![d] = [at |-> "uploaded", anchor |-> b, new |-> n]]
      /\ UNCHANGED <<job, gcVars, query>>
  BY DEF BeginStatement, VisibleFiles, Unused, Idle
<1>3. UNCHANGED <<files, snapshot_version, deletions, in_flight>>
  BY DEF BeginStatement, catalogVars, dataVars, memory, counters
<1>4. objects' = objects \cup {<<b, d>>} \cup (IF n = NoFile THEN {} ELSE {Data(n)})
  BY DEF BeginStatement
<1>5. PICK y : y = [at |-> "uploaded", anchor |-> b, new |-> n]
  OBVIOUS
<1>6. /\ DOMAIN stmt' = DvIds /\ stmt'[d] = y
      /\ \A e \in DvIds \ {d} : stmt'[e] = stmt[e]
  BY <1>1, <1>2, <1>5 DEF Shapes, StmtShapes
<1>7. y # Idle /\ StmtShape(y) /\ y.anchor = b /\ y.new = n
  BY <1>5 DEF StmtShape, Idle
<1>8. Started' = Started \cup {d} /\ d \notin Started
  <2>1. \A e \in DvIds : stmt'[e] # Idle <=> (stmt[e] # Idle \/ e = d)
    BY <1>2, <1>6, <1>7
  <2> QED BY <1>2, <2>1 DEF Started, Idle
<1>9. \A e \in Started : stmt'[e] = stmt[e]
  BY <1>6, <1>8 DEF Started
<1>10. NewFiles' = NewFiles \cup {n}
  BY <1>6, <1>7, <1>8, <1>9 DEF NewFiles
<1>11. n \in Batches => n \notin DOMAIN files /\ job[n].at = "none"
  <2>1. n \in Batches => n # NoFile
    BY CleanupAssumption
  <2> QED BY <1>1, <1>2, <2>1 DEF Owned
<1>12. FilesGrow /\ Manifest' /\ Present' = Present
  <2>1. FilesGrow /\ Manifest'
    BY <1>1, <1>3, StillGrows
  <2> QED BY <1>3, <2>1 DEF Present
<1>13. \A y1 \in Batches : Data(y1) \in objects' => Data(y1) \in objects \/ y1 = n
  <2>1. \A y1 : Data(y1) # <<b, d>>
    BY CleanupAssumption DEF Data
  <2> QED BY <1>4, <2>1 DEF Data
<1>14. objects \subseteq objects' /\ <<b, d>> \in objects'
  BY <1>4
<1>15. Calm
  <2>1. \A y1 \in Batches : Data(y1) \in objects' \ objects => y1 \notin DOMAIN files
    BY <1>11, <1>13
  <2> QED BY <1>2, <1>3, <1>10, <1>12, <1>14, <2>1 DEF Calm
<1>16. Rounds' /\ Observed' /\ Judged' /\ Served'
  BY <1>15, CalmKeeps
<1>17. Shapes'
  <2>1. JobShapes'
    BY <1>1, <1>2 DEF Shapes, JobShapes, JobShape, Idle
  <2>2. StmtShapes'
    <3>1. \A e \in DvIds : StmtShape(stmt'[e])
      BY <1>1, <1>6, <1>7 DEF Shapes, StmtShapes
    <3> QED BY <1>6, <3>1 DEF StmtShapes, StmtShape, Idle
  <2>3. UNCHANGED <<round, first_seen, query>>
    BY <1>2 DEF gcVars
  <2> QED BY <1>1, <1>12, <2>1, <2>2, <2>3, ShapesStay
<1>18. Owned'
  <2>1. n \notin Batches \/ job[n].at = "none"
    BY <1>11
  <2> QED BY <1>1, <1>2, <1>3, <1>10, <2>1 DEF Owned
<1>19. Flying'
  <2>1. \A x \in Batches : Data(x)' = Data(x)
    BY DEF Data
  <2> QED BY <1>1, <1>2, <1>3, <1>14, <2>1 DEF Flying
<1>20. Anchored'
  <2>1. \A e \in Started' : stmt'[e].anchor \in DOMAIN files
    BY <1>1, <1>2, <1>6, <1>7, <1>8, <1>9 DEF Anchored
  <2>2. \A k \in DOMAIN deletions : k[1] \in Started /\ k[2] = stmt'[k[1]].anchor
    BY <1>1, <1>9 DEF Anchored
  <2> QED BY <1>3, <1>8, <2>1, <2>2 DEF Anchored
<1>21. Stock(objects)'
  <2>1. IsFiniteSet(objects')
    <3>1. IsFiniteSet(objects)
      BY <1>1 DEF Stock
    <3>2. IsFiniteSet(objects \cup {<<b, d>>})
      BY <3>1, FS_AddElement
    <3>3. IsFiniteSet((objects \cup {<<b, d>>}) \cup {Data(n)})
      BY <3>2, FS_AddElement
    <3>4. objects' = objects \cup {<<b, d>>} \/ objects' = (objects \cup {<<b, d>>}) \cup {Data(n)}
      BY <1>4
    <3> QED BY <3>2, <3>3, <3>4
  <2>2. objects' \subseteq Batches \X ({"data"} \cup DvIds)
    <3>1. n # NoFile => Data(n) \in Batches \X ({"data"} \cup DvIds)
      BY DEF Data
    <3>2. <<b, d>> \in Batches \X ({"data"} \cup DvIds)
      OBVIOUS
    <3> QED BY <1>1, <1>4, <3>1, <3>2 DEF Stock
  <2>3. \A x \in Batches : Data(x) \in objects' /\ x \notin NewFiles' /\ job'[x].at # "done"
            => x \in DOMAIN in_flight'
    BY <1>1, <1>2, <1>3, <1>10, <1>13 DEF Stock
  <2>4. ASSUME NEW x \in Batches, NEW e \in DvIds, <<x, e>> \in objects' PROVE x \in DOMAIN files'
    <3>1. <<x, e>> # Data(n)
      BY CleanupAssumption DEF Data
    <3>2. <<x, e>> \in objects \/ <<x, e>> = <<b, d>>
      BY <1>4, <2>4, <3>1
    <3> QED BY <1>1, <1>2, <1>3, <3>2 DEF Stock
  <2> QED BY <2>1, <2>2, <2>3, <2>4 DEF Stock, Data
<1>22. AnnouncedThere'
  BY <1>1, <1>2, <1>10, <1>12, <1>14 DEF AnnouncedThere, Data
<1>23. VectorsKept'
  <2> SUFFICES ASSUME Grace > 0, NEW e \in Started', stmt'[e].anchor \in Present,
                      Data(stmt'[e].anchor) \in objects'
               PROVE  <<stmt'[e].anchor, e>> \in objects'
    BY <1>12 DEF VectorsKept, Data
  <2>1. CASE e = d
    BY <1>6, <1>7, <1>14, <2>1
  <2>2. CASE e \in Started
    <3>1. stmt'[e].anchor = stmt[e].anchor /\ stmt[e].anchor \in DOMAIN files /\ stmt[e].anchor \in Batches
      BY <1>1, <1>9, <2>2 DEF Anchored, Manifest
    <3>2. Data(stmt[e].anchor) \in objects
      BY <1>11, <1>13, <3>1
    <3> QED BY <1>1, <1>14, <2>2, <3>1, <3>2 DEF VectorsKept
  <2> QED BY <1>8, <2>1, <2>2
<1> QED BY <1>12, <1>16, <1>17, <1>18, <1>19, <1>20, <1>21, <1>22, <1>23 DEF OInv

LEMMA StatementKeeps == ASSUME OInv, StatementStep PROVE OInv'
BY BeginStatementKeeps, LogKeeps, ApplyKeeps DEF StatementStep

-----------------------------------------------------------------------------
(* The collectors. *)

\* The catalog and its writers stand still; objects may go that nobody needs.
Still ==
    /\ UNCHANGED <<files, snapshot_version, deletions, job, stmt>>
    /\ DOMAIN in_flight' = DOMAIN in_flight
    /\ objects' \subseteq objects
    /\ \A b \in Batches : Data(b) \in objects \ objects' => b \in NewFiles \/ Finished(b)
    /\ Grace > 0 =>
          \A d \in Started :
              stmt[d].anchor \in Present /\ Data(stmt[d].anchor) \in objects'
                  => <<stmt[d].anchor, d>> \notin objects \ objects'

LEMMA StillIsStill ==
    ASSUME Still
    PROVE  /\ Started' = Started /\ NewFiles' = NewFiles /\ Present' = Present
           /\ \A b : Finished(b)' <=> Finished(b)
<1>1. Started' = Started /\ NewFiles' = NewFiles /\ Present' = Present
  BY DEF Still, Started, NewFiles, Present
<1> QED BY <1>1 DEF Still, Finished

LEMMA StockLasts ==
    ASSUME Still, NEW S, Stock(S)
    PROVE  Stock(S)'
BY StillIsStill DEF Still, Stock, Data

LEMMA RoundLasts ==
    ASSUME Still, NEW CONSTANT r, RoundOK(r)
    PROVE  RoundOK(r)'
<1>1. Stock(r.objects)'
  BY StockLasts DEF RoundOK
<1> QED BY <1>1, StillIsStill DEF Still, RoundOK, Data, Stock

\* What concerns neither collectors nor queries goes on.
LEMMA StillKeeps ==
    ASSUME OInv, Still
    PROVE  /\ JobShapes' /\ StmtShapes' /\ Manifest' /\ Owned' /\ Flying' /\ Anchored'
           /\ Stock(objects)' /\ AnnouncedThere' /\ VectorsKept'
<1>1. Shapes /\ Manifest /\ Owned /\ Flying /\ Anchored /\ Stock(objects) /\ AnnouncedThere /\ VectorsKept
  BY DEF OInv
<1>2. Started' = Started /\ NewFiles' = NewFiles /\ Present' = Present
  BY StillIsStill
<1>3. JobShapes' /\ StmtShapes'
  BY <1>1 DEF Still, Shapes, JobShapes, StmtShapes, JobShape, StmtShape, Idle
<1>4. Manifest'
  BY <1>1 DEF Still, Manifest
<1>5. Owned' /\ Anchored'
  BY <1>1, <1>2 DEF Still, Owned, Anchored
<1>6. Flying'
  <2>1. ASSUME NEW b \in Batches
        PROVE  /\ job[b].at \in {"announced", "uploaded", "written"} => b \in DOMAIN in_flight
               /\ job[b].at \in {"uploaded", "written"} => Data(b) \in objects'
    <3>1. /\ job[b].at \in {"announced", "uploaded", "written"} => b \in DOMAIN in_flight
          /\ job[b].at \in {"uploaded", "written"} => Data(b) \in objects
      BY <1>1 DEF Flying
    <3>2. job[b].at \in {"uploaded", "written"} => b \notin NewFiles /\ ~Finished(b)
      BY <1>1 DEF Owned, Finished
    <3>3. Data(b) \in objects \ objects' => b \in NewFiles \/ Finished(b)
      BY DEF Still
    <3>4. ASSUME job[b].at \in {"uploaded", "written"} PROVE Data(b) \in objects'
      <4>1. b \notin NewFiles /\ ~Finished(b) /\ Data(b) \in objects
        BY <3>1, <3>2, <3>4
      <4> QED BY <3>3, <4>1
    <3> QED BY <3>1, <3>4
  <2>2. \A b \in Batches : Data(b)' = Data(b)
    BY DEF Data
  <2> QED BY <2>1, <2>2 DEF Still, Flying
<1>7. Stock(objects)'
  <2>1. PICK S : S = objects'
    OBVIOUS
  <2>2. IsFiniteSet(S)
    BY <1>1, <2>1, FS_Subset DEF Still, Stock
  <2>3. Stock(S)
    BY <1>1, <2>1, <2>2 DEF Still, Stock
  <2>4. Stock(S)'
    BY <2>3, StockLasts
  <2> QED BY <2>1, <2>4 DEF Stock, Data
<1>8. AnnouncedThere'
  <2> SUFFICES ASSUME NEW b \in Present, b \notin NewFiles PROVE Data(b) \in objects'
    BY <1>2 DEF Still, AnnouncedThere, Data
  <2>1. Data(b) \in objects /\ b \in Batches
    BY <1>1 DEF AnnouncedThere, Present, Manifest
  <2> QED BY <2>1 DEF Still, Finished
<1>9. VectorsKept'
  <2> SUFFICES ASSUME Grace > 0, NEW d \in Started, stmt[d].anchor \in Present,
                      Data(stmt[d].anchor) \in objects'
               PROVE  <<stmt[d].anchor, d>> \in objects'
    BY <1>2 DEF Still, VectorsKept, Data
  <2>1. <<stmt[d].anchor, d>> \in objects
    BY <1>1 DEF Still, VectorsKept
  <2> QED BY <2>1 DEF Still
<1> QED BY <1>3, <1>4, <1>5, <1>6, <1>7, <1>8, <1>9

\* One collector moves.
LEMMA CollectorMoves ==
    ASSUME OInv, Still, NEW g \in Collectors, NEW x, NEW s,
           RoundShape(x), SeenShape(s), query' = query, shared \subseteq shared',
           round' = [round EXCEPT ![g] = x],
           DOMAIN first_seen' = Collectors, first_seen'[g] = s,
           \A h \in Collectors \ {g} : first_seen'[h] = first_seen[h],
           x.at # "none" => RoundOK(x), x.at = "judge" => JudgedOK(s, x),
           \A b \in DOMAIN s : b \notin NewFiles \cup shared' => Finished(b),
           \A b \in DOMAIN s, q \in Queries :
               Reading(q, b) /\ b \notin shared' => s[b] >= query[q].since,
           \A q \in Queries, b \in Batches :
               Reading(q, b) /\ b \notin shared' /\ Data(b) \in objects => Data(b) \in objects'
    PROVE  OInv'
<1>1. Shapes /\ Rounds /\ Observed /\ Judged /\ Served
  BY DEF OInv
<1>2. NewFiles' = NewFiles /\ \A b : Finished(b)' <=> Finished(b)
  BY StillIsStill DEF Still
<1>3. ASSUME NEW q, NEW b PROVE Reading(q, b)' => Reading(q, b) /\ b \notin shared'
  BY <1>2 DEF Still, Reading, VisibleFiles, Now
<1>4. /\ DOMAIN round' = Collectors /\ round'[g] = x
      /\ \A h \in Collectors \ {g} : round'[h] = round[h]
  BY <1>1 DEF Shapes, RoundShapes
<1>5. /\ DOMAIN first_seen' = Collectors /\ first_seen'[g] = s
      /\ \A h \in Collectors \ {g} : first_seen'[h] = first_seen[h]
  OBVIOUS
<1>6. JobShapes' /\ StmtShapes'
  BY StillKeeps
<1>7. Shapes'
  <2>1. RoundShapes'
    <3>1. \A h \in Collectors : RoundShape(round'[h])
      BY <1>1, <1>4 DEF Shapes, RoundShapes
    <3> QED BY <1>4, <3>1, NowStays DEF RoundShapes, RoundShape, Idle
  <2>2. SeenShapes'
    <3>1. \A h \in Collectors : SeenShape(first_seen'[h])
      BY <1>1, <1>5 DEF Shapes, SeenShapes
    <3> QED BY <1>5, <3>1, NowStays DEF SeenShapes, SeenShape
  <2>3. QueryShapes'
    <3>1. snapshot_version' = snapshot_version
      BY DEF Still
    <3> QED BY <1>1, <3>1, NowStays DEF Shapes, QueryShapes, QueryShape, Idle
  <2> QED BY <1>6, <2>1, <2>2, <2>3 DEF Shapes
<1>8. Rounds'
  <2> SUFFICES ASSUME NEW h \in Collectors, round'[h].at # "none" PROVE RoundOK(round[h])'
    BY DEF Rounds
  <2>1. PICK r : r = round'[h]
    OBVIOUS
  <2>2. RoundOK(r)
    BY <1>1, <1>4, <2>1 DEF Rounds
  <2>3. RoundOK(r)'
    BY <2>2, RoundLasts
  <2> QED BY <2>1, <2>3 DEF RoundOK, Stock, Data
<1>9. Observed'
  <2> SUFFICES ASSUME NEW h \in Collectors, NEW b \in DOMAIN first_seen'[h]
               PROVE  /\ b \notin NewFiles \cup shared' => Finished(b)
                      /\ \A q \in Queries : Reading(q, b)' => first_seen'[h][b] >= query[q].since
    BY <1>2 DEF Observed, SeenOK
  <2>1. CASE h = g
    BY <1>3, <1>5, <2>1
  <2>2. CASE h # g
    BY <1>1, <1>3, <1>5, <2>2 DEF Observed, SeenOK
  <2> QED BY <2>1, <2>2
<1>10. Judged'
  <2> SUFFICES ASSUME NEW h \in Collectors, round'[h].at = "judge"
               PROVE  JudgedOK(first_seen[h], round[h])'
    BY DEF Judged
  <2>1. PICK r, seen : r = round'[h] /\ seen = first_seen'[h]
    OBVIOUS
  <2>2. JudgedOK(seen, r)
    BY <1>1, <1>4, <1>5, <2>1 DEF Judged
  <2> QED BY <1>3, <2>1, <2>2 DEF JudgedOK, Data
<1>11. Served'
  <2> SUFFICES ASSUME NEW q \in Queries, NEW b \in Batches, Reading(q, b)' PROVE Data(b) \in objects'
    BY DEF Served, Data
  <2> QED BY <1>1, <1>3 DEF Served
<1> QED BY <1>7, <1>8, <1>9, <1>10, <1>11, StillKeeps DEF OInv

\* A question or an abandoned round leaves the store and the observations alone.
LEMMA RoundMoves ==
    ASSUME OInv, NEW g \in Collectors, NEW x, RoundShape(x),
           round' = [round EXCEPT ![g] = x],
           UNCHANGED <<catalogVars, storeVars, first_seen, shared, query>>,
           x.at # "none" => RoundOK(x), x.at = "judge" => JudgedOK(first_seen[g], x)
    PROVE  OInv'
<1>1. Still
  BY DEF Still, catalogVars, dataVars, memory, counters, storeVars
<1>2. PICK s : s = first_seen[g]
  OBVIOUS
<1>3. /\ SeenShape(s) /\ DOMAIN first_seen' = Collectors /\ first_seen'[g] = s
      /\ \A h \in Collectors \ {g} : first_seen'[h] = first_seen[h]
  BY <1>2 DEF OInv, Shapes, SeenShapes
<1>4. SeenOK(s)
  BY <1>2 DEF OInv, Observed
<1>5. objects' = objects /\ shared' = shared /\ query' = query
  BY DEF storeVars
<1>6. x.at = "judge" => JudgedOK(s, x)
  BY <1>2
<1>7. /\ \A b \in DOMAIN s : b \notin NewFiles \cup shared' => Finished(b)
      /\ \A b \in DOMAIN s, q \in Queries :
             Reading(q, b) /\ b \notin shared' => s[b] >= query[q].since
  BY <1>4, <1>5 DEF SeenOK
<1> QED BY <1>1, <1>3, <1>5, <1>6, <1>7, CollectorMoves

LEMMA ListKeeps == ASSUME OInv, NEW g \in Collectors, ListObjects(g) PROVE OInv'
<1>1. PICK x : x = [at |-> "listed", objects |-> objects]
  OBVIOUS
<1>2. RoundShape(x) /\ x.at = "listed" /\ x.objects = objects
  BY <1>1 DEF RoundShape
<1>3. RoundOK(x)
  BY <1>2 DEF OInv, RoundOK
<1>4. /\ round' = [round EXCEPT ![g] = x]
      /\ UNCHANGED <<catalogVars, storeVars, first_seen, shared, query>>
  BY <1>1 DEF ListObjects
<1> QED BY <1>2, <1>3, <1>4, RoundMoves

LEMMA AskKnownKeeps ==
    ASSUME ~metanode, OInv, NEW g \in Collectors, AskKnown(g) PROVE OInv'
<1>1. PICK r : r = round[g]
  OBVIOUS
<1>2. PICK x : x = [at |-> "known", objects |-> r.objects, known |-> KnownToCollector(copy'[g])]
  OBVIOUS
<1>3. RoundShape(x) /\ x.at = "known" /\ x.objects = r.objects /\ x.known = KnownBatches
  <2>1. KnownToCollector(copy'[g]) = KnownBatches
    BY DEF AskKnown, KnownToCollector, KnownBatches, OInv, catalogVars, dataVars, memory, counters
  <2> QED BY <1>2, <2>1 DEF RoundShape
<1>4. /\ r.at = "listed" /\ round' = [round EXCEPT ![g] = x]
      /\ UNCHANGED <<catalogVars, storeVars, first_seen, shared, query>>
  BY <1>1, <1>2 DEF AskKnown
<1>5. RoundOK(r)
  BY <1>1, <1>4 DEF OInv, Rounds
<1>6. KnownBatches = Present \cup DOMAIN in_flight
  BY DEF KnownBatches, Present
<1>7. RoundOK(x)
  <2>1. ASSUME NEW b \in Batches \ x.known
        PROVE  /\ Data(b) \in x.objects /\ b \notin NewFiles => Finished(b)
               /\ b \notin Present
    <3>1. b \notin Present /\ b \notin DOMAIN in_flight
      BY <1>3, <1>6, <2>1
    <3> QED BY <1>3, <1>5, <3>1 DEF RoundOK, Stock, Finished
  <2> QED BY <1>3, <1>5, <2>1 DEF RoundOK
<1> QED BY <1>3, <1>4, <1>7, RoundMoves

LEMMA AskReferencedKeeps == ASSUME OInv, NEW g \in Collectors, AskReferenced(g) PROVE OInv'
<1>1. PICK r, s : r = round[g] /\ s = first_seen[g]
  OBVIOUS
<1>2. PICK x : x = [at |-> "judge", objects |-> r.objects, known |-> r.known,
                    referenced |-> ReferencedVectors(copy'[g]), read |-> Now,
                    old |-> {b \in DOMAIN s : Now - s[b] >= Grace}]
  OBVIOUS
<1>3. /\ x.at = "judge" /\ x.objects = r.objects /\ x.known = r.known /\ x.read = Now
      /\ x.old = {b \in DOMAIN s : Now - s[b] >= Grace}
  BY <1>2
<1>4. RoundShape(x)
  <2>1. Now \in 0..Now
    BY NowIsLate
  <2> QED BY <1>2, <2>1 DEF RoundShape
<1>5. /\ r.at = "known" /\ round' = [round EXCEPT ![g] = x]
      /\ UNCHANGED <<catalogVars, storeVars, first_seen, shared, query>>
  BY <1>1, <1>2 DEF AskReferenced
<1>6. RoundOK(r) /\ SeenOK(s) /\ SeenShape(s)
  BY <1>1, <1>5 DEF OInv, Rounds, Observed, Shapes, SeenShapes
<1>7. RoundOK(x)
  BY <1>3, <1>5, <1>6 DEF RoundOK
<1>8. JudgedOK(s, x)
  <2>1. ASSUME NEW q \in Queries, NEW b \in Batches, Reading(q, b)
        PROVE  b \notin x.old /\ x.read >= query[q].since
    <3>1. query[q].since \in 0..Now /\ Now - query[q].since < Grace
      BY <2>1 DEF Reading, OInv, Shapes, QueryShapes, QueryShape, Idle
    <3>2. ASSUME b \in x.old PROVE FALSE
      <4>1. b \in DOMAIN s /\ Now - s[b] >= Grace
        BY <1>3, <3>2
      <4>2. s[b] \in 0..Now /\ s[b] >= query[q].since
        BY <1>6, <2>1, <4>1 DEF SeenShape, SeenOK
      <4> QED BY <3>1, <4>1, <4>2, NowIsLate
    <3> QED BY <1>3, <3>1, <3>2, NowIsLate
  <2> QED BY <1>3, <2>1 DEF JudgedOK
<1> QED BY <1>1, <1>4, <1>5, <1>7, <1>8, RoundMoves

LEMMA AbandonKeeps == ASSUME OInv, NEW g \in Collectors, AbandonRound(g) PROVE OInv'
<1>1. PICK x : x = Idle
  OBVIOUS
<1>2. RoundShape(x) /\ x.at = "none"
  BY <1>1 DEF RoundShape, Idle
<1>3. /\ round' = [round EXCEPT ![g] = x]
      /\ UNCHANGED <<catalogVars, storeVars, first_seen, shared, query>>
  BY <1>1 DEF AbandonRound
<1> QED BY <1>2, <1>3, RoundMoves

LEMMA RestartKeeps == ASSUME ~metanode, OInv, NEW g \in Collectors, RestartCollector(g) PROVE OInv'
BY DEF OInv, RestartCollector

\* What a verdict on the objects of a batch takes and what it remembers.
Harmless(b, seen, r, v) ==
    /\ b \in Batches
    /\ v.at # -1 => v.at = r.read \/ (b \in DOMAIN seen /\ v.at = seen[b])
    /\ \A p \in v.gone : p[1] = b
    /\ Data(b) \in v.gone =>
          /\ b \in NewFiles \/ Finished(b)
          /\ \A q \in Queries : ~Reading(q, b)
    /\ Grace > 0 /\ b \in Present /\ Data(b) \in objects =>
          \A d \in DvIds : <<b, d>> \notin v.gone

\* The verdict over the paths of one batch, and what it may take away.
LEMMA JudgeOK ==
    ASSUME OInv, NEW g \in Collectors, NEW r, r = round[g], r.at = "judge", NEW refused,
           NEW b \in Listed(r), NEW v, v = Verdict(b, first_seen[g], r, refused)
    PROVE  Harmless(b, first_seen[g], r, v)
<1>1. RoundOK(r) /\ JudgedOK(first_seen[g], r)
  BY DEF OInv, Rounds, Judged
<1>2. Stock(r.objects)
  BY <1>1 DEF RoundOK
<1>3. b \in Batches
  BY <1>2 DEF Listed, Stock
<1>4. PICK i \in Nat : WalkOK(v, i, b, first_seen[g], r) /\ (Data(b) \in r.objects => i > 0)
  BY <1>2, VerdictOK DEF Stock
<1>5. /\ v.at = -1 \/ v.at = r.read \/ (b \in DOMAIN first_seen[g] /\ v.at = first_seen[g][b])
      /\ \A p \in v.gone : p \in r.objects /\ p[1] = b /\ ~IsObjectProtected(p, r)
      /\ v.gone # {} => Grace = 0 \/ b \in r.old
      /\ i > 0 /\ Grace # 0 /\ Data(b) \in r.objects /\ b \in r.known => v.gone = {}
  BY <1>4 DEF WalkOK
<1>6. ASSUME Data(b) \in v.gone
      PROVE  /\ b \in NewFiles \/ Finished(b)
             /\ \A q \in Queries : ~Reading(q, b)
  <2>1. Data(b) \in r.objects /\ b \notin r.known
    BY <1>5, <1>6 DEF IsObjectProtected, Data
  <2>2. b \in NewFiles \/ Finished(b)
    BY <1>1, <1>3, <2>1 DEF RoundOK
  <2>3. ASSUME NEW q \in Queries, Reading(q, b) PROVE FALSE
    <3>1. query[q].since \in 0..Now /\ Now - query[q].since < Grace
      BY <2>3 DEF Reading, OInv, Shapes, QueryShapes, QueryShape, Idle
    <3>2. Grace # 0
      BY <3>1, NowIsLate
    <3>3. b \in r.old
      BY <1>5, <1>6, <3>2
    <3> QED BY <1>1, <1>3, <2>3, <3>3 DEF JudgedOK
  <2> QED BY <2>2, <2>3
<1>7. ASSUME Grace > 0, b \in Present, Data(b) \in objects, NEW d \in DvIds, <<b, d>> \in v.gone
      PROVE  FALSE
  <2>1. <<b, d>> \in r.objects
    BY <1>5, <1>7
  <2>2. Data(b) \in r.objects
    BY <1>1, <1>3, <1>7, <2>1 DEF RoundOK
  <2>3. b \notin r.known
    BY <1>4, <1>5, <1>7, <2>2, NowIsLate
  <2> QED BY <1>1, <1>3, <1>7, <2>1, <2>3 DEF RoundOK
<1> QED BY <1>3, <1>5, <1>6, <1>7 DEF Harmless

\* A file that is listed or a vector of it, not protected but for a file listed
\* and known: nobody needs the file but who reads it already.
LEMMA KeptOK ==
    ASSUME OInv, NEW g \in Collectors, NEW r, r = round[g], r.at = "judge", NEW b \in Listed(r),
           ~(b \in r.known /\ Data(b) \in r.objects)
    PROVE  /\ b \notin NewFiles => Finished(b)
           /\ \A q \in Queries : Reading(q, b) => r.read >= query[q].since
<1>1. RoundOK(r) /\ JudgedOK(first_seen[g], r)
  BY DEF OInv, Rounds, Judged
<1>2. Stock(r.objects)
  BY <1>1 DEF RoundOK
<1>3. b \in Batches
  BY <1>2 DEF Listed, Stock
<1>4. CASE Data(b) \in r.objects
  BY <1>1, <1>3, <1>4 DEF RoundOK, JudgedOK
<1>5. CASE Data(b) \notin r.objects
  <2>1. PICK p \in r.objects : p[1] = b
    BY DEF Listed
  <2>2. PICK d \in {"data"} \cup DvIds : p = <<b, d>>
    <3>1. p \in Batches \X ({"data"} \cup DvIds)
      <4>1. r.objects \subseteq Batches \X ({"data"} \cup DvIds)
        BY <1>2 DEF Stock
      <4> QED BY <4>1
    <3>2. p = <<p[1], p[2]>> /\ p[2] \in {"data"} \cup DvIds
      BY <3>1
    <3> QED BY <2>1, <3>2
  <2>3. d \in DvIds
    <3>1. d = "data" => p = Data(b)
      BY <2>2 DEF Data
    <3> QED BY <1>5, <2>2, <3>1
  <2>4. b \in DOMAIN files /\ Data(b) \notin objects
    BY <1>1, <1>2, <1>3, <1>5, <2>1, <2>2, <2>3 DEF RoundOK, Stock
  <2>5. b \notin NewFiles => Finished(b)
    BY <2>4 DEF OInv, Owned, AnnouncedThere, Finished
  <2> QED BY <1>3, <2>4, <2>5 DEF OInv, Served
<1> QED BY <1>4, <1>5

LEMMA JudgeKeeps ==
    ASSUME OInv, NEW g \in Collectors, NEW refused, JudgeAndDelete(g, refused)
    PROVE  OInv'
<1>1. PICK r, seen : r = round[g] /\ seen = first_seen[g]
  OBVIOUS
<1>2. PICK v : v = [b \in Listed(r) |-> Verdict(b, seen, r, refused)]
  OBVIOUS
<1>3. PICK kept : kept = {b \in Listed(r) : v[b].at # -1}
  OBVIOUS
<1>4. PICK s : s = [b \in kept |-> v[b].at]
  OBVIOUS
<1>5. /\ r.at = "judge"
      /\ objects' = objects \ UNION {v[b].gone : b \in Listed(r)}
      /\ first_seen' = [first_seen EXCEPT ![g] = s]
      /\ shared' = shared \cup {b \in kept : b \in r.known /\ Data(b) \in r.objects}
      /\ round' = [round EXCEPT ![g] = Idle]
      /\ UNCHANGED <<catalogVars, job, stmt, query>>
  BY <1>1, <1>2, <1>3, <1>4 DEF JudgeAndDelete
<1>6. \A b \in Listed(r) :
         /\ b \in Batches
         /\ v[b].at # -1 => v[b].at = r.read \/ (b \in DOMAIN seen /\ v[b].at = seen[b])
         /\ \A p \in v[b].gone : p[1] = b
         /\ Data(b) \in v[b].gone =>
               /\ b \in NewFiles \/ Finished(b)
               /\ \A q \in Queries : ~Reading(q, b)
         /\ Grace > 0 /\ b \in Present /\ Data(b) \in objects =>
               \A d \in DvIds : <<b, d>> \notin v[b].gone
  <2>1. ASSUME NEW b \in Listed(r) PROVE Harmless(b, seen, r, v[b])
    <3>1. v[b] = Verdict(b, first_seen[g], r, refused)
      BY <1>1, <1>2
    <3>2. r = round[g] /\ r.at = "judge" /\ seen = first_seen[g]
      BY <1>1, <1>5
    <3> QED BY <3>1, <3>2, JudgeOK
  <2> QED BY <2>1 DEF Harmless
<1>7. \A p \in objects \ objects' : \E b \in Listed(r) : p \in v[b].gone
  BY <1>5
<1>8. ASSUME NEW b \in Batches, Data(b) \in objects \ objects'
      PROVE  /\ b \in NewFiles \/ Finished(b)
             /\ \A q \in Queries : ~Reading(q, b)
  <2>1. PICK c \in Listed(r) : Data(b) \in v[c].gone
    BY <1>7, <1>8
  <2>2. c = b
    BY <1>6, <2>1 DEF Data
  <2> QED BY <1>6, <2>1, <2>2
<1>9. Still
  <2>1. UNCHANGED <<files, snapshot_version, deletions, job, stmt, in_flight>>
    BY <1>5 DEF catalogVars, dataVars, memory, counters
  <2>2. objects' \subseteq objects
    BY <1>5
  <2>3. ASSUME Grace > 0, NEW d \in Started, stmt[d].anchor \in Present,
               Data(stmt[d].anchor) \in objects', <<stmt[d].anchor, d>> \in objects \ objects'
        PROVE  FALSE
    <3>1. PICK b : b = stmt[d].anchor
      OBVIOUS
    <3>2. PICK c \in Listed(r) : <<b, d>> \in v[c].gone
      BY <1>7, <2>3, <3>1
    <3>3. c = b
      BY <1>6, <3>2
    <3>4. b \in Present /\ Data(b) \in objects /\ d \in DvIds
      BY <2>2, <2>3, <3>1 DEF Started
    <3> QED BY <1>6, <2>3, <3>2, <3>3, <3>4
  <2> QED BY <1>8, <2>1, <2>2, <2>3 DEF Still
<1>10. PICK x : x = Idle
  OBVIOUS
<1>11. RoundShape(x) /\ x.at = "none" /\ round' = [round EXCEPT ![g] = x]
  BY <1>5, <1>10 DEF RoundShape, Idle
<1>12. /\ DOMAIN first_seen' = Collectors /\ first_seen'[g] = s
       /\ \A h \in Collectors \ {g} : first_seen'[h] = first_seen[h]
  BY <1>5 DEF OInv, Shapes, SeenShapes
<1>13. SeenShape(seen) /\ SeenOK(seen) /\ r.read \in 0..Now
  <2>1. RoundShape(r)
    BY <1>1 DEF OInv, Shapes, RoundShapes
  <2>2. r.read \in 0..Now
    BY <1>5, <2>1 DEF RoundShape, Idle
  <2> QED BY <1>1, <2>2 DEF OInv, Shapes, SeenShapes, Observed
<1>14. SeenShape(s)
  BY <1>3, <1>4, <1>6, <1>13 DEF SeenShape
<1>15. ASSUME NEW b \in DOMAIN s
       PROVE  /\ b \notin NewFiles \cup shared' => Finished(b)
              /\ \A q \in Queries : Reading(q, b) /\ b \notin shared' => s[b] >= query[q].since
  <2>1. b \in kept /\ b \in Listed(r) /\ v[b].at # -1 /\ s[b] = v[b].at
    BY <1>3, <1>4
  <2>2. b \notin shared' => ~(b \in r.known /\ Data(b) \in r.objects)
    BY <1>5, <2>1
  <2>3. b \notin shared' => /\ b \notin NewFiles => Finished(b)
                            /\ \A q \in Queries : Reading(q, b) => r.read >= query[q].since
    BY <1>1, <1>5, <2>1, <2>2, KeptOK
  <2>4. s[b] = r.read \/ (b \in DOMAIN seen /\ s[b] = seen[b])
    BY <1>6, <2>1
  <2>5. b \in DOMAIN seen => \A q \in Queries : Reading(q, b) => seen[b] >= query[q].since
    BY <1>13 DEF SeenOK
  <2> QED BY <2>3, <2>4, <2>5
<1>16. shared \subseteq shared' /\ query' = query
  BY <1>5
<1> QED BY <1>8, <1>9, <1>11, <1>12, <1>14, <1>15, <1>16, CollectorMoves

LEMMA CollectorKeeps ==
    ASSUME ~metanode, OInv, NEW g \in Collectors,
           RoundStep(g) \/ RefusedStep(g) \/ AbandonRound(g) \/ RestartCollector(g)
    PROVE  OInv'
BY ListKeeps, AskKnownKeeps, AskReferencedKeeps, JudgeKeeps, AbandonKeeps, RestartKeeps
   DEF RoundStep, RefusedStep

-----------------------------------------------------------------------------
(* Queries and time. *)

\* What a query begins to read is present, so nobody has observed it.
LEMMA QueryKeeps == ASSUME OInv, NEW q \in Queries, BeginQuery(q) PROVE OInv'
<1>1. Shapes /\ Manifest /\ Rounds /\ Observed /\ Judged /\ Served /\ AnnouncedThere
  BY DEF OInv
<1>2. /\ query' = [query EXCEPT ![q] =
             [at |-> "reading", snapshot |-> snapshot_version, since |-> Now]]
      /\ UNCHANGED <<catalogVars, faults, storeVars, gcVars>>
  BY DEF BeginQuery
<1>3. PICK x : x = [at |-> "reading", snapshot |-> snapshot_version, since |-> Now]
  OBVIOUS
<1>4. /\ DOMAIN query' = Queries /\ query'[q] = x
      /\ \A p \in Queries \ {q} : query'[p] = query[p]
  BY <1>1, <1>2, <1>3 DEF Shapes, QueryShapes
<1>5. Still /\ objects' = objects /\ round' = round /\ first_seen' = first_seen /\ shared' = shared
  BY <1>2 DEF Still, catalogVars, dataVars, memory, counters, storeVars, gcVars
<1>6. NewFiles' = NewFiles /\ \A b : Finished(b)' <=> Finished(b)
  BY <1>5, StillIsStill DEF Still
<1>7. Now \in Nat /\ Grace \in Nat
  BY NowIsLate
<1>8. ASSUME NEW b, Reading(q, b)' PROVE b \in Present /\ b \notin NewFiles \cup shared
  <2>1. b \in VisibleFiles(Table, snapshot_version)'
    BY <1>3, <1>4, <1>5, <1>8 DEF Reading, VisibleFiles, Still
  <2>2. b \in Present
    BY <1>5, <2>1 DEF Still, VisibleFiles, VisibleAt, Present
  <2> QED BY <1>5, <1>6, <1>8, <2>2 DEF Reading
<1>9. ASSUME NEW p \in Queries \ {q}, NEW b, Reading(p, b)' PROVE Reading(p, b) /\ query'[p] = query[p]
  BY <1>4, <1>5, <1>6, <1>9 DEF Reading, VisibleFiles, Still, Now
<1>10. Shapes'
  <2>1. RoundShapes' /\ SeenShapes'
    BY <1>1, <1>5, NowStays DEF Shapes, RoundShapes, SeenShapes, RoundShape, SeenShape, Idle
  <2>2. QueryShapes'
    <3>1. QueryShape(x)
      <4>1. Now \in 0..Now /\ snapshot_version \in 0..snapshot_version
        BY <1>1, <1>7 DEF Manifest
      <4> QED BY <1>3, <4>1 DEF QueryShape
    <3>2. \A p \in Queries : QueryShape(query'[p])
      BY <1>1, <1>4, <3>1 DEF Shapes, QueryShapes
    <3>3. snapshot_version' = snapshot_version
      BY <1>5 DEF Still
    <3> QED BY <1>4, <3>2, <3>3, NowStays DEF QueryShapes, QueryShape, Idle
  <2> QED BY <1>5, <2>1, <2>2, StillKeeps DEF Shapes
<1>11. Rounds'
  <2> SUFFICES ASSUME NEW g \in Collectors, round[g].at # "none" PROVE RoundOK(round[g])'
    BY <1>5 DEF Rounds
  <2>1. PICK r : r = round[g]
    OBVIOUS
  <2>2. RoundOK(r)'
    BY <1>1, <1>5, <2>1, RoundLasts DEF Rounds
  <2> QED BY <1>5, <2>1, <2>2 DEF RoundOK, Stock, Data
<1>12. Observed'
  <2> SUFFICES ASSUME NEW g \in Collectors, NEW b \in DOMAIN first_seen[g]
               PROVE  /\ b \notin NewFiles \cup shared => Finished(b)
                      /\ \A p \in Queries : Reading(p, b)' => first_seen[g][b] >= query'[p].since
    BY <1>5, <1>6 DEF Observed, SeenOK
  <2>1. /\ b \notin NewFiles \cup shared => Finished(b)
        /\ \A p \in Queries : Reading(p, b) => first_seen[g][b] >= query[p].since
    BY <1>1 DEF Observed, SeenOK
  <2>2. ~Reading(q, b)'
    BY <1>8, <2>1 DEF Finished
  <2> QED BY <1>9, <2>1, <2>2
<1>13. Judged'
  <2> SUFFICES ASSUME NEW g \in Collectors, round[g].at = "judge"
               PROVE  JudgedOK(first_seen[g], round[g])'
    BY <1>5 DEF Judged
  <2>1. PICK r, s : r = round[g] /\ s = first_seen[g]
    OBVIOUS
  <2>2. JudgedOK(s, r) /\ SeenOK(s) /\ RoundOK(r)
    BY <1>1, <2>1 DEF Judged, Observed, Rounds
  <2>3. ASSUME NEW p \in Queries, NEW b \in Batches, Reading(p, b)'
        PROVE  /\ b \notin r.old
               /\ Data(b) \in r.objects /\ b \notin r.known => r.read >= query'[p].since
    <3>1. CASE p = q
      <4>1. b \in Present /\ b \notin NewFiles \cup shared /\ ~Finished(b)
        BY <1>8, <2>3, <3>1 DEF Finished
      <4>2. b \notin DOMAIN s
        BY <2>2, <4>1 DEF SeenOK
      <4>3. b \notin r.old
        BY <2>2, <4>2 DEF JudgedOK
      <4>4. ~(Data(b) \in r.objects /\ b \notin r.known)
        BY <2>1, <2>2, <4>1 DEF RoundOK
      <4> QED BY <4>3, <4>4
    <3>2. CASE p # q
      BY <1>9, <2>2, <2>3, <3>2 DEF JudgedOK
    <3> QED BY <3>1, <3>2
  <2>4. r = round'[g] /\ s = first_seen'[g] /\ r.old \subseteq DOMAIN s
    BY <1>5, <2>1, <2>2 DEF JudgedOK
  <2> QED BY <2>3, <2>4 DEF JudgedOK, Data
<1>14. Served'
  <2> SUFFICES ASSUME NEW p \in Queries, NEW b \in Batches, Reading(p, b)' PROVE Data(b) \in objects
    BY <1>5 DEF Served, Data
  <2>1. CASE p = q
    BY <1>1, <1>8, <2>1 DEF AnnouncedThere
  <2>2. CASE p # q
    BY <1>1, <1>9, <2>2 DEF Served
  <2> QED BY <2>1, <2>2
<1> QED BY <1>5, <1>10, <1>11, <1>12, <1>13, <1>14, StillKeeps DEF OInv

\* A stamp that gets one older.
Dec(n) == IF n = 0 THEN 0 ELSE n - 1

\* Every stamp gets one older, none below zero, so what is in order stays so.
LEMMA TickKeeps == ASSUME OInv, Tick PROVE OInv'
<1>1. Shapes /\ Manifest /\ Rounds /\ Observed /\ Judged /\ Served
  BY DEF OInv
<1>2. Now \in Nat /\ Grace \in Nat /\ Now' = Now
  BY NowIsLate, NowStays
<1>3. DOMAIN in_flight' = DOMAIN in_flight
  BY DEF Tick, Older
<1>4. Still /\ objects' = objects /\ shared' = shared
  BY <1>3 DEF Tick, Still, dataVars, counters, storeVars
<1>5. NewFiles' = NewFiles /\ \A b : Finished(b)' <=> Finished(b)
  BY <1>4, StillIsStill DEF Still
<1>6. /\ DOMAIN first_seen' = Collectors
      /\ \A g \in Collectors :
            /\ DOMAIN first_seen'[g] = DOMAIN first_seen[g]
            /\ \A b \in DOMAIN first_seen[g] : first_seen'[g][b] = Dec(first_seen[g][b])
  BY DEF Tick, Older, Dec
<1>7. /\ DOMAIN query' = Queries
      /\ \A q \in Queries :
            /\ QueryShape(query'[q])
            /\ query'[q].at = "reading" =>
                  /\ query[q].at = "reading" /\ query'[q].snapshot = query[q].snapshot
                  /\ query[q].since \in 0..Now /\ query'[q].since = Dec(query[q].since)
  <2>1. query' = [q \in Queries |->
                     IF query[q] # Idle /\ query[q].since > 0
                     THEN [query[q] EXCEPT !.since = @ - 1] ELSE query[q]]
    BY DEF Tick
  <2>2. ASSUME NEW q \in Queries
        PROVE  /\ QueryShape(query'[q])
               /\ query'[q].at = "reading" =>
                     /\ query[q].at = "reading" /\ query'[q].snapshot = query[q].snapshot
                     /\ query[q].since \in 0..Now /\ query'[q].since = Dec(query[q].since)
    <3>1. PICK x, y : x = query[q] /\ y = query'[q]
      OBVIOUS
    <3>2. QueryShape(x)
      BY <1>1, <3>1 DEF Shapes, QueryShapes
    <3>3. y = IF x # Idle /\ x.since > 0 THEN [x EXCEPT !.since = @ - 1] ELSE x
      BY <2>1, <3>1
    <3>4. CASE x = Idle
      <4>1. y = Idle /\ y.at # "reading"
        BY <3>3, <3>4 DEF Idle
      <4> QED BY <3>1, <3>2, <3>4, <4>1
    <3>5. CASE x # Idle
      <4>1. /\ x = [at |-> "reading", snapshot |-> x.snapshot, since |-> x.since]
            /\ x.snapshot \in 0..snapshot_version /\ x.since \in 0..Now
        BY <3>2, <3>5 DEF QueryShape
      <4>2. CASE x.since > 0
        <5>1. y = [at |-> "reading", snapshot |-> x.snapshot, since |-> x.since - 1]
          BY <3>3, <3>5, <4>1, <4>2
        <5>2. x.since - 1 \in 0..Now /\ Dec(x.since) = x.since - 1
          BY <1>2, <4>1, <4>2 DEF Dec
        <5> QED BY <3>1, <4>1, <5>1, <5>2 DEF QueryShape
      <4>3. CASE ~(x.since > 0)
        <5>1. y = x
          BY <3>3, <4>3
        <5>2. Dec(x.since) = x.since
          BY <1>2, <4>1, <4>3 DEF Dec
        <5> QED BY <3>1, <3>2, <4>1, <5>1, <5>2
      <4> QED BY <4>2, <4>3
    <3> QED BY <3>4, <3>5
  <2>3. DOMAIN query' = Queries
    BY <2>1
  <2> QED BY <2>2, <2>3
<1>8. /\ DOMAIN round' = Collectors
      /\ \A g \in Collectors :
            /\ RoundShape(round'[g]) /\ round'[g].at = round[g].at
            /\ round[g].at # "none" => round'[g].objects = round[g].objects
            /\ round[g].at \in {"known", "judge"} => round'[g].known = round[g].known
            /\ round[g].at = "judge" =>
                  /\ round'[g].old = round[g].old
                  /\ round[g].read \in 0..Now /\ round'[g].read = Dec(round[g].read)
  <2>1. round' = [g \in Collectors |->
                     IF round[g].at = "judge" /\ round[g].read > 0
                     THEN [round[g] EXCEPT !.read = @ - 1] ELSE round[g]]
    BY DEF Tick
  <2>2. ASSUME NEW g \in Collectors
        PROVE  /\ RoundShape(round'[g]) /\ round'[g].at = round[g].at
               /\ round[g].at # "none" => round'[g].objects = round[g].objects
               /\ round[g].at \in {"known", "judge"} => round'[g].known = round[g].known
               /\ round[g].at = "judge" =>
                     /\ round'[g].old = round[g].old
                     /\ round[g].read \in 0..Now /\ round'[g].read = Dec(round[g].read)
    <3>1. PICK x, y : x = round[g] /\ y = round'[g]
      OBVIOUS
    <3>2. RoundShape(x)
      BY <1>1, <3>1 DEF Shapes, RoundShapes
    <3>3. y = IF x.at = "judge" /\ x.read > 0 THEN [x EXCEPT !.read = @ - 1] ELSE x
      BY <2>1, <3>1
    <3>4. CASE x.at # "judge"
      BY <3>1, <3>2, <3>3, <3>4
    <3>5. CASE x.at = "judge"
      <4>1. /\ x = [at |-> "judge", objects |-> x.objects, known |-> x.known,
                    referenced |-> x.referenced, read |-> x.read, old |-> x.old]
            /\ x.read \in 0..Now
        BY <3>2, <3>5 DEF RoundShape, Idle
      <4>2. CASE x.read > 0
        <5>1. y = [at |-> "judge", objects |-> x.objects, known |-> x.known,
                   referenced |-> x.referenced, read |-> x.read - 1, old |-> x.old]
          BY <3>3, <3>5, <4>1, <4>2
        <5>2. x.read - 1 \in 0..Now /\ Dec(x.read) = x.read - 1
          BY <1>2, <4>1, <4>2 DEF Dec
        <5>3. RoundShape(y)
          BY <5>1, <5>2 DEF RoundShape
        <5> QED BY <3>1, <3>5, <4>1, <5>1, <5>2, <5>3
      <4>3. CASE ~(x.read > 0)
        <5>1. y = x
          BY <3>3, <4>3
        <5>2. Dec(x.read) = x.read
          BY <1>2, <4>1, <4>3 DEF Dec
        <5> QED BY <3>1, <3>2, <4>1, <5>1, <5>2
      <4> QED BY <4>2, <4>3
    <3> QED BY <3>4, <3>5
  <2>3. DOMAIN round' = Collectors
    BY <2>1
  <2> QED BY <2>2, <2>3
<1>9. \A n \in 0..Now, m \in 0..Now : n >= m => Dec(n) >= Dec(m)
  BY <1>2 DEF Dec
<1>10. \A n \in 0..Now : Dec(n) \in 0..Now /\ Now - Dec(n) >= Now - n
  BY <1>2 DEF Dec
<1>11. ASSUME NEW q \in Queries, NEW b, Reading(q, b)'
       PROVE  /\ Reading(q, b) /\ query[q].since \in 0..Now
              /\ query'[q].since = Dec(query[q].since)
  <2>1. query'[q].at = "reading" /\ Now - query'[q].since < Grace
    BY <1>2, <1>11 DEF Reading
  <2>2. /\ query[q].at = "reading" /\ query'[q].snapshot = query[q].snapshot
        /\ query[q].since \in 0..Now /\ query'[q].since = Dec(query[q].since)
    BY <1>7, <2>1
  <2>3. Now - query[q].since < Grace
    <3>1. PICK m \in 0..Now : m = query[q].since
      BY <2>2
    <3>2. Dec(m) \in 0..Now /\ Now - Dec(m) >= Now - m /\ Now - Dec(m) < Grace
      BY <1>10, <2>1, <2>2, <3>1
    <3> QED BY <1>2, <3>1, <3>2
  <2>4. b \in VisibleFiles(Table, query[q].snapshot)
    BY <1>4, <1>11, <2>2 DEF Reading, VisibleFiles, Still
  <2>5. b \notin NewFiles \cup shared
    BY <1>4, <1>5, <1>11 DEF Reading
  <2> QED BY <2>2, <2>3, <2>4, <2>5 DEF Reading
<1>12. Shapes'
  <2>1. RoundShapes'
    BY <1>2, <1>8 DEF RoundShapes, RoundShape, Idle
  <2>2. SeenShapes'
    <3>1. \A g \in Collectors : SeenShape(first_seen'[g])
      BY <1>1, <1>6, <1>10 DEF Shapes, SeenShapes, SeenShape
    <3> QED BY <1>2, <1>6, <3>1 DEF SeenShapes, SeenShape
  <2>3. QueryShapes'
    <3>1. snapshot_version' = snapshot_version
      BY <1>4 DEF Still
    <3> QED BY <1>2, <1>7, <3>1 DEF QueryShapes, QueryShape, Idle
  <2> QED BY <1>4, <2>1, <2>2, <2>3, StillKeeps DEF Shapes
<1>13. Rounds'
  <2> SUFFICES ASSUME NEW g \in Collectors, round'[g].at # "none" PROVE RoundOK(round[g])'
    BY DEF Rounds
  <2>1. PICK r, x : r = round[g] /\ x = round'[g]
    OBVIOUS
  <2>2. RoundOK(r)
    BY <1>1, <1>8, <2>1 DEF Rounds
  <2>3. /\ x.at = r.at /\ x.objects = r.objects
        /\ r.at \in {"known", "judge"} => x.known = r.known
    BY <1>8, <2>1
  <2>4. RoundOK(x)
    BY <2>2, <2>3 DEF RoundOK
  <2>5. RoundOK(x)'
    BY <1>4, <2>4, RoundLasts
  <2> QED BY <2>1, <2>5 DEF RoundOK, Stock, Data
<1>14. Observed'
  <2> SUFFICES ASSUME NEW g \in Collectors, NEW b \in DOMAIN first_seen[g]
               PROVE  /\ b \notin NewFiles \cup shared => Finished(b)
                      /\ \A q \in Queries : Reading(q, b)' => first_seen'[g][b] >= query'[q].since
    BY <1>4, <1>5, <1>6 DEF Observed, SeenOK
  <2>1. /\ b \notin NewFiles \cup shared => Finished(b)
        /\ \A q \in Queries : Reading(q, b) => first_seen[g][b] >= query[q].since
    BY <1>1 DEF Observed, SeenOK
  <2>2. first_seen[g][b] \in 0..Now /\ first_seen'[g][b] = Dec(first_seen[g][b])
    BY <1>1, <1>6 DEF Shapes, SeenShapes, SeenShape
  <2> QED BY <1>9, <1>11, <2>1, <2>2
<1>15. Judged'
  <2> SUFFICES ASSUME NEW g \in Collectors, round'[g].at = "judge"
               PROVE  JudgedOK(first_seen[g], round[g])'
    BY DEF Judged
  <2>1. PICK r, x, s, t : r = round[g] /\ x = round'[g] /\ s = first_seen[g] /\ t = first_seen'[g]
    OBVIOUS
  <2>2. /\ x.objects = r.objects /\ x.known = r.known /\ x.old = r.old /\ r.at = "judge"
        /\ r.read \in 0..Now /\ x.read = Dec(r.read) /\ DOMAIN t = DOMAIN s
    BY <1>6, <1>8, <2>1
  <2>3. JudgedOK(s, r)
    BY <1>1, <2>1, <2>2 DEF Judged
  <2>4. ASSUME NEW q \in Queries, NEW b \in Batches, Reading(q, b)'
        PROVE  /\ b \notin x.old
               /\ Data(b) \in x.objects /\ b \notin x.known => x.read >= query'[q].since
    <3>1. /\ Reading(q, b) /\ query[q].since \in 0..Now
          /\ query'[q].since = Dec(query[q].since)
      BY <1>11, <2>4
    <3>2. /\ b \notin r.old
          /\ Data(b) \in r.objects /\ b \notin r.known => r.read >= query[q].since
      BY <2>3, <3>1 DEF JudgedOK
    <3> QED BY <1>9, <2>2, <3>1, <3>2
  <2>5. x.old \subseteq DOMAIN t
    BY <2>2, <2>3 DEF JudgedOK
  <2> QED BY <2>1, <2>4, <2>5 DEF JudgedOK, Data
<1>16. Served'
  <2> SUFFICES ASSUME NEW q \in Queries, NEW b \in Batches, Reading(q, b)' PROVE Data(b) \in objects
    BY <1>4 DEF Served, Data
  <2> QED BY <1>1, <1>11 DEF Served
<1> QED BY <1>4, <1>12, <1>13, <1>14, <1>15, <1>16, StillKeeps DEF OInv

-----------------------------------------------------------------------------
(* The theorems. *)

LEMMA OInvAtStart == ASSUME Init PROVE OInv
<1>1. /\ objects = {} /\ shared = {}
      /\ job = [b \in Batches |-> Idle] /\ stmt = [d \in DvIds |-> Idle]
      /\ round = [g \in Collectors |-> Idle] /\ query = [q \in Queries |-> Idle]
      /\ first_seen = [g \in Collectors |-> Nothing]
      /\ DOMAIN files = {} /\ DOMAIN deletions = {} /\ snapshot_version = 1
  BY DEF Init, CatalogInit, Nothing
<1>2. Started = {} /\ NewFiles = {} /\ Present = {}
  BY <1>1 DEF Started, NewFiles, Present
<1>3. Shapes
  <2>1. JobShapes /\ StmtShapes /\ RoundShapes /\ QueryShapes
    BY <1>1 DEF JobShapes, StmtShapes, RoundShapes, QueryShapes, JobShape, StmtShape, RoundShape, QueryShape
  <2>2. SeenShapes
    BY <1>1 DEF SeenShapes, SeenShape, Nothing
  <2> QED BY <2>1, <2>2 DEF Shapes
<1>4. Manifest
  BY <1>1 DEF Manifest
<1>5. Owned
  BY <1>1, <1>2 DEF Owned
<1>6. Flying
  BY <1>1 DEF Flying, Idle
<1>7. Anchored /\ VectorsKept
  BY <1>1, <1>2 DEF Anchored, VectorsKept
<1>8. Stock(objects)
  BY <1>1, FS_EmptySet DEF Stock
<1>9. Rounds
  BY <1>1 DEF Rounds, Idle
<1>10. AnnouncedThere
  BY <1>2 DEF AnnouncedThere
<1>11. Observed
  BY <1>1 DEF Observed, SeenOK, Nothing
<1>12. Judged
  BY <1>1 DEF Judged, Idle
<1>13. Served
  BY <1>1 DEF Served, Reading, Idle
<1> QED BY <1>3, <1>4, <1>5, <1>6, <1>7, <1>8, <1>9, <1>10, <1>11, <1>12, <1>13 DEF OInv

LEMMA OInvIsKept == ASSUME ~metanode, OInv, [Next]_vars PROVE OInv'
<1>1. CASE Next
  BY <1>1, WriterKeeps, StatementKeeps, SweepKeeps, CollectorKeeps, QueryKeeps, TickKeeps DEF Next
<1>2. CASE UNCHANGED vars
  <2>1. Calm /\ UNCHANGED <<objects, job, stmt, round, first_seen, query, files, deletions, in_flight>>
    <3>1. /\ UNCHANGED <<files, snapshot_version, deletions, in_flight, objects, job, stmt>>
          /\ UNCHANGED <<round, first_seen, copy, overdue, shared, query>>
      BY <1>2 DEF vars, catalogVars, dataVars, memory, counters, storeVars, gcVars
    <3>2. FilesGrow /\ Manifest'
      BY <3>1, StillGrows DEF OInv
    <3> QED BY <3>1, <3>2 DEF Calm, NewFiles, Started, gcVars
  <2>2. Still /\ snapshot_version' = snapshot_version
    BY <1>2 DEF Still, vars, catalogVars, dataVars, memory, counters, storeVars
  <2>3. Shapes'
    <3>1. JobShapes' /\ StmtShapes'
      BY <2>2, StillKeeps
    <3> QED BY <2>1, <3>1, ShapesStay DEF OInv, Calm
  <2> QED BY <2>1, <2>2, <2>3, CalmKeeps, StillKeeps DEF OInv
<1> QED BY <1>1, <1>2

\* The deployment stays as it is.
LEMMA OInvHolds == Spec => [](metanode \/ OInv)
<1>1. Init => metanode \/ OInv
  BY OInvAtStart
<1>2. (metanode \/ OInv) /\ [Next /\ UNCHANGED metanode]_<<vars, metanode>> => (metanode \/ OInv)'
  BY OInvIsKept
<1> QED BY <1>1, <1>2, PTL DEF Spec

-----------------------------------------------------------------------------
(* In both deployments, what is not overdue is there. *)

\* What has a date is in the store or was; the files of the catalog have one.
Dated ==
    /\ DOMAIN born \subseteq Batches /\ \A b \in DOMAIN born : born[b] \in 0..Now
    /\ DOMAIN files \subseteq DOMAIN born
    /\ NewFiles \subseteq DOMAIN born \cup {NoFile}
    /\ \A b \in Batches : job[b].at \in {"uploaded", "written"} => b \in DOMAIN born

\* A statement marks a file that has been uploaded, and only that.
Hung ==
    /\ \A d \in Started : stmt[d].anchor \in DOMAIN born
    /\ \A k \in DOMAIN deletions : k[1] \in Started /\ k[2] = stmt[k[1]].anchor

Listing(S) == IsFiniteSet(S) /\ \A p \in S : p[1] \in DOMAIN born

\* When the clock was read after the upload, what had gone unknown for the grace
\* became overdue.
RoundDated(r) ==
    /\ Listing(r.objects)
    /\ \A b \in Listed(r) : Data(b) \in r.objects \/ b \in overdue
    /\ r.at = "judge" =>
          /\ \A b \in Listed(r) : born[b] <= r.read
          /\ \A b \in Listed(r) \ r.known : Grace = 0 \/ b \in r.old => b \in overdue

RoundsDated == \A g \in Collectors : round[g].at # "none" => RoundDated(round[g])

\* Nothing is observed before it is uploaded.
SeenDated ==
    \A g \in Collectors : \A b \in DOMAIN first_seen[g] :
        b \in DOMAIN born /\ born[b] <= first_seen[g][b]

\* The object, and with any grace the vectors that wait for their statement too.
Kept ==
    /\ \A b \in DOMAIN born \ overdue : Data(b) \in objects
    /\ Grace > 0 =>
          \A d \in Started :
              stmt[d].anchor \notin overdue => <<stmt[d].anchor, d>> \in objects

GInv ==
    /\ JobShapes /\ StmtShapes /\ RoundShapes /\ SeenShapes
    /\ Dated /\ Hung /\ Listing(objects) /\ RoundsDated /\ SeenDated /\ Kept

\* Writers and statements upload and date, and take nothing away.
Grown ==
    /\ UNCHANGED <<round, first_seen, overdue>>
    /\ objects \subseteq objects' /\ IsFiniteSet(objects')
    /\ \A p \in objects' \ objects : p[1] \in DOMAIN born'
    /\ DOMAIN born \subseteq DOMAIN born' /\ DOMAIN born' \subseteq Batches
    /\ \A b \in DOMAIN born : born'[b] = born[b]
    /\ \A b \in DOMAIN born' \ DOMAIN born : born'[b] = Now /\ Data(b) \in objects'
    /\ DOMAIN files' \subseteq DOMAIN born'
    /\ NewFiles' \subseteq DOMAIN born' \cup {NoFile}
    /\ \A b \in Batches : job'[b].at \in {"uploaded", "written"} => b \in DOMAIN born'
    /\ Started \subseteq Started'
    /\ \A d \in Started : stmt'[d].anchor = stmt[d].anchor
    /\ \A d \in Started' \ Started :
          stmt'[d].anchor \in DOMAIN born' /\ <<stmt'[d].anchor, d>> \in objects'
    /\ \A k \in DOMAIN deletions' \ DOMAIN deletions :
          k[1] \in Started' /\ k[2] = stmt'[k[1]].anchor

LEMMA GrownKeeps == ASSUME GInv, Grown, JobShapes', StmtShapes' PROVE GInv'
<1>1. /\ round' = round /\ first_seen' = first_seen /\ overdue' = overdue
      /\ objects \subseteq objects' /\ DOMAIN born \subseteq DOMAIN born'
      /\ \A b \in DOMAIN born : born'[b] = born[b]
  BY DEF Grown
<1>2. RoundShapes' /\ SeenShapes'
  BY <1>1, NowStays DEF GInv, RoundShapes, RoundShape, SeenShapes, SeenShape, Idle
<1>3. Dated'
  <2>1. \A b \in DOMAIN born' : born'[b] \in 0..Now
    <3>1. Now \in 0..Now
      BY NowIsLate
    <3> QED BY <1>1, <3>1 DEF GInv, Dated, Grown
  <2> QED BY <2>1, NowStays DEF Dated, Grown
<1>4. Hung'
  BY DEF GInv, Hung, Grown
<1>6. Listing(objects)'
  BY DEF GInv, Listing, Grown
<1>7. RoundsDated'
  <2> SUFFICES ASSUME NEW g \in Collectors, round[g].at # "none" PROVE RoundDated(round[g])'
    BY <1>1 DEF RoundsDated
  <2>1. RoundDated(round[g])
    BY DEF GInv, RoundsDated
  <2>2. PICK r : r = round[g]
    OBVIOUS
  <2>3. \A b \in Listed(r) : b \in DOMAIN born
    BY <2>1, <2>2 DEF RoundDated, Listing, Listed
  <2>4. r = round'[g]
    BY <1>1, <2>2
  <2> QED BY <1>1, <2>1, <2>2, <2>3, <2>4 DEF RoundDated, Listing, Listed, Data
<1>8. SeenDated'
  BY <1>1 DEF GInv, SeenDated
<1>9. Kept'
  BY <1>1 DEF GInv, Kept, Grown, Data
<1> QED BY <1>2, <1>3, <1>4, <1>6, <1>7, <1>8, <1>9 DEF GInv

\* Uploading dates what had no date.
LEMMA Born ==
    ASSUME NEW B, Bear(B)
    PROVE  /\ DOMAIN born' = DOMAIN born \cup B
           /\ \A b \in DOMAIN born : born'[b] = born[b]
           /\ \A b \in B \ DOMAIN born : born'[b] = Now
BY DEF Bear, Over

\* A job moves on, perhaps with its upload or its commit.
LEMMA JobGoes ==
    ASSUME GInv, NEW b \in Batches, NEW x, JobShape(x), job' = [job EXCEPT ![b] = x],
           \/ UNCHANGED <<objects, born>>
           \/ objects' = objects \cup {Data(b)} /\ Bear({b}),
           x.at \in {"uploaded", "written"} => b \in DOMAIN born',
           DOMAIN files' \subseteq DOMAIN files \cup {b},
           b \in DOMAIN files' \ DOMAIN files => b \in DOMAIN born,
           DOMAIN deletions' \subseteq DOMAIN deletions, stmt' = stmt, UNCHANGED gcVars
    PROVE  GInv'
<1>1. /\ DOMAIN job' = Batches /\ job'[b] = x
      /\ \A y \in Batches \ {b} : job'[y] = job[y]
  BY DEF GInv, JobShapes
<1>2. Started' = Started /\ NewFiles' = NewFiles
  BY DEF Started, NewFiles
<1>3. JobShapes'
  <2>1. \A y \in Batches : JobShape(job'[y])
    BY <1>1 DEF GInv, JobShapes
  <2> QED BY <1>1, <2>1 DEF JobShapes, JobShape, Idle
<1>4. StmtShapes'
  BY DEF GInv, StmtShapes, StmtShape, Idle
<1>5. /\ objects \subseteq objects' /\ DOMAIN born \subseteq DOMAIN born' /\ DOMAIN born' \subseteq Batches
      /\ \A y \in DOMAIN born : born'[y] = born[y]
      /\ \A y \in DOMAIN born' \ DOMAIN born : born'[y] = Now /\ Data(y) \in objects'
      /\ \A p \in objects' \ objects : p[1] \in DOMAIN born'
      /\ IsFiniteSet(objects')
  <2>0. DOMAIN born \subseteq Batches /\ IsFiniteSet(objects)
    BY DEF GInv, Dated, Listing
  <2>1. CASE UNCHANGED <<objects, born>>
    BY <2>0, <2>1
  <2>2. CASE objects' = objects \cup {Data(b)} /\ Bear({b})
    <3>1. /\ DOMAIN born' = DOMAIN born \cup {b}
          /\ \A y \in DOMAIN born : born'[y] = born[y]
          /\ \A y \in {b} \ DOMAIN born : born'[y] = Now
      BY <2>2, Born
    <3>2. IsFiniteSet(objects')
      BY <2>0, <2>2, FS_AddElement
    <3>3. Data(b)[1] = b
      BY DEF Data
    <3> QED BY <2>0, <2>2, <3>1, <3>2, <3>3
  <2> QED BY <2>1, <2>2
<1>6. DOMAIN files' \subseteq DOMAIN born'
  BY <1>5 DEF GInv, Dated
<1>7. \A y \in Batches : job'[y].at \in {"uploaded", "written"} => y \in DOMAIN born'
  BY <1>1, <1>5 DEF GInv, Dated
<1>8. NewFiles' \subseteq DOMAIN born' \cup {NoFile}
  BY <1>2, <1>5 DEF GInv, Dated
<1>9. Grown
  BY <1>2, <1>5, <1>6, <1>7, <1>8 DEF Grown, gcVars
<1> QED BY <1>3, <1>4, <1>9, GrownKeeps

\* The collectors and the writers are where they were.
LEMMA AsideKeeps ==
    ASSUME GInv, UNCHANGED <<objects, born, job, stmt, files, deletions>>,
           UNCHANGED <<round, first_seen, overdue>>
    PROVE  GInv'
<1>1. Started' = Started /\ NewFiles' = NewFiles
  BY DEF Started, NewFiles
<1>2. JobShapes' /\ StmtShapes'
  BY DEF GInv, JobShapes, JobShape, StmtShapes, StmtShape, Idle
<1>3. Grown
  BY <1>1 DEF GInv, Grown, Dated, Listing
<1> QED BY <1>2, <1>3, GrownKeeps

LEMMA BeginGoes ==
    ASSUME GInv, NEW b \in Batches, (\E K : BeginFlush(b, K)) \/ BeginMerge(b)
    PROVE  GInv'
<1>1. PICK I, K : job' = [job EXCEPT ![b] = [at |-> "pending", inputs |-> I, keys |-> K]]
  BY DEF BeginFlush, BeginMerge
<1>2. PICK x : x = [at |-> "pending", inputs |-> I, keys |-> K]
  OBVIOUS
<1>3. JobShape(x) /\ x.at = "pending"
  BY <1>2 DEF JobShape
<1>4. UNCHANGED <<objects, born, files, deletions, stmt, gcVars>>
  BY DEF BeginFlush, BeginMerge, catalogVars, dataVars
<1> QED BY <1>1, <1>2, <1>3, <1>4, JobGoes

LEMMA AnnounceGoes == ASSUME GInv, NEW b \in Batches, Announce(b) PROVE GInv'
<1>1. /\ job[b].at # "none" /\ job' = [job EXCEPT ![b].at = "announced"]
      /\ UNCHANGED <<objects, born, stmt, gcVars>>
  BY DEF Announce
<1>2. UNCHANGED <<files, deletions>>
  BY DEF Announce, RecordInFlight, catalogVars, dataVars
<1>3. \E x : JobShape(x) /\ x.at = "announced" /\ job' = [job EXCEPT ![b] = x]
  BY <1>1, JobShaped DEF GInv
<1> QED BY <1>1, <1>2, <1>3, JobGoes

LEMMA UploadGoes == ASSUME GInv, NEW b \in Batches, Upload(b) PROVE GInv'
<1>1. /\ job[b].at # "none" /\ job' = [job EXCEPT ![b].at = "uploaded"]
      /\ objects' = objects \cup {Data(b)} /\ Bear({b}) /\ UNCHANGED <<files, deletions, stmt, gcVars>>
  BY DEF Upload, catalogVars, dataVars
<1>2. \E x : JobShape(x) /\ x.at = "uploaded" /\ job' = [job EXCEPT ![b] = x]
  BY <1>1, JobShaped DEF GInv
<1>3. b \in DOMAIN born'
  BY <1>1, Born
<1> QED BY <1>1, <1>2, <1>3, JobGoes

LEMMA LogUploadGoes == ASSUME GInv, NEW b \in Batches, LogUpload(b) PROVE GInv'
<1>1. /\ job[b].at = "uploaded" /\ job' = [job EXCEPT ![b].at = "written"]
      /\ UNCHANGED <<objects, born, files, deletions, stmt, gcVars>>
  BY DEF LogUpload, catalogVars, dataVars
<1>2. \E x : JobShape(x) /\ x.at = "written" /\ job' = [job EXCEPT ![b] = x]
  BY <1>1, JobShaped DEF GInv
<1>3. b \in DOMAIN born'
  BY <1>1 DEF GInv, Dated
<1> QED BY <1>1, <1>2, <1>3, JobGoes

LEMMA DieGoes == ASSUME GInv, NEW b \in Batches, Die(b) PROVE GInv'
<1>1. /\ job[b].at # "none"
      /\ job' = [job EXCEPT ![b].at = "pending"] \/ job' = [job EXCEPT ![b] = Done]
      /\ UNCHANGED <<objects, born, files, deletions, stmt, gcVars>>
  BY DEF Die, catalogVars, dataVars
<1>2. JobShape(Done) /\ Done.at = "done"
  BY DEF JobShape, Done
<1>3. \E x : JobShape(x) /\ x.at \in {"pending", "done"} /\ job' = [job EXCEPT ![b] = x]
  <2>1. CASE job' = [job EXCEPT ![b].at = "pending"]
    BY <1>1, <2>1, JobShaped DEF GInv
  <2>2. CASE job' = [job EXCEPT ![b] = Done]
    BY <1>2, <2>2
  <2> QED BY <1>1, <2>1, <2>2
<1> QED BY <1>1, <1>3, JobGoes

LEMMA CommitGoes == ASSUME GInv, NEW b \in Batches, Commit(b) \/ CommitMerge(b) PROVE GInv'
<1>1. /\ job[b].at \in {"uploaded", "written"} /\ job' = [job EXCEPT ![b] = Done]
      /\ UNCHANGED <<objects, born, stmt, gcVars>>
  BY DEF Commit, CommitMerge
<1>2. JobShape(Done) /\ Done.at = "done" /\ b \in DOMAIN born
  BY <1>1 DEF JobShape, Done, GInv, Dated
<1>3. DOMAIN files' \subseteq DOMAIN files \cup {b} /\ deletions' = deletions
  <2>1. CASE CommitFiles(b, Table, Shard, 1, job[b].keys, 0)
    BY <2>1 DEF CommitFiles, Over, Entry
  <2>2. CASE CommitDuplicate(b, job[b].keys)
    BY <2>2 DEF CommitDuplicate, dataVars
  <2>3. CASE CommitCompaction(job[b].inputs, b, Table, Shard, 1, 0, "compaction")
    <3>1. /\ files' = Over(Entry(b, NewFile(Table, Shard, 1)), Over(Retired(InputsLeft(job[b].inputs)), files))
          /\ deletions' = deletions
      BY <2>3 DEF CommitCompaction
    <3>2. DOMAIN Retired(InputsLeft(job[b].inputs)) \subseteq DOMAIN files
      BY DEF Retired, InputsLeft
    <3> QED BY <3>1, <3>2 DEF Over, Entry
  <2>4. CASE UNCHANGED catalogVars
    BY <2>4 DEF catalogVars, dataVars
  <2> QED BY <2>1, <2>2, <2>3, <2>4 DEF Commit, CommitMerge
<1> QED BY <1>1, <1>2, <1>3, JobGoes

LEMMA WriterGoes == ASSUME GInv, WriterStep PROVE GInv'
BY BeginGoes, AnnounceGoes, UploadGoes, LogUploadGoes, CommitGoes, DieGoes DEF WriterStep

LEMMA SweepGoes == ASSUME GInv, Sweep PROVE GInv'
<1>1. UNCHANGED <<objects, born, job, stmt, files, deletions, round, first_seen, overdue>>
  BY DEF Sweep, SweepInFlight, dataVars, storeVars, gcVars
<1> QED BY <1>1, AsideKeeps

\* A statement that has begun moves on, perhaps with its changes to the catalog.
LEMMA StmtGoes ==
    ASSUME GInv, NEW d \in DvIds, stmt[d].at # "none", NEW at, at # "none",
           stmt' = [stmt EXCEPT ![d].at = at],
           DOMAIN files' \subseteq DOMAIN files \cup ({stmt[d].new} \ {NoFile}),
           DOMAIN deletions' \subseteq DOMAIN deletions \cup {<<d, stmt[d].anchor>>},
           UNCHANGED <<objects, born, job, gcVars>>
    PROVE  GInv'
<1>1. DOMAIN stmt = DvIds /\ StmtShape(stmt[d]) /\ d \in Started
  BY DEF GInv, StmtShapes, Started, Idle
<1>2. PICK x : x = stmt[d]
  OBVIOUS
<1>3. x = [at |-> x.at, anchor |-> x.anchor, new |-> x.new] /\ x.new \in Batches \cup {NoFile}
  BY <1>1, <1>2 DEF StmtShape, Idle
<1>4. PICK y : y = [at |-> at, anchor |-> x.anchor, new |-> x.new]
  OBVIOUS
<1>5. /\ DOMAIN stmt' = DvIds /\ stmt'[d] = y
      /\ \A e \in DvIds \ {d} : stmt'[e] = stmt[e]
  BY <1>1, <1>2, <1>3, <1>4
<1>6. y # Idle /\ StmtShape(y) /\ y.anchor = x.anchor /\ y.new = x.new
  BY <1>3, <1>4 DEF StmtShape, Idle
<1>7. \A e \in DvIds : stmt'[e] # Idle <=> stmt[e] # Idle
  BY <1>1, <1>5, <1>6 DEF Started
<1>8. Started' = Started
  BY <1>7 DEF Started, Idle
<1>9. \A e \in Started : stmt'[e].anchor = stmt[e].anchor /\ stmt'[e].new = stmt[e].new
  BY <1>2, <1>5, <1>6 DEF Started
<1>10. NewFiles' = NewFiles /\ stmt[d].new \in NewFiles
  BY <1>1, <1>8, <1>9 DEF NewFiles
<1>11. StmtShapes'
  <2>1. \A e \in DvIds : StmtShape(stmt'[e])
    BY <1>5, <1>6 DEF GInv, StmtShapes
  <2> QED BY <1>5, <2>1 DEF StmtShapes, StmtShape, Idle
<1>12. JobShapes'
  BY DEF GInv, JobShapes, JobShape, Idle
<1>13. DOMAIN files' \subseteq DOMAIN born
  BY <1>10 DEF GInv, Dated
<1>14. \A k \in DOMAIN deletions' \ DOMAIN deletions : k[1] \in Started /\ k[2] = stmt'[k[1]].anchor
  BY <1>1, <1>9
<1>15. Grown
  BY <1>8, <1>9, <1>10, <1>13, <1>14 DEF GInv, Grown, Dated, Listing, gcVars
<1> QED BY <1>11, <1>12, <1>15, GrownKeeps

LEMMA LogGoes ==
    ASSUME GInv, NEW d \in DvIds, LogStatement(d) \/ DieBeforeLog(d)
    PROVE  GInv'
<1>1. PICK at : at # "none" /\ stmt' = [stmt EXCEPT ![d].at = at]
  BY DEF LogStatement, DieBeforeLog
<1>2. stmt[d].at # "none" /\ UNCHANGED <<objects, born, job, files, deletions, gcVars>>
  BY DEF LogStatement, DieBeforeLog, catalogVars, dataVars
<1> QED BY <1>1, <1>2, StmtGoes

LEMMA ApplyGoes == ASSUME GInv, NEW d \in DvIds, ApplyStatement(d) PROVE GInv'
<1>1. /\ stmt[d].at = "logged" /\ stmt' = [stmt EXCEPT ![d].at = "done"]
      /\ UNCHANGED <<objects, born, job, gcVars>>
  BY DEF ApplyStatement
<1>2. PICK b, n, D, N : /\ b = stmt[d].anchor /\ n = stmt[d].new /\ D = Entry(b, 1)
                        /\ N = Entry(n, [shard |-> Shard, rows |-> 1])
  OBVIOUS
<1>3. DOMAIN D = {b} /\ DOMAIN N = {n}
  BY <1>2 DEF Entry
<1>4. CASE UNCHANGED catalogVars
  <2>1. UNCHANGED <<files, deletions>>
    BY <1>4 DEF catalogVars, dataVars
  <2> QED BY <1>1, <2>1, StmtGoes
<1>5. CASE ApplyDeletions(d, Table, D)
  <2>1. files' = files /\ DOMAIN deletions' \subseteq DOMAIN deletions \cup ({d} \X DOMAIN D)
    BY <1>5 DEF ApplyDeletions, Over, NewDeletions, FreshDeletions
  <2>2. DOMAIN deletions' \subseteq DOMAIN deletions \cup {<<d, stmt[d].anchor>>}
    BY <1>2, <1>3, <2>1
  <2> QED BY <1>1, <2>1, <2>2, StmtGoes
<1>6. CASE n # NoFile /\ ApplyUpdate(d, Table, D, N, 0)
  <2>1. /\ DOMAIN files' = DOMAIN files \cup DOMAIN N
        /\ DOMAIN deletions' \subseteq DOMAIN deletions \cup ({d} \X DOMAIN D)
    <3>1. PICK new : new = DOMAIN N \ DOMAIN files
      OBVIOUS
    <3>2. /\ files' = Over([f \in new |-> NewFile(Table, N[f].shard, N[f].rows)], files)
          /\ deletions' = Over(NewDeletions(Table, FreshDeletions(d, D), D), deletions)
      BY <1>6, <3>1 DEF ApplyUpdate
    <3> QED BY <3>1, <3>2 DEF Over, NewDeletions, FreshDeletions
  <2>2. DOMAIN deletions' \subseteq DOMAIN deletions \cup {<<d, stmt[d].anchor>>}
    BY <1>2, <1>3, <2>1
  <2>3. DOMAIN files' \subseteq DOMAIN files \cup ({stmt[d].new} \ {NoFile})
    BY <1>2, <1>3, <1>6, <2>1
  <2> QED BY <1>1, <2>2, <2>3, StmtGoes
<1> QED BY <1>2, <1>4, <1>5, <1>6 DEF ApplyStatement

LEMMA BeginStatementGoes ==
    ASSUME GInv, NEW d \in DvIds, NEW b \in Batches, NEW n \in Batches \cup {NoFile},
           BeginStatement(d, b, n)
    PROVE  GInv'
<1>1. /\ stmt[d] = Idle /\ b \in DOMAIN files
      /\ stmt' = [stmt EXCEPT ![d] = [at |-> "uploaded", anchor |-> b, new |-> n]]
      /\ objects' = objects \cup {<<b, d>>} \cup {Data(f) : f \in {n} \ {NoFile}}
      /\ Bear({n} \ {NoFile}) /\ UNCHANGED <<files, deletions, job, gcVars>>
  BY DEF BeginStatement, VisibleFiles, catalogVars, dataVars
<1>2. PICK y : y = [at |-> "uploaded", anchor |-> b, new |-> n]
  OBVIOUS
<1>3. /\ DOMAIN stmt' = DvIds /\ stmt'[d] = y
      /\ \A e \in DvIds \ {d} : stmt'[e] = stmt[e]
  BY <1>1, <1>2 DEF GInv, StmtShapes
<1>4. y # Idle /\ StmtShape(y) /\ y.anchor = b /\ y.new = n
  BY <1>2 DEF StmtShape, Idle
<1>5. Started' = Started \cup {d} /\ d \notin Started
  <2>1. \A e \in DvIds : stmt'[e] # Idle <=> (stmt[e] # Idle \/ e = d)
    BY <1>1, <1>3, <1>4
  <2> QED BY <1>1, <2>1 DEF Started, Idle
<1>6. \A e \in Started : stmt'[e] = stmt[e]
  BY <1>3, <1>5 DEF Started
<1>7. NewFiles' = NewFiles \cup {n}
  BY <1>3, <1>4, <1>5, <1>6 DEF NewFiles
<1>8. StmtShapes'
  <2>1. \A e \in DvIds : StmtShape(stmt'[e])
    BY <1>3, <1>4 DEF GInv, StmtShapes
  <2> QED BY <1>3, <2>1 DEF StmtShapes, StmtShape, Idle
<1>9. JobShapes'
  BY <1>1 DEF GInv, JobShapes, JobShape, Idle
<1>10. /\ DOMAIN born' = DOMAIN born \cup ({n} \ {NoFile}) /\ DOMAIN born' \subseteq Batches
       /\ \A f \in DOMAIN born : born'[f] = born[f]
       /\ \A f \in DOMAIN born' \ DOMAIN born : born'[f] = Now /\ Data(f) \in objects'
       /\ b \in DOMAIN born
  <2>1. PICK B : B = {n} \ {NoFile}
    OBVIOUS
  <2>2. B \subseteq Batches /\ \A f \in B : Data(f) \in objects'
    BY <1>1, <2>1
  <2>3. /\ DOMAIN born' = DOMAIN born \cup B
        /\ \A f \in DOMAIN born : born'[f] = born[f]
        /\ \A f \in B \ DOMAIN born : born'[f] = Now
    BY <1>1, <2>1, Born
  <2> QED BY <1>1, <2>1, <2>2, <2>3 DEF GInv, Dated
<1>11. IsFiniteSet(objects')
  <2>1. PICK T : T = {Data(f) : f \in {n} \ {NoFile}}
    OBVIOUS
  <2>2. T \subseteq {Data(n)} /\ objects' = objects \cup {<<b, d>>} \cup T
    BY <1>1, <2>1
  <2>3. IsFiniteSet((objects \cup {<<b, d>>}) \cup {Data(n)})
    BY FS_AddElement DEF GInv, Listing
  <2>4. objects' \subseteq (objects \cup {<<b, d>>}) \cup {Data(n)}
    BY <2>2
  <2> QED BY <2>3, <2>4, FS_Subset
<1>12. \A p \in objects' \ objects : p[1] \in DOMAIN born'
  <2>1. \A f : Data(f)[1] = f
    BY DEF Data
  <2> QED BY <1>1, <1>10, <2>1
<1>13. \A e \in Started' \ Started : stmt'[e].anchor = b /\ e = d
  BY <1>3, <1>4, <1>5
<1>14. Grown
  BY <1>1, <1>5, <1>6, <1>7, <1>10, <1>11, <1>12, <1>13 DEF GInv, Dated, Grown, gcVars
<1> QED BY <1>8, <1>9, <1>14, GrownKeeps

LEMMA StatementGoes == ASSUME GInv, StatementStep PROVE GInv'
BY BeginStatementGoes, LogGoes, ApplyGoes DEF StatementStep

\* One collector moves, and what it takes is overdue.
LEMMA CollectorGoes ==
    ASSUME GInv, UNCHANGED <<files, deletions, job, stmt, born>>, NEW g \in Collectors, NEW x,
           round' = [round EXCEPT ![g] = x], RoundShape(x), x.at # "none" => RoundDated(x)',
           DOMAIN first_seen' = Collectors, SeenShape(first_seen'[g]),
           \A b \in DOMAIN first_seen'[g] : b \in DOMAIN born /\ born[b] <= first_seen'[g][b],
           \A h \in Collectors \ {g} : first_seen'[h] = first_seen[h],
           overdue \subseteq overdue', objects' \subseteq objects,
           \A p \in objects \ objects' :
               p[1] \in overdue \/ (Grace = 0 /\ p # Data(p[1]))
    PROVE  GInv'
<1>1. Started' = Started /\ NewFiles' = NewFiles
  BY DEF Started, NewFiles
<1>2. JobShapes' /\ StmtShapes'
  BY DEF GInv, JobShapes, JobShape, StmtShapes, StmtShape, Idle
<1>3. /\ DOMAIN round' = Collectors /\ round'[g] = x
      /\ \A h \in Collectors \ {g} : round'[h] = round[h]
  BY DEF GInv, RoundShapes
<1>4. RoundShapes'
  <2>1. \A h \in Collectors : RoundShape(round'[h])
    BY <1>3 DEF GInv, RoundShapes
  <2> QED BY <1>3, <2>1, NowStays DEF RoundShapes, RoundShape, Idle
<1>5. SeenShapes'
  <2>1. \A h \in Collectors : SeenShape(first_seen'[h])
    BY DEF GInv, SeenShapes
  <2> QED BY <2>1, NowStays DEF SeenShapes, SeenShape
<1>6. Dated' /\ Hung'
  BY <1>1, NowStays DEF GInv, Dated, Hung
<1>7. Listing(objects)'
  BY FS_Subset DEF GInv, Listing
<1>8. RoundsDated'
  <2> SUFFICES ASSUME NEW h \in Collectors, round'[h].at # "none" PROVE RoundDated(round[h])'
    BY DEF RoundsDated
  <2>1. CASE h = g
    BY <1>3, <2>1 DEF RoundDated, Listing, Listed, Data
  <2>2. CASE h # g
    <3>1. RoundDated(round[h]) /\ round'[h] = round[h]
      BY <1>3, <2>2 DEF GInv, RoundsDated
    <3> QED BY <3>1 DEF RoundDated, Listing, Listed, Data
  <2> QED BY <2>1, <2>2
<1>9. SeenDated'
  BY DEF GInv, SeenDated
<1>10. Kept'
  <2>1. ASSUME NEW b \in DOMAIN born \ overdue' PROVE Data(b) \in objects'
    <3>1. Data(b) \in objects /\ Data(b)[1] = b
      BY <2>1 DEF GInv, Kept, Data
    <3> QED BY <2>1, <3>1
  <2>2. ASSUME Grace > 0, NEW d \in Started, stmt[d].anchor \notin overdue'
        PROVE  <<stmt[d].anchor, d>> \in objects'
    <3>1. PICK p : p = <<stmt[d].anchor, d>>
      OBVIOUS
    <3>2. p \in objects /\ p[1] \notin overdue /\ Grace # 0
      BY <2>2, <3>1, NowIsLate DEF GInv, Kept
    <3> QED BY <3>1, <3>2
  <2> QED BY <1>1, <2>1, <2>2 DEF Kept, Data
<1> QED BY <1>2, <1>4, <1>5, <1>6, <1>7, <1>8, <1>9, <1>10 DEF GInv

\* It asks, gives up or starts anew: it takes nothing.
LEMMA RoundGoes ==
    ASSUME GInv, UNCHANGED <<catalogVars, storeVars, born>>, NEW g \in Collectors, NEW x,
           round' = [round EXCEPT ![g] = x], RoundShape(x), x.at # "none" => RoundDated(x)',
           first_seen' = first_seen, overdue \subseteq overdue'
    PROVE  GInv'
<1>1. UNCHANGED <<files, deletions, job, stmt, objects>>
  BY DEF catalogVars, dataVars, storeVars
<1>2. SeenShape(first_seen'[g]) /\ DOMAIN first_seen' = Collectors
  BY DEF GInv, SeenShapes
<1>3. \A b \in DOMAIN first_seen'[g] : b \in DOMAIN born /\ born[b] <= first_seen'[g][b]
  BY DEF GInv, SeenDated
<1> QED BY <1>1, <1>2, <1>3, CollectorGoes

LEMMA ListGoes == ASSUME GInv, NEW g \in Collectors, ListObjects(g) PROVE GInv'
<1>1. PICK x : x = [at |-> "listed", objects |-> objects]
  OBVIOUS
<1>2. RoundShape(x) /\ x.at = "listed" /\ x.objects = objects
  BY <1>1 DEF RoundShape
<1>3. /\ round' = [round EXCEPT ![g] = x]
      /\ UNCHANGED <<catalogVars, storeVars, born, first_seen, overdue>>
  BY <1>1 DEF ListObjects
<1>4. RoundDated(x)'
  BY <1>2, <1>3 DEF GInv, Listing, Kept, RoundDated, Listed, Data
<1> QED BY <1>2, <1>3, <1>4, RoundGoes

LEMMA AskKnownGoes == ASSUME GInv, NEW g \in Collectors, AskKnown(g) PROVE GInv'
<1>1. PICK r, x : /\ r = round[g]
                  /\ x = [at |-> "known", objects |-> r.objects, known |-> KnownToCollector(copy'[g])]
  OBVIOUS
<1>2. RoundShape(x) /\ x.at = "known" /\ x.objects = r.objects
  BY <1>1 DEF RoundShape
<1>3. /\ r.at = "listed" /\ round' = [round EXCEPT ![g] = x]
      /\ UNCHANGED <<catalogVars, storeVars, born, first_seen, overdue>>
  BY <1>1 DEF AskKnown
<1>4. RoundDated(r)
  BY <1>1, <1>3 DEF GInv, RoundsDated
<1>5. RoundDated(x)'
  BY <1>2, <1>3, <1>4 DEF RoundDated, Listing, Listed, Data
<1> QED BY <1>2, <1>3, <1>5, RoundGoes

\* What was observed long ago was uploaded long ago.
LEMMA AskReferencedGoes == ASSUME GInv, NEW g \in Collectors, AskReferenced(g) PROVE GInv'
<1>1. PICK r, s : r = round[g] /\ s = first_seen[g]
  OBVIOUS
<1>2. PICK x : x = [at |-> "judge", objects |-> r.objects, known |-> r.known,
                    referenced |-> ReferencedVectors(copy'[g]), read |-> Now,
                    old |-> {b \in DOMAIN s : Now - s[b] >= Grace}]
  OBVIOUS
<1>3. /\ x.at = "judge" /\ x.objects = r.objects /\ x.known = r.known /\ x.read = Now
      /\ x.old = {b \in DOMAIN s : Now - s[b] >= Grace}
  BY <1>2
<1>4. RoundShape(x)
  <2>1. Now \in 0..Now
    BY NowIsLate
  <2> QED BY <1>2, <2>1 DEF RoundShape
<1>5. /\ r.at = "known" /\ round' = [round EXCEPT ![g] = x]
      /\ UNCHANGED <<catalogVars, storeVars, born, first_seen>>
      /\ overdue' = overdue \cup
             {b \in Listed(r) \ r.known : b \in DOMAIN born /\ Now - born[b] >= Grace}
  BY <1>1, <1>2 DEF AskReferenced
<1>6. RoundDated(r) /\ SeenShape(s) /\ \A b \in DOMAIN s : b \in DOMAIN born /\ born[b] <= s[b]
  BY <1>1, <1>5 DEF GInv, RoundsDated, SeenShapes, SeenDated
<1>7. ASSUME NEW b \in Listed(r) PROVE b \in DOMAIN born /\ born[b] \in 0..Now
  BY <1>6 DEF RoundDated, Listing, Listed, GInv, Dated
<1>8. ASSUME NEW b \in Listed(r) \ r.known, Grace = 0 \/ b \in x.old PROVE b \in overdue'
  <2>1. b \in DOMAIN born /\ born[b] \in 0..Now
    BY <1>7
  <2>2. Now - born[b] >= Grace
    <3>1. CASE Grace = 0
      BY <2>1, <3>1, NowIsLate
    <3>2. CASE b \in x.old
      <4>1. b \in DOMAIN s /\ Now - s[b] >= Grace /\ s[b] \in 0..Now /\ born[b] <= s[b]
        BY <1>3, <1>6, <3>2 DEF SeenShape
      <4> QED BY <2>1, <4>1, NowIsLate
    <3> QED BY <1>8, <3>1, <3>2
  <2> QED BY <1>5, <2>1, <2>2
<1>9. RoundDated(x)'
  <2>1. \A b \in Listed(r) : born[b] <= x.read
    BY <1>3, <1>7, NowIsLate
  <2>2. Listed(x) = Listed(r)
    BY <1>3 DEF Listed
  <2>3. Listing(x.objects)'
    BY <1>3, <1>5, <1>6 DEF RoundDated, Listing
  <2>4. \A b \in Listed(x) : Data(b) \in x.objects \/ b \in overdue'
    BY <1>3, <1>5, <1>6, <2>2 DEF RoundDated
  <2> QED BY <1>3, <1>5, <1>8, <2>1, <2>2, <2>3, <2>4 DEF RoundDated, Listed, Data
<1>10. overdue \subseteq overdue'
  BY <1>5
<1> QED BY <1>4, <1>5, <1>9, <1>10, RoundGoes

LEMMA AbandonGoes == ASSUME GInv, NEW g \in Collectors, AbandonRound(g) PROVE GInv'
<1>1. RoundShape(Idle) /\ Idle.at = "none"
  BY DEF RoundShape, Idle
<1>2. /\ round' = [round EXCEPT ![g] = Idle]
      /\ UNCHANGED <<catalogVars, storeVars, born, first_seen, overdue>>
  BY DEF AbandonRound
<1> QED BY <1>1, <1>2, RoundGoes

LEMMA RestartGoes == ASSUME GInv, NEW g \in Collectors, RestartCollector(g) PROVE GInv'
<1>1. RoundShape(Idle) /\ Idle.at = "none"
  BY DEF RoundShape, Idle
<1>2. /\ round' = [round EXCEPT ![g] = Idle] /\ first_seen' = [first_seen EXCEPT ![g] = Nothing]
      /\ UNCHANGED <<files, deletions, job, stmt, objects, born, overdue>>
  BY DEF RestartCollector, catalogVars, dataVars, storeVars
<1>3. /\ DOMAIN first_seen' = Collectors /\ first_seen'[g] = Nothing
      /\ \A h \in Collectors \ {g} : first_seen'[h] = first_seen[h]
  BY <1>2 DEF GInv, SeenShapes
<1>4. DOMAIN Nothing = {}
  BY DEF Nothing
<1>5. SeenShape(first_seen'[g])
  BY <1>3, <1>4 DEF SeenShape
<1> QED BY <1>1, <1>2, <1>3, <1>4, <1>5, CollectorGoes

\* The verdict on a batch takes what is overdue, or with no grace a vector.
TakesOverdue(v, b) ==
    /\ v.at # -1 => v.at \in 0..Now /\ b \in DOMAIN born /\ born[b] <= v.at
    /\ \A p \in v.gone : p[1] = b /\ (b \in overdue \/ (Grace = 0 /\ p # Data(b)))

LEMMA VerdictDated ==
    ASSUME GInv, NEW g \in Collectors, NEW r, r = round[g], r.at = "judge", NEW refused,
           NEW b \in Listed(r), NEW v, v = Verdict(b, first_seen[g], r, refused)
    PROVE  TakesOverdue(v, b)
<1>1. RoundDated(r) /\ RoundShape(r)
  BY DEF GInv, RoundsDated, RoundShapes
<1>2. IsFiniteSet(r.objects)
  BY <1>1 DEF RoundDated, Listing
<1>3. PICK i \in Nat : WalkOK(v, i, b, first_seen[g], r) /\ (Data(b) \in r.objects => i > 0)
  BY <1>2, VerdictOK
<1>4. /\ v.at = -1 \/ v.at = r.read \/ (b \in DOMAIN first_seen[g] /\ v.at = first_seen[g][b])
      /\ \A p \in v.gone : p[1] = b /\ ~IsObjectProtected(p, r)
      /\ v.gone # {} => Grace = 0 \/ b \in r.old
      /\ i > 0 /\ Grace # 0 /\ Data(b) \in r.objects /\ b \in r.known => v.gone = {}
  BY <1>3 DEF WalkOK
<1>5. r.read \in 0..Now
  BY <1>1 DEF RoundShape, Idle
<1>6. b \in DOMAIN born /\ born[b] <= r.read
  BY <1>1 DEF RoundDated, Listing, Listed
<1>7. ASSUME v.at # -1 PROVE v.at \in 0..Now /\ born[b] <= v.at
  BY <1>4, <1>5, <1>6, <1>7 DEF GInv, SeenShapes, SeenShape, SeenDated
<1>8. ASSUME NEW p \in v.gone, b \notin overdue PROVE Grace = 0 /\ p # Data(b)
  <2>1. Data(b) \in r.objects
    BY <1>1, <1>8 DEF RoundDated
  <2>2. b \in r.known
    BY <1>1, <1>4, <1>8 DEF RoundDated
  <2>3. Grace = 0
    BY <1>3, <1>4, <1>8, <2>1, <2>2
  <2>4. p # Data(b)
    BY <1>4, <1>8, <2>2 DEF IsObjectProtected, Data
  <2> QED BY <2>3, <2>4
<1> QED BY <1>4, <1>6, <1>7, <1>8 DEF TakesOverdue

LEMMA JudgeGoes ==
    ASSUME GInv, NEW g \in Collectors, NEW refused, JudgeAndDelete(g, refused)
    PROVE  GInv'
<1>1. PICK r : r = round[g]
  OBVIOUS
<1> DEFINE verdict == [b \in Listed(r) |-> Verdict(b, first_seen[g], r, refused)]
<1> DEFINE kept == {b \in Listed(r) : verdict[b].at # -1}
<1>2. /\ r.at = "judge" /\ round' = [round EXCEPT ![g] = Idle]
      /\ objects' = objects \ UNION {verdict[b].gone : b \in Listed(r)}
      /\ first_seen' = [first_seen EXCEPT ![g] = [b \in kept |-> verdict[b].at]]
      /\ UNCHANGED <<files, deletions, job, stmt, born, overdue>>
  BY <1>1 DEF JudgeAndDelete, catalogVars, dataVars
<1>3. ASSUME NEW b \in Listed(r) PROVE TakesOverdue(verdict[b], b)
  <2>1. PICK v : v = Verdict(b, first_seen[g], r, refused)
    OBVIOUS
  <2>2. TakesOverdue(v, b)
    <3>1. r.at = "judge"
      BY <1>2
    <3> HIDE DEF verdict
    <3> QED BY <1>1, <2>1, <3>1, VerdictDated
  <2> QED BY <2>1, <2>2
<1> HIDE DEF verdict
<1>4. \A p \in objects \ objects' : p[1] \in overdue \/ (Grace = 0 /\ p # Data(p[1]))
  BY <1>2, <1>3 DEF TakesOverdue
<1>5. PICK s : s = [b \in kept |-> verdict[b].at]
  OBVIOUS
<1>6. /\ DOMAIN first_seen' = Collectors /\ first_seen'[g] = s
      /\ \A h \in Collectors \ {g} : first_seen'[h] = first_seen[h]
  BY <1>2, <1>5 DEF GInv, SeenShapes
<1>7. \A b \in DOMAIN s : s[b] \in 0..Now /\ b \in DOMAIN born /\ born[b] <= s[b]
  BY <1>3, <1>5 DEF TakesOverdue
<1>8. SeenShape(s)
  BY <1>7 DEF SeenShape, GInv, Dated
<1>9. RoundShape(Idle) /\ Idle.at = "none"
  BY DEF RoundShape, Idle
<1> QED BY <1>2, <1>4, <1>6, <1>7, <1>8, <1>9, CollectorGoes

LEMMA CollectorsGo ==
    ASSUME GInv, NEW g \in Collectors,
           RoundStep(g) \/ RefusedStep(g) \/ AbandonRound(g) \/ RestartCollector(g)
    PROVE  GInv'
BY ListGoes, AskKnownGoes, AskReferencedGoes, JudgeGoes, AbandonGoes, RestartGoes
   DEF RoundStep, RefusedStep

LEMMA TickGoes == ASSUME GInv, Tick PROVE GInv'
<1>1. UNCHANGED <<files, deletions, job, stmt, objects, overdue>>
  BY DEF Tick, dataVars, storeVars
<1>2. Now \in Nat /\ Now' = Now
  BY NowIsLate, NowStays
<1>3. /\ DOMAIN born' = DOMAIN born
      /\ \A b \in DOMAIN born : born'[b] = Dec(born[b])
  BY DEF Tick, Older, Dec
<1>4. /\ DOMAIN first_seen' = Collectors
      /\ \A g \in Collectors :
            /\ DOMAIN first_seen'[g] = DOMAIN first_seen[g]
            /\ \A b \in DOMAIN first_seen[g] : first_seen'[g][b] = Dec(first_seen[g][b])
  BY DEF Tick, Older, Dec
<1>5. \A n \in 0..Now : Dec(n) \in 0..Now /\ \A m \in 0..Now : m <= n => Dec(m) <= Dec(n)
  BY <1>2 DEF Dec
<1>6. round' = [g \in Collectors |->
                   IF round[g].at = "judge" /\ round[g].read > 0
                   THEN [round[g] EXCEPT !.read = @ - 1] ELSE round[g]]
  BY DEF Tick
<1>7. ASSUME NEW g \in Collectors, NEW x, x = round[g], NEW y, y = round'[g]
      PROVE  /\ RoundShape(y) /\ y.at = x.at
             /\ x.at # "none" => y.objects = x.objects
             /\ x.at = "judge" =>
                   /\ y.known = x.known /\ y.old = x.old
                   /\ x.read \in 0..Now /\ y.read = Dec(x.read)
  <2>1. RoundShape(x)
    BY <1>7 DEF GInv, RoundShapes
  <2>2. y = IF x.at = "judge" /\ x.read > 0 THEN [x EXCEPT !.read = @ - 1] ELSE x
    BY <1>6, <1>7
  <2>3. CASE x.at # "judge"
    BY <2>1, <2>2, <2>3
  <2>4. CASE x.at = "judge"
    <3>1. /\ x = [at |-> "judge", objects |-> x.objects, known |-> x.known,
                  referenced |-> x.referenced, read |-> x.read, old |-> x.old]
          /\ x.read \in 0..Now
      BY <2>1, <2>4 DEF RoundShape, Idle
    <3>2. CASE x.read > 0
      <4>1. y = [at |-> "judge", objects |-> x.objects, known |-> x.known,
                 referenced |-> x.referenced, read |-> x.read - 1, old |-> x.old]
        BY <2>2, <2>4, <3>1, <3>2
      <4>2. x.read - 1 \in 0..Now /\ Dec(x.read) = x.read - 1
        BY <1>2, <3>1, <3>2 DEF Dec
      <4>3. RoundShape(y)
        BY <4>1, <4>2 DEF RoundShape
      <4> QED BY <2>4, <3>1, <4>1, <4>2, <4>3
    <3>3. CASE ~(x.read > 0)
      <4>1. y = x /\ Dec(x.read) = x.read
        BY <1>2, <2>2, <3>1, <3>3 DEF Dec
      <4> QED BY <2>1, <3>1, <4>1
    <3> QED BY <3>2, <3>3
  <2> QED BY <2>3, <2>4
<1>8. Started' = Started /\ NewFiles' = NewFiles
  BY <1>1 DEF Started, NewFiles
<1>9. JobShapes' /\ StmtShapes'
  BY <1>1 DEF GInv, JobShapes, JobShape, StmtShapes, StmtShape, Idle
<1>10. RoundShapes'
  <2>1. DOMAIN round' = Collectors /\ \A g \in Collectors : RoundShape(round'[g])
    BY <1>6, <1>7
  <2> QED BY <1>2, <2>1 DEF RoundShapes, RoundShape, Idle
<1>11. SeenShapes'
  BY <1>2, <1>4, <1>5 DEF GInv, SeenShapes, SeenShape
<1>12. Dated'
  BY <1>1, <1>2, <1>3, <1>5, <1>8 DEF GInv, Dated
<1>13. Hung' /\ Listing(objects)' /\ Kept'
  BY <1>1, <1>3, <1>8 DEF GInv, Hung, Listing, Kept, Data
<1>14. RoundsDated'
  <2> SUFFICES ASSUME NEW g \in Collectors, round'[g].at # "none" PROVE RoundDated(round[g])'
    BY DEF RoundsDated
  <2>1. PICK x, y : x = round[g] /\ y = round'[g]
    OBVIOUS
  <2>2. /\ y.at = x.at /\ y.objects = x.objects
        /\ x.at = "judge" =>
              /\ y.known = x.known /\ y.old = x.old
              /\ x.read \in 0..Now /\ y.read = Dec(x.read)
    BY <1>7, <2>1
  <2>3. RoundDated(x)
    BY <2>1, <2>2 DEF GInv, RoundsDated
  <2>4. Listed(y) = Listed(x)
    BY <2>2 DEF Listed
  <2>5. \A b \in Listed(x) : b \in DOMAIN born /\ born[b] \in 0..Now /\ born'[b] = Dec(born[b])
    BY <1>3, <2>3 DEF RoundDated, Listing, Listed, GInv, Dated
  <2>6. y.at = "judge" => \A b \in Listed(y) : born'[b] <= y.read
    BY <1>5, <2>2, <2>3, <2>4, <2>5 DEF RoundDated
  <2>7. Listing(y.objects)'
    BY <1>3, <2>1, <2>2, <2>3 DEF RoundDated, Listing
  <2> QED BY <1>1, <2>1, <2>2, <2>3, <2>4, <2>6, <2>7 DEF RoundDated, Listing, Listed, Data
<1>15. SeenDated'
  <2> SUFFICES ASSUME NEW g \in Collectors, NEW b \in DOMAIN first_seen[g]
               PROVE  b \in DOMAIN born /\ born'[b] <= first_seen'[g][b]
    BY <1>3, <1>4 DEF SeenDated
  <2>1. /\ b \in DOMAIN born /\ born[b] \in 0..Now /\ first_seen[g][b] \in 0..Now
        /\ born[b] <= first_seen[g][b]
    BY DEF GInv, Dated, SeenDated, SeenShapes, SeenShape
  <2> QED BY <1>3, <1>4, <1>5, <2>1
<1> QED BY <1>9, <1>10, <1>11, <1>12, <1>13, <1>14, <1>15 DEF GInv

LEMMA GInvAtStart == ASSUME Init PROVE GInv
<1>1. /\ objects = {} /\ born = Nothing /\ overdue = {}
      /\ job = [b \in Batches |-> Idle] /\ stmt = [d \in DvIds |-> Idle]
      /\ round = [g \in Collectors |-> Idle] /\ first_seen = [g \in Collectors |-> Nothing]
      /\ DOMAIN files = {} /\ DOMAIN deletions = {} /\ DOMAIN Nothing = {}
  BY DEF Init, CatalogInit, Nothing
<1>2. Started = {} /\ NewFiles = {}
  BY <1>1 DEF Started, NewFiles
<1>3. JobShapes /\ StmtShapes /\ RoundShapes /\ SeenShapes
  BY <1>1 DEF JobShapes, StmtShapes, RoundShapes, SeenShapes, JobShape, StmtShape, RoundShape, SeenShape
<1>4. Dated /\ Hung /\ Kept
  BY <1>1, <1>2 DEF Dated, Hung, Kept, Idle
<1>5. Listing(objects)
  BY <1>1, FS_EmptySet DEF Listing
<1>6. RoundsDated /\ SeenDated
  BY <1>1 DEF RoundsDated, SeenDated, Idle
<1> QED BY <1>3, <1>4, <1>5, <1>6 DEF GInv

LEMMA GInvIsKept == ASSUME GInv, [Next]_vars PROVE GInv'
<1>1. CASE \E q \in Queries : BeginQuery(q)
  <2>1. UNCHANGED <<objects, born, job, stmt, files, deletions, round, first_seen, overdue>>
    BY <1>1 DEF BeginQuery, catalogVars, dataVars, storeVars, gcVars
  <2> QED BY <2>1, AsideKeeps
<1>2. CASE UNCHANGED vars
  <2>1. UNCHANGED <<objects, born, job, stmt, files, deletions, round, first_seen, overdue>>
    BY <1>2 DEF vars, catalogVars, dataVars, storeVars, gcVars
  <2> QED BY <2>1, AsideKeeps
<1> QED BY <1>1, <1>2, WriterGoes, StatementGoes, SweepGoes, CollectorsGo, TickGoes DEF Next

LEMMA GInvHolds == Spec => []GInv
<1>1. Init => GInv
  BY GInvAtStart
<1>2. GInv /\ [Next /\ UNCHANGED metanode]_<<vars, metanode>> => GInv'
  BY GInvIsKept
<1> QED BY <1>1, <1>2, PTL DEF Spec

-----------------------------------------------------------------------------
(* The theorems, in both deployments: without metanodes from both            *)
(* invariants, with metanodes from the second.                               *)

\* No file the catalog shows is without its object.  With a catalog in the
\* process, a file that was announced is safe whatever the grace: what a round
\* lists and then does not find known is done for.  With metanodes, where no
\* collector hears of announcements and copies lag, and for the new files of
\* an UPDATE, every file is safe that no collector has found unknown as late
\* as the grace after its upload, for any number of collectors, refusals,
\* restarts and ages of observations (compaction/src/lib.rs
\* orphan_cleanup_round, meta/src/remote_catalog.rs known_batch_ids).
THEOREM ShownFilesHaveObjects == Spec => []NoDanglingFile
<1>1. GInv /\ (metanode \/ OInv) => NoDanglingFile
  <2> SUFFICES ASSUME GInv, metanode \/ OInv,
                      NEW b \in Present, Covered(b) PROVE Data(b) \in objects
    BY DEF NoDanglingFile
  <2>1. CASE b \notin overdue
    BY <2>1 DEF GInv, Dated, Kept, Present
  <2>2. CASE ~metanode /\ Announced(b)
    BY <2>2 DEF OInv, AnnouncedThere, Announced
  <2> QED BY <2>1, <2>2 DEF Covered
<1> QED BY <1>1, GInvHolds, OInvHolds, PTL

\* The vectors that hide rows of present files are in the store with them,
\* from the upload by the statement on, although no statement announces them
\* (sql/src/dml.rs): with any grace at all a vector next to a known file is
\* observed once and never deleted; with metanodes, unless the file is overdue.
THEOREM VectorsHaveObjects == Spec => []VectorsAreThere
<1>1. GInv /\ (metanode \/ OInv) => VectorsAreThere
  <2> SUFFICES ASSUME GInv, metanode \/ OInv,
                      Grace > 0, NEW k \in DOMAIN deletions,
                      k[2] \in Present, Data(k[2]) \in objects, metanode => k[2] \notin overdue
               PROVE  <<k[2], k[1]>> \in objects
    BY DEF VectorsAreThere
  <2>1. k[1] \in Started /\ k[2] = stmt[k[1]].anchor
    BY DEF GInv, Hung
  <2>2. CASE metanode
    BY <2>1, <2>2 DEF GInv, Kept
  <2>3. CASE OInv
    BY <2>1, <2>3 DEF OInv, VectorsKept
  <2> QED BY <2>2, <2>3
<1> QED BY <1>1, GInvHolds, OInvHolds, PTL

\* A query finds the files of its snapshot for as long as the grace lasts after
\* it began, though they are retired under it: the clock of a round is read
\* after its questions, so what it takes was observed before any such query
\* began (compaction/src/lib.rs orphan_cleanup_round).  With metanodes a
\* copy that has heard of a file never forgets it; what no round has found
\* overdue is served.
THEOREM ReadersAreServed == Spec => []ReadersHaveGrace
<1>1. GInv /\ (metanode \/ OInv) => ReadersHaveGrace
  <2> SUFFICES ASSUME GInv, metanode \/ OInv,
                      NEW q \in Queries, query[q].at = "reading",
                      Now - query[q].since < Grace,
                      NEW b \in VisibleFiles(Table, query[q].snapshot),
                      Covered(b), metanode \/ b \notin shared
               PROVE  Data(b) \in objects
    BY DEF ReadersHaveGrace
  <2>1. b \in DOMAIN born
    BY DEF VisibleFiles, GInv, Dated
  <2>2. CASE b \notin overdue
    BY <2>1, <2>2 DEF GInv, Kept
  <2>3. CASE ~metanode /\ Announced(b)
    <3>1. b \in Batches /\ Reading(q, b)
      BY <2>1, <2>3 DEF Reading, Announced, GInv, Dated
    <3> QED BY <2>3, <3>1 DEF OInv, Served
  <2> QED BY <2>2, <2>3 DEF Covered
<1> QED BY <1>1, GInvHolds, OInvHolds, PTL
=============================================================================
