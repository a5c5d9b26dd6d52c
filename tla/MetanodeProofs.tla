--------------------------- MODULE MetanodeProofs ---------------------------
(***************************************************************************)
(* For every set of nodes and ops, every bound and every membership        *)
(* history: a metanode's state machine is its log's applied prefix, and    *)
(* its artifact the log's compacted prefix, through elections, overwritten *)
(* logs, compactions, installed snapshots and restarts.                    *)
(***************************************************************************)
EXTENDS Metanode, SequenceTheorems, FiniteSetTheorems, TLAPS

(* Prefixes of sequences. *)

LEMMA PrefixProperties ==
    ASSUME NEW S, NEW s \in Seq(S), NEW k \in 0..Len(s)
    PROVE  /\ SubSeq(s, 1, k) \in Seq(S)
           /\ Len(SubSeq(s, 1, k)) = k
           /\ \A i \in 1..k : SubSeq(s, 1, k)[i] = s[i]
<1>1. Len(s) \in Nat
  BY LenProperties
<1>2. \A i \in 1..k : s[i] \in S
  BY <1>1, ElementOfSeq
<1>3. k \in Int /\ 1 \in Int
  BY <1>1
<1>4. /\ SubSeq(s, 1, k) \in Seq(S)
      /\ Len(SubSeq(s, 1, k)) = IF 1 <= k THEN k - 1 + 1 ELSE 0
      /\ \A i \in 1..k - 1 + 1 : SubSeq(s, 1, k)[i] = s[1 + i - 1]
  BY <1>2, <1>3, SubSeqProperties
<1>5. QED
  BY <1>1, <1>4

LEMMA SamePrefix ==
    ASSUME NEW S, NEW s \in Seq(S), NEW t \in Seq(S), NEW k \in Nat,
           k <= Len(s), k <= Len(t), \A i \in 1..k : s[i] = t[i]
    PROVE  SubSeq(s, 1, k) = SubSeq(t, 1, k)
<1>1. k \in 0..Len(s) /\ k \in 0..Len(t)
  BY LenProperties
<1>2. /\ SubSeq(s, 1, k) \in Seq(S) /\ Len(SubSeq(s, 1, k)) = k
      /\ \A i \in 1..k : SubSeq(s, 1, k)[i] = s[i]
  BY <1>1, PrefixProperties
<1>3. /\ SubSeq(t, 1, k) \in Seq(S) /\ Len(SubSeq(t, 1, k)) = k
      /\ \A i \in 1..k : SubSeq(t, 1, k)[i] = t[i]
  BY <1>1, PrefixProperties
<1>4. QED
  BY <1>2, <1>3, SeqEqual

LEMMA AppendKeepsPrefix ==
    ASSUME NEW S, NEW s \in Seq(S), NEW e \in S, NEW k \in 0..Len(s)
    PROVE  SubSeq(Append(s, e), 1, k) = SubSeq(s, 1, k)
<1>1. /\ Append(s, e) \in Seq(S) /\ Len(Append(s, e)) = Len(s) + 1
      /\ \A i \in 1..Len(s) : Append(s, e)[i] = s[i]
  BY AppendProperties
<1>2. Len(s) \in Nat
  BY LenProperties
<1>3. QED
  BY <1>1, <1>2, SamePrefix

LEMMA PrefixGrows ==
    ASSUME NEW S, NEW s \in Seq(S), NEW a \in Nat, NEW b \in Nat, a <= b, b <= Len(s)
    PROVE  SubSeq(s, 1, a) \o SubSeq(s, a + 1, b) = SubSeq(s, 1, b)
<1> DEFINE p == SubSeq(s, 1, a)  q == SubSeq(s, a + 1, b)  r == SubSeq(s, 1, b)
<1>1. Len(s) \in Nat /\ a \in 0..Len(s) /\ b \in 0..Len(s)
  BY LenProperties
<1>2. p \in Seq(S) /\ Len(p) = a /\ \A i \in 1..a : p[i] = s[i]
  BY <1>1, PrefixProperties
<1>3. r \in Seq(S) /\ Len(r) = b /\ \A i \in 1..b : r[i] = s[i]
  BY <1>1, PrefixProperties
<1>4. \A i \in a + 1..b : s[i] \in S
  BY <1>1, ElementOfSeq
<1>5. /\ q \in Seq(S)
      /\ Len(q) = IF a + 1 <= b THEN b - (a + 1) + 1 ELSE 0
      /\ \A i \in 1..b - (a + 1) + 1 : q[i] = s[(a + 1) + i - 1]
  <2>1. a + 1 \in Int /\ b \in Int
    OBVIOUS
  <2>2. QED
    BY <1>4, <2>1, SubSeqProperties
<1>6. Len(q) = b - a /\ \A i \in 1..b - a : q[i] = s[a + i]
  BY <1>5
<1> HIDE DEF p, q, r
<1> DEFINE c == p \o q
<1>7. /\ c \in Seq(S) /\ Len(c) = Len(p) + Len(q)
      /\ \A i \in 1..Len(p) + Len(q) : c[i] = IF i <= Len(p) THEN p[i] ELSE q[i - Len(p)]
  BY <1>2, <1>5, ConcatProperties
<1> HIDE DEF c
<1>8. \A i \in 1..b : c[i] = r[i]
  <2> SUFFICES ASSUME NEW i \in 1..b PROVE c[i] = r[i]
    OBVIOUS
  <2>1. CASE i <= a
    BY <2>1, <1>2, <1>3, <1>6, <1>7
  <2>2. CASE i > a
    <3>1. i - a \in 1..b - a
      BY <2>2
    <3>2. q[i - a] = s[a + (i - a)]
      BY <3>1, <1>6
    <3>3. QED
      BY <2>2, <3>2, <1>2, <1>3, <1>6, <1>7
  <2>3. i \in Int /\ a \in Int
    OBVIOUS
  <2>4. QED
    BY <2>1, <2>2, <2>3
<1>9. c = r
  BY <1>2, <1>3, <1>6, <1>7, <1>8, SeqEqual
<1>10. QED
  BY <1>9 DEF c, p, q, r

LEMMA PrefixReplaced ==
    ASSUME NEW S, NEW s \in Seq(S), NEW t \in Seq(S), NEW i \in 0..Len(s), NEW j \in Nat,
           j = IF Len(t) > i THEN Len(t) ELSE i
    PROVE  LET u == SubSeq(s, 1, i) \o SubSeq(t, i + 1, Len(t))
           IN /\ u \in Seq(S) /\ Len(u) = j
              /\ SubSeq(u, 1, i) = SubSeq(s, 1, i)
<1> DEFINE p == SubSeq(s, 1, i)  q == SubSeq(t, i + 1, Len(t))  u == p \o q
<1>1. Len(s) \in Nat /\ Len(t) \in Nat
  BY LenProperties
<1>2. p \in Seq(S) /\ Len(p) = i /\ \A h \in 1..i : p[h] = s[h]
  BY PrefixProperties
<1>3. \A h \in i + 1..Len(t) : t[h] \in S
  BY <1>1, ElementOfSeq
<1>4. /\ q \in Seq(S)
      /\ Len(q) = IF i + 1 <= Len(t) THEN Len(t) - (i + 1) + 1 ELSE 0
  <2>1. i + 1 \in Int /\ Len(t) \in Int
    BY <1>1
  <2>2. QED
    BY <1>3, <2>1, SubSeqProperties
<1> HIDE DEF p, q
<1>5. /\ u \in Seq(S) /\ Len(u) = Len(p) + Len(q)
      /\ \A h \in 1..Len(p) + Len(q) : u[h] = IF h <= Len(p) THEN p[h] ELSE q[h - Len(p)]
  BY <1>2, <1>4, ConcatProperties
<1>6. Len(u) = j
  BY <1>1, <1>2, <1>4, <1>5
<1>7. \A h \in 1..i : u[h] = s[h]
  BY <1>1, <1>2, <1>4, <1>5
<1> HIDE DEF u
<1>8. SubSeq(u, 1, i) = SubSeq(s, 1, i)
  BY <1>1, <1>5, <1>6, <1>7, SamePrefix
<1>9. QED
  BY <1>5, <1>6, <1>8 DEF u, p, q

-----------------------------------------------------------------------------
(* The inductive invariant: besides the types and the property, a leader has *)
(* a term, so that what it appends is an entry.                              *)

LeaderHasTerm == \A n \in Node : role[n] = "Leader" => term[n] >= 1

Follows(n) ==
  /\ compacted[n] <= applied[n] /\ applied[n] <= commit[n] /\ commit[n] <= Len(log[n])
  /\ sm[n] = SubSeq(log[n], 1, applied[n])
  /\ artifact[n] = SubSeq(log[n], 1, compacted[n])

IInv == TypeOK /\ LeaderHasTerm /\ \A n \in Node : Follows(n)

LEMMA FollowsIsStateFollowsLog == (\A n \in Node : Follows(n)) <=> StateFollowsLog
BY DEF Follows, StateFollowsLog

LEMMA NodeTypes ==
    ASSUME TypeOK, NEW n \in Node
    PROVE  /\ log[n] \in Seq(Entry) /\ Len(log[n]) \in Nat /\ Len(log[n]) <= MaxLog
           /\ commit[n] \in Nat /\ compacted[n] \in Nat /\ applied[n] \in Nat
           /\ term[n] \in Nat /\ term[n] <= MaxTerm
           /\ sm[n] \in Seq(Entry) /\ artifact[n] \in Seq(Entry)
           /\ conf[n] \in Membership /\ confDisk[n] \in Membership
           /\ pending[n] \in Seq(Op)
           /\ MaxLog \in Nat /\ MaxTerm \in Nat
BY MetanodeAssumption, LenProperties DEF TypeOK, Index

(* Compaction at the end of a Ready: the artifact is the prefix of the log  *)
(* that the node then has.                                                  *)
LEMMA CompactKeeps ==
    ASSUME TypeOK, NEW n \in Node, NEW l \in Seq(Entry), NEW a \in Index,
           NEW s \in Seq(Entry), s = SubSeq(l, 1, a), compacted[n] <= a,
           artifact[n] = SubSeq(l, 1, compacted[n]), Compact(n, l, a, s)
    PROVE  /\ compacted' \in [Node -> Index] /\ artifact' \in [Node -> Seq(Entry)]
           /\ compacted'[n] <= a /\ artifact'[n] = SubSeq(l, 1, compacted'[n])
           /\ \A m \in Node \ {n} : compacted'[m] = compacted[m] /\ artifact'[m] = artifact[m]
<1> DEFINE c == CompactAt(l, compacted[n], a)
<1>1. c = a \/ c = compacted[n]
  BY DEF CompactAt
<1>2. /\ compacted' = [compacted EXCEPT ![n] = c]
      /\ artifact' = [artifact EXCEPT ![n] = IF c = compacted[n] THEN @ ELSE s]
  BY DEF Compact
<1>3. compacted \in [Node -> Index] /\ artifact \in [Node -> Seq(Entry)]
  BY DEF TypeOK
<1> HIDE DEF c
<1>4. CASE c = compacted[n]
  BY <1>2, <1>3, <1>4
<1>5. CASE c # compacted[n]
  <2>1. c = a
    BY <1>1, <1>5
  <2>2. artifact'[n] = s /\ compacted'[n] = a
    BY <1>2, <1>3, <1>5, <2>1
  <2>3. a <= a
    BY MetanodeAssumption DEF Index
  <2>4. QED
    BY <1>2, <1>3, <1>5, <2>1, <2>2, <2>3
<1>6. QED
  BY <1>4, <1>5

(* A node that appends an entry to its log and changes nothing else of what *)
(* it applied keeps following its log.                                      *)
LEMMA AppendKeeps ==
    ASSUME IInv, NEW n \in Node, NEW e \in Entry, Len(log[n]) < MaxLog,
           Store(n, Append(log[n], e)), Compact(n, Append(log[n], e), applied[n], sm[n]),
           UNCHANGED <<commit, applied, sm>>
    PROVE  /\ log' \in [Node -> Seq(Entry)] /\ \A m \in Node : Len(log'[m]) <= MaxLog
           /\ compacted' \in [Node -> Index] /\ artifact' \in [Node -> Seq(Entry)]
           /\ \A m \in Node : Follows(m)'
<1> DEFINE l == Append(log[n], e)
<1>1. TypeOK /\ Follows(n)
  BY DEF IInv
<1>2. /\ l \in Seq(Entry) /\ Len(l) = Len(log[n]) + 1
      /\ \A k \in 0..Len(log[n]) : SubSeq(l, 1, k) = SubSeq(log[n], 1, k)
  BY <1>1, NodeTypes, AppendProperties, AppendKeepsPrefix
<1>3. applied[n] \in Index /\ applied[n] \in 0..Len(log[n]) /\ compacted[n] \in 0..Len(log[n])
  BY <1>1, NodeTypes DEF Follows, TypeOK
<1>4. /\ sm[n] = SubSeq(l, 1, applied[n]) /\ artifact[n] = SubSeq(l, 1, compacted[n])
      /\ sm[n] \in Seq(Entry) /\ compacted[n] <= applied[n]
  BY <1>1, <1>2, <1>3, NodeTypes DEF Follows
<1>5. Compact(n, l, applied[n], sm[n])
  OBVIOUS
<1>6. log' = [log EXCEPT ![n] = l]
  BY DEF Store
<1> HIDE DEF l
<1>7. /\ compacted' \in [Node -> Index] /\ artifact' \in [Node -> Seq(Entry)]
      /\ compacted'[n] <= applied[n] /\ artifact'[n] = SubSeq(l, 1, compacted'[n])
      /\ \A m \in Node \ {n} : compacted'[m] = compacted[m] /\ artifact'[m] = artifact[m]
  BY <1>1, <1>2, <1>3, <1>4, <1>5, CompactKeeps
<1>8. log \in [Node -> Seq(Entry)] /\ \A m \in Node : Len(log[m]) <= MaxLog
  BY <1>1 DEF TypeOK
<1>9. log' \in [Node -> Seq(Entry)] /\ \A m \in Node : Len(log'[m]) <= MaxLog
  BY <1>1, <1>2, <1>6, <1>8, NodeTypes
<1>10. ASSUME NEW m \in Node PROVE Follows(m)'
  <2>1. CASE m = n
    <3>1. log'[m] = l
      BY <1>6, <1>8, <2>1
    <3>2. commit[n] <= Len(l)
      BY <1>1, <1>2, NodeTypes DEF Follows
    <3>3. QED
      BY <1>1, <1>4, <1>7, <2>1, <3>1, <3>2 DEF Follows
  <2>2. CASE m # n
    <3>1. log'[m] = log[m] /\ compacted'[m] = compacted[m] /\ artifact'[m] = artifact[m]
      BY <1>6, <1>7, <1>8, <2>2
    <3>2. QED
      BY <3>1 DEF IInv, Follows
  <2>3. QED
    BY <2>1, <2>2
<1>11. QED
  BY <1>7, <1>9, <1>10

-----------------------------------------------------------------------------
(* One step per action. *)

LEMMA InitInv == Init => IInv
<1> SUFFICES ASSUME Init PROVE IInv
  OBVIOUS
<1>1. <<>> \in Seq(Entry) /\ <<>> \in Seq(Op) /\ Len(<<>>) = 0
  OBVIOUS
<1>2. 0 \in Index /\ 0 \in 0..MaxTerm /\ 0 \in 0..MaxRestarts
  BY MetanodeAssumption DEF Index
<1>3. first \in Membership
  BY MetanodeAssumption DEF Init, Membership
<1>4. TypeOK
  BY <1>1, <1>2, <1>3, MetanodeAssumption DEF Init, TypeOK
<1>5. LeaderHasTerm
  BY DEF Init, LeaderHasTerm
<1>6. ASSUME NEW n \in Node PROVE Follows(n)
  <2>1. SubSeq(<<>>, 1, 0) = <<>>
    OBVIOUS
  <2>2. QED
    BY <1>1, <2>1 DEF Init, Follows
<1>7. QED
  BY <1>4, <1>5, <1>6 DEF IInv

LEMMA ElectInv ==
    ASSUME IInv, NEW n \in Node, NEW t \in 1..MaxTerm, NEW Q \in SUBSET conf[n].voters,
           Elect(n, t, Q)
    PROVE  IInv'
<1>1. Noop(t) \in Entry
  BY DEF Noop, Entry
<1>2. TypeOK
  BY DEF IInv
<1>3. Len(log[n]) < MaxLog /\ Store(n, Append(log[n], Noop(t)))
      /\ Compact(n, Append(log[n], Noop(t)), applied[n], sm[n])
      /\ UNCHANGED <<commit, applied, sm>>
  BY DEF Elect
<1>4. /\ log' \in [Node -> Seq(Entry)] /\ \A m \in Node : Len(log'[m]) <= MaxLog
      /\ compacted' \in [Node -> Index] /\ artifact' \in [Node -> Seq(Entry)]
      /\ \A m \in Node : Follows(m)'
  BY <1>1, <1>3, AppendKeeps
<1>5. /\ term' = [m \in Node |-> IF m \in Q THEN t ELSE term[m]]
      /\ role' = [m \in Node |-> IF m = n THEN "Leader" ELSE IF m \in Q THEN "Follower" ELSE role[m]]
      /\ n \in Q
      /\ shifted' = shifted \cup {n} \/ shifted' = shifted
  BY DEF Elect
<1>6. /\ term' \in [Node -> 0..MaxTerm] /\ role' \in [Node -> {"Leader", "Follower"}]
      /\ shifted' \subseteq Node
  BY <1>2, <1>5, MetanodeAssumption DEF TypeOK
<1>7. TypeOK'
  BY <1>2, <1>4, <1>6 DEF TypeOK, Elect
<1>8. LeaderHasTerm'
  BY <1>5, MetanodeAssumption DEF IInv, LeaderHasTerm
<1>9. QED
  BY <1>4, <1>7, <1>8 DEF IInv

LEMMA ProposeInv ==
    ASSUME IInv, NEW n \in Node, NEW o \in Op, Propose(n, o)
    PROVE  IInv'
<1> DEFINE e == [term |-> term[n], kind |-> "op", val |-> o]
<1>1. TypeOK
  BY DEF IInv
<1>2. e \in Entry
  BY <1>1, NodeTypes DEF Entry, Propose, IInv, LeaderHasTerm
<1>3. Len(log[n]) < MaxLog /\ Store(n, Append(log[n], e))
      /\ Compact(n, Append(log[n], e), applied[n], sm[n])
      /\ UNCHANGED <<commit, applied, sm>>
  BY DEF Propose
<1> HIDE DEF e
<1>4. /\ log' \in [Node -> Seq(Entry)] /\ \A m \in Node : Len(log'[m]) <= MaxLog
      /\ compacted' \in [Node -> Index] /\ artifact' \in [Node -> Seq(Entry)]
      /\ \A m \in Node : Follows(m)'
  BY <1>2, <1>3, AppendKeeps
<1>5. pending' \in [Node -> Seq(Op)] /\ asked' \subseteq Op
  BY <1>1, AppendProperties DEF TypeOK, Propose
<1>6. TypeOK'
  BY <1>1, <1>4, <1>5 DEF TypeOK, Propose
<1>7. LeaderHasTerm'
  BY DEF IInv, LeaderHasTerm, Propose
<1>8. QED
  BY <1>4, <1>6, <1>7 DEF IInv

LEMMA ChangeMembersInv ==
    ASSUME IInv, NEW n \in Node, NEW ch \in Change[first.voters], ChangeMembers(n, ch)
    PROVE  IInv'
<1> DEFINE e == IF ConfPending(n) THEN Noop(term[n])
                ELSE [term |-> term[n], kind |-> "conf", val |-> ch]
<1>1. TypeOK
  BY DEF IInv
<1>2. ch \in AnyChange
  BY <1>1, MetanodeAssumption DEF TypeOK
<1>3. term[n] \in 1..MaxTerm
  BY <1>1, NodeTypes DEF ChangeMembers, IInv, LeaderHasTerm
<1>4. e \in Entry
  BY <1>2, <1>3 DEF Entry, Noop
<1>5. Len(log[n]) < MaxLog /\ Store(n, Append(log[n], e))
      /\ Compact(n, Append(log[n], e), applied[n], sm[n])
      /\ UNCHANGED <<commit, applied, sm>>
  BY DEF ChangeMembers
<1> HIDE DEF e
<1>6. /\ log' \in [Node -> Seq(Entry)] /\ \A m \in Node : Len(log'[m]) <= MaxLog
      /\ compacted' \in [Node -> Index] /\ artifact' \in [Node -> Seq(Entry)]
      /\ \A m \in Node : Follows(m)'
  BY <1>4, <1>5, AppendKeeps
<1>7. TypeOK'
  BY <1>1, <1>6 DEF TypeOK, ChangeMembers, askVars
<1>8. LeaderHasTerm'
  BY DEF IInv, LeaderHasTerm, ChangeMembers
<1>9. QED
  BY <1>6, <1>7, <1>8 DEF IInv

LEMMA ReplicateInv ==
    ASSUME IInv, NEW l \in Node, NEW n \in Node, Replicate(l, n)
    PROVE  IInv'
<1>1. TypeOK /\ Follows(n) /\ Follows(l)
  BY DEF IInv
<1>2. l # n /\ term[n] <= term[l]
  BY DEF Replicate
<1>3. PICK k \in Index :
        LET new == IF k = Len(log[l]) THEN log[n] ELSE log[l]
            c == IF commit[l] > commit[n] THEN commit[l] ELSE commit[n]
        IN /\ Agree(l, n, k) /\ commit[n] <= k
           /\ Store(n, new)
           /\ commit' = [commit EXCEPT ![n] = c]
           /\ Compact(n, new, applied[n], sm[n])
  BY DEF Replicate
<1> DEFINE new == IF k = Len(log[l]) THEN log[n] ELSE log[l]
           c == IF commit[l] > commit[n] THEN commit[l] ELSE commit[n]
<1>4. /\ Agree(l, n, k) /\ commit[n] <= k
      /\ log' = [log EXCEPT ![n] = new]
      /\ commit' = [commit EXCEPT ![n] = c]
      /\ Compact(n, new, applied[n], sm[n])
  BY <1>3 DEF Store
<1>5. /\ new \in Seq(Entry) /\ Len(new) <= MaxLog /\ Len(new) \in Nat
      /\ k <= Len(new) /\ \A i \in 1..k : new[i] = log[n][i]
  BY <1>1, <1>4, NodeTypes DEF Agree, Shares
<1>6. k \in Nat /\ k <= Len(log[n])
  BY <1>4, MetanodeAssumption DEF Agree, Shares, Index
<1>7. ASSUME NEW i \in Nat, i <= k PROVE SubSeq(new, 1, i) = SubSeq(log[n], 1, i)
  <2>1. i <= Len(new) /\ i <= Len(log[n]) /\ \A h \in 1..i : new[h] = log[n][h]
    BY <1>1, <1>5, <1>6, <1>7, NodeTypes
  <2>2. log[n] \in Seq(Entry)
    BY <1>1, NodeTypes
  <2> HIDE DEF new
  <2>3. QED
    BY <1>5, <2>1, <2>2, SamePrefix
<1>8. c \in Index /\ c <= Len(new) /\ applied[n] <= c
  <2>1. commit[l] <= Len(new)
    BY <1>1, <1>4, <1>5, <1>6, NodeTypes DEF Follows, Agree, Shares
  <2>2. commit[n] <= Len(new) /\ applied[n] <= commit[n]
    BY <1>1, <1>4, <1>5, <1>6, NodeTypes DEF Follows
  <2>3. QED
    BY <1>1, <2>1, <2>2, NodeTypes DEF TypeOK
<1>9. /\ applied[n] \in Index /\ applied[n] <= k /\ compacted[n] <= applied[n]
      /\ applied[n] \in Nat /\ compacted[n] \in Nat /\ compacted[n] <= k
      /\ sm[n] \in Seq(Entry)
  <2>1. /\ applied[n] \in Nat /\ compacted[n] \in Nat /\ commit[n] \in Nat
        /\ sm[n] \in Seq(Entry) /\ applied[n] \in Index
    BY <1>1, NodeTypes DEF TypeOK
  <2>2. compacted[n] <= applied[n] /\ applied[n] <= commit[n] /\ commit[n] <= k
    BY <1>1, <1>4 DEF Follows
  <2>3. QED
    BY <1>6, <2>1, <2>2
<1>10. sm[n] = SubSeq(new, 1, applied[n]) /\ artifact[n] = SubSeq(new, 1, compacted[n])
  BY <1>1, <1>7, <1>9 DEF Follows
<1> HIDE DEF new, c
<1>11. /\ compacted' \in [Node -> Index] /\ artifact' \in [Node -> Seq(Entry)]
       /\ compacted'[n] <= applied[n] /\ artifact'[n] = SubSeq(new, 1, compacted'[n])
       /\ \A m \in Node \ {n} : compacted'[m] = compacted[m] /\ artifact'[m] = artifact[m]
  BY <1>1, <1>4, <1>5, <1>9, <1>10, CompactKeeps
<1>12. /\ applied' = applied /\ sm' = sm
       /\ term' = [term EXCEPT ![n] = term[l]] /\ role' = [role EXCEPT ![n] = "Follower"]
  BY DEF Replicate
<1>13. /\ log' \in [Node -> Seq(Entry)] /\ \A m \in Node : Len(log'[m]) <= MaxLog
       /\ commit' \in [Node -> Index] /\ term' \in [Node -> 0..MaxTerm]
       /\ role' \in [Node -> {"Leader", "Follower"}]
  BY <1>1, <1>4, <1>5, <1>8, <1>12 DEF TypeOK
<1>14. ASSUME NEW m \in Node PROVE Follows(m)'
  <2>1. CASE m = n
    BY <1>1, <1>4, <1>8, <1>10, <1>11, <1>12, <2>1 DEF Follows, TypeOK
  <2>2. CASE m # n
    <3>1. /\ log'[m] = log[m] /\ commit'[m] = commit[m]
          /\ compacted'[m] = compacted[m] /\ artifact'[m] = artifact[m]
      BY <1>1, <1>4, <1>11, <2>2 DEF TypeOK
    <3>2. QED
      BY <3>1, <1>12 DEF IInv, Follows
  <2>3. QED
    BY <2>1, <2>2
<1>15. TypeOK'
  BY <1>1, <1>11, <1>12, <1>13 DEF TypeOK, Replicate, askVars
<1>16. LeaderHasTerm'
  BY <1>1, <1>12 DEF IInv, LeaderHasTerm, TypeOK
<1>17. QED
  BY <1>14, <1>15, <1>16 DEF IInv

LEMMA InstallSnapshotInv ==
    ASSUME IInv, NEW l \in Node, NEW n \in Node, InstallSnapshot(l, n)
    PROVE  IInv'
<1> DEFINE i == compacted[l]
           new == SubSeq(log[l], 1, i) \o SubSeq(log[n], i + 1, Len(log[n]))
           len == IF Len(log[n]) > i THEN Len(log[n]) ELSE i
<1>1. TypeOK /\ Follows(l)
  BY DEF IInv
<1>2. /\ sm' = [sm EXCEPT ![n] = artifact[l]] /\ artifact' = [artifact EXCEPT ![n] = artifact[l]]
      /\ compacted' = [compacted EXCEPT ![n] = i] /\ applied' = [applied EXCEPT ![n] = i]
      /\ commit' = [commit EXCEPT ![n] = i] /\ log' = [log EXCEPT ![n] = new]
      /\ conf' = [conf EXCEPT ![n] = conf[l]] /\ term' = [term EXCEPT ![n] = term[l]]
      /\ role' = [role EXCEPT ![n] = "Follower"]
      /\ (stale' = stale \cup {n} \/ stale' = stale \ {n})
  BY DEF InstallSnapshot, Store
<1>3. /\ i \in Nat /\ i \in Index /\ i \in 0..Len(log[l]) /\ i <= MaxLog
      /\ log[l] \in Seq(Entry) /\ log[n] \in Seq(Entry) /\ len \in Nat /\ len <= MaxLog
  <2>1. /\ i \in Nat /\ applied[l] \in Nat /\ commit[l] \in Nat /\ i \in Index
        /\ log[l] \in Seq(Entry) /\ log[n] \in Seq(Entry)
        /\ Len(log[l]) \in Nat /\ Len(log[n]) \in Nat
        /\ Len(log[l]) <= MaxLog /\ Len(log[n]) <= MaxLog /\ MaxLog \in Nat
    BY <1>1, NodeTypes DEF TypeOK
  <2>2. i <= applied[l] /\ applied[l] <= commit[l] /\ commit[l] <= Len(log[l])
    BY <1>1 DEF Follows
  <2> HIDE DEF i
  <2>3. QED
    BY <2>1, <2>2
<1>4. /\ new \in Seq(Entry) /\ Len(new) = len /\ SubSeq(new, 1, i) = SubSeq(log[l], 1, i)
  <2>1. \A s, t : s \in Seq(Entry) /\ t \in Seq(Entry) /\ i \in 0..Len(s) /\ len \in Nat
                  /\ len = (IF Len(t) > i THEN Len(t) ELSE i)
                => LET u == SubSeq(s, 1, i) \o SubSeq(t, i + 1, Len(t))
                   IN u \in Seq(Entry) /\ Len(u) = len /\ SubSeq(u, 1, i) = SubSeq(s, 1, i)
    <3> HIDE DEF i, len
    <3>1. QED
      BY PrefixReplaced
  <2>2. QED
    BY <1>3, <2>1
<1>5. artifact[l] = SubSeq(new, 1, i) /\ artifact[l] \in Seq(Entry) /\ i <= len
  BY <1>1, <1>3, <1>4, NodeTypes DEF Follows
<1> HIDE DEF i, new, len
<1>6. ASSUME NEW m \in Node PROVE Follows(m)'
  <2>1. CASE m = n
    <3>1. /\ sm'[m] = artifact[l] /\ artifact'[m] = artifact[l] /\ compacted'[m] = i
          /\ applied'[m] = i /\ commit'[m] = i /\ log'[m] = new
      BY <1>1, <1>2, <2>1 DEF TypeOK
    <3>2. i <= i
      BY <1>3
    <3>3. QED
      BY <1>4, <1>5, <3>1, <3>2 DEF Follows
  <2>2. CASE m # n
    <3>1. /\ sm'[m] = sm[m] /\ artifact'[m] = artifact[m] /\ compacted'[m] = compacted[m]
          /\ applied'[m] = applied[m] /\ commit'[m] = commit[m] /\ log'[m] = log[m]
      BY <1>1, <1>2, <2>2 DEF TypeOK
    <3>2. QED
      BY <3>1 DEF IInv, Follows
  <2>3. QED
    BY <2>1, <2>2
<1>7. /\ log' \in [Node -> Seq(Entry)] /\ \A m \in Node : Len(log'[m]) <= MaxLog
      /\ commit' \in [Node -> Index] /\ compacted' \in [Node -> Index]
      /\ applied' \in [Node -> Index] /\ sm' \in [Node -> Seq(Entry)]
      /\ artifact' \in [Node -> Seq(Entry)]
  BY <1>1, <1>2, <1>3, <1>4, <1>5 DEF TypeOK
<1>8. /\ conf' \in [Node -> Membership] /\ term' \in [Node -> 0..MaxTerm]
      /\ role' \in [Node -> {"Leader", "Follower"}] /\ stale' \subseteq Node
  BY <1>1, <1>2 DEF TypeOK
<1>9. TypeOK'
  BY <1>1, <1>7, <1>8 DEF TypeOK, InstallSnapshot, askVars
<1>10. LeaderHasTerm'
  BY <1>1, <1>2 DEF IInv, LeaderHasTerm, TypeOK
<1>11. QED
  BY <1>6, <1>9, <1>10 DEF IInv

LEMMA AdvanceCommitInv ==
    ASSUME IInv, NEW l \in Node, AdvanceCommit(l)
    PROVE  IInv'
<1>1. TypeOK /\ Follows(l)
  BY DEF IInv
<1>2. PICK i \in commit[l] + 1..Len(log[l]) : commit' = [commit EXCEPT ![l] = i]
  BY DEF AdvanceCommit, Stored
<1>3. /\ commit[l] \in Nat /\ i \in Nat /\ i <= Len(log[l]) /\ commit[l] <= i /\ i \in Index
  BY <1>1, NodeTypes DEF Index
<1>4. UNCHANGED <<log, term, role, compacted, artifact, conf, confDisk, applied, sm>>
  BY DEF AdvanceCommit, diskVars
<1>5. ASSUME NEW m \in Node PROVE Follows(m)'
  <2>1. CASE m = l
    <3>1. commit'[m] = i
      BY <1>1, <1>2, <2>1 DEF TypeOK
    <3>2. applied[l] <= i
      BY <1>1, <1>3, NodeTypes DEF Follows
    <3>3. QED
      BY <1>1, <1>3, <1>4, <2>1, <3>1, <3>2 DEF Follows
  <2>2. CASE m # l
    BY <1>1, <1>2, <1>4, <2>2 DEF IInv, Follows, TypeOK
  <2>3. QED
    BY <2>1, <2>2
<1>6. commit' \in [Node -> Index]
  BY <1>1, <1>2, <1>3 DEF TypeOK
<1>7. TypeOK'
  BY <1>1, <1>6 DEF TypeOK, AdvanceCommit, diskVars, askVars
<1>8. LeaderHasTerm'
  BY <1>4 DEF IInv, LeaderHasTerm
<1>9. QED
  BY <1>5, <1>7, <1>8 DEF IInv

LEMMA ApplyCommittedInv ==
    ASSUME IInv, NEW n \in Node, ApplyCommitted(n)
    PROVE  IInv'
<1> DEFINE from == applied[n] + 1
           last == commit[n]
           s == sm[n] \o SubSeq(log[n], from, last)
           c == ConfAfter(conf[n], log[n], from, last)
           ops == OpIndexes(log[n], from, last)
<1>1. TypeOK /\ Follows(n)
  BY DEF IInv
<1>2. /\ applied[n] < commit[n]
      /\ applied' = [applied EXCEPT ![n] = last]
      /\ sm' = [sm EXCEPT ![n] = s]
      /\ conf' = [conf EXCEPT ![n] = c]
      /\ (confDisk' = [confDisk EXCEPT ![n] = c] \/ confDisk' = [confDisk EXCEPT ![n] = @])
      /\ PopWaiters(n, ops)
      /\ Compact(n, log[n], last, s)
      /\ UNCHANGED <<log, term, role, commit>>
  BY DEF ApplyCommitted, raftVars
<1>3. /\ applied[n] \in Nat /\ last \in Nat /\ applied[n] <= last /\ last <= Len(log[n])
      /\ last \in Index /\ log[n] \in Seq(Entry) /\ Len(log[n]) \in Nat /\ last \in 0..Len(log[n])
  BY <1>1, <1>2, NodeTypes DEF Follows, TypeOK
<1>4. s = SubSeq(log[n], 1, last)
  BY <1>1, <1>3, PrefixGrows DEF Follows
<1>5. s \in Seq(Entry)
  BY <1>3, <1>4, PrefixProperties
<1>6. c \in Membership
  BY DEF ConfAfter, Membership
<1>7. compacted[n] <= last /\ artifact[n] = SubSeq(log[n], 1, compacted[n])
  BY <1>1, <1>3, NodeTypes DEF Follows
<1>8. pending' \in [Node -> Seq(Op)] /\ revision' \in [Op -> Index]
  <2>1. ops \subseteq Index /\ IsFiniteSet(ops)
    <3>1. ops \subseteq from..last
      BY DEF OpIndexes
    <3>2. from..last \subseteq Index /\ from \in Int /\ last \in Int
      BY <1>1, <1>3, NodeTypes DEF Index
    <3>3. QED
      BY <3>1, <3>2, FS_Interval, FS_Subset
  <2>2. Cardinality(ops) \in Nat
    BY <2>1, FS_CardinalityType
  <2>3. pending[n] \in Seq(Op) /\ Len(pending[n]) \in Nat
    BY <1>1, NodeTypes, LenProperties
  <2>4. SubSeq(pending[n], Cardinality(ops) + 1, Len(pending[n])) \in Seq(Op)
    <3>1. \A k \in Cardinality(ops) + 1..Len(pending[n]) : pending[n][k] \in Op
      BY <2>2, <2>3, ElementOfSeq
    <3>2. Cardinality(ops) + 1 \in Int /\ Len(pending[n]) \in Int
      BY <2>2, <2>3
    <3>3. QED
      BY <3>1, <3>2, SubSeqProperties
  <2> HIDE DEF ops
  <2>5. pending' = [pending EXCEPT ![n] =
                      SubSeq(pending[n], Cardinality(ops) + 1, Len(pending[n]))]
    BY <1>1, <1>2 DEF PopWaiters, TypeOK
  <2>6. \A o \in Op : revision'[o] \in ops \/ revision'[o] = revision[o]
    BY <1>2 DEF PopWaiters
  <2>7. revision' = [o \in Op |-> revision'[o]]
    BY <1>2 DEF PopWaiters
  <2>8. revision' \in [Op -> Index]
    BY <1>1, <2>1, <2>6, <2>7 DEF TypeOK
  <2>9. QED
    BY <1>1, <2>4, <2>5, <2>8 DEF TypeOK
<1> HIDE DEF s, c, ops, last
<1>9. /\ compacted' \in [Node -> Index] /\ artifact' \in [Node -> Seq(Entry)]
      /\ compacted'[n] <= last /\ artifact'[n] = SubSeq(log[n], 1, compacted'[n])
      /\ \A m \in Node \ {n} : compacted'[m] = compacted[m] /\ artifact'[m] = artifact[m]
  BY <1>1, <1>2, <1>3, <1>4, <1>5, <1>7, CompactKeeps
<1>10. ASSUME NEW m \in Node PROVE Follows(m)'
  <2>1. CASE m = n
    <3>1. applied'[m] = last /\ sm'[m] = s /\ commit'[m] = last /\ log'[m] = log[n]
      BY <1>1, <1>2, <2>1 DEF TypeOK, last
    <3>2. last <= last
      BY <1>3
    <3>3. QED
      BY <1>3, <1>4, <1>9, <2>1, <3>1, <3>2 DEF Follows
  <2>2. CASE m # n
    <3>1. /\ sm'[m] = sm[m] /\ artifact'[m] = artifact[m] /\ compacted'[m] = compacted[m]
          /\ applied'[m] = applied[m] /\ commit'[m] = commit[m] /\ log'[m] = log[m]
      BY <1>1, <1>2, <1>9, <2>2 DEF TypeOK
    <3>2. QED
      BY <3>1 DEF IInv, Follows
  <2>3. QED
    BY <2>1, <2>2
<1>11. /\ applied' \in [Node -> Index] /\ sm' \in [Node -> Seq(Entry)]
       /\ conf' \in [Node -> Membership] /\ confDisk' \in [Node -> Membership]
  <2>1. applied' \in [Node -> Index] /\ sm' \in [Node -> Seq(Entry)]
    BY <1>1, <1>2, <1>3, <1>5 DEF TypeOK
  <2>2. conf' \in [Node -> Membership]
    BY <1>1, <1>2, <1>6 DEF TypeOK
  <2>3. [confDisk EXCEPT ![n] = c] \in [Node -> Membership]
    BY <1>1, <1>6 DEF TypeOK
  <2>4. [confDisk EXCEPT ![n] = @] \in [Node -> Membership]
    BY <1>1 DEF TypeOK
  <2>5. QED
    BY <1>2, <2>1, <2>2, <2>3, <2>4
<1>12. TypeOK'
  BY <1>1, <1>2, <1>8, <1>9, <1>11 DEF TypeOK, ApplyCommitted, raftVars
<1>13. LeaderHasTerm'
  BY <1>2 DEF IInv, LeaderHasTerm
<1>14. QED
  BY <1>10, <1>12, <1>13 DEF IInv

LEMMA RestartInv ==
    ASSUME IInv, NEW n \in Node, Restart(n)
    PROVE  IInv'
<1>1. TypeOK
  BY DEF IInv
<1>2. /\ sm' = [sm EXCEPT ![n] = artifact[n]] /\ applied' = [applied EXCEPT ![n] = compacted[n]]
      /\ conf' = [conf EXCEPT ![n] = confDisk[n]] /\ role' = [role EXCEPT ![n] = "Follower"]
      /\ pending' = [pending EXCEPT ![n] = <<>>] /\ shifted' = shifted \ {n}
      /\ (stale' = stale \/ stale' = stale \cup {n})
      /\ restarts < MaxRestarts /\ restarts' = restarts + 1
      /\ UNCHANGED <<log, term, commit, compacted, artifact>>
  BY DEF Restart
<1>3. ASSUME NEW m \in Node PROVE Follows(m)'
  <2>1. CASE m = n
    <3>1. sm'[m] = artifact[n] /\ applied'[m] = compacted[n]
      BY <1>1, <1>2, <2>1 DEF TypeOK
    <3>2. compacted[n] <= compacted[n] /\ compacted[n] <= commit[n]
      <4>1. compacted[n] \in Nat /\ applied[n] \in Nat /\ commit[n] \in Nat
        BY <1>1, NodeTypes
      <4>2. compacted[n] <= applied[n] /\ applied[n] <= commit[n]
        BY DEF IInv, Follows
      <4>3. QED
        BY <4>1, <4>2
    <3>3. QED
      BY <1>2, <2>1, <3>1, <3>2 DEF IInv, Follows
  <2>2. CASE m # n
    BY <1>1, <1>2, <2>2 DEF IInv, Follows, TypeOK
  <2>3. QED
    BY <2>1, <2>2
<1>4. /\ sm' \in [Node -> Seq(Entry)] /\ applied' \in [Node -> Index]
      /\ conf' \in [Node -> Membership] /\ role' \in [Node -> {"Leader", "Follower"}]
      /\ shifted' \subseteq Node /\ stale' \subseteq Node
  BY <1>1, <1>2 DEF TypeOK
<1>5. pending' \in [Node -> Seq(Op)]
  <2>1. <<>> \in Seq(Op)
    OBVIOUS
  <2>2. QED
    BY <1>1, <1>2, <2>1 DEF TypeOK
<1>6. restarts' \in 0..MaxRestarts
  BY <1>1, <1>2, MetanodeAssumption DEF TypeOK
<1>7. TypeOK'
  BY <1>1, <1>2, <1>4, <1>5, <1>6 DEF TypeOK, Restart
<1>8. LeaderHasTerm'
  BY <1>1, <1>2 DEF IInv, LeaderHasTerm, TypeOK
<1>9. QED
  BY <1>3, <1>7, <1>8 DEF IInv

LEMMA StutterInv == IInv /\ UNCHANGED vars => IInv'
BY DEF IInv, TypeOK, LeaderHasTerm, Follows, vars, raftVars, diskVars, askVars

LEMMA StepInv == IInv /\ [Next]_vars => IInv'
BY ElectInv, ReplicateInv, InstallSnapshotInv, AdvanceCommitInv, ApplyCommittedInv,
   ProposeInv, ChangeMembersInv, RestartInv, StutterInv
   DEF Next

-----------------------------------------------------------------------------
(* Every reachable state of a cluster is well typed. *)
THEOREM MetanodeTypeCorrect == Spec => []TypeOK
<1>1. Init => IInv
  BY InitInv
<1>2. IInv /\ [Next]_vars => IInv'
  BY StepInv
<1>3. IInv => TypeOK
  BY DEF IInv
<1>4. QED
  BY <1>1, <1>2, <1>3, PTL DEF Spec

(* A metanode's state machine is the applied prefix of its log and its       *)
(* artifact the compacted prefix, whatever crashes, snapshots and elections *)
(* came before: nothing is skipped and nothing applied twice                *)
(* (fjall_storage.rs compact_applied, apply_snapshot, open_with_state).     *)
THEOREM StateMachineFollowsLog == Spec => []StateFollowsLog
<1>1. Init => IInv
  BY InitInv
<1>2. IInv /\ [Next]_vars => IInv'
  BY StepInv
<1>3. IInv => StateFollowsLog
  BY FollowsIsStateFollowsLog DEF IInv
<1>4. QED
  BY <1>1, <1>2, <1>3, PTL DEF Spec

-----------------------------------------------------------------------------
(* The queue of waiters.                                                    *)

Place(ops, i) == Cardinality({k \in ops : k <= i})

\* The waiters p are the ops of l after index a, in their order.
QueueFits(l, a, p) ==
  LET ops == OpIndexes(l, a + 1, Len(l))
  IN /\ Len(p) = Cardinality(ops)
     /\ \A i \in ops : p[Place(ops, i)] = l[i].val

LEMMA OpIndexesFinite ==
    ASSUME NEW l, NEW i \in Nat, NEW j \in Nat
    PROVE  /\ IsFiniteSet(OpIndexes(l, i, j)) /\ Cardinality(OpIndexes(l, i, j)) \in Nat
           /\ OpIndexes(l, i, j) \subseteq i..j
<1>1. OpIndexes(l, i, j) \subseteq i..j
  BY DEF OpIndexes
<1>2. IsFiniteSet(i..j)
  BY FS_Interval
<1>3. QED
  BY <1>1, <1>2, FS_Subset, FS_CardinalityType

LEMMA PlaceInQueue ==
    ASSUME NEW ops, IsFiniteSet(ops), ops \subseteq Nat, NEW i \in ops
    PROVE  Place(ops, i) \in 1..Cardinality(ops)
<1> DEFINE upto == {k \in ops : k <= i}
<1>1. upto \subseteq ops /\ i \in upto
  OBVIOUS
<1> HIDE DEF upto
<1>2. IsFiniteSet(upto) /\ Cardinality(upto) <= Cardinality(ops) /\ Cardinality(ops) \in Nat
  BY <1>1, FS_Subset, FS_CardinalityType
<1>3. Cardinality(upto) \in Nat /\ Cardinality(upto) # 0
  BY <1>1, <1>2, FS_CardinalityType, FS_EmptySet
<1>4. Place(ops, i) = Cardinality(upto)
  BY DEF Place, upto
<1>5. QED
  BY <1>2, <1>3, <1>4

LEMMA QueueOfAppendedOp ==
    ASSUME NEW l \in Seq(Entry), NEW a \in Nat, a <= Len(l), NEW p \in Seq(Op), NEW e \in Entry,
           NEW o \in Op, e.kind = "op", e.val = o, QueueFits(l, a, p)
    PROVE  QueueFits(Append(l, e), a, Append(p, o))
<1> DEFINE m == Append(l, e)
           ops == OpIndexes(l, a + 1, Len(l))
           more == OpIndexes(m, a + 1, Len(m))
           q == Append(p, o)
           new == Len(l) + 1
<1>1. /\ m \in Seq(Entry) /\ Len(m) = Len(l) + 1 /\ Len(l) \in Nat
      /\ \A i \in 1..Len(l) : m[i] = l[i]
      /\ m[Len(l) + 1] = e
  BY AppendProperties, LenProperties
<1>2. /\ q \in Seq(Op) /\ Len(q) = Len(p) + 1 /\ Len(p) \in Nat
      /\ \A i \in 1..Len(p) : q[i] = p[i]
      /\ q[Len(p) + 1] = o
  BY AppendProperties, LenProperties
<1>3. IsFiniteSet(ops) /\ Cardinality(ops) \in Nat /\ ops \subseteq a + 1..Len(l)
  BY <1>1, OpIndexesFinite
<1>4. Len(p) = Cardinality(ops) /\ \A i \in ops : p[Place(ops, i)] = l[i].val
  BY DEF QueueFits
<1> HIDE DEF m, q
<1>5. more = ops \cup {new} /\ new \notin ops
  BY <1>1 DEF OpIndexes
<1> HIDE DEF ops, more
<1>6. IsFiniteSet(more) /\ Cardinality(more) = Cardinality(ops) + 1
  BY <1>3, <1>5, FS_AddElement
<1>7. ASSUME NEW i \in ops PROVE q[Place(more, i)] = m[i].val
  <2>1. {k \in more : k <= i} = {k \in ops : k <= i}
    BY <1>1, <1>3, <1>5
  <2>2. Place(more, i) = Place(ops, i)
    BY <2>1 DEF Place
  <2>3. Place(ops, i) \in 1..Len(p)
    <3>1. ops \subseteq Nat
      BY <1>1, <1>3
    <3>2. QED
      BY <1>3, <1>4, <3>1, PlaceInQueue
  <2>4. m[i] = l[i]
    BY <1>1, <1>3
  <2>5. QED
    BY <1>2, <1>4, <2>2, <2>3, <2>4
<1>8. q[Place(more, new)] = m[new].val
  <2>1. {k \in more : k <= new} = more
    <3>1. \A k \in more : k <= new
      BY <1>1, <1>3, <1>5
    <3>2. QED
      BY <3>1
  <2>2. Place(more, new) = Len(p) + 1
    BY <1>4, <1>6, <2>1 DEF Place
  <2>3. QED
    BY <1>1, <1>2, <2>2
<1>9. Len(q) = Cardinality(more)
  BY <1>2, <1>4, <1>6
<1>10. QED
  BY <1>5, <1>7, <1>8, <1>9 DEF QueueFits, more, m, q

LEMMA QueueOfAppendedOther ==
    ASSUME NEW l \in Seq(Entry), NEW a \in Nat, NEW p \in Seq(Op), NEW e \in Entry,
           e.kind # "op", QueueFits(l, a, p)
    PROVE  QueueFits(Append(l, e), a, p)
<1> DEFINE m == Append(l, e)
           ops == OpIndexes(l, a + 1, Len(l))
<1>1. /\ Len(m) = Len(l) + 1 /\ Len(l) \in Nat
      /\ \A i \in 1..Len(l) : m[i] = l[i]
      /\ m[Len(l) + 1] = e
  BY AppendProperties, LenProperties
<1> HIDE DEF m
<1>2. OpIndexes(m, a + 1, Len(m)) = ops
  BY <1>1 DEF OpIndexes
<1>3. \A i \in ops : m[i] = l[i]
  BY <1>1 DEF OpIndexes
<1>4. QED
  BY <1>2, <1>3 DEF QueueFits, m

LEMMA QueueOfApplied ==
    ASSUME NEW l \in Seq(Entry), NEW a \in Nat, NEW c \in Nat, a <= c, c <= Len(l),
           NEW p \in Seq(Op), QueueFits(l, a, p)
    PROVE  QueueFits(l, c, SubSeq(p, Cardinality(OpIndexes(l, a + 1, c)) + 1, Len(p)))
<1> DEFINE ops == OpIndexes(l, a + 1, Len(l))
           done == OpIndexes(l, a + 1, c)
           rest == OpIndexes(l, c + 1, Len(l))
           d == Cardinality(done)
           q == SubSeq(p, d + 1, Len(p))
<1>1. Len(l) \in Nat /\ Len(p) \in Nat
  BY LenProperties
<1>2. /\ IsFiniteSet(done) /\ d \in Nat /\ done \subseteq a + 1..c
      /\ IsFiniteSet(rest) /\ Cardinality(rest) \in Nat /\ rest \subseteq c + 1..Len(l)
  BY <1>1, OpIndexesFinite
<1>3. ops = done \cup rest /\ done \cap rest = {}
  BY <1>1 DEF OpIndexes
<1>4. Len(p) = Cardinality(ops) /\ \A i \in ops : p[Place(ops, i)] = l[i].val
  BY DEF QueueFits
<1> HIDE DEF ops, done, rest, d
<1>5. Cardinality(ops) = d + Cardinality(rest)
  <2>1. Cardinality(done \cap rest) = 0
    BY <1>3, FS_EmptySet
  <2>2. Cardinality(done \cup rest) =
            Cardinality(done) + Cardinality(rest) - Cardinality(done \cap rest)
    BY <1>2, FS_Union
  <2>3. QED
    BY <1>2, <1>3, <2>1, <2>2 DEF d
<1>6. Len(p) = d + Cardinality(rest)
  BY <1>4, <1>5
<1>7. Len(q) = Cardinality(rest) /\ \A r \in 1..Cardinality(rest) : q[r] = p[d + r]
  <2>1. \A k \in d + 1..Len(p) : p[k] \in Op
    BY <1>1, <1>2, ElementOfSeq
  <2>2. d + 1 \in Int /\ Len(p) \in Int
    BY <1>1, <1>2
  <2>3. /\ Len(q) = IF d + 1 <= Len(p) THEN Len(p) - (d + 1) + 1 ELSE 0
        /\ \A r \in 1..Len(p) - (d + 1) + 1 : q[r] = p[(d + 1) + r - 1]
    BY <2>1, <2>2, SubSeqProperties
  <2> HIDE DEF q
  <2>4. Len(p) - (d + 1) + 1 = Cardinality(rest)
    BY <1>2, <1>6
  <2>5. Len(q) = Cardinality(rest)
    BY <1>2, <1>6, <2>3
  <2>6. ASSUME NEW r \in 1..Cardinality(rest) PROVE q[r] = p[d + r]
    <3>1. q[r] = p[(d + 1) + r - 1]
      BY <2>3, <2>4
    <3>2. (d + 1) + r - 1 = d + r
      BY <1>2
    <3>3. QED
      BY <3>1, <3>2
  <2>7. QED
    BY <2>5, <2>6
<1> HIDE DEF q
<1>8. ASSUME NEW i \in rest PROVE q[Place(rest, i)] = l[i].val
  <2> DEFINE upto == {k \in rest : k <= i}
  <2>1. {k \in ops : k <= i} = done \cup upto /\ done \cap upto = {}
    <3>1. \A k \in done : k <= i
      BY <1>1, <1>2
    <3>2. QED
      BY <1>3, <3>1
  <2>2. IsFiniteSet(upto)
    BY <1>2, FS_Subset
  <2>3. upto = {k \in rest : k <= i}
    OBVIOUS
  <2> HIDE DEF upto
  <2>4. Cardinality(done \cup upto) =
            Cardinality(done) + Cardinality(upto) - Cardinality(done \cap upto)
    BY <1>2, <2>2, FS_Union
  <2>5. Cardinality(done \cap upto) = 0 /\ Cardinality(upto) \in Nat
    BY <2>1, <2>2, FS_EmptySet, FS_CardinalityType
  <2>6. Place(ops, i) = d + Place(rest, i)
    <3>1. Place(ops, i) = Cardinality(done \cup upto)
      BY <2>1 DEF Place
    <3>2. Place(rest, i) = Cardinality(upto)
      BY <2>3 DEF Place
    <3>3. d = Cardinality(done)
      BY DEF d
    <3>4. QED
      BY <1>2, <2>4, <2>5, <3>1, <3>2, <3>3
  <2>7. Place(rest, i) \in 1..Cardinality(rest)
    <3>1. rest \subseteq Nat
      BY <1>1, <1>2
    <3>2. QED
      BY <1>2, <3>1, PlaceInQueue
  <2>8. p[Place(ops, i)] = l[i].val
    BY <1>3, <1>4
  <2>9. QED
    BY <1>7, <2>6, <2>7, <2>8
<1>9. QED
  BY <1>7, <1>8 DEF QueueFits, rest, q, d, done

QueueFitsAt(n) ==
  role[n] = "Leader" /\ n \notin shifted => QueueFits(log[n], applied[n], pending[n])
QueueInv == \A n \in Node : QueueFitsAt(n)

LEMMA QueueInvIsQueueMatchesLog == QueueInv <=> QueueMatchesLog
BY DEF QueueInv, QueueFitsAt, QueueFits, QueueMatchesLog, Place

LEMMA SameQueue ==
    ASSUME QueueInv, NEW m \in Node, log'[m] = log[m], applied'[m] = applied[m],
           pending'[m] = pending[m],
           role'[m] = "Leader" => role[m] = "Leader", m \in shifted => m \in shifted'
    PROVE  QueueFitsAt(m)'
BY DEF QueueInv, QueueFitsAt

LEMMA ElectQueue ==
    ASSUME IInv, QueueInv, NEW n \in Node, NEW t \in 1..MaxTerm,
           NEW Q \in SUBSET conf[n].voters, Elect(n, t, Q)
    PROVE  QueueInv'
<1>1. TypeOK
  BY DEF IInv
<1>2. /\ log' = [log EXCEPT ![n] = Append(log[n], Noop(t))]
      /\ role' = [m \in Node |-> IF m = n THEN "Leader"
                                 ELSE IF m \in Q THEN "Follower" ELSE role[m]]
      /\ shifted' = IF \/ pending[n] # <<>>
                       \/ \E i \in applied[n] + 1..Len(log[n]) : log[n][i].kind = "op"
                    THEN shifted \cup {n} ELSE shifted
      /\ UNCHANGED <<applied, pending>>
  BY DEF Elect, Store
<1>3. ASSUME NEW m \in Node, m # n PROVE QueueFitsAt(m)'
  BY <1>1, <1>2, <1>3, SameQueue DEF TypeOK
<1>4. ASSUME n \notin shifted' PROVE QueueFits(log'[n], applied'[n], pending'[n])
  <2>1. pending[n] = <<>> /\ OpIndexes(log[n], applied[n] + 1, Len(log[n])) = {}
    BY <1>2, <1>4 DEF OpIndexes
  <2>2. QueueFits(log[n], applied[n], pending[n])
    BY <2>1, FS_EmptySet DEF QueueFits
  <2>3. Noop(t) \in Entry /\ Noop(t).kind # "op"
    BY DEF Noop, Entry
  <2>4. QueueFits(Append(log[n], Noop(t)), applied[n], pending[n])
    BY <1>1, <2>2, <2>3, NodeTypes, QueueOfAppendedOther
  <2>5. QED
    BY <1>1, <1>2, <2>4 DEF TypeOK
<1>5. QED
  BY <1>3, <1>4 DEF QueueInv, QueueFitsAt

LEMMA ProposeQueue ==
    ASSUME IInv, QueueInv, NEW n \in Node, NEW o \in Op, Propose(n, o)
    PROVE  QueueInv'
<1> DEFINE e == [term |-> term[n], kind |-> "op", val |-> o]
<1>1. TypeOK
  BY DEF IInv
<1>2. e \in Entry /\ e.kind = "op" /\ e.val = o
  BY <1>1, NodeTypes DEF Entry, Propose, IInv, LeaderHasTerm
<1>3. /\ log' = [log EXCEPT ![n] = Append(log[n], e)]
      /\ pending' = [pending EXCEPT ![n] = Append(pending[n], o)]
      /\ UNCHANGED <<applied, role, shifted>>
  BY <1>1 DEF Propose, Store, TypeOK
<1> HIDE DEF e
<1>4. ASSUME NEW m \in Node, m # n PROVE QueueFitsAt(m)'
  BY <1>1, <1>3, <1>4, SameQueue DEF TypeOK
<1>5. ASSUME role[n] = "Leader", n \notin shifted
      PROVE  QueueFits(log'[n], applied'[n], pending'[n])
  <2>1. QueueFits(log[n], applied[n], pending[n])
    BY <1>5 DEF QueueInv, QueueFitsAt
  <2>2. /\ log[n] \in Seq(Entry) /\ applied[n] \in Nat /\ pending[n] \in Seq(Op)
        /\ applied[n] <= Len(log[n])
    <3>1. /\ log[n] \in Seq(Entry) /\ applied[n] \in Nat /\ pending[n] \in Seq(Op)
          /\ commit[n] \in Nat /\ Len(log[n]) \in Nat
      BY <1>1, NodeTypes
    <3>2. applied[n] <= commit[n] /\ commit[n] <= Len(log[n])
      BY DEF IInv, Follows
    <3>3. QED
      BY <3>1, <3>2
  <2>3. QueueFits(Append(log[n], e), applied[n], Append(pending[n], o))
    BY <1>2, <2>1, <2>2, QueueOfAppendedOp
  <2>4. QED
    BY <1>1, <1>3, <2>3 DEF TypeOK
<1>6. QED
  BY <1>3, <1>4, <1>5 DEF QueueInv, QueueFitsAt

LEMMA ChangeMembersQueue ==
    ASSUME IInv, QueueInv, NEW n \in Node, NEW ch \in Change[first.voters],
           ChangeMembers(n, ch)
    PROVE  QueueInv'
<1> DEFINE e == IF ConfPending(n) THEN Noop(term[n])
                ELSE [term |-> term[n], kind |-> "conf", val |-> ch]
<1>1. TypeOK
  BY DEF IInv
<1>2. ch \in AnyChange
  BY <1>1, MetanodeAssumption DEF TypeOK
<1>3. term[n] \in 1..MaxTerm
  BY <1>1, NodeTypes DEF ChangeMembers, IInv, LeaderHasTerm
<1>4. e \in Entry /\ e.kind # "op"
  BY <1>2, <1>3 DEF Entry, Noop
<1>5. /\ log' = [log EXCEPT ![n] = Append(log[n], e)]
      /\ UNCHANGED <<applied, role, shifted, pending>>
  BY DEF ChangeMembers, Store, askVars
<1> HIDE DEF e
<1>6. ASSUME NEW m \in Node, m # n PROVE QueueFitsAt(m)'
  BY <1>1, <1>5, <1>6, SameQueue DEF TypeOK
<1>7. ASSUME role[n] = "Leader", n \notin shifted
      PROVE  QueueFits(log'[n], applied'[n], pending'[n])
  <2>1. QueueFits(log[n], applied[n], pending[n])
    BY <1>7 DEF QueueInv, QueueFitsAt
  <2>2. QueueFits(Append(log[n], e), applied[n], pending[n])
    <3>1. log[n] \in Seq(Entry) /\ applied[n] \in Nat /\ pending[n] \in Seq(Op)
      BY <1>1, NodeTypes
    <3>2. QED
      BY <1>4, <2>1, <3>1, QueueOfAppendedOther
  <2>3. QED
    BY <1>1, <1>5, <2>2 DEF TypeOK
<1>8. QED
  BY <1>5, <1>6, <1>7 DEF QueueInv, QueueFitsAt

LEMMA ApplyCommittedQueue ==
    ASSUME IInv, QueueInv, NEW n \in Node, ApplyCommitted(n)
    PROVE  QueueInv'
<1> DEFINE ops == OpIndexes(log[n], applied[n] + 1, commit[n])
<1>1. TypeOK
  BY DEF IInv
<1>2. /\ applied[n] < commit[n] /\ applied' = [applied EXCEPT ![n] = commit[n]]
      /\ PopWaiters(n, ops)
      /\ UNCHANGED <<log, role, shifted>>
  BY DEF ApplyCommitted, raftVars
<1> HIDE DEF ops
<1>3. pending' = [pending EXCEPT ![n] =
                    SubSeq(pending[n], Cardinality(ops) + 1, Len(pending[n]))]
  BY <1>1, <1>2 DEF PopWaiters, TypeOK
<1>4. ASSUME NEW m \in Node, m # n PROVE QueueFitsAt(m)'
  BY <1>1, <1>2, <1>3, <1>4, SameQueue DEF TypeOK
<1>5. ASSUME role[n] = "Leader", n \notin shifted
      PROVE  QueueFits(log'[n], applied'[n], pending'[n])
  <2>1. QueueFits(log[n], applied[n], pending[n])
    BY <1>5 DEF QueueInv, QueueFitsAt
  <2>2. /\ log[n] \in Seq(Entry) /\ applied[n] \in Nat /\ pending[n] \in Seq(Op)
        /\ commit[n] \in Nat /\ applied[n] <= commit[n] /\ commit[n] <= Len(log[n])
    BY <1>1, NodeTypes DEF IInv, Follows
  <2>3. QueueFits(log[n], commit[n],
                  SubSeq(pending[n], Cardinality(ops) + 1, Len(pending[n])))
    BY <2>1, <2>2, QueueOfApplied DEF ops
  <2>4. QED
    BY <1>1, <1>2, <1>3, <2>3 DEF TypeOK
<1>6. QED
  BY <1>2, <1>4, <1>5 DEF QueueInv, QueueFitsAt

SameAt(m) ==
  /\ log'[m] = log[m] /\ applied'[m] = applied[m] /\ pending'[m] = pending[m]
  /\ role'[m] = role[m]

LEMMA OtherStepsQueue ==
    ASSUME IInv, QueueInv, NEW n \in Node,
           \/ \E l \in Node : Replicate(l, n) \/ InstallSnapshot(l, n)
           \/ AdvanceCommit(n)
           \/ Restart(n)
           \/ UNCHANGED vars
    PROVE  QueueInv'
<1>1. TypeOK
  BY DEF IInv
<1>2. ASSUME role'[n] = "Follower", \A m \in Node \ {n} : SameAt(m), shifted \ {n} \subseteq shifted'
      PROVE  QueueInv'
  <2>1. ASSUME NEW m \in Node, m # n PROVE QueueFitsAt(m)'
    BY <1>2, <2>1, SameQueue DEF SameAt
  <2>2. QED
    BY <1>2, <2>1 DEF QueueInv, QueueFitsAt
<1>3. ASSUME NEW l \in Node, Replicate(l, n) PROVE QueueInv'
  <2>1. \E new : log' = [log EXCEPT ![n] = new]
    BY <1>3 DEF Replicate, Store
  <2>2. role' = [role EXCEPT ![n] = "Follower"] /\ UNCHANGED <<applied, pending, shifted>>
    BY <1>3 DEF Replicate, askVars
  <2>3. QED
    BY <1>1, <1>2, <2>1, <2>2 DEF SameAt, TypeOK
<1>4. ASSUME NEW l \in Node, InstallSnapshot(l, n) PROVE QueueInv'
  <2>1. \E new : log' = [log EXCEPT ![n] = new]
    BY <1>4 DEF InstallSnapshot, Store
  <2>2. /\ role' = [role EXCEPT ![n] = "Follower"] /\ UNCHANGED <<pending, shifted>>
        /\ applied' = [applied EXCEPT ![n] = compacted[l]]
    BY <1>4 DEF InstallSnapshot, askVars
  <2>3. QED
    BY <1>1, <1>2, <2>1, <2>2 DEF SameAt, TypeOK
<1>5. ASSUME Restart(n) PROVE QueueInv'
  <2>1. /\ role' = [role EXCEPT ![n] = "Follower"] /\ log' = log
        /\ applied' = [applied EXCEPT ![n] = compacted[n]]
        /\ pending' = [pending EXCEPT ![n] = <<>>] /\ shifted' = shifted \ {n}
    BY <1>5 DEF Restart
  <2>2. QED
    BY <1>1, <1>2, <2>1 DEF SameAt, TypeOK
<1>6. ASSUME AdvanceCommit(n) \/ UNCHANGED vars PROVE QueueInv'
  <2>1. UNCHANGED <<log, applied, pending, role, shifted>>
    BY <1>6 DEF AdvanceCommit, vars, raftVars, askVars
  <2>2. QED
    BY <2>1 DEF QueueInv, QueueFitsAt
<1>7. QED
  BY <1>3, <1>4, <1>5, <1>6

LEMMA QueueStep == IInv /\ QueueInv /\ [Next]_vars => QueueInv'
<1> SUFFICES ASSUME IInv, QueueInv, [Next]_vars PROVE QueueInv'
  OBVIOUS
<1>1. ASSUME UNCHANGED vars PROVE QueueInv'
  BY <1>1 DEF QueueInv, QueueFitsAt, vars, raftVars, askVars
<1>2. QED
  BY <1>1, ElectQueue, ProposeQueue, ChangeMembersQueue, ApplyCommittedQueue, OtherStepsQueue
     DEF Next

(* A leader that came to power with an empty queue and no op left to apply  *)
(* has in its queue exactly the ops of its log not applied yet, in their    *)
(* order, whatever it proposes and applies and however the membership       *)
(* changes: answering by order then answers the right caller (meta/src/     *)
(* lib.rs Command::Propose and the end of apply_committed).                 *)
THEOREM QueueFollowsLog == Spec => []QueueMatchesLog
<1> DEFINE Inv == IInv /\ QueueInv
<1>1. Init => Inv
  BY InitInv DEF QueueInv, QueueFitsAt, Init
<1>2. Inv /\ [Next]_vars => Inv'
  BY StepInv, QueueStep
<1>3. Inv => QueueMatchesLog
  BY QueueInvIsQueueMatchesLog
<1> HIDE DEF Inv
<1>4. QED
  BY <1>1, <1>2, <1>3, PTL DEF Spec

=============================================================================
