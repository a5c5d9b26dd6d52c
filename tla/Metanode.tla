------------------------------ MODULE Metanode ------------------------------
(***************************************************************************)
(* The replicated metadata service: one driver thread per node             *)
(* (meta/src/lib.rs spawn_node) around a raft library, the queue of the    *)
(* clients that wait for an answer, the fjall storage (log, artifact,      *)
(* compaction, membership) and the membership commands.                    *)
(*                                                                         *)
(* The raft library is external and kept abstract: an election is one step *)
(* of a quorum, replication one step of a leader and a follower.  What the *)
(* driver and the storage do around it is taken from the code.             *)
(*                                                                         *)
(* log[n] keeps, for the properties, the entries a compaction removed from *)
(* the disk: no action reads an entry at or below compacted[n].            *)
(***************************************************************************)
EXTENDS Integers, Sequences, FiniteSets

CONSTANTS Node, Op, None,
          FirstVoters,       \* memberships a cluster may first be started with
          Change,            \* changes an operator may ask for, by first membership
          CompactLogEntries, \* MetaOptions::compact_log_entries
          PromoteMaxLag,     \* PROMOTE_MAX_LAG
          MaxTerm, MaxLog, MaxRestarts   \* bounds of the exploration

AnyChange == {"learner", "voter", "remove"} \X Node

ASSUME MetanodeAssumption ==
  /\ FirstVoters \subseteq SUBSET Node /\ {} \notin FirstVoters
  /\ Change \in [FirstVoters -> SUBSET AnyChange]
  /\ None \notin Op \cup AnyChange
  /\ CompactLogEntries \in Nat \ {0} /\ PromoteMaxLag \in Nat
  /\ MaxTerm \in Nat /\ MaxLog \in Nat /\ MaxRestarts \in Nat

VARIABLES
  log, term, role, commit,     \* raft-rs: entries, hard state, role
  compacted, artifact,         \* fjall: last compacted index, artifact at it
  conf, confDisk,              \* membership in force, and under K_CONF_STATE
  applied, sm,                 \* last applied index, entries the state machine saw
  pending,                     \* waiters of proposals, in the order proposed
  asked, revision,             \* ops proposed, index each was answered with (0: none)
  first,                       \* the membership of the first start
  shifted,                     \* history: nodes whose queue may not fit their log
  stale,                       \* history: nodes whose membership a restart took back
  restarts

raftVars == <<log, term, role, commit>>
diskVars == <<compacted, artifact, conf, confDisk>>
askVars  == <<pending, asked, revision, shifted>>
vars == <<raftVars, diskVars, applied, sm, askVars, first, stale, restarts>>

Index == 0..MaxLog
Membership == [voters : SUBSET Node, learners : SUBSET Node]
Entry == [term : 1..MaxTerm, kind : {"noop", "op", "conf"}, val : Op \cup AnyChange \cup {None}]

Noop(t) == [term |-> t, kind |-> "noop", val |-> None]
Members(c) == c.voters \cup c.learners
LastTerm(n) == IF log[n] = <<>> THEN 0 ELSE log[n][Len(log[n])].term

Majority(Q, voters) == Q \subseteq voters /\ 2 * Cardinality(Q) > Cardinality(voters)

\* The logs of m and n have their first k entries in common, and no more.
Shares(m, n, k) ==
  k <= Len(log[m]) /\ k <= Len(log[n]) /\ \A i \in 1..k : log[m][i] = log[n][i]
Agree(m, n, k) == Shares(m, n, k) /\ ~Shares(m, n, k + 1)

-----------------------------------------------------------------------------
(* Storage *)

\* The membership after the changes among entries i..j of a log: the last
\* change of a node decides (raft-rs apply_conf_change, one entry at a time).
ConfAfter(c, l, i, j) ==
  LET About(n) == {k \in i..j : l[k].kind = "conf" /\ l[k].val[2] = n}
      Last(n)  == CHOOSE k \in About(n) : \A h \in About(n) : h <= k
      Now(n)   == IF About(n) = {}
                  THEN IF n \in c.voters THEN "voter"
                       ELSE IF n \in c.learners THEN "learner" ELSE "remove"
                  ELSE l[Last(n)].val[1]
  IN [voters |-> {n \in Node : Now(n) = "voter"},
      learners |-> {n \in Node : Now(n) = "learner"}]

\* Slip: the log is cut at its end, not at the applied index.
CompactToTheEnd(l, c, a) ==
  IF Len(l) - c > CompactLogEntries /\ a > c THEN Len(l) ELSE c

\* compact_applied, called at the end of every Ready when the log retained on
\* disk is longer than the limit: artifact and position are one batch.
CompactAt(l, c, a) ==
  IF Len(l) - c > CompactLogEntries /\ a > c THEN a ELSE c

Compact(n, l, a, s) ==
  LET c == CompactAt(l, compacted[n], a) IN
  /\ compacted' = [compacted EXCEPT ![n] = c]
  /\ artifact' = [artifact EXCEPT ![n] = IF c = compacted[n] THEN @ ELSE s]

Store(n, l) == log' = [log EXCEPT ![n] = l]

-----------------------------------------------------------------------------
(* Raft: elections, replication, commitment *)

\* raft-rs lets a node campaign when it is a voter and no committed membership
\* change waits to be applied.
MayCampaign(n) ==
  /\ n \in conf[n].voters
  /\ \A i \in applied[n] + 1..commit[n] : log[n][i].kind # "conf"

UpToDate(n, m) ==
  \/ LastTerm(n) > LastTerm(m)
  \/ LastTerm(n) = LastTerm(m) /\ Len(log[n]) >= Len(log[m])

\* n wins term t with the votes of Q and appends the empty entry of a leader.
\* Its queue of waiters is what it was: shifted records that inherited ops not
\* applied yet, or waiters kept from an earlier term, will be answered by order.
Elect(n, t, Q) ==
  /\ MayCampaign(n) /\ n \in Q /\ Majority(Q, conf[n].voters)
  /\ \A m \in Q : ~Majority(Q \ {m}, conf[n].voters)   \* the votes that decide
  /\ Len(log[n]) < MaxLog
  /\ \A m \in Q : term[m] < t /\ UpToDate(n, m)
  /\ \E m \in Q : term[m] = t - 1      \* terms only grow by campaigns; MaxTerm bounds them
  /\ term' = [m \in Node |-> IF m \in Q THEN t ELSE term[m]]
  /\ role' = [m \in Node |-> IF m = n THEN "Leader" ELSE IF m \in Q THEN "Follower" ELSE role[m]]
  /\ LET l == Append(log[n], Noop(t)) IN
     /\ Store(n, l)
     /\ Compact(n, l, applied[n], sm[n])
  /\ shifted' = IF \/ pending[n] # <<>>
                   \/ \E i \in applied[n] + 1..Len(log[n]) : log[n][i].kind = "op"
                THEN shifted \cup {n} ELSE shifted
  /\ UNCHANGED <<commit, conf, confDisk, applied, sm, pending, asked, revision, stale, restarts, first>>

\* Leader l sends n what it lacks, while its own log still has it.  A follower
\* cuts its log only where it conflicts.
Replicate(l, n) ==
  /\ role[l] = "Leader" /\ n \in Members(conf[l]) \ {l} /\ term[n] <= term[l]
  /\ \E k \in Index :
       LET new == IF k = Len(log[l]) THEN log[n] ELSE log[l]
           c == IF commit[l] > commit[n] THEN commit[l] ELSE commit[n]
       IN /\ Agree(l, n, k) /\ compacted[l] <= k
          /\ commit[n] <= k          \* raft-rs stops the node rather than cut below it
          /\ <<new, c, term[l]>> # <<log[n], commit[n], term[n]>>
          /\ Store(n, new)
          /\ commit' = [commit EXCEPT ![n] = c]
          /\ Compact(n, new, applied[n], sm[n])
  /\ term' = [term EXCEPT ![n] = term[l]]
  /\ role' = [role EXCEPT ![n] = "Follower"]
  /\ UNCHANGED <<conf, confDisk, applied, sm, askVars, stale, restarts, first>>

\* Otherwise it sends its artifact with the membership it has now.  The state
\* machine is replaced, then the storage takes index and membership; of the
\* membership only the cached copy changes, and entries after the index stay.
InstallSnapshot(l, n) ==
  /\ role[l] = "Leader" /\ n \in Members(conf[l]) \ {l} /\ term[n] <= term[l]
  /\ LET i == compacted[l] IN
     /\ ~Shares(l, n, i) /\ commit[n] < i
     /\ sm' = [sm EXCEPT ![n] = artifact[l]]
     /\ artifact' = [artifact EXCEPT ![n] = artifact[l]]
     /\ compacted' = [compacted EXCEPT ![n] = i]
     /\ applied' = [applied EXCEPT ![n] = i]
     /\ commit' = [commit EXCEPT ![n] = i]
     /\ Store(n, SubSeq(log[l], 1, i) \o SubSeq(log[n], i + 1, Len(log[n])))
  /\ conf' = [conf EXCEPT ![n] = conf[l]]
  /\ term' = [term EXCEPT ![n] = term[l]]
  /\ role' = [role EXCEPT ![n] = "Follower"]
  /\ stale' = IF l \in stale THEN stale \cup {n} ELSE stale \ {n}
  /\ UNCHANGED <<confDisk, askVars, restarts, first>>

\* The leader counts the voters that stored an entry of its own term.
Stored(l) ==
  {i \in commit[l] + 1..Len(log[l]) :
    /\ log[l][i].term = term[l]
    /\ Majority({m \in conf[l].voters : m = l \/ (term[m] = term[l] /\ Shares(l, m, i))},
                conf[l].voters)}

AdvanceCommit(l) ==
  /\ role[l] = "Leader"
  /\ \E i \in Stored(l) :
       /\ \A j \in Stored(l) : j <= i
       /\ commit' = [commit EXCEPT ![l] = i]
  /\ UNCHANGED <<log, term, role, diskVars, applied, sm, askVars, stale, restarts, first>>

-----------------------------------------------------------------------------
(* The driver: proposals, membership commands, application *)

OpIndexes(l, i, j) == {k \in i..j : l[k].kind = "op"}

\* Slip: a committed membership change takes a waiter too.
ChangesPopWaiters(n, ops) ==
  LET popped == {k \in applied[n] + 1..commit[n] : log[n][k].kind # "noop"}
      Rank(i) == Cardinality({k \in popped : k <= i})
      Answers(o, i) == Rank(i) <= Len(pending[n]) /\ pending[n][Rank(i)] = o
  IN /\ pending' = [pending EXCEPT ![n] = SubSeq(@, Cardinality(popped) + 1, Len(@))]
     /\ revision' = [o \in Op |-> IF \E i \in ops : Answers(o, i)
                                  THEN CHOOSE i \in ops : Answers(o, i) ELSE revision[o]]

\* apply_committed over everything committed, then the compaction check.  Each
\* op takes the first waiter off the queue, whoever proposed it.
PopWaiters(n, ops) ==
  LET Rank(i) == Cardinality({k \in ops : k <= i})
      Answers(o, i) == Rank(i) <= Len(pending[n]) /\ pending[n][Rank(i)] = o
  IN /\ pending' = [pending EXCEPT ![n] = SubSeq(@, Cardinality(ops) + 1, Len(@))]
     /\ revision' = [o \in Op |-> IF \E i \in ops : Answers(o, i)
                                  THEN CHOOSE i \in ops : Answers(o, i) ELSE revision[o]]

ApplyCommitted(n) ==
  /\ applied[n] < commit[n]
  /\ LET from == applied[n] + 1
         last == commit[n]
         s == sm[n] \o SubSeq(log[n], from, last)
         c == ConfAfter(conf[n], log[n], from, last)
     IN /\ applied' = [applied EXCEPT ![n] = last]
        /\ sm' = [sm EXCEPT ![n] = s]
        /\ conf' = [conf EXCEPT ![n] = c]
        /\ confDisk' = [confDisk EXCEPT ![n] =
             IF \E i \in from..last : log[n][i].kind = "conf" THEN c ELSE @]
        /\ PopWaiters(n, OpIndexes(log[n], from, last))
        /\ Compact(n, log[n], last, s)
  /\ UNCHANGED <<raftVars, asked, shifted, stale, restarts, first>>

\* Command::Propose.  A node that does not lead answers NotLeader and keeps
\* nothing.  A caller that gives up (NodeHandle::propose, after its timeout)
\* leaves its waiter in the queue, so giving up is no step of this model.
Propose(n, o) ==
  /\ o \notin asked /\ role[n] = "Leader" /\ Len(log[n]) < MaxLog
  /\ LET l == Append(log[n], [term |-> term[n], kind |-> "op", val |-> o]) IN
     /\ Store(n, l)
     /\ Compact(n, l, applied[n], sm[n])
  /\ pending' = [pending EXCEPT ![n] = Append(@, o)]
  /\ asked' = asked \cup {o}
  /\ UNCHANGED <<term, role, commit, conf, confDisk, applied, sm, revision, shifted, stale, restarts, first>>

\* remove_gate: never the last voter.
RemoveGate(n, id) == ~(id \in conf[n].voters /\ Cardinality(conf[n].voters) = 1)

\* promote_checked: a learner, known to this leader and close enough.
PromoteGate(n, id) ==
  /\ id \in conf[n].learners
  /\ \E k \in Index : /\ k = 0 \/ (term[id] = term[n] /\ Shares(n, id, k))
                     /\ Len(log[n]) - k <= PromoteMaxLag

ChangeGate(n, ch) ==
  \/ ch[1] = "learner" /\ ch[2] \notin Members(conf[n])     \* Meta.Join asks only then
  \/ ch[1] = "voter" /\ PromoteGate(n, ch[2])
  \/ ch[1] = "remove" /\ ch[2] \in Members(conf[n]) /\ RemoveGate(n, ch[2])

\* raft-rs turns a change into an empty entry while another may be unapplied.
ConfPending(n) ==
  \E i \in applied[n] + 1..Len(log[n]) : log[n][i].kind = "conf" \/ log[n][i].term < term[n]

ChangeMembers(n, ch) ==
  /\ role[n] = "Leader" /\ Len(log[n]) < MaxLog
  /\ ChangeGate(n, ch)
  /\ LET e == IF ConfPending(n) THEN Noop(term[n])
              ELSE [term |-> term[n], kind |-> "conf", val |-> ch]
         l == Append(log[n], e)
     IN Store(n, l) /\ Compact(n, l, applied[n], sm[n])
  /\ UNCHANGED <<term, role, commit, conf, confDisk, applied, sm, askVars, stale, restarts, first>>

\* Slip: the membership given at the first start overwrites the stored one.
RestartWithStartVoters(n) ==
  /\ restarts < MaxRestarts
  /\ restarts' = restarts + 1
  /\ <<applied[n], conf[n], role[n], pending[n]>> # <<compacted[n], confDisk[n], "Follower", <<>>>>
  /\ sm' = [sm EXCEPT ![n] = artifact[n]]
  /\ applied' = [applied EXCEPT ![n] = compacted[n]]
  /\ conf' = [conf EXCEPT ![n] = first]
  /\ stale' = IF conf[n] = confDisk[n] THEN stale ELSE stale \cup {n}
  /\ role' = [role EXCEPT ![n] = "Follower"]
  /\ pending' = [pending EXCEPT ![n] = <<>>]
  /\ shifted' = shifted \ {n}
  /\ UNCHANGED <<log, term, commit, compacted, artifact, confDisk, asked, revision, first>>

\* The process dies and is started again: log, hard state, artifact and the
\* membership on disk come back; the state machine is rebuilt from the artifact
\* and the entries after it are applied again.
Restart(n) ==
  /\ restarts < MaxRestarts
  /\ restarts' = restarts + 1
  /\ <<applied[n], conf[n], role[n], pending[n]>> # <<compacted[n], confDisk[n], "Follower", <<>>>>
  /\ sm' = [sm EXCEPT ![n] = artifact[n]]
  /\ applied' = [applied EXCEPT ![n] = compacted[n]]
  /\ conf' = [conf EXCEPT ![n] = confDisk[n]]
  /\ stale' = IF conf[n] = confDisk[n] THEN stale ELSE stale \cup {n}
  /\ role' = [role EXCEPT ![n] = "Follower"]
  /\ pending' = [pending EXCEPT ![n] = <<>>]
  /\ shifted' = shifted \ {n}
  /\ UNCHANGED <<log, term, commit, compacted, artifact, confDisk, asked, revision, first>>

-----------------------------------------------------------------------------
Init ==
  /\ log = [n \in Node |-> <<>>] /\ term = [n \in Node |-> 0]
  /\ role = [n \in Node |-> "Follower"] /\ commit = [n \in Node |-> 0]
  /\ compacted = [n \in Node |-> 0] /\ artifact = [n \in Node |-> <<>>]
  /\ first \in [voters : FirstVoters, learners : {{}}]
  /\ conf = [n \in Node |-> first]
  /\ confDisk = conf
  /\ applied = [n \in Node |-> 0] /\ sm = [n \in Node |-> <<>>]
  /\ pending = [n \in Node |-> <<>>]
  /\ asked = {} /\ revision = [o \in Op |-> 0]
  /\ shifted = {} /\ stale = {} /\ restarts = 0

Next ==
  \/ \E n \in Node, t \in 1..MaxTerm : \E Q \in SUBSET conf[n].voters : Elect(n, t, Q)
  \/ \E l, n \in Node : Replicate(l, n)
  \/ \E l, n \in Node : InstallSnapshot(l, n)
  \/ \E l \in Node : AdvanceCommit(l)
  \/ \E n \in Node : ApplyCommitted(n)
  \/ \E n \in Node, o \in Op : Propose(n, o)
  \/ \E n \in Node : \E ch \in Change[first.voters] : ChangeMembers(n, ch)
  \/ \E n \in Node : Restart(n)

Spec == Init /\ [][Next]_vars
-----------------------------------------------------------------------------
(* Properties *)

\* The types of the variables.
TypeOK ==
  /\ log \in [Node -> Seq(Entry)] /\ \A n \in Node : Len(log[n]) <= MaxLog
  /\ term \in [Node -> 0..MaxTerm] /\ role \in [Node -> {"Leader", "Follower"}]
  /\ commit \in [Node -> Index] /\ compacted \in [Node -> Index]
  /\ artifact \in [Node -> Seq(Entry)]
  /\ conf \in [Node -> Membership] /\ confDisk \in [Node -> Membership]
  /\ applied \in [Node -> Index] /\ sm \in [Node -> Seq(Entry)]
  /\ pending \in [Node -> Seq(Op)]
  /\ asked \subseteq Op /\ revision \in [Op -> Index]
  /\ first \in [voters : FirstVoters, learners : {{}}]
  /\ shifted \subseteq Node /\ stale \subseteq Node /\ restarts \in 0..MaxRestarts

\* A state machine is its node's log up to the applied index, every entry once
\* and in order, through compactions, installed snapshots and restarts; the
\* artifact is the same log up to the compacted index (fjall_storage.rs
\* compact_applied, apply_snapshot, open_with_state and Config::applied).
StateFollowsLog ==
  \A n \in Node :
    /\ compacted[n] <= applied[n] /\ applied[n] <= commit[n] /\ commit[n] <= Len(log[n])
    /\ sm[n] = SubSeq(log[n], 1, applied[n])
    /\ artifact[n] = SubSeq(log[n], 1, compacted[n])

\* As long as a leader started with an empty queue and nothing inherited to
\* apply, its waiters are the ops it has not applied yet, in their order: that
\* is when answering by order answers the right caller (Command::Propose and
\* the end of apply_committed).
QueueMatchesLog ==
  \A n \in Node : role[n] = "Leader" /\ n \notin shifted =>
    LET ops == OpIndexes(log[n], applied[n] + 1, Len(log[n]))
        Rank(i) == Cardinality({k \in ops : k <= i})
    IN /\ Len(pending[n]) = Cardinality(ops)
       /\ \A i \in ops : pending[n][Rank(i)] = log[n][i].val

\* The longest committed log any node knows.
Chosen ==
  LET n == CHOOSE n \in Node : \A m \in Node : commit[m] <= commit[n]
  IN SubSeq(log[n], 1, commit[n])

\* A node whose table is not one a restart took back from before an installed
\* snapshot follows the committed membership: the table
\* it counts quorums with is the one of some index at or after the last entry
\* it applied, also when a restart replays changes already in the table
\* (set_conf_state, apply_conf_change).
MembershipCurrent ==
  \A n \in Node \ stale : \E k \in applied[n]..Len(Chosen) :
    conf[n] = ConfAfter(first, Chosen, 1, k)

\* What the comment on Command::Propose promises: the answer a caller gets is
\* about its own op (meta/src/lib.rs:1356, "a mismatch would answer B's waiter
\* for A's op").
AnswersOwn ==
  \A o \in Op : revision[o] # 0 =>
    \A n \in Node : applied[n] >= revision[o] => sm[n][revision[o]].val = o
=============================================================================
