------------------------------ MODULE LeaseGate ------------------------------
(***************************************************************************)
(* Background jobs contending for one lease: the LeaseGate of              *)
(* compaction/src/lib.rs, as the compaction rounds and the orphan-cleanup  *)
(* loop drive it, over the lease table of module Leases.                   *)
(*                                                                         *)
(* A job reads its own clock, asks the metadata plane for the lease or for *)
(* a renewal, works for as long as the round takes, and then keeps the     *)
(* gate for the next round, gives the lease back, or crashes.  The call    *)
(* may fail from the caller's point of view and still be applied later:    *)
(* such requests wait in `late`.                                           *)
(***************************************************************************)
EXTENDS Leases, FiniteSets

CONSTANTS
    Job,          \* the purpose the jobs contend for
    LeaseTTL,     \* the term of the lease
    MaxSkew,      \* how far ahead of the true time a holder's clock may read
    MaxLate,      \* bound: requests whose caller gave up that are still under way
    MaxClock,     \* bound on time
    MaxLeaseEpoch \* bound on the epochs granted

ASSUME JobAssumption == Job \in Purposes
ASSUME TermAssumption == LeaseTTL \in Nat \ {0} /\ MaxSkew \in Nat
ASSUME BoundAssumption ==
    MaxLate \in Nat /\ MaxClock \in Nat /\ MaxLeaseEpoch \in Nat

VARIABLES
    clock,        \* true time
    gate,         \* gate[h]: the epoch and expiry h believes it holds; epoch 0 = none
    call,         \* call[h]: the request h is waiting on, and its answer once applied
    working,      \* working[h]: h is inside a round
    late,         \* requests given up by their callers and still to be applied
    granted,      \* history: every (holder, epoch) ever granted
    steady        \* history: clocks agreed and no request outlived its caller

gateVars == <<leases, clock, gate, call, working, late, granted, steady>>

NoGate == [epoch |-> 0, expires |-> 0]

Ops == {"acquire", "renew", "release"}
Request == [op : Ops, holder : Holders, epoch : Nat, now : Nat]
Reply == [ok : BOOLEAN, epoch : Nat, expires : Nat]

Idle == [stage |-> "idle"]
Waiting(r) == [stage |-> "sent", req |-> r]
Answered(r, a) == [stage |-> "answered", req |-> r, reply |-> a]

Call ==
    [stage : {"idle"}]
        \cup [stage : {"sent"}, req : Request]
        \cup [stage : {"answered"}, req : Request, reply : Reply]

GateTypeOK ==
    /\ LeasesType
    /\ clock \in Nat
    /\ gate \in [Holders -> [epoch : Nat, expires : Nat]]
    /\ call \in [Holders -> Call]
    /\ working \in [Holders -> BOOLEAN]
    /\ late \subseteq Request
    /\ granted \subseteq [holder : Holders, epoch : Nat]
    /\ steady \in BOOLEAN

GateInit ==
    /\ LeasesInit
    /\ clock = 0
    /\ gate = [h \in Holders |-> NoGate]
    /\ call = [h \in Holders |-> Idle]
    /\ working = [h \in Holders |-> FALSE]
    /\ late = {}
    /\ granted = {}
    /\ steady = TRUE

Tick ==
    /\ clock < MaxClock
    /\ clock' = clock + 1
    /\ UNCHANGED <<leases, gate, call, working, late, granted, steady>>

-----------------------------------------------------------------------------
(* The start of a round: acquire_or_renew. *)

Send(h, op, now) ==
    call' = [call EXCEPT ![h] = Waiting(
        [op |-> op, holder |-> h, epoch |-> gate[h].epoch, now |-> now])]

AskForLease(h, now) ==
    /\ gate[h].epoch = 0
    /\ Send(h, "acquire", now)
    /\ UNCHANGED <<leases, clock, gate, working, late, granted>>

\* More than a third of the term left: work on without a renewal.
KeepLease(h, now) ==
    /\ gate[h].epoch # 0
    /\ now + LeaseTTL \div 3 < gate[h].expires
    /\ working' = [working EXCEPT ![h] = TRUE]
    /\ UNCHANGED <<leases, clock, gate, call, late, granted>>

AskForRenewal(h, now) ==
    /\ gate[h].epoch # 0
    /\ now + LeaseTTL \div 3 >= gate[h].expires
    /\ Send(h, "renew", now)
    /\ UNCHANGED <<leases, clock, gate, working, late, granted>>

StartRound(h) ==
    /\ call[h] = Idle
    /\ ~working[h]
    /\ \E skew \in 0..MaxSkew :
           /\ \/ AskForLease(h, clock + skew)
              \/ KeepLease(h, clock + skew)
              \/ AskForRenewal(h, clock + skew)
           /\ steady' = (steady /\ skew = 0)

-----------------------------------------------------------------------------
(* The metadata plane applies a request. *)

ReplyTo(r) ==
    CASE r.op = "acquire" ->
             IF HeldByOther(Job, r.holder, r.now)
             THEN [ok |-> FALSE, epoch |-> leases[Job].epoch, expires |-> leases[Job].expires]
             ELSE [ok |-> TRUE, epoch |-> GrantEpoch(Job, r.holder), expires |-> r.now + LeaseTTL]
      [] r.op = "renew" ->
             [ok |-> Renewable(Job, r.holder, r.epoch, r.now),
              epoch |-> r.epoch, expires |-> r.now + LeaseTTL]
      [] r.op = "release" ->
             [ok |-> Releasable(Job, r.holder, r.epoch), epoch |-> 0, expires |-> 0]

Apply(r) ==
    \/ /\ r.op = "acquire"
       /\ GrantEpoch(Job, r.holder) <= MaxLeaseEpoch
       /\ AcquireLease(Job, r.holder, r.now, LeaseTTL)
       /\ granted' = granted \cup
              {[holder |-> r.holder, epoch |-> GrantEpoch(Job, r.holder)]}
    \/ /\ r.op = "renew"
       /\ RenewLease(Job, r.holder, r.epoch, r.now, LeaseTTL)
       /\ UNCHANGED granted
    \/ /\ r.op = "release"
       /\ ReleaseLease(Job, r.holder, r.epoch)
       /\ UNCHANGED granted
    \/ /\ ~ReplyTo(r).ok
       /\ UNCHANGED <<leases, granted>>

Deliver(h) ==
    /\ call[h].stage = "sent"
    /\ Apply(call[h].req)
    /\ call' = [call EXCEPT ![h] = Answered(call[h].req, ReplyTo(call[h].req))]
    /\ UNCHANGED <<clock, gate, working, late, steady>>

DeliverLate(r) ==
    /\ r \in late
    /\ Apply(r)
    /\ late' = late \ {r}
    /\ steady' = FALSE
    /\ UNCHANGED <<clock, gate, call, working>>

-----------------------------------------------------------------------------
(* The answer, or the lack of one, reaches the job. *)

GateAfter(r, a) ==
    IF a.ok /\ r.op # "release"
    THEN [epoch |-> a.epoch, expires |-> a.expires]
    ELSE NoGate

TakeReply(h) ==
    /\ call[h].stage = "answered"
    /\ gate' = [gate EXCEPT ![h] = GateAfter(call[h].req, call[h].reply)]
    /\ working' = [working EXCEPT ![h] = call[h].reply.ok /\ call[h].req.op # "release"]
    /\ call' = [call EXCEPT ![h] = Idle]
    /\ UNCHANGED <<leases, clock, late, granted, steady>>

\* What becomes of a request whose caller is gone: lost, or applied later.
Abandon(h) ==
    /\ call' = [call EXCEPT ![h] = Idle]
    /\ \/ late' = late
       \/ /\ call[h].stage = "sent"
          /\ Cardinality(late) < MaxLate
          /\ late' = late \cup {call[h].req}

CallFails(h) ==
    /\ call[h].stage # "idle"
    /\ Abandon(h)
    /\ gate' = [gate EXCEPT ![h] = NoGate]
    /\ UNCHANGED <<leases, clock, working, granted, steady>>

-----------------------------------------------------------------------------
(* The end of a round. *)

\* The cleanup loop keeps its gate for the next tick of its interval.
FinishRound(h) ==
    /\ working[h]
    /\ working' = [working EXCEPT ![h] = FALSE]
    /\ UNCHANGED <<leases, clock, gate, call, late, granted, steady>>

\* A compaction round gives the task back at once, the cleanup loop when it
\* is shut down.  The gate is dropped with the request.
GiveBack(h) ==
    /\ gate[h].epoch # 0
    /\ call[h] = Idle
    /\ working' = [working EXCEPT ![h] = FALSE]
    /\ call' = [call EXCEPT ![h] = Waiting(
           [op |-> "release", holder |-> h, epoch |-> gate[h].epoch, now |-> 0])]
    /\ gate' = [gate EXCEPT ![h] = NoGate]
    /\ UNCHANGED <<leases, clock, late, granted, steady>>

\* A crash loses the gate; the process comes back under the same name.
Crash(h) ==
    /\ gate' = [gate EXCEPT ![h] = NoGate]
    /\ working' = [working EXCEPT ![h] = FALSE]
    /\ Abandon(h)
    /\ UNCHANGED <<leases, clock, granted, steady>>

GateNext ==
    \/ Tick
    \/ \E h \in Holders :
           \/ StartRound(h)
           \/ Deliver(h)
           \/ TakeReply(h)
           \/ CallFails(h)
           \/ FinishRound(h)
           \/ GiveBack(h)
           \/ Crash(h)
    \/ \E r \in late : DeliverLate(r)

GateSpec == GateInit /\ [][GateNext]_gateVars

-----------------------------------------------------------------------------
(* Properties. *)

\* An epoch names one holder for good: whatever is lost, delayed or applied
\* after its caller gave up, no two jobs are ever granted the same epoch.
\* release_lease keeps the watermark of a freed entry for exactly this.
GrantsUnique ==
    \A g1, g2 \in granted : g1.epoch = g2.epoch => g1.holder = g2.holder

Entitled(h) == gate[h].epoch # 0 /\ clock < gate[h].expires

\* As long as clocks have agreed and no request was applied after its caller
\* gave up, two jobs never both hold an unexpired lease by their own account.
LeaseExclusive ==
    steady => \A h1, h2 \in Holders : Entitled(h1) /\ Entitled(h2) => h1 = h2
=============================================================================
