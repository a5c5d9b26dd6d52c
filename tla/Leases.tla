------------------------------- MODULE Leases -------------------------------
(***************************************************************************)
(* The lease table of the catalog state machine (catalog/src/state.rs).    *)
(*                                                                         *)
(* A lease is keyed by its purpose.  The table keeps, per purpose, the     *)
(* holder, the epoch and the expiry; an entry whose holder is NoHolder is  *)
(* free, and the epoch it keeps is the watermark the fence compares with.  *)
(* A purpose never granted behaves exactly as a free entry of epoch 0.     *)
(*                                                                         *)
(* The state machine reads no clock: every operation carries `now`.        *)
(***************************************************************************)
EXTENDS Naturals

CONSTANTS
    Purposes,     \* the keys of the lease table
    Holders,      \* who may ask for a lease
    NoHolder      \* the empty holder string of a released entry

ASSUME NoHolderIsNobody == NoHolder \notin Holders

VARIABLE leases

LeaseEntry ==
    [holder : Holders \cup {NoHolder}, epoch : Nat, expires : Nat]

LeasesType == leases \in [Purposes -> LeaseEntry]

LeasesInit ==
    leases = [p \in Purposes |-> [holder |-> NoHolder, epoch |-> 0, expires |-> 0]]

-----------------------------------------------------------------------------
(* Outcomes of the three operations, read off the table as it stands. *)

HeldUntilLastTick(p, h, now) ==          \* slip: the term ends one tick early
    leases[p].holder # h /\ now + 1 < leases[p].expires

HeldByOther(p, h, now) ==
    leases[p].holder # h /\ now < leases[p].expires

\* Slip: the epoch is new only when the lease is taken over.
TakeoverEpoch(p, h) ==
    IF leases[p].holder \in {h, NoHolder} /\ leases[p].epoch > 0
    THEN leases[p].epoch ELSE leases[p].epoch + 1

\* The epoch an acquisition returns: unchanged for the present holder, even
\* an expired one; one more for anybody else.
GrantEpoch(p, h) ==
    IF leases[p].holder = h THEN leases[p].epoch ELSE leases[p].epoch + 1

Renewable(p, h, e, now) ==
    /\ leases[p].holder = h
    /\ leases[p].epoch = e
    /\ now < leases[p].expires

Releasable(p, h, e) ==
    leases[p].holder = h /\ leases[p].epoch = e

-----------------------------------------------------------------------------
(* The operations.  A refused one changes nothing and is not an action. *)

AcquireLease(p, h, now, ttl) ==
    /\ ~HeldByOther(p, h, now)
    /\ leases' = [leases EXCEPT ![p] =
           [holder |-> h, epoch |-> GrantEpoch(p, h), expires |-> now + ttl]]

RenewLease(p, h, e, now, ttl) ==
    /\ Renewable(p, h, e, now)
    /\ leases' = [leases EXCEPT ![p].expires = now + ttl]

RemoveLease(p, h, e) ==                  \* slip: the entry goes, its epoch with it
    /\ Releasable(p, h, e)
    /\ leases' = [leases EXCEPT ![p] = [holder |-> NoHolder, epoch |-> 0, expires |-> 0]]

ReleaseLease(p, h, e) ==
    /\ Releasable(p, h, e)
    /\ leases' = [leases EXCEPT ![p].holder = NoHolder, ![p].expires = 0]

=============================================================================
