----------------------------- MODULE SyncLease -----------------------------
(***************************************************************************)
(* The PostgreSQL lease rows of github_job_leases, one per lease key       *)
(* (src/persistence/postgres/sync-lease-store.ts).  A row carries the      *)
(* holder, a fencing token that only grows, and an expiry time of which    *)
(* the model keeps whether it lies in the future (live).  Expiry is the    *)
(* database clock passing lease_expires_at: a step of its own, whenever.   *)
(*                                                                         *)
(* A holder is the fresh UUID that one acquisition draws.  The model names *)
(* the process that drew it: the token, which no two acquisitions of a key *)
(* share, tells its acquisitions apart.                                    *)
(***************************************************************************)
EXTENDS Naturals

CONSTANTS Keys, Holders, NoHolder

VARIABLE lease

LeaseRow == [holder : Holders \cup {NoHolder}, token : Nat, live : BOOLEAN]

LeaseTypeOK == lease \in [Keys -> LeaseRow]

\* A key without a row has token 0: the INSERT of acquire starts at token 1.
LeaseInit == lease = [k \in Keys |-> [holder |-> NoHolder, token |-> 0, live |-> FALSE]]

\* The row still names this acquisition (the WHERE of release).
Owns(k, h, n) == lease[k].holder = h /\ lease[k].token = n

\* assertLeaseHeld: the row names this acquisition and has not expired.
Held(k, h, n) == Owns(k, h, n) /\ lease[k].live

\* acquire: only a row that does not exist or has expired is taken over.
Acquire(k, h) ==
    /\ ~lease[k].live
    /\ lease' = [lease EXCEPT ![k] = [holder |-> h, token |-> @.token + 1, live |-> TRUE]]

\* renew: extends the expiry of a row still held; an expired one stays so.
Renew(k, h, n) ==
    /\ Held(k, h, n)
    /\ lease' = [lease EXCEPT ![k].live = TRUE]

\* release: the row expires now, if it still names this acquisition.
Release(k, h, n) ==
    lease' = IF Owns(k, h, n) THEN [lease EXCEPT ![k].live = FALSE] ELSE lease

\* The database clock reaches lease_expires_at.
Expire(k) ==
    /\ lease[k].live
    /\ lease' = [lease EXCEPT ![k].live = FALSE]
=============================================================================
