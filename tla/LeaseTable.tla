----------------------------- MODULE LeaseTable -----------------------------
(***************************************************************************)
(* WriteLeaseServer of async_runtime/leases.py: one table, under one lock, *)
(* of which task may write which path.  It is the specification that the   *)
(* lease files of FileWriteLeaseClient are held to.                        *)
(***************************************************************************)
CONSTANTS
  Clients,   \* task ids
  Names,     \* paths, as the tools name them
  NoHolder   \* no task

VARIABLE holder   \* WriteLeaseServer._holders

Init == holder = [n \in Names |-> NoHolder]

\* Mutant: nobody looks who has the paths.
AcquireAnyway(c, P) ==
  holder' = [n \in Names |-> IF n \in P THEN c ELSE holder[n]]

\* acquire: all of the paths or none of them; a refusal changes nothing.
Acquire(c, P) ==
  /\ \A n \in P : holder[n] \in {NoHolder, c}
  /\ holder' = [n \in Names |-> IF n \in P THEN c ELSE holder[n]]

\* release, of the paths P or, without a list, of all that c holds.
Release(c, P) ==
  holder' = [n \in Names |-> IF n \in P /\ holder[n] = c THEN NoHolder ELSE holder[n]]

Next == \E c \in Clients, P \in SUBSET Names : Acquire(c, P) \/ Release(c, P)

Spec == Init /\ [][Next]_holder
=============================================================================
