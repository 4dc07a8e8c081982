----------------------------- MODULE MCFileLease -----------------------------
(***************************************************************************)
(* FileLease on small instances.                                           *)
(***************************************************************************)
EXTENDS FileLease, TLC

CONSTANTS c1, c2, c3, n1, n2

MCClients == {c1, c2, c3}
MCNames == {n1, n2}

\* One name per file.
MCFiles == MCNames
MCFileOf == [n \in MCNames |-> n]
=============================================================================
