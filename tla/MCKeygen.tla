------------------------------ MODULE MCKeygen ------------------------------
(* The instance of Keygen for TLC. *)
EXTENDS Keygen

\* liboqs comes and goes only around the moment when a run looks for it.
Looked == \E r \in Runs : pc[r] = "chmod" /\ at[r] \in {XPub, MPriv}

OverlapSpec ==
    /\ Init
    /\ [][Next /\ (oqs' # oqs => Looked)]_vars
=============================================================================
