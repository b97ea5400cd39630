---------------------------- MODULE MCMergeLedger ----------------------------
(***************************************************************************)
(* Instances of MergeLedger for TLC.                                       *)
(***************************************************************************)
EXTENDS MergeLedger, TLC

CONSTANTS u1, u2, u3, r1, r2

\* One mailbox with both orders; an order of another person, or without one.
Mailboxes == {<<u1, u1>>, <<u1, Nobody>>}

\* Nothing is owned, or something is, by a suspended account too.
Owners == {<<Nobody, Nobody>>, <<u2, Nobody>>, <<u3, u1>>}

RequestSymmetry == Permutations(Requests)
=============================================================================
