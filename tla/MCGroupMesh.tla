---------------------------- MODULE MCGroupMesh -----------------------------
(***************************************************************************)
(* Instances of GroupMesh for TLC.                                         *)
(***************************************************************************)
EXTENDS GroupMesh

CONSTANTS n1, n2, n3

\* The creator is paired with everyone, the invitees only through it.
Star == ({Creator} \X (Node \ {Creator})) \cup ((Node \ {Creator}) \X {Creator})

\* ... and n2 lists n3, which has not stored the pairing (p2p.rs:2048: a late
\* approval pairs one side only) and knows n2 from the roster.
HalfPaired == Star \cup {<<n2, n3>>}

\* Everyone is paired with everyone.
Everyone == {p \in Node \X Node : p[1] # p[2]}

\* One device of every pair can be reached by the other, the rest is closed.
OneWay == {<<n1, n2>>, <<n1, n3>>, <<n2, n3>>}
FromCreator == {<<n1, n2>>}
=============================================================================
