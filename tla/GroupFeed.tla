----------------------------- MODULE GroupFeed ------------------------------
(***************************************************************************)
(* What a group chat promises about its messages, whatever the network and *)
(* the processes do: every author has a feed of numbered messages, another *)
(* device takes it over message by message, and the author's knowledge of  *)
(* what a device holds is at most what it holds.                           *)
(***************************************************************************)
EXTENDS Integers

CONSTANTS
    Node,    \* the devices
    MaxMsg   \* bound: messages of one author

VARIABLES
    said,    \* said[x]: messages x wrote
    stored,  \* stored[y][x]: messages of x that y holds
    acked    \* acked[x][y]: messages of its own that x knows y to hold

Init ==
    /\ said = [x \in Node |-> 0]
    /\ stored = [y \in Node |-> [x \in Node |-> 0]]
    /\ acked = [x \in Node |-> [y \in Node |-> 0]]

Say(x) ==
    /\ said[x] < MaxMsg
    /\ said' = [said EXCEPT ![x] = @ + 1]
    /\ UNCHANGED <<stored, acked>>

Store(y, x) ==
    /\ x # y
    /\ stored[y][x] < said[x]
    /\ stored' = [stored EXCEPT ![y][x] = @ + 1]
    /\ UNCHANGED <<said, acked>>

Learn(x, y) ==
    /\ x # y
    /\ \E k \in (acked[x][y] + 1)..stored[y][x] : acked' = [acked EXCEPT ![x][y] = k]
    /\ UNCHANGED <<said, stored>>

\* A restart can set an author back to acknowledgements it had saved.
Forget(x) ==
    /\ \E f \in [Node -> 0..MaxMsg] :
          /\ \A y \in Node : f[y] <= acked[x][y]
          /\ acked' = [acked EXCEPT ![x] = f]
    /\ UNCHANGED <<said, stored>>

Next ==
    \/ \E x \in Node : Say(x) \/ Forget(x)
    \/ \E x, y \in Node : Store(y, x) \/ Learn(x, y)

Spec == Init /\ [][Next]_<<said, stored, acked>>
=============================================================================
