------------------------------- MODULE Groups -------------------------------
(***************************************************************************)
(* The group records of a local (LAN) group chat: the creator-signed       *)
(* roster (GroupState), the per-device record kept in groups.json          *)
(* (GroupRec), the verdict on a received roster (evaluate_incoming) and    *)
(* the repair of the counters from the message log at start-up (scan_log). *)
(*                                                                         *)
(* One group is modelled.  Names, addresses, timestamps and texts are left *)
(* out; a signature is the fact that only the creator builds new states.   *)
(* A device without a record of the group holds NoRec.                     *)
(***************************************************************************)
EXTENDS Integers

CONSTANTS
    Node,       \* the devices
    Creator,    \* the device that created and signs the group
    MaxMsg      \* bound: messages one device writes to the group

ASSUME CreatorAssumption == Creator \in Node
ASSUME MaxMsgAssumption == MaxMsg \in Nat

\* Sequence numbers of one author's messages.
Seqs == 1..MaxMsg

\* The signed roster; epoch 0 stands for "no roster yet".
GroupState == [epoch : Nat, closed : BOOLEAN, members : SUBSET Node]

NoState == [epoch |-> 0, closed |-> FALSE, members |-> {}]

\* GroupState::validate, as far as the roster goes.
Valid(s) ==
    /\ s.epoch > 0
    /\ Creator \in s.members
    /\ s.closed => s.members = {Creator}

\* The local record; known = FALSE stands for "no entry in the map".
GroupRec ==
    [known : BOOLEAN, state : GroupState, removed : BOOLEAN, next_seq : Nat,
     sent_cursor : [Node -> Nat], have : [Node -> Nat], state_cursor : [Node -> Nat],
     pending_leave : BOOLEAN, hidden : BOOLEAN]

\* GroupRec::new: counters start afresh whatever happened to an earlier record.
NewRec(s) ==
    [known |-> TRUE, state |-> s, removed |-> FALSE, next_seq |-> 1,
     sent_cursor |-> [m \in Node |-> 0], have |-> [m \in Node |-> 0],
     state_cursor |-> [m \in Node |-> 0], pending_leave |-> FALSE, hidden |-> FALSE]

NoRec == [NewRec(NoState) EXCEPT !.known = FALSE]

Active(r) == r.known /\ ~r.removed

\* evaluate_incoming: what the roster s means for device me holding record r.
Evaluate(r, s, me) ==
    IF ~Valid(s) THEN "reject"
    ELSE IF ~r.known
         THEN IF s.closed \/ me \notin s.members THEN "reject" ELSE "create"
         ELSE IF s.epoch <= r.state.epoch THEN "stale" ELSE "update"

\* Mutant of Updated: an undelivered leave is forgotten.
UpdatedBug(r, s, me) ==
    [r EXCEPT !.state = s, !.removed = s.closed \/ me \notin s.members]

\* The record after the update branch of apply_state_locked.
Updated(r, s, me) ==
    LET removed_me == s.closed \/ me \notin s.members
    IN  [r EXCEPT !.state = s,
                  !.removed = r.pending_leave \/ removed_me,
                  !.pending_leave = r.pending_leave /\ ~removed_me]

-----------------------------------------------------------------------------
(* The message log: a log maps an author's sequence numbers to message     *)
(* identities, 0 where no line has that number.                            *)

EmptyLog == [s \in Seqs |-> 0]

\* Highest sequence number in a log (LogScan::own_max, LogScan::in_max).
LogMax(lg) ==
    CHOOSE k \in 0..MaxMsg :
        /\ k > 0 => lg[k] # 0
        /\ \A s \in Seqs : s > k => lg[s] = 0

MaxOf(i, j) == IF i > j THEN i ELSE j
MinOf(i, j) == IF i < j THEN i ELSE j

\* Mutant of Repair: groups.json is believed.
RepairBug(r, lg, me) == r

\* Start-up: the log is the truth for the counters, so a crash between "line
\* written" and "groups.json saved" neither reuses a number nor loses have.
Repair(r, lg, me) ==
    IF ~r.known THEN r
    ELSE [r EXCEPT
            !.next_seq = MaxOf(r.next_seq, LogMax(lg[me]) + 1),
            !.have = [a \in Node |-> IF a = me THEN r.have[a]
                                     ELSE MaxOf(r.have[a], LogMax(lg[a]))]]
=============================================================================
