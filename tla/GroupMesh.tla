----------------------------- MODULE GroupMesh ------------------------------
(***************************************************************************)
(* The wire protocol of a local group chat: devices of one LAN keep a full *)
(* mesh of sessions, the creator signs rosters, every author keeps its own *)
(* numbered log and replays it to each member that is in step.             *)
(*                                                                         *)
(* A device is its record (memory and groups.json), its message log, the   *)
(* run-time delivery state that a restart forgets (GroupRt) and its        *)
(* session tasks.  A session is one QUIC stream: a FIFO lane of frames in  *)
(* each direction.  A pair of devices can have several sessions at a time  *)
(* (both dialled at once, or one side has not yet noticed that the other   *)
(* one restarted).                                                         *)
(***************************************************************************)
EXTENDS Groups, Sequences, FiniteSets

CONSTANTS
    Paired,       \* <<n, m>>: n lists m as a paired contact
    Reach,        \* <<p, q>>: the network lets a connection that p dials through to q
    Speakers,     \* devices that write messages
    Slots,        \* bound: sessions dialled by one device to another at a time
    Window,       \* GROUP_WINDOW: unacknowledged messages in flight per member
    MaxEpoch,     \* bound: rosters signed by the creator
    MaxBreaks,    \* bound: sessions that end spontaneously at one side
    MaxRestarts,  \* bound: process restarts
    MaxDrops,     \* bound: frames dropped by the rate limit of session_task
    MaxFaults,    \* bound: failed writes of groups.json
    SaveFaults,   \* which writes of groups.json may fail: "roster", "counters"
    Ops           \* what users do besides writing: see UserOp

UserOp == {"add", "remove", "rename", "disband", "leave", "delete"}

ASSUME MeshAssumption ==
    /\ Paired \subseteq Node \X Node
    /\ \A n \in Node \ {Creator} : {<<Creator, n>>, <<n, Creator>>} \subseteq Paired
    /\ Reach \subseteq Node \X Node
    /\ Speakers \subseteq Node
    /\ Window \in Nat \ {0}
    /\ {Slots, MaxEpoch, MaxBreaks, MaxRestarts, MaxDrops, MaxFaults} \subseteq Nat
    /\ SaveFaults \subseteq {"roster", "counters"}
    /\ Ops \subseteq UserOp

VARIABLES
    rec,       \* rec[n]: the record in memory (Inner::groups)
    disk,      \* disk[n]: the record in groups.json
    log,       \* log[n][a]: lines by author a in messages-g-<gid>.jsonl
    links,     \* links[n][m]: what m's last GroupSync said (GroupRt::links)
    gone,      \* gone[n]: members that said GroupGone (GroupRt::gone)
    gap_sent,  \* gap_sent[n][m]: have of the last gap sync, -1 none (GroupRt)
    handle,    \* handle[n][l]: position of session l in Peer::live, 0 none
    task,      \* task[l]: the ends whose session_task is running
    phase,     \* phase[l]: idle, dialing, ring (dialled, not accepted), up
    chan,      \* chan[l][n]: frames on their way to n
    born,      \* history: born[a][k] = a's epoch when it wrote message k
    signed,    \* history: every roster the creator signed
    used       \* how much of each bound is spent

vars == <<rec, disk, log, links, gone, gap_sent, handle, task, phase, chan,
          born, signed, used>>
runtime == <<links, gone, gap_sent>>
sessions == <<handle, task, phase>>

-----------------------------------------------------------------------------
(* Sessions and frames *)

\* A session is named by the device that dialled it, the other one and a slot.
Link == {l \in Node \X Node \X (1..Slots) : l[1] # l[2]}

Far(n, l) == IF l[1] = n THEN l[2] ELSE l[1]

LinksOf(n, m) == {l \in Link : (l[1] = n /\ l[2] = m) \/ (l[1] = m /\ l[2] = n)}

StateF(s) == [type |-> "state", state |-> s]
\* Mutant of SyncF: counts from the next message instead of the last one.
SyncFBug(r, to) == [type |-> "sync", epoch |-> r.state.epoch, have |-> r.have[to] - 1]
SyncF(r, to) == [type |-> "sync", epoch |-> r.state.epoch, have |-> r.have[to]]
MsgF(s, id) == [type |-> "msg", seq |-> s, id |-> id]
AckF(h) == [type |-> "ack", have |-> h]
LeaveF == [type |-> "leave"]
GoneF == [type |-> "gone"]

Frame ==
    [type : {"state"}, state : GroupState]
    \cup [type : {"sync"}, epoch : Nat, have : Nat]
    \cup [type : {"msg"}, seq : Seqs, id : 1..MaxMsg]
    \cup [type : {"ack"}, have : Nat]
    \cup [type : {"leave", "gone"}]

NoLink == [epoch |-> 0, pushed |-> 0]

\* Peers n keeps: paired devices, and members of a roster it is active in
\* (rebuild_introduced, gc_introduced).
Known(n, r) ==
    ({m \in Node : <<n, m>> \in Paired} \cup (IF Active(r) THEN r.state.members ELSE {})) \ {n}

\* sync_introduced after a roster change: a dropped Peer loses its handles.
\* Its session tasks own a sender of their own and go on.
GcIntroduced(n, r) ==
    [handle EXCEPT ![n] = [l \in Link |-> IF Far(n, l) \in Known(n, r)
                                          THEN handle[n][l] ELSE 0]]

Online(n, h, m) == \E l \in LinksOf(n, m) : h[n][l] # 0

\* v2_tx: the first live handle of the peer carries what is not a reply.
IsV2Tx(n, h, m, l) ==
    /\ l \in LinksOf(n, m)
    /\ h[n][l] # 0
    /\ \A k \in LinksOf(n, m) : h[n][k] # 0 => h[n][l] <= h[n][k]

\* Frames written to a session whose far end is gone are lost.
Reads(l, m) == m \in task[l] \/ (phase[l] = "ring" /\ m = l[2])

\* Channels c after n wrote out[m] for every peer m on its v2_tx.
Sends(n, h, c, out) ==
    [l \in Link |-> [m \in Node |->
        IF IsV2Tx(n, h, m, l) /\ Reads(l, m) THEN c[l][m] \o out[m] ELSE c[l][m]]]

\* The frames fs for m and nothing for the others.
Only(m, fs) == [x \in Node |-> IF x = m THEN fs ELSE << >>]

\* Channels c after n answered with the frames fs on session l.
Reply(n, l, c, fs) ==
    IF Reads(l, Far(n, l)) THEN [c EXCEPT ![l][Far(n, l)] = @ \o fs] ELSE c

-----------------------------------------------------------------------------
(* groups.json.  A failed write of the counters is reported and ignored, a  *)
(* failed write of a roster ends the operation with the memory changed.     *)

SaveCounters(n, r) ==
    \/ disk' = [disk EXCEPT ![n] = r] /\ UNCHANGED used
    \/ /\ "counters" \in SaveFaults
       /\ used.faults < MaxFaults
       /\ used' = [used EXCEPT !.faults = @ + 1]
       /\ UNCHANGED disk

SaveRoster(n, r, ok) ==
    \/ ok /\ disk' = [disk EXCEPT ![n] = r] /\ UNCHANGED used
    \/ /\ ~ok
       /\ "roster" \in SaveFaults
       /\ used.faults < MaxFaults
       /\ used' = [used EXCEPT !.faults = @ + 1]
       /\ UNCHANGED disk

-----------------------------------------------------------------------------
(* pump: what member m lacks of n's own messages goes on its session, while *)
(* m is in the roster, reported our epoch and did not say it is gone.       *)

\* Mutant of InStep: the roster and the epochs are not looked at.
InStepBug(r, lk, gn, m) == Active(r) /\ m \notin gn
InStep(r, lk, gn, m) ==
    /\ Active(r)
    /\ m \in r.state.members
    /\ m \notin gn
    /\ lk.epoch = r.state.epoch

PumpFirst(r, lk, m) == MaxOf(lk.pushed, r.sent_cursor[m]) + 1
\* Mutant of PumpLast: the window does not move with the acknowledgements.
PumpLastBug(r, m) == MinOf(r.next_seq - 1, Window)
PumpLast(r, m) == MinOf(r.next_seq - 1, r.sent_cursor[m] + Window)

PumpFrames(r, lk, gn, m, own) ==
    LET first == PumpFirst(r, lk, m)
        upto == PumpLast(r, m)
    IN  IF InStep(r, lk, gn, m) /\ first <= upto
        THEN [i \in 1..(upto - first + 1) |-> MsgF(first + i - 1, own[first + i - 1])]
        ELSE << >>

\* The link record after pump; nothing is pushed without a live session.
PumpLink(n, h, r, lk, gn, m) ==
    IF InStep(r, lk, gn, m) /\ Online(n, h, m) /\ PumpFirst(r, lk, m) <= PumpLast(r, m)
    THEN [lk EXCEPT !.pushed = PumpLast(r, m)]
    ELSE lk

-----------------------------------------------------------------------------
(* Rosters *)

\* announce_state, to the roster and to the members it just lost.
Announce(r, before) ==
    [m \in Node |->
        IF m = Creator \/ m \notin r.state.members \cup before THEN << >>
        ELSE IF Active(r) /\ m \in r.state.members
             THEN <<StateF(r.state), SyncF(r, m)>>
             ELSE <<StateF(r.state)>>]

\* group_create
GroupCreate(invited) ==
    LET s == [epoch |-> 1, closed |-> FALSE, members |-> {Creator} \cup invited]
        r == NewRec(s)
    IN  /\ signed = {} /\ ~rec[Creator].known
        /\ invited # {} /\ Creator \notin invited
        /\ signed' = {s}
        /\ rec' = [rec EXCEPT ![Creator] = r]
        /\ \E ok \in BOOLEAN :
              /\ SaveRoster(Creator, r, ok)
              /\ chan' = IF ok THEN Sends(Creator, handle, chan, Announce(r, {})) ELSE chan
        /\ UNCHANGED <<log, born, runtime, sessions>>

\* The roster an edit signs.
NextState(s, closed, members) ==
    [epoch |-> s.epoch + 1, closed |-> closed, members |-> members]

\* edit_group_locked with the edited closed flag and members; c is the
\* channels once the frame that asked for it (if any) is consumed.
EditGroup(closed, members, c) ==
    LET old == rec[Creator]
        s == NextState(old.state, closed, members)
        r == [old EXCEPT !.state = s, !.removed = closed]
    IN  /\ Active(old)
        /\ signed' = signed \cup {s}
        /\ rec' = [rec EXCEPT ![Creator] = r]
        /\ \E ok \in BOOLEAN :
              /\ SaveRoster(Creator, r, ok)
              /\ IF ok
                 THEN /\ gone' = [gone EXCEPT ![Creator] = {}]
                      /\ links' = IF closed
                                  THEN [links EXCEPT ![Creator] = [m \in Node |-> NoLink]]
                                  ELSE links
                      /\ chan' = Sends(Creator, handle, c, Announce(r, old.state.members))
                 ELSE chan' = c /\ UNCHANGED <<gone, links>>
        /\ UNCHANGED <<log, born, gap_sent, sessions>>

\* The bound is on the user's edits; a leave is always processed.
MayEdit(op) == op \in Ops /\ rec[Creator].state.epoch < MaxEpoch

GroupAdd(m) ==
    /\ MayEdit("add")
    /\ m \notin rec[Creator].state.members
    /\ EditGroup(FALSE, rec[Creator].state.members \cup {m}, chan)

GroupRemove(m) ==
    /\ MayEdit("remove")
    /\ m \in rec[Creator].state.members \ {Creator}
    /\ EditGroup(FALSE, rec[Creator].state.members \ {m}, chan)

\* A new name changes nothing the model keeps but the epoch.
GroupRename == MayEdit("rename") /\ EditGroup(FALSE, rec[Creator].state.members, chan)

GroupDisband == MayEdit("disband") /\ EditGroup(TRUE, {Creator}, chan)

\* group_leave, also of a group that is over.  Leaving again while the leave
\* is pending only writes the frame once more, and is left out.
GroupLeave(n) ==
    LET r == [rec[n] EXCEPT !.removed = TRUE, !.pending_leave = TRUE]
        h == GcIntroduced(n, r)
    IN  /\ "leave" \in Ops
        /\ n # Creator
        /\ rec[n].known /\ ~rec[n].pending_leave
        /\ rec' = [rec EXCEPT ![n] = r]
        /\ handle' = h
        /\ \E ok \in BOOLEAN :
              /\ SaveRoster(n, r, ok)
              /\ IF ok
                 THEN /\ links' = [links EXCEPT ![n] = [m \in Node |-> NoLink]]
                      /\ chan' = Sends(n, h, chan, Only(Creator, <<LeaveF>>))
                 ELSE UNCHANGED <<links, chan>>
        /\ UNCHANGED <<log, born, signed, gone, gap_sent, task, phase>>

\* purge_group: record, log and run-time state go.
PurgeGroup(n) ==
    /\ rec' = [rec EXCEPT ![n] = NoRec]
    /\ disk' = [disk EXCEPT ![n] = NoRec]
    /\ log' = [log EXCEPT ![n] = [a \in Node |-> EmptyLog]]
    /\ handle' = GcIntroduced(n, NoRec)
    /\ links' = [links EXCEPT ![n] = [m \in Node |-> NoLink]]
    /\ gone' = [gone EXCEPT ![n] = {}]
    /\ gap_sent' = [gap_sent EXCEPT ![n] = [m \in Node |-> -1]]

\* group_delete: only an ended group; an undelivered leave keeps a stub.
GroupDelete(n) ==
    /\ "delete" \in Ops
    /\ rec[n].known /\ rec[n].removed /\ ~rec[n].hidden
    /\ IF rec[n].pending_leave
       THEN LET r == [rec[n] EXCEPT !.hidden = TRUE]
            IN  /\ rec' = [rec EXCEPT ![n] = r]
                /\ disk' = [disk EXCEPT ![n] = r]
                /\ log' = [log EXCEPT ![n] = [a \in Node |-> EmptyLog]]
                /\ UNCHANGED <<runtime, handle>>
       ELSE PurgeGroup(n)
    /\ UNCHANGED <<task, phase, chan, born, signed, used>>

-----------------------------------------------------------------------------
(* Messages *)

\* group_send: the line goes to the log, then to every member in step.
GroupSend(n) ==
    LET id == Len(born[n]) + 1
        seq == rec[n].next_seq
        r == [rec[n] EXCEPT !.next_seq = seq + 1]
        own == [log[n][n] EXCEPT ![seq] = id]
    IN  /\ n \in Speakers
        /\ Active(rec[n])
        /\ id <= MaxMsg
        /\ seq <= MaxMsg
        /\ log' = [log EXCEPT ![n][n] = own]
        /\ born' = [born EXCEPT ![n] = Append(@, r.state.epoch)]
        /\ rec' = [rec EXCEPT ![n] = r]
        /\ SaveCounters(n, r)
        /\ chan' = Sends(n, handle, chan,
                         [m \in Node |-> IF m = n THEN << >>
                                         ELSE PumpFrames(r, links[n][m], gone[n], m, own)])
        /\ links' = [links EXCEPT ![n] = [m \in Node |->
                        IF m = n THEN links[n][m]
                        ELSE PumpLink(n, handle, r, links[n][m], gone[n], m)]]
        /\ UNCHANGED <<signed, gone, gap_sent, sessions>>

-----------------------------------------------------------------------------
(* Frames received.  A frame counts only if the session's handle is still  *)
(* registered (handle_group_frame looks its protocol up there).            *)

Arrived(n, l, t) ==
    /\ n \in task[l]
    /\ handle[n][l] # 0
    /\ chan[l][n] # << >>
    /\ Head(chan[l][n]).type = t

Taken(n, l) == [chan EXCEPT ![l][n] = Tail(@)]

\* after_state_applied: restate our position to every connected member, then
\* pump each.
RosterInForce(n, h, r, c) ==
    LET lks == [m \in Node |-> IF m \in r.state.members \ {n} THEN links[n][m] ELSE NoLink]
    IN  /\ gone' = [gone EXCEPT ![n] = {}]
        /\ IF r.removed
           THEN /\ links' = [links EXCEPT ![n] = [m \in Node |-> NoLink]]
                /\ chan' = c
           ELSE /\ links' = [links EXCEPT ![n] =
                               [m \in Node |-> PumpLink(n, h, r, lks[m], {}, m)]]
                /\ chan' = Sends(n, h, c, [m \in Node |->
                               IF m \in r.state.members \ {n}
                               THEN <<SyncF(r, m)>> \o PumpFrames(r, lks[m], {}, m, log[n][n])
                               ELSE << >>])

\* Mutant of StubDone: the stub is never purged.
StubDoneBug(r) == FALSE
\* A deleted chat was kept only to tell the creator about a leave.
StubDone(r) == r.hidden /\ ~r.pending_leave

\* apply_state_locked, when the roster is taken over: r is the new record.
TakeOver(n, r, c) ==
    \/ \* a failed save ends it before anything is sent
       /\ SaveRoster(n, r, FALSE)
       /\ rec' = [rec EXCEPT ![n] = r]
       /\ handle' = GcIntroduced(n, r)
       /\ chan' = c
       /\ UNCHANGED <<runtime, log>>
    \/ /\ StubDone(r)
       /\ PurgeGroup(n)
       /\ chan' = c
       /\ UNCHANGED used
    \/ /\ ~StubDone(r)
       /\ SaveRoster(n, r, TRUE)
       /\ rec' = [rec EXCEPT ![n] = r]
       /\ handle' = GcIntroduced(n, r)
       /\ RosterInForce(n, GcIntroduced(n, r), r, c)
       /\ UNCHANGED <<gap_sent, log>>

\* First contact only from the paired creator, an update from any member.
Takes(n, m, s) ==
    \/ Evaluate(rec[n], s, n) = "create" /\ m = Creator /\ <<n, m>> \in Paired
    \/ Evaluate(rec[n], s, n) = "update" /\ m \in rec[n].state.members

RecvState(n, l) ==
    LET s == Head(chan[l][n]).state
        r == IF rec[n].known THEN Updated(rec[n], s, n) ELSE NewRec(s)
    IN  /\ Arrived(n, l, "state")
        /\ IF Takes(n, Far(n, l), s)
           THEN TakeOver(n, r, Taken(n, l))
           ELSE chan' = Taken(n, l) /\ UNCHANGED <<rec, disk, log, runtime, handle, used>>
        /\ UNCHANGED <<task, phase, born, signed>>

\* on_group_sync
RecvSync(n, l) ==
    LET m == Far(n, l)
        f == Head(chan[l][n])
        c == Taken(n, l)
        old == rec[n]
        gn == gone[n] \ {m}
        held == MaxOf(old.state_cursor[m], MinOf(f.epoch, old.state.epoch))
        acked == MaxOf(old.sent_cursor[m], MinOf(f.have, old.next_seq - 1))
        r == [old EXCEPT !.state_cursor[m] = IF n = Creator THEN held ELSE @,
                         !.sent_cursor[m] = acked]
        lk == [epoch |-> f.epoch, pushed |-> acked]
    IN  /\ Arrived(n, l, "sync")
        /\ IF Active(old) /\ m \in old.state.members
           THEN /\ gone' = [gone EXCEPT ![n] = gn]
                /\ rec' = [rec EXCEPT ![n] = r]
                /\ IF r # old THEN SaveCounters(n, r) ELSE UNCHANGED <<disk, used>>
                /\ links' = [links EXCEPT ![n][m] = PumpLink(n, handle, r, lk, gn, m)]
                /\ chan' = CASE f.epoch < r.state.epoch -> Reply(n, l, c, <<StateF(r.state)>>)
                             [] f.epoch > r.state.epoch -> Reply(n, l, c, <<SyncF(r, m)>>)
                             [] OTHER -> Sends(n, handle, c,
                                               Only(m, PumpFrames(r, lk, gn, m, log[n][n])))
           ELSE /\ chan' = CASE old.known /\ f.epoch < old.state.epoch ->
                                     Reply(n, l, c, <<StateF(old.state)>>)
                             [] ~Active(old) /\ (old.known => f.epoch >= old.state.epoch) ->
                                     Reply(n, l, c, <<GoneF>>)
                             [] OTHER -> c
                /\ UNCHANGED <<rec, disk, links, gone, used>>
        /\ UNCHANGED <<log, born, signed, gap_sent, sessions>>

\* Mutant of IsNext: a gap is accepted.
IsNextBug(r, m, seq) == seq > r.have[m]
IsNext(r, m, seq) == seq = r.have[m] + 1

\* on_group_msg: stores exactly the next message, re-acknowledges an old one
\* and answers a gap with one sync per value of have.
RecvMsg(n, l) ==
    LET m == Far(n, l)
        f == Head(chan[l][n])
        c == Taken(n, l)
        old == rec[n]
        have == old.have[m]
        r == [old EXCEPT !.have[m] = f.seq]
    IN  /\ Arrived(n, l, "msg")
        /\ IF Active(old) /\ m \in old.state.members /\ IsNext(old, m, f.seq)
           THEN /\ log' = [log EXCEPT ![n][m][f.seq] = f.id]
                /\ gap_sent' = [gap_sent EXCEPT ![n][m] = -1]
                /\ rec' = [rec EXCEPT ![n] = r]
                /\ SaveCounters(n, r)
                /\ chan' = Reply(n, l, c, <<AckF(f.seq)>>)
           ELSE /\ CASE ~Active(old) ->
                            chan' = Reply(n, l, c, <<GoneF>>) /\ UNCHANGED gap_sent
                     [] Active(old) /\ m \notin old.state.members ->
                            chan' = c /\ UNCHANGED gap_sent
                     [] Active(old) /\ m \in old.state.members /\ f.seq <= have ->
                            chan' = Reply(n, l, c, <<AckF(have)>>) /\ UNCHANGED gap_sent
                     [] OTHER ->
                            /\ chan' = IF gap_sent[n][m] = have THEN c
                                       ELSE Reply(n, l, c, <<SyncF(old, m)>>)
                            /\ gap_sent' = [gap_sent EXCEPT ![n][m] = have]
                /\ UNCHANGED <<rec, disk, log, used>>
        /\ UNCHANGED <<links, gone, born, signed, sessions>>

\* on_group_ack
RecvAck(n, l) ==
    LET m == Far(n, l)
        c == Taken(n, l)
        old == rec[n]
        acked == MinOf(Head(chan[l][n]).have, old.next_seq - 1)
        r == [old EXCEPT !.sent_cursor[m] = acked]
    IN  /\ Arrived(n, l, "ack")
        /\ IF Active(old) /\ m \in old.state.members /\ acked > old.sent_cursor[m]
           THEN /\ rec' = [rec EXCEPT ![n] = r]
                /\ SaveCounters(n, r)
                /\ links' = [links EXCEPT ![n][m] = PumpLink(n, handle, r, @, gone[n], m)]
                /\ chan' = Sends(n, handle, c,
                                 Only(m, PumpFrames(r, links[n][m], gone[n], m, log[n][n])))
           ELSE chan' = c /\ UNCHANGED <<rec, disk, links, used>>
        /\ UNCHANGED <<log, born, signed, gone, gap_sent, sessions>>

\* on_group_leave: the creator takes the sender out of the roster.
RecvLeave(n, l) ==
    LET m == Far(n, l)
    IN  /\ Arrived(n, l, "leave")
        /\ \/ /\ n = Creator
              /\ m \in rec[n].state.members
              /\ EditGroup(FALSE, rec[n].state.members \ {m}, Taken(n, l))
           \/ /\ ~(n = Creator /\ Active(rec[n]) /\ m \in rec[n].state.members)
              /\ chan' = Taken(n, l)
              /\ UNCHANGED <<rec, disk, log, runtime, sessions, born, signed, used>>

\* GroupGone, believed only about the sender itself.
RecvGone(n, l) ==
    LET m == Far(n, l)
    IN  /\ Arrived(n, l, "gone")
        /\ IF Active(rec[n]) /\ m \in rec[n].state.members
           THEN /\ links' = [links EXCEPT ![n][m] = NoLink]
                /\ gone' = [gone EXCEPT ![n] = @ \cup {m}]
           ELSE UNCHANGED <<links, gone>>
        /\ chan' = Taken(n, l)
        /\ UNCHANGED <<rec, disk, log, gap_sent, sessions, born, signed, used>>

\* A session whose handle is gone still reads, and ignores, group frames.
RecvUnregistered(n, l) ==
    /\ n \in task[l]
    /\ handle[n][l] = 0
    /\ chan[l][n] # << >>
    /\ chan' = Taken(n, l)
    /\ UNCHANGED <<rec, disk, log, runtime, sessions, born, signed, used>>

\* More than GROUP_FRAMES_PER_SEC frames in a second: the rest are dropped.
RateLimit(n, l) ==
    /\ n \in task[l]
    /\ chan[l][n] # << >>
    /\ used.drops < MaxDrops
    /\ used' = [used EXCEPT !.drops = @ + 1]
    /\ chan' = Taken(n, l)
    /\ UNCHANGED <<rec, disk, log, runtime, sessions, born, signed>>

Recv(n, l) ==
    \/ RecvState(n, l) \/ RecvSync(n, l) \/ RecvMsg(n, l) \/ RecvAck(n, l)
    \/ RecvLeave(n, l) \/ RecvGone(n, l) \/ RecvUnregistered(n, l)

-----------------------------------------------------------------------------
(* Sessions come and go *)

\* Mutant of OpenFrames: the creator does not repeat an unconfirmed roster.
OpenFramesBug(n, m) ==
    LET r == rec[n]
    IN  IF Active(r) /\ m \in r.state.members THEN <<SyncF(r, m)>>
        ELSE IF r.known /\ r.pending_leave /\ m = Creator THEN <<LeaveF>> ELSE << >>
\* Mutant of OpenFrames: a leave is sent once.
OpenFramesOnceBug(n, m) ==
    LET r == rec[n]
    IN  IF ~Active(r) \/ m \notin r.state.members THEN << >>
        ELSE IF n = Creator /\ r.state_cursor[m] < r.state.epoch
             THEN <<StateF(r.state), SyncF(r, m)>>
             ELSE <<SyncF(r, m)>>
\* group_session_open: the first frames n writes on a new session with m.
OpenFrames(n, m) ==
    LET r == rec[n]
    IN  IF ~r.known THEN << >>
        ELSE IF r.removed
             THEN IF r.pending_leave /\ m = Creator THEN <<LeaveF>> ELSE << >>
        ELSE IF m \notin r.state.members THEN << >>
        ELSE IF n = Creator /\ r.state_cursor[m] < r.state.epoch
             THEN <<StateF(r.state), SyncF(r, m)>>
             ELSE <<SyncF(r, m)>>

\* register_live: appended to Peer::live, if the peer is (still) known.
Register(n, l) ==
    LET m == Far(n, l)
        live == {k \in LinksOf(n, m) : handle[n][k] # 0}
    IN  IF m \in Known(n, rec[n])
        THEN \E i \in 1..(2 * Slots) :
                /\ \A k \in live : handle[n][k] < i
                /\ i > 1 => \E k \in live : handle[n][k] = i - 1
                /\ handle' = [handle EXCEPT ![n][l] = i]
        ELSE UNCHANGED handle

\* trigger_connect: one attempt at a time, and only to an offline peer.  An
\* attempt the network does not let through changes nothing.
Dial(p, q, i) ==
    LET l == <<p, q, i>>
    IN  /\ l \in Link
        /\ <<p, q>> \in Reach
        /\ q \in Known(p, rec[p])
        /\ ~Online(p, handle, q)
        /\ \A j \in 1..Slots : phase[<<p, q, j>>] # "dialing"
        /\ phase[l] = "idle"
        /\ \A j \in 1..(i - 1) : phase[<<p, q, j>>] # "idle"
        /\ phase' = [phase EXCEPT ![l] = "dialing"]
        /\ UNCHANGED <<rec, disk, log, runtime, handle, task, chan, born, signed, used>>

\* connect_and_serve, once the connection stands.
Connect(l) ==
    /\ phase[l] = "dialing"
    /\ phase' = [phase EXCEPT ![l] = "ring"]
    /\ task' = [task EXCEPT ![l] = {l[1]}]
    /\ Register(l[1], l)
    /\ chan' = IF l[2] \in Known(l[1], rec[l[1]])
               THEN [chan EXCEPT ![l][l[2]] = OpenFrames(l[1], l[2])] ELSE chan
    /\ UNCHANGED <<rec, disk, log, runtime, born, signed, used>>

\* handle_incoming: a session for a known peer, a refusal otherwise.
Accept(l) ==
    /\ phase[l] = "ring"
    /\ phase' = [phase EXCEPT ![l] = "up"]
    /\ IF l[1] \in Known(l[2], rec[l[2]])
       THEN /\ task' = [task EXCEPT ![l] = @ \cup {l[2]}]
            /\ Register(l[2], l)
            /\ chan' = Reply(l[2], l, chan, OpenFrames(l[2], l[1]))
       ELSE /\ chan' = [chan EXCEPT ![l][l[2]] = << >>]
            /\ UNCHANGED <<task, handle>>
    /\ UNCHANGED <<rec, disk, log, runtime, born, signed, used>>

\* The tasks of n on the sessions ls are over, with what they had not read.
EndTasks(n, ls) ==
    /\ task' = [l \in Link |-> IF l \in ls THEN task[l] \ {n} ELSE task[l]]
    /\ phase' = [l \in Link |-> IF l \notin ls THEN phase[l]
                                ELSE IF task[l] \subseteq {n} THEN "idle" ELSE "up"]
    /\ chan' = [l \in Link |-> [m \in Node |->
                    IF l \in ls /\ (m = n \/ task[l] \subseteq {n}) THEN << >> ELSE chan[l][m]]]

\* remove_live: the delivery state of the peer is reset with its last session.
RemoveLive(n, l) ==
    LET m == Far(n, l)
        h == [handle EXCEPT ![n] = [k \in Link |->
                IF k = l THEN 0
                ELSE IF k \in LinksOf(n, m) /\ handle[n][l] # 0 /\ handle[n][k] > handle[n][l]
                     THEN handle[n][k] - 1 ELSE handle[n][k]]]
    IN  /\ handle' = h
        /\ IF m \in Known(n, rec[n]) /\ ~Online(n, h, m)
           THEN /\ links' = [links EXCEPT ![n][m] = NoLink]
                /\ gap_sent' = [gap_sent EXCEPT ![n][m] = -1]
           ELSE UNCHANGED <<links, gap_sent>>

\* A session_task ends by itself: stream error or idle timeout.
Break(n, l) ==
    /\ n \in task[l]
    /\ used.breaks < MaxBreaks
    /\ used' = [used EXCEPT !.breaks = @ + 1]
    /\ EndTasks(n, {l})
    /\ RemoveLive(n, l)
    /\ UNCHANGED <<rec, disk, log, gone, born, signed>>

\* The far end is over; this end reads the end of the stream or idles out.
Notice(n, l) ==
    /\ n \in task[l]
    /\ phase[l] = "up"
    /\ Far(n, l) \notin task[l]
    /\ EndTasks(n, {l})
    /\ RemoveLive(n, l)
    /\ UNCHANGED <<rec, disk, log, gone, born, signed, used>>

\* The process of n is killed and started again (start_with_alpns).
Restart(n) ==
    LET mine == {l \in Link : n = l[1] \/ n = l[2]}
    IN  /\ used.restarts < MaxRestarts
        /\ used' = [used EXCEPT !.restarts = @ + 1]
        /\ rec' = [rec EXCEPT ![n] = Repair(disk[n], log[n], n)]
        /\ handle' = [handle EXCEPT ![n] = [l \in Link |-> 0]]
        /\ links' = [links EXCEPT ![n] = [m \in Node |-> NoLink]]
        /\ gone' = [gone EXCEPT ![n] = {}]
        /\ gap_sent' = [gap_sent EXCEPT ![n] = [m \in Node |-> -1]]
        /\ EndTasks(n, mine)
        /\ UNCHANGED <<disk, log, born, signed>>

-----------------------------------------------------------------------------
Init ==
    /\ rec = [n \in Node |-> NoRec]
    /\ disk = [n \in Node |-> NoRec]
    /\ log = [n \in Node |-> [a \in Node |-> EmptyLog]]
    /\ links = [n \in Node |-> [m \in Node |-> NoLink]]
    /\ gone = [n \in Node |-> {}]
    /\ gap_sent = [n \in Node |-> [m \in Node |-> -1]]
    /\ handle = [n \in Node |-> [l \in Link |-> 0]]
    /\ task = [l \in Link |-> {}]
    /\ phase = [l \in Link |-> "idle"]
    /\ chan = [l \in Link |-> [n \in Node |-> << >>]]
    /\ born = [n \in Node |-> << >>]
    /\ signed = {}
    /\ used = [breaks |-> 0, restarts |-> 0, drops |-> 0, faults |-> 0]

\* What the users do.
User ==
    \/ \E ms \in SUBSET Node : GroupCreate(ms)
    \/ \E m \in Node : GroupAdd(m)
    \/ \E m \in Node : GroupRemove(m)
    \/ GroupRename
    \/ GroupDisband
    \/ \E n \in Node : GroupLeave(n)
    \/ \E n \in Node : GroupDelete(n)
    \/ \E n \in Node : GroupSend(n)

\* What the engines do.
Engine ==
    \/ \E p, q \in Node, i \in 1..Slots : Dial(p, q, i)
    \/ \E l \in Link : Connect(l)
    \/ \E l \in Link : Accept(l)
    \/ \E n \in Node, l \in Link : Recv(n, l)
    \/ \E n \in Node, l \in Link : Notice(n, l)

\* What goes wrong.
Trouble ==
    \/ \E n \in Node, l \in Link : Break(n, l)
    \/ \E n \in Node, l \in Link : RateLimit(n, l)
    \/ \E n \in Node : Restart(n)

Next == User \/ Engine \/ Trouble

Spec == Init /\ [][Next]_vars

\* maintenance_loop redials, a connection attempt ends, accept_loop and the
\* session tasks keep running: each is a spawned task of its own.
Fairness ==
    /\ \A p, q \in Node, i \in 1..Slots : WF_vars(Dial(p, q, i))
    /\ \A l \in Link : WF_vars(Connect(l)) /\ WF_vars(Accept(l))
    /\ \A l \in Link : \A n \in {l[1], l[2]} : WF_vars(Recv(n, l)) /\ WF_vars(Notice(n, l))

FairSpec == Spec /\ Fairness

-----------------------------------------------------------------------------
(* Properties *)

\* Every variable keeps the shape its Rust counterpart has.
TypeOK ==
    /\ rec \in [Node -> GroupRec]
    /\ disk \in [Node -> GroupRec]
    /\ log \in [Node -> [Node -> [Seqs -> 0..MaxMsg]]]
    /\ links \in [Node -> [Node -> [epoch : Nat, pushed : Nat]]]
    /\ gone \in [Node -> SUBSET Node]
    /\ gap_sent \in [Node -> [Node -> Nat \cup {-1}]]
    /\ handle \in [Node -> [Link -> 0..(2 * Slots)]]
    /\ task \in [Link -> SUBSET Node]
    /\ \A l \in Link : task[l] \subseteq {l[1], l[2]}
    /\ phase \in [Link -> {"idle", "dialing", "ring", "up"}]
    /\ chan \in [Link -> [Node -> Seq(Frame)]]
    /\ born \in [Node -> Seq(Nat)]
    /\ signed \in SUBSET GroupState
    /\ used \in [breaks : Nat, restarts : Nat, drops : Nat, faults : Nat]

\* What a device holds of an author is a prefix of what the author wrote, in
\* the author's order, without holes, duplicates or strangers, whatever
\* sessions, restarts and failed saves did in between (on_group_msg, pump,
\* the repair of the counters at start-up).
PrefixLog ==
    \A n, a \in Node : \A s \in Seqs :
        log[n][a][s] # 0 =>
            /\ log[n][a][s] = log[a][a][s]
            /\ s > 1 => log[n][a][s - 1] # 0

\* The tick tells the truth: every message an author counts as acknowledged
\* by a member (sent_cursor, shown as delivered) is in that member's log.
AckSound ==
    \A a, n \in Node : a # n =>
        \A s \in Seqs : s <= rec[a].sent_cursor[n] =>
            log[n][a][s] # 0 /\ log[n][a][s] = log[a][a][s]

\* A removed member gets a roster, never messages: whoever stored a message
\* was in some roster at least as new as the one it was written under.
NoLeak ==
    \A n, a \in Node : \A s \in Seqs :
        n # a /\ log[n][a][s] # 0 =>
            \E st \in signed : n \in st.members /\ st.epoch >= born[a][log[n][a][s]]

\* A device that is out of the group comes back only with a newer roster that
\* lists it, and never while its own leave is still undelivered.
OutStaysOut ==
    [][\A n \in Node :
         (rec[n].known /\ rec[n].removed /\ rec'[n].known /\ ~rec'[n].removed) =>
            /\ rec'[n].state.epoch > rec[n].state.epoch
            /\ n \in rec'[n].state.members
            /\ ~rec[n].pending_leave]_vars

\* A deleted chat stays deleted: the stub group_delete leaves behind is there
\* only for a leave that is still pending, and neither a late message, nor a
\* roster, nor the repair at start-up puts a line back into its log.  (That the
\* stub goes once the creator heard of the leave is more than the code does.)
StubIsEmpty ==
    \A n \in Node : rec[n].hidden =>
        /\ rec[n].pending_leave /\ rec[n].removed
        /\ \A a \in Node : log[n][a] = EmptyLog

\* The group implements the abstract feed: each author's messages are stored
\* by others in order, one by one, and acknowledged only once stored.
Said == [x \in Node |-> rec[x].next_seq - 1]
Stored == [x \in Node |-> rec[x].have]
Acked == [x \in Node |-> rec[x].sent_cursor]
Feed == INSTANCE GroupFeed WITH said <- Said, stored <- Stored, acked <- Acked
FeedSpec == Feed!Spec

-----------------------------------------------------------------------------
(* The inductive invariant behind TypeOK, PrefixLog, AckSound and FeedSpec, *)
(* for chats that are not deleted and rosters whose save does not fail.     *)

\* The author's counter is one past its log, and what others hold is the
\* beginning of that log, as long as their counter says.
LogsCounted ==
    \A n, a \in Node : \A s \in Seqs :
        /\ n = a => (log[n][a][s] # 0 <=> s < rec[n].next_seq)
        /\ n # a => (log[n][a][s] # 0 <=> s <= rec[n].have[a])
        /\ log[n][a][s] # 0 => log[n][a][s] = log[a][a][s]

\* Counters stay in range, an acknowledgement lags behind what is held.
CountersBehind ==
    \A n, a \in Node :
        /\ 1 <= rec[n].next_seq /\ rec[n].next_seq <= MaxMsg + 1
        /\ rec[n].have[a] <= MaxMsg
        /\ n = a => rec[n].have[a] = 0 /\ rec[n].sent_cursor[a] = 0
        /\ rec[a].sent_cursor[n] <= rec[n].have[a]

\* groups.json lags behind the memory.
DiskBehind ==
    \A n, a \in Node :
        /\ disk[n].known = rec[n].known
        /\ 1 <= disk[n].next_seq /\ disk[n].next_seq <= rec[n].next_seq
        /\ disk[n].have[a] <= rec[n].have[a]
        /\ disk[n].sent_cursor[a] <= rec[n].sent_cursor[a]

\* Without a record nothing was written, stored or acknowledged.
NothingUnknown ==
    \A n, a \in Node : ~rec[n].known =>
        rec[n].next_seq = 1 /\ rec[n].have[a] = 0 /\ rec[n].sent_cursor[a] = 0

\* Nothing was deleted.
NoStub == \A n \in Node : ~rec[n].hidden /\ ~disk[n].hidden

\* What a device with the log lg of its own messages, holding the first h
\* messages of the reader, can have written: its messages as logged, and
\* acknowledgements of no more than it holds.
SoundFrames(lg, h) ==
    {f \in Frame :
        /\ f.type = "msg" => f.id = lg[f.seq]
        /\ f.type \in {"sync", "ack"} => f.have <= h}

\* Every frame on its way is sound for the log and counters of its writer.
LanesSound ==
    \A l \in Link, n \in Node :
        LET m == Far(n, l) IN chan[l][n] \in Seq(SoundFrames(log[m][m], rec[m].have[n]))

IInv ==
    /\ TypeOK
    /\ LogsCounted
    /\ CountersBehind
    /\ DiskBehind
    /\ NothingUnknown
    /\ NoStub
    /\ LanesSound

-----------------------------------------------------------------------------
(* Liveness *)

\* Both devices of a pair dial, at start-up and while the other is offline, so
\* that two sessions may overlap; then what one of them carries can overtake
\* the other (on_group_sync sets the link back) or go to the dead first handle
\* (v2_tx).  Orderly(n, m) says that from some moment without a session on the
\* sessions of the pair do not overlap: each begins when both ends of the one
\* before are over.
Apart(n, m) == \A l \in LinksOf(n, m) : task[l] = {}
NoOverlap(n, m) == \A k, l \in LinksOf(n, m) : task[k] = {} \/ task[l] = {} \/ k = l
Orderly(n, m) == <>(Apart(n, m) /\ []NoOverlap(n, m))

\* Every message reaches every member: if two devices stay active members of
\* the same group for good, and their sessions do not overlap, the second ends
\* up with all the first wrote.
Delivered(a, n) == \A s \in Seqs : log[a][a][s] # 0 => log[n][a][s] = log[a][a][s]
Together(a, n) ==
    /\ Active(rec[a]) /\ Active(rec[n])
    /\ {a, n} \subseteq rec[Creator].state.members
Delivery ==
    \A a, n \in Node :
        a # n /\ <>[]Together(a, n) /\ Orderly(a, n) => <>[]Delivered(a, n)

\* Rosters converge: a member that stays in the creator's roster, did not leave
\* and whose sessions with the creator do not overlap ends up with the
\* creator's roster.
Convergence ==
    \A n \in Node \ {Creator} :
        /\ <>[](/\ Active(rec[Creator]) /\ n \in rec[Creator].state.members
                /\ ~rec[n].pending_leave)
        /\ Orderly(n, Creator)
        => <>[](rec[n].state = rec[Creator].state)

\* A leave gets through: it is repeated on every session until the creator has
\* taken the member out of its roster (or the member is told so), as long as
\* their sessions do not overlap.
LeaveIsHeard ==
    \A n \in Node \ {Creator} : Orderly(n, Creator) =>
        (rec[n].pending_leave ~> (~rec[n].pending_leave \/ n \notin rec[Creator].state.members))
=============================================================================
