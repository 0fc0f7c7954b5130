---------------------------- MODULE FileTransfer ----------------------------
(***************************************************************************)
(* Files from device "a" to device "b" on a LAN: 1:1 files, put on a       *)
(* session all at once, and group media, streamed with credits, tried      *)
(* again on request.  Sessions end under them, and two sessions may be     *)
(* open at a time, each with a task of its own at either end.              *)
(*                                                                         *)
(* A lock of the engine is a step, except that the checks on a Begin frame *)
(* are one step and its insertion into rx_files another.                   *)
(***************************************************************************)
EXTENDS Integers, Sequences, FiniteSets

CONSTANTS
    Direct,       \* 1:1 transfers
    Group,        \* group transfers
    Chunks,       \* chunks of a file; an empty one has none
    Credits,      \* GROUP_FILE_CREDITS
    MaxInbound,   \* MAX_INBOUND_FILES_PER_PEER, or MAX_INBOUND_FILES_TOTAL if that
                  \* is less: with one sender both count the same
    Sessions,     \* bound: sessions of a behaviour
    Tries,        \* bound: attempts at one group transfer
    MaxFaults     \* bound: sessions that fail by themselves and file operations
                  \* that fail at either side

ASSUME FileAssumption ==
    /\ Direct \cap Group = {}
    /\ {Credits, MaxInbound, Tries} \subseteq Nat \ {0}
    /\ {Chunks, Sessions, MaxFaults} \subseteq Nat

VARIABLES
    end,       \* end[d][s]: d's task of session s: none, ring, up, failing, over
    queue,     \* queue[s]: frames on the channel of a's task
    credits,   \* credits[s]: the semaphore of a's handle
    wire,      \* wire[s]: frames written to b and not yet read
    sent,      \* 1:1 files a has sent
    xfer,      \* xfer[i]: a's state of group transfer i for member b
    stream,    \* stream[i][t]: the t-th stream_group_file task of transfer i
    hit,       \* hit[s]: transfers group_files_failed has found and not yet set
    rx,        \* rx[i]: rx_files of b: -1 (none) or the chunks received
    step,      \* step[s]: what b's task does next
    offline,   \* sessions of b that found a offline and have to drop partials
    member,    \* b lists a as a member of the group
    log,       \* log[i]: how often b has stored the file
    faults     \* how many faults there were

vars == <<end, queue, credits, wire, sent, xfer, stream, hit, rx, step, offline,
          member, log, faults>>
sender == <<sent, xfer, stream, hit>>
receiver == <<rx, step, offline, member, log>>

Dev == {"a", "b"}
Other(d) == IF d = "a" THEN "b" ELSE "a"
Session == 1..Sessions
Transfer == Direct \cup Group
Try == 1..Tries

Frame == [kind : {"begin", "chunk", "end"}, id : Transfer]
Begin(i) == [kind |-> "begin", id |-> i]
Chunk(i) == [kind |-> "chunk", id |-> i]
End(i) == [kind |-> "end", id |-> i]

\* The handles of Peer::live whose task is there to read the channel.
Live(d) == {s \in Session : end[d][s] \in {"up", "failing"}}

\* v2_link, live.first(): the oldest of them.
FirstLink == CHOOSE s \in Live("a") : \A t \in Live("a") : s <= t

Fault == faults < MaxFaults /\ faults' = faults + 1

NoStream == [phase |-> "none", sess |-> 0, next |-> 0]
Stream(s) == [phase |-> "run", sess |-> s, next |-> 0]
StreamOver == [NoStream EXCEPT !.phase = "over"]

-----------------------------------------------------------------------------
(* The sender *)

\* The frames of a 1:1 file.
FileFrames(i) == <<Begin(i)>> \o [c \in 1..Chunks |-> Chunk(i)] \o <<End(i)>>

\* send_file: all frames on the first session, or an error.
SendFile(i) ==
    /\ i \in Direct \ sent
    /\ Live("a") # {}
    /\ sent' = sent \cup {i}
    /\ queue' = [queue EXCEPT ![FirstLink] = @ \o FileFrames(i)]
    /\ UNCHANGED <<end, credits, wire, xfer, stream, hit, receiver, faults>>

\* A link read under the engine lock and used after it: the oldest session,
\* or one that has ended in the meantime.
Link == {s \in Session : end["a"][s] \in {"failing", "over"}}
        \cup (IF Live("a") # {} THEN {FirstLink} ELSE {})

\* Attempt t of transfer i starts on session s.
Attempt(i, t, s) ==
    /\ xfer' = [xfer EXCEPT ![i] = [state |-> "sending", sess |-> s]]
    /\ stream' = [stream EXCEPT ![i][t] = Stream(s)]

\* group_send_file: b is online, or only other members are and b is left out.
GroupSendFile(i) ==
    /\ xfer[i].state = "new"
    /\ \/ \E s \in Link : Attempt(i, 1, s)
       \/ /\ Live("a") = {}
          /\ xfer' = [xfer EXCEPT ![i] = [state |-> "offline", sess |-> 0]]
          /\ UNCHANGED stream
    /\ UNCHANGED <<end, queue, credits, wire, sent, hit, receiver, faults>>

\* group_file_retry: refused for a transfer that runs or is done.
GroupFileRetry(i, t) ==
    /\ xfer[i].state \in {"offline", "failed"}
    /\ stream[i][t] = NoStream
    /\ \A u \in Try : u < t => stream[i][u] # NoStream
    /\ \E s \in Link : Attempt(i, t, s)
    /\ UNCHANGED <<end, queue, credits, wire, sent, hit, receiver, faults>>

-----------------------------------------------------------------------------
(* stream_group_file: Begin, a chunk for every credit, End *)

\* The stream's next frame, once next of its frames are on the channel.
FrameAt(i, n) == IF n = 0 THEN Begin(i) ELSE IF n <= Chunks THEN Chunk(i) ELSE End(i)

IsChunk(n) == n \in 1..Chunks

\* acquire and send succeed: the semaphore is open and the channel has a reader.
Accepts(s, n) ==
    IF IsChunk(n) THEN end["a"][s] = "up" /\ credits[s] > 0 ELSE end["a"][s] \in {"up", "failing"}

StreamSends(i, t) ==
    LET m == stream[i][t]
    IN  /\ m.phase = "run"
        /\ Accepts(m.sess, m.next)
        /\ queue' = [queue EXCEPT ![m.sess] = Append(@, FrameAt(i, m.next))]
        /\ credits' = [credits EXCEPT ![m.sess] = IF IsChunk(m.next) THEN @ - 1 ELSE @]
        /\ stream' = [stream EXCEPT ![i][t] =
                        IF m.next > Chunks THEN StreamOver ELSE [m EXCEPT !.next = m.next + 1]]
        /\ UNCHANGED <<end, wire, sent, xfer, hit, receiver, faults>>

\* The session is closed, or the stored copy cannot be read.
StreamFails(i, t) ==
    LET m == stream[i][t]
    IN  /\ m.phase = "run"
        /\ \/ /\ end["a"][m.sess] = "over" \/ (IsChunk(m.next) /\ end["a"][m.sess] = "failing")
              /\ UNCHANGED faults
           \/ Fault
        /\ stream' = [stream EXCEPT ![i][t] = [m EXCEPT !.phase = "judge", !.next = 0]]
        /\ UNCHANGED <<end, queue, credits, wire, sent, xfer, hit, receiver>>

\* Mutant of StreamJudges: a failure on a session is left to that session.
StreamJudgesBug(i, t) ==
    LET m == stream[i][t]
    IN  /\ m.phase = "judge"
        /\ stream' = [stream EXCEPT ![i][t].phase = "cancel"]
        /\ UNCHANGED <<end, queue, credits, wire, sent, xfer, hit, receiver, faults>>
\* Whether this attempt is still the member's current one.
StreamJudges(i, t) ==
    LET m == stream[i][t]
    IN  /\ m.phase = "judge"
        /\ stream' = [stream EXCEPT ![i][t].phase = IF xfer[i].sess = m.sess THEN "set" ELSE "cancel"]
        /\ UNCHANGED <<end, queue, credits, wire, sent, xfer, hit, receiver, faults>>

\* group_file_set: "done" is never overwritten.
SetState(i, state) ==
    xfer' = [xfer EXCEPT ![i].state = IF @ = "done" THEN @ ELSE state]

StreamSets(i, t) ==
    /\ stream[i][t].phase = "set"
    /\ SetState(i, "failed")
    /\ stream' = [stream EXCEPT ![i][t].phase = "cancel"]
    /\ UNCHANGED <<end, queue, credits, wire, sent, hit, receiver, faults>>

\* An End frame that tells b to drop what it has.
StreamCancels(i, t) ==
    LET m == stream[i][t]
    IN  /\ m.phase = "cancel"
        /\ queue' = IF end["a"][m.sess] = "over" THEN queue
                    ELSE [queue EXCEPT ![m.sess] = Append(@, End(i))]
        /\ stream' = [stream EXCEPT ![i][t] = StreamOver]
        /\ UNCHANGED <<end, credits, wire, sent, xfer, hit, receiver, faults>>

-----------------------------------------------------------------------------
(* session_task of the sender *)

\* Mutant of CreditsBack: every frame gives a credit back.
CreditsBackBug(s, f) == credits' = [credits EXCEPT ![s] = IF f.id \in Group THEN @ + 1 ELSE @]
\* A group chunk on the wire gives its credit back.
CreditsBack(s, f) ==
    credits' = [credits EXCEPT ![s] = IF f.id \in Group /\ f.kind = "chunk" THEN @ + 1 ELSE @]

\* A frame is written.  The two locks of group_file_done are one step here:
\* whatever comes between them leaves the state they are about to set.
WriteFrame(s) ==
    LET f == Head(queue[s])
    IN  /\ end["a"][s] = "up" /\ queue[s] # << >>
        /\ queue' = [queue EXCEPT ![s] = Tail(@)]
        /\ wire' = IF end["b"][s] = "over" THEN wire ELSE [wire EXCEPT ![s] = Append(@, f)]
        /\ CreditsBack(s, f)
        /\ IF f.id \in Group /\ f.kind = "end" /\ xfer[f.id].state = "sending"
           THEN SetState(f.id, "done")
           ELSE UNCHANGED xfer
        /\ UNCHANGED <<end, sent, stream, hit, receiver, faults>>

\* The loop ends: a failure, or b is gone.  The credits are closed and
\* group_files_failed looks for what was being sent on this session.
SenderEnds(s) ==
    /\ end["a"][s] = "up"
    /\ Fault \/ (end["b"][s] = "over" /\ UNCHANGED faults)
    /\ end' = [end EXCEPT !["a"][s] = "failing"]
    /\ hit' = [hit EXCEPT ![s] = {i \in Group : xfer[i] = [state |-> "sending", sess |-> s]}]
    /\ UNCHANGED <<queue, credits, wire, sent, xfer, stream, receiver>>

\* ... and marks it as failed, one by one.
SenderSets(s, i) ==
    /\ i \in hit[s]
    /\ hit' = [hit EXCEPT ![s] = @ \ {i}]
    /\ SetState(i, "failed")
    /\ UNCHANGED <<end, queue, credits, wire, sent, stream, receiver, faults>>

\* remove_live; the channel goes with the task.
SenderIsOver(s) ==
    /\ end["a"][s] = "failing" /\ hit[s] = {}
    /\ end' = [end EXCEPT !["a"][s] = "over"]
    /\ queue' = [queue EXCEPT ![s] = << >>]
    /\ credits' = [credits EXCEPT ![s] = Credits]
    /\ UNCHANGED <<wire, sender, receiver, faults>>

-----------------------------------------------------------------------------
(* session_task of the receiver *)

Idle == [do |-> "read"]
Insert(i) == [do |-> "insert", id |-> i]
Store(i) == [do |-> "store", id |-> i]

\* on_group_file takes frames of members only, on a session that is in live;
\* a 1:1 frame is taken from every paired device.
Allowed(s, f) == f.id \in Direct \/ (member /\ end["b"][s] = "up")

Inbound == {i \in Transfer : rx[i] >= 0}

\* The limit; a group transfer that starts again replaces its old try.
HasRoom(i) ==
    Cardinality(IF i \in Group THEN Inbound \ {i} ELSE Inbound) < MaxInbound

\* Begin: the checks.
ReadBegin(s, i) ==
    /\ step' = IF HasRoom(i) /\ (i \in Group => log[i] = 0)
               THEN [step EXCEPT ![s] = Insert(i)] ELSE step
    /\ UNCHANGED <<rx, log, faults>>

\* Mutant of ReadChunk: the size is checked at the end only.
ReadChunkBug(s, i) ==
    /\ rx' = IF rx[i] = -1 THEN rx ELSE [rx EXCEPT ![i] = @ + 1]
    /\ UNCHANGED <<step, log, faults>>
\* Chunk: one too many, or one that cannot be decoded or written, drops the
\* partial.  (A 1:1 chunk that cannot be written counts as received.)
ReadChunk(s, i) ==
    /\ \/ /\ rx' = IF rx[i] = -1 THEN rx
                   ELSE [rx EXCEPT ![i] = IF @ = Chunks THEN -1 ELSE @ + 1]
          /\ UNCHANGED faults
       \/ rx[i] # -1 /\ Fault /\ rx' = [rx EXCEPT ![i] = -1]
    /\ UNCHANGED <<step, log>>

\* End: the entry is taken out; it is stored if its size is right.
ReadEnd(s, i) ==
    /\ rx' = [rx EXCEPT ![i] = -1]
    /\ step' = IF rx[i] = Chunks THEN [step EXCEPT ![s] = Store(i)] ELSE step
    /\ UNCHANGED <<log, faults>>

ReadFrame(s) ==
    LET f == Head(wire[s])
    IN  /\ end["b"][s] = "up" /\ step[s] = Idle /\ wire[s] # << >>
        /\ wire' = [wire EXCEPT ![s] = Tail(@)]
        /\ IF ~Allowed(s, f)
           THEN rx' = [rx EXCEPT ![f.id] = -1] /\ UNCHANGED <<step, log, faults>>
           ELSE CASE f.kind = "begin" -> ReadBegin(s, f.id)
                  [] f.kind = "chunk" -> ReadChunk(s, f.id)
                  [] f.kind = "end" -> ReadEnd(s, f.id)
        /\ UNCHANGED <<end, queue, credits, sender, offline, member>>

\* The partial file is created and entered; if that fails, an entry of an
\* earlier try stays.
InsertPartial(s) ==
    /\ step[s].do = "insert"
    /\ \/ rx' = [rx EXCEPT ![step[s].id] = 0] /\ UNCHANGED faults
       \/ Fault /\ UNCHANGED rx
    /\ step' = [step EXCEPT ![s] = Idle]
    /\ UNCHANGED <<end, queue, credits, wire, sender, offline, member, log>>

\* The file is renamed and its row written, under the engine lock, unless
\* the group is gone or one of the two fails.
StoreFile(s) ==
    /\ step[s].do = "store"
    /\ \/ /\ log' = IF step[s].id \in Direct \/ member
                    THEN [log EXCEPT ![step[s].id] = @ + 1] ELSE log
          /\ UNCHANGED faults
       \/ Fault /\ UNCHANGED log
    /\ step' = [step EXCEPT ![s] = Idle]
    /\ UNCHANGED <<end, queue, credits, wire, sender, rx, offline, member>>

\* Mutant of ReceiverEnds: partials are kept for the next session.
ReceiverEndsBug(s) ==
    /\ end["b"][s] = "up" /\ step[s] = Idle
    /\ Fault \/ (end["a"][s] = "over" /\ wire[s] = << >> /\ UNCHANGED faults)
    /\ end' = [end EXCEPT !["b"][s] = "over"]
    /\ wire' = [wire EXCEPT ![s] = << >>]
    /\ UNCHANGED <<queue, credits, sender, receiver>>
\* The loop ends, remove_live: whether a is offline now ...
ReceiverEnds(s) ==
    /\ end["b"][s] = "up" /\ step[s] = Idle
    /\ Fault \/ (end["a"][s] = "over" /\ wire[s] = << >> /\ UNCHANGED faults)
    /\ end' = [end EXCEPT !["b"][s] = "over"]
    /\ wire' = [wire EXCEPT ![s] = << >>]
    /\ offline' = IF Live("b") = {s} THEN offline \cup {s} ELSE offline
    /\ UNCHANGED <<queue, credits, sender, rx, step, member, log>>

\* ... and, without the lock, the end of its group partials.
DropInbound(s) ==
    /\ s \in offline
    /\ offline' = offline \ {s}
    /\ rx' = [i \in Transfer |-> IF i \in Group THEN -1 ELSE rx[i]]
    /\ UNCHANGED <<end, queue, credits, wire, sender, step, member, log, faults>>

-----------------------------------------------------------------------------
(* Sessions and the group *)

\* trigger_connect of a device that has no session.
Dial(d, s) ==
    /\ Live(d) = {}
    /\ \A t \in Session : (end[d][t] = "none") = (t >= s)
    /\ end' = [end EXCEPT ![d][s] = "up", ![Other(d)][s] = "ring"]
    /\ UNCHANGED <<queue, credits, wire, sender, receiver, faults>>

\* The other one accepts.
Accept(d, s) ==
    /\ end[d][s] = "ring"
    /\ end' = [end EXCEPT ![d][s] = "up"]
    /\ UNCHANGED <<queue, credits, wire, sender, receiver, faults>>

\* A roster without a, or the end of the group at b.
MemberGoes ==
    /\ member
    /\ member' = FALSE
    /\ UNCHANGED <<end, queue, credits, wire, sender, rx, step, offline, log, faults>>

Init ==
    /\ end = [d \in Dev |-> [s \in Session |-> "none"]]
    /\ queue = [s \in Session |-> << >>] /\ wire = [s \in Session |-> << >>]
    /\ credits = [s \in Session |-> Credits]
    /\ sent = {}
    /\ xfer = [i \in Group |-> [state |-> "new", sess |-> 0]]
    /\ stream = [i \in Group |-> [t \in Try |-> NoStream]]
    /\ hit = [s \in Session |-> {}]
    /\ rx = [i \in Transfer |-> -1] /\ log = [i \in Transfer |-> 0]
    /\ step = [s \in Session |-> Idle] /\ offline = {} /\ member = TRUE
    /\ faults = 0

StreamStep(i, t) ==
    \/ StreamSends(i, t) \/ StreamFails(i, t) \/ StreamJudges(i, t)
    \/ StreamSets(i, t) \/ StreamCancels(i, t)

\* What a task of a session does by itself.
TaskStep(s) ==
    \/ WriteFrame(s) \/ (\E i \in Group : SenderSets(s, i)) \/ SenderIsOver(s)
    \/ ReadFrame(s) \/ InsertPartial(s) \/ StoreFile(s) \/ DropInbound(s)

Next ==
    \/ \E i \in Direct : SendFile(i)
    \/ \E i \in Group : GroupSendFile(i)
                        \/ \E t \in Try : GroupFileRetry(i, t) \/ StreamStep(i, t)
    \/ \E s \in Session : TaskStep(s) \/ SenderEnds(s) \/ ReceiverEnds(s)
                          \/ \E d \in Dev : Dial(d, s) \/ Accept(d, s)
    \/ MemberGoes

Spec == Init /\ [][Next]_vars

-----------------------------------------------------------------------------
(* Properties *)

\* Every variable has its type.
TypeOK ==
    /\ end \in [Dev -> [Session -> {"none", "ring", "up", "failing", "over"}]]
    /\ queue \in [Session -> Seq(Frame)] /\ wire \in [Session -> Seq(Frame)]
    /\ credits \in [Session -> Nat]
    /\ sent \subseteq Direct
    /\ xfer \in [Group -> [state : {"new", "offline", "sending", "failed", "done"},
                           sess : {0} \cup Session]]
    /\ stream \in [Group -> [Try -> [phase : {"none", "run", "judge", "set", "cancel", "over"},
                                     sess : {0} \cup Session, next : 0..Chunks + 1]]]
    /\ hit \in [Session -> SUBSET Group]
    /\ rx \in [Transfer -> -1..Chunks] /\ log \in [Transfer -> Nat]
    /\ step \in [Session -> {Idle} \cup {Insert(i) : i \in Transfer} \cup {Store(i) : i \in Transfer}]
    /\ offline \subseteq Session /\ member \in BOOLEAN
    /\ faults \in 0..MaxFaults

\* The group chunks on a channel, by their places.
GroupChunks(q) == {n \in DOMAIN q : q[n].id \in Group /\ q[n].kind = "chunk"}

\* Memory is bounded however big the file and slow the receiver: the group
\* chunks on the channel of a session and its free credits are the credits.
CreditsKept ==
    \A s \in Session : end["a"][s] = "up" =>
        credits[s] + Cardinality(GroupChunks(queue[s])) = Credits

\* A group transfer holds an inbound slot only while its sender is online, or
\* a task is about to drop it.
SlotsFreed ==
    Inbound \cap Group # {} => Live("b") # {} \/ offline # {}

\* Who moves a group transfer out of "sending": while it is, its current
\* attempt has frames to send or a failure to report, or the session has its
\* End to write, or the session is about to fail it.  The exception is an empty
\* file: it asks for no credit, so an attempt that begins on a session that is
\* failing puts Begin and End on the dead channel and reports nothing, and
\* the transfer stays in "sending" (p2p.rs:3613-3648).
SendingIsOwned ==
    \A i \in Group : xfer[i].state = "sending" =>
        LET s == xfer[i].sess
        IN  \/ \E t \in Try : stream[i][t].sess = s /\ stream[i][t].phase \in {"run", "judge", "set"}
            \/ end["a"][s] = "up" /\ \E n \in DOMAIN queue[s] : queue[s][n] = End(i)
            \/ i \in hit[s]
            \/ Chunks = 0 /\ end["a"][s] \in {"failing", "over"}
=============================================================================
