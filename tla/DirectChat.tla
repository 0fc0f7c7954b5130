----------------------------- MODULE DirectChat -----------------------------
(***************************************************************************)
(* The 1:1 chat of two paired devices on a LAN: the texts device "a"       *)
(* writes to device "b", from the send queue through the sessions to the   *)
(* history of b and back as acknowledgements.  Both devices dial, restart  *)
(* and may remove the other one; texts of b to a are the mirror image.     *)
(*                                                                         *)
(* Every lock of the engine is a step of its own, and so is every append   *)
(* to messages-<peer>.jsonl: the code writes the rows after it has         *)
(* released the lock.  Texts are independent of each other, so the lanes   *)
(* of a session are sets of ids, read in any order.                        *)
(***************************************************************************)
EXTENDS Integers, Sequences

CONSTANTS
    Id,           \* the texts a writes
    Slots,        \* bound: sessions dialled by one device at a time
    MaxBreaks,    \* bound: sessions that end, or attempts that fail, by themselves
    MaxRestarts,  \* bound: process restarts
    Restarts,     \* the devices whose process may restart
    Removes       \* the devices whose user may remove the other one

Dev == {"a", "b"}

ASSUME DirectAssumption ==
    /\ {Slots, MaxBreaks, MaxRestarts} \subseteq Nat
    /\ Restarts \subseteq Dev
    /\ Removes \subseteq Dev

VARIABLES
    known,    \* the devices that list the other one as paired (peers.json too)
    said,     \* history: texts a has written
    out,      \* out[i]: state of the text in a's Peer::msgs
    queued,   \* a's Peer::queued
    rows,     \* rows[i]: the states of the text's rows in a's file, in order
    unsaved,  \* rows of send() that are not yet in the file
    got,      \* got[i]: how often b's Peer::msgs has the text
    inrow,    \* inrow[i]: how often b's file has it
    live,     \* live[d]: Peer::live, oldest first
    task,     \* task[l]: the ends whose session_task (or handshake) runs
    phase,    \* phase[l]: idle, dialing, ring (dialled, not accepted), up
    msgs,     \* msgs[l]: texts on their way to b
    acks,     \* acks[l]: acknowledgements on their way to a
    apc,      \* apc[l]: what a's end does next: serve, flush, write
    arows,    \* arows[l]: rows a's end writes next
    bpc,      \* bpc[l]: what b's end does next: serve, store, write, ack
    bmsg,     \* bmsg[l]: the text b's end is at
    unlink,   \* devices that have still to delete the file of a removed peer
    stored,   \* history: texts b put into its history
    cut,      \* history: texts b had not yet written to its file when its process ended
    lost,     \* history: texts that were on a session, or not saved, when it ended
    used      \* how much of each bound is spent

vars == <<known, said, out, queued, rows, unsaved, got, inrow, live, task, phase,
          msgs, acks, apc, arows, bpc, bmsg, unlink, stored, cut, lost, used>>
author == <<said, out, queued, unsaved>>
reader == <<got, stored, cut>>
files == <<rows, inrow>>
ends == <<apc, arows, bpc, bmsg>>

Other(d) == IF d = "a" THEN "b" ELSE "a"

\* A session is named by the device that dialled it and a slot.
Link == Dev \X (1..Slots)

State == {"none", "queued", "sent", "acked"}

Row == [id : Id, state : {"queued", "sent", "acked"}]

\* Mutant of RowOf: an acknowledged text is written as read.
RowOfBug(i, s) == [id |-> i, state |-> IF s = "acked" THEN "read" ELSE s]
RowOf(i, s) == [id |-> i, state |-> s]

\* The file once rows rs (at most one of each text) are appended.
Appended(rs) ==
    [i \in Id |-> IF \E r \in rs : r.id = i
                  THEN Append(rows[i], (CHOOSE r \in rs : r.id = i).state)
                  ELSE rows[i]]

\* collapse_history: one entry of each text, with the state of its last row.
CollapseHistory(rs) == [i \in Id |-> IF rs[i] = << >> THEN "none" ELSE rs[i][Len(rs[i])]]

\* queued_from
QueuedFrom(state) == {i \in Id : state[i] = "queued"}

\* Somebody reads, or will read, what is written to d's end of l.
Reads(l, d) == d \in task[l] \/ (phase[l] = "ring" /\ d # l[1])

Online(d) == live[d] # << >>

-----------------------------------------------------------------------------
(* The author *)

\* Mutant of Put: what is put on the session replaces what was there.
PutBug(l, is) ==
    IF Reads(l, "b")
    THEN msgs' = [msgs EXCEPT ![l] = is] /\ UNCHANGED lost
    ELSE lost' = lost \cup is /\ UNCHANGED msgs
\* Texts put on session l; without a reader they are lost.
Put(l, is) ==
    IF Reads(l, "b")
    THEN msgs' = [msgs EXCEPT ![l] = @ \cup is] /\ UNCHANGED lost
    ELSE lost' = lost \cup is /\ UNCHANGED msgs

\* send: on the first live session, else to the queue.  The row is written
\* after the lock is released (SaveRow).
Send(i) ==
    /\ i \notin said
    /\ "a" \in known
    /\ said' = said \cup {i}
    /\ IF Online("a")
       THEN /\ Put(Head(live["a"]), {i})
            /\ out' = [out EXCEPT ![i] = "sent"]
            /\ unsaved' = unsaved \cup {RowOf(i, "sent")}
            /\ UNCHANGED queued
       ELSE /\ out' = [out EXCEPT ![i] = "queued"]
            /\ queued' = queued \cup {i}
            /\ unsaved' = unsaved \cup {RowOf(i, "queued")}
            /\ UNCHANGED <<msgs, lost>>
    /\ UNCHANGED <<known, reader, files, live, task, phase, acks, ends, unlink, used>>

SaveRow(r) ==
    /\ r \in unsaved
    /\ unsaved' = unsaved \ {r}
    /\ rows' = Appended({r})
    /\ UNCHANGED <<known, said, out, queued, reader, inrow, live, task, phase, msgs, acks,
                   ends, unlink, lost, used>>

\* Mutant of FlushQueue: what was put on the session stays in the queue.
FlushQueueBug(l) ==
    /\ "a" \in task[l] /\ apc[l] = "flush"
    /\ Put(l, queued)
    /\ out' = [i \in Id |-> IF i \in queued THEN "sent" ELSE out[i]]
    /\ arows' = [arows EXCEPT ![l] = {RowOf(i, "sent") : i \in queued}]
    /\ apc' = [apc EXCEPT ![l] = "write"]
    /\ UNCHANGED <<known, said, queued, unsaved, reader, files, live, task, phase, acks,
                   bpc, bmsg, unlink, used>>
\* flush_queue on a session that was just registered.
FlushQueue(l) ==
    /\ "a" \in task[l] /\ apc[l] = "flush"
    /\ Put(l, queued)
    /\ out' = [i \in Id |-> IF i \in queued THEN "sent" ELSE out[i]]
    /\ queued' = {}
    /\ arows' = [arows EXCEPT ![l] = {RowOf(i, "sent") : i \in queued}]
    /\ apc' = [apc EXCEPT ![l] = "write"]
    /\ UNCHANGED <<known, said, unsaved, reader, files, live, task, phase, acks,
                   bpc, bmsg, unlink, used>>

\* persist_messages of a's session task.
WriteRows(l) ==
    /\ "a" \in task[l] /\ apc[l] = "write"
    /\ rows' = Appended(arows[l])
    /\ arows' = [arows EXCEPT ![l] = {}]
    /\ apc' = [apc EXCEPT ![l] = "serve"]
    /\ UNCHANGED <<known, author, reader, inrow, live, task, phase, msgs, acks, bpc, bmsg,
                   unlink, lost, used>>

\* handle_frame with an Ack; a text a does not have is ignored.
RecvAck(l, i) ==
    /\ "a" \in task[l] /\ apc[l] = "serve"
    /\ i \in acks[l]
    /\ acks' = [acks EXCEPT ![l] = @ \ {i}]
    /\ IF "a" \in known /\ out[i] # "none"
       THEN /\ out' = [out EXCEPT ![i] = "acked"]
            /\ arows' = [arows EXCEPT ![l] = {RowOf(i, "acked")}]
            /\ apc' = [apc EXCEPT ![l] = "write"]
       ELSE UNCHANGED <<out, arows, apc>>
    /\ UNCHANGED <<known, said, queued, unsaved, reader, files, live, task, phase, msgs,
                   bpc, bmsg, unlink, lost, used>>

-----------------------------------------------------------------------------
(* The reader: handle_frame with a Msg, in the steps of its locks *)

AckTo(l, i) ==
    acks' = IF Reads(l, "a") THEN [acks EXCEPT ![l] = @ \cup {i}] ELSE acks

\* A text of a peer that is not listed counts as one b already has.
IsDup(i) == "b" \notin known \/ got[i] > 0

RecvMsg(l, i) ==
    /\ "b" \in task[l] /\ bpc[l] = "serve"
    /\ i \in msgs[l]
    /\ msgs' = [msgs EXCEPT ![l] = @ \ {i}]
    /\ IF IsDup(i)
       THEN AckTo(l, i) /\ UNCHANGED <<bpc, bmsg>>
       ELSE /\ bpc' = [bpc EXCEPT ![l] = "store"]
            /\ bmsg' = [bmsg EXCEPT ![l] = {i}]
            /\ UNCHANGED acks
    /\ UNCHANGED <<known, author, reader, files, live, task, phase, apc, arows, unlink,
                   lost, used>>

\* The second lock: the text is pushed without another look.
StoreMsg(l) ==
    /\ "b" \in task[l] /\ bpc[l] = "store"
    /\ IF "b" \in known
       THEN /\ got' = [i \in Id |-> IF i \in bmsg[l] THEN got[i] + 1 ELSE got[i]]
            /\ stored' = stored \cup bmsg[l]
            /\ bpc' = [bpc EXCEPT ![l] = "write"]
            /\ UNCHANGED cut
       ELSE /\ bpc' = [bpc EXCEPT ![l] = "ack"]
            /\ UNCHANGED reader
    /\ UNCHANGED <<known, author, files, live, task, phase, msgs, acks, apc, arows, bmsg,
                   unlink, lost, used>>

\* Mutant of WriteIn: the row is left for later.
WriteInBug(l) ==
    /\ "b" \in task[l] /\ bpc[l] = "write"
    /\ bpc' = [bpc EXCEPT ![l] = "ack"]
    /\ UNCHANGED <<known, author, reader, files, live, task, phase, msgs, acks, apc, arows,
                   bmsg, unlink, lost, used>>
WriteIn(l) ==
    /\ "b" \in task[l] /\ bpc[l] = "write"
    /\ inrow' = [i \in Id |-> IF i \in bmsg[l] THEN inrow[i] + 1 ELSE inrow[i]]
    /\ bpc' = [bpc EXCEPT ![l] = "ack"]
    /\ UNCHANGED <<known, author, reader, rows, live, task, phase, msgs, acks, apc, arows,
                   bmsg, unlink, lost, used>>

SendAck(l) ==
    /\ "b" \in task[l] /\ bpc[l] = "ack"
    /\ acks' = IF Reads(l, "a") THEN [acks EXCEPT ![l] = @ \cup bmsg[l]] ELSE acks
    /\ bpc' = [bpc EXCEPT ![l] = "serve"]
    /\ bmsg' = [bmsg EXCEPT ![l] = {}]
    /\ UNCHANGED <<known, author, reader, files, live, task, phase, msgs, apc, arows,
                   unlink, lost, used>>

-----------------------------------------------------------------------------
(* Sessions *)

\* trigger_connect: one attempt at a time, and only to an offline peer.
Dial(l) ==
    /\ l[1] \in known
    /\ ~Online(l[1])
    /\ \A k \in Link : k[1] = l[1] => phase[k] # "dialing"
    /\ phase[l] = "idle"
    /\ phase' = [phase EXCEPT ![l] = "dialing"]
    /\ UNCHANGED <<known, author, reader, files, live, task, msgs, acks, ends, unlink, lost, used>>

DialFails(l) ==
    /\ phase[l] = "dialing"
    /\ used.breaks < MaxBreaks
    /\ used' = [used EXCEPT !.breaks = @ + 1]
    /\ phase' = [phase EXCEPT ![l] = "idle"]
    /\ UNCHANGED <<known, author, reader, files, live, task, msgs, acks, ends, unlink, lost>>

\* Mutant of Register: only the device that dialled flushes its queue.
RegisterBug(d, l) ==
    /\ live' = IF d \in known THEN [live EXCEPT ![d] = Append(@, l)] ELSE live
    /\ apc' = IF d = "a" /\ d = l[1] THEN [apc EXCEPT ![l] = "flush"] ELSE apc
\* register_live does nothing for a device that is not listed; the task runs.
Register(d, l) ==
    /\ live' = IF d \in known THEN [live EXCEPT ![d] = Append(@, l)] ELSE live
    /\ apc' = IF d = "a" /\ d \in known THEN [apc EXCEPT ![l] = "flush"] ELSE apc

\* connect_and_serve, once the connection stands and the Ping is written.
Connect(l) ==
    /\ phase[l] = "dialing"
    /\ phase' = [phase EXCEPT ![l] = "ring"]
    /\ task' = [task EXCEPT ![l] = {l[1]}]
    /\ Register(l[1], l)
    /\ UNCHANGED <<known, author, reader, files, msgs, acks, arows, bpc, bmsg, unlink, lost, used>>

\* handle_incoming: a session for a listed device, a refusal otherwise.
Accept(l) ==
    LET d == Other(l[1])
    IN  /\ phase[l] = "ring"
        /\ phase' = [phase EXCEPT ![l] = "up"]
        /\ IF d \in known
           THEN task' = [task EXCEPT ![l] = @ \cup {d}] /\ Register(d, l) /\ UNCHANGED <<msgs, lost>>
           ELSE /\ lost' = lost \cup msgs[l]
                /\ msgs' = [msgs EXCEPT ![l] = {}]
                /\ UNCHANGED <<task, live, apc>>
        /\ UNCHANGED <<known, author, reader, files, acks, arows, bpc, bmsg, unlink, used>>

\* d's ends of the sessions ls are over, with what they had not read; a
\* session without ends is free again.  gone is what else is lost.
EndTasks(d, ls, gone) ==
    LET over(l) == l \in ls /\ task[l] \subseteq {d} /\ (phase[l] = "up" \/ l[1] = d)
        drops(l) == over(l) \/ (l \in ls /\ d = "b")
    IN  /\ task' = [l \in Link |-> IF l \in ls THEN task[l] \ {d} ELSE task[l]]
        /\ phase' = [l \in Link |-> IF over(l) THEN "idle"
                                    ELSE IF l \in ls THEN "up" ELSE phase[l]]
        /\ msgs' = [l \in Link |-> IF drops(l) THEN {} ELSE msgs[l]]
        /\ lost' = lost \cup gone \cup UNION {msgs[l] \cup (IF d = "b" THEN bmsg[l] ELSE {}) :
                                    l \in {k \in Link : drops(k)}}
        /\ acks' = [l \in Link |-> IF over(l) \/ (l \in ls /\ d = "a") THEN {} ELSE acks[l]]
        /\ apc' = [l \in Link |-> IF l \in ls /\ d = "a" THEN "serve" ELSE apc[l]]
        /\ arows' = [l \in Link |-> IF l \in ls /\ d = "a" THEN {} ELSE arows[l]]
        /\ bpc' = [l \in Link |-> IF l \in ls /\ d = "b" THEN "serve" ELSE bpc[l]]
        /\ bmsg' = [l \in Link |-> IF l \in ls /\ d = "b" THEN {} ELSE bmsg[l]]

\* The end is between two frames.
Serving(d, l) == d \in task[l] /\ IF d = "a" THEN apc[l] = "serve" ELSE bpc[l] = "serve"

\* remove_live: a session is listed once.
Without(ls, l) ==
    IF \E n \in DOMAIN ls : ls[n] = l
    THEN LET n == CHOOSE n \in DOMAIN ls : ls[n] = l
         IN  SubSeq(ls, 1, n - 1) \o SubSeq(ls, n + 1, Len(ls))
    ELSE ls

\* The end of session_task.
EndOne(d, l) ==
    /\ Serving(d, l)
    /\ EndTasks(d, {l}, {})
    /\ live' = [live EXCEPT ![d] = Without(@, l)]
    /\ UNCHANGED <<known, author, reader, files, unlink>>

\* A session_task ends by itself: stream error or idle timeout.
Break(d, l) ==
    /\ used.breaks < MaxBreaks
    /\ used' = [used EXCEPT !.breaks = @ + 1]
    /\ EndOne(d, l)

\* The other end is gone.
Notice(d, l) ==
    /\ phase[l] = "up"
    /\ task[l] = {d}
    /\ EndOne(d, l)
    /\ UNCHANGED used

\* remove_peer: the Peer and its handles go under the lock, the file after
\* it.  The session tasks own a sender of their own and go on.
RemovePeer(d) ==
    /\ d \in Removes
    /\ d \in known
    /\ known' = known \ {d}
    /\ unlink' = unlink \cup {d}
    /\ live' = [live EXCEPT ![d] = << >>]
    /\ IF d = "a"
       THEN /\ out' = [i \in Id |-> "none"]
            /\ queued' = {}
            /\ UNCHANGED got
       ELSE /\ got' = [i \in Id |-> 0]
            /\ UNCHANGED <<out, queued>>
    /\ UNCHANGED <<said, unsaved, stored, cut, files, task, phase, msgs, acks, ends, lost, used>>

Unlink(d) ==
    /\ d \in unlink
    /\ unlink' = unlink \ {d}
    /\ IF d = "a" THEN rows' = [i \in Id |-> << >>] /\ UNCHANGED inrow
                  ELSE inrow' = [i \in Id |-> 0] /\ UNCHANGED rows
    /\ UNCHANGED <<known, author, reader, live, task, phase, msgs, acks, ends, lost, used>>

\* The process of d ends, with its sessions and with what it has not yet
\* written, and starts again from its files.
Restart(d) ==
    /\ d \in Restarts
    /\ used.restarts < MaxRestarts
    /\ used' = [used EXCEPT !.restarts = @ + 1]
    /\ EndTasks(d, {l \in Link : d \in task[l] \/ phase[l] = "ring"
                                 \/ (phase[l] = "dialing" /\ l[1] = d)},
                IF d = "a" THEN {r.id : r \in unsaved} ELSE {})
    /\ live' = [live EXCEPT ![d] = << >>]
    /\ unlink' = unlink \ {d}
    /\ IF d = "a"
       THEN /\ out' = IF d \in known THEN CollapseHistory(rows) ELSE out
            /\ queued' = IF d \in known THEN QueuedFrom(CollapseHistory(rows)) ELSE {}
            /\ unsaved' = {}
            /\ UNCHANGED <<got, cut>>
       ELSE /\ got' = IF d \in known THEN inrow ELSE got
            /\ cut' = cut \cup UNION {bmsg[l] : l \in {k \in Link : bpc[k] = "write"}}
            /\ UNCHANGED <<out, queued, unsaved>>
    /\ UNCHANGED <<known, said, stored, files>>

Init ==
    /\ known = Dev
    /\ said = {} /\ out = [i \in Id |-> "none"] /\ queued = {}
    /\ rows = [i \in Id |-> << >>] /\ unsaved = {}
    /\ got = [i \in Id |-> 0] /\ inrow = [i \in Id |-> 0]
    /\ live = [d \in Dev |-> << >>]
    /\ task = [l \in Link |-> {}] /\ phase = [l \in Link |-> "idle"]
    /\ msgs = [l \in Link |-> {}] /\ acks = [l \in Link |-> {}]
    /\ apc = [l \in Link |-> "serve"] /\ arows = [l \in Link |-> {}]
    /\ bpc = [l \in Link |-> "serve"] /\ bmsg = [l \in Link |-> {}]
    /\ unlink = {} /\ stored = {} /\ cut = {} /\ lost = {}
    /\ used = [breaks |-> 0, restarts |-> 0]

AuthorStep(l) == FlushQueue(l) \/ WriteRows(l) \/ (\E i \in Id : RecvAck(l, i))
ReaderStep(l) == (\E i \in Id : RecvMsg(l, i)) \/ StoreMsg(l) \/ WriteIn(l) \/ SendAck(l)

Next ==
    \/ \E i \in Id : Send(i)
    \/ \E r \in Row : SaveRow(r)
    \/ \E l \in Link : \/ AuthorStep(l) \/ ReaderStep(l)
                       \/ Dial(l) \/ DialFails(l) \/ Connect(l) \/ Accept(l)
                       \/ \E d \in Dev : Break(d, l) \/ Notice(d, l)
    \/ \E d \in Dev : RemovePeer(d) \/ Unlink(d) \/ Restart(d)

Spec == Init /\ [][Next]_vars

\* The maintenance loop dials offline peers again and again, session tasks
\* read what arrives, a dead connection is noticed by the idle timeout.
FairSpec ==
    /\ Spec
    /\ \A r \in Row : WF_vars(SaveRow(r))
    /\ \A l \in Link :
          /\ WF_vars(AuthorStep(l)) /\ WF_vars(ReaderStep(l))
          /\ WF_vars(Dial(l)) /\ WF_vars(Connect(l)) /\ WF_vars(Accept(l))
          /\ \A d \in Dev : WF_vars(Notice(d, l))

-----------------------------------------------------------------------------
(* Properties *)

\* Every variable has its type.
TypeOK ==
    /\ known \subseteq Dev
    /\ said \subseteq Id
    /\ out \in [Id -> State]
    /\ queued \subseteq Id
    /\ rows \in [Id -> Seq({"queued", "sent", "acked"})]
    /\ unsaved \subseteq Row
    /\ got \in [Id -> Nat] /\ inrow \in [Id -> Nat]
    /\ live \in [Dev -> Seq(Link)]
    /\ task \in [Link -> SUBSET Dev]
    /\ phase \in [Link -> {"idle", "dialing", "ring", "up"}]
    /\ msgs \in [Link -> SUBSET Id] /\ acks \in [Link -> SUBSET Id]
    /\ apc \in [Link -> {"serve", "flush", "write"}] /\ arows \in [Link -> SUBSET Row]
    /\ bpc \in [Link -> {"serve", "store", "write", "ack"}] /\ bmsg \in [Link -> SUBSET Id]
    /\ unlink \subseteq Dev
    /\ stored \subseteq Id /\ cut \subseteq Id /\ lost \subseteq Id
    /\ used \in [breaks : 0..MaxBreaks, restarts : 0..MaxRestarts]

\* While b keeps the chat, a text a shows as delivered is in b's file, or a
\* task of b is appending it right now, or b's process ended during that
\* append.  handle_frame writes the row before it answers, but a second
\* session may answer for the copy in memory (p2p.rs:1604): only the append
\* under way, or cut short, is left between the tick and the disk.
AckDurable ==
    "b" \in known => \A i \in Id : out[i] = "acked" =>
        \/ inrow[i] > 0
        \/ \E l \in Link : bpc[l] = "write" /\ i \in bmsg[l]
        \/ i \in cut

\* In memory the send queue is exactly the texts marked "queued"; and every
\* text that waits there is read back as queued at the next start, or its row
\* is just being written: a text written while the peer was offline survives a
\* restart.  (The converse does not hold: a text on a session is read back
\* as queued when the row "sent" was not yet written.)
QueueDurable ==
    /\ queued = QueuedFrom(out)
    /\ \A i \in queued : RowOf(i, "queued") \in unsaved \/ CollapseHistory(rows)[i] = "queued"

\* A text marked "sent" that b never stored is still on its way, unless a
\* session ended under it: nothing else loses a text.
SentIsAccounted ==
    known = Dev => \A i \in Id : out[i] = "sent" =>
        \/ i \in stored \cup lost
        \/ \E l \in Link : i \in msgs[l] \cup bmsg[l]

\* Every text a has written reaches b, unless a session ended under it or
\* somebody removed the other one: the queue is flushed on reconnect.
Arrives == \A i \in Id : i \in said ~> (i \in stored \cup lost \/ known # Dev)
=============================================================================
