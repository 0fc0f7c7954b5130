-------------------------- MODULE DirectChatProofs --------------------------
(***************************************************************************)
(* QueueDurable, SentIsAccounted and AckDurable of DirectChat, for any     *)
(* texts, sessions, breaks and restarts.                                   *)
(*                                                                         *)
(* QueueDurable rests on what the rest of the engine does with a queued    *)
(* text: nobody writes a row with another state of it (QueueRows) and no   *)
(* session this run of a reads carries it (QueueQuiet), because an earlier *)
(* session that does has lost its end at a.  SentIsAccounted has to speak  *)
(* of the rows a will read at its next start too (SentRows), and needs     *)
(* that b has in memory, in its file and in the hands of a task that is to *)
(* acknowledge only what it put into its history (StoredFirst).            *)
(*                                                                         *)
(* For AckDurable: b's memory is ahead of its file only by what a task is  *)
(* about to write, and what a knows as delivered was in b's memory when b  *)
(* answered, so it is kept, or b's process ended under the task (Durable). *)
(***************************************************************************)
EXTENDS DirectChat, TLAPS

\* The texts that are on a session, either way.
Carried(l) == msgs[l] \cup bmsg[l] \cup acks[l]

\* A session that is not connected has no ends and carries nothing.
FreeIsEmpty == \A l \in Link : phase[l] \in {"idle", "dialing"} => task[l] = {} /\ Carried(l) = {}

\* What an end is at goes with its task.
Held == \A l \in Link : (arows[l] # {} => "a" \in task[l]) /\ (bmsg[l] # {} => "b" \in task[l])

\* The rows somebody has still to append to a's file.
Pending(r) == r \in unsaved \/ \E l \in Link : r \in arows[l]

\* A text that is not written yet is nowhere.
Unsaid ==
    \A i \in Id \ said :
        /\ out[i] = "none" /\ rows[i] = << >>
        /\ \A r \in Row : Pending(r) => r.id # i
        /\ \A l \in Link : i \notin Carried(l)

\* A removed peer has no texts, and only its file is deleted.
Removed == unlink \cap known = {} /\ ("a" \notin known => \A i \in Id : out[i] = "none")

\* Nobody writes another state of a queued text,
QueueRows == \A i \in queued, r \in Row : Pending(r) /\ r.id = i => r.state = "queued"

\* ... or acknowledges it to this run of a.
QueueQuiet == \A i \in queued, l \in Link : Reads(l, "a") => i \notin Carried(l)

\* b has a text in memory and in its file only after it put it into its history.
StoredFirst ==
    /\ \A i \in Id : got[i] > 0 \/ inrow[i] > 0 => i \in stored
    /\ \A l \in Link : bpc[l] = "write" \/ (bpc[l] = "ack" /\ "b" \in known) => bmsg[l] \subseteq stored

\* b's end has a text only while it works on it.
BetweenFrames == \A l \in Link : bpc[l] = "serve" => bmsg[l] = {}

Accounted(i) == i \in stored \cup lost \/ \E l \in Link : i \in msgs[l] \cup bmsg[l]

\* What a or its file knows as sent.
KnownSent(i) ==
    \/ out[i] = "sent"
    \/ Pending(RowOf(i, "sent"))
    \/ \E n \in DOMAIN rows[i] : rows[i][n] = "sent"

\* SentIsAccounted also for what the next start reads.
SentRows == known = Dev => \A i \in Id : KnownSent(i) => Accounted(i)

ChatInv ==
    /\ FreeIsEmpty /\ Held /\ Unsaid /\ Removed
    /\ QueueDurable /\ QueueRows /\ QueueQuiet
    /\ StoredFirst /\ BetweenFrames /\ SentRows
IInv == TypeOK /\ ChatInv

\* The bounds are numbers.
LEMMA Bounds ==
    /\ Slots \in Nat /\ MaxBreaks \in Nat /\ MaxRestarts \in Nat
    /\ Restarts \subseteq Dev /\ Removes \subseteq Dev
BY DirectAssumption

USE Bounds

FileState == {"queued", "sent", "acked"}
Phase == {"idle", "dialing", "ring", "up"}
APc == {"serve", "flush", "write"}
BPc == {"serve", "store", "write", "ack"}

-----------------------------------------------------------------------------
(* Types *)

\* A session has the two devices at its ends.
LEMMA LinkEnds ==
    ASSUME NEW l \in Link
    PROVE  l[1] \in Dev /\ Other(l[1]) \in Dev /\ Other(l[1]) # l[1]
<1>1. l \in Dev \X (1..Slots)
  BY DEF Link
<1>2. l[1] \in Dev
  BY <1>1
<1> QED
  BY <1>2 DEF Dev, Other

\* A row is a text and a state.
LEMMA RowType ==
    /\ \A i \in Id, s \in FileState : RowOf(i, s) \in Row /\ RowOf(i, s).id = i /\ RowOf(i, s).state = s
    /\ \A r \in Row : r.id \in Id /\ r.state \in FileState /\ r = RowOf(r.id, r.state)
BY DEF RowOf, Row, FileState

\* A row more at the end of its text's rows.
LEMMA AppendedType ==
    ASSUME TypeOK, NEW rs \in SUBSET Row
    PROVE  /\ Appended(rs) \in [Id -> Seq(FileState)]
           /\ \A i \in Id : (\A r \in rs : r.id # i) => Appended(rs)[i] = rows[i]
           /\ \A i \in Id : (\E r \in rs : r.id = i) =>
                 \E r \in rs : r.id = i /\ Appended(rs)[i] = Append(rows[i], r.state)
<1>1. rows \in [Id -> Seq(FileState)]
  BY DEF TypeOK, FileState
<1>2. ASSUME NEW i \in Id
      PROVE  /\ Appended(rs)[i] \in Seq(FileState)
             /\ (\A r \in rs : r.id # i) => Appended(rs)[i] = rows[i]
             /\ (\E r \in rs : r.id = i) =>
                 \E r \in rs : r.id = i /\ Appended(rs)[i] = Append(rows[i], r.state)
  <2>1. CASE \E r \in rs : r.id = i
    <3> DEFINE x == CHOOSE r \in rs : r.id = i
    <3>1. x \in rs /\ x.id = i
      BY <2>1
    <3>2. x.state \in FileState
      BY <3>1, RowType
    <3>3. Appended(rs)[i] = Append(rows[i], x.state)
      BY <2>1 DEF Appended
    <3> HIDE DEF x
    <3>4. Append(rows[i], x.state) \in Seq(FileState)
      BY <1>1, <3>2
    <3> QED
      BY <3>1, <3>3, <3>4
  <2>2. CASE \A r \in rs : r.id # i
    <3>1. Appended(rs)[i] = rows[i]
      BY <2>2 DEF Appended
    <3> QED
      BY <1>1, <2>2, <3>1
  <2> QED
    BY <2>1, <2>2
<1>3. Appended(rs) = [i \in Id |-> Appended(rs)[i]]
  BY DEF Appended
<1> QED
  BY <1>2, <1>3

\* The state of a text in the file is the one of its last row.
LEMMA CollapseType ==
    ASSUME NEW rs \in [Id -> Seq(FileState)]
    PROVE  /\ CollapseHistory(rs) \in [Id -> State]
           /\ \A i \in Id : CollapseHistory(rs)[i] # "none" =>
                 rs[i] # << >> /\ Len(rs[i]) \in DOMAIN rs[i] /\ CollapseHistory(rs)[i] = rs[i][Len(rs[i])]
<1>1. ASSUME NEW i \in Id, rs[i] # << >>
      PROVE  Len(rs[i]) \in DOMAIN rs[i] /\ rs[i][Len(rs[i])] \in FileState
  BY <1>1
<1> QED
  BY <1>1 DEF CollapseHistory, State, FileState

\* Texts are put on a session or counted as lost.
LEMMA PutType ==
    ASSUME TypeOK, NEW l \in Link, NEW is \in SUBSET Id, Put(l, is)
    PROVE  /\ msgs' \in [Link -> SUBSET Id] /\ lost' \in SUBSET Id
           /\ lost \subseteq lost'
           /\ \A k \in Link : k # l => msgs'[k] = msgs[k]
           /\ msgs[l] \subseteq msgs'[l]
           /\ msgs'[l] \subseteq msgs[l] \cup is
           /\ is \subseteq msgs'[l] \cup lost'
           /\ ~Reads(l, "b") => msgs' = msgs
<1>1. msgs \in [Link -> SUBSET Id] /\ lost \in SUBSET Id
  BY DEF TypeOK
<1>2. CASE Reads(l, "b")
  <2>1. msgs' = [msgs EXCEPT ![l] = msgs[l] \cup is] /\ lost' = lost
    BY <1>2 DEF Put
  <2> QED
    BY <1>1, <1>2, <2>1
<1>3. CASE ~Reads(l, "b")
  BY <1>1, <1>3 DEF Put
<1> QED
  BY <1>2, <1>3

\* remove_live leaves sessions only.
LEMMA WithoutType ==
    ASSUME NEW ls \in Seq(Link), NEW l \in Link
    PROVE  Without(ls, l) \in Seq(Link)
<1>1. CASE \E n \in DOMAIN ls : ls[n] = l
  <2> DEFINE n == CHOOSE n \in DOMAIN ls : ls[n] = l
  <2>1. n \in 1..Len(ls)
    BY <1>1
  <2>2. Without(ls, l) = SubSeq(ls, 1, n - 1) \o SubSeq(ls, n + 1, Len(ls))
    BY <1>1 DEF Without
  <2> HIDE DEF n
  <2>3. SubSeq(ls, 1, n - 1) \in Seq(Link) /\ SubSeq(ls, n + 1, Len(ls)) \in Seq(Link)
    BY <2>1
  <2> QED
    BY <2>2, <2>3
<1>2. CASE ~\E n \in DOMAIN ls : ls[n] = l
  BY <1>2 DEF Without
<1> QED
  BY <1>1, <1>2

\* What the end of d's tasks on the sessions ls does to a session.
LEMMA Ended ==
    ASSUME TypeOK, NEW d \in Dev, NEW ls \in SUBSET Link, NEW gone \in SUBSET Id, EndTasks(d, ls, gone),
           NEW l \in Link
    PROVE  /\ l \notin ls => /\ task'[l] = task[l] /\ phase'[l] = phase[l] /\ msgs'[l] = msgs[l]
                             /\ acks'[l] = acks[l] /\ arows'[l] = arows[l] /\ apc'[l] = apc[l]
                             /\ bpc'[l] = bpc[l] /\ bmsg'[l] = bmsg[l]
           /\ l \in ls => /\ task'[l] = task[l] \ {d} /\ phase'[l] \in {"idle", "up"}
                          /\ phase'[l] = "idle" => task'[l] = {} /\ msgs'[l] = {} /\ acks'[l] = {}
                          /\ acks'[l] \subseteq acks[l]
           /\ l \in ls /\ d = "a" => /\ acks'[l] = {} /\ arows'[l] = {} /\ apc'[l] = "serve"
                                     /\ bpc'[l] = bpc[l] /\ bmsg'[l] = bmsg[l]
                                     /\ msgs'[l] = msgs[l] \/ (msgs'[l] = {} /\ msgs[l] \subseteq lost')
           /\ l \in ls /\ d = "b" => /\ msgs'[l] = {} /\ msgs[l] \cup bmsg[l] \subseteq lost'
                                     /\ bpc'[l] = "serve" /\ bmsg'[l] = {}
                                     /\ arows'[l] = arows[l] /\ apc'[l] = apc[l]
           /\ lost \subseteq lost' /\ gone \subseteq lost'
<1> DEFINE over(k) == k \in ls /\ task[k] \subseteq {d} /\ (phase[k] = "up" \/ k[1] = d)
           drops(k) == over(k) \/ (k \in ls /\ d = "b")
<1>1. /\ task'[l] = (IF l \in ls THEN task[l] \ {d} ELSE task[l])
      /\ phase'[l] = (IF over(l) THEN "idle" ELSE IF l \in ls THEN "up" ELSE phase[l])
      /\ msgs'[l] = (IF drops(l) THEN {} ELSE msgs[l])
      /\ acks'[l] = (IF over(l) \/ (l \in ls /\ d = "a") THEN {} ELSE acks[l])
  BY DEF EndTasks
<1>2. /\ apc'[l] = (IF l \in ls /\ d = "a" THEN "serve" ELSE apc[l])
      /\ arows'[l] = (IF l \in ls /\ d = "a" THEN {} ELSE arows[l])
      /\ bpc'[l] = (IF l \in ls /\ d = "b" THEN "serve" ELSE bpc[l])
      /\ bmsg'[l] = (IF l \in ls /\ d = "b" THEN {} ELSE bmsg[l])
  BY DEF EndTasks
<1>3. lost' = lost \cup gone \cup UNION {msgs[k] \cup (IF d = "b" THEN bmsg[k] ELSE {}) :
                                    k \in {k \in Link : drops(k)}}
  BY DEF EndTasks
<1>4. drops(l) => msgs[l] \cup (IF d = "b" THEN bmsg[l] ELSE {}) \subseteq lost'
  BY <1>3
<1>5. lost \subseteq lost' /\ gone \subseteq lost'
  BY <1>3
<1>6. over(l) => drops(l) /\ l \in ls /\ task[l] \subseteq {d}
  OBVIOUS
<1>7. l \in ls /\ d = "b" => drops(l)
  OBVIOUS
<1>8. drops(l) => l \in ls
  OBVIOUS
<1> HIDE DEF over, drops
<1> QED
  BY <1>1, <1>2, <1>4, <1>5, <1>6, <1>7, <1>8 DEF Dev

\* Those of other sessions go on.
LEMMA EndedElse ==
    ASSUME TypeOK, NEW d \in Dev, NEW ls \in SUBSET Link, NEW gone \in SUBSET Id, EndTasks(d, ls, gone),
           NEW l \in Link, l \notin ls
    PROVE  /\ task'[l] = task[l] /\ phase'[l] = phase[l] /\ msgs'[l] = msgs[l]
           /\ acks'[l] = acks[l] /\ arows'[l] = arows[l] /\ apc'[l] = apc[l]
           /\ bpc'[l] = bpc[l] /\ bmsg'[l] = bmsg[l]
<1>1. task'[l] = task[l] /\ phase'[l] = phase[l] /\ msgs'[l] = msgs[l] /\ acks'[l] = acks[l]
  BY DEF EndTasks
<1>2. arows'[l] = arows[l] /\ apc'[l] = apc[l] /\ bpc'[l] = bpc[l] /\ bmsg'[l] = bmsg[l]
  BY DEF EndTasks
<1> QED
  BY <1>1, <1>2

\* a's end is over: acknowledgements and rows are gone.
LEMMA EndedA ==
    ASSUME TypeOK, NEW ls \in SUBSET Link, NEW gone \in SUBSET Id, EndTasks("a", ls, gone),
           NEW l \in ls
    PROVE  /\ task'[l] = task[l] \ {"a"} /\ phase'[l] \in {"idle", "up"}
           /\ phase'[l] = "idle" => task'[l] = {} /\ msgs'[l] = {}
           /\ acks'[l] = {} /\ arows'[l] = {} /\ apc'[l] = "serve"
           /\ bpc'[l] = bpc[l] /\ bmsg'[l] = bmsg[l]
           /\ msgs'[l] = msgs[l] \/ (msgs'[l] = {} /\ msgs[l] \subseteq lost')
<1>1. "a" \in Dev /\ l \in Link
  BY DEF Dev
<1>2. l \in ls => /\ task'[l] = task[l] \ {"a"} /\ phase'[l] \in {"idle", "up"}
                  /\ phase'[l] = "idle" => task'[l] = {} /\ msgs'[l] = {} /\ acks'[l] = {}
                  /\ acks'[l] \subseteq acks[l]
  BY <1>1, Ended
<1>3. l \in ls /\ "a" = "a" => /\ acks'[l] = {} /\ arows'[l] = {} /\ apc'[l] = "serve"
                               /\ bpc'[l] = bpc[l] /\ bmsg'[l] = bmsg[l]
                               /\ msgs'[l] = msgs[l] \/ (msgs'[l] = {} /\ msgs[l] \subseteq lost')
  BY <1>1, Ended
<1> QED
  BY <1>2, <1>3

\* b's end is over: texts are lost.
LEMMA EndedB ==
    ASSUME TypeOK, NEW ls \in SUBSET Link, NEW gone \in SUBSET Id, EndTasks("b", ls, gone),
           NEW l \in ls
    PROVE  /\ task'[l] = task[l] \ {"b"} /\ phase'[l] \in {"idle", "up"}
           /\ phase'[l] = "idle" => task'[l] = {} /\ acks'[l] = {}
           /\ acks'[l] \subseteq acks[l] /\ arows'[l] = arows[l] /\ apc'[l] = apc[l]
           /\ bpc'[l] = "serve" /\ bmsg'[l] = {}
           /\ msgs'[l] = {} /\ msgs[l] \cup bmsg[l] \subseteq lost'
<1>1. "b" \in Dev /\ l \in Link
  BY DEF Dev
<1>2. l \in ls => /\ task'[l] = task[l] \ {"b"} /\ phase'[l] \in {"idle", "up"}
                  /\ phase'[l] = "idle" => task'[l] = {} /\ msgs'[l] = {} /\ acks'[l] = {}
                  /\ acks'[l] \subseteq acks[l]
  BY <1>1, Ended
<1>3. bpc'[l] = "serve" /\ bmsg'[l] = {} /\ arows'[l] = arows[l] /\ apc'[l] = apc[l]
  BY <1>1 DEF EndTasks
<1>4. msgs'[l] = {}
  BY <1>1 DEF EndTasks
<1>5. msgs[l] \cup bmsg[l] \subseteq lost'
  BY <1>1 DEF EndTasks
<1> QED
  BY <1>2, <1>3, <1>4, <1>5

\* ... and to the types.
LEMMA EndedType ==
    ASSUME TypeOK, NEW d \in Dev, NEW ls \in SUBSET Link, NEW gone \in SUBSET Id, EndTasks(d, ls, gone)
    PROVE  /\ task' \in [Link -> SUBSET Dev] /\ phase' \in [Link -> Phase]
           /\ msgs' \in [Link -> SUBSET Id] /\ acks' \in [Link -> SUBSET Id] /\ lost' \in SUBSET Id
           /\ apc' \in [Link -> APc] /\ arows' \in [Link -> SUBSET Row]
           /\ bpc' \in [Link -> BPc] /\ bmsg' \in [Link -> SUBSET Id]
<1>1. /\ task \in [Link -> SUBSET Dev] /\ phase \in [Link -> Phase]
      /\ msgs \in [Link -> SUBSET Id] /\ acks \in [Link -> SUBSET Id] /\ lost \in SUBSET Id
      /\ apc \in [Link -> APc] /\ arows \in [Link -> SUBSET Row]
      /\ bpc \in [Link -> BPc] /\ bmsg \in [Link -> SUBSET Id]
  BY DEF TypeOK, Phase, APc, BPc
<1>2. task' \in [Link -> SUBSET Dev] /\ phase' \in [Link -> Phase]
  BY <1>1 DEF EndTasks, Phase
<1>3. msgs' \in [Link -> SUBSET Id] /\ acks' \in [Link -> SUBSET Id]
  BY <1>1 DEF EndTasks
<1>4. apc' \in [Link -> APc] /\ arows' \in [Link -> SUBSET Row]
  BY <1>1 DEF EndTasks, APc
<1>5. bpc' \in [Link -> BPc] /\ bmsg' \in [Link -> SUBSET Id]
  BY <1>1 DEF EndTasks, BPc
<1>6. lost' \in SUBSET Id
  BY <1>1 DEF EndTasks
<1> QED
  BY <1>2, <1>3, <1>4, <1>5, <1>6

\* The end of a session task, or of a process.
LEMMA EndType ==
    ASSUME TypeOK, NEW d \in Dev, (\E l \in Link : Break(d, l) \/ Notice(d, l)) \/ Restart(d)
    PROVE  TypeOK'
<1> DEFINE A == /\ task' \in [Link -> SUBSET Dev] /\ phase' \in [Link -> Phase]
                /\ msgs' \in [Link -> SUBSET Id] /\ acks' \in [Link -> SUBSET Id] /\ lost' \in SUBSET Id
                /\ apc' \in [Link -> APc] /\ arows' \in [Link -> SUBSET Row]
                /\ bpc' \in [Link -> BPc] /\ bmsg' \in [Link -> SUBSET Id]
<1>a. live \in [Dev -> Seq(Link)] /\ used \in [breaks : 0..MaxBreaks, restarts : 0..MaxRestarts]
  BY DEF TypeOK
<1>b. rows \in [Id -> Seq(FileState)] /\ out \in [Id -> State]
  BY DEF TypeOK, FileState
<1>1. ASSUME NEW l \in Link, EndOne(d, l), used' \in [breaks : 0..MaxBreaks, restarts : 0..MaxRestarts]
      PROVE  TypeOK'
  <2>1. A
    <3>1. EndTasks(d, {l}, {}) /\ {l} \in SUBSET Link /\ {} \in SUBSET Id
      BY <1>1 DEF EndOne
    <3> QED
      BY <3>1, EndedType
  <2>2. live' \in [Dev -> Seq(Link)]
    <3>1. Without(live[d], l) \in Seq(Link)
      BY <1>a, WithoutType
    <3> QED
      BY <1>a, <1>1, <3>1 DEF EndOne
  <2>3. UNCHANGED <<known, author, reader, files, unlink>>
    BY <1>1 DEF EndOne
  <2> QED
    BY <1>1, <2>1, <2>2, <2>3 DEF TypeOK, author, reader, files, Phase, APc, BPc
<1>2. ASSUME NEW l \in Link, Break(d, l) PROVE TypeOK'
  <2>1. used' \in [breaks : 0..MaxBreaks, restarts : 0..MaxRestarts]
    BY <1>a, <1>2 DEF Break
  <2> QED
    BY <1>1, <1>2, <2>1 DEF Break
<1>3. ASSUME NEW l \in Link, Notice(d, l) PROVE TypeOK'
  BY <1>a, <1>1, <1>3 DEF Notice
<1>4. CASE Restart(d)
  <2>1. A
    <3> DEFINE ls == {l \in Link : d \in task[l] \/ phase[l] = "ring" \/ (phase[l] = "dialing" /\ l[1] = d)}
               gone == IF d = "a" THEN {r.id : r \in unsaved} ELSE {}
    <3>1. ls \in SUBSET Link /\ EndTasks(d, ls, gone)
      BY <1>4 DEF Restart
    <3>2. gone \in SUBSET Id
      BY RowType DEF TypeOK
    <3> HIDE DEF ls, gone
    <3> QED
      BY <3>1, <3>2, EndedType
  <2>2. used' \in [breaks : 0..MaxBreaks, restarts : 0..MaxRestarts]
    <3>1. used.restarts < MaxRestarts /\ used' = [used EXCEPT !.restarts = @ + 1]
      BY <1>4 DEF Restart
    <3> QED
      BY <1>a, <3>1
  <2>3. live' \in [Dev -> Seq(Link)]
    BY <1>a, <1>4 DEF Restart
  <2>4. CollapseHistory(rows) \in [Id -> State]
    BY <1>b, CollapseType
  <2>5. out' \in [Id -> State] /\ queued' \subseteq Id /\ unsaved' \subseteq Row
    BY <1>b, <1>4, <2>4 DEF Restart, QueuedFrom, TypeOK
  <2>6. got' \in [Id -> Nat] /\ unlink' \subseteq Dev
    BY <1>4 DEF Restart, TypeOK
  <2>7. UNCHANGED <<known, said, stored, files>>
    BY <1>4 DEF Restart
  <2>8. cut' \subseteq Id
    <3>1. \A l \in Link : bmsg[l] \subseteq Id
      BY DEF TypeOK
    <3>2. cut' = cut \/ cut' = cut \cup UNION {bmsg[l] : l \in {k \in Link : bpc[k] = "write"}}
      BY <1>4 DEF Restart
    <3> QED
      BY <3>1, <3>2 DEF TypeOK
  <2> QED
    BY <2>1, <2>2, <2>3, <2>5, <2>6, <2>7, <2>8 DEF TypeOK, files, Phase, APc, BPc
<1> QED
  BY <1>2, <1>3, <1>4

\* Every step keeps the types.
LEMMA TypeStep == TypeOK /\ [Next]_vars => TypeOK'
<1> SUFFICES ASSUME TypeOK, [Next]_vars PROVE TypeOK'
  OBVIOUS
<1>a. live \in [Dev -> Seq(Link)] /\ used \in [breaks : 0..MaxBreaks, restarts : 0..MaxRestarts]
  BY DEF TypeOK
<1>b. rows \in [Id -> Seq(FileState)] /\ out \in [Id -> State]
  BY DEF TypeOK, FileState
<1>1. ASSUME NEW i \in Id, Send(i) PROVE TypeOK'
  <2>1. CASE Online("a")
    <3>1. Head(live["a"]) \in Link
      BY <1>a, <2>1 DEF Online, Dev
    <3>2. msgs' \in [Link -> SUBSET Id] /\ lost' \in SUBSET Id
      BY <1>1, <2>1, <3>1, PutType DEF Send
    <3>3. out' \in [Id -> State] /\ unsaved' \subseteq Row /\ queued' = queued
      <4>1. /\ out' = [out EXCEPT ![i] = "sent"] /\ queued' = queued
            /\ unsaved' = unsaved \cup {RowOf(i, "sent")}
        BY <1>1, <2>1 DEF Send
      <4>2. RowOf(i, "sent") \in Row /\ unsaved \subseteq Row
        BY RowType DEF TypeOK, FileState
      <4> QED
        BY <1>b, <4>1, <4>2 DEF State
    <3> QED
      BY <1>1, <3>2, <3>3 DEF Send, TypeOK, reader, files, ends
  <2>2. CASE ~Online("a")
    <3>3. out' \in [Id -> State] /\ unsaved' \subseteq Row /\ queued' \subseteq Id /\ UNCHANGED <<msgs, lost>>
      <4>1. /\ out' = [out EXCEPT ![i] = "queued"] /\ queued' = queued \cup {i}
            /\ unsaved' = unsaved \cup {RowOf(i, "queued")} /\ UNCHANGED <<msgs, lost>>
        BY <1>1, <2>2 DEF Send
      <4>2. RowOf(i, "queued") \in Row /\ unsaved \subseteq Row /\ queued \subseteq Id
        BY RowType DEF TypeOK, FileState
      <4> QED
        BY <1>b, <4>1, <4>2 DEF State
    <3> QED
      BY <1>1, <3>3 DEF Send, TypeOK, reader, files, ends
  <2> QED
    BY <2>1, <2>2
<1>2. ASSUME NEW r \in Row, SaveRow(r) PROVE TypeOK'
  <2>1. {r} \in SUBSET Row
    OBVIOUS
  <2>2. rows' \in [Id -> Seq({"queued", "sent", "acked"})]
    BY <1>2, <2>1, AppendedType DEF SaveRow, FileState
  <2> QED
    BY <1>2, <2>2 DEF SaveRow, TypeOK, reader, ends
<1>3. ASSUME NEW l \in Link, AuthorStep(l) PROVE TypeOK'
  <2>1. CASE FlushQueue(l)
    <3>1. msgs' \in [Link -> SUBSET Id] /\ lost' \in SUBSET Id
      BY <2>1, PutType DEF FlushQueue, TypeOK
    <3>2. {RowOf(i, "sent") : i \in queued} \subseteq Row
      BY RowType DEF TypeOK, FileState
    <3>3. out' \in [Id -> State] /\ queued' \subseteq Id
      BY <1>b, <2>1 DEF FlushQueue, State
    <3>4. apc' \in [Link -> {"serve", "flush", "write"}] /\ arows' \in [Link -> SUBSET Row]
      BY <2>1, <3>2 DEF FlushQueue, TypeOK
    <3> QED
      BY <2>1, <3>1, <3>3, <3>4 DEF FlushQueue, TypeOK, reader, files
  <2>2. CASE WriteRows(l)
    <3>1. arows[l] \in SUBSET Row
      BY DEF TypeOK
    <3>2. rows' \in [Id -> Seq({"queued", "sent", "acked"})]
      BY <2>2, <3>1, AppendedType DEF WriteRows, FileState
    <3>3. apc' \in [Link -> {"serve", "flush", "write"}] /\ arows' \in [Link -> SUBSET Row]
      BY <2>2 DEF WriteRows, TypeOK
    <3> QED
      BY <2>2, <3>2, <3>3 DEF WriteRows, TypeOK, author, reader
  <2>3. ASSUME NEW i \in Id, RecvAck(l, i) PROVE TypeOK'
    <3>1. RowOf(i, "acked") \in Row
      BY RowType DEF FileState
    <3>2. acks' \in [Link -> SUBSET Id]
      BY <2>3 DEF RecvAck, TypeOK
    <3>3. out' \in [Id -> State]
      BY <1>b, <2>3 DEF RecvAck, State
    <3>4. apc' \in [Link -> {"serve", "flush", "write"}] /\ arows' \in [Link -> SUBSET Row]
      <4>1. \/ UNCHANGED <<apc, arows>>
            \/ apc' = [apc EXCEPT ![l] = "write"] /\ arows' = [arows EXCEPT ![l] = {RowOf(i, "acked")}]
        BY <2>3 DEF RecvAck
      <4>2. apc \in [Link -> {"serve", "flush", "write"}] /\ arows \in [Link -> SUBSET Row]
        BY DEF TypeOK
      <4> QED
        BY <3>1, <4>1, <4>2
    <3> QED
      BY <2>3, <3>2, <3>3, <3>4 DEF RecvAck, TypeOK, reader, files
  <2> QED
    BY <1>3, <2>1, <2>2, <2>3 DEF AuthorStep
<1>4. ASSUME NEW l \in Link, ReaderStep(l) PROVE TypeOK'
  <2>1. ASSUME NEW i \in Id, RecvMsg(l, i) PROVE TypeOK'
    <3>1. msgs' \in [Link -> SUBSET Id] /\ acks' \in [Link -> SUBSET Id]
      <4>1. acks' = acks \/ acks' = [acks EXCEPT ![l] = acks[l] \cup {i}]
        BY <2>1 DEF RecvMsg, AckTo
      <4>2. msgs' = [msgs EXCEPT ![l] = msgs[l] \ {i}]
        BY <2>1 DEF RecvMsg
      <4>3. msgs \in [Link -> SUBSET Id] /\ acks \in [Link -> SUBSET Id]
        BY DEF TypeOK
      <4> QED
        BY <4>1, <4>2, <4>3
    <3>2. bpc' \in [Link -> {"serve", "store", "write", "ack"}] /\ bmsg' \in [Link -> SUBSET Id]
      <4>1. \/ UNCHANGED <<bpc, bmsg>>
            \/ bpc' = [bpc EXCEPT ![l] = "store"] /\ bmsg' = [bmsg EXCEPT ![l] = {i}]
        BY <2>1 DEF RecvMsg
      <4>2. bpc \in [Link -> {"serve", "store", "write", "ack"}] /\ bmsg \in [Link -> SUBSET Id]
        BY DEF TypeOK
      <4> QED
        BY <4>1, <4>2
    <3> QED
      BY <2>1, <3>1, <3>2 DEF RecvMsg, TypeOK, author, reader, files
  <2>2. CASE StoreMsg(l)
    <3>1. got' \in [Id -> Nat] /\ stored' \subseteq Id
      <4>1. CASE "b" \in known
        <5>1. /\ got' = [i \in Id |-> IF i \in bmsg[l] THEN got[i] + 1 ELSE got[i]]
              /\ stored' = stored \cup bmsg[l]
          BY <2>2, <4>1 DEF StoreMsg
        <5>2. bmsg[l] \subseteq Id /\ got \in [Id -> Nat] /\ stored \subseteq Id
          BY DEF TypeOK
        <5> QED
          BY <5>1, <5>2
      <4>2. CASE "b" \notin known
        BY <2>2, <4>2 DEF StoreMsg, TypeOK, reader
      <4> QED
        BY <4>1, <4>2
    <3>2. bpc' \in [Link -> {"serve", "store", "write", "ack"}]
      <4>1. bpc' = [bpc EXCEPT ![l] = "write"] \/ bpc' = [bpc EXCEPT ![l] = "ack"]
        BY <2>2 DEF StoreMsg
      <4> QED
        BY <4>1 DEF TypeOK
    <3>3. cut' = cut
      BY <2>2 DEF StoreMsg, reader
    <3> QED
      BY <2>2, <3>1, <3>2, <3>3 DEF StoreMsg, TypeOK, author, files
  <2>3. CASE WriteIn(l)
    <3>1. inrow' \in [Id -> Nat]
      BY <2>3 DEF WriteIn, TypeOK
    <3>2. bpc' \in [Link -> {"serve", "store", "write", "ack"}]
      BY <2>3 DEF WriteIn, TypeOK
    <3> QED
      BY <2>3, <3>1, <3>2 DEF WriteIn, TypeOK, author, reader
  <2>4. CASE SendAck(l)
    <3>1. acks' \in [Link -> SUBSET Id]
      BY <2>4 DEF SendAck, TypeOK
    <3>2. bpc' \in [Link -> {"serve", "store", "write", "ack"}] /\ bmsg' \in [Link -> SUBSET Id]
      BY <2>4 DEF SendAck, TypeOK
    <3> QED
      BY <2>4, <3>1, <3>2 DEF SendAck, TypeOK, author, reader, files
  <2> QED
    BY <1>4, <2>1, <2>2, <2>3, <2>4 DEF ReaderStep
<1>5. ASSUME NEW l \in Link, Dial(l) \/ DialFails(l) PROVE TypeOK'
  <2>1. phase' \in [Link -> {"idle", "dialing", "ring", "up"}]
    BY <1>5 DEF Dial, DialFails, TypeOK
  <2>2. used' \in [breaks : 0..MaxBreaks, restarts : 0..MaxRestarts]
    BY <1>a, <1>5 DEF Dial, DialFails
  <2> QED
    BY <1>5, <2>1, <2>2 DEF Dial, DialFails, TypeOK, author, reader, files, ends
<1>6. ASSUME NEW l \in Link, NEW d \in Dev, Register(d, l)
      PROVE  live' \in [Dev -> Seq(Link)] /\ apc' \in [Link -> {"serve", "flush", "write"}]
  <2>1. Append(live[d], l) \in Seq(Link)
    BY <1>a
  <2> QED
    BY <1>a, <1>6, <2>1 DEF Register, TypeOK
<1>7. ASSUME NEW l \in Link, Connect(l) PROVE TypeOK'
  <2>1. l[1] \in Dev
    BY LinkEnds
  <2>2. task' \in [Link -> SUBSET Dev] /\ phase' \in [Link -> {"idle", "dialing", "ring", "up"}]
    BY <1>7, <2>1 DEF Connect, TypeOK
  <2>3. live' \in [Dev -> Seq(Link)] /\ apc' \in [Link -> {"serve", "flush", "write"}]
    BY <1>6, <1>7, <2>1 DEF Connect
  <2> QED
    BY <1>7, <2>2, <2>3 DEF Connect, TypeOK, author, reader, files
<1>8. ASSUME NEW l \in Link, Accept(l) PROVE TypeOK'
  <2>1. Other(l[1]) \in Dev
    BY LinkEnds
  <2>2. task' \in [Link -> SUBSET Dev] /\ phase' \in [Link -> {"idle", "dialing", "ring", "up"}]
    <3>1. task' = task \/ task' = [task EXCEPT ![l] = task[l] \cup {Other(l[1])}]
      BY <1>8 DEF Accept
    <3>2. task \in [Link -> SUBSET Dev] /\ phase' = [phase EXCEPT ![l] = "up"]
      BY <1>8 DEF Accept, TypeOK
    <3>3. phase' \in [Link -> {"idle", "dialing", "ring", "up"}]
      BY <3>2 DEF TypeOK
    <3> QED
      BY <2>1, <3>1, <3>2, <3>3
  <2>3. live' \in [Dev -> Seq(Link)] /\ apc' \in [Link -> {"serve", "flush", "write"}]
    <3>1. CASE Register(Other(l[1]), l)
      BY <1>6, <2>1, <3>1
    <3>2. CASE UNCHANGED <<live, apc>>
      BY <1>a, <3>2 DEF TypeOK
    <3> QED
      BY <1>8, <3>1, <3>2 DEF Accept
  <2>4. msgs' \in [Link -> SUBSET Id] /\ lost' \in SUBSET Id
    BY <1>8 DEF Accept, TypeOK
  <2> QED
    BY <1>8, <2>2, <2>3, <2>4 DEF Accept, TypeOK, author, reader, files
<1>9. ASSUME NEW d \in Dev, RemovePeer(d) PROVE TypeOK'
  <2>1. live' \in [Dev -> Seq(Link)]
    BY <1>a, <1>9 DEF RemovePeer
  <2>2. out' \in [Id -> State] /\ queued' \subseteq Id /\ got' \in [Id -> Nat]
    BY <1>9 DEF RemovePeer, TypeOK, State
  <2> QED
    BY <1>9, <2>1, <2>2 DEF RemovePeer, TypeOK, files, ends
<1>10. ASSUME NEW d \in Dev, Unlink(d) PROVE TypeOK'
  <2>1. rows' \in [Id -> Seq({"queued", "sent", "acked"})] /\ inrow' \in [Id -> Nat]
    <3>1. << >> \in Seq({"queued", "sent", "acked"})
      OBVIOUS
    <3>2. CASE d = "a"
      BY <1>10, <3>1, <3>2 DEF Unlink, TypeOK
    <3>3. CASE d # "a"
      BY <1>10, <3>3 DEF Unlink, TypeOK
    <3> QED
      BY <3>2, <3>3
  <2> QED
    BY <1>10, <2>1 DEF Unlink, TypeOK, author, reader, ends
<1>11. CASE UNCHANGED vars
  BY <1>11 DEF vars, TypeOK
<1> QED
  BY <1>1, <1>2, <1>3, <1>4, <1>5, <1>7, <1>8, <1>9, <1>10, <1>11, EndType DEF Next

-----------------------------------------------------------------------------
(* What the steps do *)

\* send puts the text on a session or into the queue.
LEMMA SendMoves ==
    ASSUME TypeOK, NEW i \in Id, Send(i)
    PROVE  /\ i \notin said /\ "a" \in known /\ said' = said \cup {i}
           /\ UNCHANGED <<known, got, stored, rows, inrow, task, phase, acks, apc, arows, bpc, bmsg, unlink>>
           /\ \A k \in Id : k # i => out'[k] = out[k]
           /\ \/ /\ \E l \in Link : Put(l, {i})
                 /\ out'[i] = "sent" /\ queued' = queued /\ unsaved' = unsaved \cup {RowOf(i, "sent")}
              \/ /\ UNCHANGED <<msgs, lost>>
                 /\ out'[i] = "queued" /\ queued' = queued \cup {i}
                 /\ unsaved' = unsaved \cup {RowOf(i, "queued")}
<1>1. i \notin said /\ "a" \in known /\ said' = said \cup {i}
  BY DEF Send
<1>2. UNCHANGED <<known, got, stored, rows, inrow, task, phase, acks, apc, arows, bpc, bmsg, unlink>>
  BY DEF Send, reader, files, ends
<1>3. out \in [Id -> State] /\ live \in [Dev -> Seq(Link)]
  BY DEF TypeOK
<1>4. CASE Online("a")
  <2>1. Head(live["a"]) \in Link
    BY <1>3, <1>4 DEF Online, Dev
  <2>2. /\ Put(Head(live["a"]), {i}) /\ out' = [out EXCEPT ![i] = "sent"]
        /\ queued' = queued /\ unsaved' = unsaved \cup {RowOf(i, "sent")}
    BY <1>4 DEF Send
  <2>3. (\E l \in Link : Put(l, {i})) /\ out'[i] = "sent" /\ \A k \in Id : k # i => out'[k] = out[k]
    BY <1>3, <2>1, <2>2
  <2> QED
    BY <1>1, <1>2, <2>2, <2>3
<1>5. CASE ~Online("a")
  <2>1. /\ UNCHANGED <<msgs, lost>> /\ out' = [out EXCEPT ![i] = "queued"]
        /\ queued' = queued \cup {i} /\ unsaved' = unsaved \cup {RowOf(i, "queued")}
    BY <1>5 DEF Send
  <2> QED
    BY <1>1, <1>2, <1>3, <2>1
<1> QED
  BY <1>4, <1>5

\* flush_queue puts the queue on the session.
LEMMA FlushMoves ==
    ASSUME TypeOK, NEW l \in Link, FlushQueue(l)
    PROVE  /\ "a" \in task[l] /\ Put(l, queued) /\ queued \in SUBSET Id /\ queued' = {}
           /\ \A i \in Id : out'[i] = IF i \in queued THEN "sent" ELSE out[i]
           /\ arows'[l] = {RowOf(i, "sent") : i \in queued}
           /\ \A k \in Link : k # l => arows'[k] = arows[k]
           /\ UNCHANGED <<known, said, unsaved, got, stored, rows, inrow, task, phase, acks,
                          bpc, bmsg, unlink>>
<1>1. arows \in [Link -> SUBSET Row] /\ queued \in SUBSET Id
  BY DEF TypeOK
<1>2. arows' = [arows EXCEPT ![l] = {RowOf(i, "sent") : i \in queued}]
  BY DEF FlushQueue
<1>3. arows'[l] = {RowOf(i, "sent") : i \in queued} /\ \A k \in Link : k # l => arows'[k] = arows[k]
  BY <1>1, <1>2
<1> QED
  BY <1>1, <1>3 DEF FlushQueue, reader, files

\* An acknowledgement is read.
LEMMA AckMoves ==
    ASSUME TypeOK, NEW l \in Link, NEW i \in Id, RecvAck(l, i)
    PROVE  /\ "a" \in task[l] /\ i \in acks[l] /\ apc[l] = "serve"
           /\ \A k \in Link : acks'[k] \subseteq acks[k]
           /\ \A k \in Link : k # l => arows'[k] = arows[k]
           /\ \A k \in Id : k # i => out'[k] = out[k]
           /\ \/ out'[i] = out[i] /\ arows' = arows
              \/ /\ "a" \in known /\ out[i] # "none"
                 /\ out'[i] = "acked" /\ arows'[l] = {RowOf(i, "acked")}
           /\ UNCHANGED <<known, said, queued, unsaved, got, stored, rows, inrow, task, phase, msgs,
                          bpc, bmsg, unlink, lost>>
<1>1. arows \in [Link -> SUBSET Row] /\ acks \in [Link -> SUBSET Id] /\ out \in [Id -> State]
  BY DEF TypeOK
<1>2. acks' = [acks EXCEPT ![l] = acks[l] \ {i}]
  BY DEF RecvAck
<1>3. \/ out' = out /\ arows' = arows
      \/ /\ "a" \in known /\ out[i] # "none"
         /\ out' = [out EXCEPT ![i] = "acked"] /\ arows' = [arows EXCEPT ![l] = {RowOf(i, "acked")}]
  BY DEF RecvAck
<1>4. \A k \in Link : acks'[k] \subseteq acks[k]
  BY <1>1, <1>2
<1>5. \A k \in Link : k # l => arows'[k] = arows[k]
  BY <1>1, <1>3
<1>6. \A k \in Id : k # i => out'[k] = out[k]
  BY <1>1, <1>3
<1>7. \/ out'[i] = out[i] /\ arows' = arows
      \/ /\ "a" \in known /\ out[i] # "none"
         /\ out'[i] = "acked" /\ arows'[l] = {RowOf(i, "acked")}
  BY <1>1, <1>3
<1> QED
  BY <1>4, <1>5, <1>6, <1>7 DEF RecvAck, reader, files

\* A text is read.
LEMMA MsgMoves ==
    ASSUME TypeOK, NEW l \in Link, NEW i \in Id, RecvMsg(l, i)
    PROVE  /\ "b" \in task[l] /\ i \in msgs[l] /\ bpc[l] = "serve" /\ msgs'[l] = msgs[l] \ {i}
           /\ \A k \in Link : k # l => /\ msgs'[k] = msgs[k] /\ bmsg'[k] = bmsg[k]
                                       /\ acks'[k] = acks[k] /\ bpc'[k] = bpc[k]
           /\ \/ /\ "b" \notin known \/ got[i] > 0
                 /\ acks[l] \subseteq acks'[l] /\ acks'[l] \subseteq acks[l] \cup {i}
                 /\ UNCHANGED <<bpc, bmsg>>
              \/ /\ "b" \in known /\ ~(got[i] > 0)
                 /\ bpc'[l] = "store" /\ bmsg'[l] = {i} /\ acks'[l] = acks[l]
           /\ UNCHANGED <<known, said, out, queued, unsaved, got, stored, rows, inrow, task, phase,
                          arows, apc, unlink, lost>>
<1>1. /\ msgs \in [Link -> SUBSET Id] /\ acks \in [Link -> SUBSET Id] /\ bmsg \in [Link -> SUBSET Id]
      /\ bpc \in [Link -> BPc]
  BY DEF TypeOK, BPc
<1>2. msgs' = [msgs EXCEPT ![l] = msgs[l] \ {i}]
  BY DEF RecvMsg
<1>3. \/ /\ IsDup(i) /\ UNCHANGED <<bpc, bmsg>>
         /\ acks' = acks \/ acks' = [acks EXCEPT ![l] = acks[l] \cup {i}]
      \/ /\ ~IsDup(i) /\ acks' = acks
         /\ bpc' = [bpc EXCEPT ![l] = "store"] /\ bmsg' = [bmsg EXCEPT ![l] = {i}]
  BY DEF RecvMsg, AckTo
<1>4. msgs'[l] = msgs[l] \ {i} /\ \A k \in Link : k # l => msgs'[k] = msgs[k]
  BY <1>1, <1>2
<1>5. \A k \in Link : k # l => bmsg'[k] = bmsg[k] /\ acks'[k] = acks[k] /\ bpc'[k] = bpc[k]
  BY <1>1, <1>3
<1>6. \/ /\ IsDup(i)
         /\ acks[l] \subseteq acks'[l] /\ acks'[l] \subseteq acks[l] \cup {i}
         /\ UNCHANGED <<bpc, bmsg>>
      \/ /\ ~IsDup(i)
         /\ bpc'[l] = "store" /\ bmsg'[l] = {i} /\ acks'[l] = acks[l]
  BY <1>1, <1>3
<1>7. UNCHANGED <<known, said, out, queued, unsaved, got, stored, rows, inrow, task, phase,
                  arows, apc, unlink, lost>>
  BY DEF RecvMsg, author, reader, files
<1>8. "b" \in task[l] /\ i \in msgs[l] /\ bpc[l] = "serve"
  BY DEF RecvMsg
<1> QED
  BY <1>4, <1>5, <1>6, <1>7, <1>8 DEF IsDup

\* A text is acknowledged.
LEMMA SendAckMoves ==
    ASSUME TypeOK, NEW l \in Link, SendAck(l)
    PROVE  /\ "b" \in task[l] /\ bpc[l] = "ack" /\ bpc'[l] = "serve" /\ bmsg'[l] = {}
           /\ \A k \in Link : k # l => acks'[k] = acks[k] /\ bmsg'[k] = bmsg[k] /\ bpc'[k] = bpc[k]
           /\ acks[l] \subseteq acks'[l] /\ acks'[l] \subseteq acks[l] \cup bmsg[l]
           /\ UNCHANGED <<known, said, out, queued, unsaved, got, stored, rows, inrow, task, phase, msgs,
                          arows, apc, unlink, lost>>
<1>1. acks \in [Link -> SUBSET Id] /\ bmsg \in [Link -> SUBSET Id] /\ bpc \in [Link -> BPc]
  BY DEF TypeOK, BPc
<1>2. /\ acks' = acks \/ acks' = [acks EXCEPT ![l] = acks[l] \cup bmsg[l]]
      /\ bpc' = [bpc EXCEPT ![l] = "serve"] /\ bmsg' = [bmsg EXCEPT ![l] = {}]
  BY DEF SendAck
<1>3. /\ bpc'[l] = "serve" /\ bmsg'[l] = {}
      /\ \A k \in Link : k # l => acks'[k] = acks[k] /\ bmsg'[k] = bmsg[k] /\ bpc'[k] = bpc[k]
      /\ acks[l] \subseteq acks'[l] /\ acks'[l] \subseteq acks[l] \cup bmsg[l]
  BY <1>1, <1>2
<1>4. UNCHANGED <<known, said, out, queued, unsaved, got, stored, rows, inrow, task, phase, msgs,
                  arows, apc, unlink, lost>>
  BY DEF SendAck, author, reader, files
<1> QED
  BY <1>3, <1>4 DEF SendAck

\* A session is dialled, connected and accepted.
LEMMA ConnectMoves ==
    ASSUME TypeOK, NEW l \in Link, Dial(l) \/ DialFails(l) \/ Connect(l) \/ Accept(l)
    PROVE  /\ \A k \in Link : k # l => task'[k] = task[k] /\ phase'[k] = phase[k] /\ msgs'[k] = msgs[k]
           /\ \/ /\ phase[l] \in {"idle", "dialing"} /\ phase'[l] \in {"idle", "dialing"}
                 /\ UNCHANGED <<task, msgs, lost>>
              \/ /\ phase[l] = "dialing" /\ phase'[l] = "ring" /\ task'[l] = {l[1]}
                 /\ UNCHANGED <<msgs, lost>>
              \/ /\ phase[l] = "ring" /\ phase'[l] = "up" /\ Other(l[1]) \in known
                 /\ task'[l] = task[l] \cup {Other(l[1])}
                 /\ UNCHANGED <<msgs, lost>>
              \/ /\ phase[l] = "ring" /\ phase'[l] = "up" /\ Other(l[1]) \notin known
                 /\ task' = task /\ msgs'[l] = {} /\ lost' = lost \cup msgs[l]
           /\ UNCHANGED <<known, said, out, queued, unsaved, got, stored, rows, inrow, acks,
                          arows, bpc, bmsg, unlink>>
<1>1. /\ task \in [Link -> SUBSET Dev] /\ phase \in [Link -> Phase] /\ msgs \in [Link -> SUBSET Id]
  BY DEF TypeOK, Phase
<1>2. CASE Dial(l) \/ DialFails(l)
  BY <1>1, <1>2 DEF Dial, DialFails, author, reader, files, ends
<1>3. CASE Connect(l)
  BY <1>1, <1>3 DEF Connect, author, reader, files
<1>4. CASE Accept(l)
  <2>1. phase[l] = "ring" /\ phase' = [phase EXCEPT ![l] = "up"]
    BY <1>4 DEF Accept
  <2>2. UNCHANGED <<known, said, out, queued, unsaved, got, stored, rows, inrow, acks,
                    arows, bpc, bmsg, unlink>>
    BY <1>4 DEF Accept, author, reader, files
  <2>3. CASE Other(l[1]) \in known
    <3>1. task' = [task EXCEPT ![l] = task[l] \cup {Other(l[1])}] /\ UNCHANGED <<msgs, lost>>
      BY <1>4, <2>3 DEF Accept
    <3> QED
      BY <1>1, <2>1, <2>2, <2>3, <3>1
  <2>4. CASE Other(l[1]) \notin known
    <3>1. task' = task /\ msgs' = [msgs EXCEPT ![l] = {}] /\ lost' = lost \cup msgs[l]
      BY <1>4, <2>4 DEF Accept
    <3> QED
      BY <1>1, <2>1, <2>2, <2>4, <3>1
  <2> QED
    BY <2>3, <2>4
<1> QED
  BY <1>2, <1>3, <1>4

\* A session task or a process ends.
EndSteps(d) == (\E l \in Link : Break(d, l) \/ Notice(d, l)) \/ Restart(d)

\* It is the end of some tasks of the device.
LEMMA EndCases ==
    ASSUME TypeOK, NEW d \in Dev, EndSteps(d)
    PROVE  \E ls \in SUBSET Link, gone \in SUBSET Id :
             /\ EndTasks(d, ls, gone)
             /\ \/ /\ UNCHANGED <<known, said, out, queued, unsaved, got, stored, rows, inrow, unlink>>
                   /\ \A l \in ls : Serving(d, l)
                \/ /\ Restart(d)
                   /\ \A l \in Link : l \in ls <=> \/ d \in task[l] \/ phase[l] = "ring"
                                                   \/ phase[l] = "dialing" /\ l[1] = d
                   /\ d = "a" => \A r \in unsaved : r.id \in gone
                   /\ UNCHANGED <<known, said, stored, rows, inrow>>
<1>1. ASSUME NEW l \in Link, EndOne(d, l)
      PROVE  /\ EndTasks(d, {l}, {}) /\ {l} \in SUBSET Link /\ {} \in SUBSET Id
             /\ UNCHANGED <<known, said, out, queued, unsaved, got, stored, rows, inrow, unlink>>
             /\ \A k \in {l} : Serving(d, k)
  BY <1>1 DEF EndOne, author, reader, files
<1>2. ASSUME NEW l \in Link, Break(d, l) \/ Notice(d, l) PROVE EndOne(d, l)
  BY <1>2 DEF Break, Notice
<1>3. CASE Restart(d)
  <2> DEFINE ls == {l \in Link : d \in task[l] \/ phase[l] = "ring" \/ (phase[l] = "dialing" /\ l[1] = d)}
             gone == IF d = "a" THEN {r.id : r \in unsaved} ELSE {}
  <2>1. ls \in SUBSET Link /\ EndTasks(d, ls, gone)
    BY <1>3 DEF Restart
  <2>2. gone \in SUBSET Id
    BY RowType DEF TypeOK
  <2>3. \A l \in Link : l \in ls <=> \/ d \in task[l] \/ phase[l] = "ring"
                                     \/ phase[l] = "dialing" /\ l[1] = d
    OBVIOUS
  <2>4. d = "a" => \A r \in unsaved : r.id \in gone
    OBVIOUS
  <2>5. UNCHANGED <<known, said, stored, rows, inrow>>
    BY <1>3 DEF Restart, files
  <2> HIDE DEF ls, gone
  <2> QED
    BY <1>3, <2>1, <2>2, <2>3, <2>4, <2>5
<1>4. CASE ~Restart(d)
  <2>1. PICK l \in Link : EndOne(d, l)
    BY <1>2, <1>4 DEF EndSteps
  <2> QED
    BY <1>1, <2>1
<1> QED
  BY <1>3, <1>4

\* The kinds of steps, for the case splits below.
LEMMA StepKinds ==
    ASSUME [Next]_vars
    PROVE  \/ \E i \in Id : Send(i)
           \/ \E r \in Row : SaveRow(r)
           \/ \E l \in Link : FlushQueue(l) \/ WriteRows(l) \/ StoreMsg(l) \/ WriteIn(l) \/ SendAck(l)
           \/ \E l \in Link, i \in Id : RecvAck(l, i) \/ RecvMsg(l, i)
           \/ \E l \in Link : Dial(l) \/ DialFails(l) \/ Connect(l) \/ Accept(l)
           \/ \E d \in Dev : EndSteps(d)
           \/ \E d \in Dev : RemovePeer(d) \/ Unlink(d)
           \/ UNCHANGED vars
BY DEF Next, AuthorStep, ReaderStep, EndSteps

\* a's task appends its rows.
LEMMA WriteMoves ==
    ASSUME TypeOK, NEW l \in Link, WriteRows(l)
    PROVE  /\ arows[l] \in SUBSET Row /\ rows' = Appended(arows[l])
           /\ \A k \in Link : arows'[k] \subseteq arows[k]
           /\ UNCHANGED <<known, said, out, queued, unsaved, got, stored, inrow, task, phase, msgs, acks,
                          bpc, bmsg, unlink, lost>>
<1>1. arows \in [Link -> SUBSET Row] /\ arows' = [arows EXCEPT ![l] = {}]
  BY DEF WriteRows, TypeOK
<1>2. arows[l] \in SUBSET Row /\ \A k \in Link : arows'[k] \subseteq arows[k]
  BY <1>1
<1> QED
  BY <1>2 DEF WriteRows, author, reader

\* A text goes into b's history, and into its file.
LEMMA StoreMoves ==
    ASSUME TypeOK, NEW l \in Link, StoreMsg(l) \/ WriteIn(l)
    PROVE  /\ UNCHANGED <<known, said, out, queued, unsaved, rows, task, phase, msgs, acks, arows,
                          bmsg, unlink, lost>>
           /\ \A k \in Link : k # l => bpc'[k] = bpc[k]
           /\ \/ /\ bpc[l] = "store" /\ "b" \in known /\ bpc'[l] = "write"
                 /\ stored' = stored \cup bmsg[l] /\ UNCHANGED inrow
                 /\ \A i \in Id : got'[i] = IF i \in bmsg[l] THEN got[i] + 1 ELSE got[i]
              \/ /\ bpc[l] = "store" /\ "b" \notin known /\ bpc'[l] = "ack"
                 /\ UNCHANGED <<got, stored, inrow>>
              \/ /\ bpc[l] = "write" /\ bpc'[l] = "ack" /\ UNCHANGED <<got, stored>>
                 /\ \A i \in Id : inrow'[i] = IF i \in bmsg[l] THEN inrow[i] + 1 ELSE inrow[i]
<1>1. bpc \in [Link -> BPc]
  BY DEF TypeOK, BPc
<1>2. CASE StoreMsg(l)
  <2>1. UNCHANGED <<known, said, out, queued, unsaved, rows, task, phase, msgs, acks, arows,
                    bmsg, unlink, lost, inrow>> /\ bpc[l] = "store"
    BY <1>2 DEF StoreMsg, author, files
  <2>2. CASE "b" \in known
    <3>1. /\ bpc' = [bpc EXCEPT ![l] = "write"] /\ stored' = stored \cup bmsg[l]
          /\ got' = [i \in Id |-> IF i \in bmsg[l] THEN got[i] + 1 ELSE got[i]]
      BY <1>2, <2>2 DEF StoreMsg
    <3>2. \A i \in Id : got'[i] = IF i \in bmsg[l] THEN got[i] + 1 ELSE got[i]
      BY <3>1
    <3> QED
      BY <1>1, <2>1, <2>2, <3>1, <3>2
  <2>3. CASE "b" \notin known
    <3>1. bpc' = [bpc EXCEPT ![l] = "ack"] /\ UNCHANGED <<got, stored>>
      BY <1>2, <2>3 DEF StoreMsg, reader
    <3> QED
      BY <1>1, <2>1, <2>3, <3>1
  <2> QED
    BY <2>2, <2>3
<1>3. CASE WriteIn(l)
  <2>1. UNCHANGED <<known, said, out, queued, unsaved, rows, task, phase, msgs, acks, arows,
                    bmsg, unlink, lost, got, stored>> /\ bpc[l] = "write"
    BY <1>3 DEF WriteIn, author, reader
  <2>2. /\ bpc' = [bpc EXCEPT ![l] = "ack"]
        /\ inrow' = [i \in Id |-> IF i \in bmsg[l] THEN inrow[i] + 1 ELSE inrow[i]]
    BY <1>3 DEF WriteIn
  <2>3. \A i \in Id : inrow'[i] = IF i \in bmsg[l] THEN inrow[i] + 1 ELSE inrow[i]
    BY <2>2
  <2> QED
    BY <1>1, <2>1, <2>2, <2>3
<1> QED
  BY <1>2, <1>3

\* A peer is removed, and its file deleted.
LEMMA RemoveMoves ==
    ASSUME TypeOK, NEW d \in Dev, RemovePeer(d) \/ Unlink(d)
    PROVE  /\ UNCHANGED <<said, unsaved, stored, task, phase, msgs, acks, arows, bpc, bmsg, lost>>
           /\ known' \subseteq known /\ (RemovePeer(d) => known' # Dev)
           /\ \/ /\ RemovePeer(d) /\ d = "a" /\ known' = known \ {"a"} /\ unlink' = unlink \cup {"a"}
                 /\ \A i \in Id : out'[i] = "none"
                 /\ queued' = {} /\ UNCHANGED <<got, rows, inrow>>
              \/ /\ RemovePeer(d) /\ d = "b" /\ known' = known \ {"b"} /\ unlink' = unlink \cup {"b"}
                 /\ \A i \in Id : got'[i] = 0
                 /\ UNCHANGED <<out, queued, rows, inrow>>
              \/ /\ d = "a" /\ "a" \in unlink /\ unlink' = unlink \ {"a"}
                 /\ \A i \in Id : rows'[i] = << >>
                 /\ UNCHANGED <<known, out, queued, got, inrow>>
              \/ /\ d = "b" /\ "b" \in unlink /\ unlink' = unlink \ {"b"}
                 /\ \A i \in Id : inrow'[i] = 0
                 /\ UNCHANGED <<known, out, queued, got, rows>>
<1>1. CASE RemovePeer(d)
  <2>1. /\ UNCHANGED <<said, unsaved, stored, task, phase, msgs, acks, arows, bpc, bmsg, lost, rows, inrow>>
        /\ known' = known \ {d} /\ unlink' = unlink \cup {d}
    BY <1>1 DEF RemovePeer, files, ends
  <2>2. known' # Dev
    BY <2>1
  <2>3. CASE d = "a"
    BY <1>1, <2>1, <2>2, <2>3 DEF RemovePeer
  <2>4. CASE d = "b"
    <3>1. got' = [i \in Id |-> 0] /\ UNCHANGED <<out, queued>>
      BY <1>1, <2>4 DEF RemovePeer
    <3> QED
      BY <1>1, <2>1, <2>2, <2>4, <3>1
  <2> QED
    BY <2>3, <2>4 DEF Dev
<1>2. CASE Unlink(d)
  <2>1. /\ UNCHANGED <<said, unsaved, stored, task, phase, msgs, acks, arows, bpc, bmsg, lost,
                       known, out, queued, got>>
        /\ d \in unlink /\ unlink' = unlink \ {d}
    BY <1>2 DEF Unlink, author, reader, ends
  <2>2. ~RemovePeer(d)
    BY <2>1 DEF RemovePeer
  <2>3. CASE d = "a"
    <3>1. rows' = [i \in Id |-> << >>] /\ UNCHANGED inrow
      BY <1>2, <2>3 DEF Unlink
    <3> QED
      BY <2>1, <2>2, <2>3, <3>1
  <2>4. CASE d = "b"
    <3>1. inrow' = [i \in Id |-> 0] /\ UNCHANGED rows
      BY <1>2, <2>4 DEF Unlink
    <3> QED
      BY <2>1, <2>2, <2>4, <3>1
  <2> QED
    BY <2>3, <2>4 DEF Dev
<1> QED
  BY <1>1, <1>2

-----------------------------------------------------------------------------
(* Sessions *)

\* A session that is not connected has no reader.
LEMMA FreeHasNoReader ==
    ASSUME FreeIsEmpty, NEW l \in Link, phase[l] \in {"idle", "dialing"}, NEW d \in Dev
    PROVE  ~Reads(l, d)
BY DEF FreeIsEmpty, Reads

\* Free sessions stay empty, and what an end is at goes with it.
LEMMA LinksStep ==
    ASSUME IInv, [Next]_vars
    PROVE  FreeIsEmpty' /\ Held'
<1> USE DEF IInv, ChatInv
<1>a. ASSUME NEW l \in Link, NEW is \in SUBSET Id, Put(l, is),
             UNCHANGED <<task, phase, bmsg, acks>>,
             \A k \in Link : arows'[k] # {} => arows[k] # {} \/ "a" \in task[k]
      PROVE  FreeIsEmpty' /\ Held'
  <2>1. \A k \in Link : phase[k] \in {"idle", "dialing"} => msgs'[k] = msgs[k]
    BY <1>a, PutType, FreeHasNoReader DEF Dev
  <2> QED
    BY <1>a, <2>1 DEF FreeIsEmpty, Held, Carried
<1>b. ASSUME UNCHANGED <<task, phase>>,
             \A k \in Link : Carried(k)' # {} => Carried(k) # {} \/ task[k] # {},
             \A k \in Link : arows'[k] # {} => arows[k] # {} \/ "a" \in task[k],
             \A k \in Link : bmsg'[k] # {} => bmsg[k] # {} \/ "b" \in task[k]
      PROVE  FreeIsEmpty' /\ Held'
  BY <1>b DEF FreeIsEmpty, Held
<1>c. ASSUME UNCHANGED <<task, phase, msgs, bmsg, acks>>,
             \A k \in Link : arows'[k] # {} => arows[k] # {} \/ "a" \in task[k]
      PROVE  FreeIsEmpty' /\ Held'
  BY <1>c DEF FreeIsEmpty, Held, Carried
<1>1. ASSUME NEW i \in Id, Send(i) PROVE FreeIsEmpty' /\ Held'
  <2>1. UNCHANGED <<task, phase, bmsg, acks, arows>> /\ ((\E l \in Link : Put(l, {i})) \/ UNCHANGED msgs)
    BY <1>1, SendMoves
  <2>2. {i} \in SUBSET Id
    OBVIOUS
  <2> QED
    BY <1>a, <1>c, <2>1, <2>2
<1>2. ASSUME NEW l \in Link, FlushQueue(l) PROVE FreeIsEmpty' /\ Held'
  <2>1. /\ "a" \in task[l] /\ Put(l, queued) /\ queued \in SUBSET Id
        /\ \A k \in Link : k # l => arows'[k] = arows[k]
        /\ UNCHANGED <<task, phase, bmsg, acks>>
    BY <1>2, FlushMoves
  <2> QED
    BY <1>a, <2>1
<1>3. ASSUME NEW l \in Link, NEW i \in Id, RecvAck(l, i) PROVE FreeIsEmpty' /\ Held'
  <2>1. /\ "a" \in task[l] /\ \A k \in Link : acks'[k] \subseteq acks[k]
        /\ \A k \in Link : k # l => arows'[k] = arows[k]
        /\ UNCHANGED <<task, phase, msgs, bmsg>>
    BY <1>3, AckMoves
  <2>2. \A k \in Link : Carried(k)' # {} => Carried(k) # {}
    BY <2>1 DEF Carried
  <2> QED
    BY <1>b, <2>1, <2>2
<1>4. ASSUME NEW l \in Link, NEW i \in Id, RecvMsg(l, i) PROVE FreeIsEmpty' /\ Held'
  <2>1. /\ "b" \in task[l] /\ UNCHANGED <<task, phase, arows>>
        /\ \A k \in Link : k # l => msgs'[k] = msgs[k] /\ bmsg'[k] = bmsg[k] /\ acks'[k] = acks[k]
    BY <1>4, MsgMoves
  <2>2. \A k \in Link : Carried(k)' # {} => Carried(k) # {} \/ task[k] # {}
    BY <2>1 DEF Carried
  <2> QED
    BY <1>b, <2>1, <2>2
<1>5. ASSUME NEW l \in Link, SendAck(l) PROVE FreeIsEmpty' /\ Held'
  <2>1. /\ "b" \in task[l] /\ UNCHANGED <<task, phase, arows, msgs>>
        /\ \A k \in Link : k # l => bmsg'[k] = bmsg[k] /\ acks'[k] = acks[k]
    BY <1>5, SendAckMoves
  <2>2. \A k \in Link : Carried(k)' # {} => Carried(k) # {} \/ task[k] # {}
    BY <2>1 DEF Carried
  <2> QED
    BY <1>b, <2>1, <2>2
<1>6. ASSUME NEW l \in Link, WriteRows(l) PROVE FreeIsEmpty' /\ Held'
  BY <1>c, <1>6, WriteMoves
<1>7. ASSUME NEW l \in Link, StoreMsg(l) \/ WriteIn(l) PROVE FreeIsEmpty' /\ Held'
  BY <1>c, <1>7, StoreMoves
<1>8. ASSUME NEW l \in Link, Dial(l) \/ DialFails(l) \/ Connect(l) \/ Accept(l) PROVE FreeIsEmpty' /\ Held'
  <2>1. /\ \A k \in Link : k # l => task'[k] = task[k] /\ phase'[k] = phase[k] /\ msgs'[k] = msgs[k]
        /\ UNCHANGED <<acks, arows, bmsg>>
        /\ \/ /\ phase[l] \in {"idle", "dialing"} /\ phase'[l] \in {"idle", "dialing"}
              /\ UNCHANGED <<task, msgs>>
           \/ phase[l] = "dialing" /\ phase'[l] = "ring" /\ UNCHANGED msgs
           \/ phase[l] = "ring" /\ phase'[l] = "up" /\ task[l] \subseteq task'[l]
    BY <1>8, ConnectMoves
  <2>2. FreeIsEmpty'
    BY <2>1 DEF FreeIsEmpty, Carried
  <2>3. phase[l] = "dialing" => arows[l] = {} /\ bmsg[l] = {}
    BY DEF FreeIsEmpty, Held, Carried
  <2>4. phase[l] # "dialing" => task[l] \subseteq task'[l]
    BY <2>1
  <2>5. Held'
    BY <2>1, <2>3, <2>4 DEF Held
  <2> QED
    BY <2>2, <2>5
<1>9. ASSUME NEW d \in Dev, EndSteps(d) PROVE FreeIsEmpty' /\ Held'
  <2>1. PICK ls \in SUBSET Link, gone \in SUBSET Id : EndTasks(d, ls, gone)
    BY <1>9, EndCases
  <2>2. ASSUME NEW l \in Link
        PROVE  /\ phase'[l] \in {"idle", "dialing"} => task'[l] = {} /\ Carried(l)' = {}
               /\ (arows'[l] # {} => "a" \in task'[l]) /\ (bmsg'[l] # {} => "b" \in task'[l])
    <3>1. CASE l \notin ls
      <4>1. /\ task'[l] = task[l] /\ phase'[l] = phase[l] /\ msgs'[l] = msgs[l]
            /\ acks'[l] = acks[l] /\ arows'[l] = arows[l] /\ bmsg'[l] = bmsg[l]
        BY <2>1, <3>1, EndedElse
      <4> QED
        BY <4>1 DEF FreeIsEmpty, Held, Carried
    <3>2. CASE l \in ls /\ d = "a"
      <4>1. /\ task'[l] = task[l] \ {"a"} /\ phase'[l] \in {"idle", "up"}
            /\ phase'[l] = "idle" => task'[l] = {} /\ msgs'[l] = {} /\ acks'[l] = {}
            /\ arows'[l] = {} /\ bmsg'[l] = bmsg[l]
        BY <2>1, <3>2, EndedA
      <4>2. bmsg[l] # {} => "b" \in task'[l]
        BY <4>1 DEF Held
      <4> QED
        BY <4>1, <4>2 DEF Carried
    <3>3. CASE l \in ls /\ d = "b"
      <4>0. TypeOK /\ EndTasks("b", ls, gone) /\ l \in ls
        BY <2>1, <3>3
      <4>1. /\ task'[l] = task[l] \ {"b"} /\ phase'[l] \in {"idle", "up"}
            /\ phase'[l] = "idle" => task'[l] = {} /\ acks'[l] = {}
            /\ msgs'[l] = {} /\ arows'[l] = arows[l] /\ bmsg'[l] = {}
        <5> HIDE DEF IInv, ChatInv
        <5>1. task'[l] = task[l] \ {"b"} /\ phase'[l] \in {"idle", "up"}
          BY <4>0, EndedB, Zenon
        <5>2. phase'[l] = "idle" => task'[l] = {} /\ acks'[l] = {}
          BY <4>0, EndedB, Zenon
        <5>3. msgs'[l] = {}
          BY <4>0, EndedB, Zenon
        <5>4. arows'[l] = arows[l] /\ bmsg'[l] = {}
          BY <4>0 DEF EndTasks
        <5> QED
          BY <5>1, <5>2, <5>3, <5>4
      <4> QED
        BY <4>1 DEF Held, Carried
    <3> QED
      BY <3>1, <3>2, <3>3 DEF Dev
  <2> QED
    BY <2>2 DEF FreeIsEmpty, Held
<1>10. ASSUME NEW d \in Dev, RemovePeer(d) \/ Unlink(d) PROVE FreeIsEmpty' /\ Held'
  BY <1>c, <1>10, RemoveMoves
<1>11. ASSUME NEW r \in Row, SaveRow(r) PROVE FreeIsEmpty' /\ Held'
  BY <1>c, <1>11 DEF SaveRow, ends
<1>12. CASE UNCHANGED vars
  BY <1>c, <1>12 DEF vars
<1> QED
  BY <1>1, <1>2, <1>3, <1>4, <1>5, <1>6, <1>7, <1>8, <1>9, <1>10, <1>11, <1>12, StepKinds

-----------------------------------------------------------------------------
(* How a text moves *)

\* A start of a: it reads its file.
LEMMA RestartA ==
    ASSUME Restart("a")
    PROVE  /\ unsaved' = {} /\ UNCHANGED <<known, said, got, stored, rows, inrow>>
           /\ unlink' = unlink \ {"a"}
           /\ "a" \in known => /\ out' = CollapseHistory(rows)
                               /\ queued' = QueuedFrom(CollapseHistory(rows))
           /\ "a" \notin known => UNCHANGED out /\ queued' = {}
BY DEF Restart, files

\* A start of b.
LEMMA RestartB ==
    ASSUME Restart("b")
    PROVE  /\ UNCHANGED <<known, said, out, queued, unsaved, stored, rows, inrow>>
           /\ unlink' = unlink \ {"b"}
           /\ got' = IF "b" \in known THEN inrow ELSE got
BY DEF Restart, files

\* The end of tasks by itself: nothing but the sessions changes.
LEMMA EndLeaves ==
    ASSUME TypeOK, NEW d \in Dev, EndSteps(d)
    PROVE  \/ UNCHANGED <<known, said, out, queued, unsaved, got, stored, rows, inrow, unlink>>
           \/ d = "a" /\ Restart("a")
           \/ d = "b" /\ Restart("b")
<1>1. CASE Restart(d)
  BY <1>1 DEF Dev
<1>2. CASE ~Restart(d)
  BY <1>2, EndCases
<1> QED
  BY <1>1, <1>2

\* What can happen to the state of a text.
LEMMA OutMoves ==
    ASSUME IInv, [Next]_vars, NEW i \in Id
    PROVE  \/ out'[i] = out[i]
           \/ Send(i) /\ out'[i] \in {"sent", "queued"}
           \/ \E l \in Link : FlushQueue(l) /\ i \in queued /\ out'[i] = "sent"
           \/ /\ "a" \in known /\ out[i] # "none" /\ out'[i] = "acked"
              /\ \E l \in Link : "a" \in task[l] /\ i \in acks[l] /\ RecvAck(l, i)
           \/ out'[i] = "none" /\ RemovePeer("a")
           \/ Restart("a") /\ "a" \in known /\ out'[i] = CollapseHistory(rows)[i]
<1> USE DEF IInv, ChatInv
<1>1. ASSUME NEW k \in Id, Send(k) PROVE out'[i] = out[i] \/ (k = i /\ out'[i] \in {"sent", "queued"})
  BY <1>1, SendMoves
<1>2. ASSUME NEW l \in Link, FlushQueue(l) PROVE out'[i] = out[i] \/ (i \in queued /\ out'[i] = "sent")
  BY <1>2, FlushMoves
<1>3. ASSUME NEW l \in Link, NEW k \in Id, RecvAck(l, k)
      PROVE  out'[i] = out[i] \/ /\ k = i /\ "a" \in known /\ out[i] # "none" /\ out'[i] = "acked"
                                 /\ "a" \in task[l] /\ i \in acks[l]
  BY <1>3, AckMoves
<1>4. ASSUME NEW d \in Dev, RemovePeer(d) \/ Unlink(d)
      PROVE  out'[i] = out[i] \/ (out'[i] = "none" /\ RemovePeer("a"))
  BY <1>4, RemoveMoves
<1>5. ASSUME NEW d \in Dev, EndSteps(d)
      PROVE  out'[i] = out[i] \/ (Restart("a") /\ "a" \in known /\ out'[i] = CollapseHistory(rows)[i])
  BY <1>5, EndLeaves, RestartA, RestartB
<1>6. ASSUME NEW l \in Link, NEW k \in Id, RecvMsg(l, k) PROVE out' = out
  BY <1>6, MsgMoves
<1>7. ASSUME NEW l \in Link, SendAck(l) PROVE out' = out
  BY <1>7, SendAckMoves
<1>8. ASSUME NEW l \in Link, WriteRows(l) PROVE out' = out
  BY <1>8, WriteMoves
<1>9. ASSUME NEW l \in Link, StoreMsg(l) \/ WriteIn(l) PROVE out' = out
  BY <1>9, StoreMoves
<1>10. ASSUME NEW l \in Link, Dial(l) \/ DialFails(l) \/ Connect(l) \/ Accept(l) PROVE out' = out
  BY <1>10, ConnectMoves
<1>11. ASSUME NEW r \in Row, SaveRow(r) PROVE out' = out
  BY <1>11 DEF SaveRow
<1>12. CASE UNCHANGED vars
  BY <1>12 DEF vars
<1> QED
  BY <1>1, <1>2, <1>3, <1>4, <1>5, <1>6, <1>7, <1>8, <1>9, <1>10, <1>11, <1>12, StepKinds

\* What can happen to its rows.
LEMMA RowsMove ==
    ASSUME IInv, [Next]_vars, NEW i \in Id
    PROVE  \/ rows'[i] = rows[i]
           \/ \E r \in Row : Pending(r) /\ r.id = i /\ rows'[i] = Append(rows[i], r.state)
           \/ rows'[i] = << >> /\ "a" \in unlink
<1> USE DEF IInv, ChatInv
<1>a. ASSUME NEW rs \in SUBSET Row, rows' = Appended(rs), \A r \in rs : Pending(r)
      PROVE  \/ rows'[i] = rows[i]
             \/ \E r \in Row : Pending(r) /\ r.id = i /\ rows'[i] = Append(rows[i], r.state)
  <2>1. CASE \A r \in rs : r.id # i
    BY <1>a, <2>1, AppendedType
  <2>2. CASE \E r \in rs : r.id = i
    <3>1. PICK r \in rs : r.id = i /\ Appended(rs)[i] = Append(rows[i], r.state)
      BY <2>2, AppendedType
    <3> QED
      BY <1>a, <3>1
  <2> QED
    BY <2>1, <2>2
<1>1. ASSUME NEW k \in Id, Send(k) PROVE rows' = rows
  BY <1>1, SendMoves
<1>2. ASSUME NEW l \in Link, FlushQueue(l) PROVE rows' = rows
  BY <1>2, FlushMoves
<1>3. ASSUME NEW l \in Link, NEW k \in Id, RecvAck(l, k) PROVE rows' = rows
  BY <1>3, AckMoves
<1>4. ASSUME NEW d \in Dev, RemovePeer(d) \/ Unlink(d)
      PROVE  rows'[i] = rows[i] \/ (rows'[i] = << >> /\ "a" \in unlink)
  BY <1>4, RemoveMoves
<1>5. ASSUME NEW d \in Dev, EndSteps(d) PROVE rows' = rows
  BY <1>5, EndLeaves, RestartA, RestartB
<1>6. ASSUME NEW l \in Link, NEW k \in Id, RecvMsg(l, k) PROVE rows' = rows
  BY <1>6, MsgMoves
<1>7. ASSUME NEW l \in Link, SendAck(l) PROVE rows' = rows
  BY <1>7, SendAckMoves
<1>8. ASSUME NEW l \in Link, WriteRows(l)
      PROVE  \/ rows'[i] = rows[i]
             \/ \E r \in Row : Pending(r) /\ r.id = i /\ rows'[i] = Append(rows[i], r.state)
  <2>1. arows[l] \in SUBSET Row /\ rows' = Appended(arows[l])
    BY <1>8, WriteMoves
  <2>2. \A r \in arows[l] : Pending(r)
    BY DEF Pending
  <2> QED
    BY <1>a, <2>1, <2>2
<1>9. ASSUME NEW l \in Link, StoreMsg(l) \/ WriteIn(l) PROVE rows' = rows
  BY <1>9, StoreMoves
<1>10. ASSUME NEW l \in Link, Dial(l) \/ DialFails(l) \/ Connect(l) \/ Accept(l) PROVE rows' = rows
  BY <1>10, ConnectMoves
<1>11. ASSUME NEW r \in Row, SaveRow(r)
       PROVE  \/ rows'[i] = rows[i]
              \/ \E q \in Row : Pending(q) /\ q.id = i /\ rows'[i] = Append(rows[i], q.state)
  <2>1. {r} \in SUBSET Row /\ rows' = Appended({r}) /\ \A q \in {r} : Pending(q)
    BY <1>11 DEF SaveRow, Pending
  <2> QED
    BY <1>a, <2>1
<1>12. CASE UNCHANGED vars
  BY <1>12 DEF vars
<1> QED
  BY <1>1, <1>2, <1>3, <1>4, <1>5, <1>6, <1>7, <1>8, <1>9, <1>10, <1>11, <1>12, StepKinds

\* A state that is new in the file was in a row to write.
LEMMA StateMoves ==
    ASSUME IInv, [Next]_vars, NEW i \in Id, NEW s \in FileState,
           \E n \in DOMAIN rows'[i] : rows'[i][n] = s, ~\E n \in DOMAIN rows[i] : rows[i][n] = s
    PROVE  Pending(RowOf(i, s))
<1>1. PICK n \in DOMAIN rows'[i] : rows'[i][n] = s
  OBVIOUS
<1>2. rows[i] \in Seq(FileState)
  BY DEF IInv, TypeOK, FileState
<1>3. rows'[i] # rows[i] /\ rows'[i] # << >>
  BY <1>1
<1>4. PICK r \in Row : Pending(r) /\ r.id = i /\ rows'[i] = Append(rows[i], r.state)
  BY <1>3, RowsMove
<1>5. r.state = s
  <2>1. r.state \in FileState
    BY RowType
  <2>2. n \in 1..(Len(rows[i]) + 1)
    BY <1>1, <1>2, <1>4, <2>1
  <2>3. CASE n = Len(rows[i]) + 1
    BY <1>1, <1>2, <1>4, <2>1, <2>3
  <2>4. CASE n \in 1..Len(rows[i])
    <3>1. Append(rows[i], r.state)[n] = rows[i][n]
      BY <1>2, <2>1, <2>4
    <3> QED
      BY <1>1, <1>2, <1>4, <2>4, <3>1
  <2> QED
    BY <1>2, <2>2, <2>3, <2>4
<1> QED
  BY <1>4, <1>5, RowType

\* Which rows are new to those to write.
LEMMA PendingMoves ==
    ASSUME IInv, [Next]_vars, NEW r \in Row, Pending(r)', ~Pending(r)
    PROVE  \/ Send(r.id) /\ r.state = out'[r.id]
           \/ (\E l \in Link : FlushQueue(l)) /\ r.id \in queued /\ r.state = "sent"
           \/ r.state = "acked" /\ \E l \in Link : RecvAck(l, r.id) /\ out'[r.id] = "acked"
<1> USE DEF IInv, ChatInv
<1>a. ASSUME unsaved' \subseteq unsaved, \A l \in Link : arows'[l] \subseteq arows[l] PROVE FALSE
  BY <1>a DEF Pending
<1>b. r.id \in Id /\ r.state \in FileState /\ r = RowOf(r.id, r.state)
  BY RowType
<1>1. ASSUME NEW k \in Id, Send(k) PROVE Send(r.id) /\ r.state = out'[r.id]
  <2>1. UNCHANGED arows /\ unsaved' = unsaved \cup {RowOf(k, out'[k])} /\ out'[k] \in FileState
    BY <1>1, SendMoves DEF FileState
  <2>2. r = RowOf(k, out'[k])
    BY <2>1 DEF Pending
  <2>3. r.id = k /\ r.state = out'[k]
    BY <2>1, <2>2, RowType
  <2> QED
    BY <1>1, <2>3
<1>2. ASSUME NEW l \in Link, FlushQueue(l) PROVE r.id \in queued /\ r.state = "sent"
  <2>1. /\ UNCHANGED unsaved /\ arows'[l] = {RowOf(i, "sent") : i \in queued} /\ queued \in SUBSET Id
        /\ \A k \in Link : k # l => arows'[k] = arows[k]
    BY <1>2, FlushMoves
  <2>2. r \in {RowOf(i, "sent") : i \in queued}
    BY <2>1 DEF Pending
  <2> QED
    BY <2>1, <2>2, RowType DEF FileState
<1>3. ASSUME NEW l \in Link, NEW k \in Id, RecvAck(l, k)
      PROVE  r.state = "acked" /\ RecvAck(l, r.id) /\ out'[r.id] = "acked"
  <2>1. /\ UNCHANGED unsaved /\ \A j \in Link : j # l => arows'[j] = arows[j]
        /\ arows' = arows \/ (arows'[l] = {RowOf(k, "acked")} /\ out'[k] = "acked")
    BY <1>3, AckMoves
  <2>2. r = RowOf(k, "acked") /\ out'[k] = "acked"
    BY <2>1 DEF Pending
  <2> QED
    BY <1>3, <2>2, RowType DEF FileState
<1>4. ASSUME NEW d \in Dev, RemovePeer(d) \/ Unlink(d) PROVE FALSE
  BY <1>a, <1>4, RemoveMoves
<1>5. ASSUME NEW d \in Dev, EndSteps(d) PROVE FALSE
  <2>1. PICK ls \in SUBSET Link, gone \in SUBSET Id : EndTasks(d, ls, gone)
    BY <1>5, EndCases
  <2>2. unsaved' \subseteq unsaved
    BY <1>5, EndLeaves, RestartA, RestartB
  <2>3. ASSUME NEW l \in Link PROVE arows'[l] \subseteq arows[l]
    <3>1. CASE l \notin ls
      BY <2>1, <3>1, EndedElse
    <3>2. CASE l \in ls /\ d = "a"
      BY <2>1, <3>2, EndedA
    <3>3. CASE l \in ls /\ d = "b"
      BY <2>1, <3>3, EndedB
    <3> QED
      BY <3>1, <3>2, <3>3 DEF Dev
  <2> QED
    BY <1>a, <2>2, <2>3
<1>6. ASSUME NEW l \in Link, NEW k \in Id, RecvMsg(l, k) PROVE FALSE
  BY <1>a, <1>6, MsgMoves
<1>7. ASSUME NEW l \in Link, SendAck(l) PROVE FALSE
  BY <1>a, <1>7, SendAckMoves
<1>8. ASSUME NEW l \in Link, WriteRows(l) PROVE FALSE
  BY <1>a, <1>8, WriteMoves
<1>9. ASSUME NEW l \in Link, StoreMsg(l) \/ WriteIn(l) PROVE FALSE
  BY <1>a, <1>9, StoreMoves
<1>10. ASSUME NEW l \in Link, Dial(l) \/ DialFails(l) \/ Connect(l) \/ Accept(l) PROVE FALSE
  BY <1>a, <1>10, ConnectMoves
<1>11. ASSUME NEW q \in Row, SaveRow(q) PROVE FALSE
  BY <1>a, <1>11 DEF SaveRow, ends
<1>12. CASE UNCHANGED vars
  BY <1>a, <1>12 DEF vars
<1> QED
  BY <1>b, <1>1, <1>2, <1>3, <1>4, <1>5, <1>6, <1>7, <1>8, <1>9, <1>10, <1>11, <1>12, StepKinds

\* A text comes to a session by send and by flush_queue only.
LEMMA CarriedMoves ==
    ASSUME IInv, [Next]_vars, NEW l \in Link, NEW i \in Carried(l)', i \notin Carried(l)
    PROVE  \/ Send(i) /\ out'[i] = "sent"
           \/ (\E k \in Link : FlushQueue(k)) /\ i \in queued
<1> USE DEF IInv, ChatInv
<1>a. ASSUME Carried(l)' \subseteq Carried(l) PROVE FALSE
  BY <1>a
<1>b. ASSUME UNCHANGED <<msgs, bmsg, acks>> PROVE FALSE
  BY <1>a, <1>b DEF Carried
<1>c. ASSUME NEW k \in Link, NEW is \in SUBSET Id, Put(k, is), UNCHANGED <<bmsg, acks>> PROVE i \in is
  <2>1. msgs'[l] \subseteq msgs[l] \cup is
    BY <1>c, PutType
  <2> QED
    BY <1>c, <2>1 DEF Carried
<1>1. ASSUME NEW k \in Id, Send(k) PROVE Send(i) /\ out'[i] = "sent"
  <2>1. /\ UNCHANGED <<bmsg, acks>>
        /\ UNCHANGED msgs \/ ((\E j \in Link : Put(j, {k})) /\ out'[k] = "sent")
    BY <1>1, SendMoves
  <2>2. {k} \in SUBSET Id
    OBVIOUS
  <2>3. i \in {k} /\ out'[k] = "sent"
    BY <1>b, <1>c, <2>1, <2>2
  <2> QED
    BY <1>1, <2>3
<1>2. ASSUME NEW k \in Link, FlushQueue(k) PROVE i \in queued
  BY <1>c, <1>2, FlushMoves
<1>3. ASSUME NEW k \in Link, NEW j \in Id, RecvAck(k, j) PROVE FALSE
  <2>1. acks'[l] \subseteq acks[l] /\ UNCHANGED <<msgs, bmsg>>
    BY <1>3, AckMoves
  <2> QED
    BY <1>a, <2>1 DEF Carried
<1>4. ASSUME NEW d \in Dev, RemovePeer(d) \/ Unlink(d) PROVE FALSE
  BY <1>b, <1>4, RemoveMoves
<1>5. ASSUME NEW d \in Dev, EndSteps(d) PROVE FALSE
  <2>1. PICK ls \in SUBSET Link, gone \in SUBSET Id : EndTasks(d, ls, gone)
    BY <1>5, EndCases
  <2>2. msgs'[l] \subseteq msgs[l] /\ bmsg'[l] \subseteq bmsg[l] /\ acks'[l] \subseteq acks[l]
    <3>1. CASE l \notin ls
      BY <2>1, <3>1, EndedElse
    <3>2. CASE l \in ls /\ d = "a"
      BY <2>1, <3>2, EndedA
    <3>3. CASE l \in ls /\ d = "b"
      BY <2>1, <3>3, EndedB
    <3> QED
      BY <3>1, <3>2, <3>3 DEF Dev
  <2> QED
    BY <1>a, <2>2 DEF Carried
<1>6. ASSUME NEW k \in Link, NEW j \in Id, RecvMsg(k, j) PROVE FALSE
  <2>1. CASE k = l
    <3>1. /\ j \in msgs[l] /\ msgs'[l] = msgs[l] \ {j}
          /\ \/ acks'[l] \subseteq acks[l] \cup {j} /\ bmsg' = bmsg
             \/ bmsg'[l] = {j} /\ acks'[l] = acks[l]
      BY <1>6, <2>1, MsgMoves
    <3> QED
      BY <1>a, <3>1 DEF Carried
  <2>2. CASE k # l
    <3>1. msgs'[l] = msgs[l] /\ bmsg'[l] = bmsg[l] /\ acks'[l] = acks[l]
      BY <1>6, <2>2, MsgMoves
    <3> QED
      BY <1>a, <3>1 DEF Carried
  <2> QED
    BY <2>1, <2>2
<1>7. ASSUME NEW k \in Link, SendAck(k) PROVE FALSE
  <2>1. UNCHANGED msgs /\ bmsg'[l] \subseteq bmsg[l] /\ acks'[l] \subseteq acks[l] \cup bmsg[l]
    <3>1. CASE k = l
      BY <1>7, <3>1, SendAckMoves
    <3>2. CASE k # l
      BY <1>7, <3>2, SendAckMoves
    <3> QED
      BY <3>1, <3>2
  <2> QED
    BY <1>a, <2>1 DEF Carried
<1>8. ASSUME NEW k \in Link, WriteRows(k) PROVE FALSE
  BY <1>b, <1>8, WriteMoves
<1>9. ASSUME NEW k \in Link, StoreMsg(k) \/ WriteIn(k) PROVE FALSE
  BY <1>b, <1>9, StoreMoves
<1>10. ASSUME NEW k \in Link, Dial(k) \/ DialFails(k) \/ Connect(k) \/ Accept(k) PROVE FALSE
  <2>1. msgs'[l] \subseteq msgs[l] /\ UNCHANGED <<bmsg, acks>>
    BY <1>10, ConnectMoves
  <2> QED
    BY <1>a, <2>1 DEF Carried
<1>11. ASSUME NEW q \in Row, SaveRow(q) PROVE FALSE
  BY <1>b, <1>11 DEF SaveRow, ends
<1>12. CASE UNCHANGED vars
  BY <1>b, <1>12 DEF vars
<1> QED
  BY <1>1, <1>2, <1>3, <1>4, <1>5, <1>6, <1>7, <1>8, <1>9, <1>10, <1>11, <1>12, StepKinds

\* The steps that leave a's texts and the pairing alone.
LEMMA AuthorLeaves ==
    ASSUME TypeOK, [Next]_vars
    PROVE  \/ \E i \in Id : Send(i)
           \/ \E l \in Link : FlushQueue(l)
           \/ \E l \in Link, i \in Id : RecvAck(l, i)
           \/ \E d \in Dev : EndSteps(d)
           \/ \E d \in Dev : RemovePeer(d) \/ Unlink(d)
           \/ UNCHANGED <<known, said, out, queued, unlink>>
<1>6. ASSUME NEW l \in Link, NEW k \in Id, RecvMsg(l, k) PROVE UNCHANGED <<known, said, out, queued, unlink>>
  BY <1>6, MsgMoves
<1>7. ASSUME NEW l \in Link, SendAck(l) PROVE UNCHANGED <<known, said, out, queued, unlink>>
  BY <1>7, SendAckMoves
<1>8. ASSUME NEW l \in Link, WriteRows(l) PROVE UNCHANGED <<known, said, out, queued, unlink>>
  BY <1>8, WriteMoves
<1>9. ASSUME NEW l \in Link, StoreMsg(l) \/ WriteIn(l) PROVE UNCHANGED <<known, said, out, queued, unlink>>
  BY <1>9, StoreMoves
<1>10. ASSUME NEW l \in Link, Dial(l) \/ DialFails(l) \/ Connect(l) \/ Accept(l)
       PROVE  UNCHANGED <<known, said, out, queued, unlink>>
  BY <1>10, ConnectMoves
<1>11. ASSUME NEW r \in Row, SaveRow(r) PROVE UNCHANGED <<known, said, out, queued, unlink>>
  BY <1>11 DEF SaveRow
<1>12. CASE UNCHANGED vars
  BY <1>12 DEF vars
<1> QED
  BY <1>6, <1>7, <1>8, <1>9, <1>10, <1>11, <1>12, StepKinds

\* Texts only come to what a has written; the pairing only ends.
LEMMA SaidGrows ==
    ASSUME IInv, [Next]_vars
    PROVE  said \subseteq said' /\ known' \subseteq known
<1> USE DEF IInv, ChatInv
<1>1. ASSUME NEW i \in Id, Send(i) PROVE said \subseteq said' /\ known' \subseteq known
  BY <1>1, SendMoves
<1>2. ASSUME NEW l \in Link, FlushQueue(l) PROVE said \subseteq said' /\ known' \subseteq known
  BY <1>2, FlushMoves
<1>3. ASSUME NEW l \in Link, NEW i \in Id, RecvAck(l, i) PROVE said \subseteq said' /\ known' \subseteq known
  BY <1>3, AckMoves
<1>4. ASSUME NEW d \in Dev, RemovePeer(d) \/ Unlink(d) PROVE said \subseteq said' /\ known' \subseteq known
  BY <1>4, RemoveMoves
<1>5. ASSUME NEW d \in Dev, EndSteps(d) PROVE said \subseteq said' /\ known' \subseteq known
  BY <1>5, EndLeaves, RestartA, RestartB
<1> QED
  BY <1>1, <1>2, <1>3, <1>4, <1>5, AuthorLeaves

\* A text that is written by a step is written by its send.
LEMMA UnsaidStep ==
    ASSUME IInv, [Next]_vars
    PROVE  Unsaid'
<1> USE DEF IInv, ChatInv
<1> SUFFICES ASSUME NEW i \in Id, i \notin said'
             PROVE  /\ out'[i] = "none" /\ rows'[i] = << >>
                    /\ \A r \in Row : Pending(r)' => r.id # i
                    /\ \A l \in Link : i \notin Carried(l)'
  BY DEF Unsaid
<1>1. i \notin said
  BY SaidGrows
<1>2. /\ out[i] = "none" /\ rows[i] = << >>
      /\ \A r \in Row : Pending(r) => r.id # i
      /\ \A l \in Link : i \notin Carried(l) /\ i \notin acks[l]
  BY <1>1 DEF Unsaid, Carried
<1>3. i \notin queued
  BY <1>2 DEF QueueDurable, QueuedFrom
<1>4. ~Send(i)
  BY DEF Send
<1>5. out'[i] = "none"
  <2>1. CollapseHistory(rows)[i] = "none"
    BY <1>2 DEF CollapseHistory
  <2> QED
    BY <1>2, <1>3, <1>4, <2>1, OutMoves
<1>6. rows'[i] = << >>
  BY <1>2, RowsMove
<1>7. \A r \in Row : Pending(r)' => r.id # i
  <2> SUFFICES ASSUME NEW r \in Row, Pending(r)', r.id = i PROVE FALSE
    OBVIOUS
  <2>1. \A l \in Link : ~RecvAck(l, i)
    BY <1>2 DEF RecvAck
  <2> QED
    BY <1>2, <1>3, <1>4, <2>1, PendingMoves
<1>8. \A l \in Link : i \notin Carried(l)'
  BY <1>2, <1>3, <1>4, CarriedMoves
<1> QED
  BY <1>5, <1>6, <1>7, <1>8

\* A device that removed the other one stays without its texts.
LEMMA RemovedStep ==
    ASSUME IInv, [Next]_vars
    PROVE  Removed'
<1> USE DEF IInv, ChatInv
<1>1. unlink' \cap known' = {}
  <2>1. ASSUME NEW i \in Id, Send(i) PROVE unlink' \cap known' = {}
    BY <2>1, SendMoves DEF Removed
  <2>2. ASSUME NEW l \in Link, FlushQueue(l) PROVE unlink' \cap known' = {}
    BY <2>2, FlushMoves DEF Removed
  <2>3. ASSUME NEW l \in Link, NEW i \in Id, RecvAck(l, i) PROVE unlink' \cap known' = {}
    BY <2>3, AckMoves DEF Removed
  <2>4. ASSUME NEW d \in Dev, RemovePeer(d) \/ Unlink(d) PROVE unlink' \cap known' = {}
    BY <2>4, RemoveMoves DEF Removed
  <2>5. ASSUME NEW d \in Dev, EndSteps(d) PROVE unlink' \cap known' = {}
    BY <2>5, EndLeaves, RestartA, RestartB DEF Removed
  <2> QED
    BY <2>1, <2>2, <2>3, <2>4, <2>5, AuthorLeaves DEF Removed
<1>2. ASSUME "a" \notin known', NEW i \in Id PROVE out'[i] = "none"
  <2>1. CASE "a" \notin known
    <3>1. out[i] = "none" /\ i \notin queued /\ ~Send(i)
      BY <2>1 DEF Removed, QueueDurable, QueuedFrom, Send
    <3> QED
      BY <2>1, <3>1, OutMoves
  <2>2. CASE "a" \in known
    <3>1. ASSUME NEW k \in Id, Send(k) PROVE FALSE
      BY <1>2, <2>2, <3>1, SendMoves
    <3>2. ASSUME NEW l \in Link, FlushQueue(l) PROVE FALSE
      BY <1>2, <2>2, <3>2, FlushMoves
    <3>3. ASSUME NEW l \in Link, NEW k \in Id, RecvAck(l, k) PROVE FALSE
      BY <1>2, <2>2, <3>3, AckMoves
    <3>4. ASSUME NEW d \in Dev, RemovePeer(d) \/ Unlink(d) PROVE out'[i] = "none"
      BY <1>2, <2>2, <3>4, RemoveMoves
    <3>5. ASSUME NEW d \in Dev, EndSteps(d) PROVE FALSE
      BY <1>2, <2>2, <3>5, EndLeaves, RestartA, RestartB
    <3> QED
      BY <1>2, <2>2, <3>1, <3>2, <3>3, <3>4, <3>5, AuthorLeaves
  <2> QED
    BY <2>1, <2>2
<1> QED
  BY <1>1, <1>2 DEF Removed

-----------------------------------------------------------------------------
(* The queue *)

\* A queued text is in the hands of nobody who acknowledges it.
LEMMA QueuedIsFresh ==
    ASSUME IInv, NEW i \in queued
    PROVE  /\ i \in Id /\ i \in said /\ out[i] = "queued" /\ "a" \in known /\ "a" \notin unlink /\ ~Send(i)
           /\ \A l \in Link : ~RecvAck(l, i)
<1> USE DEF IInv, ChatInv
<1>1. i \in Id /\ out[i] = "queued"
  BY DEF QueueDurable, QueuedFrom
<1>2. i \in said
  BY <1>1 DEF Unsaid
<1>3. "a" \in known /\ "a" \notin unlink
  BY <1>1 DEF Removed
<1>4. ~Send(i)
  BY <1>2 DEF Send
<1>5. ASSUME NEW l \in Link, RecvAck(l, i) PROVE FALSE
  <2>1. "a" \in task[l] /\ i \in acks[l]
    BY <1>5 DEF RecvAck
  <2>2. Reads(l, "a") /\ i \in Carried(l)
    BY <2>1 DEF Reads, Carried
  <2> QED
    BY <2>2 DEF QueueQuiet
<1> QED
  BY <1>1, <1>2, <1>3, <1>4, <1>5

\* The queue is what it was, with a new text, emptied, or read from the file.
LEMMA QueueMoves ==
    ASSUME IInv, [Next]_vars
    PROVE  \/ UNCHANGED queued /\ ~Restart("a")
           \/ \E i \in Id : /\ Send(i) /\ i \notin queued /\ queued' = queued \cup {i} /\ out'[i] = "queued"
                            /\ unsaved' = unsaved \cup {RowOf(i, "queued")} /\ UNCHANGED <<rows, task, phase>>
           \/ queued' = {}
           \/ Restart("a") /\ "a" \in known /\ queued' = QueuedFrom(CollapseHistory(rows))
<1> USE DEF IInv, ChatInv
<1>0. CASE Restart("a")
  BY <1>0, RestartA
<1>1. ASSUME NEW i \in Id, Send(i)
      PROVE  \/ UNCHANGED queued
             \/ /\ i \notin queued /\ queued' = queued \cup {i} /\ out'[i] = "queued"
                /\ unsaved' = unsaved \cup {RowOf(i, "queued")} /\ UNCHANGED <<rows, task, phase>>
  BY <1>1, SendMoves, QueuedIsFresh
<1>2. ASSUME NEW l \in Link, FlushQueue(l) PROVE queued' = {}
  BY <1>2, FlushMoves
<1>3. ASSUME NEW l \in Link, NEW i \in Id, RecvAck(l, i) PROVE UNCHANGED queued
  BY <1>3, AckMoves
<1>4. ASSUME NEW d \in Dev, RemovePeer(d) \/ Unlink(d) PROVE UNCHANGED queued \/ queued' = {}
  BY <1>4, RemoveMoves
<1>5. ASSUME NEW d \in Dev, EndSteps(d) PROVE UNCHANGED queued \/ Restart("a")
  BY <1>5, EndLeaves, RestartB
<1> QED
  BY <1>0, <1>1, <1>2, <1>3, <1>4, <1>5, AuthorLeaves

\* The queue is what is marked as queued.
LEMMA QueueExact ==
    ASSUME IInv, [Next]_vars
    PROVE  queued' = QueuedFrom(out')
<1> USE DEF IInv, ChatInv
<1>a. queued' \subseteq Id
  BY TypeStep DEF TypeOK
<1>b. \A i \in Id : i \in queued <=> out[i] = "queued"
  BY DEF QueueDurable, QueuedFrom
<1>c. ASSUME \A i \in Id : i \in queued' <=> out'[i] = "queued" PROVE queued' = QueuedFrom(out')
  BY <1>a, <1>c DEF QueuedFrom
<1>1. ASSUME NEW i \in Id, Send(i) PROVE queued' = QueuedFrom(out')
  <2>1. i \notin queued
    BY <1>1, QueuedIsFresh
  <2>2. /\ \A k \in Id : k # i => out'[k] = out[k]
        /\ \/ out'[i] = "sent" /\ queued' = queued
           \/ out'[i] = "queued" /\ queued' = queued \cup {i}
    BY <1>1, SendMoves
  <2> QED
    BY <1>b, <1>c, <2>1, <2>2
<1>2. ASSUME NEW l \in Link, FlushQueue(l) PROVE queued' = QueuedFrom(out')
  <2>1. queued' = {} /\ \A i \in Id : out'[i] = IF i \in queued THEN "sent" ELSE out[i]
    BY <1>2, FlushMoves
  <2> QED
    BY <1>b, <1>c, <2>1
<1>3. ASSUME NEW l \in Link, NEW i \in Id, RecvAck(l, i) PROVE queued' = QueuedFrom(out')
  <2>1. i \notin queued
    BY <1>3, QueuedIsFresh
  <2>2. /\ queued' = queued /\ \A k \in Id : k # i => out'[k] = out[k]
        /\ out'[i] = out[i] \/ out'[i] = "acked"
    BY <1>3, AckMoves
  <2> QED
    BY <1>b, <1>c, <2>1, <2>2
<1>4. ASSUME NEW d \in Dev, RemovePeer(d) \/ Unlink(d) PROVE queued' = QueuedFrom(out')
  <2>1. UNCHANGED <<out, queued>> \/ (queued' = {} /\ \A i \in Id : out'[i] = "none")
    BY <1>4, RemoveMoves
  <2> QED
    BY <1>b, <1>c, <2>1
<1>5. ASSUME NEW d \in Dev, EndSteps(d) PROVE queued' = QueuedFrom(out')
  <2>1. CASE UNCHANGED <<out, queued>>
    BY <1>b, <1>c, <2>1
  <2>2. CASE Restart("a") /\ "a" \in known
    BY <2>2, RestartA
  <2>3. CASE Restart("a") /\ "a" \notin known
    <3>1. queued' = {} /\ out' = out /\ \A i \in Id : out[i] = "none"
      BY <2>3, RestartA DEF Removed
    <3> QED
      BY <1>c, <3>1
  <2> QED
    BY <1>5, <2>1, <2>2, <2>3, EndLeaves, RestartB
<1>6. CASE UNCHANGED <<out, queued>>
  BY <1>b, <1>c, <1>6
<1> QED
  BY <1>1, <1>2, <1>3, <1>4, <1>5, <1>6, AuthorLeaves

\* After a start of a, nobody has rows to write and nobody reads for it.
LEMMA RestartIsClean ==
    ASSUME IInv, Restart("a")
    PROVE  /\ \A r \in Row : ~Pending(r)'
           /\ \A l \in Link : ~Reads(l, "a")'
<1> USE DEF IInv, ChatInv
<1>1. PICK ls \in SUBSET Link, gone \in SUBSET Id :
             /\ EndTasks("a", ls, gone)
             /\ \A l \in Link : "a" \in task[l] \/ phase[l] = "ring" => l \in ls
  <2> DEFINE ls == {l \in Link : "a" \in task[l] \/ phase[l] = "ring" \/ (phase[l] = "dialing" /\ l[1] = "a")}
             gone == {r.id : r \in unsaved}
  <2>1. ls \in SUBSET Link /\ EndTasks("a", ls, gone)
    BY DEF Restart
  <2>2. gone \in SUBSET Id
    BY RowType DEF TypeOK
  <2>3. \A l \in Link : "a" \in task[l] \/ phase[l] = "ring" => l \in ls
    OBVIOUS
  <2> HIDE DEF ls, gone
  <2> QED
    BY <2>1, <2>2, <2>3
<1>2. "a" \in Dev
  BY DEF Dev
<1>3. ASSUME NEW l \in Link
      PROVE  arows'[l] = {} /\ "a" \notin task'[l] /\ phase'[l] # "ring"
  <2>1. CASE l \in ls
    BY <1>1, <2>1, EndedA
  <2>2. CASE l \notin ls
    <3>1. "a" \notin task[l] /\ phase[l] # "ring"
      BY <1>1, <2>2
    <3>2. arows[l] = {}
      BY <3>1 DEF Held
    <3>3. task'[l] = task[l] /\ phase'[l] = phase[l] /\ arows'[l] = arows[l]
      BY <1>1, <1>2, <2>2, EndedElse
    <3> QED
      BY <3>1, <3>2, <3>3
  <2> QED
    BY <2>1, <2>2
<1>4. unsaved' = {}
  BY RestartA
<1> QED
  BY <1>3, <1>4 DEF Pending, Reads

\* A session that is new to a carries nothing yet.
LEMMA ReadsMove ==
    ASSUME IInv, [Next]_vars, NEW l \in Link, Reads(l, "a")', ~Reads(l, "a")
    PROVE  Carried(l)' = {}
<1> USE DEF IInv, ChatInv
<1>a. CASE task'[l] \subseteq task[l] /\ (phase'[l] = "ring" => phase[l] = "ring")
  BY <1>a DEF Reads
<1>1. ASSUME NEW k \in Link, Dial(k) \/ DialFails(k) \/ Connect(k) \/ Accept(k) PROVE Carried(l)' = {}
  <2>1. /\ \A j \in Link : j # k => task'[j] = task[j] /\ phase'[j] = phase[j]
        /\ UNCHANGED <<acks, bmsg>>
        /\ \/ /\ phase[k] \in {"idle", "dialing"} /\ phase'[k] \in {"idle", "dialing"} /\ UNCHANGED task
           \/ phase[k] = "dialing" /\ phase'[k] = "ring" /\ task'[k] = {k[1]} /\ UNCHANGED msgs
           \/ phase[k] = "ring" /\ phase'[k] = "up" /\ task'[k] = task[k] \cup {Other(k[1])}
           \/ phase[k] = "ring" /\ phase'[k] = "up" /\ task' = task
    BY <1>1, ConnectMoves
  <2>2. CASE l # k
    BY <1>a, <2>1, <2>2
  <2>3. CASE l = k /\ phase[k] = "dialing" /\ UNCHANGED msgs
    BY <2>1, <2>3 DEF FreeIsEmpty, Carried
  <2>4. CASE l = k /\ phase[k] = "ring"
    <3>1. "a" \in task'[k] => "a" \in task[k] \/ "a" = Other(k[1])
      BY <2>1, <2>4
    <3>2. Other(k[1]) # k[1]
      BY LinkEnds
    <3> QED
      BY <2>1, <2>4, <3>1, <3>2 DEF Reads
  <2>5. CASE l = k /\ phase'[k] \in {"idle", "dialing"} /\ UNCHANGED task
    BY <1>a, <2>5
  <2> QED
    BY <2>1, <2>2, <2>3, <2>4, <2>5
<1>2. ASSUME NEW d \in Dev, EndSteps(d) PROVE Carried(l)' = {}
  <2>1. PICK ls \in SUBSET Link, gone \in SUBSET Id : EndTasks(d, ls, gone)
    BY <1>2, EndCases
  <2>2. CASE l \notin ls
    <3>1. task'[l] = task[l] /\ phase'[l] = phase[l]
      BY <2>1, <2>2, EndedElse
    <3> QED
      BY <1>a, <3>1
  <2>3. CASE l \in ls
    <3>1. task'[l] = task[l] \ {d} /\ phase'[l] \in {"idle", "up"}
      <4>1. CASE d = "a"
        BY <2>1, <2>3, <4>1, EndedA
      <4>2. CASE d = "b"
        BY <2>1, <2>3, <4>2, EndedB
      <4> QED
        BY <4>1, <4>2 DEF Dev
    <3> QED
      BY <1>a, <3>1
  <2> QED
    BY <2>2, <2>3
<1>3. CASE UNCHANGED <<task, phase>>
  BY <1>a, <1>3
<1>4. ASSUME NEW i \in Id, Send(i) PROVE UNCHANGED <<task, phase>>
  BY <1>4, SendMoves
<1>5. ASSUME NEW k \in Link, FlushQueue(k) PROVE UNCHANGED <<task, phase>>
  BY <1>5, FlushMoves
<1>6. ASSUME NEW k \in Link, NEW i \in Id, RecvAck(k, i) \/ RecvMsg(k, i) PROVE UNCHANGED <<task, phase>>
  BY <1>6, AckMoves, MsgMoves
<1>7. ASSUME NEW k \in Link, StoreMsg(k) \/ WriteIn(k) PROVE UNCHANGED <<task, phase>>
  BY <1>7, StoreMoves
<1>8. ASSUME NEW k \in Link, WriteRows(k) \/ SendAck(k) PROVE UNCHANGED <<task, phase>>
  BY <1>8, WriteMoves, SendAckMoves
<1>9. ASSUME NEW d \in Dev, RemovePeer(d) \/ Unlink(d) PROVE UNCHANGED <<task, phase>>
  BY <1>9, RemoveMoves
<1>10. ASSUME NEW r \in Row, SaveRow(r) PROVE UNCHANGED <<task, phase>>
  BY <1>10 DEF SaveRow
<1>11. CASE UNCHANGED vars
  BY <1>3, <1>11 DEF vars
<1> QED
  BY <1>1, <1>2, <1>3, <1>4, <1>5, <1>6, <1>7, <1>8, <1>9, <1>10, <1>11, StepKinds

\* A row leaves the unsaved ones into the file, or with the process.
LEMMA UnsavedMoves ==
    ASSUME TypeOK, [Next]_vars, NEW r \in unsaved, r \notin unsaved'
    PROVE  SaveRow(r) \/ Restart("a")
<1>1. ASSUME NEW i \in Id, Send(i) PROVE FALSE
  BY <1>1, SendMoves
<1>2. ASSUME NEW l \in Link, FlushQueue(l) \/ WriteRows(l) \/ SendAck(l) PROVE FALSE
  BY <1>2, FlushMoves, WriteMoves, SendAckMoves
<1>3. ASSUME NEW l \in Link, NEW i \in Id, RecvAck(l, i) \/ RecvMsg(l, i) PROVE FALSE
  BY <1>3, AckMoves, MsgMoves
<1>4. ASSUME NEW l \in Link, StoreMsg(l) \/ WriteIn(l) PROVE FALSE
  BY <1>4, StoreMoves
<1>5. ASSUME NEW l \in Link, Dial(l) \/ DialFails(l) \/ Connect(l) \/ Accept(l) PROVE FALSE
  BY <1>5, ConnectMoves
<1>6. ASSUME NEW d \in Dev, EndSteps(d) PROVE Restart("a")
  BY <1>6, EndLeaves, RestartB
<1>7. ASSUME NEW d \in Dev, RemovePeer(d) \/ Unlink(d) PROVE FALSE
  BY <1>7, RemoveMoves
<1>8. ASSUME NEW q \in Row, SaveRow(q) PROVE q = r
  BY <1>8 DEF SaveRow
<1>9. CASE UNCHANGED vars
  BY <1>9 DEF vars
<1> QED
  BY <1>1, <1>2, <1>3, <1>4, <1>5, <1>6, <1>7, <1>8, <1>9, StepKinds

\* The queue survives.
LEMMA QueueStep ==
    ASSUME IInv, [Next]_vars
    PROVE  QueueDurable' /\ QueueRows' /\ QueueQuiet'
<1> USE DEF IInv, ChatInv
<1>a. rows \in [Id -> Seq(FileState)] /\ rows' \in [Id -> Seq(FileState)]
  BY TypeStep DEF TypeOK, FileState
<1>b. CollapseHistory(rows') = CollapseHistory(rows)'
  OBVIOUS
<1>1. CASE queued' = {}
  <2>1. QueueDurable'
    BY <1>1, QueueExact DEF QueueDurable
  <2> QED
    BY <1>1, <2>1 DEF QueueRows, QueueQuiet
<1>2. CASE Restart("a") /\ queued' = QueuedFrom(CollapseHistory(rows))
  <2>1. UNCHANGED rows
    BY <1>2, RestartA
  <2>2. \A i \in queued' : CollapseHistory(rows')[i] = "queued"
    BY <1>2, <2>1 DEF QueuedFrom
  <2>3. QueueDurable'
    BY <2>2, QueueExact DEF QueueDurable
  <2>4. QueueRows' /\ QueueQuiet'
    BY <1>2, RestartIsClean DEF QueueRows, QueueQuiet
  <2> QED
    BY <2>3, <2>4
<1>3. ASSUME NEW i \in Id, Send(i), i \notin queued, queued' = queued \cup {i}, out'[i] = "queued",
             unsaved' = unsaved \cup {RowOf(i, "queued")}, UNCHANGED <<rows, task, phase>>
      PROVE  QueueDurable' /\ QueueRows' /\ QueueQuiet'
  <2>0. i \notin said /\ out[i] = "none"
    BY <1>3 DEF Send, Unsaid
  <2>1. \A k \in queued' : RowOf(k, "queued") \in unsaved' \/ CollapseHistory(rows')[k] = "queued"
    <3>1. CollapseHistory(rows') = CollapseHistory(rows)
      BY <1>3
    <3> QED
      BY <1>3, <3>1 DEF QueueDurable
  <2>2. QueueDurable'
    BY <2>1, QueueExact DEF QueueDurable
  <2>3. \A l \in Link : ~FlushQueue(l)
    BY <1>3, FlushMoves
  <2>4. \A l \in Link, k \in queued' : ~RecvAck(l, k)
    <3>1. \A l \in Link : ~RecvAck(l, i)
      BY <2>0 DEF Unsaid, RecvAck, Carried
    <3> QED
      BY <1>3, <3>1, QueuedIsFresh
  <2>5. QueueRows'
    <3> SUFFICES ASSUME NEW k \in queued', NEW r \in Row, Pending(r)', r.id = k PROVE r.state = "queued"
      BY DEF QueueRows
    <3>1. CASE Pending(r)
      <4>1. k # i
        BY <2>0, <3>1 DEF Unsaid
      <4> QED
        BY <1>3, <3>1, <4>1 DEF QueueRows
    <3>2. CASE ~Pending(r)
      <4>1. Send(k) /\ r.state = out'[k]
        BY <2>3, <2>4, <3>2, PendingMoves
      <4>2. k = i
        BY <1>3, <4>1, QueuedIsFresh
      <4> QED
        BY <1>3, <4>1, <4>2
    <3> QED
      BY <3>1, <3>2
  <2>6. QueueQuiet'
    <3> SUFFICES ASSUME NEW k \in queued', NEW l \in Link, Reads(l, "a")', k \in Carried(l)' PROVE FALSE
      BY DEF QueueQuiet
    <3>1. Reads(l, "a")
      BY <1>3 DEF Reads
    <3>2. k \notin Carried(l)
      BY <1>3, <2>0, <3>1 DEF QueueQuiet, Unsaid
    <3>3. Send(k) /\ out'[k] = "sent"
      BY <2>3, <3>2, CarriedMoves
    <3>4. k = i
      BY <1>3, <3>3, QueuedIsFresh
    <3> QED
      BY <1>3, <3>3, <3>4
  <2> QED
    BY <2>2, <2>5, <2>6
<1>4. CASE UNCHANGED queued /\ queued' # {} /\ ~Restart("a")
  <2>0. \A l \in Link : ~FlushQueue(l)
    BY <1>4, FlushMoves
  <2>1. ASSUME NEW k \in queued
        PROVE  RowOf(k, "queued") \in unsaved' \/ CollapseHistory(rows')[k] = "queued"
    <3>0. k \in Id /\ RowOf(k, "queued") \in Row /\ RowOf(k, "queued").id = k /\ RowOf(k, "queued").state = "queued"
      BY QueuedIsFresh, RowType DEF FileState
    <3>a. ASSUME rows'[k] = Append(rows[k], "queued") PROVE CollapseHistory(rows')[k] = "queued"
      <4>1. rows[k] \in Seq(FileState)
        BY <1>a, <3>0
      <4>2. rows'[k] # << >> /\ rows'[k][Len(rows'[k])] = "queued"
        BY <3>a, <4>1
      <4> QED
        BY <3>0, <4>2 DEF CollapseHistory
    <3>1. CASE CollapseHistory(rows)[k] = "queued"
      <4>1. CASE rows'[k] = rows[k]
        BY <3>0, <3>1, <4>1 DEF CollapseHistory
      <4>2. ASSUME NEW r \in Row, Pending(r), r.id = k, rows'[k] = Append(rows[k], r.state)
            PROVE  CollapseHistory(rows')[k] = "queued"
        <5>1. r.state = "queued"
          BY <4>2 DEF QueueRows
        <5> QED
          BY <3>a, <4>2, <5>1
      <4>3. "a" \notin unlink
        BY QueuedIsFresh
      <4> QED
        BY <3>0, <4>1, <4>2, <4>3, RowsMove
    <3>2. CASE RowOf(k, "queued") \in unsaved /\ RowOf(k, "queued") \notin unsaved'
      <4> DEFINE q == RowOf(k, "queued")
      <4>1. SaveRow(q)
        BY <1>4, <3>2, UnsavedMoves
      <4>2. {q} \in SUBSET Row /\ rows' = Appended({q})
        BY <3>0, <4>1 DEF SaveRow
      <4> HIDE DEF q
      <4>3. (\E r \in {q} : r.id = k) /\ q.state = "queued"
        BY <3>0 DEF q
      <4>4. PICK r \in {q} : Appended({q})[k] = Append(rows[k], r.state)
        BY <3>0, <4>2, <4>3, AppendedType
      <4>5. rows'[k] = Append(rows[k], "queued")
        BY <4>2, <4>3, <4>4
      <4> QED
        BY <3>a, <4>5
    <3>3. RowOf(k, "queued") \in unsaved \/ CollapseHistory(rows)[k] = "queued"
      BY DEF QueueDurable
    <3> QED
      BY <3>1, <3>2, <3>3
  <2>2. QueueDurable'
    BY <1>4, <2>1, QueueExact DEF QueueDurable
  <2>3. QueueRows'
    <3> SUFFICES ASSUME NEW k \in queued, NEW r \in Row, Pending(r)', r.id = k PROVE r.state = "queued"
      BY <1>4 DEF QueueRows
    <3>1. CASE Pending(r)
      BY <3>1 DEF QueueRows
    <3>2. CASE ~Pending(r)
      BY <2>0, <3>2, PendingMoves, QueuedIsFresh
    <3> QED
      BY <3>1, <3>2
  <2>4. QueueQuiet'
    <3> SUFFICES ASSUME NEW k \in queued, NEW l \in Link, Reads(l, "a")', k \in Carried(l)' PROVE FALSE
      BY <1>4 DEF QueueQuiet
    <3>1. CASE Reads(l, "a")
      <4>1. k \notin Carried(l)
        BY <3>1 DEF QueueQuiet
      <4> QED
        BY <2>0, <4>1, CarriedMoves, QueuedIsFresh
    <3>2. CASE ~Reads(l, "a")
      BY <3>2, ReadsMove
    <3> QED
      BY <3>1, <3>2
  <2> QED
    BY <2>2, <2>3, <2>4
<1> QED
  BY <1>1, <1>2, <1>3, <1>4, QueueMoves

-----------------------------------------------------------------------------
(* What b has *)

\* The steps that leave b's texts and the pairing alone.
LEMMA ReaderLeaves ==
    ASSUME TypeOK, [Next]_vars
    PROVE  \/ \E l \in Link, i \in Id : RecvMsg(l, i)
           \/ \E l \in Link : StoreMsg(l) \/ WriteIn(l)
           \/ \E l \in Link : SendAck(l)
           \/ \E d \in Dev : EndSteps(d)
           \/ \E d \in Dev : RemovePeer(d) \/ Unlink(d)
           \/ UNCHANGED <<known, got, stored, inrow, bpc, bmsg>>
<1>1. ASSUME NEW i \in Id, Send(i) PROVE UNCHANGED <<known, got, stored, inrow, bpc, bmsg>>
  BY <1>1, SendMoves
<1>2. ASSUME NEW l \in Link, FlushQueue(l) PROVE UNCHANGED <<known, got, stored, inrow, bpc, bmsg>>
  BY <1>2, FlushMoves
<1>3. ASSUME NEW l \in Link, NEW i \in Id, RecvAck(l, i) PROVE UNCHANGED <<known, got, stored, inrow, bpc, bmsg>>
  BY <1>3, AckMoves
<1>4. ASSUME NEW l \in Link, WriteRows(l) PROVE UNCHANGED <<known, got, stored, inrow, bpc, bmsg>>
  BY <1>4, WriteMoves
<1>5. ASSUME NEW l \in Link, Dial(l) \/ DialFails(l) \/ Connect(l) \/ Accept(l)
      PROVE  UNCHANGED <<known, got, stored, inrow, bpc, bmsg>>
  BY <1>5, ConnectMoves
<1>6. ASSUME NEW r \in Row, SaveRow(r) PROVE UNCHANGED <<known, got, stored, inrow, bpc, bmsg>>
  BY <1>6 DEF SaveRow, reader, ends
<1>7. CASE UNCHANGED vars
  BY <1>7 DEF vars
<1> QED
  BY <1>1, <1>2, <1>3, <1>4, <1>5, <1>6, <1>7, StepKinds

\* b keeps a text only once it is in its history.
LEMMA StoredStep ==
    ASSUME IInv, [Next]_vars
    PROVE  StoredFirst'
<1> USE DEF IInv, ChatInv
<1>t. got \in [Id -> Nat] /\ inrow \in [Id -> Nat] /\ bmsg \in [Link -> SUBSET Id]
  BY DEF TypeOK
<1>1. ASSUME NEW l \in Link, NEW i \in Id, RecvMsg(l, i) PROVE StoredFirst'
  <2>1. /\ UNCHANGED <<known, got, stored, inrow>>
        /\ \A k \in Link : k # l => bmsg'[k] = bmsg[k] /\ bpc'[k] = bpc[k]
        /\ UNCHANGED <<bpc, bmsg>> \/ bpc'[l] = "store"
    BY <1>1, MsgMoves
  <2> QED
    BY <2>1 DEF StoredFirst
<1>2. ASSUME NEW l \in Link, StoreMsg(l) \/ WriteIn(l) PROVE StoredFirst'
  <2>1. /\ UNCHANGED <<known, bmsg>> /\ \A k \in Link : k # l => bpc'[k] = bpc[k]
        /\ \/ /\ bpc[l] = "store" /\ "b" \in known /\ bpc'[l] = "write"
              /\ stored' = stored \cup bmsg[l] /\ UNCHANGED inrow
              /\ \A i \in Id : got'[i] = IF i \in bmsg[l] THEN got[i] + 1 ELSE got[i]
           \/ /\ bpc[l] = "store" /\ "b" \notin known /\ bpc'[l] = "ack"
              /\ UNCHANGED <<got, stored, inrow>>
           \/ /\ bpc[l] = "write" /\ bpc'[l] = "ack" /\ UNCHANGED <<got, stored>>
              /\ \A i \in Id : inrow'[i] = IF i \in bmsg[l] THEN inrow[i] + 1 ELSE inrow[i]
    BY <1>2, StoreMoves
  <2>2. \A i \in Id : got'[i] > 0 \/ inrow'[i] > 0 => i \in stored'
    BY <1>t, <2>1 DEF StoredFirst
  <2>3. \A k \in Link : bpc'[k] = "write" \/ (bpc'[k] = "ack" /\ "b" \in known') => bmsg'[k] \subseteq stored'
    BY <2>1 DEF StoredFirst
  <2> QED
    BY <2>2, <2>3 DEF StoredFirst
<1>3. ASSUME NEW l \in Link, SendAck(l) PROVE StoredFirst'
  <2>1. /\ UNCHANGED <<known, got, stored, inrow>> /\ bpc'[l] = "serve"
        /\ \A k \in Link : k # l => bmsg'[k] = bmsg[k] /\ bpc'[k] = bpc[k]
    BY <1>3, SendAckMoves
  <2> QED
    BY <2>1 DEF StoredFirst
<1>4. ASSUME NEW d \in Dev, EndSteps(d) PROVE StoredFirst'
  <2>1. PICK ls \in SUBSET Link, gone \in SUBSET Id : EndTasks(d, ls, gone)
    BY <1>4, EndCases
  <2>2. ASSUME NEW l \in Link
        PROVE  (bmsg'[l] = bmsg[l] /\ bpc'[l] = bpc[l]) \/ bpc'[l] = "serve"
    <3>1. CASE l \notin ls
      BY <2>1, <3>1, EndedElse
    <3>2. CASE l \in ls /\ d = "a"
      BY <2>1, <3>2, EndedA
    <3>3. CASE l \in ls /\ d = "b"
      BY <2>1, <3>3, EndedB
    <3> QED
      BY <3>1, <3>2, <3>3 DEF Dev
  <2>3. UNCHANGED <<known, stored, inrow>> /\ (got' = got \/ got' = inrow)
    BY <1>4, EndLeaves, RestartA, RestartB
  <2> QED
    BY <2>2, <2>3 DEF StoredFirst
<1>5. ASSUME NEW d \in Dev, RemovePeer(d) \/ Unlink(d) PROVE StoredFirst'
  <2>1. /\ UNCHANGED <<stored, bpc, bmsg>> /\ known' \subseteq known
        /\ \A i \in Id : got'[i] = got[i] \/ got'[i] = 0
        /\ \A i \in Id : inrow'[i] = inrow[i] \/ inrow'[i] = 0
    BY <1>5, RemoveMoves
  <2> QED
    BY <1>t, <2>1 DEF StoredFirst
<1>6. CASE UNCHANGED <<known, got, stored, inrow, bpc, bmsg>>
  BY <1>6 DEF StoredFirst
<1> QED
  BY <1>1, <1>2, <1>3, <1>4, <1>5, <1>6, ReaderLeaves

\* b's end is done with a text when it reads the next frame.
LEMMA FramesStep ==
    ASSUME IInv, [Next]_vars
    PROVE  BetweenFrames'
<1> USE DEF IInv, ChatInv
<1>1. ASSUME NEW l \in Link, NEW i \in Id, RecvMsg(l, i) PROVE BetweenFrames'
  <2>1. /\ \A k \in Link : k # l => bmsg'[k] = bmsg[k] /\ bpc'[k] = bpc[k]
        /\ UNCHANGED <<bpc, bmsg>> \/ bpc'[l] = "store"
    BY <1>1, MsgMoves
  <2> QED
    BY <2>1 DEF BetweenFrames
<1>2. ASSUME NEW l \in Link, StoreMsg(l) \/ WriteIn(l) PROVE BetweenFrames'
  <2>1. UNCHANGED bmsg /\ (\A k \in Link : k # l => bpc'[k] = bpc[k]) /\ bpc'[l] # "serve"
    BY <1>2, StoreMoves
  <2> QED
    BY <2>1 DEF BetweenFrames
<1>3. ASSUME NEW l \in Link, SendAck(l) PROVE BetweenFrames'
  <2>1. bmsg'[l] = {} /\ \A k \in Link : k # l => bmsg'[k] = bmsg[k] /\ bpc'[k] = bpc[k]
    BY <1>3, SendAckMoves
  <2> QED
    BY <2>1 DEF BetweenFrames
<1>4. ASSUME NEW d \in Dev, EndSteps(d) PROVE BetweenFrames'
  <2>1. PICK ls \in SUBSET Link, gone \in SUBSET Id : EndTasks(d, ls, gone)
    BY <1>4, EndCases
  <2>2. ASSUME NEW l \in Link
        PROVE  (bmsg'[l] = bmsg[l] /\ bpc'[l] = bpc[l]) \/ bmsg'[l] = {}
    <3>1. CASE l \notin ls
      BY <2>1, <3>1, EndedElse
    <3>2. CASE l \in ls /\ d = "a"
      BY <2>1, <3>2, EndedA
    <3>3. CASE l \in ls /\ d = "b"
      BY <2>1, <3>3, EndedB
    <3> QED
      BY <3>1, <3>2, <3>3 DEF Dev
  <2> QED
    BY <2>2 DEF BetweenFrames
<1>5. ASSUME NEW d \in Dev, RemovePeer(d) \/ Unlink(d) PROVE BetweenFrames'
  BY <1>5, RemoveMoves DEF BetweenFrames
<1>6. CASE UNCHANGED <<known, got, stored, inrow, bpc, bmsg>>
  BY <1>6 DEF BetweenFrames
<1> QED
  BY <1>1, <1>2, <1>3, <1>4, <1>5, <1>6, ReaderLeaves

-----------------------------------------------------------------------------
(* Sent texts *)

\* While both keep the chat, an accounted text stays accounted.
LEMMA AccountedStays ==
    ASSUME IInv, [Next]_vars, known' = Dev, NEW i \in Id, Accounted(i)
    PROVE  Accounted(i)'
<1> USE DEF IInv, ChatInv
<1>0. known = Dev
  BY SaidGrows DEF TypeOK
<1>a. ASSUME NEW l \in Link, NEW is \in SUBSET Id, Put(l, is), UNCHANGED <<stored, bmsg>> PROVE Accounted(i)'
  <2>1. lost \subseteq lost' /\ \A k \in Link : msgs[k] \subseteq msgs'[k]
    BY <1>a, PutType
  <2> QED
    BY <1>a, <2>1 DEF Accounted
<1>b. ASSUME UNCHANGED <<stored, lost, msgs, bmsg>> PROVE Accounted(i)'
  BY <1>b DEF Accounted
<1>1. ASSUME NEW k \in Id, Send(k) PROVE Accounted(i)'
  <2>1. UNCHANGED <<stored, bmsg>> /\ ((\E l \in Link : Put(l, {k})) \/ UNCHANGED <<msgs, lost>>)
    BY <1>1, SendMoves
  <2>2. {k} \in SUBSET Id
    OBVIOUS
  <2> QED
    BY <1>a, <1>b, <2>1, <2>2
<1>2. ASSUME NEW l \in Link, FlushQueue(l) PROVE Accounted(i)'
  BY <1>a, <1>2, FlushMoves
<1>3. ASSUME NEW l \in Link, NEW k \in Id, RecvAck(l, k) PROVE Accounted(i)'
  BY <1>b, <1>3, AckMoves
<1>4. ASSUME NEW l \in Link, NEW k \in Id, RecvMsg(l, k) PROVE Accounted(i)'
  <2>1. /\ UNCHANGED <<stored, lost>> /\ bpc[l] = "serve" /\ msgs'[l] = msgs[l] \ {k}
        /\ \A j \in Link : j # l => msgs'[j] = msgs[j] /\ bmsg'[j] = bmsg[j]
        /\ \/ ("b" \notin known \/ got[k] > 0) /\ UNCHANGED bmsg
           \/ bmsg'[l] = {k}
    BY <1>4, MsgMoves
  <2>2. got[k] > 0 => k \in stored
    BY DEF StoredFirst
  <2>3. "b" \in known /\ bmsg[l] = {}
    BY <1>0, <2>1 DEF Dev, BetweenFrames
  <2> QED
    BY <2>1, <2>2, <2>3 DEF Accounted
<1>5. ASSUME NEW l \in Link, SendAck(l) PROVE Accounted(i)'
  <2>1. /\ UNCHANGED <<stored, lost, msgs>> /\ bpc[l] = "ack"
        /\ \A j \in Link : j # l => bmsg'[j] = bmsg[j]
    BY <1>5, SendAckMoves
  <2>2. bmsg[l] \subseteq stored
    BY <1>0, <2>1 DEF StoredFirst, Dev
  <2> QED
    BY <2>1, <2>2 DEF Accounted
<1>6. ASSUME NEW l \in Link, WriteRows(l) PROVE Accounted(i)'
  BY <1>b, <1>6, WriteMoves
<1>7. ASSUME NEW l \in Link, StoreMsg(l) \/ WriteIn(l) PROVE Accounted(i)'
  <2>1. UNCHANGED <<lost, msgs, bmsg>> /\ stored \subseteq stored'
    BY <1>7, StoreMoves
  <2> QED
    BY <2>1 DEF Accounted
<1>8. ASSUME NEW l \in Link, Dial(l) \/ DialFails(l) \/ Connect(l) \/ Accept(l) PROVE Accounted(i)'
  <2>1. UNCHANGED <<stored, bmsg>> /\ (UNCHANGED <<msgs, lost>> \/ Other(l[1]) \notin known)
    BY <1>8, ConnectMoves
  <2>2. Other(l[1]) \in Dev
    BY LinkEnds
  <2> QED
    BY <1>0, <1>b, <2>1, <2>2
<1>9. ASSUME NEW d \in Dev, EndSteps(d) PROVE Accounted(i)'
  <2>1. PICK ls \in SUBSET Link, gone \in SUBSET Id : EndTasks(d, ls, gone)
    BY <1>9, EndCases
  <2>2. ASSUME NEW l \in Link, i \in msgs[l] \cup bmsg[l] PROVE i \in msgs'[l] \cup bmsg'[l] \cup lost'
    <3>1. CASE l \notin ls
      BY <2>1, <2>2, <3>1, EndedElse
    <3>2. CASE l \in ls /\ d = "a"
      <4>1. bmsg'[l] = bmsg[l] /\ (msgs'[l] = msgs[l] \/ msgs[l] \subseteq lost')
        BY <2>1, <3>2, EndedA
      <4> QED
        BY <2>2, <4>1
    <3>3. CASE l \in ls /\ d = "b"
      <4>1. msgs[l] \cup bmsg[l] \subseteq lost'
        BY <2>1, <3>3, EndedB
      <4> QED
        BY <2>2, <4>1
    <3> QED
      BY <3>1, <3>2, <3>3 DEF Dev
  <2>3. lost \subseteq lost'
    BY <2>1 DEF EndTasks
  <2>4. UNCHANGED stored
    BY <1>9, EndLeaves, RestartA, RestartB
  <2> QED
    BY <2>2, <2>3, <2>4 DEF Accounted
<1>10. ASSUME NEW d \in Dev, RemovePeer(d) \/ Unlink(d) PROVE Accounted(i)'
  BY <1>b, <1>10, RemoveMoves
<1>11. ASSUME NEW r \in Row, SaveRow(r) PROVE Accounted(i)'
  BY <1>b, <1>11 DEF SaveRow, reader, ends
<1>12. CASE UNCHANGED vars
  BY <1>b, <1>12 DEF vars
<1> QED
  BY <1>1, <1>2, <1>3, <1>4, <1>5, <1>6, <1>7, <1>8, <1>9, <1>10, <1>11, <1>12, StepKinds

\* A text is marked as sent when it is put on a session.
LEMMA PutIsAccounted ==
    ASSUME TypeOK, NEW i \in Id
    PROVE  /\ Send(i) /\ out'[i] = "sent" => Accounted(i)'
           /\ \A l \in Link : FlushQueue(l) /\ i \in queued => Accounted(i)'
<1>a. ASSUME NEW l \in Link, NEW is \in SUBSET Id, i \in is, Put(l, is) PROVE Accounted(i)'
  <2>1. is \subseteq msgs'[l] \cup lost'
    BY <1>a, PutType
  <2> QED
    BY <1>a, <2>1 DEF Accounted
<1>1. ASSUME Send(i), out'[i] = "sent" PROVE Accounted(i)'
  <2>1. \E l \in Link : Put(l, {i})
    BY <1>1, SendMoves
  <2>2. {i} \in SUBSET Id /\ i \in {i}
    OBVIOUS
  <2> QED
    BY <1>a, <2>1, <2>2
<1>2. ASSUME NEW l \in Link, FlushQueue(l), i \in queued PROVE Accounted(i)'
  BY <1>a, <1>2, FlushMoves
<1> QED
  BY <1>1, <1>2

\* Nothing but the end of a session, or of a, loses a sent text.
LEMMA SentStep ==
    ASSUME IInv, [Next]_vars
    PROVE  SentRows'
<1> USE DEF IInv, ChatInv
<1> SUFFICES ASSUME known' = Dev, NEW i \in Id, KnownSent(i)' PROVE Accounted(i)'
  BY DEF SentRows
<1>0. known = Dev
  BY SaidGrows DEF TypeOK
<1>1. CASE KnownSent(i)
  BY <1>0, <1>1, AccountedStays DEF SentRows
<1>2. CASE out'[i] = "sent" /\ ~KnownSent(i)
  <2>0. out[i] # "sent"
    BY <1>2 DEF KnownSent
  <2>1. ASSUME Restart("a"), CollapseHistory(rows)[i] = "sent" PROVE FALSE
    <3>1. rows \in [Id -> Seq(FileState)]
      BY DEF TypeOK, FileState
    <3>2. Len(rows[i]) \in DOMAIN rows[i] /\ rows[i][Len(rows[i])] = "sent"
      BY <2>1, <3>1, CollapseType
    <3> QED
      BY <1>2, <3>2 DEF KnownSent
  <2>2. (Send(i) /\ out'[i] = "sent") \/ \E l \in Link : FlushQueue(l) /\ i \in queued
    BY <1>2, <2>0, <2>1, OutMoves
  <2> QED
    BY <2>2, PutIsAccounted
<1>3. CASE Pending(RowOf(i, "sent"))' /\ ~KnownSent(i)
  <2> DEFINE r == RowOf(i, "sent")
  <2>1. r \in Row /\ r.id = i /\ r.state = "sent"
    BY RowType DEF FileState
  <2>2. ~Pending(r) /\ Pending(r)'
    BY <1>3 DEF KnownSent
  <2> HIDE DEF r
  <2>3. (Send(i) /\ out'[i] = "sent") \/ \E l \in Link : FlushQueue(l) /\ i \in queued
    BY <2>1, <2>2, PendingMoves
  <2> QED
    BY <2>3, PutIsAccounted
<1>4. CASE (\E n \in DOMAIN rows'[i] : rows'[i][n] = "sent") /\ ~KnownSent(i)
  <2>1. rows[i] \in Seq(FileState) /\ ~(\E m \in DOMAIN rows[i] : rows[i][m] = "sent")
    BY <1>4 DEF KnownSent, TypeOK, FileState
  <2>2. Pending(RowOf(i, "sent"))
    BY <1>4, <2>1, StateMoves DEF FileState
  <2> QED
    BY <1>4, <2>2 DEF KnownSent
<1>5. KnownSent(i)' <=> \/ out'[i] = "sent" \/ Pending(RowOf(i, "sent"))'
                        \/ \E n \in DOMAIN rows'[i] : rows'[i][n] = "sent"
  BY DEF KnownSent
<1> QED
  BY <1>1, <1>2, <1>3, <1>4, <1>5

-----------------------------------------------------------------------------
(* The theorems *)

\* Every step keeps the invariant.
LEMMA ChatStep == IInv /\ [Next]_vars => IInv'
<1> SUFFICES ASSUME IInv, [Next]_vars PROVE IInv'
  OBVIOUS
<1>1. TypeOK'
  BY TypeStep DEF IInv
<1>2. FreeIsEmpty' /\ Held'
  BY LinksStep
<1>3. Unsaid' /\ Removed'
  BY UnsaidStep, RemovedStep
<1>4. QueueDurable' /\ QueueRows' /\ QueueQuiet'
  BY QueueStep
<1>5. StoredFirst' /\ BetweenFrames' /\ SentRows'
  BY StoredStep, FramesStep, SentStep
<1> QED
  BY <1>1, <1>2, <1>3, <1>4, <1>5 DEF IInv, ChatInv

\* It holds before the first text.
LEMMA ChatInit == Init => IInv
<1> SUFFICES ASSUME Init PROVE IInv
  OBVIOUS
<1> USE DEF Init
<1>a. << >> \in Seq({"queued", "sent", "acked"}) /\ << >> \in Seq(Link)
  OBVIOUS
<1>1. TypeOK
  BY <1>a DEF TypeOK, State
<1>2. FreeIsEmpty /\ Held
  BY DEF FreeIsEmpty, Held, Carried
<1>3. \A r \in Row : ~Pending(r)
  BY DEF Pending
<1>4. Unsaid /\ Removed
  BY <1>3 DEF Unsaid, Removed, Carried
<1>5. QueueDurable /\ QueueRows /\ QueueQuiet
  BY DEF QueueDurable, QueueRows, QueueQuiet, QueuedFrom
<1>6. StoredFirst /\ BetweenFrames
  BY DEF StoredFirst, BetweenFrames
<1>7. SentRows
  <2>1. \A i \in Id : RowOf(i, "sent") \in Row
    BY RowType DEF FileState
  <2> QED
    BY <1>3, <2>1 DEF SentRows, KnownSent
<1> QED
  BY <1>1, <1>2, <1>4, <1>5, <1>6, <1>7 DEF IInv, ChatInv

\* The invariant holds in every state of the chat.
THEOREM Invariant == Spec => []IInv
BY ChatInit, ChatStep, PTL DEF Spec

\* Every variable has its type.
THEOREM TypeCorrect == Spec => []TypeOK
<1>1. IInv => TypeOK
  BY DEF IInv
<1> QED
  BY <1>1, Invariant, PTL

\* In memory the queue of send is what is marked as queued, and a text that
\* waits there is read back as queued by queued_from at the next start, or its
\* row is just being written, whatever sessions end and processes restart: a
\* waiting text is not forgotten.  What else is read back as queued is not said.
THEOREM QueueSurvives == Spec => []QueueDurable
<1>1. IInv => QueueDurable
  BY DEF IInv, ChatInv
<1> QED
  BY <1>1, Invariant, PTL

\* A text marked as sent is in b's history, on a session, or was on one that
\* ended: neither handle_frame nor a start of a drops one.
THEOREM SentIsAccountedFor == Spec => []SentIsAccounted
<1>1. IInv => SentIsAccounted
  BY DEF IInv, ChatInv, SentRows, KnownSent, Accounted, SentIsAccounted
<1> QED
  BY <1>1, Invariant, PTL

-----------------------------------------------------------------------------
(* Acknowledgements *)

\* b's file has the text, or will have it.
Kept(i) == inrow[i] > 0 \/ \E l \in Link : bpc[l] = "write" /\ i \in bmsg[l]

\* b has acknowledged the text on session l, or is about to.
Answered(i, l) == i \in acks[l] \/ (i \in bmsg[l] /\ bpc[l] = "ack")

\* a knows the text as delivered, or will.
Told(i) ==
    \/ out[i] = "acked"
    \/ \E l \in Link : Answered(i, l)
    \/ Pending(RowOf(i, "acked"))
    \/ \E n \in DOMAIN rows[i] : rows[i][n] = "acked"

\* What b has in memory it keeps, and so what it answered for, unless its
\* process ended before the row was written.
Durable ==
    "b" \in known => \A i \in Id : /\ got[i] > 0 => Kept(i)
                                   /\ Told(i) => Kept(i) \/ i \in cut

\* What b keeps stays kept until b restarts or removes the chat.
LEMMA KeptStays ==
    ASSUME IInv, [Next]_vars, ~Restart("b"), "b" \in known', NEW i \in Id, Kept(i)
    PROVE  Kept(i)'
<1> USE DEF IInv, ChatInv
<1>t. inrow \in [Id -> Nat]
  BY DEF TypeOK
<1>1. ASSUME NEW l \in Link, NEW k \in Id, RecvMsg(l, k) PROVE Kept(i)'
  <2>1. /\ UNCHANGED inrow /\ bpc[l] = "serve"
        /\ \A j \in Link : j # l => bmsg'[j] = bmsg[j] /\ bpc'[j] = bpc[j]
    BY <1>1, MsgMoves
  <2> QED
    BY <2>1 DEF Kept
<1>2. ASSUME NEW l \in Link, StoreMsg(l) \/ WriteIn(l) PROVE Kept(i)'
  <2>1. /\ UNCHANGED bmsg /\ \A k \in Link : k # l => bpc'[k] = bpc[k]
        /\ \/ bpc[l] = "store" /\ UNCHANGED inrow
           \/ \A k \in Id : inrow'[k] = IF k \in bmsg[l] THEN inrow[k] + 1 ELSE inrow[k]
    BY <1>2, StoreMoves
  <2> QED
    BY <1>t, <2>1 DEF Kept
<1>3. ASSUME NEW l \in Link, SendAck(l) PROVE Kept(i)'
  <2>1. /\ UNCHANGED inrow /\ bpc[l] = "ack"
        /\ \A k \in Link : k # l => bmsg'[k] = bmsg[k] /\ bpc'[k] = bpc[k]
    BY <1>3, SendAckMoves
  <2> QED
    BY <2>1 DEF Kept
<1>4. ASSUME NEW d \in Dev, EndSteps(d), d = "b" => ~Restart("b") PROVE Kept(i)'
  <2>1. PICK ls \in SUBSET Link, gone \in SUBSET Id :
             /\ EndTasks(d, ls, gone)
             /\ Restart(d) \/ \A l \in ls : Serving(d, l)
    BY <1>4, EndCases
  <2>2. ASSUME NEW l \in Link, bpc[l] = "write" PROVE bmsg'[l] = bmsg[l] /\ bpc'[l] = bpc[l]
    <3>1. CASE l \notin ls
      BY <2>1, <3>1, EndedElse
    <3>2. CASE l \in ls /\ d = "a"
      BY <2>1, <3>2, EndedA
    <3>3. CASE l \in ls /\ d = "b"
      BY <1>4, <2>1, <2>2, <3>3 DEF Serving
    <3> QED
      BY <3>1, <3>2, <3>3 DEF Dev
  <2>3. UNCHANGED inrow
    BY <1>4, EndLeaves, RestartA
  <2> QED
    BY <2>2, <2>3 DEF Kept
<1>5. ASSUME NEW d \in Dev, RemovePeer(d) \/ Unlink(d) PROVE Kept(i)'
  <2>1. UNCHANGED <<bpc, bmsg>> /\ known' \subseteq known /\ (UNCHANGED inrow \/ "b" \in unlink)
    BY <1>5, RemoveMoves
  <2>2. "b" \notin unlink
    BY <2>1 DEF Removed
  <2> QED
    BY <2>1, <2>2 DEF Kept
<1>6. CASE UNCHANGED <<known, got, stored, inrow, bpc, bmsg>>
  BY <1>6 DEF Kept
<1> QED
  BY <1>1, <1>2, <1>3, <1>4, <1>5, <1>6, ReaderLeaves

\* Only the end of b's process adds to cut.
LEMMA CutGrows ==
    ASSUME TypeOK, [Next]_vars
    PROVE  cut \subseteq cut'
<1>1. ASSUME NEW i \in Id, Send(i) PROVE cut' = cut
  BY <1>1 DEF Send, reader
<1>2. ASSUME NEW r \in Row, SaveRow(r) PROVE cut' = cut
  BY <1>2 DEF SaveRow, reader
<1>3. ASSUME NEW l \in Link, FlushQueue(l) \/ WriteRows(l) PROVE cut' = cut
  BY <1>3 DEF FlushQueue, WriteRows, reader
<1>4. ASSUME NEW l \in Link, NEW i \in Id, RecvAck(l, i) \/ RecvMsg(l, i) PROVE cut' = cut
  BY <1>4 DEF RecvAck, RecvMsg, reader
<1>5. ASSUME NEW l \in Link, StoreMsg(l) \/ WriteIn(l) \/ SendAck(l) PROVE cut' = cut
  BY <1>5 DEF StoreMsg, WriteIn, SendAck, reader
<1>6. ASSUME NEW l \in Link, Dial(l) \/ DialFails(l) \/ Connect(l) \/ Accept(l) PROVE cut' = cut
  BY <1>6 DEF Dial, DialFails, Connect, Accept, reader
<1>7. ASSUME NEW d \in Dev, NEW l \in Link, Break(d, l) \/ Notice(d, l) PROVE cut' = cut
  BY <1>7 DEF Break, Notice, EndOne, reader
<1>8. ASSUME NEW d \in Dev, RemovePeer(d) \/ Unlink(d) PROVE cut' = cut
  BY <1>8 DEF RemovePeer, Unlink, reader
<1>9. ASSUME NEW d \in Dev, Restart(d) PROVE cut \subseteq cut'
  BY <1>9 DEF Restart
<1>10. CASE UNCHANGED vars
  BY <1>10 DEF vars
<1> QED
  BY <1>1, <1>2, <1>3, <1>4, <1>5, <1>6, <1>7, <1>8, <1>9, <1>10, StepKinds DEF EndSteps

\* A start of b leaves the file, and marks what was not yet in it.
LEMMA RestartCuts ==
    ASSUME Restart("b"), NEW i \in Id, Kept(i)
    PROVE  Kept(i)' \/ i \in cut'
<1>1. inrow' = inrow
  BY RestartB
<1>2. cut' = cut \cup UNION {bmsg[l] : l \in {k \in Link : bpc[k] = "write"}}
  BY DEF Restart
<1>3. CASE inrow[i] > 0
  BY <1>1, <1>3 DEF Kept
<1>4. ASSUME NEW l \in Link, bpc[l] = "write", i \in bmsg[l] PROVE i \in cut'
  <2>1. bmsg[l] \in {bmsg[k] : k \in {k \in Link : bpc[k] = "write"}}
    BY <1>4
  <2> QED
    BY <1>2, <1>4, <2>1
<1> QED
  BY <1>3, <1>4 DEF Kept

\* What b keeps, or was cut under it, stays so until b removes the chat.
LEMMA KeptOrCut ==
    ASSUME IInv, [Next]_vars, "b" \in known', NEW i \in Id, Kept(i) \/ i \in cut
    PROVE  Kept(i)' \/ i \in cut'
<1>1. cut \subseteq cut'
  BY CutGrows DEF IInv
<1>2. CASE Restart("b")
  BY <1>1, <1>2, RestartCuts
<1>3. CASE ~Restart("b")
  BY <1>1, <1>3, KeptStays
<1> QED
  BY <1>2, <1>3

\* b answers for a text it has, or has just written.
LEMMA AnswerMoves ==
    ASSUME IInv, [Next]_vars, "b" \in known', NEW i \in Id, NEW l \in Link, Answered(i, l)', ~Answered(i, l)
    PROVE  (got[i] > 0 /\ \E k \in Link : i \in msgs[k]) \/ inrow'[i] > 0
<1> USE DEF IInv, ChatInv
<1>0. "b" \in known
  BY SaidGrows
<1>t. inrow \in [Id -> Nat]
  BY DEF TypeOK
<1>a. ASSUME acks'[l] \subseteq acks[l], bmsg'[l] \subseteq bmsg[l], bpc'[l] = bpc[l] PROVE FALSE
  BY <1>a DEF Answered
<1>1. ASSUME NEW k \in Link, NEW j \in Id, RecvMsg(k, j) PROVE got[i] > 0 /\ i \in msgs[k]
  <2>1. CASE k = l
    <3>1. \/ got[j] > 0 /\ j \in msgs[k] /\ acks'[l] \subseteq acks[l] \cup {j} /\ UNCHANGED <<bpc, bmsg>>
          \/ bpc'[l] = "store" /\ acks'[l] = acks[l]
      BY <1>0, <1>1, <2>1, MsgMoves
    <3> QED
      BY <3>1 DEF Answered
  <2>2. CASE k # l
    BY <1>a, <1>1, <2>2, MsgMoves
  <2> QED
    BY <2>1, <2>2
<1>2. ASSUME NEW k \in Link, StoreMsg(k) \/ WriteIn(k) PROVE inrow'[i] > 0
  <2>1. /\ UNCHANGED <<acks, bmsg>> /\ (k # l => bpc'[l] = bpc[l])
        /\ \/ bpc'[k] = "write"
           \/ \A j \in Id : inrow'[j] = IF j \in bmsg[k] THEN inrow[j] + 1 ELSE inrow[j]
    BY <1>0, <1>2, StoreMoves
  <2> QED
    BY <1>t, <2>1 DEF Answered
<1>3. ASSUME NEW k \in Link, SendAck(k) PROVE FALSE
  <2>1. CASE k = l
    <3>1. bpc[l] = "ack" /\ bpc'[l] = "serve" /\ acks'[l] \subseteq acks[l] \cup bmsg[l]
      BY <1>3, <2>1, SendAckMoves
    <3> QED
      BY <3>1 DEF Answered
  <2>2. CASE k # l
    BY <1>a, <1>3, <2>2, SendAckMoves
  <2> QED
    BY <2>1, <2>2
<1>4. ASSUME NEW d \in Dev, EndSteps(d) PROVE FALSE
  <2>1. PICK ls \in SUBSET Link, gone \in SUBSET Id : EndTasks(d, ls, gone)
    BY <1>4, EndCases
  <2>2. acks'[l] \subseteq acks[l] /\ bmsg'[l] \subseteq bmsg[l] /\ bpc'[l] \in {bpc[l], "serve"}
    <3>1. CASE l \notin ls
      BY <2>1, <3>1, EndedElse
    <3>2. CASE l \in ls /\ d = "a"
      BY <2>1, <3>2, EndedA
    <3>3. CASE l \in ls /\ d = "b"
      BY <2>1, <3>3, EndedB
    <3> QED
      BY <3>1, <3>2, <3>3 DEF Dev
  <2> QED
    BY <2>2 DEF Answered
<1>5. ASSUME NEW d \in Dev, RemovePeer(d) \/ Unlink(d) PROVE FALSE
  BY <1>a, <1>5, RemoveMoves
<1>6. ASSUME NEW k \in Id, Send(k) PROVE FALSE
  BY <1>a, <1>6, SendMoves
<1>7. ASSUME NEW k \in Link, FlushQueue(k) PROVE FALSE
  BY <1>a, <1>7, FlushMoves
<1>8. ASSUME NEW k \in Link, NEW j \in Id, RecvAck(k, j) PROVE FALSE
  BY <1>a, <1>8, AckMoves
<1>9. ASSUME NEW k \in Link, WriteRows(k) PROVE FALSE
  BY <1>a, <1>9, WriteMoves
<1>10. ASSUME NEW k \in Link, Dial(k) \/ DialFails(k) \/ Connect(k) \/ Accept(k) PROVE FALSE
  BY <1>a, <1>10, ConnectMoves
<1>11. ASSUME NEW r \in Row, SaveRow(r) PROVE FALSE
  BY <1>a, <1>11 DEF SaveRow, ends
<1>12. CASE UNCHANGED vars
  BY <1>a, <1>12 DEF vars
<1> QED
  BY <1>1, <1>2, <1>3, <1>4, <1>5, <1>6, <1>7, <1>8, <1>9, <1>10, <1>11, <1>12, StepKinds

\* What b has in memory comes from its history, or, after a start, from its file.
LEMMA GotMoves ==
    ASSUME IInv, [Next]_vars, NEW i \in Id
    PROVE  \/ got'[i] = got[i] \/ got'[i] = 0
           \/ Restart("b") /\ got'[i] = inrow[i]
           \/ \E l \in Link : /\ i \in bmsg[l] /\ bpc[l] = "store" /\ bpc'[l] = "write"
                              /\ bmsg' = bmsg /\ StoreMsg(l)
<1> USE DEF IInv, ChatInv
<1>1. ASSUME NEW l \in Link, NEW k \in Id, RecvMsg(l, k) PROVE got' = got
  BY <1>1, MsgMoves
<1>2. ASSUME NEW l \in Link, StoreMsg(l)
      PROVE  got'[i] = got[i] \/ (i \in bmsg[l] /\ bpc[l] = "store" /\ bpc'[l] = "write" /\ bmsg' = bmsg)
  <2>1. bpc[l] = "store"
    BY <1>2 DEF StoreMsg
  <2> QED
    BY <1>2, <2>1, StoreMoves
<1>3. ASSUME NEW l \in Link, WriteIn(l) PROVE got' = got
  BY <1>3 DEF WriteIn, reader
<1>4. ASSUME NEW l \in Link, SendAck(l) PROVE got' = got
  BY <1>4, SendAckMoves
<1>5. ASSUME NEW d \in Dev, EndSteps(d) PROVE got' = got \/ (Restart("b") /\ got' = inrow)
  BY <1>5, EndLeaves, RestartA, RestartB
<1>6. ASSUME NEW d \in Dev, RemovePeer(d) \/ Unlink(d) PROVE got'[i] = got[i] \/ got'[i] = 0
  BY <1>6, RemoveMoves
<1> QED
  BY <1>1, <1>2, <1>3, <1>4, <1>5, <1>6, ReaderLeaves

\* What b has in memory it keeps.
LEMMA MemoryStep ==
    ASSUME IInv, Durable, [Next]_vars, "b" \in known', NEW i \in Id, got'[i] > 0
    PROVE  Kept(i)'
<1> USE DEF IInv, ChatInv
<1>0. "b" \in known
  BY SaidGrows
<1>1. CASE Restart("b")
  BY <1>0, <1>1, RestartB DEF Kept
<1>2. CASE ~Restart("b") /\ got'[i] = got[i]
  BY <1>0, <1>2, KeptStays DEF Durable
<1>3. CASE ~Restart("b") /\ got'[i] # got[i]
  <2>1. PICK l \in Link : i \in bmsg[l] /\ bpc'[l] = "write" /\ bmsg' = bmsg
    BY <1>3, GotMoves
  <2> QED
    BY <2>1 DEF Kept
<1> QED
  BY <1>1, <1>2, <1>3

\* What a knows as delivered b keeps, or was cut under it.
LEMMA ToldStep ==
    ASSUME IInv, Durable, [Next]_vars, "b" \in known', NEW i \in Id, Told(i)'
    PROVE  Kept(i)' \/ i \in cut'
<1> USE DEF IInv, ChatInv
<1>0. "b" \in known
  BY SaidGrows
<1>1. CASE Told(i)
  BY <1>0, <1>1, KeptOrCut DEF Durable
<1>3. CASE out'[i] = "acked" /\ ~Told(i)
  <2>1. ASSUME CollapseHistory(rows)[i] = "acked" PROVE FALSE
    <3>1. rows \in [Id -> Seq(FileState)]
      BY DEF TypeOK, FileState
    <3>2. Len(rows[i]) \in DOMAIN rows[i] /\ rows[i][Len(rows[i])] = "acked"
      BY <2>1, <3>1, CollapseType
    <3> QED
      BY <1>3, <3>2 DEF Told
  <2>2. out[i] # "acked" /\ \A l \in Link : i \notin acks[l]
    BY <1>3 DEF Told, Answered
  <2> QED
    BY <1>3, <2>1, <2>2, OutMoves
<1>4. ASSUME NEW l \in Link, Answered(i, l)', ~Told(i) PROVE Kept(i)' \/ i \in cut'
  <2>1. ~Answered(i, l)
    BY <1>4 DEF Told
  <2>2. got[i] > 0 \/ inrow'[i] > 0
    BY <1>4, <2>1, AnswerMoves
  <2>3. got[i] > 0 => Kept(i)
    BY <1>0 DEF Durable
  <2> QED
    BY <2>2, <2>3, KeptOrCut DEF Kept
<1>5. CASE Pending(RowOf(i, "acked"))' /\ ~Told(i)
  <2> DEFINE r == RowOf(i, "acked")
  <2>1. r \in Row /\ r.id = i /\ r.state = "acked"
    BY RowType DEF FileState
  <2>2. ~Pending(r) /\ Pending(r)' /\ \A l \in Link : i \notin acks[l]
    BY <1>5 DEF Told, Answered
  <2> HIDE DEF r
  <2>3. \A l \in Link : ~RecvAck(l, i)
    BY <2>2 DEF RecvAck
  <2>4. ~(Send(i) /\ out'[i] = "acked")
    BY SendMoves
  <2> QED
    BY <2>1, <2>2, <2>3, <2>4, PendingMoves
<1>6. CASE (\E n \in DOMAIN rows'[i] : rows'[i][n] = "acked") /\ ~Told(i)
  <2>1. rows[i] \in Seq(FileState) /\ ~(\E m \in DOMAIN rows[i] : rows[i][m] = "acked")
    BY <1>6 DEF Told, TypeOK, FileState
  <2>2. Pending(RowOf(i, "acked"))
    BY <1>6, <2>1, StateMoves DEF FileState
  <2> QED
    BY <1>6, <2>2 DEF Told
<1>7. Told(i)' <=> \/ out'[i] = "acked" \/ (\E l \in Link : Answered(i, l)')
                   \/ Pending(RowOf(i, "acked"))' \/ (\E n \in DOMAIN rows'[i] : rows'[i][n] = "acked")
  BY DEF Told, Answered
<1> QED
  BY <1>1, <1>3, <1>4, <1>5, <1>6, <1>7

\* Nothing is acknowledged at the start.
LEMMA DurableInit == Init => Durable
<1> SUFFICES ASSUME Init PROVE Durable
  OBVIOUS
<1>1. \A i \in Id : RowOf(i, "acked") \in Row
  BY RowType DEF FileState
<1>2. ASSUME NEW i \in Id PROVE ~(got[i] > 0) /\ ~Told(i)
  BY <1>1, <1>2 DEF Told, Answered, Pending, Init
<1> QED
  BY <1>2 DEF Durable

\* While b keeps the chat, a text a shows as delivered is in b's file, or a
\* task is appending it, or b's process ended under that append: handle_frame
\* acknowledges after the row, and IsDup finds only texts that have or get one.
\* There is no condition on sessions, breaks or restarts.
THEOREM AckIsDurable == Spec => []AckDurable
<1>1. IInv /\ Durable /\ [Next]_vars => Durable'
  <2> SUFFICES ASSUME IInv, Durable, [Next]_vars PROVE Durable'
    OBVIOUS
  <2> QED
    BY MemoryStep, ToldStep DEF Durable
<1>2. Durable => AckDurable
  BY DEF Durable, Told, Kept, AckDurable
<1> QED
  BY <1>1, <1>2, Invariant, DurableInit, PTL DEF Spec
=============================================================================
