------------------------- MODULE FileTransferProofs -------------------------
(***************************************************************************)
(* CreditsKept, SlotsFreed and SendingIsOwned of FileTransfer, for any     *)
(* transfers, chunks, credits, limits, sessions, attempts and faults.      *)
(*                                                                         *)
(* The sum of CreditsKept is kept in every state of a session, not only    *)
(* while it is up (CreditsAll).  SlotsFreed needs that b's task is at a    *)
(* frame only on a session that is up (StepsUp).  A transfer that is       *)
(* sending has an owner that depends on the session it is on (Owner): on   *)
(* one that fails, an attempt that began too late to be found by the       *)
(* session is stopped at its first chunk and reports by itself, if the     *)
(* file has a chunk.                                                       *)
(***************************************************************************)
EXTENDS FileTransfer, FiniteSetTheorems, WellFoundedInduction, TLAPS

\* Both ends know a session, or none does.
BothEnds == \A s \in Session : (end["a"][s] = "none") = (end["b"][s] = "none")

\* A stream that is under way has a session.
StreamsPlaced ==
    \A i \in Group, t \in Try :
        stream[i][t].phase \in {"run", "judge", "set", "cancel"} => stream[i][t].sess \in Session

\* b's task is at a frame only while its session is up.
StepsUp == \A s \in Session : step[s] # Idle => end["b"][s] = "up"

\* No credit is lost, whatever state the session is in.
CreditsAll == \A s \in Session : credits[s] + Cardinality(GroupChunks(queue[s])) = Credits

\* An attempt on session s still has to report.
Reports(i, t, s) ==
    /\ stream[i][t].sess = s
    /\ stream[i][t].phase \in {"run", "judge", "set"}

\* ... an attempt that began on a session that had failed: it has no chunk on
\* the channel, so it does not get to its End.
ReportsLate(i, t, s) ==
    /\ Reports(i, t, s)
    /\ stream[i][t].phase = "run" => stream[i][t].next <= 1

\* The End of transfer i is on the channel of session s.
EndQueued(i, s) == \E n \in DOMAIN queue[s] : queue[s][n] = End(i)

\* Who is going to move transfer i out of "sending", by the state of its session.
Owner(i, s) ==
    /\ s \in Session /\ end["a"][s] \in {"up", "failing", "over"}
    /\ end["a"][s] = "up" => EndQueued(i, s) \/ \E t \in Try : Reports(i, t, s)
    /\ end["a"][s] = "failing" => \/ i \in hit[s] \/ Chunks = 0
                                  \/ \E t \in Try : ReportsLate(i, t, s)
    /\ end["a"][s] = "over" => Chunks = 0 \/ \E t \in Try : Reports(i, t, s)

\* ... on whatever session it is.
HasOwner(i) ==
    \A s \in {0} \cup Session : xfer[i].state = "sending" /\ xfer[i].sess = s => Owner(i, s)

Owned == \A i \in Group : HasOwner(i)

FileInv ==
    /\ BothEnds /\ StreamsPlaced /\ StepsUp
    /\ CreditsAll /\ SlotsFreed /\ Owned
IInv == TypeOK /\ FileInv

\* The constants are numbers.
LEMMA Constants ==
    /\ Chunks \in Nat /\ Credits \in Nat \ {0} /\ MaxInbound \in Nat \ {0} /\ Tries \in Nat \ {0}
    /\ Sessions \in Nat /\ MaxFaults \in Nat
    /\ Direct \cap Group = {}
BY FileAssumption

USE Constants

-----------------------------------------------------------------------------
(* Sessions and frames *)

\* A set of numbers that is not empty has a least one.
LEMMA LeastNumber ==
    ASSUME NEW S \in SUBSET Nat, S # {}
    PROVE  \E m \in S : \A n \in S : m <= n
<1> DEFINE R == {ss \in Nat \X Nat : ss[1] < ss[2]}
<1>1. IsWellFoundedOn(R, Nat)
  BY NatLessThanWellFounded DEF OpToRel
<1>2. \A m, n \in Nat : n < m => <<n, m>> \in R
  OBVIOUS
<1> HIDE DEF R
<1>3. PICK m \in S : \A n \in S : ~(<<n, m>> \in R)
  BY <1>1, WFMin
<1>4. \A n \in S : ~(n < m)
  BY <1>2, <1>3
<1>5. \A n \in S : m <= n
  BY <1>4
<1> QED
  BY <1>5

\* v2_link finds one of the live sessions.
LEMMA FirstLinkIsLive ==
    ASSUME Live("a") # {}
    PROVE  FirstLink \in Live("a")
<1>1. Live("a") \in SUBSET Nat
  BY DEF Live, Session
<1>2. \E s \in Live("a") : \A t \in Live("a") : s <= t
  BY <1>1, LeastNumber
<1> QED
  BY <1>2 DEF FirstLink

\* A link that is read and used later is the one of a session.
LEMMA LinkType ==
    ASSUME NEW s \in Link
    PROVE  s \in Session /\ end["a"][s] \in {"up", "failing", "over"}
BY FirstLinkIsLive DEF Link, Live

\* Frames, and what a stream puts on the channel.
LEMMA FrameType ==
    /\ \A i \in Transfer : Begin(i) \in Frame /\ Chunk(i) \in Frame /\ End(i) \in Frame
    /\ \A i \in Transfer, n \in Nat : FrameAt(i, n) \in Frame
BY DEF Begin, Chunk, End, Frame, FrameAt

\* The frames of a 1:1 file: none of them is a group chunk.
LEMMA BurstType ==
    ASSUME NEW i \in Direct
    PROVE  FileFrames(i) \in Seq(Frame) /\ \A n \in DOMAIN FileFrames(i) : FileFrames(i)[n].id \in Direct
<1> DEFINE cs == [c \in 1..Chunks |-> Chunk(i)]
           b == <<Begin(i)>> \o cs \o <<End(i)>>
<1>0. i \in Transfer
  BY DEF Transfer
<1>1. cs \in Seq(Frame) /\ Len(cs) = Chunks /\ \A n \in 1..Chunks : cs[n] = Chunk(i)
  BY <1>0, FrameType
<1> HIDE DEF cs
<1>2. <<Begin(i)>> \o cs \in Seq(Frame)
  BY <1>0, <1>1, FrameType
<1>3. b \in Seq(Frame)
  BY <1>0, <1>2, FrameType
<1>4. \A n \in DOMAIN b : b[n] \in {Begin(i), Chunk(i), End(i)}
  BY <1>0, <1>1, FrameType
<1>5. \A n \in DOMAIN b : b[n].id = i
  BY <1>4 DEF Begin, Chunk, End
<1> QED
  BY <1>3, <1>5 DEF cs, FileFrames

-----------------------------------------------------------------------------
(* The group chunks on a channel *)

\* They are finitely many.
LEMMA ChunksFinite ==
    ASSUME NEW q \in Seq(Frame)
    PROVE  IsFiniteSet(GroupChunks(q)) /\ Cardinality(GroupChunks(q)) \in Nat
<1>1. IsFiniteSet(1..Len(q))
  BY FS_Interval
<1>2. GroupChunks(q) \in SUBSET (1..Len(q))
  BY DEF GroupChunks
<1> QED
  BY <1>1, <1>2, FS_Subset, FS_CardinalityType

\* A frame more is a group chunk more if it is one.
LEMMA ChunksAppend ==
    ASSUME NEW q \in Seq(Frame), NEW f \in Frame
    PROVE  Cardinality(GroupChunks(Append(q, f))) =
             Cardinality(GroupChunks(q)) + (IF f.id \in Group /\ f.kind = "chunk" THEN 1 ELSE 0)
<1>1. /\ Append(q, f) \in Seq(Frame) /\ Len(Append(q, f)) = Len(q) + 1
      /\ \A n \in 1..Len(q) : Append(q, f)[n] = q[n]
      /\ Append(q, f)[Len(q) + 1] = f
  OBVIOUS
<1>2. GroupChunks(Append(q, f)) =
         IF f.id \in Group /\ f.kind = "chunk" THEN GroupChunks(q) \cup {Len(q) + 1} ELSE GroupChunks(q)
  BY <1>1 DEF GroupChunks
<1>3. Len(q) + 1 \notin GroupChunks(q)
  BY DEF GroupChunks
<1>4. IsFiniteSet(GroupChunks(q)) /\ Cardinality(GroupChunks(q)) \in Nat
  BY ChunksFinite
<1>5. Cardinality(GroupChunks(q) \cup {Len(q) + 1}) = Cardinality(GroupChunks(q)) + 1
  BY <1>3, <1>4, FS_AddElement
<1> QED
  BY <1>2, <1>4, <1>5

\* Frames of 1:1 files change nothing.
LEMMA ChunksBurst ==
    ASSUME NEW q \in Seq(Frame), NEW b \in Seq(Frame), \A n \in DOMAIN b : b[n].id \in Direct
    PROVE  q \o b \in Seq(Frame) /\ GroupChunks(q \o b) = GroupChunks(q)
<1>1. /\ q \o b \in Seq(Frame) /\ Len(q \o b) = Len(q) + Len(b)
      /\ \A n \in 1..Len(q) : (q \o b)[n] = q[n]
      /\ \A n \in (Len(q) + 1)..(Len(q) + Len(b)) : (q \o b)[n] = b[n - Len(q)]
  OBVIOUS
<1>2. \A n \in (Len(q) + 1)..(Len(q) + Len(b)) : n - Len(q) \in DOMAIN b
  OBVIOUS
<1>3. \A n \in (Len(q) + 1)..(Len(q) + Len(b)) : (q \o b)[n].id \notin Group
  BY <1>1, <1>2
<1>4. \A n \in 1..(Len(q) + Len(b)) : n \in 1..Len(q) \/ n \in (Len(q) + 1)..(Len(q) + Len(b))
  OBVIOUS
<1> HIDE <1>2
<1>5. DOMAIN (q \o b) = 1..(Len(q) + Len(b)) /\ DOMAIN q = 1..Len(q)
  BY <1>1
<1> QED
  BY <1>1, <1>3, <1>4, <1>5 DEF GroupChunks

\* The first frame goes: a group chunk less if it was one.
LEMMA ChunksTail ==
    ASSUME NEW q \in Seq(Frame), q # << >>
    PROVE  Cardinality(GroupChunks(q)) =
             Cardinality(GroupChunks(Tail(q)))
             + (IF Head(q).id \in Group /\ Head(q).kind = "chunk" THEN 1 ELSE 0)
<1>1. /\ Tail(q) \in Seq(Frame) /\ Len(Tail(q)) = Len(q) - 1 /\ Len(q) \in Nat \ {0}
      /\ Head(q) = q[1] /\ \A n \in 1..(Len(q) - 1) : Tail(q)[n] = q[n + 1]
  OBVIOUS
<1> DEFINE S == GroupChunks(Tail(q))
           T == GroupChunks(q) \ {1}
           f == [n \in S |-> n + 1]
<1>2. S \subseteq 1..(Len(q) - 1) /\ T \subseteq 2..Len(q)
  BY <1>1 DEF GroupChunks
<1>3. \A n \in 1..(Len(q) - 1) : n \in S <=> n + 1 \in T
  BY <1>1 DEF GroupChunks
<1>4. \A m \in T : m - 1 \in S /\ (m - 1) + 1 = m
  BY <1>2, <1>3
<1>5. f \in Bijection(S, T)
  <2> HIDE DEF S, T
  <2>1. f \in [S -> T] /\ \A a, b \in S : f[a] = f[b] => a = b
    BY <1>2, <1>3
  <2>2. \A m \in T : \E n \in S : f[n] = m
    BY <1>4
  <2> QED
    BY <2>1, <2>2 DEF Bijection, Injection, Surjection, IsInjective
<1>6. Cardinality(T) = Cardinality(S)
  <2>1. IsFiniteSet(S)
    BY <1>1, ChunksFinite
  <2> QED
    BY <1>5, <2>1, FS_Bijection DEF ExistsBijection
<1>7. IsFiniteSet(GroupChunks(q)) /\ Cardinality(GroupChunks(q)) \in Nat /\ Cardinality(S) \in Nat
  BY <1>1, ChunksFinite
<1>8. 1 \in GroupChunks(q) <=> Head(q).id \in Group /\ Head(q).kind = "chunk"
  BY <1>1 DEF GroupChunks
<1> HIDE DEF S
<1>9. Cardinality(T) = IF 1 \in GroupChunks(q) THEN Cardinality(GroupChunks(q)) - 1
                                             ELSE Cardinality(GroupChunks(q))
  BY <1>7, FS_RemoveElement
<1> QED
  BY <1>6, <1>7, <1>8, <1>9 DEF S

-----------------------------------------------------------------------------
(* Types *)

StreamRec == [phase : {"none", "run", "judge", "set", "cancel", "over"},
              sess : {0} \cup Session, next : 0..Chunks + 1]
XferRec == [state : {"new", "offline", "sending", "failed", "done"}, sess : {0} \cup Session]
StepRec == {Idle} \cup {Insert(i) : i \in Transfer} \cup {Store(i) : i \in Transfer}

\* The streams an attempt goes through.
LEMMA StreamType ==
    /\ NoStream \in StreamRec /\ StreamOver \in StreamRec
    /\ \A s \in Session : Stream(s) \in StreamRec
    /\ StreamOver.phase = "over" /\ StreamOver.sess = 0
    /\ \A s \in Session : Stream(s).phase = "run" /\ Stream(s).sess = s /\ Stream(s).next = 0
BY DEF NoStream, StreamOver, Stream, StreamRec

\* ... a frame further, and to its failure.
LEMMA StreamMoves ==
    ASSUME NEW r \in StreamRec
    PROVE  /\ r.next \in 0..Chunks + 1
           /\ \A n \in 0..Chunks + 1 :
                 /\ [r EXCEPT !.next = n] \in StreamRec
                 /\ [r EXCEPT !.next = n].phase = r.phase /\ [r EXCEPT !.next = n].sess = r.sess
                 /\ [r EXCEPT !.next = n].next = n
           /\ [r EXCEPT !.phase = "judge", !.next = 0] \in StreamRec
           /\ [r EXCEPT !.phase = "judge", !.next = 0].phase = "judge"
           /\ [r EXCEPT !.phase = "judge", !.next = 0].sess = r.sess
<1>1. 0 \in 0..Chunks + 1
  OBVIOUS
<1> DEFINE N == 0..Chunks + 1
<1> HIDE DEF N
<1>2. /\ r.next \in N
      /\ \A n \in N :
            /\ [r EXCEPT !.next = n] \in [phase : {"none", "run", "judge", "set", "cancel", "over"},
                                        sess : {0} \cup Session, next : N]
            /\ [r EXCEPT !.next = n].phase = r.phase /\ [r EXCEPT !.next = n].sess = r.sess
            /\ [r EXCEPT !.next = n].next = n
  BY DEF StreamRec, N
<1> QED
  BY <1>1, <1>2 DEF StreamRec, N

\* group_file_set keeps the types, and the session.
LEMMA SetStateType ==
    ASSUME TypeOK, NEW i \in Group, NEW x \in {"failed", "done"}, SetState(i, x)
    PROVE  /\ xfer' \in [Group -> XferRec]
           /\ \A k \in Group : k # i => xfer'[k] = xfer[k]
           /\ xfer'[i].state \in {"done", x} /\ xfer'[i].sess = xfer[i].sess
<1> DEFINE r == [xfer[i] EXCEPT !.state = IF xfer[i].state = "done" THEN xfer[i].state ELSE x]
<1>1. xfer \in [Group -> XferRec] /\ xfer[i] \in XferRec
  BY DEF TypeOK, XferRec
<1>2. r \in XferRec /\ r.state \in {"done", x} /\ r.sess = xfer[i].sess
  BY <1>1 DEF XferRec
<1>3. xfer' = [xfer EXCEPT ![i] = r]
  BY DEF SetState
<1> QED
  BY <1>1, <1>2, <1>3

\* A step that replaces one stream.
LEMMA OneStream ==
    ASSUME TypeOK, NEW i \in Group, NEW t \in Try, NEW r \in StreamRec,
           stream' = [stream EXCEPT ![i][t] = r]
    PROVE  /\ stream' \in [Group -> [Try -> StreamRec]]
           /\ stream'[i][t] = r
           /\ \A k \in Group, u \in Try : k # i \/ u # t => stream'[k][u] = stream[k][u]
BY DEF TypeOK, StreamRec

\* The rest of a step keeps its type when it is left alone.
LEMMA SenderType ==
    ASSUME TypeOK, UNCHANGED <<rx, step, offline, member, log, faults>>,
           end' \in [Dev -> [Session -> {"none", "ring", "up", "failing", "over"}]],
           queue' \in [Session -> Seq(Frame)], wire' \in [Session -> Seq(Frame)],
           credits' \in [Session -> Nat], sent' \subseteq Direct,
           xfer' \in [Group -> XferRec], stream' \in [Group -> [Try -> StreamRec]],
           hit' \in [Session -> SUBSET Group]
    PROVE  TypeOK'
BY DEF TypeOK, XferRec, StreamRec

\* A fault counts up to its bound.
LEMMA FaultType ==
    ASSUME TypeOK, Fault \/ UNCHANGED faults
    PROVE  faults' \in 0..MaxFaults
BY DEF TypeOK, Fault

\* Steps of the sender's engine.
LEMMA EngineType ==
    ASSUME TypeOK,
           \/ \E i \in Direct : SendFile(i)
           \/ \E i \in Group : GroupSendFile(i) \/ \E t \in Try : GroupFileRetry(i, t)
    PROVE  TypeOK'
<1>a. /\ xfer \in [Group -> XferRec] /\ stream \in [Group -> [Try -> StreamRec]]
  BY DEF TypeOK, XferRec, StreamRec
<1>1. ASSUME NEW i \in Direct, SendFile(i) PROVE TypeOK'
  <2>1. FirstLink \in Session
    BY <1>1, FirstLinkIsLive DEF SendFile, Live
  <2>2. queue[FirstLink] \o FileFrames(i) \in Seq(Frame)
    BY <2>1, BurstType, ChunksBurst DEF TypeOK
  <2>3. queue' \in [Session -> Seq(Frame)]
    BY <1>1, <2>1, <2>2 DEF SendFile, TypeOK
  <2> QED
    BY <1>1, <2>3 DEF SendFile, TypeOK, receiver
<1>2. ASSUME NEW i \in Group, NEW t \in Try, NEW s \in Link, Attempt(i, t, s),
             UNCHANGED <<end, queue, credits, wire, sent, hit, receiver, faults>>
      PROVE  TypeOK'
  <2>1. s \in Session
    BY LinkType
  <2>2. [state |-> "sending", sess |-> s] \in XferRec
    BY <2>1 DEF XferRec
  <2>3. xfer' \in [Group -> XferRec]
    BY <1>a, <1>2, <2>2 DEF Attempt
  <2>4. stream' \in [Group -> [Try -> StreamRec]]
    BY <1>2, <2>1, StreamType, OneStream DEF Attempt
  <2> QED
    BY <1>2, <2>3, <2>4, SenderType DEF TypeOK, receiver
<1>3. ASSUME NEW i \in Group, GroupSendFile(i) PROVE TypeOK'
  <2>1. 1 \in Try
    BY DEF Try
  <2>2. CASE xfer' = [xfer EXCEPT ![i] = [state |-> "offline", sess |-> 0]] /\ UNCHANGED stream
    <3>1. xfer' \in [Group -> XferRec]
      BY <1>a, <2>2 DEF XferRec
    <3> QED
      BY <1>a, <1>3, <2>2, <3>1, SenderType DEF GroupSendFile, TypeOK, receiver
  <2> QED
    BY <1>2, <1>3, <2>1, <2>2 DEF GroupSendFile
<1>4. ASSUME NEW i \in Group, NEW t \in Try, GroupFileRetry(i, t) PROVE TypeOK'
  BY <1>2, <1>4 DEF GroupFileRetry
<1> QED
  BY <1>1, <1>3, <1>4

\* Steps of a stream.
LEMMA StreamStepType ==
    ASSUME TypeOK, NEW i \in Group, NEW t \in Try, StreamStep(i, t)
    PROVE  TypeOK'
<1> DEFINE m == stream[i][t]
<1>a. /\ xfer \in [Group -> XferRec] /\ stream \in [Group -> [Try -> StreamRec]]
      /\ m \in StreamRec /\ i \in Transfer
  BY DEF TypeOK, XferRec, StreamRec, Transfer
<1>b. ASSUME NEW r \in StreamRec, stream' = [stream EXCEPT ![i][t] = r]
      PROVE  stream' \in [Group -> [Try -> StreamRec]]
  BY <1>b, OneStream
<1>1. CASE StreamSends(i, t)
  <2>1. m.next \in Nat /\ (m.next <= Chunks => [m EXCEPT !.next = m.next + 1] \in StreamRec)
    <3>1. m.next \in 0..Chunks + 1
      BY <1>a, StreamMoves
    <3>2. m.next <= Chunks => m.next + 1 \in 0..Chunks + 1
      BY <3>1
    <3>3. m.next \in Nat
      BY <3>1
    <3> HIDE DEF m
    <3>4. ASSUME m.next <= Chunks PROVE [m EXCEPT !.next = m.next + 1] \in StreamRec
      <4>1. m.next + 1 \in 0..Chunks + 1
        BY <3>2, <3>4
      <4> QED
        BY <1>a, <4>1, StreamMoves
    <3> QED
      BY <3>3, <3>4
  <2>2. (IF m.next > Chunks THEN StreamOver ELSE [m EXCEPT !.next = m.next + 1]) \in StreamRec
    BY <2>1, StreamType
  <2>3. stream' \in [Group -> [Try -> StreamRec]]
    BY <1>1, <1>b, <2>2 DEF StreamSends
  <2>4. FrameAt(i, m.next) \in Frame
    BY <1>a, <2>1, FrameType
  <2>5. queue' \in [Session -> Seq(Frame)]
    <3>1. \A q \in Seq(Frame) : Append(q, FrameAt(i, m.next)) \in Seq(Frame)
      BY <2>4
    <3> QED
      BY <1>1, <3>1 DEF StreamSends, TypeOK
  <2>6. credits' \in [Session -> Nat]
    <3>1. credits' = [credits EXCEPT ![m.sess] = IF IsChunk(m.next) THEN @ - 1 ELSE @]
      BY <1>1 DEF StreamSends
    <3>2. IsChunk(m.next) => credits[m.sess] > 0
      BY <1>1 DEF StreamSends, Accepts
    <3>3. \A s \in Session : credits'[s] \in Nat
      BY <3>1, <3>2 DEF TypeOK
    <3> QED
      BY <3>1, <3>3 DEF TypeOK
  <2> QED
    BY <1>1, <1>a, <2>3, <2>5, <2>6, SenderType DEF StreamSends, TypeOK, receiver
<1>2. CASE StreamFails(i, t)
  <2>1. [m EXCEPT !.phase = "judge", !.next = 0] \in StreamRec
    BY <1>a, StreamMoves
  <2>2. stream' \in [Group -> [Try -> StreamRec]]
    BY <1>2, <1>b, <2>1 DEF StreamFails
  <2>3. faults' \in 0..MaxFaults
    BY <1>2, FaultType DEF StreamFails
  <2> QED
    BY <1>2, <2>2, <2>3 DEF StreamFails, TypeOK, StreamRec, receiver
<1>3. CASE StreamJudges(i, t)
  <2>1. stream' \in [Group -> [Try -> StreamRec]]
    BY <1>3, <1>a DEF StreamJudges, StreamRec
  <2> QED
    BY <1>3, <1>a, <2>1, SenderType DEF StreamJudges, TypeOK, receiver
<1>4. CASE StreamSets(i, t)
  <2>1. stream' \in [Group -> [Try -> StreamRec]]
    BY <1>4, <1>a DEF StreamSets, StreamRec
  <2>2. xfer' \in [Group -> XferRec]
    BY <1>4, SetStateType DEF StreamSets
  <2> QED
    BY <1>4, <2>1, <2>2, SenderType DEF StreamSets, TypeOK, receiver
<1>5. CASE StreamCancels(i, t)
  <2>1. stream' \in [Group -> [Try -> StreamRec]]
    BY <1>5, <1>b, StreamType DEF StreamCancels
  <2>2. \A q \in Seq(Frame) : Append(q, End(i)) \in Seq(Frame)
    BY <1>a, FrameType
  <2>3. queue' \in [Session -> Seq(Frame)]
    BY <1>5, <2>2 DEF StreamCancels, TypeOK
  <2> QED
    BY <1>5, <1>a, <2>1, <2>3, SenderType DEF StreamCancels, TypeOK, receiver
<1> QED
  BY <1>1, <1>2, <1>3, <1>4, <1>5 DEF StreamStep

\* A frame that is taken from the front of a channel.
LEMMA HeadType ==
    ASSUME NEW q \in Seq(Frame), q # << >>
    PROVE  /\ Head(q) \in Frame /\ Tail(q) \in Seq(Frame)
           /\ Head(q).id \in Transfer /\ Head(q).kind \in {"begin", "chunk", "end"}
<1>1. Head(q) \in Frame /\ Tail(q) \in Seq(Frame)
  OBVIOUS
<1> QED
  BY <1>1 DEF Frame

\* Steps of the sender's session task.
LEMMA SenderTaskType ==
    ASSUME TypeOK, NEW s \in Session,
           \/ WriteFrame(s) \/ SenderEnds(s) \/ SenderIsOver(s)
           \/ \E i \in Group : SenderSets(s, i)
    PROVE  TypeOK'
<1>a. /\ xfer \in [Group -> XferRec] /\ stream \in [Group -> [Try -> StreamRec]]
  BY DEF TypeOK, XferRec, StreamRec
<1>1. CASE WriteFrame(s)
  <2> DEFINE f == Head(queue[s])
  <2>1. f \in Frame /\ Tail(queue[s]) \in Seq(Frame)
    BY <1>1, HeadType DEF WriteFrame, TypeOK
  <2>2. queue' \in [Session -> Seq(Frame)]
    BY <1>1, <2>1 DEF WriteFrame, TypeOK
  <2>3. wire' \in [Session -> Seq(Frame)]
    <3>1. \A q \in Seq(Frame) : Append(q, f) \in Seq(Frame)
      BY <2>1
    <3> HIDE DEF f
    <3>2. wire' = wire \/ wire' = [wire EXCEPT ![s] = Append(@, f)]
      BY <1>1 DEF WriteFrame, f
    <3>3. wire \in [Session -> Seq(Frame)] /\ Append(wire[s], f) \in Seq(Frame)
      BY <3>1 DEF TypeOK
    <3> QED
      BY <3>2, <3>3
  <2>4. credits' \in [Session -> Nat]
    BY <1>1 DEF WriteFrame, CreditsBack, TypeOK
  <2>5. xfer' \in [Group -> XferRec]
    BY <1>1, <1>a, SetStateType DEF WriteFrame
  <2> QED
    BY <1>1, <1>a, <2>2, <2>3, <2>4, <2>5, SenderType DEF WriteFrame, TypeOK, receiver
<1>2. CASE SenderEnds(s)
  <2>1. faults' \in 0..MaxFaults
    BY <1>2, FaultType DEF SenderEnds
  <2> QED
    BY <1>2, <2>1 DEF SenderEnds, TypeOK, receiver, Dev
<1>3. CASE SenderIsOver(s)
  <2>1. end' \in [Dev -> [Session -> {"none", "ring", "up", "failing", "over"}]]
    BY <1>3 DEF SenderIsOver, TypeOK, Dev
  <2>2. << >> \in Seq(Frame)
    OBVIOUS
  <2>3. queue' \in [Session -> Seq(Frame)] /\ credits' \in [Session -> Nat]
    BY <1>3, <2>2 DEF SenderIsOver, TypeOK
  <2> QED
    BY <1>3, <1>a, <2>1, <2>3, SenderType DEF SenderIsOver, TypeOK, sender, receiver
<1>4. ASSUME NEW i \in Group, SenderSets(s, i) PROVE TypeOK'
  <2>1. xfer' \in [Group -> XferRec]
    BY <1>4, SetStateType DEF SenderSets
  <2> QED
    BY <1>4, <1>a, <2>1, SenderType DEF SenderSets, TypeOK, receiver
<1> QED
  BY <1>1, <1>2, <1>3, <1>4

\* The rest of a step of the receiver keeps its type when it is left alone.
LEMMA ReceiverType ==
    ASSUME TypeOK, UNCHANGED <<queue, credits, sender, member>>, faults' \in 0..MaxFaults,
           end' = end, wire' \in [Session -> Seq(Frame)],
           rx' \in [Transfer -> -1..Chunks], log' \in [Transfer -> Nat],
           step' \in [Session -> StepRec], offline' \subseteq Session
    PROVE  TypeOK'
BY DEF TypeOK, StepRec, sender

\* The steps of b's task.
LEMMA StepType ==
    /\ Idle \in StepRec /\ Idle.do = "read"
    /\ \A i \in Transfer : /\ Insert(i) \in StepRec /\ Insert(i).do = "insert" /\ Insert(i).id = i
                           /\ Store(i) \in StepRec /\ Store(i).do = "store" /\ Store(i).id = i
    /\ \A r \in StepRec : /\ r.do = "insert" => r.id \in Transfer
                          /\ r.do = "store" => r.id \in Transfer
                          /\ r.do \in {"read", "insert", "store"}
                          /\ r = Idle \/ r.do \in {"insert", "store"}
<1>1. Idle.do = "read" /\ Idle \in StepRec
  BY DEF Idle, StepRec
<1>2. \A i \in Transfer : /\ Insert(i).do = "insert" /\ Insert(i).id = i
                         /\ Store(i).do = "store" /\ Store(i).id = i
  BY DEF Insert, Store
<1>3. \A i \in Transfer : Insert(i) \in StepRec /\ Store(i) \in StepRec
  BY DEF StepRec
<1>4. \A r \in StepRec : r = Idle \/ \E i \in Transfer : r = Insert(i) \/ r = Store(i)
  BY DEF StepRec
<1> QED
  BY <1>1, <1>2, <1>3, <1>4

\* Steps of the receiver's session task.
LEMMA ReceiverTaskType ==
    ASSUME TypeOK, NEW s \in Session,
           \/ ReadFrame(s) \/ InsertPartial(s) \/ StoreFile(s) \/ DropInbound(s) \/ ReceiverEnds(s)
    PROVE  TypeOK'
<1>a. /\ rx \in [Transfer -> -1..Chunks] /\ log \in [Transfer -> Nat] /\ wire \in [Session -> Seq(Frame)]
      /\ step \in [Session -> StepRec] /\ step[s] \in StepRec /\ offline \subseteq Session
  BY DEF TypeOK, StepRec
<1>1. CASE ReadFrame(s)
  <2> DEFINE f == Head(wire[s])
  <2>1. f.id \in Transfer /\ Tail(wire[s]) \in Seq(Frame) /\ f.kind \in {"begin", "chunk", "end"}
    BY <1>1, <1>a, HeadType DEF ReadFrame
  <2>2. wire' \in [Session -> Seq(Frame)] /\ UNCHANGED <<end, queue, credits, sender, offline, member>>
    BY <1>1, <1>a, <2>1 DEF ReadFrame
  <2> HIDE DEF f
  <2>3. \/ rx' = [rx EXCEPT ![f.id] = -1] /\ UNCHANGED <<step, log, faults>>
        \/ ReadBegin(s, f.id) \/ ReadChunk(s, f.id) \/ ReadEnd(s, f.id)
    BY <1>1, <2>1 DEF ReadFrame, f
  <2>7. faults' \in 0..MaxFaults
    BY <2>3, FaultType DEF ReadBegin, ReadChunk, ReadEnd
  <2>4. -1 \in -1..Chunks /\ \A n \in -1..Chunks : n # Chunks => n + 1 \in -1..Chunks
    OBVIOUS
  <2>5. rx' \in [Transfer -> -1..Chunks] /\ log' = log
    BY <1>a, <2>1, <2>3, <2>4 DEF ReadBegin, ReadChunk, ReadEnd
  <2>6. step' \in [Session -> StepRec]
    <3>1. step' \in {step, [step EXCEPT ![s] = Insert(f.id)], [step EXCEPT ![s] = Store(f.id)]}
      BY <2>3 DEF ReadBegin, ReadChunk, ReadEnd
    <3>2. Insert(f.id) \in StepRec /\ Store(f.id) \in StepRec
      BY <2>1, StepType
    <3> QED
      BY <1>a, <3>1, <3>2
  <2> QED
    BY <1>a, <2>2, <2>5, <2>6, <2>7, ReceiverType
<1>2. CASE InsertPartial(s)
  <2>1. step[s].id \in Transfer
    BY <1>a, <1>2, StepType DEF InsertPartial
  <2>2. rx' \in [Transfer -> -1..Chunks]
    <3>1. 0 \in -1..Chunks
      OBVIOUS
    <3>2. rx' = rx \/ rx' = [rx EXCEPT ![step[s].id] = 0]
      BY <1>2 DEF InsertPartial
    <3> QED
      BY <1>a, <2>1, <3>1, <3>2
  <2>3. step' \in [Session -> StepRec]
    BY <1>a, <1>2, StepType DEF InsertPartial
  <2>4. faults' \in 0..MaxFaults
    BY <1>2, FaultType DEF InsertPartial
  <2> QED
    BY <1>a, <1>2, <2>2, <2>3, <2>4, ReceiverType DEF InsertPartial
<1>3. CASE StoreFile(s)
  <2>1. log' \in [Transfer -> Nat]
    <3>1. log' = log \/ log' = [log EXCEPT ![step[s].id] = @ + 1]
      BY <1>3 DEF StoreFile
    <3>2. step[s].id \in Transfer
      BY <1>a, <1>3, StepType DEF StoreFile
    <3>3. \A l \in [Transfer -> Nat], i \in Transfer : [l EXCEPT ![i] = @ + 1] \in [Transfer -> Nat]
      OBVIOUS
    <3>4. PICK i \in Transfer : log' = log \/ log' = [log EXCEPT ![i] = @ + 1]
      BY <3>1, <3>2
    <3> QED
      BY <1>a, <3>3, <3>4
  <2>2. step' \in [Session -> StepRec]
    BY <1>a, <1>3, StepType DEF StoreFile
  <2>3. faults' \in 0..MaxFaults
    BY <1>3, FaultType DEF StoreFile
  <2> QED
    BY <1>a, <1>3, <2>1, <2>2, <2>3, ReceiverType DEF StoreFile
<1>4. CASE DropInbound(s)
  <2>1. rx' \in [Transfer -> -1..Chunks]
    BY <1>a, <1>4 DEF DropInbound
  <2>2. faults' \in 0..MaxFaults
    BY <1>4, FaultType DEF DropInbound
  <2> QED
    BY <1>a, <1>4, <2>1, <2>2, ReceiverType DEF DropInbound
<1>5. CASE ReceiverEnds(s)
  <2>1. faults' \in 0..MaxFaults
    BY <1>5, FaultType DEF ReceiverEnds
  <2>2. wire' \in [Session -> Seq(Frame)]
    BY <1>a, <1>5 DEF ReceiverEnds
  <2>3. end' \in [Dev -> [Session -> {"none", "ring", "up", "failing", "over"}]]
    BY <1>5 DEF ReceiverEnds, TypeOK, Dev
  <2> QED
    BY <1>a, <1>5, <2>1, <2>2, <2>3 DEF ReceiverEnds, TypeOK, StepRec, sender
<1> QED
  BY <1>1, <1>2, <1>3, <1>4, <1>5

\* Every step keeps the types.
LEMMA TypeStep == TypeOK /\ [Next]_vars => TypeOK'
<1> SUFFICES ASSUME TypeOK, [Next]_vars PROVE TypeOK'
    OBVIOUS
<1>1. ASSUME NEW d \in Dev, NEW s \in Session, Dial(d, s) \/ Accept(d, s) PROVE TypeOK'
  <2>1. end' \in [Dev -> [Session -> {"none", "ring", "up", "failing", "over"}]]
    <3> DEFINE P == {"none", "ring", "up", "failing", "over"}
    <3>1. end \in [Dev -> [Session -> P]] /\ "up" \in P /\ "ring" \in P /\ Other(d) \in Dev
      BY DEF TypeOK, Other, Dev
    <3> HIDE DEF P
    <3>2. \A e \in [Dev -> [Session -> P]], c \in Dev, p \in P : [e EXCEPT ![c][s] = p] \in [Dev -> [Session -> P]]
      OBVIOUS
    <3>3. CASE Accept(d, s)
      <4>1. end' = [end EXCEPT ![d][s] = "up"]
        BY <3>3 DEF Accept
      <4> QED
        BY <3>1, <3>2, <4>1 DEF P
    <3>4. CASE Dial(d, s)
      <4>1. end' = [[end EXCEPT ![d][s] = "up"] EXCEPT ![Other(d)][s] = "ring"]
        BY <3>4 DEF Dial
      <4>2. [end EXCEPT ![d][s] = "up"] \in [Dev -> [Session -> P]]
        BY <3>1, <3>2
      <4> QED
        BY <3>1, <3>2, <4>1, <4>2 DEF P
    <3> QED
      BY <1>1, <3>3, <3>4
  <2> QED
    BY <1>1, <2>1 DEF Dial, Accept, TypeOK, sender, receiver
<1>2. ASSUME MemberGoes PROVE TypeOK'
  BY <1>2 DEF MemberGoes, TypeOK, sender
<1>3. CASE UNCHANGED vars
  BY <1>3 DEF vars, TypeOK
<1> QED
  BY <1>1, <1>2, <1>3, EngineType, StreamStepType, SenderTaskType, ReceiverTaskType DEF Next, TaskStep

-----------------------------------------------------------------------------
(* The steps by what they leave alone *)

\* a's engine and streams,
SenderMoves ==
    \/ \E i \in Direct : SendFile(i)
    \/ \E i \in Group : GroupSendFile(i)
                        \/ \E t \in Try : GroupFileRetry(i, t) \/ StreamStep(i, t)

\* a's session tasks,
WriterMoves == \E s \in Session : WriteFrame(s) \/ \E i \in Group : SenderSets(s, i)

\* b's session tasks,
ReaderMoves ==
    \E s \in Session : ReadFrame(s) \/ InsertPartial(s) \/ StoreFile(s) \/ DropInbound(s)

\* and the sessions.
SessionMoves ==
    \E s \in Session : SenderEnds(s) \/ SenderIsOver(s) \/ ReceiverEnds(s)
                       \/ \E d \in Dev : Dial(d, s) \/ Accept(d, s)

\* Every step is one of them, or leaves all but the member flag alone.
LEMMA StepCases ==
    ASSUME [Next]_vars
    PROVE  \/ SenderMoves \/ WriterMoves \/ ReaderMoves \/ SessionMoves
           \/ UNCHANGED <<end, queue, credits, wire, sender, rx, step, offline, log>>
<1>1. CASE Next
  BY <1>1 DEF Next, TaskStep, SenderMoves, WriterMoves, ReaderMoves, SessionMoves, MemberGoes
<1>2. CASE UNCHANGED vars
  BY <1>2 DEF vars, sender
<1> QED
  BY <1>1, <1>2

\* The sender's engine touches neither the ends nor the receiver.
LEMMA SenderLeaves ==
    ASSUME SenderMoves
    PROVE  UNCHANGED <<end, wire, hit, rx, step, offline, log>>
<1>1. ASSUME NEW i \in Direct, SendFile(i) PROVE UNCHANGED <<end, wire, hit, receiver>>
  BY <1>1 DEF SendFile
<1>2. ASSUME NEW i \in Group, GroupSendFile(i) PROVE UNCHANGED <<end, wire, hit, receiver>>
  BY <1>2 DEF GroupSendFile
<1>3. ASSUME NEW i \in Group, NEW t \in Try, GroupFileRetry(i, t)
      PROVE UNCHANGED <<end, wire, hit, receiver>>
  BY <1>3 DEF GroupFileRetry
<1>4. ASSUME NEW i \in Group, NEW t \in Try, StreamStep(i, t)
      PROVE UNCHANGED <<end, wire, hit, receiver>>
  BY <1>4 DEF StreamStep, StreamSends, StreamFails, StreamJudges, StreamSets, StreamCancels
<1> QED
  BY <1>1, <1>2, <1>3, <1>4 DEF SenderMoves, receiver

\* Nor do a's tasks while the session stands; they leave the streams alone.
LEMMA WriterLeaves ==
    ASSUME WriterMoves
    PROVE  UNCHANGED <<end, stream, rx, step, offline, log>>
BY DEF WriterMoves, WriteFrame, SenderSets, receiver

\* b's tasks leave the sender alone.
LEMMA ReaderLeaves ==
    ASSUME ReaderMoves
    PROVE  UNCHANGED <<end, queue, credits, sent, xfer, stream, hit>>
BY DEF ReaderMoves, ReadFrame, InsertPartial, StoreFile, DropInbound, sender

\* Sessions come and go without a word about transfers.
LEMMA SessionLeaves ==
    ASSUME SessionMoves
    PROVE  UNCHANGED <<sent, xfer, stream, rx, step, log>>
BY DEF SessionMoves, SenderEnds, SenderIsOver, ReceiverEnds, Dial, Accept, sender, receiver

\* What a step does to b's tasks.
LEMMA ReadSteps ==
    ASSUME TypeOK, NEW s \in Session, ReadFrame(s)
    PROVE  \E i \in Transfer :
             /\ end["b"][s] = "up" /\ step[s] = Idle /\ UNCHANGED <<end, offline>>
             /\ step' \in {step, [step EXCEPT ![s] = Insert(i)], [step EXCEPT ![s] = Store(i)]}
<1> DEFINE f == Head(wire[s])
<1>1. f.id \in Transfer /\ f.kind \in {"begin", "chunk", "end"}
  BY HeadType DEF ReadFrame, TypeOK
<1> HIDE DEF f
<1>2. \/ rx' = [rx EXCEPT ![f.id] = -1] /\ UNCHANGED <<step, log>>
      \/ ReadBegin(s, f.id) \/ ReadChunk(s, f.id) \/ ReadEnd(s, f.id)
  BY <1>1 DEF ReadFrame, f
<1>3. end["b"][s] = "up" /\ step[s] = Idle /\ UNCHANGED <<end, offline>>
  BY DEF ReadFrame
<1>4. step' \in {step, [step EXCEPT ![s] = Insert(f.id)], [step EXCEPT ![s] = Store(f.id)]}
  BY <1>2 DEF ReadBegin, ReadChunk, ReadEnd
<1> QED
  BY <1>1, <1>2, <1>3, <1>4

-----------------------------------------------------------------------------
(* Sessions *)

\* How the ends move, one by one.
LEMMA EndsMove ==
    ASSUME TypeOK, SessionMoves
    PROVE  \E s \in Session :
             /\ \A d \in Dev, r \in Session : r # s => end'[d][r] = end[d][r]
             /\ \/ /\ end["a"][s] = "up" /\ end'["a"][s] = "failing" /\ end'["b"][s] = end["b"][s]
                   /\ SenderEnds(s)
                \/ /\ end["a"][s] = "failing" /\ end'["a"][s] = "over" /\ end'["b"][s] = end["b"][s]
                   /\ SenderIsOver(s)
                \/ /\ end["b"][s] = "up" /\ end'["b"][s] = "over" /\ end'["a"][s] = end["a"][s]
                   /\ ReceiverEnds(s)
                \/ /\ end["a"][s] = "none" \/ end["b"][s] = "none"
                   /\ {end'["a"][s], end'["b"][s]} = {"up", "ring"}
                   /\ \E d \in Dev : Dial(d, s)
                \/ \E d \in Dev : /\ end[d][s] = "ring" /\ end'[d][s] = "up"
                                  /\ end'[Other(d)][s] = end[Other(d)][s]
                                  /\ Accept(d, s)
<1>1. ASSUME NEW s \in Session, SenderEnds(s) \/ SenderIsOver(s) \/ ReceiverEnds(s)
      PROVE  /\ \A d \in Dev, r \in Session : r # s => end'[d][r] = end[d][r]
             /\ \/ /\ end["a"][s] = "up" /\ end'["a"][s] = "failing" /\ end'["b"][s] = end["b"][s]
                   /\ SenderEnds(s)
                \/ /\ end["a"][s] = "failing" /\ end'["a"][s] = "over" /\ end'["b"][s] = end["b"][s]
                   /\ SenderIsOver(s)
                \/ /\ end["b"][s] = "up" /\ end'["b"][s] = "over" /\ end'["a"][s] = end["a"][s]
                   /\ ReceiverEnds(s)
  <2>1. CASE SenderEnds(s)
    BY <2>1 DEF SenderEnds, TypeOK, Dev
  <2>2. CASE SenderIsOver(s)
    BY <2>2 DEF SenderIsOver, TypeOK, Dev
  <2>3. CASE ReceiverEnds(s)
    BY <2>3 DEF ReceiverEnds, TypeOK, Dev
  <2> QED
    BY <1>1, <2>1, <2>2, <2>3
<1>2. ASSUME NEW s \in Session, NEW d \in Dev, Accept(d, s)
      PROVE  /\ \A c \in Dev, r \in Session : r # s => end'[c][r] = end[c][r]
             /\ end[d][s] = "ring" /\ end'[d][s] = "up" /\ end'[Other(d)][s] = end[Other(d)][s]
  BY <1>2 DEF Accept, TypeOK, Dev, Other
<1>3. ASSUME NEW s \in Session, NEW d \in Dev, Dial(d, s)
      PROVE  /\ \A c \in Dev, r \in Session : r # s => end'[c][r] = end[c][r]
             /\ end[d][s] = "none" /\ {end'["a"][s], end'["b"][s]} = {"up", "ring"}
  <2>1. end[d][s] = "none"
    BY <1>3 DEF Dial, Session
  <2>2. end' = [end EXCEPT ![d][s] = "up", ![Other(d)][s] = "ring"]
    BY <1>3 DEF Dial
  <2>3. CASE d = "a"
    BY <2>1, <2>2, <2>3 DEF Other, TypeOK, Dev
  <2>4. CASE d = "b"
    BY <2>1, <2>2, <2>4 DEF Other, TypeOK, Dev
  <2> QED
    BY <2>3, <2>4 DEF Dev
<1>4. ASSUME NEW s \in Session, NEW d \in Dev, Dial(d, s)
      PROVE  end["a"][s] = "none" \/ end["b"][s] = "none"
  BY <1>3, <1>4 DEF Dev
<1> QED
  BY <1>1, <1>2, <1>3, <1>4 DEF SessionMoves

\* Both ends know a session, and b is at a frame of an open one only.
LEMMA EndsStep ==
    ASSUME IInv, [Next]_vars
    PROVE  BothEnds' /\ StepsUp'
<1> USE DEF IInv, FileInv
<1>1. CASE UNCHANGED <<end, step>>
  BY <1>1 DEF BothEnds, StepsUp
<1>2. CASE SessionMoves
  <2>1. UNCHANGED step
    BY <1>2, SessionLeaves
  <2>2. PICK s \in Session :
             /\ \A d \in Dev, r \in Session : r # s => end'[d][r] = end[d][r]
             /\ \/ end["a"][s] = "up" /\ end'["a"][s] = "failing" /\ end'["b"][s] = end["b"][s]
                \/ end["a"][s] = "failing" /\ end'["a"][s] = "over" /\ end'["b"][s] = end["b"][s]
                \/ /\ end["b"][s] = "up" /\ end'["b"][s] = "over" /\ end'["a"][s] = end["a"][s]
                   /\ ReceiverEnds(s)
                \/ /\ end["a"][s] = "none" \/ end["b"][s] = "none"
                   /\ {end'["a"][s], end'["b"][s]} = {"up", "ring"}
                \/ \E d \in Dev : /\ end[d][s] = "ring" /\ end'[d][s] = "up"
                                  /\ end'[Other(d)][s] = end[Other(d)][s]
    BY <1>2, EndsMove
  <2>3. ReceiverEnds(s) => step[s] = Idle
    BY DEF ReceiverEnds
  <2>4. (end'["a"][s] = "none") = (end'["b"][s] = "none")
    BY <2>2 DEF BothEnds, Dev, Other
  <2>5. step[s] # Idle => end'["b"][s] = "up"
    BY <2>2, <2>3 DEF BothEnds, StepsUp, Dev, Other
  <2>6. \A r \in Session : r # s => end'["a"][r] = end["a"][r] /\ end'["b"][r] = end["b"][r]
    BY <2>2 DEF Dev
  <2> QED
    BY <2>1, <2>4, <2>5, <2>6 DEF BothEnds, StepsUp
<1>3. CASE ReaderMoves
  <2>1. UNCHANGED end
    BY <1>3, ReaderLeaves
  <2>2. PICK s \in Session : ReadFrame(s) \/ InsertPartial(s) \/ StoreFile(s) \/ DropInbound(s)
    BY <1>3 DEF ReaderMoves
  <2>3. \A r \in Session : r # s => step'[r] = step[r]
    <3>1. CASE ReadFrame(s)
      <4>1. PICK i \in Transfer :
               step' \in {step, [step EXCEPT ![s] = Insert(i)], [step EXCEPT ![s] = Store(i)]}
        BY <3>1, ReadSteps
      <4> QED
        BY <4>1 DEF TypeOK
    <3>2. CASE InsertPartial(s) \/ StoreFile(s) \/ DropInbound(s)
      BY <3>2 DEF InsertPartial, StoreFile, DropInbound, TypeOK
    <3> QED
      BY <2>2, <3>1, <3>2
  <2>4. end["b"][s] = "up" \/ step'[s] = step[s] \/ step'[s] = Idle
    BY <2>2, ReadSteps DEF InsertPartial, StoreFile, DropInbound, TypeOK
  <2> QED
    BY <2>1, <2>3, <2>4 DEF BothEnds, StepsUp
<1> QED
  BY <1>1, <1>2, <1>3, StepCases, SenderLeaves, WriterLeaves

-----------------------------------------------------------------------------
(* Streams and credits *)

\* A stream under way keeps its session.
LEMMA StreamsStep ==
    ASSUME IInv, [Next]_vars
    PROVE  StreamsPlaced'
<1> USE DEF IInv, FileInv
<1>a. stream \in [Group -> [Try -> StreamRec]]
  BY DEF TypeOK, StreamRec
<1>1. CASE UNCHANGED stream
  BY <1>1 DEF StreamsPlaced
<1>2. ASSUME NEW i \in Group, NEW t \in Try, NEW r \in StreamRec,
             stream' = [stream EXCEPT ![i][t] = r],
             r.phase \in {"run", "judge", "set", "cancel"} => r.sess \in Session
      PROVE  StreamsPlaced'
  BY <1>2, OneStream DEF StreamsPlaced
<1>3. ASSUME NEW i \in Group, NEW t \in Try, NEW s \in Link, Attempt(i, t, s) PROVE StreamsPlaced'
  BY <1>2, <1>3, LinkType, StreamType DEF Attempt
<1>4. ASSUME NEW i \in Group, NEW t \in Try, StreamStep(i, t) PROVE StreamsPlaced'
  <2> DEFINE m == stream[i][t]
  <2>1. m \in StreamRec
    BY <1>a
  <2>2. m.phase \in {"run", "judge", "set", "cancel"} => m.sess \in Session
    BY DEF StreamsPlaced
  <2>3. CASE StreamSends(i, t)
    <3>1. m.phase = "run" /\ m.next \in 0..Chunks + 1
      BY <2>1, <2>3, StreamMoves DEF StreamSends
    <3>2. CASE m.next > Chunks
      <4>1. stream' = [stream EXCEPT ![i][t] = StreamOver]
        BY <2>3, <3>2 DEF StreamSends
      <4> QED
        BY <1>2, <4>1, StreamType
    <3>3. CASE ~(m.next > Chunks)
      <4> DEFINE r == [m EXCEPT !.next = m.next + 1]
      <4>1. stream' = [stream EXCEPT ![i][t] = r]
        BY <2>3, <3>3 DEF StreamSends
      <4>2. m.next + 1 \in 0..Chunks + 1
        BY <3>1, <3>3
      <4> HIDE DEF m
      <4>3. r \in StreamRec /\ r.sess = m.sess
        BY <2>1, <4>2, StreamMoves
      <4> QED
        BY <1>2, <2>2, <3>1, <4>1, <4>3
    <3> QED
      BY <3>2, <3>3
  <2>4. CASE StreamFails(i, t)
    <3> DEFINE r == [m EXCEPT !.phase = "judge", !.next = 0]
    <3>1. stream' = [stream EXCEPT ![i][t] = r] /\ m.phase = "run"
      BY <2>4 DEF StreamFails
    <3>2. r \in StreamRec /\ r.sess = m.sess
      BY <2>1, StreamMoves
    <3> QED
      BY <1>2, <2>2, <3>1, <3>2
  <2>5. CASE StreamJudges(i, t) \/ StreamSets(i, t)
    <3>1. PICK x \in {"set", "cancel"} : stream' = [stream EXCEPT ![i][t].phase = x]
      BY <2>5 DEF StreamJudges, StreamSets
    <3>2. m.phase \in {"judge", "set"}
      BY <2>5 DEF StreamJudges, StreamSets
    <3> QED
      BY <1>a, <2>2, <3>1, <3>2 DEF StreamsPlaced, StreamRec
  <2>6. CASE StreamCancels(i, t)
    BY <1>2, <2>6, StreamType DEF StreamCancels
  <2> QED
    BY <1>4, <2>3, <2>4, <2>5, <2>6 DEF StreamStep
<1>5. ASSUME NEW i \in Group, GroupSendFile(i) PROVE StreamsPlaced'
  <2>1. 1 \in Try
    BY DEF Try
  <2> QED
    BY <1>1, <1>3, <1>5, <2>1 DEF GroupSendFile
<1>6. ASSUME NEW i \in Group, NEW t \in Try, GroupFileRetry(i, t) PROVE StreamsPlaced'
  BY <1>3, <1>6 DEF GroupFileRetry
<1>7. ASSUME NEW i \in Direct, SendFile(i) PROVE StreamsPlaced'
  BY <1>1, <1>7 DEF SendFile
<1>8. CASE SenderMoves
  BY <1>4, <1>5, <1>6, <1>7, <1>8 DEF SenderMoves
<1> QED
  BY <1>1, <1>8, StepCases, WriterLeaves, ReaderLeaves, SessionLeaves DEF sender

\* The frames of a stream are group chunks where they should be.
LEMMA FrameAtChunk ==
    ASSUME NEW i \in Group, NEW n \in Nat
    PROVE  (FrameAt(i, n).id \in Group /\ FrameAt(i, n).kind = "chunk") <=> IsChunk(n)
<1>1. Begin(i).kind = "begin" /\ Chunk(i).kind = "chunk" /\ End(i).kind = "end" /\ Chunk(i).id = i
  BY DEF Begin, Chunk, End
<1> QED
  BY <1>1 DEF FrameAt, IsChunk

\* What changes one channel and its credits keeps the sum if it does there.
LEMMA OneChannel ==
    ASSUME IInv, NEW s \in Session, NEW q \in Seq(Frame), NEW c \in Nat,
           queue' = [queue EXCEPT ![s] = q],
           credits' = [credits EXCEPT ![s] = c],
           c + Cardinality(GroupChunks(q)) = Credits
    PROVE  CreditsAll'
BY DEF IInv, FileInv, TypeOK, CreditsAll

\* No step loses a credit or makes one.
LEMMA CreditsStep ==
    ASSUME IInv, [Next]_vars
    PROVE  CreditsAll'
<1> USE DEF IInv, FileInv
<1>a. queue \in [Session -> Seq(Frame)] /\ credits \in [Session -> Nat]
  BY DEF TypeOK
<1>b. \A s \in Session : /\ Cardinality(GroupChunks(queue[s])) \in Nat
                         /\ credits[s] + Cardinality(GroupChunks(queue[s])) = Credits
  BY <1>a, ChunksFinite DEF CreditsAll
<1>1. CASE UNCHANGED <<queue, credits>>
  BY <1>1 DEF CreditsAll
<1>2. ASSUME NEW i \in Direct, SendFile(i) PROVE CreditsAll'
  <2> DEFINE s == FirstLink
  <2>1. s \in Session
    BY <1>2, FirstLinkIsLive DEF SendFile, Live
  <2>2. queue[s] \in Seq(Frame) /\ credits[s] \in Nat
    BY <1>a, <2>1
  <2>3. /\ queue[s] \o FileFrames(i) \in Seq(Frame)
        /\ GroupChunks(queue[s] \o FileFrames(i)) = GroupChunks(queue[s])
    BY <2>2, BurstType, ChunksBurst
  <2>4. queue' = [queue EXCEPT ![s] = queue[s] \o FileFrames(i)] /\ credits' = credits
    BY <1>2 DEF SendFile
  <2> HIDE DEF s
  <2>5. credits' = [credits EXCEPT ![s] = credits[s]]
    BY <1>a, <2>4
  <2> QED
    BY <1>b, <2>1, <2>2, <2>3, <2>4, <2>5, OneChannel
<1>3. ASSUME NEW i \in Group, NEW t \in Try, StreamStep(i, t) PROVE CreditsAll'
  <2> DEFINE m == stream[i][t]
             s == m.sess
  <2>1. m \in StreamRec /\ i \in Transfer
    BY DEF TypeOK, StreamRec, Transfer
  <2>2. m.next \in Nat
    <3>1. m.next \in 0..Chunks + 1
      BY <2>1, StreamMoves
    <3> QED
      BY <3>1
  <2>3. m.phase \in {"run", "judge", "set", "cancel"} => s \in Session
    BY DEF StreamsPlaced
  <2>4. CASE StreamSends(i, t)
    <3> DEFINE f == FrameAt(i, m.next)
               c == IF IsChunk(m.next) THEN credits[s] - 1 ELSE credits[s]
    <3>1. s \in Session /\ f \in Frame
      BY <2>1, <2>2, <2>3, <2>4, FrameType DEF StreamSends
    <3>2. queue[s] \in Seq(Frame) /\ credits[s] \in Nat
      BY <1>a, <3>1
    <3>3. queue' = [queue EXCEPT ![s] = Append(queue[s], f)] /\ credits' = [credits EXCEPT ![s] = c]
      BY <2>4 DEF StreamSends
    <3>4. IsChunk(m.next) => credits[s] > 0
      BY <2>4 DEF StreamSends, Accepts
    <3>5. c \in Nat
      BY <3>2, <3>4
    <3>6. Cardinality(GroupChunks(Append(queue[s], f))) =
             Cardinality(GroupChunks(queue[s])) + (IF IsChunk(m.next) THEN 1 ELSE 0)
      BY <2>2, <3>1, <3>2, FrameAtChunk, ChunksAppend
    <3>7. Append(queue[s], f) \in Seq(Frame)
      BY <3>1, <3>2
    <3> HIDE DEF f, s
    <3>8. c + Cardinality(GroupChunks(Append(queue[s], f))) = Credits
      BY <1>b, <3>1, <3>2, <3>6
    <3> HIDE DEF c
    <3> QED
      BY <3>1, <3>3, <3>5, <3>7, <3>8, OneChannel
  <2>5. CASE StreamCancels(i, t)
    <3>1. CASE UNCHANGED queue
      BY <1>1, <2>5, <3>1 DEF StreamCancels
    <3>2. CASE queue' = [queue EXCEPT ![s] = Append(queue[s], End(i))]
      <4>1. s \in Session /\ End(i) \in Frame /\ End(i).kind = "end"
        BY <2>1, <2>3, <2>5, FrameType DEF StreamCancels, End
      <4>2. queue[s] \in Seq(Frame) /\ credits[s] \in Nat
        BY <1>a, <4>1
      <4>3. Cardinality(GroupChunks(Append(queue[s], End(i)))) = Cardinality(GroupChunks(queue[s])) + 0
        BY <4>1, <4>2, ChunksAppend
      <4>4. Append(queue[s], End(i)) \in Seq(Frame)
        BY <4>1, <4>2
      <4>5. credits' = [credits EXCEPT ![s] = credits[s]]
        BY <1>a, <2>5 DEF StreamCancels
      <4> HIDE DEF s
      <4>6. credits[s] + Cardinality(GroupChunks(Append(queue[s], End(i)))) = Credits
        BY <1>b, <4>1, <4>3
      <4> QED
        BY <3>2, <4>1, <4>2, <4>4, <4>5, <4>6, OneChannel
    <3> QED
      BY <2>5, <3>1, <3>2 DEF StreamCancels
  <2>6. CASE StreamFails(i, t) \/ StreamJudges(i, t) \/ StreamSets(i, t)
    BY <1>1, <2>6 DEF StreamFails, StreamJudges, StreamSets
  <2> QED
    BY <1>3, <2>4, <2>5, <2>6 DEF StreamStep
<1>4. ASSUME NEW i \in Group, GroupSendFile(i) \/ \E t \in Try : GroupFileRetry(i, t) PROVE CreditsAll'
  BY <1>1, <1>4 DEF GroupSendFile, GroupFileRetry
<1>5. ASSUME NEW s \in Session, WriteFrame(s) PROVE CreditsAll'
  <2> DEFINE f == Head(queue[s])
             c == IF f.id \in Group /\ f.kind = "chunk" THEN credits[s] + 1 ELSE credits[s]
  <2>1. queue[s] \in Seq(Frame) /\ queue[s] # << >> /\ credits[s] \in Nat
    BY <1>a, <1>5 DEF WriteFrame
  <2>2. Tail(queue[s]) \in Seq(Frame)
    BY <2>1
  <2>3. Cardinality(GroupChunks(queue[s])) =
          Cardinality(GroupChunks(Tail(queue[s])))
          + (IF f.id \in Group /\ f.kind = "chunk" THEN 1 ELSE 0)
    BY <2>1, ChunksTail
  <2>4. queue' = [queue EXCEPT ![s] = Tail(queue[s])] /\ credits' = [credits EXCEPT ![s] = c]
    BY <1>5 DEF WriteFrame, CreditsBack
  <2>5. Cardinality(GroupChunks(Tail(queue[s]))) \in Nat
    BY <2>2, ChunksFinite
  <2> HIDE DEF f
  <2>6. c \in Nat /\ c + Cardinality(GroupChunks(Tail(queue[s]))) = Credits
    <3> DEFINE n == Cardinality(GroupChunks(Tail(queue[s])))
    <3>1. credits[s] + Cardinality(GroupChunks(queue[s])) = Credits
      BY <1>b
    <3>2. n \in Nat /\ credits[s] \in Nat
      BY <2>1, <2>5
    <3>3. CASE f.id \in Group /\ f.kind = "chunk"
      <4>1. c = credits[s] + 1 /\ Cardinality(GroupChunks(queue[s])) = n + 1
        BY <2>3, <3>3
      <4> HIDE DEF c, n
      <4> QED
        BY <3>1, <3>2, <4>1 DEF n
    <3>4. CASE ~(f.id \in Group /\ f.kind = "chunk")
      <4>1. c = credits[s] /\ Cardinality(GroupChunks(queue[s])) = n + 0
        BY <2>3, <3>4
      <4> HIDE DEF c, n
      <4> QED
        BY <3>1, <3>2, <4>1 DEF n
    <3> QED
      BY <3>3, <3>4
  <2> HIDE DEF c
  <2> QED
    BY <2>2, <2>4, <2>6, OneChannel
<1>6. ASSUME NEW s \in Session, SenderIsOver(s) PROVE CreditsAll'
  <2>1. << >> \in Seq(Frame) /\ Credits \in Nat
    OBVIOUS
  <2>2. GroupChunks(<< >>) = {}
    BY DEF GroupChunks
  <2>3. Credits + Cardinality(GroupChunks(<< >>)) = Credits
    BY <2>2, FS_EmptySet
  <2> QED
    BY <1>6, <2>1, <2>3, OneChannel DEF SenderIsOver
<1>7. CASE SenderMoves
  BY <1>2, <1>3, <1>4, <1>7 DEF SenderMoves
<1>8. CASE WriterMoves
  BY <1>1, <1>5, <1>8 DEF WriterMoves, SenderSets
<1>9. CASE SessionMoves
  BY <1>1, <1>6, <1>9 DEF SessionMoves, SenderEnds, ReceiverEnds, Dial, Accept
<1> QED
  BY <1>1, <1>7, <1>8, <1>9, StepCases, ReaderLeaves

-----------------------------------------------------------------------------
(* Inbound transfers *)

\* A slot is held while the sender is online, or a task is about to free it.
LEMMA SlotsStep ==
    ASSUME IInv, [Next]_vars
    PROVE  SlotsFreed'
<1> USE DEF IInv, FileInv
<1>1. CASE UNCHANGED <<end, rx, offline>>
  BY <1>1 DEF SlotsFreed, Inbound, Live
<1>2. CASE ReaderMoves
  <2>1. UNCHANGED end
    BY <1>2, ReaderLeaves
  <2>2. PICK s \in Session : ReadFrame(s) \/ InsertPartial(s) \/ StoreFile(s) \/ DropInbound(s)
    BY <1>2 DEF ReaderMoves
  <2>3. CASE DropInbound(s)
    <3>1. \A i \in Group : i \in Transfer /\ rx'[i] = -1
      BY <2>3 DEF DropInbound, Transfer
    <3> QED
      BY <3>1 DEF SlotsFreed, Inbound
  <2>4. CASE end["b"][s] = "up"
    <3>1. s \in Live("b")'
      BY <2>1, <2>4 DEF Live
    <3> QED
      BY <3>1 DEF SlotsFreed
  <2>5. CASE ReadFrame(s)
    BY <2>4, <2>5 DEF ReadFrame
  <2>6. CASE InsertPartial(s) \/ StoreFile(s)
    <3>1. step[s] # Idle
      BY <2>6, StepType DEF InsertPartial, StoreFile
    <3> QED
      BY <2>4, <3>1 DEF StepsUp
  <2> QED
    BY <2>2, <2>3, <2>5, <2>6
<1>3. CASE SessionMoves
  <2>1. UNCHANGED rx
    BY <1>3, SessionLeaves
  <2>2. Inbound' = Inbound
    BY <2>1 DEF Inbound
  <2>3. CASE \E s \in Session : ReceiverEnds(s)
    <3>1. PICK s \in Session : ReceiverEnds(s)
      BY <2>3
    <3>2. CASE Live("b") = {s}
      BY <3>1, <3>2 DEF ReceiverEnds, SlotsFreed
    <3>3. ASSUME NEW r \in Live("b"), r # s PROVE SlotsFreed'
      <4>1. r \in Live("b")'
        BY <3>1, <3>3 DEF ReceiverEnds, Live, TypeOK, Dev
      <4> QED
        BY <4>1 DEF SlotsFreed
    <3>4. CASE Live("b") = {}
      BY <2>2, <3>1, <3>4 DEF SlotsFreed, ReceiverEnds
    <3> QED
      BY <3>2, <3>3, <3>4
  <2>4. CASE ~\E s \in Session : ReceiverEnds(s)
    <3>1. UNCHANGED offline
      BY <1>3, <2>4 DEF SessionMoves, SenderEnds, SenderIsOver, Dial, Accept, receiver
    <3>2. PICK s \in Session :
             /\ \A d \in Dev, r \in Session : r # s => end'[d][r] = end[d][r]
             /\ \/ end'["b"][s] = end["b"][s]
                \/ end["a"][s] = "none" \/ end["b"][s] = "none"
                \/ end["b"][s] = "ring"
      BY <1>3, <2>4, EndsMove DEF Dev, Other
    <3>3. Live("b") \subseteq Live("b")'
      BY <3>2 DEF Live, BothEnds, Dev
    <3> QED
      BY <2>2, <3>1, <3>3 DEF SlotsFreed
  <2> QED
    BY <2>3, <2>4
<1> QED
  BY <1>1, <1>2, <1>3, StepCases, SenderLeaves, WriterLeaves

-----------------------------------------------------------------------------
(* Transfers that are being sent *)

\* An owner stays if its session, its streams, its place in hit and its End do.
LEMMA OwnerStays ==
    ASSUME NEW i \in Group, NEW s \in Session, Owner(i, s),
           end'["a"][s] = end["a"][s],
           \A t \in Try : stream'[i][t] = stream[i][t],
           i \in hit[s] => i \in hit'[s],
           EndQueued(i, s) => EndQueued(i, s)'
    PROVE  Owner(i, s)'
<1>1. \A t \in Try : (Reports(i, t, s) => Reports(i, t, s)') /\ (ReportsLate(i, t, s) => ReportsLate(i, t, s)')
  BY DEF Reports, ReportsLate
<1> QED
  BY <1>1 DEF Owner

\* Frames put behind the others leave an End where it is,
LEMMA EndBehind ==
    ASSUME TypeOK, NEW i \in Group, NEW s \in Session, NEW r \in Session, NEW b \in Seq(Frame),
           queue' = [queue EXCEPT ![r] = queue[r] \o b], EndQueued(i, s)
    PROVE  EndQueued(i, s)'
<1>1. queue[r] \in Seq(Frame) /\ queue[s] \in Seq(Frame)
  BY DEF TypeOK
<1>2. PICK n \in DOMAIN queue[s] : queue[s][n] = End(i)
  BY DEF EndQueued
<1>3. CASE r # s
  <2>1. queue'[s] = queue[s]
    BY <1>3 DEF TypeOK
  <2> QED
    BY <1>2, <2>1 DEF EndQueued
<1>4. CASE r = s
  <2>1. queue'[s] = queue[s] \o b
    BY <1>4 DEF TypeOK
  <2>2. n \in DOMAIN (queue[s] \o b) /\ (queue[s] \o b)[n] = queue[s][n]
    BY <1>1
  <2> QED
    BY <1>2, <2>1, <2>2 DEF EndQueued
<1> QED
  BY <1>3, <1>4

\* ... also when it is one frame.
LEMMA EndAppend ==
    ASSUME TypeOK, NEW s \in Session, NEW r \in Session, NEW f \in Frame,
           queue' = [queue EXCEPT ![r] = Append(queue[r], f)]
    PROVE  /\ \A i \in Group : EndQueued(i, s) => EndQueued(i, s)'
           /\ \A i \in Group : f = End(i) => EndQueued(i, r)'
<1>1. queue[r] \in Seq(Frame) /\ queue \in [Session -> Seq(Frame)]
  BY DEF TypeOK
<1>2. Append(queue[r], f) = queue[r] \o <<f>> /\ <<f>> \in Seq(Frame)
  BY <1>1
<1>3. queue'[r] = Append(queue[r], f)
  BY <1>1
<1>4. Len(queue[r]) + 1 \in DOMAIN Append(queue[r], f) /\ Append(queue[r], f)[Len(queue[r]) + 1] = f
  BY <1>1
<1>5. \A i \in Group : f = End(i) => EndQueued(i, r)'
  BY <1>3, <1>4 DEF EndQueued
<1>6. queue' = [queue EXCEPT ![r] = queue[r] \o <<f>>]
  BY <1>2
<1> QED
  BY <1>2, <1>5, <1>6, EndBehind

\* A frame is written: the Ends behind it stay.
LEMMA EndTail ==
    ASSUME TypeOK, NEW i \in Group, NEW s \in Session, NEW r \in Session, queue[r] # << >>,
           queue' = [queue EXCEPT ![r] = Tail(queue[r])],
           EndQueued(i, s), Head(queue[r]) # End(i)
    PROVE  EndQueued(i, s)'
<1>1. queue[r] \in Seq(Frame) /\ queue \in [Session -> Seq(Frame)]
  BY DEF TypeOK
<1>2. CASE r # s
  BY <1>1, <1>2 DEF EndQueued
<1>3. CASE r = s
  <2>1. PICK n \in DOMAIN queue[r] : queue[r][n] = End(i)
    BY <1>3 DEF EndQueued
  <2>2. n # 1 /\ n \in 1..Len(queue[r])
    BY <1>1, <2>1
  <2>3. n - 1 \in DOMAIN Tail(queue[r]) /\ Tail(queue[r])[n - 1] = queue[r][n]
    BY <1>1, <2>2
  <2>4. queue'[s] = Tail(queue[r])
    BY <1>1, <1>3
  <2> QED
    BY <2>1, <2>3, <2>4 DEF EndQueued
<1> QED
  BY <1>2, <1>3

\* The transfers a step is not about keep their owners.
LEMMA OthersOwned ==
    ASSUME IInv, NEW k \in Group, xfer'[k].state = "sending" => xfer'[k] = xfer[k], UNCHANGED <<end, hit>>,
           \A t \in Try : stream'[k][t] = stream[k][t],
           \A s \in Session : EndQueued(k, s) => EndQueued(k, s)'
    PROVE  HasOwner(k)'
<1> SUFFICES ASSUME NEW s \in {0} \cup Session, xfer'[k].state = "sending", xfer'[k].sess = s
             PROVE  Owner(k, s)'
  BY DEF HasOwner
<1>1. Owner(k, s)
  BY DEF HasOwner, IInv, FileInv, Owned
<1>2. s \in Session
  BY <1>1 DEF Owner
<1> QED
  BY <1>1, <1>2, OwnerStays

\* Steps of the sender's engine.
LEMMA EngineOwned ==
    ASSUME IInv,
           \/ \E i \in Direct : SendFile(i)
           \/ \E i \in Group : GroupSendFile(i) \/ \E t \in Try : GroupFileRetry(i, t)
    PROVE  Owned'
<1> USE DEF IInv, FileInv
<1>a. xfer \in [Group -> XferRec] /\ stream \in [Group -> [Try -> StreamRec]]
  BY DEF TypeOK, XferRec, StreamRec
<1>b. UNCHANGED queue => \A k \in Group, r \in Session : EndQueued(k, r) => EndQueued(k, r)'
  BY DEF EndQueued
<1>1. ASSUME NEW i \in Direct, SendFile(i) PROVE Owned'
  <2>1. FirstLink \in Session
    BY <1>1, FirstLinkIsLive DEF SendFile, Live
  <2>2. FileFrames(i) \in Seq(Frame) /\ queue' = [queue EXCEPT ![FirstLink] = queue[FirstLink] \o FileFrames(i)]
    BY <1>1, BurstType DEF SendFile
  <2>3. \A k \in Group, r \in Session : EndQueued(k, r) => EndQueued(k, r)'
    BY <2>1, <2>2, EndBehind
  <2>4. UNCHANGED <<end, hit, xfer, stream>>
    BY <1>1 DEF SendFile
  <2> QED
    BY <2>3, <2>4, OthersOwned DEF Owned
<1>2. ASSUME NEW i \in Group, NEW t \in Try, NEW s \in Link, Attempt(i, t, s), UNCHANGED <<end, queue, hit>>
      PROVE  Owned'
  <2>1. s \in Session /\ end["a"][s] \in {"up", "failing", "over"}
    BY LinkType
  <2>2. /\ stream'[i][t] = Stream(s)
        /\ \A k \in Group, u \in Try : k # i \/ u # t => stream'[k][u] = stream[k][u]
    <3>1. PICK x \in StreamRec : x = Stream(s) /\ stream' = [stream EXCEPT ![i][t] = x]
      BY <1>2, <2>1, StreamType DEF Attempt
    <3>2. stream' = [stream EXCEPT ![i][t] = x]
      BY <3>1
    <3>3. /\ stream'[i][t] = x
          /\ \A k \in Group, u \in Try : k # i \/ u # t => stream'[k][u] = stream[k][u]
      BY <1>a, <3>2
    <3> QED
      BY <3>1, <3>3
  <2>3. xfer'[i].sess = s /\ \A k \in Group : k # i => xfer'[k] = xfer[k]
    BY <1>a, <1>2 DEF Attempt
  <2>4. ReportsLate(i, t, s)'
    BY <2>1, <2>2, StreamType DEF ReportsLate, Reports
  <2>5. Owner(i, s)'
    BY <1>2, <2>1, <2>4 DEF Owner, ReportsLate
  <2>6. HasOwner(i)'
    BY <2>3, <2>5 DEF HasOwner
  <2>7. ASSUME NEW k \in Group, k # i PROVE HasOwner(k)'
    <3>1. \A u \in Try : stream'[k][u] = stream[k][u]
      BY <2>2, <2>7
    <3>2. \A r \in Session : EndQueued(k, r) => EndQueued(k, r)'
      BY <1>b, <1>2
    <3> QED
      BY <1>2, <2>3, <2>7, <3>1, <3>2, OthersOwned
  <2> QED
    BY <2>6, <2>7 DEF Owned
<1>3. ASSUME NEW i \in Group, GroupSendFile(i) PROVE Owned'
  <2>1. 1 \in Try
    BY DEF Try
  <2>2. UNCHANGED <<end, queue, hit>>
    BY <1>3 DEF GroupSendFile
  <2>3. CASE \E s \in Link : Attempt(i, 1, s)
    BY <1>2, <2>1, <2>2, <2>3
  <2>4. CASE xfer' = [xfer EXCEPT ![i] = [state |-> "offline", sess |-> 0]] /\ UNCHANGED stream
    <3>1. xfer'[i].state = "offline" /\ \A k \in Group : k # i => xfer'[k] = xfer[k]
      BY <1>a, <2>4
    <3>2. \A k \in Group : xfer'[k].state = "sending" => xfer'[k] = xfer[k]
      BY <3>1
    <3> QED
      BY <1>b, <2>2, <2>4, <3>2, OthersOwned DEF Owned
  <2> QED
    BY <1>3, <2>3, <2>4 DEF GroupSendFile
<1>4. ASSUME NEW i \in Group, NEW t \in Try, GroupFileRetry(i, t) PROVE Owned'
  BY <1>2, <1>4 DEF GroupFileRetry
<1> QED
  BY <1>1, <1>3, <1>4

\* A stream goes on: it was no owner, or it is still one, or its End is queued.
LEMMA StreamKeepsOwner ==
    ASSUME IInv, NEW i \in Group, NEW t \in Try, NEW x \in StreamRec,
           stream' = [stream EXCEPT ![i][t] = x], UNCHANGED <<end, hit>>,
           xfer'[i].state = "sending" => xfer'[i] = xfer[i],
           \A k \in Group : k # i => xfer'[k] = xfer[k],
           \A k \in Group, r \in Session : EndQueued(k, r) => EndQueued(k, r)',
           \A s \in Session : xfer[i].sess = s /\ Reports(i, t, s) =>
              \/ /\ Reports(i, t, s)'
                 /\ end["a"][s] = "failing" /\ ReportsLate(i, t, s) => ReportsLate(i, t, s)'
              \/ end["a"][s] = "up" /\ EndQueued(i, s)'
              \/ end["a"][s] = "failing" /\ (Chunks = 0 \/ ~ReportsLate(i, t, s))
    PROVE  Owned'
<1> USE DEF IInv, FileInv
<1>1. \A k \in Group, u \in Try : k # i \/ u # t => stream'[k][u] = stream[k][u]
  BY OneStream
<1>2. ASSUME NEW k \in Group, k # i PROVE HasOwner(k)'
  BY <1>1, <1>2, OthersOwned
<1>3. HasOwner(i)'
  <2> SUFFICES ASSUME NEW s \in {0} \cup Session, xfer'[i].state = "sending", xfer'[i].sess = s
               PROVE  Owner(i, s)'
    BY DEF HasOwner
  <2>1. Owner(i, s) /\ xfer[i].sess = s
    BY DEF HasOwner, Owned
  <2>2. s \in Session
    BY <2>1 DEF Owner
  <2>3. \A u \in Try : u # t => /\ Reports(i, u, s) => Reports(i, u, s)'
                                /\ ReportsLate(i, u, s) => ReportsLate(i, u, s)'
    BY <1>1 DEF Reports, ReportsLate
  <2>4. CASE end["a"][s] = "up"
    <3>1. EndQueued(i, s)' \/ \E u \in Try : Reports(i, u, s)'
      <4>1. CASE EndQueued(i, s)
        BY <2>2, <4>1
      <4>2. ASSUME NEW u \in Try, Reports(i, u, s) PROVE EndQueued(i, s)' \/ \E v \in Try : Reports(i, v, s)'
        BY <2>1, <2>2, <2>3, <2>4, <4>2
      <4> QED
        BY <2>1, <2>4, <4>1, <4>2 DEF Owner
    <3> QED
      BY <2>2, <2>4, <3>1 DEF Owner
  <2>5. CASE end["a"][s] = "failing"
    <3>1. i \in hit'[s] \/ Chunks = 0 \/ \E u \in Try : ReportsLate(i, u, s)'
      <4>1. ASSUME NEW u \in Try, ReportsLate(i, u, s)
            PROVE  Chunks = 0 \/ \E v \in Try : ReportsLate(i, v, s)'
        <5>1. Reports(i, u, s)
          BY <4>1 DEF ReportsLate
        <5> QED
          BY <2>1, <2>2, <2>3, <2>5, <4>1, <5>1
      <4> QED
        BY <2>1, <2>5, <4>1 DEF Owner
    <3> QED
      BY <2>2, <2>5, <3>1 DEF Owner
  <2>6. CASE end["a"][s] = "over"
    <3>1. Chunks = 0 \/ \E u \in Try : Reports(i, u, s)'
      <4> SUFFICES ASSUME Chunks # 0 PROVE \E u \in Try : Reports(i, u, s)'
        OBVIOUS
      <4>1. PICK u \in Try : Reports(i, u, s)
        BY <2>1, <2>6 DEF Owner
      <4> QED
        BY <2>1, <2>2, <2>3, <2>6, <4>1
    <3> QED
      BY <2>2, <2>6, <3>1 DEF Owner
  <2> QED
    BY <2>1, <2>4, <2>5, <2>6 DEF Owner
<1> QED
  BY <1>2, <1>3 DEF Owned

\* Steps of a stream.
LEMMA StreamOwned ==
    ASSUME IInv, NEW i \in Group, NEW t \in Try, StreamStep(i, t)
    PROVE  Owned'
<1> USE DEF IInv, FileInv
<1>a. xfer \in [Group -> XferRec] /\ stream \in [Group -> [Try -> StreamRec]]
  BY DEF TypeOK, XferRec, StreamRec
<1>b. UNCHANGED queue => \A k \in Group, r \in Session : EndQueued(k, r) => EndQueued(k, r)'
  BY DEF EndQueued
<1>c. UNCHANGED <<end, hit>>
  BY DEF StreamStep, StreamSends, StreamFails, StreamJudges, StreamSets, StreamCancels
<1> DEFINE m == stream[i][t]
<1>d. m \in StreamRec /\ i \in Transfer /\ m.next \in 0..Chunks + 1
  <2>1. m \in StreamRec /\ i \in Transfer
    BY <1>a DEF Transfer
  <2> QED
    BY <2>1, StreamMoves
<1>e. m.phase \in {"run", "judge", "set", "cancel"} => m.sess \in Session
  BY DEF StreamsPlaced
<1>f. ASSUME NEW x \in StreamRec, stream' = [stream EXCEPT ![i][t] = x] PROVE stream'[i][t] = x
  BY <1>f, OneStream
<1>1. CASE StreamSends(i, t)
  <2>1. m.phase = "run" /\ m.sess \in Session /\ Accepts(m.sess, m.next) /\ UNCHANGED xfer
    BY <1>e, <1>1 DEF StreamSends
  <2>2. m.next \in Nat /\ FrameAt(i, m.next) \in Frame
    BY <1>d, FrameType
  <2>3. queue' = [queue EXCEPT ![m.sess] = Append(queue[m.sess], FrameAt(i, m.next))]
    BY <1>1 DEF StreamSends
  <2>4. \A k \in Group, r \in Session : EndQueued(k, r) => EndQueued(k, r)'
    BY <2>1, <2>2, <2>3, EndAppend
  <2>5. CASE m.next > Chunks
    <3>1. stream' = [stream EXCEPT ![i][t] = StreamOver]
      BY <1>1, <2>5 DEF StreamSends
    <3>2. FrameAt(i, m.next) = End(i)
      BY <2>2, <2>5 DEF FrameAt
    <3>3. \A s \in Session : m.sess = s => EndQueued(i, s)'
      BY <2>1, <2>2, <2>3, <3>2, EndAppend
    <3>4. end["a"][m.sess] \in {"up", "failing"}
      BY <2>1, <2>2, <2>5 DEF Accepts, IsChunk
    <3>5. Chunks = 0 \/ \A s \in Session : ~ReportsLate(i, t, s)
      BY <2>1, <2>2, <2>5 DEF ReportsLate
    <3>6. \A s \in Session : Reports(i, t, s) => m.sess = s
      BY DEF Reports
    <3> HIDE DEF m
    <3>7. \A s \in Session : Reports(i, t, s) =>
             (end["a"][s] = "up" /\ EndQueued(i, s)') \/ (end["a"][s] = "failing" /\ (Chunks = 0 \/ ~ReportsLate(i, t, s)))
      BY <3>3, <3>4, <3>5, <3>6
    <3> QED
      BY <1>c, <2>1, <2>4, <3>1, <3>7, StreamType, StreamKeepsOwner
  <2>6. CASE ~(m.next > Chunks)
    <3> DEFINE x == [m EXCEPT !.next = m.next + 1]
    <3>1. stream' = [stream EXCEPT ![i][t] = x]
      BY <1>1, <2>6 DEF StreamSends
    <3>2. m.next + 1 \in 0..Chunks + 1
      BY <2>2, <2>6
    <3>3. x \in StreamRec /\ x.sess = m.sess /\ x.phase = "run" /\ x.next = m.next + 1
      <4> HIDE DEF m
      <4> QED
        BY <1>d, <2>1, <3>2, StreamMoves
    <3>4. stream'[i][t] = x
      BY <1>f, <3>1, <3>3
    <3>5. \A s \in Session : Reports(i, t, s) => Reports(i, t, s)'
      BY <3>3, <3>4 DEF Reports
    <3>6. \A s \in Session : end["a"][s] = "failing" /\ ReportsLate(i, t, s) => ReportsLate(i, t, s)'
      <4> SUFFICES ASSUME NEW s \in Session, end["a"][s] = "failing", ReportsLate(i, t, s)
                   PROVE  ReportsLate(i, t, s)'
        OBVIOUS
      <4>1. m.sess = s /\ m.next <= 1 /\ Reports(i, t, s)
        BY <2>1 DEF ReportsLate, Reports
      <4>2. ~IsChunk(m.next)
        BY <2>1, <4>1 DEF Accepts
      <4>3. m.next = 0
        BY <2>2, <2>6, <4>1, <4>2 DEF IsChunk
      <4> QED
        BY <3>3, <3>4, <3>5, <4>1, <4>3 DEF ReportsLate
    <3> HIDE DEF m, x
    <3> QED
      BY <1>c, <2>1, <2>4, <3>1, <3>3, <3>5, <3>6, StreamKeepsOwner
  <2> QED
    BY <2>5, <2>6
<1>2. CASE StreamFails(i, t)
  <2> DEFINE x == [m EXCEPT !.phase = "judge", !.next = 0]
  <2>1. stream' = [stream EXCEPT ![i][t] = x] /\ UNCHANGED <<queue, xfer>>
    BY <1>2 DEF StreamFails
  <2>2. x \in StreamRec /\ x.sess = m.sess /\ x.phase = "judge"
    BY <1>d, StreamMoves
  <2>3. stream'[i][t] = x
    BY <1>f, <2>1, <2>2
  <2>4. \A s \in Session : Reports(i, t, s) => Reports(i, t, s)' /\ ReportsLate(i, t, s)'
    BY <2>2, <2>3 DEF Reports, ReportsLate
  <2> HIDE DEF m, x
  <2> QED
    BY <1>b, <1>c, <2>1, <2>2, <2>4, StreamKeepsOwner
<1>3. CASE StreamJudges(i, t) \/ StreamSets(i, t)
  <2>1. PICK ph \in {"set", "cancel"} :
           /\ stream' = [stream EXCEPT ![i][t].phase = ph]
           /\ StreamJudges(i, t) => ph = IF xfer[i].sess = m.sess THEN "set" ELSE "cancel"
    BY <1>3 DEF StreamJudges, StreamSets
  <2> DEFINE x == [m EXCEPT !.phase = ph]
  <2>2. stream' = [stream EXCEPT ![i][t] = x]
    BY <1>a, <2>1
  <2>3. x \in StreamRec /\ x.sess = m.sess /\ x.phase = ph
    BY <1>d, <2>1 DEF StreamRec
  <2>4. stream'[i][t] = x
    BY <1>f, <2>2, <2>3
  <2>5. UNCHANGED queue
    BY <1>3 DEF StreamJudges, StreamSets
  <2>6. CASE StreamJudges(i, t)
    <3>1. UNCHANGED xfer
      BY <2>6 DEF StreamJudges
    <3>2. \A s \in Session : xfer[i].sess = s /\ Reports(i, t, s) => Reports(i, t, s)' /\ ReportsLate(i, t, s)'
      BY <2>1, <2>3, <2>4, <2>6 DEF Reports, ReportsLate
    <3> HIDE DEF m, x
    <3> QED
      BY <1>b, <1>c, <2>2, <2>3, <2>5, <3>1, <3>2, StreamKeepsOwner
  <2>7. CASE StreamSets(i, t)
    <3>1. xfer'[i].state \in {"done", "failed"} /\ \A k \in Group : k # i => xfer'[k] = xfer[k]
      BY <2>7, SetStateType DEF StreamSets
    <3>2. HasOwner(i)'
      BY <3>1 DEF HasOwner
    <3>3. ASSUME NEW k \in Group, k # i PROVE HasOwner(k)'
      <4>1. \A u \in Try : stream'[k][u] = stream[k][u]
        BY <2>2, <2>3, <3>3, OneStream
      <4>2. \A r \in Session : EndQueued(k, r) => EndQueued(k, r)'
        BY <1>b, <2>5
      <4> QED
        BY <1>c, <3>1, <3>3, <4>1, <4>2, OthersOwned
    <3> QED
      BY <3>2, <3>3 DEF Owned
  <2> QED
    BY <1>3, <2>6, <2>7
<1>4. CASE StreamCancels(i, t)
  <2>1. m.phase = "cancel" /\ m.sess \in Session /\ UNCHANGED xfer
        /\ stream' = [stream EXCEPT ![i][t] = StreamOver]
    BY <1>e, <1>4 DEF StreamCancels
  <2>2. \A s \in Session : ~Reports(i, t, s)
    BY <2>1 DEF Reports
  <2>3. \A k \in Group, r \in Session : EndQueued(k, r) => EndQueued(k, r)'
    <3>1. CASE UNCHANGED queue
      BY <1>b, <3>1
    <3>2. CASE queue' = [queue EXCEPT ![m.sess] = Append(queue[m.sess], End(i))]
      BY <1>d, <2>1, <3>2, EndAppend, FrameType
    <3> QED
      BY <1>4, <3>1, <3>2 DEF StreamCancels
  <2> HIDE DEF m
  <2> QED
    BY <1>c, <2>1, <2>2, <2>3, StreamType, StreamKeepsOwner
<1> QED
  BY <1>1, <1>2, <1>3, <1>4 DEF StreamStep

\* A frame is written, or a transfer is set to failed.
LEMMA WriterOwned ==
    ASSUME IInv, WriterMoves
    PROVE  Owned'
<1> USE DEF IInv, FileInv
<1>a. xfer \in [Group -> XferRec] /\ hit \in [Session -> SUBSET Group]
  BY DEF TypeOK, XferRec
<1>1. ASSUME NEW r \in Session, WriteFrame(r) PROVE Owned'
  <2> DEFINE f == Head(queue[r])
  <2>1. /\ queue[r] # << >> /\ queue' = [queue EXCEPT ![r] = Tail(queue[r])]
        /\ UNCHANGED <<end, hit, stream>>
    BY <1>1 DEF WriteFrame
  <2>2. \A k \in Group : f = End(k) => f.id = k /\ f.kind = "end"
    BY DEF End
  <2>3. \/ /\ f.id \in Group /\ xfer[f.id].state = "sending"
           /\ SetState(f.id, "done")
        \/ UNCHANGED xfer /\ ~(f.id \in Group /\ f.kind = "end" /\ xfer[f.id].state = "sending")
    BY <1>1 DEF WriteFrame
  <2> HIDE DEF f
  <2>4. ASSUME NEW k \in Group, xfer'[k].state = "sending"
        PROVE  xfer'[k] = xfer[k] /\ f # End(k)
    <3>1. CASE f.id \in Group /\ xfer[f.id].state = "sending" /\ SetState(f.id, "done")
      <4>1. /\ \A j \in Group : j # f.id => xfer'[j] = xfer[j]
            /\ xfer'[f.id].state = "done"
        BY <3>1, SetStateType
      <4> QED
        BY <2>2, <2>4, <4>1
    <3>2. CASE UNCHANGED xfer /\ ~(f.id \in Group /\ f.kind = "end" /\ xfer[f.id].state = "sending")
      BY <2>2, <2>4, <3>2
    <3> QED
      BY <2>3, <3>1, <3>2
  <2>5. ASSUME NEW k \in Group PROVE HasOwner(k)'
    <3>1. CASE xfer'[k].state = "sending"
      <4>1. \A s \in Session : EndQueued(k, s) => EndQueued(k, s)'
        BY <2>1, <2>4, <3>1, EndTail DEF f
      <4> QED
        BY <2>1, <2>4, <3>1, <4>1, OthersOwned
    <3>2. CASE xfer'[k].state # "sending"
      BY <3>2 DEF HasOwner
    <3> QED
      BY <3>1, <3>2
  <2> QED
    BY <2>5 DEF Owned
<1>2. ASSUME NEW r \in Session, NEW i \in Group, SenderSets(r, i) PROVE Owned'
  <2>1. UNCHANGED <<end, queue, stream>> /\ hit' = [hit EXCEPT ![r] = hit[r] \ {i}]
    BY <1>2 DEF SenderSets
  <2>2. xfer'[i].state \in {"done", "failed"} /\ \A k \in Group : k # i => xfer'[k] = xfer[k]
    BY <1>2, SetStateType DEF SenderSets
  <2>3. \A k \in Group, s \in Session : k # i /\ k \in hit[s] => k \in hit'[s]
    BY <1>a, <2>1
  <2>4. \A k \in Group, s \in Session : EndQueued(k, s) => EndQueued(k, s)'
    BY <2>1 DEF EndQueued
  <2>5. ASSUME NEW k \in Group PROVE HasOwner(k)'
    <3> SUFFICES ASSUME NEW s \in {0} \cup Session, xfer'[k].state = "sending", xfer'[k].sess = s
                 PROVE  Owner(k, s)'
      BY DEF HasOwner
    <3>1. k # i /\ xfer'[k] = xfer[k]
      BY <2>2
    <3>2. Owner(k, s)
      BY <3>1 DEF HasOwner, Owned
    <3>3. s \in Session
      BY <3>2 DEF Owner
    <3> QED
      BY <2>1, <2>3, <2>4, <3>1, <3>2, <3>3, OwnerStays
  <2> QED
    BY <2>5 DEF Owned
<1> QED
  BY <1>1, <1>2 DEF WriterMoves

\* Sessions come, fail and go.
LEMMA SessionOwned ==
    ASSUME IInv, SessionMoves
    PROVE  Owned'
<1> USE DEF IInv, FileInv
<1>a. xfer \in [Group -> XferRec] /\ hit \in [Session -> SUBSET Group] /\ queue \in [Session -> Seq(Frame)]
  BY DEF TypeOK, XferRec
<1>b. UNCHANGED <<xfer, stream>>
  BY SessionLeaves
<1>1. PICK r \in Session :
             /\ \A d \in Dev, s \in Session : s # r => end'[d][s] = end[d][s]
             /\ \/ /\ end["a"][r] = "up" /\ end'["a"][r] = "failing"
                   /\ SenderEnds(r)
                \/ /\ end["a"][r] = "failing" /\ end'["a"][r] = "over"
                   /\ SenderIsOver(r)
                \/ /\ end'["a"][r] = end["a"][r]
                   /\ ReceiverEnds(r)
                \/ /\ end["a"][r] = "none" \/ end["b"][r] = "none"
                   /\ \E d \in Dev : Dial(d, r)
                \/ \E d \in Dev : /\ end[d][r] = "ring"
                                  /\ end'[Other(d)][r] = end[Other(d)][r]
                                  /\ Accept(d, r)
  BY EndsMove
<1>2. \A s \in Session : s # r => end'["a"][s] = end["a"][s]
  BY <1>1 DEF Dev
<1>3. \A s \in Session : s # r => hit'[s] = hit[s] /\ queue'[s] = queue[s]
  BY <1>a, <1>1 DEF SenderEnds, SenderIsOver, ReceiverEnds, Dial, Accept, sender
<1>4. SUFFICES ASSUME NEW i \in Group, NEW s \in {0} \cup Session, xfer[i].state = "sending", xfer[i].sess = s
               PROVE  Owner(i, s)'
  BY <1>b DEF Owned, HasOwner
<1>5. Owner(i, s)
  BY <1>4 DEF HasOwner, Owned
<1>6. s \in Session /\ end["a"][s] \in {"up", "failing", "over"}
  BY <1>5 DEF Owner
<1>7. CASE s # r
  BY <1>b, <1>2, <1>3, <1>5, <1>6, <1>7, OwnerStays DEF EndQueued
<1>8. CASE s = r
  <2>1. CASE end["a"][r] = "up" /\ end'["a"][r] = "failing" /\ SenderEnds(r)
    <3>1. xfer[i] = [state |-> "sending", sess |-> s]
      <4>1. xfer[i] \in XferRec
        BY <1>a
      <4> QED
        BY <1>4, <4>1 DEF XferRec
    <3>2. i \in hit'[s]
      BY <1>a, <1>8, <2>1, <3>1 DEF SenderEnds
    <3> QED
      BY <1>6, <1>8, <2>1, <3>2 DEF Owner
  <2>2. CASE end["a"][r] = "failing" /\ end'["a"][r] = "over" /\ SenderIsOver(r)
    <3>1. i \notin hit[s]
      BY <1>8, <2>2 DEF SenderIsOver
    <3>2. Chunks = 0 \/ \E t \in Try : ReportsLate(i, t, s)
      BY <1>5, <1>8, <2>2, <3>1 DEF Owner
    <3>3. \A t \in Try : ReportsLate(i, t, s) => Reports(i, t, s)'
      BY <1>b DEF Reports, ReportsLate
    <3> QED
      BY <1>6, <1>8, <2>2, <3>2, <3>3 DEF Owner
  <2>3. CASE end'["a"][r] = end["a"][r] /\ UNCHANGED <<hit, queue>>
    BY <1>b, <1>5, <1>6, <1>8, <2>3, OwnerStays DEF EndQueued
  <2>4. CASE end["a"][r] = "none" \/ end["b"][r] = "none"
    BY <1>6, <1>8, <2>4 DEF BothEnds
  <2>5. ASSUME NEW d \in Dev, end[d][r] = "ring", end'[Other(d)][r] = end[Other(d)][r], Accept(d, r)
        PROVE  Owner(i, s)'
    <3>1. d = "b"
      BY <1>6, <1>8, <2>5 DEF Dev
    <3>2. UNCHANGED <<hit, queue>> /\ end'["a"][r] = end["a"][r]
      BY <2>5, <3>1 DEF Accept, sender, Other
    <3> QED
      BY <2>3, <3>2
  <2>6. ReceiverEnds(r) => UNCHANGED <<hit, queue>>
    BY DEF ReceiverEnds, sender
  <2> QED
    BY <1>1, <2>1, <2>2, <2>3, <2>4, <2>5, <2>6
<1> QED
  BY <1>7, <1>8

-----------------------------------------------------------------------------
(* The invariant and what follows from it *)

\* Every step keeps the invariant.
LEMMA FileStep == IInv /\ [Next]_vars => IInv'
<1> SUFFICES ASSUME IInv, [Next]_vars PROVE IInv'
  OBVIOUS
<1>1. TypeOK'
  BY TypeStep DEF IInv
<1>2. Owned'
  <2>1. CASE SenderMoves
    BY <2>1, EngineOwned, StreamOwned DEF SenderMoves
  <2>2. CASE UNCHANGED <<end, queue, xfer, stream, hit>>
    <3>1. \A k \in Group, s \in Session : EndQueued(k, s) => EndQueued(k, s)'
      BY <2>2 DEF EndQueued
    <3> QED
      BY <2>2, <3>1, OthersOwned DEF Owned
  <2> QED
    BY <2>1, <2>2, StepCases, WriterOwned, ReaderLeaves, SessionOwned DEF sender
<1> QED
  BY <1>1, <1>2, EndsStep, StreamsStep, CreditsStep, SlotsStep DEF IInv, FileInv

\* It holds at the start.
LEMMA FileInit == Init => IInv
<1> SUFFICES ASSUME Init PROVE IInv
  OBVIOUS
<1>1. TypeOK
  BY DEF Init, TypeOK, NoStream, Dev, Idle
<1>2. BothEnds /\ StreamsPlaced /\ StepsUp
  BY DEF Init, BothEnds, StreamsPlaced, StepsUp, NoStream, Dev
<1>3. CreditsAll
  <2>1. GroupChunks(<< >>) = {}
    BY DEF GroupChunks
  <2>2. Cardinality(GroupChunks(<< >>)) = 0
    BY <2>1, FS_EmptySet
  <2> QED
    BY <2>2 DEF Init, CreditsAll
<1>4. Inbound = {}
  BY DEF Init, Inbound
<1>5. SlotsFreed
  BY <1>4 DEF SlotsFreed
<1>7. Owned
  BY DEF Init, Owned, HasOwner
<1> QED
  BY <1>1, <1>2, <1>3, <1>5, <1>7 DEF IInv, FileInv

\* The inductive invariant holds in every state.
THEOREM Invariant == Spec => []IInv
BY FileInit, FileStep, PTL DEF Spec

\* Every variable has its type in every state.
THEOREM TypeCorrect == Spec => []TypeOK
<1>1. IInv => TypeOK
  BY DEF IInv
<1> QED
  BY <1>1, Invariant, PTL

\* Streams, writers and sessions that end lose no credit and make none: the
\* frames of group files on a channel never exceed GROUP_FILE_CREDITS.
THEOREM CreditsAreKept == Spec => []CreditsKept
<1>1. IInv => CreditsKept
  BY DEF IInv, FileInv, CreditsAll, CreditsKept
<1> QED
  BY <1>1, Invariant, PTL

\* remove_live and drop_group_inbound leave no group transfer in rx_files
\* once the last session with its sender is over.
THEOREM SlotsAreFreed == Spec => []SlotsFreed
<1>1. IInv => SlotsFreed
  BY DEF IInv, FileInv
<1> QED
  BY <1>1, Invariant, PTL

\* Whatever the order of a failing session, a cancelled stream and a retry,
\* somebody is left who moves a group transfer out of "sending", but for one
\* case: the file is empty and its session was failing when the attempt began.
THEOREM SendingHasOwner == Spec => []SendingIsOwned
<1>1. IInv => SendingIsOwned
  <2> SUFFICES ASSUME IInv, NEW i \in Group, xfer[i].state = "sending"
               PROVE  \/ \E t \in Try : stream[i][t].sess = xfer[i].sess
                                        /\ stream[i][t].phase \in {"run", "judge", "set"}
                      \/ end["a"][xfer[i].sess] = "up"
                         /\ \E n \in DOMAIN queue[xfer[i].sess] : queue[xfer[i].sess][n] = End(i)
                      \/ i \in hit[xfer[i].sess]
                      \/ Chunks = 0 /\ end["a"][xfer[i].sess] \in {"failing", "over"}
    BY DEF SendingIsOwned
  <2>1. xfer[i].sess \in {0} \cup Session
    BY DEF IInv, TypeOK
  <2>2. Owner(i, xfer[i].sess)
    BY <2>1 DEF IInv, FileInv, Owned, HasOwner
  <2> QED
    BY <2>2 DEF Owner, Reports, ReportsLate, EndQueued
<1> QED
  BY <1>1, Invariant, PTL
=============================================================================
