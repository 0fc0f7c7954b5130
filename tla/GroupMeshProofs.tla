-------------------------- MODULE GroupMeshProofs ---------------------------
(***************************************************************************)
(* Proofs about GroupMesh for every set of devices, pairing, number of     *)
(* sessions and bound, as long as ended chats are not deleted (a fresh     *)
(* record reuses the numbers of the deleted one) and the save of a roster  *)
(* does not fail (a record that is not in groups.json is not repaired from *)
(* its log).                                                               *)
(***************************************************************************)
EXTENDS GroupMesh, TLAPS

-----------------------------------------------------------------------------
(* Sequences of frames *)

\* A lane of frames of one kind is a lane of any wider kind.
LEMMA SeqWiden ==
    ASSUME NEW S, NEW T, S \subseteq T, NEW q \in Seq(S)
    PROVE  q \in Seq(T)
  OBVIOUS

\* Two lanes of frames, one after the other, are a lane of frames.
LEMMA SeqConcat ==
    ASSUME NEW S, NEW p \in Seq(S), NEW q \in Seq(S)
    PROVE  p \o q \in Seq(S)
  OBVIOUS

\* The first frame of a lane and the rest of it.
LEMMA SeqTail ==
    ASSUME NEW S, NEW q \in Seq(S), q # << >>
    PROVE  Tail(q) \in Seq(S) /\ Head(q) \in S
  OBVIOUS

\* The two ends of a session are each other's far end.
LEMMA FarEnd ==
    ASSUME NEW n \in Node, NEW m \in Node, NEW l \in LinksOf(n, m)
    PROVE  l \in Link /\ n # m /\ Far(n, l) = m /\ Far(m, l) = n
  BY DEF LinksOf, Link, Far

\* The far end of an end of a session is the other end.
LEMMA EndFar ==
    ASSUME NEW l \in Link, NEW n \in {l[1], l[2]}
    PROVE  /\ n \in Node /\ Far(n, l) \in Node /\ Far(n, l) # n
           /\ Far(Far(n, l), l) = n
  BY DEF Link, Far

\* What Sends appends is the out of the peer whose v2_tx the lane is.
LEMMA SendsLane ==
    ASSUME NEW n, NEW h, NEW c, NEW out, NEW l \in Link, NEW m \in Node, NEW S,
           c[l][m] \in Seq(S), l \in LinksOf(n, m) => out[m] \in Seq(S)
    PROVE  Sends(n, h, c, out)[l][m] \in Seq(S)
  BY SeqConcat DEF Sends, IsV2Tx

\* Sends changes what is in the lanes, not which lanes there are.
LEMMA SendsShape ==
    ASSUME NEW n, NEW h, NEW c, NEW out
    PROVE  /\ DOMAIN Sends(n, h, c, out) = Link
           /\ \A l \in Link : DOMAIN (Sends(n, h, c, out)[l]) = Node
           /\ Sends(n, h, c, out) = [l \in Link |-> [m \in Node |-> Sends(n, h, c, out)[l][m]]]
  BY DEF Sends

\* The highest number in a log without holes is their number.
LEMMA LogMaxCount ==
    ASSUME NEW lg \in [Seqs -> 0..MaxMsg], NEW k \in 0..MaxMsg,
           \A s \in Seqs : lg[s] # 0 <=> s <= k
    PROVE  LogMax(lg) = k
<1>. USE MaxMsgAssumption DEF Seqs
<1> DEFINE Top(j) == (j > 0 => lg[j] # 0) /\ \A s \in Seqs : s > j => lg[s] = 0
<1>1. Top(k)
  OBVIOUS
<1>2. \A j \in 0..MaxMsg : Top(j) => j = k
  OBVIOUS
<1>3. QED
  BY <1>1, <1>2 DEF LogMax
-----------------------------------------------------------------------------
(* Frames *)

LinkRec == [epoch : Nat, pushed : Nat]

\* A frame stays sound when its writer writes and stores more.
LEMMA SoundGrows ==
    ASSUME NEW lg \in [Seqs -> 0..MaxMsg], NEW lg2 \in [Seqs -> 0..MaxMsg],
           NEW h \in Nat, NEW h2 \in Nat, h <= h2,
           \A s \in Seqs : lg[s] # 0 => lg2[s] = lg[s]
    PROVE  SoundFrames(lg, h) \subseteq SoundFrames(lg2, h2)
  BY MaxMsgAssumption DEF SoundFrames, Frame, Seqs

\* A roster can be sent whatever was written or stored.
LEMMA SoundState ==
    ASSUME NEW lg, NEW h, NEW s \in GroupState
    PROVE  StateF(s) \in SoundFrames(lg, h)
  BY DEF SoundFrames, Frame, StateF

\* sync_frame is sound when it reports no more than is held.
LEMMA SoundSync ==
    ASSUME NEW lg, NEW h \in Nat, NEW r \in GroupRec, NEW m \in Node, r.have[m] <= h
    PROVE  SyncF(r, m) \in SoundFrames(lg, h)
  BY DEF SoundFrames, Frame, SyncF, GroupRec, GroupState

\* So are a leave, a gone and an acknowledgement of what is held.
LEMMA SoundOther ==
    ASSUME NEW lg, NEW h \in Nat, NEW k \in Nat, k <= h
    PROVE  /\ LeaveF \in SoundFrames(lg, h)
           /\ GoneF \in SoundFrames(lg, h)
           /\ AckF(k) \in SoundFrames(lg, h)
  BY DEF SoundFrames, Frame, LeaveF, GoneF, AckF

\* pump sends logged messages only, and keeps the link record well-formed.
LEMMA SoundPump ==
    ASSUME NEW lg \in [Seqs -> 0..MaxMsg], NEW h \in Nat, NEW r \in GroupRec,
           NEW lk \in LinkRec, NEW gn, NEW m \in Node,
           1 <= r.next_seq, r.next_seq <= MaxMsg + 1,
           \A s \in Seqs : lg[s] # 0 <=> s < r.next_seq
    PROVE  PumpFrames(r, lk, gn, m, lg) \in Seq(SoundFrames(lg, h))
<1>. USE MaxMsgAssumption, MeshAssumption
<1> DEFINE first == PumpFirst(r, lk, m)
           upto == PumpLast(r, m)
<1>1. /\ first \in Nat /\ first >= 1
      /\ upto \in Int /\ upto <= r.next_seq - 1
      /\ r.next_seq \in Nat
  BY DEF PumpFirst, PumpLast, MaxOf, MinOf, GroupRec, LinkRec
<1> HIDE DEF first, upto
<1>2. << >> \in Seq(SoundFrames(lg, h))
  OBVIOUS
<1>3. ASSUME first <= upto
      PROVE  [i \in 1..(upto - first + 1) |-> MsgF(first + i - 1, lg[first + i - 1])]
                \in Seq(SoundFrames(lg, h))
  <2> DEFINE len == upto - first + 1
             frame(i) == MsgF(first + i - 1, lg[first + i - 1])
  <2>1. len \in Nat
    BY <1>1, <1>3
  <2>2. ASSUME NEW i \in 1..len
        PROVE  frame(i) \in SoundFrames(lg, h)
    <3> DEFINE s == first + i - 1
    <3>1. s \in Seqs /\ s < r.next_seq
      BY <1>1, <2>1, <2>2 DEF Seqs
    <3>2. lg[s] \in 1..MaxMsg
      BY <3>1 DEF Seqs
    <3> HIDE DEF s
    <3>3. MsgF(s, lg[s]) \in SoundFrames(lg, h)
      BY <3>1, <3>2 DEF SoundFrames, Frame, MsgF
    <3>4. QED
      BY <3>3 DEF s
  <2> HIDE DEF len, frame
  <2>3. [i \in 1..len |-> frame(i)] \in Seq(SoundFrames(lg, h))
    BY <2>1, <2>2
  <2>4. QED
    BY <2>3 DEF len, frame
<1>4. QED
  BY <1>2, <1>3 DEF PumpFrames, first, upto

\* pump keeps the link record (GroupLink) well-formed.
LEMMA PumpLinkType ==
    ASSUME NEW n, NEW h, NEW r \in GroupRec, NEW lk \in LinkRec, NEW gn, NEW m \in Node,
           1 <= r.next_seq
    PROVE  PumpLink(n, h, r, lk, gn, m) \in LinkRec
  BY MeshAssumption DEF PumpLink, PumpFirst, PumpLast, MaxOf, MinOf, LinkRec, GroupRec
-----------------------------------------------------------------------------
(* Lanes *)

\* The lanes c are sound for own logs lg and counters hv of their writers.
LanesOK(c, lg, hv) ==
    /\ c \in [Link -> [Node -> Seq(Frame)]]
    /\ \A l \in Link, n \in Node : c[l][n] \in Seq(SoundFrames(lg[Far(n, l)], hv[Far(n, l)][n]))

OwnLogs == [x \in Node |-> log[x][x]]

\* The far end of a session is a device.
LEMMA FarType ==
    ASSUME NEW n \in Node, NEW l \in Link
    PROVE  Far(n, l) \in Node
  BY DEF Far, Link

\* LanesSound, with the writers' logs and counters as parameters.
LEMMA LanesSoundOK ==
    ASSUME chan \in [Link -> [Node -> Seq(Frame)]]
    PROVE  LanesSound <=> LanesOK(chan, OwnLogs, Stored)
  BY FarType DEF LanesSound, LanesOK, OwnLogs, Stored

\* Lanes stay sound when devices write and store more.
LEMMA LanesGrow ==
    ASSUME NEW c,
           NEW lg \in [Node -> [Seqs -> 0..MaxMsg]], NEW lg2 \in [Node -> [Seqs -> 0..MaxMsg]],
           NEW hv \in [Node -> [Node -> Nat]], NEW hv2 \in [Node -> [Node -> Nat]],
           LanesOK(c, lg, hv),
           \A x \in Node : \A s \in Seqs : lg[x][s] # 0 => lg2[x][s] = lg[x][s],
           \A x, y \in Node : hv[x][y] <= hv2[x][y]
    PROVE  LanesOK(c, lg2, hv2)
<1> SUFFICES ASSUME NEW l \in Link, NEW n \in Node
             PROVE  c[l][n] \in Seq(SoundFrames(lg2[Far(n, l)], hv2[Far(n, l)][n]))
  BY DEF LanesOK
<1> DEFINE m == Far(n, l)
<1>1. m \in Node
  BY FarType
<1> HIDE DEF m
<1>2. SoundFrames(lg[m], hv[m][n]) \subseteq SoundFrames(lg2[m], hv2[m][n])
  <2>1. lg[m] \in [Seqs -> 0..MaxMsg] /\ lg2[m] \in [Seqs -> 0..MaxMsg]
    BY <1>1
  <2>2. hv[m][n] \in Nat /\ hv2[m][n] \in Nat /\ hv[m][n] <= hv2[m][n]
    BY <1>1
  <2>3. \A s \in Seqs : lg[m][s] # 0 => lg2[m][s] = lg[m][s]
    BY <1>1
  <2>4. QED
    BY <2>1, <2>2, <2>3, SoundGrows, Zenon
<1>3. c[l][n] \in Seq(SoundFrames(lg[m], hv[m][n]))
  BY DEF LanesOK, m
<1>4. QED
  BY <1>2, <1>3, SeqWiden DEF m

\* A frame read from a sound lane is sound, and so is the rest.
LEMMA LanesTaken ==
    ASSUME NEW lg, NEW hv, LanesOK(chan, lg, hv),
           NEW l \in Link, NEW n \in Node, chan[l][n] # << >>
    PROVE  /\ LanesOK(Taken(n, l), lg, hv)
           /\ Head(chan[l][n]) \in SoundFrames(lg[Far(n, l)], hv[Far(n, l)][n])
<1> DEFINE S(m, k) == SoundFrames(lg[Far(m, k)], hv[Far(m, k)][m])
<1>1. chan[l][n] \in Seq(S(n, l)) /\ chan[l][n] \in Seq(Frame)
  BY DEF LanesOK
<1> HIDE DEF S
<1>2. Tail(chan[l][n]) \in Seq(S(n, l)) /\ Head(chan[l][n]) \in S(n, l)
  BY <1>1, SeqTail
<1>3. Tail(chan[l][n]) \in Seq(Frame)
  BY <1>1, SeqTail
<1>4. \A k \in Link, m \in Node : Taken(n, l)[k][m] = IF k = l /\ m = n THEN Tail(chan[l][n]) ELSE chan[k][m]
  BY DEF Taken, LanesOK
<1>5. Taken(n, l) \in [Link -> [Node -> Seq(Frame)]]
  BY <1>3 DEF Taken, LanesOK
<1>6. \A k \in Link, m \in Node : chan[k][m] \in Seq(S(m, k))
  BY DEF LanesOK, S
<1>7. \A k \in Link, m \in Node : Taken(n, l)[k][m] \in Seq(S(m, k))
  BY <1>2, <1>4, <1>6
<1>8. QED
  BY <1>2, <1>5, <1>7 DEF LanesOK, S

\* A sound frame is a frame.
LEMMA SoundSubset ==
    ASSUME NEW lg, NEW h
    PROVE  SoundFrames(lg, h) \subseteq Frame
  BY DEF SoundFrames

\* n writes to its peers what is sound for its own log and counters.
LEMMA LanesSends ==
    ASSUME NEW lg, NEW hv, NEW n \in Node, NEW h, NEW c, NEW out, LanesOK(c, lg, hv),
           \A m \in Node : m # n => out[m] \in Seq(SoundFrames(lg[n], hv[n][m]))
    PROVE  LanesOK(Sends(n, h, c, out), lg, hv)
<1> DEFINE S(m, k) == SoundFrames(lg[Far(m, k)], hv[Far(m, k)][m])
           d == Sends(n, h, c, out)
<1>1. ASSUME NEW l \in Link, NEW m \in Node
      PROVE  d[l][m] \in Seq(S(m, l))
  <2>1. c[l][m] \in Seq(S(m, l))
    BY DEF LanesOK
  <2>2. ASSUME l \in LinksOf(n, m) PROVE out[m] \in Seq(S(m, l))
    <3>1. Far(m, l) = n /\ m # n
      BY <2>2, FarEnd
    <3>2. QED
      BY <3>1
  <2> HIDE DEF S
  <2>3. QED
    BY <2>1, <2>2, SendsLane
<1>2. ASSUME NEW l \in Link, NEW m \in Node
      PROVE  d[l][m] \in Seq(Frame)
  <2>1. S(m, l) \subseteq Frame
    BY SoundSubset
  <2> HIDE DEF S, d
  <2>2. QED
    BY <1>1, <2>1, SeqWiden
<1>3. d = [l \in Link |-> [m \in Node |-> d[l][m]]]
  BY SendsShape
<1> HIDE DEF d
<1>4. d \in [Link -> [Node -> Seq(Frame)]]
  BY <1>2, <1>3
<1>5. QED
  BY <1>1, <1>4 DEF LanesOK, d

\* n answers on session l with what is sound for its own log and counters.
LEMMA LanesReply ==
    ASSUME NEW lg, NEW hv, NEW l \in Link, NEW n \in {l[1], l[2]}, NEW c, LanesOK(c, lg, hv),
           NEW fs \in Seq(SoundFrames(lg[n], hv[n][Far(n, l)]))
    PROVE  LanesOK(Reply(n, l, c, fs), lg, hv)
<1> DEFINE S(m, k) == SoundFrames(lg[Far(m, k)], hv[Far(m, k)][m])
           m0 == Far(n, l)
           d == [c EXCEPT ![l][m0] = @ \o fs]
<1>1. m0 \in Node /\ Far(m0, l) = n
  BY EndFar
<1>2. fs \in Seq(S(m0, l)) /\ c[l][m0] \in Seq(S(m0, l))
  BY <1>1 DEF LanesOK
<1>3. S(m0, l) \subseteq Frame
  BY SoundSubset
<1>4. \A k \in Link, m \in Node : c[k][m] \in Seq(S(m, k))
  BY DEF LanesOK
<1> HIDE DEF S, m0
<1>5. c[l][m0] \o fs \in Seq(S(m0, l))
  BY <1>2, SeqConcat
<1>6. c[l][m0] \o fs \in Seq(Frame)
  BY <1>3, <1>5, SeqWiden
<1>7. c \in [Link -> [Node -> Seq(Frame)]]
  BY DEF LanesOK
<1>8. d \in [Link -> [Node -> Seq(Frame)]]
  BY <1>1, <1>6, <1>7
<1>9. \A k \in Link, m \in Node : d[k][m] = IF k = l /\ m = m0 THEN c[l][m0] \o fs ELSE c[k][m]
  BY <1>1, <1>7
<1>10. \A k \in Link, m \in Node : d[k][m] \in Seq(S(m, k))
  BY <1>4, <1>5, <1>9
<1>11. LanesOK(d, lg, hv)
  BY <1>8, <1>10 DEF LanesOK, S
<1>12. QED
  BY <1>11 DEF Reply, m0
-----------------------------------------------------------------------------
(* Steps that leave the logs and the counters alone *)

\* What the theorems assume of the environment.
Undisturbed == "delete" \notin Ops /\ "roster" \notin SaveFaults

Kept(r, q) ==
    q.next_seq = r.next_seq /\ q.have = r.have /\ q.sent_cursor = r.sent_cursor

Quiet ==
    /\ log' = log
    /\ \A x \in Node :
          /\ Kept(rec[x], rec'[x])
          /\ rec[x].known => rec'[x].known
          /\ disk'[x].known = rec'[x].known
          /\ Kept(rec'[x], disk'[x]) \/ Kept(disk[x], disk'[x])
          /\ ~rec'[x].hidden /\ ~disk'[x].hidden

\* A quiet step keeps the invariant if the frames it writes are sound.
LEMMA QuietStep ==
    ASSUME IInv, Quiet, rec' \in [Node -> GroupRec], disk' \in [Node -> GroupRec],
           LanesOK(chan', OwnLogs, Stored)
    PROVE  /\ LogsCounted' /\ CountersBehind' /\ DiskBehind' /\ NothingUnknown'
           /\ NoStub' /\ LanesSound'
           /\ chan' \in [Link -> [Node -> Seq(Frame)]]
<1>. USE DEF IInv
<1>1. LogsCounted'
  BY DEF LogsCounted, Quiet, Kept
<1>2. CountersBehind'
  BY DEF CountersBehind, Quiet, Kept
<1>3. DiskBehind'
  <2> SUFFICES ASSUME NEW n \in Node, NEW x \in Node
               PROVE  /\ disk'[n].known = rec'[n].known
                      /\ 1 <= disk'[n].next_seq /\ disk'[n].next_seq <= rec'[n].next_seq
                      /\ disk'[n].have[x] <= rec'[n].have[x]
                      /\ disk'[n].sent_cursor[x] <= rec'[n].sent_cursor[x]
    BY DEF DiskBehind
  <2>1. /\ disk'[n].known = rec'[n].known
        /\ rec'[n].next_seq \in Nat /\ rec'[n].have[x] \in Nat /\ rec'[n].sent_cursor[x] \in Nat
    BY DEF Quiet, GroupRec
  <2>2. CASE Kept(rec'[n], disk'[n])
    BY <2>1, <2>2 DEF Kept, Quiet, CountersBehind
  <2>3. CASE Kept(disk[n], disk'[n])
    BY <2>1, <2>3 DEF Kept, Quiet, DiskBehind
  <2>4. QED
    BY <2>2, <2>3 DEF Quiet
<1>4. NothingUnknown'
  BY DEF NothingUnknown, Quiet, Kept
<1>5. chan' \in [Link -> [Node -> Seq(Frame)]]
  BY DEF LanesOK
<1>6. OwnLogs' = OwnLogs /\ Stored' = Stored
  BY DEF OwnLogs, Stored, Quiet, Kept
<1>7. LanesSound'
  <2>1. \A l \in Link, n \in Node :
            chan'[l][n] \in Seq(SoundFrames(log'[Far(n, l)][Far(n, l)], rec'[Far(n, l)].have[n]))
    BY <1>6, FarType DEF LanesOK, OwnLogs, Stored, Quiet, Kept
  <2>2. QED
    BY <2>1 DEF LanesSound
<1>8. NoStub'
  BY DEF NoStub, Quiet
<1>9. QED
  BY <1>1, <1>2, <1>3, <1>4, <1>5, <1>7, <1>8

\* The counters of the records are numbers.
LEMMA CounterTypes ==
    ASSUME IInv, NEW n \in Node, NEW x \in Node
    PROVE  /\ rec[n].next_seq \in Nat /\ disk[n].next_seq \in Nat
           /\ rec[n].have[x] \in Nat /\ disk[n].have[x] \in Nat
           /\ rec[n].sent_cursor[x] \in Nat /\ disk[n].sent_cursor[x] \in Nat
<1>1. rec[n] \in GroupRec /\ disk[n] \in GroupRec
  BY DEF IInv, TypeOK
<1>2. QED
  BY <1>1 DEF GroupRec

\* In a state of the invariant the lanes are sound for the present logs.
LEMMA LanesNow ==
    ASSUME IInv
    PROVE  /\ LanesOK(chan, OwnLogs, Stored)
           /\ OwnLogs \in [Node -> [Seqs -> 0..MaxMsg]]
           /\ Stored \in [Node -> [Node -> Nat]]
<1>1. chan \in [Link -> [Node -> Seq(Frame)]] /\ LanesSound
  BY DEF IInv, TypeOK
<1>2. LanesOK(chan, OwnLogs, Stored)
  BY <1>1, LanesSoundOK
<1>3. OwnLogs \in [Node -> [Seqs -> 0..MaxMsg]]
  BY DEF IInv, TypeOK, OwnLogs
<1>4. \A n \in Node : rec[n].have \in [Node -> Nat]
  BY DEF IInv, TypeOK, GroupRec
<1>5. Stored \in [Node -> [Node -> Nat]]
  BY <1>4 DEF Stored
<1>6. QED
  BY <1>2, <1>3, <1>5

\* groups.json written, with the roster or with the counters.
LEMMA SavedRoster ==
    ASSUME Undisturbed, NEW n \in Node, NEW r, NEW ok \in BOOLEAN, SaveRoster(n, r, ok)
    PROVE  ok /\ disk' = [disk EXCEPT ![n] = r] /\ used' = used
  BY DEF Undisturbed, SaveRoster

\* GroupRec::new builds a record.
LEMMA NewRecType ==
    ASSUME NEW s \in GroupState
    PROVE  NewRec(s) \in GroupRec /\ NoState \in GroupState /\ NoRec \in GroupRec
  BY DEF NewRec, GroupRec, NoRec, NoState, GroupState

\* GroupRec::new has the counters of a device that had no record.
LEMMA NewRecKept ==
    ASSUME IInv, NEW n \in Node, ~rec[n].known, NEW s \in GroupState
    PROVE  Kept(rec[n], NewRec(s))
<1>1. rec[n] \in GroupRec
  BY DEF IInv, TypeOK
<1>2. rec[n].have = [m \in Node |-> 0] /\ rec[n].sent_cursor = [m \in Node |-> 0]
  BY <1>1 DEF IInv, NothingUnknown, GroupRec
<1>3. QED
  BY <1>2 DEF IInv, NothingUnknown, Kept, NewRec

\* The announcement of a roster is sound.
LEMMA AnnounceSound ==
    ASSUME NEW r \in GroupRec, NEW before, NEW lg, NEW h \in [Node -> Nat], NEW m \in Node,
           r.have = h
    PROVE  Announce(r, before)[m] \in Seq(SoundFrames(lg, h[m]))
<1>1. r.state \in GroupState /\ h[m] \in Nat
  BY DEF GroupRec
<1>2. StateF(r.state) \in SoundFrames(lg, h[m])
  BY <1>1, SoundState
<1>3. SyncF(r, m) \in SoundFrames(lg, h[m])
  BY <1>1, SoundSync
<1> DEFINE S == SoundFrames(lg, h[m])
           f == StateF(r.state)
           g == SyncF(r, m)
<1>4. f \in S /\ g \in S
  BY <1>2, <1>3
<1> HIDE DEF S, f, g
<1>5. << >> \in Seq(S) /\ <<f>> \in Seq(S) /\ <<f, g>> \in Seq(S)
  BY <1>4
<1>6. QED
  BY <1>5 DEF Announce, S, f, g
-----------------------------------------------------------------------------
(* The abstract feed *)

\* No counter moves, or the step is one of the abstract feed.
RecKept == \A x \in Node : Kept(rec[x], rec'[x])
FeedStep == RecKept \/ Feed!Next

\* A message written is said, when the author's counter grows by one.
LEMMA SayStep ==
    ASSUME IInv, NEW n \in Node, NEW r, rec' = [rec EXCEPT ![n] = r],
           rec[n].next_seq <= MaxMsg, r.next_seq = rec[n].next_seq + 1,
           r.have = rec[n].have, r.sent_cursor = rec[n].sent_cursor
    PROVE  FeedStep
<1>1. \A x \in Node : /\ rec[x].next_seq \in Nat
                      /\ rec'[x].have = rec[x].have /\ rec'[x].sent_cursor = rec[x].sent_cursor
                      /\ rec'[x].next_seq = IF x = n THEN rec[x].next_seq + 1 ELSE rec[x].next_seq
  BY CounterTypes DEF IInv, TypeOK
<1>2. Feed!Say(n)
  <2>1. Stored' = Stored /\ Acked' = Acked
    BY <1>1 DEF Stored, Acked
  <2>2. Said' = [Said EXCEPT ![n] = @ + 1] /\ Said[n] < MaxMsg
    <3>1. Said' = [x \in Node |-> IF x = n THEN (rec[x].next_seq - 1) + 1 ELSE rec[x].next_seq - 1]
      BY <1>1 DEF Said
    <3>2. Said' = [Said EXCEPT ![n] = @ + 1]
      BY <3>1 DEF Said
    <3>3. Said[n] < MaxMsg
      BY <1>1, MaxMsgAssumption DEF Said
    <3>4. QED
      BY <3>2, <3>3
  <2>3. QED
    BY <2>1, <2>2 DEF Feed!Say
<1>3. QED
  BY <1>2 DEF FeedStep, Feed!Next

\* A message taken over is stored, when it was written before.
LEMMA StoreStep ==
    ASSUME IInv, NEW n \in Node, NEW m \in Node, n # m, NEW r, rec' = [rec EXCEPT ![n] = r],
           r.next_seq = rec[n].next_seq, r.sent_cursor = rec[n].sent_cursor,
           r.have = [rec[n].have EXCEPT ![m] = rec[n].have[m] + 1],
           rec[n].have[m] + 1 < rec[m].next_seq
    PROVE  FeedStep
<1>1. \A x \in Node : /\ rec[x].next_seq \in Nat /\ rec[x].have \in [Node -> Nat]
                      /\ rec'[x].next_seq = rec[x].next_seq
                      /\ rec'[x].sent_cursor = rec[x].sent_cursor
                      /\ rec'[x].have = IF x = n THEN r.have ELSE rec[x].have
  <2>1. rec \in [Node -> GroupRec]
    BY DEF IInv, TypeOK
  <2>2. QED
    BY <2>1 DEF GroupRec
<1>2. Feed!Store(n, m)
  <2>1. Said' = Said /\ Acked' = Acked
    BY <1>1 DEF Said, Acked
  <2>2. Stored[n][m] < Said[m]
    BY <1>1 DEF Stored, Said
  <2>3. Stored' = [Stored EXCEPT ![n][m] = @ + 1]
    <3>1. Stored' = [x \in Node |-> IF x = n THEN [rec[n].have EXCEPT ![m] = rec[n].have[m] + 1]
                                    ELSE rec[x].have]
      BY <1>1 DEF Stored
    <3>2. Stored \in [Node -> [Node -> Nat]]
      BY <1>1 DEF Stored
    <3>3. QED
      BY <3>1, <3>2 DEF Stored
  <2>4. QED
    BY <2>1, <2>2, <2>3 DEF Feed!Store
<1>3. QED
  BY <1>2 DEF FeedStep, Feed!Next

\* A later acknowledgement is learned, if it is not ahead of the member.
LEMMA LearnStep ==
    ASSUME IInv, NEW n \in Node, NEW m \in Node, n # m, NEW r, rec' = [rec EXCEPT ![n] = r],
           r.next_seq = rec[n].next_seq, r.have = rec[n].have, NEW k \in Nat,
           r.sent_cursor = [rec[n].sent_cursor EXCEPT ![m] = k],
           rec[n].sent_cursor[m] <= k, k <= rec[m].have[n]
    PROVE  FeedStep
<1>1. \A x \in Node : /\ rec[x].sent_cursor \in [Node -> Nat]
                      /\ rec'[x].next_seq = rec[x].next_seq
                      /\ rec'[x].have = rec[x].have
                      /\ rec'[x].sent_cursor = IF x = n THEN r.sent_cursor ELSE rec[x].sent_cursor
  <2>1. rec \in [Node -> GroupRec]
    BY DEF IInv, TypeOK
  <2>2. QED
    BY <2>1 DEF GroupRec
<1>2. rec[m].have[n] \in Nat /\ rec[n].sent_cursor[m] \in Nat
  BY CounterTypes
<1>3. CASE k = rec[n].sent_cursor[m]
  <2>1. r.sent_cursor = rec[n].sent_cursor
    BY <1>1, <1>3
  <2>2. QED
    BY <1>1, <2>1 DEF FeedStep, RecKept, Kept
<1>4. CASE k # rec[n].sent_cursor[m]
  <2>1. k \in (rec[n].sent_cursor[m] + 1)..rec[m].have[n]
    BY <1>2, <1>4
  <2>2. Said' = Said /\ Stored' = Stored
    BY <1>1 DEF Said, Stored
  <2>3. Feed!Learn(n, m)
    <3>1. Acked' = [x \in Node |-> IF x = n THEN [rec[n].sent_cursor EXCEPT ![m] = k]
                                   ELSE rec[x].sent_cursor]
      BY <1>1 DEF Acked
    <3>2. Acked' = [Acked EXCEPT ![n][m] = k]
      BY <3>1 DEF Acked
    <3>3. k \in (Acked[n][m] + 1)..Stored[m][n]
      BY <2>1 DEF Acked, Stored
    <3>4. QED
      BY <2>2, <3>2, <3>3 DEF Feed!Learn
  <2>4. QED
    BY <2>3 DEF FeedStep, Feed!Next
<1>5. QED
  BY <1>3, <1>4

\* A restart forgets acknowledgements, and nothing else.
LEMMA ForgetStep ==
    ASSUME IInv, NEW n \in Node, NEW r \in GroupRec, rec' = [rec EXCEPT ![n] = r],
           r.next_seq = rec[n].next_seq, r.have = rec[n].have,
           \A x \in Node : r.sent_cursor[x] <= rec[n].sent_cursor[x]
    PROVE  FeedStep
<1>1. \A x \in Node : /\ rec'[x].next_seq = rec[x].next_seq
                      /\ rec'[x].have = rec[x].have
                      /\ rec'[x].sent_cursor = IF x = n THEN r.sent_cursor ELSE rec[x].sent_cursor
  BY DEF IInv, TypeOK
<1>2. r.sent_cursor \in [Node -> 0..MaxMsg]
  <2>1. r.sent_cursor \in [Node -> Nat]
    BY DEF GroupRec
  <2>2. ASSUME NEW x \in Node PROVE r.sent_cursor[x] <= MaxMsg
    <3>1. /\ r.sent_cursor[x] <= rec[n].sent_cursor[x]
          /\ rec[n].sent_cursor[x] <= rec[x].have[n] /\ rec[x].have[n] <= MaxMsg
      BY DEF IInv, CountersBehind
    <3>2. r.sent_cursor[x] \in Nat /\ rec[n].sent_cursor[x] \in Nat /\ rec[x].have[n] \in Nat
      BY <2>1, CounterTypes
    <3>3. QED
      BY <3>1, <3>2, MaxMsgAssumption
  <2>3. QED
    BY <2>1, <2>2, MaxMsgAssumption
<1>3. Said' = Said /\ Stored' = Stored /\ Acked' = [Acked EXCEPT ![n] = r.sent_cursor]
  <2>1. Said' = Said /\ Stored' = Stored
    BY <1>1 DEF Said, Stored
  <2>2. Acked' = [x \in Node |-> IF x = n THEN r.sent_cursor ELSE rec[x].sent_cursor]
    BY <1>1 DEF Acked
  <2>3. Acked' = [Acked EXCEPT ![n] = r.sent_cursor]
    BY <2>2 DEF Acked
  <2>4. QED
    BY <2>1, <2>3
<1>4. Feed!Forget(n)
  <2>1. \A y \in Node : r.sent_cursor[y] <= Acked[n][y]
    BY DEF Acked
  <2>2. QED
    BY <1>2, <1>3, <2>1 DEF Feed!Forget
<1>5. QED
  BY <1>4 DEF FeedStep, Feed!Next
-----------------------------------------------------------------------------
(* Steps of the sessions: records, disks and logs stay as they are. *)

\* The types of what a step of the sessions changes.
SessionTypes ==
    /\ links \in [Node -> [Node -> LinkRec]]
    /\ gone \in [Node -> SUBSET Node]
    /\ gap_sent \in [Node -> [Node -> Nat \cup {-1}]]
    /\ handle \in [Node -> [Link -> 0..(2 * Slots)]]
    /\ task \in [Link -> SUBSET Node]
    /\ \A l \in Link : task[l] \subseteq {l[1], l[2]}
    /\ phase \in [Link -> {"idle", "dialing", "ring", "up"}]
    /\ used \in [breaks : Nat, restarts : Nat, drops : Nat, faults : Nat]

\* A step that leaves records, disks and logs alone and writes sound frames
\* keeps the invariant.
LEMMA SessionStep ==
    ASSUME IInv, UNCHANGED <<rec, disk, log, born, signed>>, SessionTypes',
           LanesOK(chan', OwnLogs, Stored)
    PROVE  IInv' /\ FeedStep
<1>1. Quiet
  BY DEF Quiet, Kept, IInv, DiskBehind, NoStub
<1>2. rec' \in [Node -> GroupRec] /\ disk' \in [Node -> GroupRec]
  BY DEF IInv, TypeOK
<1>3. /\ LogsCounted' /\ CountersBehind' /\ DiskBehind' /\ NothingUnknown'
      /\ NoStub' /\ LanesSound'
      /\ chan' \in [Link -> [Node -> Seq(Frame)]]
  BY <1>1, <1>2, QuietStep
<1>4. TypeOK'
  BY <1>2, <1>3 DEF IInv, TypeOK, SessionTypes, LinkRec
<1>5. FeedStep
  BY DEF FeedStep, RecKept, Kept
<1>6. QED
  BY <1>3, <1>4, <1>5 DEF IInv

\* A frame over the rate limit of session_task is dropped.
LEMMA RateLimitStep ==
    ASSUME IInv, NEW n \in Node, NEW l \in Link, RateLimit(n, l)
    PROVE  IInv' /\ FeedStep
<1>1. SessionTypes'
  <2>1. used' \in [breaks : Nat, restarts : Nat, drops : Nat, faults : Nat]
    <3>1. used \in [breaks : Nat, restarts : Nat, drops : Nat, faults : Nat]
      BY DEF IInv, TypeOK
    <3>2. QED
      BY <3>1 DEF RateLimit
  <2>2. QED
    BY <2>1 DEF IInv, TypeOK, SessionTypes, LinkRec, RateLimit, runtime, sessions
<1>2. LanesOK(chan', OwnLogs, Stored)
  BY LanesNow, LanesTaken DEF RateLimit
<1>3. QED
  BY <1>1, <1>2, SessionStep DEF RateLimit

\* A frame on a session without a handle is ignored.
LEMMA RecvUnregisteredStep ==
    ASSUME IInv, NEW n \in Node, NEW l \in Link, RecvUnregistered(n, l)
    PROVE  IInv' /\ FeedStep
<1>1. SessionTypes'
  BY DEF IInv, TypeOK, SessionTypes, LinkRec, RecvUnregistered, runtime, sessions
<1>2. LanesOK(chan', OwnLogs, Stored)
  BY LanesNow, LanesTaken DEF RecvUnregistered
<1>3. QED
  BY <1>1, <1>2, SessionStep DEF RecvUnregistered

\* GroupGone resets the delivery state of its sender.
LEMMA RecvGoneStep ==
    ASSUME IInv, NEW n \in Node, NEW l \in Link, RecvGone(n, l)
    PROVE  IInv' /\ FeedStep
<1> DEFINE m == Far(n, l)
<1>0. m \in Node /\ NoLink \in LinkRec
  BY FarType DEF NoLink, LinkRec
<1>1. SessionTypes'
  <2> HIDE DEF m
  <2>1. /\ links \in [Node -> [Node -> LinkRec]] /\ gone \in [Node -> SUBSET Node]
        /\ links' = links \/ links' = [links EXCEPT ![n][m] = NoLink]
        /\ gone' = gone \/ gone' = [gone EXCEPT ![n] = @ \cup {m}]
    BY DEF IInv, TypeOK, LinkRec, RecvGone, m
  <2>2. links' \in [Node -> [Node -> LinkRec]] /\ gone' \in [Node -> SUBSET Node]
    BY <1>0, <2>1
  <2>3. QED
    BY <2>2 DEF IInv, TypeOK, SessionTypes, RecvGone, sessions
<1>2. LanesOK(chan', OwnLogs, Stored)
  BY LanesNow, LanesTaken DEF RecvGone, Arrived
<1>3. QED
  BY <1>1, <1>2, SessionStep DEF RecvGone

\* trigger_connect starts an attempt.
LEMMA DialStep ==
    ASSUME IInv, NEW p \in Node, NEW q \in Node, NEW i \in 1..Slots, Dial(p, q, i)
    PROVE  IInv' /\ FeedStep
<1>1. SessionTypes'
  <2>1. phase' = [phase EXCEPT ![<<p, q, i>>] = "dialing"]
    BY DEF Dial
  <2>2. phase' \in [Link -> {"idle", "dialing", "ring", "up"}]
    BY <2>1 DEF IInv, TypeOK
  <2>3. QED
    BY <2>2 DEF IInv, TypeOK, SessionTypes, LinkRec, Dial, runtime
<1>2. LanesOK(chan', OwnLogs, Stored)
  BY LanesNow DEF Dial
<1>3. QED
  BY <1>1, <1>2, SessionStep DEF Dial

\* register_live only ever adds an entry to Peer::live.
LEMMA RegisterType ==
    ASSUME NEW n \in Node, NEW l \in Link, Register(n, l),
           handle \in [Node -> [Link -> 0..(2 * Slots)]]
    PROVE  handle' \in [Node -> [Link -> 0..(2 * Slots)]]
  BY MeshAssumption DEF Register

\* The opening frames of a session are sound.
LEMMA OpenSound ==
    ASSUME IInv, NEW n \in Node, NEW m \in Node
    PROVE  OpenFrames(n, m) \in Seq(SoundFrames(OwnLogs[n], Stored[n][m]))
<1> DEFINE S == SoundFrames(OwnLogs[n], Stored[n][m])
           f == StateF(rec[n].state)
           g == SyncF(rec[n], m)
<1>1. /\ rec[n] \in GroupRec /\ rec[n].state \in GroupState /\ rec[n].have[m] \in Nat
      /\ Stored[n][m] = rec[n].have[m]
  <2>1. rec[n] \in GroupRec
    BY DEF IInv, TypeOK
  <2>2. rec[n].state \in GroupState /\ rec[n].have[m] \in Nat
    BY <2>1 DEF GroupRec
  <2>3. QED
    BY <2>1, <2>2 DEF Stored
<1>2. f \in S
  BY <1>1, SoundState
<1>3. g \in S
  <2>1. rec[n].have[m] <= Stored[n][m] /\ Stored[n][m] \in Nat
    BY <1>1
  <2>2. QED
    BY <1>1, <2>1, SoundSync
<1>4. LeaveF \in S
  <2>1. Stored[n][m] \in Nat /\ 0 \in Nat /\ 0 <= Stored[n][m]
    BY <1>1
  <2>2. QED
    BY <2>1, SoundOther
<1> HIDE DEF S, f, g
<1>5. << >> \in Seq(S) /\ <<g>> \in Seq(S) /\ <<f, g>> \in Seq(S) /\ <<LeaveF>> \in Seq(S)
  BY <1>2, <1>3, <1>4
<1>6. QED
  BY <1>5 DEF OpenFrames, S, f, g

\* connect_and_serve registers the session and writes its opening frames.
LEMMA ConnectStep ==
    ASSUME IInv, NEW l \in Link, Connect(l)
    PROVE  IInv' /\ FeedStep
<1> DEFINE p == l[1]
           q == l[2]
           c == [chan EXCEPT ![l][q] = OpenFrames(p, q)]
<1>1. p \in Node /\ q \in Node /\ p # q /\ Far(q, l) = p
  BY DEF Link, Far
<1>2. SessionTypes'
  <2>1. handle' \in [Node -> [Link -> 0..(2 * Slots)]]
    BY <1>1, RegisterType DEF Connect, IInv, TypeOK
  <2>2. /\ task' = [task EXCEPT ![l] = {p}] /\ phase' = [phase EXCEPT ![l] = "ring"]
        /\ UNCHANGED <<links, gone, gap_sent, used>>
    BY DEF Connect, runtime
  <2>3. SessionTypes
    BY DEF IInv, TypeOK, SessionTypes, LinkRec
  <2>4. /\ task' \in [Link -> SUBSET Node]
        /\ \A k \in Link : task'[k] \subseteq {k[1], k[2]}
    BY <1>1, <2>2, <2>3 DEF SessionTypes
  <2>5. phase' \in [Link -> {"idle", "dialing", "ring", "up"}]
    BY <2>2, <2>3 DEF SessionTypes
  <2>6. QED
    BY <2>1, <2>2, <2>3, <2>4, <2>5 DEF SessionTypes
<1>3. LanesOK(c, OwnLogs, Stored)
  <2> DEFINE S(n, k) == SoundFrames(OwnLogs[Far(n, k)], Stored[Far(n, k)][n])
  <2>1. LanesOK(chan, OwnLogs, Stored)
    BY LanesNow
  <2>2. /\ chan \in [Link -> [Node -> Seq(Frame)]]
        /\ \A k \in Link, n \in Node : chan[k][n] \in Seq(S(n, k))
    BY <2>1 DEF LanesOK
  <2>3. OpenFrames(p, q) \in Seq(S(q, l))
    BY <1>1, OpenSound
  <2>4. S(q, l) \subseteq Frame
    BY SoundSubset
  <2> HIDE DEF S, p, q
  <2>5. OpenFrames(p, q) \in Seq(Frame)
    BY <2>3, <2>4, SeqWiden
  <2>6. c \in [Link -> [Node -> Seq(Frame)]]
    BY <1>1, <2>2, <2>5
  <2>7. \A k \in Link, n \in Node : c[k][n] = IF k = l /\ n = q THEN OpenFrames(p, q) ELSE chan[k][n]
    BY <1>1, <2>2
  <2>8. \A k \in Link, n \in Node : c[k][n] \in Seq(S(n, k))
    BY <2>2, <2>3, <2>7
  <2>9. QED
    BY <2>6, <2>8 DEF LanesOK, S
<1>4. chan' = c \/ chan' = chan
  BY DEF Connect
<1>5. LanesOK(chan', OwnLogs, Stored)
  BY <1>3, <1>4, LanesNow
<1>6. QED
  BY <1>2, <1>5, SessionStep DEF Connect

\* Lanes of which some were emptied are still sound.
LEMMA LanesEmptied ==
    ASSUME NEW lg, NEW hv, LanesOK(chan, lg, hv), NEW c,
           c = [l \in Link |-> [m \in Node |-> c[l][m]]],
           \A l \in Link, m \in Node : c[l][m] \in {<< >>, chan[l][m]}
    PROVE  LanesOK(c, lg, hv)
<1> DEFINE S(n, k) == SoundFrames(lg[Far(n, k)], hv[Far(n, k)][n])
<1>1. \A l \in Link, m \in Node : chan[l][m] \in Seq(S(m, l)) /\ chan[l][m] \in Seq(Frame)
  BY DEF LanesOK
<1> HIDE DEF S
<1>2. \A l \in Link, m \in Node : c[l][m] \in Seq(S(m, l)) /\ c[l][m] \in Seq(Frame)
  <2> TAKE l \in Link, m \in Node
  <2> DEFINE T == S(m, l)
  <2>1. << >> \in Seq(T) /\ << >> \in Seq(Frame)
    OBVIOUS
  <2>2. chan[l][m] \in Seq(T) /\ chan[l][m] \in Seq(Frame) /\ c[l][m] \in {<< >>, chan[l][m]}
    BY <1>1
  <2> HIDE DEF T
  <2>3. c[l][m] \in Seq(T) /\ c[l][m] \in Seq(Frame)
    BY <2>1, <2>2
  <2>4. QED
    BY <2>3 DEF T
<1>3. c \in [Link -> [Node -> Seq(Frame)]]
  BY <1>2
<1>4. QED
  BY <1>2, <1>3 DEF LanesOK, S

\* handle_incoming registers the session and answers with its own.
LEMMA AcceptStep ==
    ASSUME IInv, NEW l \in Link, Accept(l)
    PROVE  IInv' /\ FeedStep
<1> DEFINE p == l[1]
           q == l[2]
<1>1. p \in Node /\ q \in Node /\ p # q /\ Far(q, l) = p /\ q \in {l[1], l[2]}
  BY DEF Link, Far
<1>2. SessionTypes'
  <2>1. handle' \in [Node -> [Link -> 0..(2 * Slots)]]
    BY <1>1, RegisterType DEF Accept, IInv, TypeOK
  <2>2. /\ task' \in [Link -> SUBSET Node]
        /\ \A k \in Link : task'[k] \subseteq {k[1], k[2]}
        /\ phase' \in [Link -> {"idle", "dialing", "ring", "up"}]
    <3>1. /\ task \in [Link -> SUBSET Node] /\ \A k \in Link : task[k] \subseteq {k[1], k[2]}
          /\ phase \in [Link -> {"idle", "dialing", "ring", "up"}]
      BY DEF IInv, TypeOK
    <3>2. task' = task \/ task' = [task EXCEPT ![l] = @ \cup {q}]
      BY DEF Accept
    <3>3. phase' \in [Link -> {"idle", "dialing", "ring", "up"}]
      BY <3>1 DEF Accept
    <3>4. QED
      BY <1>1, <3>1, <3>2, <3>3
  <2>3. QED
    BY <2>1, <2>2 DEF IInv, TypeOK, SessionTypes, LinkRec, Accept, runtime
<1>3. LanesOK(Reply(q, l, chan, OpenFrames(q, p)), OwnLogs, Stored)
  <2>1. OpenFrames(q, p) \in Seq(SoundFrames(OwnLogs[q], Stored[q][Far(q, l)]))
    BY <1>1, OpenSound
  <2> HIDE DEF p, q
  <2>2. QED
    BY <1>1, <2>1, LanesNow, LanesReply
<1>4. LanesOK([chan EXCEPT ![l][q] = << >>], OwnLogs, Stored)
  <2> DEFINE c == [chan EXCEPT ![l][q] = << >>]
  <2>1. chan \in [Link -> [Node -> Seq(Frame)]]
    BY DEF IInv, TypeOK
  <2>2. \A k \in Link, n \in Node : c[k][n] = IF k = l /\ n = q THEN << >> ELSE chan[k][n]
    BY <1>1, <2>1
  <2>3. c = [k \in Link |-> [m \in Node |-> c[k][m]]]
    BY <1>1, <2>1
  <2> HIDE DEF c
  <2>4. QED
    BY <2>2, <2>3, LanesNow, LanesEmptied DEF c
<1>5. LanesOK(chan', OwnLogs, Stored)
  BY <1>3, <1>4 DEF Accept
<1>6. QED
  BY <1>2, <1>5, SessionStep DEF Accept

\* EndTasks keeps the types and only empties lanes.
LEMMA EndTasksTypes ==
    ASSUME TypeOK, NEW n \in Node, NEW ls \in SUBSET Link, EndTasks(n, ls)
    PROVE  /\ task' \in [Link -> SUBSET Node]
           /\ \A l \in Link : task'[l] \subseteq {l[1], l[2]}
           /\ phase' \in [Link -> {"idle", "dialing", "ring", "up"}]
           /\ chan' = [l \in Link |-> [m \in Node |-> chan'[l][m]]]
           /\ \A l \in Link, m \in Node : chan'[l][m] \in {<< >>, chan[l][m]}
<1>1. /\ task \in [Link -> SUBSET Node] /\ (\A l \in Link : task[l] \subseteq {l[1], l[2]})
      /\ phase \in [Link -> {"idle", "dialing", "ring", "up"}]
  BY DEF TypeOK
<1>2. /\ task' \in [Link -> SUBSET Node]
      /\ \A l \in Link : task'[l] \subseteq {l[1], l[2]}
      /\ phase' \in [Link -> {"idle", "dialing", "ring", "up"}]
  BY <1>1 DEF EndTasks
<1>3. chan' = [l \in Link |-> [m \in Node |-> chan'[l][m]]]
  BY DEF EndTasks
<1>4. \A l \in Link, m \in Node : chan'[l][m] \in {<< >>, chan[l][m]}
  BY DEF EndTasks
<1>5. QED
  BY <1>2, <1>3, <1>4

\* Sessions that end leave the lanes sound.
LEMMA EndTasksFacts ==
    ASSUME IInv, NEW n \in Node, NEW ls \in SUBSET Link, EndTasks(n, ls)
    PROVE  /\ task' \in [Link -> SUBSET Node]
           /\ \A l \in Link : task'[l] \subseteq {l[1], l[2]}
           /\ phase' \in [Link -> {"idle", "dialing", "ring", "up"}]
           /\ LanesOK(chan', OwnLogs, Stored)
<1>1. TypeOK
  BY DEF IInv
<1>2. LanesOK(chan', OwnLogs, Stored)
  BY <1>1, EndTasksTypes, LanesNow, LanesEmptied
<1>3. QED
  BY <1>1, <1>2, EndTasksTypes

\* remove_live keeps the types of handles and delivery state.
LEMMA RemoveLiveFacts ==
    ASSUME TypeOK, NEW n \in Node, NEW l \in Link, RemoveLive(n, l)
    PROVE  /\ links' \in [Node -> [Node -> LinkRec]]
           /\ gap_sent' \in [Node -> [Node -> Nat \cup {-1}]]
           /\ handle' \in [Node -> [Link -> 0..(2 * Slots)]]
<1>0. Far(n, l) \in Node /\ NoLink \in LinkRec
  BY FarType DEF NoLink, LinkRec
<1>1. handle' \in [Node -> [Link -> 0..(2 * Slots)]]
  <2>1. handle \in [Node -> [Link -> 0..(2 * Slots)]]
    BY DEF TypeOK
  <2>2. QED
    BY <2>1, MeshAssumption DEF RemoveLive
<1>2. /\ links \in [Node -> [Node -> LinkRec]]
      /\ gap_sent \in [Node -> [Node -> Nat \cup {-1}]]
      /\ links' = links \/ links' = [links EXCEPT ![n][Far(n, l)] = NoLink]
      /\ gap_sent' = gap_sent \/ gap_sent' = [gap_sent EXCEPT ![n][Far(n, l)] = -1]
  BY DEF TypeOK, LinkRec, RemoveLive
<1>3. links' \in [Node -> [Node -> LinkRec]]
  BY <1>0, <1>2
<1>4. gap_sent' \in [Node -> [Node -> Nat \cup {-1}]]
  BY <1>0, <1>2
<1>5. QED
  BY <1>1, <1>3, <1>4

\* A session_task ends, by itself or because the far end is over.
LEMMA BreakStep ==
    ASSUME IInv, NEW n \in Node, NEW l \in Link, Break(n, l) \/ Notice(n, l)
    PROVE  IInv' /\ FeedStep
<1>1. EndTasks(n, {l}) /\ RemoveLive(n, l) /\ UNCHANGED <<rec, disk, log, gone, born, signed>>
  BY DEF Break, Notice
<1>2. used' \in [breaks : Nat, restarts : Nat, drops : Nat, faults : Nat]
  <2>1. used \in [breaks : Nat, restarts : Nat, drops : Nat, faults : Nat]
    BY DEF IInv, TypeOK
  <2>2. QED
    BY <2>1 DEF Break, Notice
<1>3. SessionTypes'
  BY <1>1, <1>2, EndTasksFacts, RemoveLiveFacts DEF SessionTypes, IInv, TypeOK
<1>4. LanesOK(chan', OwnLogs, Stored)
  BY <1>1, EndTasksFacts
<1>5. QED
  BY <1>1, <1>3, <1>4, SessionStep
-----------------------------------------------------------------------------
(* Steps that give one device a new roster, saved at once. *)

\* A device whose roster changes, and not its counters, keeps the invariant.
LEMMA RosterStep ==
    ASSUME IInv, NEW n \in Node, NEW r \in GroupRec,
           Kept(rec[n], r), r.known, ~r.hidden,
           rec' = [rec EXCEPT ![n] = r], disk' = [disk EXCEPT ![n] = r],
           log' = log, born' = born, signed' \in SUBSET GroupState,
           SessionTypes', LanesOK(chan', OwnLogs, Stored)
    PROVE  IInv' /\ FeedStep
<1>1. rec \in [Node -> GroupRec] /\ disk \in [Node -> GroupRec]
  BY DEF IInv, TypeOK
<1>2. rec' \in [Node -> GroupRec] /\ disk' \in [Node -> GroupRec]
  BY <1>1
<1>3. Quiet
  <2>1. ASSUME NEW x \in Node
        PROVE  /\ Kept(rec[x], rec'[x])
               /\ rec[x].known => rec'[x].known
               /\ disk'[x].known = rec'[x].known
               /\ Kept(rec'[x], disk'[x]) \/ Kept(disk[x], disk'[x])
               /\ ~rec'[x].hidden /\ ~disk'[x].hidden
    <3>1. CASE x = n
      BY <1>1, <3>1 DEF Kept
    <3>2. CASE x # n
      BY <1>1, <3>2 DEF Kept, IInv, DiskBehind, NoStub
    <3>3. QED
      BY <3>1, <3>2
  <2>2. QED
    BY <2>1 DEF Quiet
<1>4. /\ LogsCounted' /\ CountersBehind' /\ DiskBehind' /\ NothingUnknown'
      /\ NoStub' /\ LanesSound'
      /\ chan' \in [Link -> [Node -> Seq(Frame)]]
  BY <1>2, <1>3, QuietStep
<1>5. TypeOK'
  BY <1>2, <1>4 DEF IInv, TypeOK, SessionTypes, LinkRec
<1>6. FeedStep
  BY <1>3 DEF FeedStep, RecKept, Quiet
<1>7. QED
  BY <1>4, <1>5, <1>6 DEF IInv

\* group_create starts the creator's record and announces it.
LEMMA GroupCreateStep ==
    ASSUME IInv, Undisturbed, NEW ms \in SUBSET Node, GroupCreate(ms)
    PROVE  IInv' /\ FeedStep
<1> DEFINE s == [epoch |-> 1, closed |-> FALSE, members |-> {Creator} \cup ms]
           r == NewRec(s)
<1>. USE CreatorAssumption
<1>1. s \in GroupState /\ r \in GroupRec
  BY NewRecType DEF GroupState
<1>2. Kept(rec[Creator], r) /\ r.known /\ ~r.hidden
  <2>1. Kept(rec[Creator], r)
    BY <1>1, NewRecKept DEF GroupCreate
  <2>2. QED
    BY <2>1 DEF NewRec
<1>3. /\ rec' = [rec EXCEPT ![Creator] = r] /\ signed' = {s}
      /\ UNCHANGED <<log, born, runtime, sessions>>
      /\ \E ok \in BOOLEAN :
            /\ SaveRoster(Creator, r, ok)
            /\ chan' = IF ok THEN Sends(Creator, handle, chan, Announce(r, {})) ELSE chan
  BY DEF GroupCreate
<1> HIDE DEF s, r
<1>4. /\ disk' = [disk EXCEPT ![Creator] = r] /\ used' = used
      /\ chan' = Sends(Creator, handle, chan, Announce(r, {}))
  BY <1>3, SavedRoster
<1>5. \A m \in Node : Announce(r, {})[m] \in Seq(SoundFrames(OwnLogs[Creator], Stored[Creator][m]))
  <2>1. Stored[Creator] \in [Node -> Nat] /\ r.have = Stored[Creator]
    BY <1>2, LanesNow DEF Kept, Stored
  <2>2. QED
    BY <1>1, <2>1, AnnounceSound
<1>6. LanesOK(chan', OwnLogs, Stored)
  BY <1>4, <1>5, LanesNow, LanesSends
<1>7. SessionTypes'
  BY <1>3, <1>4 DEF IInv, TypeOK, SessionTypes, LinkRec, runtime, sessions
<1>8. QED
  BY <1>1, <1>2, <1>3, <1>4, <1>6, <1>7, RosterStep

\* edit_group_locked signs, saves and announces a new roster.
LEMMA EditGroupStep ==
    ASSUME IInv, Undisturbed, NEW closed \in BOOLEAN, NEW members \in SUBSET Node,
           NEW c, LanesOK(c, OwnLogs, Stored), EditGroup(closed, members, c)
    PROVE  IInv' /\ FeedStep
<1> DEFINE old == rec[Creator]
           s == NextState(old.state, closed, members)
           r == [old EXCEPT !.state = s, !.removed = closed]
<1>. USE CreatorAssumption
<1>0. old \in GroupRec /\ Active(old) /\ ~old.hidden
  BY DEF IInv, TypeOK, NoStub, EditGroup
<1>1. s \in GroupState
  BY <1>0 DEF GroupRec, GroupState, NextState
<1>2. /\ rec' = [rec EXCEPT ![Creator] = r] /\ signed' = signed \cup {s}
      /\ UNCHANGED <<log, born, gap_sent, sessions>>
      /\ \E ok \in BOOLEAN :
            /\ SaveRoster(Creator, r, ok)
            /\ ok => /\ gone' = [gone EXCEPT ![Creator] = {}]
                     /\ links' = IF closed
                                 THEN [links EXCEPT ![Creator] = [m \in Node |-> NoLink]]
                                 ELSE links
                     /\ chan' = Sends(Creator, handle, c, Announce(r, old.state.members))
  BY DEF EditGroup
<1> HIDE DEF s, old
<1>3. r \in GroupRec /\ Kept(old, r) /\ r.known /\ ~r.hidden
  BY <1>0, <1>1 DEF GroupRec, Kept, Active
<1> HIDE DEF r
<1>4. /\ disk' = [disk EXCEPT ![Creator] = r] /\ used' = used
      /\ gone' = [gone EXCEPT ![Creator] = {}]
      /\ links' = IF closed THEN [links EXCEPT ![Creator] = [m \in Node |-> NoLink]] ELSE links
      /\ chan' = Sends(Creator, handle, c, Announce(r, old.state.members))
  BY <1>2, SavedRoster
<1>5. \A m \in Node : Announce(r, old.state.members)[m]
                        \in Seq(SoundFrames(OwnLogs[Creator], Stored[Creator][m]))
  <2>1. Stored[Creator] \in [Node -> Nat] /\ r.have = Stored[Creator]
    BY <1>3, LanesNow DEF Kept, Stored, old
  <2>2. QED
    BY <1>3, <2>1, AnnounceSound
<1>6. LanesOK(chan', OwnLogs, Stored)
  BY <1>4, <1>5, LanesSends
<1>7. SessionTypes'
  <2>1. NoLink \in LinkRec
    BY DEF NoLink, LinkRec
  <2>2. links \in [Node -> [Node -> LinkRec]] /\ gone \in [Node -> SUBSET Node]
    BY DEF IInv, TypeOK, LinkRec
  <2>3. links' \in [Node -> [Node -> LinkRec]] /\ gone' \in [Node -> SUBSET Node]
    BY <1>4, <2>1, <2>2
  <2>4. QED
    BY <1>2, <1>4, <2>3 DEF IInv, TypeOK, SessionTypes, sessions
<1>8. signed' \in SUBSET GroupState
  BY <1>1, <1>2 DEF IInv, TypeOK
<1>9. Kept(rec[Creator], r) /\ log' = log /\ born' = born
  BY <1>2, <1>3 DEF old
<1>10. QED
  BY <1>2, <1>3, <1>4, <1>6, <1>7, <1>8, <1>9, RosterStep

\* group_add, group_remove, group_rename, group_disband.
LEMMA UserEditStep ==
    ASSUME IInv, Undisturbed,
           \/ \E m \in Node : GroupAdd(m) \/ GroupRemove(m)
           \/ GroupRename \/ GroupDisband
    PROVE  IInv' /\ FeedStep
<1>1. LanesOK(chan, OwnLogs, Stored)
  BY LanesNow
<1>2. rec[Creator].state.members \in SUBSET Node
  BY CreatorAssumption DEF IInv, TypeOK, GroupRec, GroupState
<1>3. \E closed \in BOOLEAN, members \in SUBSET Node : EditGroup(closed, members, chan)
  <2>1. CASE \E m \in Node : GroupAdd(m)
    BY <1>2, <2>1 DEF GroupAdd
  <2>2. CASE \E m \in Node : GroupRemove(m)
    BY <1>2, <2>2 DEF GroupRemove
  <2>3. CASE GroupRename
    BY <1>2, <2>3 DEF GroupRename
  <2>4. CASE GroupDisband
    BY CreatorAssumption, <2>4 DEF GroupDisband
  <2>5. QED
    BY <2>1, <2>2, <2>3, <2>4
<1>4. QED
  BY <1>1, <1>3, EditGroupStep

\* on_group_leave edits the roster or ignores the request.
LEMMA RecvLeaveStep ==
    ASSUME IInv, Undisturbed, NEW n \in Node, NEW l \in Link, RecvLeave(n, l)
    PROVE  IInv' /\ FeedStep
<1> DEFINE m == Far(n, l)
<1>1. LanesOK(Taken(n, l), OwnLogs, Stored)
  BY LanesNow, LanesTaken DEF RecvLeave, Arrived
<1>2. CASE n = Creator /\ EditGroup(FALSE, rec[n].state.members \ {m}, Taken(n, l))
  <2>1. rec[n].state.members \ {m} \in SUBSET Node
    BY DEF IInv, TypeOK, GroupRec, GroupState
  <2>2. QED
    BY <1>1, <1>2, <2>1, EditGroupStep
<1>3. CASE /\ chan' = Taken(n, l)
           /\ UNCHANGED <<rec, disk, log, runtime, sessions, born, signed, used>>
  <2>1. SessionTypes'
    BY <1>3 DEF IInv, TypeOK, SessionTypes, LinkRec, runtime, sessions
  <2>2. QED
    BY <1>1, <1>3, <2>1, SessionStep
<1>4. QED
  BY <1>2, <1>3 DEF RecvLeave

\* sync_introduced only ever clears entries of Peer::live.
LEMMA GcType ==
    ASSUME TypeOK, NEW n \in Node, NEW r
    PROVE  GcIntroduced(n, r) \in [Node -> [Link -> 0..(2 * Slots)]]
<1>1. handle \in [Node -> [Link -> 0..(2 * Slots)]] /\ 0 \in 0..(2 * Slots)
  BY MeshAssumption DEF TypeOK
<1>2. QED
  BY <1>1 DEF GcIntroduced

\* group_leave ends the chat here and asks the creator.
LEMMA GroupLeaveStep ==
    ASSUME IInv, Undisturbed, NEW n \in Node, GroupLeave(n)
    PROVE  IInv' /\ FeedStep
<1> DEFINE r == [rec[n] EXCEPT !.removed = TRUE, !.pending_leave = TRUE]
           h == GcIntroduced(n, r)
           out == Only(Creator, <<LeaveF>>)
<1>0. rec[n] \in GroupRec /\ rec[n].known /\ ~rec[n].hidden
  BY DEF IInv, TypeOK, NoStub, GroupLeave
<1>1. r \in GroupRec /\ Kept(rec[n], r) /\ r.known /\ ~r.hidden
  BY <1>0 DEF GroupRec, Kept
<1>2. /\ rec' = [rec EXCEPT ![n] = r] /\ handle' = h
      /\ UNCHANGED <<log, born, signed, gone, gap_sent, task, phase>>
      /\ \E ok \in BOOLEAN :
            /\ SaveRoster(n, r, ok)
            /\ ok => /\ links' = [links EXCEPT ![n] = [m \in Node |-> NoLink]]
                     /\ chan' = Sends(n, h, chan, out)
  BY DEF GroupLeave
<1>3. h \in [Node -> [Link -> 0..(2 * Slots)]]
  BY GcType DEF IInv
<1> HIDE DEF r, h
<1>4. /\ disk' = [disk EXCEPT ![n] = r] /\ used' = used
      /\ links' = [links EXCEPT ![n] = [m \in Node |-> NoLink]]
      /\ chan' = Sends(n, h, chan, out)
  BY <1>2, SavedRoster
<1>5. \A m \in Node : out[m] \in Seq(SoundFrames(OwnLogs[n], Stored[n][m]))
  <2> TAKE m \in Node
  <2>1. Stored[n][m] \in Nat /\ 0 <= Stored[n][m] /\ 0 \in Nat
    BY LanesNow
  <2> DEFINE S == SoundFrames(OwnLogs[n], Stored[n][m])
  <2>2. LeaveF \in S
    BY <2>1, SoundOther
  <2> HIDE DEF S
  <2>3. <<LeaveF>> \in Seq(S) /\ << >> \in Seq(S)
    BY <2>2
  <2>4. QED
    BY <2>3 DEF S, Only
<1> HIDE DEF out
<1>6. LanesOK(chan', OwnLogs, Stored)
  BY <1>4, <1>5, LanesNow, LanesSends
<1>7. SessionTypes'
  <2>1. NoLink \in LinkRec
    BY DEF NoLink, LinkRec
  <2>2. links \in [Node -> [Node -> LinkRec]]
    BY DEF IInv, TypeOK, LinkRec
  <2>3. links' \in [Node -> [Node -> LinkRec]]
    BY <1>4, <2>1, <2>2
  <2>4. QED
    BY <1>2, <1>3, <1>4, <2>3 DEF IInv, TypeOK, SessionTypes
<1>8. signed' \in SUBSET GroupState /\ log' = log /\ born' = born
  BY <1>2 DEF IInv, TypeOK
<1>9. QED
  BY <1>1, <1>2, <1>4, <1>6, <1>7, <1>8, RosterStep

\* What a device restates and pumps under a new roster is sound.
LEMMA InForceStep ==
    ASSUME IInv, NEW n \in Node, NEW r \in GroupRec, Kept(rec[n], r), NEW h,
           NEW c, LanesOK(c, OwnLogs, Stored), RosterInForce(n, h, r, c)
    PROVE  /\ gone' \in [Node -> SUBSET Node]
           /\ links' \in [Node -> [Node -> LinkRec]]
           /\ LanesOK(chan', OwnLogs, Stored)
<1> DEFINE lks == [m \in Node |-> IF m \in r.state.members \ {n} THEN links[n][m] ELSE NoLink]
           out == [m \in Node |->
                     IF m \in r.state.members \ {n}
                     THEN <<SyncF(r, m)>> \o PumpFrames(r, lks[m], {}, m, log[n][n])
                     ELSE << >>]
<1>1. links \in [Node -> [Node -> LinkRec]] /\ gone \in [Node -> SUBSET Node]
      /\ rec[n] \in GroupRec /\ log[n][n] \in [Seqs -> 0..MaxMsg] /\ NoLink \in LinkRec
  BY DEF IInv, TypeOK, NoLink, LinkRec
<1>2. lks \in [Node -> LinkRec]
  BY <1>1
<1>3. /\ gone' = [gone EXCEPT ![n] = {}]
      /\ \/ /\ links' = [links EXCEPT ![n] = [m \in Node |-> NoLink]]
            /\ chan' = c
         \/ /\ links' = [links EXCEPT ![n] = [m \in Node |-> PumpLink(n, h, r, lks[m], {}, m)]]
            /\ chan' = Sends(n, h, c, out)
  BY DEF RosterInForce
<1> HIDE DEF lks
<1>4. /\ r.next_seq = rec[n].next_seq /\ r.have = rec[n].have
      /\ 1 <= r.next_seq /\ r.next_seq <= MaxMsg + 1
      /\ \A s \in Seqs : log[n][n][s] # 0 <=> s < r.next_seq
  BY DEF Kept, IInv, CountersBehind, LogsCounted
<1>5. \A m \in Node : PumpLink(n, h, r, lks[m], {}, m) \in LinkRec
  BY <1>2, <1>4, PumpLinkType
<1>6. links' \in [Node -> [Node -> LinkRec]] /\ gone' \in [Node -> SUBSET Node]
  <2> DEFINE new == [m \in Node |-> PumpLink(n, h, r, lks[m], {}, m)]
             none == [m \in Node |-> NoLink]
  <2>1. new \in [Node -> LinkRec] /\ none \in [Node -> LinkRec]
    BY <1>1, <1>5
  <2>2. links' = [links EXCEPT ![n] = new] \/ links' = [links EXCEPT ![n] = none]
    BY <1>3
  <2> HIDE DEF new, none
  <2>3. links' \in [Node -> [Node -> LinkRec]]
    BY <1>1, <2>1, <2>2
  <2>4. gone' \in [Node -> SUBSET Node]
    BY <1>1, <1>3
  <2>5. QED
    BY <2>3, <2>4
<1>7. \A m \in Node : out[m] \in Seq(SoundFrames(OwnLogs[n], Stored[n][m]))
  <2> TAKE m \in Node
  <2> DEFINE S == SoundFrames(OwnLogs[n], Stored[n][m])
             f == SyncF(r, m)
             q == PumpFrames(r, lks[m], {}, m, log[n][n])
  <2>1. OwnLogs[n] = log[n][n] /\ Stored[n] = r.have /\ Stored[n][m] \in Nat /\ r.have[m] <= Stored[n][m]
    BY <1>4, LanesNow DEF OwnLogs, Stored
  <2>2. f \in S
    BY <2>1, SoundSync
  <2>3. q \in Seq(S)
    BY <1>1, <1>2, <1>4, <2>1, SoundPump
  <2> HIDE DEF S, f, q
  <2>4. <<f>> \in Seq(S) /\ << >> \in Seq(S)
    BY <2>2
  <2>5. <<f>> \o q \in Seq(S)
    BY <2>3, <2>4, SeqConcat
  <2>6. QED
    BY <2>4, <2>5 DEF S, f, q
<1> HIDE DEF out
<1>8. LanesOK(chan', OwnLogs, Stored)
  <2>1. LanesOK(Sends(n, h, c, out), OwnLogs, Stored)
    BY <1>7, LanesSends
  <2>2. chan' = c \/ chan' = Sends(n, h, c, out)
    BY <1>3
  <2>3. QED
    BY <2>1, <2>2
<1>9. QED
  BY <1>6, <1>8

\* A roster that is taken over leaves the counters alone.
LEMMA UpdatedKept ==
    ASSUME NEW r \in GroupRec, NEW s \in GroupState, NEW me
    PROVE  /\ Updated(r, s, me) \in GroupRec /\ Kept(r, Updated(r, s, me))
           /\ Updated(r, s, me).known = r.known /\ Updated(r, s, me).hidden = r.hidden
  BY DEF Updated, GroupRec, GroupState, Kept

\* apply_state_locked takes a roster over or ignores it.
LEMMA RecvStateStep ==
    ASSUME IInv, Undisturbed, NEW n \in Node, NEW l \in Link, RecvState(n, l)
    PROVE  IInv' /\ FeedStep
<1> DEFINE s == Head(chan[l][n]).state
           r == IF rec[n].known THEN Updated(rec[n], s, n) ELSE NewRec(s)
           c == Taken(n, l)
<1>1. /\ LanesOK(c, OwnLogs, Stored)
      /\ Head(chan[l][n]) \in SoundFrames(OwnLogs[Far(n, l)], Stored[Far(n, l)][n])
      /\ Head(chan[l][n]).type = "state"
  BY LanesNow, LanesTaken DEF RecvState, Arrived
<1>2. s \in GroupState
  BY <1>1 DEF SoundFrames, Frame
<1>3. rec[n] \in GroupRec /\ ~rec[n].hidden
  BY DEF IInv, TypeOK, NoStub
<1>4. r \in GroupRec /\ Kept(rec[n], r) /\ r.known /\ ~r.hidden
  <2>1. CASE rec[n].known
    BY <1>2, <1>3, <2>1, UpdatedKept
  <2>2. CASE ~rec[n].known
    <3>1. r = NewRec(s)
      BY <2>2
    <3>2. NewRec(s) \in GroupRec /\ Kept(rec[n], NewRec(s))
      BY <1>2, <2>2, NewRecType, NewRecKept
    <3>3. NewRec(s).known /\ ~NewRec(s).hidden
      BY DEF NewRec
    <3>4. QED
      BY <3>1, <3>2, <3>3
  <2>3. QED
    BY <2>1, <2>2
<1>5. /\ UNCHANGED <<task, phase, born, signed>>
      /\ \/ TakeOver(n, r, c)
         \/ chan' = c /\ UNCHANGED <<rec, disk, log, runtime, handle, used>>
  BY DEF RecvState
<1> HIDE DEF s, r, c
<1>6. CASE chan' = c /\ UNCHANGED <<rec, disk, log, runtime, handle, used>>
  <2>1. SessionTypes'
    BY <1>5, <1>6 DEF IInv, TypeOK, SessionTypes, LinkRec, runtime
  <2>2. QED
    BY <1>1, <1>5, <1>6, <2>1, SessionStep
<1>7. CASE TakeOver(n, r, c)
  <2>1. ~SaveRoster(n, r, FALSE) /\ ~StubDone(r)
    BY <1>4 DEF SaveRoster, Undisturbed, StubDone
  <2>2. /\ SaveRoster(n, r, TRUE) /\ rec' = [rec EXCEPT ![n] = r]
        /\ handle' = GcIntroduced(n, r)
        /\ RosterInForce(n, GcIntroduced(n, r), r, c)
        /\ UNCHANGED <<gap_sent, log>>
    BY <1>7, <2>1 DEF TakeOver
  <2>3. disk' = [disk EXCEPT ![n] = r] /\ used' = used
    BY <2>2, SavedRoster
  <2>4. /\ gone' \in [Node -> SUBSET Node]
        /\ links' \in [Node -> [Node -> LinkRec]]
        /\ LanesOK(chan', OwnLogs, Stored)
    BY <1>1, <1>4, <2>2, InForceStep
  <2>5. SessionTypes'
    BY <1>5, <2>2, <2>3, <2>4, GcType DEF IInv, TypeOK, SessionTypes
  <2>6. signed' \in SUBSET GroupState /\ log' = log /\ born' = born
    BY <1>5, <2>2 DEF IInv, TypeOK
  <2>7. QED
    BY <1>4, <2>2, <2>3, <2>4, <2>5, <2>6, RosterStep
<1>8. QED
  BY <1>5, <1>6, <1>7
-----------------------------------------------------------------------------
(* Acknowledgements *)

\* Device n may believe any acknowledgement that is not ahead of its members,
\* and forget one, as long as groups.json is not ahead of its memory.
LEMMA CursorStep ==
    ASSUME IInv, NEW n \in Node, NEW r \in GroupRec,
           r.known = rec[n].known, ~r.hidden,
           r.next_seq = rec[n].next_seq, r.have = rec[n].have,
           \A x \in Node : r.sent_cursor[x] <= rec[x].have[n],
           ~r.known => \A x \in Node : r.sent_cursor[x] = 0,
           rec' = [rec EXCEPT ![n] = r],
           \/ disk' = [disk EXCEPT ![n] = r]
           \/ disk' = disk /\ \A x \in Node : disk[n].sent_cursor[x] <= r.sent_cursor[x],
           UNCHANGED <<log, born, signed>>, SessionTypes', LanesOK(chan', OwnLogs, Stored)
    PROVE  IInv'
<1>1. rec \in [Node -> GroupRec] /\ disk \in [Node -> GroupRec]
  BY DEF IInv, TypeOK
<1>2. rec' \in [Node -> GroupRec] /\ disk' \in [Node -> GroupRec]
  BY <1>1
<1>3. \A x \in Node : /\ rec'[x].next_seq = rec[x].next_seq /\ rec'[x].have = rec[x].have
                      /\ rec'[x].known = rec[x].known
                      /\ x # n => rec'[x] = rec[x] /\ disk'[x] = disk[x]
                      /\ x = n => rec'[x] = r
  BY <1>1
<1>4. LogsCounted'
  BY <1>3 DEF IInv, LogsCounted
<1>5. CountersBehind'
  <2> SUFFICES ASSUME NEW x \in Node, NEW y \in Node
               PROVE  /\ 1 <= rec'[x].next_seq /\ rec'[x].next_seq <= MaxMsg + 1
                      /\ rec'[x].have[y] <= MaxMsg
                      /\ x = y => rec'[x].have[y] = 0 /\ rec'[x].sent_cursor[y] = 0
                      /\ rec'[y].sent_cursor[x] <= rec'[x].have[y]
    BY DEF CountersBehind
  <2>1. /\ 1 <= rec'[x].next_seq /\ rec'[x].next_seq <= MaxMsg + 1
        /\ rec'[x].have[y] <= MaxMsg
        /\ x = y => rec'[x].have[y] = 0
    BY <1>3 DEF IInv, CountersBehind
  <2>2. rec'[y].sent_cursor[x] <= rec'[x].have[y]
    <3>1. CASE y = n
      BY <1>3, <3>1
    <3>2. CASE y # n
      BY <1>3, <3>2 DEF IInv, CountersBehind
    <3>3. QED
      BY <3>1, <3>2
  <2>3. rec'[x].sent_cursor[y] \in Nat
    BY <1>2 DEF GroupRec
  <2>4. QED
    BY <2>1, <2>2, <2>3
<1>6. DiskBehind'
  <2> SUFFICES ASSUME NEW x \in Node, NEW y \in Node
               PROVE  /\ disk'[x].known = rec'[x].known
                      /\ 1 <= disk'[x].next_seq /\ disk'[x].next_seq <= rec'[x].next_seq
                      /\ disk'[x].have[y] <= rec'[x].have[y]
                      /\ disk'[x].sent_cursor[y] <= rec'[x].sent_cursor[y]
    BY DEF DiskBehind
  <2>1. CASE x # n
    BY <1>3, <2>1 DEF IInv, DiskBehind
  <2>2. CASE x = n /\ disk' = disk
    <3>1. disk'[x] = disk[x] /\ rec'[x] = r
      BY <1>3, <2>2
    <3>2. disk[x].sent_cursor[y] <= r.sent_cursor[y]
      <4>1. CASE disk' = [disk EXCEPT ![n] = r]
        <5>1. disk[n] = r
          BY <1>1, <2>2, <4>1
        <5>2. r.sent_cursor[y] \in Nat
          BY DEF GroupRec
        <5>3. QED
          BY <2>2, <5>1, <5>2
      <4>2. QED
        BY <2>2, <4>1
    <3>3. QED
      BY <2>2, <3>1, <3>2 DEF IInv, DiskBehind
  <2>3. CASE x = n /\ disk' = [disk EXCEPT ![n] = r]
    <3>1. disk'[x] = r /\ rec'[x] = r
      BY <1>1, <1>3, <2>3
    <3>2. r.next_seq \in Nat /\ r.have[y] \in Nat /\ r.sent_cursor[y] \in Nat /\ 1 <= r.next_seq
      BY DEF GroupRec, IInv, CountersBehind
    <3>3. QED
      BY <3>1, <3>2
  <2>4. QED
    BY <2>1, <2>2, <2>3
<1>7. NothingUnknown' /\ NoStub'
  <2>1. NoStub'
    BY <1>1, <1>3 DEF IInv, NoStub
  <2>2. NothingUnknown'
    BY <1>3 DEF IInv, NothingUnknown
  <2>3. QED
    BY <2>1, <2>2
<1>8. /\ chan' \in [Link -> [Node -> Seq(Frame)]] /\ LanesSound'
  <2>1. \A l \in Link, x \in Node :
            chan'[l][x] \in Seq(SoundFrames(log'[Far(x, l)][Far(x, l)], rec'[Far(x, l)].have[x]))
    BY <1>3, FarType DEF LanesOK, OwnLogs, Stored
  <2>2. QED
    BY <2>1 DEF LanesSound, LanesOK
<1>9. TypeOK'
  BY <1>2, <1>8 DEF IInv, TypeOK, SessionTypes, LinkRec
<1>10. QED
  BY <1>4, <1>5, <1>6, <1>7, <1>8, <1>9 DEF IInv

\* The counters are written, or the write fails and is ignored.
LEMMA SavedCounters ==
    ASSUME TypeOK, NEW n \in Node, NEW r, SaveCounters(n, r)
    PROVE  /\ disk' = disk \/ disk' = [disk EXCEPT ![n] = r]
           /\ used' \in [breaks : Nat, restarts : Nat, drops : Nat, faults : Nat]
<1>1. used \in [breaks : Nat, restarts : Nat, drops : Nat, faults : Nat]
  BY DEF TypeOK
<1>2. QED
  BY <1>1 DEF SaveCounters

\* A frame is read by one end of the session, and the other one wrote it.
LEMMA ReadEnd ==
    ASSUME IInv, NEW n \in Node, NEW l \in Link, NEW t, Arrived(n, l, t)
    PROVE  /\ n \in {l[1], l[2]} /\ Far(n, l) \in Node /\ Far(n, l) # n
           /\ LanesOK(Taken(n, l), OwnLogs, Stored)
           /\ Head(chan[l][n]) \in SoundFrames(log[Far(n, l)][Far(n, l)], rec[Far(n, l)].have[n])
           /\ Head(chan[l][n]).type = t
<1>1. n \in {l[1], l[2]}
  BY DEF Arrived, IInv, TypeOK
<1>2. Far(n, l) \in Node /\ Far(n, l) # n
  BY <1>1, EndFar
<1>3. /\ LanesOK(Taken(n, l), OwnLogs, Stored)
      /\ Head(chan[l][n]) \in SoundFrames(OwnLogs[Far(n, l)], Stored[Far(n, l)][n])
  BY LanesNow, LanesTaken DEF Arrived
<1>4. QED
  BY <1>1, <1>2, <1>3 DEF OwnLogs, Stored, Arrived

\* pump to one member m, with the counters of the record r, is sound.
LEMMA PumpOne ==
    ASSUME IInv, NEW n \in Node, NEW m \in Node, NEW r \in GroupRec, NEW lk \in LinkRec,
           NEW gn, NEW c, LanesOK(c, OwnLogs, Stored), r.next_seq = rec[n].next_seq
    PROVE  LanesOK(Sends(n, handle, c, Only(m, PumpFrames(r, lk, gn, m, log[n][n]))),
                   OwnLogs, Stored)
<1> DEFINE out == Only(m, PumpFrames(r, lk, gn, m, log[n][n]))
<1>1. \A d \in Node : out[d] \in Seq(SoundFrames(OwnLogs[n], Stored[n][d]))
  <2> TAKE d \in Node
  <2> DEFINE S == SoundFrames(OwnLogs[n], Stored[n][d])
             q == PumpFrames(r, lk, gn, m, log[n][n])
  <2>1. /\ OwnLogs[n] = log[n][n] /\ Stored[n][d] \in Nat /\ log[n][n] \in [Seqs -> 0..MaxMsg]
        /\ 1 <= r.next_seq /\ r.next_seq <= MaxMsg + 1
        /\ \A s \in Seqs : log[n][n][s] # 0 <=> s < r.next_seq
    <3>1. OwnLogs[n] = log[n][n] /\ Stored[n][d] \in Nat
      BY LanesNow DEF OwnLogs
    <3>2. log[n][n] \in [Seqs -> 0..MaxMsg]
      BY DEF IInv, TypeOK
    <3>3. 1 <= r.next_seq /\ r.next_seq <= MaxMsg + 1
      BY DEF IInv, CountersBehind
    <3>4. \A s \in Seqs : log[n][n][s] # 0 <=> s < r.next_seq
      BY DEF IInv, LogsCounted
    <3>5. QED
      BY <3>1, <3>2, <3>3, <3>4
  <2>2. q \in Seq(S)
    BY <2>1, SoundPump
  <2> HIDE DEF S, q
  <2>3. << >> \in Seq(S)
    OBVIOUS
  <2>4. QED
    BY <2>2, <2>3 DEF S, q, Only
<1> HIDE DEF out
<1>2. LanesOK(Sends(n, handle, c, out), OwnLogs, Stored)
  BY <1>1, LanesSends
<1>3. QED
  BY <1>2 DEF out

\* on_group_ack moves the cursor no further than the member got.
LEMMA RecvAckStep ==
    ASSUME IInv, NEW n \in Node, NEW l \in Link, RecvAck(n, l)
    PROVE  IInv' /\ FeedStep
<1> DEFINE m == Far(n, l)
           f == Head(chan[l][n])
           c == Taken(n, l)
           old == rec[n]
           acked == MinOf(f.have, old.next_seq - 1)
           r == [old EXCEPT !.sent_cursor[m] = acked]
<1>1. /\ m \in Node /\ m # n /\ LanesOK(c, OwnLogs, Stored)
      /\ f \in SoundFrames(log[m][m], rec[m].have[n]) /\ f.type = "ack"
  BY ReadEnd DEF RecvAck
<1>2. /\ \/ /\ Active(old) /\ acked > old.sent_cursor[m]
            /\ rec' = [rec EXCEPT ![n] = r]
            /\ SaveCounters(n, r)
            /\ links' = [links EXCEPT ![n][m] = PumpLink(n, handle, r, @, gone[n], m)]
            /\ chan' = Sends(n, handle, c,
                             Only(m, PumpFrames(r, links[n][m], gone[n], m, log[n][n])))
         \/ chan' = c /\ UNCHANGED <<rec, disk, links, used>>
      /\ UNCHANGED <<log, born, signed, gone, gap_sent, sessions>>
  BY DEF RecvAck
<1>3. old \in GroupRec /\ links[n][m] \in LinkRec /\ links \in [Node -> [Node -> LinkRec]]
  BY <1>1 DEF IInv, TypeOK, LinkRec
<1>4. f.have \in Nat /\ f.have <= rec[m].have[n]
  BY <1>1 DEF SoundFrames, Frame
<1> HIDE DEF m, f, c
<1>5. CASE chan' = c /\ UNCHANGED <<rec, disk, links, used>>
  <2>1. SessionTypes'
    BY <1>2, <1>5 DEF IInv, TypeOK, SessionTypes, LinkRec, sessions
  <2>2. QED
    BY <1>1, <1>2, <1>5, <2>1, SessionStep
<1>6. CASE /\ Active(old) /\ acked > old.sent_cursor[m]
           /\ rec' = [rec EXCEPT ![n] = r]
           /\ SaveCounters(n, r)
           /\ links' = [links EXCEPT ![n][m] = PumpLink(n, handle, r, @, gone[n], m)]
           /\ chan' = Sends(n, handle, c,
                             Only(m, PumpFrames(r, links[n][m], gone[n], m, log[n][n])))
  <2>1. /\ old.next_seq \in Nat /\ 1 <= old.next_seq /\ old.sent_cursor \in [Node -> Nat]
        /\ ~old.hidden /\ old.known
    BY <1>3, <1>6 DEF GroupRec, IInv, CountersBehind, NoStub, Active
  <2>2. acked \in Nat /\ acked <= f.have
    BY <1>4, <2>1 DEF MinOf
  <2>3. rec[m].have[n] \in Nat
    BY <1>1 DEF IInv, TypeOK, GroupRec
  <2> HIDE DEF acked
  <2>4. /\ r \in GroupRec /\ r.known = old.known /\ r.known /\ ~r.hidden
        /\ r.next_seq = old.next_seq /\ r.have = old.have
        /\ r.sent_cursor = [old.sent_cursor EXCEPT ![m] = acked]
    BY <1>1, <1>3, <2>1, <2>2 DEF GroupRec
  <2> HIDE DEF r
  <2>5. ASSUME NEW x \in Node
        PROVE  r.sent_cursor[x] <= rec[x].have[n] /\ disk[n].sent_cursor[x] <= r.sent_cursor[x]
    <3>1. old.sent_cursor[x] <= rec[x].have[n] /\ disk[n].sent_cursor[x] <= old.sent_cursor[x]
      BY DEF IInv, CountersBehind, DiskBehind
    <3>2. disk[n].sent_cursor[x] \in Nat /\ old.sent_cursor[x] \in Nat
      BY CounterTypes
    <3> HIDE DEF old
    <3>3. CASE x = m
      BY <1>1, <1>4, <1>6, <2>1, <2>2, <2>3, <2>4, <3>1, <3>2, <3>3
    <3>4. CASE x # m
      BY <2>1, <2>4, <3>1, <3>4
    <3>5. QED
      BY <3>3, <3>4
  <2>6. /\ disk' = disk \/ disk' = [disk EXCEPT ![n] = r]
        /\ used' \in [breaks : Nat, restarts : Nat, drops : Nat, faults : Nat]
    BY <1>6, SavedCounters DEF IInv
  <2>7. LanesOK(chan', OwnLogs, Stored)
    <3>1. r.next_seq = rec[n].next_seq
      BY <2>4
    <3> HIDE DEF old
    <3>2. QED
      BY <1>1, <1>3, <1>6, <2>4, <3>1, PumpOne
  <2>8. SessionTypes'
    <3>1. PumpLink(n, handle, r, links[n][m], gone[n], m) \in LinkRec
      BY <1>1, <1>3, <2>1, <2>4, PumpLinkType
    <3>2. links' \in [Node -> [Node -> LinkRec]]
      BY <1>1, <1>3, <1>6, <3>1
    <3>3. QED
      BY <1>2, <2>6, <3>2 DEF IInv, TypeOK, SessionTypes, sessions
  <2>9. IInv'
    BY <1>2, <1>6, <2>4, <2>5, <2>6, <2>7, <2>8, CursorStep
  <2>10. FeedStep
    <3>1. acked <= rec[m].have[n] /\ rec[n].sent_cursor[m] <= acked
      BY <1>1, <1>4, <1>6, <2>1, <2>2, <2>3
    <3>2. /\ r.next_seq = rec[n].next_seq /\ r.have = rec[n].have
          /\ r.sent_cursor = [rec[n].sent_cursor EXCEPT ![m] = acked]
      BY <2>4
    <3> HIDE DEF old
    <3>3. QED
      BY <1>1, <1>6, <2>2, <3>1, <3>2, LearnStep
  <2>11. QED
    BY <2>9, <2>10
<1>7. QED
  BY <1>2, <1>5, <1>6

\* A restart repairs the counters of the messages from the log, and can only
\* lose acknowledgements.
LEMMA RepairFacts ==
    ASSUME IInv, NEW n \in Node
    PROVE  LET r == Repair(disk[n], log[n], n)
           IN  /\ r \in GroupRec /\ r.known = rec[n].known /\ ~r.hidden
               /\ r.next_seq = rec[n].next_seq /\ r.have = rec[n].have
               /\ r.sent_cursor = disk[n].sent_cursor
<1> DEFINE r == Repair(disk[n], log[n], n)
<1>. USE MaxMsgAssumption
<1>1. disk[n] \in GroupRec /\ rec[n] \in GroupRec /\ disk[n].known = rec[n].known /\ ~disk[n].hidden
  BY DEF IInv, TypeOK, DiskBehind, NoStub
<1>2. /\ 1 <= disk[n].next_seq /\ disk[n].next_seq <= rec[n].next_seq
      /\ rec[n].next_seq <= MaxMsg + 1 /\ rec[n].next_seq \in Nat /\ disk[n].next_seq \in Nat
  BY <1>1 DEF IInv, DiskBehind, CountersBehind, GroupRec
<1>3. \A a \in Node : /\ disk[n].have[a] <= rec[n].have[a] /\ rec[n].have[a] <= MaxMsg
                      /\ disk[n].have[a] \in Nat /\ rec[n].have[a] \in Nat
                      /\ n = a => rec[n].have[a] = 0
  BY <1>1 DEF IInv, DiskBehind, CountersBehind, GroupRec
<1>4. rec[n].have \in [Node -> Nat] /\ disk[n].have \in [Node -> Nat]
  BY <1>1 DEF GroupRec
<1>5. CASE ~disk[n].known
  <2>1. r = disk[n]
    BY <1>5 DEF Repair
  <2>2. rec[n].next_seq = 1 /\ \A a \in Node : rec[n].have[a] = 0
    BY <1>1, <1>5 DEF IInv, NothingUnknown
  <2>3. disk[n].next_seq = rec[n].next_seq
    BY <1>2, <2>2
  <2>4. \A a \in Node : disk[n].have[a] = rec[n].have[a]
    <3> TAKE a \in Node
    <3>1. disk[n].have[a] <= rec[n].have[a] /\ disk[n].have[a] \in Nat /\ rec[n].have[a] = 0
      BY <1>3, <2>2
    <3>2. QED
      BY <3>1
  <2>5. disk[n].have = rec[n].have
    BY <1>4, <2>4
  <2>6. QED
    BY <1>1, <2>1, <2>3, <2>5
<1>6. CASE disk[n].known
  <2> DEFINE k == MaxOf(disk[n].next_seq, LogMax(log[n][n]) + 1)
             hv == [a \in Node |-> IF a = n THEN disk[n].have[a]
                                    ELSE MaxOf(disk[n].have[a], LogMax(log[n][a]))]
  <2>1. r = [disk[n] EXCEPT !.next_seq = k, !.have = hv]
    BY <1>6 DEF Repair
  <2>2. k = rec[n].next_seq
    <3> DEFINE t == rec[n].next_seq - 1
    <3>0. t \in 0..MaxMsg
      BY <1>2
    <3>a. log[n][n] \in [Seqs -> 0..MaxMsg]
      BY DEF IInv, TypeOK
    <3>1. log[n][n] \in [Seqs -> 0..MaxMsg] /\ t \in 0..MaxMsg
      BY <3>0, <3>a
    <3>2. \A s \in Seqs : log[n][n][s] # 0 <=> s <= t
      BY <1>2 DEF IInv, LogsCounted, Seqs
    <3>3. LogMax(log[n][n]) = t
      BY <3>1, <3>2, LogMaxCount
    <3>4. QED
      BY <1>2, <3>3 DEF MaxOf
  <2>3. \A a \in Node : hv[a] = rec[n].have[a]
    <3> TAKE a \in Node
    <3>1. CASE a = n
      BY <1>3, <3>1
    <3>2. CASE a # n
      <4>1. log[n][a] \in [Seqs -> 0..MaxMsg] /\ rec[n].have[a] \in 0..MaxMsg
        BY <1>3 DEF IInv, TypeOK
      <4>2. \A s \in Seqs : log[n][a][s] # 0 <=> s <= rec[n].have[a]
        BY <3>2 DEF IInv, LogsCounted
      <4>3. LogMax(log[n][a]) = rec[n].have[a]
        BY <4>1, <4>2, LogMaxCount
      <4>4. QED
        BY <1>3, <3>2, <4>3 DEF MaxOf
    <3>3. QED
      BY <3>1, <3>2
  <2>4. hv = rec[n].have
    BY <1>4, <2>3
  <2> HIDE DEF k, hv
  <2>5. QED
    BY <1>1, <1>2, <1>4, <2>1, <2>2, <2>4 DEF GroupRec
<1>7. QED
  BY <1>5, <1>6

\* start_with_alpns: the repaired counters are those of the lost memory.
LEMMA RestartStep ==
    ASSUME IInv, NEW n \in Node, Restart(n)
    PROVE  IInv' /\ FeedStep
<1> DEFINE r == Repair(disk[n], log[n], n)
           mine == {l \in Link : n = l[1] \/ n = l[2]}
<1>1. /\ r \in GroupRec /\ r.known = rec[n].known /\ ~r.hidden
      /\ r.next_seq = rec[n].next_seq /\ r.have = rec[n].have
      /\ r.sent_cursor = disk[n].sent_cursor
  BY RepairFacts
<1>2. /\ rec' = [rec EXCEPT ![n] = r] /\ UNCHANGED <<disk, log, born, signed>>
      /\ used' = [used EXCEPT !.restarts = @ + 1]
      /\ handle' = [handle EXCEPT ![n] = [l \in Link |-> 0]]
      /\ links' = [links EXCEPT ![n] = [m \in Node |-> NoLink]]
      /\ gone' = [gone EXCEPT ![n] = {}]
      /\ gap_sent' = [gap_sent EXCEPT ![n] = [m \in Node |-> -1]]
      /\ EndTasks(n, mine)
  BY DEF Restart
<1> HIDE DEF r
<1>3. /\ task' \in [Link -> SUBSET Node]
      /\ \A l \in Link : task'[l] \subseteq {l[1], l[2]}
      /\ phase' \in [Link -> {"idle", "dialing", "ring", "up"}]
      /\ LanesOK(chan', OwnLogs, Stored)
  <2>1. mine \in SUBSET Link
    OBVIOUS
  <2> HIDE DEF mine
  <2>2. QED
    BY <1>2, <2>1, EndTasksFacts
<1>4. SessionTypes'
  <2>1. NoLink \in LinkRec /\ 0 \in 0..(2 * Slots)
    BY MeshAssumption DEF NoLink, LinkRec
  <2>2. /\ links \in [Node -> [Node -> LinkRec]]
        /\ handle \in [Node -> [Link -> 0..(2 * Slots)]]
        /\ gone \in [Node -> SUBSET Node]
        /\ gap_sent \in [Node -> [Node -> Nat \cup {-1}]]
        /\ used \in [breaks : Nat, restarts : Nat, drops : Nat, faults : Nat]
    BY DEF IInv, TypeOK, LinkRec
  <2>3. links' \in [Node -> [Node -> LinkRec]]
    BY <1>2, <2>1, <2>2
  <2>4. handle' \in [Node -> [Link -> 0..(2 * Slots)]]
    BY <1>2, <2>1, <2>2
  <2>5. gone' \in [Node -> SUBSET Node] /\ gap_sent' \in [Node -> [Node -> Nat \cup {-1}]]
    BY <1>2, <2>2
  <2>6. used' \in [breaks : Nat, restarts : Nat, drops : Nat, faults : Nat]
    <3>1. used' = [used EXCEPT !.restarts = @ + 1]
      BY <1>2
    <3>2. used \in [breaks : Nat, restarts : Nat, drops : Nat, faults : Nat]
      BY <2>2
    <3>3. QED
      BY <3>1, <3>2
  <2>7. QED
    BY <1>3, <2>3, <2>4, <2>5, <2>6 DEF SessionTypes
<1>5. ASSUME NEW x \in Node
      PROVE  /\ disk[n].sent_cursor[x] <= rec[x].have[n]
             /\ disk[n].sent_cursor[x] <= disk[n].sent_cursor[x]
             /\ ~rec[n].known => disk[n].sent_cursor[x] = 0
  <2>1. /\ disk[n].sent_cursor[x] \in Nat /\ rec[n].sent_cursor[x] \in Nat
        /\ rec[x].have[n] \in Nat
    BY CounterTypes
  <2>2. /\ disk[n].sent_cursor[x] <= rec[n].sent_cursor[x]
        /\ rec[n].sent_cursor[x] <= rec[x].have[n]
        /\ ~rec[n].known => rec[n].sent_cursor[x] = 0
    BY DEF IInv, DiskBehind, CountersBehind, NothingUnknown
  <2>3. QED
    BY <2>1, <2>2
<1>6. /\ \A x \in Node : r.sent_cursor[x] <= rec[x].have[n]
      /\ \A x \in Node : disk[n].sent_cursor[x] <= r.sent_cursor[x]
      /\ ~r.known => \A x \in Node : r.sent_cursor[x] = 0
  BY <1>1, <1>5
<1>7. IInv'
  BY <1>1, <1>2, <1>3, <1>4, <1>6, CursorStep
<1>8. FeedStep
  <2>1. \A x \in Node : r.sent_cursor[x] <= rec[n].sent_cursor[x]
    BY <1>1 DEF IInv, DiskBehind
  <2>2. QED
    BY <1>1, <1>2, <2>1, ForgetStep
<1>9. QED
  BY <1>7, <1>8

\* An answer of one frame on the session it came from is sound.
LEMMA ReplyOne ==
    ASSUME NEW lg, NEW hv, NEW l \in Link, NEW n \in {l[1], l[2]}, NEW c, LanesOK(c, lg, hv),
           NEW f \in SoundFrames(lg[n], hv[n][Far(n, l)])
    PROVE  LanesOK(Reply(n, l, c, <<f>>), lg, hv)
<1> DEFINE S == SoundFrames(lg[n], hv[n][Far(n, l)])
<1>1. f \in S
  OBVIOUS
<1> HIDE DEF S
<1>2. <<f>> \in Seq(S)
  BY <1>1
<1>3. <<f>> \in Seq(SoundFrames(lg[n], hv[n][Far(n, l)]))
  BY <1>2 DEF S
<1>4. QED
  BY <1>3, LanesReply

\* The answers of the handlers that change no counter.
LEMMA Answers ==
    ASSUME IInv, NEW l \in Link, NEW n \in {l[1], l[2]}, NEW c, LanesOK(c, OwnLogs, Stored),
           NEW r \in GroupRec, r.have = rec[n].have
    PROVE  /\ LanesOK(Reply(n, l, c, <<StateF(r.state)>>), OwnLogs, Stored)
           /\ LanesOK(Reply(n, l, c, <<SyncF(r, Far(n, l))>>), OwnLogs, Stored)
           /\ LanesOK(Reply(n, l, c, <<GoneF>>), OwnLogs, Stored)
           /\ LanesOK(Reply(n, l, c, <<AckF(r.have[Far(n, l)])>>), OwnLogs, Stored)
<1> DEFINE m == Far(n, l)
<1>1. n \in Node /\ m \in Node
  BY EndFar
<1>2. /\ r.have[m] \in Nat /\ Stored[n][m] = r.have[m] /\ Stored[n][m] \in Nat
      /\ r.have[m] <= Stored[n][m] /\ r.state \in GroupState
  <2>1. r.have[m] \in Nat /\ r.state \in GroupState
    BY <1>1 DEF GroupRec
  <2>2. Stored[n][m] = r.have[m]
    BY <1>1 DEF Stored
  <2>3. QED
    BY <2>1, <2>2
<1>3. StateF(r.state) \in SoundFrames(OwnLogs[n], Stored[n][m])
  BY <1>2, SoundState
<1>4. SyncF(r, m) \in SoundFrames(OwnLogs[n], Stored[n][m])
  BY <1>1, <1>2, SoundSync
<1>5. GoneF \in SoundFrames(OwnLogs[n], Stored[n][m]) /\ AckF(r.have[m]) \in SoundFrames(OwnLogs[n], Stored[n][m])
  BY <1>2, SoundOther
<1>6. QED
  BY <1>3, <1>4, <1>5, ReplyOne

\* on_group_sync moves the cursor no further than the member got.
LEMMA RecvSyncStep ==
    ASSUME IInv, NEW n \in Node, NEW l \in Link, RecvSync(n, l)
    PROVE  IInv' /\ FeedStep
<1> DEFINE m == Far(n, l)
           f == Head(chan[l][n])
           c == Taken(n, l)
           old == rec[n]
           gn == gone[n] \ {m}
           held == MaxOf(old.state_cursor[m], MinOf(f.epoch, old.state.epoch))
           acked == MaxOf(old.sent_cursor[m], MinOf(f.have, old.next_seq - 1))
           r == [old EXCEPT !.state_cursor[m] = IF n = Creator THEN held ELSE @,
                            !.sent_cursor[m] = acked]
           lk == [epoch |-> f.epoch, pushed |-> acked]
<1>1. /\ m \in Node /\ m # n /\ n \in {l[1], l[2]} /\ LanesOK(c, OwnLogs, Stored)
      /\ f \in SoundFrames(log[m][m], rec[m].have[n]) /\ f.type = "sync"
  BY ReadEnd DEF RecvSync
<1>2. old \in GroupRec /\ links \in [Node -> [Node -> LinkRec]] /\ gone \in [Node -> SUBSET Node]
  BY DEF IInv, TypeOK, LinkRec
<1>3. f.have \in Nat /\ f.have <= rec[m].have[n] /\ f.epoch \in Nat
  BY <1>1 DEF SoundFrames, Frame
<1>4. UNCHANGED <<log, born, signed, gap_sent, sessions>>
  BY DEF RecvSync
<1>5. CASE ~(Active(old) /\ m \in old.state.members)
  <2>1. /\ chan' = CASE old.known /\ f.epoch < old.state.epoch ->
                              Reply(n, l, c, <<StateF(old.state)>>)
                      [] ~Active(old) /\ (old.known => f.epoch >= old.state.epoch) ->
                              Reply(n, l, c, <<GoneF>>)
                      [] OTHER -> c
        /\ UNCHANGED <<rec, disk, links, gone, used>>
    BY <1>5 DEF RecvSync
  <2>2. \/ chan' = Reply(n, l, c, <<StateF(old.state)>>)
        \/ chan' = Reply(n, l, c, <<GoneF>>)
        \/ chan' = c
    BY <2>1
  <2>3. LanesOK(chan', OwnLogs, Stored)
    BY <1>1, <1>2, <2>2, Answers
  <2>4. SessionTypes'
    BY <1>4, <2>1 DEF IInv, TypeOK, SessionTypes, LinkRec, sessions
  <2>5. QED
    BY <1>4, <2>1, <2>3, <2>4, SessionStep
<1>6. CASE Active(old) /\ m \in old.state.members
  <2>1. /\ gone' = [gone EXCEPT ![n] = gn]
        /\ rec' = [rec EXCEPT ![n] = r]
        /\ IF r # old THEN SaveCounters(n, r) ELSE UNCHANGED <<disk, used>>
        /\ links' = [links EXCEPT ![n][m] = PumpLink(n, handle, r, lk, gn, m)]
        /\ chan' = CASE f.epoch < r.state.epoch -> Reply(n, l, c, <<StateF(r.state)>>)
                     [] f.epoch > r.state.epoch -> Reply(n, l, c, <<SyncF(r, m)>>)
                     [] OTHER -> Sends(n, handle, c, Only(m, PumpFrames(r, lk, gn, m, log[n][n])))
    BY <1>6 DEF RecvSync
  <2>2. \/ chan' = Reply(n, l, c, <<StateF(r.state)>>)
        \/ chan' = Reply(n, l, c, <<SyncF(r, m)>>)
        \/ chan' = Sends(n, handle, c, Only(m, PumpFrames(r, lk, gn, m, log[n][n])))
    BY <2>1
  <2>3. /\ old.next_seq \in Nat /\ 1 <= old.next_seq /\ old.sent_cursor \in [Node -> Nat]
        /\ ~old.hidden /\ old.known /\ old.state_cursor \in [Node -> Nat]
        /\ old.state.epoch \in Nat
    <3>1. /\ old.next_seq \in Nat /\ old.sent_cursor \in [Node -> Nat]
          /\ old.state_cursor \in [Node -> Nat] /\ old.state.epoch \in Nat
      BY <1>2 DEF GroupRec, GroupState
    <3>2. 1 <= old.next_seq /\ ~old.hidden /\ old.known
      BY <1>6 DEF IInv, CountersBehind, NoStub, Active
    <3>3. QED
      BY <3>1, <3>2
  <2> DEFINE sc == IF n = Creator THEN held ELSE old.state_cursor[m]
  <2>4. sc \in Nat
    BY <1>1, <1>3, <2>3 DEF MaxOf, MinOf
  <2>5. /\ acked \in Nat /\ old.sent_cursor[m] <= acked
        /\ acked <= f.have \/ acked = old.sent_cursor[m]
    BY <1>1, <1>3, <2>3 DEF MaxOf, MinOf
  <2>6. r = [old EXCEPT !.state_cursor = [old.state_cursor EXCEPT ![m] = sc],
                        !.sent_cursor = [old.sent_cursor EXCEPT ![m] = acked]]
    OBVIOUS
  <2>7. lk \in LinkRec
    BY <1>3, <2>5 DEF LinkRec
  <2> HIDE DEF m, f, c, acked, held, sc, lk, gn, r
  <2>8. /\ r \in GroupRec /\ r.known = old.known /\ r.known /\ ~r.hidden
        /\ r.next_seq = old.next_seq /\ r.have = old.have
        /\ r.sent_cursor = [old.sent_cursor EXCEPT ![m] = acked]
    BY <1>1, <1>2, <2>3, <2>4, <2>5, <2>6 DEF GroupRec
  <2>9. ASSUME NEW x \in Node
        PROVE  r.sent_cursor[x] <= rec[x].have[n] /\ disk[n].sent_cursor[x] <= r.sent_cursor[x]
    <3>1. old.sent_cursor[x] <= rec[x].have[n] /\ disk[n].sent_cursor[x] <= old.sent_cursor[x]
      BY DEF IInv, CountersBehind, DiskBehind
    <3>2. disk[n].sent_cursor[x] \in Nat /\ old.sent_cursor[x] \in Nat /\ rec[x].have[n] \in Nat
      BY CounterTypes
    <3> HIDE DEF old
    <3>3. CASE x = m
      BY <1>1, <1>3, <2>3, <2>5, <2>8, <3>1, <3>2, <3>3
    <3>4. CASE x # m
      BY <2>3, <2>8, <3>1, <3>4
    <3>5. QED
      BY <3>3, <3>4
  <2>10. /\ disk' = disk \/ disk' = [disk EXCEPT ![n] = r]
         /\ used' \in [breaks : Nat, restarts : Nat, drops : Nat, faults : Nat]
    <3>1. CASE SaveCounters(n, r)
      BY <3>1, SavedCounters DEF IInv
    <3>2. CASE UNCHANGED <<disk, used>>
      BY <3>2 DEF IInv, TypeOK
    <3>3. QED
      BY <2>1, <3>1, <3>2
  <2>11. LanesOK(chan', OwnLogs, Stored)
    <3>1. r.next_seq = rec[n].next_seq /\ r.have = rec[n].have
      BY <2>8
    <3> HIDE DEF old
    <3>2. LanesOK(Sends(n, handle, c, Only(m, PumpFrames(r, lk, gn, m, log[n][n]))), OwnLogs, Stored)
      BY <1>1, <2>7, <2>8, <3>1, PumpOne
    <3>3. /\ LanesOK(Reply(n, l, c, <<StateF(r.state)>>), OwnLogs, Stored)
          /\ LanesOK(Reply(n, l, c, <<SyncF(r, m)>>), OwnLogs, Stored)
      BY <1>1, <2>8, <3>1, Answers DEF m
    <3>4. QED
      BY <2>2, <3>2, <3>3
  <2>12. SessionTypes'
    <3>1. PumpLink(n, handle, r, lk, gn, m) \in LinkRec
      BY <1>1, <2>3, <2>7, <2>8, PumpLinkType
    <3>2. links' \in [Node -> [Node -> LinkRec]]
      BY <1>1, <1>2, <2>1, <3>1
    <3>3. gone' \in [Node -> SUBSET Node]
      BY <1>2, <2>1 DEF gn
    <3>4. QED
      BY <1>4, <2>10, <3>2, <3>3 DEF IInv, TypeOK, SessionTypes, sessions
  <2>13. IInv'
    BY <1>4, <2>1, <2>8, <2>9, <2>10, <2>11, <2>12, CursorStep
  <2>14. FeedStep
    <3>1. acked <= rec[m].have[n] /\ rec[n].sent_cursor[m] <= acked
      <4>1. r.sent_cursor[m] <= rec[m].have[n] /\ r.sent_cursor[m] = acked
        BY <1>1, <2>3, <2>8, <2>9
      <4>2. QED
        BY <2>5, <4>1
    <3>2. /\ r.next_seq = rec[n].next_seq /\ r.have = rec[n].have
          /\ r.sent_cursor = [rec[n].sent_cursor EXCEPT ![m] = acked]
      BY <2>8
    <3> HIDE DEF old
    <3>3. QED
      BY <1>1, <2>1, <2>5, <3>1, <3>2, LearnStep
  <2>15. QED
    BY <2>13, <2>14
<1>7. QED
  BY <1>5, <1>6
-----------------------------------------------------------------------------
(* Messages *)

\* The rest of the invariant, when the counters of device n grow to those of
\* the record r and the logs with them.
LEMMA GrowStep ==
    ASSUME IInv, NEW n \in Node, NEW r \in GroupRec, r.known, rec[n].known, ~r.hidden,
           r.sent_cursor = rec[n].sent_cursor,
           rec[n].next_seq <= r.next_seq, r.next_seq <= MaxMsg + 1,
           \A x \in Node : /\ rec[n].have[x] <= r.have[x] /\ r.have[x] <= MaxMsg
                           /\ x = n => r.have[x] = 0,
           rec' = [rec EXCEPT ![n] = r],
           disk' = disk \/ disk' = [disk EXCEPT ![n] = r],
           LogsCounted', log' \in [Node -> [Node -> [Seqs -> 0..MaxMsg]]],
           born' \in [Node -> Seq(Nat)], signed' = signed,
           SessionTypes', LanesOK(chan', OwnLogs', Stored')
    PROVE  IInv'
<1>1. rec \in [Node -> GroupRec] /\ disk \in [Node -> GroupRec]
  BY DEF IInv, TypeOK
<1>2. rec' \in [Node -> GroupRec] /\ disk' \in [Node -> GroupRec]
  BY <1>1
<1>3. \A x \in Node : /\ x # n => rec'[x] = rec[x] /\ disk'[x] = disk[x]
                      /\ x = n => rec'[x] = r /\ disk'[x] \in {r, disk[n]}
                      /\ rec'[x].sent_cursor = rec[x].sent_cursor
  BY <1>1
<1>4. \A x \in Node : /\ r.next_seq \in Nat /\ r.have[x] \in Nat /\ r.sent_cursor[x] \in Nat
  BY DEF GroupRec
<1>5. CountersBehind'
  <2> SUFFICES ASSUME NEW x \in Node, NEW y \in Node
               PROVE  /\ 1 <= rec'[x].next_seq /\ rec'[x].next_seq <= MaxMsg + 1
                      /\ rec'[x].have[y] <= MaxMsg
                      /\ x = y => rec'[x].have[y] = 0 /\ rec'[x].sent_cursor[y] = 0
                      /\ rec'[y].sent_cursor[x] <= rec'[x].have[y]
    BY DEF CountersBehind
  <2>1. /\ 1 <= rec[x].next_seq /\ rec[x].next_seq <= MaxMsg + 1
        /\ rec[x].have[y] <= MaxMsg
        /\ x = y => rec[x].have[y] = 0 /\ rec[x].sent_cursor[y] = 0
        /\ rec[y].sent_cursor[x] <= rec[x].have[y]
    BY DEF IInv, CountersBehind
  <2>2. /\ rec[x].next_seq \in Nat /\ rec[x].have[y] \in Nat /\ rec[y].sent_cursor[x] \in Nat
    BY CounterTypes
  <2>3. rec'[y].sent_cursor[x] = rec[y].sent_cursor[x] /\ rec'[x].sent_cursor[y] = rec[x].sent_cursor[y]
    BY <1>3
  <2>4. CASE x = n
    BY <1>3, <1>4, <2>1, <2>2, <2>3, <2>4
  <2>5. CASE x # n
    BY <1>3, <2>1, <2>3, <2>5
  <2>6. QED
    BY <2>4, <2>5
<1>6. DiskBehind'
  <2> SUFFICES ASSUME NEW x \in Node, NEW y \in Node
               PROVE  /\ disk'[x].known = rec'[x].known
                      /\ 1 <= disk'[x].next_seq /\ disk'[x].next_seq <= rec'[x].next_seq
                      /\ disk'[x].have[y] <= rec'[x].have[y]
                      /\ disk'[x].sent_cursor[y] <= rec'[x].sent_cursor[y]
    BY DEF DiskBehind
  <2>1. /\ disk[x].known = rec[x].known
        /\ 1 <= disk[x].next_seq /\ disk[x].next_seq <= rec[x].next_seq
        /\ disk[x].have[y] <= rec[x].have[y]
        /\ disk[x].sent_cursor[y] <= rec[x].sent_cursor[y]
        /\ 1 <= rec[x].next_seq
    BY DEF IInv, DiskBehind, CountersBehind
  <2>2. /\ rec[x].next_seq \in Nat /\ rec[x].have[y] \in Nat /\ rec[x].sent_cursor[y] \in Nat
        /\ disk[x].next_seq \in Nat /\ disk[x].have[y] \in Nat /\ disk[x].sent_cursor[y] \in Nat
    BY CounterTypes
  <2>3. CASE x # n
    BY <1>3, <2>1, <2>3
  <2>4. CASE x = n /\ disk'[x] = r
    <3>1. rec'[x] = r /\ disk'[x] = r
      BY <1>3, <2>4
    <3>2. 1 <= r.next_seq
      BY <1>4, <2>1, <2>2, <2>4
    <3>3. QED
      BY <1>4, <3>1, <3>2
  <2>5. CASE x = n /\ disk'[x] = disk[n]
    <3>1. rec'[x] = r /\ disk'[x] = disk[x]
      BY <1>3, <2>5
    <3>a. rec[x].next_seq <= r.next_seq /\ rec[x].have[y] <= r.have[y]
      BY <2>5
    <3>b. r.sent_cursor[y] = rec[x].sent_cursor[y] /\ disk[x].known = r.known
      BY <2>1, <2>5
    <3>2. /\ rec[x].next_seq <= r.next_seq /\ rec[x].have[y] <= r.have[y]
          /\ r.sent_cursor[y] = rec[x].sent_cursor[y] /\ disk[x].known = r.known
      BY <3>a, <3>b
    <3>3. disk[x].next_seq <= r.next_seq /\ disk[x].have[y] <= r.have[y]
      BY <1>4, <2>1, <2>2, <3>2
    <3>4. QED
      BY <2>1, <3>1, <3>2, <3>3
  <2>6. QED
    BY <1>3, <2>3, <2>4, <2>5
<1>7. NothingUnknown'
  BY <1>3 DEF IInv, NothingUnknown
<1>8. NoStub'
  BY <1>3 DEF IInv, NoStub
<1>9. /\ chan' \in [Link -> [Node -> Seq(Frame)]] /\ LanesSound'
  <2>1. \A l \in Link, x \in Node :
            chan'[l][x] \in Seq(SoundFrames(log'[Far(x, l)][Far(x, l)], rec'[Far(x, l)].have[x]))
    BY FarType DEF LanesOK, OwnLogs, Stored
  <2>2. QED
    BY <2>1 DEF LanesSound, LanesOK
<1>10. TypeOK'
  BY <1>2, <1>9 DEF IInv, TypeOK, SessionTypes, LinkRec
<1>11. QED
  BY <1>5, <1>6, <1>7, <1>8, <1>9, <1>10 DEF IInv

\* A message that is not the next one changes neither log nor counter.
LEMMA RecvMsgIgnored ==
    ASSUME IInv, NEW n \in Node, NEW l \in Link, RecvMsg(n, l),
           ~(/\ Active(rec[n]) /\ Far(n, l) \in rec[n].state.members
             /\ IsNext(rec[n], Far(n, l), Head(chan[l][n]).seq))
    PROVE  IInv' /\ FeedStep
<1> DEFINE m == Far(n, l)
           c == Taken(n, l)
           old == rec[n]
           have == old.have[m]
<1>1. m \in Node /\ n \in {l[1], l[2]} /\ LanesOK(c, OwnLogs, Stored)
  BY ReadEnd DEF RecvMsg
<1>2. old \in GroupRec /\ gap_sent \in [Node -> [Node -> Nat \cup {-1}]] /\ have \in Nat
  BY <1>1, CounterTypes DEF IInv, TypeOK
<1>3. /\ UNCHANGED <<rec, disk, log, used, links, gone, born, signed, sessions>>
      /\ CASE ~Active(old) -> chan' = Reply(n, l, c, <<GoneF>>) /\ UNCHANGED gap_sent
           [] Active(old) /\ m \notin old.state.members -> chan' = c /\ UNCHANGED gap_sent
           [] Active(old) /\ m \in old.state.members /\ Head(chan[l][n]).seq <= have ->
                 chan' = Reply(n, l, c, <<AckF(have)>>) /\ UNCHANGED gap_sent
           [] OTHER -> /\ chan' = IF gap_sent[n][m] = have THEN c
                                  ELSE Reply(n, l, c, <<SyncF(old, m)>>)
                       /\ gap_sent' = [gap_sent EXCEPT ![n][m] = have]
  BY DEF RecvMsg
<1>4. /\ \/ chan' = c
         \/ chan' = Reply(n, l, c, <<GoneF>>)
         \/ chan' = Reply(n, l, c, <<AckF(have)>>)
         \/ chan' = Reply(n, l, c, <<SyncF(old, m)>>)
      /\ gap_sent' = gap_sent \/ gap_sent' = [gap_sent EXCEPT ![n][m] = have]
  BY <1>3
<1>5. LanesOK(chan', OwnLogs, Stored)
  <2>1. /\ LanesOK(Reply(n, l, c, <<GoneF>>), OwnLogs, Stored)
        /\ LanesOK(Reply(n, l, c, <<AckF(have)>>), OwnLogs, Stored)
        /\ LanesOK(Reply(n, l, c, <<SyncF(old, m)>>), OwnLogs, Stored)
    BY <1>1, <1>2, Answers
  <2> HIDE DEF c, m, old, have
  <2>2. QED
    BY <1>1, <1>4, <2>1
<1> HIDE DEF m, c, have
<1>6. gap_sent' \in [Node -> [Node -> Nat \cup {-1}]]
  BY <1>1, <1>2, <1>4
<1>7. SessionTypes'
  BY <1>3, <1>6 DEF IInv, TypeOK, SessionTypes, LinkRec, sessions
<1>8. QED
  BY <1>3, <1>5, <1>7, SessionStep

\* The next message is stored, counted and acknowledged.
LEMMA RecvMsgStored ==
    ASSUME IInv, NEW n \in Node, NEW l \in Link, RecvMsg(n, l),
           Active(rec[n]), Far(n, l) \in rec[n].state.members,
           IsNext(rec[n], Far(n, l), Head(chan[l][n]).seq)
    PROVE  IInv' /\ FeedStep
<1> DEFINE m == Far(n, l)
           f == Head(chan[l][n])
           k == f.seq
           c == Taken(n, l)
           old == rec[n]
           r == [old EXCEPT !.have[m] = k]
<1>. USE MaxMsgAssumption
<1>1. /\ m \in Node /\ m # n /\ n \in {l[1], l[2]} /\ LanesOK(c, OwnLogs, Stored)
      /\ f \in SoundFrames(log[m][m], rec[m].have[n]) /\ f.type = "msg"
  BY ReadEnd DEF RecvMsg
<1>2. k \in Seqs /\ f.id \in 1..MaxMsg /\ f.id = log[m][m][k] /\ k = old.have[m] + 1
  BY <1>1 DEF SoundFrames, Frame, IsNext
<1>3. /\ log' = [log EXCEPT ![n][m][k] = f.id]
      /\ gap_sent' = [gap_sent EXCEPT ![n][m] = -1]
      /\ rec' = [rec EXCEPT ![n] = r]
      /\ SaveCounters(n, r)
      /\ chan' = Reply(n, l, c, <<AckF(k)>>)
      /\ UNCHANGED <<links, gone, born, signed, sessions>>
  BY DEF RecvMsg
<1>4. /\ old \in GroupRec /\ log \in [Node -> [Node -> [Seqs -> 0..MaxMsg]]]
      /\ gap_sent \in [Node -> [Node -> Nat \cup {-1}]] /\ rec \in [Node -> GroupRec]
      /\ old.known /\ ~old.hidden
  BY DEF IInv, TypeOK, Active, NoStub
<1>5. k \in Nat /\ k >= 1 /\ k <= MaxMsg /\ old.have \in [Node -> Nat] /\ old.next_seq \in Nat
  <2>1. old.have \in [Node -> Nat] /\ old.next_seq \in Nat
    BY <1>4 DEF GroupRec
  <2> HIDE DEF k
  <2>2. k \in Nat /\ k >= 1 /\ k <= MaxMsg
    BY <1>2 DEF Seqs
  <2>3. QED
    BY <2>1, <2>2
<1> HIDE DEF m, f, k, c, old
<1>6. /\ r \in GroupRec /\ r.known /\ ~r.hidden /\ r.sent_cursor = old.sent_cursor
      /\ r.next_seq = old.next_seq /\ r.have = [old.have EXCEPT ![m] = k]
  BY <1>1, <1>4, <1>5 DEF GroupRec
<1> HIDE DEF r
<1>7. \A x, a \in Node : \A s \in Seqs :
          log'[x][a][s] = IF x = n /\ a = m /\ s = k THEN log[m][m][k] ELSE log[x][a][s]
  BY <1>1, <1>2, <1>3, <1>4
<1>8. log' \in [Node -> [Node -> [Seqs -> 0..MaxMsg]]]
  BY <1>1, <1>2, <1>3, <1>4
<1>9. \A x \in Node : rec'[x] = IF x = n THEN r ELSE rec[x]
  BY <1>3, <1>4
<1>10. LogsCounted'
  <2> SUFFICES ASSUME NEW x \in Node, NEW a \in Node, NEW s \in Seqs
               PROVE  /\ x = a => (log'[x][a][s] # 0 <=> s < rec'[x].next_seq)
                      /\ x # a => (log'[x][a][s] # 0 <=> s <= rec'[x].have[a])
                      /\ log'[x][a][s] # 0 => log'[x][a][s] = log'[a][a][s]
    BY DEF LogsCounted
  <2>1. /\ x = a => (log[x][a][s] # 0 <=> s < rec[x].next_seq)
        /\ x # a => (log[x][a][s] # 0 <=> s <= rec[x].have[a])
        /\ log[x][a][s] # 0 => log[x][a][s] = log[a][a][s]
    BY DEF IInv, LogsCounted
  <2>2. log'[a][a][s] = log[a][a][s] /\ log[m][m][k] # 0
    BY <1>1, <1>2, <1>7
  <2>3. rec'[x].next_seq = rec[x].next_seq
    BY <1>6, <1>9 DEF old
  <2>4. CASE x = n /\ a = m
    <3>1. rec'[x].have[a] = k /\ rec[x].have[a] = k - 1 /\ x # a
      BY <1>1, <1>2, <1>5, <1>6, <1>9, <2>4 DEF old
    <3>2. s \in Nat
      BY DEF Seqs
    <3>3. CASE s = k
      BY <1>5, <1>7, <2>2, <2>4, <3>1, <3>2, <3>3
    <3>4. CASE s # k
      BY <1>5, <1>7, <2>1, <2>2, <2>4, <3>1, <3>2, <3>4
    <3>5. QED
      BY <3>3, <3>4
  <2>5. CASE ~(x = n /\ a = m)
    <3>1. rec'[x].have[a] = rec[x].have[a]
      BY <1>5, <1>6, <1>9, <2>5 DEF old
    <3>2. log'[x][a][s] = log[x][a][s]
      BY <1>7, <2>5
    <3>3. QED
      BY <2>1, <2>2, <2>3, <3>1, <3>2
  <2>6. QED
    BY <2>4, <2>5
<1>11. LanesOK(chan', OwnLogs', Stored')
  <2>1. OwnLogs' = OwnLogs
    <3>1. ASSUME NEW x \in Node PROVE log'[x][x] = log[x][x]
      <4>1. log'[x][x] \in [Seqs -> 0..MaxMsg] /\ log[x][x] \in [Seqs -> 0..MaxMsg]
        BY <1>4, <1>8
      <4>2. \A s \in Seqs : log'[x][x][s] = log[x][x][s]
        BY <1>1, <1>7
      <4>3. QED
        BY <4>1, <4>2
    <3>2. QED
      BY <3>1 DEF OwnLogs
  <2>2. Stored' \in [Node -> [Node -> Nat]] /\ Stored'[n] = r.have
    <3>1. \A x \in Node : rec'[x].have \in [Node -> Nat]
      BY <1>4, <1>6, <1>9 DEF GroupRec
    <3>2. QED
      BY <1>9, <3>1 DEF Stored
  <2>3. \A x, y \in Node : Stored[x][y] <= Stored'[x][y]
    <3> TAKE x, y \in Node
    <3>1. rec[x].have[y] \in Nat
      BY CounterTypes
    <3>2. rec[x].have[y] <= rec'[x].have[y]
      <4>1. CASE x = n /\ y = m
        BY <1>1, <1>2, <1>5, <1>6, <1>9, <3>1, <4>1 DEF old
      <4>2. CASE ~(x = n /\ y = m)
        BY <1>1, <1>5, <1>6, <1>9, <3>1, <4>2 DEF old
      <4>3. QED
        BY <4>1, <4>2
    <3>3. QED
      BY <3>2 DEF Stored
  <2>4. LanesOK(c, OwnLogs, Stored')
    <3>1. OwnLogs \in [Node -> [Seqs -> 0..MaxMsg]] /\ Stored \in [Node -> [Node -> Nat]]
      BY LanesNow
    <3>2. QED
      BY <1>1, <2>2, <2>3, <3>1, LanesGrow
  <2>5. AckF(k) \in SoundFrames(OwnLogs[n], Stored'[n][m])
    <3>1. Stored'[n][m] = k
      BY <1>1, <1>5, <1>6, <2>2
    <3>2. k \in Nat /\ k <= k
      BY <1>5
    <3>3. QED
      BY <3>1, <3>2, SoundOther
  <2>6. LanesOK(Reply(n, l, c, <<AckF(k)>>), OwnLogs, Stored')
    BY <1>1, <2>4, <2>5, ReplyOne DEF m
  <2>7. QED
    BY <1>3, <2>1, <2>6
<1>12. /\ disk' = disk \/ disk' = [disk EXCEPT ![n] = r]
       /\ used' \in [breaks : Nat, restarts : Nat, drops : Nat, faults : Nat]
  BY <1>3, SavedCounters DEF IInv
<1>13. SessionTypes'
  <2>1. gap_sent' \in [Node -> [Node -> Nat \cup {-1}]]
    BY <1>1, <1>3, <1>4
  <2>2. QED
    BY <1>3, <1>12, <2>1 DEF IInv, TypeOK, SessionTypes, LinkRec, sessions
<1>14. \A x \in Node : /\ rec[n].have[x] <= r.have[x] /\ r.have[x] <= MaxMsg
                       /\ x = n => r.have[x] = 0
  <2> TAKE x \in Node
  <2>1. rec[n].have[x] \in Nat /\ rec[n].have[x] <= MaxMsg /\ (x = n => rec[n].have[x] = 0)
    BY CounterTypes DEF IInv, CountersBehind
  <2>2. CASE x = m
    BY <1>1, <1>2, <1>5, <1>6, <2>1, <2>2 DEF old
  <2>3. CASE x # m
    BY <1>1, <1>5, <1>6, <2>1, <2>3 DEF old
  <2>4. QED
    BY <2>2, <2>3
<1>15. /\ rec[n].next_seq <= r.next_seq /\ r.next_seq <= MaxMsg + 1 /\ rec[n].known
       /\ r.sent_cursor = rec[n].sent_cursor
  BY <1>4, <1>5, <1>6 DEF old, IInv, CountersBehind
<1>16. born' \in [Node -> Seq(Nat)] /\ signed' = signed
  BY <1>3 DEF IInv, TypeOK
<1>17. IInv'
  BY <1>3, <1>6, <1>8, <1>10, <1>11, <1>12, <1>13, <1>14, <1>15, <1>16, GrowStep
<1>18. FeedStep
  <2>1. r.have = [rec[n].have EXCEPT ![m] = rec[n].have[m] + 1] /\ r.next_seq = rec[n].next_seq
    BY <1>2, <1>6 DEF old
  <2>2. rec[n].have[m] + 1 < rec[m].next_seq
    <3>1. log[m][m][k] # 0 /\ k = rec[n].have[m] + 1
      BY <1>2 DEF old
    <3>2. QED
      BY <1>1, <1>2, <3>1 DEF IInv, LogsCounted
  <2>3. QED
    BY <1>1, <1>3, <1>15, <2>1, <2>2, StoreStep
<1>19. QED
  BY <1>17, <1>18

\* A message is logged under the next number and pumped to the members.
LEMMA GroupSendStep ==
    ASSUME IInv, NEW n \in Node, GroupSend(n)
    PROVE  IInv' /\ FeedStep
<1> DEFINE old == rec[n]
           id == Len(born[n]) + 1
           k == old.next_seq
           r == [old EXCEPT !.next_seq = k + 1]
           own == [log[n][n] EXCEPT ![k] = id]
           out == [m \in Node |-> IF m = n THEN << >>
                                   ELSE PumpFrames(r, links[n][m], gone[n], m, own)]
           lks == [m \in Node |-> IF m = n THEN links[n][m]
                                   ELSE PumpLink(n, handle, r, links[n][m], gone[n], m)]
<1>. USE MaxMsgAssumption
<1>1. /\ Active(old) /\ id <= MaxMsg /\ k <= MaxMsg
      /\ log' = [log EXCEPT ![n][n] = own]
      /\ born' = [born EXCEPT ![n] = Append(@, r.state.epoch)]
      /\ rec' = [rec EXCEPT ![n] = r]
      /\ SaveCounters(n, r)
      /\ chan' = Sends(n, handle, chan, out)
      /\ links' = [links EXCEPT ![n] = lks]
      /\ UNCHANGED <<signed, gone, gap_sent, sessions>>
  BY DEF GroupSend
<1>2. /\ old \in GroupRec /\ log \in [Node -> [Node -> [Seqs -> 0..MaxMsg]]]
      /\ born \in [Node -> Seq(Nat)] /\ rec \in [Node -> GroupRec]
      /\ links \in [Node -> [Node -> LinkRec]]
      /\ old.known /\ ~old.hidden
  BY <1>1 DEF IInv, TypeOK, Active, NoStub, LinkRec
<1>3. /\ k \in Nat /\ 1 <= k /\ k \in Seqs
      /\ old.state.epoch \in Nat
  <2>1. k \in Nat /\ old.state.epoch \in Nat
    BY <1>2 DEF GroupRec, GroupState
  <2>2. 1 <= k
    BY DEF IInv, CountersBehind
  <2>3. QED
    BY <1>1, <2>1, <2>2 DEF Seqs
<1>4. id \in 1..MaxMsg
  <2>1. Len(born[n]) \in Nat
    BY <1>2
  <2>2. QED
    BY <1>1, <2>1
<1> HIDE DEF old, id, k
<1>5. /\ r \in GroupRec /\ r.known /\ ~r.hidden /\ r.sent_cursor = old.sent_cursor
      /\ r.next_seq = k + 1 /\ r.have = old.have /\ r.state = old.state
  <2> DEFINE j == k + 1
  <2>1. j \in Nat
    BY <1>3
  <2>2. old \in GroupRec /\ old.known /\ ~old.hidden
    BY <1>2
  <2> HIDE DEF j
  <2>3. [old EXCEPT !.next_seq = j] \in GroupRec
    BY <2>1, <2>2 DEF GroupRec
  <2>4. QED
    BY <2>2, <2>3 DEF GroupRec, j
<1>6. own \in [Seqs -> 0..MaxMsg] /\ \A s \in Seqs : own[s] = IF s = k THEN id ELSE log[n][n][s]
  BY <1>2, <1>3, <1>4
<1> HIDE DEF r, own
<1>7. log' \in [Node -> [Node -> [Seqs -> 0..MaxMsg]]]
  BY <1>1, <1>2, <1>6
<1>8. \A x, a \in Node : log'[x][a] = IF x = n /\ a = n THEN own ELSE log[x][a]
  BY <1>1, <1>2
<1>9. \A x \in Node : rec'[x] = IF x = n THEN r ELSE rec[x]
  BY <1>1, <1>2
<1>10. \A s \in Seqs : own[s] # 0 <=> s < r.next_seq
  <2> TAKE s \in Seqs
  <2>1. log[n][n][s] # 0 <=> s < k
    BY DEF IInv, LogsCounted, k, old
  <2>2. s \in Nat
    BY DEF Seqs
  <2>3. QED
    BY <1>3, <1>4, <1>5, <1>6, <2>1, <2>2
<1>11. LogsCounted'
  <2> SUFFICES ASSUME NEW x \in Node, NEW a \in Node, NEW s \in Seqs
               PROVE  /\ x = a => (log'[x][a][s] # 0 <=> s < rec'[x].next_seq)
                      /\ x # a => (log'[x][a][s] # 0 <=> s <= rec'[x].have[a])
                      /\ log'[x][a][s] # 0 => log'[x][a][s] = log'[a][a][s]
    BY DEF LogsCounted
  <2>1. /\ x = a => (log[x][a][s] # 0 <=> s < rec[x].next_seq)
        /\ x # a => (log[x][a][s] # 0 <=> s <= rec[x].have[a])
        /\ log[x][a][s] # 0 => log[x][a][s] = log[a][a][s]
    BY DEF IInv, LogsCounted
  <2>2. CASE x = n /\ a = n
    BY <1>8, <1>9, <1>10, <2>2
  <2>3. CASE x # n /\ a = n
    <3>1. log'[x][a][s] = log[x][a][s] /\ log'[a][a][s] = own[s] /\ rec'[x] = rec[x]
      BY <1>8, <1>9, <2>3
    <3>2. log[n][n][k] = 0
      BY <1>3 DEF IInv, LogsCounted, k, old
    <3>3. log[x][a][s] # 0 => s # k
      BY <2>1, <2>3, <3>2
    <3>4. QED
      BY <1>6, <2>1, <2>3, <3>1, <3>3
  <2>4. CASE a # n
    <3>1. log'[x][a] = log[x][a] /\ log'[a][a] = log[a][a]
      BY <1>8, <2>4
    <3>2. rec'[x].have = rec[x].have /\ (x = a => rec'[x].next_seq = rec[x].next_seq)
      BY <1>5, <1>9, <2>4 DEF old
    <3>3. QED
      BY <2>1, <3>1, <3>2
  <2>5. QED
    BY <2>2, <2>3, <2>4
<1>12. LanesOK(chan', OwnLogs', Stored')
  <2>1. Stored' = Stored
    BY <1>5, <1>9 DEF Stored, old
  <2>2. OwnLogs' \in [Node -> [Seqs -> 0..MaxMsg]] /\ OwnLogs'[n] = own
    <3>1. \A x \in Node : log'[x][x] \in [Seqs -> 0..MaxMsg]
      BY <1>7
    <3>2. QED
      BY <1>8, <3>1 DEF OwnLogs
  <2>3. \A x \in Node : \A s \in Seqs : OwnLogs[x][s] # 0 => OwnLogs'[x][s] = OwnLogs[x][s]
    <3> TAKE x \in Node
    <3> TAKE s \in Seqs
    <3>1. OwnLogs[x][s] = log[x][x][s] /\ OwnLogs'[x][s] = log'[x][x][s]
      BY DEF OwnLogs
    <3>2. log[n][n][k] = 0
      BY <1>3 DEF IInv, LogsCounted, k, old
    <3>3. QED
      BY <1>6, <1>8, <3>1, <3>2
  <2>4. LanesOK(chan, OwnLogs', Stored)
    <3>1. /\ OwnLogs \in [Node -> [Seqs -> 0..MaxMsg]] /\ Stored \in [Node -> [Node -> Nat]]
          /\ LanesOK(chan, OwnLogs, Stored)
      BY LanesNow
    <3>2. \A x, y \in Node : Stored[x][y] <= Stored[x][y]
      BY <3>1
    <3>3. QED
      BY <2>2, <2>3, <3>1, <3>2, LanesGrow
  <2>5. \A m \in Node : m # n => out[m] \in Seq(SoundFrames(OwnLogs'[n], Stored[n][m]))
    <3> TAKE m \in Node
    <3> HAVE m # n
    <3> DEFINE lk == links[n][m]
               gn == gone[n]
               hm == Stored[n][m]
    <3>1. lk \in LinkRec /\ hm \in Nat
      BY <1>2, LanesNow
    <3>2. 1 <= r.next_seq /\ r.next_seq <= MaxMsg + 1
      BY <1>1, <1>3, <1>5
    <3>3. out[m] = PumpFrames(r, lk, gn, m, own)
      OBVIOUS
    <3> HIDE DEF lk, gn, hm, out
    <3>4. PumpFrames(r, lk, gn, m, own) \in Seq(SoundFrames(own, hm))
      BY <1>5, <1>6, <1>10, <3>1, <3>2, SoundPump
    <3>5. QED
      BY <2>2, <3>3, <3>4 DEF hm
  <2> HIDE DEF out
  <2>6. LanesOK(Sends(n, handle, chan, out), OwnLogs', Stored)
    BY <2>4, <2>5, LanesSends
  <2>7. QED
    BY <1>1, <2>1, <2>6
<1>13. /\ disk' = disk \/ disk' = [disk EXCEPT ![n] = r]
       /\ used' \in [breaks : Nat, restarts : Nat, drops : Nat, faults : Nat]
  BY <1>1, SavedCounters DEF IInv
<1>14. SessionTypes'
  <2>1. \A m \in Node : lks[m] \in LinkRec
    <3> TAKE m \in Node
    <3> DEFINE lk == links[n][m]
               gn == gone[n]
    <3>1. lk \in LinkRec /\ 1 <= r.next_seq
      BY <1>2, <1>3, <1>5
    <3> HIDE DEF lk, gn
    <3>2. PumpLink(n, handle, r, lk, gn, m) \in LinkRec
      BY <1>5, <3>1, PumpLinkType
    <3>3. QED
      BY <3>1, <3>2 DEF lk, gn
  <2>2. lks \in [Node -> LinkRec]
    BY <2>1
  <2> HIDE DEF lks
  <2>3. links' \in [Node -> [Node -> LinkRec]]
    BY <1>1, <1>2, <2>2
  <2>4. QED
    BY <1>1, <1>13, <2>3 DEF IInv, TypeOK, SessionTypes, sessions
<1>15. \A x \in Node : /\ rec[n].have[x] <= r.have[x] /\ r.have[x] <= MaxMsg
                       /\ x = n => r.have[x] = 0
  <2> TAKE x \in Node
  <2>1. rec[n].have[x] \in Nat /\ rec[n].have[x] <= MaxMsg /\ (x = n => rec[n].have[x] = 0)
    BY CounterTypes DEF IInv, CountersBehind
  <2>2. QED
    BY <1>5, <2>1 DEF old
<1>16. /\ rec[n].next_seq <= r.next_seq /\ r.next_seq <= MaxMsg + 1 /\ rec[n].known
       /\ r.sent_cursor = rec[n].sent_cursor
  BY <1>1, <1>2, <1>3, <1>5 DEF old, k
<1>17. born' \in [Node -> Seq(Nat)] /\ signed' = signed
  <2>1. Append(born[n], r.state.epoch) \in Seq(Nat)
    BY <1>2, <1>3, <1>5
  <2>2. QED
    BY <1>1, <1>2, <2>1
<1>18. IInv'
  BY <1>1, <1>5, <1>7, <1>11, <1>12, <1>13, <1>14, <1>15, <1>16, <1>17, GrowStep
<1>19. FeedStep
  <2>1. /\ rec[n].next_seq <= MaxMsg /\ r.next_seq = rec[n].next_seq + 1
        /\ r.have = rec[n].have /\ r.sent_cursor = rec[n].sent_cursor
    BY <1>1, <1>5 DEF old, k
  <2>2. QED
    BY <1>1, <2>1, SayStep
<1>20. QED
  BY <1>18, <1>19
-----------------------------------------------------------------------------
(* The invariant *)

\* No record, no message, no session: the invariant holds at the start.
LEMMA InitIInv == Init => IInv
<1> SUFFICES ASSUME Init PROVE IInv
  OBVIOUS
<1>. USE MaxMsgAssumption, MeshAssumption
<1>1. NoRec \in GroupRec /\ NoState \in GroupState
  BY DEF NoRec, NewRec, NoState, GroupRec, GroupState
<1>2. /\ NoRec.next_seq = 1 /\ ~NoRec.hidden /\ NoRec.known = FALSE
      /\ \A x \in Node : NoRec.have[x] = 0 /\ NoRec.sent_cursor[x] = 0
  BY DEF NoRec, NewRec
<1>3. EmptyLog \in [Seqs -> 0..MaxMsg] /\ \A s \in Seqs : EmptyLog[s] = 0
  BY DEF EmptyLog, Seqs
<1>4. TypeOK
  <2>1. chan \in [Link -> [Node -> Seq(Frame)]] /\ born \in [Node -> Seq(Nat)]
    BY DEF Init
  <2>2. used \in [breaks : Nat, restarts : Nat, drops : Nat, faults : Nat]
    BY DEF Init
  <2>3. QED
    BY <1>1, <1>3, <2>1, <2>2 DEF Init, TypeOK, NoLink
<1>5. LogsCounted
  BY <1>2, <1>3 DEF Init, LogsCounted, Seqs
<1>6. CountersBehind /\ DiskBehind /\ NothingUnknown /\ NoStub
  BY <1>2 DEF Init, CountersBehind, DiskBehind, NothingUnknown, NoStub
<1>7. LanesSound
  <2>1. \A l \in Link, x \in Node : chan[l][x] = << >>
    BY DEF Init
  <2>2. \A S : << >> \in Seq(S)
    OBVIOUS
  <2>3. QED
    BY <2>1, <2>2 DEF LanesSound
<1>8. QED
  BY <1>4, <1>5, <1>6, <1>7 DEF IInv

\* Every step keeps the invariant, as long as nothing is deleted and the
\* saves of rosters succeed.
LEMMA NextIInv ==
    ASSUME IInv, Undisturbed, [Next]_vars
    PROVE  IInv' /\ FeedStep
<1>1. CASE UNCHANGED vars
  <2>1. SessionTypes' /\ LanesOK(chan', OwnLogs, Stored)
    <3>1. SessionTypes'
      BY <1>1 DEF vars, IInv, TypeOK, SessionTypes, LinkRec
    <3>2. LanesOK(chan', OwnLogs, Stored)
      BY <1>1, LanesNow DEF vars
    <3>3. QED
      BY <3>1, <3>2
  <2>2. QED
    BY <1>1, <2>1, SessionStep DEF vars
<1>2. CASE User
  <2>1. ASSUME NEW n \in Node, GroupDelete(n) PROVE FALSE
    BY <2>1 DEF GroupDelete, Undisturbed
  <2>2. QED
    BY <1>2, <2>1, GroupCreateStep, UserEditStep, GroupLeaveStep, GroupSendStep DEF User
<1>3. CASE Engine
  <2>1. ASSUME NEW n \in Node, NEW l \in Link, Recv(n, l) PROVE IInv' /\ FeedStep
    BY <2>1, RecvStateStep, RecvSyncStep, RecvMsgStored, RecvMsgIgnored, RecvAckStep,
       RecvLeaveStep, RecvGoneStep, RecvUnregisteredStep DEF Recv
  <2>2. QED
    BY <1>3, <2>1, DialStep, ConnectStep, AcceptStep, BreakStep DEF Engine
<1>4. CASE Trouble
  BY <1>4, BreakStep, RateLimitStep, RestartStep DEF Trouble
<1>5. QED
  BY <1>1, <1>2, <1>3, <1>4 DEF Next

\* The inductive invariant holds of every behaviour without deletions and
\* without failing roster saves.
THEOREM Invariant == ASSUME Undisturbed PROVE Spec => []IInv
<1>1. Init => IInv
  BY InitIInv
<1>2. IInv /\ [Next]_vars => IInv'
  BY NextIInv
<1>3. QED
  BY <1>1, <1>2, PTL DEF Spec

\* The group implements the abstract feed: a device takes an author's
\* messages over one by one and in order, and an author counts as delivered
\* only what is stored.
THEOREM ImplementsFeed == ASSUME Undisturbed PROVE Spec => FeedSpec
<1>1. Init => Feed!Init
  BY DEF Init, Feed!Init, Said, Stored, Acked, NoRec, NewRec
<1>2. IInv /\ [Next]_vars => [Feed!Next]_<<Said, Stored, Acked>>
  <2> SUFFICES ASSUME IInv, [Next]_vars PROVE [Feed!Next]_<<Said, Stored, Acked>>
    OBVIOUS
  <2>1. FeedStep
    BY NextIInv
  <2>2. CASE RecKept
    BY <2>2 DEF RecKept, Kept, Said, Stored, Acked
  <2>3. QED
    BY <2>1, <2>2 DEF FeedStep
<1>3. QED
  BY <1>1, <1>2, Invariant, PTL DEF Spec, FeedSpec, Feed!Spec

\* Whatever sessions, restarts and failed saves of the counters did, what a
\* device holds of an author is a prefix of what the author wrote.
THEOREM LogsArePrefixes == ASSUME Undisturbed PROVE Spec => []PrefixLog
<1>1. IInv => PrefixLog
  <2> SUFFICES ASSUME IInv, NEW n \in Node, NEW a \in Node, NEW s \in Seqs, log[n][a][s] # 0
               PROVE  log[n][a][s] = log[a][a][s] /\ (s > 1 => log[n][a][s - 1] # 0)
    BY DEF PrefixLog
  <2>1. log[n][a][s] = log[a][a][s]
    BY DEF IInv, LogsCounted
  <2>2. ASSUME s > 1 PROVE log[n][a][s - 1] # 0
    <3>1. s \in Nat /\ s - 1 \in Seqs /\ rec[n].next_seq \in Nat /\ rec[n].have[a] \in Nat
      BY <2>2, MaxMsgAssumption, CounterTypes DEF Seqs
    <3>2. CASE n = a
      <4>1. s < rec[n].next_seq
        BY <3>2 DEF IInv, LogsCounted
      <4>2. s - 1 < rec[n].next_seq
        BY <3>1, <4>1
      <4>3. QED
        BY <3>1, <3>2, <4>2 DEF IInv, LogsCounted
    <3>3. CASE n # a
      <4>1. s <= rec[n].have[a]
        BY <3>3 DEF IInv, LogsCounted
      <4>2. s - 1 <= rec[n].have[a]
        BY <3>1, <4>1
      <4>3. QED
        BY <3>1, <3>3, <4>2 DEF IInv, LogsCounted
    <3>4. QED
      BY <3>2, <3>3
  <2>3. QED
    BY <2>1, <2>2
<1>2. QED
  BY <1>1, Invariant, PTL

\* The delivered tick tells the truth.
THEOREM AcksAreSound == ASSUME Undisturbed PROVE Spec => []AckSound
<1>1. IInv => AckSound
  <2> SUFFICES ASSUME IInv, NEW a \in Node, NEW n \in Node, a # n,
                      NEW s \in Seqs, s <= rec[a].sent_cursor[n]
               PROVE  log[n][a][s] # 0 /\ log[n][a][s] = log[a][a][s]
    BY DEF AckSound
  <2>1. s <= rec[n].have[a]
    <3>1. rec[a].sent_cursor[n] <= rec[n].have[a]
      BY DEF IInv, CountersBehind
    <3>2. s \in Nat /\ rec[a].sent_cursor[n] \in Nat /\ rec[n].have[a] \in Nat
      BY CounterTypes DEF Seqs
    <3>3. QED
      BY <3>1, <3>2
  <2>2. QED
    BY <2>1 DEF IInv, LogsCounted
<1>2. QED
  BY <1>1, Invariant, PTL
=============================================================================
