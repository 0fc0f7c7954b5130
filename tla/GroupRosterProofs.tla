------------------------- MODULE GroupRosterProofs --------------------------
(***************************************************************************)
(* The rosters of GroupMesh, for every set of devices, pairing, number of  *)
(* sessions and bound, with chats that are left, deleted and joined again  *)
(* and counters that are not saved, as long as the save of a roster does   *)
(* not fail (a creator that restarts without its last roster signs its     *)
(* epoch again).  The argument: no roster is newer than the creator's, so  *)
(* that no frame makes it take over another; a device writes under epochs  *)
(* no newer than its own roster and pumps to the members of that roster    *)
(* only, so that every message in a lane or in a log belongs to a reader   *)
(* who was in a roster at least as new; and groups.json never lags behind  *)
(* in anything but counters, so that a restart neither forgets a leave nor *)
(* brings a device back.                                                   *)
(***************************************************************************)
EXTENDS GroupMeshProofs

\* What the theorems assume: a roster that is in force is in groups.json.
RostersSaved == "roster" \notin SaveFaults

\* A reader of message id, written under epoch b[id], was in a roster of that
\* epoch or a later one.
Entitled(b, sg, n, id) ==
    id \in DOMAIN b /\ \E st \in sg : n \in st.members /\ b[id] <= st.epoch

\* groups.json agrees with the memory but for counters, which lag.
Saved(r, d) ==
    /\ d.known = r.known /\ d.state = r.state /\ d.removed = r.removed
    /\ d.pending_leave = r.pending_leave /\ d.hidden = r.hidden

Bounded(r, d) ==
    /\ 1 <= d.next_seq /\ d.next_seq <= r.next_seq /\ r.next_seq <= MaxMsg + 1
    /\ \A a \in Node : d.have[a] <= r.have[a] /\ r.have[a] <= MaxMsg

\* The log holds what the counters say, and nothing without a record or
\* behind a stub.
Counts(n, r, lg) ==
    \A a \in Node, s \in Seqs :
        lg[a][s] # 0 <=> /\ r.known /\ ~r.hidden
                         /\ IF a = n THEN s < r.next_seq ELSE s <= r.have[a]

\* Own messages were written under rosters no newer than the present one,
\* the messages of others by someone whose roster listed this device.
Rightful(n, r, lg, b, sg) ==
    \A a \in Node, s \in Seqs : lg[a][s] # 0 =>
        IF a = n THEN lg[a][s] \in DOMAIN b[a] /\ b[a][lg[a][s]] <= r.state.epoch
                 ELSE Entitled(b[a], sg, n, lg[a][s])

DeviceOK(n, r, d, lg, b, sg) ==
    /\ Saved(r, d) /\ Bounded(r, d) /\ Counts(n, r, lg) /\ Rightful(n, r, lg, b, sg)
    /\ r.hidden => r.pending_leave /\ r.removed
    /\ r.known => r.state \in sg

\* What may be on its way to device n from one that wrote under epochs b.
GoodFrames(b, sg, n) ==
    {f \in Frame :
        /\ f.type = "state" => f.state \in sg
        /\ f.type = "msg" => Entitled(b, sg, n, f.id)}

LanesIn(c, b, sg) ==
    /\ c \in [Link -> [Node -> Seq(Frame)]]
    /\ \A l \in Link, n \in Node : c[l][n] \in Seq(GoodFrames(b[Far(n, l)], sg, n))

\* No roster is newer than the creator's.
CreatorFirst(r, sg) == r.known => \A s \in sg : s.epoch <= r.state.epoch

RosterInv ==
    /\ TypeOK
    /\ \A n \in Node : DeviceOK(n, rec[n], disk[n], log[n], born, signed)
    /\ LanesIn(chan, born, signed)
    /\ CreatorFirst(rec[Creator], signed)

-----------------------------------------------------------------------------
(* Lanes *)

\* A good frame is a frame.
LEMMA GoodSubset ==
    ASSUME NEW b, NEW sg, NEW n
    PROVE  GoodFrames(b, sg, n) \subseteq Frame
  BY DEF GoodFrames

\* The histories grow: messages keep the epoch they were written under.
Extends(b, b2) ==
    \A a \in Node : \A id \in DOMAIN b[a] : id \in DOMAIN b2[a] /\ b2[a][id] = b[a][id]

\* Whoever was entitled to a message stays so.
LEMMA EntitledGrows ==
    ASSUME NEW b, NEW b2, Extends(b, b2), NEW sg, NEW sg2, sg \subseteq sg2,
           NEW a \in Node, NEW n, NEW id, Entitled(b[a], sg, n, id)
    PROVE  Entitled(b2[a], sg2, n, id)
  BY DEF Entitled, Extends

\* Good lanes stay good when more is written and signed.
LEMMA LanesInGrow ==
    ASSUME NEW b, NEW b2, Extends(b, b2), NEW sg, NEW sg2, sg \subseteq sg2,
           NEW c, LanesIn(c, b, sg)
    PROVE  LanesIn(c, b2, sg2)
<1> SUFFICES ASSUME NEW l \in Link, NEW n \in Node
             PROVE  c[l][n] \in Seq(GoodFrames(b2[Far(n, l)], sg2, n))
  BY DEF LanesIn
<1> DEFINE m == Far(n, l)
<1>1. m \in Node
  BY FarType
<1>2. c[l][n] \in Seq(GoodFrames(b[m], sg, n))
  BY DEF LanesIn
<1> HIDE DEF m
<1>3. GoodFrames(b[m], sg, n) \subseteq GoodFrames(b2[m], sg2, n)
  BY <1>1, EntitledGrows DEF GoodFrames
<1>4. c[l][n] \in Seq(GoodFrames(b2[m], sg2, n))
  BY <1>2, <1>3, SeqWiden
<1> QED BY <1>4 DEF m

\* A frame read from a good lane is good, and so is the rest.
LEMMA LanesInTaken ==
    ASSUME NEW b, NEW sg, LanesIn(chan, b, sg),
           NEW l \in Link, NEW n \in Node, chan[l][n] # << >>
    PROVE  /\ LanesIn(Taken(n, l), b, sg)
           /\ Head(chan[l][n]) \in GoodFrames(b[Far(n, l)], sg, n)
<1> DEFINE S(m, k) == GoodFrames(b[Far(m, k)], sg, m)
<1>1. chan[l][n] \in Seq(S(n, l)) /\ chan[l][n] \in Seq(Frame)
  BY DEF LanesIn
<1> HIDE DEF S
<1>2. Tail(chan[l][n]) \in Seq(S(n, l)) /\ Head(chan[l][n]) \in S(n, l)
  BY <1>1, SeqTail
<1>3. Tail(chan[l][n]) \in Seq(Frame)
  BY <1>1, SeqTail
<1>4. \A k \in Link, m \in Node : Taken(n, l)[k][m] = IF k = l /\ m = n THEN Tail(chan[l][n]) ELSE chan[k][m]
  BY DEF Taken, LanesIn
<1>5. Taken(n, l) \in [Link -> [Node -> Seq(Frame)]]
  BY <1>3 DEF Taken, LanesIn
<1>6. \A k \in Link, m \in Node : chan[k][m] \in Seq(S(m, k))
  BY DEF LanesIn, S
<1>7. \A k \in Link, m \in Node : Taken(n, l)[k][m] \in Seq(S(m, k))
  BY <1>2, <1>4, <1>6
<1>8. QED
  BY <1>2, <1>5, <1>7 DEF LanesIn, S

\* n writes to its peers what is good.
LEMMA LanesInSends ==
    ASSUME NEW b, NEW sg, NEW n \in Node, NEW h, NEW c, NEW out, LanesIn(c, b, sg),
           \A m \in Node : m # n => out[m] \in Seq(GoodFrames(b[n], sg, m))
    PROVE  LanesIn(Sends(n, h, c, out), b, sg)
<1> DEFINE S(m, k) == GoodFrames(b[Far(m, k)], sg, m)
           d == Sends(n, h, c, out)
<1>1. ASSUME NEW l \in Link, NEW m \in Node
      PROVE  d[l][m] \in Seq(S(m, l))
  <2>1. c[l][m] \in Seq(S(m, l))
    BY DEF LanesIn
  <2>2. ASSUME l \in LinksOf(n, m) PROVE out[m] \in Seq(S(m, l))
    <3>1. Far(m, l) = n /\ m # n
      BY <2>2, FarEnd
    <3>2. QED
      BY <3>1
  <2> HIDE DEF S
  <2>3. QED
    BY <2>1, <2>2, SendsLane
<1>2. ASSUME NEW l \in Link, NEW m \in Node
      PROVE  d[l][m] \in Seq(Frame)
  <2>1. S(m, l) \subseteq Frame
    BY GoodSubset
  <2> HIDE DEF S, d
  <2>2. QED
    BY <1>1, <2>1, SeqWiden
<1>3. d = [l \in Link |-> [m \in Node |-> d[l][m]]]
  BY SendsShape
<1> HIDE DEF d
<1>4. d \in [Link -> [Node -> Seq(Frame)]]
  BY <1>2, <1>3
<1>5. QED
  BY <1>1, <1>4 DEF LanesIn, d

\* n answers on session l with what is good.
LEMMA LanesInReply ==
    ASSUME NEW b, NEW sg, NEW l \in Link, NEW n \in {l[1], l[2]}, NEW c, LanesIn(c, b, sg),
           NEW fs \in Seq(GoodFrames(b[n], sg, Far(n, l)))
    PROVE  LanesIn(Reply(n, l, c, fs), b, sg)
<1> DEFINE S(m, k) == GoodFrames(b[Far(m, k)], sg, m)
           m0 == Far(n, l)
           d == [c EXCEPT ![l][m0] = @ \o fs]
<1>1. m0 \in Node /\ Far(m0, l) = n
  BY EndFar
<1>2. fs \in Seq(S(m0, l)) /\ c[l][m0] \in Seq(S(m0, l))
  BY <1>1 DEF LanesIn
<1>3. S(m0, l) \subseteq Frame
  BY GoodSubset
<1>4. \A k \in Link, m \in Node : c[k][m] \in Seq(S(m, k))
  BY DEF LanesIn
<1> HIDE DEF S, m0
<1>5. c[l][m0] \o fs \in Seq(S(m0, l))
  BY <1>2, SeqConcat
<1>6. c[l][m0] \o fs \in Seq(Frame)
  BY <1>3, <1>5, SeqWiden
<1>7. c \in [Link -> [Node -> Seq(Frame)]]
  BY DEF LanesIn
<1>8. d \in [Link -> [Node -> Seq(Frame)]]
  BY <1>1, <1>6, <1>7
<1>9. \A k \in Link, m \in Node : d[k][m] = IF k = l /\ m = m0 THEN c[l][m0] \o fs ELSE c[k][m]
  BY <1>1, <1>7
<1>10. \A k \in Link, m \in Node : d[k][m] \in Seq(S(m, k))
  BY <1>4, <1>5, <1>9
<1>11. LanesIn(d, b, sg)
  BY <1>8, <1>10 DEF LanesIn, S
<1>12. QED
  BY <1>11 DEF Reply, m0

\* Lanes of which some were emptied are still good.
LEMMA LanesInEmptied ==
    ASSUME NEW b, NEW sg, LanesIn(chan, b, sg), NEW c,
           c = [l \in Link |-> [m \in Node |-> c[l][m]]],
           \A l \in Link, m \in Node : c[l][m] \in {<< >>, chan[l][m]}
    PROVE  LanesIn(c, b, sg)
<1> DEFINE S(n, k) == GoodFrames(b[Far(n, k)], sg, n)
<1>1. \A l \in Link, m \in Node : chan[l][m] \in Seq(S(m, l)) /\ chan[l][m] \in Seq(Frame)
  BY DEF LanesIn
<1> HIDE DEF S
<1>2. \A l \in Link, m \in Node : c[l][m] \in Seq(S(m, l)) /\ c[l][m] \in Seq(Frame)
  <2> TAKE l \in Link, m \in Node
  <2> DEFINE T == S(m, l)
  <2>1. << >> \in Seq(T) /\ << >> \in Seq(Frame)
    OBVIOUS
  <2>2. chan[l][m] \in Seq(T) /\ chan[l][m] \in Seq(Frame) /\ c[l][m] \in {<< >>, chan[l][m]}
    BY <1>1
  <2> HIDE DEF T
  <2>3. c[l][m] \in Seq(T) /\ c[l][m] \in Seq(Frame)
    BY <2>1, <2>2
  <2>4. QED
    BY <2>3 DEF T
<1>3. c \in [Link -> [Node -> Seq(Frame)]]
  BY <1>2
<1>4. QED
  BY <1>2, <1>3 DEF LanesIn, S

\* An answer of one frame on the session it came from.
LEMMA ReplyGood ==
    ASSUME NEW b, NEW sg, NEW l \in Link, NEW n \in {l[1], l[2]}, NEW c, LanesIn(c, b, sg),
           NEW f \in GoodFrames(b[n], sg, Far(n, l))
    PROVE  LanesIn(Reply(n, l, c, <<f>>), b, sg)
<1> DEFINE S == GoodFrames(b[n], sg, Far(n, l))
<1>1. f \in S
  OBVIOUS
<1> HIDE DEF S
<1>2. <<f>> \in Seq(S)
  BY <1>1
<1>3. <<f>> \in Seq(GoodFrames(b[n], sg, Far(n, l)))
  BY <1>2 DEF S
<1>4. QED
  BY <1>3, LanesInReply

-----------------------------------------------------------------------------
(* Frames *)

\* A roster that was signed may be sent to anyone.
LEMMA GoodState ==
    ASSUME NEW b, NEW sg, NEW n, NEW s \in GroupState, s \in sg
    PROVE  StateF(s) \in GoodFrames(b, sg, n)
  BY DEF GoodFrames, Frame, StateF

\* So may what is neither a roster nor a message.
LEMMA GoodOther ==
    ASSUME NEW b, NEW sg, NEW n, NEW r \in GroupRec, NEW m \in Node, NEW k \in Nat
    PROVE  /\ SyncF(r, m) \in GoodFrames(b, sg, n)
           /\ LeaveF \in GoodFrames(b, sg, n)
           /\ GoneF \in GoodFrames(b, sg, n)
           /\ AckF(k) \in GoodFrames(b, sg, n)
  BY DEF GoodFrames, Frame, SyncF, LeaveF, GoneF, AckF, GroupRec, GroupState

\* A device whose messages were written under rosters no newer than its own
\* pumps them to the members of that roster only.
LEMMA GoodPump ==
    ASSUME NEW lg \in [Seqs -> 0..MaxMsg], NEW r \in GroupRec, NEW lk \in LinkRec, NEW gn,
           NEW m \in Node, NEW b, NEW sg, 1 <= r.next_seq, r.next_seq <= MaxMsg + 1,
           Active(r) => r.state \in sg,
           Active(r) => \A s \in Seqs : s < r.next_seq =>
               lg[s] # 0 /\ lg[s] \in DOMAIN b /\ b[lg[s]] <= r.state.epoch
    PROVE  PumpFrames(r, lk, gn, m, lg) \in Seq(GoodFrames(b, sg, m))
<1>. USE MaxMsgAssumption
<1> DEFINE first == PumpFirst(r, lk, m)
           upto == PumpLast(r, m)
           S == GoodFrames(b, sg, m)
<1>1. /\ first \in Nat /\ first >= 1
      /\ upto \in Int /\ upto <= r.next_seq - 1
      /\ r.next_seq \in Nat
  BY MeshAssumption DEF PumpFirst, PumpLast, MaxOf, MinOf, GroupRec, LinkRec
<1> HIDE DEF first, upto
<1>2. << >> \in Seq(S)
  OBVIOUS
<1>3. ASSUME first <= upto, InStep(r, lk, gn, m)
      PROVE  [i \in 1..(upto - first + 1) |-> MsgF(first + i - 1, lg[first + i - 1])] \in Seq(S)
  <2> DEFINE len == upto - first + 1
  <2>1. len \in Nat
    BY <1>1, <1>3
  <2>2. ASSUME NEW i \in 1..len PROVE MsgF(first + i - 1, lg[first + i - 1]) \in S
    <3> DEFINE j == first + i - 1
    <3>1. j \in Seqs /\ j < r.next_seq
      <4>1. i \in Int /\ 1 <= i /\ i <= upto - first + 1
        BY <1>1, <2>1, <2>2
      <4>2. j \in Int /\ 1 <= j /\ j <= upto
        BY <1>1, <4>1
      <4> HIDE DEF j
      <4>3. j < r.next_seq /\ j <= MaxMsg
        BY <1>1, <4>2
      <4> QED BY <4>2, <4>3 DEF Seqs
    <3> HIDE DEF j
    <3>2. /\ lg[j] # 0 /\ lg[j] \in DOMAIN b /\ b[lg[j]] <= r.state.epoch
          /\ r.state \in sg /\ m \in r.state.members
      BY <1>3, <3>1 DEF InStep
    <3>3. lg[j] \in 1..MaxMsg
      BY <3>1, <3>2
    <3>4. MsgF(j, lg[j]) \in S
      BY <3>1, <3>2, <3>3 DEF GoodFrames, Frame, MsgF, Entitled
    <3> QED BY <3>4 DEF j
  <2> HIDE DEF S, len
  <2>3. [i \in 1..len |-> MsgF(first + i - 1, lg[first + i - 1])] \in Seq(S)
    BY <2>1, <2>2
  <2> QED BY <2>3 DEF len
<1> QED BY <1>2, <1>3 DEF PumpFrames, first, upto

-----------------------------------------------------------------------------
(* One device takes a step *)

\* A device that is out comes back only with a newer roster that lists it,
\* and not before its own leave was heard.
Stays(n, q, r) ==
    (q.known /\ q.removed /\ r.known /\ ~r.removed) =>
        r.state.epoch > q.state.epoch /\ n \in r.state.members /\ ~q.pending_leave

Stay == \A n \in Node : Stays(n, rec[n], rec'[n])

\* What is right for a device stays so when others write and sign.
LEMMA DeviceGrows ==
    ASSUME NEW n \in Node, NEW r, NEW d, NEW lg, NEW b, NEW b2, NEW sg, NEW sg2,
           Extends(b, b2), sg \subseteq sg2, DeviceOK(n, r, d, lg, b, sg)
    PROVE  DeviceOK(n, r, d, lg, b2, sg2)
<1>1. Rightful(n, r, lg, b2, sg2)
  <2> SUFFICES ASSUME NEW a \in Node, NEW s \in Seqs, lg[a][s] # 0
               PROVE  IF a = n THEN lg[a][s] \in DOMAIN b2[a] /\ b2[a][lg[a][s]] <= r.state.epoch
                               ELSE Entitled(b2[a], sg2, n, lg[a][s])
    BY DEF Rightful
  <2>1. CASE a = n
    BY <2>1 DEF DeviceOK, Rightful, Extends
  <2>2. CASE a # n
    BY <2>2, EntitledGrows DEF DeviceOK, Rightful
  <2> QED BY <2>1, <2>2
<1> QED BY <1>1 DEF DeviceOK

\* A step of device n keeps the invariant if it is right for n itself and
\* leaves good frames, and the creator signs nothing behind its own roster.
LEMMA DeviceStep ==
    ASSUME RosterInv, NEW n \in Node, NEW r \in GroupRec, NEW d \in GroupRec,
           NEW lg \in [Node -> [Seqs -> 0..MaxMsg]],
           rec' = [rec EXCEPT ![n] = r], disk' = [disk EXCEPT ![n] = d],
           log' = [log EXCEPT ![n] = lg],
           born' \in [Node -> Seq(Nat)], Extends(born, born'),
           signed \subseteq signed', signed' \in SUBSET GroupState,
           DeviceOK(n, r, d, lg, born', signed'), Stays(n, rec[n], r),
           CreatorFirst(rec'[Creator], signed'), SessionTypes',
           LanesIn(chan', born', signed')
    PROVE  RosterInv' /\ Stay
<1>1. /\ rec \in [Node -> GroupRec] /\ disk \in [Node -> GroupRec]
      /\ log \in [Node -> [Node -> [Seqs -> 0..MaxMsg]]]
  BY DEF RosterInv, TypeOK
<1>2. TypeOK'
  <2>1. /\ rec' \in [Node -> GroupRec] /\ disk' \in [Node -> GroupRec]
        /\ log' \in [Node -> [Node -> [Seqs -> 0..MaxMsg]]]
    BY <1>1
  <2>2. chan' \in [Link -> [Node -> Seq(Frame)]]
    BY DEF LanesIn
  <2> QED BY <2>1, <2>2 DEF TypeOK, SessionTypes, LinkRec
<1>3. ASSUME NEW x \in Node PROVE DeviceOK(x, rec'[x], disk'[x], log'[x], born', signed')
  <2>1. CASE x = n
    BY <1>1, <2>1
  <2>2. CASE x # n
    <3>1. rec'[x] = rec[x] /\ disk'[x] = disk[x] /\ log'[x] = log[x]
      BY <1>1, <2>2
    <3>2. DeviceOK(x, rec[x], disk[x], log[x], born, signed)
      BY DEF RosterInv
    <3>3. DeviceOK(x, rec[x], disk[x], log[x], born', signed')
      BY <3>2, DeviceGrows
    <3> QED BY <3>1, <3>3
  <2> QED BY <2>1, <2>2
<1>4. Stay
  BY <1>1 DEF Stay, Stays
<1> QED BY <1>2, <1>3, <1>4 DEF RosterInv

\* A step that leaves records, disks, logs and histories alone.
LEMMA SessionKeeps ==
    ASSUME RosterInv, UNCHANGED <<rec, disk, log, born, signed>>, SessionTypes',
           LanesIn(chan', born, signed)
    PROVE  RosterInv' /\ Stay
<1>1. TypeOK'
  BY DEF RosterInv, TypeOK, SessionTypes, LinkRec, LanesIn
<1>2. Stay
  BY DEF Stay, Stays
<1>3. \A n \in Node : DeviceOK(n, rec'[n], disk'[n], log'[n], born', signed')
  BY DEF RosterInv
<1>4. LanesIn(chan', born', signed') /\ CreatorFirst(rec'[Creator], signed')
  BY DEF RosterInv
<1> QED BY <1>1, <1>2, <1>3, <1>4 DEF RosterInv

\* A step of device n that signs and writes nothing, and leaves the creator's
\* roster alone.
LEMMA DeviceKeeps ==
    ASSUME RosterInv, NEW n \in Node, NEW r \in GroupRec, NEW d \in GroupRec,
           NEW lg \in [Node -> [Seqs -> 0..MaxMsg]],
           rec' = [rec EXCEPT ![n] = r], disk' = [disk EXCEPT ![n] = d],
           log' = [log EXCEPT ![n] = lg], UNCHANGED <<born, signed>>,
           DeviceOK(n, r, d, lg, born, signed), Stays(n, rec[n], r),
           n = Creator /\ r.known => rec[n].known /\ r.state = rec[n].state,
           SessionTypes', LanesIn(chan', born, signed)
    PROVE  RosterInv' /\ Stay
<1>1. /\ rec \in [Node -> GroupRec] /\ born \in [Node -> Seq(Nat)]
      /\ signed \in SUBSET GroupState
  BY DEF RosterInv, TypeOK
<1>2. CreatorFirst(rec'[Creator], signed')
  <2>1. CreatorFirst(rec[Creator], signed)
    BY DEF RosterInv
  <2>2. CASE n = Creator
    BY <1>1, <2>1, <2>2 DEF CreatorFirst
  <2>3. CASE n # Creator
    BY <1>1, <2>1, <2>3, CreatorAssumption DEF CreatorFirst
  <2> QED BY <2>2, <2>3
<1>4. Extends(born, born') /\ born' \in [Node -> Seq(Nat)] /\ signed' \in SUBSET GroupState
  BY <1>1 DEF Extends
<1>5. DeviceOK(n, r, d, lg, born', signed') /\ LanesIn(chan', born', signed')
  OBVIOUS
<1> QED BY <1>2, <1>4, <1>5, DeviceStep

\* The facts every step starts from.
LEMMA Facts ==
    ASSUME RosterInv
    PROVE  /\ rec \in [Node -> GroupRec] /\ disk \in [Node -> GroupRec]
           /\ log \in [Node -> [Node -> [Seqs -> 0..MaxMsg]]]
           /\ links \in [Node -> [Node -> LinkRec]] /\ gone \in [Node -> SUBSET Node]
           /\ gap_sent \in [Node -> [Node -> Nat \cup {-1}]]
           /\ handle \in [Node -> [Link -> 0..(2 * Slots)]]
           /\ born \in [Node -> Seq(Nat)] /\ signed \in SUBSET GroupState
           /\ used \in [breaks : Nat, restarts : Nat, drops : Nat, faults : Nat]
           /\ NoLink \in LinkRec
           /\ TypeOK /\ SessionTypes /\ LanesIn(chan, born, signed)
           /\ \A n \in Node : DeviceOK(n, rec[n], disk[n], log[n], born, signed)
  BY DEF RosterInv, TypeOK, SessionTypes, LinkRec, NoLink

-----------------------------------------------------------------------------
(* Steps of the sessions *)

\* The opening frames of a session are good.
LEMMA OpenGood ==
    ASSUME RosterInv, NEW n \in Node, NEW m \in Node
    PROVE  OpenFrames(n, m) \in Seq(GoodFrames(born[n], signed, m))
<1> DEFINE S == GoodFrames(born[n], signed, m)
           f == StateF(rec[n].state)
           g == SyncF(rec[n], m)
<1>1. rec[n] \in GroupRec /\ rec[n].state \in GroupState
  BY Facts DEF GroupRec
<1>2. rec[n].known => f \in S
  BY <1>1, Facts, GoodState DEF DeviceOK
<1>3. g \in S /\ LeaveF \in S
  BY <1>1, GoodOther
<1> HIDE DEF S, f, g
<1>4. << >> \in Seq(S) /\ <<g>> \in Seq(S) /\ <<LeaveF>> \in Seq(S)
  BY <1>3
<1>5. rec[n].known => <<f, g>> \in Seq(S)
  BY <1>2, <1>3
<1> QED BY <1>4, <1>5 DEF OpenFrames, S, f, g

\* connect_and_serve
LEMMA ConnectKeeps ==
    ASSUME RosterInv, NEW l \in Link, Connect(l)
    PROVE  RosterInv' /\ Stay
<1> DEFINE p == l[1]
           q == l[2]
           c == [chan EXCEPT ![l][q] = OpenFrames(p, q)]
<1>1. p \in Node /\ q \in Node /\ p # q /\ Far(q, l) = p
  BY DEF Link, Far
<1>2. SessionTypes'
  <2>1. handle' \in [Node -> [Link -> 0..(2 * Slots)]]
    BY <1>1, Facts, RegisterType DEF Connect
  <2>2. /\ task' = [task EXCEPT ![l] = {p}] /\ phase' = [phase EXCEPT ![l] = "ring"]
    BY DEF Connect
  <2>3. /\ task \in [Link -> SUBSET Node]
        /\ \A k \in Link : task[k] \subseteq {k[1], k[2]}
        /\ phase \in [Link -> {"idle", "dialing", "ring", "up"}]
    BY DEF RosterInv, TypeOK
  <2>4. /\ task' \in [Link -> SUBSET Node]
        /\ \A k \in Link : task'[k] \subseteq {k[1], k[2]}
    BY <1>1, <2>2, <2>3
  <2>5. phase' \in [Link -> {"idle", "dialing", "ring", "up"}]
    BY <2>2, <2>3
  <2>6. /\ links \in [Node -> [Node -> LinkRec]] /\ gone \in [Node -> SUBSET Node]
        /\ gap_sent \in [Node -> [Node -> Nat \cup {-1}]]
        /\ used \in [breaks : Nat, restarts : Nat, drops : Nat, faults : Nat]
    BY Facts
  <2>7. UNCHANGED <<links, gone, gap_sent, used>>
    BY DEF Connect, runtime
  <2> QED BY <2>1, <2>4, <2>5, <2>6, <2>7 DEF SessionTypes
<1>3. LanesIn(c, born, signed)
  <2> DEFINE S(n, k) == GoodFrames(born[Far(n, k)], signed, n)
  <2>1. /\ chan \in [Link -> [Node -> Seq(Frame)]]
        /\ \A k \in Link, n \in Node : chan[k][n] \in Seq(S(n, k))
    BY Facts DEF LanesIn
  <2>2. OpenFrames(p, q) \in Seq(S(q, l))
    BY <1>1, OpenGood
  <2>3. S(q, l) \subseteq Frame
    BY GoodSubset
  <2> HIDE DEF S, p, q
  <2>4. OpenFrames(p, q) \in Seq(Frame)
    BY <2>2, <2>3, SeqWiden
  <2>5. c \in [Link -> [Node -> Seq(Frame)]]
    BY <1>1, <2>1, <2>4
  <2>6. \A k \in Link, n \in Node : c[k][n] = IF k = l /\ n = q THEN OpenFrames(p, q) ELSE chan[k][n]
    BY <1>1, <2>1
  <2>7. \A k \in Link, n \in Node : c[k][n] \in Seq(S(n, k))
    BY <2>1, <2>2, <2>6
  <2> QED BY <2>5, <2>7 DEF LanesIn, S
<1>4. chan' = c \/ chan' = chan
  BY DEF Connect
<1>5. LanesIn(chan', born, signed)
  BY <1>3, <1>4, Facts
<1> QED BY <1>2, <1>5, SessionKeeps DEF Connect

\* handle_incoming
LEMMA AcceptKeeps ==
    ASSUME RosterInv, NEW l \in Link, Accept(l)
    PROVE  RosterInv' /\ Stay
<1> DEFINE p == l[1]
           q == l[2]
<1>1. p \in Node /\ q \in Node /\ p # q /\ Far(q, l) = p /\ q \in {l[1], l[2]}
  BY DEF Link, Far
<1>2. SessionTypes'
  <2>1. handle' \in [Node -> [Link -> 0..(2 * Slots)]]
    BY <1>1, Facts, RegisterType DEF Accept
  <2>2. /\ task' \in [Link -> SUBSET Node]
        /\ \A k \in Link : task'[k] \subseteq {k[1], k[2]}
        /\ phase' \in [Link -> {"idle", "dialing", "ring", "up"}]
    <3>1. /\ task \in [Link -> SUBSET Node] /\ \A k \in Link : task[k] \subseteq {k[1], k[2]}
          /\ phase \in [Link -> {"idle", "dialing", "ring", "up"}]
      BY DEF RosterInv, TypeOK
    <3>2. task' = task \/ task' = [task EXCEPT ![l] = @ \cup {q}]
      BY DEF Accept
    <3>3. phase' \in [Link -> {"idle", "dialing", "ring", "up"}]
      BY <3>1 DEF Accept
    <3> QED BY <1>1, <3>1, <3>2, <3>3
  <2> QED BY <2>1, <2>2, Facts DEF SessionTypes, Accept, runtime
<1>3. LanesIn(Reply(q, l, chan, OpenFrames(q, p)), born, signed)
  <2>1. OpenFrames(q, p) \in Seq(GoodFrames(born[q], signed, Far(q, l)))
    BY <1>1, OpenGood
  <2> HIDE DEF p, q
  <2> QED BY <1>1, <2>1, Facts, LanesInReply
<1>4. LanesIn([chan EXCEPT ![l][q] = << >>], born, signed)
  <2> DEFINE c == [chan EXCEPT ![l][q] = << >>]
  <2>1. chan \in [Link -> [Node -> Seq(Frame)]]
    BY DEF RosterInv, TypeOK
  <2>2. \A k \in Link, n \in Node : c[k][n] = IF k = l /\ n = q THEN << >> ELSE chan[k][n]
    BY <1>1, <2>1
  <2>3. c = [k \in Link |-> [m \in Node |-> c[k][m]]]
    BY <1>1, <2>1
  <2>4. LanesIn(chan, born, signed)
    BY Facts
  <2> HIDE DEF c
  <2>5. \A k \in Link, n \in Node : c[k][n] \in {<< >>, chan[k][n]}
    BY <2>2
  <2>6. LanesIn(c, born, signed)
    BY <2>3, <2>4, <2>5, LanesInEmptied
  <2> QED BY <2>6 DEF c
<1>5. LanesIn(chan', born, signed)
  BY <1>3, <1>4 DEF Accept
<1> QED BY <1>2, <1>5, SessionKeeps DEF Accept

\* A session_task ends, by itself or because the far end is over.
LEMMA BreakKeeps ==
    ASSUME RosterInv, NEW n \in Node, NEW l \in Link, Break(n, l) \/ Notice(n, l)
    PROVE  RosterInv' /\ Stay
<1>1. EndTasks(n, {l}) /\ RemoveLive(n, l) /\ UNCHANGED <<rec, disk, log, gone, born, signed>>
  BY DEF Break, Notice
<1>2. used' \in [breaks : Nat, restarts : Nat, drops : Nat, faults : Nat]
  BY Facts DEF Break, Notice
<1>3. SessionTypes'
  BY <1>1, <1>2, Facts, EndTasksTypes, RemoveLiveFacts DEF SessionTypes
<1>4. LanesIn(chan', born, signed)
  BY <1>1, Facts, EndTasksTypes, LanesInEmptied
<1> QED BY <1>1, <1>3, <1>4, SessionKeeps

\* Attempts to connect, frames that are dropped or ignored, and GroupGone.
LEMMA QuietKeeps ==
    ASSUME RosterInv,
           \/ \E p, q \in Node, i \in 1..Slots : Dial(p, q, i)
           \/ \E n \in Node, l \in Link : RecvUnregistered(n, l) \/ RateLimit(n, l) \/ RecvGone(n, l)
    PROVE  RosterInv' /\ Stay
<1>1. ASSUME NEW p \in Node, NEW q \in Node, NEW i \in 1..Slots, Dial(p, q, i)
      PROVE  RosterInv' /\ Stay
  <2>1. phase' \in [Link -> {"idle", "dialing", "ring", "up"}]
    BY <1>1 DEF RosterInv, TypeOK, Dial
  <2>2. SessionTypes'
    BY <1>1, <2>1, Facts DEF SessionTypes, Dial, runtime
  <2> QED BY <1>1, <2>2, Facts, SessionKeeps DEF Dial
<1>2. ASSUME NEW n \in Node, NEW l \in Link, RecvUnregistered(n, l) \/ RateLimit(n, l)
      PROVE  RosterInv' /\ Stay
  <2>1. used' \in [breaks : Nat, restarts : Nat, drops : Nat, faults : Nat]
    <3>1. used \in [breaks : Nat, restarts : Nat, drops : Nat, faults : Nat]
      BY Facts
    <3> QED BY <1>2, <3>1 DEF RecvUnregistered, RateLimit
  <2>2. SessionTypes'
    BY <1>2, <2>1, Facts DEF SessionTypes, RecvUnregistered, RateLimit, runtime, sessions
  <2>3. LanesIn(chan', born, signed)
    BY <1>2, Facts, LanesInTaken DEF RecvUnregistered, RateLimit
  <2> QED BY <1>2, <2>2, <2>3, SessionKeeps DEF RecvUnregistered, RateLimit
<1>3. ASSUME NEW n \in Node, NEW l \in Link, RecvGone(n, l)
      PROVE  RosterInv' /\ Stay
  <2> DEFINE m == Far(n, l)
  <2>1. m \in Node
    BY FarType
  <2>2. /\ links' = links \/ links' = [links EXCEPT ![n][m] = NoLink]
        /\ gone' = gone \/ gone' = [gone EXCEPT ![n] = @ \cup {m}]
    BY <1>3 DEF RecvGone
  <2> HIDE DEF m
  <2>3. links' \in [Node -> [Node -> LinkRec]] /\ gone' \in [Node -> SUBSET Node]
    <3>1. links \in [Node -> [Node -> LinkRec]] /\ gone \in [Node -> SUBSET Node] /\ NoLink \in LinkRec
      BY Facts
    <3> QED BY <1>3, <2>1, <2>2, <3>1
  <2>4. SessionTypes'
    BY <1>3, <2>3, Facts DEF SessionTypes, RecvGone, sessions
  <2>5. LanesIn(chan', born, signed)
    BY <1>3, Facts, LanesInTaken DEF RecvGone, Arrived
  <2> QED BY <1>3, <2>4, <2>5, SessionKeeps DEF RecvGone
<1> QED BY <1>1, <1>2, <1>3

-----------------------------------------------------------------------------
(* Steps that give one device a new roster *)

\* A roster is written at once.
LEMMA RosterWritten ==
    ASSUME RostersSaved, NEW n \in Node, NEW r, NEW ok \in BOOLEAN, SaveRoster(n, r, ok)
    PROVE  ok /\ disk' = [disk EXCEPT ![n] = r] /\ used' = used
  BY DEF RostersSaved, SaveRoster

\* A record with a roster that is no older is right for the log that is there.
LEMMA RosterChange ==
    ASSUME NEW n \in Node, NEW q \in GroupRec, NEW d \in GroupRec, NEW lg,
           NEW b \in [Node -> Seq(Nat)], NEW sg, NEW sg2, sg \subseteq sg2,
           DeviceOK(n, q, d, lg, b, sg), NEW r \in GroupRec, r.known, r.state \in sg2,
           r.hidden => r.pending_leave /\ r.removed,
           q.known, r.next_seq = q.next_seq, r.have = q.have,
           r.hidden = q.hidden, q.state.epoch <= r.state.epoch
    PROVE  DeviceOK(n, r, r, lg, b, sg2)
<1>. USE MaxMsgAssumption
<1>1. Saved(r, r)
  BY DEF Saved
<1>2. Bounded(r, r)
  <2>1. /\ Bounded(q, d) /\ q.next_seq \in Nat /\ d.next_seq \in Nat
        /\ \A a \in Node : q.have[a] \in Nat
    BY DEF DeviceOK, GroupRec
  <2>2. /\ q.next_seq >= d.next_seq /\ d.next_seq >= 1 /\ q.next_seq <= MaxMsg + 1
        /\ \A a \in Node : q.have[a] <= MaxMsg
    BY <2>1 DEF Bounded
  <2>3. q.next_seq >= 1
    BY <2>1, <2>2
  <2> QED BY <2>1, <2>2, <2>3 DEF Bounded
<1>3. Counts(n, r, lg)
  BY DEF DeviceOK, Counts
<1>4. Rightful(n, r, lg, b, sg2)
  <2> SUFFICES ASSUME NEW a \in Node, NEW s \in Seqs, lg[a][s] # 0
               PROVE  IF a = n THEN lg[a][s] \in DOMAIN b[a] /\ b[a][lg[a][s]] <= r.state.epoch
                               ELSE Entitled(b[a], sg2, n, lg[a][s])
    BY DEF Rightful
  <2>1. CASE a = n
    <3> DEFINE id == lg[a][s]
               w == b[a]
    <3>1. id \in DOMAIN w /\ w[id] <= q.state.epoch
      BY <2>1 DEF DeviceOK, Rightful
    <3>2. q.state.epoch \in Nat /\ r.state.epoch \in Nat /\ w \in Seq(Nat)
      BY DEF GroupRec, GroupState
    <3> HIDE DEF id, w
    <3>3. w[id] \in Nat
      BY <3>1, <3>2
    <3>4. w[id] <= r.state.epoch
      BY <3>1, <3>2, <3>3
    <3> QED BY <2>1, <3>1, <3>4 DEF id, w
  <2>2. CASE a # n
    BY <2>2 DEF DeviceOK, Rightful, Entitled
  <2> QED BY <2>1, <2>2
<1> QED BY <1>1, <1>2, <1>3, <1>4 DEF DeviceOK

\* Without a record there is no log, and a first record counts from the start.
LEMMA RosterFirst ==
    ASSUME NEW n \in Node, NEW q, NEW d, NEW lg, NEW b, NEW sg, NEW sg2,
           DeviceOK(n, q, d, lg, b, sg), NEW s \in GroupState, s \in sg2, ~q.known
    PROVE  DeviceOK(n, NewRec(s), NewRec(s), lg, b, sg2)
<1>. USE MaxMsgAssumption
<1> DEFINE r == NewRec(s)
<1>1. /\ r.known /\ r.state = s /\ ~r.hidden /\ r.next_seq = 1
      /\ \A a \in Node : r.have[a] = 0
  BY DEF NewRec
<1>2. \A a \in Node, i \in Seqs : lg[a][i] = 0
  BY DEF DeviceOK, Counts
<1> HIDE DEF r
<1>3. Saved(r, r) /\ Bounded(r, r) /\ Rightful(n, r, lg, b, sg2)
  BY <1>1, <1>2 DEF Saved, Bounded, Rightful
<1>4. Counts(n, r, lg)
  BY <1>1, <1>2 DEF Counts, Seqs
<1>5. DeviceOK(n, r, r, lg, b, sg2)
  BY <1>1, <1>3, <1>4 DEF DeviceOK
<1> QED BY <1>5 DEF r

\* The announcement of a signed roster is good.
LEMMA AnnounceGood ==
    ASSUME NEW r \in GroupRec, NEW before, NEW b, NEW sg, r.state \in sg, NEW m \in Node
    PROVE  Announce(r, before)[m] \in Seq(GoodFrames(b, sg, m))
<1> DEFINE S == GoodFrames(b, sg, m)
           f == StateF(r.state)
           g == SyncF(r, m)
<1>1. f \in S
  BY GoodState DEF GroupRec
<1>2. g \in S
  BY GoodOther
<1> HIDE DEF S, f, g
<1>3. << >> \in Seq(S) /\ <<f>> \in Seq(S) /\ <<f, g>> \in Seq(S)
  BY <1>1, <1>2
<1> QED BY <1>3 DEF Announce, S, f, g

\* Signing grows the histories.
LEMMA SameBorn ==
    ASSUME born' = born, born \in [Node -> Seq(Nat)]
    PROVE  born' \in [Node -> Seq(Nat)] /\ Extends(born, born')
  BY DEF Extends

\* A log that stays is the log of a step of device n.
LEMMA SameLog ==
    ASSUME RosterInv, NEW n \in Node, log' = log
    PROVE  log[n] \in [Node -> [Seqs -> 0..MaxMsg]] /\ log' = [log EXCEPT ![n] = log[n]]
<1>1. log \in [Node -> [Node -> [Seqs -> 0..MaxMsg]]]
  BY Facts
<1> QED BY <1>1

\* group_create signs the first roster.
LEMMA GroupCreateKeeps ==
    ASSUME RosterInv, RostersSaved, NEW ms \in SUBSET Node, GroupCreate(ms)
    PROVE  RosterInv' /\ Stay
<1> DEFINE s == [epoch |-> 1, closed |-> FALSE, members |-> {Creator} \cup ms]
           r == NewRec(s)
<1>. USE CreatorAssumption
<1>1. s \in GroupState /\ r \in GroupRec /\ s.epoch = 1
  BY NewRecType DEF GroupState
<1>2. /\ r.known /\ r.state = s /\ ~r.hidden /\ ~r.removed
      /\ r.next_seq = 1 /\ r.have = [m \in Node |-> 0]
  BY DEF NewRec
<1>3. /\ rec' = [rec EXCEPT ![Creator] = r] /\ signed' = {s} /\ signed = {} /\ ~rec[Creator].known
      /\ UNCHANGED <<log, born, runtime, sessions>>
      /\ \E ok \in BOOLEAN :
            /\ SaveRoster(Creator, r, ok)
            /\ chan' = IF ok THEN Sends(Creator, handle, chan, Announce(r, {})) ELSE chan
  BY DEF GroupCreate
<1> HIDE DEF s, r
<1>4. /\ disk' = [disk EXCEPT ![Creator] = r] /\ used' = used
      /\ chan' = Sends(Creator, handle, chan, Announce(r, {}))
  BY <1>3, RosterWritten
<1>5. /\ rec \in [Node -> GroupRec] /\ born \in [Node -> Seq(Nat)]
      /\ log[Creator] \in [Node -> [Seqs -> 0..MaxMsg]] /\ log' = [log EXCEPT ![Creator] = log[Creator]]
      /\ DeviceOK(Creator, rec[Creator], disk[Creator], log[Creator], born, signed)
      /\ LanesIn(chan, born, signed)
  BY <1>3, Facts, SameLog
<1>6. DeviceOK(Creator, r, r, log[Creator], born', signed')
  <2>1. s \in signed' /\ born' = born
    BY <1>3
  <2>2. DeviceOK(Creator, NewRec(s), NewRec(s), log[Creator], born, signed')
    BY <1>1, <1>3, <1>5, <2>1, RosterFirst
  <2> QED BY <2>1, <2>2 DEF r
<1>7. born' \in [Node -> Seq(Nat)] /\ Extends(born, born')
  BY <1>3, <1>5, SameBorn
<1>8. LanesIn(chan', born', signed')
  <2>1. LanesIn(chan, born', signed')
    BY <1>3, <1>5, <1>7, LanesInGrow
  <2>2. \A m \in Node : Announce(r, {})[m] \in Seq(GoodFrames(born'[Creator], signed', m))
    BY <1>1, <1>2, <1>3, AnnounceGood
  <2> QED BY <1>4, <2>1, <2>2, LanesInSends
<1>9. SessionTypes'
  BY <1>3, <1>4, Facts DEF SessionTypes, runtime, sessions
<1>10. CreatorFirst(rec'[Creator], signed')
  <2>1. rec'[Creator] = r
    BY <1>3, <1>5
  <2> QED BY <1>1, <1>2, <1>3, <2>1 DEF CreatorFirst
<1>11. Stays(Creator, rec[Creator], r)
  BY <1>3 DEF Stays
<1>12. signed \subseteq signed' /\ signed' \in SUBSET GroupState
  BY <1>1, <1>3
<1> QED BY <1>1, <1>3, <1>4, <1>5, <1>6, <1>7, <1>8, <1>9, <1>10, <1>11, <1>12, DeviceStep

\* edit_group_locked signs the next roster.
LEMMA EditGroupKeeps ==
    ASSUME RosterInv, RostersSaved, NEW closed \in BOOLEAN, NEW members \in SUBSET Node,
           NEW c, LanesIn(c, born, signed), EditGroup(closed, members, c)
    PROVE  RosterInv' /\ Stay
<1> DEFINE old == rec[Creator]
           s == NextState(old.state, closed, members)
           r == [old EXCEPT !.state = s, !.removed = closed]
<1>. USE CreatorAssumption
<1>0. /\ rec \in [Node -> GroupRec] /\ disk \in [Node -> GroupRec]
      /\ born \in [Node -> Seq(Nat)] /\ signed \in SUBSET GroupState
      /\ log' = log => /\ log[Creator] \in [Node -> [Seqs -> 0..MaxMsg]]
                       /\ log' = [log EXCEPT ![Creator] = log[Creator]]
      /\ DeviceOK(Creator, rec[Creator], disk[Creator], log[Creator], born, signed)
      /\ CreatorFirst(rec[Creator], signed)
  BY Facts, SameLog DEF RosterInv
<1>1. old \in GroupRec /\ Active(old) /\ old.state.epoch \in Nat
  BY <1>0 DEF EditGroup, GroupRec, GroupState
<1>2. s \in GroupState /\ s.epoch = old.state.epoch + 1
  BY <1>1 DEF GroupRec, GroupState, NextState
<1>3. /\ rec' = [rec EXCEPT ![Creator] = r] /\ signed' = signed \cup {s}
      /\ UNCHANGED <<log, born, gap_sent, sessions>>
      /\ \E ok \in BOOLEAN :
            /\ SaveRoster(Creator, r, ok)
            /\ ok => /\ gone' = [gone EXCEPT ![Creator] = {}]
                     /\ links' = IF closed
                                 THEN [links EXCEPT ![Creator] = [m \in Node |-> NoLink]]
                                 ELSE links
                     /\ chan' = Sends(Creator, handle, c, Announce(r, old.state.members))
  BY DEF EditGroup
<1> HIDE DEF s
<1>4. /\ r \in GroupRec /\ r.known /\ r.state = s /\ r.hidden = old.hidden
      /\ r.next_seq = old.next_seq /\ r.have = old.have /\ r.removed = closed
  <2> HIDE DEF old
  <2> QED BY <1>1, <1>2 DEF GroupRec, Active
<1>5. ~old.hidden /\ ~old.removed
  BY <1>0, <1>1 DEF DeviceOK, Active
<1> HIDE DEF r, old
<1>6. /\ disk' = [disk EXCEPT ![Creator] = r] /\ used' = used
      /\ gone' = [gone EXCEPT ![Creator] = {}]
      /\ links' = IF closed THEN [links EXCEPT ![Creator] = [m \in Node |-> NoLink]] ELSE links
      /\ chan' = Sends(Creator, handle, c, Announce(r, old.state.members))
  BY <1>3, RosterWritten
<1>7. DeviceOK(Creator, r, r, log[Creator], born', signed')
  <2>1. /\ DeviceOK(Creator, old, disk[Creator], log[Creator], born, signed)
        /\ signed \subseteq signed' /\ r.state \in signed' /\ born' = born
        /\ log[Creator] \in [Node -> [Seqs -> 0..MaxMsg]]
    BY <1>0, <1>3, <1>4 DEF old
  <2>2. old.known /\ old.state.epoch <= r.state.epoch /\ ~r.hidden
    BY <1>1, <1>2, <1>4, <1>5 DEF Active
  <2>4. old \in GroupRec /\ disk[Creator] \in GroupRec /\ born \in [Node -> Seq(Nat)]
    BY <1>0, <1>1
  <2>5. r \in GroupRec /\ r.known /\ r.hidden = old.hidden /\ r.next_seq = old.next_seq /\ r.have = old.have
    BY <1>4
  <2>3. DeviceOK(Creator, r, r, log[Creator], born, signed')
    BY <2>1, <2>2, <2>4, <2>5, RosterChange
  <2> QED BY <2>1, <2>3
<1>8. born' \in [Node -> Seq(Nat)] /\ Extends(born, born')
  BY <1>0, <1>3, SameBorn
<1>9. signed \subseteq signed' /\ signed' \in SUBSET GroupState
  BY <1>0, <1>2, <1>3
<1>10. LanesIn(chan', born', signed')
  <2>1. LanesIn(c, born', signed')
    BY <1>8, <1>9, LanesInGrow
  <2>2. r.state \in signed'
    BY <1>3, <1>4
  <2>3. \A m \in Node : Announce(r, old.state.members)[m] \in Seq(GoodFrames(born'[Creator], signed', m))
    BY <1>4, <2>2, AnnounceGood
  <2> QED BY <1>6, <2>1, <2>3, LanesInSends
<1>11. SessionTypes'
  <2>1. links \in [Node -> [Node -> LinkRec]] /\ gone \in [Node -> SUBSET Node] /\ NoLink \in LinkRec
    BY Facts
  <2>2. links' \in [Node -> [Node -> LinkRec]] /\ gone' \in [Node -> SUBSET Node]
    BY <1>6, <2>1
  <2> QED BY <1>3, <1>6, <2>2, Facts DEF SessionTypes, sessions
<1>12. \A x \in signed : x.epoch \in Nat /\ x.epoch <= old.state.epoch
  BY <1>0, <1>1 DEF CreatorFirst, old, GroupState, Active
<1>13. CreatorFirst(rec'[Creator], signed')
  <2>1. rec'[Creator] = r
    BY <1>0, <1>3
  <2> QED BY <1>1, <1>2, <1>3, <1>4, <1>12, <2>1 DEF CreatorFirst
<1>15. Stays(Creator, rec[Creator], r)
  BY <1>5 DEF Stays, old
<1>16. log' = [log EXCEPT ![Creator] = log[Creator]] /\ log[Creator] \in [Node -> [Seqs -> 0..MaxMsg]]
  BY <1>0, <1>3
<1> QED BY <1>3, <1>4, <1>6, <1>7, <1>8, <1>9, <1>10, <1>11, <1>13, <1>15, <1>16, DeviceStep

\* group_add, group_remove, group_rename, group_disband.
LEMMA UserEditKeeps ==
    ASSUME RosterInv, RostersSaved,
           \/ \E m \in Node : GroupAdd(m) \/ GroupRemove(m)
           \/ GroupRename \/ GroupDisband
    PROVE  RosterInv' /\ Stay
<1>1. LanesIn(chan, born, signed)
  BY Facts
<1>2. rec[Creator].state.members \in SUBSET Node
  BY CreatorAssumption, Facts DEF GroupRec, GroupState
<1>3. \E closed \in BOOLEAN, members \in SUBSET Node : EditGroup(closed, members, chan)
  <2>1. CASE \E m \in Node : GroupAdd(m)
    BY <1>2, <2>1 DEF GroupAdd
  <2>2. CASE \E m \in Node : GroupRemove(m)
    BY <1>2, <2>2 DEF GroupRemove
  <2>3. CASE GroupRename
    BY <1>2, <2>3 DEF GroupRename
  <2>4. CASE GroupDisband
    BY CreatorAssumption, <2>4 DEF GroupDisband
  <2> QED BY <2>1, <2>2, <2>3, <2>4
<1> QED BY <1>1, <1>3, EditGroupKeeps

\* on_group_leave
LEMMA RecvLeaveKeeps ==
    ASSUME RosterInv, RostersSaved, NEW n \in Node, NEW l \in Link, RecvLeave(n, l)
    PROVE  RosterInv' /\ Stay
<1> DEFINE m == Far(n, l)
<1>1. LanesIn(Taken(n, l), born, signed)
  BY Facts, LanesInTaken DEF RecvLeave, Arrived
<1>2. CASE n = Creator /\ EditGroup(FALSE, rec[n].state.members \ {m}, Taken(n, l))
  <2>1. rec[n].state.members \ {m} \in SUBSET Node
    BY Facts DEF GroupRec, GroupState
  <2> QED BY <1>1, <1>2, <2>1, EditGroupKeeps
<1>3. CASE /\ chan' = Taken(n, l)
           /\ UNCHANGED <<rec, disk, log, runtime, sessions, born, signed, used>>
  <2>1. SessionTypes'
    BY <1>3, Facts DEF SessionTypes, runtime, sessions
  <2> QED BY <1>1, <1>3, <2>1, SessionKeeps
<1> QED BY <1>2, <1>3 DEF RecvLeave

\* group_leave: the device keeps its roster, is out and asks the creator.
LEMMA GroupLeaveKeeps ==
    ASSUME RosterInv, RostersSaved, NEW n \in Node, GroupLeave(n)
    PROVE  RosterInv' /\ Stay
<1> DEFINE r == [rec[n] EXCEPT !.removed = TRUE, !.pending_leave = TRUE]
           h == GcIntroduced(n, r)
           out == Only(Creator, <<LeaveF>>)
<1>0. /\ rec[n] \in GroupRec /\ disk[n] \in GroupRec
      /\ born \in [Node -> Seq(Nat)] /\ LanesIn(chan, born, signed)
      /\ DeviceOK(n, rec[n], disk[n], log[n], born, signed)
      /\ log' = log => /\ log[n] \in [Node -> [Seqs -> 0..MaxMsg]]
                       /\ log' = [log EXCEPT ![n] = log[n]]
  BY Facts, SameLog
<1>1. rec[n].known /\ n # Creator
  BY DEF GroupLeave
<1>2. /\ r \in GroupRec /\ r.known /\ r.removed /\ r.pending_leave /\ r.hidden = rec[n].hidden
      /\ r.state = rec[n].state /\ r.next_seq = rec[n].next_seq /\ r.have = rec[n].have
  BY <1>0, <1>1 DEF GroupRec
<1>3. /\ rec' = [rec EXCEPT ![n] = r] /\ handle' = h
      /\ UNCHANGED <<log, born, signed, gone, gap_sent, task, phase>>
      /\ \E ok \in BOOLEAN :
            /\ SaveRoster(n, r, ok)
            /\ ok => /\ links' = [links EXCEPT ![n] = [m \in Node |-> NoLink]]
                     /\ chan' = Sends(n, h, chan, out)
  BY DEF GroupLeave
<1>4. h \in [Node -> [Link -> 0..(2 * Slots)]]
  BY GcType, Facts
<1> HIDE DEF r, h
<1>5. /\ disk' = [disk EXCEPT ![n] = r] /\ used' = used
      /\ links' = [links EXCEPT ![n] = [m \in Node |-> NoLink]]
      /\ chan' = Sends(n, h, chan, out)
  BY <1>3, RosterWritten
<1>6. DeviceOK(n, r, r, log[n], born, signed)
  <2>1. rec[n].state \in signed /\ rec[n].state.epoch \in Nat
    BY <1>0, <1>1 DEF DeviceOK, GroupRec, GroupState
  <2>2. log[n] \in [Node -> [Seqs -> 0..MaxMsg]] /\ r.state \in signed
        /\ rec[n].state.epoch <= r.state.epoch
    BY <1>0, <1>2, <1>3, <2>1
  <2> QED BY <1>0, <1>1, <1>2, <2>2, RosterChange
<1>7. LanesIn(chan', born, signed)
  <2>1. \A m \in Node : out[m] \in Seq(GoodFrames(born[n], signed, m))
    <3> TAKE m \in Node
    <3> DEFINE S == GoodFrames(born[n], signed, m)
    <3>1. LeaveF \in S
      BY <1>0, GoodOther
    <3> HIDE DEF S
    <3>2. <<LeaveF>> \in Seq(S) /\ << >> \in Seq(S)
      BY <3>1
    <3> QED BY <3>2 DEF S, Only
  <2> HIDE DEF out
  <2> QED BY <1>0, <1>5, <2>1, LanesInSends
<1>8. SessionTypes'
  <2>1. links \in [Node -> [Node -> LinkRec]] /\ NoLink \in LinkRec
    BY Facts
  <2>2. links' \in [Node -> [Node -> LinkRec]]
    BY <1>5, <2>1
  <2> QED BY <1>3, <1>4, <1>5, <2>2, Facts DEF SessionTypes
<1>9. Stays(n, rec[n], r)
  BY <1>2 DEF Stays
<1>10. /\ log' = [log EXCEPT ![n] = log[n]] /\ log[n] \in [Node -> [Seqs -> 0..MaxMsg]]
       /\ UNCHANGED <<born, signed>>
  BY <1>0, <1>3
<1> QED BY <1>1, <1>2, <1>3, <1>5, <1>6, <1>7, <1>8, <1>9, <1>10, DeviceKeeps

-----------------------------------------------------------------------------
(* A roster arrives, a chat is deleted *)

\* What is right for device n may be pumped by it.
LEMMA DevicePumps ==
    ASSUME NEW n \in Node, NEW r \in GroupRec, NEW d \in GroupRec,
           NEW lg \in [Node -> [Seqs -> 0..MaxMsg]], NEW b, NEW sg,
           DeviceOK(n, r, d, lg, b, sg), NEW lk \in LinkRec, NEW gn, NEW m \in Node
    PROVE  /\ PumpFrames(r, lk, gn, m, lg[n]) \in Seq(GoodFrames(b[n], sg, m))
           /\ \A h : PumpLink(n, h, r, lk, gn, m) \in LinkRec
<1>1. 1 <= r.next_seq /\ r.next_seq <= MaxMsg + 1
  <2>1. /\ r.next_seq \in Nat /\ d.next_seq \in Nat
        /\ 1 <= d.next_seq /\ d.next_seq <= r.next_seq /\ r.next_seq <= MaxMsg + 1
    BY DEF DeviceOK, Bounded, GroupRec
  <2> QED BY <2>1, MaxMsgAssumption
<1>2. ASSUME Active(r) PROVE r.state \in sg /\ r.known /\ ~r.hidden
  BY <1>2 DEF Active, DeviceOK
<1>3. ASSUME Active(r), NEW s \in Seqs, s < r.next_seq
      PROVE  lg[n][s] # 0 /\ lg[n][s] \in DOMAIN b[n] /\ b[n][lg[n][s]] <= r.state.epoch
  <2>1. lg[n][s] # 0
    BY <1>2, <1>3 DEF DeviceOK, Counts
  <2> QED BY <1>3, <2>1 DEF DeviceOK, Rightful
<1>4. lg[n] \in [Seqs -> 0..MaxMsg]
  OBVIOUS
<1>5. PumpFrames(r, lk, gn, m, lg[n]) \in Seq(GoodFrames(b[n], sg, m))
  BY <1>1, <1>2, <1>3, <1>4, GoodPump
<1>6. \A h : PumpLink(n, h, r, lk, gn, m) \in LinkRec
  BY <1>1, PumpLinkType
<1> QED BY <1>5, <1>6

\* A frame is read by one end of the session, and is good.
LEMMA ReadGood ==
    ASSUME RosterInv, NEW n \in Node, NEW l \in Link, NEW t, Arrived(n, l, t)
    PROVE  /\ n \in {l[1], l[2]} /\ Far(n, l) \in Node /\ Far(n, l) # n
           /\ LanesIn(Taken(n, l), born, signed)
           /\ Head(chan[l][n]) \in GoodFrames(born[Far(n, l)], signed, n)
           /\ Head(chan[l][n]).type = t
<1>1. n \in {l[1], l[2]}
  BY DEF Arrived, RosterInv, TypeOK
<1>2. Far(n, l) \in Node /\ Far(n, l) # n
  BY <1>1, EndFar
<1>3. /\ LanesIn(Taken(n, l), born, signed)
      /\ Head(chan[l][n]) \in GoodFrames(born[Far(n, l)], signed, n)
  BY Facts, LanesInTaken DEF Arrived
<1> QED BY <1>1, <1>2, <1>3 DEF Arrived

\* What a device restates and pumps under a new roster is good.
LEMMA InForceGood ==
    ASSUME RosterInv, NEW n \in Node, NEW r \in GroupRec,
           DeviceOK(n, r, r, log[n], born, signed), NEW h,
           NEW c, LanesIn(c, born, signed), RosterInForce(n, h, r, c)
    PROVE  /\ gone' \in [Node -> SUBSET Node]
           /\ links' \in [Node -> [Node -> LinkRec]]
           /\ LanesIn(chan', born, signed)
<1> DEFINE lks == [m \in Node |-> IF m \in r.state.members \ {n} THEN links[n][m] ELSE NoLink]
           out == [m \in Node |->
                     IF m \in r.state.members \ {n}
                     THEN <<SyncF(r, m)>> \o PumpFrames(r, lks[m], {}, m, log[n][n])
                     ELSE << >>]
           new == [m \in Node |-> PumpLink(n, h, r, lks[m], {}, m)]
           none == [m \in Node |-> NoLink]
<1>1. /\ links \in [Node -> [Node -> LinkRec]] /\ gone \in [Node -> SUBSET Node]
      /\ log[n] \in [Node -> [Seqs -> 0..MaxMsg]] /\ NoLink \in LinkRec
  BY Facts
<1>2. lks \in [Node -> LinkRec]
  BY <1>1
<1>3. /\ gone' = [gone EXCEPT ![n] = {}]
      /\ \/ links' = [links EXCEPT ![n] = none] /\ chan' = c
         \/ links' = [links EXCEPT ![n] = new] /\ chan' = Sends(n, h, c, out)
  BY DEF RosterInForce
<1> HIDE DEF lks
<1>4. new \in [Node -> LinkRec] /\ none \in [Node -> LinkRec]
  BY <1>1, <1>2, DevicePumps
<1> HIDE DEF new, none
<1>5. links' \in [Node -> [Node -> LinkRec]] /\ gone' \in [Node -> SUBSET Node]
  BY <1>1, <1>3, <1>4
<1>6. ASSUME NEW m \in Node PROVE out[m] \in Seq(GoodFrames(born[n], signed, m))
  <2> DEFINE S == GoodFrames(born[n], signed, m)
             f == SyncF(r, m)
             q == PumpFrames(r, lks[m], {}, m, log[n][n])
  <2>1. f \in S
    BY GoodOther
  <2>2. lks[m] \in LinkRec
    BY <1>2
  <2>3. q \in Seq(S)
    BY <1>1, <2>2, DevicePumps
  <2> HIDE DEF S, f, q
  <2>4. <<f>> \in Seq(S) /\ << >> \in Seq(S)
    BY <2>1
  <2>5. <<f>> \o q \in Seq(S)
    BY <2>3, <2>4, SeqConcat
  <2> QED BY <2>4, <2>5 DEF S, f, q
<1> HIDE DEF out
<1>7. LanesIn(Sends(n, h, c, out), born, signed)
  BY <1>6, LanesInSends
<1> QED BY <1>3, <1>5, <1>7

\* purge_group leaves neither record nor log.
LEMMA PurgeKeeps ==
    ASSUME RosterInv, NEW n \in Node, PurgeGroup(n), UNCHANGED <<task, phase, born, signed, used>>,
           LanesIn(chan', born, signed)
    PROVE  RosterInv' /\ Stay
<1> DEFINE none == [m \in Node |-> NoLink]
           unsent == [m \in Node |-> -1]
           blank == [a \in Node |-> EmptyLog]
<1>1. /\ rec' = [rec EXCEPT ![n] = NoRec] /\ disk' = [disk EXCEPT ![n] = NoRec]
      /\ log' = [log EXCEPT ![n] = blank]
      /\ handle' = GcIntroduced(n, NoRec)
      /\ links' = [links EXCEPT ![n] = none] /\ gone' = [gone EXCEPT ![n] = {}]
      /\ gap_sent' = [gap_sent EXCEPT ![n] = unsent]
  BY DEF PurgeGroup
<1>2. /\ links \in [Node -> [Node -> LinkRec]] /\ gone \in [Node -> SUBSET Node] /\ NoLink \in LinkRec
      /\ gap_sent \in [Node -> [Node -> Nat \cup {-1}]] /\ TypeOK
  BY Facts
<1>3. none \in [Node -> LinkRec] /\ unsent \in [Node -> Nat \cup {-1}]
  BY <1>2
<1>4. NoRec \in GroupRec /\ ~NoRec.known
  <2>1. NoState \in GroupState
    BY DEF NoState, GroupState
  <2>2. NoRec \in GroupRec
    BY <2>1, NewRecType
  <2> QED BY <2>2 DEF NoRec, NewRec
<1>5. /\ blank \in [Node -> [Seqs -> 0..MaxMsg]]
      /\ \A a \in Node, s \in Seqs : blank[a][s] = 0
  BY MaxMsgAssumption DEF EmptyLog
<1>6. DeviceOK(n, NoRec, NoRec, blank, born, signed)
  <2>1. /\ NoRec.next_seq = 1 /\ ~NoRec.hidden
        /\ \A a \in Node : NoRec.have[a] = 0
    BY DEF NoRec, NewRec
  <2> HIDE DEF blank
  <2>2. Saved(NoRec, NoRec) /\ Bounded(NoRec, NoRec)
    BY <2>1, MaxMsgAssumption DEF Saved, Bounded
  <2>3. Counts(n, NoRec, blank) /\ Rightful(n, NoRec, blank, born, signed)
    BY <1>4, <1>5 DEF Counts, Rightful
  <2> QED BY <1>4, <2>1, <2>2, <2>3 DEF DeviceOK
<1> HIDE DEF none, unsent, blank
<1>7. SessionTypes'
  <2>1. /\ links' \in [Node -> [Node -> LinkRec]] /\ gone' \in [Node -> SUBSET Node]
        /\ gap_sent' \in [Node -> [Node -> Nat \cup {-1}]]
    BY <1>1, <1>2, <1>3
  <2>2. handle' \in [Node -> [Link -> 0..(2 * Slots)]]
    BY <1>1, <1>2, GcType
  <2> QED BY <2>1, <2>2, Facts DEF SessionTypes
<1>8. Stays(n, rec[n], NoRec)
  BY <1>4 DEF Stays
<1> QED BY <1>1, <1>4, <1>5, <1>6, <1>7, <1>8, DeviceKeeps

\* group_delete leaves a stub while the leave is undelivered, or nothing.
LEMMA GroupDeleteKeeps ==
    ASSUME RosterInv, NEW n \in Node, GroupDelete(n)
    PROVE  RosterInv' /\ Stay
<1> DEFINE r == [rec[n] EXCEPT !.hidden = TRUE]
           blank == [a \in Node |-> EmptyLog]
<1>1. /\ rec[n].known /\ rec[n].removed /\ UNCHANGED <<task, phase, chan, born, signed, used>>
      /\ \/ /\ rec[n].pending_leave
            /\ rec' = [rec EXCEPT ![n] = r] /\ disk' = [disk EXCEPT ![n] = r]
            /\ log' = [log EXCEPT ![n] = blank]
            /\ UNCHANGED <<runtime, handle>>
         \/ PurgeGroup(n)
  BY DEF GroupDelete
<1>2. LanesIn(chan', born, signed)
  BY <1>1, Facts
<1>3. CASE PurgeGroup(n)
  BY <1>1, <1>2, <1>3, PurgeKeeps
<1>4. CASE /\ rec[n].pending_leave
           /\ rec' = [rec EXCEPT ![n] = r] /\ disk' = [disk EXCEPT ![n] = r]
           /\ log' = [log EXCEPT ![n] = blank]
           /\ UNCHANGED <<runtime, handle>>
  <2>1. /\ rec[n] \in GroupRec /\ disk[n] \in GroupRec
        /\ DeviceOK(n, rec[n], disk[n], log[n], born, signed)
    BY Facts
  <2>2. /\ r \in GroupRec /\ r.known = rec[n].known /\ r.hidden /\ r.removed = rec[n].removed
        /\ r.pending_leave = rec[n].pending_leave /\ r.state = rec[n].state
        /\ r.next_seq = rec[n].next_seq /\ r.have = rec[n].have
    BY <2>1 DEF GroupRec
  <2> HIDE DEF r
  <2>3. /\ blank \in [Node -> [Seqs -> 0..MaxMsg]]
        /\ \A a \in Node, s \in Seqs : blank[a][s] = 0
    BY MaxMsgAssumption DEF EmptyLog
  <2> HIDE DEF blank
  <2>4. Bounded(r, r)
    <3>1. /\ rec[n].next_seq \in Nat /\ disk[n].next_seq \in Nat
          /\ \A a \in Node : rec[n].have[a] \in Nat
      BY <2>1 DEF GroupRec
    <3>2. Bounded(rec[n], disk[n])
      BY <2>1 DEF DeviceOK
    <3> QED BY <2>2, <3>1, <3>2, MaxMsgAssumption DEF Bounded
  <2>5. Saved(r, r) /\ Counts(n, r, blank) /\ Rightful(n, r, blank, born, signed)
    BY <2>2, <2>3 DEF Saved, Counts, Rightful
  <2>6. DeviceOK(n, r, r, blank, born, signed)
    BY <1>1, <1>4, <2>1, <2>2, <2>4, <2>5 DEF DeviceOK
  <2>7. SessionTypes'
    BY <1>1, <1>4, Facts DEF SessionTypes, runtime
  <2>8. Stays(n, rec[n], r)
    BY <1>1, <2>2 DEF Stays
  <2> QED BY <1>1, <1>2, <1>4, <2>2, <2>3, <2>6, <2>7, <2>8, DeviceKeeps
<1> QED BY <1>1, <1>3, <1>4

\* apply_state_locked at a member, when the roster is taken over.
LEMMA TakeOverKeeps ==
    ASSUME RosterInv, RostersSaved, NEW n \in Node, n # Creator, NEW r \in GroupRec,
           ~StubDone(r) => DeviceOK(n, r, r, log[n], born, signed), Stays(n, rec[n], r),
           NEW c, LanesIn(c, born, signed), TakeOver(n, r, c),
           UNCHANGED <<task, phase, born, signed>>
    PROVE  RosterInv' /\ Stay
<1>1. ~SaveRoster(n, r, FALSE)
  BY DEF SaveRoster, RostersSaved
<1>2. CASE PurgeGroup(n) /\ chan' = c /\ UNCHANGED used
  BY <1>2, PurgeKeeps
<1>3. CASE /\ ~StubDone(r) /\ SaveRoster(n, r, TRUE) /\ rec' = [rec EXCEPT ![n] = r]
           /\ handle' = GcIntroduced(n, r)
           /\ RosterInForce(n, GcIntroduced(n, r), r, c)
           /\ UNCHANGED <<gap_sent, log>>
  <2>1. disk' = [disk EXCEPT ![n] = r] /\ used' = used
    BY <1>3, RosterWritten
  <2>2. DeviceOK(n, r, r, log[n], born, signed)
    BY <1>3
  <2>3. /\ gone' \in [Node -> SUBSET Node] /\ links' \in [Node -> [Node -> LinkRec]]
        /\ LanesIn(chan', born, signed)
    BY <1>3, <2>2, InForceGood
  <2>4. TypeOK
    BY Facts
  <2>5. SessionTypes'
    BY <1>3, <2>1, <2>3, <2>4, GcType DEF TypeOK, SessionTypes
  <2>6. log[n] \in [Node -> [Seqs -> 0..MaxMsg]] /\ log' = [log EXCEPT ![n] = log[n]]
    BY <1>3, SameLog
  <2> QED BY <1>3, <2>1, <2>2, <2>3, <2>5, <2>6, DeviceKeeps
<1> QED BY <1>1, <1>2, <1>3 DEF TakeOver

\* apply_state_locked
LEMMA RecvStateKeeps ==
    ASSUME RosterInv, RostersSaved, NEW n \in Node, NEW l \in Link, RecvState(n, l)
    PROVE  RosterInv' /\ Stay
<1> DEFINE s == Head(chan[l][n]).state
           q == rec[n]
           r == IF q.known THEN Updated(q, s, n) ELSE NewRec(s)
           c == Taken(n, l)
           m == Far(n, l)
<1>1. Arrived(n, l, "state")
  BY DEF RecvState
<1>2. /\ LanesIn(c, born, signed) /\ m # n
      /\ Head(chan[l][n]) \in GoodFrames(born[m], signed, n)
      /\ Head(chan[l][n]).type = "state"
  BY <1>1, ReadGood
<1>3. s \in GroupState /\ s \in signed /\ s.epoch \in Nat
  BY <1>2 DEF GoodFrames, Frame, GroupState
<1>4. /\ q \in GroupRec /\ disk[n] \in GroupRec /\ born \in [Node -> Seq(Nat)]
      /\ DeviceOK(n, q, disk[n], log[n], born, signed)
  BY Facts
<1>5. /\ UNCHANGED <<task, phase, born, signed>>
      /\ \/ Takes(n, m, s) /\ TakeOver(n, r, c)
         \/ chan' = c /\ UNCHANGED <<rec, disk, log, runtime, handle, used>>
  BY DEF RecvState
<1>6. CASE chan' = c /\ UNCHANGED <<rec, disk, log, runtime, handle, used>>
  <2> HIDE DEF c
  <2>1. SessionTypes'
    BY <1>5, <1>6, Facts DEF SessionTypes, runtime
  <2> QED BY <1>2, <1>5, <1>6, <2>1, SessionKeeps
<1>7. CASE Takes(n, m, s) /\ TakeOver(n, r, c) /\ ~q.known
  <2>1. m = Creator
    BY <1>7 DEF Takes, Evaluate
  <2>2. r = NewRec(s) /\ NewRec(s) \in GroupRec
    BY <1>3, <1>7, NewRecType
  <2>3. DeviceOK(n, NewRec(s), NewRec(s), log[n], born, signed)
    BY <1>3, <1>4, <1>7, RosterFirst
  <2>4. Stays(n, q, NewRec(s))
    BY <1>7 DEF Stays
  <2> HIDE DEF s, r, c, m
  <2> QED BY <1>2, <1>5, <1>7, <2>1, <2>2, <2>3, <2>4, TakeOverKeeps
<1>8. CASE Takes(n, m, s) /\ TakeOver(n, r, c) /\ q.known
  <2>1. ~(s.epoch <= q.state.epoch) /\ q.state.epoch \in Nat
    BY <1>4, <1>8 DEF Takes, Evaluate, GroupRec, GroupState
  <2>2. n # Creator
    BY <1>3, <1>8, <2>1 DEF RosterInv, CreatorFirst
  <2> DEFINE u == Updated(q, s, n)
             out == s.closed \/ n \notin s.members
  <2>3. r = u
    BY <1>8
  <2> HIDE DEF q, r, s
  <2>4. /\ u \in GroupRec /\ u.known = q.known /\ u.state = s /\ u.hidden = q.hidden
        /\ u.next_seq = q.next_seq /\ u.have = q.have
        /\ u.removed = (q.pending_leave \/ out)
        /\ u.pending_leave = (q.pending_leave /\ ~out)
    BY <1>3, <1>4 DEF Updated, GroupRec, GroupState
  <2>5. Stays(n, q, u)
    <3>1. s.epoch > q.state.epoch
      BY <1>3, <2>1
    <3> QED BY <2>4, <3>1 DEF Stays
  <2>6. ASSUME ~StubDone(u) PROVE DeviceOK(n, u, u, log[n], born, signed)
    <3>1. u.hidden => u.pending_leave /\ u.removed
      BY <2>4, <2>6 DEF StubDone
    <3>2. q.state.epoch <= u.state.epoch /\ u.state \in signed /\ u.known
      BY <1>3, <1>8, <2>1, <2>4
    <3> HIDE DEF u
    <3> QED BY <1>4, <1>8, <2>4, <3>1, <3>2, RosterChange
  <2> HIDE DEF u, c, m
  <2>7. Stays(n, rec[n], u)
    BY <2>5 DEF q
  <2> QED BY <1>2, <1>5, <1>8, <2>2, <2>3, <2>4, <2>6, <2>7, TakeOverKeeps
<1> QED BY <1>5, <1>6, <1>7, <1>8

-----------------------------------------------------------------------------
(* Messages, acknowledgements and restarts *)

\* Records that differ in counters only.
SameRoster(q, r) ==
    /\ r.known = q.known /\ r.state = q.state /\ r.removed = q.removed
    /\ r.pending_leave = q.pending_leave /\ r.hidden = q.hidden

\* A step that moves counters of device n, written to groups.json or not.
LEMMA CountersKeep ==
    ASSUME RosterInv, NEW n \in Node, NEW r \in GroupRec,
           NEW lg \in [Node -> [Seqs -> 0..MaxMsg]],
           rec' = [rec EXCEPT ![n] = r], disk' = disk \/ disk' = [disk EXCEPT ![n] = r],
           log' = [log EXCEPT ![n] = lg],
           born' \in [Node -> Seq(Nat)], Extends(born, born'), signed' = signed,
           SameRoster(rec[n], r), Bounded(r, disk[n]),
           Counts(n, r, lg), Rightful(n, r, lg, born', signed),
           SessionTypes', LanesIn(chan', born', signed)
    PROVE  RosterInv' /\ Stay
<1>1. /\ rec \in [Node -> GroupRec] /\ disk \in [Node -> GroupRec] /\ signed \in SUBSET GroupState
      /\ DeviceOK(n, rec[n], disk[n], log[n], born, signed)
  BY Facts
<1>2. Saved(r, disk[n]) /\ Saved(r, r)
  BY <1>1 DEF DeviceOK, Saved, SameRoster
<1>3. Bounded(r, r)
  <2>1. /\ r.next_seq \in Nat /\ disk[n].next_seq \in Nat /\ \A a \in Node : r.have[a] \in Nat
    BY <1>1 DEF GroupRec
  <2> QED BY <2>1, MaxMsgAssumption DEF Bounded
<1>4. /\ r.hidden => r.pending_leave /\ r.removed
      /\ r.known => r.state \in signed
  BY <1>1 DEF DeviceOK, SameRoster
<1>5. DeviceOK(n, r, disk[n], lg, born', signed') /\ DeviceOK(n, r, r, lg, born', signed')
  BY <1>2, <1>3, <1>4 DEF DeviceOK
<1>6. Stays(n, rec[n], r)
  BY DEF Stays, SameRoster
<1>7. CreatorFirst(rec'[Creator], signed')
  <2>1. CreatorFirst(rec[Creator], signed)
    BY DEF RosterInv
  <2>3. rec'[Creator].known = rec[Creator].known /\ rec'[Creator].state = rec[Creator].state
    BY <1>1, CreatorAssumption DEF SameRoster
  <2> QED BY <2>1, <2>3 DEF CreatorFirst
<1>8. /\ signed \subseteq signed' /\ signed' \in SUBSET GroupState
      /\ LanesIn(chan', born', signed') /\ disk[n] \in GroupRec
      /\ disk' = [disk EXCEPT ![n] = disk[n]] \/ disk' = [disk EXCEPT ![n] = r]
  BY <1>1
<1>9. CASE disk' = [disk EXCEPT ![n] = r]
  BY <1>5, <1>6, <1>7, <1>8, <1>9, DeviceStep
<1>10. CASE disk' = [disk EXCEPT ![n] = disk[n]]
  BY <1>5, <1>6, <1>7, <1>8, <1>10, DeviceStep
<1> QED BY <1>8, <1>9, <1>10

\* A step that moves cursors only.
LEMMA CursorsKeep ==
    ASSUME RosterInv, NEW n \in Node, NEW r \in GroupRec,
           rec' = [rec EXCEPT ![n] = r], disk' = disk \/ disk' = [disk EXCEPT ![n] = r],
           UNCHANGED <<log, born, signed>>, SameRoster(rec[n], r),
           r.next_seq = rec[n].next_seq, r.have = rec[n].have,
           SessionTypes', LanesIn(chan', born, signed)
    PROVE  RosterInv' /\ Stay
<1>1. DeviceOK(n, rec[n], disk[n], log[n], born, signed) /\ born \in [Node -> Seq(Nat)]
  BY Facts
<1>2. Bounded(r, disk[n]) /\ Counts(n, r, log[n]) /\ Rightful(n, r, log[n], born', signed)
  BY <1>1 DEF DeviceOK, Bounded, Counts, Rightful, SameRoster
<1>3. log[n] \in [Node -> [Seqs -> 0..MaxMsg]] /\ log' = [log EXCEPT ![n] = log[n]]
  BY SameLog
<1>4. born' \in [Node -> Seq(Nat)] /\ Extends(born, born')
  BY <1>1, SameBorn
<1>5. LanesIn(chan', born', signed) /\ signed' = signed
  OBVIOUS
<1> QED BY <1>2, <1>3, <1>4, <1>5, CountersKeep

\* A record that differs from the one of device n in its cursors only pumps
\* good frames.
LEMMA CursorPumps ==
    ASSUME RosterInv, NEW n \in Node, NEW m \in Node, NEW r \in GroupRec, NEW lk \in LinkRec,
           NEW gn, NEW c, LanesIn(c, born, signed), SameRoster(rec[n], r),
           r.next_seq = rec[n].next_seq, r.have = rec[n].have
    PROVE  /\ LanesIn(Sends(n, handle, c, Only(m, PumpFrames(r, lk, gn, m, log[n][n]))), born, signed)
           /\ PumpLink(n, handle, r, lk, gn, m) \in LinkRec
<1> DEFINE out == Only(m, PumpFrames(r, lk, gn, m, log[n][n]))
<1>1. /\ DeviceOK(n, rec[n], disk[n], log[n], born, signed) /\ disk[n] \in GroupRec
      /\ log[n] \in [Node -> [Seqs -> 0..MaxMsg]]
  BY Facts
<1>2. DeviceOK(n, r, disk[n], log[n], born, signed)
  BY <1>1 DEF DeviceOK, Saved, Bounded, Counts, Rightful, SameRoster
<1>3. /\ PumpFrames(r, lk, gn, m, log[n][n]) \in Seq(GoodFrames(born[n], signed, m))
      /\ PumpLink(n, handle, r, lk, gn, m) \in LinkRec
  BY <1>1, <1>2, DevicePumps
<1>4. \A d \in Node : out[d] \in Seq(GoodFrames(born[n], signed, d))
  <2> TAKE d \in Node
  <2> DEFINE S == GoodFrames(born[n], signed, d)
             q == PumpFrames(r, lk, gn, m, log[n][n])
  <2>1. d = m => q \in Seq(S)
    BY <1>3
  <2> HIDE DEF S, q
  <2>2. << >> \in Seq(S)
    OBVIOUS
  <2> QED BY <2>1, <2>2 DEF S, q, Only
<1> HIDE DEF out
<1>5. LanesIn(Sends(n, handle, c, out), born, signed)
  BY <1>4, LanesInSends
<1> QED BY <1>3, <1>5 DEF out

\* The answers of the handlers are good.
LEMMA AnswersGood ==
    ASSUME RosterInv, NEW l \in Link, NEW n \in {l[1], l[2]}, NEW c, LanesIn(c, born, signed),
           NEW r \in GroupRec, NEW k \in Nat
    PROVE  /\ r.state \in signed => LanesIn(Reply(n, l, c, <<StateF(r.state)>>), born, signed)
           /\ LanesIn(Reply(n, l, c, <<SyncF(r, Far(n, l))>>), born, signed)
           /\ LanesIn(Reply(n, l, c, <<GoneF>>), born, signed)
           /\ LanesIn(Reply(n, l, c, <<AckF(k)>>), born, signed)
<1> DEFINE m == Far(n, l)
<1>1. n \in Node /\ m \in Node /\ r.state \in GroupState
  BY EndFar DEF GroupRec
<1>2. r.state \in signed => StateF(r.state) \in GoodFrames(born[n], signed, m)
  BY <1>1, GoodState
<1>3. /\ SyncF(r, m) \in GoodFrames(born[n], signed, m)
      /\ GoneF \in GoodFrames(born[n], signed, m) /\ AckF(k) \in GoodFrames(born[n], signed, m)
  BY <1>1, GoodOther
<1> QED BY <1>2, <1>3, ReplyGood

\* on_group_ack
LEMMA RecvAckKeeps ==
    ASSUME RosterInv, NEW n \in Node, NEW l \in Link, RecvAck(n, l)
    PROVE  RosterInv' /\ Stay
<1> DEFINE m == Far(n, l)
           f == Head(chan[l][n])
           c == Taken(n, l)
           old == rec[n]
           acked == MinOf(f.have, old.next_seq - 1)
           r == [old EXCEPT !.sent_cursor[m] = acked]
<1>1. /\ m \in Node /\ m # n /\ LanesIn(c, born, signed)
      /\ f \in GoodFrames(born[m], signed, n) /\ f.type = "ack"
  BY ReadGood DEF RecvAck
<1>2. /\ \/ /\ Active(old) /\ acked > old.sent_cursor[m]
            /\ rec' = [rec EXCEPT ![n] = r]
            /\ SaveCounters(n, r)
            /\ links' = [links EXCEPT ![n][m] = PumpLink(n, handle, r, @, gone[n], m)]
            /\ chan' = Sends(n, handle, c,
                             Only(m, PumpFrames(r, links[n][m], gone[n], m, log[n][n])))
         \/ chan' = c /\ UNCHANGED <<rec, disk, links, used>>
      /\ UNCHANGED <<log, born, signed, gone, gap_sent, sessions>>
  BY DEF RecvAck
<1>3. old \in GroupRec /\ links \in [Node -> [Node -> LinkRec]] /\ TypeOK
  BY Facts
<1>4. f.have \in Nat
  BY <1>1 DEF GoodFrames, Frame
<1> HIDE DEF m, f, c
<1>5. CASE chan' = c /\ UNCHANGED <<rec, disk, links, used>>
  <2>1. SessionTypes'
    BY <1>2, <1>5, Facts DEF SessionTypes, sessions
  <2> QED BY <1>1, <1>2, <1>5, <2>1, SessionKeeps
<1>6. CASE /\ Active(old) /\ acked > old.sent_cursor[m]
           /\ rec' = [rec EXCEPT ![n] = r]
           /\ SaveCounters(n, r)
           /\ links' = [links EXCEPT ![n][m] = PumpLink(n, handle, r, @, gone[n], m)]
           /\ chan' = Sends(n, handle, c,
                             Only(m, PumpFrames(r, links[n][m], gone[n], m, log[n][n])))
  <2>1. old.next_seq \in Nat /\ old.sent_cursor \in [Node -> Nat]
    BY <1>3 DEF GroupRec
  <2>2. acked \in Nat
    BY <1>1, <1>4, <1>6, <2>1 DEF MinOf
  <2> HIDE DEF acked
  <2>3. /\ r \in GroupRec /\ SameRoster(old, r)
        /\ r.next_seq = old.next_seq /\ r.have = old.have
    BY <1>1, <1>3, <2>1, <2>2 DEF GroupRec, SameRoster
  <2>4. SameRoster(rec[n], r) /\ r.next_seq = rec[n].next_seq /\ r.have = rec[n].have
    BY <2>3
  <2> HIDE DEF r, old
  <2> DEFINE lk == links[n][m]
             gn == gone[n]
  <2>5. lk \in LinkRec
    BY <1>1, <1>3
  <2>6. /\ disk' = disk \/ disk' = [disk EXCEPT ![n] = r]
        /\ used' \in [breaks : Nat, restarts : Nat, drops : Nat, faults : Nat]
    BY <1>3, <1>6, SavedCounters
  <2>7. links' = [links EXCEPT ![n][m] = PumpLink(n, handle, r, lk, gn, m)]
    BY <1>1, <1>3, <1>6
  <2>8. chan' = Sends(n, handle, c, Only(m, PumpFrames(r, lk, gn, m, log[n][n])))
    BY <1>6
  <2> HIDE DEF lk, gn
  <2>9. LanesIn(chan', born, signed) /\ PumpLink(n, handle, r, lk, gn, m) \in LinkRec
    BY <1>1, <2>3, <2>4, <2>5, <2>8, CursorPumps
  <2>10. links' \in [Node -> [Node -> LinkRec]]
    BY <1>1, <1>3, <2>7, <2>9
  <2>11. SessionTypes'
    BY <1>2, <2>6, <2>10, Facts DEF SessionTypes, sessions
  <2> QED BY <1>2, <1>6, <2>3, <2>4, <2>6, <2>9, <2>11, CursorsKeep
<1> QED BY <1>2, <1>5, <1>6

\* on_group_sync
LEMMA RecvSyncKeeps ==
    ASSUME RosterInv, NEW n \in Node, NEW l \in Link, RecvSync(n, l)
    PROVE  RosterInv' /\ Stay
<1> DEFINE m == Far(n, l)
           f == Head(chan[l][n])
           c == Taken(n, l)
           old == rec[n]
           gn == gone[n] \ {m}
           held == MaxOf(old.state_cursor[m], MinOf(f.epoch, old.state.epoch))
           acked == MaxOf(old.sent_cursor[m], MinOf(f.have, old.next_seq - 1))
           r == [old EXCEPT !.state_cursor[m] = IF n = Creator THEN held ELSE @,
                            !.sent_cursor[m] = acked]
           lk == [epoch |-> f.epoch, pushed |-> acked]
<1>1. /\ m \in Node /\ m # n /\ n \in {l[1], l[2]} /\ LanesIn(c, born, signed)
      /\ f \in GoodFrames(born[m], signed, n) /\ f.type = "sync"
  BY ReadGood DEF RecvSync
<1>2. /\ old \in GroupRec /\ links \in [Node -> [Node -> LinkRec]] /\ gone \in [Node -> SUBSET Node]
      /\ TypeOK /\ (old.known => old.state \in signed)
  BY Facts DEF DeviceOK
<1>3. f.have \in Nat /\ f.epoch \in Nat
  BY <1>1 DEF GoodFrames, Frame
<1>4. UNCHANGED <<log, born, signed, gap_sent, sessions>>
  BY DEF RecvSync
<1>5. CASE ~(Active(old) /\ m \in old.state.members)
  <2>1. /\ chan' = CASE old.known /\ f.epoch < old.state.epoch ->
                              Reply(n, l, c, <<StateF(old.state)>>)
                      [] ~Active(old) /\ (old.known => f.epoch >= old.state.epoch) ->
                              Reply(n, l, c, <<GoneF>>)
                      [] OTHER -> c
        /\ UNCHANGED <<rec, disk, links, gone, used>>
    BY <1>5 DEF RecvSync
  <2>2. \/ old.known /\ chan' = Reply(n, l, c, <<StateF(old.state)>>)
        \/ chan' = Reply(n, l, c, <<GoneF>>)
        \/ chan' = c
    BY <2>1
  <2>3. /\ old.known => LanesIn(Reply(n, l, c, <<StateF(old.state)>>), born, signed)
        /\ LanesIn(Reply(n, l, c, <<GoneF>>), born, signed)
    <3> HIDE DEF c, old
    <3> QED BY <1>1, <1>2, <1>3, AnswersGood
  <2>4. LanesIn(chan', born, signed)
    <3> HIDE DEF c, old
    <3> QED BY <1>1, <2>2, <2>3
  <2>5. SessionTypes'
    BY <1>4, <2>1, Facts DEF SessionTypes, sessions
  <2> QED BY <1>4, <2>1, <2>4, <2>5, SessionKeeps
<1>6. CASE Active(old) /\ m \in old.state.members
  <2>1. /\ gone' = [gone EXCEPT ![n] = gn]
        /\ rec' = [rec EXCEPT ![n] = r]
        /\ IF r # old THEN SaveCounters(n, r) ELSE UNCHANGED <<disk, used>>
        /\ links' = [links EXCEPT ![n][m] = PumpLink(n, handle, r, lk, gn, m)]
        /\ chan' = CASE f.epoch < r.state.epoch -> Reply(n, l, c, <<StateF(r.state)>>)
                     [] f.epoch > r.state.epoch -> Reply(n, l, c, <<SyncF(r, m)>>)
                     [] OTHER -> Sends(n, handle, c, Only(m, PumpFrames(r, lk, gn, m, log[n][n])))
    BY <1>6 DEF RecvSync
  <2>2. \/ chan' = Reply(n, l, c, <<StateF(r.state)>>)
        \/ chan' = Reply(n, l, c, <<SyncF(r, m)>>)
        \/ chan' = Sends(n, handle, c, Only(m, PumpFrames(r, lk, gn, m, log[n][n])))
    BY <2>1
  <2>3. /\ old.next_seq \in Nat /\ old.sent_cursor \in [Node -> Nat]
        /\ old.state_cursor \in [Node -> Nat] /\ old.state.epoch \in Nat /\ old.known
        /\ old.state \in signed /\ 1 <= old.next_seq
    <3>1. /\ old.next_seq \in Nat /\ old.sent_cursor \in [Node -> Nat]
          /\ old.state_cursor \in [Node -> Nat] /\ old.state.epoch \in Nat
      BY <1>2 DEF GroupRec, GroupState
    <3>2. old.known /\ old.state \in signed
      BY <1>2, <1>6 DEF Active
    <3>3. disk[n].next_seq \in Nat /\ Bounded(old, disk[n])
      BY Facts DEF DeviceOK, GroupRec
    <3> QED BY <3>1, <3>2, <3>3 DEF Bounded
  <2> DEFINE sc == IF n = Creator THEN held ELSE old.state_cursor[m]
  <2>4. sc \in Nat
    BY <1>1, <1>3, <2>3 DEF MaxOf, MinOf
  <2>5. acked \in Nat
    BY <1>1, <1>3, <2>3 DEF MaxOf, MinOf
  <2>6. r = [old EXCEPT !.state_cursor = [old.state_cursor EXCEPT ![m] = sc],
                        !.sent_cursor = [old.sent_cursor EXCEPT ![m] = acked]]
    OBVIOUS
  <2>7. lk \in LinkRec
    BY <1>3, <2>5 DEF LinkRec
  <2> HIDE DEF m, f, c, acked, held, sc, lk, gn, r
  <2>8. /\ r \in GroupRec /\ SameRoster(old, r)
        /\ r.next_seq = old.next_seq /\ r.have = old.have
    BY <1>1, <1>2, <2>3, <2>4, <2>5, <2>6 DEF GroupRec, SameRoster
  <2>9. SameRoster(rec[n], r) /\ r.next_seq = rec[n].next_seq /\ r.have = rec[n].have
    BY <2>8
  <2>10. /\ disk' = disk \/ disk' = [disk EXCEPT ![n] = r]
         /\ used' \in [breaks : Nat, restarts : Nat, drops : Nat, faults : Nat]
    <3>1. CASE SaveCounters(n, r)
      BY <1>2, <3>1, SavedCounters
    <3>2. CASE UNCHANGED <<disk, used>>
      BY <3>2, Facts
    <3> QED BY <2>1, <3>1, <3>2
  <2>11. r.state \in signed
    BY <2>3, <2>8 DEF SameRoster
  <2> HIDE DEF old
  <2>12. /\ LanesIn(Sends(n, handle, c, Only(m, PumpFrames(r, lk, gn, m, log[n][n]))), born, signed)
         /\ PumpLink(n, handle, r, lk, gn, m) \in LinkRec
    BY <1>1, <2>7, <2>8, <2>9, CursorPumps
  <2>13. /\ LanesIn(Reply(n, l, c, <<StateF(r.state)>>), born, signed)
         /\ LanesIn(Reply(n, l, c, <<SyncF(r, m)>>), born, signed)
    BY <1>1, <1>3, <2>8, <2>11, AnswersGood DEF m
  <2>14. LanesIn(chan', born, signed)
    BY <2>2, <2>12, <2>13
  <2>15. SessionTypes'
    <3>1. links' \in [Node -> [Node -> LinkRec]]
      BY <1>1, <1>2, <2>1, <2>12
    <3>2. gone' \in [Node -> SUBSET Node]
      BY <1>2, <2>1 DEF gn
    <3> QED BY <1>4, <2>10, <3>1, <3>2, Facts DEF SessionTypes, sessions
  <2> QED BY <1>4, <2>1, <2>8, <2>9, <2>10, <2>14, <2>15, CursorsKeep
<1> QED BY <1>5, <1>6

\* on_group_msg, when the message is not the next one.
LEMMA RecvMsgIgnoredKeeps ==
    ASSUME RosterInv, NEW n \in Node, NEW l \in Link, RecvMsg(n, l),
           ~(/\ Active(rec[n]) /\ Far(n, l) \in rec[n].state.members
             /\ IsNext(rec[n], Far(n, l), Head(chan[l][n]).seq))
    PROVE  RosterInv' /\ Stay
<1> DEFINE m == Far(n, l)
           c == Taken(n, l)
           old == rec[n]
           have == old.have[m]
<1>1. m \in Node /\ n \in {l[1], l[2]} /\ LanesIn(c, born, signed)
  BY ReadGood DEF RecvMsg
<1>2. old \in GroupRec /\ gap_sent \in [Node -> [Node -> Nat \cup {-1}]] /\ have \in Nat
  <2>1. old \in GroupRec /\ gap_sent \in [Node -> [Node -> Nat \cup {-1}]]
    BY Facts
  <2> QED BY <1>1, <2>1 DEF GroupRec
<1>3. /\ UNCHANGED <<rec, disk, log, used, links, gone, born, signed, sessions>>
      /\ CASE ~Active(old) -> chan' = Reply(n, l, c, <<GoneF>>) /\ UNCHANGED gap_sent
           [] Active(old) /\ m \notin old.state.members -> chan' = c /\ UNCHANGED gap_sent
           [] Active(old) /\ m \in old.state.members /\ Head(chan[l][n]).seq <= have ->
                 chan' = Reply(n, l, c, <<AckF(have)>>) /\ UNCHANGED gap_sent
           [] OTHER -> /\ chan' = IF gap_sent[n][m] = have THEN c
                                  ELSE Reply(n, l, c, <<SyncF(old, m)>>)
                       /\ gap_sent' = [gap_sent EXCEPT ![n][m] = have]
  BY DEF RecvMsg
<1>4. /\ \/ chan' = c
         \/ chan' = Reply(n, l, c, <<GoneF>>)
         \/ chan' = Reply(n, l, c, <<AckF(have)>>)
         \/ chan' = Reply(n, l, c, <<SyncF(old, m)>>)
      /\ gap_sent' = gap_sent \/ gap_sent' = [gap_sent EXCEPT ![n][m] = have]
  BY <1>3
<1>5. LanesIn(chan', born, signed)
  <2>1. /\ LanesIn(Reply(n, l, c, <<GoneF>>), born, signed)
        /\ LanesIn(Reply(n, l, c, <<AckF(have)>>), born, signed)
        /\ LanesIn(Reply(n, l, c, <<SyncF(old, m)>>), born, signed)
    BY <1>1, <1>2, AnswersGood
  <2> HIDE DEF c, m, old, have
  <2> QED BY <1>1, <1>4, <2>1
<1> HIDE DEF m, c, have
<1>6. gap_sent' \in [Node -> [Node -> Nat \cup {-1}]]
  BY <1>1, <1>2, <1>4
<1>7. SessionTypes'
  BY <1>3, <1>6, Facts DEF SessionTypes, sessions
<1> QED BY <1>3, <1>5, <1>7, SessionKeeps

\* on_group_msg stores the next message of a member; its author was allowed
\* to send it here.
LEMMA RecvMsgStoredKeeps ==
    ASSUME RosterInv, NEW n \in Node, NEW l \in Link, RecvMsg(n, l),
           Active(rec[n]), Far(n, l) \in rec[n].state.members,
           IsNext(rec[n], Far(n, l), Head(chan[l][n]).seq)
    PROVE  RosterInv' /\ Stay
<1> DEFINE m == Far(n, l)
           f == Head(chan[l][n])
           k == f.seq
           c == Taken(n, l)
           old == rec[n]
           r == [old EXCEPT !.have[m] = k]
           lg == [log[n] EXCEPT ![m] = [log[n][m] EXCEPT ![k] = f.id]]
<1>. USE MaxMsgAssumption
<1>1. /\ m \in Node /\ m # n /\ n \in {l[1], l[2]} /\ LanesIn(c, born, signed)
      /\ f \in GoodFrames(born[m], signed, n) /\ f.type = "msg"
  BY ReadGood DEF RecvMsg
<1>2. /\ k \in Seqs /\ f.id \in 1..MaxMsg /\ k = old.have[m] + 1
      /\ Entitled(born[m], signed, n, f.id)
  BY <1>1 DEF GoodFrames, Frame, IsNext
<1>3. /\ log' = [log EXCEPT ![n][m][k] = f.id]
      /\ gap_sent' = [gap_sent EXCEPT ![n][m] = -1]
      /\ rec' = [rec EXCEPT ![n] = r]
      /\ SaveCounters(n, r)
      /\ chan' = Reply(n, l, c, <<AckF(k)>>)
      /\ UNCHANGED <<links, gone, born, signed, sessions>>
  BY DEF RecvMsg
<1>4. /\ old \in GroupRec /\ disk[n] \in GroupRec /\ TypeOK
      /\ log \in [Node -> [Node -> [Seqs -> 0..MaxMsg]]]
      /\ gap_sent \in [Node -> [Node -> Nat \cup {-1}]] /\ born \in [Node -> Seq(Nat)]
      /\ DeviceOK(n, old, disk[n], log[n], born, signed)
  BY Facts
<1>5. old.known /\ ~old.hidden
  BY <1>4 DEF Active, DeviceOK
<1>6. /\ k \in Nat /\ k >= 1 /\ k <= MaxMsg /\ old.have \in [Node -> Nat]
      /\ old.next_seq \in Nat /\ disk[n].next_seq \in Nat /\ disk[n].have \in [Node -> Nat]
  <2>1. /\ old.have \in [Node -> Nat] /\ old.next_seq \in Nat
        /\ disk[n].next_seq \in Nat /\ disk[n].have \in [Node -> Nat]
    BY <1>4 DEF GroupRec
  <2> HIDE DEF k
  <2>2. k \in Nat /\ k >= 1 /\ k <= MaxMsg
    BY <1>2 DEF Seqs
  <2> QED BY <2>1, <2>2
<1>7. log' = [log EXCEPT ![n] = lg] /\ lg \in [Node -> [Seqs -> 0..MaxMsg]]
  <2> HIDE DEF m, f, k
  <2>1. log[n] \in [Node -> [Seqs -> 0..MaxMsg]]
    BY <1>4
  <2>2. lg \in [Node -> [Seqs -> 0..MaxMsg]]
    BY <1>1, <1>2, <2>1
  <2>3. log' = [log EXCEPT ![n] = lg]
    BY <1>3
  <2> QED BY <2>2, <2>3
<1> HIDE DEF m, k, c, old
<1>8. /\ r \in GroupRec /\ SameRoster(old, r)
      /\ r.next_seq = old.next_seq /\ r.have = [old.have EXCEPT ![m] = k]
  BY <1>1, <1>4, <1>6 DEF GroupRec, SameRoster
<1> HIDE DEF r
<1> HIDE DEF f
<1>9. \A a \in Node, s \in Seqs : lg[a][s] = IF a = m /\ s = k THEN f.id ELSE log[n][a][s]
  <2>1. log[n] \in [Node -> [Seqs -> 0..MaxMsg]]
    BY <1>4
  <2> QED BY <1>1, <1>2, <2>1
<1> HIDE DEF lg
<1>10. SameRoster(rec[n], r)
  BY <1>8 DEF old
<1>11. Bounded(r, disk[n])
  <2>1. Bounded(old, disk[n])
    BY <1>4 DEF DeviceOK
  <2>2. ASSUME NEW a \in Node PROVE disk[n].have[a] <= r.have[a] /\ r.have[a] <= MaxMsg
    <3>1. disk[n].have[a] <= old.have[a] /\ old.have[a] <= MaxMsg
          /\ disk[n].have[a] \in Nat /\ old.have[a] \in Nat
      BY <1>6, <2>1 DEF Bounded
    <3>2. r.have[a] = IF a = m THEN k ELSE old.have[a]
      BY <1>6, <1>8
    <3> QED BY <1>2, <1>6, <3>1, <3>2
  <2> QED BY <1>8, <2>1, <2>2 DEF Bounded
<1>12. Counts(n, r, lg)
  <2> SUFFICES ASSUME NEW a \in Node, NEW s \in Seqs
               PROVE  lg[a][s] # 0 <=> /\ r.known /\ ~r.hidden
                                       /\ IF a = n THEN s < r.next_seq ELSE s <= r.have[a]
    BY DEF Counts
  <2>1. /\ log[n][a][s] # 0 <=> IF a = n THEN s < old.next_seq ELSE s <= old.have[a]
        /\ r.known /\ ~r.hidden /\ s \in Nat /\ old.have[a] \in Nat
    BY <1>4, <1>5, <1>6, <1>8 DEF DeviceOK, Counts, SameRoster, Seqs
  <2>2. CASE a = m
    <3>1. r.have[a] = k /\ old.have[a] = k - 1
      BY <1>1, <1>2, <1>6, <1>8, <2>2
    <3>2. lg[a][s] # 0 <=> s = k \/ log[n][a][s] # 0
      BY <1>2, <1>9, <2>2
    <3> QED BY <1>1, <1>6, <2>1, <2>2, <3>1, <3>2
  <2>3. CASE a # m
    <3>1. r.have[a] = old.have[a] /\ lg[a][s] = log[n][a][s]
      BY <1>6, <1>8, <1>9, <2>3
    <3> QED BY <1>8, <2>1, <3>1
  <2> QED BY <2>2, <2>3
<1>13. Rightful(n, r, lg, born', signed)
  <2> SUFFICES ASSUME NEW a \in Node, NEW s \in Seqs, lg[a][s] # 0
               PROVE  IF a = n THEN lg[a][s] \in DOMAIN born[a] /\ born[a][lg[a][s]] <= r.state.epoch
                               ELSE Entitled(born[a], signed, n, lg[a][s])
    BY <1>3 DEF Rightful
  <2>1. CASE a = m /\ s = k
    BY <1>1, <1>2, <1>9, <2>1
  <2>2. CASE ~(a = m /\ s = k)
    <3>1. lg[a][s] = log[n][a][s] /\ r.state = old.state
      BY <1>8, <1>9, <2>2 DEF SameRoster
    <3> QED BY <1>4, <3>1 DEF DeviceOK, Rightful
  <2> QED BY <2>1, <2>2
<1>14. LanesIn(chan', born', signed) /\ signed' = signed
  <2>1. LanesIn(Reply(n, l, c, <<AckF(k)>>), born, signed)
    BY <1>1, <1>4, <1>6, AnswersGood
  <2> QED BY <1>3, <2>1
<1>15. /\ disk' = disk \/ disk' = [disk EXCEPT ![n] = r]
       /\ used' \in [breaks : Nat, restarts : Nat, drops : Nat, faults : Nat]
  BY <1>3, <1>4, SavedCounters
<1>16. SessionTypes'
  <2>1. gap_sent' \in [Node -> [Node -> Nat \cup {-1}]]
    BY <1>1, <1>3, <1>4
  <2> QED BY <1>3, <1>15, <2>1, Facts DEF SessionTypes, sessions
<1>17. born' \in [Node -> Seq(Nat)] /\ Extends(born, born')
  BY <1>3, <1>4, SameBorn
<1> QED BY <1>3, <1>7, <1>8, <1>10, <1>11, <1>12, <1>13, <1>14, <1>15, <1>16, <1>17, CountersKeep

\* group_send writes under the device's own roster, and pumps to its members.
LEMMA GroupSendKeeps ==
    ASSUME RosterInv, NEW n \in Node, GroupSend(n)
    PROVE  RosterInv' /\ Stay
<1> DEFINE old == rec[n]
           id == Len(born[n]) + 1
           k == old.next_seq
           r == [old EXCEPT !.next_seq = k + 1]
           own == [log[n][n] EXCEPT ![k] = id]
           lg == [log[n] EXCEPT ![n] = own]
           out == [m \in Node |-> IF m = n THEN << >>
                                   ELSE PumpFrames(r, links[n][m], gone[n], m, own)]
           lks == [m \in Node |-> IF m = n THEN links[n][m]
                                   ELSE PumpLink(n, handle, r, links[n][m], gone[n], m)]
<1>. USE MaxMsgAssumption
<1>1. /\ Active(old) /\ id <= MaxMsg /\ k <= MaxMsg
      /\ log' = [log EXCEPT ![n][n] = own]
      /\ born' = [born EXCEPT ![n] = Append(@, r.state.epoch)]
      /\ rec' = [rec EXCEPT ![n] = r]
      /\ SaveCounters(n, r)
      /\ chan' = Sends(n, handle, chan, out)
      /\ links' = [links EXCEPT ![n] = lks]
      /\ UNCHANGED <<signed, gone, gap_sent, sessions>>
  BY DEF GroupSend
<1>2. /\ old \in GroupRec /\ disk[n] \in GroupRec /\ TypeOK
      /\ log \in [Node -> [Node -> [Seqs -> 0..MaxMsg]]]
      /\ born \in [Node -> Seq(Nat)] /\ links \in [Node -> [Node -> LinkRec]]
      /\ DeviceOK(n, old, disk[n], log[n], born, signed) /\ LanesIn(chan, born, signed)
  BY Facts
<1>3. old.known /\ ~old.hidden /\ Bounded(old, disk[n])
  BY <1>1, <1>2 DEF Active, DeviceOK
<1>4. /\ k \in Nat /\ disk[n].next_seq \in Nat /\ old.state.epoch \in Nat
      /\ \A a \in Node : old.have[a] \in Nat
  BY <1>2 DEF GroupRec, GroupState
<1>5. 1 <= k /\ disk[n].next_seq <= k /\ k \in Seqs
  <2>1. 1 <= disk[n].next_seq /\ disk[n].next_seq <= k
    BY <1>3 DEF Bounded
  <2> HIDE DEF k
  <2> QED BY <1>1, <1>4, <2>1 DEF Seqs
<1>6. id \in 1..MaxMsg /\ Len(born[n]) \in Nat
  <2>1. Len(born[n]) \in Nat
    BY <1>2
  <2> QED BY <1>1, <2>1
<1> HIDE DEF old, id, k
<1>7. /\ r \in GroupRec /\ SameRoster(old, r) /\ r.next_seq = k + 1 /\ r.have = old.have
  <2> DEFINE j == k + 1
  <2>1. j \in Nat
    BY <1>4
  <2> HIDE DEF j
  <2>2. [old EXCEPT !.next_seq = j] \in GroupRec
    BY <1>2, <2>1 DEF GroupRec
  <2> QED BY <1>2, <2>2 DEF GroupRec, SameRoster, j
<1>8. own \in [Seqs -> 0..MaxMsg] /\ \A s \in Seqs : own[s] = IF s = k THEN id ELSE log[n][n][s]
  BY <1>2, <1>5, <1>6
<1> HIDE DEF r, own
<1>9. /\ lg \in [Node -> [Seqs -> 0..MaxMsg]] /\ log' = [log EXCEPT ![n] = lg]
      /\ \A a \in Node : lg[a] = IF a = n THEN own ELSE log[n][a]
  BY <1>1, <1>2, <1>8
<1> HIDE DEF lg
<1>10. SameRoster(rec[n], r)
  BY <1>7 DEF old
<1>11. /\ born' \in [Node -> Seq(Nat)] /\ Extends(born, born')
       /\ id \in DOMAIN born'[n] /\ born'[n][id] = r.state.epoch
  <2> DEFINE w == born[n]
             w2 == Append(w, r.state.epoch)
  <2>1. w \in Seq(Nat) /\ r.state.epoch \in Nat /\ id = Len(w) + 1
    BY <1>2, <1>4, <1>7 DEF SameRoster, id
  <2> HIDE DEF w
  <2>2. /\ w2 \in Seq(Nat) /\ \A i \in DOMAIN w : i \in DOMAIN w2 /\ w2[i] = w[i]
        /\ id \in DOMAIN w2 /\ w2[id] = r.state.epoch
    BY <2>1
  <2>3. born' = [born EXCEPT ![n] = w2]
    BY <1>1, <1>2 DEF w
  <2> HIDE DEF w2
  <2>4. born' \in [Node -> Seq(Nat)] /\ born'[n] = w2 /\ \A a \in Node : a # n => born'[a] = born[a]
    BY <1>2, <2>2, <2>3
  <2>5. Extends(born, born')
    <3> SUFFICES ASSUME NEW a \in Node, NEW i \in DOMAIN born[a]
                 PROVE  i \in DOMAIN born'[a] /\ born'[a][i] = born[a][i]
      BY DEF Extends
    <3>1. CASE a = n
      BY <2>2, <2>4, <3>1 DEF w
    <3>2. CASE a # n
      BY <2>4, <3>2
    <3> QED BY <3>1, <3>2
  <2> QED BY <2>2, <2>4, <2>5
<1>12. Bounded(r, disk[n])
  BY <1>1, <1>3, <1>4, <1>5, <1>7 DEF Bounded
<1>13. Counts(n, r, lg)
  <2> SUFFICES ASSUME NEW a \in Node, NEW s \in Seqs
               PROVE  lg[a][s] # 0 <=> /\ r.known /\ ~r.hidden
                                       /\ IF a = n THEN s < r.next_seq ELSE s <= r.have[a]
    BY DEF Counts
  <2>1. /\ log[n][a][s] # 0 <=> IF a = n THEN s < k ELSE s <= old.have[a]
        /\ r.known /\ ~r.hidden /\ s \in Nat
    <3>1. Counts(n, old, log[n])
      BY <1>2 DEF DeviceOK
    <3>2. r.known /\ ~r.hidden /\ s \in Nat
      BY <1>3, <1>7 DEF SameRoster, Seqs
    <3> QED BY <1>3, <3>1, <3>2 DEF Counts, k
  <2>2. CASE a = n
    <3>1. lg[a][s] # 0 <=> s = k \/ log[n][a][s] # 0
      BY <1>6, <1>8, <1>9, <2>2
    <3> QED BY <1>4, <1>7, <2>1, <2>2, <3>1
  <2>3. CASE a # n
    BY <1>7, <1>9, <2>1, <2>3
  <2> QED BY <2>2, <2>3
<1>14. Rightful(n, r, lg, born', signed)
  <2> SUFFICES ASSUME NEW a \in Node, NEW s \in Seqs, lg[a][s] # 0
               PROVE  IF a = n THEN lg[a][s] \in DOMAIN born'[a] /\ born'[a][lg[a][s]] <= r.state.epoch
                               ELSE Entitled(born'[a], signed, n, lg[a][s])
    BY DEF Rightful
  <2>1. r.state = old.state
    BY <1>7 DEF SameRoster
  <2>2. CASE a = n /\ s = k
    <3>1. lg[a][s] = id
      BY <1>8, <1>9, <2>2
    <3> QED BY <1>4, <1>11, <2>1, <2>2, <3>1
  <2>3. CASE a = n /\ s # k
    <3>1. lg[a][s] = log[n][n][s]
      BY <1>8, <1>9, <2>3
    <3>2. log[n][n][s] \in DOMAIN born[n] /\ born[n][log[n][n][s]] <= old.state.epoch
      BY <1>2, <2>3, <3>1 DEF DeviceOK, Rightful
    <3> QED BY <1>11, <2>1, <2>3, <3>1, <3>2 DEF Extends
  <2>4. CASE a # n
    <3>1. lg[a][s] = log[n][a][s]
      BY <1>9, <2>4
    <3>2. Entitled(born[a], signed, n, lg[a][s])
      BY <1>2, <2>4, <3>1 DEF DeviceOK, Rightful
    <3> QED BY <1>11, <2>4, <3>2, EntitledGrows
  <2> QED BY <2>2, <2>3, <2>4
<1>15. DeviceOK(n, r, disk[n], lg, born', signed) /\ lg[n] = own
  <2>1. Saved(r, disk[n])
    BY <1>2, <1>7 DEF DeviceOK, Saved, SameRoster
  <2>2. (r.hidden => r.pending_leave /\ r.removed) /\ (r.known => r.state \in signed)
    BY <1>2, <1>7 DEF DeviceOK, SameRoster
  <2> QED BY <1>9, <1>12, <1>13, <1>14, <2>1, <2>2 DEF DeviceOK
<1>16. ASSUME NEW m \in Node
       PROVE  /\ PumpFrames(r, links[n][m], gone[n], m, own) \in Seq(GoodFrames(born'[n], signed, m))
              /\ PumpLink(n, handle, r, links[n][m], gone[n], m) \in LinkRec
  <2> DEFINE lk == links[n][m]
             gn == gone[n]
  <2>1. lk \in LinkRec
    BY <1>2
  <2> HIDE DEF lk, gn
  <2>2. /\ PumpFrames(r, lk, gn, m, lg[n]) \in Seq(GoodFrames(born'[n], signed, m))
        /\ PumpLink(n, handle, r, lk, gn, m) \in LinkRec
    BY <1>2, <1>7, <1>9, <1>15, <2>1, DevicePumps
  <2> QED BY <1>15, <2>2 DEF lk, gn
<1>17. LanesIn(chan', born', signed) /\ signed' = signed
  <2>1. LanesIn(chan, born', signed)
    BY <1>2, <1>11, LanesInGrow
  <2>2. \A m \in Node : m # n => out[m] \in Seq(GoodFrames(born'[n], signed, m))
    BY <1>16
  <2> HIDE DEF out
  <2> QED BY <1>1, <2>1, <2>2, LanesInSends
<1>18. /\ disk' = disk \/ disk' = [disk EXCEPT ![n] = r]
       /\ used' \in [breaks : Nat, restarts : Nat, drops : Nat, faults : Nat]
  BY <1>1, <1>2, SavedCounters
<1>19. SessionTypes'
  <2>1. lks \in [Node -> LinkRec]
    BY <1>2, <1>16
  <2> HIDE DEF lks
  <2>2. links' \in [Node -> [Node -> LinkRec]]
    BY <1>1, <1>2, <2>1
  <2> QED BY <1>1, <1>18, <2>2, Facts DEF SessionTypes, sessions
<1> QED BY <1>1, <1>7, <1>9, <1>10, <1>11, <1>12, <1>13, <1>14, <1>17, <1>18, <1>19, CountersKeep

\* The counters that a restart repairs from the log are right for it.
LEMMA RepairRight ==
    ASSUME NEW n \in Node, NEW q \in GroupRec, NEW d \in GroupRec,
           NEW lg \in [Node -> [Seqs -> 0..MaxMsg]], Saved(q, d), Bounded(q, d), Counts(n, q, lg)
    PROVE  LET r == Repair(d, lg, n)
           IN  r \in GroupRec /\ SameRoster(q, r) /\ Bounded(r, d) /\ Counts(n, r, lg)
<1> DEFINE r == Repair(d, lg, n)
<1>. USE MaxMsgAssumption
<1>1. /\ q.next_seq \in Nat /\ d.next_seq \in Nat /\ q.have \in [Node -> Nat] /\ d.have \in [Node -> Nat]
      /\ 1 <= d.next_seq /\ d.next_seq <= q.next_seq /\ q.next_seq <= MaxMsg + 1
  BY DEF Bounded, GroupRec
<1>2. \A a \in Node : /\ d.have[a] <= q.have[a] /\ q.have[a] <= MaxMsg
                      /\ d.have[a] \in Nat /\ q.have[a] \in Nat
  BY <1>1 DEF Bounded
<1>3. CASE ~d.known
  <2>1. r = d
    BY <1>3 DEF Repair
  <2>2. SameRoster(q, d) /\ Counts(n, d, lg)
    BY <1>3 DEF Saved, SameRoster, Counts
  <2>3. Bounded(d, d)
    BY <1>1, <1>2 DEF Bounded
  <2> QED BY <2>1, <2>2, <2>3
<1>4. CASE d.known
  <2> DEFINE k == MaxOf(d.next_seq, LogMax(lg[n]) + 1)
             hv == [a \in Node |-> IF a = n THEN d.have[a] ELSE MaxOf(d.have[a], LogMax(lg[a]))]
  <2>1. r = [d EXCEPT !.next_seq = k, !.have = hv]
    BY <1>4 DEF Repair
  <2>2. ASSUME q.hidden, NEW a \in Node PROVE LogMax(lg[a]) = 0
    <3>1. lg[a] \in [Seqs -> 0..MaxMsg] /\ 0 \in 0..MaxMsg
      OBVIOUS
    <3>2. \A s \in Seqs : lg[a][s] # 0 <=> s <= 0
      BY <2>2 DEF Counts, Seqs
    <3> QED BY <3>1, <3>2, LogMaxCount
  <2>3. q.known /\ (~q.hidden => \A a \in Node, s \in Seqs :
                        lg[a][s] # 0 <=> IF a = n THEN s < q.next_seq ELSE s <= q.have[a])
    BY <1>4 DEF Counts, Saved
  <2>4. /\ k \in Nat /\ d.next_seq <= k /\ k <= q.next_seq
        /\ ~q.hidden => k = q.next_seq
    <3>1. CASE q.hidden
      BY <1>1, <2>2, <3>1 DEF MaxOf
    <3>2. CASE ~q.hidden
      <4> DEFINE t == q.next_seq - 1
      <4>1. lg[n] \in [Seqs -> 0..MaxMsg] /\ t \in 0..MaxMsg
        BY <1>1
      <4>2. \A s \in Seqs : lg[n][s] # 0 <=> s <= t
        BY <1>1, <2>3, <3>2 DEF Seqs
      <4>3. LogMax(lg[n]) = t
        BY <4>1, <4>2, LogMaxCount
      <4>4. k = MaxOf(d.next_seq, q.next_seq)
        BY <1>1, <4>3
      <4> HIDE DEF k
      <4> QED BY <1>1, <4>4 DEF MaxOf
    <3> QED BY <3>1, <3>2
  <2>5. ASSUME NEW a \in Node
        PROVE  /\ hv[a] \in Nat /\ d.have[a] <= hv[a] /\ hv[a] <= q.have[a]
               /\ ~q.hidden /\ a # n => hv[a] = q.have[a]
    <3>1. CASE a = n
      BY <1>2, <3>1
    <3>2. CASE a # n /\ q.hidden
      BY <1>2, <2>2, <3>2 DEF MaxOf
    <3>3. CASE a # n /\ ~q.hidden
      <4>1. lg[a] \in [Seqs -> 0..MaxMsg] /\ q.have[a] \in 0..MaxMsg
        BY <1>2
      <4>2. \A s \in Seqs : lg[a][s] # 0 <=> s <= q.have[a]
        BY <2>3, <3>3
      <4>3. LogMax(lg[a]) = q.have[a]
        BY <4>1, <4>2, LogMaxCount
      <4> QED BY <1>2, <3>3, <4>3 DEF MaxOf
    <3> QED BY <3>1, <3>2, <3>3
  <2>6. hv \in [Node -> Nat]
    <3>1. \A a \in Node : hv[a] \in Nat
      BY <2>5
    <3>2. hv = [a \in Node |-> hv[a]]
      OBVIOUS
    <3> HIDE DEF hv
    <3> QED BY <3>1, <3>2
  <2> HIDE DEF k, hv, r
  <2>7. /\ r \in GroupRec /\ r.next_seq = k /\ r.have = hv /\ SameRoster(d, r)
    BY <2>1, <2>4, <2>6 DEF GroupRec, SameRoster
  <2>8. SameRoster(q, r)
    BY <2>7 DEF SameRoster, Saved
  <2>9. Bounded(r, d)
    <3>1. ASSUME NEW a \in Node PROVE d.have[a] <= hv[a] /\ hv[a] <= MaxMsg
      <4>1. q.have[a] <= MaxMsg /\ q.have[a] \in Nat
        BY <1>2
      <4>2. hv[a] \in Nat /\ d.have[a] <= hv[a] /\ hv[a] <= q.have[a]
        BY <2>5
      <4> QED BY <4>1, <4>2
    <3> QED BY <1>1, <2>4, <2>7, <3>1 DEF Bounded
  <2>10. Counts(n, r, lg)
    <3>1. CASE q.hidden
      BY <2>8, <3>1 DEF Counts, SameRoster
    <3>2. CASE ~q.hidden
      BY <2>3, <2>4, <2>5, <2>7, <2>8, <3>2 DEF Counts, SameRoster
    <3> QED BY <3>1, <3>2
  <2> QED BY <2>7, <2>8, <2>9, <2>10 DEF r
<1> QED BY <1>3, <1>4

\* start_with_alpns
LEMMA RestartKeeps ==
    ASSUME RosterInv, NEW n \in Node, Restart(n)
    PROVE  RosterInv' /\ Stay
<1> DEFINE r == Repair(disk[n], log[n], n)
           mine == {l \in Link : n = l[1] \/ n = l[2]}
<1>1. /\ DeviceOK(n, rec[n], disk[n], log[n], born, signed) /\ TypeOK
      /\ rec[n] \in GroupRec /\ disk[n] \in GroupRec /\ log[n] \in [Node -> [Seqs -> 0..MaxMsg]]
      /\ born \in [Node -> Seq(Nat)] /\ LanesIn(chan, born, signed)
  BY Facts
<1>2. r \in GroupRec /\ SameRoster(rec[n], r) /\ Bounded(r, disk[n]) /\ Counts(n, r, log[n])
  <2>1. Saved(rec[n], disk[n]) /\ Bounded(rec[n], disk[n]) /\ Counts(n, rec[n], log[n])
    BY <1>1 DEF DeviceOK
  <2> QED BY <1>1, <2>1, RepairRight
<1>3. /\ rec' = [rec EXCEPT ![n] = r] /\ UNCHANGED <<disk, log, born, signed>>
      /\ used' = [used EXCEPT !.restarts = @ + 1]
      /\ handle' = [handle EXCEPT ![n] = [l \in Link |-> 0]]
      /\ links' = [links EXCEPT ![n] = [m \in Node |-> NoLink]]
      /\ gone' = [gone EXCEPT ![n] = {}]
      /\ gap_sent' = [gap_sent EXCEPT ![n] = [m \in Node |-> -1]]
      /\ EndTasks(n, mine)
  BY DEF Restart
<1> HIDE DEF r
<1>4. /\ task' \in [Link -> SUBSET Node]
      /\ \A l \in Link : task'[l] \subseteq {l[1], l[2]}
      /\ phase' \in [Link -> {"idle", "dialing", "ring", "up"}]
      /\ LanesIn(chan', born, signed)
  <2>1. mine \in SUBSET Link
    OBVIOUS
  <2> HIDE DEF mine
  <2>2. /\ task' \in [Link -> SUBSET Node]
        /\ \A l \in Link : task'[l] \subseteq {l[1], l[2]}
        /\ phase' \in [Link -> {"idle", "dialing", "ring", "up"}]
        /\ chan' = [l \in Link |-> [m \in Node |-> chan'[l][m]]]
        /\ \A l \in Link, m \in Node : chan'[l][m] \in {<< >>, chan[l][m]}
    BY <1>1, <1>3, <2>1, EndTasksTypes
  <2>3. LanesIn(chan', born, signed)
    BY <1>1, <2>2, LanesInEmptied
  <2> QED BY <2>2, <2>3
<1>5. SessionTypes'
  <2>1. /\ links \in [Node -> [Node -> LinkRec]] /\ NoLink \in LinkRec
        /\ handle \in [Node -> [Link -> 0..(2 * Slots)]]
        /\ gone \in [Node -> SUBSET Node]
        /\ gap_sent \in [Node -> [Node -> Nat \cup {-1}]]
        /\ used \in [breaks : Nat, restarts : Nat, drops : Nat, faults : Nat]
    BY Facts
  <2>2. 0 \in 0..(2 * Slots)
    BY MeshAssumption
  <2>3. links' \in [Node -> [Node -> LinkRec]]
    BY <1>3, <2>1
  <2>4. handle' \in [Node -> [Link -> 0..(2 * Slots)]]
    BY <1>3, <2>1, <2>2
  <2>5. gone' \in [Node -> SUBSET Node] /\ gap_sent' \in [Node -> [Node -> Nat \cup {-1}]]
    BY <1>3, <2>1
  <2>6. used' \in [breaks : Nat, restarts : Nat, drops : Nat, faults : Nat]
    <3>1. used' = [used EXCEPT !.restarts = @ + 1]
      BY <1>3
    <3>2. used \in [breaks : Nat, restarts : Nat, drops : Nat, faults : Nat]
      BY <2>1
    <3> QED BY <3>1, <3>2
  <2> QED BY <1>4, <2>3, <2>4, <2>5, <2>6 DEF SessionTypes
<1>6. Rightful(n, r, log[n], born', signed)
  BY <1>1, <1>2, <1>3 DEF DeviceOK, Rightful, SameRoster
<1>7. log' = [log EXCEPT ![n] = log[n]]
  BY <1>3, SameLog
<1>8. born' \in [Node -> Seq(Nat)] /\ Extends(born, born')
  BY <1>1, <1>3, SameBorn
<1>9. LanesIn(chan', born', signed) /\ signed' = signed /\ disk' = disk
  BY <1>3, <1>4
<1> QED BY <1>1, <1>2, <1>3, <1>5, <1>6, <1>7, <1>8, <1>9, CountersKeep

-----------------------------------------------------------------------------
(* The invariant *)

\* No record, no roster, no message, no session at the start.
LEMMA InitRosterInv == Init => RosterInv
<1> SUFFICES ASSUME Init PROVE RosterInv
  OBVIOUS
<1>1. TypeOK
  BY InitIInv DEF IInv
<1>2. ASSUME NEW n \in Node PROVE DeviceOK(n, rec[n], disk[n], log[n], born, signed)
  <2>1. rec[n] = NoRec /\ disk[n] = NoRec
    BY DEF Init
  <2>2. \A a \in Node, s \in Seqs : log[n][a][s] = 0
    BY DEF Init, EmptyLog
  <2>3. /\ NoRec.next_seq = 1 /\ ~NoRec.hidden /\ ~NoRec.known
        /\ \A a \in Node : NoRec.have[a] = 0
    BY DEF NoRec, NewRec
  <2>4. Saved(NoRec, NoRec) /\ Bounded(NoRec, NoRec)
    BY <2>3, MaxMsgAssumption DEF Saved, Bounded
  <2>5. Counts(n, NoRec, log[n]) /\ Rightful(n, NoRec, log[n], born, signed)
    BY <2>2, <2>3 DEF Counts, Rightful
  <2> QED BY <2>1, <2>3, <2>4, <2>5 DEF DeviceOK
<1>3. LanesIn(chan, born, signed)
  <2>1. chan \in [Link -> [Node -> Seq(Frame)]]
    BY <1>1 DEF TypeOK
  <2>2. \A l \in Link, x \in Node : chan[l][x] = << >>
    BY DEF Init
  <2>3. \A S : << >> \in Seq(S)
    OBVIOUS
  <2> QED BY <2>1, <2>2, <2>3 DEF LanesIn
<1>4. CreatorFirst(rec[Creator], signed)
  BY DEF Init, CreatorFirst
<1> QED BY <1>1, <1>2, <1>3, <1>4 DEF RosterInv

\* Every step keeps the invariant, and keeps out who is out.
LEMMA NextRosterInv ==
    ASSUME RosterInv, RostersSaved, [Next]_vars
    PROVE  RosterInv' /\ Stay
<1>1. CASE UNCHANGED vars
  <2>1. SessionTypes' /\ LanesIn(chan', born, signed)
    BY <1>1, Facts DEF vars, SessionTypes
  <2> QED BY <1>1, <2>1, SessionKeeps DEF vars
<1>2. CASE User
  BY <1>2, GroupCreateKeeps, UserEditKeeps, GroupLeaveKeeps, GroupDeleteKeeps, GroupSendKeeps DEF User
<1>3. CASE Engine
  <2>1. ASSUME NEW n \in Node, NEW l \in Link, Recv(n, l) PROVE RosterInv' /\ Stay
    BY <2>1, RecvStateKeeps, RecvSyncKeeps, RecvMsgStoredKeeps, RecvMsgIgnoredKeeps,
       RecvAckKeeps, RecvLeaveKeeps, QuietKeeps DEF Recv
  <2> QED BY <1>3, <2>1, QuietKeeps, ConnectKeeps, AcceptKeeps, BreakKeeps DEF Engine
<1>4. CASE Trouble
  BY <1>4, BreakKeeps, QuietKeeps, RestartKeeps DEF Trouble
<1> QED BY <1>1, <1>2, <1>3, <1>4 DEF Next

\* The inductive invariant of the rosters holds of every behaviour in which
\* the saves of rosters succeed.
THEOREM RosterInvariant == ASSUME RostersSaved PROVE Spec => []RosterInv
<1>1. Init => RosterInv
  BY InitRosterInv
<1>2. RosterInv /\ [Next]_vars => RosterInv'
  BY NextRosterInv
<1> QED BY <1>1, <1>2, PTL DEF Spec

\* Every variable keeps its shape, with chats deleted and counters unsaved.
THEOREM TypeCorrect == ASSUME RostersSaved PROVE Spec => []TypeOK
<1>1. RosterInv => TypeOK
  BY DEF RosterInv
<1> QED BY <1>1, RosterInvariant, PTL

\* Whoever stored a message was in a roster at least as new as the one it was
\* written under (pump, on_group_sync, on_group_msg).
THEOREM NothingLeaks == ASSUME RostersSaved PROVE Spec => []NoLeak
<1>1. RosterInv => NoLeak
  <2> SUFFICES ASSUME RosterInv, NEW n \in Node, NEW a \in Node, NEW s \in Seqs,
                      n # a, log[n][a][s] # 0
               PROVE  \E st \in signed : n \in st.members /\ st.epoch >= born[a][log[n][a][s]]
    BY DEF NoLeak
  <2>1. DeviceOK(n, rec[n], disk[n], log[n], born, signed)
    BY Facts
  <2>2. Entitled(born[a], signed, n, log[n][a][s])
    BY <2>1 DEF DeviceOK, Rightful
  <2> QED BY <2>2 DEF Entitled
<1> QED BY <1>1, RosterInvariant, PTL

\* A deleted chat stays deleted: its stub is there for a pending leave only and
\* its log stays empty (group_delete, on_group_msg, the repair at start-up).
THEOREM StubsStayEmpty == ASSUME RostersSaved PROVE Spec => []StubIsEmpty
<1>1. RosterInv => StubIsEmpty
  <2> SUFFICES ASSUME RosterInv, NEW n \in Node, rec[n].hidden
               PROVE  /\ rec[n].pending_leave /\ rec[n].removed
                      /\ \A a \in Node : log[n][a] = EmptyLog
    BY DEF StubIsEmpty
  <2>1. DeviceOK(n, rec[n], disk[n], log[n], born, signed)
    BY Facts
  <2>2. rec[n].pending_leave /\ rec[n].removed /\ \A a \in Node, s \in Seqs : log[n][a][s] = 0
    BY <2>1 DEF DeviceOK, Counts
  <2>3. log[n] \in [Node -> [Seqs -> 0..MaxMsg]]
    BY DEF RosterInv, TypeOK
  <2>4. \A a \in Node : log[n][a] = [s \in Seqs |-> 0]
    BY <2>2, <2>3
  <2> QED BY <2>2, <2>4 DEF EmptyLog
<1> QED BY <1>1, RosterInvariant, PTL

\* No step brings a device back that is out, but a newer roster that lists it
\* after its leave was heard (apply_state_locked, the restart).
THEOREM OutIsOut == ASSUME RostersSaved PROVE Spec => OutStaysOut
<1> DEFINE Step == \A n \in Node :
             (rec[n].known /\ rec[n].removed /\ rec'[n].known /\ ~rec'[n].removed) =>
                /\ rec'[n].state.epoch > rec[n].state.epoch
                /\ n \in rec'[n].state.members
                /\ ~rec[n].pending_leave
<1>1. RosterInv /\ [Next]_vars => [Step]_vars
  BY NextRosterInv DEF Stay, Stays
<1>2. Spec => [][Step]_vars
  BY <1>1, RosterInvariant, PTL DEF Spec
<1> QED BY <1>2 DEF OutStaysOut
=============================================================================
