-------------------------- MODULE ScheduledProofs ---------------------------
(***************************************************************************)
(* NoDoubleSend and NothingLost of Scheduled, for any items, edits,        *)
(* crashes, failed writes and unreadable files.  The argument: at most one *)
(* request is ever made for a revision of an item.  From the claim on, the *)
(* item is not claimable at that revision (Spent) until its request is     *)
(* known to have failed (FailureIsSure), and only an edit, which counts as *)
(* a new decision, opens a new revision (NoFuture).                        *)
(***************************************************************************)
EXTENDS Scheduled, TLAPS

\* Nothing was made of a revision that does not exist yet.
NoFuture ==
    /\ \A q \in inbox : q.rev <= doc[q.id].rev
    /\ \A i \in Item, r \in Revs : r > doc[i].rev => accepted[i][r] = 0

\* There is one request for a revision, taken by the core or on its way.
OneRequest ==
    /\ \A q, p \in inbox : q.id = p.id /\ q.rev = p.rev => q = p
    /\ \A q \in inbox : accepted[q.id][q.rev] = 0
    /\ \A i \in Item, r \in Revs : accepted[i][r] <= 1

\* The request for the item's present revision was made.
Requested(i) ==
    \/ \E q \in inbox : q.id = i /\ q.rev = doc[i].rev
    \/ accepted[i][doc[i].rev] # 0

\* ... and then the item cannot be claimed.
Spent == \A i \in Item : Requested(i) => ~Claimable(doc[i])

\* Nothing was requested for an item that is not there yet.
Fresh ==
    \A i \in Item : doc[i].status = "new" =>
        doc[i].rev = 0 /\ accepted[i][0] = 0 /\ \A q \in inbox : q.id # i

\* The item is in the hands of a pass, or not in the file.
Away(it) == it.status \in {"sending", "gone"}

\* The item of a pass stays as it was claimed, or is dropped with its file.
Held ==
    run.phase \in {"send"} \cup Outcome =>
        Away(doc[run.req.id]) /\ doc[run.req.id].rev = run.req.rev

\* The core's answer is true.
FailureIsSure == run.phase = "failed" => ~Requested(run.req.id)
SuccessIsSure == run.phase = "ok" => accepted[run.req.id][run.req.rev] # 0

SendInv ==
    /\ NoFuture /\ OneRequest /\ Spent /\ Fresh
    /\ Held /\ FailureIsSure /\ SuccessIsSure /\ NothingLost
IInv == TypeOK /\ SendInv

USE ScheduledAssumption

-----------------------------------------------------------------------------
(* Types *)

\* The shape of a pass that goes on with the rest of its list.
LEMMA GoOnType ==
    ASSUME NEW todo \in SUBSET Snapshot, GoOn(todo)
    PROVE  /\ run'.phase \in {"idle", "claim"}
           /\ run'.phase # "idle" => run'.todo \subseteq Snapshot
BY DEF GoOn, Idle, Claiming

\* What recover makes of a file is a file.
LEMMA RecoveredType ==
    ASSUME NEW d \in [Item -> ItemRec]
    PROVE  Recovered(d) \in [Item -> ItemRec]
BY DEF Recovered, ItemRec

\* The copies of the due items are copies.
LEMMA DueType ==
    ASSUME NEW d \in [Item -> ItemRec], NEW wake \in BOOLEAN
    PROVE  Due(d, wake) \subseteq Snapshot
BY DEF Due, Snapshot, ItemRec

\* The operations on one item make items.
LEMMA ItemType ==
    ASSUME NEW it \in ItemRec, NEW b \in BOOLEAN
    PROVE  /\ [Unborn EXCEPT !.status = "pending", !.due = b] \in ItemRec
           /\ it.rev < MaxRev => Updated(it, b) \in ItemRec
           /\ Claimed(it) \in ItemRec
           /\ Failed(it, b) \in ItemRec
           /\ Finished(it) \in ItemRec
           /\ [it EXCEPT !.due = TRUE] \in ItemRec
           /\ [it EXCEPT !.ready = TRUE] \in ItemRec
           /\ [it EXCEPT !.stale = TRUE] \in ItemRec
<1>1. 0 \in Revs /\ (it.rev < MaxRev => it.rev + 1 \in Revs)
  BY DEF Revs, ItemRec
<1>2. [Unborn EXCEPT !.status = "pending", !.due = b] \in ItemRec
  BY <1>1, Zenon DEF Unborn, ItemRec
<1>3. it.rev < MaxRev => Updated(it, b) \in ItemRec
  BY <1>1, Zenon DEF Updated, ItemRec
<1>4. Claimed(it) \in ItemRec
  BY DEF Claimed, ItemRec
<1>5. Failed(it, b) \in ItemRec
  BY DEF Failed, ItemRec
<1>6. Finished(it) \in ItemRec
  BY DEF Finished, ItemRec
<1>7. /\ [it EXCEPT !.due = TRUE] \in ItemRec
      /\ [it EXCEPT !.ready = TRUE] \in ItemRec
      /\ [it EXCEPT !.stale = TRUE] \in ItemRec
  BY DEF ItemRec
<1> QED
  BY <1>2, <1>3, <1>4, <1>5, <1>6, <1>7

\* Writing one item leaves a file.
LEMMA WriteType ==
    ASSUME NEW d \in [Item -> ItemRec], NEW i \in Item, NEW it \in ItemRec,
           Write([d EXCEPT ![i] = it])
    PROVE  doc' \in [Item -> ItemRec] /\ owed' \in BOOLEAN
BY DEF Write

\* What is spent of the bounds has its type.
Used == used \in [crashes : 0..MaxCrashes, faults : 0..MaxFaults]

\* A fault is counted.
LEMMA FaultType ==
    ASSUME Used, Fault
    PROVE  Used'
BY DEF Used, Fault

\* What is read is a file.
LEMMA ReadType ==
    ASSUME TypeOK, NEW d, Read(d)
    PROVE  /\ d \in [Item -> ItemRec]
           /\ Used' /\ unread' \subseteq Item
<1>1. doc \in [Item -> ItemRec] /\ Used /\ unread \subseteq Item
  BY DEF TypeOK, Used
<1>2. Emptied(doc) \in [Item -> ItemRec]
  BY <1>1, ItemType DEF Emptied
<1>3. UNCHANGED used => Used'
  BY <1>1 DEF Used
<1> QED
  BY <1>1, <1>2, <1>3, FaultType DEF Read

\* What a failed write leaves has its type.
LEMMA WriteFailsType ==
    ASSUME TypeOK, WriteFails
    PROVE  Used' /\ UNCHANGED <<doc, owed, unread>>
<1>1. Used
  BY DEF TypeOK, Used
<1> QED
  BY <1>1, FaultType DEF WriteFails

\* Every step keeps the types.
LEMMA TypeStep == TypeOK /\ [Next]_vars => TypeOK'
<1> SUFFICES ASSUME TypeOK, [Next]_vars PROVE TypeOK'
    OBVIOUS
<1> USE DEF TypeOK
<1>1. ASSUME NEW i \in Item, NEW b \in BOOLEAN, Add(i, b) PROVE TypeOK'
  <2> DEFINE it == [Unborn EXCEPT !.status = "pending", !.due = b]
  <2>1. PICK d \in Readings : Read(d) /\ Write([d EXCEPT ![i] = it])
    BY <1>1 DEF Add
  <2>2. it \in ItemRec /\ d \in [Item -> ItemRec] /\ Used' /\ unread' \subseteq Item
    BY <2>1, ItemType, ReadType
  <2>3. doc' \in [Item -> ItemRec] /\ owed' \in BOOLEAN
    BY <2>1, <2>2, WriteType
  <2> QED
    BY <1>1, <2>2, <2>3 DEF Add, Used, alarms, choices
<1>2. ASSUME NEW i \in Item, NEW b \in BOOLEAN, Update(i, b) PROVE TypeOK'
  <2>1. PICK d \in Readings : Read(d) /\ Write([d EXCEPT ![i] = Updated(d[i], b)])
    BY <1>2 DEF Update
  <2>2. d \in [Item -> ItemRec] /\ Used' /\ unread' \subseteq Item
    BY <2>1, ReadType
  <2>3. Updated(d[i], b) \in ItemRec
    <3>1. d[i].rev = doc[i].rev
      BY <2>1 DEF Read, Emptied, Finished, ItemRec
    <3> QED
      BY <1>2, <2>2, <3>1, ItemType DEF Update
  <2>4. doc' \in [Item -> ItemRec] /\ owed' \in BOOLEAN
    BY <2>1, <2>2, <2>3, WriteType
  <2> QED
    BY <1>2, <2>2, <2>4 DEF Update, Used, alarms, choices
<1>3. ASSUME NEW i \in Item, Remove(i) PROVE TypeOK'
  <2>1. PICK d \in Readings : Read(d) /\ Write([d EXCEPT ![i] = Finished(d[i])])
    BY <1>3 DEF Remove
  <2>2. d \in [Item -> ItemRec] /\ Used' /\ unread' \subseteq Item
    BY <2>1, ReadType
  <2>3. Finished(d[i]) \in ItemRec
    BY <2>2, ItemType
  <2>4. doc' \in [Item -> ItemRec] /\ owed' \in BOOLEAN
    BY <2>1, <2>2, <2>3, WriteType
  <2> QED
    BY <1>3, <2>2, <2>4 DEF Remove, Used, alarms
<1>4. ASSUME NEW i \in Item, Tick(i) PROVE TypeOK'
  <2>1. PICK it \in ItemRec : doc' = [doc EXCEPT ![i] = it]
    BY <1>4, ItemType DEF Tick, DueComes, RetryComes, ClaimAges
  <2> QED
    BY <1>4, <2>1 DEF Tick, alarms, history
<1>5. ASSUME NEW w \in BOOLEAN, Start(w), fired' \in BOOLEAN PROVE TypeOK'
  <2>1. CASE \E d \in Readings :
                Read(d) /\ Write(Recovered(d)) /\ GoOn(Due(Recovered(d), w))
    <3>1. PICK d \in Readings : Read(d) /\ Write(Recovered(d)) /\ GoOn(Due(Recovered(d), w))
      BY <2>1
    <3>2. Recovered(d) \in [Item -> ItemRec] /\ Used' /\ unread' \subseteq Item
      BY <3>1, ReadType, RecoveredType
    <3>3. Due(Recovered(d), w) \in SUBSET Snapshot
      BY <3>2, DueType
    <3> QED
      BY <1>5, <3>1, <3>2, <3>3, GoOnType DEF Start, Write, Used, choices, Outcome
  <2>2. CASE WriteFails /\ EndPass
    BY <1>5, <2>2, WriteFailsType DEF Start, EndPass, Idle, Used, Outcome, choices
  <2> QED
    BY <1>5, <2>1, <2>2 DEF Start
<1>6. ASSUME NEW s \in Snapshot, Claim(s) PROVE TypeOK'
  <2> DEFINE i == s.id
             rest == run.todo \ {s}
             q == [id |-> i, rev |-> doc[i].rev, text |-> s.text]
  <2>1. i \in Item /\ q \in Request /\ rest \in SUBSET Snapshot
    BY <1>6 DEF Claim, Snapshot, Request, ItemRec
  <2>2. ASSUME NEW d \in Readings, Read(d),
               Write([d EXCEPT ![i] = Claimed(d[i])]), inbox' = inbox \cup {q}, run' = Sending(rest, q),
               early' = IF doc[i].due THEN early ELSE early \cup {i}
        PROVE  TypeOK'
    <3>1. d \in [Item -> ItemRec] /\ Used' /\ unread' \subseteq Item
      BY <2>2, ReadType
    <3>2. Claimed(d[i]) \in ItemRec
      BY <2>1, <3>1, ItemType
    <3>3. doc' \in [Item -> ItemRec] /\ owed' \in BOOLEAN
      BY <2>1, <2>2, <3>1, <3>2, WriteType
    <3> QED
      BY <1>6, <2>1, <2>2, <3>1, <3>3 DEF Claim, Sending, Used, alarms, Outcome
  <2>3. ASSUME NEW d \in Readings, Read(d), Write(d), GoOn(rest), UNCHANGED <<inbox, early>>
        PROVE  TypeOK'
    <3>1. d \in [Item -> ItemRec] /\ Used' /\ unread' \subseteq Item
      BY <2>3, ReadType
    <3> QED
      BY <1>6, <2>1, <2>3, <3>1, GoOnType DEF Claim, Write, Used, alarms, Outcome
  <2>4. CASE WriteFails /\ EndPass /\ UNCHANGED <<inbox, early>>
    BY <1>6, <2>4, WriteFailsType DEF Claim, EndPass, Idle, Used, alarms, Outcome
  <2> QED
    BY <1>6, <2>2, <2>3, <2>4 DEF Claim
<1>7. CASE GiveUp
  BY <1>7 DEF GiveUp, Answered, Outcome, alarms, history
<1>8. CASE Settle
  <2>1. run.req.id \in Item
    BY <1>8 DEF Settle, Request, Outcome
  <2>2. ASSUME NEW d \in Readings, Read(d), GoOn(run.todo),
               Write([d EXCEPT ![run.req.id] =
                         IF run.phase = "ok" THEN Finished(@) ELSE Failed(@, run.phase = "unsure")])
        PROVE  TypeOK'
    <3>1. run.todo \in SUBSET Snapshot
      BY <1>8 DEF Settle, Outcome
    <3>2. d \in [Item -> ItemRec] /\ Used' /\ unread' \subseteq Item
      BY <2>2, ReadType
    <3>3. Finished(d[run.req.id]) \in ItemRec /\ Failed(d[run.req.id], run.phase = "unsure") \in ItemRec
      BY <2>1, <3>2, ItemType
    <3>4. doc' \in [Item -> ItemRec] /\ owed' \in BOOLEAN
      BY <2>1, <2>2, <3>2, <3>3, WriteType
    <3> QED
      BY <1>8, <2>2, <3>1, <3>2, <3>4, GoOnType DEF Settle, Used, alarms, choices, Outcome
  <2>3. CASE WriteFails /\ EndPass
    BY <1>8, <2>3, WriteFailsType DEF Settle, EndPass, Idle, Used, alarms, choices, Outcome
  <2> QED
    BY <1>8, <2>2, <2>3 DEF Settle
<1>9. ASSUME NEW q \in Request, CoreAccepts(q) PROVE TypeOK'
  BY <1>9 DEF CoreAccepts, Answer, Answered, Waits, Request, alarms, Outcome
<1>10. ASSUME NEW q \in Request, CoreRejects(q) PROVE TypeOK'
  BY <1>10 DEF CoreRejects, Answer, Answered, Waits, alarms, history, Outcome
<1>a. UNCHANGED used \/ Fault => Used'
  <2>1. Used
    BY DEF Used
  <2> QED
    BY <2>1, FaultType DEF Used
<1>11. CASE Rearm
  BY <1>11, <1>a DEF Rearm, NextWake, Used, history
<1>12. CASE AlarmFires \/ Broadcast
  BY <1>12 DEF AlarmFires, Broadcast, history
<1>13. ASSUME used.crashes < MaxCrashes, used' = [used EXCEPT !.crashes = @ + 1]
       PROVE  used' \in [crashes : 0..MaxCrashes, faults : 0..MaxFaults]
  BY <1>13
<1>14. CASE NoCore
  BY <1>13, <1>14 DEF NoCore, history
<1>15. CASE ReceiverReads \/ ReceiverSets
  BY <1>15, <1>a DEF ReceiverReads, ReceiverSets, Used, history
<1>16. CASE ProcessDies
  BY <1>16, <1>13 DEF ProcessDies, Idle, Outcome, history
<1>17. CASE PageReloads
  BY <1>13, <1>17 DEF PageReloads, Idle, Outcome, alarms, history
<1>18. CASE UNCHANGED vars
  BY <1>18 DEF vars
<1>19. ASSUME NEW w \in BOOLEAN, PagePass(w) PROVE TypeOK'
  BY <1>5, <1>19 DEF PagePass
<1>20. CASE AlarmPass
  BY <1>5, <1>20 DEF AlarmPass
<1> QED
  BY <1>1, <1>2, <1>3, <1>4, <1>6, <1>7, <1>8, <1>9, <1>10, <1>11, <1>12, <1>14, <1>15, <1>16,
     <1>17, <1>18, <1>19, <1>20 DEF Next, PassStep

-----------------------------------------------------------------------------
(* One request for a revision *)

\* A step that makes no request: an item may become claimable only where
\* none was made, or by an edit.
LEMMA FileStep ==
    ASSUME TypeOK, TypeOK', SendInv,
           inbox' \subseteq inbox, accepted' = accepted,
           \A i \in Item :
              \/ /\ doc'[i].rev = doc[i].rev
                 /\ Claimable(doc'[i]) => Claimable(doc[i]) \/ ~Requested(i)
              \/ doc'[i].rev = doc[i].rev + 1
    PROVE  NoFuture' /\ OneRequest' /\ Spent'
<1>1. \A i \in Item : doc[i].rev \in Nat /\ doc'[i].rev \in Nat /\ doc'[i].rev >= doc[i].rev
  <2>1. \A i \in Item : doc[i].rev \in Nat /\ doc'[i].rev \in Nat
    BY DEF TypeOK, ItemRec, Revs
  <2>2. \A i \in Item : doc'[i].rev = doc[i].rev \/ doc'[i].rev = doc[i].rev + 1
    OBVIOUS
  <2> QED
    BY <2>1, <2>2
<1>2. \A q \in inbox : q.id \in Item /\ q.rev \in Revs /\ q.rev \in Nat
  BY DEF TypeOK, Request, Revs
<1>3. NoFuture'
  <2>1. ASSUME NEW q \in inbox' PROVE q.rev <= doc'[q.id].rev
    <3>1. q \in inbox /\ q.rev <= doc[q.id].rev
      BY DEF SendInv, NoFuture
    <3> QED
      BY <1>1, <1>2, <3>1
  <2>2. ASSUME NEW i \in Item, NEW r \in Revs, r > doc'[i].rev PROVE accepted'[i][r] = 0
    <3>1. r \in Nat /\ r > doc[i].rev
      BY <1>1, <2>2 DEF Revs
    <3> QED
      BY <3>1 DEF SendInv, NoFuture
  <2> QED
    BY <2>1, <2>2 DEF NoFuture
<1>4. OneRequest'
  BY DEF SendInv, OneRequest
<1>5. ASSUME NEW i \in Item, Requested(i)' PROVE ~Claimable(doc'[i])
  <2>1. CASE doc'[i].rev = doc[i].rev
    <3>1. Requested(i)
      BY <1>5, <2>1 DEF Requested
    <3>2. doc'[i].rev # doc[i].rev + 1
      BY <1>1, <2>1
    <3> QED
      BY <3>1, <3>2 DEF SendInv, Spent
  <2>2. CASE doc'[i].rev = doc[i].rev + 1
    <3>1. doc'[i].rev \in Revs /\ doc'[i].rev > doc[i].rev
      BY <1>1, <2>2 DEF TypeOK, ItemRec
    <3>2. accepted'[i][doc'[i].rev] = 0
      BY <3>1 DEF SendInv, NoFuture
    <3>3. \A q \in inbox' : q.id = i => q.rev # doc'[i].rev
      BY <1>1, <1>2, <3>1 DEF SendInv, NoFuture
    <3> QED
      BY <1>5, <3>2, <3>3 DEF Requested
  <2> QED
    BY <2>1, <2>2
<1> QED
  BY <1>3, <1>4, <1>5 DEF Spent

\* Between passes, and between two items of one, there is no request to
\* answer for.
LEMMA NoPass ==
    ASSUME run'.phase \in {"idle", "claim"}
    PROVE  Held' /\ FailureIsSure' /\ SuccessIsSure'
BY DEF Held, FailureIsSure, SuccessIsSure, Outcome

\* The pass does not move and its item is left alone, or dropped.
LEMMA SamePass ==
    ASSUME TypeOK, SendInv, run' = run,
           inbox' \subseteq inbox, accepted' = accepted,
           \A i \in Item : Away(doc[i]) => Away(doc'[i]) /\ doc'[i].rev = doc[i].rev
    PROVE  Held' /\ FailureIsSure' /\ SuccessIsSure'
<1>1. run.phase \in {"send"} \cup Outcome => run.req.id \in Item
  BY DEF TypeOK, Request
<1>2. Held'
  BY <1>1 DEF SendInv, Held
<1>3. FailureIsSure'
  BY <1>1 DEF SendInv, Held, FailureIsSure, Requested, Outcome
<1>4. SuccessIsSure'
  BY DEF SendInv, SuccessIsSure
<1> QED
  BY <1>2, <1>3, <1>4

\* No item leaves the file, but with a file that cannot be read.
LEMMA KeepsItems ==
    ASSUME NothingLost, removed' = removed, unread \subseteq unread', accepted' = accepted,
           \A i \in Item : doc'[i].status = "gone" => doc[i].status = "gone" \/ i \in unread'
    PROVE  NothingLost'
BY DEF NothingLost

\* No item that was there is new.
LEMMA KeepsFresh ==
    ASSUME Fresh, inbox' \subseteq inbox, accepted' = accepted,
           \A i \in Item : doc'[i].status = "new" => doc[i].status = "new" /\ doc'[i].rev = doc[i].rev
    PROVE  Fresh'
BY DEF Fresh

\* Steps that leave the file, the requests and the pass alone.
LEMMA Elsewhere ==
    ASSUME TypeOK, TypeOK', SendInv, UNCHANGED <<doc, run, inbox, history>>
    PROVE  SendInv'
<1>1. NoFuture' /\ OneRequest' /\ Spent'
  BY FileStep DEF history
<1>2. Held' /\ FailureIsSure' /\ SuccessIsSure'
  BY SamePass DEF history
<1>3. NothingLost' /\ Fresh'
  BY KeepsItems, KeepsFresh DEF SendInv, history
<1> QED
  BY <1>1, <1>2, <1>3 DEF SendInv

\* What read finds of an item is the item, or its absence.
LEMMA ReadFacts ==
    ASSUME TypeOK, NEW d, Read(d)
    PROVE  /\ unread \subseteq unread'
           /\ \A i \in Item :
                 /\ d[i].rev = doc[i].rev
                 /\ Claimable(d[i]) => Claimable(doc[i])
                 /\ d[i].status = "new" => doc[i].status = "new"
                 /\ Away(doc[i]) => Away(d[i])
                 /\ d[i].status = "gone" => doc[i].status = "gone" \/ i \in unread'
                 /\ d[i] = doc[i] \/ d[i].status = "gone"
<1>1. CASE d = doc /\ UNCHANGED unread
  BY <1>1
<1>2. CASE d = Emptied(doc) /\ unread' = unread \cup {i \in Item : Present(doc[i])}
  <2>1. ASSUME NEW i \in Item
        PROVE  /\ d[i].rev = doc[i].rev /\ ~Claimable(d[i])
               /\ ~Present(doc[i]) => d[i] = doc[i]
               /\ Present(doc[i]) => d[i].status = "gone"
    <3>1. d[i] = Finished(doc[i]) /\ doc[i] \in ItemRec
      BY <1>2 DEF Emptied, TypeOK
    <3> QED
      BY <3>1 DEF Finished, Claimable, Present, ItemRec
  <2>2. \A i \in Item : Present(doc[i]) => i \in unread'
    BY <1>2
  <2> QED
    BY <1>2, <2>1, <2>2 DEF Away
<1> QED
  BY <1>1, <1>2 DEF Read

\* What the operations make of the status and the revision of an item.
LEMMA ItemFacts ==
    ASSUME NEW it \in ItemRec, NEW b \in BOOLEAN
    PROVE  /\ Updated(it, b) = it \/ (Updated(it, b).rev = it.rev + 1 /\ Updated(it, b).status = "pending")
           /\ Claimed(it).rev = it.rev /\ ~Claimable(Claimed(it)) /\ Claimed(it).status = "sending"
           /\ Finished(it).rev = it.rev /\ ~Claimable(Finished(it))
           /\ Finished(it).status = "new" => it.status = "new"
BY DEF Updated, Claimed, Finished, Claimable, Present, ItemRec

\* What done and fail make of the item of a pass.
LEMMA SettleFacts ==
    ASSUME NEW it \in ItemRec, Away(it)
    PROVE  /\ Finished(it).rev = it.rev /\ Finished(it).status = "gone" /\ ~Claimable(Finished(it))
           /\ \A b \in BOOLEAN :
                 /\ Failed(it, b).rev = it.rev /\ Failed(it, b).status # "new"
                 /\ Failed(it, b).status = "gone" => it.status = "gone"
           /\ ~Claimable(Failed(it, TRUE))
BY DEF Finished, Failed, Claimable, Present, ItemRec, Away

\* recover makes nothing claimable.
LEMMA RecoverFacts ==
    ASSUME NEW d \in [Item -> ItemRec], NEW i \in Item
    PROVE  /\ Recovered(d)[i].rev = d[i].rev
           /\ Claimable(Recovered(d)[i]) => Claimable(d[i])
           /\ Recovered(d)[i].status = "gone" => d[i].status = "gone"
           /\ Recovered(d)[i].status = "new" => d[i].status = "new"
BY DEF Recovered, Claimable, Present, ItemRec

\* An operation of the user reads the file and writes one item.
LEMMA OneItem ==
    ASSUME TypeOK, TypeOK', SendInv, NEW i \in Item, NEW d, NEW it, Read(d),
           doc' = [d EXCEPT ![i] = it], UNCHANGED <<run, inbox, accepted>>,
           it.status # "new", ~Away(doc[i]),
           \/ it.rev = doc[i].rev /\ (Claimable(it) => ~Requested(i))
           \/ it.rev = doc[i].rev + 1
    PROVE  /\ NoFuture' /\ OneRequest' /\ Spent'
           /\ Held' /\ FailureIsSure' /\ SuccessIsSure' /\ Fresh'
<1>1. /\ doc'[i] = it
      /\ \A j \in Item : j # i => doc'[j] = d[j]
  <2>1. d \in [Item -> ItemRec]
    BY ReadType
  <2> QED
    BY <2>1
<1>2. \A j \in Item : /\ d[j].rev = doc[j].rev
                      /\ Claimable(d[j]) => Claimable(doc[j])
                      /\ d[j].status = "new" => doc[j].status = "new"
                      /\ Away(doc[j]) => Away(d[j])
  BY ReadFacts
<1>3. NoFuture' /\ OneRequest' /\ Spent'
  <2>1. \A j \in Item :
              \/ /\ doc'[j].rev = doc[j].rev
                 /\ Claimable(doc'[j]) => Claimable(doc[j]) \/ ~Requested(j)
              \/ doc'[j].rev = doc[j].rev + 1
    BY <1>1, <1>2
  <2> QED
    BY <2>1, FileStep
<1>4. Held' /\ FailureIsSure' /\ SuccessIsSure'
  <2>1. \A j \in Item : Away(doc[j]) => Away(doc'[j]) /\ doc'[j].rev = doc[j].rev
    BY <1>1, <1>2
  <2> QED
    BY <2>1, SamePass
<1>5. Fresh'
  <2>1. \A j \in Item : doc'[j].status = "new" => doc[j].status = "new" /\ doc'[j].rev = doc[j].rev
    BY <1>1, <1>2
  <2> QED
    BY <2>1, KeepsFresh DEF SendInv
<1> QED
  BY <1>3, <1>4, <1>5

\* Every step keeps the invariant.
LEMMA SendStep == TypeOK /\ TypeOK' /\ SendInv /\ [Next]_vars => SendInv'
<1> SUFFICES ASSUME TypeOK, TypeOK', SendInv, [Next]_vars PROVE SendInv'
    OBVIOUS
<1>a. doc \in [Item -> ItemRec] /\ NothingLost /\ Fresh
  BY DEF TypeOK, SendInv
<1>1. ASSUME NEW i \in Item, NEW b \in BOOLEAN, Add(i, b) PROVE SendInv'
  <2> DEFINE it == [Unborn EXCEPT !.status = "pending", !.due = b]
  <2>1. PICK d \in Readings : Read(d) /\ doc' = [d EXCEPT ![i] = it]
    BY <1>1 DEF Add, Write
  <2>2. /\ doc[i].status = "new" /\ doc[i].rev = 0 /\ ~Requested(i)
        /\ UNCHANGED <<run, inbox, accepted, removed>>
    BY <1>a, <1>1 DEF Add, Fresh, Requested, choices
  <2>3. it.status = "pending" /\ it.rev = 0
    BY DEF Unborn
  <2>4. d \in [Item -> ItemRec]
    BY <2>1, ReadType
  <2>5. doc'[i] = it /\ \A j \in Item : j # i => doc'[j] = d[j]
    BY <2>1, <2>4
  <2> HIDE DEF it
  <2>6. /\ NoFuture' /\ OneRequest' /\ Spent'
        /\ Held' /\ FailureIsSure' /\ SuccessIsSure' /\ Fresh'
    BY <2>1, <2>2, <2>3, OneItem DEF Away
  <2>7. NothingLost'
    BY <1>a, <2>1, <2>2, <2>3, <2>5, ReadFacts, KeepsItems
  <2> QED
    BY <2>6, <2>7 DEF SendInv
<1>2. ASSUME NEW i \in Item, NEW b \in BOOLEAN, Update(i, b) PROVE SendInv'
  <2>1. PICK d \in Readings : Read(d) /\ doc' = [d EXCEPT ![i] = Updated(d[i], b)]
    BY <1>2 DEF Update, Write
  <2>2. ~Away(doc[i]) /\ doc[i].status # "new" /\ UNCHANGED <<run, inbox, accepted, removed>>
    BY <1>2 DEF Update, Editable, Present, Away, choices
  <2>3. d \in [Item -> ItemRec]
    BY <2>1, ReadType
  <2>4. doc'[i] = Updated(d[i], b) /\ \A j \in Item : j # i => doc'[j] = d[j]
    BY <2>1, <2>3
  <2>5. \/ d[i] = doc[i] /\ Updated(d[i], b).rev = doc[i].rev + 1 /\ Updated(d[i], b).status = "pending"
        \/ d[i].status = "gone" /\ Updated(d[i], b) = d[i] /\ d[i].rev = doc[i].rev
    <3>1. CASE d[i] = doc[i]
      BY <1>a, <1>2, <3>1 DEF Update, Updated, ItemRec
    <3>2. CASE d[i].status = "gone"
      BY <2>1, <3>2, ReadFacts DEF Updated, Editable, Present
    <3> QED
      BY <2>1, <3>1, <3>2, ReadFacts
  <2>6. /\ NoFuture' /\ OneRequest' /\ Spent'
        /\ Held' /\ FailureIsSure' /\ SuccessIsSure' /\ Fresh'
    <3>1. /\ Updated(d[i], b).status # "new"
          /\ \/ Updated(d[i], b).rev = doc[i].rev /\ ~Claimable(Updated(d[i], b))
             \/ Updated(d[i], b).rev = doc[i].rev + 1
      BY <2>5 DEF Claimable, Present
    <3> QED
      BY <2>1, <2>2, <3>1, OneItem
  <2>7. NothingLost'
    <3>1. doc'[i].status = "gone" => d[i].status = "gone"
      BY <2>4, <2>5
    <3> QED
      BY <1>a, <2>1, <2>2, <2>4, <3>1, ReadFacts, KeepsItems
  <2> QED
    BY <2>6, <2>7 DEF SendInv
<1>3. ASSUME NEW i \in Item, Remove(i) PROVE SendInv'
  <2>1. PICK d \in Readings : Read(d) /\ doc' = [d EXCEPT ![i] = Finished(d[i])]
    BY <1>3 DEF Remove, Write
  <2>2. /\ ~Away(doc[i]) /\ doc[i].status # "new" /\ UNCHANGED <<run, inbox, accepted>>
        /\ removed' = removed \cup {i}
    BY <1>3 DEF Remove, Editable, Present, Away
  <2>3. d \in [Item -> ItemRec] /\ d[i].rev = doc[i].rev /\ d[i].status # "new"
    BY <2>1, <2>2, ReadType, ReadFacts
  <2>4. \A j \in Item : j # i => doc'[j] = d[j]
    BY <2>1, <2>3
  <2>5. /\ Finished(d[i]).rev = doc[i].rev /\ ~Claimable(Finished(d[i]))
        /\ Finished(d[i]).status # "new"
    BY <2>3, ItemFacts
  <2>6. /\ NoFuture' /\ OneRequest' /\ Spent'
        /\ Held' /\ FailureIsSure' /\ SuccessIsSure' /\ Fresh'
    BY <2>1, <2>2, <2>5, OneItem
  <2>7. NothingLost'
    <3>1. unread \subseteq unread' /\ \A j \in Item : d[j].status = "gone" => doc[j].status = "gone" \/ j \in unread'
      BY <2>1, ReadFacts
    <3> QED
      BY <1>a, <2>2, <2>4, <3>1 DEF NothingLost
  <2> QED
    BY <2>6, <2>7 DEF SendInv
<1>4. ASSUME NEW i \in Item, Tick(i) PROVE SendInv'
  <2>1. \A j \in Item : /\ doc'[j].rev = doc[j].rev /\ doc'[j].status = doc[j].status
                        /\ doc'[j].uncertain = doc[j].uncertain
    BY <1>a, <1>4 DEF Tick, DueComes, RetryComes, ClaimAges, ItemRec
  <2>2. \A j \in Item : Claimable(doc'[j]) => Claimable(doc[j])
    BY <2>1 DEF Claimable, Present
  <2>3. NoFuture' /\ OneRequest' /\ Spent'
    BY <1>4, <2>1, <2>2, FileStep DEF Tick, history
  <2>4. Held' /\ FailureIsSure' /\ SuccessIsSure'
    BY <1>4, <2>1, SamePass DEF Tick, history, Away
  <2>5. NothingLost' /\ Fresh'
    BY <1>a, <1>4, <2>1, KeepsItems, KeepsFresh DEF Tick, history
  <2> QED
    BY <2>3, <2>4, <2>5 DEF SendInv
<1>c. ASSUME NEW d, Read(d) \/ (d = doc /\ UNCHANGED unread),
             doc' = d \/ doc' = Recovered(d), UNCHANGED <<inbox, accepted, removed>>,
             run'.phase \in {"idle", "claim"}
      PROVE  SendInv'
  <2>1. /\ d \in [Item -> ItemRec] /\ unread \subseteq unread'
        /\ \A i \in Item : /\ d[i].rev = doc[i].rev
                           /\ Claimable(d[i]) => Claimable(doc[i])
                           /\ d[i].status = "gone" => doc[i].status = "gone" \/ i \in unread'
                           /\ d[i].status = "new" => doc[i].status = "new"
    BY <1>a, <1>c, ReadType, ReadFacts
  <2>2. \A i \in Item : /\ doc'[i].rev = doc[i].rev
                        /\ Claimable(doc'[i]) => Claimable(doc[i])
                        /\ doc'[i].status = "gone" => doc[i].status = "gone" \/ i \in unread'
                        /\ doc'[i].status = "new" => doc[i].status = "new"
    BY <1>c, <2>1, RecoverFacts
  <2>3. NoFuture' /\ OneRequest' /\ Spent'
    BY <1>c, <2>2, FileStep
  <2>4. NothingLost' /\ Fresh'
    BY <1>a, <1>c, <2>1, <2>2, KeepsItems, KeepsFresh
  <2> QED
    BY <1>c, <2>3, <2>4, NoPass DEF SendInv
<1>5. ASSUME NEW w \in BOOLEAN, Start(w) PROVE SendInv'
  <2>1. run'.phase \in {"idle", "claim"} /\ UNCHANGED <<inbox, accepted, removed>>
    BY <1>5 DEF Start, GoOn, EndPass, Idle, Claiming, choices
  <2>2. \/ \E d \in Readings : Read(d) /\ doc' = Recovered(d)
        \/ doc' = doc /\ UNCHANGED unread
    BY <1>5 DEF Start, Write, WriteFails
  <2> QED
    BY <1>c, <2>1, <2>2
<1>6. ASSUME NEW s \in Snapshot, Claim(s) PROVE SendInv'
  <2> DEFINE i == s.id
             q == [id |-> i, rev |-> doc[i].rev, text |-> s.text]
  <2>1. i \in Item /\ doc[i] \in ItemRec /\ doc[i].rev \in Nat
    BY <1>a DEF Snapshot, ItemRec, Revs
  <2>2. ASSUME NEW d \in Readings, Read(d), Claimable(d[i]),
               Write([d EXCEPT ![i] = Claimed(d[i])]),
               inbox' = inbox \cup {q},
               run' = Sending(run.todo \ {s}, q)
        PROVE  SendInv'
    <3>1. accepted' = accepted /\ removed' = removed
      BY <1>6 DEF Claim
    <3>2. /\ d \in [Item -> ItemRec] /\ unread \subseteq unread'
          /\ \A j \in Item : /\ d[j].rev = doc[j].rev
                             /\ Claimable(d[j]) => Claimable(doc[j])
                             /\ d[j].status = "gone" => doc[j].status = "gone" \/ j \in unread'
                             /\ d[j].status = "new" => doc[j].status = "new"
      BY <2>2, ReadType, ReadFacts
    <3>a. \A j \in Item \ {i} : doc'[j] = d[j]
      BY <2>2, <3>2 DEF Write
    <3>b. doc'[i] = Claimed(d[i]) /\ d[i] \in ItemRec
      BY <2>1, <2>2, <3>2 DEF Write
    <3>3. doc'[i].rev = doc[i].rev /\ doc'[i].status = "sending" /\ ~Claimable(doc'[i])
      BY <2>1, <3>2, <3>b, ItemFacts
    <3>4. ~Requested(i)
      BY <2>1, <2>2, <3>2 DEF SendInv, Spent
    <3>5. q.id = i /\ q.rev = doc[i].rev
      OBVIOUS
    <3> HIDE DEF q
    <3>6. \A p \in inbox' : p \in inbox \/ p = q
      BY <2>2
    <3>7. NoFuture'
      <4>1. \A p \in inbox' : p.rev <= doc'[p.id].rev
        <5>1. \A p \in inbox : p.id \in Item /\ p.rev <= doc[p.id].rev
          BY DEF TypeOK, Request, SendInv, NoFuture
        <5> QED
          BY <2>1, <3>2, <3>3, <3>a, <3>5, <3>6, <5>1
      <4>2. \A j \in Item : doc'[j].rev = doc[j].rev
        BY <3>2, <3>3, <3>a
      <4> QED
        BY <3>1, <4>1, <4>2 DEF SendInv, NoFuture
    <3>8. OneRequest'
      BY <3>1, <3>4, <3>5, <3>6 DEF SendInv, OneRequest, Requested
    <3>9. Spent'
      <4>1. ASSUME NEW j \in Item, Requested(j)', j # i PROVE ~Claimable(doc'[j])
        <5>1. Requested(j) /\ doc'[j] = d[j]
          BY <3>1, <3>2, <3>a, <3>5, <3>6, <4>1 DEF Requested
        <5> QED
          BY <3>2, <5>1 DEF SendInv, Spent
      <4> QED
        BY <3>3, <4>1 DEF Spent
    <3>10. Fresh'
      <4>1. \A j \in Item : doc'[j].status = "new" =>
                j # i /\ doc[j].status = "new" /\ doc'[j].rev = doc[j].rev
        BY <3>2, <3>3, <3>a
      <4> QED
        BY <1>a, <3>1, <3>5, <3>6, <4>1 DEF Fresh
    <3>11. run'.phase = "send" /\ run'.req = q
      BY <2>2 DEF Sending
    <3>12. Held' /\ FailureIsSure' /\ SuccessIsSure'
      BY <3>3, <3>5, <3>11 DEF Held, Away, FailureIsSure, SuccessIsSure
    <3>13. NothingLost'
      BY <1>a, <3>1, <3>2, <3>3, <3>a, KeepsItems
    <3> QED
      BY <3>7, <3>8, <3>9, <3>10, <3>12, <3>13 DEF SendInv
  <2>3. CASE /\ run'.phase \in {"idle", "claim"} /\ UNCHANGED <<inbox, accepted, removed>>
             /\ \/ \E d \in Readings : Read(d) /\ doc' = d
                \/ doc' = doc /\ UNCHANGED unread
    BY <1>c, <2>3
  <2> QED
    BY <1>6, <2>2, <2>3 DEF Claim, Write, WriteFails, GoOn, EndPass, Idle, Claiming
<1>7. CASE GiveUp
  <2>1. run'.phase = "unsure" /\ run'.req = run.req
    BY <1>7 DEF GiveUp, Answered
  <2>2. NoFuture' /\ OneRequest' /\ Spent'
    BY <1>7, FileStep DEF GiveUp, history
  <2>3. Held' /\ FailureIsSure' /\ SuccessIsSure'
    BY <1>7, <2>1 DEF GiveUp, SendInv, Held, FailureIsSure, SuccessIsSure
  <2>4. NothingLost' /\ Fresh'
    BY <1>a, <1>7, KeepsItems, KeepsFresh DEF GiveUp, history
  <2> QED
    BY <2>2, <2>3, <2>4 DEF SendInv
<1>8. CASE Settle
  <2> DEFINE i == run.req.id
  <2>1. /\ i \in Item /\ doc[i] \in ItemRec
        /\ Away(doc[i]) /\ doc[i].rev = run.req.rev /\ run.req.rev \in Revs
    BY <1>a, <1>8 DEF Settle, TypeOK, Request, SendInv, Held
  <2>2. run'.phase \in {"idle", "claim"}
    <3>1. GoOn(run.todo) \/ EndPass
      BY <1>8 DEF Settle
    <3> QED
      BY <3>1 DEF GoOn, EndPass, Idle, Claiming
  <2>3. inbox' = inbox /\ accepted' = accepted /\ removed' = removed
    BY <1>8 DEF Settle, choices
  <2>4. CASE doc' = doc /\ UNCHANGED unread
    BY <1>c, <2>2, <2>3, <2>4
  <2>5. ASSUME NEW d \in Readings, Read(d),
               doc' = [d EXCEPT ![i] = IF run.phase = "ok" THEN Finished(d[i])
                                       ELSE Failed(d[i], run.phase = "unsure")]
        PROVE  SendInv'
    <3>1. /\ d \in [Item -> ItemRec] /\ unread \subseteq unread'
          /\ \A j \in Item : /\ d[j].rev = doc[j].rev
                             /\ Claimable(d[j]) => Claimable(doc[j])
                             /\ Away(doc[j]) => Away(d[j])
                             /\ d[j].status = "gone" => doc[j].status = "gone" \/ j \in unread'
                             /\ d[j].status = "new" => doc[j].status = "new"
      BY <2>5, ReadType, ReadFacts
    <3>2. \A j \in Item \ {i} : doc'[j] = d[j]
      BY <2>5, <3>1
    <3>3. doc'[i] = IF run.phase = "ok" THEN Finished(d[i]) ELSE Failed(d[i], run.phase = "unsure")
      BY <2>1, <2>5, <3>1
    <3>4. run.phase \in {"ok", "failed", "unsure"} /\ d[i] \in ItemRec /\ Away(d[i])
      BY <1>8, <2>1, <3>1 DEF Settle, Outcome
    <3>5. /\ run.phase = "ok" => doc'[i] = Finished(d[i])
          /\ run.phase = "unsure" => doc'[i] = Failed(d[i], TRUE)
          /\ run.phase = "failed" => doc'[i] = Failed(d[i], FALSE)
      BY <3>3 DEF Failed
    <3>6. /\ Finished(d[i]).rev = d[i].rev /\ Finished(d[i]).status # "new"
          /\ Failed(d[i], TRUE).rev = d[i].rev /\ Failed(d[i], TRUE).status # "new"
          /\ Failed(d[i], FALSE).rev = d[i].rev /\ Failed(d[i], FALSE).status # "new"
          /\ ~Claimable(Finished(d[i])) /\ ~Claimable(Failed(d[i], TRUE))
          /\ Failed(d[i], TRUE).status = "gone" => d[i].status = "gone"
          /\ Failed(d[i], FALSE).status = "gone" => d[i].status = "gone"
      BY <3>4, SettleFacts
    <3>7. doc'[i].rev = doc[i].rev /\ doc'[i].status # "new"
      BY <2>1, <3>1, <3>4, <3>5, <3>6
    <3>8. Claimable(doc'[i]) => ~Requested(i)
      <4>1. CASE run.phase = "failed"
        BY <4>1 DEF SendInv, FailureIsSure
      <4>2. CASE run.phase # "failed"
        BY <3>4, <3>5, <3>6, <4>2
      <4> QED
        BY <4>1, <4>2
    <3>9. NoFuture' /\ OneRequest' /\ Spent'
      <4>1. \A j \in Item : /\ doc'[j].rev = doc[j].rev
                            /\ Claimable(doc'[j]) => Claimable(doc[j]) \/ ~Requested(j)
        BY <3>1, <3>2, <3>7, <3>8
      <4> QED
        BY <2>3, <4>1, FileStep
    <3>10. Fresh'
      <4>1. \A j \in Item : doc'[j].status = "new" => doc[j].status = "new" /\ doc'[j].rev = doc[j].rev
        BY <3>1, <3>2, <3>7
      <4> QED
        BY <1>a, <2>3, <4>1, KeepsFresh
    <3>11. NothingLost'
      <4>1. ASSUME run.phase = "ok" PROVE \E r \in Revs : accepted'[i][r] > 0
        <5>1. accepted[i][run.req.rev] # 0 /\ accepted[i][run.req.rev] \in Nat
          BY <2>1, <4>1 DEF SendInv, SuccessIsSure, TypeOK
        <5> QED
          BY <2>1, <2>3, <5>1
      <4>2. ASSUME run.phase # "ok", doc'[i].status = "gone" PROVE doc[i].status = "gone" \/ i \in unread'
        <5>1. d[i].status = "gone"
          BY <3>4, <3>5, <3>6, <4>2
        <5> QED
          BY <2>1, <3>1, <5>1
      <4>3. ASSUME NEW j \in Item, doc'[j].status = "gone", j # i \/ run.phase # "ok"
            PROVE  doc[j].status = "gone" \/ j \in unread'
        BY <3>1, <3>2, <4>2, <4>3
      <4> QED
        BY <1>a, <2>3, <3>1, <4>1, <4>3 DEF NothingLost
    <3> QED
      BY <2>2, <3>9, <3>10, <3>11, NoPass DEF SendInv
  <2> QED
    BY <1>8, <2>4, <2>5 DEF Settle, Write, WriteFails
<1>9. ASSUME NEW q \in Request, CoreAccepts(q) PROVE SendInv'
  <2>1. /\ q \in inbox /\ inbox' = inbox \ {q} /\ doc' = doc /\ UNCHANGED <<removed, unread>>
        /\ accepted' = [accepted EXCEPT ![q.id][q.rev] = @ + 1]
    BY <1>9 DEF CoreAccepts
  <2>2. q.id \in Item /\ q.rev \in Revs /\ accepted[q.id][q.rev] = 0
    BY <2>1 DEF Request, SendInv, OneRequest
  <2>3. /\ accepted'[q.id][q.rev] = 1
        /\ \A i \in Item, r \in Revs : i # q.id \/ r # q.rev => accepted'[i][r] = accepted[i][r]
    BY <2>1, <2>2 DEF TypeOK
  <2>4. NoFuture'
    <3>1. q.rev <= doc[q.id].rev /\ q.rev \in Nat /\ doc[q.id].rev \in Nat
      BY <1>a, <2>1, <2>2 DEF SendInv, NoFuture, ItemRec, Revs
    <3>2. ASSUME NEW i \in Item, NEW r \in Revs, r > doc[i].rev PROVE accepted'[i][r] = 0
      <4>1. i # q.id \/ r # q.rev
        BY <3>1, <3>2
      <4> QED
        BY <2>3, <3>2, <4>1 DEF SendInv, NoFuture
    <3> QED
      BY <2>1, <3>2 DEF SendInv, NoFuture
  <2>5. OneRequest'
    <3>1. \A p \in inbox' : p.id \in Item /\ p.rev \in Revs /\ (p.id # q.id \/ p.rev # q.rev)
      BY <2>1 DEF SendInv, OneRequest, TypeOK, Request
    <3>2. \A i \in Item, r \in Revs : accepted'[i][r] <= 1
      BY <2>3 DEF SendInv, OneRequest
    <3> QED
      BY <2>1, <2>3, <3>1, <3>2 DEF SendInv, OneRequest
  <2>6. ASSUME NEW i \in Item PROVE Requested(i)' => Requested(i)
    <3>1. doc[i].rev \in Revs
      BY <1>a DEF ItemRec
    <3> QED
      BY <2>1, <2>3, <3>1 DEF Requested
  <2>7. Spent'
    BY <2>1, <2>6 DEF SendInv, Spent
  <2>8. Fresh'
    <3>1. ASSUME NEW i \in Item, doc[i].status = "new" PROVE accepted'[i][0] = 0
      <4>1. i # q.id /\ 0 \in Revs /\ accepted[i][0] = 0
        BY <1>a, <2>1, <3>1 DEF Fresh, Revs
      <4> QED
        BY <2>3, <4>1
    <3> QED
      BY <1>a, <2>1, <3>1 DEF Fresh
  <2>9. ASSUME Waits(q) PROVE Held' /\ FailureIsSure' /\ SuccessIsSure'
    <3>1. run.phase = "send" /\ run.req = q /\ run'.phase = "ok" /\ run'.req = q
      BY <1>9, <2>9 DEF CoreAccepts, Answer, Answered, Waits
    <3> QED
      BY <2>1, <2>3, <3>1 DEF SendInv, Held, FailureIsSure, SuccessIsSure
  <2>10. ASSUME ~Waits(q) PROVE Held' /\ FailureIsSure' /\ SuccessIsSure'
    <3>1. run' = run
      BY <1>9, <2>10 DEF CoreAccepts, Answer
    <3>2. run.phase \in {"send"} \cup Outcome => run.req.id \in Item /\ run.req.rev \in Revs
      BY DEF TypeOK, Request
    <3>3. Held'
      BY <2>1, <3>1 DEF SendInv, Held
    <3>4. FailureIsSure'
      BY <2>6, <3>1, <3>2 DEF SendInv, FailureIsSure, Outcome
    <3>5. SuccessIsSure'
      BY <2>3, <3>1, <3>2 DEF SendInv, SuccessIsSure, Outcome
    <3> QED
      BY <3>3, <3>4, <3>5
  <2>11. NothingLost'
    <3>1. \A i \in Item, r \in Revs : accepted[i][r] > 0 => accepted'[i][r] > 0
      BY <2>3
    <3> QED
      BY <1>a, <2>1, <3>1 DEF NothingLost
  <2> QED
    BY <2>4, <2>5, <2>7, <2>8, <2>9, <2>10, <2>11 DEF SendInv
<1>10. ASSUME NEW q \in Request, CoreRejects(q) PROVE SendInv'
  <2>1. q \in inbox /\ inbox' = inbox \ {q} /\ UNCHANGED <<doc, accepted, removed, unread>>
    BY <1>10 DEF CoreRejects, history
  <2>2. NoFuture' /\ OneRequest' /\ Spent'
    BY <2>1, FileStep
  <2>3. NothingLost' /\ Fresh'
    BY <1>a, <2>1, KeepsItems, KeepsFresh
  <2>4. ASSUME Waits(q) PROVE Held' /\ FailureIsSure' /\ SuccessIsSure'
    <3>1. run.phase = "send" /\ run.req = q /\ run'.phase = "failed" /\ run'.req = q
      BY <1>10, <2>4 DEF CoreRejects, Answer, Answered, Waits
    <3>2. Held' /\ SuccessIsSure'
      BY <2>1, <3>1 DEF SendInv, Held, SuccessIsSure
    <3>3. doc[q.id].rev = q.rev /\ accepted[q.id][q.rev] = 0
      BY <2>1, <3>1 DEF SendInv, Held, OneRequest
    <3>4. \A p \in inbox' : ~(p.id = q.id /\ p.rev = q.rev)
      BY <2>1 DEF SendInv, OneRequest
    <3>5. FailureIsSure'
      BY <2>1, <3>1, <3>3, <3>4 DEF FailureIsSure, Requested
    <3> QED
      BY <3>2, <3>5
  <2>5. ASSUME ~Waits(q) PROVE Held' /\ FailureIsSure' /\ SuccessIsSure'
    <3>1. run' = run
      BY <1>10, <2>5 DEF CoreRejects, Answer
    <3> QED
      BY <2>1, <3>1, SamePass
  <2> QED
    BY <2>2, <2>3, <2>4, <2>5 DEF SendInv
<1>11. CASE Rearm \/ AlarmFires \/ NoCore \/ Broadcast \/ ReceiverReads \/ ReceiverSets
  BY <1>11, Elsewhere DEF Rearm, AlarmFires, NoCore, Broadcast, ReceiverReads, ReceiverSets, history
<1>12. CASE ProcessDies \/ PageReloads
  <2>1. NoFuture' /\ OneRequest' /\ Spent'
    BY <1>12, FileStep DEF ProcessDies, PageReloads, history
  <2>2. Held' /\ FailureIsSure' /\ SuccessIsSure'
    BY <1>12, NoPass DEF ProcessDies, PageReloads, Idle
  <2>3. NothingLost' /\ Fresh'
    BY <1>a, <1>12, KeepsItems, KeepsFresh DEF ProcessDies, PageReloads, history
  <2> QED
    BY <2>1, <2>2, <2>3 DEF SendInv
<1>13. CASE UNCHANGED vars
  BY <1>13, Elsewhere DEF vars, history
<1> QED
  BY <1>1, <1>2, <1>3, <1>4, <1>5, <1>6, <1>7, <1>8, <1>9, <1>10, <1>11, <1>12, <1>13
     DEF Next, PassStep, PagePass, AlarmPass

-----------------------------------------------------------------------------
(* The theorems *)

\* The initial states.
LEMMA InitIInv == Init => IInv
<1> SUFFICES ASSUME Init PROVE IInv
    OBVIOUS
<1>1. 0 \in Revs
  BY DEF Revs
<1>2. Unborn \in ItemRec
  BY <1>1, Zenon DEF Unborn, ItemRec
<1>3. TypeOK
  <2>1. doc \in [Item -> ItemRec] /\ accepted \in [Item -> [Revs -> Nat]]
    BY <1>2 DEF Init
  <2>2. used \in [crashes : 0..MaxCrashes, faults : 0..MaxFaults]
    BY DEF Init
  <2>3. {alarm, fired, owed} \subseteq BOOLEAN
    BY DEF Init
  <2> QED
    BY <2>1, <2>2, <2>3 DEF Init, TypeOK, Idle, Outcome
<1>4. \A i \in Item : doc[i].status = "new" /\ doc[i].rev = 0 /\ \A r \in Revs : accepted[i][r] = 0
  BY DEF Init, Unborn
<1>5. NoFuture /\ OneRequest
  BY <1>4 DEF Init, NoFuture, OneRequest
<1>6. Spent /\ Fresh /\ NothingLost
  BY <1>1, <1>4 DEF Init, Spent, Fresh, NothingLost, Claimable, Present
<1>7. Held /\ FailureIsSure /\ SuccessIsSure
  BY DEF Init, Idle, Held, FailureIsSure, SuccessIsSure, Outcome
<1> QED
  BY <1>3, <1>5, <1>6, <1>7 DEF IInv, SendInv

\* The invariant holds in every behaviour of the operations of
\* scheduled_store.rs, the passes of scheduled.rs and scheduled.js, and their
\* failures.
THEOREM Invariant == Spec => []IInv
<1>1. IInv /\ [Next]_vars => IInv'
  BY TypeStep, SendStep DEF IInv
<1> QED
  BY <1>1, InitIInv, PTL DEF Spec

\* Type correctness, for any number of items, edits, crashes and faults.
THEOREM TypeCorrect == Spec => []TypeOK
<1>1. IInv => TypeOK
  BY DEF IInv
<1> QED
  BY <1>1, Invariant, PTL

\* An item goes out at most once for every decision of the user, whatever
\* crash, timeout or failed write comes between its claim and its answer.
THEOREM SentAtMostOnce == Spec => []NoDoubleSend
<1>1. IInv => NoDoubleSend
  BY DEF IInv, SendInv, OneRequest, NoDoubleSend
<1> QED
  BY <1>1, Invariant, PTL

\* An item leaves scheduled.json only because the user removed it, because the
\* core took a message for it, or because an operation could not read or parse
\* the file and began again with an empty one: never by a crash, a failed
\* write, a rejection or a timeout, wherever in the pass it comes.
THEOREM NoItemIsLost == Spec => []NothingLost
<1>1. IInv => NothingLost
  BY DEF IInv, SendInv
<1> QED
  BY <1>1, Invariant, PTL
=============================================================================
