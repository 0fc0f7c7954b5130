----------------------------- MODULE Scheduled ------------------------------
(***************************************************************************)
(* Messages to be sent later: the items of scheduled.json, the operations  *)
(* the user and the sender apply to it under a file lock, one pass of the  *)
(* sender (run_due of the shell on Android, ScheduledRunner of the page on *)
(* the desktop), the core it hands messages to, and the one alarm that     *)
(* wakes Android.                                                          *)
(*                                                                         *)
(* Points in time are compared with the clock only, so an item keeps, for  *)
(* each of its times, whether it has come.                                 *)
(***************************************************************************)
EXTENDS Integers, FiniteSets

CONSTANTS
    Item,        \* the ids of the items users add
    Shells,      \* the kinds of shell to consider: "android", "desktop"
    PageOpen,    \* the page is open: its timer runs passes
    MaxRev,      \* bound: edits of one item by the user
    MaxCrashes,  \* bound: process deaths and page reloads
    MaxFaults    \* bound: failed reads and writes of scheduled.json

ASSUME ScheduledAssumption ==
    /\ Shells \subseteq {"android", "desktop"}
    /\ PageOpen \in BOOLEAN
    /\ {MaxRev, MaxCrashes, MaxFaults} \subseteq Nat

VARIABLES
    shell,     \* the shell this behaviour runs on
    doc,       \* doc[i]: the item in scheduled.json
    run,       \* the pass that holds RUN (or _busy)
    inbox,     \* requests the core has not answered
    alarm,     \* an alarm is set
    fired,     \* the receiver of a fired alarm waits for its pass
    owed,      \* an operation wrote the file and has not yet re-armed
    kt,        \* the receiver's own rearm: "none", "rearm", what it read
    accepted,  \* history: accepted[i][r] = messages the core took for i at revision r
    removed,   \* history: items the user removed
    early,     \* history: items handed to the core before their time
    unread,    \* history: items dropped because the file could not be read
    used       \* how much of each bound is spent

vars == <<shell, doc, run, inbox, alarm, fired, owed, kt, accepted, removed, early, unread,
          used>>
alarms == <<alarm, fired, kt>>
history == <<accepted, removed, early, unread>>
choices == <<accepted, removed, early>>

Revs == 0..MaxRev

\* due, ready, stale: dueAt and retryAt have come, claimedAt is two minutes
\* old.  rev counts the user's edits.
ItemRec == [status : {"new", "pending", "sending", "error", "gone"},
            due : BOOLEAN, ready : BOOLEAN, stale : BOOLEAN,
            uncertain : BOOLEAN, rev : Revs]

Unborn == [status |-> "new", due |-> FALSE, ready |-> FALSE, stale |-> FALSE,
           uncertain |-> FALSE, rev |-> 0]

\* A message handed to the core: the item, its revision in the file when it
\* was claimed, and the revision whose text is sent.
Request == [id : Item, rev : Revs, text : Revs]

Snapshot == [id : Item, text : Revs]

\* No pass is running.
Idle == [phase |-> "idle"]
Claiming(todo) == [phase |-> "claim", todo |-> todo]
Sending(todo, q) == [phase |-> "send", todo |-> todo, req |-> q]
Answered(outcome, todo, q) == [phase |-> outcome, todo |-> todo, req |-> q]

Outcome == {"ok", "failed", "unsure"}

-----------------------------------------------------------------------------
(* The operations of apply *)

Present(it) == it.status \notin {"new", "gone"}

Editable(it) == Present(it) /\ it.status # "sending"

Updated(it, isDue) ==
    IF Editable(it)
    THEN [it EXCEPT !.status = "pending", !.due = isDue, !.ready = FALSE,
                    !.uncertain = FALSE, !.rev = @ + 1]
    ELSE it

\* claim: the status and the flag decide, neither dueAt nor retryAt.
Claimable(it) == Present(it) /\ it.status # "sending" /\ ~it.uncertain

Claimed(it) == [it EXCEPT !.status = "sending", !.stale = FALSE]

\* Mutant of Finished: a sent item stays in the file, marked.
FinishedBug(it) == IF Present(it) THEN [it EXCEPT !.status = "sent"] ELSE it
\* done removes the item whatever its status.
Finished(it) == IF Present(it) THEN [it EXCEPT !.status = "gone"] ELSE it

\* Mutant of Failed: an item that fails is given up.
FailedBug(it, unsure) == Finished(it)
Failed(it, unsure) ==
    IF Present(it)
    THEN [it EXCEPT !.status = "error", !.stale = FALSE, !.ready = FALSE, !.uncertain = unsure]
    ELSE it

\* Mutant of Recovered: an interrupted item is simply pending again.
RecoveredBug(d) ==
    [i \in Item |-> IF d[i].status = "sending" /\ d[i].stale
                    THEN [d[i] EXCEPT !.status = "pending", !.stale = FALSE]
                    ELSE d[i]]
\* Mutant of Recovered: only items that failed before are looked at.
RecoveredNoneBug(d) ==
    [i \in Item |-> IF d[i].status = "error" THEN [d[i] EXCEPT !.stale = FALSE] ELSE d[i]]
\* recover: a claim of two minutes ago was interrupted; nobody knows whether
\* the message went out.
Recovered(d) ==
    [i \in Item |-> IF d[i].status = "sending" /\ d[i].stale
                    THEN [d[i] EXCEPT !.status = "error", !.uncertain = TRUE,
                                      !.ready = FALSE, !.stale = FALSE]
                    ELSE d[i]]

\* Mutant of IsDue: every item waits for its retry time.
IsDueBug(it, wake) ==
    /\ it.due /\ it.ready
    /\ it.status = "pending" \/ (it.status = "error" /\ ~it.uncertain)
\* due: wake (start, resume, alarm) does not wait for the retry time.
IsDue(it, wake) ==
    /\ it.due
    /\ \/ it.status = "pending"
       \/ it.status = "error" /\ ~it.uncertain /\ (wake \/ it.ready)

Due(d, wake) == {[id |-> i, text |-> d[i].rev] : i \in {j \in Item : IsDue(d[j], wake)}}

\* next_wake: whether there is an instant to wake up at.
NextWake(d) ==
    \E i \in Item : d[i].status = "pending" \/ (d[i].status = "error" /\ ~d[i].uncertain)

-----------------------------------------------------------------------------
(* op_at: read, apply, write under the lock.  A file that cannot be read or *)
(* parsed counts as an empty one, and the operation then writes what it     *)
(* made of that; a failed write leaves the file as it was.  rearm follows   *)
(* the write.                                                               *)

Fault ==
    /\ used.faults < MaxFaults
    /\ used' = [used EXCEPT !.faults = @ + 1]

\* No item of d is left.
Emptied(d) == [i \in Item |-> Finished(d[i])]

\* d is what read finds: the items, or none.
Read(d) ==
    \/ d = doc /\ UNCHANGED <<unread, used>>
    \/ /\ d = Emptied(doc)
       /\ Fault
       /\ unread' = unread \cup {i \in Item : Present(doc[i])}

Readings == {doc, Emptied(doc)}

Write(d) == doc' = d /\ owed' = (shell = "android")

WriteFails == Fault /\ UNCHANGED <<doc, owed, unread>>

\* with_android_class keeps the shell's rearms apart; each reads the file, and
\* one that cannot cancels the alarm.
Rearm ==
    /\ owed
    /\ owed' = FALSE
    /\ \/ alarm' = NextWake(doc) /\ UNCHANGED used
       \/ alarm' = FALSE /\ Fault
    /\ UNCHANGED <<shell, doc, run, inbox, fired, kt, history>>

\* scheduled_op with add, update and remove.
Add(i, isDue) ==
    /\ doc[i].status = "new"
    /\ \E d \in Readings :
          /\ Read(d)
          /\ Write([d EXCEPT ![i] = [Unborn EXCEPT !.status = "pending", !.due = isDue]])
    /\ UNCHANGED <<shell, run, inbox, alarms, choices>>

\* A new text, a new time, or "Send now" (due at once).
Update(i, isDue) ==
    /\ Editable(doc[i])
    /\ doc[i].rev < MaxRev
    /\ \E d \in Readings : Read(d) /\ Write([d EXCEPT ![i] = Updated(@, isDue)])
    /\ UNCHANGED <<shell, run, inbox, alarms, choices>>

Remove(i) ==
    /\ Editable(doc[i])
    /\ \E d \in Readings : Read(d) /\ Write([d EXCEPT ![i] = Finished(@)])
    /\ removed' = removed \cup {i}
    /\ UNCHANGED <<shell, run, inbox, alarms, accepted, early>>

-----------------------------------------------------------------------------
(* One pass: run_due on Android, ScheduledRunner._pass on the desktop *)

EndPass == run' = Idle
GoOn(todo) == run' = IF todo = {} THEN Idle ELSE Claiming(todo)

\* recover, then the list of due items, copies of what the file says now.
Start(wake) ==
    /\ run = Idle
    /\ \/ \E d \in Readings :
             Read(d) /\ Write(Recovered(d)) /\ GoOn(Due(Recovered(d), wake))
       \/ WriteFails /\ EndPass
    /\ UNCHANGED <<shell, inbox, alarm, kt, choices>>

\* The page's timer (FALSE), its start and resume (TRUE).
PagePass(wake) == PageOpen /\ Start(wake) /\ UNCHANGED fired

\* scheduledRunBlocking, called by the receiver.
AlarmPass == fired /\ Start(TRUE) /\ fired' = FALSE

\* claim, and the request with the text of the copy.
Claim(s) ==
    /\ run.phase = "claim"
    /\ s \in run.todo
    /\ LET i == s.id
           rest == run.todo \ {s}
           q == [id |-> i, rev |-> doc[i].rev, text |-> s.text]
       IN  \/ \E d \in Readings :
                 /\ Read(d)
                 /\ \/ /\ Claimable(d[i])
                       /\ Write([d EXCEPT ![i] = Claimed(@)])
                       /\ inbox' = inbox \cup {q}
                       /\ run' = Sending(rest, q)
                       /\ early' = IF doc[i].due THEN early ELSE early \cup {i}
                    \/ /\ ~Claimable(d[i])
                       /\ Write(d)
                       /\ GoOn(rest)
                       /\ UNCHANGED <<inbox, early>>
           \/ WriteFails /\ EndPass /\ UNCHANGED <<inbox, early>>
    /\ UNCHANGED <<shell, alarms, accepted, removed>>

\* bg_rpc gives up after a minute, or the channel to the core is gone; the
\* request may still be taken.
GiveUp ==
    /\ run.phase = "send"
    /\ run' = Answered("unsure", run.todo, run.req)
    /\ UNCHANGED <<shell, doc, inbox, alarms, owed, history, used>>

\* done or fail.
Settle ==
    /\ run.phase \in Outcome
    /\ LET i == run.req.id
       IN  \/ \E d \in Readings :
                 /\ Read(d)
                 /\ Write([d EXCEPT ![i] = IF run.phase = "ok" THEN Finished(@)
                                          ELSE Failed(@, run.phase = "unsure")])
                 /\ GoOn(run.todo)
           \/ WriteFails /\ EndPass
    /\ UNCHANGED <<shell, inbox, alarms, choices>>

-----------------------------------------------------------------------------
(* The core, time and failures *)

\* The pass waits for the answer to q.
Waits(q) == run.phase = "send" /\ run.req = q

Answer(q, outcome) ==
    run' = IF Waits(q) THEN Answered(outcome, run.todo, run.req) ELSE run

\* send_msg of the core stores the message: it will be sent.
CoreAccepts(q) ==
    /\ q \in inbox
    /\ inbox' = inbox \ {q}
    /\ accepted' = [accepted EXCEPT ![q.id][q.rev] = @ + 1]
    /\ Answer(q, "ok")
    /\ UNCHANGED <<shell, doc, alarms, owed, removed, early, unread, used>>

CoreRejects(q) ==
    /\ q \in inbox
    /\ inbox' = inbox \ {q}
    /\ Answer(q, "failed")
    /\ UNCHANGED <<shell, doc, alarms, owed, history, used>>

\* Time passes: a time of item i comes.
DueComes(i) == Present(doc[i]) /\ ~doc[i].due /\ doc' = [doc EXCEPT ![i].due = TRUE]
RetryComes(i) == doc[i].status = "error" /\ ~doc[i].ready /\ doc' = [doc EXCEPT ![i].ready = TRUE]
ClaimAges(i) == doc[i].status = "sending" /\ ~doc[i].stale /\ doc' = [doc EXCEPT ![i].stale = TRUE]
Tick(i) ==
    /\ DueComes(i) \/ RetryComes(i) \/ ClaimAges(i)
    /\ UNCHANGED <<shell, run, inbox, alarms, owed, history, used>>

\* The alarm goes off, on time or (not exact) later; the receiver's thread
\* asks for a pass and re-arms at its end or at its deadline.  Two threads of
\* the receiver at a time are left out.
AlarmFires ==
    /\ alarm /\ kt = "none"
    /\ alarm' = FALSE /\ fired' = TRUE /\ kt' = "rearm"
    /\ UNCHANGED <<shell, doc, run, inbox, owed, history, used>>

\* scheduledRunBlocking finds no core: the user is asked to open the app.
NoCore ==
    /\ fired
    /\ used.crashes < MaxCrashes
    /\ used' = [used EXCEPT !.crashes = @ + 1]
    /\ fired' = FALSE
    /\ UNCHANGED <<shell, doc, run, inbox, alarm, kt, owed, history>>

\* A boot, an update of the app, a change of the clock or of the permission.
Broadcast ==
    /\ shell = "android" /\ kt = "none"
    /\ kt' = "rearm"
    /\ UNCHANGED <<shell, doc, run, inbox, alarm, fired, owed, history, used>>

\* The receiver's rearm: it reads the file, then sets or cancels the alarm.
ReceiverReads ==
    /\ kt = "rearm"
    /\ \/ kt' = (IF NextWake(doc) THEN "set" ELSE "cancel") /\ UNCHANGED used
       \/ kt' = "cancel" /\ Fault
    /\ UNCHANGED <<shell, doc, run, inbox, alarm, fired, owed, history>>

ReceiverSets ==
    /\ kt \in {"set", "cancel"}
    /\ alarm' = (kt = "set")
    /\ kt' = "none"
    /\ UNCHANGED <<shell, doc, run, inbox, fired, owed, history, used>>

\* The process ends, with the core and what it has not yet stored.  Alarms
\* are the system's.
ProcessDies ==
    /\ used.crashes < MaxCrashes
    /\ used' = [used EXCEPT !.crashes = @ + 1]
    /\ run' = Idle /\ inbox' = {} /\ owed' = FALSE /\ fired' = FALSE /\ kt' = "none"
    /\ UNCHANGED <<shell, doc, alarm, history>>

\* The desktop's pass is the page's: a reload ends it, the core goes on.
PageReloads ==
    /\ shell = "desktop"
    /\ used.crashes < MaxCrashes
    /\ used' = [used EXCEPT !.crashes = @ + 1]
    /\ run' = Idle
    /\ UNCHANGED <<shell, doc, inbox, alarms, owed, history>>

Init ==
    /\ shell \in Shells
    /\ doc = [i \in Item |-> Unborn]
    /\ run = Idle
    /\ inbox = {}
    /\ alarm = FALSE /\ fired = FALSE /\ owed = FALSE /\ kt = "none"
    /\ accepted = [i \in Item |-> [r \in Revs |-> 0]]
    /\ removed = {} /\ early = {} /\ unread = {}
    /\ used = [crashes |-> 0, faults |-> 0]

PassStep == (\E s \in Snapshot : Claim(s)) \/ GiveUp \/ Settle

Next ==
    \/ \E i \in Item :
          \/ \E b \in BOOLEAN : Add(i, b) \/ Update(i, b)
          \/ Remove(i) \/ Tick(i)
    \/ \E w \in BOOLEAN : PagePass(w)
    \/ AlarmPass \/ PassStep
    \/ \E q \in Request : CoreAccepts(q) \/ CoreRejects(q)
    \/ Rearm \/ AlarmFires \/ NoCore \/ Broadcast \/ ReceiverReads \/ ReceiverSets
    \/ ProcessDies \/ PageReloads

Spec == Init /\ [][Next]_vars

\* Time goes on, the page's timer and resumes come back, a pass goes on (a
\* request is answered or given up within a minute), the system delivers
\* alarms and threads run.
FairSpec ==
    /\ Spec
    /\ \A i \in Item : WF_vars(Tick(i))
    /\ \A w \in BOOLEAN : WF_vars(PagePass(w))
    /\ WF_vars(AlarmPass) /\ WF_vars(PassStep)
    /\ WF_vars(Rearm) /\ SF_vars(AlarmFires)
    /\ WF_vars(ReceiverReads) /\ WF_vars(ReceiverSets)

-----------------------------------------------------------------------------
(* Properties *)

\* Every variable has its type.
TypeOK ==
    /\ shell \in Shells
    /\ doc \in [Item -> ItemRec]
    /\ run.phase \in {"idle", "claim", "send"} \cup Outcome
    /\ run.phase # "idle" => run.todo \subseteq Snapshot
    /\ run.phase \in {"send"} \cup Outcome => run.req \in Request
    /\ inbox \subseteq Request
    /\ {alarm, fired, owed} \subseteq BOOLEAN
    /\ kt \in {"none", "rearm", "cancel", "set"}
    /\ accepted \in [Item -> [Revs -> Nat]]
    /\ {removed, early, unread} \subseteq SUBSET Item
    /\ used \in [crashes : 0..MaxCrashes, faults : 0..MaxFaults]

\* An item goes out at most once for every decision of the user, whatever
\* crashes, gives up or comes late (docs: "Sending and no double send").
NoDoubleSend == \A i \in Item, r \in Revs : accepted[i][r] <= 1

\* An item leaves the file only because the user removed it, because the core
\* took a message for it, or because an operation that could not read or parse
\* the file began again with an empty one (read): a crash, a failed write, a
\* rejection or an answer that never came keeps it.  The message taken may
\* carry the text the item had when the pass listed it: an edit made between
\* that list and the claim goes with the item.
NothingLost ==
    \A i \in Item : doc[i].status = "gone" =>
        i \in removed \cup unread \/ \E r \in Revs : accepted[i][r] > 0

\* No item stays in sending: a pass settles it or a later one recovers it.
SendingEnds == \A i \in Item : doc[i].status = "sending" ~> doc[i].status # "sending"

\* An item whose time has come is taken up: sent, or shown as an error.
DueIsTakenUp ==
    \A i \in Item : (doc[i].status = "pending" /\ doc[i].due)
                    ~> ~(doc[i].status = "pending" /\ doc[i].due)

\* docs/scheduled-messages.md: "a scheduled message stays on this device until
\* it is due".  No pass hands an item to the core while its time, as the file
\* has it, is yet to come.
StaysUntilDue == early = {}
=============================================================================
