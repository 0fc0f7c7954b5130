--------------------------- MODULE PairingProofs ----------------------------
(***************************************************************************)
(* PairedByConsent, WelcomeIsSaved and RequestReachable of Pairing, for    *)
(* any devices, attempts, invitations, engines, restarts and failed        *)
(* writes.  The argument: a handshake belongs to an engine that has begun, *)
(* so a start never wipes the requests of one that waits (Placed); a token *)
(* that was not the current one when the device connected never becomes it *)
(* (StaleStays), so what passes the comparison was fresh; and whatever     *)
(* reaches add_peer has one of the two consents (Consenting).              *)
(***************************************************************************)
EXTENDS Pairing, TLAPS

\* An attempt that was not made has left no trace.
Unmade == \A c \in Attempt : at[c].joiner = "none" => at[c] = Untried

\* A handshake runs in an engine that has started.
Begun(e) == job[e] \notin {"none", "spawn", "take", "starting"}
Placed ==
    \A c \in Attempt : at[c].host \notin {"none", "over"} =>
        at[c].engine \in Job /\ Begun(at[c].engine)

\* A request is entered under its device.
Keyed ==
    \A e \in Job, j \in Joiner : requests[e][j] # NoAttempt => requests[e][j][1] = j

\* A token that is shown is one of an invitation that was made.
Shown ==
    \A c \in Attempt : at[c].host \in {"new", "hello", "judge"} =>
        at[c].tok <= made /\ at[c].tok # Secret

\* A token that was not the current one on arrival never is the current one.
StaleStays ==
    \A c \in Attempt : at[c].tok # Ask /\ ~at[c].fresh =>
        /\ at[c].host \in {"new", "hello"} => at[c].tok # token[at[c].engine]
        /\ at[c].host = "judge" => at[c].tok # at[c].exp

\* The user pressed "Pair", or an attempt showed a fresh token.
Consented(j) == j \in approved \/ \E k \in 1..Tries : at[<<j, k>>].fresh

\* An answer of yes is the user's; a handshake past its check has a consent.
Consenting ==
    \A c \in Attempt :
        /\ at[c].answer = "yes" => c[1] \in approved
        /\ at[c].host \in {"add", "welcome"} => Consented(c[1])

\* The Welcome is written after the file.
SavedFirst == \A c \in Attempt : at[c].host = "welcome" => c[1] \in saved

PairInv ==
    /\ Unmade /\ Placed /\ Keyed /\ Shown /\ StaleStays
    /\ Consenting /\ PairedByConsent
    /\ SavedFirst /\ WelcomeIsSaved /\ RequestReachable
IInv == TypeOK /\ PairInv

\* A pair is not the empty tuple.
LEMMA PairIsNotEmpty == \A S, T : \A d \in S \X T : d # << >>
OBVIOUS

USE LifecycleAssumption, PairingAssumption

-----------------------------------------------------------------------------
(* Records *)

\* An attempt is a device and a number, never the empty entry.
LEMMA AttemptIsPair ==
    ASSUME NEW c \in Attempt
    PROVE  c = <<c[1], c[2]>> /\ c[1] \in Joiner /\ c[2] \in 1..Tries /\ c # NoAttempt
<1>1. c = <<c[1], c[2]>> /\ c[1] \in Joiner /\ c[2] \in 1..Tries
  BY DEF Attempt
<1>2. c # NoAttempt
  BY PairIsNotEmpty DEF Attempt, NoAttempt
<1> QED
  BY <1>1, <1>2

\* The tokens that are not shown are tokens.
LEMMA TokenType ==
    /\ Ask \in Token /\ Secret \in Token /\ Ask # Secret
    /\ \A n \in Nat : n <= MaxInvites => n \in Token
BY DEF Ask, Secret, Token

\* The record of an attempt that was not made.
LEMMA UntriedType == Untried \in AttemptRec
BY TokenType DEF Untried, AttemptRec

\* Over ends the handshake and leaves the device that joins alone.
LEMMA OverRecord ==
    ASSUME NEW r \in AttemptRec
    PROVE  /\ Over(r) \in AttemptRec
           /\ Over(r).joiner = r.joiner /\ Over(r).fresh = r.fresh
           /\ Over(r).host = "over" /\ Over(r).tok = Ask /\ Over(r).answer = "none"
BY TokenType DEF Over, AttemptRec

\* An answer changes nothing but the answer, and ends the wait.
LEMMA AnswerRecord ==
    ASSUME NEW r \in AttemptRec, NEW says \in {"yes", "no"}
    PROVE  /\ Answer(r, says) \in AttemptRec
           /\ Answer(r, says).joiner = r.joiner /\ Answer(r, says).fresh = r.fresh
           /\ Answer(r, says).host = r.host /\ Answer(r, says).engine = r.engine
           /\ Answer(r, says).tok = r.tok /\ Answer(r, says).exp = r.exp
           /\ Answer(r, says).answer \in {r.answer, says}
           /\ r.host = "ask" => Answer(r, says).answer # "none"
           /\ Answer(r, says) # r => r.host = "ask" /\ r.answer = "none"
BY DEF Answer, AttemptRec

\* A handshake that goes on is at its next step, or over.
LEMMA GoesOnRecord ==
    ASSUME TypeOK, NEW c \in Attempt, NEW ok \in BOOLEAN, NEW step \in {"hello", "add"},
           GoesOn(c, ok, step)
    PROVE  \E r \in AttemptRec :
              /\ at' = [at EXCEPT ![c] = r]
              /\ r = IF ok THEN [at[c] EXCEPT !.host = step] ELSE Over(at[c])
<1> DEFINE r == IF ok THEN [at[c] EXCEPT !.host = step] ELSE Over(at[c])
<1>1. at[c] \in AttemptRec
  BY DEF TypeOK
<1>2. r \in AttemptRec
  BY <1>1, OverRecord DEF AttemptRec
<1>3. at' = [at EXCEPT ![c] = r]
  BY DEF GoesOn
<1> QED
  BY <1>2, <1>3

-----------------------------------------------------------------------------
(* The engine's life *)

\* What the shell does, in one formula.
Shell ==
    \/ \E e \in Job : \/ Toggle(e) \/ PageLoads(e) \/ SpawnStartup(e) \/ Start(e)
                      \/ StartFails(e) \/ CheckFlag(e) \/ Publish(e) \/ TakeSlot(e) \/ Close(e)
    \/ Restart

\* It keeps its types, and an engine that has begun never starts again.
LEMMA ShellStepKeeps ==
    ASSUME LifecycleTypeOK, Shell
    PROVE  LifecycleTypeOK' /\ \A e \in Job : Begun(e) => Begun(e)'
<1> USE DEF LifecycleTypeOK, Phase, Begun
<1>1. Trouble => used' \in 0..MaxTroubles
  BY DEF Trouble
<1>2. ASSUME NEW e \in Job, Toggle(e) PROVE LifecycleTypeOK' /\ \A d \in Job : Begun(d) => Begun(d)'
  BY <1>2 DEF Toggle, NextCall
<1>3. ASSUME NEW e \in Job, PageLoads(e) PROVE LifecycleTypeOK' /\ \A d \in Job : Begun(d) => Begun(d)'
  BY <1>1, <1>3 DEF PageLoads, NextCall
<1>4. ASSUME NEW e \in Job, SpawnStartup(e) \/ Start(e) \/ CheckFlag(e) \/ Publish(e) \/ Close(e)
      PROVE  LifecycleTypeOK' /\ \A d \in Job : Begun(d) => Begun(d)'
  BY <1>4 DEF SpawnStartup, Start, CheckFlag, Publish, Close
<1>5. ASSUME NEW e \in Job, StartFails(e) PROVE LifecycleTypeOK' /\ \A d \in Job : Begun(d) => Begun(d)'
  BY <1>1, <1>5 DEF StartFails
<1>6. ASSUME NEW e \in Job, TakeSlot(e) PROVE LifecycleTypeOK' /\ \A d \in Job : Begun(d) => Begun(d)'
  BY <1>6 DEF TakeSlot
<1>7. ASSUME Restart PROVE LifecycleTypeOK' /\ \A d \in Job : Begun(d) => Begun(d)'
  BY <1>1, <1>7 DEF Restart
<1> QED
  BY <1>2, <1>3, <1>4, <1>5, <1>6, <1>7 DEF Shell

-----------------------------------------------------------------------------
(* Types *)

\* A step that writes one attempt, and nothing else, keeps the types.
LEMMA OneAttemptType ==
    ASSUME TypeOK, NEW c \in Attempt, NEW r \in AttemptRec, at' = [at EXCEPT ![c] = r],
           UNCHANGED <<lifecycle, made, memory, disk, dialog, history>>
    PROVE  TypeOK'
BY DEF TypeOK, LifecycleTypeOK, lifecycle, memory, history

\* Every step keeps the types: a handshake that writes to the memory of its
\* engine has an engine.
LEMMA TypeStep == TypeOK /\ Placed /\ [Next]_vars => TypeOK'
<1> SUFFICES ASSUME TypeOK, Placed, [Next]_vars PROVE TypeOK'
    OBVIOUS
<1>a. \A c \in Attempt : at[c] \in AttemptRec
  BY DEF TypeOK
<1>b. Trouble => used' \in 0..MaxTroubles
  BY DEF Trouble, TypeOK, LifecycleTypeOK
<1>1. ASSUME NEW c \in Attempt, NEW tok \in Token, PairConnect(c, tok) PROVE TypeOK'
  <2>1. PICK e \in Job : at' = [at EXCEPT ![c] = [Untried EXCEPT !.joiner = "wait", !.host = "new",
                                        !.engine = e, !.tok = tok, !.fresh = (tok = token[e])]]
    BY <1>1 DEF PairConnect
  <2>2. [Untried EXCEPT !.joiner = "wait", !.host = "new",
                        !.engine = e, !.tok = tok, !.fresh = (tok = token[e])] \in AttemptRec
    BY UntriedType DEF AttemptRec
  <2> QED
    BY <1>1, <2>1, <2>2, OneAttemptType DEF PairConnect
<1>2. ASSUME NEW c \in Attempt, JoinerStep(c) PROVE TypeOK'
  <2>1. \A x \in {"paired", "gone"} : [at[c] EXCEPT !.joiner = x] \in AttemptRec
    BY <1>a DEF AttemptRec
  <2> QED
    BY <1>2, <2>1, OneAttemptType DEF JoinerStep, JoinerAdds, JoinerGivesUp
<1>3. ASSUME NEW c \in Attempt, HostStep(c) PROVE TypeOK'
  <2>e. at[c].host \notin {"none", "over"} => at[c].engine \in Job
    BY DEF Placed
  <2>1. CASE Route(c) \/ Judge(c) \/ AskEnds(c)
    BY <2>1, GoesOnRecord, OneAttemptType DEF Route, Judge, AskEnds
  <2>2. CASE ReadToken(c)
    <3>1. at[c].engine \in Job
      BY <2>2, <2>e DEF ReadToken
    <3>2. [at[c] EXCEPT !.host = "judge", !.exp = token[at[c].engine]] \in AttemptRec
      BY <1>a, <3>1 DEF TypeOK, AttemptRec
    <3> QED
      BY <2>2, <3>2, OneAttemptType DEF ReadToken
  <2>3. CASE HelloFails(c)
    BY <1>a, <2>3, OverRecord, OneAttemptType DEF HelloFails, HostOver
  <2>4. CASE AskUser(c)
    <3>1. at[c].engine \in Job /\ c[1] \in Joiner
      BY <2>4, <2>e, AttemptIsPair DEF AskUser
    <3>2. [at[c] EXCEPT !.host = "ask"] \in AttemptRec
      BY <1>a DEF AttemptRec
    <3>3. at' \in [Attempt -> AttemptRec]
      BY <1>a, <2>4, <3>2, AnswerRecord DEF AskUser
    <3> QED
      BY <2>4, <3>1, <3>3 DEF AskUser, Enter, TypeOK, LifecycleTypeOK, lifecycle, history
  <2>5. CASE AddPeer(c)
    <3>1. at[c].engine \in Job /\ c[1] \in Joiner
      BY <2>5, <2>e, AttemptIsPair DEF AddPeer
    <3>2. at' \in [Attempt -> AttemptRec]
      <4>1. Over(at[c]) \in AttemptRec /\ [at[c] EXCEPT !.host = "welcome"] \in AttemptRec
        BY <1>a, OverRecord DEF AttemptRec
      <4> QED
        BY <2>5, <4>1 DEF AddPeer, HostOver, TypeOK
    <3>3. used' \in 0..MaxTroubles
      BY <1>b, <2>5 DEF AddPeer, TypeOK, LifecycleTypeOK
    <3>4. /\ listed' \in [Job -> SUBSET Joiner]
          /\ disk' \subseteq Joiner /\ saved' \subseteq Joiner
      BY <2>5, <3>1 DEF AddPeer, TypeOK
    <3> QED
      BY <2>5, <3>2, <3>3, <3>4 DEF AddPeer, TypeOK, LifecycleTypeOK
  <2>6. CASE Welcome(c)
    <3>1. [Over(at[c]) EXCEPT !.joiner = IF at[c].joiner = "wait" THEN "told" ELSE at[c].joiner]
            \in AttemptRec
      BY <1>a, OverRecord DEF AttemptRec
    <3> QED
      BY <2>6, <3>1, OneAttemptType DEF Welcome
  <2> QED
    BY <1>3, <2>1, <2>2, <2>3, <2>4, <2>5, <2>6 DEF HostStep
<1>4. ASSUME NEW j \in Joiner, RemovePeer(j) PROVE TypeOK'
  <2>1. slot \in Job
    BY <1>4 DEF RemovePeer, TypeOK, LifecycleTypeOK
  <2>2. at' \in [Attempt -> AttemptRec]
    BY <1>a, <1>4, AnswerRecord DEF RemovePeer
  <2>3. used' \in 0..MaxTroubles
    BY <1>b, <1>4 DEF RemovePeer, TypeOK, LifecycleTypeOK
  <2> QED
    BY <1>4, <2>1, <2>2, <2>3 DEF RemovePeer, TypeOK, LifecycleTypeOK, history
<1>5. ASSUME NEW accept \in BOOLEAN, ApprovePair(accept) PROVE TypeOK'
  <2>1. dialog \in Joiner
    BY <1>5 DEF ApprovePair, TypeOK
  <2>2. at' \in [Attempt -> AttemptRec] /\ requests' \in [Job -> [Joiner -> {NoAttempt} \cup Attempt]]
    <3>1. CASE slot # 0 /\ requests[slot][dialog] # NoAttempt
      <4>1. slot \in Job /\ requests[slot][dialog] \in Attempt
        BY <2>1, <3>1 DEF TypeOK, LifecycleTypeOK
      <4>2. Answer(at[requests[slot][dialog]], IF accept THEN "yes" ELSE "no") \in AttemptRec
        BY <1>a, <4>1, AnswerRecord
      <4> QED
        BY <1>5, <3>1, <4>1, <4>2 DEF ApprovePair, TypeOK
    <3> QED
      BY <1>5, <3>1 DEF ApprovePair, TypeOK
  <2> QED
    BY <1>5, <2>1, <2>2 DEF ApprovePair, TypeOK, LifecycleTypeOK, lifecycle
<1>6. ASSUME CreateInvite PROVE TypeOK'
  <2>1. made + 1 \in 0..MaxInvites /\ made + 1 \in Token
    BY <1>6, TokenType DEF CreateInvite, TypeOK
  <2> QED
    BY <1>6, <2>1 DEF CreateInvite, TypeOK, LifecycleTypeOK, lifecycle, history
<1>7. ASSUME NEW e \in Job, StartLoads(e) PROVE TypeOK'
  <2>1. LifecycleTypeOK'
    BY <1>7, ShellStepKeeps DEF StartLoads, Shell, TypeOK
  <2> QED
    BY <1>7, <2>1, TokenType DEF StartLoads, TypeOK, history
<1>8. ASSUME ShellMoves PROVE TypeOK'
  <2>1. LifecycleTypeOK'
    BY <1>8, ShellStepKeeps DEF ShellMoves, Shell, TypeOK
  <2> QED
    BY <1>8, <2>1 DEF ShellMoves, TypeOK, memory, history
<1>9. ASSUME ProcessRestarts PROVE TypeOK'
  <2>1. LifecycleTypeOK'
    BY <1>9, ShellStepKeeps DEF ProcessRestarts, Shell, TypeOK
  <2>2. at' \in [Attempt -> AttemptRec]
    BY <1>a, <1>9, OverRecord DEF ProcessRestarts
  <2> QED
    BY <1>9, <2>1, <2>2, TokenType
       DEF ProcessRestarts, TypeOK, NoTokens, NoPeers, NoRequests, history
<1>10. CASE UNCHANGED vars
  BY <1>10 DEF vars, TypeOK, LifecycleTypeOK, lifecycle
<1> QED
  BY <1>1, <1>2, <1>3, <1>4, <1>5, <1>6, <1>7, <1>8, <1>9, <1>10 DEF Next

-----------------------------------------------------------------------------
(* The invariant *)

\* What the invariant asks of one record of an attempt.
RecordOK(c, r) ==
    /\ r.joiner # "none"
    /\ r.host \notin {"none", "over"} => r.engine \in Job /\ Begun(r.engine)
    /\ r.host \in {"new", "hello", "judge"} => r.tok <= made /\ r.tok # Secret
    /\ r.tok # Ask /\ ~r.fresh => /\ r.host \in {"new", "hello"} => r.tok # token[r.engine]
                                  /\ r.host = "judge" => r.tok # r.exp
    /\ r.answer = "yes" => c[1] \in approved
    /\ r.host \in {"add", "welcome"} => Consented(c[1]) \/ r.fresh
    /\ r.host = "welcome" => c[1] \in saved
    /\ r.joiner \in {"told", "paired"} => c[1] \in saved
    /\ r.host = "ask" /\ r.answer = "none" => requests[r.engine][c[1]] = c

\* The record of an attempt that was made is as asked.
LEMMA RecordIsOK ==
    ASSUME IInv, NEW c \in Attempt, at[c].joiner # "none"
    PROVE  RecordOK(c, at[c])
BY DEF IInv, PairInv, Placed, Shown, StaleStays, Consenting, SavedFirst, WelcomeIsSaved,
       RequestReachable, RecordOK

\* A device that has consent keeps it while no fresh attempt is forgotten.
LEMMA ConsentStays ==
    ASSUME NEW j \in Joiner, Consented(j), approved \subseteq approved',
           \A c \in Attempt : at[c].fresh => at'[c].fresh
    PROVE  Consented(j)'
<1>1. \A k \in 1..Tries : <<j, k>> \in Attempt
  BY DEF Attempt
<1> QED
  BY <1>1 DEF Consented

\* PairedByConsent holds after a step if what is then listed or stored has
\* consent.
LEMMA ConsentOfAll ==
    ASSUME \A j \in disk' : Consented(j)',
           \A e \in Job : \A j \in listed'[e] : Consented(j)'
    PROVE  PairedByConsent'
BY DEF PairedByConsent, Consented

\* ... and before it, PairedByConsent gives that.
LEMMA ConsentOfEach ==
    ASSUME PairedByConsent
    PROVE  /\ \A j \in disk : Consented(j)
           /\ \A e \in Job : \A j \in listed[e] : Consented(j)
BY DEF PairedByConsent, Consented

\* A step that writes one attempt as asked, and nothing else, keeps the rest.
LEMMA OneAttempt ==
    ASSUME IInv, NEW c \in Attempt, NEW r \in AttemptRec, at' = [at EXCEPT ![c] = r],
           UNCHANGED <<lifecycle, made, memory, disk, dialog, history>>,
           RecordOK(c, r), at[c].fresh => r.fresh
    PROVE  PairInv'
<1> USE DEF IInv, PairInv, RecordOK
<1>1. TypeOK /\ at'[c] = r /\ \A d \in Attempt : d # c => at'[d] = at[d]
  BY DEF TypeOK
<1>2. \A d \in Attempt : at[d].fresh => at'[d].fresh
  BY <1>1
<1>3. UNCHANGED <<job, made, token, listed, requests, disk, approved, saved>>
  BY DEF lifecycle, memory, history
<1>4. \A j \in Joiner : Consented(j) => Consented(j)'
  BY <1>2, <1>3, ConsentStays
<1>5. Unmade' /\ Keyed'
  BY <1>1, <1>3 DEF Unmade, Keyed
<1>6. Placed' /\ Shown' /\ StaleStays'
  BY <1>1, <1>3 DEF Placed, Begun, Shown, StaleStays
<1>7. Consenting'
  <2>1. r.fresh => Consented(c[1])'
    BY <1>1, AttemptIsPair DEF Consented
  <2> QED
    BY <1>1, <1>3, <1>4, <2>1, AttemptIsPair DEF Consenting
<1>8. PairedByConsent'
  <2>1. \A j \in disk : Consented(j)'
    BY <1>1, <1>4, ConsentOfEach DEF TypeOK
  <2>2. \A e \in Job : \A j \in listed[e] : Consented(j)'
    BY <1>1, <1>4, ConsentOfEach DEF TypeOK
  <2> QED
    BY <1>3, <2>1, <2>2, ConsentOfAll
<1>9. SavedFirst' /\ WelcomeIsSaved' /\ RequestReachable'
  BY <1>1, <1>3 DEF SavedFirst, WelcomeIsSaved, RequestReachable
<1> QED
  BY <1>5, <1>6, <1>7, <1>8, <1>9

\* The handshake of an attempt that was not made is nowhere.
LEMMA HostIsMade ==
    ASSUME IInv, NEW c \in Attempt, at[c].host # "none"
    PROVE  at[c].joiner # "none" /\ RecordOK(c, at[c])
<1>1. at[c].joiner # "none"
  BY DEF IInv, PairInv, Unmade, Untried
<1> QED
  BY <1>1, RecordIsOK

\* The steps of the device that joins.
LEMMA JoinerKeeps ==
    ASSUME IInv, NEW c \in Attempt,
           JoinerStep(c) \/ \E tok \in Token : PairConnect(c, tok)
    PROVE  PairInv'
<1>a. TypeOK /\ at[c] \in AttemptRec
  BY DEF IInv, TypeOK
<1>1. ASSUME NEW tok \in Token, PairConnect(c, tok) PROVE PairInv'
  <2>1. PICK e \in Job :
            /\ Serves(e)
            /\ at' = [at EXCEPT ![c] = [Untried EXCEPT !.joiner = "wait", !.host = "new",
                                        !.engine = e, !.tok = tok, !.fresh = (tok = token[e])]]
    BY <1>1 DEF PairConnect
  <2> DEFINE r == [Untried EXCEPT !.joiner = "wait", !.host = "new",
                                  !.engine = e, !.tok = tok, !.fresh = (tok = token[e])]
  <2>2. /\ r \in AttemptRec
        /\ r.joiner = "wait" /\ r.host = "new" /\ r.engine = e /\ r.tok = tok
        /\ r.answer = "none" /\ r.fresh = (tok = token[e])
    BY UntriedType DEF AttemptRec, Untried
  <2>3. ~at[c].fresh
    <3>1. at[c] = Untried
      BY <1>1 DEF PairConnect, IInv, PairInv, Unmade
    <3>2. Untried.fresh = FALSE
      BY DEF Untried
    <3> QED
      BY <3>1, <3>2
  <2> HIDE DEF r
  <2>4. RecordOK(c, r)
    BY <1>1, <2>1, <2>2 DEF PairConnect, Serves, RecordOK, Begun
  <2>5. at' = [at EXCEPT ![c] = r]
    BY <2>1 DEF r
  <2> QED
    BY <1>1, <2>2, <2>3, <2>4, <2>5, OneAttempt DEF PairConnect
<1>2. CASE JoinerAdds(c)
  <2> DEFINE r == [at[c] EXCEPT !.joiner = "paired"]
  <2>1. r \in AttemptRec /\ RecordOK(c, r) /\ (at[c].fresh => r.fresh)
    BY <1>2, <1>a, RecordIsOK DEF JoinerAdds, RecordOK, AttemptRec
  <2> QED
    BY <1>2, <2>1, OneAttempt DEF JoinerAdds
<1>3. CASE JoinerGivesUp(c)
  <2> DEFINE r == [at[c] EXCEPT !.joiner = "gone"]
  <2>1. r \in AttemptRec /\ RecordOK(c, r) /\ (at[c].fresh => r.fresh)
    BY <1>3, <1>a, RecordIsOK DEF JoinerGivesUp, RecordOK, AttemptRec
  <2> QED
    BY <1>3, <2>1, OneAttempt DEF JoinerGivesUp
<1> QED
  BY <1>1, <1>2, <1>3 DEF JoinerStep

\* A handshake that ends is as asked.
LEMMA OverIsOK ==
    ASSUME IInv, NEW c \in Attempt, at[c].host # "none"
    PROVE  RecordOK(c, Over(at[c]))
<1>1. at[c] \in AttemptRec
  BY DEF IInv, TypeOK
<1> QED
  BY <1>1, HostIsMade, OverRecord DEF RecordOK

\* The steps of a handshake that write to its own record only.
LEMMA HandshakeKeeps ==
    ASSUME IInv, NEW c \in Attempt,
           \/ Route(c) \/ ReadToken(c) \/ HelloFails(c) \/ Judge(c) \/ AskEnds(c) \/ Welcome(c)
    PROVE  PairInv'
<1>a. TypeOK /\ at[c] \in AttemptRec
  BY DEF IInv, TypeOK
<1>b. at[c].host # "none"
  BY DEF Route, ReadToken, HelloFails, Judge, AskEnds, Welcome
<1>c. RecordOK(c, at[c]) /\ RecordOK(c, Over(at[c]))
  BY <1>b, HostIsMade, OverIsOK
<1>d. Over(at[c]) \in AttemptRec /\ Over(at[c]).fresh = at[c].fresh
  BY <1>a, OverRecord
<1>1. CASE Route(c)
  <2> DEFINE r == [at[c] EXCEPT !.host = "hello"]
  <2>1. r \in AttemptRec /\ r.fresh = at[c].fresh /\ RecordOK(c, r)
    BY <1>1, <1>a, <1>c DEF Route, RecordOK, AttemptRec
  <2>2. at' = [at EXCEPT ![c] = r] \/ at' = [at EXCEPT ![c] = Over(at[c])]
    BY <1>1 DEF Route, GoesOn
  <2> QED
    BY <1>1, <1>c, <1>d, <2>1, <2>2, OneAttempt DEF Route
<1>2. CASE ReadToken(c)
  <2> DEFINE r == [at[c] EXCEPT !.host = "judge", !.exp = token[at[c].engine]]
  <2>0. at[c].engine \in Job
    BY <1>2, <1>c DEF ReadToken, RecordOK
  <2>1. r \in AttemptRec /\ r.fresh = at[c].fresh /\ RecordOK(c, r)
    BY <1>2, <1>a, <1>c, <2>0 DEF ReadToken, RecordOK, AttemptRec, TypeOK
  <2> QED
    BY <1>2, <2>1, OneAttempt DEF ReadToken
<1>3. CASE HelloFails(c)
  BY <1>3, <1>c, <1>d, OneAttempt DEF HelloFails, HostOver
<1>4. CASE Judge(c)
  <2> DEFINE r == [at[c] EXCEPT !.host = "add"]
  <2>1. r \in AttemptRec /\ r.fresh = at[c].fresh
    BY <1>a DEF AttemptRec
  <2>2. at[c].tok = at[c].exp => RecordOK(c, r)
    BY <1>4, <1>a, <1>c DEF Judge, RecordOK, AttemptRec
  <2>3. \/ at[c].tok = at[c].exp /\ at' = [at EXCEPT ![c] = r]
        \/ at' = [at EXCEPT ![c] = Over(at[c])]
    BY <1>4 DEF Judge, GoesOn
  <2> QED
    BY <1>4, <1>c, <1>d, <2>1, <2>2, <2>3, OneAttempt DEF Judge
<1>5. CASE AskEnds(c)
  <2> DEFINE r == [at[c] EXCEPT !.host = "add"]
  <2>1. r \in AttemptRec /\ r.fresh = at[c].fresh
    BY <1>a DEF AttemptRec
  <2>2. at[c].answer = "yes" => RecordOK(c, r)
    BY <1>5, <1>a, <1>c DEF AskEnds, RecordOK, AttemptRec, Consented
  <2>3. \/ at[c].answer = "yes" /\ at' = [at EXCEPT ![c] = r]
        \/ at' = [at EXCEPT ![c] = Over(at[c])]
    BY <1>5 DEF AskEnds, GoesOn
  <2> QED
    BY <1>5, <1>c, <1>d, <2>1, <2>2, <2>3, OneAttempt DEF AskEnds
<1>6. CASE Welcome(c)
  <2> DEFINE now == IF at[c].joiner = "wait" THEN "told" ELSE at[c].joiner
             r == [Over(at[c]) EXCEPT !.joiner = now]
  <2>1. /\ r \in AttemptRec /\ r.fresh = at[c].fresh
        /\ r.host = "over" /\ r.tok = Ask /\ r.answer = "none" /\ r.joiner = now
    BY <1>a, OverRecord DEF AttemptRec
  <2>2. RecordOK(c, r)
    BY <1>6, <1>a, <1>c, <2>1 DEF Welcome, RecordOK
  <2>3. at' = [at EXCEPT ![c] = r]
    BY <1>6 DEF Welcome
  <2> QED
    BY <1>6, <2>1, <2>2, <2>3, OneAttempt DEF Welcome
<1> QED
  BY <1>1, <1>2, <1>3, <1>4, <1>5, <1>6

\* A step that answers requests, and may take them out: attempts are as they
\* were or have an answer more, and a request that goes has its answer.
LEMMA AnswersKeep ==
    ASSUME IInv, TypeOK', UNCHANGED <<job, made, token, saved>>,
           approved \subseteq approved',
           \A c \in Attempt : at'[c] = at[c] \/
               \E says \in {"yes", "no"} : at'[c] = Answer(at[c], says)
                                          /\ (says = "yes" => c[1] \in approved'),
           \A e \in Job, j \in Joiner :
               requests'[e][j] = requests[e][j]
               \/ (/\ requests'[e][j] = NoAttempt
                   /\ requests[e][j] # NoAttempt =>
                        \E says \in {"yes", "no"} :
                            at'[requests[e][j]] = Answer(at[requests[e][j]], says)),
           disk' \subseteq disk \cup UNION {listed[e] : e \in Job},
           \A e \in Job : listed'[e] \subseteq listed[e]
    PROVE  PairInv'
<1> USE DEF IInv, PairInv
<1>1. \A c \in Attempt : at[c] \in AttemptRec
  BY DEF TypeOK
<1>2. \A c \in Attempt :
         /\ at'[c].joiner = at[c].joiner /\ at'[c].fresh = at[c].fresh
         /\ at'[c].host = at[c].host /\ at'[c].engine = at[c].engine
         /\ at'[c].tok = at[c].tok /\ at'[c].exp = at[c].exp
         /\ at'[c].answer = "yes" => at[c].answer = "yes" \/ c[1] \in approved'
         /\ at'[c] # at[c] => at[c].host = "ask" /\ at[c].answer = "none"
  <2> TAKE c \in Attempt
  <2>1. CASE at'[c] = at[c]
    BY <2>1
  <2>2. ASSUME NEW says \in {"yes", "no"}, at'[c] = Answer(at[c], says),
               says = "yes" => c[1] \in approved'
        PROVE  /\ at'[c].joiner = at[c].joiner /\ at'[c].fresh = at[c].fresh
               /\ at'[c].host = at[c].host /\ at'[c].engine = at[c].engine
               /\ at'[c].tok = at[c].tok /\ at'[c].exp = at[c].exp
               /\ at'[c].answer = "yes" => at[c].answer = "yes" \/ c[1] \in approved'
               /\ at'[c] # at[c] => at[c].host = "ask" /\ at[c].answer = "none"
    BY <1>1, <2>2, AnswerRecord
  <2> QED
    BY <2>1, <2>2
<1>3. \A j \in Joiner : Consented(j) => Consented(j)'
  BY <1>2, ConsentStays
<1>4. Unmade'
  <2>1. Untried.host = "none"
    BY DEF Untried
  <2> QED
    BY <1>2, <2>1 DEF Unmade
<1>5. Placed' /\ Shown' /\ StaleStays'
  BY <1>2 DEF Placed, Begun, Shown, StaleStays
<1>6. Keyed'
  BY DEF Keyed
<1>7. Consenting'
  BY <1>2, <1>3, AttemptIsPair DEF Consenting
<1>8. PairedByConsent'
  <2>1. \A e \in Job : \A j \in listed[e] : Consented(j)'
    BY <1>3, ConsentOfEach DEF TypeOK
  <2>2. \A j \in disk : Consented(j)'
    BY <1>3, ConsentOfEach DEF TypeOK
  <2> QED
    BY <2>1, <2>2, ConsentOfAll
<1>9. SavedFirst' /\ WelcomeIsSaved'
  BY <1>2 DEF SavedFirst, WelcomeIsSaved
<1>10. RequestReachable'
  <2> SUFFICES ASSUME NEW c \in Attempt, at'[c].host = "ask", at'[c].answer = "none"
               PROVE  requests'[at'[c].engine][c[1]] = c
    BY DEF RequestReachable
  <2>1. at[c].host = "ask" /\ at[c].answer = "none" /\ at'[c].engine = at[c].engine
    BY <1>2
  <2>2. requests[at[c].engine][c[1]] = c /\ at[c].engine \in Job /\ c[1] \in Joiner /\ c # NoAttempt
    BY <2>1, AttemptIsPair DEF RequestReachable, Placed
  <2>3. \A says \in {"yes", "no"} : Answer(at[c], says).answer # "none"
    BY <1>1, <2>1, AnswerRecord
  <2> QED
    BY <2>1, <2>2, <2>3
<1> QED
  BY <1>4, <1>5, <1>6, <1>7, <1>8, <1>9, <1>10

\* The user's answer and the removal of a device.
LEMMA UserKeeps ==
    ASSUME IInv, TypeOK',
           \/ \E accept \in BOOLEAN : ApprovePair(accept)
           \/ \E j \in Joiner : RemovePeer(j)
    PROVE  PairInv'
<1>a. TypeOK
  BY DEF IInv
<1>1. ASSUME NEW accept \in BOOLEAN, ApprovePair(accept) PROVE PairInv'
  <2> DEFINE says == IF accept THEN "yes" ELSE "no"
  <2>0. says \in {"yes", "no"} /\ dialog \in Joiner
    BY <1>1, <1>a DEF ApprovePair, TypeOK
  <2>1. /\ UNCHANGED <<job, made, token, saved, disk, listed>>
        /\ approved \subseteq approved' /\ (accept => dialog \in approved')
    BY <1>1, <2>0 DEF ApprovePair, lifecycle
  <2>2. CASE slot # 0 /\ requests[slot][dialog] # NoAttempt
    <3> DEFINE c == requests[slot][dialog]
    <3>1. slot \in Job /\ c \in Attempt /\ c[1] = dialog
      BY <1>a, <2>0, <2>2 DEF IInv, PairInv, TypeOK, LifecycleTypeOK, Keyed
    <3>2. at' = [at EXCEPT ![c] = Answer(at[c], says)]
      BY <1>1, <2>2 DEF ApprovePair
    <3>3. at'[c] = Answer(at[c], says) /\ \A d \in Attempt : d # c => at'[d] = at[d]
      BY <1>a, <3>1, <3>2 DEF TypeOK
    <3>4. requests' = [requests EXCEPT ![slot][dialog] = NoAttempt]
      BY <1>1, <2>2 DEF ApprovePair
    <3>5. \A e \in Job, j \in Joiner :
             requests'[e][j] = requests[e][j] \/ (e = slot /\ j = dialog /\ requests'[e][j] = NoAttempt)
      BY <1>a, <3>1, <3>4 DEF TypeOK
    <3> QED
      BY <2>0, <2>1, <3>1, <3>3, <3>5, AnswersKeep
  <2>3. CASE ~(slot # 0 /\ requests[slot][dialog] # NoAttempt)
    <3>1. UNCHANGED <<requests, at>>
      BY <1>1, <2>3 DEF ApprovePair
    <3> QED
      BY <2>1, <3>1, AnswersKeep
  <2> QED
    BY <2>2, <2>3
<1>2. ASSUME NEW j \in Joiner, RemovePeer(j) PROVE PairInv'
  <2>1. slot \in Job /\ UNCHANGED <<job, made, token, saved, approved>>
    BY <1>2, <1>a DEF RemovePeer, history, TypeOK, LifecycleTypeOK
  <2>2. \A e \in Job, i \in Joiner :
             requests'[e][i] = requests[e][i] \/ (e = slot /\ i = j /\ requests'[e][i] = NoAttempt)
    BY <1>2, <1>a, <2>1 DEF RemovePeer, TypeOK
  <2>3. \A c \in Attempt : at'[c] = IF c = requests[slot][j] THEN Answer(at[c], "no") ELSE at[c]
    BY <1>2 DEF RemovePeer
  <2>4. requests[slot][j] # NoAttempt => requests[slot][j] \in Attempt
    BY <1>a, <2>1 DEF TypeOK
  <2>5. \A e \in Job : listed'[e] \subseteq listed[e]
    BY <1>2, <1>a, <2>1 DEF RemovePeer, TypeOK
  <2>6. disk' \subseteq disk \cup UNION {listed[e] : e \in Job}
    BY <1>2, <2>1 DEF RemovePeer
  <2> QED
    BY <2>1, <2>2, <2>3, <2>4, <2>5, <2>6, AnswersKeep
<1> QED
  BY <1>1, <1>2

\* A request is entered; the one it replaces is answered.
LEMMA AskUserKeeps ==
    ASSUME IInv, NEW c \in Attempt, AskUser(c)
    PROVE  PairInv'
<1> USE DEF IInv, PairInv
<1> DEFINE e == at[c].engine
           old == requests[e][c[1]]
<1>1. TypeOK /\ \A d \in Attempt : at[d] \in AttemptRec
  BY DEF TypeOK
<1>2. e \in Job /\ Begun(e) /\ c[1] \in Joiner /\ at[c].host = "judge" /\ at[c].joiner # "none"
  <2>1. at[c].host = "judge"
    BY DEF AskUser
  <2> QED
    BY <2>1, HostIsMade, AttemptIsPair DEF Placed
<1>3. UNCHANGED <<job, made, token, saved, approved, listed, disk>>
  BY DEF AskUser, lifecycle, history
<1>4. /\ at'[c] = [at[c] EXCEPT !.host = "ask"]
      /\ \A d \in Attempt : d # c => at'[d] = IF d = old THEN Answer(at[d], "no") ELSE at[d]
  BY DEF AskUser
<1>5. requests'[e][c[1]] = c
      /\ \A f \in Job, j \in Joiner : f # e \/ j # c[1] => requests'[f][j] = requests[f][j]
  BY <1>1, <1>2 DEF AskUser, Enter, TypeOK
<1>6. /\ at'[c].joiner = at[c].joiner /\ at'[c].fresh = at[c].fresh
      /\ at'[c].host = "ask" /\ at'[c].engine = e /\ at'[c].answer = at[c].answer
  BY <1>1, <1>4 DEF AttemptRec
<1>7. \A d \in Attempt : d # c =>
         /\ at'[d].joiner = at[d].joiner /\ at'[d].fresh = at[d].fresh
         /\ at'[d].host = at[d].host /\ at'[d].engine = at[d].engine
         /\ at'[d].tok = at[d].tok /\ at'[d].exp = at[d].exp
         /\ at'[d].answer = "yes" => at[d].answer = "yes"
         /\ at'[d] # at[d] => d = old /\ at[d].host = "ask"
         /\ d = old /\ at'[d].host = "ask" => at'[d].answer # "none"
  <2> TAKE d \in Attempt
  <2>1. CASE d # old
    BY <1>4, <2>1
  <2>2. CASE d = old
    <3>1. ASSUME d # c PROVE at'[d] = Answer(at[d], "no")
      BY <1>4, <2>2, <3>1
    <3>2. at[d] \in AttemptRec
      BY <1>1
    <3>3. /\ Answer(at[d], "no").joiner = at[d].joiner /\ Answer(at[d], "no").fresh = at[d].fresh
          /\ Answer(at[d], "no").host = at[d].host /\ Answer(at[d], "no").engine = at[d].engine
          /\ Answer(at[d], "no").tok = at[d].tok /\ Answer(at[d], "no").exp = at[d].exp
          /\ Answer(at[d], "no").answer \in {at[d].answer, "no"}
          /\ at[d].host = "ask" => Answer(at[d], "no").answer # "none"
          /\ Answer(at[d], "no") # at[d] => at[d].host = "ask"
      BY <3>2, AnswerRecord
    <3> QED
      BY <2>2, <3>1, <3>3
  <2> QED
    BY <2>1, <2>2
<1>8. \A d \in Attempt : at[d].fresh => at'[d].fresh
  BY <1>6, <1>7
<1>9. \A j \in Joiner : Consented(j) => Consented(j)'
  BY <1>3, <1>8, ConsentStays
<1>10. Unmade'
  <2>1. Untried.host = "none"
    BY DEF Untried
  <2> QED
    BY <1>2, <1>6, <1>7, <2>1 DEF Unmade
<1>11. Placed' /\ Shown' /\ StaleStays'
  BY <1>2, <1>3, <1>6, <1>7 DEF Placed, Begun, Shown, StaleStays
<1>12. Keyed'
  BY <1>5, <1>2 DEF Keyed
<1>13. Consenting'
  BY <1>3, <1>6, <1>7, <1>9, AttemptIsPair DEF Consenting
<1>14. PairedByConsent'
  <2>1. \A f \in Job : \A j \in listed[f] : Consented(j)'
    BY <1>1, <1>9, ConsentOfEach DEF TypeOK
  <2>2. \A j \in disk : Consented(j)'
    BY <1>1, <1>9, ConsentOfEach DEF TypeOK
  <2> QED
    BY <1>3, <2>1, <2>2, ConsentOfAll
<1>15. SavedFirst' /\ WelcomeIsSaved'
  BY <1>3, <1>6, <1>7 DEF SavedFirst, WelcomeIsSaved
<1>16. RequestReachable'
  <2> SUFFICES ASSUME NEW d \in Attempt, at'[d].host = "ask", at'[d].answer = "none"
               PROVE  requests'[at'[d].engine][d[1]] = d
    BY DEF RequestReachable
  <2>1. CASE d = c
    BY <1>5, <1>6, <2>1
  <2>2. CASE d # c
    <3>1. d # old /\ at[d].host = "ask" /\ at[d].answer = "none" /\ at'[d].engine = at[d].engine
      BY <1>7, <2>2
    <3>2. requests[at[d].engine][d[1]] = d /\ at[d].engine \in Job /\ d[1] \in Joiner
      BY <3>1, AttemptIsPair DEF RequestReachable, Placed
    <3> QED
      BY <1>5, <3>1, <3>2
  <2> QED
    BY <2>1, <2>2
<1> QED
  BY <1>10, <1>11, <1>12, <1>13, <1>14, <1>15, <1>16

\* add_peer: the device has consent, and the Welcome follows the file.
LEMMA AddPeerKeeps ==
    ASSUME IInv, NEW c \in Attempt, AddPeer(c)
    PROVE  PairInv'
<1> USE DEF IInv, PairInv
<1> DEFINE e == at[c].engine
<1>1. TypeOK /\ at[c] \in AttemptRec
  BY DEF TypeOK
<1>2. e \in Job /\ Begun(e) /\ c[1] \in Joiner /\ at[c].host = "add" /\ at[c].joiner # "none"
      /\ Consented(c[1])
  <2>1. at[c].host = "add"
    BY DEF AddPeer
  <2> QED
    BY <2>1, HostIsMade, AttemptIsPair DEF Placed, Consenting
<1>3. UNCHANGED <<job, made, token, approved, requests>>
  BY DEF AddPeer
<1>4. PICK r \in AttemptRec :
         /\ at' = [at EXCEPT ![c] = r]
         /\ r.joiner = at[c].joiner /\ r.fresh = at[c].fresh
         /\ \/ r.host = "welcome" /\ r.engine = e /\ r.answer = at[c].answer /\ c[1] \in saved'
            \/ r.host = "over" /\ r.answer = "none"
  <2>1. CASE at' = [at EXCEPT ![c].host = "welcome"] /\ saved' = saved \cup (listed[e] \cup {c[1]})
    <3> DEFINE r == [at[c] EXCEPT !.host = "welcome"]
    <3>1. /\ r \in AttemptRec /\ r.joiner = at[c].joiner /\ r.fresh = at[c].fresh
          /\ r.host = "welcome" /\ r.engine = e /\ r.answer = at[c].answer
      BY <1>1 DEF AttemptRec
    <3> QED
      BY <2>1, <3>1
  <2>2. CASE HostOver(c)
    BY <1>1, <2>2, OverRecord DEF HostOver
  <2> QED
    BY <2>1, <2>2 DEF AddPeer
<1>5. at'[c] = r /\ \A d \in Attempt : d # c => at'[d] = at[d]
  BY <1>1, <1>4 DEF TypeOK
<1>6. saved \subseteq saved' /\ (disk' = disk \/ disk' = listed[e] \cup {c[1]})
  BY DEF AddPeer
<1>7. \A f \in Job : listed'[f] \subseteq listed[f] \cup {c[1]}
  BY <1>1, <1>2 DEF AddPeer, TypeOK
<1>8. \A d \in Attempt : at[d].fresh => at'[d].fresh
  BY <1>4, <1>5
<1>9. \A j \in Joiner : Consented(j) => Consented(j)'
  BY <1>3, <1>8, ConsentStays
<1>10. Unmade' /\ Keyed'
  BY <1>2, <1>3, <1>4, <1>5 DEF Unmade, Keyed
<1>11. Placed' /\ Shown' /\ StaleStays'
  BY <1>2, <1>3, <1>4, <1>5 DEF Placed, Begun, Shown, StaleStays
<1>12. Consenting'
  BY <1>2, <1>3, <1>4, <1>5, <1>9, AttemptIsPair DEF Consenting
<1>13. PairedByConsent'
  <2>1. \A f \in Job : \A j \in listed[f] : Consented(j)'
    BY <1>1, <1>9, ConsentOfEach DEF TypeOK
  <2>2. \A j \in disk : Consented(j)'
    BY <1>1, <1>9, ConsentOfEach DEF TypeOK
  <2>3. Consented(c[1])'
    BY <1>2, <1>9
  <2>4. \A j \in disk' : Consented(j)'
    BY <1>2, <1>6, <2>1, <2>2, <2>3
  <2>5. \A f \in Job : \A j \in listed'[f] : Consented(j)'
    BY <1>7, <2>1, <2>3
  <2> QED
    BY <2>4, <2>5, ConsentOfAll
<1>14. SavedFirst' /\ WelcomeIsSaved' /\ RequestReachable'
  BY <1>3, <1>4, <1>5, <1>6 DEF SavedFirst, WelcomeIsSaved, RequestReachable
<1> QED
  BY <1>10, <1>11, <1>12, <1>13, <1>14

\* An invitation, and the engine's life: no attempt changes, an engine that
\* has begun goes on, and the tokens of the ones that have are kept or new.
LEMMA EngineKeeps ==
    ASSUME IInv, CreateInvite \/ ShellMoves \/ \E e \in Job : StartLoads(e)
    PROVE  PairInv'
<1> USE DEF IInv, PairInv
<1>1. TypeOK /\ \A c \in Attempt : at[c] \in AttemptRec
  BY DEF TypeOK
<1>2. UNCHANGED <<at, disk, approved, saved>>
  BY DEF CreateInvite, ShellMoves, StartLoads, history
<1>3. \A e \in Job : Begun(e) => Begun(e)'
  <2>1. CASE CreateInvite
    BY <2>1 DEF CreateInvite, lifecycle, Begun
  <2>2. CASE Shell
    BY <1>1, <2>2, ShellStepKeeps DEF TypeOK
  <2> QED
    BY <2>1, <2>2 DEF ShellMoves, StartLoads, Shell
<1>4. made <= made'
  BY <1>1 DEF CreateInvite, ShellMoves, StartLoads, TypeOK
<1>5. \A e \in Job : Begun(e) =>
         /\ token'[e] = token[e] \/ token'[e] > made
         /\ requests'[e] = requests[e] /\ listed'[e] = listed[e]
  <2>1. CASE CreateInvite
    <3>1. UNCHANGED <<requests, listed>> /\ slot \in Job /\ token' = [token EXCEPT ![slot] = made + 1]
      BY <1>1, <2>1 DEF CreateInvite, TypeOK, LifecycleTypeOK
    <3>2. made + 1 > made
      BY <1>1 DEF TypeOK
    <3> QED
      BY <1>1, <3>1, <3>2 DEF TypeOK
  <2>2. CASE ShellMoves
    BY <2>2 DEF ShellMoves, memory
  <2>3. ASSUME NEW e \in Job, StartLoads(e)
        PROVE  \A f \in Job : Begun(f) =>
                   token'[f] = token[f] /\ requests'[f] = requests[f] /\ listed'[f] = listed[f]
    BY <1>1, <2>3 DEF StartLoads, Start, Begun, TypeOK
  <2> QED
    BY <2>1, <2>2, <2>3
<1>6. /\ \A e \in Job : listed'[e] = listed[e] \/ listed'[e] = disk
      /\ \A e \in Job : \A j \in Joiner :
            requests'[e][j] = requests[e][j] \/ requests'[e][j] = NoAttempt
  BY <1>1 DEF CreateInvite, ShellMoves, StartLoads, memory, TypeOK
<1>7. Unmade' /\ Placed' /\ Keyed'
  BY <1>2, <1>3, <1>6 DEF Unmade, Placed, Keyed
<1>8. Shown'
  <2> SUFFICES ASSUME NEW c \in Attempt, at[c].host \in {"new", "hello", "judge"}
               PROVE  at[c].tok <= made' /\ at[c].tok # Secret
    BY <1>2 DEF Shown
  <2>1. at[c].tok <= made /\ at[c].tok # Secret
    BY DEF Shown
  <2>2. at[c].tok \in Int /\ made \in Int /\ made' \in Int
    BY <1>1 DEF TypeOK, AttemptRec, Token, Ask, CreateInvite, ShellMoves, StartLoads
  <2> QED
    BY <1>4, <2>1, <2>2
<1>9. StaleStays'
  <2> SUFFICES ASSUME NEW c \in Attempt, at[c].tok # Ask, ~at[c].fresh, at[c].host \in {"new", "hello"}
               PROVE  at[c].tok # token'[at[c].engine]
    BY <1>2 DEF StaleStays
  <2>1. at[c].engine \in Job /\ Begun(at[c].engine)
    BY DEF Placed
  <2>2. at[c].tok # token[at[c].engine] /\ at[c].tok <= made
    BY DEF StaleStays, Shown
  <2>3. at[c].tok \in Int /\ made \in Int
    BY <1>1 DEF TypeOK, AttemptRec, Token, Ask
  <2> QED
    BY <1>5, <2>1, <2>2, <2>3
<1>10. \A j \in Joiner : Consented(j) => Consented(j)'
  BY <1>2 DEF Consented
<1>11. Consenting'
  BY <1>2, <1>10, AttemptIsPair DEF Consenting
<1>12. PairedByConsent'
  <2>1. \A f \in Job : \A j \in listed[f] : Consented(j)'
    BY <1>1, <1>10, ConsentOfEach DEF TypeOK
  <2>2. \A j \in disk : Consented(j)'
    BY <1>1, <1>10, ConsentOfEach DEF TypeOK
  <2> QED
    BY <1>2, <1>6, <2>1, <2>2, ConsentOfAll
<1>13. SavedFirst' /\ WelcomeIsSaved'
  BY <1>2 DEF SavedFirst, WelcomeIsSaved
<1>14. RequestReachable'
  BY <1>2, <1>5 DEF RequestReachable, Placed
<1> QED
  BY <1>7, <1>8, <1>9, <1>11, <1>12, <1>13, <1>14

\* A restart ends every handshake and forgets the memory of every engine.
LEMMA RestartKeeps ==
    ASSUME IInv, ProcessRestarts
    PROVE  PairInv'
<1> USE DEF IInv, PairInv
<1>1. TypeOK /\ \A c \in Attempt : at[c] \in AttemptRec
  BY DEF TypeOK
<1>2. UNCHANGED <<made, disk, approved, saved>>
  BY DEF ProcessRestarts, history
<1>3. \A c \in Attempt :
         /\ at'[c].joiner = at[c].joiner /\ at'[c].fresh = at[c].fresh
         /\ at'[c].host \in {"none", "over"}
         /\ at'[c].answer = "yes" => at[c].answer = "yes"
         /\ at'[c] # at[c] => at[c].host # "none"
  <2> TAKE c \in Attempt
  <2>1. at'[c] = IF at[c].host = "none" THEN at[c] ELSE Over(at[c])
    BY DEF ProcessRestarts
  <2> QED
    BY <1>1, <2>1, OverRecord
<1>4. /\ \A e \in Job : listed'[e] = {}
      /\ \A e \in Job, j \in Joiner : requests'[e][j] = NoAttempt
  BY DEF ProcessRestarts, NoPeers, NoRequests
<1>5. \A j \in Joiner : Consented(j) => Consented(j)'
  BY <1>2, <1>3, ConsentStays
<1>6. Unmade'
  <2>1. Untried.host = "none"
    BY DEF Untried
  <2> QED
    BY <1>3, <2>1 DEF Unmade
<1>7. Placed' /\ Shown' /\ StaleStays' /\ Keyed'
  BY <1>3, <1>4 DEF Placed, Shown, StaleStays, Keyed
<1>8. Consenting'
  BY <1>2, <1>3 DEF Consenting
<1>9. PairedByConsent'
  <2>1. \A j \in disk : Consented(j)'
    BY <1>1, <1>5, ConsentOfEach DEF TypeOK
  <2> QED
    BY <1>2, <1>4, <2>1, ConsentOfAll
<1>10. SavedFirst' /\ WelcomeIsSaved' /\ RequestReachable'
  BY <1>2, <1>3 DEF SavedFirst, WelcomeIsSaved, RequestReachable
<1> QED
  BY <1>6, <1>7, <1>8, <1>9, <1>10

\* Every step keeps the invariant.
LEMMA PairStep == IInv /\ [Next]_vars => IInv'
<1> SUFFICES ASSUME IInv, [Next]_vars PROVE IInv'
    OBVIOUS
<1>1. TypeOK'
  BY TypeStep DEF IInv, PairInv
<1>2. ASSUME NEW c \in Attempt, JoinerStep(c) \/ \E tok \in Token : PairConnect(c, tok)
      PROVE  PairInv'
  BY <1>2, JoinerKeeps
<1>3. ASSUME NEW c \in Attempt, HostStep(c) PROVE PairInv'
  BY <1>3, HandshakeKeeps, AskUserKeeps, AddPeerKeeps DEF HostStep
<1>4. ASSUME \/ \E accept \in BOOLEAN : ApprovePair(accept)
             \/ \E j \in Joiner : RemovePeer(j)
      PROVE  PairInv'
  BY <1>1, <1>4, UserKeeps
<1>5. ASSUME CreateInvite \/ ShellMoves \/ \E e \in Job : StartLoads(e) PROVE PairInv'
  BY <1>5, EngineKeeps
<1>6. ASSUME ProcessRestarts PROVE PairInv'
  BY <1>6, RestartKeeps
<1>7. CASE UNCHANGED vars
  <2>1. PairInv'
    BY <1>7 DEF vars, lifecycle, IInv, PairInv, Unmade, Placed, Begun, Keyed, Shown, StaleStays,
                Consenting, Consented, PairedByConsent, SavedFirst, WelcomeIsSaved, RequestReachable
  <2> QED
    BY <1>1, <2>1 DEF IInv
<1> QED
  BY <1>1, <1>2, <1>3, <1>4, <1>5, <1>6, <1>7 DEF Next, IInv

\* The first state has it.
LEMMA PairInit == Init => IInv
<1> SUFFICES ASSUME Init PROVE IInv
    OBVIOUS
<1>1. \A c \in Attempt : at[c] = Untried
  BY DEF Init
<1>2. Untried.host = "none" /\ Untried.answer = "none" /\ Untried.joiner = "none"
  BY DEF Untried
<1>3. TypeOK
  <2>1. LifecycleTypeOK
    <3>1. {pref, flag} \subseteq BOOLEAN
      BY Zenon DEF Init, LifecycleInit
    <3> QED
      BY <3>1 DEF Init, LifecycleInit, LifecycleTypeOK, Phase
  <2>2. requests \in [Job -> [Joiner -> {NoAttempt} \cup Attempt]]
    BY DEF Init, NoRequests
  <2>3. token \in [Job -> Token] /\ listed \in [Job -> SUBSET Joiner]
    BY TokenType DEF Init, NoTokens, NoPeers
  <2> QED
    BY <2>1, <2>2, <2>3, UntriedType DEF Init, TypeOK
<1>4. Unmade /\ Placed /\ Shown /\ StaleStays
  BY <1>1, <1>2 DEF Unmade, Placed, Shown, StaleStays
<1>5. Keyed
  BY DEF Init, Keyed, NoRequests
<1>6. Consenting /\ SavedFirst /\ WelcomeIsSaved /\ RequestReachable
  BY <1>1, <1>2 DEF Consenting, SavedFirst, WelcomeIsSaved, RequestReachable
<1>7. PairedByConsent
  BY DEF Init, PairedByConsent, NoPeers
<1> QED
  BY <1>3, <1>4, <1>5, <1>6, <1>7 DEF IInv, PairInv

-----------------------------------------------------------------------------
(* Theorems *)

\* The inductive invariant holds in every state.
THEOREM Invariant == Spec => []IInv
BY PairInit, PairStep, PTL DEF Spec

\* Every variable of the pairing has its type (P2p, Inner, handle_incoming).
THEOREM TypeCorrect == Spec => []TypeOK
<1>1. IInv => TypeOK
  BY DEF IInv
<1> QED
  BY <1>1, Invariant, PTL

\* handle_incoming and add_peer list a device only with the user's consent or
\* with an invitation that was the current one when the device connected.
THEOREM ConsentIsGiven == Spec => []PairedByConsent
<1>1. IInv => PairedByConsent
  BY DEF IInv, PairInv
<1> QED
  BY <1>1, Invariant, PTL

\* The Welcome follows the write of peers.json, through crashes and failures.
THEOREM WelcomeFollowsFile == Spec => []WelcomeIsSaved
<1>1. IInv => WelcomeIsSaved
  BY DEF IInv, PairInv
<1> QED
  BY <1>1, Invariant, PTL

\* A handshake that waits is the request its own engine has for the device,
\* through repeated requests, removals and engines that come and go: an answer
\* given to that engine reaches it.  (The user's answer goes to the engine in
\* the slot, which may be a later one.)
THEOREM AnswerArrives == Spec => []RequestReachable
<1>1. IInv => RequestReachable
  BY DEF IInv, PairInv
<1> QED
  BY <1>1, Invariant, PTL
=============================================================================
