------------------------------- MODULE Pairing ------------------------------
(***************************************************************************)
(* Pairing with a device on a LAN: the devices that join present the token *)
(* of an invitation or ask to be approved; the device under study handles  *)
(* their handshakes (handle_incoming), each in a task of its own, shows    *)
(* the user one prompt at a time, and keeps the result in peers.json.  Its *)
(* engine is turned on and off as in EngineLifecycle, and every engine has *)
(* a memory of its own.                                                    *)
(***************************************************************************)
EXTENDS EngineLifecycle

CONSTANTS
    Joiner,      \* the devices that want to pair
    Tries,       \* bound: attempts of one device
    MaxInvites   \* bound: invitations

ASSUME PairingAssumption == {Tries, MaxInvites} \subseteq Nat

VARIABLES
    made,      \* invitations shown so far
    token,     \* token[e]: Inner::token, the number of an invitation or Secret
    listed,    \* listed[e]: Inner::peers, the paired ones
    requests,  \* requests[e][j]: Inner::pair_requests, the attempt or none
    disk,      \* peers.json
    dialog,    \* the device whose prompt the page shows, or nobody
    at,        \* at[c]: attempt c
    approved,  \* history: devices for which the user pressed "Pair"
    saved      \* history: devices that were in peers.json

vars == <<lifecycle, made, token, listed, requests, disk, dialog, at, approved, saved>>
history == <<approved, saved>>
memory == <<token, listed, requests>>

NoOne == "no one"

\* Attempt k of device j.
Attempt == Joiner \X (1..Tries)
NoAttempt == << >>

Ask == -1     \* the empty token: a request to be approved
Secret == 0   \* the random token of an engine that made no invitation
Token == Ask..MaxInvites

\* joiner: what pair_connect of the device does; host: where handle_incoming
\* is; exp: the token it expects; fresh: the token was the current one when
\* the device connected; answer: what came through the request's channel.
AttemptRec == [joiner : {"none", "wait", "told", "paired", "gone"},
               host : {"none", "new", "hello", "judge", "ask", "add", "welcome", "over"},
               engine : {0} \cup Job, tok : Token, exp : Token,
               fresh : BOOLEAN, answer : {"none", "yes", "no"}]

Untried == [joiner |-> "none", host |-> "none", engine |-> 0, tok |-> Ask, exp |-> Ask,
            fresh |-> FALSE, answer |-> "none"]

\* The handshake is over; what it knew is dropped.
Over(r) == [r EXCEPT !.host = "over", !.engine = 0, !.tok = Ask, !.exp = Ask, !.answer = "none"]
HostOver(c) == at' = [at EXCEPT ![c] = Over(@)]

\* The handshake goes on at a step, or is over.
GoesOn(c, ok, step) == at' = [at EXCEPT ![c] = IF ok THEN [@ EXCEPT !.host = step] ELSE Over(@)]

\* The channel of a request carries one answer, to a handshake that waits.
Answer(r, says) == IF r.host = "ask" /\ r.answer = "none" THEN [r EXCEPT !.answer = says] ELSE r

-----------------------------------------------------------------------------
(* The device that joins: pair_connect *)

\* accept_invite with a ticket that was shown, or pair_nearby.
PairConnect(c, tok) ==
    /\ at[c].joiner = "none"
    /\ \A k \in 1..Tries : k < c[2] => at[<<c[1], k>>].joiner # "none"
    /\ tok <= made /\ tok # Secret
    /\ \E e \in Job :
          /\ Serves(e)
          /\ at' = [at EXCEPT ![c] = [Untried EXCEPT !.joiner = "wait", !.host = "new",
                                        !.engine = e, !.tok = tok, !.fresh = (tok = token[e])]]
    /\ UNCHANGED <<lifecycle, made, memory, disk, dialog, history>>

\* The Welcome arrives in time.
JoinerAdds(c) ==
    /\ at[c].joiner = "told"
    /\ at' = [at EXCEPT ![c].joiner = "paired"]
    /\ UNCHANGED <<lifecycle, made, memory, disk, dialog, history>>

\* PAIR_APPROVAL_TIMEOUT, or the connection is closed.
JoinerGivesUp(c) ==
    /\ at[c].joiner \in {"wait", "told"}
    /\ at' = [at EXCEPT ![c].joiner = "gone"]
    /\ UNCHANGED <<lifecycle, made, memory, disk, dialog, history>>

-----------------------------------------------------------------------------
(* The handshake: handle_incoming *)

\* Mutant of Route: a listed device gets a session.
RouteBug(c) ==
    /\ at[c].host = "new"
    /\ at' = [at EXCEPT ![c].host = IF c[1] \in listed[at[c].engine] THEN "session" ELSE "hello"]
    /\ UNCHANGED <<lifecycle, made, memory, disk, dialog, history>>
\* A device that is listed must open with a Ping: its Hello is refused.
Route(c) ==
    /\ at[c].host = "new"
    /\ GoesOn(c, c[1] \notin listed[at[c].engine], "hello")
    /\ UNCHANGED <<lifecycle, made, memory, disk, dialog, history>>

\* The expected token is read before the Hello.
ReadToken(c) ==
    /\ at[c].host = "hello"
    /\ at' = [at EXCEPT ![c].host = "judge", ![c].exp = token[at[c].engine]]
    /\ UNCHANGED <<lifecycle, made, memory, disk, dialog, history>>

\* HANDSHAKE_TIMEOUT: the device is gone and its Hello did not come through.
HelloFails(c) ==
    /\ at[c].host = "judge"
    /\ at[c].joiner = "gone"
    /\ HostOver(c)
    /\ UNCHANGED <<lifecycle, made, memory, disk, dialog, history>>

\* Mutant of Judge: any invitation of this device is proof.
JudgeBug(c) ==
    /\ at[c].host = "judge"
    /\ at[c].tok # Ask
    /\ at' = [at EXCEPT ![c].host = "add"]
    /\ UNCHANGED <<lifecycle, made, memory, disk, dialog, history>>
\* The Hello shows a token: the current one is proof, another is refused.
Judge(c) ==
    /\ at[c].host = "judge"
    /\ at[c].tok # Ask
    /\ GoesOn(c, at[c].tok = at[c].exp, "add")
    /\ UNCHANGED <<lifecycle, made, memory, disk, dialog, history>>

\* Mutant of Enter: the request that is already there stays.
EnterBug(e, c) ==
    requests' = [requests EXCEPT ![e][c[1]] = IF @ = NoAttempt THEN c ELSE @]
\* pair_requests.insert: the new request replaces the old one.
Enter(e, c) == requests' = [requests EXCEPT ![e][c[1]] = c]

\* The Hello asks: the replaced request is answered with no, and the page
\* shows a prompt unless one is open.
AskUser(c) ==
    LET e == at[c].engine
        old == requests[e][c[1]]
    IN  /\ at[c].host = "judge"
        /\ at[c].tok = Ask
        /\ Enter(e, c)
        /\ at' = [d \in Attempt |->
                     IF d = c THEN [at[c] EXCEPT !.host = "ask"]
                     ELSE IF d = old THEN Answer(at[d], "no") ELSE at[d]]
        /\ dialog' = IF dialog = NoOne THEN c[1] ELSE dialog
        /\ UNCHANGED <<lifecycle, made, token, listed, disk, history>>

\* The user answers the prompt: p2p_approve_pair on the engine in the slot.
\* The request is taken out whether or not its handshake still waits.
ApprovePair(accept) ==
    /\ dialog # NoOne
    /\ dialog' = NoOne
    /\ approved' = IF accept THEN approved \cup {dialog} ELSE approved
    /\ IF slot # 0 /\ requests[slot][dialog] # NoAttempt
       THEN /\ requests' = [requests EXCEPT ![slot][dialog] = NoAttempt]
            /\ at' = [at EXCEPT ![requests[slot][dialog]] =
                         Answer(@, IF accept THEN "yes" ELSE "no")]
       ELSE UNCHANGED <<requests, at>>
    /\ UNCHANGED <<lifecycle, made, token, listed, disk, saved>>

\* Mutant of AskEnds: a handshake waits for its answer.
AskEndsBug(c) ==
    /\ at[c].host = "ask" /\ at[c].answer # "none"
    /\ GoesOn(c, at[c].answer = "yes", "add")
    /\ UNCHANGED <<lifecycle, made, memory, disk, dialog, history>>
\* The answer, or PAIR_APPROVAL_TIMEOUT; the request is left where it is.
AskEnds(c) ==
    /\ at[c].host = "ask"
    /\ GoesOn(c, at[c].answer = "yes", "add")
    /\ UNCHANGED <<lifecycle, made, memory, disk, dialog, history>>

\* Mutant of AddPeer: a failed write is ignored.
AddPeerBug(c) ==
    LET e == at[c].engine
        now == listed[e] \cup {c[1]}
    IN  /\ at[c].host = "add"
        /\ listed' = [listed EXCEPT ![e] = now]
        /\ at' = [at EXCEPT ![c].host = "welcome"]
        /\ \/ disk' = now /\ saved' = saved \cup now /\ UNCHANGED used
           \/ Trouble /\ UNCHANGED <<disk, saved>>
        /\ UNCHANGED <<pref, flag, slot, job, made, token, requests, dialog, approved>>
\* add_peer: the memory, then peers.json from the memory of this engine; a
\* failed write ends the handshake with the memory changed.
AddPeer(c) ==
    LET e == at[c].engine
        now == listed[e] \cup {c[1]}
    IN  /\ at[c].host = "add"
        /\ listed' = [listed EXCEPT ![e] = now]
        /\ \/ /\ disk' = now /\ saved' = saved \cup now
              /\ at' = [at EXCEPT ![c].host = "welcome"]
              /\ UNCHANGED used
           \/ /\ Trouble
              /\ HostOver(c)
              /\ UNCHANGED <<disk, saved>>
        /\ UNCHANGED <<pref, flag, slot, job, made, token, requests, dialog, approved>>

\* The Welcome is written; the session begins.
Welcome(c) ==
    /\ at[c].host = "welcome"
    /\ LET now == IF at[c].joiner = "wait" THEN "told" ELSE at[c].joiner
       IN  at' = [at EXCEPT ![c] = [Over(at[c]) EXCEPT !.joiner = now]]
    /\ UNCHANGED <<lifecycle, made, memory, disk, dialog, history>>

-----------------------------------------------------------------------------
(* The user of the device under study *)

CreateInvite ==
    /\ slot # 0
    /\ made < MaxInvites
    /\ made' = made + 1
    /\ token' = [token EXCEPT ![slot] = made + 1]
    /\ UNCHANGED <<lifecycle, listed, requests, disk, dialog, at, history>>

\* remove_peer; a waiting request of the device loses its channel.
RemovePeer(j) ==
    /\ slot # 0
    /\ j \in listed[slot]
    /\ listed' = [listed EXCEPT ![slot] = @ \ {j}]
    /\ requests' = [requests EXCEPT ![slot][j] = NoAttempt]
    /\ at' = [c \in Attempt |-> IF c = requests[slot][j] THEN Answer(at[c], "no") ELSE at[c]]
    /\ \/ disk' = listed[slot] \ {j} /\ UNCHANGED used
       \/ Trouble /\ UNCHANGED disk
    /\ UNCHANGED <<pref, flag, slot, job, made, token, dialog, history>>

-----------------------------------------------------------------------------
(* The engine comes and goes *)

\* A start reads peers.json and draws a new token.
StartLoads(e) ==
    /\ Start(e)
    /\ listed' = [listed EXCEPT ![e] = disk]
    /\ token' = [token EXCEPT ![e] = Secret]
    /\ requests' = [requests EXCEPT ![e] = [j \in Joiner |-> NoAttempt]]
    /\ UNCHANGED <<made, disk, dialog, at, history>>

\* The handshakes of an engine that is closed go on; they watch no token.
\* A page that is loaded again shows no prompt.
ShellMoves ==
    /\ \/ \E e \in Job : \/ /\ Toggle(e) \/ SpawnStartup(e) \/ StartFails(e) \/ CheckFlag(e)
                               \/ Publish(e) \/ TakeSlot(e) \/ Close(e)
                            /\ UNCHANGED dialog
                         \/ PageLoads(e) /\ dialog' = NoOne
    /\ UNCHANGED <<made, memory, disk, at, history>>

NoTokens == [e \in Job |-> Secret]
NoPeers == [e \in Job |-> {}]
NoRequests == [e \in Job |-> [j \in Joiner |-> NoAttempt]]

ProcessRestarts ==
    /\ Restart
    /\ dialog' = NoOne
    /\ at' = [c \in Attempt |-> IF at[c].host = "none" THEN at[c] ELSE Over(at[c])]
    /\ token' = NoTokens /\ listed' = NoPeers /\ requests' = NoRequests
    /\ UNCHANGED <<made, disk, history>>

Init ==
    /\ LifecycleInit
    /\ made = 0
    /\ token = NoTokens /\ listed = NoPeers /\ requests = NoRequests
    /\ disk = {} /\ dialog = NoOne
    /\ at = [c \in Attempt |-> Untried]
    /\ approved = {} /\ saved = {}

HostStep(c) ==
    \/ Route(c) \/ ReadToken(c) \/ HelloFails(c) \/ Judge(c) \/ AskUser(c)
    \/ AskEnds(c) \/ AddPeer(c) \/ Welcome(c)

JoinerStep(c) == JoinerAdds(c) \/ JoinerGivesUp(c)

Next ==
    \/ \E c \in Attempt : \/ \E tok \in Token : PairConnect(c, tok)
                          \/ JoinerStep(c) \/ HostStep(c)
    \/ \E j \in Joiner : RemovePeer(j)
    \/ \E accept \in BOOLEAN : ApprovePair(accept)
    \/ CreateInvite
    \/ \E e \in Job : StartLoads(e)
    \/ ShellMoves \/ ProcessRestarts

Spec == Init /\ [][Next]_vars

\* Every task of the engine and of the shell goes on; each wait of a
\* handshake, at either end, has a timeout.  Nothing is assumed of users.
FairSpec ==
    /\ Spec
    /\ \A c \in Attempt : WF_vars(JoinerStep(c)) /\ WF_vars(HostStep(c))
    /\ \A e \in Job : WF_vars(StartLoads(e) \/ (ShellMoves /\ ShellStep(e)))

-----------------------------------------------------------------------------
(* Properties *)

\* Every variable has its type.
TypeOK ==
    /\ LifecycleTypeOK
    /\ made \in 0..MaxInvites
    /\ token \in [Job -> Token]
    /\ listed \in [Job -> SUBSET Joiner]
    /\ requests \in [Job -> [Joiner -> {NoAttempt} \cup Attempt]]
    /\ disk \subseteq Joiner
    /\ dialog \in {NoOne} \cup Joiner
    /\ at \in [Attempt -> AttemptRec]
    /\ approved \subseteq Joiner /\ saved \subseteq Joiner

\* A device is listed only if the user pressed "Pair" for it, or it showed
\* the token of an invitation that was the current one when it connected: an
\* older invitation, or one of an engine that is gone, no longer pairs.
PairedByConsent ==
    \A j \in disk \cup UNION {listed[e] : e \in Job} :
        j \in approved \/ \E k \in 1..Tries : at[<<j, k>>].fresh

\* A device that was told it is paired was in peers.json before: a crash or
\* a failed write leaves it unpaired on both sides or on its own side only.
WelcomeIsSaved == \A c \in Attempt : at[c].joiner \in {"told", "paired"} => c[1] \in saved

\* A handshake that waits for the user is the one pair_requests of its own
\* engine has for its device, however often the device asks: the answer to a
\* prompt reaches it as long as that engine is the one in the slot.  Once
\* another engine is published, the answer goes to that one instead
\* (p2p.rs:4292), and the handshake is left to its timeout.
RequestReachable ==
    \A c \in Attempt : at[c].host = "ask" /\ at[c].answer = "none"
                       => requests[at[c].engine][c[1]] = c

\* Every handshake ends, at both ends, whatever the user does.
HandshakesEnd ==
    \A c \in Attempt : at[c].joiner = "wait"
        ~> (at[c].joiner \in {"paired", "gone"} /\ at[c].host = "over")
=============================================================================
