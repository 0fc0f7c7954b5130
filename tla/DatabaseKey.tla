---------------------------- MODULE DatabaseKey -----------------------------
(***************************************************************************)
(* Encryption of the account databases on the desktop: where the one key   *)
(* of the install is kept (keychain, PIN wrap, Windows Hello wrap), the    *)
(* pass over the databases before the core opens them (prepare, migrate),  *)
(* and the sessions of the core, which get the key or run without it.      *)
(*                                                                         *)
(* Every rename, removal or write of a file and every call of the keychain *)
(* is a step; the process may end between any two.  A database is what it  *)
(* can be opened with and the rows it holds.                               *)
(***************************************************************************)
EXTENDS Integers, FiniteSets

CONSTANTS
    Account,     \* the accounts
    Msg,         \* the rows a database may hold
    MaxKeys,     \* bound: keys generated
    Locks,       \* the app locks the user may set: "pin", "hello"
    MaxCrashes,  \* bound: process deaths
    MaxFaults    \* bound: failed file operations and keychain calls

ASSUME DatabaseKeyAssumption ==
    /\ {MaxKeys, MaxCrashes, MaxFaults} \subseteq Nat
    /\ Locks \subseteq {"pin", "hello"}

VARIABLES
    live,    \* live[a]: dc.db
    bak,     \* bak[a]: dc.db.plain.bak
    enc,     \* enc[a]: dc.db.enc
    born,    \* the accounts in accounts.toml
    chain,   \* the key in the keychain
    wrap,    \* wrap[l]: the key in the wrap file of lock l
    made,    \* keys generated so far
    mode,    \* off, boot (prepare runs), locked, unlock (prepare runs), open
    key,     \* the key of the pass or of the session
    at,      \* at[a]: where prepare is with a
    pass,    \* what prepare has counted
    op,      \* the command that changes a lock
    truth,   \* history: the rows of a as the user knows them
    harm,    \* history: what happened to keys and databases
    used     \* how much of each bound is spent

files == <<live, bak, enc, born>>
roots == <<chain, wrap, made>>
session == <<mode, key>>
work == <<at, pass>>
vars == <<files, roots, session, work, op, truth, harm, used>>

Key == 1..MaxKeys
NoKey == 0
Torn == -1    \* a wrap file that cannot be read

\* own: the account's database, not a new one in its place.
NoFile == [form |-> "none", key |-> NoKey, own |-> FALSE, data |-> {}]
\* What SQLite makes of a file that is not there.
Empty == [NoFile EXCEPT !.form = "empty"]
\* A database the core creates with key k.
Fresh(k) == [NoFile EXCEPT !.form = IF k = NoKey THEN "plain" ELSE "enc", !.key = k]

File == [form : {"none", "empty", "plain", "enc"}, key : {NoKey} \cup Key,
         own : BOOLEAN, data : SUBSET Msg]

IsFile(f) == f.form # "none"

\* opens: with a key, or without one.
Opens(f, k) ==
    IF k = NoKey THEN f.form \in {"plain", "empty"} ELSE f.form = "enc" /\ f.key = k

Harmed(what) == harm' = harm \cup {what}

Fault == used.faults < MaxFaults /\ used' = [used EXCEPT !.faults = @ + 1]

\* hello_locked wants a well-formed file, pin_locked any file.
HelloLocked == wrap["hello"] \in Key
PinLocked == wrap["pin"] # NoKey

-----------------------------------------------------------------------------
(* Start-up: which key *)

\* account_dbs, has_encrypted
HasEncrypted == \E a \in Account : IsFile(live[a]) /\ ~Opens(live[a], NoKey)

\* load_accounts of the core opens, or creates, the database of every account.
CoreOpens(k) ==
    LET gone == {a \in born : live[a].form \in {"none", "empty"}}
    IN  /\ live' = [a \in Account |-> IF a \in gone THEN Fresh(k) ELSE live[a]]
        /\ harm' = IF k = NoKey /\ gone # {} THEN harm \cup {"fresh"} ELSE harm

\* prepare begins with key k.
Prepare(k, m) ==
    /\ mode' = m
    /\ key' = k
    /\ at' = [a \in Account |-> IF IsFile(live[a]) \/ IsFile(bak[a]) THEN "look" ELSE "done"]
    /\ pass' = [some |-> FALSE, failed |-> FALSE, listed |-> TRUE]

\* Mutant of DecideKey: no entry, new key.
DecideKeyBug ==
    \/ chain # NoKey /\ Prepare(chain, "boot") /\ UNCHANGED <<roots, harm, used>>
    \/ /\ chain = NoKey
       /\ made < MaxKeys
       /\ made' = made + 1 /\ chain' = made + 1
       /\ Prepare(made + 1, "boot")
       /\ UNCHANGED <<wrap, harm, used>>
\* decide_key and create_dek: a new key only when nothing is seen to be
\* encrypted.  In a directory that cannot be read nothing is seen.
DecideKey ==
    \/ chain # NoKey /\ Prepare(chain, "boot") /\ UNCHANGED <<roots, harm, used>>
    \/ /\ chain = NoKey /\ HasEncrypted
       /\ Prepare(NoKey, "boot") /\ UNCHANGED <<roots, harm, used>>
    \/ /\ chain = NoKey
       /\ \/ ~HasEncrypted /\ UNCHANGED <<harm, used>>
          \/ HasEncrypted /\ Fault /\ Harmed("second")
       /\ made < MaxKeys
       /\ made' = made + 1 /\ chain' = made + 1
       /\ Prepare(made + 1, "boot")
       /\ UNCHANGED wrap
    \* The keychain cannot be reached, or refuses the new key.
    \/ Fault /\ Prepare(NoKey, "boot") /\ UNCHANGED <<roots, harm>>

\* startup: a wrap is the key root, or the keychain is.
Startup ==
    /\ mode = "off"
    /\ ~HelloLocked /\ ~PinLocked
    /\ DecideKey
    /\ UNCHANGED <<files, op, truth>>

\* The session starts locked, with a core that has no key.
StartLocked ==
    /\ mode = "off"
    /\ HelloLocked \/ PinLocked
    /\ mode' = "locked" /\ key' = NoKey
    /\ CoreOpens(NoKey)
    /\ UNCHANGED <<bak, enc, born, roots, work, op, truth, used>>

-----------------------------------------------------------------------------
(* prepare: one database after the other *)

\* account_dbs cannot read the directory: prepare finds no database.
ListFails ==
    /\ mode \in {"boot", "unlock"}
    /\ pass = [some |-> FALSE, failed |-> FALSE, listed |-> TRUE]
    /\ \A a \in Account : IsFile(live[a]) \/ IsFile(bak[a]) => at[a] = "look"
    /\ Fault
    /\ at' = [a \in Account |-> "done"]
    /\ pass' = [pass EXCEPT !.listed = FALSE]
    /\ UNCHANGED <<files, roots, session, op, truth, harm>>

\* Account a is the one prepare is at.
Turn(a, where) ==
    /\ mode \in {"boot", "unlock"}
    /\ at[a] = where
    /\ \A b \in Account \ {a} : at[b] \in {"look", "again", "done"}

\* The backups of missing databases are put back before any database is looked
\* at; a database whose backup was put back is looked at in a second pass.
Looks(a) ==
    /\ Turn(a, at[a])
    /\ IsFile(live[a])
    /\ \/ at[a] = "look" /\ \A b \in Account : at[b] = "look" => IsFile(live[b])
       \/ at[a] = "again" /\ \A b \in Account : at[b] # "look"

Goes(a, where) == at' = [at EXCEPT ![a] = where]

Failed(a) == Goes(a, "done") /\ pass' = [pass EXCEPT !.failed = TRUE]

\* dc.db is gone: the backup takes its place.
RestoreMissing(a) ==
    /\ Turn(a, "look")
    /\ ~IsFile(live[a])
    /\ \/ live' = [live EXCEPT ![a] = bak[a]] /\ bak' = [bak EXCEPT ![a] = NoFile]
          /\ UNCHANGED <<at, used>>
       \/ Fault /\ Goes(a, "done") /\ UNCHANGED <<live, bak>>
    /\ UNCHANGED <<enc, born, roots, session, pass, op, truth, harm>>

\* A plaintext database and no key.
SkipPlain(a) ==
    /\ Looks(a)
    /\ Opens(live[a], NoKey) /\ key = NoKey
    /\ Goes(a, "done")
    /\ UNCHANGED <<files, roots, session, pass, op, truth, harm, used>>

\* migrate: the export and its verification.  A file without tables fails.
Export(a) ==
    /\ Looks(a)
    /\ Opens(live[a], NoKey) /\ key # NoKey
    /\ \/ /\ live[a].form = "plain"
          /\ enc' = [enc EXCEPT ![a] = [live[a] EXCEPT !.form = "enc", !.key = key]]
          /\ Goes(a, "exported")
          /\ UNCHANGED <<pass, used>>
       \/ /\ Fault \/ (live[a].form = "empty" /\ UNCHANGED used)
          /\ enc' = [enc EXCEPT ![a] = NoFile]
          /\ Failed(a)
    /\ UNCHANGED <<live, bak, born, roots, session, op, truth, harm>>

\* dc.db becomes the backup ...
SwapOut(a) ==
    /\ Turn(a, "exported")
    /\ \/ /\ bak' = [bak EXCEPT ![a] = live[a]] /\ live' = [live EXCEPT ![a] = NoFile]
          /\ Goes(a, "swapping")
          /\ UNCHANGED <<enc, pass, used>>
       \/ /\ Fault
          /\ enc' = [enc EXCEPT ![a] = NoFile]
          /\ Failed(a)
          /\ UNCHANGED <<live, bak>>
    /\ UNCHANGED <<born, roots, session, op, truth, harm>>

\* ... and the export becomes dc.db.
SwapIn(a) ==
    /\ Turn(a, "swapping")
    /\ \/ /\ live' = [live EXCEPT ![a] = enc[a]] /\ enc' = [enc EXCEPT ![a] = NoFile]
          /\ Goes(a, "done")
          /\ pass' = [pass EXCEPT !.some = TRUE]
          /\ UNCHANGED used
       \/ Fault /\ Goes(a, "undo") /\ UNCHANGED <<live, enc, pass>>
    /\ UNCHANGED <<bak, born, roots, session, op, truth, harm>>

\* The second rename failed: the backup goes back.
SwapUndo(a) ==
    /\ Turn(a, "undo")
    /\ \/ /\ live' = [live EXCEPT ![a] = bak[a]] /\ bak' = [bak EXCEPT ![a] = NoFile]
          /\ UNCHANGED used
       \/ Fault /\ UNCHANGED <<live, bak>>
    /\ enc' = [enc EXCEPT ![a] = NoFile]
    /\ Failed(a)
    /\ UNCHANGED <<born, roots, session, op, truth, harm>>

\* Mutant of Superseded: a database that opens is good enough.
SupersededBug(a) == TRUE
\* bak_superseded: the same account, and no fewer rows.
Superseded(a) ==
    live[a].own = bak[a].own /\ Cardinality(live[a].data) >= Cardinality(bak[a].data)

\* The database opens with the key: the backup goes when it is superseded.
FindOurs(a) ==
    /\ Looks(a)
    /\ key # NoKey /\ Opens(live[a], key)
    /\ Goes(a, "done")
    /\ pass' = [pass EXCEPT !.some = TRUE]
    /\ \/ bak' = [bak EXCEPT ![a] = IF Superseded(a) THEN NoFile ELSE @] /\ UNCHANGED used
       \/ Fault /\ UNCHANGED bak
    /\ UNCHANGED <<live, enc, born, roots, session, op, truth, harm>>

\* The database opens neither way: the backup is to replace it, or it is locked.
FindForeign(a) ==
    /\ Looks(a)
    /\ live[a].form = "enc" /\ ~Opens(live[a], key)
    /\ IF IsFile(bak[a]) /\ Opens(bak[a], NoKey)
       THEN /\ live' = [live EXCEPT ![a] = NoFile]
            /\ Goes(a, "restore")
            /\ harm' = IF live[a].data = bak[a].data THEN harm ELSE harm \cup {"rollback"}
       ELSE Goes(a, "done") /\ UNCHANGED <<live, harm>>
    /\ UNCHANGED <<bak, enc, born, roots, session, pass, op, truth, used>>

\* The second look at a file that is not there creates it.
Restore(a) ==
    /\ Turn(a, "restore")
    /\ \/ /\ live' = [live EXCEPT ![a] = bak[a]] /\ bak' = [bak EXCEPT ![a] = NoFile]
          /\ UNCHANGED used
       \/ /\ Fault
          /\ live' = [live EXCEPT ![a] = Empty]
          /\ UNCHANGED bak
    /\ Goes(a, "again")
    /\ UNCHANGED <<enc, born, roots, session, pass, op, truth, harm>>

\* Mutant of UseKey: whoever has a key uses it.
UseKeyBug == key # NoKey
\* The key is handed over unless that would strand every database.
UseKey == key # NoKey /\ (pass.some \/ ~pass.failed)

\* The pass is over: the core starts with the key or without it.
BootEnds ==
    /\ mode = "boot"
    /\ \A a \in Account : at[a] = "done"
    /\ mode' = "open"
    /\ key' = IF UseKey THEN key ELSE NoKey
    /\ CoreOpens(key')
    /\ UNCHANGED <<bak, enc, born, roots, work, op, truth, used>>

\* pin_unlock and hello_unlock: the key of a wrap, then prepare.
Unlock(l) ==
    /\ mode = "locked" /\ op.do = "none"
    /\ wrap[l] \in Key
    /\ Prepare(wrap[l], "unlock")
    /\ op' = [do |-> "unlock", lock |-> l, step |-> "prepare", dek |-> wrap[l]]
    /\ UNCHANGED <<files, roots, truth, harm, used>>

\* The core is started again with the key, or the session stays locked.
\* hello_unlock removes the keychain's copy.
UnlockEnds ==
    /\ mode = "unlock"
    /\ \A a \in Account : at[a] = "done"
    /\ mode' = IF UseKey THEN "open" ELSE "locked"
    /\ key' = IF UseKey THEN key ELSE NoKey
    /\ IF UseKey THEN CoreOpens(key) ELSE UNCHANGED <<live, harm>>
    /\ \/ /\ chain' = IF op.lock = "hello" /\ UseKey THEN NoKey ELSE chain
          /\ UNCHANGED used
       \/ Fault /\ UNCHANGED chain
    /\ op' = [do |-> "none"]
    /\ UNCHANGED <<bak, enc, born, wrap, made, work, truth>>

\* lock_now: a core without the key.
LockNow ==
    /\ mode = "open"
    /\ HelloLocked \/ PinLocked
    /\ mode' = "locked" /\ key' = NoKey
    /\ CoreOpens(NoKey)
    /\ UNCHANGED <<bak, enc, born, roots, work, op, truth, used>>

-----------------------------------------------------------------------------
(* The user's commands on locks: pin_set, pin_clear, hello_set, hello_clear *)

Locking(l, step, dek) == op' = [do |-> "set", lock |-> l, step |-> step, dek |-> dek]
Clearing(l, step, dek) == op' = [do |-> "clear", lock |-> l, step |-> step, dek |-> dek]
OpEnds == op' = [do |-> "none"]

\* pin_set, current_dek: the key from the PIN wrap, else from the Hello wrap,
\* else from the keychain.  Without one the command is refused.
CurrentDek ==
    IF PinLocked THEN wrap["pin"] ELSE IF HelloLocked THEN wrap["hello"] ELSE chain

\* Mutant of SetLock: a key that is missing or damaged is not refused.
SetLockBug(l) ==
    /\ l \in Locks
    /\ mode = "open" /\ op.do = "none"
    /\ l = "hello" => ~HelloLocked
    /\ Locking(l, "write", CurrentDek)
    /\ UNCHANGED <<files, roots, session, work, truth, harm, used>>
SetLock(l) ==
    /\ l \in Locks
    /\ mode = "open" /\ op.do = "none"
    /\ l = "hello" => ~HelloLocked
    /\ CurrentDek \in Key
    /\ Locking(l, "write", CurrentDek)
    /\ UNCHANGED <<files, roots, session, work, truth, harm, used>>

\* std::fs::write truncates the file before it writes: when it fails, or the
\* process ends in it, the wrap of l may be unreadable.  The key is lost if
\* none of the other copies is left.
Tears(l, copies) ==
    /\ wrap' = [wrap EXCEPT ![l] = Torn]
    /\ harm' = IF copies \cap Key = {} THEN harm \cup {"lost"} ELSE harm

OtherCopies(l) == {chain, wrap[IF l = "pin" THEN "hello" ELSE "pin"]}

\* pin_wrap_write, and the write of the Hello wrap.
WriteWrap ==
    /\ op.do = "set" /\ op.step = "write"
    /\ \/ /\ wrap' = [wrap EXCEPT ![op.lock] = op.dek]
          /\ Locking(op.lock, IF op.lock = "pin" THEN "verify" ELSE "drop", op.dek)
          /\ UNCHANGED <<harm, used>>
       \/ Fault /\ OpEnds /\ UNCHANGED <<wrap, harm>>
       \/ Fault /\ OpEnds /\ Tears(op.lock, OtherCopies(op.lock))
    /\ UNCHANGED <<files, chain, made, session, work, truth>>

\* The wrap is read back; one that does not open is removed.
VerifyWrap ==
    /\ op.do = "set" /\ op.step = "verify"
    /\ \/ Locking(op.lock, "drop", op.dek) /\ UNCHANGED <<wrap, harm, used>>
       \/ /\ Fault
          /\ wrap' = [wrap EXCEPT !["pin"] = NoKey]
          /\ harm' = IF OtherCopies("pin") \cap Key = {} THEN harm \cup {"lost"} ELSE harm
          /\ OpEnds
    /\ UNCHANGED <<files, chain, made, session, work, truth>>

\* pin_wrap_open is running: it rewrites the attempts counter, and with it the
\* file, whether the PIN is right or wrong.  pin_set calls it for the old PIN
\* and to verify the new wrap, hello_set for the key.
PinInUse ==
    /\ mode \in {"locked", "unlock", "open"}
    /\ wrap["pin"] \in Key
    /\ \/ op.do = "none"
       \/ op.do = "set" /\ op.step \in {"write", "verify"}
       \/ op.do \in {"unlock", "clear"} /\ op.lock = "pin"

\* pin_counter_store fails unnoticed; pin_set then removes the keychain's copy.
CounterFails ==
    /\ PinInUse
    /\ Fault
    /\ Tears("pin", IF op.do = "set" /\ op.step = "verify" THEN {wrap["hello"]} ELSE OtherCopies("pin"))
    /\ UNCHANGED <<files, chain, made, session, work, op, truth>>

\* The keychain's copy goes; a failure is only logged.
DropChain ==
    /\ op.do = "set" /\ op.step = "drop"
    /\ \/ chain' = NoKey /\ UNCHANGED used
       \/ Fault /\ UNCHANGED chain
    /\ OpEnds
    /\ UNCHANGED <<files, wrap, made, session, work, truth, harm>>

\* Mutant of ClearLock: the wrap goes first, whatever else there is.
ClearLockBug(l) ==
    /\ l \in Locks
    /\ mode = "open" /\ op.do = "none"
    /\ wrap[l] \in Key
    /\ Clearing(l, "remove", wrap[l])
    /\ UNCHANGED <<files, roots, session, work, truth, harm, used>>
\* pin_clear and hello_clear: the other lock stays the root, or the key goes
\* back to the keychain first.
ClearLock(l) ==
    /\ l \in Locks
    /\ mode = "open" /\ op.do = "none"
    /\ wrap[l] \in Key
    /\ Clearing(l, IF (IF l = "pin" THEN HelloLocked ELSE PinLocked) THEN "remove" ELSE "store",
                wrap[l])
    /\ UNCHANGED <<files, roots, session, work, truth, harm, used>>

StoreChain ==
    /\ op.do = "clear" /\ op.step = "store"
    /\ \/ chain' = op.dek /\ Clearing(op.lock, "remove", op.dek) /\ UNCHANGED used
       \/ Fault /\ OpEnds /\ UNCHANGED chain
    /\ UNCHANGED <<files, wrap, made, session, work, truth, harm>>

\* hello_clear takes any PIN wrap for the key root, an unreadable one too.
RemoveWrap ==
    /\ op.do = "clear" /\ op.step = "remove"
    /\ \/ /\ wrap' = [wrap EXCEPT ![op.lock] = NoKey]
          /\ harm' = IF op.lock = "hello" /\ wrap["pin"] = Torn /\ chain = NoKey
                     THEN harm \cup {"lost"} ELSE harm
          /\ UNCHANGED used
       \/ Fault /\ UNCHANGED <<wrap, harm>>
    /\ OpEnds
    /\ UNCHANGED <<files, chain, made, session, work, truth>>

-----------------------------------------------------------------------------
(* The core, the user and the world *)

\* The core has the database open: with its key, or without one.
IsOpen(a) == mode = "open" /\ live[a].own /\ Opens(live[a], key)

AddAccount(a) ==
    /\ mode = "open" /\ a \notin born
    /\ born' = born \cup {a}
    /\ live' = [live EXCEPT ![a] = [Fresh(key) EXCEPT !.own = TRUE]]
    /\ truth' = [truth EXCEPT ![a] = {}]
    /\ UNCHANGED <<bak, enc, roots, session, work, op, harm, used>>

\* Rows come and go.
Changes(a, rows) ==
    /\ IsOpen(a)
    /\ live' = [live EXCEPT ![a].data = rows]
    /\ truth' = [truth EXCEPT ![a] = rows]
    /\ UNCHANGED <<bak, enc, born, roots, session, work, op, harm, used>>

Receives(a, m) == m \notin live[a].data /\ Changes(a, live[a].data \cup {m})
Deletes(a, m) == m \in live[a].data /\ Changes(a, live[a].data \ {m})

\* The process ends and is started again by the user.
Off == mode' = "off" /\ key' = NoKey /\ op' = [do |-> "none"] /\ UNCHANGED work

Quits ==
    /\ mode \in {"open", "locked"} /\ op.do = "none"
    /\ Off
    /\ UNCHANGED <<files, roots, truth, harm, used>>

Crash ==
    /\ used.crashes < MaxCrashes
    /\ used' = [used EXCEPT !.crashes = @ + 1]
    /\ mode # "off"
    /\ Off
    /\ UNCHANGED <<files, roots, truth, harm>>

\* The process ends inside the write of a wrap: the attempts counter that every
\* use of the PIN rewrites, or a new wrap.
CrashInWrite ==
    /\ used.crashes < MaxCrashes
    /\ used' = [used EXCEPT !.crashes = @ + 1]
    /\ \/ PinInUse /\ Tears("pin", OtherCopies("pin"))
       \/ op.do = "set" /\ op.step = "write" /\ Tears(op.lock, OtherCopies(op.lock))
    /\ Off
    /\ UNCHANGED <<files, chain, made, truth>>

\* The keychain loses the item.
ChainReset ==
    /\ Fault
    /\ chain # NoKey
    /\ chain' = NoKey
    /\ Harmed("reset")
    /\ UNCHANGED <<files, wrap, made, session, work, op, truth>>

\* An install of a version without encryption is updated, or a new one.
Init ==
    /\ born \in SUBSET Account
    /\ live = [a \in Account |-> IF a \in born THEN [Fresh(NoKey) EXCEPT !.own = TRUE] ELSE NoFile]
    /\ bak = [a \in Account |-> NoFile] /\ enc = [a \in Account |-> NoFile]
    /\ chain = NoKey /\ wrap = [l \in {"pin", "hello"} |-> NoKey] /\ made = 0
    /\ mode = "off" /\ key = NoKey
    /\ at = [a \in Account |-> "done"] /\ pass = [some |-> FALSE, failed |-> FALSE, listed |-> TRUE]
    /\ op = [do |-> "none"]
    /\ truth = [a \in Account |-> {}] /\ harm = {}
    /\ used = [crashes |-> 0, faults |-> 0]

PrepareStep(a) ==
    \/ RestoreMissing(a) \/ SkipPlain(a) \/ Export(a) \/ SwapOut(a) \/ SwapIn(a) \/ SwapUndo(a)
    \/ FindOurs(a) \/ FindForeign(a) \/ Restore(a)

Command == WriteWrap \/ VerifyWrap \/ CounterFails \/ DropChain \/ StoreChain \/ RemoveWrap

Next ==
    \/ Startup \/ StartLocked \/ ListFails \/ BootEnds \/ UnlockEnds \/ LockNow
    \/ \E a \in Account : PrepareStep(a) \/ AddAccount(a)
                          \/ \E m \in Msg : Receives(a, m) \/ Deletes(a, m)
    \/ \E l \in Locks : Unlock(l) \/ SetLock(l) \/ ClearLock(l)
    \/ Command
    \/ Quits \/ Crash \/ CrashInWrite \/ ChainReset

Spec == Init /\ [][Next]_vars

-----------------------------------------------------------------------------
(* Properties *)

OpRec == [do : {"none"}]
         \cup [do : {"set", "clear", "unlock"}, lock : {"pin", "hello"},
               step : {"write", "verify", "drop", "store", "remove", "prepare"}, dek : Key]

\* Every variable has its type.
TypeOK ==
    /\ live \in [Account -> File] /\ bak \in [Account -> File] /\ enc \in [Account -> File]
    /\ born \subseteq Account
    /\ chain \in {NoKey} \cup Key /\ made \in {NoKey} \cup Key
    /\ wrap \in [{"pin", "hello"} -> {Torn, NoKey} \cup Key]
    /\ mode \in {"off", "boot", "locked", "unlock", "open"} /\ key \in {NoKey} \cup Key
    /\ at \in [Account -> {"done", "look", "again", "exported", "swapping", "undo", "restore"}]
    /\ pass \in [some : BOOLEAN, failed : BOOLEAN, listed : BOOLEAN]
    /\ op \in OpRec
    /\ truth \in [Account -> SUBSET Msg]
    /\ harm \subseteq {"fresh", "rollback", "lost", "reset", "second"}
    /\ used \in [crashes : 0..MaxCrashes, faults : 0..MaxFaults]

\* Key policy: databases are never encrypted with different keys, whatever
\* happens to the keychain, to the wraps and to a migration, unless a new key
\* was made while the accounts directory could not be read.
OneKey ==
    "second" \notin harm =>
        \A a, b \in Account :
            live[a].form = "enc" /\ live[b].form = "enc" => live[a].key = live[b].key

\* The keys a start-up can get at: those of the wraps, when there is one.
Reachable == IF PinLocked \/ HelloLocked THEN {wrap["pin"], wrap["hello"]} \cap Key ELSE {chain}

\* However the custody moves and wherever the process ends, the key of an
\* encrypted database is where the next start looks for it; when the PIN wrap
\* is there and cannot be read, which pin_locked does not notice, it is still
\* in the keychain or in the Hello wrap.  Excepted: the keychain lost its item,
\* a new key was made while the accounts directory could not be read, or the
\* only copy was in the PIN wrap while it was rewritten or in the Hello wrap
\* that hello_clear removed beside an unreadable PIN wrap.
KeyKept ==
    harm \cap {"reset", "second", "lost"} = {} =>
        \A a \in Account : live[a].form = "enc" =>
            live[a].key \in IF wrap["pin"] = Torn THEN {chain, wrap["hello"]} ELSE Reachable

\* Some file of the account holds what the user knows of it.
Held(a) == \E f \in {live[a], bak[a]} : f.own /\ f.data = truth[a]

\* No row is lost by a migration, a crash in it or failed renames, unless a
\* backup replaces an encrypted database, or a core without a key makes a
\* database in the place of a missing one.
DataKept == harm \cap {"rollback", "fresh"} = {} => \A a \in born : Held(a)

\* db_key.rs: a database that opens neither without a key nor with ours is
\* "LOCKED, never touched": nothing is lost while the key cannot be had.
NothingLost == \A a \in born : Held(a)

\* A session with a key does not strand the user: it opens a database, or
\* there is no plaintext one that it could have opened without.  Excepted: a
\* session that began while the accounts directory could not be read.
NotStranded ==
    mode = "open" /\ key # NoKey /\ pass.listed =>
        \/ \E a \in Account : Opens(live[a], key)
        \/ \A a \in Account : live[a].form # "plain"
=============================================================================
