------------------------- MODULE DatabaseKeyProofs --------------------------
(***************************************************************************)
(* OneKey, KeyKept, DataKept and NotStranded of DatabaseKey, for any       *)
(* accounts, locks, crashes and failed operations.                         *)
(*                                                                         *)
(* Keys: there is never more than one key in use, the last one made        *)
(* (LastKey), because a new one is only made when no database is seen to   *)
(* be encrypted and no wrap or command holds an older one; and that key is *)
(* in the keychain or in a wrap (Custody), because a command removes a     *)
(* copy only when it has left another one behind (OpHolds).                *)
(*                                                                         *)
(* Rows: at every step of prepare they are all in dc.db or in the backup   *)
(* next to it (WholeInv), because the swap removes neither before the      *)
(* other is complete (MidwayInv).                                          *)
(***************************************************************************)
EXTENDS DatabaseKey, TLAPS

Live == {"boot", "unlock"}

\* A process that does not run holds no key and executes no command; one that
\* unlocks executes no other.
OffHoldsNothing ==
    /\ mode = "off" => key = NoKey /\ op.do = "none"
    /\ mode = "unlock" => op.do = "unlock"

\* Whatever is encrypted, stored or held is so under the last key made.
FilesUnderLast ==
    /\ \A a \in Account : live[a].form = "enc" => live[a].key = made /\ made # NoKey
    /\ \A a \in Account : bak[a].form # "enc"
    /\ \A a \in Account : mode \in Live /\ at[a] \in {"exported", "swapping"} =>
                              enc[a].key = made /\ made # NoKey
    /\ \A a \in Account : mode \in Live /\ at[a] = "exported" => live[a].form = "plain"
HeldUnderLast ==
    /\ chain \in {NoKey, made}
    /\ \A l \in {"pin", "hello"} : wrap[l] \in {Torn, NoKey, made}
    /\ key \in {NoKey, made}
    /\ op.do # "none" => op.dek = made
LastKey == FilesUnderLast /\ HeldUnderLast

KeyInv == OffHoldsNothing /\ ("second" \notin harm => LastKey)

\* What a command has left behind before it removes a copy of the key.
OpHolds ==
    /\ op.do = "unlock" /\ op.lock = "hello" => wrap["hello"] = made
    /\ op.do = "set" /\ op.step \in {"verify", "drop"} => made \in {wrap[op.lock], wrap["hello"]}
    /\ op.do = "set" /\ op.step = "write" /\ op.lock = "hello" => ~HelloLocked
    /\ op.do = "clear" /\ op.step = "remove" =>
          \/ chain = made
          \/ IF op.lock = "pin" THEN wrap["hello"] = made ELSE PinLocked

\* The key is in the keychain or in a wrap.
Kept == OpHolds /\ (made # NoKey => made \in {chain, wrap["pin"], wrap["hello"]})
Custody == harm \cap {"reset", "second", "lost"} = {} => Kept

IInv == TypeOK /\ KeyInv /\ Custody

USE DatabaseKeyAssumption

-----------------------------------------------------------------------------
(* Types *)

\* A missing file, and an empty one.
LEMMA NoFileType == NoFile \in File /\ Empty \in File
BY DEF NoFile, Empty, File

\* A database that the core makes.
LEMMA FreshType ==
    ASSUME NEW k \in {NoKey} \cup Key
    PROVE  Fresh(k) \in File /\ [Fresh(k) EXCEPT !.own = TRUE] \in File
BY DEF NoFile, Fresh, File

\* The export of a database.
LEMMA ExportType ==
    ASSUME NEW f \in File, NEW k \in Key
    PROVE  [f EXCEPT !.form = "enc", !.key = k] \in File
BY DEF File

Place == {"done", "look", "again", "exported", "swapping", "undo", "restore"}
Mode == {"off", "boot", "locked", "unlock", "open"}
Spent == [crashes : 0..MaxCrashes, faults : 0..MaxFaults]
Pass == [some : BOOLEAN, failed : BOOLEAN, listed : BOOLEAN]
Harm == {"fresh", "rollback", "lost", "reset", "second"}

FilesOK == live \in [Account -> File] /\ bak \in [Account -> File] /\ enc \in [Account -> File]
RootsOK ==
    /\ chain \in {NoKey} \cup Key /\ made \in {NoKey} \cup Key
    /\ wrap \in [{"pin", "hello"} -> {Torn, NoKey} \cup Key]
SessionOK == mode \in Mode /\ key \in {NoKey} \cup Key
WorkOK == at \in [Account -> Place] /\ pass \in Pass

\* The type invariant in parts.
LEMMA TypeParts ==
    TypeOK <=> /\ FilesOK /\ RootsOK /\ SessionOK /\ WorkOK
               /\ born \subseteq Account /\ op \in OpRec
               /\ truth \in [Account -> SUBSET Msg] /\ harm \subseteq Harm
               /\ used \in Spent
BY DEF TypeOK, FilesOK, RootsOK, SessionOK, WorkOK, Place, Mode, Spent, Pass, Harm

\* The same of the next state.
LEMMA TypePartsNext ==
    TypeOK' <=> /\ FilesOK' /\ RootsOK' /\ SessionOK' /\ WorkOK'
                /\ born' \subseteq Account /\ op' \in OpRec
                /\ truth' \in [Account -> SUBSET Msg] /\ harm' \subseteq Harm
                /\ used' \in Spent
BY DEF TypeOK, FilesOK, RootsOK, SessionOK, WorkOK, Place, Mode, Spent, Pass, Harm

\* prepare's own variables are typed when it begins.
LEMMA PrepareType ==
    ASSUME NEW k \in {NoKey} \cup Key, NEW m \in Live, Prepare(k, m)
    PROVE  SessionOK' /\ WorkOK'
BY DEF Prepare, Live, SessionOK, WorkOK, Place, Mode, Pass

\* prepare goes on with a database.
LEMMA GoesType ==
    ASSUME WorkOK, NEW a \in Account, NEW w \in Place, Goes(a, w)
    PROVE  at' \in [Account -> Place]
BY DEF WorkOK, Goes

\* A failed operation counts.
LEMMA FaultType ==
    ASSUME used \in Spent, Fault
    PROVE  used' \in Spent
BY DEF Spent, Fault

\* The core leaves every database a file.
LEMMA CoreType ==
    ASSUME FilesOK, harm \subseteq Harm, NEW k \in {NoKey} \cup Key, CoreOpens(k)
    PROVE  live' \in [Account -> File] /\ harm' \subseteq Harm
<1>1. Fresh(k) \in File
  BY FreshType
<1> QED BY <1>1 DEF FilesOK, CoreOpens, Harm

\* Types are preserved by the steps of prepare.
LEMMA PrepareStepType ==
    ASSUME TypeOK, NEW a \in Account, PrepareStep(a)
    PROVE  TypeOK'
<1> USE NoFileType, FaultType, TypeParts
<1>a. FilesOK /\ SessionOK /\ WorkOK /\ used \in Spent
  OBVIOUS
<1>f. Fault => used' \in Spent
  BY <1>a
<1>g. \A w \in Place : Goes(a, w) => at' \in [Account -> Place]
  BY <1>a, GoesType
<1>h. Failed(a) => WorkOK'
  BY <1>a DEF Failed, Goes, WorkOK, Place, Pass
<1> DEFINE Same == UNCHANGED <<born, roots, session, op, truth>>
<1>q. ASSUME FilesOK', WorkOK', used' \in Spent, harm' \subseteq Harm, Same PROVE TypeOK'
  <2>1. RootsOK' /\ SessionOK' /\ born' \subseteq Account /\ op' \in OpRec
        /\ truth' \in [Account -> SUBSET Msg]
    BY <1>q DEF RootsOK, SessionOK, roots, session
  <2> QED BY <1>q, <2>1, TypePartsNext
<1>1. CASE RestoreMissing(a)
  <2>1. FilesOK'
    BY <1>1, <1>a DEF RestoreMissing, FilesOK
  <2>2. WorkOK'
    BY <1>1, <1>a, <1>g, <1>h DEF RestoreMissing, WorkOK, Place, Pass
  <2>3. used' \in Spent /\ harm' \subseteq Harm
    BY <1>1, <1>a, <1>f DEF RestoreMissing
  <2>4. Same
    BY <1>1 DEF RestoreMissing
  <2> QED BY <2>1, <2>2, <2>3, <2>4, <1>q
<1>2. CASE SkipPlain(a)
  <2>1. FilesOK'
    BY <1>2, <1>a DEF SkipPlain, FilesOK, files
  <2>2. WorkOK'
    BY <1>2, <1>a, <1>g, <1>h DEF SkipPlain, WorkOK, Place, Pass
  <2>3. used' \in Spent /\ harm' \subseteq Harm
    BY <1>2, <1>a, <1>f DEF SkipPlain
  <2>4. Same
    BY <1>2 DEF SkipPlain, files
  <2> QED BY <2>1, <2>2, <2>3, <2>4, <1>q
<1>3. CASE Export(a)
  <2>e. key # NoKey => [live[a] EXCEPT !.form = "enc", !.key = key] \in File
    BY <1>a, ExportType DEF FilesOK, SessionOK
  <2>1. FilesOK'
    BY <1>3, <1>a, <2>e DEF Export, FilesOK
  <2>2. WorkOK'
    BY <1>3, <1>a, <1>g, <1>h DEF Export, WorkOK, Place, Pass
  <2>3. used' \in Spent /\ harm' \subseteq Harm
    BY <1>3, <1>a, <1>f DEF Export
  <2>4. Same
    BY <1>3 DEF Export
  <2> QED BY <2>1, <2>2, <2>3, <2>4, <1>q
<1>4. CASE SwapOut(a)
  <2>1. FilesOK'
    BY <1>4, <1>a DEF SwapOut, FilesOK
  <2>2. WorkOK'
    BY <1>4, <1>a, <1>g, <1>h DEF SwapOut, WorkOK, Place, Pass
  <2>3. used' \in Spent /\ harm' \subseteq Harm
    BY <1>4, <1>a, <1>f DEF SwapOut
  <2>4. Same
    BY <1>4 DEF SwapOut
  <2> QED BY <2>1, <2>2, <2>3, <2>4, <1>q
<1>5. CASE SwapIn(a)
  <2>1. FilesOK'
    BY <1>5, <1>a DEF SwapIn, FilesOK
  <2>2. WorkOK'
    BY <1>5, <1>a, <1>g, <1>h DEF SwapIn, WorkOK, Place, Pass
  <2>3. used' \in Spent /\ harm' \subseteq Harm
    BY <1>5, <1>a, <1>f DEF SwapIn
  <2>4. Same
    BY <1>5 DEF SwapIn
  <2> QED BY <2>1, <2>2, <2>3, <2>4, <1>q
<1>6. CASE SwapUndo(a)
  <2>1. FilesOK'
    BY <1>6, <1>a DEF SwapUndo, FilesOK
  <2>2. WorkOK'
    BY <1>6, <1>a, <1>g, <1>h DEF SwapUndo, WorkOK, Place, Pass
  <2>3. used' \in Spent /\ harm' \subseteq Harm
    BY <1>6, <1>a, <1>f DEF SwapUndo
  <2>4. Same
    BY <1>6 DEF SwapUndo
  <2> QED BY <2>1, <2>2, <2>3, <2>4, <1>q
<1>7. CASE FindOurs(a)
  <2>1. FilesOK'
    BY <1>7, <1>a DEF FindOurs, FilesOK
  <2>2. WorkOK'
    BY <1>7, <1>a, <1>g, <1>h DEF FindOurs, WorkOK, Place, Pass
  <2>3. used' \in Spent /\ harm' \subseteq Harm
    BY <1>7, <1>a, <1>f DEF FindOurs
  <2>4. Same
    BY <1>7 DEF FindOurs
  <2> QED BY <2>1, <2>2, <2>3, <2>4, <1>q
<1>8. CASE FindForeign(a)
  <2>1. FilesOK'
    BY <1>8, <1>a DEF FindForeign, FilesOK
  <2>2. WorkOK'
    BY <1>8, <1>a, <1>g, <1>h DEF FindForeign, WorkOK, Place, Pass
  <2>3. used' \in Spent /\ harm' \subseteq Harm
    BY <1>8, <1>a, <1>f DEF FindForeign, Harm
  <2>4. Same
    BY <1>8 DEF FindForeign
  <2> QED BY <2>1, <2>2, <2>3, <2>4, <1>q
<1>9. CASE Restore(a)
  <2>1. FilesOK'
    BY <1>9, <1>a DEF Restore, FilesOK
  <2>2. WorkOK'
    BY <1>9, <1>a, <1>g, <1>h DEF Restore, WorkOK, Place, Pass
  <2>3. used' \in Spent /\ harm' \subseteq Harm
    BY <1>9, <1>a, <1>f DEF Restore
  <2>4. Same
    BY <1>9 DEF Restore
  <2> QED BY <2>1, <2>2, <2>3, <2>4, <1>q
<1> QED BY <1>1, <1>2, <1>3, <1>4, <1>5, <1>6, <1>7, <1>8, <1>9 DEF PrepareStep

\* Types are preserved.
LEMMA TypeStep == TypeOK /\ [Next]_vars => TypeOK'
<1> SUFFICES ASSUME TypeOK, [Next]_vars PROVE TypeOK'
  OBVIOUS
<1> USE FaultType
<1>a. /\ FilesOK /\ RootsOK /\ SessionOK /\ WorkOK
      /\ born \subseteq Account /\ op \in OpRec
      /\ truth \in [Account -> SUBSET Msg] /\ harm \subseteq Harm
      /\ used \in Spent
  BY TypeParts
<1>f. Fault => used' \in Spent
  BY <1>a
<1>c. \A k \in {NoKey} \cup Key : CoreOpens(k) => live' \in [Account -> File] /\ harm' \subseteq Harm
  BY <1>a, CoreType
<1>o. Off => SessionOK' /\ WorkOK' /\ op' \in OpRec
  BY <1>a DEF Off, SessionOK, WorkOK, OpRec, Mode, NoKey, work
<1>l. \A l \in {"pin", "hello"}, k \in Key, st \in {"write", "verify", "drop", "store", "remove"} :
          Locking(l, st, k) \/ Clearing(l, st, k) => op' \in OpRec
  BY DEF Locking, Clearing, OpRec
<1>e. OpEnds => op' \in OpRec
  BY DEF OpEnds, OpRec
<1>d. op.do \in {"set", "clear"} => op.lock \in {"pin", "hello"} /\ op.dek \in Key
  BY <1>a DEF OpRec
<1>k. Locks \subseteq {"pin", "hello"}
  OBVIOUS
<1>1. CASE Startup
  <2>p. \A k \in {NoKey} \cup Key : Prepare(k, "boot") => SessionOK' /\ WorkOK'
    BY PrepareType DEF Live
  <2>n. made < MaxKeys => made + 1 \in Key
    BY <1>a DEF RootsOK, Key, NoKey
  <2>1. FilesOK' /\ harm' \subseteq Harm /\ used' \in Spent
    BY <1>1, <1>a, <1>f, <1>c, <2>p, <2>n DEF Startup, DecideKey, Harmed, FilesOK, files, Harm
  <2>2. RootsOK'
    BY <1>1, <1>a, <2>n DEF Startup, DecideKey, RootsOK, roots
  <2>3. SessionOK' /\ WorkOK'
    BY <1>1, <1>a, <1>f, <1>c, <1>o, <2>p, <2>n DEF Startup, DecideKey, FilesOK, RootsOK,
       SessionOK, files, roots, WorkOK, Harm
  <2>4. born' \subseteq Account /\ op' \in OpRec /\ truth' \in [Account -> SUBSET Msg]
    BY <1>1, <1>a, <1>o, <2>p, <2>n DEF Startup, DecideKey, files
  <2> QED BY <2>1, <2>2, <2>3, <2>4, TypePartsNext
<1>2. CASE StartLocked
  <2>1. FilesOK' /\ harm' \subseteq Harm /\ used' \in Spent
    BY <1>2, <1>a, <1>f, <1>c DEF StartLocked, NoKey, FilesOK, Harm
  <2>2. RootsOK'
    BY <1>2, <1>a DEF StartLocked, NoKey, RootsOK, roots
  <2>3. SessionOK' /\ WorkOK'
    BY <1>2, <1>a, <1>o DEF StartLocked, Mode, NoKey, SessionOK, work, WorkOK
  <2>4. born' \subseteq Account /\ op' \in OpRec /\ truth' \in [Account -> SUBSET Msg]
    BY <1>2, <1>a, <1>o DEF StartLocked, NoKey
  <2> QED BY <2>1, <2>2, <2>3, <2>4, TypePartsNext
<1>3. CASE BootEnds
  <2>1. FilesOK' /\ harm' \subseteq Harm /\ used' \in Spent
    BY <1>3, <1>a, <1>f, <1>c, <1>o DEF BootEnds, Mode, NoKey, UseKey, FilesOK, RootsOK,
       SessionOK, roots, work, WorkOK, Harm
  <2>2. RootsOK'
    BY <1>3, <1>a DEF BootEnds, NoKey, UseKey, RootsOK, roots
  <2>3. SessionOK' /\ WorkOK'
    BY <1>3, <1>a, <1>o DEF BootEnds, Mode, NoKey, UseKey, SessionOK, work, WorkOK
  <2>4. born' \subseteq Account /\ op' \in OpRec /\ truth' \in [Account -> SUBSET Msg]
    BY <1>3, <1>a, <1>o DEF BootEnds, NoKey, UseKey
  <2> QED BY <2>1, <2>2, <2>3, <2>4, TypePartsNext
<1>4. CASE UnlockEnds
  <2>1. FilesOK' /\ harm' \subseteq Harm /\ used' \in Spent
    BY <1>4, <1>a, <1>f, <1>c, <1>o DEF UnlockEnds, Mode, NoKey, OpRec, FilesOK, RootsOK,
       SessionOK, work, WorkOK, Harm
  <2>2. RootsOK'
    BY <1>4, <1>a DEF UnlockEnds, NoKey, RootsOK
  <2>3. SessionOK' /\ WorkOK'
    BY <1>4, <1>a, <1>o DEF UnlockEnds, Mode, NoKey, SessionOK, work, WorkOK
  <2>4. born' \subseteq Account /\ op' \in OpRec /\ truth' \in [Account -> SUBSET Msg]
    BY <1>4, <1>a, <1>o DEF UnlockEnds, NoKey, OpRec
  <2> QED BY <2>1, <2>2, <2>3, <2>4, TypePartsNext
<1>5. CASE LockNow
  <2>1. FilesOK' /\ harm' \subseteq Harm /\ used' \in Spent
    BY <1>5, <1>a, <1>f, <1>c DEF LockNow, NoKey, FilesOK, Harm
  <2>2. RootsOK'
    BY <1>5, <1>a DEF LockNow, NoKey, RootsOK, roots
  <2>3. SessionOK' /\ WorkOK'
    BY <1>5, <1>a, <1>o DEF LockNow, Mode, NoKey, SessionOK, work, WorkOK
  <2>4. born' \subseteq Account /\ op' \in OpRec /\ truth' \in [Account -> SUBSET Msg]
    BY <1>5, <1>a, <1>o DEF LockNow, NoKey
  <2> QED BY <2>1, <2>2, <2>3, <2>4, TypePartsNext
<1>6. ASSUME NEW a \in Account, AddAccount(a) PROVE TypeOK'
  <2>p. [Fresh(key) EXCEPT !.own = TRUE] \in File
    BY <1>a, FreshType DEF SessionOK
  <2>1. FilesOK' /\ harm' \subseteq Harm /\ used' \in Spent
    BY <1>6, <1>a, <1>f, <1>c, <2>p DEF AddAccount, FilesOK, Harm
  <2>2. RootsOK'
    BY <1>6, <1>a DEF AddAccount, RootsOK, roots
  <2>3. SessionOK' /\ WorkOK'
    BY <1>6, <1>a, <1>o, <2>p DEF AddAccount, SessionOK, session, work, WorkOK
  <2>4. born' \subseteq Account /\ op' \in OpRec /\ truth' \in [Account -> SUBSET Msg]
    BY <1>6, <1>a, <1>o, <2>p DEF AddAccount
  <2> QED BY <2>1, <2>2, <2>3, <2>4, TypePartsNext
<1>7. ASSUME NEW a \in Account, NEW m \in Msg, Receives(a, m) PROVE TypeOK'
  <2>p. \A rows \in SUBSET Msg : [live[a] EXCEPT !.data = rows] \in File
    BY <1>a DEF FilesOK, File
  <2>r. live[a].data \subseteq Msg
    BY <1>a DEF FilesOK, File
  <2>1. FilesOK' /\ harm' \subseteq Harm /\ used' \in Spent
    BY <1>7, <1>a, <1>f, <1>c, <2>p, <2>r DEF Receives, Changes, FilesOK, Harm
  <2>2. RootsOK'
    BY <1>7, <1>a, <1>f, <1>c, <1>o, <2>p, <2>r DEF Receives, Changes, FilesOK, RootsOK,
       SessionOK, roots, session, work, WorkOK, Harm
  <2>3. SessionOK' /\ WorkOK'
    BY <1>7, <1>a, <1>f, <1>c, <1>o, <2>p, <2>r DEF Receives, Changes, FilesOK, RootsOK,
       SessionOK, roots, session, work, WorkOK, Harm
  <2>4. born' \subseteq Account /\ op' \in OpRec /\ truth' \in [Account -> SUBSET Msg]
    BY <1>7, <1>a, <1>o, <2>p, <2>r DEF Receives, Changes
  <2> QED BY <2>1, <2>2, <2>3, <2>4, TypePartsNext
<1>8. ASSUME NEW a \in Account, NEW m \in Msg, Deletes(a, m) PROVE TypeOK'
  <2>p. \A rows \in SUBSET Msg : [live[a] EXCEPT !.data = rows] \in File
    BY <1>a DEF FilesOK, File
  <2>r. live[a].data \subseteq Msg
    BY <1>a DEF FilesOK, File
  <2>1. FilesOK' /\ harm' \subseteq Harm /\ used' \in Spent
    BY <1>8, <1>a, <1>f, <1>c, <2>p, <2>r DEF Deletes, Changes, FilesOK, Harm
  <2>2. RootsOK'
    BY <1>8, <1>a, <1>f, <1>c, <1>o, <2>p, <2>r DEF Deletes, Changes, FilesOK, RootsOK,
       SessionOK, roots, session, work, WorkOK, Harm
  <2>3. SessionOK' /\ WorkOK'
    BY <1>8, <1>a, <1>f, <1>c, <1>o, <2>p, <2>r DEF Deletes, Changes, FilesOK, RootsOK,
       SessionOK, roots, session, work, WorkOK, Harm
  <2>4. born' \subseteq Account /\ op' \in OpRec /\ truth' \in [Account -> SUBSET Msg]
    BY <1>8, <1>a, <1>o, <2>p, <2>r DEF Deletes, Changes
  <2> QED BY <2>1, <2>2, <2>3, <2>4, TypePartsNext
<1>9. ASSUME NEW l \in Locks, Unlock(l) PROVE TypeOK'
  <2>p. wrap[l] \in Key /\ Prepare(wrap[l], "unlock") => SessionOK' /\ WorkOK'
    BY PrepareType DEF Live
  <2>1. FilesOK' /\ harm' \subseteq Harm /\ used' \in Spent
    BY <1>9, <1>a, <1>f, <1>c, <2>p, <1>k DEF Unlock, FilesOK, files, Harm
  <2>2. RootsOK'
    BY <1>9, <1>a DEF Unlock, RootsOK, roots
  <2>3. SessionOK' /\ WorkOK'
    BY <1>9, <1>a, <1>o, <2>p DEF Unlock, SessionOK, WorkOK
  <2>4. born' \subseteq Account /\ op' \in OpRec /\ truth' \in [Account -> SUBSET Msg]
    BY <1>9, <1>a, <1>o, <2>p, <1>k DEF Unlock, OpRec, files
  <2> QED BY <2>1, <2>2, <2>3, <2>4, TypePartsNext
<1>10. ASSUME NEW l \in Locks, SetLock(l) PROVE TypeOK'
  <2>1. FilesOK' /\ harm' \subseteq Harm /\ used' \in Spent
    BY <1>10, <1>a, <1>f, <1>c, <1>k DEF SetLock, CurrentDek, FilesOK, files, Harm
  <2>2. RootsOK'
    BY <1>10, <1>a DEF SetLock, CurrentDek, RootsOK, roots
  <2>3. SessionOK' /\ WorkOK'
    BY <1>10, <1>a, <1>o DEF SetLock, CurrentDek, SessionOK, session, work, WorkOK
  <2>4. born' \subseteq Account /\ op' \in OpRec /\ truth' \in [Account -> SUBSET Msg]
    BY <1>10, <1>a, <1>o, <1>l, <1>k DEF SetLock, CurrentDek, files
  <2> QED BY <2>1, <2>2, <2>3, <2>4, TypePartsNext
<1>11. ASSUME NEW l \in Locks, ClearLock(l) PROVE TypeOK'
  <2>1. FilesOK' /\ harm' \subseteq Harm /\ used' \in Spent
    BY <1>11, <1>a, <1>f, <1>c, <1>k DEF ClearLock, FilesOK, files, Harm
  <2>2. RootsOK'
    BY <1>11, <1>a DEF ClearLock, RootsOK, roots
  <2>3. SessionOK' /\ WorkOK'
    BY <1>11, <1>a, <1>o DEF ClearLock, SessionOK, session, work, WorkOK
  <2>4. born' \subseteq Account /\ op' \in OpRec /\ truth' \in [Account -> SUBSET Msg]
    BY <1>11, <1>a, <1>o, <1>l, <1>k DEF ClearLock, files
  <2> QED BY <2>1, <2>2, <2>3, <2>4, TypePartsNext
<1>12. CASE WriteWrap
  <2>1. FilesOK' /\ harm' \subseteq Harm /\ used' \in Spent
    BY <1>12, <1>a, <1>f, <1>c, <1>d DEF WriteWrap, Tears, FilesOK, files, Harm
  <2>2. RootsOK'
    BY <1>12, <1>a, <1>d DEF WriteWrap, Tears, RootsOK
  <2>3. SessionOK' /\ WorkOK'
    BY <1>12, <1>a, <1>o DEF WriteWrap, SessionOK, session, work, WorkOK
  <2>4. born' \subseteq Account /\ op' \in OpRec /\ truth' \in [Account -> SUBSET Msg]
    BY <1>12, <1>a, <1>o, <1>l, <1>e, <1>d DEF WriteWrap, files
  <2> QED BY <2>1, <2>2, <2>3, <2>4, TypePartsNext
<1>13. CASE VerifyWrap
  <2>1. FilesOK' /\ harm' \subseteq Harm /\ used' \in Spent
    BY <1>13, <1>a, <1>f, <1>c, <1>d DEF VerifyWrap, NoKey, FilesOK, files, Harm
  <2>2. RootsOK'
    BY <1>13, <1>a, <1>d DEF VerifyWrap, NoKey, RootsOK
  <2>3. SessionOK' /\ WorkOK'
    BY <1>13, <1>a, <1>o DEF VerifyWrap, NoKey, SessionOK, session, work, WorkOK
  <2>4. born' \subseteq Account /\ op' \in OpRec /\ truth' \in [Account -> SUBSET Msg]
    BY <1>13, <1>a, <1>o, <1>l, <1>e, <1>d DEF VerifyWrap, NoKey, files
  <2> QED BY <2>1, <2>2, <2>3, <2>4, TypePartsNext
<1>14. CASE DropChain
  <2>1. FilesOK' /\ harm' \subseteq Harm /\ used' \in Spent
    BY <1>14, <1>a, <1>f, <1>c, <1>d DEF DropChain, NoKey, FilesOK, files, Harm
  <2>2. RootsOK'
    BY <1>14, <1>a, <1>d DEF DropChain, NoKey, RootsOK
  <2>3. SessionOK' /\ WorkOK'
    BY <1>14, <1>a, <1>o DEF DropChain, NoKey, SessionOK, session, work, WorkOK
  <2>4. born' \subseteq Account /\ op' \in OpRec /\ truth' \in [Account -> SUBSET Msg]
    BY <1>14, <1>a, <1>o, <1>l, <1>e, <1>d DEF DropChain, NoKey, files
  <2> QED BY <2>1, <2>2, <2>3, <2>4, TypePartsNext
<1>15. CASE StoreChain
  <2>1. FilesOK' /\ harm' \subseteq Harm /\ used' \in Spent
    BY <1>15, <1>a, <1>f, <1>c, <1>d DEF StoreChain, FilesOK, files, Harm
  <2>2. RootsOK'
    BY <1>15, <1>a, <1>d DEF StoreChain, RootsOK
  <2>3. SessionOK' /\ WorkOK'
    BY <1>15, <1>a, <1>o DEF StoreChain, SessionOK, session, work, WorkOK
  <2>4. born' \subseteq Account /\ op' \in OpRec /\ truth' \in [Account -> SUBSET Msg]
    BY <1>15, <1>a, <1>o, <1>l, <1>e, <1>d DEF StoreChain, files
  <2> QED BY <2>1, <2>2, <2>3, <2>4, TypePartsNext
<1>16. CASE RemoveWrap
  <2>1. FilesOK' /\ harm' \subseteq Harm /\ used' \in Spent
    BY <1>16, <1>a, <1>f, <1>c, <1>d DEF RemoveWrap, NoKey, FilesOK, files, Harm
  <2>2. RootsOK'
    BY <1>16, <1>a, <1>d DEF RemoveWrap, NoKey, RootsOK
  <2>3. SessionOK' /\ WorkOK'
    BY <1>16, <1>a, <1>o DEF RemoveWrap, NoKey, SessionOK, session, work, WorkOK
  <2>4. born' \subseteq Account /\ op' \in OpRec /\ truth' \in [Account -> SUBSET Msg]
    BY <1>16, <1>a, <1>o, <1>l, <1>e, <1>d DEF RemoveWrap, NoKey, files
  <2> QED BY <2>1, <2>2, <2>3, <2>4, TypePartsNext
<1>17. CASE Quits
  <2>1. FilesOK' /\ harm' \subseteq Harm /\ used' \in Spent
    BY <1>17, <1>a, <1>f, <1>c DEF Quits, FilesOK, files, Harm
  <2>2. RootsOK'
    BY <1>17, <1>a DEF Quits, RootsOK, roots
  <2>3. SessionOK' /\ WorkOK'
    BY <1>17, <1>a, <1>o DEF Quits, SessionOK, WorkOK
  <2>4. born' \subseteq Account /\ op' \in OpRec /\ truth' \in [Account -> SUBSET Msg]
    BY <1>17, <1>a, <1>o DEF Quits, files
  <2> QED BY <2>1, <2>2, <2>3, <2>4, TypePartsNext
<1>18. CASE Crash
  <2>1. FilesOK' /\ harm' \subseteq Harm /\ used' \in Spent
    BY <1>18, <1>a, <1>f, <1>c DEF Crash, Spent, FilesOK, files, Harm
  <2>2. RootsOK'
    BY <1>18, <1>a DEF Crash, RootsOK, roots
  <2>3. SessionOK' /\ WorkOK'
    BY <1>18, <1>a, <1>o DEF Crash, SessionOK, WorkOK
  <2>4. born' \subseteq Account /\ op' \in OpRec /\ truth' \in [Account -> SUBSET Msg]
    BY <1>18, <1>a, <1>o DEF Crash, files
  <2> QED BY <2>1, <2>2, <2>3, <2>4, TypePartsNext
<1>19. CASE CrashInWrite
  <2>1. FilesOK' /\ harm' \subseteq Harm /\ used' \in Spent
    BY <1>19, <1>a, <1>f, <1>c, <1>d DEF CrashInWrite, Tears, Spent, FilesOK, files, Harm
  <2>2. RootsOK'
    BY <1>19, <1>a, <1>d DEF CrashInWrite, Tears, RootsOK
  <2>3. SessionOK' /\ WorkOK'
    BY <1>19, <1>a, <1>o DEF CrashInWrite, SessionOK, WorkOK
  <2>4. born' \subseteq Account /\ op' \in OpRec /\ truth' \in [Account -> SUBSET Msg]
    BY <1>19, <1>a, <1>o, <1>l, <1>e, <1>d DEF CrashInWrite, files
  <2> QED BY <2>1, <2>2, <2>3, <2>4, TypePartsNext
<1>20. CASE ChainReset
  <2>1. FilesOK' /\ harm' \subseteq Harm /\ used' \in Spent
    BY <1>20, <1>a, <1>f, <1>c DEF ChainReset, Harmed, NoKey, FilesOK, files, Harm
  <2>2. RootsOK'
    BY <1>20, <1>a DEF ChainReset, NoKey, RootsOK
  <2>3. SessionOK' /\ WorkOK'
    BY <1>20, <1>a, <1>o DEF ChainReset, NoKey, SessionOK, session, work, WorkOK
  <2>4. born' \subseteq Account /\ op' \in OpRec /\ truth' \in [Account -> SUBSET Msg]
    BY <1>20, <1>a, <1>o DEF ChainReset, NoKey, files
  <2> QED BY <2>1, <2>2, <2>3, <2>4, TypePartsNext
<1>21. ASSUME NEW a \in Account, PrepareStep(a) PROVE TypeOK'
  BY <1>21, PrepareStepType
<1>22. CASE ListFails
  <2>1. FilesOK' /\ harm' \subseteq Harm /\ used' \in Spent
    BY <1>22, <1>a, <1>f DEF ListFails, FilesOK, files
  <2>2. RootsOK'
    BY <1>22, <1>a DEF ListFails, RootsOK, roots
  <2>3. SessionOK' /\ WorkOK'
    BY <1>22, <1>a DEF ListFails, SessionOK, session, WorkOK, Place, Pass
  <2>4. born' \subseteq Account /\ op' \in OpRec /\ truth' \in [Account -> SUBSET Msg]
    BY <1>22, <1>a DEF ListFails, files
  <2> QED BY <2>1, <2>2, <2>3, <2>4, TypePartsNext
<1>23. CASE CounterFails
  <2>1. FilesOK' /\ harm' \subseteq Harm /\ used' \in Spent
    BY <1>23, <1>a, <1>f DEF CounterFails, Tears, FilesOK, files, Harm
  <2>2. RootsOK'
    BY <1>23, <1>a DEF CounterFails, Tears, RootsOK
  <2>3. SessionOK' /\ WorkOK'
    BY <1>23, <1>a DEF CounterFails, SessionOK, session, work, WorkOK
  <2>4. born' \subseteq Account /\ op' \in OpRec /\ truth' \in [Account -> SUBSET Msg]
    BY <1>23, <1>a DEF CounterFails, files
  <2> QED BY <2>1, <2>2, <2>3, <2>4, TypePartsNext
<1>24. CASE UNCHANGED vars
  BY <1>24 DEF vars, files, roots, session, work, TypeOK
<1> QED BY <1>1, <1>2, <1>3, <1>4, <1>5, <1>6, <1>7, <1>8, <1>9, <1>10, <1>11, <1>12, <1>13,
   <1>14, <1>15, <1>16, <1>17, <1>18, <1>19, <1>20, <1>21, <1>22, <1>23, <1>24 DEF Next, Command

-----------------------------------------------------------------------------
(* One key *)

\* What happened stays happened.
LEMMA HarmGrows == [Next]_vars => harm \subseteq harm'
<1> SUFFICES ASSUME [Next]_vars PROVE harm \subseteq harm'
  OBVIOUS
<1>1. \A k : CoreOpens(k) => harm \subseteq harm'
  BY DEF CoreOpens
<1>2. \A l, copies : Tears(l, copies) => harm \subseteq harm'
  BY DEF Tears
<1>3. CASE Startup \/ StartLocked \/ ListFails \/ LockNow
  BY <1>3, <1>1 DEF Startup, DecideKey, Harmed, StartLocked, ListFails, LockNow
<1>4. CASE BootEnds
  BY <1>4 DEF BootEnds, CoreOpens
<1>5. CASE UnlockEnds
  BY <1>5, <1>1 DEF UnlockEnds
<1>6. ASSUME NEW a \in Account, PrepareStep(a) PROVE harm \subseteq harm'
  BY <1>6 DEF PrepareStep, RestoreMissing, SkipPlain, Export, SwapOut, SwapIn, SwapUndo,
     FindOurs, FindForeign, Restore
<1>7. ASSUME NEW a \in Account, AddAccount(a) \/ \E m \in Msg : Receives(a, m) \/ Deletes(a, m)
      PROVE  harm \subseteq harm'
  BY <1>7 DEF AddAccount, Receives, Deletes, Changes
<1>8. ASSUME NEW l \in Locks, Unlock(l) \/ SetLock(l) \/ ClearLock(l) PROVE harm \subseteq harm'
  BY <1>8 DEF Unlock, SetLock, ClearLock
<1>9. CASE Command
  BY <1>9, <1>2 DEF Command, WriteWrap, VerifyWrap, CounterFails, DropChain, StoreChain, RemoveWrap
<1>10. CASE Quits \/ Crash \/ CrashInWrite \/ ChainReset
  BY <1>10, <1>2 DEF Quits, Crash, CrashInWrite, ChainReset, Harmed
<1>11. CASE UNCHANGED vars
  BY <1>11 DEF vars
<1> QED BY <1>3, <1>4, <1>5, <1>6, <1>7, <1>8, <1>9, <1>10, <1>11 DEF Next

\* What the core makes is under the key it was given.
LEMMA CoreKey ==
    ASSUME FilesOK, NEW k \in {NoKey, made}, CoreOpens(k),
           \A a \in Account : live[a].form = "enc" => live[a].key = made /\ made # NoKey
    PROVE  \A a \in Account : live'[a].form = "enc" => live'[a].key = made /\ made # NoKey
<1>1. Fresh(k).form = "enc" => Fresh(k).key = made /\ made # NoKey
  BY DEF Fresh, NoFile
<1> QED BY <1>1 DEF CoreOpens, FilesOK

\* A step of prepare writes databases under the key it was given.
LEMMA PrepareKey ==
    ASSUME TypeOK, LastKey, NEW a \in Account, PrepareStep(a)
    PROVE  LastKey'
<1>a. FilesOK /\ WorkOK /\ SessionOK
  BY TypeParts
<1>b. FilesUnderLast /\ HeldUnderLast
  BY DEF LastKey
<1>n. NoFile.form # "enc" /\ Empty.form # "enc"
  BY DEF NoFile, Empty
<1>q. ASSUME FilesUnderLast', UNCHANGED <<roots, session, op>> PROVE LastKey'
  BY <1>b, <1>q DEF LastKey, FilesUnderLast, HeldUnderLast, roots, session
<1>1. CASE RestoreMissing(a)
  <2>1. FilesUnderLast'
    BY <1>1, <1>a, <1>b, <1>n DEF RestoreMissing, FilesUnderLast, HeldUnderLast, FilesOK,
       WorkOK, SessionOK, Goes, Turn, Live, IsFile, roots, session
  <2>2. UNCHANGED <<roots, session, op>>
    BY <1>1 DEF RestoreMissing
  <2> QED BY <2>1, <2>2, <1>q
<1>2. CASE SkipPlain(a)
  <2>1. FilesUnderLast'
    BY <1>2, <1>a, <1>b, <1>n DEF SkipPlain, FilesUnderLast, FilesOK, Goes, Live, files,
       roots, session
  <2>2. UNCHANGED <<roots, session, op>>
    BY <1>2 DEF SkipPlain
  <2> QED BY <2>1, <2>2, <1>q
<1>3. CASE Export(a)
  <2>e. [live[a] EXCEPT !.form = "enc", !.key = key].key = key
    BY <1>a DEF FilesOK, File
  <2>1. FilesUnderLast'
    BY <1>3, <1>a, <1>b, <1>n, <2>e DEF Export, FilesUnderLast, HeldUnderLast, FilesOK,
       WorkOK, SessionOK, Goes, Failed, Turn, Looks, Live, Opens, IsFile, roots, session
  <2>2. UNCHANGED <<roots, session, op>>
    BY <1>3 DEF Export
  <2> QED BY <2>1, <2>2, <1>q
<1>4. CASE SwapOut(a)
  <2>1. FilesUnderLast'
    BY <1>4, <1>a, <1>b, <1>n DEF SwapOut, FilesUnderLast, HeldUnderLast, FilesOK, WorkOK,
       SessionOK, Goes, Failed, Turn, Live, roots, session
  <2>2. UNCHANGED <<roots, session, op>>
    BY <1>4 DEF SwapOut
  <2> QED BY <2>1, <2>2, <1>q
<1>5. CASE SwapIn(a)
  <2>1. FilesUnderLast'
    BY <1>5, <1>a, <1>b, <1>n DEF SwapIn, FilesUnderLast, HeldUnderLast, FilesOK, WorkOK,
       SessionOK, Goes, Turn, Live, roots, session
  <2>2. UNCHANGED <<roots, session, op>>
    BY <1>5 DEF SwapIn
  <2> QED BY <2>1, <2>2, <1>q
<1>6. CASE SwapUndo(a)
  <2>1. FilesUnderLast'
    BY <1>6, <1>a, <1>b, <1>n DEF SwapUndo, FilesUnderLast, HeldUnderLast, FilesOK, WorkOK,
       SessionOK, Goes, Failed, Turn, Live, roots, session
  <2>2. UNCHANGED <<roots, session, op>>
    BY <1>6 DEF SwapUndo
  <2> QED BY <2>1, <2>2, <1>q
<1>7. CASE FindOurs(a)
  <2>1. FilesUnderLast'
    BY <1>7, <1>a, <1>b, <1>n DEF FindOurs, FilesUnderLast, FilesOK, Goes, Live, roots, session
  <2>2. UNCHANGED <<roots, session, op>>
    BY <1>7 DEF FindOurs
  <2> QED BY <2>1, <2>2, <1>q
<1>8. CASE FindForeign(a)
  <2>1. FilesUnderLast'
    BY <1>8, <1>a, <1>b, <1>n DEF FindForeign, FilesUnderLast, HeldUnderLast, FilesOK,
       WorkOK, SessionOK, Goes, Turn, Looks, Live, Opens, IsFile, roots, session
  <2>2. UNCHANGED <<roots, session, op>>
    BY <1>8 DEF FindForeign
  <2> QED BY <2>1, <2>2, <1>q
<1>9. CASE Restore(a)
  <2>1. FilesUnderLast'
    BY <1>9, <1>a, <1>b, <1>n DEF Restore, FilesUnderLast, HeldUnderLast, FilesOK, WorkOK,
       SessionOK, Goes, Turn, Live, roots, session
  <2>2. UNCHANGED <<roots, session, op>>
    BY <1>9 DEF Restore
  <2> QED BY <2>1, <2>2, <1>q
<1> QED BY <1>1, <1>2, <1>3, <1>4, <1>5, <1>6, <1>7, <1>8, <1>9 DEF PrepareStep

\* One key: every step keeps everything under the last key made.
LEMMA LastKeyStep ==
    ASSUME TypeOK, TypeOK', OffHoldsNothing, LastKey, [Next]_vars, "second" \notin harm'
    PROVE  LastKey'
<1>a. FilesOK /\ RootsOK /\ SessionOK /\ WorkOK /\ op \in OpRec
  BY TypeParts
<1>b. FilesUnderLast /\ HeldUnderLast /\ OffHoldsNothing
  BY DEF LastKey
<1>q. ASSUME FilesUnderLast', HeldUnderLast' PROVE LastKey'
  BY <1>q DEF LastKey
<1>c. \A k \in {NoKey, made} : CoreOpens(k) =>
          \A a \in Account : live'[a].form = "enc" => live'[a].key = made /\ made # NoKey
  BY <1>a, <1>b, CoreKey DEF FilesUnderLast
<1>z. NoKey # Torn /\ NoKey \notin Key /\ Torn \notin Key
  BY DEF NoKey, Torn, Key
<1>1. CASE Startup
  <2>1. FilesUnderLast'
    BY <1>1, <1>a, <1>b, <1>c DEF Startup, DecideKey, Harmed, Prepare, HasEncrypted, Opens, IsFile,
       Live, FilesUnderLast, FilesOK, files, roots
  <2>2. HeldUnderLast'
    BY <1>1, <1>a, <1>b, <1>z DEF Startup, DecideKey, Harmed, Prepare, HasEncrypted, Opens, IsFile,
       HelloLocked, PinLocked, OffHoldsNothing, HeldUnderLast, RootsOK, files, roots
  <2> QED BY <2>1, <2>2, <1>q
<1>2. CASE StartLocked
  <2>1. FilesUnderLast'
    BY <1>2, <1>a, <1>b, <1>c DEF StartLocked, Live, FilesUnderLast, FilesOK, roots, work
  <2>2. HeldUnderLast'
    BY <1>2, <1>a, <1>b DEF StartLocked, HeldUnderLast, roots
  <2> QED BY <2>1, <2>2, <1>q
<1>3. CASE BootEnds
  <2>1. FilesUnderLast'
    BY <1>3, <1>a, <1>b, <1>c, <1>z DEF BootEnds, Live, FilesUnderLast, OffHoldsNothing,
       HeldUnderLast, FilesOK, WorkOK, SessionOK, RootsOK, roots, work
  <2>2. HeldUnderLast'
    BY <1>3, <1>a, <1>b DEF BootEnds, HeldUnderLast, roots
  <2> QED BY <2>1, <2>2, <1>q
<1>4. CASE UnlockEnds
  <2>1. FilesUnderLast'
    BY <1>4, <1>a, <1>b, <1>c, <1>z DEF UnlockEnds, Live, FilesUnderLast, OffHoldsNothing,
       HeldUnderLast, FilesOK, WorkOK, SessionOK, RootsOK, work
  <2>2. HeldUnderLast'
    BY <1>4, <1>a, <1>b DEF UnlockEnds, HeldUnderLast
  <2> QED BY <2>1, <2>2, <1>q
<1>5. CASE LockNow
  <2>1. FilesUnderLast'
    BY <1>5, <1>a, <1>b, <1>c DEF LockNow, Live, FilesUnderLast, FilesOK, roots, work
  <2>2. HeldUnderLast'
    BY <1>5, <1>a, <1>b DEF LockNow, HeldUnderLast, roots
  <2> QED BY <2>1, <2>2, <1>q
<1>6. ASSUME NEW a \in Account, AddAccount(a) PROVE LastKey'
  <2>1. FilesUnderLast'
    BY <1>6, <1>a, <1>b, <1>c, <1>z DEF AddAccount, Fresh, NoFile, Live, FilesUnderLast,
       OffHoldsNothing, HeldUnderLast, FilesOK, WorkOK, SessionOK, RootsOK, roots, session, work
  <2>2. HeldUnderLast'
    BY <1>6, <1>a, <1>b DEF AddAccount, Fresh, NoFile, HeldUnderLast, roots, session
  <2> QED BY <2>1, <2>2, <1>q
<1>7. ASSUME NEW a \in Account, NEW m \in Msg, Receives(a, m) PROVE LastKey'
  <2>1. FilesUnderLast'
    BY <1>7, <1>a, <1>b, <1>c DEF Receives, Changes, Live, FilesUnderLast, FilesOK, roots,
       session, work
  <2>2. HeldUnderLast'
    BY <1>7, <1>a, <1>b DEF Receives, Changes, HeldUnderLast, roots, session
  <2> QED BY <2>1, <2>2, <1>q
<1>8. ASSUME NEW a \in Account, NEW m \in Msg, Deletes(a, m) PROVE LastKey'
  <2>1. FilesUnderLast'
    BY <1>8, <1>a, <1>b, <1>c DEF Deletes, Changes, Live, FilesUnderLast, FilesOK, roots,
       session, work
  <2>2. HeldUnderLast'
    BY <1>8, <1>a, <1>b DEF Deletes, Changes, HeldUnderLast, roots, session
  <2> QED BY <2>1, <2>2, <1>q
<1>9. ASSUME NEW l \in Locks, Unlock(l) PROVE LastKey'
  <2>1. FilesUnderLast'
    BY <1>9, <1>a, <1>b, <1>c DEF Unlock, Prepare, Live, FilesUnderLast, FilesOK, files, roots
  <2>2. HeldUnderLast'
    BY <1>9, <1>a, <1>b, <1>z DEF Unlock, Prepare, OffHoldsNothing, HeldUnderLast, RootsOK,
       files, roots
  <2> QED BY <2>1, <2>2, <1>q
<1>10. ASSUME NEW l \in Locks, SetLock(l) PROVE LastKey'
  <2>1. FilesUnderLast'
    BY <1>10, <1>a, <1>b, <1>c DEF SetLock, FilesUnderLast, FilesOK, files, roots, session, work
  <2>2. HeldUnderLast'
    BY <1>10, <1>a, <1>b, <1>z DEF SetLock, CurrentDek, Locking, PinLocked, HelloLocked,
       OffHoldsNothing, HeldUnderLast, RootsOK, files, roots, session, work
  <2> QED BY <2>1, <2>2, <1>q
<1>11. ASSUME NEW l \in Locks, ClearLock(l) PROVE LastKey'
  <2>1. FilesUnderLast'
    BY <1>11, <1>a, <1>b, <1>c DEF ClearLock, FilesUnderLast, FilesOK, files, roots, session,
       work
  <2>2. HeldUnderLast'
    BY <1>11, <1>a, <1>b, <1>z DEF ClearLock, Clearing, OffHoldsNothing, HeldUnderLast,
       RootsOK, files, roots, session, work
  <2> QED BY <2>1, <2>2, <1>q
<1>12. CASE WriteWrap
  <2>1. FilesUnderLast'
    BY <1>12, <1>a, <1>b, <1>c DEF WriteWrap, FilesUnderLast, FilesOK, files, session, work
  <2>2. HeldUnderLast'
    BY <1>12, <1>a, <1>b, <1>z DEF WriteWrap, Tears, Locking, OpEnds, OpRec, OffHoldsNothing,
       HeldUnderLast, RootsOK, files, session, work
  <2> QED BY <2>1, <2>2, <1>q
<1>13. CASE VerifyWrap
  <2>1. FilesUnderLast'
    BY <1>13, <1>a, <1>b, <1>c DEF VerifyWrap, FilesUnderLast, FilesOK, files, session, work
  <2>2. HeldUnderLast'
    BY <1>13, <1>a, <1>b, <1>z DEF VerifyWrap, Locking, OpEnds, OpRec, OffHoldsNothing,
       HeldUnderLast, RootsOK, files, session, work
  <2> QED BY <2>1, <2>2, <1>q
<1>14. CASE DropChain
  <2>1. FilesUnderLast'
    BY <1>14, <1>a, <1>b, <1>c DEF DropChain, FilesUnderLast, FilesOK, files, session, work
  <2>2. HeldUnderLast'
    BY <1>14, <1>a, <1>b DEF DropChain, OpEnds, HeldUnderLast, session
  <2> QED BY <2>1, <2>2, <1>q
<1>15. CASE StoreChain
  <2>1. FilesUnderLast'
    BY <1>15, <1>a, <1>b, <1>c DEF StoreChain, FilesUnderLast, FilesOK, files, session, work
  <2>2. HeldUnderLast'
    BY <1>15, <1>a, <1>b DEF StoreChain, Clearing, OpEnds, OpRec, HeldUnderLast, session
  <2> QED BY <2>1, <2>2, <1>q
<1>16. CASE RemoveWrap
  <2>1. FilesUnderLast'
    BY <1>16, <1>a, <1>b, <1>c DEF RemoveWrap, FilesUnderLast, FilesOK, files, session, work
  <2>2. HeldUnderLast'
    BY <1>16, <1>a, <1>b, <1>z DEF RemoveWrap, OpEnds, OffHoldsNothing, HeldUnderLast,
       RootsOK, files, session, work
  <2> QED BY <2>1, <2>2, <1>q
<1>17. CASE Quits
  <2>1. FilesUnderLast'
    BY <1>17, <1>a, <1>b, <1>c DEF Quits, Off, Live, FilesUnderLast, FilesOK, files, roots, work
  <2>2. HeldUnderLast'
    BY <1>17, <1>a, <1>b DEF Quits, Off, HeldUnderLast, roots
  <2> QED BY <2>1, <2>2, <1>q
<1>18. CASE Crash
  <2>1. FilesUnderLast'
    BY <1>18, <1>a, <1>b, <1>c DEF Crash, Off, Live, FilesUnderLast, FilesOK, files, roots, work
  <2>2. HeldUnderLast'
    BY <1>18, <1>a, <1>b DEF Crash, Off, HeldUnderLast, roots
  <2> QED BY <2>1, <2>2, <1>q
<1>19. CASE CrashInWrite
  <2>1. FilesUnderLast'
    BY <1>19, <1>a, <1>b, <1>c DEF CrashInWrite, Off, Live, FilesUnderLast, FilesOK, files, work
  <2>2. HeldUnderLast'
    BY <1>19, <1>a, <1>b, <1>z DEF CrashInWrite, Tears, Off, OffHoldsNothing, HeldUnderLast,
       RootsOK, files, work
  <2> QED BY <2>1, <2>2, <1>q
<1>20. CASE ChainReset
  <2>1. FilesUnderLast'
    BY <1>20, <1>a, <1>b, <1>c DEF ChainReset, Live, FilesUnderLast, FilesOK, files, session,
       work
  <2>2. HeldUnderLast'
    BY <1>20, <1>a, <1>b DEF ChainReset, HeldUnderLast, session
  <2> QED BY <2>1, <2>2, <1>q
<1>21. ASSUME NEW a \in Account, PrepareStep(a) PROVE LastKey'
  BY <1>21, PrepareKey
<1>22. CASE ListFails
  <2>1. FilesUnderLast'
    BY <1>22, <1>a, <1>b DEF ListFails, FilesUnderLast, files, roots, session
  <2>2. HeldUnderLast'
    BY <1>22, <1>b DEF ListFails, HeldUnderLast, roots, session
  <2> QED BY <2>1, <2>2, <1>q
<1>23. CASE CounterFails
  <2>1. FilesUnderLast'
    BY <1>23, <1>a, <1>b DEF CounterFails, FilesUnderLast, files, session, work
  <2>2. HeldUnderLast'
    BY <1>23, <1>a, <1>b DEF CounterFails, Tears, HeldUnderLast, RootsOK, session
  <2> QED BY <2>1, <2>2, <1>q
<1>24. CASE UNCHANGED vars
  BY <1>24, <1>b, <1>q DEF vars, files, roots, session, work, FilesUnderLast, HeldUnderLast
<1> QED BY <1>1, <1>2, <1>3, <1>4, <1>5, <1>6, <1>7, <1>8, <1>9, <1>10, <1>11, <1>12, <1>13,
   <1>14, <1>15, <1>16, <1>17, <1>18, <1>19, <1>20, <1>21, <1>22, <1>23, <1>24 DEF Next, Command

\* A process that does not run holds nothing.
LEMMA OffStep == TypeOK /\ OffHoldsNothing /\ [Next]_vars => OffHoldsNothing'
<1> SUFFICES ASSUME TypeOK, OffHoldsNothing, [Next]_vars PROVE OffHoldsNothing'
  OBVIOUS
<1> USE DEF OffHoldsNothing
<1>1. CASE Startup
  BY <1>1 DEF Startup, DecideKey, Prepare
<1>2. CASE StartLocked \/ BootEnds \/ UnlockEnds \/ LockNow \/ ListFails
  BY <1>2 DEF StartLocked, BootEnds, UnlockEnds, LockNow, ListFails, session
<1>3. ASSUME NEW a \in Account, PrepareStep(a) PROVE OffHoldsNothing'
  BY <1>3 DEF PrepareStep, RestoreMissing, SkipPlain, Export, SwapOut, SwapIn, SwapUndo,
     FindOurs, FindForeign, Restore, session
<1>4. ASSUME NEW a \in Account, AddAccount(a) \/ \E m \in Msg : Receives(a, m) \/ Deletes(a, m)
      PROVE  OffHoldsNothing'
  BY <1>4 DEF AddAccount, Receives, Deletes, Changes, session
<1>5. ASSUME NEW l \in Locks, Unlock(l) \/ SetLock(l) \/ ClearLock(l) PROVE OffHoldsNothing'
  BY <1>5 DEF Unlock, Prepare, SetLock, Locking, ClearLock, Clearing, session
<1>6. CASE Command
  BY <1>6 DEF Command, WriteWrap, VerifyWrap, CounterFails, DropChain, StoreChain, RemoveWrap,
     Locking, Clearing, OpEnds, session
<1>7. CASE Quits \/ Crash \/ CrashInWrite \/ ChainReset
  BY <1>7 DEF Quits, Crash, CrashInWrite, ChainReset, Off, session
<1>8. CASE UNCHANGED vars
  BY <1>8 DEF vars, session
<1> QED BY <1>1, <1>2, <1>3, <1>4, <1>5, <1>6, <1>7, <1>8 DEF Next

\* Both, unless a second key was made in a directory that could not be read.
LEMMA KeyStep == TypeOK /\ TypeOK' /\ KeyInv /\ [Next]_vars => KeyInv'
BY HarmGrows, OffStep, LastKeyStep DEF KeyInv

-----------------------------------------------------------------------------
(* Custody *)

\* A step that leaves the keychain, the wraps and the commands alone.
LEMMA CustodyKept ==
    ASSUME Kept, UNCHANGED <<chain, wrap, made, op>>
    PROVE  Kept'
BY DEF Kept, OpHolds, PinLocked, HelloLocked

\* Custody: a copy of the key goes only when another one is left.
LEMMA CustodyStep ==
    TypeOK /\ TypeOK' /\ KeyInv /\ Custody /\ [Next]_vars => Custody'
<1> SUFFICES ASSUME TypeOK, TypeOK', KeyInv, Custody, [Next]_vars,
                    harm' \cap {"reset", "second", "lost"} = {}
             PROVE  Kept'
  BY DEF Custody
<1>a. /\ chain \in {NoKey} \cup Key /\ made \in {NoKey} \cup Key
      /\ wrap \in [{"pin", "hello"} -> {Torn, NoKey} \cup Key]
      /\ op \in OpRec
  BY TypeParts DEF RootsOK
<1>h. "second" \notin harm /\ harm \cap {"reset", "second", "lost"} = {}
  BY HarmGrows
<1>b. HeldUnderLast /\ OffHoldsNothing
  BY <1>h DEF KeyInv, LastKey
<1>k. Kept
  BY <1>h DEF Custody
<1>z. NoKey # Torn /\ NoKey \notin Key /\ Torn \notin Key
  BY DEF NoKey, Torn, Key
<1>d. op.do # "none" => /\ op.lock \in {"pin", "hello"} /\ op.dek \in Key /\ op.dek = made
                        /\ made # NoKey
  BY <1>a, <1>b, <1>z DEF OpRec, HeldUnderLast
<1>t. ASSUME NEW l \in {"pin", "hello"}, NEW copies \in SUBSET {chain, wrap["pin"], wrap["hello"]},
             Tears(l, copies)
      PROVE  /\ wrap' = [wrap EXCEPT ![l] = Torn]
             /\ made \in copies /\ made # NoKey
  BY <1>t, <1>a, <1>b, <1>z DEF Tears, HeldUnderLast
<1>1. CASE Startup
  <2>1. op.do = "none" /\ op' = op /\ wrap' = wrap
    BY <1>1, <1>b DEF Startup, DecideKey, OffHoldsNothing, roots
  <2>2. (made' = made /\ chain' = chain) \/ chain' = made'
    BY <1>1 DEF Startup, DecideKey, roots
  <2> QED BY <2>1, <2>2, <1>k DEF Kept, OpHolds
<1>2. CASE StartLocked \/ BootEnds \/ LockNow \/ ListFails
  <2>1. UNCHANGED <<chain, wrap, made, op>>
    BY <1>2 DEF StartLocked, BootEnds, LockNow, ListFails, roots
  <2> QED BY <2>1, <1>k, CustodyKept
<1>3. CASE UnlockEnds
  <2>1. /\ op.do = "unlock" /\ op'.do = "none" /\ wrap' = wrap /\ made' = made
        /\ chain' = chain \/ op.lock = "hello"
    BY <1>3, <1>b DEF UnlockEnds, OffHoldsNothing
  <2> QED BY <2>1, <1>k DEF Kept, OpHolds
<1>4. ASSUME NEW a \in Account, AddAccount(a) \/ \E m \in Msg : Receives(a, m) \/ Deletes(a, m)
      PROVE  Kept'
  <2>1. UNCHANGED <<chain, wrap, made, op>>
    BY <1>4 DEF AddAccount, Receives, Deletes, Changes, roots
  <2> QED BY <2>1, <1>k, CustodyKept
<1>5. ASSUME NEW a \in Account, PrepareStep(a) PROVE Kept'
  <2>1. UNCHANGED <<chain, wrap, made, op>>
    BY <1>5 DEF PrepareStep, RestoreMissing, SkipPlain, Export, SwapOut, SwapIn, SwapUndo,
       FindOurs, FindForeign, Restore, roots
  <2> QED BY <2>1, <1>k, CustodyKept
<1>6. ASSUME NEW l \in Locks, Unlock(l) PROVE Kept'
  <2>1. wrap[l] = made
    BY <1>6, <1>b, <1>z DEF Unlock, HeldUnderLast
  <2> QED BY <1>6, <2>1, <1>k DEF Unlock, Kept, OpHolds, roots
<1>7. ASSUME NEW l \in Locks, SetLock(l) PROVE Kept'
  BY <1>7, <1>k DEF SetLock, Locking, Kept, OpHolds, HelloLocked, roots
<1>8. ASSUME NEW l \in Locks, ClearLock(l) PROVE Kept'
  <2>1. HelloLocked => wrap["hello"] = made
    BY <1>b, <1>z DEF HelloLocked, HeldUnderLast
  <2> QED BY <1>8, <2>1, <1>k DEF ClearLock, Clearing, Kept, OpHolds, PinLocked, roots
<1>9. CASE WriteWrap
  <2>1. CASE wrap' = [wrap EXCEPT ![op.lock] = op.dek] /\ op'.do = "set" /\ op'.lock = op.lock
             /\ op'.step \in {"verify", "drop"}
    BY <1>9, <2>1, <1>a, <1>d DEF WriteWrap, Kept, OpHolds
  <2>2. CASE wrap' = wrap /\ op'.do = "none"
    BY <1>9, <2>2, <1>k DEF WriteWrap, Kept, OpHolds
  <2>3. CASE Tears(op.lock, OtherCopies(op.lock)) /\ op'.do = "none"
    <3>1. op.lock \in {"pin", "hello"}
      BY <1>9, <1>d DEF WriteWrap
    <3>2. OtherCopies(op.lock) \in SUBSET {chain, wrap["pin"], wrap["hello"]}
      BY DEF OtherCopies
    <3>3. wrap' = [wrap EXCEPT ![op.lock] = Torn] /\ made \in OtherCopies(op.lock)
      BY <2>3, <3>1, <3>2, <1>t
    <3>4. made \in {chain, wrap'["pin"], wrap'["hello"]}
      BY <3>1, <3>3, <1>a DEF OtherCopies
    <3>5. made' = made /\ chain' = chain
      BY <1>9 DEF WriteWrap
    <3> QED BY <2>3, <3>4, <3>5 DEF Kept, OpHolds
  <2> QED BY <1>9, <2>1, <2>2, <2>3 DEF WriteWrap, Locking, OpEnds
<1>10. CASE VerifyWrap
  <2>1. CASE wrap' = wrap /\ op'.do = "set" /\ op'.lock = op.lock /\ op'.step = "drop"
    BY <1>10, <2>1, <1>k DEF VerifyWrap, Kept, OpHolds
  <2>2. CASE wrap' = [wrap EXCEPT !["pin"] = NoKey] /\ op'.do = "none"
             /\ OtherCopies("pin") \cap Key # {}
    <3>1. made \in {chain, wrap["hello"]}
      BY <2>2, <1>b, <1>z DEF OtherCopies, HeldUnderLast
    <3>2. wrap'["hello"] = wrap["hello"] /\ made' = made /\ chain' = chain
      BY <1>10, <2>2, <1>a DEF VerifyWrap
    <3> QED BY <2>2, <3>1, <3>2 DEF Kept, OpHolds
  <2> QED BY <1>10, <2>1, <2>2 DEF VerifyWrap, Locking, OpEnds
<1>11. CASE CounterFails
  <2> DEFINE copies == IF op.do = "set" /\ op.step = "verify" THEN {wrap["hello"]} ELSE OtherCopies("pin")
  <2>1. copies \in SUBSET {chain, wrap["hello"]}
    BY DEF OtherCopies
  <2>2. wrap' = [wrap EXCEPT !["pin"] = Torn] /\ made \in copies
    BY <1>11, <2>1, <1>t DEF CounterFails
  <2>3. /\ wrap'["hello"] = wrap["hello"] /\ wrap'["pin"] = Torn /\ UNCHANGED <<made, chain, op>>
    BY <1>11, <2>2, <1>a DEF CounterFails
  <2>4. /\ op.do = "none" \/ op.step \in {"write", "verify"} \/ op.lock = "pin"
        /\ op.do = "set" => op.step \in {"write", "verify"}
    BY <1>11, <1>a DEF CounterFails, PinInUse, OpRec
  <2>5. op.do = "set" /\ op.step = "verify" => wrap["hello"] = made
    BY <2>2
  <2>6. made \in {chain, wrap["hello"]}
    BY <2>1, <2>2
  <2> HIDE DEF copies
  <2>7. OpHolds'
    BY <2>3, <2>4, <2>5, <1>k, <1>z, <1>d DEF Kept, OpHolds, PinLocked, HelloLocked
  <2> QED BY <2>3, <2>6, <2>7 DEF Kept
<1>12. CASE DropChain
  <2>1. op'.do = "none" /\ UNCHANGED <<wrap, made>>
    BY <1>12 DEF DropChain, OpEnds
  <2>2. made \in {wrap[op.lock], wrap["hello"]}
    BY <1>12, <1>k DEF DropChain, Kept, OpHolds
  <2>3. op.lock \in {"pin", "hello"}
    BY <1>12, <1>d DEF DropChain
  <2>4. made \in {wrap["pin"], wrap["hello"]}
    BY <2>2, <2>3
  <2> QED BY <2>1, <2>4 DEF Kept, OpHolds
<1>13. CASE StoreChain
  <2>1. op.dek = made /\ UNCHANGED <<wrap, made>>
    BY <1>13, <1>d DEF StoreChain
  <2> QED BY <1>13, <2>1, <1>k DEF StoreChain, Clearing, OpEnds, Kept, OpHolds
<1>14. CASE RemoveWrap
  <2>1. op'.do = "none" /\ UNCHANGED <<chain, made>> /\ op.lock \in {"pin", "hello"}
    BY <1>14, <1>d DEF RemoveWrap, OpEnds
  <2>2. CASE wrap' = wrap
    BY <2>1, <2>2, <1>k DEF Kept, OpHolds
  <2>3. CASE chain = made
    BY <2>1, <2>3 DEF Kept, OpHolds
  <2>4. CASE wrap' = [wrap EXCEPT !["pin"] = NoKey] /\ wrap["hello"] = made
    BY <2>1, <2>4, <1>a DEF Kept, OpHolds
  <2>5. CASE wrap' = [wrap EXCEPT !["hello"] = NoKey] /\ wrap["pin"] = made
    BY <2>1, <2>5, <1>a DEF Kept, OpHolds
  <2>6. CASE wrap' = [wrap EXCEPT !["hello"] = NoKey] /\ wrap["pin"] = Torn /\ chain # NoKey
    BY <2>1, <2>3, <2>6, <1>b DEF HeldUnderLast
  <2>7. \/ chain = made
        \/ IF op.lock = "pin" THEN wrap["hello"] = made ELSE PinLocked
    BY <1>14, <1>k DEF RemoveWrap, Kept, OpHolds
  <2>8. PinLocked => wrap["pin"] \in {Torn, made}
    BY <1>b DEF PinLocked, HeldUnderLast
  <2> QED BY <1>14, <2>1, <2>2, <2>3, <2>4, <2>5, <2>6, <2>7, <2>8 DEF RemoveWrap
<1>15. CASE Quits \/ Crash
  <2>1. op'.do = "none" /\ UNCHANGED <<chain, wrap, made>>
    BY <1>15 DEF Quits, Crash, Off, roots
  <2> QED BY <2>1, <1>k DEF Kept, OpHolds
<1>16. CASE CrashInWrite
  <2>1. PICK l \in {"pin", "hello"} : Tears(l, OtherCopies(l))
    BY <1>16, <1>d DEF CrashInWrite
  <2>2. OtherCopies(l) \in SUBSET {chain, wrap["pin"], wrap["hello"]}
    BY DEF OtherCopies
  <2>3. wrap' = [wrap EXCEPT ![l] = Torn] /\ made \in OtherCopies(l)
    BY <2>1, <2>2, <1>t
  <2>4. made \in {chain, wrap'["pin"], wrap'["hello"]}
    BY <2>3, <1>a DEF OtherCopies
  <2>5. op'.do = "none" /\ UNCHANGED <<chain, made>>
    BY <1>16 DEF CrashInWrite, Off
  <2> QED BY <2>4, <2>5 DEF Kept, OpHolds
<1>17. CASE ChainReset
  BY <1>17 DEF ChainReset, Harmed
<1>18. CASE UNCHANGED vars
  BY <1>18, <1>k, CustodyKept DEF vars, roots
<1> QED BY <1>1, <1>2, <1>3, <1>4, <1>5, <1>6, <1>7, <1>8, <1>9, <1>10, <1>11, <1>12, <1>13,
   <1>14, <1>15, <1>16, <1>17, <1>18 DEF Next, Command

-----------------------------------------------------------------------------
(* Theorems *)

\* The initial states satisfy the inductive invariant.
LEMMA InitIInv == Init => IInv
<1> SUFFICES ASSUME Init PROVE IInv
  OBVIOUS
<1>1. TypeOK
  <2>1. [Fresh(NoKey) EXCEPT !.own = TRUE] \in File /\ NoFile \in File
    BY FreshType, NoFileType
  <2>2. FilesOK /\ born \subseteq Account
    BY <2>1 DEF Init, FilesOK
  <2>3. RootsOK /\ SessionOK /\ WorkOK /\ op \in OpRec
    BY DEF Init, RootsOK, SessionOK, WorkOK, Mode, Place, Pass, OpRec, NoKey
  <2>4. truth \in [Account -> SUBSET Msg] /\ harm \subseteq Harm /\ used \in Spent
    BY DEF Init, Spent
  <2> QED BY <2>2, <2>3, <2>4, TypeParts
<1>2. KeyInv
  BY DEF Init, KeyInv, LastKey, FilesUnderLast, HeldUnderLast, OffHoldsNothing, Fresh,
     NoFile, NoKey, Torn, Live
<1>3. Custody
  BY DEF Init, Custody, Kept, OpHolds, NoKey
<1> QED BY <1>1, <1>2, <1>3 DEF IInv

\* The inductive invariant: the one key in use is the last one made, and it is
\* in the keychain or in a wrap.
THEOREM Invariant == Spec => []IInv
<1>1. IInv /\ [Next]_vars => IInv'
  BY TypeStep, KeyStep, CustodyStep DEF IInv
<1> QED BY <1>1, InitIInv, PTL DEF Spec

\* The type invariant, for any accounts, locks and bounds.
THEOREM TypeCorrect == Spec => []TypeOK
<1>1. IInv => TypeOK
  BY DEF IInv
<1> QED BY <1>1, Invariant, PTL

\* Key policy (db_key.rs, decide_key): no two databases are ever encrypted with
\* different keys, whatever happens to the keychain, the wraps or the files,
\* unless a key was made while the accounts directory could not be read.
THEOREM KeysNeverMix == Spec => []OneKey
<1>1. IInv => OneKey
  BY DEF IInv, KeyInv, LastKey, FilesUnderLast, OneKey
<1> QED BY <1>1, Invariant, PTL

\* Custody (pin_set, pin_clear, hello_set, hello_clear, hello_unlock): wherever
\* the process ends in a command, the key of every encrypted database is where
\* the next start-up looks for it, or, beside a PIN wrap that cannot be read, in
\* the keychain or the Hello wrap.  Excepted are a reset of the keychain, a key
\* made while the directory could not be read, and a tear of the only copy.
THEOREM KeyIsKept == Spec => []KeyKept
<1>1. IInv => KeyKept
  <2> SUFFICES ASSUME IInv, harm \cap {"reset", "second", "lost"} = {},
                      NEW a \in Account, live[a].form = "enc"
               PROVE  live[a].key \in IF wrap["pin"] = Torn THEN {chain, wrap["hello"]} ELSE Reachable
    BY DEF KeyKept
  <2>1. LastKey
    BY DEF IInv, KeyInv
  <2>2. live[a].key = made /\ made # NoKey /\ HeldUnderLast
    BY <2>1 DEF LastKey, FilesUnderLast
  <2>3. made \in {chain, wrap["pin"], wrap["hello"]}
    BY <2>2 DEF IInv, Custody, Kept
  <2>4. made \in Key
    BY <2>2 DEF IInv, TypeOK
  <2>5. NoKey # Torn /\ NoKey \notin Key /\ Torn \notin Key
    BY DEF NoKey, Torn, Key
  <2>6. CASE wrap["pin"] = Torn
    BY <2>2, <2>3, <2>4, <2>5, <2>6
  <2>7. CASE wrap["pin"] # Torn
    <3>1. /\ PinLocked => wrap["pin"] = made
          /\ HelloLocked => wrap["hello"] = made
      BY <2>2, <2>5, <2>7 DEF PinLocked, HelloLocked, HeldUnderLast
    <3>2. ~PinLocked => wrap["pin"] # made
      BY <2>2 DEF PinLocked
    <3>3. ~HelloLocked => wrap["hello"] # made
      BY <2>4 DEF HelloLocked
    <3>4. made \in Reachable
      BY <2>3, <2>4, <3>1, <3>2, <3>3 DEF Reachable
    <3> QED BY <2>2, <2>7, <3>4
  <2> QED BY <2>6, <2>7
<1> QED BY <1>1, Invariant, PTL

-----------------------------------------------------------------------------
(* The files of an account *)

\* A database that is the account's own is a real one; a backup is the
\* plaintext database of the account; an account without an entry has no files.
OwnFiles(a) ==
    /\ live[a].own => live[a].form \in {"plain", "enc"}
    /\ bak[a].own <=> IsFile(bak[a])
    /\ IsFile(bak[a]) => bak[a].form = "plain"
    /\ a \notin born => ~IsFile(live[a]) /\ ~IsFile(bak[a])

\* dc.db is up to date when it is the account's own, and a plaintext one is.
Sound(a) ==
    /\ live[a].own => live[a].data = truth[a]
    /\ live[a].form = "plain" => live[a].own
    /\ Held(a)
Whole(a) == OwnFiles(a) /\ (a \in born => Sound(a))
WholeInv == harm \cap {"rollback", "fresh"} = {} => \A a \in Account : Whole(a)

\* What migrate has done so far, between its renames.
Midway(a) ==
    /\ at[a] = "exported" => live[a].form = "plain" /\ enc[a].own = live[a].own /\ enc[a].data = live[a].data
    /\ at[a] = "swapping" => enc[a].own = bak[a].own /\ enc[a].data = bak[a].data
    /\ at[a] \in {"swapping", "undo", "restore"} => ~IsFile(live[a]) /\ IsFile(bak[a])
    /\ at[a] \in {"exported", "swapping"} => key # NoKey /\ enc[a].form = "enc" /\ enc[a].key = key
MidwayInv == mode \in Live => \A a \in Account : Midway(a)

\* What prepare has counted is true of the databases it is done with, unless it
\* could not list them.
Counted ==
    mode \in Live /\ key # NoKey /\ pass.listed =>
        /\ pass.some => \E a \in Account : at[a] = "done" /\ Opens(live[a], key)
        /\ ~pass.failed => \A a \in Account : at[a] = "done" => live[a].form # "plain"

\* A step of prepare is about one account, which it is not done with.
LEMMA PrepareOne ==
    ASSUME TypeOK, NEW a \in Account, PrepareStep(a)
    PROVE  /\ mode \in Live /\ at[a] # "done" /\ UNCHANGED <<born, mode, key, truth>> /\ harm \subseteq harm'
           /\ \A b \in Account : b # a => /\ live'[b] = live[b] /\ bak'[b] = bak[b]
                                          /\ enc'[b] = enc[b] /\ at'[b] = at[b]
<1>a. /\ live \in [Account -> File] /\ bak \in [Account -> File] /\ enc \in [Account -> File]
      /\ at \in [Account -> Place]
  BY TypeParts DEF FilesOK, WorkOK
<1>1. UNCHANGED <<born, mode, key, truth>> /\ harm \subseteq harm'
  BY DEF PrepareStep, RestoreMissing, SkipPlain, Export, SwapOut, SwapIn, SwapUndo,
     FindOurs, FindForeign, Restore, session, files
<1>2. mode \in Live /\ at[a] # "done"
  BY DEF PrepareStep, RestoreMissing, SkipPlain, Export, SwapOut, SwapIn, SwapUndo,
     FindOurs, FindForeign, Restore, Turn, Looks, Live
<1>3. \A b \in Account : b # a => at'[b] = at[b]
  BY <1>a DEF PrepareStep, RestoreMissing, SkipPlain, Export, SwapOut, SwapIn, SwapUndo,
     FindOurs, FindForeign, Restore, Goes, Failed
<1>4. \A b \in Account : b # a => live'[b] = live[b]
  BY <1>a DEF PrepareStep, RestoreMissing, SkipPlain, Export, SwapOut, SwapIn, SwapUndo,
     FindOurs, FindForeign, Restore, files
<1>5. \A b \in Account : b # a => bak'[b] = bak[b] /\ enc'[b] = enc[b]
  BY <1>a DEF PrepareStep, RestoreMissing, SkipPlain, Export, SwapOut, SwapIn, SwapUndo,
     FindOurs, FindForeign, Restore, files
<1> QED BY <1>1, <1>2, <1>3, <1>4, <1>5

\* What a step of prepare does to the files of its account.
LEMMA PrepareMoves ==
    ASSUME TypeOK, NEW a \in Account, PrepareStep(a)
    PROVE  \/ /\ at[a] = "look" /\ ~IsFile(live[a])
              /\ live'[a] = bak[a] /\ bak'[a] = NoFile /\ enc'[a] = enc[a] /\ at'[a] = "look" /\ pass' = pass
           \/ /\ ~IsFile(live[a]) \/ key = NoKey \/ live[a].form = "enc"
              /\ live'[a] = live[a] /\ bak'[a] = bak[a] /\ at'[a] = "done" /\ pass' = pass
           \/ /\ live[a].form = "plain" /\ key # NoKey /\ live'[a] = live[a] /\ bak'[a] = bak[a]
              /\ enc'[a] = [live[a] EXCEPT !.form = "enc", !.key = key] /\ at'[a] = "exported" /\ pass' = pass
           \/ /\ live'[a] = live[a] /\ bak'[a] = bak[a] /\ at'[a] = "done"
              /\ pass' = [pass EXCEPT !.failed = TRUE]
           \/ /\ at[a] = "exported" /\ bak'[a] = live[a] /\ live'[a] = NoFile /\ enc'[a] = enc[a]
              /\ at'[a] = "swapping" /\ pass' = pass
           \/ /\ at[a] = "swapping" /\ live'[a] = enc[a] /\ bak'[a] = bak[a] /\ at'[a] = "done"
              /\ pass' = [pass EXCEPT !.some = TRUE]
           \/ /\ at[a] = "swapping" /\ live'[a] = live[a] /\ bak'[a] = bak[a] /\ at'[a] = "undo" /\ pass' = pass
           \/ /\ at[a] = "undo" /\ live'[a] = bak[a] /\ bak'[a] = NoFile /\ at'[a] = "done"
              /\ pass' = [pass EXCEPT !.failed = TRUE]
           \/ /\ key # NoKey /\ Opens(live[a], key) /\ live'[a] = live[a]
              /\ bak'[a] = bak[a] \/ (bak'[a] = NoFile /\ Superseded(a))
              /\ at'[a] = "done" /\ pass' = [pass EXCEPT !.some = TRUE]
           \/ /\ live[a].form = "enc" /\ IsFile(bak[a]) /\ live'[a] = NoFile /\ bak'[a] = bak[a]
              /\ live[a].data = bak[a].data \/ "rollback" \in harm'
              /\ at'[a] = "restore" /\ pass' = pass
           \/ /\ at[a] = "restore" /\ live'[a] = bak[a] /\ bak'[a] = NoFile /\ at'[a] = "again" /\ pass' = pass
           \/ /\ at[a] = "restore" /\ live'[a] = Empty /\ bak'[a] = bak[a] /\ at'[a] = "again" /\ pass' = pass
<1>a. /\ live \in [Account -> File] /\ bak \in [Account -> File] /\ enc \in [Account -> File]
      /\ at \in [Account -> Place]
  BY TypeParts DEF FilesOK, WorkOK
<1>1. CASE RestoreMissing(a)
  BY <1>1, <1>a DEF RestoreMissing, Turn, Goes
<1>2. CASE SkipPlain(a)
  BY <1>2, <1>a DEF SkipPlain, Goes, files
<1>3. CASE Export(a)
  BY <1>3, <1>a DEF Export, Goes, Failed
<1>4. CASE SwapOut(a)
  BY <1>4, <1>a DEF SwapOut, Turn, Goes, Failed
<1>5. CASE SwapIn(a)
  BY <1>5, <1>a DEF SwapIn, Turn, Goes
<1>6. CASE SwapUndo(a)
  BY <1>6, <1>a DEF SwapUndo, Turn, Goes, Failed
<1>7. CASE FindOurs(a)
  BY <1>7, <1>a DEF FindOurs, Goes
<1>8. CASE FindForeign(a)
  BY <1>8, <1>a DEF FindForeign, Goes
<1>9. CASE Restore(a)
  BY <1>9, <1>a DEF Restore, Turn, Goes
<1> QED BY <1>1, <1>2, <1>3, <1>4, <1>5, <1>6, <1>7, <1>8, <1>9 DEF PrepareStep

\* The steps outside prepare, by what they do to the files.
LEMMA FileKinds ==
    ASSUME TypeOK, [Next]_vars
    PROVE  \/ \E a \in Account : PrepareStep(a) \/ AddAccount(a)
           \/ \E a \in Account, rows \in SUBSET Msg : Changes(a, rows)
           \/ \E k \in {NoKey} \cup Key, m \in Live : Prepare(k, m) /\ UNCHANGED <<files, truth>> /\ harm \subseteq harm'
           \/ \E k \in {NoKey} \cup Key :
                 /\ CoreOpens(k) /\ mode' \notin Live /\ key' = k /\ UNCHANGED <<bak, enc, born, truth, pass>>
                 /\ mode' = "open" /\ k # NoKey =>
                       mode \in Live /\ UseKey /\ k = key /\ \A a \in Account : at[a] = "done"
           \/ ListFails
           \/ /\ UNCHANGED <<files, truth, work>> /\ harm \subseteq harm'
              /\ UNCHANGED session \/ mode' \notin Live \cup {"open"}
<1>a. live \in [Account -> File] /\ SessionOK /\ RootsOK
  BY TypeParts DEF FilesOK
<1> DEFINE Begins == \E k \in {NoKey} \cup Key, m \in Live : Prepare(k, m) /\ UNCHANGED <<files, truth>> /\ harm \subseteq harm'
           Starts == \E k \in {NoKey} \cup Key :
                        /\ CoreOpens(k) /\ mode' \notin Live /\ key' = k /\ UNCHANGED <<bak, enc, born, truth, pass>>
                        /\ mode' = "open" /\ k # NoKey =>
                              mode \in Live /\ UseKey /\ k = key /\ \A a \in Account : at[a] = "done"
           Leaves == /\ UNCHANGED <<files, truth, work>> /\ harm \subseteq harm'
                     /\ UNCHANGED session \/ mode' \notin Live \cup {"open"}
<1>1. CASE Startup
  <2>1. \/ Prepare(chain, "boot") \/ Prepare(NoKey, "boot")
        \/ made < MaxKeys /\ Prepare(made + 1, "boot")
    BY <1>1 DEF Startup, DecideKey
  <2>2. chain \in {NoKey} \cup Key /\ NoKey \in {NoKey} \cup Key
    BY <1>a DEF RootsOK
  <2>3. made < MaxKeys => made + 1 \in {NoKey} \cup Key
    BY <1>a, DatabaseKeyAssumption DEF RootsOK, Key, NoKey
  <2>4. UNCHANGED <<files, truth>> /\ harm \subseteq harm' /\ "boot" \in Live
    BY <1>1, HarmGrows DEF Startup, Live
  <2> QED BY <2>1, <2>2, <2>3, <2>4
<1>2. CASE StartLocked
  <2>1. NoKey \in {NoKey} \cup Key /\ "locked" \notin Live
    BY DEF Live
  <2> QED BY <1>2, <2>1 DEF StartLocked, work
<1>3. CASE BootEnds
  <2>1. key' \in {NoKey} \cup Key /\ "open" \notin Live /\ "boot" \in Live
    BY <1>3, <1>a DEF BootEnds, SessionOK, Live
  <2>2. CoreOpens(key') /\ mode' \notin Live /\ UNCHANGED <<bak, enc, born, truth, pass>>
    BY <1>3, <2>1 DEF BootEnds, work
  <2>3. key' # NoKey => mode \in Live /\ UseKey /\ key' = key /\ \A a \in Account : at[a] = "done"
    BY <1>3, <2>1 DEF BootEnds
  <2>4. PICK k \in {NoKey} \cup Key : k = key'
    BY <2>1
  <2>5. CoreOpens(k)
    BY <2>2, <2>4 DEF CoreOpens
  <2> QED BY <2>2, <2>3, <2>4, <2>5
<1>4. CASE UnlockEnds
  <2>1. CASE UseKey
    <3>1. key \in {NoKey} \cup Key /\ "open" \notin Live /\ "unlock" \in Live
      BY <1>a DEF SessionOK, Live
    <3>2. /\ CoreOpens(key) /\ mode' = "open" /\ key' = key /\ UNCHANGED <<bak, enc, born, truth, pass>>
          /\ mode \in Live /\ \A a \in Account : at[a] = "done"
      BY <1>4, <2>1, <3>1 DEF UnlockEnds, work
    <3> QED BY <2>1, <3>1, <3>2
  <2>2. CASE ~UseKey
    BY <1>4, <2>2 DEF UnlockEnds, Live, files
  <2> QED BY <2>1, <2>2
<1>5. CASE LockNow
  <2>1. NoKey \in {NoKey} \cup Key /\ "locked" \notin Live
    BY DEF Live
  <2> QED BY <1>5, <2>1 DEF LockNow, work
<1>6. ASSUME NEW a \in Account, NEW m \in Msg, Receives(a, m) \/ Deletes(a, m)
      PROVE  \E rows \in SUBSET Msg : Changes(a, rows)
  <2>1. live[a].data \subseteq Msg
    BY <1>a DEF File
  <2>2. live[a].data \cup {m} \in SUBSET Msg /\ live[a].data \ {m} \in SUBSET Msg
    BY <2>1
  <2> QED BY <1>6, <2>2 DEF Receives, Deletes
<1>7. ASSUME NEW l \in Locks, Unlock(l) PROVE Begins
  <2>1. wrap[l] \in Key /\ Prepare(wrap[l], "unlock") /\ UNCHANGED <<files, truth, harm>>
    BY <1>7 DEF Unlock
  <2>2. "unlock" \in Live
    BY DEF Live
  <2> QED BY <2>1, <2>2
<1>8. ASSUME NEW l \in Locks, SetLock(l) \/ ClearLock(l) PROVE Leaves
  BY <1>8 DEF SetLock, ClearLock
<1>9. CASE Command
  BY <1>9, HarmGrows DEF Command, WriteWrap, VerifyWrap, CounterFails, DropChain, StoreChain, RemoveWrap
<1>10. CASE Quits \/ Crash \/ CrashInWrite
  BY <1>10, HarmGrows DEF Quits, Crash, CrashInWrite, Off, Live
<1>11. CASE ChainReset
  BY <1>11 DEF ChainReset, Harmed
<1>12. CASE UNCHANGED vars
  BY <1>12 DEF vars
<1> QED BY <1>1, <1>2, <1>3, <1>4, <1>5, <1>6, <1>7, <1>8, <1>9, <1>10, <1>11, <1>12 DEF Next

\* The files that are not there, and the ones the core creates.
LEMMA FileFields ==
    /\ NoFile.form = "none" /\ NoFile.own = FALSE
    /\ Empty.form = "empty" /\ Empty.own = FALSE
    /\ \A k : Fresh(k).own = FALSE /\ Fresh(k).key = k
    /\ \A k : Fresh(k).form = IF k = NoKey THEN "plain" ELSE "enc"
BY DEF NoFile, Empty, Fresh

\* Between its renames migrate finds the files as it left them.
LEMMA MidwayStep == TypeOK /\ MidwayInv /\ [Next]_vars => MidwayInv'
<1> SUFFICES ASSUME TypeOK, MidwayInv, [Next]_vars PROVE MidwayInv'
  OBVIOUS
<1>a. live \in [Account -> File] /\ bak \in [Account -> File] /\ enc \in [Account -> File]
  BY TypeParts DEF FilesOK
<1>1. ASSUME NEW a \in Account, PrepareStep(a) PROVE MidwayInv'
  <2> SUFFICES ASSUME NEW b \in Account PROVE Midway(b)'
    BY DEF MidwayInv
  <2>1. Midway(b) /\ Midway(a) /\ key' = key
    BY <1>1, PrepareOne DEF MidwayInv
  <2>2. CASE b # a
    <3>1. live'[b] = live[b] /\ bak'[b] = bak[b] /\ enc'[b] = enc[b] /\ at'[b] = at[b]
      BY <1>1, <2>2, PrepareOne
    <3> QED BY <2>1, <3>1 DEF Midway, IsFile
  <2>3. Midway(a)'
    <3>1. live[a] \in File /\ [live[a] EXCEPT !.form = "enc", !.key = key].form = "enc"
      BY <1>a DEF File
    <3>2. LET f == [live[a] EXCEPT !.form = "enc", !.key = key]
          IN  f.key = key /\ f.own = live[a].own /\ f.data = live[a].data
      BY <1>a DEF File
    <3>3. CASE at'[a] = "exported"
      BY <1>1, <2>1, <3>1, <3>2, <3>3, PrepareMoves DEF Midway, IsFile
    <3>4. CASE at'[a] = "swapping"
      BY <1>1, <2>1, <3>4, PrepareMoves, FileFields DEF Midway, IsFile
    <3>5. CASE at'[a] \in {"undo", "restore"}
      BY <1>1, <2>1, <3>5, PrepareMoves, FileFields DEF Midway, IsFile
    <3>6. CASE at'[a] \notin {"exported", "swapping", "undo", "restore"}
      BY <3>6 DEF Midway
    <3> QED BY <3>3, <3>4, <3>5, <3>6
  <2> QED BY <2>2, <2>3
<1>2. ASSUME NEW k, NEW m, Prepare(k, m) PROVE MidwayInv'
  BY <1>2 DEF Prepare, MidwayInv, Midway
<1>3. CASE mode' \notin Live
  BY <1>3 DEF MidwayInv
<1>4. CASE UNCHANGED <<files, work, session>>
  BY <1>4 DEF MidwayInv, Midway, files, work, session, IsFile
<1>5. ASSUME NEW a \in Account, AddAccount(a) PROVE mode' \notin Live
  BY <1>5 DEF AddAccount, session, Live
<1>6. ASSUME NEW a \in Account, NEW rows, Changes(a, rows) PROVE mode' \notin Live
  BY <1>6 DEF Changes, IsOpen, session, Live
<1>7. CASE ListFails
  BY <1>7 DEF ListFails, MidwayInv, Midway
<1> QED BY <1>1, <1>2, <1>3, <1>4, <1>5, <1>6, <1>7, FileKinds DEF files, work

\* The counts of the pass stay true while the pass goes on.
LEMMA CountedStep == TypeOK /\ MidwayInv /\ Counted /\ [Next]_vars => Counted'
<1> SUFFICES ASSUME TypeOK, MidwayInv, Counted, [Next]_vars PROVE Counted'
  OBVIOUS
<1>1. ASSUME NEW a \in Account, PrepareStep(a) PROVE Counted'
  <2>1. /\ mode \in Live /\ at[a] # "done" /\ UNCHANGED <<mode, key>>
        /\ \A b \in Account : b # a => live'[b] = live[b] /\ at'[b] = at[b]
    BY <1>1, PrepareOne
  <2>2. Midway(a) /\ pass \in Pass
    BY <2>1, TypeParts DEF MidwayInv, WorkOK
  <2>l. pass'.listed = pass.listed
    BY <1>1, <2>2, PrepareMoves DEF Pass
  <2> SUFFICES ASSUME key # NoKey, pass.listed PROVE Counted'
    BY <2>1, <2>l DEF Counted
  <2>3. /\ pass'.some = pass.some \/ (at'[a] = "done" /\ Opens(live'[a], key))
        /\ pass'.failed = pass.failed \/ pass'.failed
        /\ at'[a] = "done" => pass'.failed \/ live'[a].form # "plain"
    BY <1>1, <2>2, PrepareMoves DEF Midway, IsFile, Opens, Pass
  <2>4. ASSUME pass'.some PROVE \E b \in Account : at'[b] = "done" /\ Opens(live'[b], key)
    <3>1. CASE pass.some
      <4>1. PICK b \in Account : at[b] = "done" /\ Opens(live[b], key)
        BY <2>1, <3>1 DEF Counted
      <4> QED BY <2>1, <4>1
    <3> QED BY <2>3, <2>4, <3>1
  <2>5. ASSUME ~pass'.failed, NEW b \in Account, at'[b] = "done" PROVE live'[b].form # "plain"
    BY <2>1, <2>3, <2>5 DEF Counted
  <2> QED BY <2>1, <2>4, <2>5 DEF Counted, Opens
<1>2. ASSUME NEW k, NEW m, Prepare(k, m), UNCHANGED files PROVE Counted'
  BY <1>2 DEF Prepare, Counted, files, IsFile
<1>3. CASE mode' \notin Live
  BY <1>3 DEF Counted
<1>4. CASE UNCHANGED <<files, work, session>>
  BY <1>4 DEF Counted, files, work, session, Opens
<1>5. ASSUME NEW a \in Account, AddAccount(a) PROVE mode' \notin Live
  BY <1>5 DEF AddAccount, session, Live
<1>6. ASSUME NEW a \in Account, NEW rows, Changes(a, rows) PROVE mode' \notin Live
  BY <1>6 DEF Changes, IsOpen, session, Live
<1>7. CASE ListFails
  <2>1. pass'.listed = FALSE
    BY <1>7, TypeParts DEF ListFails, WorkOK, Pass
  <2> QED BY <2>1 DEF Counted
<1> QED BY <1>1, <1>2, <1>3, <1>4, <1>5, <1>6, <1>7, FileKinds DEF files, work

\* A session with a key begins after a pass whose counts allow it.
LEMMA StrandedStep == TypeOK /\ Counted /\ NotStranded /\ [Next]_vars => NotStranded'
<1> SUFFICES ASSUME TypeOK, Counted, NotStranded, [Next]_vars PROVE NotStranded'
  OBVIOUS
<1>a. live \in [Account -> File]
  BY TypeParts DEF FilesOK
<1>1. ASSUME NEW a \in Account, PrepareStep(a) PROVE NotStranded'
  <2>1. mode' # "open"
    BY <1>1, PrepareOne DEF Live
  <2> QED BY <2>1 DEF NotStranded
<1>2. ASSUME NEW a \in Account, AddAccount(a) PROVE NotStranded'
  <2>1. key' = key /\ pass' = pass /\ live'[a] = [Fresh(key) EXCEPT !.own = TRUE]
    BY <1>2, <1>a DEF AddAccount, session, work
  <2>2. key # NoKey => Opens(live'[a], key)
    BY <2>1 DEF Opens, Fresh, NoFile
  <2> QED BY <2>1, <2>2 DEF NotStranded, Opens
<1>3. ASSUME NEW a \in Account, NEW rows, Changes(a, rows) PROVE NotStranded'
  <2>1. UNCHANGED <<mode, key, pass>>
    BY <1>3 DEF Changes, session, work
  <2>2. \A b \in Account : live'[b].form = live[b].form /\ live'[b].key = live[b].key
    BY <1>3, <1>a DEF Changes, File
  <2> QED BY <2>1, <2>2 DEF NotStranded, Opens
<1>4. ASSUME NEW k, NEW m \in Live, Prepare(k, m) PROVE NotStranded'
  BY <1>4 DEF Prepare, NotStranded, Live
<1>5. ASSUME NEW k, CoreOpens(k), key' = k, pass' = pass,
             mode' = "open" /\ k # NoKey =>
                 mode \in Live /\ UseKey /\ k = key /\ \A a \in Account : at[a] = "done"
      PROVE  NotStranded'
  <2> SUFFICES ASSUME mode' = "open", k # NoKey, pass.listed
               PROVE  \/ \E a \in Account : Opens(live'[a], k)
                      \/ \A a \in Account : live'[a].form # "plain"
    BY <1>5 DEF NotStranded, Opens
  <2>1. \A a \in Account :
            \/ live'[a] = live[a]
            \/ live[a].form \in {"none", "empty"} /\ live'[a] = Fresh(k)
    BY <1>5 DEF CoreOpens
  <2>2. mode \in Live /\ UseKey /\ k = key /\ \A a \in Account : at[a] = "done"
    BY <1>5
  <2>3. CASE pass.some
    <3>1. PICK a \in Account : Opens(live[a], key)
      BY <2>2, <2>3 DEF Counted
    <3> QED BY <2>1, <2>2, <3>1 DEF Opens
  <2>4. CASE ~pass.failed
    <3>1. \A a \in Account : live[a].form # "plain"
      BY <2>2, <2>4 DEF Counted
    <3> QED BY <2>1, <3>1, FileFields
  <2> QED BY <2>2, <2>3, <2>4 DEF UseKey
<1>6. CASE UNCHANGED <<files, work>> /\ (UNCHANGED session \/ mode' \notin Live \cup {"open"})
  BY <1>6 DEF NotStranded, files, session, work, Opens
<1>7. CASE ListFails
  BY <1>7 DEF ListFails, session, NotStranded
<1> QED BY <1>1, <1>2, <1>3, <1>4, <1>5, <1>6, <1>7, FileKinds DEF files

\* A step of prepare keeps the rows of its account in one of its files.
LEMMA PrepareWhole ==
    ASSUME TypeOK, NEW a \in Account, PrepareStep(a), Midway(a), Whole(a), "rollback" \notin harm'
    PROVE  Whole(a)'
<1>a. live[a] \in File /\ bak[a] \in File /\ enc[a] \in File
  BY TypeParts DEF FilesOK
<1>b. a \in born' <=> a \in born
  BY PrepareOne
<1>c. truth'[a] = truth[a]
  BY PrepareOne
<1>d. /\ a \in born => (live[a].own /\ live[a].data = truth[a]) \/ (bak[a].own /\ bak[a].data = truth[a])
      /\ a \notin born => ~IsFile(live[a]) /\ ~IsFile(bak[a])
      /\ bak[a].own <=> IsFile(bak[a])
      /\ IsFile(bak[a]) => bak[a].form = "plain"
      /\ live[a].own => live[a].form \in {"plain", "enc"}
      /\ a \in born => (live[a].own => live[a].data = truth[a])
      /\ a \in born /\ live[a].form = "plain" => live[a].own
  BY DEF Whole, OwnFiles, Sound, Held
<1> DEFINE Good(l, b) ==
             /\ l.own => l.form \in {"plain", "enc"}
             /\ b.own <=> IsFile(b)
             /\ IsFile(b) => b.form = "plain"
             /\ a \notin born => ~IsFile(l) /\ ~IsFile(b)
             /\ a \in born =>
                  /\ l.own => l.data = truth[a]
                  /\ l.form = "plain" => l.own
                  /\ (l.own /\ l.data = truth[a]) \/ (b.own /\ b.data = truth[a])
<1>1. Good(live[a], bak[a])
  BY <1>d
<1>2. ~IsFile(live[a]) /\ a \in born => Good(Empty, bak[a])
  BY <1>a, <1>d, FileFields DEF IsFile
<1>3. ~IsFile(live[a]) => Good(bak[a], NoFile)
  BY <1>a, <1>d, FileFields DEF IsFile
<1>4. live[a].form = "plain" => Good(NoFile, live[a])
  BY <1>a, <1>d, FileFields DEF IsFile
<1>5. at[a] = "swapping" => Good(enc[a], bak[a])
  BY <1>a, <1>d DEF Midway, IsFile
<1>6. Superseded(a) /\ IsFile(live[a]) => Good(live[a], NoFile)
  BY <1>a, <1>d, FileFields DEF IsFile, Superseded
<1>7. live[a].form = "enc" /\ IsFile(bak[a]) /\ live[a].data = bak[a].data => Good(NoFile, bak[a])
  BY <1>a, <1>d, FileFields DEF IsFile
<1>8. at[a] = "restore" => Good(Empty, bak[a])
  BY <1>2, <1>d DEF Midway
<1>9. Good(live'[a], bak'[a])
  <2>1. \/ live'[a] = live[a] /\ bak'[a] = bak[a]
        \/ ~IsFile(live[a]) /\ live'[a] = bak[a] /\ bak'[a] = NoFile
        \/ live[a].form = "plain" /\ live'[a] = NoFile /\ bak'[a] = live[a]
        \/ at[a] = "swapping" /\ live'[a] = enc[a] /\ bak'[a] = bak[a]
        \/ Superseded(a) /\ IsFile(live[a]) /\ live'[a] = live[a] /\ bak'[a] = NoFile
        \/ /\ live[a].form = "enc" /\ IsFile(bak[a]) /\ live[a].data = bak[a].data
           /\ live'[a] = NoFile /\ bak'[a] = bak[a]
        \/ at[a] = "restore" /\ live'[a] = Empty /\ bak'[a] = bak[a]
    <3>1. key # NoKey /\ Opens(live[a], key) => IsFile(live[a])
      BY DEF Opens, IsFile
    <3>2. at[a] \in {"swapping", "undo", "restore"} => ~IsFile(live[a])
      BY DEF Midway
    <3>3. at[a] = "exported" => live[a].form = "plain"
      BY DEF Midway
    <3> QED BY <3>1, <3>2, <3>3, PrepareMoves
  <2> HIDE DEF Good
  <2> QED BY <1>1, <1>3, <1>4, <1>5, <1>6, <1>7, <1>8, <2>1
<1>10. OwnFiles(a)'
  BY <1>9, <1>b DEF OwnFiles, IsFile
<1>11. ASSUME a \in born PROVE Sound(a)'
  <2>1. /\ live'[a].own => live'[a].data = truth'[a]
        /\ live'[a].form = "plain" => live'[a].own
        /\ (live'[a].own /\ live'[a].data = truth'[a]) \/ (bak'[a].own /\ bak'[a].data = truth'[a])
    <3>1. /\ live'[a].own => live'[a].data = truth[a]
          /\ live'[a].form = "plain" => live'[a].own
          /\ (live'[a].own /\ live'[a].data = truth[a]) \/ (bak'[a].own /\ bak'[a].data = truth[a])
      BY <1>9, <1>11
    <3> HIDE DEF Good
    <3> QED BY <3>1, <1>c
  <2> HIDE DEF Good
  <2>2. Held(a)'
    BY <2>1 DEF Held
  <2> QED BY <2>1, <2>2 DEF Sound
<1> QED BY <1>10, <1>11, <1>b DEF Whole

\* Whatever the accounts, the keys and the faults: the rows stay in a file.
LEMMA WholeStep == TypeOK /\ MidwayInv /\ WholeInv /\ [Next]_vars => WholeInv'
<1> SUFFICES ASSUME TypeOK, MidwayInv, WholeInv, [Next]_vars,
                    harm' \cap {"rollback", "fresh"} = {}, NEW b \in Account
             PROVE  Whole(b)'
  BY DEF WholeInv
<1>a. live \in [Account -> File] /\ truth \in [Account -> SUBSET Msg]
  BY TypeParts DEF FilesOK
<1>b. ASSUME harm \subseteq harm' PROVE \A a \in Account : Whole(a)
  BY <1>b DEF WholeInv
<1>1. ASSUME NEW a \in Account, PrepareStep(a) PROVE Whole(b)'
  <2>1. Whole(a) /\ Whole(b) /\ Midway(a) /\ "rollback" \notin harm'
    BY <1>1, <1>b, PrepareOne DEF MidwayInv
  <2>2. CASE b # a
    <3>1. live'[b] = live[b] /\ bak'[b] = bak[b] /\ UNCHANGED <<born, truth>>
      BY <1>1, <2>2, PrepareOne
    <3> QED BY <2>1, <3>1 DEF Whole, OwnFiles, Sound, Held, IsFile
  <2> QED BY <1>1, <2>1, <2>2, PrepareWhole
<1>2. ASSUME NEW a \in Account, AddAccount(a) PROVE Whole(b)'
  <2>1. Whole(a) /\ Whole(b) /\ bak' = bak /\ born' = born \cup {a} /\ a \notin born
    BY <1>2, <1>b DEF AddAccount
  <2>2. /\ live'[a] = [Fresh(key) EXCEPT !.own = TRUE] /\ truth'[a] = {}
        /\ b # a => live'[b] = live[b] /\ truth'[b] = truth[b]
    BY <1>2, <1>a DEF AddAccount
  <2>3. live'[a].own = TRUE /\ live'[a].data = {} /\ live'[a].form \in {"plain", "enc"}
    BY <2>2 DEF Fresh, NoFile
  <2>4. CASE b = a
    BY <2>1, <2>2, <2>3, <2>4 DEF Whole, OwnFiles, Sound, Held, IsFile
  <2>5. CASE b # a
    BY <2>1, <2>2, <2>5 DEF Whole, OwnFiles, Sound, Held, IsFile
  <2> QED BY <2>4, <2>5
<1>3. ASSUME NEW a \in Account, NEW rows, Changes(a, rows) PROVE Whole(b)'
  <2>1. Whole(a) /\ Whole(b) /\ UNCHANGED <<bak, born>> /\ live[a].own
    BY <1>3, <1>b DEF Changes, IsOpen
  <2>2. /\ live'[a].own = live[a].own /\ live'[a].form = live[a].form /\ live'[a].data = rows
        /\ truth'[a] = rows
        /\ b # a => live'[b] = live[b] /\ truth'[b] = truth[b]
    BY <1>3, <1>a DEF Changes, File
  <2>3. CASE b = a
    BY <2>1, <2>2, <2>3 DEF Whole, OwnFiles, Sound, Held, IsFile
  <2>4. CASE b # a
    BY <2>1, <2>2, <2>4 DEF Whole, OwnFiles, Sound, Held, IsFile
  <2> QED BY <2>3, <2>4
<1>4. CASE UNCHANGED <<files, truth>> /\ harm \subseteq harm'
  BY <1>4, <1>b DEF Whole, OwnFiles, Sound, Held, IsFile, files
<1>5. ASSUME NEW k, CoreOpens(k), UNCHANGED <<bak, born, truth>> PROVE Whole(b)'
  <2>1. harm \subseteq harm' /\ Whole(b)
    BY <1>5, <1>b DEF CoreOpens
  <2>2. \/ live'[b] = live[b]
        \/ k # NoKey /\ live[b].form \in {"none", "empty"} /\ live'[b] = Fresh(k) /\ b \in born
    BY <1>5 DEF CoreOpens
  <2>3. CASE live'[b] = live[b]
    BY <1>5, <2>1, <2>3 DEF Whole, OwnFiles, Sound, Held, IsFile
  <2>4. CASE k # NoKey /\ live[b].form \in {"none", "empty"} /\ live'[b] = Fresh(k) /\ b \in born
    BY <1>5, <2>1, <2>4, FileFields DEF Whole, OwnFiles, Sound, Held, IsFile
  <2> QED BY <2>2, <2>3, <2>4
<1>6. CASE ListFails
  <2>1. UNCHANGED <<files, truth, harm>>
    BY <1>6 DEF ListFails
  <2> QED BY <2>1, <1>4
<1> QED BY <1>1, <1>2, <1>3, <1>4, <1>5, <1>6, FileKinds

\* The initial states satisfy the invariant of the files.
LEMMA InitFiles == Init => WholeInv /\ MidwayInv /\ Counted /\ NotStranded
<1> SUFFICES ASSUME Init PROVE WholeInv /\ MidwayInv /\ Counted /\ NotStranded
  OBVIOUS
<1>1. MidwayInv /\ Counted /\ NotStranded
  BY DEF Init, MidwayInv, Counted, NotStranded, Live
<1>2. ASSUME NEW a \in Account PROVE Whole(a)
  <2>1. bak[a] = NoFile /\ truth[a] = {}
    BY DEF Init
  <2>2. CASE a \in born
    <3>1. live[a].own = TRUE /\ live[a].data = {} /\ live[a].form = "plain"
      BY <2>2 DEF Init, Fresh, NoFile
    <3> QED BY <2>1, <2>2, <3>1, FileFields DEF Whole, OwnFiles, Sound, Held, IsFile
  <2>3. CASE a \notin born
    <3>1. live[a] = NoFile
      BY <2>3 DEF Init
    <3> QED BY <2>1, <2>3, <3>1, FileFields DEF Whole, OwnFiles, Sound, Held, IsFile
  <2> QED BY <2>2, <2>3
<1> QED BY <1>1, <1>2 DEF WholeInv

\* The invariant of the files: the rows of an account are in dc.db or in its
\* backup at every step of prepare, and what the pass counts is true.
THEOREM FilesInvariant == Spec => [](WholeInv /\ MidwayInv /\ Counted /\ NotStranded)
<1> DEFINE FilesInv == WholeInv /\ MidwayInv /\ Counted /\ NotStranded
<1>1. TypeOK /\ FilesInv /\ [Next]_vars => FilesInv'
  BY WholeStep, MidwayStep, CountedStep, StrandedStep
<1>2. Init => FilesInv
  BY InitFiles
<1> QED BY <1>1, <1>2, TypeCorrect, PTL DEF Spec

\* migrate, restore and bak_superseded (db_key.rs): no crash between two renames
\* and no failed one loses a row, for any accounts, keys and faults, unless a
\* backup replaced an encrypted database or a core without a key made a database
\* in the place of a missing one.
THEOREM RowsAreKept == Spec => []DataKept
<1>1. TypeOK /\ WholeInv => DataKept
  <2> SUFFICES ASSUME TypeOK, WholeInv, harm \cap {"rollback", "fresh"} = {}, NEW a \in born
               PROVE  Held(a)
    BY DEF DataKept
  <2>1. a \in Account
    BY TypeParts
  <2> QED BY <2>1 DEF WholeInv, Whole, Sound
<1> QED BY <1>1, FilesInvariant, TypeCorrect, PTL

\* prepare (db_key.rs): the core gets the key only when that does not strand
\* every database: one of them opens with it, or none is plaintext.  Excepted
\* is a pass that could not read the accounts directory.
THEOREM NeverStranded == Spec => []NotStranded
BY FilesInvariant, PTL
=============================================================================
