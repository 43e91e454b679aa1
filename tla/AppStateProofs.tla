--------------------------- MODULE AppStateProofs ---------------------------
(***************************************************************************)
(* Theorems about AppState, for every number of requests, scanners,        *)
(* selections and crashes: the cache is never older than a selection, or a *)
(* command of a handler that invalidates, that was answered, and the file  *)
(* keeps the selection.                                                    *)
(***************************************************************************)
EXTENDS AppState, TLAPS

Readers == {"query", "wire", "store"}

\* stateMu is held from the decision to read until the map is stored.
LockInv == \A t \in Threads : pc[t] \in Readers <=> stateMu = t

\* Selections are numbered in their order; nothing is told that has not been.
NumberInv ==
    /\ told.pick <= host.no /\ host.no <= picks
    /\ \A t \in Threads : pick[t].no <= host.no
    /\ disk # Torn => disk.no <= picks
    /\ tmp \notin {None, Torn} => tmp.no <= picks
    /\ \A s \in Scanners : told.level[s] <= level[s]

\* Where a thread sends its commands.
TargetInv ==
    \A t \in Threads :
        /\ pc[t] = "query" => host.scanner # None
        /\ pc[t] = "set" => pick[t].scanner \in Scanners
        /\ pc[t] \in {"wire", "store", "invalidate"} =>
               view[t] # None /\ view[t].from.scanner \in Scanners
        /\ pc[t] = "invalidate" => view[t].level <= level[view[t].from.scanner]

\* What a reader has of the state is as new as what has been told, since nothing
\* is told that concerns the state while it has the lock.
FreshInv ==
    \A t \in Threads :
        /\ pc[t] = "query" => pick[t].no >= told.pick
        /\ pc[t] \in {"wire", "store"} =>
               view[t].shown >= told.pick /\ view[t].from.no >= told.pick
        /\ pc[t] = "store" => view[t].level >= told.level[view[t].from.scanner]

CacheInv == cache # None => cache.from.scanner \in Scanners /\ CacheNotOlder

\* Of saves that never overlap: what each step of one may rely on.
SaveInv ==
    /\ disk # Torn /\ disk.no >= told.pick
    /\ \A t \in Threads :
        /\ pc[t] # "refill"
        /\ pc[t] = "fill" => tmp = Torn
        /\ pc[t] = "rename" => tmp = pick[t]
        /\ pc[t] \in Saving => pick[t].no >= told.pick
        /\ pc[t] = "clear" => disk.no >= pick[t].no
    /\ \A t, u \in Threads :
        /\ pc[t] \in Saving /\ pc[u] \in Saving => t = u
        /\ pc[t] = "clear" /\ pc[u] \in Saving => pick[u].no >= pick[t].no
DiskInv == clash \/ SaveInv

IInv == TypeOK /\ LockInv /\ NumberInv /\ TargetInv /\ FreshInv /\ CacheInv /\ DiskInv

USE AppStateAssumption, FileAssumption
USE DEF Goto, Step, Begin, End, threadVars, fileVars

-----------------------------------------------------------------------------
(* Selections.                                                              *)

LEMMA Numbers ==
    /\ \A i, j \in Nat : Max2(i, j) \in {i, j} /\ Max2(i, j) >= i /\ Max2(i, j) >= j
    /\ \A n \in 0..MaxPicks : n \in Nat
    /\ \A n \in 0..MaxWrites : n \in Nat
BY DEF Max2

LEMMA NoPickType == NoPick \in Picks
BY DEF NoPick, Picks

\* A selection is made by discovery or by a client.
LEMMA ChooseType ==
    ASSUME TypeOK, NEW t \in Threads, NEW s \in Scanners, Choose(t, s)
    PROVE  /\ host' \in Picks /\ pick' \in [Threads -> Picks]
           /\ picks' \in 0..MaxPicks /\ clash' \in BOOLEAN
<1>1. [scanner |-> s, no |-> picks + 1] \in Picks
  BY DEF Choose, TypeOK, Picks
<1>2. picks' \in 0..MaxPicks
  BY DEF Choose, TypeOK
<1>3. clash' \in BOOLEAN
  BY Zenon DEF Choose, BeginSave, TypeOK
<1>. QED BY <1>1, <1>2, <1>3 DEF Choose, TypeOK

-----------------------------------------------------------------------------
(* Types.                                                                   *)

\* The parts of a handler's state, and those of the application's.
Locals ==
    /\ pc \in [Threads -> PCs] /\ op \in [Threads -> Ops]
    /\ pick \in [Threads -> Picks] /\ view \in [Threads -> Views \cup {None}]
Shared ==
    /\ host \in Picks /\ picks \in 0..MaxPicks
    /\ stateMu \in Threads \cup {None}
    /\ cache \in Views \cup {None}
    /\ tmp \in Picks \cup {None, Torn} /\ disk \in Picks \cup {Torn}
    /\ level \in [Scanners -> 0..MaxWrites]
    /\ told \in [pick : 0..MaxPicks, level : [Scanners -> 0..MaxWrites]]
    /\ clash \in BOOLEAN /\ searching \in BOOLEAN
    /\ crashes \in 0..MaxCrashes

\* What a command makes of the settings.
LEMMA Reached ==
    ASSUME TypeOK, NEW s \in Scanners, Reaches(s)
    PROVE  /\ level' \in [Scanners -> 0..MaxWrites]
           /\ \A u \in Scanners :
                  level'[u] >= level[u] /\ level'[u] \in Nat /\ level[u] \in Nat
BY DEF Reaches, TypeOK

LEMMA TypeParts == TypeOK <=> Locals /\ Shared
BY Zenon DEF TypeOK, Locals, Shared

LEMMA Initially == Init => IInv
<1>. SUFFICES ASSUME Init PROVE IInv
  OBVIOUS
<1>1. Locals
  BY NoPickType DEF Init, Locals, PCs, Ops
<1>2. Shared
  <2>1. host \in Picks /\ disk \in Picks
    BY DEF Init, Picks
  <2>2. told \in [pick : 0..MaxPicks, level : [Scanners -> 0..MaxWrites]]
    BY DEF Init
  <2>3. clash \in BOOLEAN /\ searching \in BOOLEAN
    BY DEF Init
  <2>4. level \in [Scanners -> 0..MaxWrites] /\ picks \in 0..MaxPicks
        /\ crashes \in 0..MaxCrashes
    BY DEF Init
  <2>5. stateMu = None /\ cache = None /\ tmp = None
    BY DEF Init
  <2>. QED BY <2>1, <2>2, <2>3, <2>4, <2>5, Zenon DEF Shared
<1>3. LockInv /\ TargetInv /\ FreshInv /\ CacheInv
  BY DEF Init, LockInv, Readers, TargetInv, FreshInv, CacheInv
<1>4. NumberInv /\ SaveInv
  BY DEF Init, NumberInv, SaveInv, NoPick, Saving, Picks
<1>. QED BY <1>1, <1>2, <1>3, <1>4, TypeParts DEF IInv, DiskInv

LEMMA LocalStep ==
    ASSUME TypeOK, TargetInv, [Next]_vars
    PROVE  Locals'
<1>. USE DEF PCs, Ops
<1>. Locals
  BY TypeParts
<1>1. ASSUME NEW t \in Threads, Poll(t) \/ LockState(t) \/ Write(t) \/ Discover(t)
                                \/ ChangeLogging(t) \/ OpenFile(t) \/ FillFile(t)
      PROVE  Locals'
  BY <1>1 DEF Poll, LockState, Write, Discover, ChangeLogging, OpenFile, FillFile, Locals,
              TypeOK
<1>2. ASSUME NEW t \in Threads, QueryState(t) PROVE Locals'
  <2>1. [shown |-> pick[t].no, from |-> host, level |-> 0] \in Views
    BY DEF TypeOK, Picks, Views
  <2>. QED BY <1>2, <2>1 DEF QueryState, Locals
<1>3. ASSUME NEW t \in Threads, ReadLevel(t) PROVE Locals'
  <2>1. [view[t] EXCEPT !.level = level[view[t].from.scanner]] \in Views
    BY <1>3 DEF ReadLevel, TargetInv, Views, Locals, TypeOK
  <2>. QED BY <1>3, <2>1 DEF ReadLevel, Locals
<1>4. ASSUME NEW t \in Threads, WriteTakes(t) PROVE Locals'
  <2>1. level'[pick[t].scanner] \in 0..MaxWrites
    BY <1>4, Reached DEF WriteTakes, TargetInv
  <2>2. [shown |-> pick[t].no, from |-> pick[t], level |-> level'[pick[t].scanner]]
            \in Views
    BY <2>1 DEF Views, Picks, TypeOK
  <2>. QED BY <1>4, <2>2 DEF WriteTakes, Locals
<1>5. ASSUME NEW t \in Threads, NEW s \in Scanners, Select(t, s) \/ Receive(t, s)
      PROVE  Locals'
  BY <1>5, ChooseType DEF Select, Receive, Locals
<1>6. ASSUME NEW t \in Threads, RenameFile(t) PROVE Locals'
  BY <1>6, NoPickType DEF RenameFile, Locals
<1>7. ASSUME NEW t \in Threads, End(t) PROVE Locals'
  BY <1>7, NoPickType DEF Locals
<1>8. ASSUME NEW t \in Threads,
             AnswerAtOnce(t) \/ ReadFails(t) \/ StoreState(t) \/ WriteFails(t)
             \/ AnswerSilently(t) \/ Invalidate(t) \/ SaveFails(t) \/ ClearCache(t)
             \/ SearchTimeout(t)
      PROVE  Locals'
  BY <1>7, <1>8, Zenon DEF AnswerAtOnce, ReadFails, StoreState, WriteFails,
              AnswerSilently, Invalidate, SaveFails, ClearCache, SearchTimeout
<1>9. CASE ExpireCache \/ UNCHANGED vars
  BY <1>9 DEF ExpireCache, vars, Locals
<1>10. CASE Restart
  BY <1>10, NoPickType DEF Restart, Locals
<1>. QED
  BY <1>1, <1>2, <1>3, <1>4, <1>5, <1>6, <1>8, <1>9, <1>10, Zenon DEF Next, Request, Going

LEMMA SharedStep ==
    ASSUME TypeOK, TargetInv, [Next]_vars
    PROVE  Shared'
<1>. Shared
  BY TypeParts
<1>1. ASSUME NEW t \in Threads, Poll(t) \/ LockState(t) \/ Write(t) \/ QueryState(t)
                                \/ ReadLevel(t)
      PROVE  Shared'
  BY <1>1 DEF Poll, LockState, Write, QueryState, ReadLevel, Shared
<1>2. ASSUME NEW t \in Threads, NEW s \in Scanners, Select(t, s) \/ Receive(t, s)
      PROVE  Shared'
  BY <1>2, ChooseType DEF Select, Receive, Shared
<1>3. ASSUME NEW t \in Threads, ChangeLogging(t) \/ Discover(t) PROVE Shared'
  BY <1>3 DEF ChangeLogging, Discover, BeginSave, Shared
<1>4. ASSUME NEW t \in Threads, OpenFile(t) \/ FillFile(t) \/ RenameFile(t) PROVE Shared'
  BY <1>4 DEF OpenFile, FillFile, RenameFile, Written, Shared, TypeOK
<1>5. ASSUME NEW t \in Threads, WriteTakes(t) PROVE Shared'
  BY <1>5, Reached DEF WriteTakes, TargetInv, Shared
<1>6. ASSUME NEW t \in Threads, AnswerSilently(t) \/ WriteFails(t) PROVE Shared'
  <2>1. level' \in [Scanners -> 0..MaxWrites]
    BY <1>6, Reached DEF AnswerSilently, WriteFails, TargetInv
  <2>2. searching' \in BOOLEAN
    BY <1>6, Zenon DEF AnswerSilently, WriteFails
  <2>. QED BY <1>6, <2>1, <2>2 DEF AnswerSilently, WriteFails, Shared
<1>7. ASSUME NEW t \in Threads, Invalidate(t) PROVE Shared'
  <2>1. view[t] \in Views /\ view[t].from.scanner \in Scanners
    BY <1>7 DEF Invalidate, TargetInv, TypeOK
  <2>2. Max2(told.level[view[t].from.scanner], view[t].level) \in 0..MaxWrites
    BY <2>1 DEF Max2, Views, Shared
  <2>3. told' \in [pick : 0..MaxPicks, level : [Scanners -> 0..MaxWrites]]
    BY <1>7, <2>2 DEF Invalidate, Shared
  <2>. QED BY <1>7, <2>3 DEF Invalidate, Shared
<1>8. ASSUME NEW t \in Threads, ClearCache(t) PROVE Shared'
  <2>1. Max2(told.pick, pick[t].no) \in 0..MaxPicks
    BY DEF Max2, Picks, TypeOK
  <2>2. told' \in [pick : 0..MaxPicks, level : [Scanners -> 0..MaxWrites]]
    BY <1>8, <2>1 DEF ClearCache, Shared
  <2>. QED BY <1>8, <2>2 DEF ClearCache, Shared
<1>9. ASSUME NEW t \in Threads,
             AnswerAtOnce(t) \/ ReadFails(t) \/ StoreState(t) \/ SaveFails(t)
             \/ SearchTimeout(t)
      PROVE  Shared'
  <2>1. cache' \in Views \cup {None}
    BY <1>9 DEF AnswerAtOnce, ReadFails, StoreState, SaveFails, SearchTimeout, TypeOK
  <2>2. searching' \in BOOLEAN
    BY <1>9, Zenon DEF AnswerAtOnce, ReadFails, StoreState, SaveFails, SearchTimeout
  <2>. QED
    BY <1>9, <2>1, <2>2
    DEF AnswerAtOnce, ReadFails, StoreState, SaveFails, SearchTimeout, Shared
<1>10. CASE ExpireCache \/ UNCHANGED vars
  BY <1>10 DEF ExpireCache, vars, Shared
<1>11. CASE Restart
  <2>1. host' \in Picks /\ disk.no \in 0..MaxPicks
    BY <1>11 DEF Restart, Picks, TypeOK
  <2>2. told' \in [pick : 0..MaxPicks, level : [Scanners -> 0..MaxWrites]]
    BY <1>11, <2>1 DEF Restart, TypeOK
  <2>3. searching' \in BOOLEAN /\ stateMu' = None /\ cache' = None
    BY <1>11 DEF Restart
  <2>4. crashes' \in 0..MaxCrashes
    BY <1>11 DEF Restart, Shared
  <2>5. UNCHANGED <<picks, tmp, disk, clash, level>>
    BY <1>11 DEF Restart
  <2>. QED BY <2>1, <2>2, <2>3, <2>4, <2>5, Zenon DEF Shared
<1>. QED
  BY <1>1, <1>2, <1>3, <1>4, <1>5, <1>6, <1>7, <1>8, <1>9, <1>10, <1>11, Zenon
  DEF Next, Request, Going

LEMMA TypeStep ==
    ASSUME TypeOK, TargetInv, [Next]_vars
    PROVE  TypeOK'
BY LocalStep, SharedStep, Zenon DEF TypeOK, Locals, Shared

-----------------------------------------------------------------------------
(* The lock.                                                                *)

LEMMA LockStep ==
    ASSUME TypeOK, LockInv, [Next]_vars
    PROVE  LockInv'
<1>. USE DEF TypeOK, Readers, LockInv
<1>1. ASSUME NEW t \in Threads, Poll(t) \/ Write(t) \/ Discover(t) \/ ChangeLogging(t)
                                \/ OpenFile(t) \/ FillFile(t) \/ WriteTakes(t)
      PROVE  LockInv'
  BY <1>1 DEF Poll, Write, Discover, ChangeLogging, OpenFile, FillFile, WriteTakes
<1>2. ASSUME NEW t \in Threads, LockState(t) \/ QueryState(t) \/ ReadLevel(t)
      PROVE  LockInv'
  BY <1>2 DEF LockState, QueryState, ReadLevel
<1>3. ASSUME NEW t \in Threads, NEW s \in Scanners, Select(t, s) \/ Receive(t, s)
      PROVE  LockInv'
  BY <1>3 DEF Select, Receive
<1>4. ASSUME NEW t \in Threads, RenameFile(t) PROVE LockInv'
  <2>1. pc' = [u \in Threads |->
                  CASE u = t -> IF op[t] = "logging" THEN "idle" ELSE "clear"
                    [] pc[u] = "fill" -> "refill"
                    [] pc[u] = "refill" -> "rename"
                    [] OTHER -> pc[u]]
        /\ pc[t] = "rename" /\ stateMu' = stateMu
    BY <1>4 DEF RenameFile
  <2>. QED BY <2>1
<1>5. ASSUME NEW t \in Threads, ReadFails(t) \/ StoreState(t) PROVE LockInv'
  BY <1>5 DEF ReadFails, StoreState
<1>6. ASSUME NEW t \in Threads,
             AnswerAtOnce(t) \/ AnswerSilently(t) \/ WriteFails(t) \/ Invalidate(t)
             \/ SaveFails(t) \/ ClearCache(t) \/ SearchTimeout(t)
      PROVE  LockInv'
  BY <1>6 DEF AnswerAtOnce, AnswerSilently, WriteFails, Invalidate, SaveFails, ClearCache,
              SearchTimeout, Saving
<1>7. CASE ExpireCache \/ UNCHANGED vars
  BY <1>7 DEF ExpireCache, vars
<1>8. CASE Restart
  BY <1>8 DEF Restart
<1>. QED
  BY <1>1, <1>2, <1>3, <1>4, <1>5, <1>6, <1>7, <1>8, Zenon DEF Next, Request, Going

-----------------------------------------------------------------------------
(* Numbers of selections and of changes.                                    *)

LEMMA NumberStep ==
    ASSUME TypeOK, TargetInv, NumberInv, [Next]_vars
    PROVE  NumberInv'
<1>. USE DEF TypeOK, NumberInv, Picks
<1>1. ASSUME NEW t \in Threads, Poll(t) \/ QueryState(t) \/ ReadLevel(t) \/ Discover(t)
      PROVE  NumberInv'
  BY <1>1 DEF Poll, QueryState, ReadLevel, Discover
<1>2. ASSUME NEW t \in Threads, LockState(t) \/ Write(t) \/ ChangeLogging(t)
      PROVE  NumberInv'
  BY <1>2 DEF LockState, Write, ChangeLogging
<1>3. ASSUME NEW t \in Threads, NEW s \in Scanners, Select(t, s) \/ Receive(t, s)
      PROVE  NumberInv'
  <2>1. host'.no = picks + 1 /\ picks' = picks + 1
    BY <1>3 DEF Select, Receive, Choose
  <2>2. \A u \in Threads : pick'[u].no <= picks + 1
    BY <1>3 DEF Select, Receive, Choose
  <2>3. UNCHANGED <<told, disk, tmp, level>>
    BY <1>3 DEF Select, Receive
  <2>. QED BY <2>1, <2>2, <2>3
<1>4. ASSUME NEW t \in Threads, OpenFile(t) \/ FillFile(t) PROVE NumberInv'
  BY <1>4 DEF OpenFile, FillFile, Written
<1>5. ASSUME NEW t \in Threads, RenameFile(t) PROVE NumberInv'
  BY <1>5 DEF RenameFile, NoPick
<1>6. ASSUME NEW t \in Threads, WriteTakes(t) PROVE NumberInv'
  <2>1. \A s \in Scanners :
            level'[s] >= level[s] /\ level'[s] \in Nat /\ level[s] \in Nat
    BY <1>6, Reached DEF WriteTakes, TargetInv
  <2>2. UNCHANGED <<pick, told, disk, tmp, picks, host>>
    BY <1>6 DEF WriteTakes
  <2>. QED BY <2>1, <2>2
<1>7. ASSUME NEW t \in Threads, AnswerSilently(t) \/ WriteFails(t) PROVE NumberInv'
  <2>1. \A s \in Scanners :
            level'[s] >= level[s] /\ level'[s] \in Nat /\ level[s] \in Nat
    BY <1>7, Reached DEF AnswerSilently, WriteFails, TargetInv
  <2>2. \A u \in Threads : pick'[u].no <= host.no
    BY <1>7 DEF AnswerSilently, WriteFails, NoPick
  <2>3. UNCHANGED <<told, disk, tmp, picks, host>>
    BY <1>7 DEF AnswerSilently, WriteFails
  <2>. QED BY <2>1, <2>2, <2>3
<1>8. ASSUME NEW t \in Threads, Invalidate(t) PROVE NumberInv'
  <2>1. view[t] \in Views /\ view[t].from.scanner \in Scanners
        /\ view[t].level <= level[view[t].from.scanner]
    BY <1>8 DEF Invalidate, TargetInv
  <2>2. \A s \in Scanners : told'.level[s] <= level'[s]
    BY <1>8, <2>1 DEF Invalidate, Max2, Views
  <2>. QED BY <1>8, <2>2 DEF Invalidate, NoPick
<1>9. ASSUME NEW t \in Threads, ClearCache(t) PROVE NumberInv'
  <2>1. told'.pick <= host'.no /\ told'.level = told.level
    BY <1>9 DEF ClearCache, Max2
  <2>. QED BY <1>9, <2>1 DEF ClearCache, NoPick
<1>10. ASSUME NEW t \in Threads,
              AnswerAtOnce(t) \/ ReadFails(t) \/ StoreState(t) \/ SaveFails(t)
              \/ SearchTimeout(t)
       PROVE  NumberInv'
  BY <1>10 DEF AnswerAtOnce, ReadFails, StoreState, SaveFails, SearchTimeout, NoPick
<1>11. CASE ExpireCache \/ UNCHANGED vars
  BY <1>11 DEF ExpireCache, vars
<1>12. CASE Restart
  BY <1>12 DEF Restart, NoPick
<1>. QED
  BY <1>1, <1>2, <1>3, <1>4, <1>5, <1>6, <1>7, <1>8, <1>9, <1>10, <1>11, <1>12, Zenon
  DEF Next, Request, Going

-----------------------------------------------------------------------------
(* Targets.                                                                 *)

LEMMA TargetStep ==
    ASSUME TypeOK, LockInv, TargetInv, [Next]_vars
    PROVE  TargetInv'
<1>. USE DEF TypeOK, TargetInv
<1>1. ASSUME NEW t \in Threads, Poll(t) \/ Discover(t) \/ ChangeLogging(t) \/ OpenFile(t)
                                \/ FillFile(t) \/ LockState(t)
      PROVE  TargetInv'
  BY <1>1 DEF Poll, Discover, ChangeLogging, OpenFile, FillFile, LockState
<1>2. ASSUME NEW t \in Threads, Write(t) PROVE TargetInv'
  BY <1>2 DEF Write, Picks
<1>3. ASSUME NEW t \in Threads, QueryState(t) PROVE TargetInv'
  <2>1. [shown |-> pick[t].no, from |-> host, level |-> 0] \in Views
    BY DEF Picks, Views
  <2>2. host.scanner \in Scanners
    BY <1>3 DEF QueryState, Picks
  <2>. QED BY <1>3, <2>1, <2>2 DEF QueryState
<1>4. ASSUME NEW t \in Threads, ReadLevel(t) PROVE TargetInv'
  <2>1. view[t] \in Views /\ view[t].from.scanner \in Scanners
    BY <1>4 DEF ReadLevel
  <2>2. [view[t] EXCEPT !.level = level[view[t].from.scanner]] \in Views
    BY <2>1 DEF Views
  <2>. QED BY <1>4, <2>1, <2>2 DEF ReadLevel, Views
<1>5. ASSUME NEW t \in Threads, WriteTakes(t) PROVE TargetInv'
  <2>1. pick[t].scanner \in Scanners
    BY <1>5 DEF WriteTakes
  <2>2. \A s \in Scanners : level'[s] >= level[s] /\ level'[s] \in Nat /\ level[s] \in Nat
    BY <1>5, <2>1, Reached DEF WriteTakes
  <2>3. [shown |-> pick[t].no, from |-> pick[t], level |-> level'[pick[t].scanner]]
            \in Views
    BY <1>5, <2>1, Reached DEF WriteTakes, Views, Picks
  <2>4. \A u \in Threads \ {t} :
            pc'[u] = pc[u] /\ pick'[u] = pick[u] /\ view'[u] = view[u]
    BY <1>5 DEF WriteTakes
  <2>5. /\ pc'[t] = "invalidate" /\ view'[t].from.scanner = pick[t].scanner
        /\ view'[t].level = level'[pick[t].scanner] /\ view'[t] \in Views
    BY <1>5, <2>1, <2>3 DEF WriteTakes
  <2>6. \A u \in Threads \ {t} : view[u] # None => view[u].level \in Nat
    BY DEF Views
  <2>. QED BY <1>5, <2>1, <2>2, <2>4, <2>5, <2>6 DEF WriteTakes
<1>6. ASSUME NEW t \in Threads, NEW s \in Scanners, Select(t, s) \/ Receive(t, s)
      PROVE  TargetInv'
  BY <1>6 DEF Select, Receive, Choose
<1>7. ASSUME NEW t \in Threads, RenameFile(t) PROVE TargetInv'
  BY <1>7 DEF RenameFile
<1>8. ASSUME NEW t \in Threads, AnswerSilently(t) \/ WriteFails(t) PROVE TargetInv'
  <2>1. \A s \in Scanners : level'[s] >= level[s] /\ level'[s] \in Nat /\ level[s] \in Nat
    BY <1>8, Reached DEF AnswerSilently, WriteFails
  <2>2. \A u \in Threads : view[u] # None => view[u].level \in Nat
    BY DEF Views
  <2>. QED BY <1>8, <2>1, <2>2 DEF AnswerSilently, WriteFails
<1>9. ASSUME NEW t \in Threads,
             AnswerAtOnce(t) \/ ReadFails(t) \/ StoreState(t) \/ Invalidate(t)
             \/ SaveFails(t) \/ ClearCache(t) \/ SearchTimeout(t)
      PROVE  TargetInv'
  BY <1>9 DEF AnswerAtOnce, ReadFails, StoreState, Invalidate, SaveFails, ClearCache,
              SearchTimeout
<1>10. CASE ExpireCache \/ UNCHANGED vars
  BY <1>10 DEF ExpireCache, vars
<1>11. CASE Restart
  BY <1>11 DEF Restart
<1>. QED
  BY <1>1, <1>2, <1>3, <1>4, <1>5, <1>6, <1>7, <1>8, <1>9, <1>10, <1>11, Zenon
  DEF Next, Request, Going

-----------------------------------------------------------------------------
(* What readers have, and the cache.                                        *)

\* Who tells a client anything about the state finds the lock free.
LEMMA FreshStep ==
    ASSUME TypeOK, LockInv, NumberInv, TargetInv, FreshInv, [Next]_vars
    PROVE  FreshInv'
<1>. USE DEF TypeOK, FreshInv
<1>1. ASSUME NEW t \in Threads, Poll(t) \/ Discover(t) \/ ChangeLogging(t) \/ OpenFile(t)
                                \/ FillFile(t) \/ Write(t)
      PROVE  FreshInv'
  BY <1>1 DEF Poll, Discover, ChangeLogging, OpenFile, FillFile, Write
<1>2. ASSUME NEW t \in Threads, LockState(t) PROVE FreshInv'
  BY <1>2 DEF LockState, NumberInv, Picks
<1>3. ASSUME NEW t \in Threads, QueryState(t) PROVE FreshInv'
  BY <1>3 DEF QueryState, NumberInv, Picks
<1>4. ASSUME NEW t \in Threads, ReadLevel(t) PROVE FreshInv'
  BY <1>4 DEF ReadLevel, NumberInv, TargetInv, Views
<1>5. ASSUME NEW t \in Threads, WriteTakes(t) PROVE FreshInv'
  BY <1>5 DEF WriteTakes
<1>6. ASSUME NEW t \in Threads, NEW s \in Scanners, Select(t, s) \/ Receive(t, s)
      PROVE  FreshInv'
  BY <1>6 DEF Select, Receive, Choose
<1>7. ASSUME NEW t \in Threads, RenameFile(t) PROVE FreshInv'
  BY <1>7 DEF RenameFile
<1>8. ASSUME NEW t \in Threads, Invalidate(t) \/ ClearCache(t) PROVE FreshInv'
  <2>1. \A u \in Threads : pc[u] \notin Readers
    BY <1>8 DEF Invalidate, ClearCache, LockInv
  <2>. QED BY <1>8, <2>1 DEF Invalidate, ClearCache, Readers
<1>9. ASSUME NEW t \in Threads,
             AnswerAtOnce(t) \/ ReadFails(t) \/ StoreState(t) \/ AnswerSilently(t)
             \/ WriteFails(t) \/ SaveFails(t) \/ SearchTimeout(t)
      PROVE  FreshInv'
  BY <1>9 DEF AnswerAtOnce, ReadFails, StoreState, AnswerSilently, WriteFails, SaveFails,
              SearchTimeout
<1>10. CASE ExpireCache \/ UNCHANGED vars
  BY <1>10 DEF ExpireCache, vars
<1>11. CASE Restart
  BY <1>11 DEF Restart
<1>. QED
  BY <1>1, <1>2, <1>3, <1>4, <1>5, <1>6, <1>7, <1>8, <1>9, <1>10, <1>11, Zenon
  DEF Next, Request, Going

\* Whatever `told' records empties the cache in the same step.
LEMMA CacheStep ==
    ASSUME TypeOK, TargetInv, FreshInv, CacheInv, [Next]_vars
    PROVE  CacheInv'
<1>. USE DEF CacheInv, CacheNotOlder
<1>1. UNCHANGED <<cache, told>> => CacheInv'
  OBVIOUS
<1>2. cache' = None => CacheInv'
  OBVIOUS
<1>3. ASSUME NEW t \in Threads, StoreState(t) PROVE CacheInv'
  BY <1>3 DEF StoreState, TargetInv, FreshInv
<1>4. ASSUME NEW t \in Threads,
             Poll(t) \/ Write(t) \/ ChangeLogging(t) \/ Discover(t)
             \/ AnswerAtOnce(t) \/ LockState(t) \/ QueryState(t) \/ ReadLevel(t)
             \/ ReadFails(t) \/ WriteTakes(t) \/ AnswerSilently(t) \/ WriteFails(t)
             \/ OpenFile(t) \/ FillFile(t) \/ RenameFile(t) \/ SaveFails(t)
             \/ SearchTimeout(t)
      PROVE  UNCHANGED <<cache, told>>
  BY <1>4 DEF Poll, Write, ChangeLogging, Discover, AnswerAtOnce, LockState, QueryState,
              ReadLevel, ReadFails, WriteTakes, AnswerSilently, WriteFails, OpenFile,
              FillFile, RenameFile, SaveFails, SearchTimeout
<1>5. ASSUME NEW t \in Threads, NEW s \in Scanners, Select(t, s) \/ Receive(t, s)
      PROVE  UNCHANGED <<cache, told>>
  BY <1>5 DEF Select, Receive
<1>6. ASSUME NEW t \in Threads, Invalidate(t) \/ ClearCache(t) PROVE cache' = None
  BY <1>6 DEF Invalidate, ClearCache
<1>7. CASE ExpireCache \/ Restart
  BY <1>2, <1>7 DEF ExpireCache, Restart
<1>8. CASE UNCHANGED vars
  BY <1>1, <1>8 DEF vars
<1>. QED
  BY <1>1, <1>2, <1>3, <1>4, <1>5, <1>6, <1>7, <1>8, Zenon DEF Next, Request, Going

-----------------------------------------------------------------------------
(* The file.                                                                *)

\* Nothing of the file changes where a thread that saves nothing goes on.
LEMMA NotSaving ==
    ASSUME TypeOK, DiskInv, NEW t \in Threads, UNCHANGED <<told.pick, fileVars>>,
           pc'[t] \notin Saving \cup {"clear"},
           \A u \in Threads \ {t} : pc'[u] = pc[u] /\ pick'[u] = pick[u]
    PROVE  DiskInv'
BY DEF TypeOK, DiskInv, SaveInv, Saving

\* A save begins, with a selection that no other one exceeds.
LEMMA SaveBegins ==
    ASSUME TypeOK, NumberInv, DiskInv, NEW t \in Threads, BeginSave(t),
           pc' = [pc EXCEPT ![t] = "open"],
           \A u \in Threads \ {t} : pick'[u] = pick[u],
           pick'[t] \in Picks, pick'[t].no >= host.no, UNCHANGED <<tmp, disk, told>>
    PROVE  DiskInv'
<1>1. CASE clash'
  BY <1>1 DEF DiskInv
<1>2. CASE ~clash'
  <2>1. SaveInv /\ \A u \in Threads \ {t} : pc[u] \notin Saving
    BY <1>2 DEF BeginSave, DiskInv
  <2>2. \A u \in Threads : pick[u].no <= pick'[t].no
    BY DEF TypeOK, NumberInv, Picks
  <2>3. told.pick <= pick'[t].no
    BY DEF TypeOK, NumberInv, Picks
  <2>. QED BY <2>1, <2>2, <2>3 DEF DiskInv, SaveInv, Saving, TypeOK
<1>. QED BY <1>1, <1>2

LEMMA DiskStep ==
    ASSUME TypeOK, NumberInv, DiskInv, [Next]_vars
    PROVE  DiskInv'
<1>1. ASSUME NEW t \in Threads,
             Poll(t) \/ LockState(t) \/ QueryState(t) \/ ReadLevel(t) \/ Write(t)
             \/ WriteTakes(t) \/ Discover(t)
      PROVE  DiskInv'
  <2>1. /\ UNCHANGED <<told.pick, fileVars>> /\ pc'[t] \notin Saving \cup {"clear"}
        /\ \A u \in Threads \ {t} : pc'[u] = pc[u] /\ pick'[u] = pick[u]
    BY <1>1 DEF Poll, LockState, QueryState, ReadLevel, Write, WriteTakes, Discover,
                Saving, TypeOK
  <2>. QED BY <2>1, NotSaving
<1>2. ASSUME NEW t \in Threads,
             AnswerAtOnce(t) \/ ReadFails(t) \/ StoreState(t) \/ AnswerSilently(t)
             \/ WriteFails(t) \/ Invalidate(t) \/ SaveFails(t) \/ SearchTimeout(t)
      PROVE  DiskInv'
  <2>1. End(t) /\ UNCHANGED <<told.pick, fileVars>>
    BY <1>2 DEF AnswerAtOnce, ReadFails, StoreState, AnswerSilently, WriteFails,
                Invalidate, SaveFails, SearchTimeout, TypeOK
  <2>2. /\ pc'[t] \notin Saving \cup {"clear"}
        /\ \A u \in Threads \ {t} : pc'[u] = pc[u] /\ pick'[u] = pick[u]
    BY <2>1 DEF Saving, TypeOK
  <2>. QED BY <2>1, <2>2, NotSaving
<1>3. ASSUME NEW t \in Threads, ChangeLogging(t) PROVE DiskInv'
  <2>1. BeginSave(t)
    BY <1>3 DEF ChangeLogging
  <2>2. /\ pc' = [pc EXCEPT ![t] = "open"] /\ UNCHANGED <<tmp, disk, told>>
        /\ \A u \in Threads \ {t} : pick'[u] = pick[u]
        /\ pick'[t] \in Picks /\ pick'[t].no >= host.no
    BY <1>3 DEF ChangeLogging, TypeOK, Picks
  <2>. QED BY <2>1, <2>2, SaveBegins
<1>4. ASSUME NEW t \in Threads, NEW s \in Scanners, Select(t, s) \/ Receive(t, s)
      PROVE  DiskInv'
  <2>1. Choose(t, s) /\ BeginSave(t)
    BY <1>4 DEF Select, Receive, Choose
  <2>2. pick'[t] \in Picks /\ pick'[t].no >= host.no
    BY <2>1, ChooseType DEF Choose, TypeOK, NumberInv, Picks
  <2>3. /\ pc' = [pc EXCEPT ![t] = "open"] /\ UNCHANGED <<tmp, disk, told>>
        /\ \A u \in Threads \ {t} : pick'[u] = pick[u]
    BY <1>4 DEF Select, Receive, Choose, TypeOK
  <2>. QED BY <2>1, <2>2, <2>3, SaveBegins
<1>5. ASSUME NEW t \in Threads, OpenFile(t) PROVE DiskInv'
  BY <1>5 DEF OpenFile, DiskInv, SaveInv, Saving, TypeOK
<1>6. ASSUME NEW t \in Threads, FillFile(t) PROVE DiskInv'
  BY <1>6 DEF FillFile, Written, DiskInv, SaveInv, Saving, TypeOK
<1>7. ASSUME NEW t \in Threads, RenameFile(t) PROVE DiskInv'
  <2>1. CASE clash
    BY <1>7, <2>1 DEF RenameFile, DiskInv
  <2>2. CASE ~clash
    <3>1. SaveInv /\ pc[t] = "rename" /\ UNCHANGED told
      BY <1>7, <2>2 DEF RenameFile, DiskInv
    <3>2. /\ \A u \in Threads \ {t} : pc[u] \notin Saving /\ pc'[u] = pc[u]
          /\ pc'[t] \in {"idle", "clear"}
      BY <1>7, <3>1 DEF RenameFile, SaveInv, Saving, TypeOK
    <3>3. /\ \A u \in Threads \ {t} : pick'[u] = pick[u]
          /\ pc'[t] = "clear" => pick'[t] = pick[t]
      BY <1>7 DEF RenameFile, TypeOK
    <3>4. disk' = pick[t] /\ pick[t] \in Picks /\ pick[t].no >= told.pick
      BY <1>7, <3>1 DEF RenameFile, SaveInv, Saving, TypeOK
    <3>5. \A u \in Threads : pick[u].no \in Nat
      BY DEF TypeOK, Picks
    <3>6. \A u \in Threads : pc'[u] = "clear" => pick'[u].no <= disk'.no
      BY <3>1, <3>2, <3>3, <3>4, <3>5 DEF SaveInv, Saving
    <3>. QED
      BY <3>1, <3>2, <3>4, <3>6 DEF DiskInv, SaveInv, Saving
  <2>. QED BY <2>1, <2>2
<1>8. ASSUME NEW t \in Threads, ClearCache(t) PROVE DiskInv'
  <2>1. CASE clash
    BY <1>8, <2>1 DEF ClearCache, DiskInv
  <2>2. CASE ~clash
    <3>1. SaveInv /\ pc[t] = "clear" /\ UNCHANGED <<tmp, disk>>
      BY <1>8, <2>2 DEF ClearCache, DiskInv
    <3>2. told'.pick \in {told.pick, pick[t].no}
      BY <1>8 DEF ClearCache, TypeOK, Max2
    <3>3. /\ pc'[t] = "idle"
          /\ \A u \in Threads \ {t} : pc'[u] = pc[u] /\ pick'[u] = pick[u]
      BY <1>8 DEF ClearCache, TypeOK
    <3>. QED BY <3>1, <3>2, <3>3 DEF DiskInv, SaveInv, Saving
  <2>. QED BY <2>1, <2>2
<1>9. CASE ExpireCache \/ UNCHANGED vars
  BY <1>9 DEF ExpireCache, vars, DiskInv, SaveInv
<1>10. CASE Restart
  <2>1. disk' = disk /\ disk # Torn /\ told'.pick <= disk.no /\ told'.pick \in Nat
    BY <1>10 DEF Restart, TypeOK, Picks
  <2>2. \A t \in Threads : pc'[t] = "idle"
    BY <1>10 DEF Restart
  <2>. QED BY <2>1, <2>2 DEF DiskInv, SaveInv, Saving, TypeOK, Picks
<1>. QED
  BY <1>1, <1>2, <1>3, <1>4, <1>5, <1>6, <1>7, <1>8, <1>9, <1>10, Zenon
  DEF Next, Request, Going

-----------------------------------------------------------------------------
LEMMA Invariance == Spec => []IInv
<1>1. IInv /\ [Next]_vars => IInv'
  BY TypeStep, LockStep, NumberStep, TargetStep, FreshStep, CacheStep, DiskStep, Zenon
  DEF IInv
<1>. QED BY Initially, <1>1, PTL DEF Spec

\* The state keeps its types; in particular, what a rename leaves in place is a
\* configuration or a torn one, never nothing.
THEOREM TypeCorrect == Spec => []TypeOK
<1>1. IInv => TypeOK
  BY DEF IInv
<1>. QED BY Invariance, <1>1, PTL

\* What the cache tells a client is no older than the last selection that was
\* answered and the last command that a handler which invalidates has answered
\* (readState, invalidateState, setHost); of the handlers that answer without
\* invalidateState it promises nothing.
THEOREM CacheSafety == Spec => []CacheNotOlder
<1>1. IInv => CacheNotOlder
  BY DEF IInv, CacheInv, CacheNotOlder
<1>. QED BY Invariance, <1>1, PTL

\* The configuration file can be read at any moment and has the selection that
\* was answered last, as long as saves do not overlap (saveJSON).
THEOREM DiskSafety == Spec => []DiskKeepsSelection
<1>1. IInv => DiskKeepsSelection
  BY DEF IInv, DiskInv, SaveInv, DiskKeepsSelection
<1>. QED BY Invariance, <1>1, PTL
=============================================================================
