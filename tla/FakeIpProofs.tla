---------------------------- MODULE FakeIpProofs ----------------------------
(***************************************************************************)
(* Proofs about FakeIp, for every number of domains, threads, flushers,    *)
(* clears and crashes and every size of the range.                         *)
(*                                                                         *)
(* The inductive invariant adds to the type: the maps of the table are     *)
(* inverse to each other; every table on its way to the disk, or on it, is *)
(* injective, so that a restart rebuilds inverse maps from it; only the    *)
(* holder of flush_lock is past "lock", and the .tmp file is whole when it *)
(* is about to be renamed; and a table that is not dirty is in the hands   *)
(* of a flusher or in the file.                                            *)
(***************************************************************************)
EXTENDS FakeIp, TLAPS

USE RangeAssumption, NamesAssumption, BoundsAssumption, FilesAssumption DEF Flushing

Injective(map) ==
  \A d, e \in Domains : map[d] # NoHost /\ map[d] = map[e] => d = e

Holding == {"snapshot", "next", "write", "writing", "rename"}
Taken == {"next", "write", "writing", "rename"}

\* The tables a restart may find, or a flusher may write, are injective.
SavedInjective ==
  /\ \A f \in Flushers : Injective(fl[f].map)
  /\ tmp \in Images => Injective(tmp.map)
  /\ file \in Images => Injective(file.map)

\* flush_lock covers everything from the snapshot to the rename.
LockHeld ==
  /\ \A f \in Flushers : fl[f].pc \in Holding => lock = f
  /\ \A f \in Flushers : At(f, "rename") => tmp \in Images /\ tmp.map = fl[f].map

\* What the file says of the table.
Saved == IF file = Absent THEN d2i = NoMap ELSE file.map = d2i

\* A table that nobody has to write any more is being written or in the file.
Covered ==
  count.clear = 0 /\ ~dirty =>
    \/ \E f \in Flushers : fl[f].pc \in {"lock", "snapshot"}
    \/ \E f \in Flushers : fl[f].pc \in Taken /\ fl[f].map = d2i
    \/ (\A f \in Flushers : fl[f].pc \notin Taken) /\ Saved

\* Until a restart the slots fill up in order.
Filling ==
  \/ count.crash > 0
  \/ Full
  \/ \A h \in Usable : i2d[h] # NoDomain <=> h < next

IInv == TypeOK /\ Bijection /\ SavedInjective /\ LockHeld /\ FileWhole

-----------------------------------------------------------------------------

\* The range has room: the first host is usable and 0 is not.
LEMMA RangeFacts ==
  /\ FirstHost \in Usable /\ Usable \subseteq Hosts /\ NoHost \notin Hosts
  /\ NoHost \notin Usable
  /\ \A h \in Usable : After(h) \in Usable
BY DEF FirstHost, Usable, Hosts, After

\* The initial state satisfies the invariant.
LEMMA InitInvariant == Init => IInv
<1> SUFFICES ASSUME Init PROVE IInv
  OBVIOUS
<1> USE RangeFacts
<1>1. NoMap \in [Domains -> Usable \cup {NoHost}] /\ Injective(NoMap)
  BY DEF NoMap, Injective
<1>2. fl \in [Flushers -> Flushing]
  BY <1>1 DEF Init, NoFlush
<1>3. count \in [clear : 0..MaxClears, crash : 0..MaxCrashes]
  BY DEF Init
<1>4. TypeOK
  BY <1>1, <1>2, <1>3 DEF Init, TypeOK
<1>5. Bijection
  BY <1>1 DEF Init, Bijection, NoMap
<1>6. SavedInjective
  BY <1>1 DEF Init, SavedInjective, NoFlush
<1>7. LockHeld /\ FileWhole
  BY DEF Init, LockHeld, FileWhole, NoFlush, Holding, At
<1> QED
  BY <1>4, <1>5, <1>6, <1>7 DEF IInv

\* FastMiss moves one thread only.
LEMMA FastMissStep ==
  ASSUME IInv, NEW t \in Threads, NEW d \in Domains, FastMiss(t, d) PROVE IInv'
BY DEF IInv, TypeOK, Bijection, SavedInjective, LockHeld, FileWhole, FastMiss, tables, disk,
       At, Injective

\* The slow path keeps the maps inverse: the slot's old domain is dropped.
LEMMA SlowAssignStep ==
  ASSUME IInv, NEW t \in Threads, SlowAssign(t) PROVE IInv'
<1> DEFINE d == thr[t]
<1>1. d \in Domains /\ thr' \in [Threads -> Domains \cup {NoDomain}]
  BY DEF IInv, TypeOK, SlowAssign
<1>2. /\ fl' = fl /\ lock' = lock /\ tmp' = tmp /\ file' = file /\ count' = count
  BY DEF SlowAssign, disk
<1>3. SavedInjective' /\ LockHeld' /\ FileWhole'
  BY <1>2 DEF IInv, SavedInjective, LockHeld, FileWhole, At
<1>4. CASE SecondLook(d)
  <2>1. UNCHANGED <<tables, dirty>>
    BY <1>4 DEF SlowAssign
  <2> QED
    BY <1>1, <1>2, <1>3, <2>1 DEF IInv, TypeOK, Bijection, tables
<1>5. CASE ~SecondLook(d)
  <2>1. /\ d2i' = Evicted(d, i2d[next]) /\ i2d' = [i2d EXCEPT ![next] = d]
        /\ next' = After(next) /\ dirty' = TRUE
    BY <1>5 DEF SlowAssign
  <2>2. next \in Usable /\ next \in Hosts /\ next # NoHost
    BY RangeFacts DEF IInv, TypeOK
  <2>3. TypeOK'
    BY <1>1, <1>2, <2>1, <2>2, RangeFacts DEF IInv, TypeOK, Evicted
  <2>4. ASSUME NEW x \in Domains, NEW h \in Hosts
        PROVE d2i'[x] = h <=> i2d'[h] = x
    <3>1. d2i'[x] = IF x = d THEN next ELSE IF x = i2d[next] THEN NoHost ELSE d2i[x]
      BY <2>1 DEF Evicted
    <3>2. i2d'[h] = IF h = next THEN d ELSE i2d[h]
      BY <2>1, <2>2 DEF IInv, TypeOK
    <3>3. d2i[x] = h <=> i2d[h] = x
      BY DEF IInv, Bijection
    <3>4. d2i[x] = next <=> i2d[next] = x
      BY <2>2 DEF IInv, Bijection
    <3>5. i2d[h] # d
      BY <1>1, <1>5, RangeFacts DEF IInv, Bijection, SecondLook, Hit
    <3> QED
      BY <3>1, <3>2, <3>3, <3>4, <3>5, <2>2, RangeFacts
  <2>5. Bijection'
    BY <2>4 DEF Bijection
  <2> QED
    BY <1>3, <2>3, <2>5 DEF IInv
<1> QED
  BY <1>4, <1>5

\* Clearing leaves two empty maps.
LEMMA ClearStep ==
  ASSUME IInv, Clear PROVE IInv'
<1>1. NoMap \in [Domains -> Usable \cup {NoHost}]
  BY DEF NoMap
<1>2. count' \in [clear : 0..MaxClears, crash : 0..MaxCrashes]
  BY DEF IInv, TypeOK, Clear
<1>3. TypeOK'
  BY <1>1, <1>2, RangeFacts DEF IInv, TypeOK, Clear, disk
<1>4. Bijection'
  BY RangeFacts DEF Clear, Bijection, NoMap
<1>5. SavedInjective' /\ LockHeld' /\ FileWhole'
  BY DEF IInv, SavedInjective, LockHeld, FileWhole, At, Clear, disk
<1> QED
  BY <1>3, <1>4, <1>5 DEF IInv

\* What a step of a flusher that leaves the table alone keeps.
LEMMA TableKept ==
  ASSUME IInv, UNCHANGED <<tables, thr, count>>,
         dirty' \in BOOLEAN,
         fl' \in [Flushers -> Flushing],
         lock' \in Flushers \cup {Free},
         tmp' \in Images \cup {Absent, Torn}, file' \in Images \cup {Absent, Torn}
  PROVE TypeOK' /\ Bijection'
BY DEF IInv, TypeOK, Bijection, tables

\* Changing a flusher's place and its snapshot.
LEMMA FlushingUpdate ==
  ASSUME NEW r \in Flushing, NEW n \in Usable, NEW m \in [Domains -> Usable \cup {NoHost}]
  PROVE /\ [r EXCEPT !.pc = "next", !.map = m] \in Flushing
        /\ [r EXCEPT !.pc = "write", !.next = n] \in Flushing
<1> DEFINE T == Usable \cup {NoHost}
<1>1. r = [pc |-> r.pc, map |-> r.map, next |-> r.next]
      /\ r.map \in [Domains -> T] /\ r.next \in Usable
  OBVIOUS
<1> DEFINE M == [Domains -> T]
<1> HIDE DEF M, T
<1>2. [pc |-> "next", map |-> m, next |-> r.next] \in Flushing
  BY <1>1 DEF M, T
<1>3. [pc |-> "write", map |-> r.map, next |-> n] \in Flushing
  BY <1>1 DEF M, T
<1>4. /\ [r EXCEPT !.pc = "next", !.map = m] = [pc |-> "next", map |-> m, next |-> r.next]
      /\ [r EXCEPT !.pc = "write", !.next = n] = [pc |-> "write", map |-> r.map, next |-> n]
  <2> DEFINE a == r.pc  b == r.map  c == r.next
  <2>1. r = [pc |-> a, map |-> b, next |-> c]
    BY <1>1
  <2> HIDE DEF a, b, c
  <2>2. [r EXCEPT !.pc = "next"] = [pc |-> "next", map |-> b, next |-> c]
    BY <2>1
  <2>3. [[pc |-> "next", map |-> b, next |-> c] EXCEPT !.map = m]
          = [pc |-> "next", map |-> m, next |-> c]
    OBVIOUS
  <2>4. [r EXCEPT !.pc = "write"] = [pc |-> "write", map |-> b, next |-> c]
    BY <2>1
  <2>5. [[pc |-> "write", map |-> b, next |-> c] EXCEPT !.next = n]
          = [pc |-> "write", map |-> b, next |-> n]
    OBVIOUS
  <2> QED
    BY <2>2, <2>3, <2>4, <2>5 DEF b, c
<1> QED
  BY <1>2, <1>3, <1>4

\* The places a flusher moves to without touching its snapshot.
LEMMA MoveType ==
  ASSUME TypeOK, NEW f \in Flushers,
         NEW pc \in {"lock", "snapshot", "next", "write", "writing", "rename"}, Move(f, pc)
  PROVE /\ fl' \in [Flushers -> Flushing]
        /\ fl'[f].pc = pc
        /\ \A g \in Flushers : fl'[g].map = fl[g].map /\ fl'[g].next = fl[g].next
        /\ \A g \in Flushers : g # f => fl'[g].pc = fl[g].pc
BY DEF TypeOK, Move

\* A flusher that returns is idle again and has let go of the lock.
LEMMA ReturnType ==
  ASSUME TypeOK, NEW f \in Flushers, Return(f)
  PROVE /\ fl' \in [Flushers -> Flushing]
        /\ fl'[f] = NoFlush /\ lock' = Free
        /\ \A g \in Flushers : g # f => fl'[g] = fl[g]
<1>1. NoFlush \in Flushing
  BY RangeFacts DEF NoFlush, NoMap
<1> QED
  BY <1>1 DEF TypeOK, Return

\* FlushBegin keeps the invariant.
LEMMA FlushBeginStep ==
  ASSUME IInv, NEW f \in Flushers, FlushBegin(f) PROVE IInv'
<1>1. Move(f, "lock") /\ dirty' = FALSE /\ At(f, "idle")
      /\ UNCHANGED <<tables, thr, lock, disk, count>>
  BY DEF FlushBegin
<1>2. TypeOK' /\ Bijection'
  BY <1>1, TableKept, MoveType DEF IInv, TypeOK, disk
<1>3. SavedInjective' /\ LockHeld' /\ FileWhole'
  BY <1>1, MoveType DEF IInv, SavedInjective, LockHeld, FileWhole, At, Holding, disk
<1> QED
  BY <1>2, <1>3 DEF IInv

\* FlushLock keeps the invariant: nobody else was past the lock.
LEMMA FlushLockStep ==
  ASSUME IInv, NEW f \in Flushers, FlushLock(f) PROVE IInv'
<1>1. Move(f, "snapshot") /\ lock = Free /\ lock' = f /\ At(f, "lock")
      /\ UNCHANGED <<tables, thr, dirty, disk, count>>
  BY DEF FlushLock, LockFree
<1>2. TypeOK' /\ Bijection'
  BY <1>1, TableKept, MoveType DEF IInv, TypeOK, disk
<1>3. SavedInjective' /\ FileWhole'
  BY <1>1, MoveType DEF IInv, SavedInjective, FileWhole, disk
<1>4. LockHeld'
  BY ZenonT(40), <1>1, MoveType DEF IInv, LockHeld, At, Holding, disk
<1> QED
  BY <1>2, <1>3, <1>4 DEF IInv

\* The snapshot is injective because the table is.
LEMMA FlushSnapshotStep ==
  ASSUME IInv, NEW f \in Flushers, FlushSnapshot(f) PROVE IInv'
<1>1. fl' = [fl EXCEPT ![f].pc = "next", ![f].map = d2i] /\ At(f, "snapshot")
      /\ UNCHANGED <<tables, thr, dirty, lock, disk, count>>
  BY DEF FlushSnapshot
<1>2. fl' \in [Flushers -> Flushing]
  <2>1. [fl[f] EXCEPT !.pc = "next", !.map = d2i] \in Flushing
    BY FlushingUpdate DEF IInv, TypeOK
  <2>2. fl' = [fl EXCEPT ![f] = [fl[f] EXCEPT !.pc = "next", !.map = d2i]]
    BY <1>1 DEF IInv, TypeOK
  <2> QED
    BY <2>1, <2>2 DEF IInv, TypeOK
<1>3. /\ fl'[f].pc = "next" /\ fl'[f].map = d2i
      /\ \A g \in Flushers : g # f => fl'[g] = fl[g]
  BY <1>1 DEF IInv, TypeOK
<1>4. Injective(d2i)
  <2>1. \A d \in Domains : d2i[d] # NoHost => d2i[d] \in Hosts
    BY RangeFacts DEF IInv, TypeOK
  <2> QED
    BY <2>1 DEF IInv, Bijection, Injective
<1>5. TypeOK' /\ Bijection'
  BY <1>1, <1>2, TableKept DEF IInv, TypeOK, disk
<1>6. SavedInjective' /\ FileWhole'
  BY <1>1, <1>3, <1>4 DEF IInv, SavedInjective, FileWhole, disk
<1>7. LockHeld'
  BY <1>1, <1>3 DEF IInv, LockHeld, At, Holding, disk
<1> QED
  BY <1>5, <1>6, <1>7 DEF IInv

\* FlushNext keeps the invariant.
LEMMA FlushNextStep ==
  ASSUME IInv, NEW f \in Flushers, FlushNext(f) PROVE IInv'
<1>1. fl' = [fl EXCEPT ![f].pc = "write", ![f].next = next] /\ At(f, "next")
      /\ UNCHANGED <<tables, thr, dirty, lock, disk, count>>
  BY DEF FlushNext
<1>2. fl' \in [Flushers -> Flushing]
  <2>1. [fl[f] EXCEPT !.pc = "write", !.next = next] \in Flushing
    BY FlushingUpdate DEF IInv, TypeOK
  <2>2. fl' = [fl EXCEPT ![f] = [fl[f] EXCEPT !.pc = "write", !.next = next]]
    BY <1>1 DEF IInv, TypeOK
  <2> QED
    BY <2>1, <2>2 DEF IInv, TypeOK
<1>3. /\ fl'[f].pc = "write" /\ fl'[f].map = fl[f].map
      /\ \A g \in Flushers : g # f => fl'[g] = fl[g]
  BY <1>1 DEF IInv, TypeOK
<1>4. TypeOK' /\ Bijection'
  BY <1>1, <1>2, TableKept DEF IInv, TypeOK, disk
<1>5. SavedInjective' /\ FileWhole'
  BY <1>1, <1>3 DEF IInv, SavedInjective, FileWhole, disk
<1>6. LockHeld'
  BY <1>1, <1>3 DEF IInv, LockHeld, At, Holding, disk
<1> QED
  BY <1>4, <1>5, <1>6 DEF IInv

\* The .tmp file is torn only while its writer holds the lock, so nobody else
\* is about to rename it.
LEMMA FlushOpenStep ==
  ASSUME IInv, NEW f \in Flushers, FlushOpen(f) PROVE IInv'
<1>1. Move(f, "writing") /\ At(f, "write") /\ tmp' = Torn
      /\ UNCHANGED <<tables, thr, dirty, lock, file, count>>
  BY DEF FlushOpen
<1>2. TypeOK' /\ Bijection'
  BY <1>1, TableKept, MoveType DEF IInv, TypeOK
<1>3. SavedInjective' /\ FileWhole'
  BY <1>1, MoveType DEF IInv, SavedInjective, FileWhole
<1>4. lock = f
  BY <1>1 DEF IInv, LockHeld, At, Holding
<1>5. \A g \in Flushers : ~(fl'[g].pc = "rename")
  BY <1>1, <1>4, MoveType DEF IInv, LockHeld, Holding
<1>6. LockHeld'
  BY <1>1, <1>4, <1>5, MoveType DEF IInv, LockHeld, At, Holding
<1> QED
  BY <1>2, <1>3, <1>6 DEF IInv

\* FlushWrite keeps the invariant: the .tmp file is whole from here on.
LEMMA FlushWriteStep ==
  ASSUME IInv, NEW f \in Flushers, FlushWrite(f) PROVE IInv'
<1>1. Move(f, "rename") /\ At(f, "writing") /\ tmp' = [map |-> fl[f].map, next |-> fl[f].next]
      /\ UNCHANGED <<tables, thr, dirty, lock, file, count>>
  BY DEF FlushWrite
<1>2. tmp' \in Images /\ tmp'.map = fl[f].map
  BY <1>1 DEF IInv, TypeOK, Images
<1>3. TypeOK' /\ Bijection'
  BY <1>1, <1>2, TableKept, MoveType DEF IInv, TypeOK
<1>4. SavedInjective' /\ FileWhole'
  BY <1>1, <1>2, MoveType DEF IInv, SavedInjective, FileWhole
<1>5. lock = f
  BY <1>1 DEF IInv, LockHeld, At, Holding
<1>6. \A g \in Flushers : g # f => fl'[g].pc \notin Holding
  BY <1>1, <1>5, MoveType DEF IInv, LockHeld
<1>7. LockHeld'
  BY <1>1, <1>2, <1>5, <1>6, MoveType DEF IInv, LockHeld, At, Holding
<1> QED
  BY <1>3, <1>4, <1>7 DEF IInv

\* What is renamed is whole: its writer still holds the lock.
LEMMA FlushRenameStep ==
  ASSUME IInv, NEW f \in Flushers, FlushRename(f) PROVE IInv'
<1>1. At(f, "rename") /\ file' = tmp /\ tmp' = Absent /\ Return(f)
      /\ UNCHANGED <<tables, thr, dirty, count>>
  BY DEF FlushRename
<1>2. tmp \in Images
  BY <1>1 DEF IInv, LockHeld
<1>3. lock = f
  BY <1>1 DEF IInv, LockHeld, At, Holding
<1>4. TypeOK' /\ Bijection'
  BY <1>1, <1>2, TableKept, ReturnType DEF IInv, TypeOK
<1>5. Injective(NoMap)
  BY DEF Injective, NoMap
<1>6. SavedInjective' /\ FileWhole'
  <2>1. \A g \in Flushers : Injective(fl'[g].map)
    BY <1>1, <1>5, ReturnType DEF IInv, SavedInjective, NoFlush
  <2> QED
    BY <1>1, <1>2, <2>1 DEF IInv, SavedInjective, FileWhole
<1>7. \A g \in Flushers : fl'[g].pc \notin Holding
  BY <1>1, <1>3, ReturnType DEF IInv, LockHeld, NoFlush, Holding
<1>8. LockHeld'
  BY <1>7 DEF LockHeld, At, Holding
<1> QED
  BY <1>4, <1>6, <1>8 DEF IInv

\* FlushFail keeps the invariant.
LEMMA FlushFailStep ==
  ASSUME IInv, NEW f \in Flushers, FlushFail(f) PROVE IInv'
<1>1. fl[f].pc \in Holding /\ tmp' \in {tmp, Absent} /\ dirty' = TRUE /\ Return(f)
      /\ UNCHANGED <<tables, thr, file, count>>
  BY DEF FlushFail, Retry, Holding
<1>2. lock = f
  BY <1>1 DEF IInv, LockHeld
<1>3. TypeOK' /\ Bijection'
  BY <1>1, TableKept, ReturnType DEF IInv, TypeOK
<1>4. SavedInjective' /\ FileWhole'
  <2>1. \A g \in Flushers : Injective(fl'[g].map)
    BY <1>1, ReturnType DEF IInv, SavedInjective, NoFlush, NoMap, Injective
  <2> QED
    BY <1>1, <2>1 DEF IInv, SavedInjective, FileWhole
<1>5. \A g \in Flushers : fl'[g].pc \notin Holding
  BY <1>1, <1>2, ReturnType DEF IInv, LockHeld, NoFlush, Holding
<1>6. LockHeld'
  BY <1>5 DEF LockHeld, At, Holding
<1> QED
  BY <1>3, <1>4, <1>6 DEF IInv

\* A restart rebuilds inverse maps from an injective file.
LEMMA RestartStep ==
  ASSUME IInv, Restart PROVE IInv'
<1> DEFINE saved == IF file \in {Absent, Torn} THEN [map |-> NoMap, next |-> FirstHost] ELSE file
           m == saved.map
<1>1. /\ d2i' = m /\ next' = saved.next
      /\ i2d' = [h \in Hosts |-> IF \E d \in Domains : m[d] = h
                                   THEN CHOOSE d \in Domains : m[d] = h ELSE NoDomain]
      /\ thr' = [t \in Threads |-> NoDomain] /\ dirty' = FALSE
      /\ fl' = [f \in Flushers |-> NoFlush] /\ lock' = Free
      /\ UNCHANGED disk
  BY DEF Restart
<1>2. NoMap \in [Domains -> Usable \cup {NoHost}] /\ Injective(NoMap)
  BY DEF NoMap, Injective
<1>3. m \in [Domains -> Usable \cup {NoHost}] /\ saved.next \in Usable /\ Injective(m)
  <2>1. CASE file \in {Absent, Torn}
    BY <2>1, <1>2, RangeFacts
  <2>2. CASE file \notin {Absent, Torn}
    <3>1. file \in Images
      BY <2>2 DEF IInv, TypeOK
    <3> QED
      BY <2>2, <3>1 DEF IInv, SavedInjective, Images
  <2> QED
    BY <2>1, <2>2
<1> HIDE DEF saved, m
<1>4. count' \in [clear : 0..MaxClears, crash : 0..MaxCrashes]
  BY DEF IInv, TypeOK, Restart
<1>5. NoFlush \in Flushing
  BY <1>2, RangeFacts DEF NoFlush
<1>6. i2d' \in [Hosts -> Domains \cup {NoDomain}]
  BY <1>1
<1>7. TypeOK'
  BY <1>1, <1>3, <1>4, <1>5, <1>6 DEF IInv, TypeOK, disk
<1>8. ASSUME NEW d \in Domains, NEW h \in Hosts
      PROVE d2i'[d] = h <=> i2d'[h] = d
  <2>1. CASE m[d] = h
    <3> DEFINE e == CHOOSE x \in Domains : m[x] = h
    <3>1. e \in Domains /\ m[e] = h
      BY <2>1
    <3>2. e = d
      BY <2>1, <3>1, <1>3, RangeFacts DEF Injective
    <3>3. i2d'[h] = e
      BY <2>1, <1>1
    <3> QED
      BY <2>1, <3>2, <3>3, <1>1
  <2>2. CASE m[d] # h
    <3>1. CASE \E x \in Domains : m[x] = h
      <4> DEFINE e == CHOOSE x \in Domains : m[x] = h
      <4>1. e \in Domains /\ m[e] = h
        BY <3>1
      <4>2. i2d'[h] = e
        BY <3>1, <1>1
      <4> QED
        BY <2>2, <4>1, <4>2, <1>1
    <3>2. CASE ~ \E x \in Domains : m[x] = h
      BY <2>2, <3>2, <1>1
    <3> QED
      BY <3>1, <3>2
  <2> QED
    BY <2>1, <2>2
<1>9. Bijection'
  BY <1>8 DEF Bijection
<1>10. SavedInjective' /\ LockHeld' /\ FileWhole'
  BY <1>1, <1>2 DEF IInv, SavedInjective, LockHeld, FileWhole, NoFlush, At, Holding, disk
<1> QED
  BY <1>7, <1>9, <1>10 DEF IInv

\* Every step keeps the invariant.
LEMMA NextInvariant == IInv /\ [Next]_vars => IInv'
<1> SUFFICES ASSUME IInv, [Next]_vars PROVE IInv'
  OBVIOUS
<1>1. ASSUME NEW t \in Threads, NEW d \in Domains, FastMiss(t, d) PROVE IInv'
  BY <1>1, FastMissStep
<1>2. ASSUME NEW t \in Threads, SlowAssign(t) PROVE IInv'
  BY <1>2, SlowAssignStep
<1>3. ASSUME NEW f \in Flushers, FlushStep(f) PROVE IInv'
  BY <1>3, FlushBeginStep, FlushLockStep, FlushSnapshotStep, FlushNextStep, FlushOpenStep,
     FlushWriteStep, FlushRenameStep, FlushFailStep DEF FlushStep
<1>4. CASE Clear
  BY <1>4, ClearStep
<1>5. CASE Restart
  BY <1>5, RestartStep
<1>6. CASE UNCHANGED vars
  BY <1>6 DEF vars, tables, disk, IInv, TypeOK, Bijection, SavedInjective, LockHeld, FileWhole, At
<1> QED
  BY <1>1, <1>2, <1>3, <1>4, <1>5, <1>6 DEF Next

\* The inductive invariant holds in every reachable state.
THEOREM InvariantHolds == Spec => []IInv
BY InitInvariant, NextInvariant, PTL DEF Spec

\* Type correctness: next_ip is never an address that must not be handed out.
THEOREM TypeCorrect == Spec => []TypeOK
<1>1. IInv => TypeOK
  BY DEF IInv
<1> QED
  BY <1>1, InvariantHolds, PTL

\* The forward and the reverse map are inverse to each other, through
\* evictions, clears and restarts.
THEOREM MapsAreInverse == Spec => []Bijection
<1>1. IInv => Bijection
  BY DEF IInv
<1> QED
  BY <1>1, InvariantHolds, PTL

\* No domain is mapped to the network, the gateway or the broadcast address.
THEOREM ReservedStayUnused == Spec => []ReservedUnused
<1>1. IInv => ReservedUnused
  <2> SUFFICES ASSUME IInv, NEW h \in Hosts, i2d[h] # NoDomain PROVE h \in Usable
    BY DEF ReservedUnused
  <2>1. i2d[h] \in Domains /\ d2i[i2d[h]] = h
    BY DEF IInv, TypeOK, Bijection
  <2> QED
    BY <2>1, RangeFacts DEF IInv, TypeOK
<1> QED
  BY <1>1, InvariantHolds, PTL

\* The cache file is one whole table at any moment a crash may come.
THEOREM FileIsWhole == Spec => []FileWhole
<1>1. IInv => FileWhole
  BY DEF IInv
<1> QED
  BY <1>1, InvariantHolds, PTL

-----------------------------------------------------------------------------
(* What the persistence remembers *)

\* Every step keeps a clean table covered.
LEMMA CoveredStep == IInv /\ Covered /\ [Next]_vars => Covered'
<1> SUFFICES ASSUME IInv, Covered, [Next]_vars, count'.clear = 0, ~dirty'
             PROVE Covered'
  BY DEF Covered
<1>1. ASSUME NEW t \in Threads, NEW d \in Domains, FastMiss(t, d) PROVE Covered'
  BY <1>1 DEF FastMiss, tables, disk, Covered, Saved
<1>2. ASSUME NEW t \in Threads, SlowAssign(t) PROVE Covered'
  BY <1>2 DEF SlowAssign, tables, disk, Covered, Saved
<1>3. ASSUME NEW f \in Flushers, FlushStep(f) PROVE Covered'
  <2>1. ASSUME FlushBegin(f) PROVE Covered'
    <3>1. fl'[f].pc = "lock"
      BY <2>1, MoveType DEF FlushBegin, IInv
    <3> QED
      BY <3>1 DEF Covered
  <2>2. ASSUME FlushLock(f) PROVE Covered'
    <3>1. fl'[f].pc = "snapshot"
      BY <2>2, MoveType DEF FlushLock, IInv
    <3> QED
      BY <3>1 DEF Covered
  <2>3. ASSUME FlushSnapshot(f) PROVE Covered'
    <3>1. fl'[f].pc = "next" /\ fl'[f].map = d2i /\ d2i' = d2i
      BY <2>3 DEF FlushSnapshot, IInv, TypeOK, tables
    <3> QED
      BY <3>1 DEF Covered, Taken
  <2>4. ASSUME \/ FlushNext(f) \/ FlushOpen(f) \/ FlushWrite(f) PROVE Covered'
    <3>1. /\ fl[f].pc \in Taken /\ fl'[f].pc \in Taken /\ fl'[f].map = fl[f].map
          /\ \A g \in Flushers : g # f => fl'[g] = fl[g]
      BY <2>4 DEF FlushNext, FlushOpen, FlushWrite, Move, At, IInv, TypeOK, Taken
    <3>2. UNCHANGED <<tables, dirty, file, count>>
      BY <2>4 DEF FlushNext, FlushOpen, FlushWrite, disk
    <3>3. f \notin {g \in Flushers : fl[g].pc \in {"lock", "snapshot"}}
      BY <3>1 DEF Taken
    <3> QED
      BY <3>1, <3>2, <3>3 DEF Covered, tables
  <2>5. ASSUME FlushRename(f) PROVE Covered'
    <3>1. /\ At(f, "rename") /\ file' = tmp /\ Return(f) /\ UNCHANGED <<tables, dirty, count>>
      BY <2>5 DEF FlushRename
    <3>2. tmp \in Images /\ tmp.map = fl[f].map /\ file' # Absent /\ file'.map = fl[f].map
      BY <3>1 DEF IInv, LockHeld
    <3>3. lock = f
      BY <3>1 DEF IInv, LockHeld, At, Holding
    <3>4. \A g \in Flushers : fl'[g].pc \notin Taken
      BY <3>1, <3>3, ReturnType DEF IInv, LockHeld, NoFlush, Taken, Holding
    <3>5. \A g \in Flushers : fl[g].pc \in Taken => g = f
      BY <3>3 DEF IInv, LockHeld, Taken, Holding
    <3>6. fl[f].pc \in Taken /\ f \notin {g \in Flushers : fl[g].pc \in {"lock", "snapshot"}}
      BY <3>1 DEF At, Taken
    <3>7. CASE \E g \in Flushers : fl[g].pc \in {"lock", "snapshot"}
      <4>1. PICK g \in Flushers : fl[g].pc \in {"lock", "snapshot"}
        BY <3>7
      <4>2. fl'[g] = fl[g]
        BY <4>1, <3>1, <3>6, ReturnType DEF IInv
      <4> QED
        BY <4>1, <4>2 DEF Covered
    <3>8. CASE \E g \in Flushers : fl[g].pc \in Taken /\ fl[g].map = d2i
      <4>1. fl[f].map = d2i
        BY <3>8, <3>5
      <4> QED
        BY <4>1, <3>1, <3>2, <3>4 DEF Covered, Saved, tables
    <3> QED
      BY <3>6, <3>7, <3>8, <3>1 DEF Covered
  <2>6. ASSUME FlushFail(f) PROVE FALSE
    BY <2>6 DEF FlushFail, Retry
  <2> QED
    BY <1>3, <2>1, <2>2, <2>3, <2>4, <2>5, <2>6 DEF FlushStep
<1>4. ASSUME Clear PROVE FALSE
  <2>1. count.clear \in Nat /\ count'.clear = count.clear + 1
    BY <1>4 DEF Clear, IInv, TypeOK
  <2> QED
    BY <2>1
<1>5. ASSUME Restart PROVE Covered'
  <2>1. \A f \in Flushers : fl'[f].pc = "idle"
    BY <1>5 DEF Restart, NoFlush
  <2>2. file' = file /\ file # Torn
    BY <1>5 DEF Restart, disk, IInv, FileWhole
  <2>3. Saved'
    BY <1>5, <2>2 DEF Restart, Saved
  <2> QED
    BY <2>1, <2>3 DEF Covered, Taken
<1>6. CASE UNCHANGED vars
  BY <1>6 DEF vars, tables, disk, Covered, Saved
<1> QED
  BY <1>1, <1>2, <1>3, <1>4, <1>5, <1>6 DEF Next, Covered

\* Nothing assigned is forgotten: a table that is neither dirty nor being
\* flushed is in the file, whatever writes failed before.
THEOREM NothingIsForgotten == Spec => []NothingForgotten
<1>1. Init => Covered
  BY DEF Init, Covered, Saved, NoFlush, Taken
<1>2. IInv /\ Covered => NothingForgotten
  <2> SUFFICES ASSUME IInv, Covered, count.clear = 0, ~dirty,
                      \A f \in Flushers : At(f, "idle")
               PROVE \/ file \notin {Absent, Torn} /\ file.map = d2i
                     \/ file = Absent /\ d2i = NoMap
    BY DEF NothingForgotten
  <2> QED
    BY DEF Covered, Saved, At, Taken, IInv, FileWhole
<1> QED
  BY <1>1, <1>2, CoveredStep, InvariantHolds, PTL DEF Spec

-----------------------------------------------------------------------------
(* What a domain may expect of its address *)

\* A mapped domain keeps its address or loses it to the next owner of the slot.
THEOREM AddressesAreStable == Spec => Stable
<1> DEFINE Keeps ==
     count' = count =>
      \A d \in Domains : Hit(d) =>
        \/ d2i'[d] = d2i[d]
        \/ d2i'[d] = NoHost /\ i2d'[d2i[d]] \notin {d, NoDomain}
<1>1. IInv /\ [Next]_vars => [Keeps]_vars
  <2> SUFFICES ASSUME IInv, Next, count' = count, NEW d \in Domains, Hit(d)
               PROVE \/ d2i'[d] = d2i[d]
                     \/ d2i'[d] = NoHost /\ i2d'[d2i[d]] \notin {d, NoDomain}
    BY DEF vars
  <2>1. ASSUME NEW t \in Threads, SlowAssign(t), ~SecondLook(thr[t]), d2i'[d] # d2i[d]
        PROVE d2i'[d] = NoHost /\ i2d'[d2i[d]] \notin {d, NoDomain}
    <3>1. d2i' = Evicted(thr[t], i2d[next]) /\ i2d' = [i2d EXCEPT ![next] = thr[t]]
      BY <2>1 DEF SlowAssign
    <3>2. d # thr[t]
      BY <2>1 DEF SecondLook, Hit
    <3>3. d = i2d[next] /\ d2i'[d] = NoHost
      BY <3>1, <3>2, <2>1 DEF Evicted
    <3>4. d2i[d] = next /\ next \in Hosts
      BY <3>3, RangeFacts DEF IInv, TypeOK, Bijection
    <3>5. i2d'[next] = thr[t] /\ thr[t] \in Domains
      BY <3>1, <3>4, <2>1 DEF IInv, TypeOK, SlowAssign
    <3> QED
      BY <3>2, <3>3, <3>4, <3>5
  <2>2. ASSUME NEW t \in Threads, SlowAssign(t), SecondLook(thr[t]) PROVE d2i' = d2i
    BY <2>2 DEF SlowAssign, tables
  <2>3. ASSUME NEW t \in Threads, NEW e \in Domains, FastMiss(t, e) PROVE d2i' = d2i
    BY <2>3 DEF FastMiss, tables
  <2>4. ASSUME NEW f \in Flushers, FlushStep(f) PROVE d2i' = d2i
    BY <2>4 DEF FlushStep, FlushBegin, FlushLock, FlushSnapshot, FlushNext, FlushOpen, FlushWrite,
       FlushRename, FlushFail, tables
  <2>5. ~Clear
    <3>1. count.clear \in Nat /\ (Clear => count'.clear = count.clear + 1)
      BY DEF Clear, IInv, TypeOK
    <3> QED
      BY <3>1
  <2>6. ~Restart
    <3>1. count.crash \in Nat /\ (Restart => count'.crash = count.crash + 1)
      BY DEF Restart, IInv, TypeOK
    <3> QED
      BY <3>1
  <2> QED
    BY <2>1, <2>2, <2>3, <2>4, <2>5, <2>6 DEF Next
<1> QED
  BY <1>1, InvariantHolds, PTL DEF Spec, Stable

\* Until a restart, a domain is pushed out only when the range is full.
THEOREM NextStaysFree == Spec => []NextIsFree
<1>1. Init => Filling
  BY RangeFacts DEF Init, Filling, Usable, FirstHost, Hosts
<1>2. IInv /\ Filling /\ [Next]_vars => Filling'
  <2> SUFFICES ASSUME IInv, Filling, [Next]_vars PROVE Filling'
    OBVIOUS
  <2>1. ASSUME NEW t \in Threads, SlowAssign(t), ~SecondLook(thr[t]) PROVE Filling'
    <3>1. i2d' = [i2d EXCEPT ![next] = thr[t]] /\ next' = After(next) /\ thr[t] \in Domains
      BY <2>1 DEF SlowAssign, IInv, TypeOK
    <3>2. \A h \in Hosts : i2d'[h] = IF h = next THEN thr[t] ELSE i2d[h]
      BY <3>1 DEF IInv, TypeOK
    <3>3. CASE Full
      BY <3>1, <3>2, <3>3, RangeFacts DEF Full, Filling
    <3>4. CASE count.crash > 0
      BY <3>4, <2>1 DEF SlowAssign, Filling
    <3>5. CASE ~Full /\ ~(count.crash > 0)
      BY <3>1, <3>2, <3>5, RangeFacts
         DEF Filling, Full, After, Usable, FirstHost, Hosts, IInv, TypeOK
    <3> QED
      BY <3>3, <3>4, <3>5
  <2>2. ASSUME NEW t \in Threads, SlowAssign(t), SecondLook(thr[t]) PROVE Filling'
    BY <2>2 DEF SlowAssign, tables, Filling, Full
  <2>3. ASSUME NEW t \in Threads, NEW e \in Domains, FastMiss(t, e) PROVE Filling'
    BY <2>3 DEF FastMiss, tables, Filling, Full
  <2>4. ASSUME NEW f \in Flushers, FlushStep(f) PROVE Filling'
    BY <2>4 DEF FlushStep, FlushBegin, FlushLock, FlushSnapshot, FlushNext, FlushOpen, FlushWrite,
       FlushRename, FlushFail, tables, Filling, Full
  <2>5. CASE Clear
    BY <2>5, RangeFacts DEF Clear, Filling, Usable, FirstHost, Hosts
  <2>6. CASE Restart
    <3>1. count'.crash = count.crash + 1 /\ count.crash \in Nat
      BY <2>6 DEF Restart, IInv, TypeOK
    <3> QED
      BY <3>1 DEF Filling
  <2>7. CASE UNCHANGED vars
    BY <2>7 DEF vars, tables, Filling, Full
  <2> QED
    BY <2>1, <2>2, <2>3, <2>4, <2>5, <2>6, <2>7 DEF Next
<1>3. IInv /\ Filling => NextIsFree
  BY DEF IInv, TypeOK, Filling, NextIsFree, Usable, FirstHost, Full
<1> QED
  BY <1>1, <1>2, <1>3, InvariantHolds, PTL DEF Spec

-----------------------------------------------------------------------------
\* The table is sound in every state, and the file in every state of the disk.
THEOREM TablesAreSound == Spec => []TablesSound
<1>1. TypeOK /\ Bijection /\ ReservedUnused /\ NextIsFree => TablesSound
  BY DEF TablesSound
<1> QED
  BY <1>1, TypeCorrect, MapsAreInverse, ReservedStayUnused, NextStaysFree, PTL

\* One whole table, and no assignment forgotten, at every crash point.
THEOREM FileIsKept == Spec => []FileKept
<1>1. FileWhole /\ NothingForgotten => FileKept
  BY DEF FileKept
<1> QED
  BY <1>1, FileIsWhole, NothingIsForgotten, PTL
=============================================================================
