------------------------------- MODULE FakeIp -------------------------------
(***************************************************************************)
(* The fake-IP table of the Rust core, with its persistence,               *)
(* src/native/mirage-core/src/dns/fake_ip.rs (struct FakeIpMapper).        *)
(*                                                                         *)
(* An address is its host part, 0..Broadcast.  Threads resolve domains     *)
(* (lookup_or_assign); flushers write the table to disk (flush); clear     *)
(* resets it; the process may die and start again from the file.           *)
(* lookup_or_assign holds the write lock of domain_to_ip from its second   *)
(* look to its return, and takes the other two locks inside it, so the     *)
(* slow path is one step; between the fast path's miss and that step any   *)
(* thread may run.                                                         *)
(***************************************************************************)
EXTENDS Naturals, FiniteSets

CONSTANTS
  Domains, NoDomain,   \* domain names, and the absence of one
  NoHost,              \* the absence of an address
  Absent, Torn,        \* no file; a file written in part
  Free,                \* nobody holds flush_lock
  Broadcast,           \* !mask: the host part of the broadcast address
  Threads, Flushers,   \* callers of lookup_or_assign and of flush
  MayFail, MayCrash,   \* whether writes fail, whether the process dies
  MaxClears, MaxCrashes \* bounds: calls of clear, deaths of the process

ASSUME RangeAssumption == Broadcast \in Nat /\ Broadcast >= 4
ASSUME NamesAssumption ==
  NoDomain \notin Domains /\ NoHost \notin Nat /\ Free \notin Flushers
ASSUME BoundsAssumption ==
  MaxClears \in Nat /\ MaxCrashes \in Nat /\ MayFail \in BOOLEAN /\ MayCrash \in BOOLEAN

VARIABLES
  d2i,      \* domain_to_ip
  i2d,      \* ip_to_domain
  next,     \* next_ip
  thr,      \* each thread: the domain it missed on the fast path, or NoDomain
  dirty,    \* dirty
  fl,       \* each flusher: its place in flush() and its snapshot
  lock,     \* flush_lock: who holds it
  tmp,      \* the .tmp file
  file,     \* the cache file
  count     \* bound: clears and crashes so far

tables == <<d2i, i2d, next>>
disk == <<tmp, file>>
vars == <<tables, thr, dirty, fl, lock, disk, count>>

Hosts == 0..Broadcast
FirstHost == 2
Usable == FirstHost..(Broadcast - 1)

\* What a whole cache file holds.
Images == [map : [Domains -> Usable \cup {NoHost}], next : Usable]
ASSUME FilesAssumption == Absent # Torn /\ Absent \notin Images /\ Torn \notin Images

NoMap == [d \in Domains |-> NoHost]
NoFlush == [pc |-> "idle", map |-> NoMap, next |-> FirstHost]

Init ==
  /\ d2i = NoMap /\ i2d = [h \in Hosts |-> NoDomain] /\ next = FirstHost
  /\ thr = [t \in Threads |-> NoDomain] /\ dirty = FALSE
  /\ fl = [f \in Flushers |-> NoFlush] /\ lock = Free
  /\ tmp = Absent /\ file = Absent /\ count = [clear |-> 0, crash |-> 0]

-----------------------------------------------------------------------------
(* lookup_or_assign *)

\* The address after h, skipping the broadcast and the two reserved ones.
After(h) == IF h + 1 = Broadcast THEN FirstHost ELSE h + 1

\* The fast path finds d: its address is returned, nothing changes.
Hit(d) == d2i[d] # NoHost

\* The fast path misses; the read lock is released.
FastMiss(t, d) ==
  /\ thr[t] = NoDomain /\ ~Hit(d)
  /\ thr' = [thr EXCEPT ![t] = d]
  /\ UNCHANGED <<tables, dirty, fl, lock, disk, count>>

\* Mutant: the write lock is not followed by a second look.
MutNoSecondLook(d) == FALSE

\* Another thread assigned d in the meantime.
SecondLook(d) == Hit(d)

\* Mutant: the evicted domain keeps its forward mapping.
MutKeepOld(d, old) == [d2i EXCEPT ![d] = next]

\* The slot's old domain loses its forward mapping, d gets the slot.
Evicted(d, old) ==
  [x \in Domains |-> IF x = d THEN next ELSE IF x = old THEN NoHost ELSE d2i[x]]

\* The slow path: unless d is there by now, it takes the next slot.
SlowAssign(t) ==
  LET d == thr[t] IN
  /\ d # NoDomain /\ thr' = [thr EXCEPT ![t] = NoDomain]
  /\ IF SecondLook(d)
       THEN UNCHANGED <<tables, dirty>>
       ELSE /\ d2i' = Evicted(d, i2d[next])
            /\ i2d' = [i2d EXCEPT ![next] = d]
            /\ next' = After(next)
            /\ dirty' = TRUE
  /\ UNCHANGED <<fl, lock, disk, count>>

\* clear(): both maps and next_ip under their locks.
Clear ==
  /\ count.clear < MaxClears /\ count' = [count EXCEPT !.clear = @ + 1]
  /\ d2i' = NoMap /\ i2d' = [h \in Hosts |-> NoDomain] /\ next' = FirstHost
  /\ dirty' = FALSE
  /\ UNCHANGED <<thr, fl, lock, disk>>

-----------------------------------------------------------------------------
(* flush *)

At(f, pc) == fl[f].pc = pc
Move(f, pc) == fl' = [fl EXCEPT ![f].pc = pc]

\* dirty.swap(false): nothing to write unless it was set.
FlushBegin(f) ==
  /\ At(f, "idle") /\ dirty /\ dirty' = FALSE /\ Move(f, "lock")
  /\ UNCHANGED <<tables, thr, lock, disk, count>>

\* Mutant: the flush lock is not waited for.
MutNoLock == TRUE

LockFree == lock = Free

FlushLock(f) ==
  /\ At(f, "lock") /\ LockFree /\ lock' = f /\ Move(f, "snapshot")
  /\ UNCHANGED <<tables, thr, dirty, disk, count>>

\* The snapshot of domain_to_ip, under its read lock.
FlushSnapshot(f) ==
  /\ At(f, "snapshot") /\ fl' = [fl EXCEPT ![f].pc = "next", ![f].map = d2i]
  /\ UNCHANGED <<tables, thr, dirty, lock, disk, count>>

\* next_ip, read after that lock is released.
FlushNext(f) ==
  /\ At(f, "next") /\ fl' = [fl EXCEPT ![f].pc = "write", ![f].next = next]
  /\ UNCHANGED <<tables, thr, dirty, lock, disk, count>>

\* The .tmp file is opened, then written.
FlushOpen(f) ==
  /\ At(f, "write") /\ tmp' = Torn /\ Move(f, "writing")
  /\ UNCHANGED <<tables, thr, dirty, lock, file, count>>

FlushWrite(f) ==
  /\ At(f, "writing") /\ tmp' = [map |-> fl[f].map, next |-> fl[f].next] /\ Move(f, "rename")
  /\ UNCHANGED <<tables, thr, dirty, lock, file, count>>

\* flush() returns: its guard releases the lock.
Return(f) == fl' = [fl EXCEPT ![f] = NoFlush] /\ lock' = Free

\* The rename puts the .tmp file, whatever it holds, in place of the cache.
FlushRename(f) ==
  /\ At(f, "rename") /\ tmp # Absent
  /\ file' = tmp /\ tmp' = Absent /\ Return(f)
  /\ UNCHANGED <<tables, thr, dirty, count>>

Retry == dirty' = TRUE

\* The open, the write or the rename fails: dirty again; a failed rename
\* removes .tmp.
FlushFail(f) ==
  /\ MayFail /\ fl[f].pc \in {"write", "writing", "rename"}
  /\ tmp' = IF At(f, "rename") THEN Absent ELSE tmp
  /\ Retry /\ Return(f)
  /\ UNCHANGED <<tables, thr, file, count>>

-----------------------------------------------------------------------------
(* The process dies; with_persist starts the next one from the file. *)

\* load(): the entries of the file in this range, and its next_ip.
Restart ==
  /\ MayCrash /\ count.crash < MaxCrashes /\ count' = [count EXCEPT !.crash = @ + 1]
  /\ LET saved == IF file \in {Absent, Torn} THEN [map |-> NoMap, next |-> FirstHost] ELSE file IN
     /\ d2i' = saved.map /\ next' = saved.next
     /\ i2d' = [h \in Hosts |-> IF \E d \in Domains : saved.map[d] = h
                                  THEN CHOOSE d \in Domains : saved.map[d] = h
                                  ELSE NoDomain]
  /\ thr' = [t \in Threads |-> NoDomain] /\ dirty' = FALSE
  /\ fl' = [f \in Flushers |-> NoFlush] /\ lock' = Free
  /\ UNCHANGED disk

FlushStep(f) ==
  \/ FlushBegin(f) \/ FlushLock(f) \/ FlushSnapshot(f) \/ FlushNext(f)
  \/ FlushOpen(f) \/ FlushWrite(f) \/ FlushRename(f) \/ FlushFail(f)

Next ==
  \/ \E t \in Threads : SlowAssign(t) \/ \E d \in Domains : FastMiss(t, d)
  \/ \E f \in Flushers : FlushStep(f)
  \/ Clear \/ Restart

Spec == Init /\ [][Next]_vars

-----------------------------------------------------------------------------
(* Properties *)

\* The places of flush() and what it remembers there.
Flushing ==
  [pc : {"idle", "lock", "snapshot", "next", "write", "writing", "rename"},
   map : [Domains -> Usable \cup {NoHost}], next : Usable]

\* The values every variable ranges over; next_ip is never an address that
\* lookup_or_assign must skip (fake_ip.rs:225-228).
TypeOK ==
  /\ d2i \in [Domains -> Usable \cup {NoHost}]
  /\ i2d \in [Hosts -> Domains \cup {NoDomain}]
  /\ next \in Usable
  /\ thr \in [Threads -> Domains \cup {NoDomain}]
  /\ dirty \in BOOLEAN
  /\ fl \in [Flushers -> Flushing]
  /\ lock \in Flushers \cup {Free}
  /\ tmp \in Images \cup {Absent, Torn} /\ file \in Images \cup {Absent, Torn}
  /\ count \in [clear : 0..MaxClears, crash : 0..MaxCrashes]

\* The two maps are inverse to each other in every state: a fake IP answered
\* for a domain resolves back to that domain, and a slot taken over leaves no
\* stale forward mapping (fake_ip.rs:234-241, test round_robin_bounds_both_maps_and_evicts_oldest).
Bijection == \A d \in Domains, h \in Hosts : d2i[d] = h <=> i2d[h] = d

\* The network address, the gateway and the broadcast address are nobody's
\* fake IP (fake_ip.rs:109-114 and 225-228).
ReservedUnused == \A h \in Hosts : i2d[h] # NoDomain => h \in Usable

\* While the process lives and nobody clears the table, a mapped domain keeps
\* its address or loses it to the domain that takes its slot; it never moves to
\* another address (test same_domain_stable_ip, fake_ip.rs:217-219).
Stable ==
  [][count' = count =>
      \A d \in Domains : Hit(d) =>
        \/ d2i'[d] = d2i[d]
        \/ d2i'[d] = NoHost /\ i2d'[d2i[d]] \notin {d, NoDomain}]_vars

\* Until a restart, a domain is only pushed out when the range is full: the
\* next slot is free as long as any is (round robin from .2,
\* fake_ip.rs:210-231).  A flush that a clear overtakes between its two reads
\* saves a next_ip that breaks this after the restart.
Full == \A h \in Usable : i2d[h] # NoDomain
NextIsFree == count.crash = 0 => Full \/ i2d[next] = NoDomain

\* Two flushes never interleave in the .tmp file, so what the rename puts in
\* place is one whole table (fake_ip.rs:18-20, 138-139).
FileWhole == file # Torn

\* Nothing assigned is forgotten by the persistence: with no flush under way
\* and nothing marked dirty, the file holds the table, whatever writes failed
\* (fake_ip.rs:130 and 160-166).
NothingForgotten ==
  (count.clear = 0 /\ ~dirty /\ \A f \in Flushers : At(f, "idle"))
    => \/ file \notin {Absent, Torn} /\ file.map = d2i
       \/ file = Absent /\ d2i = NoMap

\* The two maps and the next slot, and the file, as other code relies on them
\* (lookup_or_assign; flush and load).
TablesSound == TypeOK /\ Bijection /\ ReservedUnused /\ NextIsFree
FileKept == FileWhole /\ NothingForgotten
=============================================================================
