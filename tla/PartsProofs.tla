----------------------------- MODULE PartsProofs ----------------------------
(***************************************************************************)
(* Proofs about parts of the system that are a module each: the file of    *)
(* profiles (ProfileFile), the timeouts learned in it (AdaptiveIdle), the  *)
(* flights of the handshake cache (HandshakeCache), clocks and tokens      *)
(* (SessionAuth), the user-space TCP stack (TunStack), routing with its    *)
(* tables (Routing), the name a connection starts with (Sniffer), and the  *)
(* tree of outbounds (OutboundBuild, Outbounds).                           *)
(*                                                                         *)
(* Each has an inductive invariant of its own: one save at a time owns the *)
(* draft (FInv); a profile fits its domain (IdleInv); what is cached is    *)
(* whole, and who draws found something (CacheInv); a token that was       *)
(* accepted is known or its bucket is too old to be (AInv); sockets have   *)
(* their own four-tuples and every SYN has a slot (TInv); the index in use *)
(* is that of the list it was made from (IndexInv); what has been read is  *)
(* a part of what was sent (SniffInv); what is built refers to what is     *)
(* built, with no ring in it (BuildInv); and the cursor of the default     *)
(* balance counts the rounds its members had (TurnInv).                    *)
(***************************************************************************)
EXTENDS ProfileFile, AdaptiveIdle, HandshakeCache, SessionAuth, TunStack, Routing,
        Sniffer, Outbounds, FiniteSetTheorems, SequenceTheorems, WellFoundedInduction, TLAPS

-----------------------------------------------------------------------------
(* The file of profiles. *)

Saves == [at : {"idle"}] \cup [at : {"opened", "written"}, inode : Inodes, data : Nat]
Contents == [is : {"free", "empty"}] \cup [is : {"whole"}, data : Nat]

FileTypes ==
  /\ saver \in [Savers -> Saves] /\ disk \in [Inodes -> Contents]
  /\ draft \in Inodes \cup {NoFile} /\ file \in Inodes \cup {NoFile}
  /\ writes \in Nat

Saving(s) == saver[s].at # "idle"

OneSave ==
  /\ \A s, o \in Savers : s # o => ~Saving(s) \/ ~Saving(o)
  /\ \A s \in Savers : Saving(s) => saver[s].inode = draft
  /\ \A s \in Savers : saver[s].at = "written" => disk[draft].is = "whole"
  /\ file # NoFile => disk[file].is = "whole" /\ file # draft
  /\ \A i \in Inodes : disk[i].is # "free" => i \in {draft, file}

FInv == ~overlap => FileTypes /\ OneSave

\* There is an inode for each save and one for the file.
LEMMA ThreeInodes == Inodes = {0, 1, 2} /\ NoFile \notin Inodes
<1>1. "job" # "stop"
  OBVIOUS
<1>2. Cardinality({"job"}) = 1 /\ IsFiniteSet({"job"})
  BY FS_Singleton
<1>3. "stop" \notin {"job"} /\ {"job"} \cup {"stop"} = Savers
  BY <1>1 DEF Savers
<1>4. Cardinality({"job"} \cup {"stop"}) = Cardinality({"job"}) + 1
  BY <1>2, <1>3, FS_AddElement
<1>5. Cardinality(Savers) = 2
  BY <1>2, <1>3, <1>4
<1>6. Inodes = 0..2
  BY <1>5 DEF Inodes
<1>7. 0..2 = {0, 1, 2}
  OBVIOUS
<1>8. -1 \notin 0..2
  OBVIOUS
<1> QED BY <1>6, <1>7, <1>8 DEF NoFile

\* Nothing is on the disk at first.
LEMMA FileInitHolds == FileInit => FInv
<1> SUFFICES ASSUME FileInit PROVE FInv
  OBVIOUS
<1>1. saver \in [Savers -> Saves] /\ \A s \in Savers : saver[s].at = "idle"
  BY DEF FileInit, Saves
<1>2. disk \in [Inodes -> Contents] /\ \A i \in Inodes : disk[i].is = "free"
  BY DEF FileInit, Contents
<1>3. FileTypes
  BY <1>1, <1>2 DEF FileInit, FileTypes
<1>4. OneSave
  BY <1>1, <1>2 DEF FileInit, OneSave, Saving
<1> QED BY <1>3, <1>4 DEF FInv

\* A save, a failure, a rename and a death of the process keep the invariant.
LEMMA FileStepKeeps == FInv /\ [FileNext]_fileVars => FInv'
<1> SUFFICES ASSUME FInv, [FileNext]_fileVars, ~overlap' PROVE FileTypes' /\ OneSave'
  BY DEF FInv
<1>t. ~overlap
  BY DEF FileNext, fileVars, SaveOpens, SaveWrites, SaveFails, SaveRenames, CrashAndLoad
<1>u. FileTypes /\ OneSave
  BY <1>t DEF FInv
<1>l. ASSUME NEW used
      PROVE /\ Linked(used) \in [Inodes -> Contents]
            /\ \A i \in Inodes : Linked(used)[i] = IF i \in used THEN disk[i] ELSE [is |-> "free"]
  BY <1>u DEF Linked, FileTypes, Contents
<1>1. ASSUME NEW s \in Savers, SaveOpens(s) PROVE FileTypes' /\ OneSave'
  <2> DEFINE at == IF draft # NoFile THEN draft ELSE CHOOSE i \in Inodes : disk[i].is = "free"
  <2>1. /\ saver[s].at = "idle" /\ UNCHANGED file /\ draft' = at /\ writes' = writes + 1
        /\ saver' = [saver EXCEPT ![s] = [at |-> "opened", inode |-> at, data |-> writes + 1]]
        /\ disk' = [disk EXCEPT ![at] = [is |-> "empty"]]
        /\ overlap' = (overlap \/ Others(s) # {})
    BY <1>1 DEF SaveOpens
  <2>2. \A o \in Savers : ~Saving(o)
    BY <2>1 DEF Others, Saving
  <2>3. \E i \in Inodes : disk[i].is = "free" \/ i = draft
    BY <1>u, ThreeInodes DEF OneSave
  <2>4. at \in Inodes /\ at # file
    <3>1. CASE draft # NoFile
      BY <3>1, <1>u, ThreeInodes DEF FileTypes, OneSave
    <3>2. CASE draft = NoFile
      <4>1. at \in Inodes /\ disk[at].is = "free"
        BY <3>2, <1>u, ThreeInodes DEF OneSave
      <4>2. file # NoFile => disk[file].is = "whole"
        BY <1>u DEF OneSave
      <4> QED BY <4>1, <4>2, ThreeInodes
    <3> QED BY <3>1, <3>2
  <2>5. \A i \in Inodes : disk[i].is # "free" => i \in {at, file}
    BY <1>u, ThreeInodes DEF OneSave, FileTypes
  <2> HIDE DEF at
  <2>6. [at |-> "opened", inode |-> at, data |-> writes + 1] \in Saves
    BY <1>u, <2>4 DEF FileTypes, Saves
  <2>7. saver' \in [Savers -> Saves] /\ disk' \in [Inodes -> Contents]
    BY <1>u, <2>1, <2>6 DEF FileTypes, Contents
  <2>8. FileTypes'
    BY <1>u, <2>1, <2>4, <2>7 DEF FileTypes
  <2>9. /\ saver'[s].at = "opened" /\ saver'[s].inode = at
        /\ \A o \in Savers \ {s} : saver'[o] = saver[o]
    BY <1>u, <2>1 DEF FileTypes
  <2>10. /\ disk'[at].is = "empty"
         /\ \A i \in Inodes \ {at} : disk'[i] = disk[i]
    BY <1>u, <2>1, <2>4 DEF FileTypes
  <2>11. file \in Inodes \cup {NoFile} /\ (file # NoFile => disk[file].is = "whole")
    BY <1>u DEF FileTypes, OneSave
  <2>12. OneSave'
    BY <2>1, <2>2, <2>4, <2>5, <2>9, <2>10, <2>11 DEF OneSave, Saving
  <2> QED BY <2>8, <2>12
<1>2. ASSUME NEW s \in Savers, SaveWrites(s) PROVE FileTypes' /\ OneSave'
  <2>1. /\ saver[s].at = "opened" /\ UNCHANGED <<draft, file, writes>>
        /\ saver' = [saver EXCEPT ![s].at = "written"]
        /\ disk' = [disk EXCEPT ![saver[s].inode] = [is |-> "whole", data |-> saver[s].data]]
    BY <1>2 DEF SaveWrites
  <2>2. saver[s] \in [at : {"opened", "written"}, inode : Inodes, data : Nat] /\ saver[s].inode = draft
    BY <1>u, <2>1 DEF FileTypes, OneSave, Saving, Saves
  <2>3. saver'[s] \in [at : {"opened", "written"}, inode : Inodes, data : Nat]
        /\ saver'[s].at = "written" /\ saver'[s].inode = draft
        /\ \A o \in Savers \ {s} : saver'[o] = saver[o]
    BY <1>u, <2>1, <2>2 DEF FileTypes
  <2>4. saver' \in [Savers -> Saves]
    BY <1>u, <2>1, <2>3 DEF FileTypes, Saves
  <2>5. disk' \in [Inodes -> Contents] /\ disk'[draft].is = "whole"
        /\ \A i \in Inodes \ {draft} : disk'[i] = disk[i]
    BY <1>u, <2>1, <2>2 DEF FileTypes, Contents
  <2>6. FileTypes'
    BY <1>u, <2>1, <2>4, <2>5 DEF FileTypes
  <2>7. file \in Inodes \cup {NoFile}
    BY <1>u DEF FileTypes
  <2>8. OneSave'
    BY <1>u, <2>1, <2>2, <2>3, <2>5, <2>7 DEF OneSave, Saving
  <2> QED BY <2>6, <2>8
<1>3. ASSUME NEW s \in Savers, SaveFails(s) PROVE FileTypes' /\ OneSave'
  <2>1. /\ UNCHANGED <<disk, draft, file, writes>>
        /\ saver' = [saver EXCEPT ![s] = [at |-> "idle"]]
    BY <1>3 DEF SaveFails
  <2>2. FileTypes'
    BY <1>u, <2>1 DEF FileTypes, Saves
  <2>3. saver'[s].at = "idle" /\ \A o \in Savers \ {s} : saver'[o] = saver[o]
    BY <1>u, <2>1 DEF FileTypes
  <2> QED BY <1>u, <2>1, <2>2, <2>3 DEF OneSave, Saving
<1>4. ASSUME NEW s \in Savers, SaveRenames(s) PROVE FileTypes' /\ OneSave'
  <2>1. saver[s].at = "written" /\ UNCHANGED writes /\ saver' = [saver EXCEPT ![s] = [at |-> "idle"]]
    BY <1>4 DEF SaveRenames, MayRename
  <2>2. draft \in Inodes /\ disk[draft].is = "whole"
    BY <1>u, <2>1 DEF FileTypes, OneSave, Saving, Saves
  <2>3. Others(s) = {}
    BY <1>u, <2>1 DEF Others, OneSave, Saving
  <2>4. file' = draft /\ draft' = NoFile /\ disk' = Linked({draft})
    BY <1>4, <2>2, <2>3, ThreeInodes DEF SaveRenames
  <2>5. \A o \in Savers : ~Saving(o)'
    BY <1>u, <2>1, <2>3 DEF FileTypes, Others, Saving
  <2>6. FileTypes'
    BY <1>u, <1>l, <2>1, <2>2, <2>4 DEF FileTypes, Saves
  <2>7. \A i \in Inodes : disk'[i] = IF i = draft THEN disk[i] ELSE [is |-> "free"]
    BY <1>l, <2>4
  <2> QED BY <2>2, <2>4, <2>5, <2>6, <2>7, ThreeInodes DEF OneSave, Saving
<1>5. ASSUME CrashAndLoad PROVE FileTypes' /\ OneSave'
  <2>1. /\ saver' = [s \in Savers |-> [at |-> "idle"]] /\ disk' = Linked({draft, file})
        /\ UNCHANGED <<draft, file, writes>>
    BY <1>5 DEF CrashAndLoad
  <2>2. FileTypes'
    BY <1>u, <1>l, <2>1 DEF FileTypes, Saves
  <2>3. \A i \in Inodes : disk'[i] = IF i \in {draft, file} THEN disk[i] ELSE [is |-> "free"]
    BY <1>l, <2>1
  <2>4. \A s \in Savers : saver'[s].at = "idle"
    BY <2>1
  <2>5. file \in Inodes \cup {NoFile}
    BY <1>u DEF FileTypes
  <2>6. \A i \in Inodes : disk'[i].is # "free" => i \in {draft, file}
    BY <2>3
  <2>7. file # NoFile => disk'[file].is = "whole" /\ file # draft
    BY <1>u, <2>3, <2>5 DEF OneSave
  <2>8. \A s \in Savers : ~Saving(s)' /\ saver'[s].at # "written"
    BY <2>4 DEF Saving
  <2> QED BY <2>1, <2>2, <2>6, <2>7, <2>8 DEF OneSave
<1>6. ASSUME UNCHANGED fileVars PROVE FileTypes' /\ OneSave'
  BY <1>6, <1>u DEF fileVars, FileTypes, OneSave, Saving
<1> QED BY <1>1, <1>2, <1>3, <1>4, <1>5, <1>6 DEF FileNext

\* Once a save has gone through, the profiles can be read at any moment, for any
\* number of writes, failures and deaths, unless two saves overlapped.
THEOREM FileStaysReadable == FileInit /\ [][FileNext]_fileVars => []FileReadable
<1>1. FInv => FileReadable
  BY DEF FInv, OneSave, FileReadable
<1> QED BY <1>1, FileInitHolds, FileStepKeeps, PTL

-----------------------------------------------------------------------------
(* Adaptive idle: a profile fits its domain, whatever it has learned. *)

Categories == {"MediaCdn", "PushIm", "GeneralApi"}
Listed == CdnDomains \cup ImDomains
DomainProfiles ==
  [category : Categories, samples : Nat, up : Nat, down : Nat, idle : Nat, fixed : BOOLEAN,
   seen : Nat, closed : Nat, reason : Reasons]

\* What ProfilesSound says of a profile, and that the lists fix it for good.
Fits(d, p) ==
  /\ p \in DomainProfiles
  /\ p.category # "GeneralApi" => p.idle = DefaultIdle(p.category)
  /\ p.category = "GeneralApi" => p.idle \in 20..120
  /\ d \in Listed => p.category = StaticCategory(d) /\ p.fixed

StoreFits(st) == IsFiniteSet(DOMAIN st) /\ \A d \in DOMAIN st : Fits(d, st[d])
Few(st) == Cardinality(DOMAIN st) <= Capacity

RelayStates ==
  [at : {"idle"}] \cup
  [at : {"open"}, domain : Domains \cup {NoDomain}, to : Targets, up : Nat, down : Nat,
   sent : BOOLEAN, got : BOOLEAN]

IdleTypes == now \in Nat /\ loads \in Nat /\ relay \in [Links -> RelayStates]
StoresFit == StoreFits(profiles) /\ StoreFits(saved)
\* What RelaysSound says of a relay, and that it asks before it moves bytes.
RelayFits(x) ==
  /\ x.up   \in {0} \cup TimeoutsOf(x.domain, x.to, x.sent)
  /\ x.down \in {0} \cup TimeoutsOf(x.domain, x.to, x.got)
  /\ (x.up = 0 => ~x.sent) /\ (x.down = 0 => ~x.got)
RelaysFit == \A r \in Links : relay[r].at = "open" => RelayFits(relay[r])
IdleInv == IdleTypes /\ StoresFit /\ (loads = 0 => Few(profiles)) /\ RelaysFit

\* The category the lists give.
LEMMA StaticOnes ==
  ASSUME NEW d
  PROVE  /\ StaticCategory(d) \in Categories
         /\ StaticCategory(d) # "GeneralApi" <=> d \in Listed
         /\ d \in ImDomains => StaticCategory(d) = "PushIm"
         /\ d \in CdnDomains => StaticCategory(d) = "MediaCdn"
<1>1. CdnDomains \cap ImDomains = {}
  BY AdaptiveIdleConstants
<1> QED BY <1>1 DEF StaticCategory, Categories, Listed

\* A profile as it begins.
LEMMA NewFits ==
  ASSUME now \in Nat, NEW d, NEW shut \in Nat, NEW reason \in Reasons
  PROVE  Fits(d, NewProfile(d, shut, reason))
<1>1. DefaultIdle(StaticCategory(d)) \in Nat
      /\ (StaticCategory(d) = "GeneralApi" => DefaultIdle(StaticCategory(d)) = 30)
  BY StaticOnes DEF Categories, DefaultIdle
<1>2. /\ StaticCategory(d) \in Categories
      /\ StaticCategory(d) # "GeneralApi" <=> d \in Listed
  BY StaticOnes
<1>. DEFINE p == NewProfile(d, shut, reason)
            s == StaticCategory(d)
<1>3. p = [category |-> s, samples |-> 0, up |-> 0, down |-> 0, idle |-> DefaultIdle(s),
           fixed |-> s # "GeneralApi", seen |-> now, closed |-> shut, reason |-> reason]
  BY DEF NewProfile
<1>. HIDE DEF p, s
<1>4. (s # "GeneralApi") \in BOOLEAN
  OBVIOUS
<1>5. p \in DomainProfiles
  BY <1>1, <1>2, <1>3, <1>4, ZenonT(40) DEF DomainProfiles, s
<1>6. p.category = s /\ p.idle = DefaultIdle(s) /\ p.fixed = (s # "GeneralApi")
  BY <1>3
<1>7. d \in Listed => p.category = s /\ p.fixed
  <2>1. d \in Listed => s # "GeneralApi"
    BY <1>2 DEF s
  <2> QED BY <1>6, <2>1, Zenon
<1>8. /\ p.category # "GeneralApi" => p.idle = DefaultIdle(p.category)
      /\ p.category = "GeneralApi" => p.idle \in 20..120
  BY <1>1, <1>6 DEF s
<1>9. Fits(d, p)
  BY <1>5, <1>7, <1>8 DEF Fits, s
<1> QED BY <1>9 DEF p

\* The penalty stays under the ceiling ...
LEMMA PenalisedFits == ASSUME NEW d, NEW p, Fits(d, p) PROVE Fits(d, Penalised(p))
<1>1. CASE Penalised(p) = p
  BY <1>1
<1>2. CASE Penalised(p) # p
  <2>1. Penalised(p) = [p EXCEPT !.idle = Atmost((p.idle * 15) \div 10, 120)]
        /\ p.category = "GeneralApi" /\ ~p.fixed
    BY <1>2 DEF Penalised
  <2>2. \A n \in 20..120 : Atmost((n * 15) \div 10, 120) \in 20..120
    BY DEF Atmost
  <2>3. PICK n \in 20..120 : n = Atmost((p.idle * 15) \div 10, 120)
    BY <2>1, <2>2 DEF Fits
  <2>4. Penalised(p) = [p EXCEPT !.idle = n] /\ p \in DomainProfiles /\ d \notin Listed
    BY <2>1, <2>3 DEF Fits
  <2>5. [p EXCEPT !.idle = n] \in DomainProfiles /\ [p EXCEPT !.idle = n].idle = n
        /\ [p EXCEPT !.idle = n].category = "GeneralApi"
    BY <2>1, <2>4 DEF DomainProfiles
  <2> QED BY <2>4, <2>5 DEF Fits
<1> QED BY <1>1, <1>2

\* ... and the decay over the floor.
LEMMA DecayedFits ==
  ASSUME NEW d, NEW p, Fits(d, p), NEW reused \in BOOLEAN PROVE Fits(d, Decayed(p, reused))
<1>1. CASE Decayed(p, reused) = p
  BY <1>1
<1>2. CASE Decayed(p, reused) # p
  <2>1. Decayed(p, reused) = [p EXCEPT !.idle = Atleast((p.idle * 8) \div 10, 20)]
        /\ p.category = "GeneralApi" /\ ~p.fixed
    BY <1>2 DEF Decayed
  <2>2. \A n \in 20..120 : Atleast((n * 8) \div 10, 20) \in 20..120
    BY DEF Atleast
  <2>3. PICK n \in 20..120 : n = Atleast((p.idle * 8) \div 10, 20)
    BY <2>1, <2>2 DEF Fits
  <2>4. Decayed(p, reused) = [p EXCEPT !.idle = n] /\ p \in DomainProfiles /\ d \notin Listed
    BY <2>1, <2>3 DEF Fits
  <2>5. [p EXCEPT !.idle = n] \in DomainProfiles /\ [p EXCEPT !.idle = n].idle = n
        /\ [p EXCEPT !.idle = n].category = "GeneralApi"
    BY <2>1, <2>4 DEF DomainProfiles
  <2> QED BY <2>4, <2>5 DEF Fits
<1> QED BY <1>1, <1>2

\* What a relay carried is added up.
LEMMA RecordedFits ==
  ASSUME now \in Nat, NEW d, NEW p, Fits(d, p), NEW up \in Nat, NEW down \in Nat, NEW reason \in Reasons
  PROVE  Fits(d, Recorded(p, up, down, reason))
<1>. DEFINE new == Recorded(p, up, down, reason)
<1>1. /\ p \in DomainProfiles
      /\ new = [p EXCEPT !.samples = p.samples + 1, !.up = p.up + up, !.down = p.down + down,
                         !.seen = now, !.closed = now, !.reason = reason]
  BY DEF Fits, Recorded
<1>. HIDE DEF new
<1>2. new.category = p.category /\ new.idle = p.idle /\ new.fixed = p.fixed
  BY <1>1 DEF DomainProfiles
<1>3. p.samples + 1 \in Nat /\ p.up + up \in Nat /\ p.down + down \in Nat
  BY <1>1 DEF DomainProfiles
<1>4. new \in DomainProfiles
  BY <1>1, <1>3 DEF DomainProfiles
<1>5. Fits(d, new)
  BY <1>2, <1>4 DEF Fits
<1> QED BY <1>5 DEF new

\* A category comes with its timeout, and none comes to a listed domain.
LEMMA EvolvedFits ==
  ASSUME NEW d, NEW p, Fits(d, p), NEW long \in BOOLEAN PROVE Fits(d, Evolved(p, long))
<1>. DEFINE Becomes(c) == [p EXCEPT !.category = c, !.idle = DefaultIdle(c)]
<1>1. Evolved(p, long) = p \/ ((\E c \in {"MediaCdn", "PushIm"} : Evolved(p, long) = Becomes(c)) /\ ~p.fixed)
  <2>1. DefaultIdle("MediaCdn") = 10 /\ DefaultIdle("PushIm") = 900
    BY DEF DefaultIdle
  <2>2. Becomes("MediaCdn") = [p EXCEPT !.category = "MediaCdn", !.idle = 10]
        /\ Becomes("PushIm") = [p EXCEPT !.category = "PushIm", !.idle = 900]
    BY ZenonT(30), <2>1
  <2>. HIDE DEF Becomes
  <2>3. Evolved(p, long) = p \/ ((Evolved(p, long) = Becomes("MediaCdn") \/ Evolved(p, long) = Becomes("PushIm")) /\ ~p.fixed)
    BY <2>2 DEF Evolved
  <2> QED BY <2>3
<1>2. ASSUME NEW c \in {"MediaCdn", "PushIm"}, d \notin Listed PROVE Fits(d, Becomes(c))
  <2>1. DefaultIdle(c) \in Nat /\ c \in Categories /\ p \in DomainProfiles
    BY DEF Fits, DefaultIdle, Categories
  <2>2. Becomes(c) \in DomainProfiles /\ Becomes(c).category = c /\ Becomes(c).idle = DefaultIdle(c)
    BY <2>1 DEF DomainProfiles
  <2> QED BY <1>2, <2>1, <2>2 DEF Fits
<1>3. ~p.fixed => d \notin Listed
  BY DEF Fits
<1>. HIDE DEF Becomes
<1>4. CASE Evolved(p, long) = p
  BY <1>4
<1>5. CASE Evolved(p, long) # p
  BY <1>1, <1>2, <1>3, <1>5
<1> QED BY <1>4, <1>5

\* Room is made before an insertion.
LEMMA WithFits ==
  ASSUME StoreFits(profiles), NEW d, NEW p, Fits(d, p), NEW out \in Evicted(d)
  PROVE  StoreFits(With(out, d, p)) /\ (Few(profiles) => Few(With(out, d, p)))
<1>. DEFINE kept == Profiled \ out
<1>1. DOMAIN With(out, d, p) = kept \cup {d}
      /\ \A k \in kept \cup {d} : With(out, d, p)[k] = IF k = d THEN p ELSE profiles[k]
  BY DEF With
<1>2. IsFiniteSet(Profiled) /\ IsFiniteSet(kept) /\ IsFiniteSet(kept \cup {d})
  BY FS_Subset, FS_AddElement DEF StoreFits, Profiled
<1>3. StoreFits(With(out, d, p))
  BY <1>1, <1>2 DEF StoreFits, Profiled
<1>4. Cardinality(Profiled) \in Nat /\ Cardinality(kept) \in Nat /\ Capacity \in Nat
  BY <1>2, FS_CardinalityType, AdaptiveIdleConstants
<1>5. ASSUME Few(profiles) PROVE Cardinality(kept \cup {d}) <= Capacity
  <2>1. Cardinality(Profiled) <= Capacity
    BY <1>5 DEF Few, Profiled
  <2>2. CASE d \in Profiled
    <3>1. kept \cup {d} = Profiled
      BY <2>2 DEF Evicted
    <3> QED BY <2>1, <3>1
  <2>3. CASE d \notin Profiled /\ Cardinality(Profiled) < Capacity
    <3>1. kept = Profiled
      BY <2>3 DEF Evicted
    <3>2. Cardinality(Profiled \cup {d}) = Cardinality(Profiled) + 1
      BY <1>2, <2>3, FS_AddElement
    <3> QED BY <1>4, <2>3, <3>1, <3>2
  <2>4. CASE d \notin Profiled /\ ~(Cardinality(Profiled) < Capacity)
    <3>1. PICK e \in Profiled : out = {e}
      BY <2>4 DEF Evicted
    <3>2. Cardinality(kept) = Cardinality(Profiled) - 1
      BY <1>2, <3>1, FS_RemoveElement
    <3>3. Cardinality(kept \cup {d}) = Cardinality(kept) + 1
      BY <1>2, <2>4, FS_AddElement
    <3> QED BY <1>4, <2>1, <3>2, <3>3
  <2> QED BY <2>2, <2>3, <2>4
<1> QED BY <1>1, <1>3, <1>5 DEF Few

\* What classify_connection answers and leaves.
LEMMA ClassifiedFits ==
  ASSUME now \in Nat, StoreFits(profiles), NEW to \in Targets, NEW d, NEW c \in Classified(to, d)
  PROVE  /\ StoreFits(c.store) /\ (Few(profiles) => Few(c.store))
         /\ c.category \in Categories /\ (d \in ImDomains => c.category = "PushIm")
         /\ (to = "push" => c.category = "PushIm")
         /\ (to # "push" /\ d \in CdnDomains => c.category = "MediaCdn")
<1>1. CASE to = "push"
  <2>1. c = [category |-> "PushIm", store |-> profiles]
    BY <1>1 DEF Classified
  <2> QED BY <1>1, <2>1 DEF Categories
<1>2. CASE to # "push" /\ d \in Profiled
  <2>. DEFINE p == Penalised([profiles[d] EXCEPT !.seen = now])
  <2>1. c = [category |-> profiles[d].category, store |-> [profiles EXCEPT ![d] = p]]
    BY <1>2 DEF Classified
  <2>2. Fits(d, profiles[d])
    BY <1>2 DEF StoreFits, Profiled
  <2>3. Fits(d, [profiles[d] EXCEPT !.seen = now])
    BY <2>2 DEF Fits, DomainProfiles
  <2>4. Fits(d, p)
    BY <2>3, PenalisedFits
  <2>. HIDE DEF p
  <2>5. DOMAIN c.store = DOMAIN profiles
        /\ \A k \in DOMAIN profiles : c.store[k] = IF k = d THEN p ELSE profiles[k]
    BY <2>1
  <2>6. StoreFits(c.store) /\ (Few(profiles) => Few(c.store))
    BY <2>4, <2>5 DEF StoreFits, Few
  <2>7. /\ profiles[d].category \in Categories /\ (d \in ImDomains => profiles[d].category = "PushIm")
        /\ (d \in CdnDomains => profiles[d].category = "MediaCdn")
    BY <2>2, StaticOnes DEF Fits, DomainProfiles, Listed
  <2> QED BY <1>2, <2>1, <2>6, <2>7
<1>3. CASE to # "push" /\ d \in Listed \ Profiled
  <2>1. PICK out \in Evicted(d) :
          c = [category |-> StaticCategory(d), store |-> With(out, d, NewProfile(d, 0, "ServerClosed"))]
    BY <1>3 DEF Classified, Listed
  <2>2. Fits(d, NewProfile(d, 0, "ServerClosed"))
    BY NewFits DEF Reasons
  <2> QED BY <1>3, <2>1, <2>2, WithFits, StaticOnes
<1>4. CASE to # "push" /\ d \notin Listed \cup Profiled
  <2>1. c = [category |-> "GeneralApi", store |-> profiles]
    BY <1>4 DEF Classified, Listed
  <2> QED BY <1>4, <2>1 DEF Categories, Listed
<1> QED BY <1>1, <1>2, <1>3, <1>4

\* What compute_adaptive_timeout answers and leaves.
LEMMA OutcomesFit ==
  ASSUME now \in Nat, StoreFits(profiles), NEW to \in Targets, NEW d, NEW active \in BOOLEAN,
         NEW o \in Outcomes(to, d, active)
  PROVE  /\ StoreFits(o.store) /\ (Few(profiles) => Few(o.store))
         /\ o.secs \in Nat /\ o.secs \in TimeoutsOf(d, to, active)
<1>1. CASE to = "terminal"
  BY <1>1 DEF Outcomes, TimeoutsOf
<1>2. CASE to # "terminal"
  <2>1. PICK c \in Classified(to, d) : o = [secs |-> TimeoutOf(c, active, d), store |-> c.store]
    BY <1>2 DEF Outcomes
  <2>2. /\ StoreFits(c.store) /\ (Few(profiles) => Few(c.store)) /\ c.category \in Categories
        /\ (d \in ImDomains \/ to = "push" => c.category = "PushIm")
        /\ (to # "push" /\ d \in CdnDomains => c.category = "MediaCdn")
    BY ClassifiedFits
  <2>. DEFINE t == TimeoutOf(c, active, d)
  <2>3. CASE c.category = "PushIm"
    <3>1. t = 900
      BY <2>3 DEF TimeoutOf
    <3>2. ~(to = "web" /\ d \in CdnDomains)
      BY <2>2, <2>3
    <3>3. 900 \in TimeoutsOf(d, to, active)
      BY <1>2, <3>2 DEF TimeoutsOf, Targets
    <3> QED BY <2>1, <2>2, <3>1, <3>3
  <2>4. CASE c.category # "PushIm" /\ ~active
    <3>1. t = 15
      BY <2>4 DEF TimeoutOf
    <3>2. 15 \in TimeoutsOf(d, to, active)
      BY <1>2, <2>2, <2>4 DEF TimeoutsOf, Targets
    <3> QED BY <2>1, <2>2, <3>1, <3>2
  <2>5. CASE c.category # "PushIm" /\ active /\ d \in CdnDomains
    <3>1. c.category = "MediaCdn" /\ to = "web"
      BY <1>2, <2>2, <2>5 DEF Targets
    <3>2. d \in DOMAIN c.store => c.store[d].category = "MediaCdn" /\ c.store[d].idle = 10
      BY <2>2, <2>5, StaticOnes DEF StoreFits, Fits, Listed, DefaultIdle
    <3>3. t = 10
      BY <2>5, <3>1, <3>2 DEF TimeoutOf, DefaultIdle
    <3>4. d \notin ImDomains /\ 10 \in TimeoutsOf(d, to, active)
      BY <2>2, <2>5, <3>1 DEF TimeoutsOf
    <3> QED BY <2>1, <2>2, <3>3, <3>4
  <2>6. CASE c.category # "PushIm" /\ active /\ d \notin CdnDomains
    <3>1. d \notin ImDomains /\ to = "web"
      BY <1>2, <2>2, <2>6 DEF Targets
    <3>2. d \in DOMAIN c.store => c.store[d].idle \in {10, 900} \cup 20..120
      <4>. SUFFICES ASSUME d \in DOMAIN c.store PROVE c.store[d].idle \in {10, 900} \cup 20..120
        OBVIOUS
      <4>1. Fits(d, c.store[d]) /\ c.store[d].category \in Categories
        BY <2>2 DEF StoreFits, Fits, DomainProfiles
      <4> QED BY <4>1 DEF Fits, DefaultIdle, Categories
    <3>3. DefaultIdle(c.category) \in {10, 30}
      BY <2>2, <2>6 DEF DefaultIdle, Categories
    <3>4. t = IF d \in DOMAIN c.store THEN c.store[d].idle ELSE DefaultIdle(c.category)
      BY <2>6 DEF TimeoutOf
    <3>5. t \in {10, 900} \cup 20..120
      BY <3>2, <3>3, <3>4
    <3>6. TimeoutsOf(d, to, active) = {10, 900} \cup 20..120
      BY <2>6, <3>1 DEF TimeoutsOf
    <3> QED BY <2>1, <2>2, <3>5, <3>6
  <2> QED BY <2>3, <2>4, <2>5, <2>6
<1> QED BY <1>1, <1>2

\* A relay asks.
LEMMA AskKeeps ==
  ASSUME IdleInv, NEW r \in Links, AsksUp(r) \/ AsksDown(r) \/ FirstUp(r) \/ FirstDown(r)
  PROVE  IdleInv'
<1>0. now \in Nat /\ relay \in [Links -> RelayStates] /\ relay[r] \in RelayStates /\ relay[r].at = "open"
  BY DEF IdleInv, IdleTypes, AsksUp, AsksDown, FirstUp, FirstDown
<1>. DEFINE Open == [at : {"open"}, domain : Domains \cup {NoDomain}, to : Targets, up : Nat, down : Nat,
                     sent : BOOLEAN, got : BOOLEAN]
            Same(m) == m \in Open /\ m.domain = relay[r].domain /\ m.to = relay[r].to
                       /\ m.up = relay[r].up /\ m.down = relay[r].down
<1>1. relay[r] \in Open
  BY <1>0 DEF RelayStates
<1>2. RelayFits(relay[r])
  BY <1>0 DEF IdleInv, RelaysFit
<1>3. PICK way \in {"up", "down"}, active \in BOOLEAN, mark \in Open :
        /\ Asks(r, way, active, mark) /\ Same(mark)
        /\ way = "up"   => mark.sent = active /\ mark.got = relay[r].got
        /\ way = "down" => mark.got = active /\ mark.sent = relay[r].sent
  <2>1. CASE AsksUp(r)
    <3>1. relay[r].up = 0 /\ Asks(r, "up", FALSE, relay[r]) /\ relay[r].sent = FALSE
      BY <1>1, <1>2, <2>1 DEF AsksUp, RelayFits
    <3> QED BY <1>1, <3>1
  <2>2. CASE AsksDown(r)
    <3>1. relay[r].down = 0 /\ Asks(r, "down", FALSE, relay[r]) /\ relay[r].got = FALSE
      BY <1>1, <1>2, <2>2 DEF AsksDown, RelayFits
    <3> QED BY <1>1, <3>1
  <2>3. CASE FirstUp(r)
    <3>. DEFINE m == [relay[r] EXCEPT !.sent = TRUE]
    <3>1. m \in Open /\ Same(m) /\ m.sent = TRUE /\ m.got = relay[r].got
      BY <1>1
    <3>2. Asks(r, "up", TRUE, m)
      BY <2>3 DEF FirstUp
    <3>. HIDE DEF m
    <3> QED BY <3>1, <3>2
  <2>4. CASE FirstDown(r)
    <3>. DEFINE m == [relay[r] EXCEPT !.got = TRUE]
    <3>1. m \in Open /\ Same(m) /\ m.got = TRUE /\ m.sent = relay[r].sent
      BY <1>1
    <3>2. Asks(r, "down", TRUE, m)
      BY <2>4 DEF FirstDown
    <3>. HIDE DEF m
    <3> QED BY <3>1, <3>2
  <2> QED BY <2>1, <2>2, <2>3, <2>4
<1>4. PICK o \in Outcomes(relay[r].to, relay[r].domain, active) :
        /\ profiles' = o.store /\ relay' = [relay EXCEPT ![r] = [mark EXCEPT ![way] = o.secs]]
        /\ UNCHANGED <<now, saved, loads>>
  BY <1>3 DEF Asks, UnchangedFile
<1>5. /\ StoreFits(o.store) /\ (Few(profiles) => Few(o.store)) /\ o.secs \in Nat
      /\ o.secs \in TimeoutsOf(relay[r].domain, relay[r].to, active)
  BY <1>0, <1>1, OutcomesFit DEF IdleInv, StoresFit
<1>6. relay'[r] \in Open /\ RelayFits(relay'[r])
  <2>1. relay'[r] = [mark EXCEPT ![way] = o.secs]
    BY <1>0, <1>4
  <2>2. o.secs # 0
    BY <1>5 DEF TimeoutsOf
  <2>3. CASE way = "up"
    <3>1. /\ relay'[r] \in Open /\ relay'[r].up = o.secs /\ relay'[r].down = relay[r].down
          /\ relay'[r].domain = relay[r].domain /\ relay'[r].to = relay[r].to
          /\ relay'[r].sent = active /\ relay'[r].got = relay[r].got
      BY <1>3, <1>5, <2>1, <2>3
    <3> QED BY <1>2, <1>5, <2>2, <3>1 DEF RelayFits
  <2>4. CASE way = "down"
    <3>1. /\ relay'[r] \in Open /\ relay'[r].down = o.secs /\ relay'[r].up = relay[r].up
          /\ relay'[r].domain = relay[r].domain /\ relay'[r].to = relay[r].to
          /\ relay'[r].got = active /\ relay'[r].sent = relay[r].sent
      BY <1>3, <1>5, <2>1, <2>4
    <3> QED BY <1>2, <1>5, <2>2, <3>1 DEF RelayFits
  <2> QED BY <2>3, <2>4
<1>7. \A q \in Links \ {r} : relay'[q] = relay[q]
  BY <1>0, <1>4
<1>8. IdleTypes' /\ RelaysFit'
  <2>1. relay' \in [Links -> RelayStates]
    BY <1>0, <1>4, <1>6, <1>7 DEF RelayStates
  <2>2. RelaysFit'
    BY <1>6, <1>7 DEF IdleInv, RelaysFit
  <2> QED BY <1>4, <2>1, <2>2 DEF IdleInv, IdleTypes
<1>9. StoresFit' /\ (loads' = 0 => Few(profiles'))
  BY <1>4, <1>5 DEF IdleInv, StoresFit
<1> QED BY <1>8, <1>9 DEF IdleInv, Few

\* A relay ends, and its domain's profile learns from it.
LEMMA CloseKeeps == ASSUME IdleInv, NEW r \in Links, Closes(r) PROVE IdleInv'
<1>. DEFINE d == relay[r].domain
<1>1. relay' = [relay EXCEPT ![r] = [at |-> "idle"]] /\ UNCHANGED <<now, saved, loads>>
      /\ relay \in [Links -> RelayStates]
  BY DEF IdleInv, IdleTypes, Closes, UnchangedFile
<1>2. StoreFits(profiles') /\ (Few(profiles) => Few(profiles'))
  <2>1. CASE UNCHANGED profiles
    BY <2>1 DEF IdleInv, StoresFit
  <2>2. CASE profiles' # profiles
    <3>1. PICK up \in Volumes, down \in Volumes, reason \in Reasons, long \in BOOLEAN, reused \in BOOLEAN,
               out \in Evicted(d) :
            profiles' = With(out, d, Evolved(Decayed(Recorded(
              IF d \in Profiled THEN profiles[d] ELSE NewProfile(d, now, reason),
              up, down, reason), reused), long))
      BY <2>2 DEF Closes
    <3>. DEFINE old == IF d \in Profiled THEN profiles[d] ELSE NewProfile(d, now, reason)
    <3>2. now \in Nat /\ StoreFits(profiles) /\ up \in Nat /\ down \in Nat
      BY AdaptiveIdleConstants DEF IdleInv, IdleTypes, StoresFit
    <3>3. Fits(d, old)
      BY <3>2, NewFits DEF StoreFits, Profiled
    <3>. HIDE DEF d
    <3>4. Fits(d, Recorded(old, up, down, reason))
      BY <3>2, <3>3, RecordedFits
    <3>5. Fits(d, Evolved(Decayed(Recorded(old, up, down, reason), reused), long))
      BY <3>4, DecayedFits, EvolvedFits
    <3> QED BY <3>1, <3>2, <3>5, WithFits
  <2> QED BY <2>1, <2>2
<1>3. relay' \in [Links -> RelayStates] /\ relay'[r].at = "idle" /\ \A q \in Links \ {r} : relay'[q] = relay[q]
  BY <1>1 DEF RelayStates
<1>4. RelaysFit'
  BY <1>3 DEF IdleInv, RelaysFit
<1> QED BY <1>1, <1>2, <1>3, <1>4 DEF IdleInv, IdleTypes, StoresFit, Few

\* A relay begins, without a timeout.
LEMMA OpenKeeps == ASSUME IdleInv, NEW r \in Links, Opens(r) PROVE IdleInv'
<1>1. PICK d \in Domains \cup {NoDomain}, to \in Targets :
        relay' = [relay EXCEPT ![r] = [at |-> "open", domain |-> d, to |-> to, up |-> 0, down |-> 0,
                                       sent |-> FALSE, got |-> FALSE]]
  BY DEF Opens
<1>2. UNCHANGED <<now, saved, loads, profiles>> /\ relay \in [Links -> RelayStates]
  BY DEF IdleInv, IdleTypes, Opens, UnchangedFile
<1>3. /\ relay' \in [Links -> RelayStates] /\ relay'[r].up = 0 /\ relay'[r].down = 0
      /\ ~relay'[r].sent /\ ~relay'[r].got
      /\ \A q \in Links \ {r} : relay'[q] = relay[q]
  BY <1>1, <1>2 DEF RelayStates
<1>4. RelaysFit'
  BY <1>3 DEF IdleInv, RelaysFit, RelayFits
<1> QED BY <1>2, <1>3, <1>4 DEF IdleInv, IdleTypes, StoresFit, Few, StoreFits

\* The store is written, read back or lost; the clock goes on.
LEMMA StoreKeeps == ASSUME IdleInv, NowMoves \/ Save \/ Load \/ Crash PROVE IdleInv'
<1>1. CASE NowMoves
  <2>1. now' \in Nat
    BY <1>1, AdaptiveIdleConstants DEF NowMoves, IdleInv, IdleTypes
  <2> QED BY <1>1, <2>1 DEF NowMoves, UnchangedFile, IdleInv, IdleTypes, StoresFit, StoreFits, Few, RelaysFit
<1>2. CASE Save
  BY <1>2 DEF Save, IdleInv, IdleTypes, StoresFit, StoreFits, Few, RelaysFit
<1>3. CASE Load
  <2>1. DOMAIN profiles' = Profiled \cup DOMAIN saved
        /\ \A d \in DOMAIN profiles' : profiles'[d] = IF d \in DOMAIN saved THEN saved[d] ELSE profiles[d]
    BY <1>3 DEF Load
  <2>2. IsFiniteSet(DOMAIN profiles')
    BY <2>1, FS_Union DEF IdleInv, StoresFit, StoreFits, Profiled
  <2>3. \A d \in DOMAIN profiles' : Fits(d, profiles'[d])
    BY <2>1 DEF IdleInv, StoresFit, StoreFits, Profiled
  <2>4. loads' \in Nat /\ loads' # 0 /\ UNCHANGED <<now, relay, saved>>
    BY <1>3 DEF Load, IdleInv, IdleTypes
  <2> QED BY <2>2, <2>3, <2>4 DEF IdleInv, IdleTypes, StoresFit, StoreFits, RelaysFit
<1>4. CASE Crash
  <2>1. profiles' = << >> /\ UNCHANGED <<now, saved, loads>>
        /\ relay' = [r \in Links |-> [at |-> "idle"]]
    BY <1>4 DEF Crash
  <2>2. StoreFits(profiles') /\ Few(profiles')
    <3>1. DOMAIN profiles' = {}
      BY <2>1
    <3> QED BY <3>1, FS_EmptySet, AdaptiveIdleConstants DEF StoreFits, Few
  <2>3. relay' \in [Links -> RelayStates] /\ \A r \in Links : relay'[r].at = "idle"
    BY <2>1 DEF RelayStates
  <2>4. RelaysFit'
    BY <2>3 DEF RelaysFit
  <2> QED BY <2>1, <2>2, <2>3, <2>4 DEF IdleInv, IdleTypes, StoresFit, Few
<1> QED BY <1>1, <1>2, <1>3, <1>4

\* The inductive invariant of the idle timeouts.
LEMMA IdleInvariant == IdleInit /\ [][IdleNext]_idleVars => []IdleInv
<1>1. IdleInit => IdleInv
  <2> SUFFICES ASSUME IdleInit PROVE IdleInv
    OBVIOUS
  <2>1. DOMAIN profiles = {} /\ DOMAIN saved = {}
    BY DEF IdleInit
  <2>2. StoresFit /\ Few(profiles)
    BY <2>1, FS_EmptySet, AdaptiveIdleConstants DEF StoresFit, StoreFits, Few
  <2>3. relay \in [Links -> RelayStates] /\ \A r \in Links : relay[r].at = "idle"
    BY DEF IdleInit, RelayStates
  <2> QED BY <2>2, <2>3 DEF IdleInit, IdleInv, IdleTypes, RelaysFit
<1>2. IdleInv /\ [IdleNext]_idleVars => IdleInv'
  <2> SUFFICES ASSUME IdleInv, [IdleNext]_idleVars PROVE IdleInv'
    OBVIOUS
  <2>1. CASE IdleNext
    BY <2>1, AskKeeps, CloseKeeps, OpenKeeps, StoreKeeps DEF IdleNext
  <2>2. CASE UNCHANGED idleVars
    BY <2>2 DEF idleVars, IdleInv, IdleTypes, StoresFit, StoreFits, Few, RelaysFit
  <2> QED BY <2>1, <2>2
<1> QED BY <1>1, <1>2, PTL

\* For any domains, lists, volumes and cap: compute_adaptive_timeout and
\* record_conn_metrics never leave a profile with a timeout its category does not
\* allow, never store more than the cap before a load, and never give a relay a
\* timeout other than its target, its domain and its traffic allow, whatever other
\* relays of the domain teach and evict.
THEOREM TimeoutsAreSound == IdleInit /\ [][IdleNext]_idleVars => []TimeoutsSound
<1>1. ASSUME IdleInv PROVE TimeoutsSound
  <2>1. ProfilesSound
    BY <1>1 DEF IdleInv, StoresFit, StoreFits, Fits, ProfilesSound, Profiled, Listed
  <2>2. StoreBounded
    BY <1>1 DEF IdleInv, StoreBounded, Few, Profiled
  <2>3. RelaysSound
    BY <1>1 DEF IdleInv, RelaysFit, RelayFits, RelaysSound
  <2> QED BY <2>1, <2>2, <2>3 DEF TimeoutsSound
<1> QED BY <1>1, IdleInvariant, PTL

-----------------------------------------------------------------------------
(* Handshake cache: what goes in is whole, and no one draws from nothing. *)

Recs == [type : Nat, len : Nat, size : Nat]

\* A flight a client can be answered with.
Template(t) ==
  \E session \in Seq(Nat), recs \in Seq(Recs) : \E cipher :
    t = [session |-> session, cipher |-> cipher, recs |-> recs] /\ IsComplete(recs)

Underway == {"called", "found empty", "draws", "waits", "fetches", "filled"}

Live == [at : Underway, client : Clients]
Serves(flight, who) ==
  IsComplete(flight.recs) /\ (flight.session = who.session \/ ~Patchable(flight))
Replied(x) == x.at = "answered" /\ Serves(x.reply, x.client)
CallerFits(x) == x.at = "idle" \/ x \in Live \/ Replied(x)

CacheInv ==
  /\ caller = [c \in Callers |-> caller[c]] /\ \A c \in Callers : CallerFits(caller[c])
  /\ \A t \in cache : Template(t)
  /\ \A c \in Callers : caller[c].at \in {"filled", "draws"} => cache # {}

\* A record that is read is one of the site's.
LEMMA ReadIsRecord ==
  ASSUME NEW site \in Sites, site.flight.recs # << >>, NEW i \in 1..9
  PROVE  ReadRecord(site, i) \in Seq(Recs)
<1>. DEFINE recs == site.flight.recs
<1>1. recs \in Seq(Recs) /\ recs # << >>
  BY HandshakeCacheConstants DEF Recs
<1>. HIDE DEF recs
<1>2. Last(recs) \in Recs
  <2>1. Len(recs) \in 1..Len(recs)
    BY <1>1
  <2> QED BY <1>1, <2>1 DEF Last
<1>3. \/ ReadRecord(site, i) = << >> \/ ReadRecord(site, i) = <<Last(recs)>>
      \/ i <= Len(recs) /\ ReadRecord(site, i) = <<recs[i]>>
  BY <1>1 DEF ReadRecord, recs
<1>4. \A r \in Recs : <<r>> \in Seq(Recs)
  OBVIOUS
<1>5. i <= Len(recs) => recs[i] \in Recs
  BY <1>1
<1>6. << >> \in Seq(Recs)
  OBVIOUS
<1> QED BY <1>2, <1>3, <1>4, <1>5, <1>6

\* fetch_real_server_hello answers nothing or a whole flight.
LEMMA FetchedFits ==
  ASSUME NEW site \in Sites
  PROVE  Fetched(site) = NoFlight \/ Template(Fetched(site))
<1>. DEFINE Body(f) ==
       [n \in 1..9 |->
          IF n = 1 THEN ReadRecord(site, 1)
          ELSE IF f[n - 1] = <<>> \/ IsComplete(f[n - 1]) THEN f[n - 1]
          ELSE f[n - 1] \o ReadRecord(site, n)]
            Read == CHOOSE f : f = Body(f)
            recs == site.flight.recs
<1>1. Fetched(site) =
        IF recs = <<>> \/ recs[1].type # Hello \/ ~IsComplete(Read[9])
        THEN NoFlight ELSE [site.flight EXCEPT !.recs = Read[9]]
  BY DEF Fetched
<1>2. Read = Body(Read)
  <2>. DEFINE Step(r, n) == IF r = <<>> \/ IsComplete(r) THEN r ELSE r \o ReadRecord(site, n)
              r1 == ReadRecord(site, 1)
              r2 == Step(r1, 2)
              r3 == Step(r2, 3)
              r4 == Step(r3, 4)
              r5 == Step(r4, 5)
              r6 == Step(r5, 6)
              r7 == Step(r6, 7)
              r8 == Step(r7, 8)
              r9 == Step(r8, 9)
              w == <<r1, r2, r3, r4, r5, r6, r7, r8, r9>>
  <2>. HIDE DEF Step
  <2>0. r1 = ReadRecord(site, 1) /\ r2 = Step(r1, 2) /\ r3 = Step(r2, 3) /\ r4 = Step(r3, 4)
        /\ r5 = Step(r4, 5) /\ r6 = Step(r5, 6) /\ r7 = Step(r6, 7) /\ r8 = Step(r7, 8)
        /\ r9 = Step(r8, 9)
    OBVIOUS
  <2>. HIDE DEF r1, r2, r3, r4, r5, r6, r7, r8, r9
  <2>1. w[1] = r1 /\ w[2] = Step(w[1], 2) /\ w[3] = Step(w[2], 3) /\ w[4] = Step(w[3], 4)
        /\ w[5] = Step(w[4], 5) /\ w[6] = Step(w[5], 6) /\ w[7] = Step(w[6], 7)
        /\ w[8] = Step(w[7], 8) /\ w[9] = Step(w[8], 9)
    BY <2>0
  <2>2. w = [n \in 1..9 |-> w[n]]
    OBVIOUS
  <2>. HIDE DEF w
  <2>3. \A n \in 2..9 : w[n] = Step(w[n - 1], n)
    BY <2>1
  <2>4. \A n \in 1..9 : w[n] = IF n = 1 THEN ReadRecord(site, 1) ELSE Step(w[n - 1], n)
    BY <2>0, <2>1, <2>3
  <2>5. w = Body(w)
    BY <2>2, <2>4 DEF Step
  <2> QED BY <2>5
<1>3. CASE recs = << >>
  BY <1>1, <1>3
<1>4. CASE recs # << >>
  <2>. HIDE DEF Read
  <2>1. Read[1] = ReadRecord(site, 1)
        /\ \A n \in 2..9 : Read[n] = Read[n - 1] \/ Read[n] = Read[n - 1] \o ReadRecord(site, n)
    <3>1. \A n \in 1..9 : Read[n] = Body(Read)[n]
      BY <1>2
    <3>2. \A n \in 1..9 : Body(Read)[n] =
             IF n = 1 THEN ReadRecord(site, 1)
             ELSE IF Read[n - 1] = <<>> \/ IsComplete(Read[n - 1]) THEN Read[n - 1]
             ELSE Read[n - 1] \o ReadRecord(site, n)
      OBVIOUS
    <3>. HIDE DEF Body
    <3>3. Read[1] = ReadRecord(site, 1)
      BY <3>1, <3>2
    <3>4. ASSUME NEW n \in 2..9
          PROVE  Read[n] = Read[n - 1] \/ Read[n] = Read[n - 1] \o ReadRecord(site, n)
      <4>1. n \in 1..9 /\ n # 1
        OBVIOUS
      <4>2. Read[n] = IF Read[n - 1] = <<>> \/ IsComplete(Read[n - 1]) THEN Read[n - 1]
                      ELSE Read[n - 1] \o ReadRecord(site, n)
        BY <3>1, <3>2, <4>1
      <4> QED BY <4>2
    <3> QED BY <3>3, <3>4
  <2>. HIDE DEF Body
  <2>2. \A n \in 1..9 : ReadRecord(site, n) \in Seq(Recs)
    BY <1>4, ReadIsRecord
  <2>3. \A n \in 2..9 : Read[n - 1] \in Seq(Recs) => Read[n] \in Seq(Recs)
    <3>1. \A x, y \in Seq(Recs) : x \o y \in Seq(Recs)
      OBVIOUS
    <3>2. ASSUME NEW n \in 2..9, Read[n - 1] \in Seq(Recs) PROVE Read[n] \in Seq(Recs)
      <4>1. n \in 1..9 /\ ReadRecord(site, n) \in Seq(Recs)
        BY SMTT(20), <2>2
      <4>2. Read[n - 1] \o ReadRecord(site, n) \in Seq(Recs)
        BY <3>1, <3>2, <4>1
      <4> QED BY <2>1, <3>2, <4>2
    <3> QED BY <3>2
  <2>4. Read[9] \in Seq(Recs)
    <3>1. Read[1] \in Seq(Recs)
      BY <2>1, <2>2
    <3>2. Read[2] \in Seq(Recs) /\ Read[3] \in Seq(Recs) /\ Read[4] \in Seq(Recs)
      BY <2>3, <3>1
    <3>3. Read[5] \in Seq(Recs) /\ Read[6] \in Seq(Recs) /\ Read[7] \in Seq(Recs)
      BY <2>3, <3>2
    <3> QED BY <2>3, <3>3
  <2>5. site.flight \in [session : Seq(Nat), cipher : STRING, recs : Seq(Recs)]
    BY HandshakeCacheConstants DEF Recs
  <2>6. [site.flight EXCEPT !.recs = Read[9]] =
          [session |-> site.flight.session, cipher |-> site.flight.cipher, recs |-> Read[9]]
    BY <2>5
  <2> QED BY <1>1, <2>4, <2>5, <2>6 DEF Template
<1> QED BY <1>3, <1>4

\* fallback_server_hello is whole, and has the client's session id.
LEMMA FallbackFits ==
  ASSUME NEW who \in Clients
  PROVE  /\ Template(Fallback(who)) /\ Fallback(who).session = who.session
         /\ IsComplete(Fallback(who).recs)
<1>. DEFINE n == 86 + Len(who.session)
            a == [type |-> Hello, len |-> n, size |-> n]
            b == [type |-> Change, len |-> 1, size |-> 1]
            d == [type |-> Sealed, len |-> 2800, size |-> 2800]
<1>1. who.session \in Seq(Nat) /\ n \in Nat
  BY HandshakeCacheConstants
<1>2. Fallback(who) = [session |-> who.session, cipher |-> PickCipher(who), recs |-> <<a, b, d>>]
  BY DEF Fallback
<1>3. a \in Recs /\ b \in Recs /\ d \in Recs
  BY <1>1 DEF Recs, Hello, Change, Sealed
<1>4. /\ a.type = Hello /\ b.type = Change /\ d.type = Sealed
      /\ a.len = a.size /\ b.len = b.size /\ d.len = d.size
  OBVIOUS
<1>. HIDE DEF a, b, d
<1>5. <<a, b, d>> \in Seq(Recs)
  BY <1>3
<1>6. ToSet(<<a, b, d>>) = {a, b, d}
  BY DEF ToSet
<1>7. IsComplete(<<a, b, d>>)
  BY <1>4, <1>6 DEF IsComplete, TypesOf
<1>. DEFINE recs == <<a, b, d>>
<1>8. who.session \in Seq(Nat) /\ recs \in Seq(Recs) /\ IsComplete(recs)
      /\ Fallback(who) = [session |-> who.session, cipher |-> PickCipher(who), recs |-> recs]
  BY <1>1, <1>2, <1>5, <1>7
<1>. HIDE DEF recs
<1>9. Template(Fallback(who))
  BY <1>8, Zenon DEF Template
<1> QED BY <1>8, <1>9

\* The client's session id goes in and leaves the flight whole.
LEMMA PatchedFits ==
  ASSUME NEW t, Template(t), NEW who
  PROVE  Patched(t, who).session = who.session /\ IsComplete(Patched(t, who).recs)
<1>0. PICK session \in Seq(Nat), recs \in Seq(Recs) : \E cipher :
        t = [session |-> session, cipher |-> cipher, recs |-> recs] /\ IsComplete(recs)
  BY DEF Template
<1>1. PICK cipher : t = [session |-> session, cipher |-> cipher, recs |-> recs] /\ IsComplete(recs)
  BY <1>0
<1>. DEFINE diff == Len(who.session) - Len(t.session)
            first == [recs[1] EXCEPT !.size = @ + diff, !.len = @ + diff]
            after == [recs EXCEPT ![1] = first]
<1>2. PICK k \in DOMAIN recs : recs[k].type = Hello
  BY <1>1 DEF IsComplete, TypesOf, ToSet
<1>3. 1 \in DOMAIN recs /\ recs[1] \in Recs /\ recs[1].len = recs[1].size
  BY <1>1, <1>2 DEF IsComplete, ToSet
<1>4. Patched(t, who) = [session |-> who.session, cipher |-> cipher, recs |-> after]
  <2>. DEFINE own == who.session
              sized == [recs EXCEPT ![1] = [recs[1] EXCEPT !.size = @ + diff]]
  <2>1. [t EXCEPT !.session = own] = [session |-> own, cipher |-> cipher, recs |-> recs]
    BY <1>1
  <2>2. Patched(t, who) =
          [[[t EXCEPT !.session = own] EXCEPT !.recs[1].size = @ + diff] EXCEPT !.recs[1].len = @ + diff]
    BY ZenonT(60) DEF Patched
  <2>. HIDE DEF diff, own
  <2>3. [[t EXCEPT !.session = own] EXCEPT !.recs[1].size = @ + diff]
          = [session |-> own, cipher |-> cipher, recs |-> sized]
    <3>1. ASSUME NEW q, q = [session |-> own, cipher |-> cipher, recs |-> recs]
          PROVE  [q EXCEPT !.recs[1].size = @ + diff]
                   = [session |-> own, cipher |-> cipher, recs |-> sized]
      <4>1. q.recs = recs
        BY <3>1
      <4>2. [q EXCEPT !.recs[1].size = @ + diff]
              = [q EXCEPT !.recs = [q.recs EXCEPT ![1] = [q.recs[1] EXCEPT !.size = @ + diff]]]
        OBVIOUS
      <4>3. [q EXCEPT !.recs[1].size = @ + diff] = [q EXCEPT !.recs = sized]
        BY <4>1, <4>2
      <4>. HIDE DEF sized
      <4> QED BY <3>1, <4>3
    <3> QED BY <2>1, <3>1
  <2>4. sized[1] = [recs[1] EXCEPT !.size = @ + diff]
    BY <1>3
  <2>. HIDE DEF sized
  <2>5. Patched(t, who) = [session |-> own, cipher |-> cipher,
                            recs |-> [sized EXCEPT ![1] = [sized[1] EXCEPT !.len = @ + diff]]]
    BY ZenonT(30), <2>2, <2>3
  <2>6. [sized[1] EXCEPT !.len = @ + diff] = first
    BY <1>3, <2>4 DEF Recs
  <2>7. [sized EXCEPT ![1] = first] = after
    BY <1>3 DEF sized
  <2> QED BY <2>5, <2>6, <2>7 DEF own
<1>5. first.type = recs[1].type /\ first.len = first.size
  BY <1>3 DEF Recs
<1>. HIDE DEF first
<1>6. DOMAIN after = DOMAIN recs /\ \A i \in DOMAIN recs : after[i] = IF i = 1 THEN first ELSE recs[i]
  BY <1>3
<1>. HIDE DEF after
<1>7. TypesOf(after) = TypesOf(recs)
  BY <1>5, <1>6 DEF TypesOf, ToSet
<1>8. \A r \in ToSet(after) : r.len = r.size
  BY <1>1, <1>5, <1>6 DEF IsComplete, ToSet
<1>9. IsComplete(after)
  BY <1>1, <1>7, <1>8 DEF IsComplete
<1> QED BY <1>4, <1>9

\* So does patch_server_hello, where there is an id.
LEMMA PatchFits ==
  ASSUME NEW t, Template(t), NEW who
  PROVE  Serves(Patch(t, who), who)
<1>1. IsComplete(t.recs)
  BY DEF Template
<1>. HIDE DEF Template
<1> QED BY <1>1, PatchedFits DEF Patch, Serves

\* A connection that is under way has a client.
LEMMA LiveOnes ==
  ASSUME CacheInv, NEW c \in Callers, caller[c].at \in Underway PROVE caller[c] \in Live
BY DEF CacheInv, CallerFits, Underway, Replied

\* A connection moves on, keeping its client.
LEMMA MoveFits ==
  ASSUME CacheInv, NEW c \in Callers, NEW at \in Underway, caller[c].at \in Underway, Moves(c, at)
  PROVE  /\ caller' = [d \in Callers |-> caller'[d]] /\ \A d \in Callers : CallerFits(caller'[d])
         /\ caller'[c].at = at /\ \A d \in Callers \ {c} : caller'[d] = caller[d]
<1>1. PICK old \in Underway, who \in Clients : caller[c] = [at |-> old, client |-> who]
  BY LiveOnes DEF Live
<1>2. caller' = [caller EXCEPT ![c] = [at |-> at, client |-> who]]
  <2>1. [caller[c] EXCEPT !.at = at] = [at |-> at, client |-> who]
    BY <1>1
  <2>2. caller' = [caller EXCEPT ![c] = [caller[c] EXCEPT !.at = at]]
    BY DEF Moves
  <2> QED BY <2>1, <2>2
<1>3. caller'[c] = [at |-> at, client |-> who] /\ (\A d \in Callers \ {c} : caller'[d] = caller[d])
      /\ caller' = [d \in Callers |-> caller'[d]]
  BY <1>2 DEF CacheInv
<1>4. caller'[c] \in Live
  BY <1>3 DEF Live
<1> QED BY <1>3, <1>4 DEF CacheInv, CallerFits

\* A connection gets its reply.
LEMMA ReplyFits ==
  ASSUME CacheInv, NEW c \in Callers, caller[c].at \in Underway, NEW flight,
         Serves(flight, caller[c].client), Replies(c, flight)
  PROVE  /\ caller' = [d \in Callers |-> caller'[d]] /\ \A d \in Callers : CallerFits(caller'[d])
         /\ caller'[c].at = "answered" /\ \A d \in Callers \ {c} : caller'[d] = caller[d]
<1>1. PICK old \in Underway, who \in Clients : caller[c] = [at |-> old, client |-> who]
  BY LiveOnes DEF Live
<1>2. caller' = [caller EXCEPT ![c] = [at |-> "answered", client |-> who, reply |-> flight]]
  BY <1>1 DEF Replies
<1>3. caller'[c] = [at |-> "answered", client |-> who, reply |-> flight]
      /\ (\A d \in Callers \ {c} : caller'[d] = caller[d]) /\ caller' = [d \in Callers |-> caller'[d]]
  BY <1>2 DEF CacheInv
<1>4. Replied(caller'[c])
  BY <1>1, <1>3 DEF Replied
<1> QED BY <1>3, <1>4 DEF CacheInv, CallerFits

\* What five fetches bring is whole.
LEMMA BatchFits == ASSUME NEW b \in Batches PROVE \A t \in b : Template(t)
BY FetchedFits DEF Batches

\* A step of a connection.
LEMMA CallerKeeps ==
  ASSUME CacheInv, NEW c \in Callers,
         \/ Calls(c) \/ LooksInside(c) \/ RaisesWarming(c) \/ FillsCache(c) \/ LowersWarming(c)
         \/ EndsWait(c) \/ Draws(c) \/ IsDropped(c)
  PROVE  CacheInv'
<1>1. CASE Calls(c)
  <2>1. PICK who \in Clients : caller' = [caller EXCEPT ![c] = [at |-> "called", client |-> who]]
    BY <1>1 DEF Calls
  <2>2. caller'[c] = [at |-> "called", client |-> who] /\ (\A d \in Callers \ {c} : caller'[d] = caller[d])
        /\ caller' = [d \in Callers |-> caller'[d]]
    BY <2>1 DEF CacheInv
  <2>3. CallerFits(caller'[c])
    BY <2>2 DEF CallerFits, Live, Underway
  <2> QED BY <1>1, <2>2, <2>3 DEF Calls, CacheInv
<1>2. CASE LooksInside(c)
  <2>1. PICK at \in {"found empty", "draws"} : Moves(c, at) /\ (at = "draws" => cache # {})
    BY <1>2 DEF LooksInside
  <2> QED BY <1>2, <2>1, MoveFits DEF LooksInside, CacheInv, Underway
<1>3. CASE RaisesWarming(c)
  <2>1. PICK at \in {"waits", "fetches"} : Moves(c, at)
    BY <1>3 DEF RaisesWarming
  <2> QED BY <1>3, <2>1, MoveFits DEF RaisesWarming, CacheInv, Underway
<1>4. CASE FillsCache(c)
  <2>1. PICK b \in Batches : cache' = cache \cup (IF b = {} THEN {Fallback(caller[c].client)} ELSE b)
    BY <1>4 DEF FillsCache
  <2>2. caller[c].client \in Clients
    BY <1>4, LiveOnes DEF Live, FillsCache, Underway
  <2>3. cache' # {} /\ \A t \in cache' : Template(t)
    BY <2>1, <2>2, BatchFits, FallbackFits DEF CacheInv
  <2> QED BY <1>4, <2>3, MoveFits DEF FillsCache, CacheInv, Underway
<1>5. CASE LowersWarming(c)
  BY <1>5, MoveFits DEF LowersWarming, CacheInv, Underway
<1>6. CASE EndsWait(c)
  <2>1. caller[c].client \in Clients
    BY <1>6, LiveOnes DEF Live, EndsWait, Underway
  <2>2. CASE cache = {}
    BY <1>6, <2>1, <2>2, FallbackFits, ReplyFits DEF EndsWait, CacheInv, Underway, Serves
  <2>3. CASE cache # {}
    BY <1>6, <2>3, MoveFits DEF EndsWait, CacheInv, Underway
  <2> QED BY <2>2, <2>3
<1>7. CASE Draws(c)
  <2>1. PICK t \in cache : Replies(c, Patch(t, caller[c].client))
    BY <1>7 DEF Draws, CacheInv
  <2>2. Template(t)
    BY DEF CacheInv
  <2> QED BY <1>7, <2>1, <2>2, PatchFits, ReplyFits DEF Draws, CacheInv, Underway
<1>8. CASE IsDropped(c)
  <2>1. caller'[c] = [at |-> "idle"] /\ (\A d \in Callers \ {c} : caller'[d] = caller[d])
        /\ caller' = [d \in Callers |-> caller'[d]]
    BY <1>8 DEF IsDropped, CacheInv
  <2>2. CallerFits(caller'[c])
    BY <2>1 DEF CallerFits
  <2> QED BY <1>8, <2>1, <2>2 DEF IsDropped, CacheInv
<1> QED BY <1>1, <1>2, <1>3, <1>4, <1>5, <1>6, <1>7, <1>8

\* Prewarming and refreshing.
LEMMA TasksKeep ==
  ASSUME CacheInv,
         \/ PrewarmLooks \/ PrewarmRaises \/ PrewarmFills \/ PrewarmEnds \/ RefreshWakes \/ RefreshStores
  PROVE  CacheInv'
<1>1. CASE PrewarmLooks \/ PrewarmRaises \/ PrewarmEnds \/ RefreshWakes
  BY <1>1 DEF PrewarmLooks, PrewarmRaises, PrewarmEnds, RefreshWakes, CacheInv
<1>2. CASE PrewarmFills
  BY <1>2, BatchFits DEF PrewarmFills, CacheInv
<1>3. CASE RefreshStores
  BY <1>3, BatchFits DEF RefreshStores, Refreshed, CacheInv
<1> QED BY <1>1, <1>2, <1>3

\* Whoever warms, waits, refreshes or is dropped, for any clients and sites:
\* get_server_hello_pfs draws from a cache that holds something, and answers with
\* the client's session id in a flight that is whole (no record torn by
\* fetch_real_server_hello or by patch_server_hello).
THEOREM AnswersAlwaysFit == CacheInit /\ [][CacheNext]_cacheVars => []AnswersFit
<1>1. CacheInit => CacheInv
  BY DEF CacheInit, CacheInv, CallerFits
<1>2. CacheInv /\ [CacheNext]_cacheVars => CacheInv'
  <2> SUFFICES ASSUME CacheInv, [CacheNext]_cacheVars PROVE CacheInv'
    OBVIOUS
  <2>1. CASE CacheNext
    BY <2>1, CallerKeeps, TasksKeep DEF CacheNext
  <2>2. CASE UNCHANGED cacheVars
    BY <2>2 DEF cacheVars, CacheInv
  <2> QED BY <2>1, <2>2
<1>3. CacheInv => AnswersFit
  BY DEF CacheInv, CallerFits, AnswersFit, Live, Replied, Serves, Underway
<1> QED BY <1>1, <1>2, <1>3, PTL

-----------------------------------------------------------------------------
(* Hello authentication: the arithmetic of buckets. *)

\* Division by the seconds of a bucket.
LEMMA BucketBounds ==
  ASSUME NEW n \in Nat
  PROVE  /\ n \div BucketSecs \in Nat
         /\ (n \div BucketSecs) * BucketSecs <= n
         /\ n < (n \div BucketSecs) * BucketSecs + BucketSecs
<1>1. \A a \in Nat : \A b \in Nat \ {0} : a \div b \in Nat /\ (a \div b) * b <= a /\ a < (a \div b) * b + b
  OBVIOUS
<1> QED BY <1>1, SessionAuthConstants

\* Products keep the order.
LEMMA ProductOrder ==
  ASSUME NEW a \in Nat, NEW b \in Nat, a * BucketSecs < b * BucketSecs
  PROVE  a < b
<1>1. \A x, y, z \in Nat : x >= y => x * z >= y * z
  OBVIOUS
<1>2. BucketSecs \in Nat /\ a * BucketSecs \in Nat /\ b * BucketSecs \in Nat
  BY SessionAuthConstants
<1> QED BY <1>1, <1>2

\* A bucket that a token of the window is in is kept, though the clock has been
\* set back by a bucket in all: it is within the buckets retained of the highest.
LEMMA WindowIsKept ==
  ASSUME NEW top \in Nat, NEW ts \in Nat, NEW clock \in Nat, NEW back \in Nat,
         top * BucketSecs <= clock + TsTolerance + back, clock <= ts + TsTolerance,
         back <= BucketSecs
  PROVE  top <= ts \div BucketSecs + RetainBuckets
<1>. DEFINE b == ts \div BucketSecs
            q == (2 * TsTolerance) \div BucketSecs
<1>1. /\ BucketSecs \in Nat \ {0} /\ TsTolerance \in Nat /\ 2 * TsTolerance \in Nat
  BY SessionAuthConstants
<1>2. /\ b \in Nat /\ ts < b * BucketSecs + BucketSecs
      /\ q \in Nat /\ 2 * TsTolerance < q * BucketSecs + BucketSecs
  BY <1>1, BucketBounds
<1>. HIDE DEF b, q
<1>3. b * BucketSecs \in Nat /\ q * BucketSecs \in Nat /\ top * BucketSecs \in Nat
  BY <1>1, <1>2
<1>4. top * BucketSecs < b * BucketSecs + q * BucketSecs + 3 * BucketSecs
  BY <1>1, <1>2, <1>3
<1>5. (b + q + 3) * BucketSecs = b * BucketSecs + q * BucketSecs + 3 * BucketSecs
  BY <1>1, <1>2
<1>6. top < b + q + 3
  BY <1>2, <1>4, <1>5, ProductOrder
<1> QED BY <1>2, <1>6 DEF RetainBuckets, b, q

-----------------------------------------------------------------------------
(* Hello authentication: the invariant. *)

Tokens == [ts : Nat, made : Nat, lag : Int \cup {NoLag}]
Courses ==
  [at : {"idle"}] \cup [at : {"sent"}, token : Nat] \cup [at : {"told"}, time : Nat]
    \cup [at : {"swaps"}, offset : Int, lag : Int]

AuthTypes ==
  /\ serverClock \in Nat /\ skew \in Int /\ offset \in Int /\ lag \in Int \cup {NoLag}
  /\ dial \in [Dials -> Courses] /\ tokens \in Seq(Tokens)
  /\ accepted \in Seq(Nat) /\ Len(accepted) = Len(tokens)
  /\ hwm \in Nat /\ sets \in Nat /\ setBack \in Nat

\* As long as no clock was set, an offset is the skew less the age the server's
\* time had, wherever it is by now, and a token is as old as the offset was.
Learning == sets = 0 =>
  /\ lag # NoLag => lag \in 0..serverClock /\ offset = skew - lag
  /\ \A d \in Dials :
       /\ dial[d].at = "told" => dial[d].time <= serverClock
       /\ dial[d].at = "swaps" => dial[d].lag \in 0..serverClock /\ dial[d].offset = skew - dial[d].lag
  /\ \A t \in DOMAIN tokens :
       /\ tokens[t].made <= serverClock
       /\ tokens[t].lag # NoLag => tokens[t].lag \in 0..tokens[t].made
                                   /\ tokens[t].ts = tokens[t].made - tokens[t].lag

\* The highest bucket is no further ahead than the window and the set-backs.
TopNear == hwm * BucketSecs <= serverClock + TsTolerance + setBack

\* A token that was accepted is still known, or its bucket is too old to be.
Remembered == setBack <= BucketSecs =>
  \A t \in DOMAIN accepted :
    accepted[t] <= 1 /\ (accepted[t] = 1 => t \in seen \/ hwm > BucketOf(t) + RetainBuckets)

AInv == AuthTypes /\ Learning /\ TopNear /\ Remembered

\* AuthInit establishes it.
LEMMA AuthBegins == ASSUME AuthInit PROVE AInv
<1>1. BucketSecs \in Nat \ {0} /\ TsTolerance \in Nat /\ 10 * BucketSecs \in Nat /\ skew \in Int
  BY SessionAuthConstants DEF AuthInit
<1>2. DOMAIN tokens = {} /\ DOMAIN accepted = {} /\ tokens \in Seq(Tokens) /\ accepted \in Seq(Nat)
      /\ Len(accepted) = Len(tokens)
  BY DEF AuthInit
<1>3. AuthTypes
  BY <1>1, <1>2 DEF AuthInit, AuthTypes, Courses
<1>4. Learning /\ Remembered
  BY <1>2 DEF AuthInit, Learning, Remembered
<1>5. TopNear
  <2>1. 0 * BucketSecs = 0
    BY <1>1
  <2> QED BY <1>1, <2>1 DEF AuthInit, TopNear
<1> QED BY <1>3, <1>4, <1>5 DEF AInv

\* What a clock that only goes on keeps, and clients that do nothing.
LEMMA RestRemembers ==
  ASSUME AInv, UNCHANGED <<hwm, seen, accepted, tokens>>, serverClock' \in Nat, setBack' \in Nat,
         serverClock' + setBack' >= serverClock + setBack, setBack' >= setBack
  PROVE  TopNear' /\ Remembered'
<1>1. hwm * BucketSecs \in Nat /\ TsTolerance \in Nat
  BY SessionAuthConstants DEF AInv, AuthTypes
<1>2. TopNear'
  <2>1. PICK h \in Nat : h = hwm * BucketSecs
    BY <1>1
  <2>2. h <= serverClock + TsTolerance + setBack /\ serverClock \in Nat /\ setBack \in Nat
    BY <2>1 DEF AInv, AuthTypes, TopNear
  <2>3. \A n, a, b, c, d, e \in Nat : n <= a + e + b /\ c + d >= a + b => n <= c + e + d
    OBVIOUS
  <2>5. h <= serverClock' + TsTolerance + setBack'
    BY <1>1, <2>2, <2>3, serverClock' + setBack' >= serverClock + setBack
  <2>4. hwm' * BucketSecs = h
    BY <2>1
  <2> QED BY <2>4, <2>5 DEF TopNear
<1>3. setBack' <= BucketSecs => setBack <= BucketSecs
  BY SessionAuthConstants DEF AInv, AuthTypes
<1> QED BY <1>2, <1>3 DEF AInv, Remembered, BucketOf

\* A dial makes a token.
LEMMA MakesKeeps == ASSUME AInv, NEW d \in Dials, MakesToken(d) PROVE AInv'
<1>. DEFINE fresh == [ts |-> NowSec, made |-> serverClock, lag |-> lag]
            n == Len(tokens)
<1>0. AuthTypes
  BY DEF AInv
<1>1. /\ tokens' = Append(tokens, fresh) /\ accepted' = Append(accepted, 0)
      /\ UNCHANGED <<offset, lag, hwm, seen, serverClock, skew, sets, setBack>>
      /\ dial' = [dial EXCEPT ![d] = [at |-> "sent", token |-> n + 1]]
  BY DEF MakesToken, clockVars
<1>2. NowSec \in Nat /\ (ClientClock + offset >= 0 => NowSec = ClientClock + offset)
      /\ ClientClock = serverClock - skew
  BY <1>0 DEF AuthTypes, NowSec, ClientClock, NotNegative
<1>3. fresh \in Tokens /\ fresh.ts = NowSec /\ fresh.made = serverClock /\ fresh.lag = lag
  BY <1>0, <1>2 DEF AuthTypes, Tokens
<1>. HIDE DEF fresh
<1>4. /\ n \in Nat /\ tokens' \in Seq(Tokens) /\ Len(tokens') = n + 1 /\ tokens'[n + 1] = fresh
      /\ \A t \in 1..n : tokens'[t] = tokens[t]
      /\ accepted' \in Seq(Nat) /\ Len(accepted') = n + 1 /\ accepted'[n + 1] = 0
      /\ \A t \in 1..n : accepted'[t] = accepted[t]
      /\ DOMAIN tokens = 1..n /\ DOMAIN accepted = 1..n /\ DOMAIN tokens' = 1..(n + 1) /\ DOMAIN accepted' = 1..(n + 1)
  <2>1. tokens \in Seq(Tokens) /\ accepted \in Seq(Nat) /\ Len(accepted) = n /\ 0 \in Nat
    BY <1>0 DEF AuthTypes
  <2> QED BY <1>1, <1>3, <2>1, AppendProperties
<1>. HIDE DEF n
<1>5. AuthTypes'
  <2>1. dial' \in [Dials -> Courses]
    BY <1>0, <1>1, <1>4 DEF AuthTypes, Courses
  <2> QED BY <1>0, <1>1, <1>4, <2>1 DEF AuthTypes
<1>6. Learning'
  <2>1. SUFFICES ASSUME sets = 0 PROVE Learning'
    BY <1>1 DEF Learning
  <2>2. lag # NoLag => lag \in 0..serverClock /\ NowSec = serverClock - lag
    BY <1>0, <1>2, <2>1 DEF AInv, AuthTypes, Learning
  <2>3. ASSUME NEW t \in 1..(n + 1)
        PROVE  /\ tokens'[t].made <= serverClock
               /\ tokens'[t].lag # NoLag => tokens'[t].lag \in 0..tokens'[t].made
                                            /\ tokens'[t].ts = tokens'[t].made - tokens'[t].lag
    <3>1. CASE t = n + 1
      BY <1>0, <1>3, <1>4, <2>2, <3>1 DEF AuthTypes
    <3>2. CASE t \in 1..n
      BY <1>4, <2>1, <3>2 DEF AInv, Learning
    <3> QED BY <1>4, <3>1, <3>2
  <2>4. \A e \in Dials : dial'[e].at \in {"told", "swaps"} => dial'[e] = dial[e]
    BY <1>0, <1>1 DEF AuthTypes
  <2> QED BY <1>1, <1>4, <2>1, <2>3, <2>4 DEF AInv, Learning
<1>7. TopNear'
  BY <1>1 DEF AInv, TopNear
<1>8. Remembered'
  <2>1. SUFFICES ASSUME setBack <= BucketSecs, NEW t \in 1..(n + 1)
                 PROVE  accepted'[t] <= 1 /\ (accepted'[t] = 1 => t \in seen \/ hwm > BucketOf(t)' + RetainBuckets)
    BY <1>1, <1>4 DEF Remembered
  <2>2. CASE t = n + 1
    BY <1>4, <2>2
  <2>3. CASE t \in 1..n
    BY <1>4, <2>1, <2>3 DEF AInv, Remembered, BucketOf
  <2> QED BY <1>4, <2>2, <2>3
<1> QED BY <1>5, <1>6, <1>7, <1>8 DEF AInv

\* The network brings a token: the first time it is accepted it is remembered,
\* and as long as its time is in the window it is not forgotten.
LEMMA ArrivesKeeps == ASSUME AInv, NEW t, Arrives(t) PROVE AInv'
<1>. DEFINE bucket == BucketOf(t)
            back   == bucket + RetainBuckets < hwm
            top    == IF back \/ bucket > hwm THEN bucket ELSE hwm
            kept   == IF back THEN {} ELSE {s \in seen : NotNegative(top - BucketOf(s)) <= RetainBuckets}
            mine   == {s \in kept : BucketOf(s) = bucket}
            isNew  == Cardinality(mine) <= BucketCap /\ t \notin mine
<1>0. AuthTypes
  BY DEF AInv
<1>1. /\ t \in DOMAIN tokens /\ Verifies(t)
      /\ UNCHANGED <<offset, lag, tokens, serverClock, skew, sets, setBack>>
  BY DEF Arrives, clientVars, clockVars
<1>2. /\ DOMAIN accepted = DOMAIN tokens /\ \A s \in DOMAIN tokens : tokens[s] \in Tokens /\ accepted[s] \in Nat
      /\ tokens[t].ts \in Nat /\ tokens[t].ts + TsTolerance \in Nat
  <2>1. \A s \in DOMAIN tokens : tokens[s] \in Tokens /\ accepted[s] \in Nat
    BY <1>0 DEF AuthTypes
  <2>2. tokens[t].ts \in Nat /\ TsTolerance \in Nat
    BY <1>1, <2>1, SessionAuthConstants DEF Tokens
  <2> QED BY <1>0, <2>1, <2>2 DEF AuthTypes
<1>3. CASE ~Within(tokens[t].ts)
  <2>1. UNCHANGED <<hwm, seen, accepted, dial>>
    BY <1>1, <1>3 DEF Verifies
  <2> QED BY <1>1, <2>1 DEF AInv, AuthTypes, Learning, TopNear, Remembered, BucketOf
<1>4. CASE Within(tokens[t].ts)
  <2>1. /\ hwm' = top /\ seen' = IF isNew THEN kept \cup {t} ELSE kept
        /\ accepted' = IF isNew THEN [accepted EXCEPT ![t] = accepted[t] + 1] ELSE accepted
        /\ dial' = IF isNew
                   THEN [d \in Dials |-> IF dial[d].at = "sent" /\ dial[d].token = t
                                         THEN [at |-> "told", time |-> serverClock] ELSE dial[d]]
                   ELSE dial
    BY <1>1, <1>4 DEF Verifies
  <2>2. /\ \A s \in DOMAIN tokens : BucketOf(s) \in Nat /\ BucketOf(s)' = BucketOf(s)
        /\ bucket \in Nat /\ bucket * BucketSecs <= tokens[t].ts /\ RetainBuckets \in Nat
    <3>1. \A s \in DOMAIN tokens : BucketOf(s) \in Nat
      BY <1>2, BucketBounds DEF BucketOf, Tokens
    <3>2. RetainBuckets \in Nat
      BY BucketBounds, SessionAuthConstants DEF RetainBuckets
    <3> QED BY <1>1, <1>2, <3>1, <3>2, BucketBounds DEF BucketOf
  <2>. HIDE DEF bucket
  <2>3. top \in Nat /\ hwm \in Nat
    BY <1>0, <2>2 DEF AuthTypes
  <2>4. AuthTypes'
    <3>1. dial' \in [Dials -> Courses]
      BY <1>0, <2>1 DEF AuthTypes, Courses
    <3>2. accepted' \in Seq(Nat) /\ Len(accepted') = Len(accepted)
      BY <1>0, <1>1, <1>2, <2>1 DEF AuthTypes
    <3> QED BY <1>0, <1>1, <2>1, <2>3, <3>1, <3>2 DEF AuthTypes
  <2>5. Learning'
    <3>1. \A d \in Dials : dial'[d] = dial[d] \/ dial'[d] = [at |-> "told", time |-> serverClock]
      BY <1>0, <2>1 DEF AuthTypes
    <3>2. serverClock <= serverClock
      BY <1>0 DEF AuthTypes
    <3> QED BY <1>1, <3>1, <3>2 DEF AInv, Learning
  <2>6. TopNear'
    <3>1. CASE top = hwm
      BY <1>1, <2>1, <3>1 DEF AInv, TopNear
    <3>2. CASE top = bucket
      <4>1. tokens[t].ts <= serverClock + TsTolerance
        BY <1>4 DEF Within
      <4>2. PICK h \in Nat : h = bucket * BucketSecs
        BY <2>2, SessionAuthConstants
      <4>3. h <= serverClock + TsTolerance + setBack
        <5>1. serverClock \in Nat /\ setBack \in Nat /\ TsTolerance \in Nat /\ h <= tokens[t].ts
          BY <1>0, <2>2, <4>2, SessionAuthConstants DEF AuthTypes
        <5> QED BY <1>2, <4>1, <5>1
      <4>4. hwm' = bucket
        BY <2>1, <3>2
      <4> QED BY <1>1, <4>2, <4>3, <4>4 DEF TopNear
    <3> QED BY <3>1, <3>2
  <2>7. Remembered'
    <3>1. SUFFICES ASSUME setBack <= BucketSecs, NEW s \in DOMAIN accepted
                   PROVE  accepted'[s] <= 1 /\ (accepted'[s] = 1 => s \in seen' \/ hwm' > BucketOf(s) + RetainBuckets)
      BY <1>0, <1>1, <1>2, <2>1, <2>2 DEF Remembered
    <3>2. hwm <= bucket + RetainBuckets
      <4>1. hwm <= tokens[t].ts \div BucketSecs + RetainBuckets
        BY <1>0, <1>2, <1>4, <3>1, WindowIsKept DEF AInv, AuthTypes, TopNear, Within
      <4> QED BY <4>1 DEF bucket, BucketOf
    <3>3. ~back /\ top >= hwm /\ top >= bucket /\ top <= bucket + RetainBuckets
      BY <2>2, <2>3, <3>2
    <3>4. accepted[s] <= 1 /\ (accepted[s] = 1 => s \in seen \/ hwm > BucketOf(s) + RetainBuckets)
      BY <3>1 DEF AInv, Remembered
    <3>5. BucketOf(s) \in Nat /\ accepted[s] \in Nat
      BY <1>2, <2>2, <3>1
    <3>6. kept = {u \in seen : NotNegative(top - BucketOf(u)) <= RetainBuckets}
      BY <3>3
    <3>. HIDE DEF top, back
    <3>7. s \in seen => s \in kept \/ top > BucketOf(s) + RetainBuckets
      BY <2>2, <2>3, <3>5, <3>6 DEF NotNegative
    <3>8. CASE s # t
      <4>1. accepted'[s] = accepted[s] /\ kept \subseteq seen'
        BY <1>0, <1>2, <2>1, <3>1, <3>8 DEF AuthTypes
      <4> QED BY <2>1, <2>2, <2>3, <3>3, <3>4, <3>5, <3>7, <4>1
    <3>9. CASE s = t
      <4>1. BucketOf(s) = bucket
        BY <3>9 DEF bucket
      <4>2. accepted[s] = 1 => s \in mine
        BY <2>2, <2>3, <3>2, <3>3, <3>4, <3>5, <3>7, <4>1
      <4>3. CASE isNew
        <5>1. accepted[s] = 0 /\ s \in seen' /\ accepted'[s] = accepted[s] + 1
          BY <1>2, <2>1, <3>1, <3>4, <3>5, <3>9, <4>2, <4>3
        <5> QED BY <5>1
      <4>4. CASE ~isNew
        BY <2>1, <3>4, <4>2, <4>4
      <4> QED BY <4>3, <4>4
    <3> QED BY <3>8, <3>9
  <2> QED BY <2>4, <2>5, <2>6, <2>7 DEF AInv
<1> QED BY <1>3, <1>4

\* A dial learns the time, or gives up.
LEMMA DialKeeps ==
  ASSUME AInv, NEW d \in Dials, ReadsTime(d) \/ SwapsOffset(d) \/ DialFails(d)
  PROVE  AInv'
<1>0. AuthTypes /\ dial[d] \in Courses
  BY DEF AInv, AuthTypes
<1>1. UNCHANGED <<serverClock, skew, sets, setBack, hwm, seen, accepted, tokens>>
  BY DEF ReadsTime, SwapsOffset, DialFails, replayVars, clientVars, clockVars
<1>2. TopNear' /\ Remembered'
  BY <1>0, <1>1, RestRemembers DEF AuthTypes
<1>3. CASE UNCHANGED <<offset, lag>> /\ dial' = [dial EXCEPT ![d] = [at |-> "idle"]]
  <2>1. AuthTypes'
    BY <1>0, <1>1, <1>3 DEF AuthTypes, Courses
  <2>2. Learning'
    BY <1>0, <1>1, <1>3 DEF AInv, AuthTypes, Learning
  <2> QED BY <1>2, <2>1, <2>2 DEF AInv
<1>4. CASE ReadsTime(d)
  <2>1. /\ UNCHANGED <<offset, lag>> /\ dial[d].at = "told"
        /\ \/ dial' = [dial EXCEPT ![d] = [at |-> "idle"]]
           \/ dial' = [dial EXCEPT ![d] = [at |-> "swaps", offset |-> OffsetFrom(dial[d].time),
                                           lag |-> serverClock - dial[d].time]]
    BY <1>4 DEF ReadsTime, clientVars
  <2>2. CASE dial' = [dial EXCEPT ![d] = [at |-> "idle"]]
    BY <1>3, <2>1, <2>2
  <2>3. CASE dial' = [dial EXCEPT ![d] = [at |-> "swaps", offset |-> OffsetFrom(dial[d].time),
                                          lag |-> serverClock - dial[d].time]]
    <3>1. /\ dial[d].time \in Nat /\ serverClock \in Nat /\ skew \in Int
          /\ OffsetFrom(dial[d].time) = skew - (serverClock - dial[d].time)
      BY <1>0, <2>1 DEF AuthTypes, Courses, OffsetFrom, ClientClock
    <3>2. AuthTypes'
      BY <1>0, <1>1, <2>1, <2>3, <3>1 DEF AuthTypes, Courses
    <3>3. /\ dial'[d].at = "swaps" /\ dial'[d].lag = serverClock - dial[d].time
          /\ dial'[d].offset = skew - (serverClock - dial[d].time)
          /\ \A e \in Dials \ {d} : dial'[e] = dial[e]
      BY <1>0, <2>3, <3>1 DEF AuthTypes
    <3>4. sets = 0 => serverClock - dial[d].time \in 0..serverClock
      BY <2>1, <3>1 DEF AInv, Learning
    <3>5. Learning'
      BY <1>1, <2>1, <3>3, <3>4 DEF AInv, Learning
    <3> QED BY <1>2, <3>2, <3>5 DEF AInv
  <2> QED BY <2>1, <2>2, <2>3
<1>5. CASE SwapsOffset(d)
  <2>1. /\ dial[d].at = "swaps" /\ offset' = dial[d].offset /\ lag' = dial[d].lag
        /\ dial' = [dial EXCEPT ![d] = [at |-> "idle"]]
    BY <1>5 DEF SwapsOffset
  <2>2. dial[d].offset \in Int /\ dial[d].lag \in Int
    BY <1>0, <2>1 DEF Courses
  <2>3. AuthTypes'
    BY <1>0, <1>1, <2>1, <2>2 DEF AuthTypes, Courses
  <2>4. Learning'
    BY <1>0, <1>1, <2>1 DEF AInv, AuthTypes, Learning
  <2> QED BY <1>2, <2>3, <2>4 DEF AInv
<1>6. CASE DialFails(d)
  BY <1>3, <1>6 DEF DialFails, clientVars
<1> QED BY <1>4, <1>5, <1>6

\* A second passes, or a clock is set.
LEMMA ClocksKeep ==
  ASSUME AInv, SecondPasses \/ \E s \in Skews : ClientClockSet(s) \/ ServerClockSet(s)
  PROVE  AInv'
<1>0. AuthTypes /\ Skews \subseteq Int
  BY SessionAuthConstants DEF AInv
<1>1. UNCHANGED <<offset, lag, tokens, dial, hwm, seen, accepted>>
  BY DEF SecondPasses, ClientClockSet, ServerClockSet, clientVars, replayVars
<1>. DEFINE Clocks ==
       /\ serverClock' \in Nat /\ setBack' \in Nat /\ sets' \in Nat /\ skew' \in Int
       /\ serverClock' + setBack' >= serverClock + setBack /\ setBack' >= setBack
       /\ sets' = 0 => sets = 0 /\ skew' = skew /\ serverClock' >= serverClock
<1>2. Clocks
  <2>1. CASE SecondPasses
    BY <1>0, <2>1 DEF AuthTypes, SecondPasses
  <2>2. ASSUME NEW s \in Skews, ClientClockSet(s) PROVE Clocks
    BY <1>0, <2>2 DEF AuthTypes, ClientClockSet
  <2>3. ASSUME NEW s \in Skews, ServerClockSet(s) PROVE Clocks
    BY <1>0, <2>3 DEF AuthTypes, ServerClockSet, NotNegative
  <2> QED BY <2>1, <2>2, <2>3
<1>3. AuthTypes'
  BY <1>0, <1>1, <1>2 DEF AuthTypes
<1>4. Learning'
  <2>1. SUFFICES ASSUME sets' = 0 PROVE Learning'
    BY DEF Learning
  <2>2. sets = 0 /\ skew' = skew /\ serverClock \in Nat /\ serverClock' \in Nat /\ serverClock <= serverClock'
    BY <1>0, <1>2, <2>1 DEF AuthTypes
  <2>3. \A n \in 0..serverClock : n \in 0..serverClock'
    BY <2>2
  <2>4. \A d \in Dials : dial[d].at = "told" => dial[d].time <= serverClock'
    <3>1. ASSUME NEW d \in Dials, dial[d].at = "told" PROVE dial[d].time \in Nat /\ dial[d].time <= serverClock
      BY <1>0, <2>2, <3>1 DEF AInv, AuthTypes, Courses, Learning
    <3> QED BY <2>2, <3>1
  <2>5. \A t \in DOMAIN tokens : tokens[t].made <= serverClock'
    <3>1. ASSUME NEW t \in DOMAIN tokens PROVE tokens[t].made \in Nat /\ tokens[t].made <= serverClock
      <4>1. tokens[t] \in Tokens
        BY <1>0 DEF AuthTypes
      <4> QED BY <2>2, <4>1 DEF AInv, Tokens, Learning
    <3> QED BY <2>2, <3>1
  <2> QED BY <1>1, <2>2, <2>3, <2>4, <2>5 DEF AInv, Learning
<1> QED BY <1>0, <1>1, <1>2, <1>3, <1>4, RestRemembers DEF AInv

\* The inductive invariant of clocks and tokens.
LEMMA AuthInvariant == AuthInit /\ [][AuthNext]_authVars => []AInv
<1>1. AuthInit => AInv
  BY AuthBegins
<1>2. AInv /\ [AuthNext]_authVars => AInv'
  <2> SUFFICES ASSUME AInv, [AuthNext]_authVars PROVE AInv'
    OBVIOUS
  <2>1. CASE AuthNext
    BY <2>1, MakesKeeps, DialKeeps, ArrivesKeeps, ClocksKeep DEF AuthNext
  <2>2. CASE UNCHANGED authVars
    BY <2>2 DEF authVars, AInv, AuthTypes, Learning, TopNear, Remembered, BucketOf
  <2> QED BY <2>1, <2>2
<1> QED BY <1>1, <1>2, PTL

\* verify_session_token accepts a token once, however often and late the network
\* brings it and whatever the clients' clocks say, unless the server's clock was
\* set back by more than a bucket: for any tolerance and any length of a bucket.
LEMMA TokensAcceptedOnce == AuthInit /\ [][AuthNext]_authVars => []AcceptedOnce
<1>1. AInv => AcceptedOnce
  BY DEF AInv, Remembered, AcceptedOnce
<1> QED BY <1>1, AuthInvariant, PTL

\* What set_offset_from_server_time learns, by whichever dial and in whatever
\* order, makes tokens that the server finds fresh, when the way of the time and
\* the way of the token took no longer than the tolerance and no clock was set.
LEMMA LearnedTimeGetsIn == AuthInit /\ [][AuthNext]_authVars => []LearnedGetsIn
<1>1. ASSUME AInv PROVE LearnedGetsIn
  <2>1. SUFFICES ASSUME NEW t \in DOMAIN tokens, sets = 0, tokens[t].lag # NoLag,
                        serverClock - tokens[t].made + tokens[t].lag <= TsTolerance
                 PROVE  Within(tokens[t].ts)
    BY DEF LearnedGetsIn
  <2>2. tokens[t].made \in Nat /\ tokens[t].ts \in Nat /\ serverClock \in Nat /\ TsTolerance \in Nat
    <3>1. tokens[t] \in Tokens /\ serverClock \in Nat
      BY <1>1, <2>1 DEF AInv, AuthTypes
    <3> QED BY <3>1, SessionAuthConstants DEF Tokens
  <2>3. /\ tokens[t].made <= serverClock /\ tokens[t].lag \in 0..tokens[t].made
        /\ tokens[t].ts = tokens[t].made - tokens[t].lag
    BY <1>1, <2>1 DEF AInv, Learning
  <2> QED BY <2>1, <2>2, <2>3 DEF Within
<1> QED BY <1>1, AuthInvariant, PTL

\* A token is let in once (verify_session_token), and who has learned the time is
\* let in (set_offset_from_server_time).
THEOREM TokensAlwaysSound == AuthInit /\ [][AuthNext]_authVars => []TokensSound
<1>1. AcceptedOnce /\ LearnedGetsIn => TokensSound
  BY DEF TokensSound
<1> QED BY <1>1, TokensAcceptedOnce, LearnedTimeGetsIn, PTL

-----------------------------------------------------------------------------
(* The user-space TCP stack. *)

\* Queues of packets, and the SYNs in one.
IsQueue(q) == q \in Seq({q[i] : i \in DOMAIN q})
IsSyn(p) == p.kind \in {"syn", "badsyn"}
SynsIn(q) == {i \in DOMAIN q : IsSyn(q[i])}
Count(q) == Cardinality(SynsIn(q))

\* What smoltcp keeps of a socket.
IsSocket(x) ==
  x = [state |-> x.state, flow |-> x.flow, data |-> x.data, age |-> x.age, number |-> x.number]

\* The set of sockets, and the four-tuple of each its own.
SocketsAre ==
  /\ sockets = [s \in Slots |-> sockets[s]]
  /\ \A s \in Slots : sockets[s] = NoSocket \/ IsSocket(sockets[s])
OwnTuple == \A f \in Flows : \A s, t \in Bound(f) : s = t
SInv == SocketsAre /\ OwnTuple

\* Packets are in their queues; for every SYN under way there is a slot that no
\* socket has been made for.
Queues ==
  /\ IsQueue(kernel) /\ IsQueue(chan) /\ IsQueue(tx)
  /\ held = IF reader = "send" THEN <<held[1]>> ELSE <<>>
Room ==
  /\ spawned \in Nat /\ Count(kernel) + Count(held) + Count(chan) + spawned <= MaxRelays
  /\ Cardinality(Slots \ Free) <= spawned

\* Queues are sequences of what is in them.
LEMMA QueueIs ==
  /\ \A S : \A q \in Seq(S) : IsQueue(q)
  /\ \A q : IsQueue(q) => Len(q) \in Nat /\ DOMAIN q = 1..Len(q)
<1>1. ASSUME NEW S, NEW q \in Seq(S) PROVE IsQueue(q)
  BY DEF IsQueue
<1>2. ASSUME NEW q, IsQueue(q) PROVE Len(q) \in Nat /\ DOMAIN q = 1..Len(q)
  BY <1>2 DEF IsQueue
<1> QED BY <1>1, <1>2

\* The SYNs of a queue can be counted.
LEMMA CountIsNat == ASSUME NEW q, IsQueue(q) PROVE IsFiniteSet(SynsIn(q)) /\ Count(q) \in Nat
<1>1. IsFiniteSet(1..Len(q)) /\ DOMAIN q = 1..Len(q)
  BY QueueIs, FS_Interval
<1> QED BY <1>1, FS_Subset, FS_CardinalityType DEF SynsIn, Count

\* One queue after another.
LEMMA ConcatCounts ==
  ASSUME NEW a, NEW b, IsQueue(a), IsQueue(b)
  PROVE  IsQueue(a \o b) /\ Count(a \o b) = Count(a) + Count(b)
<1>. DEFINE S == {a[i] : i \in DOMAIN a} \cup {b[i] : i \in DOMAIN b}
            c == a \o b
            moved == {i \in DOMAIN c : i > Len(a) /\ IsSyn(c[i])}
            shift == [i \in SynsIn(b) |-> i + Len(a)]
<1>0. a \in Seq(S) /\ b \in Seq(S)
  BY DEF IsQueue
<1>1. /\ c \in Seq(S) /\ Len(c) = Len(a) + Len(b) /\ Len(a) \in Nat /\ Len(b) \in Nat
      /\ DOMAIN c = 1..(Len(a) + Len(b)) /\ DOMAIN a = 1..Len(a) /\ DOMAIN b = 1..Len(b)
      /\ \A i \in 1..(Len(a) + Len(b)) : c[i] = IF i <= Len(a) THEN a[i] ELSE b[i - Len(a)]
  BY <1>0, ConcatProperties
<1>2. IsQueue(c)
  BY <1>1, QueueIs
<1>. HIDE DEF c, S
<1>3. SynsIn(c) = SynsIn(a) \cup moved /\ SynsIn(a) \cap moved = {}
  BY <1>1 DEF SynsIn
<1>4. /\ \A i \in SynsIn(b) : i \in Nat /\ i + Len(a) \in moved
      /\ \A i \in moved : i - Len(a) \in SynsIn(b) /\ i - Len(a) + Len(a) = i
      /\ \A i, j \in SynsIn(b) : i + Len(a) = j + Len(a) => i = j
  <2>1. ASSUME NEW i \in SynsIn(b) PROVE i \in Nat /\ i + Len(a) \in moved
    <3>1. i \in 1..Len(b) /\ IsSyn(b[i])
      BY <1>1 DEF SynsIn
    <3>2. i + Len(a) \in 1..(Len(a) + Len(b)) /\ i + Len(a) > Len(a) /\ i + Len(a) - Len(a) = i
      BY <1>1, <3>1
    <3>3. c[i + Len(a)] = b[i]
      <4>1. PICK j \in 1..(Len(a) + Len(b)) : j = i + Len(a)
        BY <3>2
      <4>2. ~(j <= Len(a)) /\ j - Len(a) = i
        BY <1>1, <3>1, <4>1
      <4>3. c[j] = b[j - Len(a)]
        BY <1>1, <4>2
      <4> QED BY <4>1, <4>2, <4>3
    <3>4. i + Len(a) \in DOMAIN c
      BY <1>1, <3>2
    <3>6. IsSyn(c[i + Len(a)])
      BY <3>1, <3>3
    <3>5. i + Len(a) \in moved
      BY <3>2, <3>4, <3>6
    <3> QED BY <1>1, <3>1, <3>5
  <2>2. ASSUME NEW i \in moved PROVE i - Len(a) \in SynsIn(b) /\ i - Len(a) + Len(a) = i
    <3>1. i \in 1..(Len(a) + Len(b)) /\ i > Len(a) /\ IsSyn(c[i])
      BY <1>1
    <3>2. c[i] = b[i - Len(a)] /\ i - Len(a) \in 1..Len(b) /\ i - Len(a) + Len(a) = i
      BY <1>1, <3>1
    <3> QED BY <1>1, <3>1, <3>2 DEF SynsIn
  <2>3. \A i, j \in SynsIn(b) : i + Len(a) = j + Len(a) => i = j
    BY <1>1, <2>1
  <2> QED BY <2>1, <2>2, <2>3
<1>. HIDE DEF moved
<1>5. shift \in Bijection(SynsIn(b), moved)
  BY <1>4 DEF Bijection, Injection, Surjection, IsInjective
<1>6. IsFiniteSet(moved) /\ Cardinality(moved) = Count(b)
  BY <1>5, CountIsNat, FS_Bijection DEF ExistsBijection, Count
<1>7. Cardinality(SynsIn(c)) = Count(a) + Count(b)
  BY <1>3, <1>6, CountIsNat, FS_Union, FS_EmptySet DEF Count
<1> QED BY <1>2, <1>7 DEF Count, c

\* A queue of one packet.
LEMMA OneCounts ==
  ASSUME NEW p PROVE IsQueue(<<p>>) /\ Count(<<p>>) = IF IsSyn(p) THEN 1 ELSE 0
<1>1. <<p>> \in Seq({p}) /\ DOMAIN <<p>> = {1} /\ <<p>>[1] = p
  OBVIOUS
<1>2. SynsIn(<<p>>) = IF IsSyn(p) THEN {1} ELSE {}
  BY <1>1 DEF SynsIn
<1> QED BY <1>1, <1>2, QueueIs, FS_Singleton, FS_EmptySet DEF Count

\* An empty one.
LEMMA NoneCounts == IsQueue(<<>>) /\ Count(<<>>) = 0
<1>1. <<>> \in Seq({}) /\ DOMAIN <<>> = {}
  OBVIOUS
<1>2. SynsIn(<<>>) = {}
  BY <1>1 DEF SynsIn
<1> QED BY <1>1, <1>2, QueueIs, FS_EmptySet DEF Count

\* A packet at the end of a queue.
LEMMA AppendCounts ==
  ASSUME NEW q, NEW p, IsQueue(q)
  PROVE  IsQueue(Append(q, p)) /\ Count(Append(q, p)) = Count(q) + IF IsSyn(p) THEN 1 ELSE 0
<1>. DEFINE S == {q[i] : i \in DOMAIN q} \cup {p}
<1>1. q \in Seq(S) /\ p \in S
  BY DEF IsQueue
<1>2. Append(q, p) = q \o <<p>>
  BY <1>1, AppendIsConcat
<1> QED BY <1>2, ConcatCounts, OneCounts

\* A packet taken from the head of a queue.
LEMMA HeadCounts ==
  ASSUME NEW q, IsQueue(q), q # <<>>
  PROVE  IsQueue(Tail(q)) /\ Count(q) = Count(Tail(q)) + IF IsSyn(Head(q)) THEN 1 ELSE 0
<1>. DEFINE S == {q[i] : i \in DOMAIN q}
<1>1. q \in Seq(S)
  BY DEF IsQueue
<1>2. Tail(q) \in Seq(S) /\ Head(q) \in S
  BY <1>1, HeadTailProperties
<1>3. q = <<Head(q)>> \o Tail(q)
  BY <1>1, <1>2, ConcatProperties
<1>4. IsQueue(Tail(q)) /\ IsQueue(<<Head(q)>>)
  BY <1>2, QueueIs, OneCounts
<1>5. Count(q) = Count(<<Head(q)>>) + Count(Tail(q))
  BY <1>3, <1>4, ConcatCounts
<1> QED BY <1>4, <1>5, OneCounts, CountIsNat

\* The SYNs under way are those of the three queues.
LEMMA SynsAre ==
  ASSUME IsQueue(kernel), IsQueue(held), IsQueue(chan)
  PROVE  Syns = Count(kernel) + Count(held) + Count(chan)
<1>1. IsQueue(kernel \o held) /\ Count(kernel \o held) = Count(kernel) + Count(held)
  BY ConcatCounts
<1>2. Count((kernel \o held) \o chan) = Count(kernel) + Count(held) + Count(chan)
  BY <1>1, ConcatCounts
<1>3. Syns = Count((kernel \o held) \o chan)
  BY DEF Syns, Under, Count, SynsIn, IsSyn
<1> QED BY <1>2, <1>3

-----------------------------------------------------------------------------
(* The sockets. *)

\* The sockets keep their four-tuples or lose them.
LEMMA TuplesFade ==
  ASSUME SInv, sockets' = [s \in Slots |-> sockets'[s]],
         \A s \in Slots :
           \/ sockets'[s] = NoSocket
           \/ /\ IsSocket(sockets'[s])
              /\ \/ sockets'[s].flow = NoFlow
                 \/ sockets[s] # NoSocket /\ sockets'[s].flow = sockets[s].flow
  PROVE  SInv'
<1>1. \A f \in Flows : Bound(f)' \subseteq Bound(f)
  BY TunStackAssumption DEF Bound
<1> QED BY <1>1 DEF SInv, SocketsAre, OwnTuple

\* A segment moves its socket on, or resets it.
LEMMA MeetsKeeps ==
  ASSUME NEW x, NEW kind, IsSocket(x)
  PROVE  IsSocket(Meets(x, kind)) /\ Meets(x, kind).flow \in {x.flow, NoFlow}
<1>1. Meets(x, kind) \in {[x EXCEPT !.state = "closed", !.flow = NoFlow, !.data = 0],
        [x EXCEPT !.state = "listen", !.flow = NoFlow, !.data = 0],
        [x EXCEPT !.state = "open"], [x EXCEPT !.state = "closed", !.flow = NoFlow],
        [x EXCEPT !.data = 1], [x EXCEPT !.state = "closewait"], [x EXCEPT !.state = "timewait"], x}
  BY DEF Meets
<1> QED BY <1>1 DEF IsSocket

\* So does the relay's close.
LEMMA ClosedKeeps ==
  ASSUME NEW x, IsSocket(x)
  PROVE  IsSocket(Closed(x)) /\ Closed(x).flow = x.flow
<1>1. Closed(x) \in {[x EXCEPT !.state = "closed"], [x EXCEPT !.state = "finwait"],
                     [x EXCEPT !.state = "lastack"], x}
  BY DEF Closed
<1> QED BY <1>1 DEF IsSocket

\* A set of slots that is not empty has a least one.
LEMMA LeastIs ==
  ASSUME NEW S, S \subseteq Slots, S # {} PROVE Least(S) \in S
<1>. DEFINE R == {p \in Nat \X Nat : p[1] < p[2]}
<1>1. IsWellFoundedOn(R, Nat)
  BY NatLessThanWellFounded DEF OpToRel
<1>. HIDE DEF R
<1>2. S \subseteq Nat
  BY TunStackAssumption DEF Slots
<1>3. PICK x \in S : \A y \in S : ~(<<y, x>> \in R)
  BY <1>1, <1>2, WFMin
<1>4. ASSUME NEW y \in S PROVE x <= y
  <2>1. x \in Nat /\ y \in Nat
    BY <1>2
  <2>2. <<y, x>> \in Nat \X Nat /\ <<y, x>>[1] = y /\ <<y, x>>[2] = x
    BY <2>1
  <2>3. ~(y < x)
    BY <1>3, <2>2 DEF R
  <2> QED BY <2>1, <2>3
<1> QED BY <1>3, <1>4 DEF Least

\* A SYN that is met twice makes no second socket: the first listener takes its
\* four-tuple only when nobody has it.
LEMMA CatchKeeps ==
  ASSUME SInv, spawned \in Nat, Free # {}, NEW f, NEW good \in BOOLEAN, Catches(f), Catch(f, good)
  PROVE  SInv' /\ Cardinality((Slots \ Free)') <= Cardinality(Slots \ Free) + 1
<1>. DEFINE s == Least(Free)
            fresh == [state |-> "listen", flow |-> NoFlow, data |-> 0, age |-> 0, number |-> spawned + 1]
            made == [sockets EXCEPT ![s] = fresh]
            taker == Least({t \in Slots : made[t] # NoSocket /\ made[t].state = "listen"})
            taken == [made EXCEPT ![taker].state = "synrcvd", ![taker].flow = f]
<1>1. sockets' = IF good THEN taken ELSE made
  BY DEF Catch
<1>2. IsSocket(fresh) /\ fresh.flow = NoFlow /\ fresh.state = "listen" /\ fresh # NoSocket
  BY TunStackAssumption DEF IsSocket
<1>3. s \in Free
  BY LeastIs DEF Free
<1>. HIDE DEF s, fresh
<1>4. /\ made = [t \in Slots |-> made[t]] /\ made[s] = fresh
      /\ \A t \in Slots \ {s} : made[t] = sockets[t]
  BY <1>3 DEF SInv, SocketsAre, Free
<1>. HIDE DEF made
<1>5. taker \in Slots /\ made[taker] # NoSocket
  <2>1. s \in {t \in Slots : made[t] # NoSocket /\ made[t].state = "listen"}
    BY <1>2, <1>3, <1>4 DEF Free
  <2> QED BY <2>1, LeastIs
<1>. HIDE DEF taker
<1>6. /\ sockets' = [t \in Slots |-> sockets'[t]]
      /\ \A t \in Slots : sockets'[t] = IF good /\ t = taker
           THEN [[made[t] EXCEPT !.state = "synrcvd"] EXCEPT !.flow = f] ELSE made[t]
  BY <1>1, <1>4, <1>5
<1>7. \A t \in Slots : made[t] = NoSocket \/ IsSocket(made[t])
  BY <1>2, <1>4 DEF SInv, SocketsAre
<1>8. /\ IsSocket([[made[taker] EXCEPT !.state = "synrcvd"] EXCEPT !.flow = f])
      /\ [[made[taker] EXCEPT !.state = "synrcvd"] EXCEPT !.flow = f].flow = f
  <2>1. ASSUME NEW x, IsSocket(x)
        PROVE  /\ IsSocket([[x EXCEPT !.state = "synrcvd"] EXCEPT !.flow = f])
               /\ [[x EXCEPT !.state = "synrcvd"] EXCEPT !.flow = f].flow = f
    <3>1. ASSUME NEW y, IsSocket(y) PROVE IsSocket([y EXCEPT !.state = "synrcvd"])
      BY <3>1 DEF IsSocket
    <3>2. ASSUME NEW y, IsSocket(y) PROVE IsSocket([y EXCEPT !.flow = f]) /\ [y EXCEPT !.flow = f].flow = f
      BY <3>2 DEF IsSocket
    <3> QED BY <2>1, <3>1, <3>2
  <2> QED BY <1>5, <1>7, <2>1
<1>. HIDE DEF taken
<1>9. SocketsAre'
  BY <1>6, <1>7, <1>8 DEF SocketsAre
<1>10. OwnTuple'
  <2>1. ASSUME NEW g \in Flows PROVE Bound(g)' \subseteq Bound(g) \/ (g = f /\ Bound(g)' \subseteq {taker})
    <3>1. ASSUME NEW t \in Bound(g)', ~(good /\ t = taker) PROVE t \in Bound(g)
      <4>1. t \in Slots /\ sockets'[t] # NoSocket /\ sockets'[t].flow = g /\ sockets'[t] = made[t]
        BY <1>6, <3>1 DEF Bound
      <4>2. t # s
        BY <1>2, <1>4, <4>1, TunStackAssumption
      <4> QED BY <1>4, <4>1, <4>2 DEF Bound
    <3>2. CASE g = f
      BY <3>1, <3>2 DEF Catches
    <3>3. CASE g # f
      <4>1. ASSUME good, taker \in Bound(g)' PROVE FALSE
        BY <1>5, <1>6, <1>8, <3>3, <4>1 DEF Bound
      <4> QED BY <3>1, <4>1
    <3> QED BY <3>2, <3>3
  <2> QED BY <2>1 DEF SInv, OwnTuple
<1>11. Cardinality((Slots \ Free)') <= Cardinality(Slots \ Free) + 1
  <2>1. IsFiniteSet(Slots \ Free)
    <3>1. IsFiniteSet(1..MaxRelays)
      BY TunStackAssumption, FS_Interval
    <3> QED BY <3>1, FS_Subset DEF Slots
  <2>2. (Slots \ Free)' \subseteq (Slots \ Free) \cup {s}
    <3>1. ASSUME NEW t \in Slots, sockets[t] = NoSocket, t # s PROVE sockets'[t] = NoSocket
      <4>1. made[t] = NoSocket /\ t # taker
        BY <1>4, <1>5, <3>1
      <4> QED BY <1>6, <4>1
    <3> QED BY <3>1 DEF Free
  <2>3. /\ IsFiniteSet((Slots \ Free) \cup {s}) /\ Cardinality(Slots \ Free) \in Nat
        /\ Cardinality((Slots \ Free) \cup {s}) \in {Cardinality(Slots \ Free), Cardinality(Slots \ Free) + 1}
    BY <2>1, FS_AddElement, FS_CardinalityType
  <2>4. Cardinality((Slots \ Free)') <= Cardinality((Slots \ Free) \cup {s}) /\ Cardinality((Slots \ Free)') \in Nat
    BY <2>2, <2>3, FS_Subset, FS_CardinalityType
  <2> QED BY <2>3, <2>4
<1> QED BY <1>9, <1>10, <1>11 DEF SInv

\* Where sockets only move on, lose their four-tuple or go, no slot is taken.
SocketsFade ==
  /\ sockets' = [s \in Slots |-> sockets'[s]]
  /\ \A s \in Slots :
       \/ sockets'[s] = NoSocket
       \/ /\ sockets[s] # NoSocket /\ IsSocket(sockets'[s])
          /\ sockets'[s].flow \in {sockets[s].flow, NoFlow}

\* It keeps the invariant of the sockets.
LEMMA FadeKeeps ==
  ASSUME SInv, SocketsFade
  PROVE  SInv' /\ Cardinality((Slots \ Free)') <= Cardinality(Slots \ Free)
<1>1. SInv'
  BY TuplesFade DEF SocketsFade
<1>2. (Slots \ Free)' \subseteq Slots \ Free
  BY DEF SocketsFade, Free
<1>3. IsFiniteSet(Slots \ Free)
  <2>1. IsFiniteSet(1..MaxRelays)
    BY TunStackAssumption, FS_Interval
  <2> QED BY <2>1, FS_Subset DEF Slots
<1> QED BY <1>1, <1>2, <1>3, FS_Subset

\* One socket changes, or a slot that is none does.
LEMMA OneFades ==
  ASSUME SInv, NEW s, NEW x, sockets[s] # NoSocket,
         sockets' = [sockets EXCEPT ![s] = x],
         IsSocket(sockets[s]) => IsSocket(x) /\ x.flow \in {sockets[s].flow, NoFlow}
  PROVE  SocketsFade
<1>1. /\ sockets' = [t \in Slots |-> sockets'[t]]
      /\ \A t \in Slots : sockets'[t] = IF t = s THEN x ELSE sockets[t]
  BY DEF SInv, SocketsAre
<1> QED BY <1>1 DEF SInv, SocketsAre, SocketsFade

\* No socket changes.
LEMMA SameFades == ASSUME SInv, UNCHANGED sockets PROVE SocketsFade
BY DEF SInv, SocketsAre, SocketsFade

TInv == SInv /\ Queues /\ Room

\* Where the sockets fade and no SYN comes, there is room as before.
LEMMA RoomStays ==
  ASSUME TInv, SocketsFade, Queues', UNCHANGED spawned,
         Count(kernel)' + Count(held)' + Count(chan)' <= Count(kernel) + Count(held) + Count(chan)
  PROVE  TInv'
<1>1. SInv' /\ Cardinality((Slots \ Free)') <= Cardinality(Slots \ Free)
  BY FadeKeeps DEF TInv
<1>2. IsFiniteSet(Slots \ Free) /\ IsFiniteSet((Slots \ Free)')
  <2>1. IsFiniteSet(1..MaxRelays)
    BY TunStackAssumption, FS_Interval
  <2> QED BY <2>1, FS_Subset DEF Slots, Free
<1>3. Cardinality(Slots \ Free) \in Nat /\ Cardinality((Slots \ Free)') \in Nat
  BY <1>2, FS_CardinalityType
<1>4. /\ Count(kernel) \in Nat /\ Count(held) \in Nat /\ Count(chan) \in Nat
      /\ Count(kernel)' \in Nat /\ Count(held)' \in Nat /\ Count(chan)' \in Nat
  <2>1. IsQueue(held) /\ IsQueue(held')
    <3> QED BY NoneCounts, OneCounts DEF TInv, Queues
  <2>2. \A q : IsQueue(q) => Count(q) \in Nat
    BY CountIsNat
  <2> QED BY <2>1, <2>2 DEF TInv, Queues
<1>5. Cardinality((Slots \ Free)') <= spawned
  BY <1>1, <1>3 DEF TInv, Room
<1> QED BY <1>1, <1>3, <1>4, <1>5, TunStackAssumption DEF TInv, Room

-----------------------------------------------------------------------------
(* The steps. *)

\* An app sends a packet; a SYN only while a slot is left for it.
LEMMA SendsKeeps ==
  ASSUME TInv, NEW f, NEW kind, NEW state, Sends(f, kind, state),
         kind \in {"syn", "badsyn"} => spawned + Syns < MaxRelays
  PROVE  TInv'
<1>1. UNCHANGED <<sockets, held, chan, tx, reader, spawned>> /\ kernel' = Append(kernel, Packet(kind, f))
  BY DEF Sends, threadVars, stackVars
<1>2. IsQueue(held) /\ Syns = Count(kernel) + Count(held) + Count(chan)
  <2>1. IsQueue(held)
    BY NoneCounts, OneCounts DEF TInv, Queues
  <2> QED BY <2>1, SynsAre DEF TInv, Queues
<1>3. IsQueue(kernel') /\ Count(kernel') = Count(kernel) + IF kind \in {"syn", "badsyn"} THEN 1 ELSE 0
  <2>1. IsSyn(Packet(kind, f)) <=> kind \in {"syn", "badsyn"}
    BY DEF IsSyn, Packet
  <2> QED BY <1>1, <2>1, AppendCounts DEF TInv, Queues
<1>4. Queues'
  BY <1>1, <1>3 DEF TInv, Queues
<1>5. CASE kind \notin {"syn", "badsyn"}
  <2>1. Count(kernel) \in Nat /\ Count(held) \in Nat /\ Count(chan) \in Nat
    BY <1>2, CountIsNat DEF TInv, Queues
  <2>2. Count(kernel)' + Count(held)' + Count(chan)' <= Count(kernel) + Count(held) + Count(chan)
    BY <1>1, <1>3, <1>5, <2>1
  <2> QED BY <1>1, <1>4, <2>2, SameFades, RoomStays DEF TInv
<1>6. CASE kind \in {"syn", "badsyn"}
  <2>1. /\ Count(kernel) \in Nat /\ Count(held) \in Nat /\ Count(chan) \in Nat
        /\ UNCHANGED <<Count(held), Count(chan)>> /\ Count(kernel)' = Count(kernel) + 1
    BY <1>1, <1>2, <1>3, <1>6, CountIsNat DEF TInv, Queues
  <2>2. SInv' /\ Free' = Free
    BY <1>1, SameFades, FadeKeeps DEF TInv, Free
  <2> QED BY SMTT(30), <1>1, <1>2, <1>4, <1>6, <2>1, <2>2, TunStackAssumption DEF TInv, Room
<1> QED BY <1>5, <1>6

\* The reader moves a packet from queue to queue.
LEMMA ReaderKeeps ==
  ASSUME TInv, Reader \/ ReaderFails PROVE TInv'
<1>1. UNCHANGED <<sockets, spawned, tx>>
  BY DEF Reader, ReaderReads, ReaderSends, ReaderBursts, ReaderStops, ReaderFails, stackVars
<1>2. SocketsFade
  BY <1>1, SameFades DEF TInv
<1>3. /\ IsQueue(kernel) /\ IsQueue(held) /\ IsQueue(chan)
      /\ Count(kernel) \in Nat /\ Count(held) \in Nat /\ Count(chan) \in Nat
  <2>1. IsQueue(held)
    BY NoneCounts, OneCounts DEF TInv, Queues
  <2> QED BY <2>1, CountIsNat DEF TInv, Queues
<1>4. CASE ReaderReads
  <2>1. /\ held' = <<Head(kernel)>> /\ kernel' = Tail(kernel) /\ reader' = "send" /\ kernel # <<>>
        /\ held = <<>> /\ UNCHANGED chan
    BY <1>4 DEF ReaderReads, TInv, Queues
  <2>2. /\ IsQueue(kernel') /\ Count(kernel) = Count(kernel') + Count(held') /\ Count(held) = 0
    BY <1>3, <2>1, HeadCounts, OneCounts, NoneCounts
  <2>3. Count(kernel') \in Nat /\ Count(held') \in Nat
    BY <2>1, <2>2, CountIsNat, OneCounts
  <2>4. held' = <<held'[1]>>
    BY <2>1
  <2>5. Queues'
    BY <1>1, <2>1, <2>2, <2>4 DEF TInv, Queues
  <2> QED BY <1>1, <1>2, <1>3, <2>1, <2>2, <2>3, <2>5, RoomStays
<1>5. CASE ReaderSends
  <2>1. /\ held = <<Head(held)>> /\ held' = <<>> /\ reader' = "poll" /\ UNCHANGED kernel
        /\ chan' = chan \/ chan' = Append(chan, Head(held))
    <3>1. \A p : Head(<<p>>) = p
      OBVIOUS
    <3> QED BY <1>5, <3>1 DEF ReaderSends, Sent, TInv, Queues
  <2>2. IsQueue(chan') /\ Count(chan') <= Count(chan) + Count(held) /\ Count(chan') \in Nat /\ Count(held') = 0
    <3>1. Count(held) = IF IsSyn(Head(held)) THEN 1 ELSE 0
      BY <2>1, OneCounts
    <3>2. CASE chan' = chan
      BY <1>3, <2>1, <3>1, <3>2, NoneCounts
    <3>3. CASE chan' = Append(chan, Head(held))
      <4>1. IsQueue(chan') /\ Count(chan') = Count(chan) + Count(held)
        BY <1>3, <3>1, <3>3, AppendCounts
      <4> QED BY <1>3, <2>1, <4>1, NoneCounts
    <3> QED BY <2>1, <3>2, <3>3
  <2>3. Queues'
    BY <1>1, <2>1, <2>2 DEF TInv, Queues
  <2> QED BY <1>1, <1>2, <1>3, <2>1, <2>2, <2>3, RoomStays
<1>6. CASE ReaderStops \/ ReaderFails
  <2>1. UNCHANGED <<kernel, held, chan>> /\ reader = "poll" /\ reader' = "done"
    BY <1>6 DEF ReaderStops, ReaderFails
  <2>2. Queues'
    BY <1>1, <2>1 DEF TInv, Queues
  <2> QED BY <1>1, <1>2, <1>3, <2>1, <2>2, RoomStays
<1>7. CASE ReaderBursts
  <2>1. /\ held = <<Head(held)>> /\ held' = <<Head(kernel)>> /\ kernel' = Tail(kernel) /\ kernel # <<>>
        /\ reader' = "send" /\ chan' = Append(chan, Head(held))
    <3>1. \A p : Head(<<p>>) = p
      OBVIOUS
    <3> QED BY <1>7, <3>1 DEF ReaderBursts, Sent, TInv, Queues
  <2>2. /\ IsQueue(chan') /\ Count(chan') = Count(chan) + Count(held)
        /\ IsQueue(kernel') /\ Count(kernel) = Count(kernel') + Count(held')
    <3>1. Count(held) = IF IsSyn(Head(held)) THEN 1 ELSE 0
      BY <2>1, OneCounts
    <3>2. Count(held') = IF IsSyn(Head(kernel)) THEN 1 ELSE 0
      BY <2>1, OneCounts
    <3>3. IsQueue(chan') /\ Count(chan') = Count(chan) + Count(held)
      BY <1>3, <2>1, <3>1, AppendCounts
    <3> QED BY <1>3, <2>1, <3>2, <3>3, HeadCounts
  <2>3. Count(kernel') \in Nat /\ Count(held') \in Nat /\ Count(chan') \in Nat
    BY <2>1, <2>2, CountIsNat, OneCounts
  <2>4. held' = <<held'[1]>>
    BY <2>1
  <2>5. Queues'
    BY <1>1, <2>1, <2>2, <2>4 DEF TInv, Queues
  <2> QED BY <1>1, <1>2, <1>3, <2>2, <2>3, <2>5, RoomStays
<1> QED BY <1>4, <1>5, <1>6, <1>7 DEF Reader

\* What the stack emits stays a queue.
LEMMA EmitKeeps == ASSUME NEW p, IsQueue(tx), Emit(p) PROVE IsQueue(tx')
<1>1. Len(tx) = TxCap => tx # <<>>
  BY TunStackAssumption
<1>2. IsQueue(IF Len(tx) = TxCap THEN Tail(tx) ELSE tx)
  BY <1>1, HeadCounts
<1> QED BY <1>2, AppendCounts DEF Emit

\* The pump handles the packet at the head of its channel.
LEMMA TakesKeeps == ASSUME TInv, PumpTakes PROVE TInv'
<1>. DEFINE p == Head(chan)
<1>0. /\ chan # <<>> /\ chan' = Tail(chan) /\ Handle(p) /\ UNCHANGED <<kernel, held, reader>>
  BY DEF PumpTakes
<1>1. /\ IsQueue(kernel) /\ IsQueue(held) /\ IsQueue(chan) /\ IsQueue(chan')
      /\ Count(kernel) \in Nat /\ Count(held) \in Nat /\ Count(chan) \in Nat /\ Count(chan') \in Nat
      /\ Count(chan) = Count(chan') + IF IsSyn(p) THEN 1 ELSE 0
  <2>1. IsQueue(held)
    BY NoneCounts, OneCounts DEF TInv, Queues
  <2> QED BY <1>0, <2>1, HeadCounts, CountIsNat DEF TInv, Queues
<1>. HIDE DEF p
<1>2. CASE IsSyn(p) /\ Catches(p.flow)
  <2>1. Catch(p.flow, p.kind = "syn")
    BY <1>0, <1>2 DEF Handle, IsSyn
  <2>2. spawned \in Nat /\ spawned + 1 <= MaxRelays - (Count(kernel) + Count(held) + Count(chan'))
        /\ spawned' = spawned + 1
    BY <1>1, <1>2, <2>1, TunStackAssumption DEF TInv, Room, Catch
  <2>3. IsFiniteSet(Slots) /\ Cardinality(Slots) = MaxRelays
    BY TunStackAssumption, FS_Interval DEF Slots
  <2>4. Free # {}
    <3>1. SUFFICES ASSUME Free = {} PROVE FALSE
      OBVIOUS
    <3>2. Slots \ Free = Slots
      BY <3>1
    <3>3. MaxRelays <= spawned
      BY <2>3, <3>2 DEF TInv, Room
    <3> QED BY <1>1, <2>2, <3>3, TunStackAssumption
  <2>5. SInv' /\ Cardinality((Slots \ Free)') <= Cardinality(Slots \ Free) + 1
    <3>1. CASE p.kind = "syn"
      <4>1. Catch(p.flow, TRUE)
        BY <2>1, <3>1
      <4> QED BY <1>2, <2>2, <2>4, <4>1, CatchKeeps DEF TInv
    <3>2. CASE p.kind # "syn"
      <4>1. Catch(p.flow, FALSE)
        BY <2>1, <3>2
      <4> QED BY <1>2, <2>2, <2>4, <4>1, CatchKeeps DEF TInv
    <3> QED BY <3>1, <3>2
  <2>6. Cardinality(Slots \ Free) \in Nat /\ Cardinality((Slots \ Free)') \in Nat
    BY <2>3, FS_Subset, FS_CardinalityType DEF Slots
  <2>7. Queues'
    <3>1. IsQueue(tx')
      BY <2>1, EmitKeeps DEF Catch, TInv, Queues
    <3> QED BY <1>0, <1>1, <3>1 DEF TInv, Queues
  <2>8. UNCHANGED <<Count(kernel), Count(held)>> /\ Count(chan)' = Count(chan')
    BY <1>0
  <2> QED BY <1>1, <2>2, <2>5, <2>6, <2>7, <2>8, TunStackAssumption DEF TInv, Room
<1>3. CASE ~(IsSyn(p) /\ Catches(p.flow))
  <2>1. UNCHANGED spawned /\ IsQueue(tx') /\ SocketsFade
    <3>1. CASE p.kind \notin {"syn", "badsyn"} /\ Bound(p.flow) # {}
      <4>1. /\ UNCHANGED <<spawned, tx>>
            /\ sockets' = [s \in Slots |-> IF s \in Bound(p.flow) THEN Meets(sockets[s], p.kind) ELSE sockets[s]]
        BY <1>0, <3>1 DEF Handle
      <4>2. /\ sockets' = [s \in Slots |-> sockets'[s]]
            /\ \A s \in Slots : sockets'[s] = sockets[s] \/ (sockets[s] # NoSocket /\ sockets'[s] = Meets(sockets[s], p.kind))
        BY <4>1 DEF Bound
      <4> QED BY <4>1, <4>2, MeetsKeeps DEF SocketsFade, TInv, SInv, SocketsAre, Queues
    <3>2. CASE ~(p.kind \notin {"syn", "badsyn"} /\ Bound(p.flow) # {})
      <4>1. UNCHANGED <<sockets, spawned>> /\ (UNCHANGED tx \/ Emit(Packet("rst", p.flow)))
        BY <1>0, <1>3, <3>2 DEF Handle, stackVars, IsSyn
      <4> QED BY <4>1, SameFades, EmitKeeps DEF TInv, Queues
    <3> QED BY <3>1, <3>2
  <2>2. Queues'
    BY <1>0, <1>1, <2>1 DEF TInv, Queues
  <2>3. Count(kernel)' + Count(held)' + Count(chan)' <= Count(kernel) + Count(held) + Count(chan)
    BY <1>0, <1>1
  <2> QED BY <2>1, <2>2, <2>3, RoomStays
<1> QED BY <1>2, <1>3

\* The apps answer with no SYN.
LEMMA AnswersCount ==
  ASSUME IsQueue(tx), NEW written, written \subseteq DOMAIN tx
  PROVE  IsQueue(Answers(written)) /\ Count(Answers(written)) = 0
<1>1. PICK n \in Nat : \E g : Answers(written) = [i \in 1..n |-> Packet("ack", g[i])]
  <2>. DEFINE asked == {i \in written : \/ tx[i].kind = "synack" /\ client[tx[i].flow] = "syn"
                                        \/ tx[i].kind = "fin" /\ client[tx[i].flow] \in {"open", "done"}}
              n == Cardinality(asked)
              q == SetToSortSeq(asked, <)
              g == [i \in 1..n |-> tx[q[i]].flow]
  <2>1. IsFiniteSet(1..Len(tx)) /\ DOMAIN tx = 1..Len(tx)
    BY QueueIs, FS_Interval
  <2>2. n \in Nat
    BY <2>1, FS_Subset, FS_CardinalityType
  <2>3. Answers(written) = [i \in 1..n |-> Packet("ack", tx[q[i]].flow)]
    BY DEF Answers
  <2>. HIDE DEF q, n
  <2>4. Answers(written) = [i \in 1..n |-> Packet("ack", g[i])]
    BY <2>3
  <2> QED BY ZenonT(30), <2>2, <2>4
<1>2. PICK g : Answers(written) = [i \in 1..n |-> Packet("ack", g[i])]
  BY <1>1
<1>3. DOMAIN Answers(written) = 1..n /\ \A i \in 1..n : ~IsSyn(Answers(written)[i])
  BY <1>2 DEF Packet, IsSyn
<1>4. SynsIn(Answers(written)) = {}
  BY <1>3 DEF SynsIn
<1>5. Answers(written) \in Seq({Answers(written)[i] : i \in DOMAIN Answers(written)})
  BY <1>2, <1>3
<1> QED BY <1>4, <1>5, FS_EmptySet DEF IsQueue, Count

\* A round of the pump ends: what the stack wrote goes out, and sockets go.
LEMMA RoundsKeep == ASSUME TInv, PumpFinishes \/ PumpTick \/ PumpWakes PROVE TInv'
<1>1. DrainTx /\ UNCHANGED <<held, chan, reader, spawned>> /\ (Sweep \/ UNCHANGED sockets)
  BY DEF PumpFinishes, PumpTick, PumpWakes
<1>2. SocketsFade
  <2>1. CASE Sweep
    <3>1. /\ sockets' = [s \in Slots |-> sockets'[s]]
          /\ \A s \in Slots : sockets'[s] = NoSocket \/ (sockets[s] # NoSocket /\ sockets'[s] = sockets[s])
      BY <2>1 DEF Sweep
    <3> QED BY <3>1 DEF SocketsFade, TInv, SInv, SocketsAre
  <2> QED BY <1>1, <2>1, SameFades DEF TInv
<1>3. IsQueue(kernel') /\ IsQueue(tx') /\ Count(kernel') = Count(kernel) /\ Count(kernel) \in Nat
  <2>1. CASE stopped
    BY <1>1, <2>1, CountIsNat DEF DrainTx, TInv, Queues
  <2>2. CASE ~stopped
    <3>1. tx' = <<>> /\ \E written \in SUBSET DOMAIN tx : kernel' = kernel \o Answers(written)
      BY <1>1, <2>2 DEF DrainTx
    <3>2. IsQueue(kernel) /\ IsQueue(tx) /\ Count(kernel) \in Nat
      BY CountIsNat DEF TInv, Queues
    <3> QED BY <3>1, <3>2, AnswersCount, ConcatCounts, NoneCounts
  <2> QED BY <2>1, <2>2
<1>4. Queues'
  BY <1>1, <1>3 DEF TInv, Queues
<1>5. Count(held) \in Nat /\ Count(chan) \in Nat
  BY CountIsNat, NoneCounts, OneCounts DEF TInv, Queues
<1> QED BY <1>1, <1>2, <1>3, <1>4, <1>5, RoomStays

\* The pump ends, the stack is stopped, time passes, or a relay looks.
LEMMA QuietKeeps ==
  ASSUME TInv, UNCHANGED <<kernel, held, chan, reader, spawned>>, SocketsFade, IsQueue(tx')
  PROVE  TInv'
<1>1. Queues'
  BY DEF TInv, Queues
<1>2. Count(kernel) \in Nat /\ Count(held) \in Nat /\ Count(chan) \in Nat
  BY CountIsNat, NoneCounts, OneCounts DEF TInv, Queues
<1> QED BY <1>1, <1>2, RoomStays

\* A relay reads, closes or only looks.
LEMMA RelaysKeep ==
  ASSUME TInv, NEW r \in Relays, Established(r) \/ GivesUp(r) \/ RelayReads(r) \/ RelayEnds(r)
  PROVE  TInv'
<1>. DEFINE s == relays[r].slot
<1>0. UNCHANGED <<kernel, held, chan, reader, spawned>>
  BY DEF Established, GivesUp, RelayReads, RelayEnds, Close, OnlyRelays, threadVars
<1>. HIDE DEF s
<1>1. CASE UNCHANGED <<sockets, tx>>
  BY <1>0, <1>1, SameFades, QuietKeeps DEF TInv, Queues
<1>2. CASE /\ sockets[s] # NoSocket /\ sockets' = [sockets EXCEPT ![s] = Closed(sockets[s])]
           /\ UNCHANGED tx \/ \E p : Emit(p)
  <2>1. SocketsFade
    BY <1>2, ClosedKeeps, OneFades DEF TInv
  <2> QED BY <1>0, <1>2, <2>1, EmitKeeps, QuietKeeps DEF TInv, Queues
<1>3. CASE /\ sockets[s] # NoSocket /\ sockets' = [sockets EXCEPT ![s] = [sockets[s] EXCEPT !.data = 0]]
           /\ UNCHANGED tx
  <2>1. ASSUME NEW x, IsSocket(x) PROVE IsSocket([x EXCEPT !.data = 0]) /\ [x EXCEPT !.data = 0].flow = x.flow
    BY <2>1 DEF IsSocket
  <2>2. SocketsFade
    BY <1>3, <2>1, OneFades DEF TInv
  <2> QED BY <1>0, <1>3, <2>2, QuietKeeps DEF TInv, Queues
<1>4. CASE Close(r)
  <2>1. \/ UNCHANGED <<sockets, tx>>
        \/ /\ sockets[s] # NoSocket /\ sockets' = [sockets EXCEPT ![s] = Closed(sockets[s])]
           /\ UNCHANGED tx \/ \E p : Emit(p)
    BY <1>4 DEF Close, s
  <2> QED BY <1>1, <1>2, <2>1
<1>5. CASE Established(r)
  BY <1>1, <1>5 DEF Established
<1>6. CASE RelayReads(r)
  BY <1>3, <1>6 DEF RelayReads, SocketOf, s
<1> QED BY <1>4, <1>5, <1>6 DEF GivesUp, RelayEnds

\* Every step keeps the invariant.
LEMMA StackKept == ASSUME TInv, [Next]_vars PROVE TInv'
<1>1. ASSUME NEW f \in Flows, AppSyn(f) \/ AppData(f) \/ AppFin(f) \/ AppReset(f) PROVE TInv'
  BY <1>1, SendsKeeps DEF AppSyn, AppData, AppFin, AppReset
<1>2. CASE PumpStops \/ Stop
  BY <1>2, SameFades, QuietKeeps DEF PumpStops, Stop, stackVars, TInv, Queues
<1>3. CASE Tick
  <2>1. ASSUME NEW x, NEW n, IsSocket(x) PROVE IsSocket([x EXCEPT !.age = n]) /\ [x EXCEPT !.age = n].flow = x.flow
    BY <2>1 DEF IsSocket
  <2>2. /\ sockets' = [s \in Slots |-> sockets'[s]] /\ UNCHANGED <<kernel, held, chan, reader, spawned, tx>>
        /\ \A s \in Slots : \/ sockets'[s] = NoSocket
                            \/ sockets[s] # NoSocket /\ \E n : sockets'[s] = [sockets[s] EXCEPT !.age = n]
    BY <1>3 DEF Tick, threadVars
  <2>3. ASSUME NEW s \in Slots, sockets'[s] # NoSocket
        PROVE  /\ sockets[s] # NoSocket /\ IsSocket(sockets'[s])
               /\ sockets'[s].flow = sockets[s].flow
    <3>1. IsSocket(sockets[s]) /\ sockets[s] # NoSocket
      BY <2>2, <2>3 DEF TInv, SInv, SocketsAre
    <3>2. PICK n : sockets'[s] = [sockets[s] EXCEPT !.age = n]
      BY <2>2, <2>3
    <3> QED BY <2>1, <3>1, <3>2
  <2>4. SocketsFade
    BY <2>2, <2>3 DEF SocketsFade
  <2> QED BY <2>2, <2>4, QuietKeeps DEF TInv, Queues
<1>4. CASE UNCHANGED vars
  BY <1>4, SameFades, QuietKeeps DEF vars, threadVars, stackVars, TInv, Queues
<1> QED
  BY <1>1, <1>2, <1>3, <1>4, ReaderKeeps, TakesKeeps, RoundsKeep, RelaysKeep DEF Next, Reader, Pump

\* It holds when the stack starts.
LEMMA StackBegins == ASSUME Init PROVE TInv
<1>1. Queues /\ Count(kernel) = 0 /\ Count(held) = 0 /\ Count(chan) = 0
  BY NoneCounts DEF Init, Queues
<1>2. Slots \ Free = {}
  BY DEF Init, Free
<1>3. SInv
  BY DEF Init, SInv, SocketsAre, OwnTuple, Bound
<1>4. spawned = 0 /\ Cardinality(Slots \ Free) = 0
  BY <1>2, FS_EmptySet DEF Init
<1>5. Room
  BY <1>1, <1>4, TunStackAssumption DEF Room
<1> QED BY <1>1, <1>3, <1>5 DEF TInv

\* prescan_tcp makes a socket only for a four-tuple that has none: however often
\* a SYN comes again, whatever is swept, closed or reset between, and for any
\* number of connections, no two sockets have the same four-tuple.
THEOREM OneSocketOnly == Spec => []OneSocketEach
<1>1. ASSUME TInv PROVE OneSocketEach
  <2>1. ASSUME NEW f \in Flows PROVE Cardinality(Bound(f)) <= 1
    <3>1. Bound(f) = {} \/ \E s : Bound(f) = {s}
      BY <1>1 DEF TInv, SInv, OwnTuple
    <3>2. ASSUME NEW s, Bound(f) = {s} PROVE Cardinality(Bound(f)) = 1
      BY <3>2, FS_Singleton
    <3>3. ASSUME Bound(f) = {} PROVE Cardinality(Bound(f)) = 0
      BY <3>3, FS_EmptySet
    <3> QED BY <3>1, <3>2, <3>3
  <2> QED BY <2>1 DEF OneSocketEach
<1> QED BY <1>1, StackBegins, StackKept, PTL DEF Spec

-----------------------------------------------------------------------------
(* Routing: the guards of a decision. *)

\* A set of natural numbers has a least one.
LEMMA LeastOne ==
  ASSUME NEW T, T \subseteq Nat, T # {}
  PROVE  \E n \in T : \A m \in T : n <= m
<1>1. PICK k \in T : TRUE
  OBVIOUS
<1>. DEFINE UpTo(n) == 0..n
            F == {UpTo(n) : n \in {x \in T : x <= k}}
<1>2. IsWellFoundedOn(StrictSubsetOrdering(0..k), FiniteSubsetsOf(0..k))
  BY FS_StrictSubsetOrderingWellFounded
<1>3. F \subseteq FiniteSubsetsOf(0..k) /\ F # {}
  <2>1. \A n \in T : IsFiniteSet(0..n)
    BY FS_Interval
  <2> QED BY <1>1, <2>1 DEF FiniteSubsetsOf
<1>4. PICK B \in F : \A C \in F : ~(<<C, B>> \in StrictSubsetOrdering(0..k))
  <2>. HIDE DEF F
  <2> QED BY <1>2, <1>3, WFMin
<1>5. PICK n \in T : n <= k /\ B = UpTo(n)
  BY <1>4
<1>6. ASSUME NEW m \in T, m < n PROVE FALSE
  <2>1. UpTo(m) \in F /\ UpTo(m) \subseteq UpTo(n) /\ UpTo(m) # UpTo(n) /\ UpTo(n) \subseteq 0..k
    BY <1>1, <1>5, <1>6
  <2>2. <<UpTo(m), B>> \in StrictSubsetOrdering(0..k)
    BY <1>5, <2>1 DEF StrictSubsetOrdering
  <2> QED BY <1>4, <2>1, <2>2
<1> QED BY <1>5, <1>6

\* A set of numbers up to n has a greatest one.
LEMMA GreatestOne ==
  ASSUME NEW n \in Nat, NEW T, T \subseteq 1..n, T # {}
  PROVE  Max(T) \in T
<1>. DEFINE U == {n - x : x \in T}
<1>1. U \subseteq Nat /\ U # {}
  <2>1. \A x \in T : n - x \in Nat
    OBVIOUS
  <2> QED BY <2>1
<1>2. PICK u \in U : \A v \in U : u <= v
  <2>. HIDE DEF U
  <2> QED BY <1>1, LeastOne
<1>3. \A x \in T : n - u >= x
  BY <1>2
<1>4. n - u \in T
  BY <1>2
<1> QED BY <1>3, <1>4 DEF Max

\* Induction: a set with 0 and with the successors of its members has all.
LEMMA Upward ==
  ASSUME NEW T, 0 \in T, \A n \in Nat : n \in T => n + 1 \in T
  PROVE  \A n \in Nat : n \in T
<1>1. SUFFICES ASSUME NEW n \in Nat, n \notin T PROVE FALSE
  OBVIOUS
<1>. DEFINE U == {x \in Nat : x \notin T}
<1>2. PICK u \in U : \A v \in U : u <= v
  <2>1. U \subseteq Nat /\ U # {}
    BY <1>1
  <2>. HIDE DEF U
  <2> QED BY <2>1, LeastOne
<1>3. u \in Nat /\ u # 0
  OBVIOUS
<1>4. u - 1 \in Nat /\ u - 1 \in T
  BY <1>2, <1>3
<1>5. (u - 1) + 1 \in T
  BY <1>4
<1> QED BY <1>2, <1>3, <1>5

\* The rule that decides fires.
LEMMA FirstRuleFires ==
  ASSUME NEW q, FirstRule(q) # 0
  PROVE  Fires(rules[FirstRule(q)], q)
<1>. DEFINE I == {i \in 1..Len(rules) : Fires(rules[i], q)}
<1>1. I \subseteq Nat
  OBVIOUS
<1>2. I # {} /\ FirstRule(q) = Min(I)
  BY DEF FirstRule, SelectInSeq
<1>3. Min(I) \in I
  BY <1>1, <1>2, LeastOne DEF Min
<1> QED BY <1>2, <1>3

\* In whatever state the settings are.
LEMMA ForeignAlways == ForeignGuarded
<1>. DEFINE d(q) == Decide(q, "rule")
<1>1. SUFFICES ASSUME NEW q \in ForeignQueries, d(q).action = "direct"
               PROVE  d(q).source \in {"Lan", "DynamicLearned", "CnIp", "Default"}
  BY DEF ForeignGuarded
<1>2. q.name # NoItem /\ IsKnownNonCn(q.name)
  BY <1>1 DEF ForeignQueries
<1>3. ~IsCnDomain(q.name)
  BY <1>2 DEF IsCnDomain
<1>4. FirstRule(q) # 0 => rules[FirstRule(q)].action # "direct"
  BY <1>2, FirstRuleFires DEF Fires
<1> QED BY <1>1, <1>2, <1>3, <1>4 DEF Decide, Verdict

LEMMA ResolvableAlways ==
  ASSUME modes \subseteq Modes
  PROVE  DirectIsResolvable
<1>. DEFINE d(q, m) == Decide(q, m)
<1>1. SUFFICES ASSUME NEW q \in FakeQueries, NEW m \in modes, d(q, m).action = "direct",
                      d(q, m).source \in {"GlobalMode", "Rule", "CnDomain", "DynamicLearned"}
               PROVE  MayQueryUpstream(q.name, d(q, m).source, m)
  BY DEF DirectIsResolvable
<1>2. q.name # NoItem /\ ~IsKnownNonCn(q.name)
  BY <1>1 DEF FakeQueries
<1>3. ~IsLanDomain(q.name)
  BY <1>1, <1>2 DEF Decide, Verdict, IsLan
<1>4. CASE d(q, m).source = "Rule"
  BY <1>2, <1>3, <1>4 DEF MayQueryUpstream
<1>5. CASE d(q, m).source = "GlobalMode"
  <2>1. m = "direct"
    BY <1>1, <1>5 DEF Decide, Verdict
  <2> QED BY <1>2, <1>3, <2>1 DEF MayQueryUpstream, ShouldResolveUpstream
<1>6. CASE d(q, m).source \in {"CnDomain", "DynamicLearned"}
  <2>1. m = "rule" /\ (IsCnDomain(q.name) \/ learned[q.name] = "cn")
    BY <1>1, <1>6 DEF Decide, Verdict, Modes
  <2> QED BY <1>2, <1>3, <2>1 DEF MayQueryUpstream, ShouldResolveUpstream
<1> QED BY <1>1, <1>4, <1>5, <1>6

-----------------------------------------------------------------------------
(* Routing: what is asked. *)

\* As long as nothing was sent direct as a whole, a foreign name has neither
\* been asked nor learned, and no task that is past its decision may ask it.
Foreign(n) == IsKnownNonCn(n) /\ ~IsLanDomain(n)
NeverOpen ==
  ~allDirect =>
    /\ "direct" \notin modes /\ dflt # "direct"
    /\ \A n \in asking : ~Foreign(n)
    /\ \A n \in Names : Foreign(n) => learned[n] = "unknown"
    /\ \A d \in decided : d.gate = "none" => ~Foreign(d.name)

\* As long as all goes to the proxy, no task that is past its decision may ask
\* a name that is not the LAN's.
NeverLoud ==
  modes = {"proxy"} =>
    /\ \A n \in asking : IsLanDomain(n)
    /\ \A d \in decided : d.gate = "list" \/ IsLanDomain(d.name)

AskInv ==
  /\ modes \subseteq Modes /\ mode \in modes
  /\ decided \subseteq [name : Names, gate : {"none", "rule", "list"}]
  /\ asking \subseteq Names /\ learned = [n \in Names |-> learned[n]]
  /\ NeverOpen /\ NeverLoud

\* Nothing is asked at first.
LEMMA AskBegins == RouteInit => AskInv
BY DEF RouteInit, AskInv, NeverOpen, NeverLoud, Modes

\* A name that goes direct on its own is not foreign, or not asked yet.
LEMMA DirectByName ==
  ASSUME AskInv, NEW n \in Names, NEW m \in modes, Decide(ByName(n), m).action = "direct"
  PROVE  (~allDirect => ~Foreign(n)) /\ (modes = {"proxy"} => IsLanDomain(n))
<1>. DEFINE q == ByName(n)
<1>1. q.name = n /\ q.name # NoItem /\ q.ip = NoItem
  BY RoutingAssumption DEF ByName
<1>2. CASE IsLanDomain(n)
  BY <1>2 DEF Foreign
<1>3. CASE ~IsLanDomain(n)
  <2>1. ~IsLan(q)
    BY <1>1, <1>3 DEF IsLan
  <2>2. m # "proxy" /\ q.ip # LocalDns
    BY <1>1, <2>1, RoutingAssumption DEF Decide, Verdict
  <2>3. modes # {"proxy"}
    BY <2>2
  <2>4. CASE m = "direct"
    BY <2>3, <2>4 DEF AskInv, NeverOpen
  <2>5. CASE m = "rule"
    <3>1. FirstRule(q) # 0 => Fires(rules[FirstRule(q)], q)
      BY FirstRuleFires
    <3>2. CASE FirstRule(q) # 0
      <4>1. rules[FirstRule(q)].action = "direct"
        BY <2>1, <2>2, <2>5, <3>2 DEF Decide, Verdict
      <4> QED BY <1>1, <2>3, <3>1, <3>2, <4>1 DEF Fires, Foreign
    <3>3. CASE FirstRule(q) = 0
      <4>1. IsCnDomain(n) \/ learned[n] = "cn" \/ dflt = "direct"
        BY <1>1, <2>1, <2>2, <2>5, <3>3 DEF Decide, Verdict
      <4> QED BY <2>3, <4>1 DEF IsCnDomain, AskInv, NeverOpen, Foreign
    <3> QED BY <3>2, <3>3
  <2> QED BY <2>2, <2>4, <2>5 DEF AskInv, Modes
<1> QED BY <1>2, <1>3

\* A decision that is added keeps the invariant if it may.
LEMMA GoesKeeps ==
  ASSUME AskInv, NEW on \in BOOLEAN, NEW n, NEW g, Goes(on, To(n, g)), OnlyDecides,
         on => n \in Names /\ g \in {"none", "rule", "list"},
         on /\ g = "none" => (~allDirect => ~Foreign(n)) /\ (modes = {"proxy"} => IsLanDomain(n)),
         on /\ g = "rule" => modes # {"proxy"}
  PROVE  AskInv'
<1>1. /\ UNCHANGED <<mode, modes, allDirect, dflt, learned, asking>>
      /\ decided' = IF on THEN decided \cup {To(n, g)} ELSE decided
  BY DEF OnlyDecides, Goes, modeVars, store
<1>2. on => To(n, g) \in [name : Names, gate : {"none", "rule", "list"}]
  BY DEF To
<1>3. To(n, g).name = n /\ To(n, g).gate = g
  BY DEF To
<1>4. NeverOpen'
  BY <1>1, <1>3 DEF AskInv, NeverOpen
<1>5. NeverLoud'
  BY <1>1, <1>2, <1>3 DEF AskInv, NeverLoud
<1> QED BY <1>1, <1>2, <1>4, <1>5 DEF AskInv

\* Decisions keep it, whatever mode their task has read.
LEMMA DecidingKeeps ==
  ASSUME AskInv,
         \/ \E q \in Queries : Relay(q)
         \/ \E n \in Names : RelayTcpDns(n) \/ \E isA \in BOOLEAN : HandleDnsQuery(n, isA)
  PROVE  AskInv'
<1>1. ASSUME NEW q \in Queries, Relay(q) PROVE AskInv'
  <2>1. PICK m \in modes :
          LET d == Decide(q, m) IN
            Goes(d.action = "direct" /\ IsFakeIp(q.ip) /\ q.name # NoItem /\ d.source \notin {"Lan", "Default"},
                 To(q.name, IF d.source = "Rule" THEN "rule" ELSE "list"))
    BY <1>1 DEF Relay
  <2>. DEFINE d == Decide(q, m)
              on == d.action = "direct" /\ IsFakeIp(q.ip) /\ q.name # NoItem /\ d.source \notin {"Lan", "Default"}
              g == IF d.source = "Rule" THEN "rule" ELSE "list"
  <2>2. on \in BOOLEAN /\ Goes(on, To(q.name, g)) /\ OnlyDecides
    BY <1>1, <2>1 DEF Relay
  <2>3. on => q.name \in Names
    BY DEF Queries
  <2>4. on => modes # {"proxy"}
    <3>1. ASSUME on, modes = {"proxy"} PROVE FALSE
      <4>1. m = "proxy"
        BY <3>1
      <4> QED BY <3>1, <4>1 DEF Decide, Verdict
    <3> QED BY <3>1
  <2>5. g \in {"none", "rule", "list"} /\ g # "none"
    OBVIOUS
  <2>. HIDE DEF on, g
  <2> QED BY <2>2, <2>3, <2>4, <2>5, GoesKeeps
<1>2. ASSUME NEW n \in Names, RelayTcpDns(n) PROVE AskInv'
  <2>1. PICK m \in modes : Goes(Decide(ByName(n), m).action = "direct", To(n, "none"))
    BY <1>2 DEF RelayTcpDns
  <2>. DEFINE on == Decide(ByName(n), m).action = "direct"
  <2>2. on \in BOOLEAN /\ Goes(on, To(n, "none")) /\ OnlyDecides
    BY <1>2, <2>1 DEF RelayTcpDns
  <2>3. on => (~allDirect => ~Foreign(n)) /\ (modes = {"proxy"} => IsLanDomain(n))
    BY DirectByName
  <2>. HIDE DEF on
  <2> QED BY <2>2, <2>3, GoesKeeps
<1>3. ASSUME NEW n \in Names, NEW isA \in BOOLEAN, HandleDnsQuery(n, isA) PROVE AskInv'
  <2>1. PICK m \in modes : Goes(isA /\ Decide(DnsQuery(n), m).action # "block", To(n, "list"))
    BY <1>3 DEF HandleDnsQuery
  <2>. DEFINE on == isA /\ Decide(DnsQuery(n), m).action # "block"
  <2>2. on \in BOOLEAN /\ Goes(on, To(n, "list")) /\ OnlyDecides
    BY <1>3, <2>1 DEF HandleDnsQuery
  <2>. HIDE DEF on
  <2> QED BY <2>2, GoesKeeps
<1> QED BY <1>1, <1>2, <1>3

\* The gate lets a foreign name through only after a decision that had none.
LEMMA AskingKeeps == ASSUME AskInv, NEW d \in decided, ResolveUpstream(d) PROVE AskInv'
<1>1. /\ UNCHANGED <<mode, modes, allDirect, dflt, learned, decided>>
      /\ asking' = asking \cup {d.name} /\ d.name \in Names /\ d.gate \in {"none", "rule", "list"}
  BY DEF ResolveUpstream, modeVars, store, AskInv
<1>2. PICK m \in modes : Passes(d, m)
  BY DEF ResolveUpstream
<1>3. ~allDirect => ~Foreign(d.name)
  BY <1>1, <1>2 DEF Passes, MayQueryUpstream, ShouldResolveUpstream, AskInv, NeverOpen, Foreign
<1>4. modes = {"proxy"} => IsLanDomain(d.name)
  BY <1>1, <1>2 DEF Passes, ShouldResolveUpstream, AskInv, NeverLoud
<1>5. NeverOpen' /\ NeverLoud'
  BY <1>1, <1>3, <1>4 DEF AskInv, NeverOpen, NeverLoud
<1> QED BY <1>1, <1>5 DEF AskInv

\* So do answers, expiry and new settings.
LEMMA AskKept == AskInv /\ [RouteNext]_routeVars => AskInv'
<1>1. SUFFICES ASSUME AskInv, [RouteNext]_routeVars PROVE AskInv'
  OBVIOUS
<1>2. CASE UNCHANGED <<mode, modes, allDirect, dflt, learned, decided, asking>>
  BY <1>1, <1>2 DEF AskInv, NeverOpen, NeverLoud
<1>3. ASSUME NEW n \in Names, Unanswered(n) \/ Expires(n) \/ \E ip \in Ips : Answered(n, ip) PROVE AskInv'
  <2>1. /\ UNCHANGED <<mode, modes, allDirect, dflt, decided>> /\ asking' \subseteq asking
        /\ \/ UNCHANGED learned
           \/ learned' = [learned EXCEPT ![n] = "unknown"]
           \/ n \in asking /\ \E x : learned' = [learned EXCEPT ![n] = x]
    BY <1>3 DEF Unanswered, Expires, Answered, modeVars, store
  <2>2. ~allDirect => n \notin asking \/ ~Foreign(n)
    BY <1>1 DEF AskInv, NeverOpen
  <2>3. NeverOpen' /\ learned' = [k \in Names |-> learned'[k]]
    BY <1>1, <2>1, <2>2 DEF AskInv, NeverOpen
  <2>4. NeverLoud'
    BY <1>1, <2>1 DEF AskInv, NeverLoud
  <2> QED BY <1>1, <2>1, <2>3, <2>4 DEF AskInv
<1>4. ASSUME NEW m \in Modes, SetOutboundMode(m) PROVE AskInv'
  <2>1. /\ UNCHANGED <<dflt, learned, decided, asking>> /\ mode' = m /\ modes' = modes \cup {m}
        /\ allDirect' = (allDirect \/ m = "direct")
    BY <1>4 DEF SetOutboundMode, store
  <2>2. NeverOpen'
    BY <1>1, <2>1 DEF AskInv, NeverOpen
  <2>3. NeverLoud'
    <3>1. modes' = {"proxy"} => modes = {"proxy"}
      BY <1>1, <2>1 DEF AskInv
    <3> QED BY <1>1, <2>1, <3>1 DEF AskInv, NeverLoud
  <2> QED BY <1>1, <2>1, <2>2, <2>3 DEF AskInv
<1>5. CASE StoreRules
  <2>1. /\ UNCHANGED <<mode, modes, learned, decided, asking>>
        /\ allDirect' = (allDirect \/ dflt' = "direct")
    BY <1>5 DEF StoreRules
  <2>2. NeverOpen' /\ NeverLoud'
    BY <1>1, <2>1 DEF AskInv, NeverOpen, NeverLoud
  <2> QED BY <1>1, <2>1, <2>2 DEF AskInv
<1>6. ASSUME NEW s \in SiteFiles, NEW i \in IpFiles, LoadGeoFiles(s, i) PROVE AskInv'
  BY <1>2, <1>6 DEF LoadGeoFiles, modeVars, store
<1>7. ASSUME NEW list \in RuleLists, NEW default \in RuleActions, PruneHits(list, default) PROVE AskInv'
  BY <1>2, <1>7 DEF PruneHits, modeVars
<1>8. CASE ResetRuleHits
  BY <1>2, <1>8 DEF ResetRuleHits, modeVars, store
<1>9. CASE UNCHANGED routeVars
  BY <1>2, <1>9 DEF routeVars, modeVars, store
<1> QED BY <1>1, <1>3, <1>4, <1>5, <1>6, <1>7, <1>8, <1>9, DecidingKeeps, AskingKeeps DEF RouteNext

-----------------------------------------------------------------------------
(* Routing: the index of a list of sites. *)

Names1 == Seq(STRING) \ {<< >>}

\* It finds what a scan of the list finds.
LEMMA IndexFinds ==
  ASSUME NEW list, \A r \in list : r.name \in Names1, NEW n \in Seq(STRING)
  PROVE  MatcherMatches(GeoSiteMatcher(list), n) <=> \E r \in list : SiteMatches(r, n)
<1>. DEFINE m == GeoSiteMatcher(list)
<1>1. n \in m.exact <=> \E r \in list : r.kind = "exact" /\ SiteMatches(r, n)
  BY DEF GeoSiteMatcher, SiteMatches
<1>2. (\E k \in DOMAIN n : SubSeq(n, 1, k) \in m.suffix)
        <=> \E r \in list : r.kind = "suffix" /\ SiteMatches(r, n)
  <2>1. ASSUME NEW r \in list
        PROVE  IsPrefix(r.name, n) <=> \E k \in DOMAIN n : SubSeq(n, 1, k) = r.name
    <3>1. /\ r.name \in Seq(STRING) /\ Len(r.name) \in Nat /\ Len(r.name) >= 1
          /\ SubSeq(r.name, 1, Len(r.name)) = r.name
      BY EmptySeq DEF Names1
    <3>2. \A k \in DOMAIN n : k \in 1..Len(n) /\ Len(SubSeq(n, 1, k)) = k
      OBVIOUS
    <3>3. DOMAIN n = 1..Len(n)
      OBVIOUS
    <3> QED BY <3>1, <3>2, <3>3 DEF IsPrefix
  <2> QED BY <2>1 DEF GeoSiteMatcher, SiteMatches
<1>3. (\E r \in m.other : SiteMatches(r, n))
        <=> \E r \in list : r.kind \notin {"exact", "suffix"} /\ SiteMatches(r, n)
  BY DEF GeoSiteMatcher
<1> QED BY <1>1, <1>2, <1>3 DEF MatcherMatches

\* The index of a tag is made of its list, and no rule of a list is empty.
IndexInv ==
  /\ \A t \in Tags : sites[t] = GeoSiteMatcher(raw[t])
  /\ \A t \in Tags : \A r \in raw[t] : r.name \in Names1

\* Nothing is listed at first.
LEMMA IndexInit == RouteInit => IndexInv
BY DEF RouteInit, IndexInv

\* Only new files change the lists, and the index with them.
LEMMA IndexKept == IndexInv /\ [RouteNext]_routeVars => IndexInv'
<1>1. SUFFICES ASSUME IndexInv, [RouteNext]_routeVars PROVE IndexInv'
  OBVIOUS
<1>2. CASE UNCHANGED geo
  BY <1>1, <1>2 DEF IndexInv, geo
<1>3. ASSUME NEW s \in SiteFiles, NEW i \in IpFiles, LoadGeoFiles(s, i) PROVE IndexInv'
  <2>1. raw' = ParseGeosite(s, Tags) /\ sites' = [t \in Tags |-> GeoSiteMatcher(raw'[t])]
    BY <1>3 DEF LoadGeoFiles
  <2>2. ASSUME NEW t \in Tags, NEW r \in raw'[t] PROVE r.name \in Names1
    <3>. DEFINE entries == Entries(s, t)
    <3>1. raw'[t] = IF entries = {} THEN {} ELSE DomainMsgs(s[Max(entries)].list)
      BY <2>1 DEF ParseGeosite
    <3>2. entries # {} /\ r \in DomainMsgs(s[Max(entries)].list)
      BY <2>2, <3>1
    <3>3. s \in Seq(Range(s))
      BY RoutingAssumption
    <3>4. Len(s) \in Nat /\ DOMAIN s = 1..Len(s) /\ entries \subseteq 1..Len(s)
      BY <3>3 DEF Entries, Readable
    <3>. DEFINE i0 == Max(entries)
    <3>5. i0 \in entries
      <4>. HIDE DEF entries
      <4> QED BY <3>2, <3>4, GreatestOne
    <3>6. i0 \in DOMAIN s /\ s[i0].field = "entry"
      BY <3>5 DEF Entries, Readable
    <3>7. \A x \in Range(s[i0].list) : x.name \in Seq(STRING)
      BY <3>6, RoutingAssumption
    <3>. HIDE DEF i0
    <3>8. PICK x \in Range(s[i0].list) : x.name # << >> /\ r = DomainMsg(x)
      BY <3>2 DEF DomainMsgs, i0
    <3>9. r.name = x.name
      BY <3>8 DEF DomainMsg
    <3> QED BY <3>7, <3>8, <3>9 DEF Names1
  <2> QED BY <2>1, <2>2 DEF IndexInv
<1>4. [RouteNext]_routeVars => UNCHANGED geo \/ \E s \in SiteFiles, i \in IpFiles : LoadGeoFiles(s, i)
  BY DEF RouteNext, routeVars, geo, Relay, HandleDnsQuery, RelayTcpDns, OnlyDecides, ResolveUpstream,
         Unanswered, Expires, Answered, SetOutboundMode, PruneHits, StoreRules, ResetRuleHits
<1> QED BY <1>1, <1>2, <1>3, <1>4

\* The index agrees with the list behind it.
LEMMA IndexHolds == IndexInv => IndexAgrees
<1>1. SUFFICES ASSUME IndexInv, NEW t \in Tags, NEW n \in Names
               PROVE  MatcherMatches(sites[t], n) <=> \E r \in raw[t] : SiteMatches(r, n)
  BY DEF IndexAgrees
<1>2. n \in Seq(STRING)
  BY RoutingAssumption
<1> QED BY <1>1, <1>2, IndexFinds DEF IndexInv

-----------------------------------------------------------------------------
(* Routing: the built-in blocks, sorted, merged and searched. *)

Blocks == [first : Nat, last : Nat]
Nonempty(s) == \A i \in DOMAIN s : s[i].first <= s[i].last
InOrder(s) == Nonempty(s) /\ \A i, j \in DOMAIN s : i < j => s[i].last < s[j].first
Among(s, lo, hi, ip) == \E j \in lo..hi : Covers(s[j], ip)

\* Binary search finds what a scan finds.
LEMMA SearchFinds ==
  ASSUME NEW s \in Seq(Blocks), InOrder(s), NEW ip \in Nat
  PROVE  Found(s, ip) <=> \E i \in DOMAIN s : Covers(s[i], ip)
<1>. DEFINE Los == 1..(Len(s) + 1)
            His == 0..Len(s)
            Step(f, lo, hi) ==
              LET mid == (lo + hi) \div 2
              IN  /\ lo <= hi
                  /\ IF ip < s[mid].first THEN f[<<lo, mid - 1>>]
                     ELSE ip <= s[mid].last \/ f[<<mid + 1, hi>>]
            Body(f) == [w \in Los \X His |-> Step(f, w[1], w[2])]
            G == [w \in Los \X His |-> Among(s, w[1], w[2], ip)]
<1>1. Len(s) \in Nat /\ DOMAIN s = 1..Len(s) /\ \A i \in 1..Len(s) : s[i] \in Blocks
  OBVIOUS
<1>2. ASSUME NEW lo \in Los, NEW hi \in His, lo <= hi
      PROVE  LET mid == (lo + hi) \div 2
             IN  /\ mid \in lo..hi /\ mid \in 1..Len(s) /\ mid - 1 \in His /\ mid + 1 \in Los
                 /\ Among(s, lo, hi, ip) =
                      IF ip < s[mid].first THEN Among(s, lo, mid - 1, ip)
                      ELSE ip <= s[mid].last \/ Among(s, mid + 1, hi, ip)
  <2>. DEFINE mid == (lo + hi) \div 2
  <2>1. mid \in lo..hi /\ mid \in 1..Len(s) /\ mid - 1 \in His /\ mid + 1 \in Los
    BY <1>1, <1>2
  <2>. HIDE DEF mid
  <2>2. s[mid] \in Blocks /\ s[mid].first <= s[mid].last
    BY <1>1, <2>1 DEF InOrder, Nonempty
  <2>3. CASE ip < s[mid].first
    <3>1. ASSUME NEW j \in mid..hi PROVE ~Covers(s[j], ip)
      <4>1. j \in 1..Len(s) /\ s[j] \in Blocks /\ (j = mid \/ mid < j)
        BY <1>1, <2>1
      <4>2. mid < j => s[mid].last < s[j].first
        BY <1>1, <2>1, <4>1 DEF InOrder
      <4>3. s[j].first \in Nat /\ s[mid].first \in Nat /\ s[mid].last \in Nat
        BY <2>2, <4>1 DEF Blocks
      <4>4. s[j].first >= s[mid].first
        <5>1. CASE j = mid
          <6>1. s[j].first = s[mid].first
            BY <5>1
          <6> QED BY <4>3, <6>1
        <5>2. CASE mid < j
          <6>1. s[mid].last < s[j].first
            BY <4>2, <5>2
          <6> QED BY <2>2, <4>3, <6>1
        <5> QED BY <4>1, <5>1, <5>2
      <4>5. ip < s[j].first
        BY <2>3, <4>3, <4>4
      <4> QED BY <4>3, <4>5 DEF Covers
    <3>2. \A j \in lo..hi : j \in lo..(mid - 1) \/ j \in mid..hi
      BY <1>1, <2>1
    <3>3. \A j \in lo..(mid - 1) : j \in lo..hi
      BY <1>1, <2>1
    <3> QED BY <2>1, <2>3, <3>1, <3>2, <3>3 DEF Among, mid
  <2>4. CASE ~(ip < s[mid].first)
    <3>1. Covers(s[mid], ip) <=> ip <= s[mid].last
      BY <2>2, <2>4 DEF Covers, Blocks
    <3>2. ASSUME NEW j \in lo..(mid - 1) PROVE ~Covers(s[j], ip)
      <4>1. j \in 1..Len(s) /\ s[j] \in Blocks /\ j < mid
        BY <1>1, <2>1
      <4>2. s[j].last < s[mid].first
        BY <1>1, <2>1, <4>1 DEF InOrder
      <4>3. s[j].last \in Nat /\ s[mid].first \in Nat
        BY <2>2, <4>1 DEF Blocks
      <4>4. s[j].last < ip
        BY <2>4, <4>2, <4>3
      <4> QED BY <4>3, <4>4 DEF Covers
    <3>3. \A j \in lo..hi : j \in lo..(mid - 1) \/ j = mid \/ j \in (mid + 1)..hi
      BY <1>1, <2>1
    <3>4. \A j \in (mid + 1)..hi : j \in lo..hi
      BY <1>1, <2>1
    <3> QED BY <2>1, <2>4, <3>1, <3>2, <3>3, <3>4 DEF Among, mid
  <2> QED BY <2>1, <2>3, <2>4 DEF mid
<1>3. ASSUME NEW lo \in Los, NEW hi \in His, ~(lo <= hi) PROVE ~Among(s, lo, hi, ip)
  BY <1>1, <1>3 DEF Among
<1>4. G = Body(G)
  <2>1. ASSUME NEW lo \in Los, NEW hi \in His PROVE Among(s, lo, hi, ip) = Step(G, lo, hi)
    <3>1. CASE lo <= hi
      <4>. DEFINE mid == (lo + hi) \div 2
      <4>1. /\ mid - 1 \in His /\ mid + 1 \in Los
            /\ Among(s, lo, hi, ip) =
                 IF ip < s[mid].first THEN Among(s, lo, mid - 1, ip)
                 ELSE ip <= s[mid].last \/ Among(s, mid + 1, hi, ip)
        BY <1>2, <3>1
      <4>. HIDE DEF mid
      <4>2. G[<<lo, mid - 1>>] = Among(s, lo, mid - 1, ip) /\ G[<<mid + 1, hi>>] = Among(s, mid + 1, hi, ip)
        BY <4>1
      <4>3. Step(G, lo, hi) = IF ip < s[mid].first THEN G[<<lo, mid - 1>>]
                              ELSE ip <= s[mid].last \/ G[<<mid + 1, hi>>]
        <5>. HIDE DEF G
        <5> QED BY <3>1, <4>2 DEF mid, Among
      <4>. HIDE DEF G, Step
      <4> QED BY <4>1, <4>2, <4>3
    <3>2. CASE ~(lo <= hi)
      BY <1>3, <3>2 DEF Among
    <3> QED BY <3>1, <3>2
  <2>. HIDE DEF Step
  <2> QED BY <2>1
<1>5. ASSUME NEW F, F = Body(F), NEW lo \in Los, NEW hi \in His
      PROVE  F[<<lo, hi>>] = Among(s, lo, hi, ip)
  <2>. DEFINE Right(d) == \A x \in Los, y \in His : y - x + 1 <= d => F[<<x, y>>] = Among(s, x, y, ip)
              T == {d \in Nat : Right(d)}
  <2>1. ASSUME NEW x \in Los, NEW y \in His PROVE F[<<x, y>>] = Step(F, x, y)
    <3>. HIDE DEF Step
    <3> QED BY <1>5, <2>1
  <2>2. ASSUME NEW x \in Los, NEW y \in His, ~(x <= y) PROVE F[<<x, y>>] = Among(s, x, y, ip)
    BY <1>3, <2>1, <2>2 DEF Among
  <2>3. 0 \in T
    <3>1. \A x \in Los, y \in His : y - x + 1 <= 0 => ~(x <= y)
      OBVIOUS
    <3> QED BY <2>2, <3>1
  <2>4. ASSUME NEW d \in Nat, d \in T PROVE d + 1 \in T
    <3>1. ASSUME NEW x \in Los, NEW y \in His, y - x + 1 <= d + 1, x <= y
          PROVE  F[<<x, y>>] = Among(s, x, y, ip)
      <4>. DEFINE mid == (x + y) \div 2
      <4>1. /\ mid \in x..y /\ mid - 1 \in His /\ mid + 1 \in Los
            /\ Among(s, x, y, ip) =
                 IF ip < s[mid].first THEN Among(s, x, mid - 1, ip)
                 ELSE ip <= s[mid].last \/ Among(s, mid + 1, y, ip)
        BY <1>2, <3>1
      <4>2. F[<<x, y>>] = (/\ x <= y
                           /\ IF ip < s[mid].first THEN F[<<x, mid - 1>>]
                              ELSE ip <= s[mid].last \/ F[<<mid + 1, y>>])
        BY <2>1
      <4>. HIDE DEF mid
      <4>3. (mid - 1) - x + 1 <= d /\ y - (mid + 1) + 1 <= d
        BY <3>1, <4>1
      <4>4. F[<<x, mid - 1>>] = Among(s, x, mid - 1, ip) /\ F[<<mid + 1, y>>] = Among(s, mid + 1, y, ip)
        BY <2>4, <4>1, <4>3
      <4>5. F[<<x, y>>] = IF ip < s[mid].first THEN Among(s, x, mid - 1, ip)
                          ELSE ip <= s[mid].last \/ Among(s, mid + 1, y, ip)
        BY <3>1, <4>2, <4>4 DEF Among
      <4> QED BY <4>1, <4>5
    <3> QED BY <2>2, <3>1
  <2>5. Len(s) \in T
    <3>. HIDE DEF T
    <3> QED BY <1>1, <2>3, <2>4, Upward
  <2>6. hi - lo + 1 <= Len(s)
    BY <1>1
  <2> QED BY <2>5, <2>6
<1>6. Found(s, ip) = (CHOOSE f : f = Body(f))[<<1, Len(s)>>]
  BY DEF Found
<1>7. 1 \in Los /\ Len(s) \in His
  BY <1>1
<1>. HIDE DEF Body, G
<1>8. (CHOOSE f : f = Body(f)) = Body(CHOOSE f : f = Body(f))
  BY <1>4
<1>9. Found(s, ip) = Among(s, 1, Len(s), ip)
  BY <1>5, <1>6, <1>7, <1>8
<1> QED BY <1>1, <1>9 DEF Among

\* Blocks can be put in order.
LEMMA OrderExists ==
  ASSUME NEW b \in Seq(Blocks)
  PROVE  \E p \in Bijection(DOMAIN b, DOMAIN b) :
           \A i, j \in DOMAIN b : i < j => b[p[i]].first <= b[p[j]].first
<1>. DEFINE Key(i) == b[i].first
            Puts(n, p) ==
              /\ p \in [1..n -> 1..n]
              /\ \A i, j \in 1..n : p[i] = p[j] => i = j
              /\ \A t \in 1..n : \E i \in 1..n : p[i] = t
              /\ \A i, j \in 1..n : i < j => Key(p[i]) <= Key(p[j])
            T == {n \in Nat : n <= Len(b) => \E p : Puts(n, p)}
<1>1. Len(b) \in Nat /\ DOMAIN b = 1..Len(b) /\ \A i \in 1..Len(b) : Key(i) \in Nat
  <2>1. \A i \in 1..Len(b) : b[i] \in Blocks
    OBVIOUS
  <2> QED BY <2>1 DEF Blocks
<1>. HIDE DEF Key, Puts
<1>2. 0 \in T
  <2>1. Puts(0, << >>)
    BY DEF Puts
  <2> QED BY <2>1
<1>3. ASSUME NEW n \in Nat, n \in T PROVE n + 1 \in T
  <2>1. SUFFICES ASSUME n + 1 <= Len(b) PROVE \E q : Puts(n + 1, q)
    OBVIOUS
  <2>2. PICK p : Puts(n, p)
    BY <1>1, <1>3, <2>1
  <2>a. /\ p \in [1..n -> 1..n]
        /\ \A t \in 1..n : \E i \in 1..n : p[i] = t
        /\ \A i, j \in 1..n : i < j => p[i] # p[j] /\ Key(p[i]) <= Key(p[j])
    <3>1. \A i, j \in 1..n : i < j => i # j
      OBVIOUS
    <3>2. \A i, j \in 1..n : p[i] = p[j] => i = j
      BY <2>2 DEF Puts
    <3> QED BY <2>2, <3>1, <3>2 DEF Puts
  <2>. DEFINE K == {i \in 1..n : Key(p[i]) > Key(n + 1)} \cup {n + 1}
  <2>3. PICK k \in K : \A i \in K : k <= i
    <3>1. K \subseteq Nat /\ K # {}
      OBVIOUS
    <3>. HIDE DEF K
    <3> QED BY <3>1, LeastOne
  <2>4. k \in 1..(n + 1)
    OBVIOUS
  <2>5. \A i \in 1..n : Key(p[i]) \in Nat /\ Key(n + 1) \in Nat
    BY <1>1, <2>1, <2>a
  <2>6. \A i \in 1..n : i < k => Key(p[i]) <= Key(n + 1)
    BY <2>3, <2>5
  <2>7. \A i \in 1..n : i >= k => Key(n + 1) <= Key(p[i])
    <3>1. k \in 1..n => Key(n + 1) <= Key(p[k])
      BY <2>3, <2>5
    <3>2. \A i \in 1..n : k < i => Key(p[k]) <= Key(p[i])
      BY <2>a, <2>4
    <3> QED BY <2>4, <2>5, <3>1, <3>2
  <2>. HIDE DEF K
  <2>. DEFINE q == [i \in 1..(n + 1) |-> IF i < k THEN p[i] ELSE IF i = k THEN n + 1 ELSE p[i - 1]]
  <2>8. /\ \A i \in 1..n : i < k => q[i] = p[i]
        /\ q[k] = n + 1
        /\ \A i \in 1..n : i >= k => q[i + 1] = p[i]
    BY <2>4
  <2>9. \A i \in 1..(n + 1) : i = k \/ (i \in 1..n /\ i < k) \/ (i - 1 \in 1..n /\ i - 1 >= k)
    BY <2>4
  <2>10. q \in [1..(n + 1) -> 1..(n + 1)]
    <3>1. ASSUME NEW i \in 1..(n + 1) PROVE q[i] \in 1..(n + 1)
      <4>1. \A x \in 1..n : p[x] \in 1..(n + 1)
        BY <2>a
      <4>2. CASE i - 1 \in 1..n /\ i - 1 >= k
        <5>1. q[i] = p[i - 1]
          BY <2>4, <4>2
        <5> QED BY <4>1, <4>2, <5>1
      <4>3. CASE i \in 1..n /\ i < k
        <5>1. q[i] = p[i]
          BY <2>8, <4>3
        <5> QED BY <4>1, <4>3, <5>1
      <4>4. CASE i = k
        BY <2>8, <4>4
      <4> QED BY <2>9, <4>2, <4>3, <4>4
    <3> QED BY <3>1
  <2>. HIDE DEF q
  <2>11. ASSUME NEW i \in 1..(n + 1), NEW j \in 1..(n + 1), i < j
         PROVE  q[i] # q[j] /\ Key(q[i]) <= Key(q[j])
    <3>1. CASE i < k /\ j < k
      <4>1. i \in 1..n /\ j \in 1..n
        BY <2>4, <3>1
      <4>2. q[i] = p[i] /\ q[j] = p[j]
        BY <2>8, <3>1, <4>1
      <4> QED BY <2>a, <2>11, <4>1, <4>2
    <3>2. CASE i < k /\ j = k
      <4>1. i \in 1..n /\ p[i] \in 1..n
        BY <2>a, <2>4, <3>2
      <4> QED BY <2>6, <2>8, <3>2, <4>1
    <3>3. CASE i < k /\ j > k
      <4>1. i \in 1..n /\ j - 1 \in 1..n /\ j - 1 >= k /\ i < j - 1 /\ (j - 1) + 1 = j
        BY <2>4, <3>3
      <4>2. q[i] = p[i] /\ q[j] = p[j - 1]
        BY <2>8, <3>3, <4>1
      <4> QED BY <2>a, <4>1, <4>2
    <3>4. CASE i = k
      <4>1. j - 1 \in 1..n /\ j - 1 >= k /\ (j - 1) + 1 = j
        BY <2>4, <2>11, <3>4
      <4>2. q[j] = p[j - 1] /\ p[j - 1] \in 1..n
        BY <2>a, <2>8, <4>1
      <4> QED BY <2>7, <2>8, <3>4, <4>1, <4>2
    <3>5. CASE i > k
      <4>1. /\ i - 1 \in 1..n /\ i - 1 >= k /\ (i - 1) + 1 = i
            /\ j - 1 \in 1..n /\ j - 1 >= k /\ (j - 1) + 1 = j /\ i - 1 < j - 1
        BY <2>4, <2>11, <3>5
      <4>2. q[i] = p[i - 1] /\ q[j] = p[j - 1]
        BY <2>8, <4>1
      <4> QED BY <2>a, <4>1, <4>2
    <3> QED BY <2>4, <2>11, <3>1, <3>2, <3>3, <3>4, <3>5
  <2>12. \A i, j \in 1..(n + 1) : q[i] = q[j] => i = j
    <3>1. \A i, j \in 1..(n + 1) : i < j \/ j < i \/ i = j
      OBVIOUS
    <3> QED BY <2>11, <3>1
  <2>13. ASSUME NEW t \in 1..(n + 1) PROVE \E i \in 1..(n + 1) : q[i] = t
    <3>1. CASE t = n + 1
      BY <2>4, <2>8, <3>1
    <3>2. CASE t # n + 1
      <4>1. PICK i \in 1..n : p[i] = t
        BY <2>a, <3>2
      <4>2. i \in 1..(n + 1) /\ i + 1 \in 1..(n + 1) /\ (i < k \/ i >= k)
        BY <2>4
      <4> QED BY <2>8, <4>1, <4>2
    <3> QED BY <3>1, <3>2
  <2> QED BY <2>10, <2>11, <2>12, <2>13 DEF Puts
<1>4. Len(b) \in T
  <2>. HIDE DEF T
  <2> QED BY <1>1, <1>2, <1>3, Upward
<1>5. PICK p : Puts(Len(b), p)
  BY <1>1, <1>4
<1>6. p \in Bijection(DOMAIN b, DOMAIN b)
  BY <1>1, <1>5 DEF Puts, Bijection, Injection, Surjection, IsInjective
<1> QED BY <1>1, <1>5, <1>6 DEF Key, Puts

\* What some block of a sequence covers.
In(s, ip) == \E i \in DOMAIN s : Covers(s[i], ip)
Rising(s) == \A i, j \in DOMAIN s : i < j => s[i].first <= s[j].first

\* Sorting keeps what the blocks cover.
LEMMA SortedFits ==
  ASSUME NEW b \in Seq(Blocks), Nonempty(b)
  PROVE  /\ Sorted(b) \in Seq(Blocks) /\ Len(Sorted(b)) = Len(b)
         /\ Nonempty(Sorted(b)) /\ Rising(Sorted(b)) /\ \A ip : In(Sorted(b), ip) <=> In(b, ip)
<1>. DEFINE Good(p) == \A i, j \in DOMAIN b : i < j => b[p[i]].first <= b[p[j]].first
            o == CHOOSE p \in Bijection(DOMAIN b, DOMAIN b) : Good(p)
<1>1. o \in Bijection(DOMAIN b, DOMAIN b) /\ Good(o)
  BY OrderExists
<1>2. Sorted(b) = [i \in DOMAIN b |-> b[o[i]]]
  BY DEF Sorted
<1>. HIDE DEF o
<1>3. o \in [DOMAIN b -> DOMAIN b] /\ \A t \in DOMAIN b : \E i \in DOMAIN b : o[i] = t
  BY <1>1 DEF Bijection, Surjection
<1>4. Len(b) \in Nat /\ DOMAIN b = 1..Len(b) /\ \A i \in DOMAIN b : b[i] \in Blocks
  OBVIOUS
<1>5. Sorted(b) \in [1..Len(b) -> Blocks]
  BY <1>2, <1>3, <1>4
<1>6. Sorted(b) \in Seq(Blocks) /\ Len(Sorted(b)) = Len(b) /\ DOMAIN Sorted(b) = DOMAIN b
  <2>. DEFINE t == Sorted(b)
  <2>1. t \in [1..Len(b) -> Blocks]
    BY <1>5
  <2>. HIDE DEF t
  <2>2. t \in Seq(Blocks) /\ Len(t) = Len(b) /\ DOMAIN t = 1..Len(b)
    BY <1>4, <2>1
  <2> QED BY <1>4, <2>2 DEF t
<1>7. Nonempty(Sorted(b)) /\ Rising(Sorted(b))
  BY <1>1, <1>2, <1>3, <1>6 DEF Nonempty, Rising
<1>8. ASSUME NEW ip PROVE In(Sorted(b), ip) <=> In(b, ip)
  <2>1. \A i \in DOMAIN b : o[i] \in DOMAIN b /\ Sorted(b)[i] = b[o[i]]
    BY <1>2, <1>3
  <2>2. ASSUME NEW i \in DOMAIN b, Covers(b[o[i]], ip) PROVE In(b, ip)
    BY <2>1, <2>2 DEF In
  <2>3. ASSUME NEW t \in DOMAIN b, Covers(b[t], ip) PROVE \E i \in DOMAIN b : Covers(b[o[i]], ip)
    BY <1>3, <2>3
  <2>4. In(Sorted(b), ip) <=> \E i \in DOMAIN b : Covers(b[o[i]], ip)
    BY <1>6, <2>1 DEF In
  <2> QED BY <2>2, <2>3, <2>4 DEF In
<1> QED BY <1>6, <1>7, <1>8

\* Joining a block to those before it.
LEMMA JoinFits ==
  ASSUME NEW m \in Seq(Blocks), InOrder(m), NEW r \in Blocks, r.first <= r.last,
         m # << >> => Last(m).first <= r.first
  PROVE  /\ Join(m, r) \in Seq(Blocks) /\ InOrder(Join(m, r))
         /\ Join(m, r) # << >> /\ Last(Join(m, r)).first <= r.first
         /\ \A ip \in Nat : In(Join(m, r), ip) <=> In(m, ip) \/ Covers(r, ip)
<1>. DEFINE n == Len(m)
<1>1. n \in Nat /\ DOMAIN m = 1..n /\ \A i \in 1..n : m[i] \in Blocks /\ m[i].first <= m[i].last
  BY DEF InOrder, Nonempty
<1>2. \A i, j \in 1..n : i < j => m[i].last < m[j].first
  BY <1>1 DEF InOrder
<1>3. r \in Blocks /\ r.first \in Nat /\ r.last \in Nat
  BY DEF Blocks
<1>4. CASE m # << >> /\ r.first <= Last(m).last + 1
  <2>. DEFINE l == m[n]
              x == [l EXCEPT !.last = IF r.last > @ THEN r.last ELSE @]
              j == [i \in 1..n |-> IF i = n THEN x ELSE m[i]]
  <2>1. n \in 1..n /\ n >= 1 /\ Last(m) = l
    BY <1>1, <1>4, EmptySeq DEF Last
  <2>2. l \in Blocks /\ l.first \in Nat /\ l.last \in Nat /\ l.first <= l.last
    BY <1>1, <2>1 DEF Blocks
  <2>3. /\ x \in Blocks /\ x.first = l.first /\ x.first <= x.last
        /\ x.last = IF r.last > l.last THEN r.last ELSE l.last
    BY <1>3, <2>2 DEF Blocks
  <2>. HIDE DEF x, l
  <2>4. Join(m, r) = Front(m) \o <<x>>
    BY <1>4, <2>1 DEF Join, x, l
  <2>5. Front(m) \in Seq(Blocks) /\ Len(Front(m)) = n - 1 /\ \A i \in 1..(n - 1) : Front(m)[i] = m[i]
    BY <1>1, <2>1 DEF Front
  <2>6. /\ Join(m, r) \in Seq(Blocks) /\ Len(Join(m, r)) = n
        /\ Join(m, r)[n] = x /\ \A i \in 1..(n - 1) : Join(m, r)[i] = m[i]
    <3>1. <<x>> \in Seq(Blocks) /\ Len(<<x>>) = 1 /\ <<x>>[1] = x
      BY <2>3
    <3>. DEFINE f == Front(m)
                y == <<x>>
    <3>2. f \in Seq(Blocks) /\ y \in Seq(Blocks) /\ Len(f) = n - 1 /\ Len(y) = 1
      BY <2>5, <3>1
    <3>. HIDE DEF f, y, n
    <3>3. f \o y \in Seq(Blocks) /\ Len(f \o y) = (n - 1) + 1
      <4>1. f \o y \in Seq(Blocks) /\ Len(f \o y) = Len(f) + Len(y)
        BY <3>2, ConcatProperties
      <4>2. Len(f) + Len(y) = (n - 1) + 1
        BY <3>2
      <4> QED BY <4>1, <4>2
    <3>4. \A i \in 1..n : (f \o y)[i] = IF i <= n - 1 THEN f[i] ELSE y[i - (n - 1)]
      BY <1>1, <2>1, <3>2, <3>3, ConcatProperties
    <3>5. (n - 1) + 1 = n /\ n - (n - 1) = 1 /\ ~(n <= n - 1)
      BY <1>1
    <3>6. \A i \in 1..(n - 1) : i \in 1..n /\ i <= n - 1
      BY <1>1
    <3>7. /\ f \o y \in Seq(Blocks) /\ Len(f \o y) = n
          /\ (f \o y)[n] = y[1] /\ \A i \in 1..(n - 1) : (f \o y)[i] = f[i]
      BY <2>1, <3>3, <3>4, <3>5, <3>6
    <3> QED BY <2>4, <2>5, <3>1, <3>7 DEF f, y
  <2>7. /\ \A i \in 1..n : i = n \/ i \in 1..(n - 1)
        /\ \A i \in 1..(n - 1) : i \in 1..n
    <3>. HIDE DEF n
    <3>1. n \in Nat
      BY <1>1
    <3> QED BY <3>1
  <2>8. Join(m, r) # << >> /\ DOMAIN Join(m, r) = 1..n /\ Last(Join(m, r)) = x
    BY <2>1, <2>6, EmptySeq DEF Last
  <2>9. Last(Join(m, r)).first <= r.first
    BY <1>4, <2>1, <2>3, <2>8
  <2>10. InOrder(Join(m, r))
    <3>1. Nonempty(Join(m, r))
      BY <1>1, <2>3, <2>6, <2>7, <2>8 DEF Nonempty
    <3>2. ASSUME NEW i \in 1..n, NEW k \in 1..n, i < k PROVE Join(m, r)[i].last < Join(m, r)[k].first
      <4>1. i \in 1..(n - 1) /\ m[i].last < m[k].first
        BY <1>1, <1>2, <3>2
      <4>2. Join(m, r)[k].first = m[k].first
        BY <2>3, <2>6, <2>7 DEF l
      <4> QED BY <2>6, <4>1, <4>2
    <3> QED BY <2>8, <3>1, <3>2 DEF InOrder
  <2>11. ASSUME NEW ip \in Nat PROVE In(Join(m, r), ip) <=> In(m, ip) \/ Covers(r, ip)
    <3>1. l.first <= r.first /\ r.first <= l.last + 1
      BY <1>4, <2>1
    <3>2. Covers(x, ip) <=> Covers(l, ip) \/ Covers(r, ip)
      BY <1>3, <2>2, <2>3, <3>1 DEF Covers
    <3>3. In(Join(m, r), ip) <=> Covers(x, ip) \/ \E i \in 1..(n - 1) : Covers(m[i], ip)
      <4>. HIDE DEF n
      <4> QED BY <2>1, <2>6, <2>7, <2>8 DEF In
    <3>4. In(m, ip) <=> Covers(l, ip) \/ \E i \in 1..(n - 1) : Covers(m[i], ip)
      <4>. HIDE DEF n
      <4> QED BY <1>1, <2>1, <2>7 DEF In, l
    <3> QED BY <3>2, <3>3, <3>4
  <2> QED BY <2>6, <2>8, <2>9, <2>10, <2>11
<1>5. CASE ~(m # << >> /\ r.first <= Last(m).last + 1)
  <2>1. Join(m, r) = Append(m, r)
    BY <1>5 DEF Join
  <2>2. /\ Join(m, r) \in Seq(Blocks) /\ Len(Join(m, r)) = n + 1 /\ DOMAIN Join(m, r) = 1..(n + 1)
        /\ Join(m, r)[n + 1] = r /\ \A i \in 1..n : Join(m, r)[i] = m[i]
    BY <2>1
  <2>3. \A i \in 1..(n + 1) : i = n + 1 \/ i \in 1..n
    BY <1>1
  <2>4. Join(m, r) # << >> /\ Last(Join(m, r)).first <= r.first
    BY <1>1, <1>3, <2>2, EmptySeq DEF Last
  <2>5. ASSUME NEW i \in 1..n PROVE m[i].last < r.first
    <3>1. m # << >> /\ Last(m) = m[n] /\ n \in 1..n /\ (i = n \/ i < n)
      <4>1. n # 0 /\ n \in 1..n /\ (i = n \/ i < n)
        <5>1. n \in Nat /\ i \in 1..n
          BY <1>1
        <5>. HIDE DEF n
        <5> QED BY <5>1
      <4>2. m # << >>
        BY <4>1, EmptySeq
      <4> QED BY <4>1, <4>2 DEF Last
    <3>2. m[n].last + 1 < r.first /\ m[n].last \in Nat /\ m[n].first \in Nat /\ m[i].last \in Nat
      <4>1. m[n] \in Blocks /\ m[i] \in Blocks /\ ~(r.first <= m[n].last + 1)
        BY <1>1, <1>5, <3>1
      <4>2. m[n].last \in Nat /\ m[n].first \in Nat /\ m[i].last \in Nat
        BY <4>1 DEF Blocks
      <4> QED BY <1>3, <4>1, <4>2
    <3>3. i < n => m[i].last < m[n].first
      BY <1>2, <3>1
    <3>5. m[n].first <= m[n].last
      BY <1>1, <3>1
    <3>6. CASE i = n
      <4>1. m[i].last = m[n].last
        BY <3>6
      <4> QED BY <1>3, <3>2, <4>1
    <3>7. CASE i < n
      <4>1. m[i].last < m[n].first
        BY <3>3, <3>7
      <4> HIDE DEF n
      <4> QED BY <1>3, <3>2, <3>5, <4>1
    <3> QED BY <3>1, <3>6, <3>7
  <2>6. InOrder(Join(m, r))
    <3>1. Nonempty(Join(m, r))
      BY <1>1, <2>2, <2>3 DEF Nonempty
    <3>2. ASSUME NEW i \in 1..(n + 1), NEW k \in 1..(n + 1), i < k
          PROVE  Join(m, r)[i].last < Join(m, r)[k].first
      <4>1. i \in 1..n
        BY <1>1, <3>2
      <4> QED BY <1>2, <2>2, <2>3, <2>5, <3>2, <4>1
    <3> QED BY <2>2, <3>1, <3>2 DEF InOrder
  <2>7. ASSUME NEW ip \in Nat PROVE In(Join(m, r), ip) <=> In(m, ip) \/ Covers(r, ip)
    BY <1>1, <2>2, <2>3 DEF In
  <2> QED BY <2>2, <2>4, <2>6, <2>7
<1> QED BY <1>4, <1>5

\* Merging keeps what the blocks cover, and puts them in order.
LEMMA MergedFits ==
  ASSUME NEW b \in Seq(Blocks), Nonempty(b)
  PROVE  /\ Merged(b) \in Seq(Blocks) /\ InOrder(Merged(b))
         /\ \A ip \in Nat : In(Merged(b), ip) <=> In(b, ip)
<1>. DEFINE s == Sorted(b)
            N == Len(b)
            Step(f, n) == IF n = 0 THEN << >> ELSE Join(f[n - 1], s[n])
            Body(k, f) == [n \in 0..k |-> Step(f, n)]
<1>1. /\ s \in Seq(Blocks) /\ Len(s) = N /\ N \in Nat /\ DOMAIN s = 1..N
      /\ \A i \in 1..N : s[i] \in Blocks /\ s[i].first <= s[i].last
      /\ Rising(s) /\ \A ip : In(s, ip) <=> In(b, ip)
  BY SortedFits DEF Nonempty
<1>. HIDE DEF s
<1>2. \E f : f = Body(N, f)
  <2>. DEFINE T == {k \in Nat : \E f : f = Body(k, f)}
  <2>1. 0 \in T
    <3>1. [n \in 0..0 |-> << >>] = Body(0, [n \in 0..0 |-> << >>])
      OBVIOUS
    <3> QED BY <3>1
  <2>2. ASSUME NEW k \in Nat, k \in T PROVE k + 1 \in T
    <3>1. PICK f : f = Body(k, f)
      BY <2>2
    <3>. DEFINE g == [n \in 0..(k + 1) |-> IF n = k + 1 THEN Join(f[k], s[k + 1]) ELSE f[n]]
    <3>2. ASSUME NEW n \in 0..(k + 1) PROVE g[n] = Step(g, n)
      <4>1. CASE n = k + 1
        <5>1. k \in 0..(k + 1) /\ n - 1 = k /\ n # 0 /\ k # k + 1
          BY <4>1
        <5> QED BY <4>1, <5>1
      <4>2. CASE n # k + 1
        <5>1. n \in 0..k /\ (n # 0 => n - 1 \in 0..(k + 1) /\ n - 1 # k + 1)
          BY <4>2
        <5>2. g[n] = f[n] /\ f[n] = Step(f, n) /\ (n # 0 => g[n - 1] = f[n - 1])
          BY <3>1, <4>2, <5>1
        <5> QED BY <5>2
      <4> QED BY <4>1, <4>2
    <3>3. g = [n \in 0..(k + 1) |-> g[n]]
      OBVIOUS
    <3>. HIDE DEF Step, g
    <3>4. g = Body(k + 1, g)
      BY <3>2, <3>3
    <3>. HIDE DEF Body
    <3> QED BY <3>4
  <2>. HIDE DEF T
  <2>3. N \in T
    BY <1>1, <2>1, <2>2, Upward
  <2> QED BY <2>3 DEF T
<1>3. PICK f : f = Body(N, f) /\ Merged(b) = f[N]
  <2>1. Merged(b) = (CHOOSE f : f = Body(N, f))[N]
    BY DEF Merged, s
  <2> QED BY <1>2, <2>1
<1>4. \A n \in 0..N : f[n] = Step(f, n)
  <2>. HIDE DEF Step
  <2> QED BY <1>3
<1>. DEFINE Fits1(n) ==
       /\ f[n] \in Seq(Blocks) /\ InOrder(f[n])
       /\ f[n] # << >> => n # 0 /\ Last(f[n]).first <= s[n].first
       /\ \A ip \in Nat : In(f[n], ip) <=> Among(s, 1, n, ip)
            T == {n \in Nat : n <= N => Fits1(n)}
<1>5. 0 \in T
  <2>1. 0 \in 0..N /\ f[0] = << >>
    BY <1>1, <1>4
  <2>2. << >> \in Seq(Blocks) /\ InOrder(<< >>)
    BY DEF InOrder, Nonempty
  <2>3. \A ip : ~In(<< >>, ip) /\ ~Among(s, 1, 0, ip)
    BY DEF In, Among
  <2> QED BY <2>1, <2>2, <2>3
<1>6. ASSUME NEW n \in Nat, n \in T PROVE n + 1 \in T
  <2>1. SUFFICES ASSUME n + 1 <= N PROVE Fits1(n + 1)
    BY DEF Fits1
  <2>2. n + 1 \in 1..N /\ n + 1 \in 0..N /\ n + 1 # 0 /\ (n + 1) - 1 = n /\ (n # 0 => n \in 1..N)
    BY <1>1, <2>1
  <2>3. Fits1(n)
    BY <1>1, <1>6, <2>1
  <2>4. f[n + 1] = Join(f[n], s[n + 1])
    BY <1>4, <2>2
  <2>5. f[n] # << >> => Last(f[n]).first <= s[n + 1].first
    <3>1. ASSUME f[n] # << >> PROVE s[n].first <= s[n + 1].first
      BY <1>1, <2>2, <2>3, <3>1 DEF Rising
    <3>2. ASSUME f[n] # << >> PROVE Last(f[n]).first \in Nat /\ s[n].first \in Nat /\ s[n + 1].first \in Nat
      <4>1. Len(f[n]) \in 1..Len(f[n])
        BY <2>3, <3>2, EmptySeq
      <4>2. Last(f[n]) \in Blocks /\ s[n] \in Blocks /\ s[n + 1] \in Blocks
        <5>1. n \in 1..N /\ f[n] \in Seq(Blocks)
          BY <2>2, <2>3, <3>2
        <5>2. f[n][Len(f[n])] \in Blocks
          BY <4>1, <5>1
        <5>3. s[n] \in Blocks /\ s[n + 1] \in Blocks
          BY <1>1, <2>2, <5>1
        <5> QED BY <5>2, <5>3 DEF Last
      <4>3. \A c \in Blocks : c.first \in Nat
        BY DEF Blocks
      <4> QED BY <4>2, <4>3
    <3> QED BY <2>3, <3>1, <3>2
  <2>6. s[n + 1] \in Blocks /\ s[n + 1].first <= s[n + 1].last
    BY <1>1, <2>2
  <2>. HIDE DEF Fits1
  <2>7. /\ f[n + 1] \in Seq(Blocks) /\ InOrder(f[n + 1]) /\ Last(f[n + 1]).first <= s[n + 1].first
        /\ \A ip \in Nat : In(f[n + 1], ip) <=> In(f[n], ip) \/ Covers(s[n + 1], ip)
    <3>. DEFINE m == f[n]
                r == s[n + 1]
    <3>1. m \in Seq(Blocks) /\ InOrder(m) /\ (m # << >> => Last(m).first <= r.first)
      BY <2>3, <2>5 DEF Fits1
    <3>2. r \in Blocks /\ r.first <= r.last
      BY <2>6
    <3>. HIDE DEF m, r
    <3>3. /\ Join(m, r) \in Seq(Blocks) /\ InOrder(Join(m, r)) /\ Last(Join(m, r)).first <= r.first
          /\ \A ip \in Nat : In(Join(m, r), ip) <=> In(m, ip) \/ Covers(r, ip)
      BY <3>1, <3>2, JoinFits
    <3> QED BY <2>4, <3>3 DEF m, r
  <2>8. ASSUME NEW ip PROVE Among(s, 1, n + 1, ip) <=> Among(s, 1, n, ip) \/ Covers(s[n + 1], ip)
    <3>1. \A j \in 1..(n + 1) : j = n + 1 \/ j \in 1..n
      OBVIOUS
    <3>2. n + 1 \in 1..(n + 1) /\ \A j \in 1..n : j \in 1..(n + 1)
      OBVIOUS
    <3> QED BY <3>1, <3>2 DEF Among
  <2>9. \A ip \in Nat : In(f[n], ip) <=> Among(s, 1, n, ip)
    BY <2>3 DEF Fits1
  <2> QED BY <2>2, <2>7, <2>8, <2>9 DEF Fits1
<1>7. N \in T
  <2>. HIDE DEF T
  <2> QED BY <1>1, <1>5, <1>6, Upward
<1>8. Fits1(N)
  BY <1>1, <1>7
<1> QED BY <1>1, <1>3, <1>8 DEF In, Among

\* The search in the merged blocks is the scan of all of them.
LEMMA RangesHold == RangesAgree
<1>1. BuiltinCn \in Seq(Blocks) /\ \A c \in Range(BuiltinCn) : c.first <= c.last
  BY GeoAssumption DEF Blocks
<1>2. Range(BuiltinCn) = {BuiltinCn[i] : i \in DOMAIN BuiltinCn}
  BY DEF Range
<1>3. Nonempty(BuiltinCn)
  BY <1>1, <1>2 DEF Nonempty
<1>4. /\ CnRanges \in Seq(Blocks) /\ InOrder(CnRanges)
      /\ \A ip \in Nat : In(CnRanges, ip) <=> In(BuiltinCn, ip)
  BY <1>1, <1>3, MergedFits DEF CnRanges
<1>5. ASSUME NEW ip \in Addresses
      PROVE  Found(CnRanges, ip) <=> \E c \in Range(BuiltinCn) : Covers(c, ip)
  <2>1. ip \in Nat
    BY DEF Addresses
  <2>2. Found(CnRanges, ip) <=> In(CnRanges, ip)
    BY <1>4, <2>1, SearchFinds DEF In
  <2> QED BY <1>2, <1>4, <2>1, <2>2 DEF In
<1> QED BY <1>5 DEF RangesAgree

\* In rule mode no list of rules and no data file sends a name known to be
\* foreign direct (route_decision_sourced of direct.rs), and a name that routing
\* sends direct on purpose is one that DNS may resolve (may_query_upstream).  No
\* foreign name is asked before the user has sent all direct, and none but the
\* LAN's as long as all has gone to the proxy, however slow the tasks are and
\* whatever is replaced meanwhile (should_resolve_upstream, relay_tcp_dns).
THEOREM DirectAlwaysSound == RouteInit /\ [][RouteNext]_routeVars => []DirectIsSound
<1>1. AskInv => DirectIsSound
  BY ForeignAlways, ResolvableAlways
     DEF AskInv, NeverOpen, NeverLoud, Foreign, DirectIsSound, ForeignUnasked, SilentInProxy
<1> QED BY <1>1, AskBegins, AskKept, PTL

\* The hash index of a site list and the binary search in the merged blocks of
\* China find what a scan would (GeoSiteMatcher of geo.rs, is_cn_ip).
THEOREM TablesAlwaysAgree == RouteInit /\ [][RouteNext]_routeVars => []TablesAgree
<1>1. ASSUME IndexInv PROVE TablesAgree
  BY <1>1, IndexHolds, RangesHold DEF TablesAgree
<1> QED BY <1>1, IndexInit, IndexKept, PTL

-----------------------------------------------------------------------------
(* The sniffer. *)

Octets == 0..255
Starts(d, all) ==
  /\ d \in Seq(Octets) /\ all \in Seq(Octets)
  /\ Len(d) <= Len(all) /\ \A i \in 1..Len(d) : d[i] = all[i]

LEMMA PartFits ==
  ASSUME NEW d \in Seq(Octets), NEW i \in Nat, NEW n \in Nat, i + n <= Len(d)
  PROVE  /\ Part(d, i, n) \in Seq(Octets) /\ Len(Part(d, i, n)) = n
         /\ \A k \in 1..n : Part(d, i, n)[k] = d[i + k]
<1>1. \A k \in 1..n : i + k \in 1..Len(d) /\ d[i + k] \in Octets
  OBVIOUS
<1>. DEFINE p == [k \in 1..n |-> d[i + k]]
<1>2. p \in Seq(Octets) /\ Len(p) = n
  <2>1. p \in [1..n -> Octets]
    BY <1>1
  <2>. HIDE DEF p
  <2> QED BY <2>1
<1>3. Part(d, i, n) = p
  <2>1. (i + n) - (i + 1) + 1 = n /\ \A k \in 1..n : (i + 1) + k - 1 = i + k
    OBVIOUS
  <2>2. SubSeq(d, i + 1, i + n) = [k \in 1..((i + n) - (i + 1) + 1) |-> d[(i + 1) + k - 1]]
    OBVIOUS
  <2> QED BY <2>1, <2>2 DEF Part
<1> QED BY <1>2, <1>3

LEMMA PartStarts ==
  ASSUME NEW d, NEW all, Starts(d, all), NEW i \in Nat, NEW m \in Nat, NEW n \in Nat,
         m <= n, i + m <= Len(d), i + n <= Len(all)
  PROVE  Starts(Part(d, i, m), Part(all, i, n))
<1>1. d \in Seq(Octets) /\ all \in Seq(Octets) /\ Len(d) \in Nat
  BY DEF Starts
<1>2. /\ Part(d, i, m) \in Seq(Octets) /\ Len(Part(d, i, m)) = m
      /\ \A k \in 1..m : Part(d, i, m)[k] = d[i + k]
  BY <1>1, PartFits
<1>3. /\ Part(all, i, n) \in Seq(Octets) /\ Len(Part(all, i, n)) = n
      /\ \A k \in 1..n : Part(all, i, n)[k] = all[i + k]
  BY <1>1, PartFits
<1>4. \A k \in 1..m : k \in 1..n /\ i + k \in 1..Len(d)
  BY <1>1
<1>5. \A k \in 1..m : d[i + k] = all[i + k]
  BY <1>4 DEF Starts
<1> QED BY <1>2, <1>3, <1>4, <1>5 DEF Starts

LEMMA PartSame ==
  ASSUME NEW d, NEW all, Starts(d, all), NEW i \in Nat, NEW n \in Nat, i + n <= Len(d)
  PROVE  Part(d, i, n) = Part(all, i, n)
<1>1. Len(d) \in Nat /\ Len(all) \in Nat /\ Len(d) <= Len(all) /\ i + n <= Len(all)
  BY DEF Starts
<1>2. Starts(Part(d, i, n), Part(all, i, n))
  BY <1>1, PartStarts
<1>3. Len(Part(d, i, n)) = n /\ Len(Part(all, i, n)) = n
  BY <1>1, PartFits DEF Starts
<1> QED BY <1>2, <1>3 DEF Starts

LEMMA ReadSame ==
  ASSUME NEW d, NEW all, Starts(d, all), NEW i \in Nat
  PROVE  /\ i + 1 <= Len(d) => At(d, i) = At(all, i) /\ At(d, i) \in Nat
         /\ i + 2 <= Len(d) => U16(d, i) = U16(all, i) /\ U16(d, i) \in Nat
<1>1. Len(d) \in Nat /\ \A k \in 1..Len(d) : d[k] = all[k] /\ d[k] \in Nat
  <2>1. d \in Seq(Octets)
    BY DEF Starts
  <2>2. Len(d) \in Nat /\ \A k \in 1..Len(d) : d[k] \in Octets
    BY <2>1
  <2>3. \A k \in 1..Len(d) : d[k] = all[k]
    BY DEF Starts
  <2>4. \A x \in Octets : x \in Nat
    BY DEF Octets
  <2> QED BY <2>2, <2>3, <2>4
<1>2. i + 1 <= Len(d) => At(d, i) = At(all, i) /\ At(d, i) \in Nat
  BY <1>1 DEF At
<1>3. ASSUME i + 2 <= Len(d) PROVE U16(d, i) = U16(all, i) /\ U16(d, i) \in Nat
  <2>1. i + 1 \in 1..Len(d) /\ (i + 1) + 1 \in 1..Len(d)
    BY <1>1, <1>3
  <2>2. /\ d[i + 1] = all[i + 1] /\ d[i + 1] \in Nat
        /\ d[(i + 1) + 1] = all[(i + 1) + 1] /\ d[(i + 1) + 1] \in Nat
    BY <1>1, <2>1
  <2> QED BY <2>2 DEF U16, At
<1> QED BY <1>2, <1>3

LEMMA StartsItself == ASSUME NEW d \in Seq(Octets) PROVE Starts(d, d)
BY DEF Starts

\* The walk over the extensions is well defined: each step goes forward.
WalkStep(d, end, f, c) ==
  IF c + 4 > end \/ c + 4 + U16(d, c + 2) > end THEN NoName
  ELSE LET name == NameIn(Part(d, c + 4, U16(d, c + 2)))
       IN  IF U16(d, c) = 0 /\ name # NoName THEN name ELSE f[c + 4 + U16(d, c + 2)]

LEMMA WalkEnds ==
  ASSUME NEW d \in Seq(Octets), NEW end \in Nat, end <= Len(d)
  PROVE  \E f : /\ \A c \in 0..end : f[c] = WalkStep(d, end, f, c)
                /\ \A start : NameFrom(d, start, end) = IF start > end THEN NoName ELSE f[start]
<1>. DEFINE Ahead(k) == {c \in 0..end : c + k >= end}
            Body(S, f) == [c \in S |-> WalkStep(d, end, f, c)]
            T == {k \in Nat : \E f : f = Body(Ahead(k), f)}
<1>1. 0 \in T
  <2>. DEFINE g == [c \in Ahead(0) |-> NoName]
  <2>1. ASSUME NEW c \in Ahead(0) PROVE WalkStep(d, end, g, c) = NoName
    <3>1. c + 4 > end
      OBVIOUS
    <3> QED BY <3>1 DEF WalkStep
  <2>2. g = Body(Ahead(0), g)
    BY <2>1
  <2> QED BY <2>2
<1>2. ASSUME NEW k \in Nat, k \in T PROVE k + 1 \in T
  <2>1. PICK f : f = Body(Ahead(k), f)
    BY <1>2
  <2>. DEFINE g == [c \in Ahead(k + 1) |-> IF c \in Ahead(k) THEN f[c] ELSE WalkStep(d, end, f, c)]
  <2>2. ASSUME NEW c \in Ahead(k + 1) PROVE WalkStep(d, end, f, c) = WalkStep(d, end, g, c)
    <3>1. CASE c + 4 > end \/ c + 4 + U16(d, c + 2) > end
      BY <3>1 DEF WalkStep
    <3>2. CASE ~(c + 4 > end \/ c + 4 + U16(d, c + 2) > end)
      <4>1. c \in Nat /\ c + k + 1 >= end /\ (c + 2) + 2 <= Len(d)
        BY <3>2
      <4>2. U16(d, c + 2) \in Nat
        BY <4>1, ReadSame, StartsItself
      <4>3. c + 4 + U16(d, c + 2) \in Ahead(k) /\ c + 4 + U16(d, c + 2) \in Ahead(k + 1)
        <5>. DEFINE u == U16(d, c + 2)
        <5>1. u \in Nat /\ ~(c + 4 + u > end)
          BY <3>2, <4>2
        <5>. HIDE DEF u
        <5>2. c + 4 + u \in Ahead(k) /\ c + 4 + u \in Ahead(k + 1)
          BY <4>1, <5>1
        <5> QED BY <5>2 DEF u
      <4>4. g[c + 4 + U16(d, c + 2)] = f[c + 4 + U16(d, c + 2)]
        BY <4>3
      <4>. HIDE DEF g
      <4> QED BY <4>4 DEF WalkStep
    <3> QED BY <3>1, <3>2
  <2>3. ASSUME NEW c \in Ahead(k + 1) PROVE g[c] = WalkStep(d, end, f, c)
    BY <2>1
  <2>4. ASSUME NEW c \in Ahead(k + 1) PROVE g[c] = WalkStep(d, end, g, c)
    <3>. HIDE DEF g, Ahead
    <3> QED BY <2>2, <2>3
  <2>5. g = Body(Ahead(k + 1), g)
    <3>1. g = [c \in Ahead(k + 1) |-> g[c]]
      OBVIOUS
    <3>. HIDE DEF g, Ahead
    <3> QED BY <2>4, <3>1
  <2>. HIDE DEF g, Body, Ahead
  <2> QED BY <2>5
<1>3. end \in T
  <2>. HIDE DEF T
  <2> QED BY <1>1, <1>2, Upward
<1>4. Ahead(end) = 0..end
  OBVIOUS
<1>5. PICK f : f = Body(0..end, f) /\ f = CHOOSE h : h = Body(0..end, h)
  <2>1. \E h : h = Body(0..end, h)
    <3>. HIDE DEF Body, Ahead
    <3> QED BY <1>3, <1>4
  <2>. HIDE DEF Body
  <2> QED BY <2>1
<1>6. \A start : NameFrom(d, start, end) = IF start > end THEN NoName ELSE f[start]
  BY <1>5 DEF NameFrom, WalkStep
<1>7. \A c \in 0..end : f[c] = WalkStep(d, end, f, c)
  BY <1>5
<1> QED BY <1>6, <1>7

\* What the walk finds before a cut it finds without it.
LEMMA WalkSame ==
  ASSUME NEW d, NEW all, Starts(d, all), NEW start \in Nat, NEW e \in Nat, NEW end \in Nat,
         e <= end, e <= Len(d), end <= Len(all)
  PROVE  NameFrom(d, start, e) \in {NoName, NameFrom(all, start, end)}
<1>1. d \in Seq(Octets) /\ all \in Seq(Octets) /\ Len(d) \in Nat
  BY DEF Starts
<1>2. PICK f : /\ \A c \in 0..e : f[c] = WalkStep(d, e, f, c)
               /\ NameFrom(d, start, e) = IF start > e THEN NoName ELSE f[start]
  BY <1>1, WalkEnds
<1>3. PICK g : /\ \A c \in 0..end : g[c] = WalkStep(all, end, g, c)
               /\ NameFrom(all, start, end) = IF start > end THEN NoName ELSE g[start]
  BY <1>1, WalkEnds
<1>. DEFINE T == {k \in Nat : \A c \in 0..e : c + k >= e => f[c] \in {NoName, g[c]}}
<1>4. ASSUME NEW c \in 0..e, ~(c + 4 > e \/ c + 4 + U16(d, c + 2) > e)
      PROVE  LET n == c + 4 + U16(d, c + 2)
             IN  /\ n \in 0..e /\ n > c
                 /\ (f[c] = g[c]) \/ (f[c] = f[n] /\ g[c] = g[n])
  <2>. DEFINE u == U16(d, c + 2)
              name == NameIn(Part(d, c + 4, u))
              n == c + 4 + u
  <2>1. (c + 2) + 2 <= Len(d) /\ c + 2 <= Len(d) /\ c \in Nat /\ c + 2 \in Nat /\ c + 4 \in Nat
    BY <1>1, <1>4
  <2>2. u \in Nat /\ u = U16(all, c + 2) /\ U16(d, c) = U16(all, c)
    BY <2>1, ReadSame
  <2>3. n \in 0..e /\ n > c /\ n <= end /\ n <= Len(d) /\ c \in 0..end /\ c + 4 <= end
    <3>1. ~(c + 4 + u > e) /\ ~(c + 4 > e)
      BY <1>4
    <3>2. u \in Nat
      BY <2>2
    <3>. HIDE DEF u
    <3> QED BY <1>1, <2>1, <3>1, <3>2
  <2>4. Part(all, c + 4, u) = Part(d, c + 4, u)
    <3>. HIDE DEF u
    <3> QED BY <2>1, <2>2, <2>3, PartSame
  <2>5. f[c] = IF U16(d, c) = 0 /\ name # NoName THEN name ELSE f[n]
    BY <1>2, <1>4 DEF WalkStep
  <2>6. ~(c + 4 > end) /\ ~(c + 4 + U16(all, c + 2) > end)
    <3>1. u = U16(all, c + 2)
      BY <2>2
    <3>2. ~(n > end) /\ ~(c + 4 > end)
      <4>1. n \in Nat /\ c + 4 \in Nat
        BY <2>1, <2>3
      <4>. HIDE DEF n
      <4> QED BY <2>3, <4>1
    <3> QED BY <3>1, <3>2
  <2>7. g[c] = IF U16(d, c) = 0 /\ name # NoName THEN name ELSE g[n]
    <3>1. g[c] = WalkStep(all, end, g, c)
      BY <1>3, <2>3
    <3> QED BY <2>2, <2>4, <2>6, <3>1 DEF WalkStep
  <2>8. (f[c] = g[c]) \/ (f[c] = f[n] /\ g[c] = g[n])
    <3>. HIDE DEF name, n
    <3> QED BY <2>5, <2>7
  <2> QED BY <2>3, <2>8
<1>5. ASSUME NEW c \in 0..e, c + 4 > e \/ c + 4 + U16(d, c + 2) > e PROVE f[c] = NoName
  BY <1>2, <1>5 DEF WalkStep
<1>6. 0 \in T
  <2>1. \A c \in 0..e : c + 0 >= e => c + 4 > e
    OBVIOUS
  <2> QED BY <1>5, <2>1
<1>7. ASSUME NEW k \in Nat, k \in T PROVE k + 1 \in T
  <2>1. SUFFICES ASSUME NEW c \in 0..e, c + (k + 1) >= e PROVE f[c] \in {NoName, g[c]}
    OBVIOUS
  <2>2. CASE c + 4 > e \/ c + 4 + U16(d, c + 2) > e
    BY <1>5, <2>2
  <2>3. CASE ~(c + 4 > e \/ c + 4 + U16(d, c + 2) > e)
    <3>1. PICK n \in 0..e : n > c /\ ((f[c] = g[c]) \/ (f[c] = f[n] /\ g[c] = g[n]))
      BY <1>4, <2>3
    <3>2. n + k >= e
      BY <2>1, <3>1
    <3> QED BY <1>7, <3>1, <3>2
  <2> QED BY <2>2, <2>3
<1>8. \A c \in 0..e : f[c] \in {NoName, g[c]}
  <2>1. e \in T
    <3>. HIDE DEF T
    <3> QED BY <1>6, <1>7, Upward
  <2>2. \A c \in 0..e : c + e >= e
    OBVIOUS
  <2> QED BY <2>1, <2>2
<1>9. CASE start > e
  BY <1>2, <1>9
<1>10. CASE ~(start > e)
  <2>1. start \in 0..e /\ ~(start > end)
    BY <1>10
  <2> QED BY <1>2, <1>3, <1>8, <1>10, <2>1
<1> QED BY <1>9, <1>10

LEMMA SkipSame ==
  ASSUME NEW d, NEW all, Starts(d, all), NEW c \in Nat, NEW w \in {1, 2}
  PROVE  /\ Skip(d, c, w) \in Nat
         /\ c + w <= Len(d) => Skip(d, c, w) = Skip(all, c, w)
         /\ ~(c + w <= Len(d)) => Skip(d, c, w) = Len(d)
<1>1. Len(d) \in Nat /\ Len(all) \in Nat /\ Len(d) <= Len(all)
  BY DEF Starts
<1>2. ASSUME c + w <= Len(d) PROVE Skip(d, c, w) = Skip(all, c, w) /\ Skip(d, c, w) \in Nat
  <2>. DEFINE n == IF w = 1 THEN At(d, c) ELSE U16(d, c)
  <2>1. n \in Nat /\ n = IF w = 1 THEN At(all, c) ELSE U16(all, c)
    BY <1>2, ReadSame
  <2>2. ~(c + w > Len(d)) /\ ~(c + w > Len(all))
    BY <1>1, <1>2
  <2>3. Skip(d, c, w) = c + w + n
    BY <2>2 DEF Skip
  <2>4. Skip(all, c, w) = c + w + n
    BY <2>1, <2>2 DEF Skip
  <2>. HIDE DEF n
  <2> QED BY <2>1, <2>3, <2>4
<1>3. ASSUME ~(c + w <= Len(d)) PROVE Skip(d, c, w) = Len(d)
  <2>1. c + w > Len(d)
    BY <1>1, <1>3
  <2> QED BY <2>1 DEF Skip
<1> QED BY <1>1, <1>2, <1>3

LEMMA HelloSame ==
  ASSUME NEW d, NEW all, Starts(d, all)
  PROVE  ClientHelloName(d) \in {NoName, ClientHelloName(all)}
<1>. DEFINE a == 6 + RandomLen
            e1 == Skip(d, a, 1)
            e2 == Skip(d, e1, 2)
            e3 == Skip(d, e2, 1)
<1>1. a \in Nat /\ Len(d) \in Nat /\ Len(all) \in Nat /\ Len(d) <= Len(all)
  BY SnifferConstants DEF Starts
<1>2. SUFFICES ASSUME ~(Len(d) < a), At(d, 0) = 1, ~(e3 + 2 > Len(d))
               PROVE  ClientHelloName(d) = NoName \/ ClientHelloName(d) = ClientHelloName(all)
  BY DEF ClientHelloName, Extensions
<1>. HIDE DEF a
<1>3. e1 \in Nat /\ (a + 1 <= Len(d) => e1 = Skip(all, a, 1)) /\ (~(a + 1 <= Len(d)) => e1 = Len(d))
  <2>1. ASSUME NEW c \in Nat
        PROVE  /\ Skip(d, c, 1) \in Nat
               /\ c + 1 <= Len(d) => Skip(d, c, 1) = Skip(all, c, 1)
               /\ ~(c + 1 <= Len(d)) => Skip(d, c, 1) = Len(d)
    BY SkipSame
  <2> QED BY <1>1, <2>1
<1>. HIDE DEF e1
<1>4. e2 \in Nat /\ (e1 + 2 <= Len(d) => e2 = Skip(all, e1, 2)) /\ (~(e1 + 2 <= Len(d)) => e2 = Len(d))
  BY <1>3, SkipSame
<1>. HIDE DEF e2
<1>5. e3 \in Nat /\ (e2 + 1 <= Len(d) => e3 = Skip(all, e2, 1)) /\ (~(e2 + 1 <= Len(d)) => e3 = Len(d))
  BY <1>4, SkipSame
<1>. HIDE DEF e3
<1>6. e2 + 1 <= Len(d) /\ e1 + 2 <= Len(d) /\ a + 1 <= Len(d)
  BY <1>1, <1>2, <1>3, <1>4, <1>5
<1>7. Extensions(d) = e3 /\ Extensions(all) = e3
  BY <1>3, <1>4, <1>5, <1>6 DEF Extensions, a, e1, e2, e3
<1>8. e3 + 2 \in Nat /\ e3 + 2 <= Len(d) /\ U16(d, e3) \in Nat /\ U16(d, e3) = U16(all, e3)
  <2>1. e3 + 2 \in Nat /\ e3 + 2 <= Len(d)
    BY <1>1, <1>2, <1>5
  <2> QED BY <1>5, <2>1, ReadSame
<1>. DEFINE x == e3 + 2 + U16(d, e3)
<1>9. AtMost(x, Len(d)) \in Nat /\ AtMost(x, Len(all)) \in Nat /\ AtMost(x, Len(d)) <= AtMost(x, Len(all))
      /\ AtMost(x, Len(d)) <= Len(d) /\ AtMost(x, Len(all)) <= Len(all)
  <2>1. x \in Nat
    BY <1>5, <1>8
  <2>. HIDE DEF x
  <2> QED BY <1>1, <2>1 DEF AtMost
<1>10. At(all, 0) = 1 /\ ~(Len(all) < a) /\ ~(e3 + 2 > Len(all))
  <2>1. 0 + 1 <= Len(d) /\ ~(Len(all) < a) /\ ~(e3 + 2 > Len(all))
    BY <1>1, <1>5, <1>6, <1>8
  <2> QED BY <1>2, <2>1, ReadSame
<1>11. ClientHelloName(d) = NameFrom(d, e3 + 2, AtMost(x, Len(d)))
  BY <1>2, <1>7 DEF ClientHelloName, a
<1>12. ClientHelloName(all) = NameFrom(all, e3 + 2, AtMost(x, Len(all)))
  BY <1>7, <1>8, <1>10 DEF ClientHelloName, a
<1>. HIDE DEF x
<1>13. NameFrom(d, e3 + 2, AtMost(x, Len(d))) \in {NoName, NameFrom(all, e3 + 2, AtMost(x, Len(all)))}
  BY <1>8, <1>9, WalkSame
<1> QED BY <1>11, <1>12, <1>13

LEMMA TlsSame ==
  ASSUME NEW b, NEW all, Starts(b, all)
  PROVE  TlsName(b) \in {NoName, TlsName(all)}
<1>1. Len(b) \in Nat /\ Len(all) \in Nat /\ Len(b) <= Len(all)
  BY DEF Starts
<1>2. SUFFICES ASSUME ~(Len(b) < 5), At(b, 0) = 22 PROVE TlsName(b) \in {NoName, TlsName(all)}
  BY DEF TlsName
<1>3. At(all, 0) = 22 /\ U16(b, 3) \in Nat /\ U16(b, 3) = U16(all, 3) /\ ~(Len(all) < 5)
  <2>1. 0 + 1 <= Len(b) /\ 3 + 2 <= Len(b) /\ ~(Len(all) < 5)
    BY <1>1, <1>2
  <2> QED BY <1>2, <2>1, ReadSame
<1>. DEFINE u == U16(b, 3)
            m == AtMost(u, Len(b) - 5)
            n == AtMost(u, Len(all) - 5)
<1>4. m \in Nat /\ n \in Nat /\ m <= n /\ 5 + m <= Len(b) /\ 5 + n <= Len(all)
  <2>1. u \in Nat
    BY <1>3
  <2>. HIDE DEF u
  <2> QED BY <1>1, <1>2, <2>1 DEF AtMost
<1>. HIDE DEF m, n
<1>5. Starts(Part(b, 5, m), Part(all, 5, n))
  BY <1>4, PartStarts
<1>6. ClientHelloName(Part(b, 5, m)) \in {NoName, ClientHelloName(Part(all, 5, n))}
  BY <1>5, HelloSame
<1>7. TlsName(b) = LET c == ClientHelloName(Part(b, 5, m)) IN IF c = NoName THEN NoName ELSE HostOf(c)
  BY <1>2 DEF TlsName, m
<1>8. TlsName(all) = LET c == ClientHelloName(Part(all, 5, n)) IN IF c = NoName THEN NoName ELSE HostOf(c)
  BY <1>3 DEF TlsName, n
<1> QED BY <1>6, <1>7, <1>8

\* Lines that have lost their end, or something of a line that is no Host; the
\* last of them may have lost something, be it a Host or not, when cut says so.
LEMMA HttpSame ==
  ASSUME NEW some, NEW lines, NEW s \in Nat, NEW t \in Nat, s <= t,
         DOMAIN some = 1..s, DOMAIN lines = 1..t, NEW cut \in Nat, cut = 0 \/ cut = s,
         \A i \in 1..s : some[i].key = lines[i].key,
         \A i \in 1..s : lines[i].key = "Host" /\ i # cut => some[i].value = lines[i].value
  PROVE  FirstHost(some) \in {NoName, FirstHost(lines)}
           \/ (cut \in 1..s /\ lines[cut].key = "Host" /\ FirstHost(some) = Cleaned(some[cut].value))
<1>. DEFINE Hosts(l) == {i \in Header(l) : NamesHost(l[i])}
<1>1. Hosts(some) \subseteq 1..s /\ Hosts(lines) \subseteq 1..t
  BY DEF Header
<1>2. ASSUME NEW i \in 1..s, i # cut PROVE i \in Hosts(some) <=> i \in Hosts(lines)
  <2>1. i \in Nat /\ i \in 1..t /\ \A j \in 1..i : j \in 1..s
    OBVIOUS
  <2>2. i \in Header(some) <=> i \in Header(lines)
    BY <2>1 DEF Header
  <2>3. NamesHost(some[i]) <=> NamesHost(lines[i])
    BY <1>2 DEF NamesHost
  <2> QED BY <2>2, <2>3
<1>. SUFFICES ASSUME Hosts(some) # {}
     PROVE  FirstHost(some) = FirstHost(lines)
              \/ (cut \in 1..s /\ lines[cut].key = "Host" /\ FirstHost(some) = Cleaned(some[cut].value))
  <2>1. Hosts(some) = {} => FirstHost(some) = NoName
    BY DEF FirstHost
  <2> QED BY <2>1
<1>3. PICK m \in Hosts(some) : \A k \in Hosts(some) : m <= k
  <2>. DEFINE H == Hosts(some)
  <2>1. H \subseteq Nat /\ H # {}
    BY <1>1
  <2>. HIDE DEF H
  <2>2. \E n \in H : \A k \in H : n <= k
    BY <2>1, LeastOne
  <2> QED BY <2>2 DEF H
<1>4. ASSUME NEW S, S \subseteq Nat, m \in S, \A k \in S : m <= k PROVE Min(S) = m
  <2>1. \A x \in S : (\A y \in S : x <= y) => x = m
    BY <1>4
  <2> QED BY <1>4, <2>1 DEF Min
<1>5. m \in 1..s /\ Hosts(some) \subseteq Nat /\ Hosts(lines) \subseteq Nat
  BY <1>1
<1>6. FirstHost(some) = Cleaned(some[m].value)
  <2>1. Min(Hosts(some)) = m
    <3>. HIDE DEF Hosts
    <3> QED BY <1>3, <1>4, <1>5
  <2> QED BY <2>1 DEF FirstHost
<1>7. CASE m = cut
  <2>1. some[m].key = "Host"
    BY DEF NamesHost
  <2> QED BY <1>5, <1>6, <1>7, <2>1
<1>8. CASE m # cut
  <2>1. m \in Hosts(lines)
    BY <1>2, <1>5, <1>8
  <2>2. \A k \in Hosts(lines) : m <= k
    <3>. SUFFICES ASSUME NEW k \in Hosts(lines) PROVE m <= k
      OBVIOUS
    <3>1. k \in 1..t
      BY <1>1
    <3>2. CASE k \in 1..s /\ k # cut
      BY <1>2, <1>3, <3>2
    <3>3. CASE ~(k \in 1..s /\ k # cut)
      <4>1. m \in Nat /\ k \in Nat /\ m <= s /\ (k <= s => k = s)
        BY <1>5, <3>1, <3>3
      <4>. HIDE DEF Hosts
      <4> QED BY <4>1
    <3> QED BY <3>2, <3>3
  <2>3. Min(Hosts(lines)) = m
    <3>. HIDE DEF Hosts
    <3> QED BY <1>4, <1>5, <2>1, <2>2
  <2>4. some[m].value = lines[m].value
    BY <1>5, <1>8, <2>1 DEF NamesHost
  <2>5. FirstHost(lines) = Cleaned(lines[m].value)
    BY <2>1, <2>3 DEF FirstHost
  <2> QED BY <1>6, <2>4, <2>5
<1> QED BY <1>7, <1>8

SniffInv ==
  \/ \E h \in Hellos : /\ sent = [kind |-> "tls", what |-> h]
                       /\ column \in 0..Len(h.bytes)
  \/ \E q \in Requests : /\ sent = [kind |-> "http", what |-> q]
                         /\ line \in 0..Len(q.lines) /\ column \in Nat
                         /\ column > 0 => /\ line < Len(q.lines)
                                          /\ column <= Len(q.lines[line + 1].value)

LEMMA SniffStarts == SniffInit => SniffInv
<1>. SUFFICES ASSUME SniffInit PROVE SniffInv
  OBVIOUS
<1>1. line = 0 /\ column = 0
  BY DEF SniffInit
<1>2. CASE \E h \in Hellos : sent = [kind |-> "tls", what |-> h]
  <2>1. PICK h \in Hellos : sent = [kind |-> "tls", what |-> h]
    BY <1>2
  <2>2. 0 \in 0..Len(h.bytes)
    BY SnifferConstants
  <2> QED BY <1>1, <2>1, <2>2 DEF SniffInv
<1>3. CASE \E q \in Requests : sent = [kind |-> "http", what |-> q]
  <2>1. PICK q \in Requests : sent = [kind |-> "http", what |-> q]
    BY <1>3
  <2>2. 0 \in 0..Len(q.lines) /\ ~(0 > 0)
    BY SnifferConstants
  <2>3. line \in 0..Len(q.lines) /\ column \in Nat /\ ~(column > 0)
    BY <1>1, <2>2
  <2> QED BY <2>1, <2>3 DEF SniffInv
<1> QED BY <1>2, <1>3 DEF SniffInit

LEMMA SniffStays == SniffInv /\ [SniffNext]_sniffVars => SniffInv'
<1>. SUFFICES ASSUME SniffInv, [SniffNext]_sniffVars PROVE SniffInv'
  OBVIOUS
<1>1. CASE HelloGrows
  <2>1. PICK h \in Hellos : sent = [kind |-> "tls", what |-> h] /\ column \in 0..Len(h.bytes)
    BY <1>1 DEF SniffInv, HelloGrows
  <2>2. column' = column + 1 /\ column < Len(h.bytes) /\ sent' = sent
    BY <1>1, <2>1 DEF HelloGrows
  <2>3. Len(h.bytes) \in Nat
    BY SnifferConstants
  <2>4. column' \in 0..Len(h.bytes)
    BY <2>1, <2>2, <2>3
  <2> QED BY <2>1, <2>2, <2>4 DEF SniffInv
<1>2. CASE RequestGrows
  <2>1. PICK q \in Requests : /\ sent = [kind |-> "http", what |-> q]
                              /\ line \in 0..Len(q.lines) /\ column \in Nat
    BY <1>2 DEF SniffInv, RequestGrows
  <2>. DEFINE v == q.lines[line + 1].value
  <2>2. /\ sent' = sent /\ line < Len(q.lines)
        /\ IF column < Len(v) THEN column' = column + 1 /\ line' = line ELSE column' = 0 /\ line' = line + 1
    BY <1>2, <2>1 DEF RequestGrows
  <2>3. Len(q.lines) \in Nat /\ Len(v) \in Nat
    <3>1. q.lines \in Seq([key : STRING, value : Seq(0..255)]) /\ line + 1 \in 1..Len(q.lines)
      BY <2>1, <2>2, SnifferConstants
    <3>. DEFINE R == [key : STRING, value : Seq(0..255)]
    <3>2. q.lines[line + 1] \in R
      <4>1. q.lines \in Seq(R)
        BY <3>1
      <4>. HIDE DEF R
      <4> QED BY <3>1, <4>1
    <3>3. ASSUME NEW r \in [key : STRING, value : Seq(0..255)] PROVE Len(r.value) \in Nat
      <4>1. r.value \in Seq(0..255)
        OBVIOUS
      <4> QED BY <4>1
    <3> QED BY <3>1, <3>2, <3>3
  <2>4. /\ line' \in 0..Len(q.lines) /\ column' \in Nat
        /\ column' > 0 => line' < Len(q.lines) /\ line' = line /\ column' <= Len(v)
    <3>. HIDE DEF v
    <3> QED BY <2>1, <2>2, <2>3
  <2> QED BY <2>1, <2>2, <2>4 DEF SniffInv
<1>3. CASE UNCHANGED sniffVars
  BY <1>3 DEF SniffInv, sniffVars
<1> QED BY <1>1, <1>2, <1>3 DEF SniffNext

LEMMA NeverMisreads == SniffInv => NeverMisread
<1>. SUFFICES ASSUME SniffInv
     PROVE  Sniffed \in {NoName, WholeName} \/ (CutInHost /\ Sniffed = CutName)
  BY DEF NeverMisread
<1>1. ASSUME NEW h \in Hellos, sent = [kind |-> "tls", what |-> h], column \in 0..Len(h.bytes)
      PROVE  Sniffed \in {NoName, WholeName}
  <2>1. h.bytes \in Seq(Octets) /\ column \in Nat /\ column <= Len(h.bytes)
    BY <1>1, SnifferConstants DEF Octets
  <2>2. Part(h.bytes, 0, column) = SubSeq(h.bytes, 1, column)
    BY <2>1 DEF Part
  <2>3. Starts(SubSeq(h.bytes, 1, column), h.bytes)
    <3>1. /\ Part(h.bytes, 0, column) \in Seq(Octets) /\ Len(Part(h.bytes, 0, column)) = column
          /\ \A k \in 1..column : Part(h.bytes, 0, column)[k] = h.bytes[0 + k]
      BY <2>1, PartFits
    <3>2. \A k \in 1..column : 0 + k = k
      BY <2>1
    <3> QED BY <2>1, <2>2, <3>1, <3>2 DEF Starts
  <2>4. Sniffed = TlsName(SubSeq(h.bytes, 1, column)) /\ WholeName = TlsName(h.bytes)
    BY <1>1 DEF Sniffed, WholeName
  <2> QED BY <2>3, <2>4, TlsSame
<1>2. ASSUME NEW q \in Requests, sent = [kind |-> "http", what |-> q],
             line \in 0..Len(q.lines), column \in Nat,
             column > 0 => line < Len(q.lines) /\ column <= Len(q.lines[line + 1].value)
      PROVE  Sniffed \in {NoName, WholeName} \/ (CutInHost /\ Sniffed = CutName)
  <2>. DEFINE all == q.lines
              R == [key : STRING, value : Seq(0..255)]
              n == End.line
              first == SubSeq(all, 1, n)
  <2>1. all \in Seq(R) /\ Len(all) \in Nat /\ DOMAIN all = 1..Len(all)
    BY SnifferConstants
  <2>2. /\ n \in Nat /\ n <= Len(all) /\ End.column \in Nat
        /\ End.column > 0 => n < Len(all) /\ End.column <= Len(all[n + 1].value)
    <3>1. CASE Overlong
      <4>1. End = q.window
        BY <1>2, <3>1 DEF End
      <4>2. /\ q.window.line \in 0..Len(all) /\ q.window.column \in Nat
            /\ q.window.column > 0 => /\ q.window.line < Len(all)
                                     /\ q.window.column <= Len(all[q.window.line + 1].value)
        BY SnifferConstants
      <4> QED BY <2>1, <4>1, <4>2
    <3>2. CASE ~Overlong
      <4>1. End.line = line /\ End.column = column
        BY <3>2 DEF End
      <4> QED BY <1>2, <2>1, <4>1
    <3> QED BY <3>1, <3>2
  <2>3. Sniffed = HttpHost(Lines) /\ WholeName = FirstHost(all)
    BY <1>2 DEF Sniffed, WholeName
  <2>4. SUFFICES FirstHost(Lines) \in {NoName, FirstHost(all)} \/ (CutInHost /\ FirstHost(Lines) = CutName)
    BY <2>3 DEF HttpHost
  <2>5. /\ first \in Seq(R) /\ Len(first) = n /\ DOMAIN first = 1..n
        /\ \A i \in 1..n : first[i] = all[i]
    <3>. HIDE DEF R, all, n
    <3> QED BY <2>1, <2>2
  <2>6. CASE End.column = 0
    <3>1. Lines = first \o <<>>
      BY <1>2, <2>6 DEF Lines
    <3>2. first \o <<>> = first
      <4>. HIDE DEF first, R, all, n
      <4> QED BY <2>5
    <3>3. Len(first) \in Nat /\ Len(first) <= Len(all) /\ DOMAIN first = 1..Len(first)
      BY <2>2, <2>5
    <3>. HIDE DEF first, all, n
    <3>4. 0 \in Nat /\ 0 \notin 1..n
      BY <2>2
    <3>5. \A i \in 1..n : first[i].key = all[i].key /\ first[i].value = all[i].value
      BY <2>5
    <3>6. \/ FirstHost(first) \in {NoName, FirstHost(all)}
          \/ 0 \in 1..n /\ all[0].key = "Host" /\ FirstHost(first) = Cleaned(first[0].value)
      BY <2>1, <2>2, <2>5, <3>4, <3>5, HttpSame
    <3> QED BY <3>1, <3>2, <3>4, <3>6
  <2>7. CASE End.column > 0
    <3>. DEFINE l == all[n + 1]
                part == SubSeq(l.value, 1, End.column)
                cut == [l EXCEPT !.value = part]
                some == first \o <<cut>>
    <3>1. n + 1 \in 1..Len(all) /\ l \in R
      <4>1. n + 1 \in 1..Len(all)
        BY <2>1, <2>2, <2>7
      <4>. HIDE DEF R, n
      <4> QED BY <2>1, <4>1
    <3>2. Lines = some
      <4>1. End.column # 0 /\ sent.what.lines = all
        BY <1>2, <2>2, <2>7
      <4> QED BY <4>1 DEF Lines
    <3>3. cut.key = l.key /\ cut.value = part
      BY <3>1
    <3>4. part = l.value \/ (l.key = "Host" => CutInHost)
      <4>1. l.value \in Seq(0..255)
        BY <3>1
      <4>2. ASSUME NEW v \in Seq(0..255) PROVE SubSeq(v, 1, Len(v)) = v
        OBVIOUS
      <4>3. End.column = Len(l.value) => part = l.value
        BY <4>1, <4>2
      <4>4. Len(l.value) \in Nat
        BY <4>1
      <4>5. End.column < Len(l.value) /\ l.key = "Host" => CutInHost
        BY <1>2, <2>7 DEF CutInHost
      <4> QED BY <2>2, <2>7, <4>3, <4>4, <4>5
    <3>5. CutName = Cleaned(part)
      BY <1>2 DEF CutName
    <3>. HIDE DEF cut, part
    <3>6. /\ Len(some) = n + 1 /\ DOMAIN some = 1..(n + 1)
          /\ some[n + 1] = cut /\ \A i \in 1..n : some[i] = first[i]
      <4>. HIDE DEF first, R, all, n
      <4> QED BY <2>2, <2>5
    <3>. HIDE DEF some, first, l, n
    <3>7. \A i \in 1..(n + 1) : i = n + 1 \/ i \in 1..n
      BY <2>2
    <3>8. ASSUME NEW i \in 1..(n + 1)
          PROVE  /\ some[i].key = all[i].key
                 /\ i # n + 1 \/ part = l.value => some[i].value = all[i].value
      <4>1. CASE i = n + 1
        BY <3>1, <3>3, <3>6, <4>1 DEF l
      <4>2. CASE i \in 1..n
        <5>1. some[i] = all[i]
          BY <2>5, <3>6, <4>2
        <5> QED BY <5>1
      <4> QED BY <3>7, <4>1, <4>2
    <3>9. Len(some) \in Nat /\ Len(some) <= Len(all)
      BY <2>1, <3>1, <3>6
    <3>10. all[n + 1].key = l.key
      BY DEF l
    <3>. HIDE DEF all
    <3>11. CASE part = l.value
      <4>1. 0 \in Nat /\ 0 \notin 1..(n + 1) /\ n + 1 \in Nat /\ n + 1 <= Len(all)
        BY <2>2, <3>6, <3>9
      <4>2. \/ FirstHost(some) \in {NoName, FirstHost(all)}
            \/ 0 \in 1..(n + 1) /\ all[0].key = "Host" /\ FirstHost(some) = Cleaned(some[0].value)
        BY <2>1, <3>6, <3>8, <3>11, <4>1, HttpSame
      <4> QED BY <3>2, <4>1, <4>2
    <3>12. CASE part # l.value
      <4>1. \/ FirstHost(some) \in {NoName, FirstHost(all)}
            \/ l.key = "Host" /\ FirstHost(some) = Cleaned(some[n + 1].value)
        <5>1. n + 1 \in Nat /\ n + 1 <= Len(all)
          BY <2>2, <3>6, <3>9
        <5>2. \A i \in 1..(n + 1) : some[i].key = all[i].key
          BY <3>8
        <5>3. \A i \in 1..(n + 1) : all[i].key = "Host" /\ i # n + 1 => some[i].value = all[i].value
          BY <3>8
        <5>4. \/ FirstHost(some) \in {NoName, FirstHost(all)}
              \/ n + 1 \in 1..(n + 1) /\ all[n + 1].key = "Host" /\ FirstHost(some) = Cleaned(some[n + 1].value)
          BY <2>1, <3>6, <5>1, <5>2, <5>3, HttpSame
        <5> QED BY <3>10, <5>4
      <4>2. some[n + 1].value = part
        BY <3>3, <3>6
      <4> QED BY <3>2, <3>4, <3>5, <3>12, <4>1, <4>2
    <3> QED BY <3>11, <3>12
  <2> QED BY <2>2, <2>6, <2>7
<1> QED BY <1>1, <1>2 DEF SniffInv

\* parse_tls_sni and parse_http_host of sniffer.rs read a name off whatever part
\* of the first bytes came with the first read, of a request no more than its
\* window and only if all of that is text, and never a name other than what the
\* first Host line, or the hello, has as a whole; only what ends inside the value
\* of a Host line may give what is made of that part of it.
THEOREM PrefixesAreSafe == SniffInit /\ [][SniffNext]_sniffVars => []NeverMisread
BY SniffStarts, SniffStays, NeverMisreads, PTL

-----------------------------------------------------------------------------
(* The building of outbounds. *)

\* What is built refers to what is built, and no part of it is a ring.
Rooted(nodes) ==
  /\ \A e \in nodes : ToSet(e.refs) \subseteq TagsOf(nodes)
  /\ \A ring \in SUBSET nodes :
       ring # {} => \E e \in ring : ToSet(e.refs) \cap TagsOf(ring) = {}

OwnTags(nodes) == \A a, b \in nodes : a.tag = b.tag => a = b

Split ==
  /\ config \in Configs
  /\ built \subseteq ToSet(config) \cup Implicit /\ unbuilt \subseteq ToSet(config)
  /\ ToSet(config) \subseteq built \cup unbuilt /\ built \cap unbuilt = {}
  /\ TagsOf(Implicit) \subseteq TagsOf(built)
  /\ OwnTags(built \cup unbuilt)

BuildInv ==
  /\ Split /\ Rooted(built)
  /\ phase \in {"ready", "down"} => unbuilt = {}
  /\ phase = "failed" => unbuilt # {} /\ \A e \in unbuilt : ~Resolved(e, TagsOf(built))

\* A node that refers to what is built, under a tag of its own, closes no ring.
LEMMA RootedGrows ==
  ASSUME NEW nodes, Rooted(nodes), NEW e, Resolved(e, TagsOf(nodes)), e.tag \notin TagsOf(nodes)
  PROVE  Rooted(nodes \cup {e})
<1>. DEFINE more == nodes \cup {e}
<1>1. ASSUME NEW x \in more PROVE ToSet(x.refs) \subseteq TagsOf(nodes) /\ TagsOf(nodes) \subseteq TagsOf(more)
  BY DEF Rooted, Resolved, TagsOf
<1>2. ASSUME NEW ring \in SUBSET more, ring # {}
      PROVE  \E x \in ring : ToSet(x.refs) \cap TagsOf(ring) = {}
  <2>. DEFINE old == ring \ {e}
  <2>1. old \in SUBSET nodes /\ \A x \in ring : x \in old \/ x = e
    OBVIOUS
  <2>2. CASE old = {}
    <3>1. e \in ring /\ TagsOf(ring) = {e.tag}
      BY <1>2, <2>1, <2>2 DEF TagsOf
    <3> QED BY <3>1 DEF Resolved
  <2>3. CASE old # {}
    <3>1. PICK x \in old : ToSet(x.refs) \cap TagsOf(old) = {}
      BY <2>1, <2>3 DEF Rooted
    <3>2. TagsOf(ring) \subseteq TagsOf(old) \cup {e.tag}
      BY <2>1 DEF TagsOf
    <3>3. x \in ring /\ e.tag \notin ToSet(x.refs)
      BY <1>1, <2>1
    <3> QED BY <3>1, <3>2, <3>3
  <2> QED BY <2>2, <2>3
<1> QED BY <1>1, <1>2 DEF Rooted

\* A round keeps what is built rooted; one that adds nothing had nothing to add.
LEMMA RoundBuilds ==
  ASSUME NEW nodes, NEW entries, Len(config) \in Nat, DOMAIN config = 1..Len(config),
         entries \subseteq ToSet(config), Rooted(nodes), OwnTags(nodes \cup entries)
  PROVE  /\ nodes \subseteq Round(nodes, entries) /\ Round(nodes, entries) \subseteq nodes \cup entries
         /\ Rooted(Round(nodes, entries))
         /\ Round(nodes, entries) = nodes /\ nodes \cap entries = {} =>
              \A e \in entries : ~Resolved(e, TagsOf(nodes))
<1>. DEFINE N == Len(config)
            Grown(f, n) == IF config[n] \in entries /\ Resolved(config[n], TagsOf(f[n - 1]))
                           THEN f[n - 1] \cup {config[n]} ELSE f[n - 1]
            Step(f, n) == IF n = 0 THEN nodes ELSE Grown(f, n)
            Body(k, f) == [n \in 0..k |-> Step(f, n)]
<1>1. \E f : f = Body(N, f)
  <2>. DEFINE T == {k \in Nat : \E f : f = Body(k, f)}
  <2>1. 0 \in T
    <3>1. [n \in 0..0 |-> nodes] = Body(0, [n \in 0..0 |-> nodes])
      OBVIOUS
    <3> QED BY <3>1
  <2>2. ASSUME NEW k \in Nat, k \in T PROVE k + 1 \in T
    <3>1. PICK f : f = Body(k, f)
      BY <2>2
    <3>. DEFINE g == [n \in 0..(k + 1) |-> IF n = k + 1
                        THEN IF config[n] \in entries /\ Resolved(config[n], TagsOf(f[k]))
                             THEN f[k] \cup {config[n]} ELSE f[k]
                        ELSE f[n]]
    <3>2. ASSUME NEW n \in 0..(k + 1) PROVE g[n] = Step(g, n)
      <4>1. CASE n = k + 1
        <5>1. k \in 0..(k + 1) /\ n - 1 = k /\ n # 0 /\ k # k + 1
          BY <4>1
        <5>2. g[k] = f[k]
          BY <5>1
        <5> QED BY <4>1, <5>1, <5>2
      <4>2. CASE n # k + 1
        <5>1. n \in 0..k /\ (n # 0 => n - 1 \in 0..(k + 1) /\ n - 1 # k + 1)
          BY <4>2
        <5>2. g[n] = f[n] /\ f[n] = Step(f, n) /\ (n # 0 => g[n - 1] = f[n - 1])
          BY <3>1, <4>2, <5>1
        <5> QED BY <5>2
      <4> QED BY <4>1, <4>2
    <3>3. g = [n \in 0..(k + 1) |-> g[n]]
      OBVIOUS
    <3>. HIDE DEF Step, g
    <3>4. g = Body(k + 1, g)
      BY <3>2, <3>3
    <3>. HIDE DEF Body
    <3> QED BY <3>4
  <2>. HIDE DEF T
  <2>3. N \in T
    BY <2>1, <2>2, Upward
  <2> QED BY <2>3 DEF T
<1>2. PICK f : f = Body(N, f) /\ Round(nodes, entries) = f[N]
  <2>1. Round(nodes, entries) = (CHOOSE f : f = Body(N, f))[N]
    BY DEF Round
  <2> QED BY <1>1, <2>1
<1>3. \A n \in 0..N : f[n] = Step(f, n)
  <2>. HIDE DEF Step
  <2> QED BY <1>2
<1>. DEFINE Grows(n) == nodes \subseteq f[n] /\ f[n] \subseteq nodes \cup entries /\ Rooted(f[n])
            T == {n \in Nat : n <= N => Grows(n)}
<1>4. ASSUME NEW n \in Nat, n + 1 <= N PROVE f[n + 1] = Grown(f, n + 1) /\ n \in 0..N /\ (n + 1) - 1 = n
  <2>. HIDE DEF Grown
  <2>1. n + 1 \in 0..N /\ n + 1 # 0 /\ n \in 0..N /\ (n + 1) - 1 = n
    BY <1>4
  <2> QED BY <1>3, <2>1
<1>5. 0 \in T
  <2>1. 0 \in 0..N /\ f[0] = nodes
    <3>. HIDE DEF Grown
    <3> QED BY <1>3
  <2>2. Grows(0)
    BY <2>1
  <2>. HIDE DEF Grows
  <2> QED BY <2>2
<1>6. ASSUME NEW n \in Nat, n \in T PROVE n + 1 \in T
  <2>. SUFFICES ASSUME n + 1 <= N PROVE Grows(n + 1)
    BY DEF T
  <2>1. Grows(n)
    BY <1>6
  <2>. DEFINE c == config[n + 1]
  <2>2. f[n + 1] = IF c \in entries /\ Resolved(c, TagsOf(f[n])) THEN f[n] \cup {c} ELSE f[n]
    BY <1>4
  <2>. HIDE DEF c
  <2>3. CASE c \in entries /\ Resolved(c, TagsOf(f[n])) /\ c \notin f[n]
    <3>1. c.tag \notin TagsOf(f[n])
      BY <2>1, <2>3 DEF TagsOf, OwnTags
    <3> QED BY <2>1, <2>2, <2>3, <3>1, RootedGrows
  <2>4. CASE ~(c \in entries /\ Resolved(c, TagsOf(f[n])) /\ c \notin f[n])
    <3>1. f[n + 1] = f[n]
      BY <2>2, <2>4
    <3> QED BY <2>1, <3>1
  <2> QED BY <2>3, <2>4
<1>7. ASSUME NEW n \in 0..N PROVE Grows(n)
  <2>. HIDE DEF T
  <2>1. n \in T
    BY <1>5, <1>6, Upward, SMTT(30)
  <2> QED BY <2>1 DEF T
<1>8. N \in 0..N
  OBVIOUS
<1>9. ASSUME f[N] = nodes, nodes \cap entries = {}, NEW e \in entries, Resolved(e, TagsOf(nodes))
      PROVE  FALSE
  <2>. DEFINE D == {n \in Nat : n <= N => f[N - n] \subseteq nodes}
  <2>1. 0 \in D
    BY <1>9
  <2>2. ASSUME NEW n \in Nat, n \in D PROVE n + 1 \in D
    <3>. SUFFICES ASSUME n + 1 <= N PROVE f[N - (n + 1)] \subseteq nodes
      OBVIOUS
    <3>1. N - (n + 1) \in Nat /\ (N - (n + 1)) + 1 <= N /\ (N - (n + 1)) + 1 = N - n
      OBVIOUS
    <3>2. f[N - n] = Grown(f, N - n) /\ (N - n) - 1 = N - (n + 1)
      BY <1>4, <3>1
    <3>3. f[N - (n + 1)] \subseteq f[N - n]
      BY <3>2
    <3> QED BY <2>2, <3>3
  <2>3. \A n \in Nat : n \in D
    <3>. HIDE DEF D
    <3> QED BY <2>1, <2>2, Upward
  <2>4. PICK i \in 1..N : e = config[i]
    BY <1>9 DEF ToSet
  <2>5. i - 1 \in Nat /\ (i - 1) + 1 = i /\ i <= N /\ i - 1 \in 0..N /\ i \in 0..N /\ N - i \in Nat /\ N - (N - i) = i
    OBVIOUS
  <2>6. f[i] = Grown(f, i) /\ f[i] \subseteq nodes /\ nodes \subseteq f[i - 1]
    <3>1. f[(i - 1) + 1] = Grown(f, (i - 1) + 1)
      BY <1>4, <2>5
    <3>2. N - i \in D /\ N - i <= N
      BY <2>3, <2>5
    <3>3. Grows(i - 1)
      BY <1>7, <2>5
    <3> QED BY <2>5, <3>1, <3>2, <3>3
  <2>7. Resolved(e, TagsOf(f[i - 1]))
    BY <1>9, <2>6 DEF Resolved, TagsOf
  <2>8. e \in f[i]
    BY <1>9, <2>4, <2>6, <2>7
  <2> QED BY <1>9, <2>6, <2>8
<1> QED BY <1>2, <1>7, <1>8, <1>9

LEMMA ConfigShape ==
  ASSUME NEW c \in Configs
  PROVE  /\ Len(c) \in Nat /\ DOMAIN c = 1..Len(c) /\ OwnTags(ToSet(c))
         /\ \A e \in ToSet(c) : e.tag \in {"direct", "block"} => Leaf(e)
<1>1. c \in Seq(ToSet(c))
  BY BuildConstants
<1>2. \A i, j \in DOMAIN c : c[i].tag = c[j].tag => i = j
  BY BuildConstants
<1>3. OwnTags(ToSet(c))
  BY <1>2 DEF OwnTags, ToSet
<1> QED BY <1>1, <1>3, BuildConstants

LEMMA LeafRooted ==
  ASSUME NEW nodes, \A e \in nodes : e.refs = <<>>
  PROVE  Rooted(nodes)
<1>1. \A e \in nodes : ToSet(e.refs) = {}
  <2>1. ToSet(<<>>) = {}
    BY DEF ToSet
  <2> QED BY <2>1
<1> QED BY <1>1 DEF Rooted

LEMMA BuildStarts == BuildInit => BuildInv
<1>. SUFFICES ASSUME BuildInit PROVE BuildInv
  OBVIOUS
<1>. DEFINE rest == {e \in Implicit : e.tag \notin TagsOf(Leaves(config))}
<1>1. /\ config \in Configs /\ phase = "building"
      /\ built = Leaves(config) \cup rest /\ unbuilt = ToSet(config) \ Leaves(config)
  BY DEF BuildInit
<1>2. /\ OwnTags(ToSet(config))
      /\ \A e \in ToSet(config) : e.tag \in {"direct", "block"} => Leaf(e)
  BY <1>1, ConfigShape
<1>3. \A e \in Implicit : e.refs = <<>> /\ e.tag \in {"direct", "block"}
  BY DEF Implicit
<1>4. \A a, b \in Implicit : a.tag = b.tag => a = b
  BY DEF Implicit
<1>5. Leaves(config) \subseteq ToSet(config) /\ \A e \in Leaves(config) : e.refs = <<>>
  BY DEF Leaves, Leaf
<1>6. \A e \in rest : e \in Implicit /\ \A x \in ToSet(config) : x.tag # e.tag
  <2>. SUFFICES ASSUME NEW e \in rest, NEW x \in ToSet(config), x.tag = e.tag PROVE FALSE
    OBVIOUS
  <2>1. x \in Leaves(config)
    BY <1>2, <1>3 DEF Leaves
  <2> QED BY <2>1 DEF TagsOf
<1>7. Rooted(built)
  BY <1>1, <1>3, <1>5, LeafRooted
<1>8. OwnTags(built \cup unbuilt)
  <2>1. built \cup unbuilt = ToSet(config) \cup rest
    BY <1>1, <1>5
  <2>. HIDE DEF rest
  <2> QED BY <1>2, <1>4, <1>6, <2>1 DEF OwnTags
<1>9. TagsOf(Implicit) \subseteq TagsOf(built)
  BY <1>1 DEF TagsOf
<1>10. built \cap unbuilt = {}
  <2>. HIDE DEF rest
  <2> QED BY <1>1, <1>6
<1>11. Split
  <2>1. built \subseteq ToSet(config) \cup Implicit /\ unbuilt \subseteq ToSet(config)
        /\ ToSet(config) \subseteq built \cup unbuilt
    BY <1>1, <1>5
  <2> QED BY <1>1, <1>8, <1>9, <1>10, <2>1 DEF Split
<1> QED BY <1>1, <1>7, <1>11 DEF BuildInv

LEMMA BuildStays == BuildInv /\ [BuildNext]_buildVars => BuildInv'
<1>. SUFFICES ASSUME BuildInv, [BuildNext]_buildVars PROVE BuildInv'
  OBVIOUS
<1>1. CASE BuildRound
  <2>. DEFINE after == Round(built, unbuilt)
  <2>1. config' = config /\ phase = "building"
    BY <1>1 DEF BuildRound
  <2>2. /\ built \subseteq after /\ after \subseteq built \cup unbuilt /\ Rooted(after)
        /\ after = built => \A e \in unbuilt : ~Resolved(e, TagsOf(built))
    <3>1. /\ Len(config) \in Nat /\ DOMAIN config = 1..Len(config) /\ unbuilt \subseteq ToSet(config)
          /\ Rooted(built) /\ OwnTags(built \cup unbuilt) /\ built \cap unbuilt = {}
      BY ConfigShape DEF BuildInv, Split
    <3> QED BY <3>1, RoundBuilds
  <2>. HIDE DEF after
  <2>3. CASE after = built
    <3>1. phase' = "failed" /\ UNCHANGED <<config, built, unbuilt>> /\ unbuilt # {}
      BY <1>1, <2>1, <2>3 DEF BuildRound, after
    <3>2. Split' /\ Rooted(built)' 
      BY <3>1 DEF BuildInv, Split, Rooted, OwnTags, TagsOf, Implicit
    <3>3. \A e \in unbuilt : ~Resolved(e, TagsOf(built))
      BY <2>2, <2>3
    <3> QED BY <3>1, <3>2, <3>3 DEF BuildInv
  <2>4. CASE after # built
    <3>1. built' = after /\ unbuilt' = unbuilt \ after /\ phase' = "building"
      BY <1>1, <2>1, <2>4 DEF BuildRound, after
    <3>2. Rooted(built)'
      BY <2>2, <3>1 DEF Rooted
    <3>3. built' \cup unbuilt' = built \cup unbuilt /\ built' \cap unbuilt' = {}
      BY <2>2, <3>1
    <3>4. TagsOf(Implicit) \subseteq TagsOf(built')
      BY <2>2, <3>1 DEF BuildInv, Split, TagsOf
    <3>5. Split'
      BY <2>1, <2>2, <3>1, <3>3, <3>4 DEF BuildInv, Split, OwnTags
    <3> QED BY <3>1, <3>2, <3>5 DEF BuildInv
  <2> QED BY <2>3, <2>4
<1>2. ASSUME UNCHANGED <<config, built, unbuilt>> PROVE Split' /\ Rooted(built)'
  BY <1>2 DEF BuildInv, Split, Rooted, OwnTags
<1>3. CASE BuildEnds
  BY <1>2, <1>3 DEF BuildEnds, BuildInv
<1>4. CASE TreeDown
  BY <1>2, <1>4 DEF TreeDown, BuildInv
<1>5. CASE UNCHANGED buildVars
  BY <1>2, <1>5 DEF buildVars, BuildInv
<1> QED BY <1>1, <1>3, <1>4, <1>5 DEF BuildNext

LEMMA InvDecides == BuildInv => BuildDecides
<1>. SUFFICES ASSUME BuildInv PROVE BuildDecides
  OBVIOUS
<1>1. TagsOf(built) \subseteq Known(config) /\ Known(config) \subseteq TagsOf(built) \cup TagsOf(unbuilt)
  BY DEF BuildInv, Split, Known, TagsOf
<1>2. ASSUME phase = "failed", ~Dangling(config) PROVE Circular(config)
  <2>1. unbuilt # {} /\ unbuilt \in SUBSET ToSet(config)
    BY <1>2 DEF BuildInv, Split
  <2>2. ASSUME NEW e \in unbuilt PROVE ToSet(e.refs) \cap TagsOf(unbuilt) # {}
    <3>1. ToSet(e.refs) \subseteq Known(config)
      BY <1>2, <2>1 DEF Dangling
    <3>2. PICK r \in ToSet(e.refs) : r \notin TagsOf(built)
      BY <1>2 DEF BuildInv, Resolved
    <3> QED BY <1>1, <3>1, <3>2
  <2> QED BY <2>1, <2>2 DEF Circular
<1>3. ASSUME phase \in {"ready", "down"}
      PROVE  ~Circular(config) /\ ~Dangling(config) /\ TagsOf(built) = Known(config)
  <2>1. unbuilt = {} /\ ToSet(config) \subseteq built /\ TagsOf(unbuilt) = {}
    BY <1>3 DEF BuildInv, Split, TagsOf
  <2>2. TagsOf(built) = Known(config)
    BY <1>1, <2>1
  <2>3. ~Circular(config)
    BY <2>1 DEF Circular, BuildInv, Rooted
  <2>4. ~Dangling(config)
    BY <2>1, <2>2 DEF Dangling, BuildInv, Rooted
  <2> QED BY <2>2, <2>3, <2>4
<1> QED BY <1>2, <1>3 DEF BuildDecides

\* OutboundManager::new ends with a node for every entry, or with an error exactly
\* when some groups form a ring or refer to a tag that nothing has: for every list
\* of entries, in whatever order, and every depth of groups in groups.
THEOREM BuildingDecides == BuildInit /\ [][BuildNext]_buildVars => []BuildDecides
BY BuildStarts, BuildStays, InvDecides, PTL

-----------------------------------------------------------------------------
(* Turns: the tree as connections go down it. *)

Standing == BuildInv /\ unbuilt = {}

LEMMA NodesStand ==
  ASSUME Standing
  PROVE  /\ TagsOf(built) = Known(config) /\ Default \in Known(config)
         /\ \A t \in Known(config) :
              /\ Node(t) \in built /\ Node(t).tag = t
              /\ Members(t) \in Seq(ToSet(Members(t))) /\ ToSet(Members(t)) \subseteq Known(config)
         /\ \A e \in built : e.tag \in Known(config) /\ Node(e.tag) = e
<1>1. /\ config \in Configs /\ built \subseteq ToSet(config) \cup Implicit
      /\ OwnTags(built) /\ Rooted(built) /\ TagsOf(built) = Known(config)
  BY DEF Standing, BuildInv, Split, OwnTags, Known, TagsOf
<1>2. ASSUME NEW e \in built
      PROVE  /\ e.tag \in Known(config) /\ Node(e.tag) = e
             /\ e.refs \in Seq(ToSet(e.refs)) /\ ToSet(e.refs) \subseteq Known(config)
  <2>1. e.tag \in Known(config)
    BY <1>1 DEF TagsOf
  <2>2. Node(e.tag) = e
    BY <1>1 DEF Node, OwnTags
  <2>3. e.refs \in Seq(ToSet(e.refs))
    <3>1. CASE e \in ToSet(config)
      BY <1>1, <3>1, BuildConstants
    <3>2. CASE e \in Implicit
      <4>1. e.refs = <<>>
        BY <3>2 DEF Implicit
      <4> QED BY <4>1
    <3> QED BY <1>1, <3>1, <3>2
  <2> QED BY <1>1, <2>1, <2>2, <2>3 DEF Rooted
<1>3. ASSUME NEW t \in Known(config) PROVE Node(t) \in built /\ Node(t).tag = t
  <2>1. PICK e \in built : e.tag = t
    BY <1>1 DEF TagsOf
  <2> QED BY <1>2, <2>1
<1>4. Default \in Known(config)
  BY <1>1, OutboundsConstants
<1> QED BY <1>1, <1>2, <1>3, <1>4 DEF Members

\* What is below the default outbound does not lead back to it.
LeadsOn(S) ==
  /\ S \subseteq Known(config) /\ Default \notin S
  /\ ToSet(Members(Default)) \subseteq S
  /\ \A t \in S : ToSet(Members(t)) \subseteq S

LEMMA NoWayBack == ASSUME Standing PROVE \E S : LeadsOn(S)
<1>. DEFINE K == Known(config)
            Upper(X) == Default \in X /\ \A u \in K : ToSet(Members(u)) \cap X # {} => u \in X
            A == {t \in K : \A X \in SUBSET K : Upper(X) => t \in X}
<1>1. Upper(A) /\ A \subseteq K
  BY NodesStand
<1>2. ToSet(Members(Default)) \cap A = {}
  <2>. SUFFICES ASSUME ToSet(Members(Default)) \cap A # {} PROVE FALSE
    OBVIOUS
  <2>. DEFINE ring == {e \in built : e.tag \in A}
  <2>1. ring \in SUBSET built /\ ring # {} /\ TagsOf(ring) = A
    <3>1. TagsOf(ring) = A
      <4>1. A \subseteq TagsOf(built)
        BY <1>1, NodesStand
      <4>. HIDE DEF A
      <4> QED BY <4>1 DEF TagsOf
    <3>2. Default \in A
      BY <1>1
    <3> QED BY <3>1, <3>2 DEF TagsOf
  <2>. HIDE DEF A
  <2>2. PICK e \in ring : ToSet(e.refs) \cap TagsOf(ring) = {}
    <3>. HIDE DEF ring
    <3> QED BY <2>1 DEF Standing, BuildInv, Rooted
  <2>3. e.tag \in A /\ ToSet(Members(e.tag)) \cap A = {}
    <3>1. Members(e.tag) = e.refs
      BY NodesStand DEF Members
    <3> QED BY <2>1, <2>2, <3>1
  <2>. DEFINE X == A \ {e.tag}
  <2>4. e.tag # Default
    BY <2>3
  <2>5. Upper(X)
    BY <1>1, <2>3, <2>4
  <2>6. A \subseteq X
    BY <1>1, <2>5 DEF A
  <2> QED BY <2>3, <2>6
<1>3. LeadsOn(K \ A)
  <2>. HIDE DEF A
  <2>1. \A t \in K \ A : ToSet(Members(t)) \cap A = {} /\ ToSet(Members(t)) \subseteq K
    BY <1>1, NodesStand
  <2>2. ToSet(Members(Default)) \subseteq K /\ Default \in A
    BY <1>1, NodesStand
  <2> QED BY <1>2, <2>1, <2>2 DEF LeadsOn
<1> QED BY <1>3

-----------------------------------------------------------------------------
(* The healthy members. *)

LEMMA DepthIsNat == ASSUME Standing PROVE Depth \in Nat
BY ConfigShape DEF Standing, BuildInv, Split, Depth

KeptStep(list, f, i) ==
  IF i = 0 THEN <<>> ELSE IF Healthy(list[i]) THEN Append(f[i - 1], list[i]) ELSE f[i - 1]

LEMMA HealthyUnrolled ==
  ASSUME NEW t, Len(Members(t)) \in Nat
  PROVE  \E f : /\ HealthyMembers(t) = f[Len(Members(t))]
                /\ \A i \in 0..Len(Members(t)) : f[i] = KeptStep(Members(t), f, i)
<1>. DEFINE list == Members(t)
            N == Len(list)
            Body(k, f) == [i \in 0..k |-> KeptStep(list, f, i)]
<1>1. \E f : f = Body(N, f)
  <2>. DEFINE T == {k \in Nat : \E f : f = Body(k, f)}
  <2>1. 0 \in T
    <3>1. [i \in 0..0 |-> <<>>] = Body(0, [i \in 0..0 |-> <<>>])
      BY DEF KeptStep
    <3> QED BY <3>1
  <2>2. ASSUME NEW k \in Nat, k \in T PROVE k + 1 \in T
    <3>1. PICK f : f = Body(k, f)
      BY <2>2
    <3>. DEFINE g == [i \in 0..(k + 1) |-> IF i = k + 1
                        THEN IF Healthy(list[i]) THEN Append(f[k], list[i]) ELSE f[k] ELSE f[i]]
    <3>. HIDE DEF list
    <3>2. ASSUME NEW i \in 0..(k + 1) PROVE g[i] = KeptStep(list, g, i)
      <4>1. CASE i = k + 1
        <5>1. k \in 0..(k + 1) /\ i - 1 = k /\ i # 0 /\ k # k + 1
          BY <4>1
        <5>2. g[k] = f[k]
          BY <5>1
        <5> QED BY <4>1, <5>1, <5>2 DEF KeptStep
      <4>2. CASE i # k + 1
        <5>1. i \in 0..k /\ (i # 0 => i - 1 \in 0..(k + 1) /\ i - 1 # k + 1)
          BY <4>2
        <5>2. g[i] = f[i] /\ f[i] = KeptStep(list, f, i) /\ (i # 0 => g[i - 1] = f[i - 1])
          BY <3>1, <4>2, <5>1
        <5> QED BY <5>2 DEF KeptStep
      <4> QED BY <4>1, <4>2
    <3>3. g = [i \in 0..(k + 1) |-> g[i]]
      OBVIOUS
    <3>. HIDE DEF g
    <3>4. g = Body(k + 1, g)
      BY <3>2, <3>3
    <3>. HIDE DEF Body
    <3> QED BY <3>4
  <2>. HIDE DEF T
  <2>3. N \in T
    BY <2>1, <2>2, Upward
  <2> QED BY <2>3 DEF T
<1>2. HealthyMembers(t) = (CHOOSE f : f = Body(N, f))[N]
  BY DEF HealthyMembers, KeptStep
<1>3. PICK f : f = Body(N, f) /\ HealthyMembers(t) = f[N]
  BY <1>1, <1>2
<1>4. \A i \in 0..N : f[i] = KeptStep(list, f, i)
  BY <1>3
<1> QED BY <1>3, <1>4

\* A healthy member that is listed once is once among the healthy ones.
Once(m, s) == \E i \in DOMAIN s : s[i] = m /\ \A j \in DOMAIN s : s[j] = m => j = i

LEMMA HealthyShape ==
  ASSUME NEW t, Members(t) \in Seq(ToSet(Members(t)))
  PROVE  /\ HealthyMembers(t) \in Seq(ToSet(Members(t)))
         /\ \A m : Once(m, Members(t)) /\ Healthy(m) => Once(m, HealthyMembers(t))
<1>. DEFINE list == Members(t)
            N == Len(list)
            Elts == ToSet(list)
<1>1. N \in Nat /\ DOMAIN list = 1..N /\ \A i \in 1..N : list[i] \in Elts
  <2>1. list \in Seq(Elts)
    OBVIOUS
  <2>. HIDE DEF Elts
  <2> QED BY <2>1
<1>2. PICK f : HealthyMembers(t) = f[N] /\ \A i \in 0..N : f[i] = KeptStep(list, f, i)
  BY <1>1, HealthyUnrolled
<1>. HIDE DEF list, Elts
<1>. DEFINE None(m, s) == \A j \in DOMAIN s : s[j] # m
            First(i) == [k \in 1..i |-> list[k]]
            Sifts(i) == /\ f[i] \in Seq(Elts)
                        /\ \A m : None(m, First(i)) => None(m, f[i])
                        /\ \A m : Healthy(m) /\ Once(m, First(i)) => Once(m, f[i])
            T == {i \in Nat : i <= N => Sifts(i)}
<1>3. 0 \in T
  <2>1. f[0] = <<>>
    BY <1>1, <1>2 DEF KeptStep
  <2>2. DOMAIN First(0) = {} /\ f[0] \in Seq(Elts) /\ DOMAIN f[0] = {}
    BY <2>1
  <2>. HIDE DEF First
  <2>3. Sifts(0)
    BY <2>2 DEF Once
  <2>. HIDE DEF Sifts
  <2> QED BY <2>3
<1>4. ASSUME NEW i \in Nat, i \in T PROVE i + 1 \in T
  <2>. HIDE DEF Sifts
  <2>0. Sifts(i) \/ ~(i + 1 <= N)
    BY <1>1, <1>4
  <2>. SUFFICES ASSUME i + 1 <= N PROVE Sifts(i + 1)
    OBVIOUS
  <2>. USE DEF Sifts
  <2>. DEFINE c == list[i + 1]
              s == f[i]
  <2>1. Sifts(i) /\ c \in Elts
    <3>. HIDE DEF Sifts
    <3> QED BY <1>1, <2>0
  <2>2. f[i + 1] = IF Healthy(c) THEN Append(s, c) ELSE s
    <3>1. i + 1 \in 0..N /\ i + 1 # 0 /\ (i + 1) - 1 = i
      BY <1>1
    <3> QED BY <1>2, <3>1 DEF KeptStep
  <2>3. /\ DOMAIN First(i) = 1..i /\ DOMAIN First(i + 1) = 1..(i + 1)
        /\ First(i + 1)[i + 1] = c /\ \A k \in 1..i : First(i + 1)[k] = First(i)[k]
    OBVIOUS
  <2>4. s \in Seq(Elts) /\ Len(s) \in Nat /\ DOMAIN s = 1..Len(s)
    BY <2>1
  <2>5. /\ Append(s, c) \in Seq(Elts) /\ DOMAIN Append(s, c) = 1..(Len(s) + 1)
        /\ Append(s, c)[Len(s) + 1] = c /\ \A k \in 1..Len(s) : Append(s, c)[k] = s[k]
    BY <2>1, <2>4
  <2>. HIDE DEF c, s, First
  <2>6. f[i + 1] \in Seq(Elts)
    BY <2>2, <2>4, <2>5
  <2>7. ASSUME NEW m, None(m, First(i + 1)) PROVE None(m, f[i + 1])
    <3>1. None(m, First(i)) /\ c # m
      BY <2>3, <2>7
    <3>2. None(m, s)
      BY <2>1, <3>1 DEF s
    <3> QED BY <2>2, <2>4, <2>5, <3>1, <3>2
  <2>8. ASSUME NEW m, Healthy(m), Once(m, First(i + 1)) PROVE Once(m, f[i + 1])
    <3>1. CASE c = m
      <4>1. None(m, First(i))
        BY <2>3, <2>8, <3>1 DEF Once
      <4>2. None(m, s) /\ f[i + 1] = Append(s, c)
        BY <2>1, <2>2, <2>8, <3>1, <4>1 DEF s
      <4> QED BY <2>4, <2>5, <3>1, <4>2 DEF Once
    <3>2. CASE c # m
      <4>1. Once(m, First(i))
        BY <2>3, <2>8, <3>2 DEF Once
      <4>2. Once(m, s)
        BY <2>1, <2>8, <4>1 DEF s
      <4> QED BY <2>2, <2>4, <2>5, <3>2, <4>2 DEF Once
    <3> QED BY <3>1, <3>2
  <2> QED BY <2>6, <2>7, <2>8
<1>5. Sifts(N)
  <2>. HIDE DEF Sifts
  <2>1. \A i \in Nat : i \in T
    <3>. HIDE DEF T
    <3> QED BY <1>3, <1>4, Upward
  <2> QED BY <1>1, <2>1
<1>6. ASSUME NEW m, Once(m, list) PROVE Once(m, First(N))
  BY <1>1, <1>6 DEF Once
<1>. HIDE DEF First
<1> QED BY <1>2, <1>5, <1>6 DEF list, Elts

-----------------------------------------------------------------------------
(* The walk down the tree. *)

Going(d, t, marks) == LET l == Look(d, t, marks) IN Take(d, t, l.seen, l.marks)

LevelStep(f, n) ==
  [t \in Known(config) |-> [marks \in AllMarks |->
     IF n = 0 \/ ~IsGroup(t) THEN [leaf |-> t, marks |-> marks] ELSE Going(f[n - 1], t, marks)]]

LEMMA SameWalk ==
  ASSUME NEW f, NEW g, NEW n, n # 0 => f[n - 1] = g[n - 1]
  PROVE  LevelStep(f, n) = LevelStep(g, n)
<1>1. CASE n = 0
  BY <1>1 DEF LevelStep
<1>2. CASE n # 0
  <2>1. f[n - 1] = g[n - 1]
    BY <1>2
  <2>. DEFINE d == f[n - 1]
              e == g[n - 1]
              Of(x) == [t \in Known(config) |-> [marks \in AllMarks |->
                          IF n = 0 \/ ~IsGroup(t) THEN [leaf |-> t, marks |-> marks] ELSE Going(x, t, marks)]]
  <2>2. LevelStep(f, n) = Of(d) /\ LevelStep(g, n) = Of(e)
    BY DEF LevelStep
  <2>3. d = e
    BY <2>1
  <2>. HIDE DEF d, e
  <2>4. Of(d) = Of(e)
    BY <2>3
  <2>. HIDE DEF Of
  <2> QED BY <2>2, <2>4
<1> QED BY <1>1, <1>2

LEMMA ResolveIs ==
  ASSUME Depth \in Nat
  PROVE  \A n \in 0..Depth : Resolve[n] = LevelStep(Resolve, n)
<1>. DEFINE N == Depth
            Body(k, f) == [n \in 0..k |-> LevelStep(f, n)]
<1>1. \E f : f = Body(N, f)
  <2>. DEFINE T == {k \in Nat : \E f : f = Body(k, f)}
  <2>1. 0 \in T
    <3>. DEFINE f == [n \in 0..0 |-> LevelStep(<<>>, 0)]
    <3>1. LevelStep(f, 0) = LevelStep(<<>>, 0)
      BY SameWalk
    <3>2. f = Body(0, f)
      BY <3>1
    <3> QED BY <3>2
  <2>2. ASSUME NEW k \in Nat, k \in T PROVE k + 1 \in T
    <3>1. PICK f : f = Body(k, f)
      BY <2>2
    <3>. DEFINE g == [n \in 0..(k + 1) |-> IF n = k + 1 THEN LevelStep([i \in {k} |-> f[k]], k + 1) ELSE f[n]]
    <3>2. ASSUME NEW n \in 0..(k + 1) PROVE g[n] = LevelStep(g, n)
      <4>1. CASE n = k + 1
        <5>1. k \in 0..(k + 1) /\ n - 1 = k /\ n # 0 /\ k # k + 1
          BY <4>1
        <5>2. g[k] = f[k] /\ [i \in {k} |-> f[k]][k] = f[k] /\ g[n] = LevelStep([i \in {k} |-> f[k]], n)
          BY <4>1, <5>1
        <5>. HIDE DEF g
        <5> QED BY <5>1, <5>2, SameWalk
      <4>2. CASE n # k + 1
        <5>1. n \in 0..k /\ (n # 0 => n - 1 \in 0..(k + 1) /\ n - 1 # k + 1)
          BY <4>2
        <5>2. g[n] = f[n] /\ f[n] = LevelStep(f, n) /\ (n # 0 => g[n - 1] = f[n - 1])
          BY <3>1, <4>2, <5>1
        <5>. HIDE DEF g
        <5> QED BY <5>2, SameWalk
      <4> QED BY <4>1, <4>2
    <3>3. g = [n \in 0..(k + 1) |-> g[n]]
      OBVIOUS
    <3>. HIDE DEF g
    <3>4. g = Body(k + 1, g)
      BY <3>2, <3>3
    <3>. HIDE DEF Body
    <3> QED BY <3>4
  <2>. HIDE DEF T
  <2>3. N \in T
    BY <2>1, <2>2, Upward
  <2> QED BY <2>3 DEF T
<1>2. Resolve = CHOOSE f : f = Body(N, f)
  BY DEF Resolve, LevelStep, Going
<1>3. Resolve = Body(N, Resolve)
  BY <1>1, <1>2
<1> QED BY <1>3

\* No pool has reported anything.
Quiet == Standing /\ sick = {} /\ median = [t \in Known(config) |-> NoTag]

Marked == {k \in AllMarks : \A t \in Known(config) : k.current[t] \in ToSet(Members(t)) \cup {NoTag}}

\* An answer from below the default outbound leaves its cursor where it was.
Steady(S, r, k) == r.leaf \in S /\ r.marks \in Marked /\ r.marks.next[Default] = k.next[Default]
Faithful(S, d) == \A m \in S, k \in Marked : Steady(S, d[m][k], k)

SeenOf(t) == [i \in DOMAIN HealthyMembers(t) |-> [tag |-> HealthyMembers(t)[i], ms |-> NoTag]]

LEMMA LatencyKeeps ==
  ASSUME Quiet, NEW S, LeadsOn(S), NEW d, Faithful(S, d), NEW t \in S, NEW k \in Marked
  PROVE  /\ Latency(d, t, k).ms = NoTag /\ Latency(d, t, k).marks \in Marked
         /\ Latency(d, t, k).marks.next[Default] = k.next[Default]
<1>1. \A u \in S : LeafLatency(u) = NoTag
  BY DEF Quiet, LeafLatency, LeadsOn
<1>2. Steady(S, d[t][k], k)
  BY DEF Faithful
<1> QED BY <1>1, <1>2 DEF Latency, Steady

AskStep(d, h, k, f, i) == IF i = 0 THEN [ms |-> NoTag, marks |-> k] ELSE Latency(d, h[i], f[i - 1].marks)

AskBody(d, h, k, n, f) == [i \in 0..n |-> AskStep(d, h, k, f, i)]

LEMMA AskedIs ==
  ASSUME NEW d, NEW h, NEW k, NEW N \in Nat
  PROVE  \E f : f = AskBody(d, h, k, N, f)
<1>. DEFINE Body(n, f) == [i \in 0..n |-> AskStep(d, h, k, f, i)]
            T == {n \in Nat : \E f : f = Body(n, f)}
<1>1. 0 \in T
  <2>1. [i \in 0..0 |-> [ms |-> NoTag, marks |-> k]] = Body(0, [i \in 0..0 |-> [ms |-> NoTag, marks |-> k]])
    BY DEF AskStep
  <2> QED BY <2>1
<1>2. ASSUME NEW n \in Nat, n \in T PROVE n + 1 \in T
  <2>1. PICK f : f = Body(n, f)
    BY <1>2
  <2>. DEFINE g == [i \in 0..(n + 1) |-> IF i = n + 1 THEN Latency(d, h[n + 1], f[n].marks) ELSE f[i]]
  <2>2. ASSUME NEW i \in 0..(n + 1) PROVE g[i] = AskStep(d, h, k, g, i)
    <3>1. CASE i = n + 1
      <4>1. n \in 0..(n + 1) /\ i - 1 = n /\ i # 0 /\ n # n + 1
        BY <3>1
      <4>2. g[n] = f[n] /\ g[i] = Latency(d, h[i], f[n].marks)
        BY <3>1, <4>1
      <4>. HIDE DEF g
      <4> QED BY <4>1, <4>2 DEF AskStep
    <3>2. CASE i # n + 1
      <4>1. i \in 0..n /\ (i # 0 => i - 1 \in 0..(n + 1) /\ i - 1 # n + 1)
        BY <3>2
      <4>2. g[i] = f[i] /\ f[i] = AskStep(d, h, k, f, i) /\ (i # 0 => g[i - 1] = f[i - 1])
        BY <2>1, <3>2, <4>1
      <4>. HIDE DEF g
      <4> QED BY <4>2 DEF AskStep
    <3> QED BY <3>1, <3>2
  <2>3. g = [i \in 0..(n + 1) |-> g[i]]
    OBVIOUS
  <2>. HIDE DEF g
  <2>4. g = Body(n + 1, g)
    BY <2>2, <2>3
  <2>. HIDE DEF Body
  <2> QED BY <2>4
<1>. HIDE DEF T
<1>3. N \in T
  BY <1>1, <1>2, Upward
<1>4. \E f : f = Body(N, f)
  BY <1>3 DEF T
<1> QED BY <1>4 DEF AskBody

LEMMA LookKeeps ==
  ASSUME Quiet, NEW S, LeadsOn(S), NEW d, Faithful(S, d), NEW t \in S, NEW k \in Marked
  PROVE  /\ Look(d, t, k).seen = SeenOf(t) /\ Look(d, t, k).marks \in Marked
         /\ Look(d, t, k).marks.next[Default] = k.next[Default]
<1>. DEFINE h == HealthyMembers(t)
            N == Len(h)
            asked == CHOOSE f : f = AskBody(d, h, k, N, f)
<1>1. h \in Seq(S) /\ N \in Nat /\ DOMAIN h = 1..N /\ \A i \in 1..N : h[i] \in S
  <2>1. t \in Known(config) /\ ToSet(Members(t)) \subseteq S
    BY DEF LeadsOn
  <2>2. Members(t) \in Seq(ToSet(Members(t)))
    BY <2>1, NodesStand DEF Quiet
  <2>3. h \in Seq(ToSet(Members(t)))
    BY <2>2, HealthyShape
  <2>. HIDE DEF h
  <2>4. h \in Seq(S)
    BY <2>1, <2>3
  <2> QED BY <2>4
<1>2. Look(d, t, k) =
        IF Node(t).kind = "urltest"
        THEN [seen |-> [i \in DOMAIN h |-> [tag |-> h[i], ms |-> asked[i].ms]], marks |-> asked[N].marks]
        ELSE [seen |-> [i \in DOMAIN h |-> [tag |-> h[i], ms |-> NoTag]], marks |-> k]
  BY DEF Look, AskStep, AskBody
<1>3. asked = AskBody(d, h, k, N, asked)
  <2>. HIDE DEF h, asked
  <2>1. \E f : f = AskBody(d, h, k, N, f)
    BY <1>1, AskedIs
  <2> QED BY <2>1 DEF asked
<1>4. \A i \in 0..N : asked[i] = AskStep(d, h, k, asked, i)
  <2>. HIDE DEF asked, h
  <2> QED BY <1>3 DEF AskBody
<1>. HIDE DEF h, asked
<1>. DEFINE Fine(i) == /\ asked[i].ms = NoTag /\ asked[i].marks \in Marked
                       /\ asked[i].marks.next[Default] = k.next[Default]
            T == {i \in Nat : i <= N => Fine(i)}
<1>5. 0 \in T
  BY <1>1, <1>4 DEF AskStep
<1>6. ASSUME NEW i \in Nat, i \in T PROVE i + 1 \in T
  <2>. SUFFICES ASSUME i + 1 <= N PROVE Fine(i + 1)
    OBVIOUS
  <2>1. Fine(i) /\ h[i + 1] \in S
    BY <1>1, <1>6
  <2>2. asked[i + 1] = Latency(d, h[i + 1], asked[i].marks)
    <3>1. i + 1 \in 0..N /\ i + 1 # 0 /\ (i + 1) - 1 = i
      BY <1>1
    <3> QED BY <1>4, <3>1 DEF AskStep
  <2> QED BY <2>1, <2>2, LatencyKeeps
<1>7. \A i \in 0..N : Fine(i)
  <2>. HIDE DEF Fine
  <2>1. \A i \in Nat : i \in T
    <3>. HIDE DEF T
    <3> QED BY <1>5, <1>6, Upward
  <2> QED BY <1>1, <2>1
<1>8. [i \in DOMAIN h |-> [tag |-> h[i], ms |-> asked[i].ms]] = [i \in DOMAIN h |-> [tag |-> h[i], ms |-> NoTag]]
  BY <1>1, <1>7
<1>9. SeenOf(t) = [i \in DOMAIN h |-> [tag |-> h[i], ms |-> NoTag]]
  BY DEF SeenOf, h
<1>10. CASE Node(t).kind = "urltest"
  <2>1. Look(d, t, k) = [seen |-> SeenOf(t), marks |-> asked[N].marks]
    BY <1>2, <1>8, <1>9, <1>10
  <2>2. N \in 0..N
    BY <1>1
  <2> QED BY <1>7, <2>1, <2>2
<1>11. CASE Node(t).kind # "urltest"
  <2>1. Look(d, t, k) = [seen |-> SeenOf(t), marks |-> k]
    BY <1>2, <1>9, <1>11
  <2> QED BY <2>1
<1> QED BY <1>10, <1>11

LEMMA SeenShape ==
  ASSUME Standing, NEW t \in Known(config)
  PROVE  /\ Len(HealthyMembers(t)) \in Nat /\ Len(SeenOf(t)) = Len(HealthyMembers(t))
         /\ DOMAIN SeenOf(t) = 1..Len(SeenOf(t)) /\ (SeenOf(t) = <<>> <=> Len(SeenOf(t)) = 0)
         /\ \A i \in 1..Len(SeenOf(t)) :
              /\ SeenOf(t)[i].tag = HealthyMembers(t)[i] /\ SeenOf(t)[i].ms = NoTag
              /\ SeenOf(t)[i].tag \in ToSet(Members(t))
<1>. DEFINE h == HealthyMembers(t)
            V == {[tag |-> m, ms |-> NoTag] : m \in ToSet(Members(t))}
<1>1. h \in Seq(ToSet(Members(t)))
  BY NodesStand, HealthyShape
<1>2. SeenOf(t) = [i \in DOMAIN h |-> [tag |-> h[i], ms |-> NoTag]]
  BY DEF SeenOf
<1>. HIDE DEF h
<1>3. Len(h) \in Nat /\ DOMAIN h = 1..Len(h) /\ \A i \in 1..Len(h) : h[i] \in ToSet(Members(t))
  BY <1>1
<1>4. SeenOf(t) = [i \in 1..Len(h) |-> [tag |-> h[i], ms |-> NoTag]]
  BY <1>2, <1>3
<1>5. SeenOf(t) \in Seq(V) /\ Len(SeenOf(t)) = Len(h)
  BY <1>3, <1>4
<1>6. SeenOf(t) = <<>> <=> Len(SeenOf(t)) = 0
  <2>. HIDE DEF V
  <2> QED BY <1>5
<1>7. \A i \in 1..Len(h) : SeenOf(t)[i] = [tag |-> h[i], ms |-> NoTag]
  BY <1>4
<1>8. DOMAIN SeenOf(t) = 1..Len(h)
  BY <1>4
<1> QED BY <1>3, <1>5, <1>6, <1>7, <1>8 DEF h

LEMMA ModRange == ASSUME NEW a \in Nat, NEW b \in Nat, b > 0 PROVE (a % b) + 1 \in 1..b
OBVIOUS

LEMMA TurnIsOne ==
  ASSUME Standing, NEW t \in Known(config), NEW k \in Marked, SeenOf(t) # <<>>
  PROVE  /\ (k.next[t] % Len(SeenOf(t))) + 1 \in 1..Len(SeenOf(t))
         /\ Turn(t, SeenOf(t), k) \in ToSet(Members(t))
<1>1. Len(SeenOf(t)) \in Nat /\ Len(SeenOf(t)) # 0 /\ k.next[t] \in Nat
  BY SeenShape DEF Marked, AllMarks
<1>2. ASSUME NEW a, NEW b, a = k.next[t], b = Len(SeenOf(t)) PROVE (a % b) + 1 \in 1..b
  <2>1. a \in Nat /\ b \in Nat /\ b > 0
    BY <1>1, <1>2
  <2> QED BY <2>1, ModRange
<1>3. (k.next[t] % Len(SeenOf(t))) + 1 \in 1..Len(SeenOf(t))
  BY <1>2
<1> QED BY <1>3, SeenShape DEF Turn

LEMMA MembersKeep ==
  ASSUME NEW S, LeadsOn(S), NEW d, Faithful(S, d), NEW t \in S, NEW k \in Marked,
         NEW m \in ToSet(Members(t)), NEW j \in Marked, j.next[Default] = k.next[Default]
  PROVE  Steady(S, d[m][j], k)
<1>1. m \in S
  BY DEF LeadsOn
<1>2. Steady(S, d[m][j], j)
  BY <1>1 DEF Faithful
<1> QED BY <1>2 DEF Steady

LEMMA AdvanceIs ==
  ASSUME NEW t \in Known(config), NEW k \in Marked
  PROVE  /\ Advance(t, k) \in Marked
         /\ Advance(t, k).next[t] = k.next[t] + 1
         /\ \A u \in Known(config) : u # t => Advance(t, k).next[u] = k.next[u]
<1>1. k \in AllMarks /\ k.next \in [Known(config) -> Nat]
  BY DEF Marked, AllMarks
<1>2. Advance(t, k) = [current |-> k.current, next |-> [k.next EXCEPT ![t] = @ + 1]]
  BY <1>1 DEF Advance, AllMarks
<1>3. Advance(t, k) \in AllMarks /\ Advance(t, k).current = k.current
  BY <1>1, <1>2 DEF AllMarks
<1> QED BY <1>1, <1>2, <1>3 DEF Marked

LEMMA TakeKeeps ==
  ASSUME Quiet, NEW S, LeadsOn(S), NEW d, Faithful(S, d), NEW t \in S, NEW k \in Marked
  PROVE  Steady(S, Take(d, t, SeenOf(t), k), k)
<1>. DEFINE sn == SeenOf(t)
<1>1. t \in Known(config) /\ t # Default /\ Members(t) \in Seq(ToSet(Members(t)))
  BY NodesStand DEF LeadsOn, Quiet
<1>2. Steady(S, [leaf |-> t, marks |-> k], k)
  BY DEF Steady
<1>3. sn # <<>> => 1 \in DOMAIN sn /\ sn[1].tag \in ToSet(Members(t))
  BY <1>1, SeenShape DEF Quiet
<1>4. Members(t) # <<>> => Members(t)[1] \in ToSet(Members(t))
  BY <1>1 DEF ToSet
<1>5. Steady(S, TakeUrltest(d, t, sn, k), k)
  <2>1. {i \in DOMAIN sn : sn[i].ms # NoTag} = {}
    BY <1>1, SeenShape DEF Quiet
  <2>2. CASE sn = <<>>
    BY <1>2, <2>2 DEF TakeUrltest
  <2>3. CASE sn # <<>> /\ k.current[t] # NoTag /\ Healthy(k.current[t])
    <3>1. k.current[t] \in ToSet(Members(t))
      BY <1>1, <2>3 DEF Marked
    <3>2. TakeUrltest(d, t, sn, k) = d[k.current[t]][k]
      BY <2>1, <2>3 DEF TakeUrltest
    <3> QED BY <3>1, <3>2, MembersKeep
  <2>4. CASE sn # <<>> /\ ~(k.current[t] # NoTag /\ Healthy(k.current[t]))
    <3>. DEFINE m == sn[1].tag
                j == [k EXCEPT !.current[t] = m]
    <3>1. TakeUrltest(d, t, sn, k) = d[m][j]
      BY <2>1, <2>4 DEF TakeUrltest
    <3>2. m \in ToSet(Members(t)) /\ m \in Known(config)
      BY <1>1, <1>3, <2>4, NodesStand DEF Quiet
    <3>. HIDE DEF m
    <3>3. j = [current |-> [k.current EXCEPT ![t] = m], next |-> k.next]
      BY DEF Marked, AllMarks
    <3>4. j \in AllMarks
      BY <3>2, <3>3 DEF Marked, AllMarks
    <3>5. j \in Marked
      BY <1>1, <3>2, <3>3, <3>4 DEF Marked, AllMarks
    <3>6. j.next[Default] = k.next[Default]
      BY <3>3
    <3>. HIDE DEF j
    <3> QED BY <3>1, <3>2, <3>5, <3>6, MembersKeep
  <2> QED BY <2>2, <2>3, <2>4
<1>6. Steady(S, TakeFallback(d, t, sn, k), k)
  <2>1. CASE sn # <<>>
    <3>1. TakeFallback(d, t, sn, k) = d[sn[1].tag][k]
      BY <2>1 DEF TakeFallback
    <3> QED BY <1>3, <2>1, <3>1, MembersKeep
  <2>2. CASE sn = <<>> /\ Members(t) # <<>>
    <3>1. TakeFallback(d, t, sn, k) = d[Members(t)[1]][k]
      BY <2>2 DEF TakeFallback
    <3> QED BY <1>4, <2>2, <3>1, MembersKeep
  <2>3. CASE sn = <<>> /\ Members(t) = <<>>
    BY <1>2, <2>3 DEF TakeFallback
  <2> QED BY <2>1, <2>2, <2>3
<1>7. Steady(S, TakeSelector(d, t, k), k)
  <2>1. CASE Members(t) # <<>>
    <3>1. TakeSelector(d, t, k) = d[Members(t)[1]][k]
      BY <2>1 DEF TakeSelector
    <3> QED BY <1>4, <2>1, <3>1, MembersKeep
  <2> QED BY <1>2, <2>1 DEF TakeSelector
<1>8. Steady(S, TakeBalance(d, t, sn, k), k)
  <2>1. CASE sn # <<>>
    <3>1. TakeBalance(d, t, sn, k) = d[Turn(t, sn, k)][Advance(t, k)]
      BY <2>1 DEF TakeBalance
    <3>2. Turn(t, sn, k) \in ToSet(Members(t))
      BY <1>1, <2>1, TurnIsOne DEF Quiet
    <3>3. Advance(t, k) \in Marked /\ Advance(t, k).next[Default] = k.next[Default]
      BY <1>1, AdvanceIs, NodesStand DEF Quiet
    <3> QED BY <3>1, <3>2, <3>3, MembersKeep
  <2> QED BY <1>6, <2>1 DEF TakeBalance
<1>. HIDE DEF sn
<1> QED BY <1>2, <1>5, <1>6, <1>7, <1>8 DEF Take, sn

LEMMA ResolveKeeps ==
  ASSUME Quiet, NEW S, LeadsOn(S)
  PROVE  \A n \in 0..Depth : Faithful(S, Resolve[n])
<1>1. Depth \in Nat
  BY DepthIsNat DEF Quiet
<1>2. ASSUME NEW n \in 0..Depth, NEW m \in S, NEW k \in Marked
      PROVE  Resolve[n][m][k] = IF n = 0 \/ ~IsGroup(m) THEN [leaf |-> m, marks |-> k]
                                ELSE Going(Resolve[n - 1], m, k)
  <2>1. m \in Known(config) /\ k \in AllMarks
    BY DEF LeadsOn, Marked
  <2>2. Resolve[n] = LevelStep(Resolve, n)
    BY <1>1, ResolveIs
  <2> QED BY <2>1, <2>2 DEF LevelStep
<1>. DEFINE T == {n \in Nat : n <= Depth => Faithful(S, Resolve[n])}
<1>3. 0 \in T
  <2>1. ASSUME NEW m \in S, NEW k \in Marked PROVE Steady(S, Resolve[0][m][k], k)
    <3>1. Resolve[0][m][k] = [leaf |-> m, marks |-> k]
      BY <1>1, <1>2
    <3> QED BY <3>1 DEF Steady
  <2>2. Faithful(S, Resolve[0])
    BY <2>1 DEF Faithful
  <2> QED BY <2>2
<1>4. ASSUME NEW n \in Nat, n \in T PROVE n + 1 \in T
  <2>. SUFFICES ASSUME n + 1 <= Depth, NEW m \in S, NEW k \in Marked
                PROVE  Steady(S, Resolve[n + 1][m][k], k)
    BY DEF Faithful
  <2>1. n + 1 \in 0..Depth /\ n + 1 # 0 /\ (n + 1) - 1 = n /\ Faithful(S, Resolve[n])
    BY <1>1, <1>4
  <2>2. CASE IsGroup(m)
    <3>. DEFINE d == Resolve[n]
                l == Look(d, m, k)
    <3>1. Resolve[n + 1][m][k] = Going(d, m, k)
      <4>1. Resolve[n + 1][m][k] = Going(Resolve[(n + 1) - 1], m, k)
        BY <1>2, <2>1, <2>2
      <4> QED BY <2>1, <4>1
    <3>. HIDE DEF d
    <3>2. l.seen = SeenOf(m) /\ l.marks \in Marked /\ l.marks.next[Default] = k.next[Default]
      BY <2>1, LookKeeps DEF d
    <3>3. Going(d, m, k) = Take(d, m, SeenOf(m), l.marks)
      BY <3>2 DEF Going
    <3>. HIDE DEF l
    <3>4. Steady(S, Take(d, m, SeenOf(m), l.marks), l.marks)
      BY <2>1, <3>2, TakeKeeps DEF d
    <3> QED BY <3>1, <3>2, <3>3, <3>4 DEF Steady
  <2>3. CASE ~IsGroup(m)
    <3>1. Resolve[n + 1][m][k] = [leaf |-> m, marks |-> k]
      BY <1>2, <2>1, <2>3
    <3> QED BY <3>1 DEF Steady
  <2> QED BY <2>2, <2>3
<1>. HIDE DEF T
<1>5. \A n \in Nat : n \in T
  BY <1>3, <1>4, Upward
<1> QED BY <1>1, <1>5 DEF T

-----------------------------------------------------------------------------
(* One turn after the other. *)

\* After q rounds and r turns more, the first r have had one turn more.
Counted(h, turns, us) ==
  Len(h) = 0 \/ \E q \in Nat, r \in 0..(Len(h) - 1) :
    /\ turns = q * Len(h) + r
    /\ \A i \in DOMAIN h : (\A j \in DOMAIN h : h[j] = h[i] => j = i) =>
         us[h[i]] = q + (IF i <= r THEN 1 ELSE 0)

LEMMA TurnsGoRound == ASSUME NEW q \in Nat, NEW n \in Nat, NEW r \in 0..(n - 1) PROVE (q * n + r) % n = r
OBVIOUS

LEMMA TurnsGoOn ==
  ASSUME NEW q \in Nat, NEW n \in Nat, NEW r \in 0..(n - 1)
  PROVE  q * n + r + 1 = IF r = n - 1 THEN (q + 1) * n + 0 ELSE q * n + (r + 1)
OBVIOUS

LEMMA OneTurn ==
  ASSUME NEW K, NEW h \in Seq(K), Len(h) # 0, NEW us \in [K -> Nat], NEW turns \in Nat,
         Counted(h, turns, us)
  PROVE  Counted(h, turns + 1, [us EXCEPT ![h[(turns % Len(h)) + 1]] = @ + 1])
<1>. DEFINE n == Len(h)
<1>1. n \in Nat /\ n # 0 /\ DOMAIN h = 1..n /\ \A i \in 1..n : h[i] \in K
  OBVIOUS
<1>. HIDE DEF n
<1>2. PICK q \in Nat, r \in 0..(n - 1) :
        /\ turns = q * n + r
        /\ \A i \in 1..n : (\A j \in 1..n : h[j] = h[i] => j = i) => us[h[i]] = q + (IF i <= r THEN 1 ELSE 0)
  BY <1>1 DEF Counted, n
<1>3. turns % n = r /\ r + 1 \in 1..n
  BY <1>1, <1>2, TurnsGoRound
<1>. DEFINE ut == [us EXCEPT ![h[r + 1]] = @ + 1]
            q1 == IF r = n - 1 THEN q + 1 ELSE q
            r1 == IF r = n - 1 THEN 0 ELSE r + 1
<1>4. q1 \in Nat /\ r1 \in 0..(n - 1) /\ turns + 1 = q1 * n + r1
  BY <1>1, <1>2, TurnsGoOn
<1>5. ASSUME NEW i \in 1..n, \A j \in 1..n : h[j] = h[i] => j = i
      PROVE  ut[h[i]] = q1 + (IF i <= r1 THEN 1 ELSE 0)
  <2>1. us[h[i]] = q + (IF i <= r THEN 1 ELSE 0) /\ h[i] \in K
    BY <1>1, <1>2, <1>5
  <2>2. CASE i = r + 1
    <3>1. ut[h[i]] = us[h[i]] + 1
      BY <2>1, <2>2
    <3> QED BY <1>1, <2>1, <2>2, <3>1
  <2>3. CASE i # r + 1
    <3>1. h[r + 1] # h[i]
      BY <1>3, <1>5, <2>3
    <3>2. ut[h[i]] = us[h[i]]
      BY <2>1, <3>1
    <3> QED BY <1>1, <2>1, <2>3, <3>2
  <2> QED BY <2>2, <2>3
<1>. HIDE DEF ut, q1, r1
<1>6. Counted(h, turns + 1, ut)
  BY <1>1, <1>4, <1>5 DEF Counted, n
<1> QED BY <1>3, <1>6 DEF ut, n

Alone == phase = "ready" /\ reports = 0 /\ polls = 0 /\ Node(Default).kind = "balance"

Untouched ==
  /\ \A c \in Conns : conn[c].at = "idle"
  /\ current = [t \in Known(config) |-> NoTag]
  /\ next = [t \in Known(config) |-> 0] /\ uses = [t \in Known(config) |-> 0]

InTurn ==
  /\ Marks \in Marked /\ uses \in [Known(config) -> Nat]
  /\ \A c \in Conns : conn[c].at = "looked" => conn[c].seen = SeenOf(Default)
  /\ Counted(HealthyMembers(Default), next[Default], uses)

TurnInv ==
  /\ BuildInv /\ DOMAIN conn = Conns /\ reports \in Nat /\ polls \in Nat
  /\ reports = 0 => sick = {} /\ median = [t \in Known(config) |-> NoTag]
  /\ phase \notin {"ready", "down"} => Untouched
  /\ Alone => InTurn

\* The first turn is yet to come.
LEMMA NoTurnYet == ASSUME Standing, Untouched PROVE InTurn
<1>1. Default \in Known(config) /\ Len(HealthyMembers(Default)) \in Nat /\ DOMAIN HealthyMembers(Default) = 1..Len(HealthyMembers(Default))
      /\ \A i \in DOMAIN HealthyMembers(Default) : HealthyMembers(Default)[i] \in Known(config)
  <2>. DEFINE h == HealthyMembers(Default)
  <2>1. Default \in Known(config) /\ ToSet(Members(Default)) \subseteq Known(config)
    BY NodesStand
  <2>2. h \in Seq(ToSet(Members(Default)))
    BY NodesStand, HealthyShape
  <2>. HIDE DEF h
  <2>3. Len(h) \in Nat /\ DOMAIN h = 1..Len(h) /\ \A i \in DOMAIN h : h[i] \in ToSet(Members(Default))
    BY <2>2
  <2> QED BY <2>1, <2>3 DEF h
<1>2. Marks \in Marked
  <2>1. Marks \in AllMarks
    BY DEF Marks, AllMarks, Untouched
  <2> QED BY <2>1 DEF Marked, Marks, Untouched
<1>3. Counted(HealthyMembers(Default), next[Default], uses)
  <2>. DEFINE h == HealthyMembers(Default)
  <2>. SUFFICES ASSUME Len(h) # 0 PROVE \E q \in Nat, r \in 0..(Len(h) - 1) :
         /\ next[Default] = q * Len(h) + r
         /\ \A i \in DOMAIN h : uses[h[i]] = q + (IF i <= r THEN 1 ELSE 0)
    BY DEF Counted
  <2>1. next[Default] = 0 /\ \A i \in DOMAIN h : uses[h[i]] = 0
    BY <1>1 DEF Untouched
  <2>2. 0 \in Nat /\ 0 \in 0..(Len(h) - 1) /\ 0 * Len(h) + 0 = 0 /\ \A i \in DOMAIN h : ~(i <= 0)
    BY <1>1
  <2>. HIDE DEF h
  <2> QED BY <2>1, <2>2
<1> QED BY <1>2, <1>3 DEF InTurn, Untouched

LEMMA SameTree ==
  ASSUME UNCHANGED <<config, built, sick>>
  PROVE  /\ Known(config)' = Known(config) /\ Marked' = Marked
         /\ HealthyMembers(Default)' = HealthyMembers(Default)
         /\ SeenOf(Default)' = SeenOf(Default) /\ Node(Default)' = Node(Default)
<1>1. Known(config)' = Known(config) /\ Node(Default)' = Node(Default) /\ \A t : Members(t)' = Members(t)
  BY DEF Known, Implicit, TagsOf, Node, Members
<1>2. AllMarks' = AllMarks
  BY <1>1 DEF AllMarks
<1>3. Marked' = Marked
  BY <1>1, <1>2 DEF Marked
<1>4. HealthyMembers(Default)' = HealthyMembers(Default)
  BY DEF HealthyMembers, Healthy, Below, Members, IsGroup, Node, Depth, Known, Implicit, TagsOf
<1>5. SeenOf(Default)' = SeenOf(Default)
  BY <1>4 DEF SeenOf
<1> QED BY <1>1, <1>3, <1>4, <1>5

LEMMA TurnInit == OutInit => TurnInv
<1>. SUFFICES ASSUME OutInit PROVE TurnInv
  OBVIOUS
<1>1. BuildInv /\ phase = "building"
  BY BuildStarts DEF OutInit, BuildInit
<1>2. Untouched
  BY DEF OutInit, Untouched
<1> QED BY <1>1, <1>2 DEF OutInit, TurnInv, Alone

\* When the tree and the turns stay as they are, so does InTurn.
LEMMA TurnStays ==
  ASSUME InTurn, UNCHANGED <<config, built, sick, current, next, uses>>,
         \A c \in Conns : conn[c]'.at = "looked" => conn[c]' = conn[c]
  PROVE  InTurn'
<1>1. /\ Known(config)' = Known(config) /\ Marked' = Marked /\ SeenOf(Default)' = SeenOf(Default)
      /\ HealthyMembers(Default)' = HealthyMembers(Default)
  BY SameTree
<1>2. Marks' = Marks
  BY DEF Marks
<1>3. \A c \in Conns : conn'[c].at = "looked" => conn'[c].seen = SeenOf(Default)'
  BY <1>1 DEF InTurn
<1>4. Counted(HealthyMembers(Default), next[Default], uses)'
  BY <1>1 DEF InTurn, Counted
<1> QED BY <1>1, <1>2, <1>3, <1>4 DEF InTurn

LEMMA AloneIsQuiet == ASSUME TurnInv, Alone PROVE Quiet /\ InTurn
BY DEF TurnInv, Alone, Quiet, Standing, BuildInv

\* The default outbound is looked at, as a balance: nothing moves.
LEMMA StartTurn == ASSUME TurnInv, Alone, NEW c \in Conns, StartConnect(c) PROVE InTurn'
<1>1. Quiet /\ InTurn
  BY AloneIsQuiet
<1>2. Look(Down, Default, Marks) = [seen |-> SeenOf(Default), marks |-> Marks]
  BY DEF Alone, Look, SeenOf
<1>3. /\ conn' = [conn EXCEPT ![c] = [at |-> "looked", seen |-> SeenOf(Default)]]
      /\ UNCHANGED <<config, built, sick, current, next, uses>>
  <2>. DEFINE l == Look(Down, Default, Marks)
  <2>1. /\ conn' = [conn EXCEPT ![c] = [at |-> "looked", seen |-> l.seen]]
        /\ current' = l.marks.current /\ next' = l.marks.next
        /\ UNCHANGED <<config, built, sick, uses>>
    BY DEF StartConnect, SetMarks, UnchangedTree, buildVars
  <2>2. l.seen = SeenOf(Default) /\ l.marks = [current |-> current, next |-> next]
    BY <1>2 DEF Marks
  <2>. HIDE DEF l
  <2> QED BY <2>1, <2>2
<1>4. /\ Known(config)' = Known(config) /\ Marked' = Marked /\ SeenOf(Default)' = SeenOf(Default)
      /\ HealthyMembers(Default)' = HealthyMembers(Default)
  BY <1>3, SameTree
<1>5. Marks' = Marks
  BY <1>3 DEF Marks
<1>6. \A d \in Conns : conn'[d].at = "looked" => conn'[d].seen = SeenOf(Default)'
  BY <1>1, <1>3, <1>4 DEF InTurn, TurnInv
<1>7. Counted(HealthyMembers(Default), next[Default], uses)'
  BY <1>1, <1>3, <1>4 DEF InTurn, Counted
<1> QED BY <1>1, <1>3, <1>4, <1>5, <1>6, <1>7 DEF InTurn

\* The member whose turn it is gets the connection, whatever it does with it.
LEMMA ChooseTurn == ASSUME TurnInv, Alone, NEW c \in Conns, Choose(c) PROVE InTurn'
<1>. DEFINE sn == SeenOf(Default)
            h == HealthyMembers(Default)
            r == Take(Down, Default, sn, Marks)
<1>1. Quiet /\ InTurn
  BY AloneIsQuiet
<1>2. /\ conn' = [conn EXCEPT ![c] = Chosen(r.leaf)]
      /\ uses' = IF sn # <<>> THEN [uses EXCEPT ![Turn(Default, sn, Marks)] = @ + 1] ELSE uses
      /\ current' = r.marks.current /\ next' = r.marks.next
      /\ UNCHANGED <<config, built, sick>>
  BY <1>1 DEF Choose, InTurn, Alone, SetMarks, UnchangedTree, buildVars
<1>3. PICK S : LeadsOn(S)
  BY <1>1, NoWayBack DEF Quiet
<1>4. Faithful(S, Down)
  <2>1. Depth \in 0..Depth
    BY <1>1, DepthIsNat DEF Quiet
  <2> QED BY <1>1, <1>3, <2>1, ResolveKeeps DEF Down
<1>5. /\ Default \in Known(config) /\ Marks \in Marked /\ Marks.next = next
      /\ Members(Default) \in Seq(ToSet(Members(Default))) /\ ToSet(Members(Default)) \subseteq Known(config)
  BY <1>1, NodesStand DEF InTurn, Quiet, Marks
<1>6. r = TakeBalance(Down, Default, sn, Marks)
  BY DEF Take, Alone
<1>7. /\ r.marks \in Marked
      /\ sn # <<>> => r.marks.next[Default] = next[Default] + 1
  <2>1. CASE sn # <<>>
    <3>1. Turn(Default, sn, Marks) \in ToSet(Members(Default))
      BY <1>1, <1>5, <2>1, TurnIsOne DEF Quiet
    <3>2. /\ Advance(Default, Marks) \in Marked
          /\ Advance(Default, Marks).next[Default] = next[Default] + 1
      BY <1>5, AdvanceIs
    <3>3. r = Down[Turn(Default, sn, Marks)][Advance(Default, Marks)]
      BY <1>6, <2>1 DEF TakeBalance
    <3>4. Steady(S, Down[Turn(Default, sn, Marks)][Advance(Default, Marks)], Advance(Default, Marks))
      BY <1>3, <1>4, <3>1, <3>2 DEF Faithful, LeadsOn
    <3>. HIDE DEF r, sn
    <3> QED BY <3>2, <3>3, <3>4 DEF Steady
  <2>2. CASE sn = <<>> /\ Members(Default) # <<>>
    <3>1. Members(Default)[1] \in ToSet(Members(Default))
      BY <1>5, <2>2 DEF ToSet
    <3>2. r = Down[Members(Default)[1]][Marks]
      BY <1>6, <2>2 DEF TakeBalance, TakeFallback
    <3>3. Steady(S, Down[Members(Default)[1]][Marks], Marks)
      BY <1>3, <1>4, <1>5, <3>1 DEF Faithful, LeadsOn
    <3>. HIDE DEF r
    <3> QED BY <2>2, <3>2, <3>3 DEF Steady
  <2>3. CASE sn = <<>> /\ Members(Default) = <<>>
    <3>1. r = [leaf |-> Default, marks |-> Marks]
      BY <1>6, <2>3 DEF TakeBalance, TakeFallback
    <3> QED BY <1>5, <2>3, <3>1
  <2> QED BY <2>1, <2>2, <2>3
<1>8. /\ Len(h) \in Nat /\ Len(sn) = Len(h) /\ (sn = <<>> <=> Len(sn) = 0)
      /\ h \in Seq(Known(config))
  <2>1. /\ Len(h) \in Nat /\ Len(sn) = Len(h) /\ (sn = <<>> <=> Len(sn) = 0)
    BY <1>1, <1>5, SeenShape DEF Quiet
  <2>2. h \in Seq(ToSet(Members(Default)))
    BY <1>5, HealthyShape
  <2>. HIDE DEF h
  <2>3. h \in Seq(Known(config))
    BY <1>5, <2>2
  <2> QED BY <2>1, <2>3 DEF h
<1>9. uses' \in [Known(config) -> Nat] /\ Counted(h, next'[Default], uses')
  <2>0. uses \in [Known(config) -> Nat] /\ next[Default] \in Nat /\ Counted(h, next[Default], uses)
    BY <1>1, <1>5 DEF InTurn, Marked, AllMarks
  <2>1. CASE Len(h) = 0
    <3>1. uses' = uses
      BY <1>2, <1>8, <2>1
    <3> QED BY <2>0, <2>1, <3>1 DEF Counted
  <2>2. CASE Len(h) # 0
    <3>1. sn # <<>>
      BY <1>8, <2>2
    <3>2. (next[Default] % Len(sn)) + 1 \in 1..Len(sn)
      BY <1>1, <1>5, <3>1, TurnIsOne DEF Quiet
    <3>3. Turn(Default, sn, Marks) = h[(next[Default] % Len(h)) + 1]
      BY <1>1, <1>5, <1>8, <3>2, SeenShape DEF Turn, Quiet
    <3>4. uses' = [uses EXCEPT ![h[(next[Default] % Len(h)) + 1]] = @ + 1] /\ next'[Default] = next[Default] + 1
      BY <1>2, <1>7, <3>1, <3>3
    <3>. HIDE DEF h, sn, r
    <3>5. Counted(h, next'[Default], uses')
      BY <1>8, <2>0, <2>2, <3>4, OneTurn
    <3>6. PICK x : uses' = [uses EXCEPT ![x] = @ + 1]
      BY <3>4
    <3>7. uses' \in [Known(config) -> Nat]
      <4>. DEFINE K == Known(config)
      <4>1. uses \in [K -> Nat]
        BY <2>0
      <4>. HIDE DEF K
      <4>2. uses' = [y \in K |-> IF y = x THEN uses[y] + 1 ELSE uses[y]]
        BY <3>6, <4>1
      <4>3. \A y \in K : uses[y] \in Nat /\ uses[y] + 1 \in Nat
        BY <4>1
      <4>4. uses' \in [K -> Nat]
        BY <4>2, <4>3
      <4> QED BY <4>4 DEF K
    <3> QED BY <3>5, <3>7
  <2> QED BY <2>1, <2>2
<1>10. /\ Known(config)' = Known(config) /\ Marked' = Marked /\ SeenOf(Default)' = SeenOf(Default)
       /\ HealthyMembers(Default)' = HealthyMembers(Default)
  BY <1>2, SameTree
<1>11. Marks' \in Marked
  <2>1. Marks' = [current |-> r.marks.current, next |-> r.marks.next]
    BY <1>2 DEF Marks
  <2>. HIDE DEF r
  <2>2. Marks' = r.marks
    BY <1>7, <2>1 DEF Marked, AllMarks
  <2> QED BY <1>7, <2>2
<1>12. \A d \in Conns : conn'[d].at = "looked" => conn'[d].seen = SeenOf(Default)'
  <2>1. Chosen(r.leaf).at # "looked"
    BY DEF Chosen
  <2>. HIDE DEF r
  <2> QED BY <1>1, <1>2, <1>10, <2>1 DEF InTurn, TurnInv
<1>. HIDE DEF r, sn
<1> QED BY <1>9, <1>10, <1>11, <1>12 DEF InTurn, Counted

\* The steps of connections.
LEMMA ConnectionsKeep ==
  ASSUME TurnInv, NEW c \in Conns,
         StartConnect(c) \/ Choose(c) \/ Connects(c) \/ TryFails(c) \/ Ends(c)
  PROVE  TurnInv'
<1>1. UNCHANGED <<buildVars, sick, median, reports, polls>>
  BY DEF StartConnect, Choose, Connects, TryFails, Ends, UnchangedTree
<1>2. Alone' = Alone /\ Known(config)' = Known(config)
  BY <1>1 DEF Alone, Node, buildVars, Known, Implicit, TagsOf
<1>3. BuildInv'
  BY <1>1, BuildStays DEF TurnInv
<1>4. DOMAIN conn' = Conns
  BY DEF TurnInv, StartConnect, Choose, Connects, TryFails, Ends
<1>5. phase \in {"ready", "down"}
  BY DEF TurnInv, Untouched, StartConnect, Choose, Connects, TryFails, Ends
<1>6. ASSUME Alone PROVE InTurn'
  <2>1. CASE StartConnect(c)
    BY <1>6, <2>1, StartTurn
  <2>2. CASE Choose(c)
    BY <1>6, <2>2, ChooseTurn
  <2>3. CASE Connects(c) \/ TryFails(c) \/ Ends(c)
    <3>1. UNCHANGED <<config, built, sick, current, next, uses>>
      BY <2>3 DEF Connects, TryFails, Ends, UnchangedTree, buildVars
    <3>2. \A d \in Conns : conn'[d].at = "looked" => conn'[d] = conn[d]
      <4>1. \A d \in Conns \ {c} : conn'[d] = conn[d]
        BY <2>3 DEF Connects, TryFails, Ends, TurnInv
      <4>2. CASE Connects(c)
        BY <4>1, <4>2 DEF Connects, TurnInv
      <4>3. CASE TryFails(c)
        <5>1. conn[c].at # "looked" /\ conn'[c].at # "looked"
          BY <4>3 DEF TryFails, TurnInv
        <5> QED BY <4>1, <5>1
      <4>4. CASE Ends(c)
        BY <4>1, <4>4 DEF Ends, TurnInv
      <4> QED BY <2>3, <4>2, <4>3, <4>4
    <3>3. InTurn
      BY <1>6, AloneIsQuiet
    <3> QED BY <3>1, <3>2, <3>3, TurnStays
  <2> QED BY <2>1, <2>2, <2>3
<1> QED BY <1>1, <1>2, <1>3, <1>4, <1>5, <1>6 DEF TurnInv, buildVars

LEMMA TurnStep == TurnInv /\ [OutNext]_outVars => TurnInv'
<1>. SUFFICES ASSUME TurnInv, [OutNext]_outVars PROVE TurnInv'
  OBVIOUS
<1>1. CASE (BuildRound \/ BuildEnds) /\ UNCHANGED runVars
  <2>1. BuildInv'
    BY <1>1, BuildStays DEF BuildNext, TurnInv
  <2>2. phase = "building" /\ config' = config
    BY <1>1 DEF BuildRound, BuildEnds
  <2>3. Untouched /\ Untouched' /\ Known(config)' = Known(config)
    BY <1>1, <2>2 DEF TurnInv, Untouched, runVars, Known, Implicit, TagsOf
  <2>4. ASSUME Alone' PROVE InTurn'
    <3>1. BuildEnds
      BY <1>1, <2>2, <2>4 DEF Alone, BuildRound
    <3>2. InTurn
      BY <2>3, <3>1, NoTurnYet DEF BuildEnds, Standing, TurnInv
    <3>3. UNCHANGED <<config, built, sick, current, next, uses, conn>>
      BY <1>1, <3>1 DEF BuildEnds, runVars
    <3> QED BY <3>2, <3>3, TurnStays
  <2> QED BY <1>1, <2>1, <2>2, <2>3, <2>4 DEF TurnInv, runVars
<1>2. CASE \E c \in Conns : StartConnect(c) \/ Choose(c) \/ Connects(c) \/ TryFails(c) \/ Ends(c)
  BY <1>2, ConnectionsKeep
<1>3. CASE \E p \in Pools : Reports(p)
  <2>1. BuildInv' /\ phase = "ready" /\ phase' = "ready"
    BY <1>3, BuildStays DEF Reports, buildVars, TurnInv
  <2>2. reports' = reports + 1 /\ reports' \in Nat /\ reports' # 0 /\ UNCHANGED <<conn, polls>>
    BY <1>3 DEF Reports, TurnInv
  <2> QED BY <2>1, <2>2 DEF TurnInv, Alone
<1>4. CASE Poll
  <2>1. BuildInv' /\ phase = "ready" /\ phase' = "ready" /\ Known(config)' = Known(config)
    BY <1>4, BuildStays DEF Poll, UnchangedTree, buildVars, TurnInv, Known, Implicit, TagsOf
  <2>2. polls' \in Nat /\ polls' # 0 /\ UNCHANGED <<conn, reports, sick, median>>
    BY <1>4 DEF Poll, TurnInv, UnchangedTree
  <2> QED BY <2>1, <2>2 DEF TurnInv, Alone
<1>5. CASE Shutdown
  <2>1. BuildInv' /\ phase' = "down" /\ Known(config)' = Known(config)
    BY <1>5, BuildStays DEF Shutdown, TreeDown, BuildNext, TurnInv, Known, Implicit, TagsOf
  <2>2. UNCHANGED <<conn, reports, polls, sick, median>>
    BY <1>5 DEF Shutdown
  <2> QED BY <2>1, <2>2 DEF TurnInv, Alone
<1>6. CASE UNCHANGED outVars
  <2>1. BuildInv'
    BY <1>6, BuildStays DEF outVars, TurnInv
  <2>2. UNCHANGED <<phase, config, built, sick, median, reports, polls, current, next, uses, conn>>
    BY <1>6 DEF outVars, buildVars, runVars
  <2>3. Alone' = Alone /\ Known(config)' = Known(config)
    BY <2>2 DEF Alone, Node, Known, Implicit, TagsOf
  <2>4. Alone => InTurn'
    BY <2>2, TurnStays, AloneIsQuiet
  <2>5. Untouched' = Untouched
    BY <2>2, <2>3 DEF Untouched
  <2> QED BY <2>1, <2>2, <2>3, <2>4, <2>5 DEF TurnInv
<1> QED BY <1>1, <1>2, <1>3, <1>4, <1>5, <1>6 DEF OutNext

LEMMA ListedOnceIs ==
  ASSUME NEW list, list \in Seq(ToSet(list)), NEW m, ListedOnce(m, list)
  PROVE  Once(m, list)
<1>. DEFINE I == {i \in DOMAIN list : list[i] = m}
<1>1. DOMAIN list = 1..Len(list) /\ Len(list) \in Nat
  OBVIOUS
<1>2. IsFiniteSet(I)
  <2>1. IsFiniteSet(1..Len(list)) /\ I \subseteq 1..Len(list)
    BY <1>1, FS_Interval
  <2> QED BY <2>1, FS_Subset
<1>3. Cardinality(I) = 1
  BY DEF ListedOnce
<1>. HIDE DEF I
<1>4. \E x : I = {x}
  BY <1>2, <1>3, FS_Singleton
<1> QED BY <1>4 DEF I, Once

LEMMA InvShares == TurnInv => TurnsShared
<1>. SUFFICES ASSUME TurnInv, Alone,
       NEW m \in ToSet(Members(Default)), Healthy(m), ListedOnce(m, Members(Default)),
       NEW n \in ToSet(Members(Default)), Healthy(n), ListedOnce(n, Members(Default))
     PROVE uses[m] <= uses[n] + 1
  BY DEF TurnsShared, Alone
<1>. DEFINE h == HealthyMembers(Default)
<1>1. Quiet /\ InTurn
  BY AloneIsQuiet
<1>2. Members(Default) \in Seq(ToSet(Members(Default)))
  BY <1>1, NodesStand DEF Quiet
<1>3. Once(m, h) /\ Once(n, h)
  BY <1>2, HealthyShape, ListedOnceIs
<1>4. h \in Seq(ToSet(Members(Default))) /\ Counted(h, next[Default], uses)
  BY <1>1, <1>2, HealthyShape DEF InTurn
<1>. HIDE DEF h
<1>5. DOMAIN h = 1..Len(h) /\ Len(h) \in Nat
  BY <1>4
<1>6. Len(h) # 0
  BY <1>3, <1>5 DEF Once
<1>7. PICK q \in Nat, r \in 0..(Len(h) - 1) :
        \A i \in DOMAIN h : (\A j \in DOMAIN h : h[j] = h[i] => j = i) => uses[h[i]] = q + (IF i <= r THEN 1 ELSE 0)
  BY <1>4, <1>6 DEF Counted
<1>8. uses[m] \in {q, q + 1} /\ uses[n] \in {q, q + 1}
  BY <1>3, <1>7 DEF Once
<1> QED BY <1>7, <1>8

\* LoadBalance.next is taken once for each connection, under its lock, and the
\* groups below have cursors of their own: whatever is configured, whoever
\* connects, as often as they like and however they interleave, the healthy
\* members of a default balance get as many connections, give or take one, until a
\* pool reports or a latency is read.
THEOREM TurnsAlwaysShared == OutInit /\ [][OutNext]_outVars => []TurnsShared
BY TurnInit, TurnStep, InvShares, PTL

=============================================================================
