----------------------------- MODULE RelayLoop -----------------------------
(***************************************************************************)
(* The two halves of a TCP relay (the loops of relay_proxy and of          *)
(* relay_direct in tun/tcp.rs) and what they carry.                        *)
(*                                                                         *)
(* Upload: the bytes of the client are chunks 1, 2, ... and go to the      *)
(* tunnel or the socket one read at a time.  Download: a tunnel carries    *)
(* frames, frame f as a header (token 2f - 1) and a body (token 2f), whose *)
(* plaintext is the two units with these numbers; a direct socket carries  *)
(* the units themselves.  A half that has waited for its timeout goes on   *)
(* if the other half was active meanwhile.                                 *)
(***************************************************************************)
EXTENDS Monitor

CONSTANTS
  MaxUp,      \* bound: chunks the client sends
  MaxFrames   \* bound: frames the server sends

ASSUME LoopAssumption == MaxUp \in Nat /\ MaxFrames \in Nat

Chunks == 1..MaxUp
Units == 1..(2 * MaxFrames)

VARIABLES
  how,        \* "tunnel" or "direct": what the loop runs over
  up,         \* the upload half: "read", "send", "notify", "end"
  down,       \* the download half: "read", "body", "write", "end"
  taken,      \* chunks read from the client so far
  held,       \* the chunk the upload half is sending
  sent,       \* chunks given to the tunnel or socket in use
  pos,        \* tokens read from the tunnel or socket
  pend,       \* units still to be written to the client
  got,        \* units written to the client
  fresh       \* by half: the other one was active since its timer started

upVars == <<up, taken, held, sent>>
downVars == <<down, pos, pend, got>>
loopVars == <<how, upVars, downVars, fresh>>

LoopInit ==
  /\ how = "none" /\ up = "end" /\ down = "end" /\ taken = 0 /\ held = <<>> /\ sent = <<>>
  /\ pos = 0 /\ pend = <<>> /\ got = <<>> /\ fresh = [h \in {"up", "down"} |-> FALSE]

BothRun == up # "end" /\ down # "end"
BothEnded == up = "end" /\ down = "end"

Other(h) == IF h = "up" THEN "down" ELSE "up"

\* last_active is stored and the half's own timer starts anew.
Activity(h) == fresh' = [fresh EXCEPT ![h] = FALSE, ![Other(h)] = TRUE]

\* The timeout of half h fires, the other one was active, and h waits again.
\* The comparison is of whole seconds: it may also find the activity too old.
WaitsAgain(h) == fresh[h] /\ fresh' = [fresh EXCEPT ![h] = FALSE]

\* The loop begins, with what was sent before it.
Starts(kind) ==
  /\ how' = kind /\ up' = "read" /\ down' = "read"
  /\ fresh' = [h \in {"up", "down"} |-> FALSE]

-----------------------------------------------------------------------------
(* Upload. *)

UpRead ==
  /\ up = "read" /\ taken < MaxUp
  /\ taken' = taken + 1 /\ held' = <<taken + 1>> /\ up' = "send"
  /\ UNCHANGED <<how, sent, downVars, fresh>>

UpSend ==
  /\ up = "send" /\ sent' = sent \o held /\ held' = <<>> /\ up' = "read"
  /\ Activity("up") /\ UNCHANGED <<how, taken, downVars>>

UpSendFails ==
  /\ up = "send" /\ up' = "end" /\ held' = <<>>
  /\ UNCHANGED <<how, taken, sent, downVars, fresh>>

\* FIN, an error, or the socket is gone: a tunnel is told so.
UpOver == up' = IF how = "tunnel" THEN "notify" ELSE "end"

UpEof ==
  /\ up = "read" /\ UpOver /\ UNCHANGED <<how, taken, held, sent, downVars, fresh>>

UpTimeout ==
  /\ up = "read"
  /\ \/ WaitsAgain("up") /\ UNCHANGED up
     \/ UpOver /\ UNCHANGED fresh
  /\ UNCHANGED <<how, taken, held, sent, downVars>>

\* send_close_notify, which may also fail.
UpNotified ==
  /\ up = "notify" /\ up' = "end" /\ UNCHANGED <<how, taken, held, sent, downVars, fresh>>

-----------------------------------------------------------------------------
(* Download. *)

DownEnds == down' = "end" /\ pend' = <<>>

\* recv_data_to: the header of a frame.  After a lost header it is a body that
\* is taken for one, and does not decrypt.
DownHeader ==
  /\ how = "tunnel" /\ down = "read" /\ pos < 2 * MaxFrames
  /\ pos' = pos + 1
  /\ IF pos % 2 = 0 THEN down' = "body" /\ UNCHANGED pend ELSE DownEnds
  /\ UNCHANGED <<how, upVars, got, fresh>>

DownBody ==
  /\ down = "body" /\ pos' = pos + 1 /\ pend' = <<pos, pos + 1>> /\ down' = "write"
  /\ UNCHANGED <<how, upVars, got, fresh>>

DownRead ==
  /\ how = "direct" /\ down = "read" /\ pos < 2 * MaxFrames
  /\ pos' = pos + 2 /\ pend' = <<pos + 1, pos + 2>> /\ down' = "write"
  /\ UNCHANGED <<how, upVars, got, fresh>>

\* The client's socket has room for a part of it.
DownWrite ==
  /\ down = "write"
  /\ got' = Append(got, Head(pend)) /\ pend' = Tail(pend)
  /\ IF Tail(pend) = <<>> THEN down' = "read" /\ Activity("down") ELSE UNCHANGED <<down, fresh>>
  /\ UNCHANGED <<how, upVars, pos>>

\* close_notify, the end, an error on either side; the client is sent a FIN by
\* a tunnel's half.
DownOver ==
  /\ down # "end" /\ DownEnds /\ UNCHANGED <<how, upVars, pos, got, fresh>>

\* Mutant: the reads only, as in a direct relay.
MutTimeReads == {"read"}

\* What the timeout of the download covers: not the writes of a direct relay.
Timed == IF how = "tunnel" THEN {"read", "body", "write"} ELSE {"read"}

\* The timeout drops the future, with what it had read and not yet written.
DownTimeout ==
  /\ down \in Timed
  /\ \/ WaitsAgain("down") /\ down' = "read" /\ pend' = <<>>
     \/ DownEnds /\ UNCHANGED fresh
  /\ UNCHANGED <<how, upVars, pos, got>>

UpStep == UpRead \/ UpSend \/ UpSendFails \/ UpEof \/ UpTimeout \/ UpNotified
DownStep == DownHeader \/ DownBody \/ DownRead \/ DownWrite \/ DownOver
=============================================================================
