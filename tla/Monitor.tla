------------------------------ MODULE Monitor ------------------------------
(***************************************************************************)
(* The records of connections kept by monitor.rs: a map of the live ones   *)
(* and a queue of recent ones, newest first.  Each has a mutex of its own, *)
(* so an operation that touches both takes two steps.                      *)
(***************************************************************************)
EXTENDS Integers, Sequences, SequencesExt

CONSTANTS
  RecentCap   \* RECENT_REQUESTS_CAP, 300 in the code

ASSUME RecentAssumption == RecentCap \in Nat \ {0}

VARIABLES
  live,       \* ACTIVE_CONNECTIONS: ids
  recents,    \* RECENT_REQUESTS: the id and the status of each record
  nextId,     \* NEXT_CONN_ID
  resetting   \* a reset_session is between its two locks

monitorVars == <<live, recents, nextId, resetting>>

MonitorInit == live = {} /\ recents = <<>> /\ nextId = 1 /\ resetting = FALSE

Entry(id, status) == [id |-> id, status |-> status]

\* record_conn_start_with_app, first lock: the record with its abort Notify.
StartLive ==
  /\ live' = live \cup {nextId} /\ nextId' = nextId + 1
  /\ UNCHANGED <<recents, resetting>>

\* Second lock: the oldest record makes room.
StartRecent(id) ==
  /\ recents' = <<Entry(id, "Active")>> \o
                IF Len(recents) >= RecentCap THEN Front(recents) ELSE recents
  /\ UNCHANGED <<live, nextId, resetting>>

\* record_conn_close_with_duration, first lock.
CloseLive(id) ==
  live' = live \ {id} /\ UNCHANGED <<recents, nextId, resetting>>

\* Second lock: the record is closed if it is still in the queue.
CloseRecent(id) ==
  /\ recents' = [i \in DOMAIN recents |->
                   IF recents[i].id = id THEN Entry(id, "Closed") ELSE recents[i]]
  /\ UNCHANGED <<live, nextId, resetting>>

\* reset_session, called by every Engine::new, also while connections are live.
ResetLive ==
  ~resetting /\ resetting' = TRUE /\ live' = {} /\ UNCHANGED <<recents, nextId>>

ResetRecent ==
  resetting /\ resetting' = FALSE /\ recents' = <<>> /\ UNCHANGED <<live, nextId>>

\* The record of id is live, or still called active.
Ghost(id) == id \in live \/ \E i \in DOMAIN recents : recents[i] = Entry(id, "Active")
=============================================================================
