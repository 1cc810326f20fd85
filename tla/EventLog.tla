------------------------------ MODULE EventLog ------------------------------
(****************************************************************************)
(* The append-only events table.                                            *)
(*                                                                          *)
(* A service builds an event with makeEvent, which stamps recordedAt from   *)
(* the clock and draws a random eventId, and inserts the row inside the     *)
(* transaction that writes its projection.  The row becomes visible to      *)
(* readers only when that transaction commits, so the order in which        *)
(* events appear is not the order (recordedAt, eventId) in which they sort. *)
(*                                                                          *)
(* An event is its position in the order (recordedAt, eventId): a number    *)
(* in 1..MaxEvents.  An event that sorts before ones already stamped,       *)
(* because two instances' clocks differ or a millisecond holds several, is  *)
(* one stamped in its place by a session that commits late.  Payloads are   *)
(* added by the modules that need them.  MaxEvents bounds how many events   *)
(* are ever stamped.                                                        *)
(****************************************************************************)
EXTENDS Naturals, FiniteSets

CONSTANTS
  Writers,    \* database sessions that append events
  MaxEvents   \* bound: events stamped in a behaviour

ASSUME EventLogAssumption == MaxEvents \in Nat

VARIABLES
  clock,      \* position of the last event stamped
  open,       \* open[w]: events inserted by w's uncommitted transaction
  committed   \* events visible to every reader

logVars == <<clock, open, committed>>

Positions == 1 .. MaxEvents

LogTypeOK ==
  /\ clock \in 0 .. MaxEvents
  /\ open \in [Writers -> SUBSET (1 .. clock)]
  /\ committed \in SUBSET (1 .. clock)

LogInit ==
  /\ clock = 0
  /\ open = [w \in Writers |-> {}]
  /\ committed = {}

\* makeEvent + appendEvent(tx, event): the row is stamped and inserted, unseen.
Stamp(w) ==
  /\ clock < MaxEvents
  /\ clock' = clock + 1
  /\ open' = [open EXCEPT ![w] = @ \cup {clock + 1}]
  /\ UNCHANGED committed

\* COMMIT: every event of the transaction becomes visible at once.
Commit(w) ==
  /\ open[w] # {}
  /\ committed' = committed \cup open[w]
  /\ open' = [open EXCEPT ![w] = {}]
  /\ UNCHANGED clock

\* ROLLBACK, or the session is lost: the events never happened.
Rollback(w) ==
  /\ open[w] # {}
  /\ open' = [open EXCEPT ![w] = {}]
  /\ UNCHANGED <<clock, committed>>
=============================================================================
