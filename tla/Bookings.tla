------------------------------ MODULE Bookings ------------------------------
(***************************************************************************)
(* Booking one issued quote (bookings/bookings.service.ts, bookQuote):     *)
(* read the quote and check that it can be booked, screen the customer     *)
(* again, then in one transaction claim the quote with a guarded UPDATE    *)
(* and insert the booking, its shipment and both events, and last, outside *)
(* the transaction, start the shipment's workflow.                         *)
(*                                                                         *)
(* The transaction runs at READ COMMITTED: the UPDATE's NOT EXISTS is read *)
(* from the snapshot its statement started with, and stays what it was     *)
(* when the statement waits for the row lock and checks the row again.     *)
(* bookings has no unique index on the quote.                              *)
(*                                                                         *)
(* Several clients try at once, and one that was answered with a server    *)
(* error tries again; MaxFaults bounds the errors.  A booking is the pair  *)
(* <<client, attempt>> that made it.                                       *)
(***************************************************************************)
EXTENDS Naturals, FiniteSets

CONSTANTS
  Clients,    \* who may ask to book the quote
  MaxFaults   \* bound: failed calls, failed transactions and crashes

ASSUME BookingAssumption == MaxFaults \in Nat

Nobody == "nobody"
ASSUME NobodyAssumption == Nobody \notin Clients

VARIABLES
  quoteStatus,  \* quotes.status
  expired,      \* validUntil is past
  partyStatus,  \* the customer's screening_status
  bookings,     \* committed bookings, each with its shipment and two events
  workflows,    \* bookings whose shipment's workflow was started
  locked,       \* who holds the lock on the quote's row
  pc,           \* where a request stands
  answer,       \* the response to the client's latest request
  attempt,      \* how many requests the client has made
  before,       \* history: bookings committed when that request came in
  faults

vars == <<quoteStatus, expired, partyStatus, bookings, workflows, locked,
          pc, answer, attempt, before, faults>>

Bookable == {"ISSUED", "ACCEPTED"}

TypeOK ==
  /\ quoteStatus \in Bookable
  /\ expired \in BOOLEAN
  /\ partyStatus \in {"CLEAR", "REVIEW", "HIT"}
  /\ bookings \subseteq Clients \X Nat
  /\ workflows \subseteq Clients \X Nat
  /\ locked \in Clients \cup {Nobody}
  /\ pc \in [Clients -> {"idle", "screen", "update", "wait", "insert", "workflow", "done"}]
  /\ answer \in [Clients -> {"none", "booked", "conflict", "error"}]
  /\ attempt \in [Clients -> Nat]
  /\ before \in [Clients -> SUBSET (Clients \X Nat)]
  /\ faults \in 0 .. MaxFaults

\* Quotes are inserted as ISSUED; the customer was screened when created.
Init ==
  /\ quoteStatus = "ISSUED"
  /\ expired = FALSE
  /\ partyStatus = "CLEAR"
  /\ bookings = {}
  /\ workflows = {}
  /\ locked = Nobody
  /\ pc = [c \in Clients |-> "idle"]
  /\ answer = [c \in Clients |-> "none"]
  /\ attempt = [c \in Clients |-> 0]
  /\ before = [c \in Clients |-> {}]
  /\ faults = 0

-----------------------------------------------------------------------------

At(c, from, to) == pc[c] = from /\ pc' = [pc EXCEPT ![c] = to]

Answer(c, a) == answer' = [answer EXCEPT ![c] = a]

\* A request arrives, the first of a client or its retry after an error, and
\* passes assertBookable or is refused.
Request(c) ==
  /\ pc[c] = "idle" \/ answer[c] = "error"
  /\ attempt' = [attempt EXCEPT ![c] = @ + 1]
  /\ before' = [before EXCEPT ![c] = bookings]
  /\ IF quoteStatus \in Bookable /\ ~expired
       THEN /\ pc' = [pc EXCEPT ![c] = "screen"]
            /\ Answer(c, "none")
       ELSE /\ pc' = [pc EXCEPT ![c] = "done"]
            /\ Answer(c, "conflict")
  /\ UNCHANGED <<quoteStatus, expired, partyStatus, bookings, workflows,
                 locked, faults>>

\* screenParty: the verdict is stored, unless screening is off; a hit ends the
\* request.  REVIEW lets it through.
Screen(c) ==
  /\ \E verdict \in {"CLEAR", "REVIEW", "HIT", "SKIPPED"} :
       /\ partyStatus' = IF verdict = "SKIPPED" THEN partyStatus ELSE verdict
       /\ IF verdict = "HIT"
            THEN At(c, "screen", "done") /\ Answer(c, "conflict")
            ELSE At(c, "screen", "update") /\ UNCHANGED answer
  /\ UNCHANGED <<quoteStatus, expired, bookings, workflows, locked, attempt, before, faults>>

\* Defect for a mutation run: the guard looks at the status alone.
NoBookingIgnored == TRUE

\* The subselect of the guard, read from the snapshot of the statement.
NoBookingVisible == bookings = {}

\* The UPDATE starts.  A row that matches is locked, or waited for: who waits
\* has found no booking.
Claim(c) ==
  /\ quoteStatus \in Bookable /\ NoBookingVisible
  /\ IF locked = Nobody
       THEN At(c, "update", "insert") /\ locked' = c
       ELSE At(c, "update", "wait") /\ UNCHANGED locked
  /\ UNCHANGED <<quoteStatus, expired, partyStatus, bookings, workflows,
                 answer, attempt, before, faults>>

\* No row was updated: conflict, and the transaction rolls back.
ClaimRefused(c) ==
  /\ ~(quoteStatus \in Bookable /\ NoBookingVisible)
  /\ At(c, "update", "done")
  /\ Answer(c, "conflict")
  /\ UNCHANGED <<quoteStatus, expired, partyStatus, bookings, workflows,
                 locked, attempt, before, faults>>

\* The lock is free again: the row's new version is checked, its status anew and
\* the subselect with the answer it had.
Claimed(c) ==
  /\ locked = Nobody
  /\ quoteStatus \in Bookable
  /\ At(c, "wait", "insert")
  /\ locked' = c
  /\ UNCHANGED <<quoteStatus, expired, partyStatus, bookings, workflows,
                 answer, attempt, before, faults>>

\* The rest of the transaction and its commit: the quote is accepted, booking,
\* shipment and both events appear.
Commit(c) ==
  /\ At(c, "insert", "workflow")
  /\ quoteStatus' = "ACCEPTED"
  /\ bookings' = bookings \cup {<<c, attempt[c]>>}
  /\ locked' = Nobody
  /\ UNCHANGED <<expired, partyStatus, workflows, answer, attempt,
                 before, faults>>

\* The workflow is started, or there is no Temporal to start it with.
Finish(c) ==
  /\ At(c, "workflow", "done")
  /\ Answer(c, "booked")
  /\ workflows' \in {workflows, workflows \cup {<<c, attempt[c]>>}}
  /\ UNCHANGED <<quoteStatus, expired, partyStatus, bookings, locked, attempt, before, faults>>

\* Defect for a mutation run: a failed transaction keeps its row lock.
FailLocked(c) ==
  /\ pc[c] \in {"screen", "update", "wait", "insert", "workflow"}
  /\ faults < MaxFaults
  /\ faults' = faults + 1
  /\ pc' = [pc EXCEPT ![c] = "done"]
  /\ Answer(c, "error")
  /\ UNCHANGED <<quoteStatus, expired, partyStatus, bookings, workflows,
                 locked, attempt, before>>

\* Defect for a mutation run: the workflow is started inside the transaction.
FailStarted(c) ==
  /\ pc[c] \in {"screen", "update", "wait", "insert", "workflow"}
  /\ faults < MaxFaults
  /\ faults' = faults + 1
  /\ pc' = [pc EXCEPT ![c] = "done"]
  /\ Answer(c, "error")
  /\ locked' = IF locked = c THEN Nobody ELSE locked
  /\ workflows' = IF locked = c THEN workflows \cup {<<c, attempt[c]>>} ELSE workflows
  /\ UNCHANGED <<quoteStatus, expired, partyStatus, bookings, attempt, before>>

\* A call throws or the instance stops: an open transaction rolls back, a
\* committed one stays although the client is told of an error, and a verdict may
\* have been stored already.
Fail(c) ==
  /\ pc[c] \in {"screen", "update", "wait", "insert", "workflow"}
  /\ faults < MaxFaults
  /\ faults' = faults + 1
  /\ pc' = [pc EXCEPT ![c] = "done"]
  /\ Answer(c, "error")
  /\ locked' = IF locked = c THEN Nobody ELSE locked
  /\ \/ UNCHANGED workflows
     \/ /\ pc[c] = "workflow"
        /\ workflows' = workflows \cup {<<c, attempt[c]>>}
  /\ \/ UNCHANGED partyStatus
     \/ pc[c] = "screen" /\ partyStatus' \in {"CLEAR", "REVIEW", "HIT"}
  /\ UNCHANGED <<quoteStatus, expired, bookings, attempt, before>>

\* The quote's validity ends.
Expire ==
  /\ ~expired
  /\ expired' = TRUE
  /\ UNCHANGED <<quoteStatus, partyStatus, bookings, workflows, locked, pc,
                 answer, attempt, before, faults>>

RequestStep(c) ==
  \/ Screen(c)
  \/ Claim(c)
  \/ ClaimRefused(c)
  \/ Claimed(c)
  \/ Commit(c)
  \/ Finish(c)

Next ==
  \/ \E c \in Clients : Request(c) \/ RequestStep(c) \/ Fail(c)
  \/ Expire

Spec == Init /\ [][Next]_vars

\* An awaited call returns, and so does a wait for a row lock that stays free.
FairSpec == Spec /\ \A c \in Clients : WF_vars(RequestStep(c))

-----------------------------------------------------------------------------
(* Properties.                                                             *)

\* Once a booking of the quote has committed, no request that comes in later
\* books it again: not a second click, and not the retry of a client that was
\* told of an error after its booking had been made.
NoLaterBooking == \A b \in bookings : \A c \in Clients :
  b \in before[c] => <<c, attempt[c]>> \notin bookings

\* The quote is accepted exactly when it is booked, and no error half way leaves
\* it accepted without a shipment.
AcceptedIffBooked == (quoteStatus = "ACCEPTED") <=> (bookings # {})

\* A workflow runs only for a shipment that exists: it is started after the
\* commit, so no failed transaction leaves one behind.
StartedAfterCommit == workflows \subseteq bookings

\* A booking is all or nothing, through concurrent requests and errors: the quote,
\* the booking and the workflow never disagree about whether the shipment exists.
BookingAtomic == AcceptedIffBooked /\ StartedAfterCommit

\* Every request is answered, whoever else holds or waits for the row.
EventuallyAnswered ==
  \A c \in Clients : pc[c] = "screen" ~> answer[c] # "none"

\* What the service says of its guard: only one booking per quote.
OneBookingPerQuote == Cardinality(bookings) <= 1
=============================================================================
