------------------------------ MODULE Screening ------------------------------
(***************************************************************************)
(* Sanctions screening of the parties on file (compliance/): asked when a  *)
(* party is created and when it books, and by a daily sweep that re-asks   *)
(* the verdicts that have gone stale, oldest first and at most a cap.      *)
(* The lists are someone else's and change at any moment.                  *)
(*                                                                         *)
(* A verdict is asked, stored and logged in three steps, and a sweep does  *)
(* that for each party of its batch; requests overlap (a sweep is retried  *)
(* while the one that timed out is still under way).  Of the log only what *)
(* loadParties reads is kept: how many days old the last party.screened of *)
(* a party is, and in which order they were written.                       *)
(*                                                                         *)
(* Bounds: the lists move MaxListMoves times, the answers, statements or   *)
(* requests fail MaxScreenFaults times, ages stop at the longest interval. *)
(***************************************************************************)
EXTENDS Integers, Sequences, FiniteSets, SequencesExt

CONSTANTS
  Parties,
  Runs,            \* requests of the sweep
  Askers,          \* requests that create a party, or book for one
  Caps,            \* what the policy may say of how many a run asks
  RescreenAfter,   \* days a verdict is trusted
  MaxListMoves, MaxScreenFaults

Verdicts == {"CLEAR", "REVIEW", "HIT"}

ASSUME RescreenAssumption ==
  /\ Caps \subseteq Nat \ {0}
  /\ RescreenAfter \in [Verdicts \cup {"UNSCREENED"} -> Nat]

MaxAge == CHOOSE n \in {RescreenAfter[s] : s \in DOMAIN RescreenAfter} :
            \A s \in DOMAIN RescreenAfter : RescreenAfter[s] <= n

VARIABLES
  cap,       \* parties a run asks at most, read when the API boots
  listed,    \* what the screening service would answer
  verdict,    \* parties.screening_status; "none" before the party is created
  log,       \* parties with a party.screened, the oldest one first
  age,       \* days since it, of the parties in log
  request,   \* requests under way: the step, the parties left to ask, the answer
  listMoves, screenFaults

screenVars == <<cap, listed, verdict, log, age, request, listMoves, screenFaults>>

NoRequest == [pc |-> "idle", batch |-> <<>>, answer |-> "none"]

ScreenInit ==
  /\ cap \in Caps
  /\ listed \in [Parties -> {"CLEAR", "HIT"}]
  /\ verdict = [p \in Parties |-> "none"]
  /\ log = <<>>
  /\ age = [p \in Parties |-> 0]
  /\ request = [r \in Runs \cup Askers |-> NoRequest]
  /\ listMoves = 0 /\ screenFaults = 0

-----------------------------------------------------------------------------
(* The rules of re-screening.                                               *)

Screened(p) == \E i \in DOMAIN log : log[i] = p

IsDue(p) == Screened(p) => age[p] >= RescreenAfter[verdict[p]]

Due == {p \in Parties : verdict[p] # "none" /\ IsDue(p)}

\* Never asked comes first.
Older(p, q) ==
  \/ ~Screened(p) /\ Screened(q)
  \/ \E i, j \in DOMAIN log : log[i] = p /\ log[j] = q /\ i < j

\* A plausible bug: the dates compared the other way round.
SelectedNewest(batch) ==
  \A p \in Due \ ToSet(batch) : \A i \in DOMAIN batch :
    /\ ~Screened(p) => ~Screened(batch[i])
    /\ Screened(batch[i]) => ~Older(batch[i], p)

\* selectForRescreening; parties never asked come as the query gave them.
Selected(batch) ==
  /\ \A i, j \in DOMAIN batch : Older(batch[i], batch[j]) => i < j
  /\ \A p \in Due \ ToSet(batch) : \A i \in DOMAIN batch : ~Older(p, batch[i])

Batches ==
  LET n == IF Cardinality(Due) < cap THEN Cardinality(Due) ELSE cap
  IN {b \in UNION {SetToSeqs(S) : S \in SUBSET Due} : Len(b) = n /\ Selected(b)}

-----------------------------------------------------------------------------
(* Requests.                                                                *)

At(r, pc) == request[r].pc = pc
Moves(r, entry) == request' = [request EXCEPT ![r] = entry]

\* parties.controller create: the row is stored before the question is asked.
Create(r, p) ==
  /\ At(r, "idle") /\ verdict[p] = "none"
  /\ verdict' = [verdict EXCEPT ![p] = "UNSCREENED"]
  /\ Moves(r, [pc |-> "ask", batch |-> <<p>>, answer |-> "none"])
  /\ UNCHANGED <<cap, listed, log, age, listMoves, screenFaults>>

\* bookings.service: the customer of a quote is asked again.
AskAtBooking(r, p) ==
  /\ At(r, "idle") /\ verdict[p] # "none"
  /\ Moves(r, [pc |-> "ask", batch |-> <<p>>, answer |-> "none"])
  /\ UNCHANGED <<cap, listed, verdict, log, age, listMoves, screenFaults>>

\* sweep: the book is read once, and the batch asked from what was read.
StartSweep(r) ==
  /\ At(r, "idle") /\ Due # {}
  /\ \E b \in Batches : Moves(r, [pc |-> "ask", batch |-> b, answer |-> "none"])
  /\ UNCHANGED <<cap, listed, verdict, log, age, listMoves, screenFaults>>

\* match: an answer that is not an answer means a person must look.
Ask(r) ==
  /\ At(r, "ask")
  /\ \/ /\ Moves(r, [request[r] EXCEPT !.pc = "store", !.answer = listed[Head(request[r].batch)]])
        /\ UNCHANGED screenFaults
     \/ /\ screenFaults < MaxScreenFaults
        /\ Moves(r, [request[r] EXCEPT !.pc = "store", !.answer = "REVIEW"])
        /\ screenFaults' = screenFaults + 1
  /\ UNCHANGED <<cap, listed, verdict, log, age, listMoves>>

StoreVerdict(r) ==
  /\ At(r, "store")
  /\ verdict' = [verdict EXCEPT ![Head(request[r].batch)] = request[r].answer]
  /\ Moves(r, [request[r] EXCEPT !.pc = "log"])
  /\ UNCHANGED <<cap, listed, log, age, listMoves, screenFaults>>

LogVerdict(r) ==
  LET p == Head(request[r].batch)
      rest == Tail(request[r].batch) IN
  /\ At(r, "log")
  /\ log' = Append(SelectSeq(log, LAMBDA q : q # p), p)
  /\ age' = [age EXCEPT ![p] = 0]
  /\ Moves(r, IF rest = <<>> THEN NoRequest
              ELSE [pc |-> "ask", batch |-> rest, answer |-> "none"])
  /\ UNCHANGED <<cap, listed, verdict, listMoves, screenFaults>>

\* The call or a statement throws, or the process ends: nothing catches it, and
\* the rest of a sweep's batch is not asked either.
RequestFails(r) ==
  /\ ~At(r, "idle") /\ screenFaults < MaxScreenFaults
  /\ Moves(r, NoRequest)
  /\ screenFaults' = screenFaults + 1
  /\ UNCHANGED <<cap, listed, verdict, log, age, listMoves>>

-----------------------------------------------------------------------------
(* The world.                                                               *)

ListMoves(p) ==
  /\ listMoves < MaxListMoves
  /\ listMoves' = listMoves + 1
  /\ listed' = [listed EXCEPT ![p] = IF @ = "HIT" THEN "CLEAR" ELSE "HIT"]
  /\ UNCHANGED <<cap, verdict, log, age, request, screenFaults>>

Day ==
  /\ \E p \in Parties : Screened(p) /\ age[p] < MaxAge
  /\ age' = [p \in Parties |-> IF Screened(p) /\ age[p] < MaxAge THEN age[p] + 1 ELSE age[p]]
  /\ UNCHANGED <<cap, listed, verdict, log, request, listMoves, screenFaults>>

RequestStep(r) == Ask(r) \/ StoreVerdict(r) \/ LogVerdict(r)

ScreenNext ==
  \/ \E r \in Askers, p \in Parties : Create(r, p) \/ AskAtBooking(r, p)
  \/ \E r \in Runs : StartSweep(r)
  \/ \E r \in Runs \cup Askers : RequestStep(r) \/ RequestFails(r)
  \/ \E p \in Parties : ListMoves(p)
  \/ Day

\* The scheduler calls the sweep every day, requests end, days pass.
ScreenFairness ==
  /\ \A r \in Runs : WF_screenVars(StartSweep(r))
  /\ \A r \in Runs \cup Askers : WF_screenVars(RequestStep(r))
  /\ WF_screenVars(Day)

ScreenSpec == ScreenInit /\ [][ScreenNext]_screenVars /\ ScreenFairness

-----------------------------------------------------------------------------
(* Once the lists stand still and the service answers, every party on file  *)
(* comes to carry the verdict the lists give it and keeps it: no cap, no    *)
(* overlapping request with an older answer and no failure halfway leaves a *)
(* party with a stale one for good.                                         *)
VerdictCatchesUp ==
  \A p \in Parties : <>[](verdict[p] \in {"none", listed[p]})
=============================================================================
