---------------------------- MODULE CustomsEntries ----------------------------
(***************************************************************************)
(* One customs entry (customs/customs.service.ts) from its creation to its *)
(* release: confirming lines, preparing, submitting, and the bureau's      *)
(* outcomes.                                                               *)
(*                                                                         *)
(* Every call reads the entry and then its lines outside any transaction,  *)
(* checks what it read, and then writes in a transaction of its own: an    *)
(* UPDATE by id, which takes the row lock, and the event that goes with    *)
(* it, stamped once the lock is held.  Nothing makes the UPDATE depend on  *)
(* the status that was checked.  createEntry inserts the entry and its     *)
(* lines in two statements.                                                *)
(*                                                                         *)
(* References, duties and texts are left out, and the clocks of the        *)
(* instances are taken to agree.  MaxCalls and MaxFaults are bounds.       *)
(***************************************************************************)
EXTENDS EventLog

CONSTANTS
  Lines,      \* the entry's lines
  Doubtful,   \* those classified with a confidence below the threshold
  MaxCalls,   \* bound: calls started
  MaxFaults   \* bound: failed calls

Calls == Writers
Nobody == "nobody"

ASSUME CustomsAssumption ==
  /\ Doubtful \subseteq Lines
  /\ MaxCalls \in Nat /\ MaxFaults \in Nat
  /\ MaxEvents >= MaxCalls
  /\ Nobody \notin Calls

EntryStatus == {"DRAFT", "PREPARED", "SUBMITTED", "QUERY", "RELEASED", "STOPPED"}

\* duty-calculator.ts.  PREPARED may return to DRAFT, though no call does it.
Transitions ==
  [DRAFT     |-> {"PREPARED"},
   PREPARED  |-> {"SUBMITTED", "DRAFT"},
   SUBMITTED |-> {"QUERY", "RELEASED", "STOPPED"},
   QUERY     |-> {"SUBMITTED", "STOPPED"},
   RELEASED  |-> {},
   STOPPED   |-> {"SUBMITTED"}]

\* A call that moves the entry is named by the status it moves it to, and so is
\* its event; confirmLine by whether it also corrects the HS code.
Moves == EntryStatus \ {"DRAFT"}
Ops == Moves \cup {"confirm", "correct"}

Codes == {"proposed", "corrected", "absent"}
NoEvent == [type |-> "none", codes |-> [l \in Lines |-> "absent"]]
Event(type, codes) == [type |-> type, codes |-> codes]

VARIABLES
  created,    \* how far createEntry has come
  status,     \* customs_entries.status
  code,       \* code[l]: customs_entry_lines.hs_code, "absent" before the insert
  confirmed,  \* lines whose human_confirmed is set
  event,      \* event[p]: what was recorded at position p
  locked,     \* the call that holds the lock on the entry's row
  pc,         \* where a call stands
  op,         \* what it does
  read,       \* the status it read
  seen,       \* the codes it read
  alone,      \* history: no other call was under way at the same time
  calls,      \* calls started
  faults

callVars == <<locked, pc, op, read, seen, alone, calls, faults>>
vars == <<logVars, created, status, code, confirmed, event, callVars>>

TypeOK ==
  /\ LogTypeOK
  /\ created \in {"no", "entry", "failed", "yes"}
  /\ status \in EntryStatus
  /\ code \in [Lines -> Codes]
  /\ confirmed \subseteq Lines
  /\ event \in [Positions -> [type : Moves \cup {"none"}, codes : [Lines -> Codes]]]
  /\ locked \in Calls \cup {Nobody}
  /\ pc \in [Calls -> {"idle", "entry", "lines", "confirm", "update", "append", "commit"}]
  /\ op \in [Calls -> Ops]
  /\ read \in [Calls -> EntryStatus]
  /\ seen \in [Calls -> [Lines -> Codes]]
  /\ alone \in [Calls -> BOOLEAN]
  /\ calls \in 0 .. MaxCalls
  /\ faults \in 0 .. MaxFaults

Init ==
  /\ LogInit
  /\ created = "no"
  /\ status = "DRAFT"
  /\ code = [l \in Lines |-> "absent"]
  /\ confirmed = {}
  /\ event = [p \in Positions |-> NoEvent]
  /\ locked = Nobody
  /\ pc = [c \in Calls |-> "idle"]
  /\ op = [c \in Calls |-> "PREPARED"]
  /\ read = [c \in Calls |-> "DRAFT"]
  /\ seen = [c \in Calls |-> [l \in Lines |-> "absent"]]
  /\ alone = [c \in Calls |-> TRUE]
  /\ calls = 0
  /\ faults = 0

-----------------------------------------------------------------------------
(* createEntry: the entry is there for everyone before its lines are.      *)

InsertEntry ==
  /\ created = "no"
  /\ created' = "entry"
  /\ UNCHANGED <<logVars, status, code, confirmed, event, callVars>>

InsertLines ==
  /\ created = "entry"
  /\ created' = "yes"
  /\ code' = [l \in Lines |-> "proposed"]
  /\ UNCHANGED <<logVars, status, confirmed, event, callVars>>

\* The second insert fails or the instance stops: the entry stays without lines.
CreationFails ==
  /\ created = "entry"
  /\ faults < MaxFaults
  /\ created' = "failed"
  /\ faults' = faults + 1
  /\ UNCHANGED <<logVars, status, code, confirmed, event,
                 locked, pc, op, read, seen, alone, calls>>

-----------------------------------------------------------------------------
(* A call.                                                                 *)

UnderWay(c) == pc[c] # "idle"

At(c, from, to) == pc[c] = from /\ pc' = [pc EXCEPT ![c] = to]

Start(c) ==
  /\ created # "no"
  /\ calls < MaxCalls
  /\ calls' = calls + 1
  /\ At(c, "idle", "entry")
  /\ \E o \in Ops : op' = [op EXCEPT ![c] = o]
  /\ LET others == {d \in Calls \ {c} : UnderWay(d)} IN
       alone' = [d \in Calls |->
                   CASE d = c -> others = {} /\ created # "entry"
                     [] d \in others -> FALSE
                     [] OTHER -> alone[d]]
  /\ UNCHANGED <<logVars, created, status, code, confirmed, event,
                 locked, read, seen, faults>>

\* What a call that has been answered had read is gone with it.
Forget(c) ==
  /\ op' = [op EXCEPT ![c] = "PREPARED"]
  /\ read' = [read EXCEPT ![c] = "DRAFT"]
  /\ seen' = [seen EXCEPT ![c] = NoEvent.codes]
  /\ alone' = [alone EXCEPT ![c] = TRUE]

\* getEntry: the entry ...
ReadEntry(c) ==
  /\ At(c, "entry", "lines")
  /\ read' = [read EXCEPT ![c] = status]
  /\ UNCHANGED <<logVars, created, status, code, confirmed, event,
                 locked, op, seen, alone, calls, faults>>

\* Defect for a mutation run: the confirmation check is gone.
UncheckedLines == {}

\* The lines that keep an entry from being prepared.
Unconfirmed == {l \in Doubtful : code[l] # "absent" /\ l \notin confirmed}

\* Defect for a mutation run: an outcome is taken whatever the status is.
AllowedAnyOutcome(c) ==
  IF op[c] \in Moves
    THEN /\ op[c] \in Transitions[read[c]] \/ op[c] \in {"QUERY", "RELEASED", "STOPPED"}
         /\ op[c] = "PREPARED" => Unconfirmed = {}
    ELSE read[c] = "DRAFT"

\* What a call checks: the transition table, and for prepare the lines; lines
\* are confirmed on a draft only.
Allowed(c) ==
  IF op[c] \in Moves
    THEN /\ op[c] \in Transitions[read[c]]
         /\ op[c] = "PREPARED" => Unconfirmed = {}
    ELSE read[c] = "DRAFT"

\* ... and its lines; then the checks.
ReadLines(c) ==
  /\ Allowed(c)
  /\ At(c, "lines", IF op[c] \in Moves THEN "update" ELSE "confirm")
  /\ seen' = [seen EXCEPT ![c] = code]
  /\ UNCHANGED <<logVars, created, status, code, confirmed, event,
                 locked, op, read, alone, calls, faults>>

\* A conflict, for a call that fails them.
Refuse(c) ==
  /\ ~Allowed(c)
  /\ At(c, "lines", "idle")
  /\ Forget(c)
  /\ UNCHANGED <<logVars, created, status, code, confirmed, event, locked, calls, faults>>

\* confirmLine: one UPDATE of the line, by its id.
Confirm(c) ==
  /\ At(c, "confirm", "idle")
  /\ \E line \in Lines :
       IF code[line] = "absent" THEN UNCHANGED <<code, confirmed>>
       ELSE /\ confirmed' = confirmed \cup {line}
            /\ code' = IF op[c] = "correct" THEN [code EXCEPT ![line] = "corrected"]
                       ELSE code
  /\ Forget(c)
  /\ UNCHANGED <<logVars, created, status, event, locked, calls, faults>>

\* Defect for a mutation run: the event is stamped before the row is locked.
UpdateUnlocked(c) ==
  /\ At(c, "update", "append")
  /\ UNCHANGED <<logVars, created, status, code, confirmed, event,
                 locked, op, read, seen, alone, calls, faults>>

\* The transaction's UPDATE by id: waits for the row, whatever its status is now.
Update(c) ==
  /\ locked = Nobody
  /\ At(c, "update", "append")
  /\ locked' = c
  /\ UNCHANGED <<logVars, created, status, code, confirmed, event,
                 op, read, seen, alone, calls, faults>>

\* The event of the move: entry.prepared lists the lines as they were read.
AppendEvent(c) ==
  /\ At(c, "append", "commit")
  /\ Stamp(c)
  /\ event' = [event EXCEPT ![clock + 1] =
                 Event(op[c], IF op[c] = "PREPARED" THEN seen[c] ELSE NoEvent.codes)]
  /\ UNCHANGED <<created, status, code, confirmed,
                 locked, op, read, seen, alone, calls, faults>>

\* The new status and the event appear together.
CommitMove(c) ==
  /\ At(c, "commit", "idle")
  /\ Commit(c)
  /\ status' = op[c]
  /\ locked' = Nobody
  /\ Forget(c)
  /\ UNCHANGED <<created, code, confirmed, event, calls, faults>>

\* The call fails; an open transaction rolls back.
Fail(c) ==
  /\ UnderWay(c)
  /\ faults < MaxFaults
  /\ faults' = faults + 1
  /\ pc' = [pc EXCEPT ![c] = "idle"]
  /\ locked' = IF locked = c THEN Nobody ELSE locked
  /\ IF open[c] # {} THEN Rollback(c) ELSE UNCHANGED logVars
  /\ Forget(c)
  /\ UNCHANGED <<created, status, code, confirmed, event, calls>>

CallStep(c) ==
  \/ Start(c) \/ ReadEntry(c) \/ ReadLines(c) \/ Refuse(c) \/ Confirm(c)
  \/ Update(c) \/ AppendEvent(c) \/ CommitMove(c)

Next ==
  \/ InsertEntry \/ InsertLines \/ CreationFails
  \/ \E c \in Calls : CallStep(c) \/ Fail(c)

Spec == Init /\ [][Next]_vars

-----------------------------------------------------------------------------
(* Properties.                                                             *)

\* The entry's status is always that of its last event in recorded order, so a
\* consumer that replays the log agrees with the table, however calls overlap:
\* the event is stamped while the row lock of the UPDATE is held.
StatusIsLastEvent ==
  /\ committed = {} => status = "DRAFT"
  /\ \A p \in committed :
       (\A q \in committed : q <= p) => status = event[p].type

\* Each outcome in the log has a submission before it, and each submission a
\* preparation: calls that overlap may repeat or undo a step, not invent one.
NoStepInvented ==
  \A p \in committed :
    /\ event[p].type \in {"QUERY", "RELEASED", "STOPPED"} =>
         \E q \in committed : q < p /\ event[q].type = "SUBMITTED"
    /\ event[p].type = "SUBMITTED" =>
         \E q \in committed : q < p /\ event[q].type = "PREPARED"

\* A line of doubtful classification that an entry.prepared lists was confirmed
\* by a human, whatever else was going on.
ConfirmedWhenPrepared ==
  \A p \in committed : event[p].type = "PREPARED" =>
    \A l \in Doubtful : event[p].codes[l] # "absent" => l \in confirmed

\* A call that overlaps no other moves the entry along the transition table, and
\* the lines its entry.prepared lists are the stored ones the bureau will get.
LoneCallSound ==
  [][\A c \in Calls :
       CommitMove(c) /\ alone[c] =>
         /\ status' \in Transitions[status]
         /\ op[c] = "PREPARED" => seen[c] = code]_vars

\* What the transition table and its test say: a released entry stays released.
ReleaseIsFinal ==
  \A p, q \in committed : event[p].type = "RELEASED" => q <= p
=============================================================================
