------------------------- MODULE OwnerTaskSubmission -------------------------
(***************************************************************************)
(* A task the verified owner dictates in a call, from its preparation to   *)
(* the event in his Outlook calendar (pa/service.rs over pa/store.rs).     *)
(*                                                                         *)
(* PaService::prepare_owner_task is one store transaction.                 *)
(* PaService::submit_owner_task is a sequence of store transactions and    *)
(* awaited calendar calls: every one of them is a step here, can fail, and *)
(* can be the last before a crash.  A failed create is followed by one     *)
(* read-only lookup; everything else is left to the client, who repeats    *)
(* the whole call.  Several calls run at the same time.                    *)
(***************************************************************************)
EXTENDS Integers

CONSTANTS
    Keys,        \* idempotency keys of owner task drafts
    OpKeys,      \* operation keys, which name the events at the provider
    Calls,       \* concurrent executions of submit_owner_task
    Starts,      \* start instants of tasks
    TaskLength,  \* duration of a task
    OwnerBooks,  \* [calendar, at] of the events others may enter meanwhile
    ValidFor,    \* OWNER_VERIFICATION_VALID_FOR
    NoOp,        \* the operation key of a task that has no placement
    MaxTime,     \* bound: last instant of the clock
    MaxFaults    \* bound: failed calls, lost answers and crashes

ASSUME OwnerTaskAssumption ==
    /\ Starts \subseteq Nat /\ TaskLength \in Nat \ {0}
    /\ OwnerBooks \subseteq [calendar : {"outlook", "google"}, at : Nat]
    /\ ValidFor \in Nat \ {0} /\ MaxTime \in Nat /\ MaxFaults \in Nat
    /\ NoOp \notin OpKeys

VARIABLES
    placement,   \* tables owner_task_drafts and owner_task_placements
    audit,       \* occurred_at of the OwnerTaskSubmitted row of a task
    event,       \* the owner's Outlook events, by operation key
    booked,      \* what others entered in the two calendars
    task,        \* the executions of submit_owner_task
    verifiedAt,  \* when the OwnerVerified in use was issued
    clock,       \* wall clock
    mishaps      \* history: faults so far

vars == <<placement, audit, event, booked, task, verifiedAt, clock, mishaps>>

Instants == 0..MaxTime
Never == -1
Steps == {"idle", "load", "find", "busy_outlook", "busy_google", "create",
          "find_again", "record", "audit"}

NoPlacement == [op |-> NoOp, at |-> Never, state |-> "none"]
NoEvent == [state |-> "none", seen |-> {}]
Resting == [step |-> "idle", key |-> "none", now |-> Never, busy |-> "no",
            seen |-> {}, result |-> "none"]

Init ==
    /\ placement = [k \in Keys |-> NoPlacement]
    /\ audit = [k \in Keys |-> Never]
    /\ event = [o \in OpKeys |-> NoEvent]
    /\ booked = {}
    /\ task = [c \in Calls |-> Resting]
    /\ verifiedAt = Never
    /\ clock = 0
    /\ mishaps = 0

-----------------------------------------------------------------------------
(* The owner's capability, and the preparation of a task.                  *)

\* OwnerVerified::issue, once the caller has proved to be the owner.
Issue ==
    /\ verifiedAt # clock
    /\ verifiedAt' = clock
    /\ UNCHANGED <<placement, audit, event, booked, task, clock, mishaps>>

\* OwnerVerified::validate_at
Verified == verifiedAt # Never /\ clock < verifiedAt + ValidFor

Prepared(k) == placement[k].state # "none"

\* Mutation of PrepareOwnerTask: ends_at is bound where starts_at belongs.
PrepareOwnerTaskSwapped(k, o, s) ==
    /\ Verified
    /\ ~Prepared(k)
    /\ \A j \in Keys : placement[j].op # o
    /\ placement' = [placement EXCEPT ![k] =
                        [op |-> o, at |-> s + TaskLength, state |-> "prepared"]]
    /\ UNCHANGED <<audit, event, booked, task, verifiedAt, clock, mishaps>>

\* prepare_owner_task: draft and placement are inserted in one transaction.
\* An exact retry returns them, any other use of the draft's or the operation
\* key is a conflict and is rolled back: neither changes anything.
PrepareOwnerTask(k, o, s) ==
    /\ Verified
    /\ ~Prepared(k)
    /\ \A j \in Keys : placement[j].op # o
    /\ placement' = [placement EXCEPT ![k] =
                        [op |-> o, at |-> s, state |-> "prepared"]]
    /\ UNCHANGED <<audit, event, booked, task, verifiedAt, clock, mishaps>>

-----------------------------------------------------------------------------
(* Calendars.                                                              *)

\* busy_overlaps on half-open intervals of the tasks' length.
Overlap(s, t) == t < s + TaskLength /\ t + TaskLength > s

\* Start instants list_busy reports: the task events are in Outlook.
TaskStarts == {placement[k].at : k \in {j \in Keys :
                  Prepared(j) /\ event[placement[j].op].state # "none"}}
BookedIn(calendar) == {b.at : b \in {d \in booked : d.calendar = calendar}}
OutlookBusy(s) == \E t \in TaskStarts \cup BookedIn("outlook") : Overlap(s, t)
GoogleBusy(s) == \E t \in BookedIn("google") : Overlap(s, t)

-----------------------------------------------------------------------------
(* submit_owner_task, one store transaction or calendar call at a time.    *)

On(c, step) == task[c].step = step
Mine(c) == placement[task[c].key]
MyEvent(c) == event[Mine(c).op]

\* `seen` is forgotten once the call can create no event any more.
GoOn(c, step) ==
    task' = [task EXCEPT ![c].step = step,
                ![c].seen = IF step \in {"find_again", "record", "audit"}
                            THEN {} ELSE @]
GiveUp(c) == task' = [task EXCEPT ![c] = Resting]

\* The client calls, or repeats the call, with the task it prepared.
Call(c, k) ==
    /\ On(c, "idle")
    /\ Verified
    /\ Prepared(k)
    /\ task' = [task EXCEPT ![c] = [Resting EXCEPT
           !.step = "load", !.key = k, !.now = clock,
           !.seen = TaskStarts \cup {b.at : b \in booked}]]
    /\ UNCHANGED <<placement, audit, event, booked, verifiedAt, clock, mishaps>>

\* Mutation of Load: a submitted placement needs nothing more.
LoadWithoutAudit(c) ==
    /\ On(c, "load")
    /\ IF Mine(c).state = "submitted"
       THEN task' = [task EXCEPT ![c] = [Resting EXCEPT !.key = task[c].key,
                                                        !.result = "submitted"]]
       ELSE GoOn(c, "find")
    /\ UNCHANGED <<placement, audit, event, booked, verifiedAt, clock, mishaps>>

\* A placement that names its event only lacks the audit row, if that.
Load(c) ==
    /\ On(c, "load")
    /\ GoOn(c, IF Mine(c).state = "submitted" THEN "audit" ELSE "find")
    /\ UNCHANGED <<placement, audit, event, booked, verifiedAt, clock, mishaps>>

\* Mutation of FindOwnerEvent: the interval is checked before the lookup.
FindOwnerEventLate(c) ==
    /\ On(c, "find")
    /\ GoOn(c, "busy_outlook")
    /\ UNCHANGED <<placement, audit, event, booked, verifiedAt, clock, mishaps>>

\* find_owner_event and validate_owner_event: the owner may have changed it.
FindOwnerEvent(c) ==
    /\ On(c, "find")
    /\ CASE MyEvent(c).state = "created" -> GoOn(c, "record")
         [] MyEvent(c).state = "changed" -> GiveUp(c)
         [] MyEvent(c).state = "none" -> GoOn(c, "busy_outlook")
    /\ UNCHANGED <<placement, audit, event, booked, verifiedAt, clock, mishaps>>

ListBusyOutlook(c) ==
    /\ On(c, "busy_outlook")
    /\ task' = [task EXCEPT ![c].step = "busy_google",
                   ![c].busy = IF OutlookBusy(Mine(c).at) THEN "yes" ELSE "no"]
    /\ UNCHANGED <<placement, audit, event, booked, verifiedAt, clock, mishaps>>

\* Mutation of ListBusyGoogle: only Outlook is looked at.
ListBusyGoogleIgnored(c) ==
    /\ On(c, "busy_google")
    /\ IF task[c].busy = "yes" THEN GiveUp(c) ELSE GoOn(c, "create")
    /\ UNCHANGED <<placement, audit, event, booked, verifiedAt, clock, mishaps>>

ListBusyGoogle(c) ==
    /\ On(c, "busy_google")
    /\ IF task[c].busy = "yes" \/ GoogleBusy(Mine(c).at)
       THEN GiveUp(c) ELSE GoOn(c, "create")
    /\ UNCHANGED <<placement, audit, event, booked, verifiedAt, clock, mishaps>>

\* The provider creates one event per operation key and returns it again for
\* an exact retry.
WithEvent(c) ==
    IF MyEvent(c).state = "none"
    THEN [event EXCEPT ![Mine(c).op] = [state |-> "created", seen |-> task[c].seen]]
    ELSE event

\* A changed event is a conflict, which like any error leads to the lookup.
CreateOwnerEvent(c) ==
    /\ On(c, "create")
    /\ event' = WithEvent(c)
    /\ GoOn(c, IF event'[Mine(c).op].state = "created" THEN "record"
                                                       ELSE "find_again")
    /\ UNCHANGED <<placement, audit, booked, verifiedAt, clock, mishaps>>

\* Rejected, or answered with an error after the event was created.
CreateOwnerEventFails(c) ==
    /\ On(c, "create")
    /\ mishaps < MaxFaults
    /\ event' \in {event, WithEvent(c)}
    /\ GoOn(c, "find_again")
    /\ mishaps' = mishaps + 1
    /\ UNCHANGED <<placement, audit, booked, verifiedAt, clock>>

\* Mutation of FindAgain: a create that failed is taken for one that timed out.
FindAgainTrusting(c) ==
    /\ On(c, "find_again")
    /\ GoOn(c, "record")
    /\ UNCHANGED <<placement, audit, event, booked, verifiedAt, clock, mishaps>>

\* The one lookup after a failed create.
FindAgain(c) ==
    /\ On(c, "find_again")
    /\ IF MyEvent(c).state = "created" THEN GoOn(c, "record") ELSE GiveUp(c)
    /\ UNCHANGED <<placement, audit, event, booked, verifiedAt, clock, mishaps>>

\* submit_owner_task_placement: concurrent calls bring the same event.
SubmitPlacement(c) ==
    /\ On(c, "record")
    /\ placement' = [placement EXCEPT ![task[c].key].state = "submitted"]
    /\ GoOn(c, "audit")
    /\ UNCHANGED <<audit, event, booked, verifiedAt, clock, mishaps>>

\* Mutation of EnsureAudit: the row of an earlier call is a conflict.
EnsureAuditOfThisCall(c) ==
    /\ On(c, "audit")
    /\ IF audit[task[c].key] \in {Never, task[c].now}
       THEN /\ audit' = [audit EXCEPT ![task[c].key] = task[c].now]
            /\ task' = [task EXCEPT ![c] = [Resting EXCEPT
                           !.key = task[c].key, !.result = "submitted"]]
       ELSE GiveUp(c) /\ UNCHANGED audit
    /\ UNCHANGED <<placement, event, booked, verifiedAt, clock, mishaps>>

\* ensure_owner_task_submission_audit: the first row stays, although a later
\* call has another time.
EnsureAudit(c) ==
    /\ On(c, "audit")
    /\ audit' = [audit EXCEPT ![task[c].key] = IF @ = Never THEN task[c].now ELSE @]
    /\ task' = [task EXCEPT ![c] = [Resting EXCEPT !.key = task[c].key,
                                                   !.result = "submitted"]]
    /\ UNCHANGED <<placement, event, booked, verifiedAt, clock, mishaps>>

\* A store or calendar call fails without an effect, or the process stops.
Break(c) ==
    /\ ~On(c, "idle") /\ ~On(c, "create")
    /\ mishaps < MaxFaults
    /\ GiveUp(c)
    /\ mishaps' = mishaps + 1
    /\ UNCHANGED <<placement, audit, event, booked, verifiedAt, clock>>

\* The process stops with the create in flight.
BreakInCreate(c) ==
    /\ On(c, "create")
    /\ mishaps < MaxFaults
    /\ event' \in {event, WithEvent(c)}
    /\ GiveUp(c)
    /\ mishaps' = mishaps + 1
    /\ UNCHANGED <<placement, audit, booked, verifiedAt, clock>>

Proceed(c) ==
    \/ Load(c) \/ FindOwnerEvent(c)
    \/ ListBusyOutlook(c) \/ ListBusyGoogle(c)
    \/ CreateOwnerEvent(c) \/ FindAgain(c)
    \/ SubmitPlacement(c) \/ EnsureAudit(c)

-----------------------------------------------------------------------------
(* Everybody else.                                                         *)

\* Somebody enters an event in one of the owner's calendars.
Book(b) ==
    /\ b \notin booked
    /\ booked' = booked \cup {b}
    /\ UNCHANGED <<placement, audit, event, task, verifiedAt, clock, mishaps>>

\* The owner edits the event of a task in Outlook.
OwnerChanges(o) ==
    /\ event[o].state = "created"
    /\ event' = [event EXCEPT ![o].state = "changed"]
    /\ UNCHANGED <<placement, audit, booked, task, verifiedAt, clock, mishaps>>

Tick ==
    /\ clock < MaxTime
    /\ clock' = clock + 1
    /\ UNCHANGED <<placement, audit, event, booked, task, verifiedAt, mishaps>>

Next ==
    \/ Issue
    \/ \E k \in Keys, o \in OpKeys, s \in Starts : PrepareOwnerTask(k, o, s)
    \/ \E c \in Calls, k \in Keys : Call(c, k)
    \/ \E c \in Calls : \/ Proceed(c) \/ CreateOwnerEventFails(c)
                        \/ Break(c) \/ BreakInCreate(c)
    \/ \E b \in OwnerBooks : Book(b)
    \/ \E o \in OpKeys : OwnerChanges(o)
    \/ Tick

Spec == Init /\ [][Next]_vars

\* An execution that was started runs on or fails; the client keeps calling
\* with every task it prepared, and the owner renews his verification for it.
Fairness ==
    /\ WF_vars(Issue)
    /\ \A c \in Calls : WF_vars(Proceed(c))
    /\ \A k \in Keys : SF_vars(\E c \in Calls : Call(c, k))

LiveSpec == Spec /\ Fairness

-----------------------------------------------------------------------------
(* Properties.                                                             *)

TypeOK ==
    /\ placement \in [Keys -> [op : OpKeys \cup {NoOp}, at : Starts \cup {Never},
                               state : {"none", "prepared", "submitted"}]]
    /\ audit \in [Keys -> Instants \cup {Never}]
    /\ event \in [OpKeys -> [state : {"none", "created", "changed"},
                             seen : SUBSET Nat]]
    /\ booked \subseteq OwnerBooks
    /\ task \in [Calls -> [step : Steps, key : Keys \cup {"none"},
                           now : Instants \cup {Never}, busy : {"yes", "no"},
                           seen : SUBSET Nat, result : {"none", "submitted"}]]
    /\ verifiedAt \in Instants \cup {Never}
    /\ clock \in Instants
    /\ mishaps \in 0..MaxFaults

\* The event of a task never overlaps anything that was in either calendar
\* when the call that created it began: what a failed create, its lookup and
\* later retries do never skips the check of both calendars.
NoTaskOverKnownEvent ==
    \A k \in Keys : Prepared(k) =>
       \A t \in event[placement[k].op].seen : ~Overlap(placement[k].at, t)

\* A client that was told "submitted" has its event, the placement that names
\* it and the audit row, whichever call of whichever client wrote them.
SubmittedIsComplete ==
    \A c \in Calls : task[c].result = "submitted" =>
       LET k == task[c].key IN
       /\ placement[k].state = "submitted"
       /\ event[placement[k].op].state # "none"
       /\ audit[k] # Never

Performed == {k \in Keys : Prepared(k) /\ event[placement[k].op].state # "none"}

\* The calls, faults and retries of the saga are the four steps of
\* RecordedEffect, in their order and each at most once for a task.
Effect == INSTANCE RecordedEffect WITH
    Requests <- Keys,
    admitted <- {k \in Keys : Prepared(k)},
    performed <- Performed,
    recorded <- {k \in Keys : placement[k].state = "submitted"},
    announced <- {k \in Keys : audit[k] # Never}

ImplementsEffect == Effect!Spec

\* A created event is eventually recorded and audited, unless the owner edits
\* it first: no fault between two steps leaves it behind, and its own busy
\* time does not stop the retry.
CreatedIsRecorded ==
    \A k \in Keys : k \in Performed ~>
       \/ placement[k].state = "submitted" /\ audit[k] # Never
       \/ Prepared(k) /\ event[placement[k].op].state = "changed"
=============================================================================
