--------------------------- MODULE OwnerTaskProofs ---------------------------
(***************************************************************************)
(* Theorems about OwnerTaskSubmission for any number of tasks, operation   *)
(* keys, overlapping calls, faults and foreign calendar entries.           *)
(***************************************************************************)
EXTENDS OwnerTaskSubmission, TLAPS

TaskRecords == [step : Steps, key : Keys \cup {"none"}, now : Instants \cup {Never},
                busy : {"yes", "no"}, seen : SUBSET Nat,
                result : {"none", "submitted"}]
TypeTask == task \in [Calls -> TaskRecords]
TypeStore ==
    /\ placement \in [Keys -> [op : OpKeys \cup {NoOp}, at : Starts \cup {Never},
                               state : {"none", "prepared", "submitted"}]]
    /\ audit \in [Keys -> Instants \cup {Never}]
TypeWorld ==
    /\ event \in [OpKeys -> [state : {"none", "created", "changed"},
                             seen : SUBSET Nat]]
    /\ booked \subseteq OwnerBooks
    /\ verifiedAt \in Instants \cup {Never}
    /\ clock \in Instants
    /\ mishaps \in 0..MaxFaults

LEMMA TypeParts == TypeOK <=> TypeTask /\ TypeStore /\ TypeWorld
BY DEF TypeOK, TypeTask, TypeStore, TypeWorld, TaskRecords

-----------------------------------------------------------------------------
(* What the steps of a call leave in its record.                           *)

LEMMA GoOnKeeps ==
    ASSUME TypeTask, NEW c \in Calls, NEW s \in Steps, GoOn(c, s)
    PROVE  /\ TypeTask'
           /\ \A d \in Calls : d # c => task'[d] = task[d]
           /\ task'[c].step = s
           /\ task'[c].key = task[c].key
           /\ task'[c].now = task[c].now
           /\ task'[c].busy = task[c].busy
           /\ task'[c].result = task[c].result
           /\ task'[c].seen = IF s \in {"find_again", "record", "audit"}
                              THEN {} ELSE task[c].seen
<1> DEFINE q == IF s \in {"find_again", "record", "audit"} THEN {} ELSE task[c].seen
<1>1. task[c] \in TaskRecords
  BY DEF TypeTask
<1>2. task' = [task EXCEPT ![c].step = s, ![c].seen = q]
  BY DEF GoOn
<1>3. q \in SUBSET Nat
  BY <1>1 DEF TaskRecords
<1> HIDE DEF q
<1> DEFINE r == [task[c] EXCEPT !.step = s, !.seen = q]
<1>4. task' = [task EXCEPT ![c] = r]
  BY <1>2
<1>5. /\ r \in TaskRecords
      /\ r.step = s /\ r.key = task[c].key /\ r.now = task[c].now
      /\ r.busy = task[c].busy /\ r.result = task[c].result /\ r.seen = q
  BY <1>1, <1>3 DEF TaskRecords
<1> HIDE DEF r
<1>6. task'[c] = r /\ TypeTask' /\ \A d \in Calls : d # c => task'[d] = task[d]
  BY <1>4, <1>5 DEF TypeTask
<1> QED
  BY <1>5, <1>6 DEF q

LEMMA RestingIsTyped == Resting \in TaskRecords
BY DEF Resting, TaskRecords, Steps, Never

LEMMA GiveUpRests ==
    ASSUME TypeTask, NEW c \in Calls, GiveUp(c)
    PROVE  /\ TypeTask'
           /\ \A d \in Calls : d # c => task'[d] = task[d]
           /\ task'[c] = Resting
BY RestingIsTyped DEF TypeTask, GiveUp

\* The answer "submitted" of a call.
LEMMA AnswerKeeps ==
    ASSUME TypeTask, NEW c \in Calls,
           task' = [task EXCEPT ![c] = [Resting EXCEPT !.key = task[c].key,
                                                       !.result = "submitted"]]
    PROVE  /\ TypeTask'
           /\ \A d \in Calls : d # c => task'[d] = task[d]
           /\ task'[c].step = "idle"
           /\ task'[c].key = task[c].key
           /\ task'[c].seen = {}
           /\ task'[c].result = "submitted"
<1> DEFINE r == [Resting EXCEPT !.key = task[c].key, !.result = "submitted"]
<1>1. task[c].key \in Keys \cup {"none"}
  BY DEF TypeTask, TaskRecords
<1>2. /\ r \in TaskRecords /\ r.step = "idle" /\ r.key = task[c].key
      /\ r.seen = {} /\ r.result = "submitted"
  BY <1>1 DEF Resting, TaskRecords, Steps, Never
<1> HIDE DEF r
<1>3. task' = [task EXCEPT ![c] = r]
  BY DEF r
<1> QED
  BY <1>2, <1>3 DEF TypeTask

LEMMA CallBegins ==
    ASSUME TypeTask, TypeStore, TypeWorld, NEW c \in Calls, NEW k \in Keys, Call(c, k),
           \A j \in Keys : Prepared(j) => placement[j].at \in Starts
    PROVE  /\ TypeTask'
           /\ \A d \in Calls : d # c => task'[d] = task[d]
           /\ task'[c].step = "load"
           /\ task'[c].key = k
           /\ task'[c].now = clock
           /\ task'[c].busy = "no"
           /\ task'[c].seen = TaskStarts \cup {b.at : b \in booked}
           /\ task'[c].result = "none"
<1> DEFINE known == TaskStarts \cup {b.at : b \in booked}
           r == [Resting EXCEPT !.step = "load", !.key = k, !.now = clock,
                                !.seen = known]
<1>1. known \in SUBSET Nat
  <2>1. TaskStarts \subseteq Nat
    BY OwnerTaskAssumption DEF TaskStarts
  <2>2. \A b \in booked : b.at \in Nat
    BY OwnerTaskAssumption DEF TypeWorld
  <2> QED
    BY <2>1, <2>2
<1> HIDE DEF known
<1>2. /\ r \in TaskRecords /\ r.step = "load" /\ r.key = k /\ r.busy = "no"
      /\ r.now = clock /\ r.seen = known /\ r.result = "none"
  BY <1>1 DEF TaskRecords, Steps, TypeWorld, Resting
<1>3. task' = [task EXCEPT ![c] = r]
  BY DEF Call, known
<1> HIDE DEF r
<1> QED
  BY <1>2, <1>3 DEF TypeTask, known

LEMMA ListBusyOutlookKeeps ==
    ASSUME TypeTask, NEW c \in Calls, ListBusyOutlook(c)
    PROVE  /\ TypeTask'
           /\ \A d \in Calls : d # c => task'[d] = task[d]
           /\ task'[c].step = "busy_google"
           /\ task'[c].key = task[c].key
           /\ task'[c].busy = IF OutlookBusy(Mine(c).at) THEN "yes" ELSE "no"
           /\ task'[c].now = task[c].now
           /\ task'[c].seen = task[c].seen
           /\ task'[c].result = task[c].result
<1> DEFINE b == IF OutlookBusy(Mine(c).at) THEN "yes" ELSE "no"
<1>0. b \in {"yes", "no"}
  OBVIOUS
<1> HIDE DEF b
<1> DEFINE r == [task[c] EXCEPT !.step = "busy_google", !.busy = b]
<1>1. task[c] \in TaskRecords
  BY DEF TypeTask
<1>2. task' = [task EXCEPT ![c] = r]
  BY DEF ListBusyOutlook, b
<1>3. /\ r \in TaskRecords /\ r.step = "busy_google" /\ r.key = task[c].key
      /\ r.busy = b /\ r.now = task[c].now
      /\ r.seen = task[c].seen /\ r.result = task[c].result
  BY <1>0, <1>1 DEF TaskRecords, Steps
<1> HIDE DEF r
<1> QED
  BY <1>2, <1>3 DEF TypeTask, b

-----------------------------------------------------------------------------
(* The invariant.                                                          *)

\* Every task has an operation key of its own and every event is the event of
\* a task; what is submitted has its event, what is audited is submitted.
StoreInOrder ==
    /\ \A k \in Keys : Prepared(k) => /\ placement[k].op \in OpKeys
                                     /\ placement[k].at \in Starts
    /\ \A j, k \in Keys : /\ Prepared(j) /\ Prepared(k)
                          /\ placement[j].op = placement[k].op
                          => j = k
    /\ \A o \in OpKeys : event[o].state # "none" =>
          \E k \in Keys : Prepared(k) /\ placement[k].op = o
    /\ \A o \in OpKeys : event[o].state = "none" => event[o].seen = {}
    /\ \A k \in Keys : placement[k].state = "submitted" =>
          event[placement[k].op].state # "none"
    /\ \A k \in Keys : audit[k] # Never => placement[k].state = "submitted"

\* What a call knows of the store at each of its steps.
CallInOrder(c) ==
    /\ task[c].step # "idle" => task[c].now # Never
    /\ task[c].step # "idle" \/ task[c].result = "submitted" =>
          task[c].key \in Keys /\ Prepared(task[c].key)
    /\ task[c].step = "record" => MyEvent(c).state # "none"
    /\ task[c].step = "audit" \/ task[c].result = "submitted" =>
          Mine(c).state = "submitted"
    /\ task[c].result = "submitted" => audit[task[c].key] # Never

\* What a call has seen is still there, and after a look at a calendar what
\* it has seen there does not overlap its task.
CallChecked(c) ==
    /\ task[c].step \in {"load", "find", "busy_outlook", "busy_google", "create"} =>
          task[c].seen \subseteq
             TaskStarts \cup BookedIn("outlook") \cup BookedIn("google")
    /\ task[c].step = "busy_google" /\ task[c].busy = "no" =>
          \A t \in task[c].seen : Overlap(Mine(c).at, t) => t \in BookedIn("google")
    /\ task[c].step = "create" =>
          \A t \in task[c].seen : ~Overlap(Mine(c).at, t)

CallsInv == \A c \in Calls : CallInOrder(c) /\ CallChecked(c)

TaskInv == TypeTask /\ TypeStore /\ TypeWorld /\ StoreInOrder /\ CallsInv
           /\ NoTaskOverKnownEvent

\* Nothing is ever taken back.
Grows ==
    /\ \A k \in Keys : Prepared(k) =>
          /\ Prepared(k)'
          /\ placement'[k].op = placement[k].op /\ placement'[k].at = placement[k].at
          /\ placement[k].state = "submitted" => placement'[k].state = "submitted"
          /\ event[placement[k].op].state # "none" =>
                event'[placement[k].op].state # "none"
          /\ audit[k] # Never => audit'[k] # Never
    /\ booked \subseteq booked'

LEMMA UnchangedGrows ==
    ASSUME UNCHANGED <<placement, audit, event>>, booked \subseteq booked'
    PROVE  Grows
BY DEF Grows, Prepared

LEMMA BusyGrows ==
    ASSUME Grows
    PROVE  /\ TaskStarts \subseteq TaskStarts'
           /\ \A x : BookedIn(x) \subseteq BookedIn(x)'
<1>1. TaskStarts \subseteq TaskStarts'
  <2> SUFFICES ASSUME NEW s \in TaskStarts
               PROVE  s \in TaskStarts'
    OBVIOUS
  <2>1. PICK k \in Keys : /\ Prepared(k) /\ event[placement[k].op].state # "none"
                          /\ s = placement[k].at
    BY DEF TaskStarts
  <2>2. /\ Prepared(k)' /\ event'[placement'[k].op].state # "none"
        /\ s = placement'[k].at
    BY <2>1 DEF Grows
  <2> QED
    BY <2>2 DEF TaskStarts
<1>2. \A x : BookedIn(x) \subseteq BookedIn(x)'
  BY DEF Grows, BookedIn
<1> QED
  BY <1>1, <1>2

\* The calls that do not move are not disturbed.
LEMMA OthersKeep ==
    ASSUME Grows, NEW d \in Calls, CallInOrder(d), CallChecked(d), TypeTask,
           task'[d] = task[d]
    PROVE  CallInOrder(d)' /\ CallChecked(d)'
<1>1. task[d].step # "idle" \/ task[d].result = "submitted" =>
         /\ Mine(d)'.op = Mine(d).op /\ Mine(d)'.at = Mine(d).at
         /\ Prepared(task[d].key)' /\ Prepared(task[d].key) /\ task[d].key \in Keys
  BY DEF Grows, CallInOrder, Mine
<1>2. CallInOrder(d)'
  BY <1>1 DEF Grows, CallInOrder, Mine, MyEvent
<1>3. CallChecked(d)'
  BY <1>1, BusyGrows DEF CallChecked
<1> QED
  BY <1>2, <1>3

LEMMA RestingInOrder ==
    ASSUME NEW c \in Calls, task'[c] = Resting
    PROVE  CallInOrder(c)' /\ CallChecked(c)'
BY DEF Resting, CallInOrder, CallChecked

\* A step of one call that keeps the rest.
LEMMA OneCallMoves ==
    ASSUME TaskInv, Grows, NEW c \in Calls,
           \A d \in Calls : d # c => task'[d] = task[d],
           CallInOrder(c)' /\ CallChecked(c)'
    PROVE  CallsInv'
BY OthersKeep DEF TaskInv, CallsInv

LEMMA StoreUntouched ==
    ASSUME StoreInOrder, TypeStore, UNCHANGED <<placement, audit, event>>
    PROVE  StoreInOrder' /\ TypeStore' /\ (NoTaskOverKnownEvent => NoTaskOverKnownEvent')
BY DEF StoreInOrder, TypeStore, NoTaskOverKnownEvent, Prepared

\* The steps that change nothing but the record of one call.
LEMMA TaskOnlySteps ==
    ASSUME TaskInv, UNCHANGED <<placement, audit, event, booked, verifiedAt, clock>>,
           mishaps' \in 0..MaxFaults, TypeTask', NEW c \in Calls,
           \A d \in Calls : d # c => task'[d] = task[d],
           CallInOrder(c)' /\ CallChecked(c)'
    PROVE  TaskInv'
<1>1. Grows
  BY UnchangedGrows
<1>2. CallsInv'
  BY <1>1, OneCallMoves
<1>3. StoreInOrder' /\ TypeStore' /\ NoTaskOverKnownEvent'
  BY StoreUntouched DEF TaskInv
<1>4. TypeWorld'
  BY DEF TaskInv, TypeWorld
<1> QED
  BY <1>2, <1>3, <1>4 DEF TaskInv

LEMMA CallStep ==
    ASSUME TaskInv, NEW c \in Calls, NEW k \in Keys, Call(c, k)
    PROVE  TaskInv'
<1>1. /\ TypeTask' /\ \A d \in Calls : d # c => task'[d] = task[d]
      /\ task'[c].step = "load" /\ task'[c].key = k
      /\ task'[c].seen = TaskStarts \cup {b.at : b \in booked}
      /\ task'[c].result = "none" /\ task'[c].now = clock
  BY CallBegins DEF TaskInv, StoreInOrder
<1>0. clock # Never
  BY OwnerTaskAssumption DEF TaskInv, TypeWorld, Instants, Never
<1>2. UNCHANGED <<placement, audit, event, booked, verifiedAt, clock, mishaps>>
      /\ Prepared(k)
  BY DEF Call
<1>3. CallInOrder(c)'
  BY <1>0, <1>1, <1>2 DEF CallInOrder, Prepared
<1>4. CallChecked(c)'
  <2>1. \A b \in booked : b.at \in BookedIn("outlook") \cup BookedIn("google")
    <3> SUFFICES ASSUME NEW b \in booked
                 PROVE  b.at \in BookedIn("outlook") \cup BookedIn("google")
      OBVIOUS
    <3>1. b.calendar \in {"outlook", "google"}
      BY OwnerTaskAssumption DEF TaskInv, TypeWorld
    <3> QED
      BY <3>1 DEF BookedIn
  <2>2. TaskStarts' = TaskStarts /\ BookedIn("outlook")' = BookedIn("outlook")
        /\ BookedIn("google")' = BookedIn("google")
    BY <1>2 DEF TaskStarts, BookedIn, Prepared
  <2> QED
    BY <1>1, <2>1, <2>2 DEF CallChecked
<1>5. mishaps' \in 0..MaxFaults
  BY <1>2 DEF TaskInv, TypeWorld
<1> QED
  BY <1>1, <1>2, <1>3, <1>4, <1>5, TaskOnlySteps

\* A call goes on to a step that asks nothing new of it.
LEMMA GoOnStep ==
    ASSUME TaskInv, NEW c \in Calls, NEW s \in Steps, GoOn(c, s),
           UNCHANGED <<placement, audit, event, booked, verifiedAt, clock, mishaps>>,
           task[c].step # "idle",
           s \in {"find", "busy_outlook"} =>
              task[c].step \in {"load", "find", "busy_outlook"},
           s \notin {"load", "busy_google", "idle"},
           s = "record" => MyEvent(c).state # "none",
           s = "audit" => Mine(c).state = "submitted",
           s = "create" => /\ task[c].step = "busy_google"
                           /\ \A t \in task[c].seen : ~Overlap(Mine(c).at, t)
    PROVE  TaskInv'
<1>1. /\ TypeTask' /\ \A d \in Calls : d # c => task'[d] = task[d]
      /\ task'[c].step = s /\ task'[c].key = task[c].key
      /\ task'[c].now = task[c].now /\ task'[c].busy = task[c].busy
      /\ task'[c].result = task[c].result
      /\ task'[c].seen = IF s \in {"find_again", "record", "audit"}
                         THEN {} ELSE task[c].seen
  BY GoOnKeeps DEF TaskInv
<1>2. CallInOrder(c) /\ CallChecked(c)
  BY DEF TaskInv, CallsInv
<1>3. CallInOrder(c)'
  BY <1>1, <1>2 DEF CallInOrder, Mine, MyEvent, Prepared
<1>4. /\ TaskStarts' = TaskStarts /\ \A x : BookedIn(x)' = BookedIn(x)
      /\ Mine(c)' = Mine(c)
  BY <1>1 DEF TaskStarts, BookedIn, Prepared, Mine
<1>5. CallChecked(c)'
  BY <1>1, <1>2, <1>4 DEF CallChecked, Steps
<1>6. mishaps' \in 0..MaxFaults
  BY DEF TaskInv, TypeWorld
<1> QED
  BY <1>1, <1>3, <1>5, <1>6, TaskOnlySteps

LEMMA GiveUpStep ==
    ASSUME TaskInv, NEW c \in Calls, GiveUp(c), mishaps' \in 0..MaxFaults,
           UNCHANGED <<placement, audit, event, booked, verifiedAt, clock>>
    PROVE  TaskInv'
BY GiveUpRests, RestingInOrder, TaskOnlySteps DEF TaskInv

\* The event of a call's task exists after the create; the steps that write.
LEMMA CreateWrites ==
    ASSUME TaskInv, NEW c \in Calls, task[c].step = "create",
           event' \in {event, WithEvent(c)},
           UNCHANGED <<placement, audit, booked>>
    PROVE  /\ Grows /\ StoreInOrder' /\ NoTaskOverKnownEvent'
           /\ event' \in [OpKeys -> [state : {"none", "created", "changed"},
                                     seen : SUBSET Nat]]
<1>1. CASE event' = event
  BY <1>1, UnchangedGrows, StoreUntouched DEF TaskInv, TypeWorld
<1>2. CASE event' # event
  <2> DEFINE k == task[c].key
             o == placement[k].op
             e == [state |-> "created", seen |-> task[c].seen]
  <2>1. k \in Keys /\ Prepared(k) /\ o \in OpKeys
    BY DEF TaskInv, CallsInv, CallInOrder, StoreInOrder
  <2>2. event[o].state = "none" /\ event' = [event EXCEPT ![o] = e]
    BY <1>2 DEF WithEvent, MyEvent, Mine
  <2>3. task[c].seen \in SUBSET Nat
    BY DEF TaskInv, TypeTask, TaskRecords
  <2>4. e \in [state : {"none", "created", "changed"}, seen : SUBSET Nat]
    BY <2>3
  <2>5. e.state # "none" /\ e.seen = task[c].seen
    OBVIOUS
  <2>6. \A t \in e.seen : ~Overlap(placement[k].at, t)
    BY DEF TaskInv, CallsInv, CallChecked, Mine
  <2> HIDE DEF e, k, o
  <2>7. event' \in [OpKeys -> [state : {"none", "created", "changed"},
                               seen : SUBSET Nat]]
    BY <2>2, <2>4 DEF TaskInv, TypeWorld
  <2>8. \A p \in OpKeys : event'[p] = IF p = o THEN e ELSE event[p]
    BY <2>2 DEF TaskInv, TypeWorld
  <2>9. Grows
    BY <2>5, <2>8 DEF Grows, Prepared, TaskInv, StoreInOrder
  <2>10. StoreInOrder'
    BY <2>1, <2>5, <2>8 DEF TaskInv, StoreInOrder, Prepared, TypeStore, o
  <2>11. NoTaskOverKnownEvent'
    <3> SUFFICES ASSUME NEW j \in Keys, Prepared(j),
                        NEW t \in event'[placement[j].op].seen
                 PROVE  ~Overlap(placement[j].at, t)
      BY DEF NoTaskOverKnownEvent, Prepared
    <3>1. CASE placement[j].op = o
      BY <3>1, <2>1, <2>6, <2>8 DEF TaskInv, StoreInOrder, o
    <3>2. CASE placement[j].op # o
      BY <3>2, <2>8 DEF TaskInv, NoTaskOverKnownEvent, StoreInOrder
    <3> QED
      BY <3>1, <3>2
  <2> QED
    BY <2>7, <2>9, <2>10, <2>11
<1> QED
  BY <1>1, <1>2

LEMMA AfterCreate ==
    ASSUME TaskInv, NEW c \in Calls, task[c].step = "create",
           event' \in {event, WithEvent(c)}, mishaps' \in 0..MaxFaults,
           UNCHANGED <<placement, audit, booked, verifiedAt, clock>>,
           TypeTask', \A d \in Calls : d # c => task'[d] = task[d],
           CallInOrder(c)' /\ CallChecked(c)'
    PROVE  TaskInv'
<1>1. CallsInv'
  BY CreateWrites, OneCallMoves
<1>2. TypeWorld'
  BY CreateWrites DEF TaskInv, TypeWorld
<1>3. TypeStore'
  BY DEF TaskInv, TypeStore
<1> QED
  BY <1>1, <1>2, <1>3, CreateWrites DEF TaskInv

LEMMA CreateGoesOn ==
    ASSUME TaskInv, NEW c \in Calls, task[c].step = "create",
           event' \in {event, WithEvent(c)}, mishaps' \in 0..MaxFaults,
           UNCHANGED <<placement, audit, booked, verifiedAt, clock>>,
           NEW s \in {"record", "find_again"}, GoOn(c, s),
           s = "record" => event'[Mine(c).op].state = "created"
    PROVE  TaskInv'
<1>1. /\ TypeTask' /\ \A d \in Calls : d # c => task'[d] = task[d]
      /\ task'[c].step = s /\ task'[c].key = task[c].key
      /\ task'[c].now = task[c].now
      /\ task'[c].result = task[c].result
  BY GoOnKeeps DEF TaskInv, Steps
<1>2. CallInOrder(c)'
  BY <1>1 DEF TaskInv, CallsInv, CallInOrder, Mine, MyEvent, Prepared
<1>3. CallChecked(c)'
  BY <1>1 DEF CallChecked
<1> QED
  BY <1>1, <1>2, <1>3, AfterCreate

LEMMA SubmitPlacementStep ==
    ASSUME TaskInv, NEW c \in Calls, SubmitPlacement(c)
    PROVE  TaskInv'
<1> DEFINE k == task[c].key
           p == [placement[k] EXCEPT !.state = "submitted"]
<1>1. /\ TypeTask' /\ \A d \in Calls : d # c => task'[d] = task[d]
      /\ task'[c].step = "audit" /\ task'[c].key = k
      /\ task'[c].now = task[c].now
      /\ task'[c].result = task[c].result
  BY GoOnKeeps DEF TaskInv, Steps, SubmitPlacement
<1>2. k \in Keys /\ Prepared(k) /\ event[placement[k].op].state # "none"
      /\ task[c].now # Never
  BY DEF TaskInv, CallsInv, CallInOrder, SubmitPlacement, On, MyEvent, Mine
<1>3. placement' = [placement EXCEPT ![k] = p]
      /\ UNCHANGED <<audit, event, booked, verifiedAt, clock, mishaps>>
  BY DEF SubmitPlacement
<1>4. /\ p \in [op : OpKeys \cup {NoOp}, at : Starts \cup {Never},
                state : {"none", "prepared", "submitted"}]
      /\ p.op = placement[k].op /\ p.at = placement[k].at /\ p.state = "submitted"
  BY <1>2 DEF TaskInv, TypeStore
<1> HIDE DEF p, k
<1>5. \A j \in Keys : placement'[j] = IF j = k THEN p ELSE placement[j]
  BY <1>3 DEF TaskInv, TypeStore
<1>6. TypeStore'
  BY <1>3, <1>4 DEF TaskInv, TypeStore
<1>7. \A j \in Keys : /\ placement'[j].op = placement[j].op
                     /\ placement'[j].at = placement[j].at
                     /\ Prepared(j)' = Prepared(j)
                     /\ placement'[j].state = IF j = k THEN "submitted"
                                                     ELSE placement[j].state
  BY <1>2, <1>4, <1>5 DEF Prepared
<1>8. Grows
  BY <1>3, <1>7 DEF Grows
<1>9. StoreInOrder'
  BY <1>2, <1>3, <1>7 DEF TaskInv, StoreInOrder
<1>10. NoTaskOverKnownEvent'
  BY <1>3, <1>7 DEF TaskInv, NoTaskOverKnownEvent
<1>11. TypeWorld'
  BY <1>3 DEF TaskInv, TypeWorld
<1>12. CallInOrder(c)'
  <2>1. task[c].result = "submitted" => audit[k] # Never
    BY DEF TaskInv, CallsInv, CallInOrder, k
  <2> QED
    BY <1>1, <1>2, <1>3, <1>7, <2>1 DEF CallInOrder, Mine
<1>13. CallChecked(c)'
  BY <1>1 DEF CallChecked
<1> QED
  BY <1>1, <1>6, <1>8, <1>9, <1>10, <1>11, <1>12, <1>13, OneCallMoves DEF TaskInv

LEMMA EnsureAuditStep ==
    ASSUME TaskInv, NEW c \in Calls, EnsureAudit(c)
    PROVE  TaskInv'
<1> DEFINE k == task[c].key
           a == IF audit[k] = Never THEN task[c].now ELSE audit[k]
<1>1. /\ TypeTask' /\ \A d \in Calls : d # c => task'[d] = task[d]
      /\ task'[c].step = "idle" /\ task'[c].key = k
      /\ task'[c].seen = {} /\ task'[c].result = "submitted"
  BY AnswerKeeps DEF TaskInv, EnsureAudit
<1>2. k \in Keys /\ Prepared(k) /\ placement[k].state = "submitted"
      /\ task[c].now # Never /\ task[c].now \in Instants \cup {Never}
  BY DEF TaskInv, CallsInv, CallInOrder, EnsureAudit, On, Mine, TypeTask, TaskRecords
<1>3. /\ audit' = [audit EXCEPT ![k] = a]
      /\ UNCHANGED <<placement, event, booked, verifiedAt, clock, mishaps>>
  BY DEF EnsureAudit
<1>4. a # Never /\ a \in Instants \cup {Never}
  BY <1>2 DEF TaskInv, TypeStore
<1> HIDE DEF a, k
<1>5. \A j \in Keys : audit'[j] = IF j = k THEN a ELSE audit[j]
  BY <1>3 DEF TaskInv, TypeStore
<1>6. TypeStore'
  BY <1>3, <1>4 DEF TaskInv, TypeStore
<1>7. Grows
  BY <1>3, <1>4, <1>5 DEF Grows, Prepared
<1>8. StoreInOrder'
  BY <1>2, <1>3, <1>5 DEF TaskInv, StoreInOrder, Prepared
<1>9. NoTaskOverKnownEvent'
  BY <1>3 DEF TaskInv, NoTaskOverKnownEvent, Prepared
<1>10. TypeWorld'
  BY <1>3 DEF TaskInv, TypeWorld
<1>11. CallInOrder(c)' /\ CallChecked(c)'
  BY <1>1, <1>2, <1>3, <1>4, <1>5 DEF CallInOrder, CallChecked, Mine, Prepared
<1> QED
  BY <1>1, <1>6, <1>7, <1>8, <1>9, <1>10, <1>11, OneCallMoves DEF TaskInv

LEMMA PrepareStep ==
    ASSUME TaskInv, NEW k \in Keys, NEW o \in OpKeys, NEW s \in Starts,
           PrepareOwnerTask(k, o, s)
    PROVE  TaskInv'
<1> DEFINE p == [op |-> o, at |-> s, state |-> "prepared"]
<1>1. /\ placement' = [placement EXCEPT ![k] = p]
      /\ UNCHANGED <<audit, event, booked, task, verifiedAt, clock, mishaps>>
      /\ ~Prepared(k) /\ \A j \in Keys : placement[j].op # o
  BY DEF PrepareOwnerTask
<1>2. /\ p \in [op : OpKeys \cup {NoOp}, at : Starts \cup {Never},
                state : {"none", "prepared", "submitted"}]
      /\ p.op = o /\ p.at = s /\ p.state = "prepared"
  OBVIOUS
<1> HIDE DEF p
<1>3. \A j \in Keys : placement'[j] = IF j = k THEN p ELSE placement[j]
  BY <1>1 DEF TaskInv, TypeStore
<1>4. TypeStore' /\ TypeWorld' /\ TypeTask'
  BY <1>1, <1>2 DEF TaskInv, TypeStore, TypeWorld, TypeTask
<1>5. Grows
  BY <1>1, <1>3 DEF Grows, Prepared
<1>6. event[o].state = "none"
  BY <1>1 DEF TaskInv, StoreInOrder
<1>7. StoreInOrder'
  <2>1. \A j \in Keys : Prepared(j)' <=> Prepared(j) \/ j = k
    BY <1>2, <1>3 DEF Prepared
  <2>2. \A j \in Keys : placement'[j].state = "submitted" =>
           j # k /\ placement[j].state = "submitted"
    BY <1>2, <1>3
  <2>3. audit[k] = Never
    BY <1>1 DEF TaskInv, StoreInOrder, Prepared
  <2> QED
    BY <1>1, <1>2, <1>3, <2>1, <2>2, <2>3 DEF TaskInv, StoreInOrder
<1>8. NoTaskOverKnownEvent'
  <2>1. event[o].seen = {}
    BY <1>6 DEF TaskInv, StoreInOrder
  <2> QED
    BY <1>1, <1>2, <1>3, <2>1 DEF TaskInv, NoTaskOverKnownEvent, Prepared
<1>9. CallsInv'
  BY <1>1, <1>5, OthersKeep DEF TaskInv, CallsInv
<1> QED
  BY <1>4, <1>7, <1>8, <1>9 DEF TaskInv

LEMMA OwnerChangesStep ==
    ASSUME TaskInv, NEW o \in OpKeys, OwnerChanges(o)
    PROVE  TaskInv'
<1> DEFINE e == [event[o] EXCEPT !.state = "changed"]
<1>1. /\ event' = [event EXCEPT ![o] = e]
      /\ UNCHANGED <<placement, audit, booked, task, verifiedAt, clock, mishaps>>
      /\ event[o].state = "created"
  BY DEF OwnerChanges
<1>2. /\ e \in [state : {"none", "created", "changed"}, seen : SUBSET Nat]
      /\ e.state = "changed" /\ e.seen = event[o].seen
  BY DEF TaskInv, TypeWorld
<1> HIDE DEF e
<1>3. \A p \in OpKeys :
         /\ event'[p].seen = event[p].seen
         /\ event'[p].state = IF p = o THEN "changed" ELSE event[p].state
  BY <1>1, <1>2 DEF TaskInv, TypeWorld
<1>4. TypeStore' /\ TypeWorld' /\ TypeTask'
  BY <1>1, <1>2 DEF TaskInv, TypeStore, TypeWorld, TypeTask
<1>5. Grows
  <2>1. \A k \in Keys :
           Prepared(k) /\ event[placement[k].op].state # "none" =>
              event'[placement[k].op].state # "none"
    BY <1>3 DEF TaskInv, StoreInOrder
  <2> QED
    BY <1>1, <2>1 DEF Grows, Prepared
<1>6. StoreInOrder'
  <2>1. \A k \in Keys : Prepared(k) <=> Prepared(k)'
    BY <1>1 DEF Prepared
  <2>2. \A k \in Keys : placement[k].state = "submitted" =>
           event'[placement[k].op].state # "none"
    BY <1>3 DEF TaskInv, StoreInOrder, Prepared
  <2>3. \A p \in OpKeys : event'[p].state = "none" <=> event[p].state = "none"
    BY <1>1, <1>3
  <2> QED
    BY <1>1, <1>3, <2>1, <2>2, <2>3 DEF TaskInv, StoreInOrder
<1>7. NoTaskOverKnownEvent'
  <2>1. \A k \in Keys : Prepared(k)' => Prepared(k) /\ placement[k].op \in OpKeys
    BY <1>1 DEF Prepared, TaskInv, StoreInOrder
  <2> QED
    BY <1>1, <1>3, <2>1 DEF TaskInv, NoTaskOverKnownEvent
<1>8. CallsInv'
  BY <1>1, <1>5, OthersKeep DEF TaskInv, CallsInv
<1> QED
  BY <1>4, <1>6, <1>7, <1>8 DEF TaskInv

\* The clock, the capability and other people's entries.
LEMMA WorldSteps ==
    ASSUME TaskInv, TypeWorld', booked \subseteq booked',
           UNCHANGED <<placement, audit, event, task>>
    PROVE  TaskInv'
<1>1. Grows
  BY UnchangedGrows
<1>2. CallsInv'
  BY <1>1, OthersKeep DEF TaskInv, CallsInv
<1>3. StoreInOrder' /\ TypeStore' /\ NoTaskOverKnownEvent'
  BY StoreUntouched DEF TaskInv
<1> QED
  BY <1>2, <1>3 DEF TaskInv, TypeTask

LEMMA InitHolds == Init => TaskInv
<1> SUFFICES ASSUME Init
             PROVE  TaskInv
  OBVIOUS
<1>1. TypeTask
  BY RestingIsTyped DEF Init, TypeTask
<1>2. TypeStore /\ TypeWorld
  BY OwnerTaskAssumption
  DEF Init, TypeStore, TypeWorld, NoPlacement, NoEvent, Instants
<1>3. StoreInOrder /\ NoTaskOverKnownEvent
  BY DEF Init, StoreInOrder, NoTaskOverKnownEvent, Prepared, NoPlacement, NoEvent
<1>4. CallsInv
  BY DEF Init, CallsInv, CallInOrder, CallChecked, Resting
<1> QED
  BY <1>1, <1>2, <1>3, <1>4 DEF TaskInv

LEMMA ProceedStep ==
    ASSUME TaskInv, NEW c \in Calls, Proceed(c)
    PROVE  TaskInv'
<1>0. mishaps \in 0..MaxFaults
  BY DEF TaskInv, TypeWorld
<1>1. CASE Load(c)
  BY <1>1, GoOnStep DEF Load, On, Steps
<1>2. CASE FindOwnerEvent(c)
  <2>1. MyEvent(c).state \in {"none", "created", "changed"}
    BY <1>2 DEF TaskInv, TypeWorld, CallsInv, CallInOrder, StoreInOrder,
                FindOwnerEvent, On, MyEvent, Mine
  <2>2. CASE MyEvent(c).state = "created"
    BY <1>2, <2>2, GoOnStep DEF FindOwnerEvent, On, Steps
  <2>3. CASE MyEvent(c).state = "changed"
    BY <1>0, <1>2, <2>3, GiveUpStep DEF FindOwnerEvent
  <2>4. CASE MyEvent(c).state = "none"
    BY <1>2, <2>4, GoOnStep DEF FindOwnerEvent, On, Steps
  <2> QED
    BY <2>1, <2>2, <2>3, <2>4
<1>3. CASE ListBusyOutlook(c)
  <2>1. /\ TypeTask' /\ \A d \in Calls : d # c => task'[d] = task[d]
        /\ task'[c].step = "busy_google" /\ task'[c].key = task[c].key
        /\ task'[c].busy = IF OutlookBusy(Mine(c).at) THEN "yes" ELSE "no"
        /\ task'[c].seen = task[c].seen /\ task'[c].result = task[c].result
        /\ task'[c].now = task[c].now
    BY <1>3, ListBusyOutlookKeeps DEF TaskInv
  <2>2. /\ UNCHANGED <<placement, audit, event, booked, verifiedAt, clock, mishaps>>
        /\ task[c].step = "busy_outlook"
    BY <1>3 DEF ListBusyOutlook, On
  <2>3. CallInOrder(c) /\ CallChecked(c)
    BY DEF TaskInv, CallsInv
  <2>4. CallInOrder(c)'
    BY <2>1, <2>2, <2>3 DEF CallInOrder, Mine, Prepared
  <2>5. /\ TaskStarts' = TaskStarts /\ \A x : BookedIn(x)' = BookedIn(x)
        /\ Mine(c)' = Mine(c)
    BY <2>1, <2>2 DEF TaskStarts, BookedIn, Prepared, Mine
  <2>6. ASSUME ~OutlookBusy(Mine(c).at), NEW t \in task[c].seen, Overlap(Mine(c).at, t)
        PROVE  t \in BookedIn("google")
    BY <2>2, <2>3, <2>6 DEF CallChecked, OutlookBusy
  <2>7. CallChecked(c)'
    BY <2>1, <2>2, <2>3, <2>5, <2>6 DEF CallChecked
  <2> QED
    BY <1>0, <2>1, <2>2, <2>4, <2>7, TaskOnlySteps
<1>4. CASE ListBusyGoogle(c)
  <2>1. CASE task[c].busy = "yes" \/ GoogleBusy(Mine(c).at)
    BY <1>0, <1>4, <2>1, GiveUpStep DEF ListBusyGoogle
  <2>2. CASE ~(task[c].busy = "yes" \/ GoogleBusy(Mine(c).at))
    <3>1. task[c].busy = "no" /\ task[c].step = "busy_google"
      BY <1>4, <2>2 DEF TaskInv, TypeTask, TaskRecords, ListBusyGoogle, On
    <3>2. \A t \in task[c].seen : ~Overlap(Mine(c).at, t)
      BY <2>2, <3>1 DEF TaskInv, CallsInv, CallChecked, GoogleBusy
    <3> QED
      BY <1>4, <2>2, <3>1, <3>2, GoOnStep DEF ListBusyGoogle, Steps
  <2> QED
    BY <2>1, <2>2
<1>5. CASE CreateOwnerEvent(c)
  <2>1. CASE event'[Mine(c).op].state = "created"
    BY <1>0, <1>5, <2>1, CreateGoesOn DEF CreateOwnerEvent, On
  <2>2. CASE event'[Mine(c).op].state # "created"
    BY <1>0, <1>5, <2>2, CreateGoesOn DEF CreateOwnerEvent, On
  <2> QED
    BY <2>1, <2>2
<1>6. CASE FindAgain(c)
  <2>1. CASE MyEvent(c).state = "created"
    BY <1>6, <2>1, GoOnStep DEF FindAgain, On, Steps
  <2>2. CASE MyEvent(c).state # "created"
    BY <1>0, <1>6, <2>2, GiveUpStep DEF FindAgain
  <2> QED
    BY <2>1, <2>2
<1> QED
  BY <1>1, <1>2, <1>3, <1>4, <1>5, <1>6, SubmitPlacementStep, EnsureAuditStep DEF Proceed

LEMMA FaultStep ==
    ASSUME TaskInv, NEW c \in Calls,
           CreateOwnerEventFails(c) \/ Break(c) \/ BreakInCreate(c)
    PROVE  TaskInv'
<1>0. mishaps' \in 0..MaxFaults
  BY OwnerTaskAssumption
  DEF TaskInv, TypeWorld, CreateOwnerEventFails, Break, BreakInCreate
<1>1. CASE CreateOwnerEventFails(c)
  BY <1>0, <1>1, CreateGoesOn DEF CreateOwnerEventFails, On
<1>2. CASE Break(c)
  BY <1>0, <1>2, GiveUpStep DEF Break
<1>3. CASE BreakInCreate(c)
  <2>1. TypeTask' /\ \A d \in Calls : d # c => task'[d] = task[d]
    BY <1>3, GiveUpRests DEF BreakInCreate, TaskInv
  <2>2. CallInOrder(c)' /\ CallChecked(c)'
    BY <1>3, GiveUpRests, RestingInOrder DEF BreakInCreate, TaskInv
  <2> QED
    BY <1>0, <1>3, <2>1, <2>2, AfterCreate DEF BreakInCreate, On
<1> QED
  BY <1>1, <1>2, <1>3

LEMMA NextHolds == TaskInv /\ [Next]_vars => TaskInv'
<1> SUFFICES ASSUME TaskInv, [Next]_vars
             PROVE  TaskInv'
  OBVIOUS
<1>1. CASE Issue
  BY <1>1, WorldSteps DEF Issue, TaskInv, TypeWorld
<1>2. CASE \E b \in OwnerBooks : Book(b)
  BY <1>2, WorldSteps DEF Book, TaskInv, TypeWorld
<1>3. CASE Tick
  <2>1. clock + 1 \in Instants
    BY <1>3, OwnerTaskAssumption DEF Tick, TaskInv, TypeWorld, Instants
  <2> QED
    BY <1>3, <2>1, WorldSteps DEF Tick, TaskInv, TypeWorld
<1>4. CASE UNCHANGED vars
  BY <1>4, WorldSteps DEF vars, TaskInv, TypeWorld
<1>5. CASE \E k \in Keys, o \in OpKeys, s \in Starts : PrepareOwnerTask(k, o, s)
  BY <1>5, PrepareStep
<1>6. CASE \E c \in Calls, k \in Keys : Call(c, k)
  BY <1>6, CallStep
<1>7. CASE \E c \in Calls : Proceed(c)
  BY <1>7, ProceedStep
<1>8. CASE \E c \in Calls : CreateOwnerEventFails(c) \/ Break(c) \/ BreakInCreate(c)
  BY <1>8, FaultStep
<1>9. CASE \E o \in OpKeys : OwnerChanges(o)
  BY <1>9, OwnerChangesStep
<1> QED
  BY <1>1, <1>2, <1>3, <1>4, <1>5, <1>6, <1>7, <1>8, <1>9 DEF Next

LEMMA Invariance == Spec => []TaskInv
BY InitHolds, NextHolds, PTL DEF Spec

-----------------------------------------------------------------------------
(* Theorems.                                                               *)

\* Placements, audit rows, events and the calls of submit_owner_task keep
\* their types, whatever their number.
THEOREM TypeCorrect == Spec => []TypeOK
<1>1. TaskInv => TypeOK
  BY TypeParts DEF TaskInv
<1> QED
  BY <1>1, Invariance, PTL

\* submit_owner_task creates no event over one that either calendar listed
\* when the call began, however many calls, retries and lookups overlap.
THEOREM TasksAvoidKnownEvents == Spec => []NoTaskOverKnownEvent
<1>1. TaskInv => NoTaskOverKnownEvent
  BY DEF TaskInv
<1> QED
  BY <1>1, Invariance, PTL

\* Every call that submit_owner_task answers with success leaves the event,
\* the placement that names it and the audit row.
THEOREM SubmittedComplete == Spec => []SubmittedIsComplete
<1>1. TaskInv => SubmittedIsComplete
  BY DEF TaskInv, CallsInv, CallInOrder, Mine, SubmittedIsComplete, StoreInOrder
<1> QED
  BY <1>1, Invariance, PTL

LEMMA InitImplements == Init => Effect!Init
BY DEF Init, Effect!Init, Performed, Prepared, NoPlacement

\* A step that leaves the store's three facts alone is invisible.
LEMMA Invisible ==
    ASSUME UNCHANGED <<placement, audit, event>>
    PROVE  UNCHANGED Effect!effectVars
BY DEF Effect!effectVars, Performed, Prepared

LEMMA CreatePerforms ==
    ASSUME TaskInv, NEW c \in Calls, task[c].step = "create",
           event' \in {event, WithEvent(c)}, UNCHANGED <<placement, audit>>
    PROVE  [Effect!Next]_(Effect!effectVars)
<1>1. CASE event' = event
  BY <1>1, Invisible
<1>2. CASE event' # event
  <2> DEFINE k == task[c].key
             o == placement[k].op
             e == [state |-> "created", seen |-> task[c].seen]
  <2>1. k \in Keys /\ Prepared(k) /\ o \in OpKeys
    BY DEF TaskInv, CallsInv, CallInOrder, StoreInOrder
  <2>2. event[o].state = "none" /\ event' = [event EXCEPT ![o] = e]
    BY <1>2 DEF WithEvent, MyEvent, Mine
  <2>3. e.state # "none"
    OBVIOUS
  <2> HIDE DEF e
  <2>4. \A p \in OpKeys : event'[p] = IF p = o THEN e ELSE event[p]
    BY <2>2 DEF TaskInv, TypeWorld
  <2>5. \A j \in Keys : Prepared(j)' = Prepared(j) /\ placement'[j] = placement[j]
    BY DEF Prepared
  <2>6. \A j \in Keys : Prepared(j) =>
           (event'[placement[j].op].state # "none" <=>
               j = k \/ event[placement[j].op].state # "none")
    BY <2>1, <2>3, <2>4 DEF TaskInv, StoreInOrder
  <2>7. Performed' = Performed \cup {k}
    BY <2>1, <2>5, <2>6 DEF Performed
  <2>8. Effect!Perform(k)
    BY <2>1, <2>2, <2>5, <2>7 DEF Effect!Perform, Performed
  <2> QED
    BY <2>1, <2>8 DEF Effect!Next
<1> QED
  BY <1>1, <1>2

LEMMA NextImplements ==
    ASSUME TaskInv, [Next]_vars
    PROVE  [Effect!Next]_(Effect!effectVars)
<1>1. CASE UNCHANGED <<placement, audit, event>>
  BY <1>1, Invisible
<1>2. ASSUME NEW k \in Keys, NEW o \in OpKeys, NEW s \in Starts,
             PrepareOwnerTask(k, o, s)
      PROVE  [Effect!Next]_(Effect!effectVars)
  <2> DEFINE p == [op |-> o, at |-> s, state |-> "prepared"]
  <2>1. /\ placement' = [placement EXCEPT ![k] = p]
        /\ UNCHANGED <<audit, event>>
        /\ ~Prepared(k) /\ \A j \in Keys : placement[j].op # o
    BY <1>2 DEF PrepareOwnerTask
  <2>2. p.op = o /\ p.state = "prepared"
    OBVIOUS
  <2> HIDE DEF p
  <2>3. \A j \in Keys : placement'[j] = IF j = k THEN p ELSE placement[j]
    BY <2>1 DEF TaskInv, TypeStore
  <2>4. event[o].state = "none"
    BY <2>1 DEF TaskInv, StoreInOrder
  <2>5. {j \in Keys : Prepared(j)}' = {j \in Keys : Prepared(j)} \cup {k}
    BY <2>2, <2>3 DEF Prepared
  <2>6. Performed' = Performed
    BY <2>1, <2>2, <2>3, <2>4 DEF Performed, Prepared
  <2>7. {j \in Keys : placement[j].state = "submitted"}'
           = {j \in Keys : placement[j].state = "submitted"}
    BY <2>1, <2>2, <2>3 DEF Prepared
  <2>8. Effect!Admit(k)
    BY <2>1, <2>5, <2>6, <2>7 DEF Effect!Admit
  <2> QED
    BY <2>8 DEF Effect!Next
<1>3. ASSUME NEW c \in Calls, SubmitPlacement(c)
      PROVE  [Effect!Next]_(Effect!effectVars)
  <2>0. PICK k \in Keys : k = task[c].key
    BY <1>3 DEF TaskInv, CallsInv, CallInOrder, SubmitPlacement, On
  <2> DEFINE p == [placement[k] EXCEPT !.state = "submitted"]
  <2>1. /\ k \in Keys /\ Prepared(k) /\ event[placement[k].op].state # "none"
        /\ placement[k].op \in OpKeys
    BY <1>3, <2>0 DEF TaskInv, CallsInv, CallInOrder, SubmitPlacement, On, MyEvent, Mine,
                StoreInOrder
  <2>2. placement' = [placement EXCEPT ![k] = p] /\ UNCHANGED <<audit, event>>
    BY <1>3, <2>0 DEF SubmitPlacement
  <2>3. p.op = placement[k].op /\ p.state = "submitted"
    BY <2>1 DEF TaskInv, TypeStore
  <2> HIDE DEF p
  <2>4. \A j \in Keys : placement'[j] = IF j = k THEN p ELSE placement[j]
    BY <2>1, <2>2 DEF TaskInv, TypeStore
  <2>5. \A j \in Keys : Prepared(j)' = Prepared(j)
    BY <2>1, <2>3, <2>4 DEF Prepared
  <2>6. Performed' = Performed
    BY <2>2, <2>3, <2>4, <2>5 DEF Performed
  <2>7. {j \in Keys : placement[j].state = "submitted"}'
           = {j \in Keys : placement[j].state = "submitted"} \cup {k}
    BY <2>1, <2>3, <2>4
  <2>8. CASE placement[k].state = "submitted"
    <3>1. {j \in Keys : placement[j].state = "submitted"} \cup {k}
             = {j \in Keys : placement[j].state = "submitted"}
      BY <2>1, <2>8
    <3> QED
      BY <2>2, <2>5, <2>6, <2>7, <3>1 DEF Effect!effectVars
  <2>9. CASE placement[k].state # "submitted"
    <3>1. Effect!Record(k)
      BY <2>1, <2>2, <2>5, <2>6, <2>7, <2>9 DEF Effect!Record, Performed
    <3> QED
      BY <3>1 DEF Effect!Next
  <2> QED
    BY <2>8, <2>9
<1>4. ASSUME NEW c \in Calls, EnsureAudit(c)
      PROVE  [Effect!Next]_(Effect!effectVars)
  <2>0. PICK k \in Keys : k = task[c].key
    BY <1>4 DEF TaskInv, CallsInv, CallInOrder, EnsureAudit, On
  <2> DEFINE a == IF audit[k] = Never THEN task[c].now ELSE audit[k]
  <2>1. k \in Keys /\ placement[k].state = "submitted" /\ task[c].now # Never
    BY <1>4, <2>0 DEF TaskInv, CallsInv, CallInOrder, EnsureAudit, On, Mine
  <2>2. audit' = [audit EXCEPT ![k] = a] /\ UNCHANGED <<placement, event>>
    BY <1>4, <2>0 DEF EnsureAudit
  <2>3. a # Never /\ (audit[k] # Never => a = audit[k])
    BY <2>1
  <2> HIDE DEF a
  <2>4. CASE audit[k] # Never
    <3>1. audit' = audit
      BY <2>2, <2>3, <2>4 DEF TaskInv, TypeStore
    <3> QED
      BY <2>2, <3>1, Invisible
  <2>5. CASE audit[k] = Never
    <3>1. {j \in Keys : audit[j] # Never}' = {j \in Keys : audit[j] # Never} \cup {k}
      BY <2>1, <2>2, <2>3 DEF TaskInv, TypeStore
    <3>2. Effect!Announce(k)
      BY <2>1, <2>2, <2>5, <3>1 DEF Effect!Announce, Performed, Prepared
    <3> QED
      BY <3>2 DEF Effect!Next
  <2> QED
    BY <2>4, <2>5
<1>5. ASSUME NEW o \in OpKeys, OwnerChanges(o)
      PROVE  [Effect!Next]_(Effect!effectVars)
  <2>1. \A p \in OpKeys : event'[p].state # "none" <=> event[p].state # "none"
    <3> DEFINE e == [event[o] EXCEPT !.state = "changed"]
    <3>1. event' = [event EXCEPT ![o] = e] /\ event[o].state = "created"
      BY <1>5 DEF OwnerChanges
    <3>2. e.state = "changed"
      BY DEF TaskInv, TypeWorld
    <3> HIDE DEF e
    <3> QED
      BY <3>1, <3>2 DEF TaskInv, TypeWorld
  <2>2. UNCHANGED <<placement, audit>>
    BY <1>5 DEF OwnerChanges
  <2>3. \A k \in Keys : Prepared(k) => placement[k].op \in OpKeys
    BY DEF TaskInv, StoreInOrder
  <2>4. Performed' = Performed
    BY <2>1, <2>2, <2>3 DEF Performed, Prepared
  <2> QED
    BY <2>2, <2>4 DEF Effect!effectVars, Prepared
<1>6. ASSUME NEW c \in Calls,
             CreateOwnerEvent(c) \/ CreateOwnerEventFails(c) \/ BreakInCreate(c)
      PROVE  [Effect!Next]_(Effect!effectVars)
  <2>1. /\ task[c].step = "create" /\ event' \in {event, WithEvent(c)}
        /\ UNCHANGED <<placement, audit>>
    BY <1>6 DEF CreateOwnerEvent, CreateOwnerEventFails, BreakInCreate, On
  <2> QED
    BY <2>1, CreatePerforms
<1>7. \/ UNCHANGED <<placement, audit, event>>
      \/ \E k \in Keys, o \in OpKeys, s \in Starts : PrepareOwnerTask(k, o, s)
      \/ \E c \in Calls : \/ SubmitPlacement(c) \/ EnsureAudit(c)
                          \/ CreateOwnerEvent(c) \/ CreateOwnerEventFails(c)
                          \/ BreakInCreate(c)
      \/ \E o \in OpKeys : OwnerChanges(o)
  BY DEF Next, vars, Issue, Call, Proceed, Load, FindOwnerEvent, ListBusyOutlook,
         ListBusyGoogle, FindAgain, Break, Book, Tick
<1> QED
  BY <1>1, <1>2, <1>3, <1>4, <1>5, <1>6, <1>7

\* prepare_owner_task and submit_owner_task are the four steps of
\* RecordedEffect: an audited task is recorded, a recorded one has its event,
\* each step happens at most once and none is taken back.
THEOREM TasksAreRecordedEffects == Spec => ImplementsEffect
<1>1. Spec => [][Effect!Next]_(Effect!effectVars)
  BY Invariance, NextImplements, PTL DEF Spec
<1> QED
  BY <1>1, InitImplements, PTL DEF Spec, ImplementsEffect, Effect!Spec

\* What a reader of the audit log may conclude of a task: its placement names
\* an event, which was created for a task the owner had prepared.
THEOREM AuditedIsPerformed == Spec => []Effect!Ordered
<1>1. TaskInv => Effect!Ordered
  BY DEF TaskInv, StoreInOrder, Effect!Ordered, Performed, Prepared
<1> QED
  BY <1>1, Invariance, PTL
=============================================================================
