-------------------------- MODULE TurnPipelineProofs --------------------------
(***************************************************************************)
(* Theorems about TurnPipeline: whose answer a client of the shared speech *)
(* worker gets, which frames an utterance is made of, whether the          *)
(* assistant hears itself, when the BYE is sent, and when an idle prompt   *)
(* may begin.                                                              *)
(***************************************************************************)
EXTENDS TurnPipeline, FiniteSetTheorems, TLAPS

LEMMA HeadIsFirst ==
    ASSUME NEW S, NEW s \in Seq(S), s # <<>>
    PROVE  /\ Len(s) \in Nat \ {0} /\ Head(s) = s[1] /\ Head(s) \in S
           /\ Tail(s) \in Seq(S) /\ Len(Tail(s)) = Len(s) - 1
           /\ \A i \in 1..(Len(s) - 1) : Tail(s)[i] = s[i + 1]
OBVIOUS

LEMMA AppendIsLast ==
    ASSUME NEW S, NEW s \in Seq(S), NEW e \in S
    PROVE  /\ Append(s, e) \in Seq(S) /\ Len(Append(s, e)) = Len(s) + 1
           /\ Append(s, e)[Len(s) + 1] = e
           /\ \A i \in 1..Len(s) : Append(s, e)[i] = s[i]
OBVIOUS

-----------------------------------------------------------------------------
(* The worker.                                                             *)

Lines == [by : Clients \cup {"nobody"}, nr : {0, 1}]

WorkerInv ==
    /\ WorkerTypeOK
    /\ stdin \in Seq(Lines) /\ stdout \in Seq(Lines)
    /\ process = "exited" => stdin = <<>>
    /\ InStep

WorkerNext ==
    \/ \E c \in Clients : \/ Ask(c) \/ WriteRequest(c) \/ ReadAnswer(c)
                          \/ RequestFails(c) \/ LeaveQueue(c)
    \/ AnswerLine \/ Exit
    \/ UNCHANGED workerVars

LEMMA RequestIsALine ==
    ASSUME WorkerTypeOK, NEW c \in Clients
    PROVE  Request(c) \in Lines /\ Invalid \in Lines
BY DEF WorkerTypeOK, Request, Invalid, Lines

\* Clients that have the mutex or wait for it are different.
LEMMA QueueKeepsOthers ==
    ASSUME WorkerTypeOK, NEW c \in Clients, ~InLock(c)
    PROVE  /\ Append(lock, c) \in Seq(Clients)
           /\ \A i, j \in 1..Len(Append(lock, c)) :
                 Append(lock, c)[i] = Append(lock, c)[j] => i = j
           /\ lock # <<>> => Head(Append(lock, c)) = Head(lock) /\ Head(lock) # c
<1>1. lock \in Seq(Clients) /\ Len(lock) \in Nat
  BY DEF WorkerTypeOK
<1>2. \A i \in 1..Len(lock) : lock[i] # c
  BY DEF InLock
<1>3. /\ Append(lock, c) \in Seq(Clients) /\ Len(Append(lock, c)) = Len(lock) + 1
      /\ Append(lock, c)[Len(lock) + 1] = c
      /\ \A i \in 1..Len(lock) : Append(lock, c)[i] = lock[i]
  BY <1>1, AppendIsLast
<1>4. \A i, j \in 1..Len(Append(lock, c)) :
         Append(lock, c)[i] = Append(lock, c)[j] => i = j
  BY <1>1, <1>2, <1>3 DEF WorkerTypeOK
<1>5. lock # <<>> => Head(Append(lock, c)) = Head(lock) /\ Head(lock) # c
  BY <1>1, <1>2, <1>3, HeadIsFirst
<1> QED
  BY <1>3, <1>4, <1>5

LEMMA ReleaseKeepsOthers ==
    ASSUME WorkerTypeOK, lock # <<>>
    PROVE  /\ Tail(lock) \in Seq(Clients)
           /\ \A i, j \in 1..Len(Tail(lock)) : Tail(lock)[i] = Tail(lock)[j] => i = j
<1>1. lock \in Seq(Clients) /\ Len(lock) \in Nat
  BY DEF WorkerTypeOK
<1>2. /\ Tail(lock) \in Seq(Clients) /\ Len(Tail(lock)) = Len(lock) - 1
      /\ \A i \in 1..(Len(lock) - 1) : Tail(lock)[i] = lock[i + 1]
  BY <1>1, HeadIsFirst
<1> QED
  BY <1>1, <1>2 DEF WorkerTypeOK

LEMMA AskStep ==
    ASSUME WorkerInv, NEW c \in Clients, Ask(c)
    PROVE  WorkerInv'
<1>1. WorkerTypeOK'
  BY QueueKeepsOthers DEF WorkerInv, WorkerTypeOK, Ask
<1>2. ~spoilt => (phase = "read" => lock # <<>>)
  BY DEF WorkerInv, WorkerTypeOK
<1>3. lock # <<>> => Head(lock') = Head(lock) /\ Request(Head(lock))' = Request(Head(lock))
  <2> HAVE lock # <<>>
  <2>1. Head(lock') = Head(lock) /\ Head(lock) # c
    BY QueueKeepsOthers DEF WorkerInv, Ask
  <2>2. Head(lock) \in Clients
    BY HeadIsFirst DEF WorkerInv, WorkerTypeOK
  <2>3. asked'[Head(lock)] = asked[Head(lock)]
    BY <2>1, <2>2 DEF Ask, WorkerInv, WorkerTypeOK
  <2> QED
    BY <2>1, <2>3 DEF Request
<1>4. UNCHANGED <<phase, stdin, torn, stdout, process, spoilt>>
  BY DEF Ask
<1>5. InStep'
  <2>1. CASE lock = <<>>
    <3>1. phase # "read"
      BY <2>1 DEF WorkerInv, WorkerTypeOK
    <3>2. ~spoilt => Len(stdin) + Len(stdout) <= 0 /\ ~torn
      BY <3>1 DEF WorkerInv, InStep
    <3>3. Len(stdin) \in Nat /\ Len(stdout) \in Nat
      BY DEF WorkerInv
    <3>4. ~spoilt => Len(stdin) = 0 /\ Len(stdout) = 0
      BY <3>2, <3>3
    <3> QED
      BY <1>4, <3>1, <3>2, <3>4 DEF InStep
  <2>2. CASE lock # <<>>
    BY <1>3, <1>4, <2>2 DEF WorkerInv, InStep, Invalid
  <2> QED
    BY <2>1, <2>2
<1> QED
  BY <1>1, <1>4, <1>5 DEF WorkerInv

LEMMA WrittenIsLines ==
    ASSUME WorkerInv, NEW c \in Clients
    PROVE  /\ Written(c) \in Seq(Lines)
           /\ stdin = <<>> /\ ~torn => Written(c) = <<Request(c)>>
<1>1. Request(c) \in Lines /\ Invalid \in Lines
  BY RequestIsALine DEF WorkerInv
<1>2. stdin \in Seq(Lines)
  BY DEF WorkerInv
<1> DEFINE line == IF torn THEN Invalid ELSE Request(c)
<1>3. line \in Lines
  BY <1>1
<1>4. ~torn => line = Request(c)
  OBVIOUS
<1>5. Written(c) = Append(stdin, line)
  BY DEF Written
<1> HIDE DEF line
<1>6. Append(stdin, line) \in Seq(Lines)
  BY <1>2, <1>3, AppendIsLast
<1>7. stdin = <<>> => Append(stdin, line) = <<line>>
  OBVIOUS
<1> QED
  BY <1>4, <1>5, <1>6, <1>7

\* A request is written when nothing of an earlier one is left.
LEMMA WriteStep ==
    ASSUME WorkerInv, NEW c \in Clients, WriteRequest(c)
    PROVE  WorkerInv'
<1>1. /\ lock # <<>> /\ Head(lock) = c /\ phase = "write" /\ phase' = "read"
      /\ stdin' = Written(c) /\ torn' = FALSE
      /\ UNCHANGED <<lock, asked, stdout, process, spoilt>>
  BY DEF WriteRequest, Holds
<1>2. WorkerTypeOK'
  BY <1>1 DEF WorkerInv, WorkerTypeOK
<1>3. stdin' \in Seq(Lines)
  BY <1>1, WrittenIsLines
<1>4. ASSUME ~spoilt
      PROVE  stdin' = <<Request(c)>> /\ stdout = <<>>
  <2>1. ~torn /\ Len(stdin) + Len(stdout) <= 0
    BY <1>1, <1>4 DEF WorkerInv, InStep
  <2>2. Len(stdin) \in Nat /\ Len(stdout) \in Nat
    BY DEF WorkerInv
  <2>3. Len(stdin) = 0 /\ Len(stdout) = 0
    BY <2>1, <2>2
  <2>4. stdin = <<>> /\ stdout = <<>>
    BY <2>3 DEF WorkerInv
  <2> QED
    BY <1>1, <2>1, <2>4, WrittenIsLines
<1>5. InStep'
  <2> SUFFICES ASSUME ~spoilt'
               PROVE  /\ ~torn'
                      /\ Len(stdin') + Len(stdout') <= 1
                      /\ \A i \in 1..Len(stdin') : stdin'[i] = Request(Head(lock))'
                      /\ Len(stdout') = 0
    BY <1>1 DEF InStep
  <2>1. stdin' = <<Request(c)>> /\ stdout' = <<>>
    BY <1>1, <1>4
  <2>2. Request(Head(lock))' = Request(c)
    BY <1>1 DEF Request
  <2> QED
    BY <1>1, <2>1, <2>2
<1>6. process = "alive" /\ process' = process
  BY DEF WriteRequest
<1> QED
  BY <1>1, <1>2, <1>3, <1>5, <1>6 DEF WorkerInv

LEMMA ReadStep ==
    ASSUME WorkerInv, NEW c \in Clients, ReadAnswer(c)
    PROVE  WorkerInv'
<1>1. /\ lock # <<>> /\ phase = "read" /\ stdout # <<>> /\ stdout' = Tail(stdout)
      /\ lock' = Tail(lock) /\ phase' = "write"
      /\ UNCHANGED <<asked, stdin, torn, process, spoilt>>
  BY DEF ReadAnswer, Holds, Release
<1>2. WorkerTypeOK'
  BY <1>1, ReleaseKeepsOthers DEF WorkerInv, WorkerTypeOK
<1>3. stdout' \in Seq(Lines) /\ Len(stdout') = Len(stdout) - 1
      /\ Len(stdout) \in Nat \ {0} /\ Len(stdin) \in Nat
  BY <1>1, HeadIsFirst DEF WorkerInv
<1>4. ~spoilt => Len(stdin) = 0 /\ Len(stdout) = 1 /\ ~torn
  <2>1. ~spoilt => ~torn /\ Len(stdin) + Len(stdout) <= 1
    BY <1>1 DEF WorkerInv, InStep
  <2> QED
    BY <1>3, <2>1
<1>5. InStep'
  BY <1>1, <1>3, <1>4 DEF InStep
<1> QED
  BY <1>1, <1>2, <1>3, <1>5 DEF WorkerInv

\* A request that times out spoils the pipes; one that finds the worker gone
\* does not, because nobody reads or writes them any more.
LEMMA FailsStep ==
    ASSUME WorkerInv, NEW c \in Clients, RequestFails(c)
    PROVE  WorkerInv'
<1>1. CASE WriteTimesOut(c) \/ ReadTimesOut(c)
  <2>1. /\ lock # <<>> /\ lock' = Tail(lock) /\ phase' = "write" /\ spoilt'
        /\ torn' \in BOOLEAN /\ UNCHANGED <<asked, process>>
    BY <1>1 DEF WriteTimesOut, ReadTimesOut, Holds, Release, WorkerInv, WorkerTypeOK
  <2>2. WorkerTypeOK'
    BY <1>1, <2>1, ReleaseKeepsOthers
    DEF WorkerInv, WorkerTypeOK, WriteTimesOut, ReadTimesOut
  <2>3. stdin' \in Seq(Lines)
    <3>1. stdin' = stdin \/ stdin' = Written(c)
          \/ (stdin # <<>> /\ stdin' = Tail(stdin))
      BY <1>1 DEF WriteTimesOut, ReadTimesOut
    <3> QED
      BY <3>1, WrittenIsLines, HeadIsFirst DEF WorkerInv
  <2>4. stdout' \in Seq(Lines)
    <3>1. stdout' = stdout \/ stdout' = <<Invalid>>
      BY <1>1 DEF WriteTimesOut, ReadTimesOut
    <3>2. Invalid \in Lines
      BY DEF Invalid, Lines
    <3>3. <<Invalid>> \in Seq(Lines) /\ stdout \in Seq(Lines)
      BY <3>2 DEF WorkerInv
    <3> QED
      BY <3>1, <3>3
  <2>5. process = "alive"
    BY <1>1 DEF WriteTimesOut, ReadTimesOut
  <2> QED
    BY <2>1, <2>2, <2>3, <2>4, <2>5 DEF WorkerInv, InStep
<1>2. CASE WriteFails(c) \/ ReadFails(c)
  <2>1. /\ lock # <<>> /\ lock' = Tail(lock) /\ phase' = "write"
        /\ UNCHANGED <<asked, stdin, torn, stdout, process, spoilt>>
    BY <1>2 DEF WriteFails, ReadFails, Holds, Release
  <2>2. WorkerTypeOK'
    BY <2>1, ReleaseKeepsOthers DEF WorkerInv, WorkerTypeOK
  <2>3. process = "exited"
    BY <1>2 DEF WriteFails, ReadFails
  <2>4. ~spoilt => Len(stdin) = 0 /\ Len(stdout) = 0 /\ ~torn
    <3>1. Len(stdin) \in Nat /\ Len(stdout) \in Nat
      BY DEF WorkerInv
    <3>2. CASE WriteFails(c)
      BY <3>1, <3>2 DEF WorkerInv, InStep, WriteFails, Holds
    <3>3. CASE ReadFails(c)
      BY <3>1, <3>3 DEF WorkerInv, InStep, ReadFails
    <3> QED
      BY <1>2, <3>2, <3>3
  <2> QED
    BY <2>1, <2>2, <2>4 DEF WorkerInv, InStep
<1> QED
  BY <1>1, <1>2 DEF RequestFails

\* Who leaves the queue is not the holder.
LEMMA LeaveStep ==
    ASSUME WorkerInv, NEW c \in Clients, LeaveQueue(c)
    PROVE  WorkerInv'
<1> DEFINE n == Len(lock)
<1>0. lock \in Seq(Clients) /\ n \in Nat
      /\ \A j, k \in 1..n : lock[j] = lock[k] => j = k
  BY DEF WorkerInv, WorkerTypeOK
<1>1. PICK i \in 2..n : lock' = SubSeq(lock, 1, i - 1) \o SubSeq(lock, i + 1, n)
  BY DEF LeaveQueue
<1>2. UNCHANGED <<phase, asked, stdin, torn, stdout, process, spoilt>>
  BY DEF LeaveQueue
<1>3. /\ lock' \in Seq(Clients) /\ Len(lock') = n - 1
      /\ \A j \in 1..(n - 1) : lock'[j] = IF j < i THEN lock[j] ELSE lock[j + 1]
  <2> DEFINE before == SubSeq(lock, 1, i - 1)
             after == SubSeq(lock, i + 1, n)
  <2> HIDE DEF n
  <2>1. n = Len(lock) /\ i \in Nat /\ 2 <= i /\ i <= n
    BY <1>0, <1>1 DEF n
  <2>2. /\ before \in Seq(Clients) /\ Len(before) = i - 1
        /\ \A j \in 1..(i - 1) : before[j] = lock[j]
    BY <1>0, <2>1
  <2>3. /\ after \in Seq(Clients) /\ Len(after) = n - i
        /\ \A j \in 1..(n - i) : after[j] = lock[i + j]
    BY <1>0, <2>1
  <2> HIDE DEF before, after
  <2>4. lock' = before \o after
    BY <1>1 DEF before, after, n
  <2>5. /\ lock' \in Seq(Clients) /\ Len(lock') = n - 1
        /\ \A j \in 1..(n - 1) : lock'[j] = IF j <= i - 1 THEN before[j]
                                                 ELSE after[j - (i - 1)]
    BY <1>0, <2>1, <2>2, <2>3, <2>4
  <2>6. ASSUME NEW j \in 1..(n - 1)
        PROVE  lock'[j] = IF j < i THEN lock[j] ELSE lock[j + 1]
    <3>1. CASE j < i
      BY <1>0, <2>1, <2>2, <2>5, <3>1
    <3>2. CASE ~(j < i)
      <4>1. j - (i - 1) \in 1..(n - i) /\ i + (j - (i - 1)) = j + 1
        BY <1>0, <2>1, <3>2
      <4>2. after[j - (i - 1)] = lock[i + (j - (i - 1))]
        BY <2>3, <4>1
      <4>3. lock'[j] = after[j - (i - 1)]
        BY <1>0, <2>1, <2>5, <3>2
      <4> QED
        BY <3>2, <4>1, <4>2, <4>3
    <3> QED
      BY <3>1, <3>2
  <2> QED
    BY <2>5, <2>6
<1>4. \A j, k \in 1..(n - 1) : lock'[j] = lock'[k] => j = k
  BY <1>0, <1>3
<1>5. lock # <<>> /\ lock' # <<>> /\ Head(lock') = Head(lock)
  <2>1. n > 1 /\ Len(lock') > 0
    BY <1>0, <1>3
  <2>2. lock # <<>> /\ lock' # <<>>
    BY <2>1, <1>0, <1>3
  <2>3. Head(lock) = lock[1] /\ Head(lock') = lock'[1]
    BY <2>2, <1>0, <1>3, HeadIsFirst
  <2> QED
    BY <2>1, <2>2, <2>3, <1>0, <1>3
<1>6. WorkerTypeOK'
  BY <1>0, <1>2, <1>3, <1>4, <1>5 DEF WorkerInv, WorkerTypeOK
<1>7. InStep'
  BY <1>2, <1>5 DEF WorkerInv, InStep, Request, Invalid
<1> QED
  BY <1>2, <1>6, <1>7 DEF WorkerInv

\* The worker turns the only line it was sent into its answer.
LEMMA AnswerStep ==
    ASSUME WorkerInv, AnswerLine
    PROVE  WorkerInv'
<1>1. /\ stdin # <<>> /\ stdin' = Tail(stdin) /\ process = "alive"
      /\ UNCHANGED <<lock, phase, asked, torn, process, spoilt>>
  BY DEF AnswerLine
<1>2. PICK line \in {Head(stdin), Invalid} : stdout' = Append(stdout, line)
  BY DEF AnswerLine
<1>3. /\ Len(stdin) \in Nat \ {0} /\ Len(stdout) \in Nat
      /\ Head(stdin) \in Lines /\ Head(stdin) = stdin[1]
      /\ stdin' \in Seq(Lines) /\ Len(stdin') = Len(stdin) - 1
  BY <1>1, HeadIsFirst DEF WorkerInv
<1>4. line \in Lines
  <2>1. Invalid \in Lines
    BY DEF Invalid, Lines
  <2> QED
    BY <1>2, <1>3, <2>1
<1>5. /\ stdout' \in Seq(Lines) /\ Len(stdout') = Len(stdout) + 1
      /\ stdout'[Len(stdout) + 1] = line
  BY <1>2, <1>4, AppendIsLast DEF WorkerInv
<1>6. WorkerTypeOK'
  BY <1>1 DEF WorkerInv, WorkerTypeOK
<1>7. ASSUME ~spoilt
      PROVE  /\ phase = "read" /\ Len(stdin) = 1 /\ Len(stdout) = 0 /\ ~torn
             /\ line \in {Request(Head(lock)), Invalid}
  <2>1. /\ ~torn /\ Len(stdin) + Len(stdout) <= (IF phase = "read" THEN 1 ELSE 0)
        /\ \A i \in 1..Len(stdin) : stdin[i] = Request(Head(lock))
    BY <1>7 DEF WorkerInv, InStep
  <2>2. phase = "read" /\ Len(stdin) = 1 /\ Len(stdout) = 0
    BY <1>3, <2>1
  <2>3. Head(stdin) = Request(Head(lock))
    BY <1>3, <2>1, <2>2
  <2> QED
    BY <2>1, <2>2, <2>3
<1>8. InStep'
  <2> SUFFICES ASSUME ~spoilt
               PROVE  /\ ~torn'
                      /\ Len(stdin') = 0 /\ Len(stdout') = 1
                      /\ phase' = "read"
                      /\ stdout'[1] \in {Request(Head(lock))', Invalid'}
    BY <1>1 DEF InStep
  <2>1. Request(Head(lock))' = Request(Head(lock)) /\ Invalid' = Invalid
    BY <1>1 DEF Request, Invalid
  <2> QED
    BY <1>1, <1>3, <1>5, <1>7, <2>1
<1> QED
  BY <1>1, <1>3, <1>5, <1>6, <1>8 DEF WorkerInv

LEMMA ExitStep ==
    ASSUME WorkerInv, Exit
    PROVE  WorkerInv'
<1>1. /\ stdin' = <<>> /\ torn' = FALSE /\ process' = "exited"
      /\ UNCHANGED <<lock, phase, asked, stdout, spoilt>>
  BY DEF Exit
<1>2. WorkerTypeOK'
  BY <1>1 DEF WorkerInv, WorkerTypeOK
<1>3. Len(stdin') = 0 /\ stdin' \in Seq(Lines)
  BY <1>1
<1>4. Len(stdin) \in Nat /\ Len(stdout) \in Nat
  BY DEF WorkerInv
<1>5. InStep'
  <2> SUFFICES ASSUME ~spoilt
               PROVE  /\ ~torn'
                      /\ Len(stdin') + Len(stdout') <= (IF phase = "read" THEN 1 ELSE 0)
                      /\ \A i \in 1..Len(stdout) :
                            stdout[i] \in {Request(Head(lock)), Invalid}
    BY <1>1, <1>3 DEF InStep, Request, Invalid
  <2> QED
    BY <1>1, <1>3, <1>4 DEF WorkerInv, InStep
<1> QED
  BY <1>1, <1>2, <1>3, <1>5 DEF WorkerInv

LEMMA WorkerStays ==
    ASSUME WorkerInv, WorkerNext
    PROVE  WorkerInv'
<1>1. CASE UNCHANGED workerVars
  BY <1>1 DEF WorkerInv, WorkerTypeOK, InStep, workerVars, Request, Invalid
<1> QED
  BY <1>1, AskStep, WriteStep, ReadStep, FailsStep, LeaveStep, AnswerStep, ExitStep
  DEF WorkerNext

LEMMA WorkerStarts == WorkerInit => WorkerInv
<1> SUFFICES ASSUME WorkerInit
             PROVE  WorkerInv
  OBVIOUS
<1>1. WorkerTypeOK
  <2>1. <<>> \in Seq(Clients) /\ Len(<<>>) = 0
    OBVIOUS
  <2>2. [c \in Clients |-> 0] \in [Clients -> {0, 1}]
    OBVIOUS
  <2>3. /\ lock \in Seq(Clients)
        /\ \A i, j \in 1..Len(lock) : lock[i] = lock[j] => i = j
    BY <2>1 DEF WorkerInit
  <2>4. asked \in [Clients -> {0, 1}]
    BY <2>2 DEF WorkerInit
  <2> QED
    BY <2>3, <2>4 DEF WorkerInit, WorkerTypeOK
<1>2. InStep
  BY DEF WorkerInit, InStep
<1> QED
  BY <1>1, <1>2 DEF WorkerInit, WorkerInv

\* What a client reads is the answer to its own request, or an error.
LEMMA AnswerIsOwn ==
    ASSUME WorkerInv, NEW c \in Clients, ReadAnswer(c), ~spoilt
    PROVE  Head(stdout) \in {Request(c), Invalid}
<1>1. stdout # <<>> /\ Head(lock) = c /\ stdout \in Seq(Lines)
  BY DEF ReadAnswer, Holds, WorkerInv
<1>2. Len(stdout) \in Nat \ {0} /\ Head(stdout) = stdout[1]
  BY <1>1, HeadIsFirst
<1> QED
  BY <1>1, <1>2 DEF WorkerInv, InStep

-----------------------------------------------------------------------------
(* The pipeline.                                                           *)

\* Everything queued is what its speaker asked for.
PipelineInv ==
    /\ WorkerInv
    /\ speaker \in Seq([own : BOOLEAN, closing : BOOLEAN])
    /\ speech \in [Clients -> [text : Texts, left : 0..MaxSegments, units : Nat]]
    /\ SaysItsOwn

\* The steps of the pipeline, as steps of the worker.
LEMMA WorkerSteps == [Next]_vars => WorkerNext
<1> SUFFICES ASSUME [Next]_vars
             PROVE  WorkerNext
  OBVIOUS
<1>1. CASE ThreadStep
  BY <1>1 DEF ThreadStep, TakeFrame, FinishInput, GiveUpTurn, HearWords, NoteWords,
              NoteHangUp, Reply, WorkerNext
<1>2. ASSUME NEW c \in Clients, SpeechStep(c)
      PROVE  WorkerNext
  BY <1>2 DEF SpeechStep, AskSegment, WriteLine, SegmentQueued, SpeechFails, NoteSpeech,
              WorkerNext
<1>3. CASE SpeakDropped
  BY <1>3, TurnAssumption DEF SpeakDropped, WorkerNext
<1>4. ASSUME NEW p \in sleeping, PromptOutdated(p) \/ SpeakPrompt(p)
      PROVE  WorkerNext
  BY <1>4 DEF PromptOutdated, SpeakPrompt, WorkerNext
<1>5. CASE \E n \in 1..SpeakSegments : SpeakText(n)
  BY <1>5 DEF SpeakText, WorkerNext
<1>6. CASE SendBye \/ CallEnds \/ Tick
  BY <1>6 DEF SendBye, CallEnds, Tick, WorkerNext
<1>7. CASE WorkerStep
  BY <1>7 DEF WorkerStep, WorkerNext
<1>8. CASE UNCHANGED vars
  BY <1>8 DEF vars, WorkerNext
<1> QED
  BY <1>1, <1>2, <1>3, <1>4, <1>5, <1>6, <1>7, <1>8 DEF Next

\* The only step that queues speech, and those that do not.
LEMMA QueuedIsOwn ==
    ASSUME PipelineInv, [Next]_vars
    PROVE  /\ speaker' \in Seq([own : BOOLEAN, closing : BOOLEAN])
           /\ SaysItsOwn'
<1> DEFINE Units == [own : BOOLEAN, closing : BOOLEAN]
<1>0. speaker \in Seq(Units) /\ WorkerInv
  BY DEF PipelineInv
<1>1. ~spoilt' => ~spoilt
  BY WorkerSteps DEF WorkerNext, workerVars, Ask, WriteRequest, ReadAnswer, RequestFails,
     WriteTimesOut, WriteFails, ReadTimesOut, ReadFails, LeaveQueue, AnswerLine, Exit,
     PipelineInv, WorkerInv, WorkerTypeOK
<1>2. ASSUME NEW c \in Clients, SegmentQueued(c)
      PROVE  speaker' \in Seq(Units) /\ SaysItsOwn'
  <2> DEFINE u == [own |-> Head(stdout) = Request(c),
                   closing |-> speech[c].text = "farewell" /\ ~endRequested]
  <2>1. ReadAnswer(c) /\ Head(stdout) # Invalid /\ speaker' = Append(speaker, u)
    BY <1>2 DEF SegmentQueued
  <2>2. u \in Units
    OBVIOUS
  <2>3. ~spoilt => u.own
    BY <1>0, <2>1, AnswerIsOwn
  <2> HIDE DEF u, Units
  <2>4. /\ speaker' \in Seq(Units) /\ Len(speaker') = Len(speaker) + 1
        /\ speaker'[Len(speaker) + 1] = u
        /\ \A i \in 1..Len(speaker) : speaker'[i] = speaker[i]
    BY <1>0, <2>1, <2>2, AppendIsLast
  <2>5. Len(speaker) \in Nat
    BY <1>0
  <2>6. ASSUME ~spoilt', NEW i \in 1..Len(speaker')
        PROVE  speaker'[i].own
    <3>1. ~spoilt
      BY <1>1, <2>6
    <3>2. CASE i = Len(speaker) + 1
      BY <2>3, <2>4, <3>1, <3>2
    <3>3. CASE i # Len(speaker) + 1
      BY <2>4, <2>5, <2>6, <3>1, <3>3 DEF PipelineInv, SaysItsOwn
    <3> QED
      BY <3>2, <3>3
  <2> QED
    BY <2>4, <2>6 DEF SaysItsOwn
<1>3. CASE Tick
  <2>1. speaker' = IF speaker = <<>> THEN <<>> ELSE Tail(speaker)
    BY <1>3 DEF Tick
  <2>2. CASE speaker = <<>>
    BY <1>0, <1>1, <2>1, <2>2 DEF PipelineInv, SaysItsOwn
  <2>3. CASE speaker # <<>>
    <3> HIDE DEF Units
    <3>1. /\ speaker' \in Seq(Units) /\ Len(speaker') = Len(speaker) - 1
          /\ Len(speaker) \in Nat \ {0}
          /\ \A i \in 1..(Len(speaker) - 1) : speaker'[i] = speaker[i + 1]
      BY <1>0, <2>1, <2>3, HeadIsFirst
    <3>2. ASSUME ~spoilt', NEW i \in 1..Len(speaker')
          PROVE  speaker'[i].own
      <4>1. i + 1 \in 1..Len(speaker) /\ speaker'[i] = speaker[i + 1]
        BY <3>1, <3>2
      <4>0. ~spoilt
        BY <1>1, <3>2
      <4>2. \A j \in 1..Len(speaker) : speaker[j].own
        BY <4>0 DEF PipelineInv, SaysItsOwn
      <4>3. speaker[i + 1].own
        BY <4>1, <4>2
      <4> QED
        BY <4>1, <4>3
    <3> QED
      BY <3>1, <3>2 DEF SaysItsOwn, Units
  <2> QED
    BY <2>2, <2>3
<1>4. CASE UNCHANGED speaker
  BY <1>0, <1>1, <1>4 DEF PipelineInv, SaysItsOwn
<1>5. \/ UNCHANGED speaker \/ Tick \/ \E c \in Clients : SegmentQueued(c)
  BY DEF Next, vars, ThreadStep, TakeFrame, FinishInput, GiveUpTurn, HearWords, NoteWords,
         NoteHangUp, Reply, SpeechStep, AskSegment, WriteLine, SpeechFails, NoteSpeech,
         SpeakDropped, PromptOutdated, SpeakPrompt, SpeakText, SendBye, CallEnds, WorkerStep
<1> QED
  BY <1>2, <1>3, <1>4, <1>5

LEMMA SpeechKeepsType ==
    ASSUME speech \in [Clients -> [text : Texts, left : 0..MaxSegments, units : Nat]],
           [Next]_vars
    PROVE  speech' \in [Clients -> [text : Texts, left : 0..MaxSegments, units : Nat]]
<1> DEFINE Record == [text : Texts, left : 0..MaxSegments, units : Nat]
<1>0. /\ 1 \in 0..MaxSegments /\ 0 \in 0..MaxSegments
      /\ \A n \in 1..MaxSegments : n \in 0..MaxSegments
      /\ \A n \in 1..SpeakSegments : n \in 0..MaxSegments
  BY TurnAssumption
<1>1. ASSUME NEW c \in Clients, NEW text \in Texts, NEW n \in 0..MaxSegments,
             Speak(c, text, n)
      PROVE  speech' \in [Clients -> Record]
  <2>1. [text |-> text, left |-> n, units |-> 0] \in Record
    OBVIOUS
  <2> QED
    BY <1>1, <2>1 DEF Speak
<1>2. Silent \in Record
  BY <1>0 DEF Silent, Texts
<1>3. ASSUME NEW c \in Clients, speech' = [speech EXCEPT ![c] = Silent]
      PROVE  speech' \in [Clients -> Record]
  BY <1>2, <1>3
<1>4. CASE \/ NoteHangUp
         \/ \E text \in {"reply", "farewell"}, n \in 1..MaxSegments : Reply(text, n)
  BY <1>0, <1>1, <1>4, TurnAssumption DEF NoteHangUp, Reply, Texts
<1>5. ASSUME NEW c \in Clients, SegmentQueued(c)
      PROVE  speech' \in [Clients -> Record]
  <2> DEFINE r == [speech[c] EXCEPT !.left = @ - 1, !.units = @ + 1]
  <2>1. speech' = [speech EXCEPT ![c] = r]
    BY <1>5 DEF SegmentQueued
  <2>2. speech[c].left \in 0..MaxSegments /\ speech[c].left > 0 /\ speech[c].units \in Nat
    BY <1>5 DEF SegmentQueued
  <2>3. speech[c].left - 1 \in 0..MaxSegments /\ speech[c].units + 1 \in Nat
    BY <2>2, TurnAssumption
  <2>4. r \in Record
    BY <2>3
  <2> QED
    BY <2>1, <2>4
<1>6. CASE \E p \in sleeping : SpeakPrompt(p)
  BY <1>0, <1>1, <1>6, TurnAssumption DEF SpeakPrompt, Texts
<1>7. CASE \E n \in 1..SpeakSegments : SpeakText(n)
  BY <1>0, <1>1, <1>7, TurnAssumption DEF SpeakText, Texts
<1>8. CASE SpeakDropped \/ \E c \in Clients : SpeechFails(c) \/ NoteSpeech(c)
  BY <1>3, <1>8, TurnAssumption DEF SpeakDropped, SpeechFails, NoteSpeech
<1>9. \/ UNCHANGED speech
      \/ NoteHangUp
      \/ \E text \in {"reply", "farewell"}, n \in 1..MaxSegments : Reply(text, n)
      \/ \E c \in Clients : SegmentQueued(c) \/ SpeechFails(c) \/ NoteSpeech(c)
      \/ \E p \in sleeping : SpeakPrompt(p)
      \/ \E n \in 1..SpeakSegments : SpeakText(n)
      \/ SpeakDropped
  BY DEF Next, vars, ThreadStep, TakeFrame, FinishInput, GiveUpTurn, HearWords, NoteWords,
         SpeechStep, AskSegment, WriteLine, PromptOutdated, SendBye, CallEnds,
         WorkerStep, Tick
<1> QED
  BY <1>4, <1>5, <1>6, <1>7, <1>8, <1>9

LEMMA PipelineInvariance == Spec => []PipelineInv
<1>1. Init => PipelineInv
  <2> SUFFICES ASSUME Init
               PROVE  PipelineInv
    OBVIOUS
  <2>1. WorkerInv
    BY WorkerStarts DEF Init
  <2>2. Silent \in [text : Texts, left : 0..MaxSegments, units : Nat]
    BY TurnAssumption DEF Silent, Texts
  <2>3. speech \in [Clients -> [text : Texts, left : 0..MaxSegments, units : Nat]]
    BY <2>2 DEF Init
  <2>4. speaker \in Seq([own : BOOLEAN, closing : BOOLEAN]) /\ SaysItsOwn
    BY DEF Init, SaysItsOwn
  <2> QED
    BY <2>1, <2>3, <2>4 DEF PipelineInv
<1>2. PipelineInv /\ [Next]_vars => PipelineInv'
  <2> SUFFICES ASSUME PipelineInv, [Next]_vars
               PROVE  PipelineInv'
    OBVIOUS
  <2>1. WorkerInv'
    BY WorkerSteps, WorkerStays DEF PipelineInv
  <2>2. speech' \in [Clients -> [text : Texts, left : 0..MaxSegments, units : Nat]]
    BY SpeechKeepsType DEF PipelineInv
  <2> QED
    BY <2>1, <2>2, QueuedIsOwn DEF PipelineInv
<1> QED
  BY <1>1, <1>2, PTL DEF Spec

-----------------------------------------------------------------------------
(* The turn detector.                                                      *)

\* The frames are the ones that arrived up to time t, without a gap.
RunTo(frames, t) ==
    \A i \in 1..Len(frames) : frames[i].at = t - Len(frames) + i

StartsSoon(frames) ==
    \E i \in 1..Len(frames) : i <= PreRollFrames + 1 /\ Spoken(frames[i])

NoEcho(frames) == \A i \in 1..Len(frames) : frames[i].kind # "echo"

Detectors ==
    [buffer : Seq(Frames), preRoll : Seq(Frames),
     speaking : BOOLEAN, silent : Nat, speech : Nat]

\* What a detector that was given the frames up to time t remembers.
DetectorAt(d, t) ==
    /\ RunTo(d.buffer, t) /\ RunTo(d.preRoll, t)
    /\ d.speaking => d.preRoll = <<>> /\ StartsSoon(d.buffer)
    /\ ~d.speaking => d.buffer = <<>>
    /\ Len(d.preRoll) <= PreRollFrames

LEMMA NothingRuns ==
    ASSUME NEW t \in Int
    PROVE  /\ RunTo(<<>>, t) /\ NoEcho(<<>>)
           /\ Listening \in Detectors /\ DetectorAt(Listening, t)
           /\ Listening.silent < SilenceFrames
           /\ NoEcho(Listening.buffer) /\ NoEcho(Listening.preRoll)
<1>1. <<>> \in Seq(Frames) /\ Len(<<>>) = 0
  OBVIOUS
<1>2. RunTo(<<>>, t) /\ NoEcho(<<>>)
  BY <1>1 DEF RunTo, NoEcho
<1>3. /\ Listening.buffer = <<>> /\ Listening.preRoll = <<>> /\ ~Listening.speaking
      /\ Listening.silent = 0
  BY DEF Listening
<1>4. Listening \in Detectors
  BY <1>1 DEF Listening, Detectors
<1> QED
  BY <1>1, <1>2, <1>3, <1>4, TurnAssumption DEF DetectorAt

LEMMA RunAppended ==
    ASSUME NEW s \in Seq(Frames), NEW t \in Int, RunTo(s, t),
           NEW f \in Frames, f.at = t + 1
    PROVE  /\ RunTo(Append(s, f), t + 1)
           /\ NoEcho(s) /\ f.kind # "echo" => NoEcho(Append(s, f))
<1>1. /\ Len(Append(s, f)) = Len(s) + 1 /\ Append(s, f)[Len(s) + 1] = f
      /\ \A i \in 1..Len(s) : Append(s, f)[i] = s[i]
  BY AppendIsLast
<1>2. Len(s) \in Nat
  OBVIOUS
<1> DEFINE r == Append(s, f)
<1> HIDE DEF r
<1>3. \A i \in 1..Len(r) : \/ i \in 1..Len(s) /\ r[i] = s[i]
                           \/ i = Len(s) + 1 /\ r[i] = f
  BY <1>1, <1>2 DEF r
<1>4. RunTo(r, t + 1)
  BY <1>1, <1>2, <1>3 DEF RunTo, r
<1>5. NoEcho(s) /\ f.kind # "echo" => NoEcho(r)
  BY <1>3 DEF NoEcho
<1> QED
  BY <1>4, <1>5 DEF r

LEMMA RunShortened ==
    ASSUME NEW s \in Seq(Frames), s # <<>>, NEW t \in Int, RunTo(s, t)
    PROVE  /\ RunTo(Tail(s), t) /\ Head(s).at = t - Len(s) + 1
           /\ NoEcho(s) => NoEcho(Tail(s)) /\ Head(s).kind # "echo"
<1>1. /\ Len(s) \in Nat \ {0} /\ Head(s) = s[1] /\ Len(Tail(s)) = Len(s) - 1
      /\ \A i \in 1..(Len(s) - 1) : Tail(s)[i] = s[i + 1]
  BY HeadIsFirst
<1>2. \A i \in 1..(Len(s) - 1) : i + 1 \in 1..Len(s)
  BY <1>1
<1>3. 1 \in 1..Len(s)
  BY <1>1
<1>4. RunTo(Tail(s), t)
  <2> SUFFICES ASSUME NEW i \in 1..(Len(s) - 1)
               PROVE  Tail(s)[i].at = t - (Len(s) - 1) + i
    BY <1>1 DEF RunTo
  <2>1. s[i + 1].at = t - Len(s) + (i + 1)
    BY <1>2 DEF RunTo
  <2> QED
    BY <1>1, <2>1
<1>5. Head(s).at = t - Len(s) + 1
  BY <1>1, <1>3 DEF RunTo
<1> QED
  BY <1>1, <1>2, <1>3, <1>4, <1>5 DEF NoEcho

\* remember_pre_roll
LEMMA PreRollRemembered ==
    ASSUME NEW s \in Seq(Frames), Len(s) <= PreRollFrames, NEW t \in Int, RunTo(s, t),
           NEW f \in Frames, f.at = t + 1
    PROVE  /\ Remembered(s, f) \in Seq(Frames)
           /\ Len(Remembered(s, f)) <= PreRollFrames
           /\ RunTo(Remembered(s, f), t + 1)
           /\ NoEcho(s) /\ f.kind # "echo" => NoEcho(Remembered(s, f))
<1>1. PreRollFrames \in Nat \ {0} /\ Len(s) \in Nat
  BY TurnAssumption
<1>2. CASE Len(s) = PreRollFrames
  <2>1. s # <<>>
    BY <1>1, <1>2
  <2>2. /\ Tail(s) \in Seq(Frames) /\ Len(Tail(s)) = Len(s) - 1
        /\ RunTo(Tail(s), t) /\ (NoEcho(s) => NoEcho(Tail(s)))
    BY <2>1, HeadIsFirst, RunShortened
  <2>3. Remembered(s, f) = Append(Tail(s), f)
    BY <1>2 DEF Remembered
  <2>4. /\ Append(Tail(s), f) \in Seq(Frames)
        /\ Len(Append(Tail(s), f)) = Len(Tail(s)) + 1
        /\ RunTo(Append(Tail(s), f), t + 1)
        /\ NoEcho(Tail(s)) /\ f.kind # "echo" => NoEcho(Append(Tail(s), f))
    BY <2>2, AppendIsLast, RunAppended
  <2>5. Len(Tail(s)) + 1 <= PreRollFrames
    BY <1>1, <1>2, <2>2
  <2> QED
    BY <2>2, <2>3, <2>4, <2>5
<1>3. CASE Len(s) # PreRollFrames
  <2>1. Remembered(s, f) = Append(s, f)
    BY <1>3 DEF Remembered
  <2>2. Len(s) + 1 <= PreRollFrames
    BY <1>1, <1>3
  <2> QED
    BY <2>1, <2>2, AppendIsLast, RunAppended
<1> QED
  BY <1>2, <1>3

\* push_frame
LEMMA FramePushed ==
    ASSUME NEW d \in Detectors, d.silent < SilenceFrames, NEW t \in Int, DetectorAt(d, t),
           NEW f \in Frames, f.at = t + 1
    PROVE  /\ Pushed(d, f) \in Detectors
           /\ DetectorAt(Pushed(d, f), t + 1)
           /\ Complete(Pushed(d, f)) \/ Pushed(d, f).silent < SilenceFrames
           /\ NoEcho(d.buffer) /\ NoEcho(d.preRoll) /\ f.kind # "echo" =>
                 NoEcho(Pushed(d, f).buffer) /\ NoEcho(Pushed(d, f).preRoll)
<1> DEFINE p == Pushed(d, f)
<1>0. /\ d.buffer \in Seq(Frames) /\ d.preRoll \in Seq(Frames)
      /\ d.speaking \in BOOLEAN /\ d.silent \in Nat /\ d.speech \in Nat
      /\ PreRollFrames \in Nat \ {0} /\ SilenceFrames \in Nat \ {0}
      /\ Len(d.preRoll) <= PreRollFrames /\ RunTo(d.buffer, t) /\ RunTo(d.preRoll, t)
      /\ Len(d.buffer) \in Nat /\ Len(d.preRoll) \in Nat
  BY TurnAssumption DEF Detectors, DetectorAt
<1>1. RunTo(<<>>, t + 1) /\ NoEcho(<<>>) /\ <<>> \in Seq(Frames) /\ Len(<<>>) = 0
  <2>1. t + 1 \in Int
    OBVIOUS
  <2> QED
    BY <2>1, NothingRuns
<1>2. CASE Spoken(f) /\ d.speaking
  <2>1. /\ p = [d EXCEPT !.speaking = TRUE, !.silent = 0, !.speech = @ + 1,
                         !.preRoll = @, !.buffer = Append(@, f)]
    BY <1>2 DEF Pushed
  <2>2. /\ p.speaking /\ p.silent = 0 /\ p.preRoll = d.preRoll /\ p.buffer = Append(d.buffer, f)
        /\ p \in Detectors
    <3> DEFINE b == Append(d.buffer, f)
               n == d.speech + 1
    <3>1. b \in Seq(Frames) /\ n \in Nat
      BY <1>0, AppendIsLast
    <3>2. p = [d EXCEPT !.speaking = TRUE, !.silent = 0, !.speech = n,
                        !.preRoll = d.preRoll, !.buffer = b]
      BY <2>1
    <3> HIDE DEF b, n, p
    <3> SUFFICES /\ p.speaking /\ p.silent = 0 /\ p.preRoll = d.preRoll /\ p.buffer = b
                 /\ p \in Detectors
      BY DEF b
    <3> QED
      BY <3>1, <3>2 DEF Detectors
  <2>3. d.preRoll = <<>> /\ StartsSoon(d.buffer)
    BY <1>2 DEF DetectorAt
  <2>4. StartsSoon(Append(d.buffer, f))
    BY <1>0, <2>3, AppendIsLast DEF StartsSoon
  <2> HIDE DEF p
  <2>5. /\ RunTo(p.buffer, t + 1)
        /\ NoEcho(d.buffer) /\ f.kind # "echo" => NoEcho(p.buffer)
    BY <1>0, <2>2, RunAppended
  <2>6. DetectorAt(p, t + 1)
    BY <1>0, <1>1, <2>2, <2>3, <2>4, <2>5 DEF DetectorAt
  <2> QED
    BY <1>0, <2>2, <2>5, <2>6 DEF p
<1>3. CASE Spoken(f) /\ ~d.speaking
  <2>0. d.buffer = <<>>
    BY <1>3 DEF DetectorAt
  <2>1. /\ p = [d EXCEPT !.speaking = TRUE, !.silent = 0, !.speech = @ + 1,
                         !.preRoll = <<>>, !.buffer = Append(@ \o d.preRoll, f)]
    BY <1>3 DEF Pushed
  <2>2. d.buffer \o d.preRoll = d.preRoll
    BY <1>0, <2>0
  <2>3. Append(d.preRoll, f) \in Seq(Frames)
    BY <1>0, AppendIsLast
  <2>4. /\ p.speaking /\ p.silent = 0 /\ p.preRoll = <<>> /\ p.buffer = Append(d.preRoll, f)
        /\ p \in Detectors
    <3> DEFINE b == Append(d.preRoll, f)
               n == d.speech + 1
    <3>1. b \in Seq(Frames) /\ n \in Nat
      BY <1>0, <2>3
    <3>2. p = [d EXCEPT !.speaking = TRUE, !.silent = 0, !.speech = n,
                        !.preRoll = <<>>, !.buffer = b]
      BY <2>1, <2>2
    <3> HIDE DEF b, n, p
    <3> SUFFICES /\ p.speaking /\ p.silent = 0 /\ p.preRoll = <<>> /\ p.buffer = b
                 /\ p \in Detectors
      BY DEF b
    <3> QED
      BY <1>1, <3>1, <3>2 DEF Detectors
  <2>5. StartsSoon(Append(d.preRoll, f))
    <3>1. /\ Len(d.preRoll) + 1 \in 1..Len(Append(d.preRoll, f))
          /\ Append(d.preRoll, f)[Len(d.preRoll) + 1] = f
          /\ Len(d.preRoll) + 1 <= PreRollFrames + 1
      BY <1>0, AppendIsLast
    <3> QED
      BY <1>3, <3>1 DEF StartsSoon
  <2> HIDE DEF p
  <2>6. /\ RunTo(p.buffer, t + 1)
        /\ NoEcho(d.preRoll) /\ f.kind # "echo" => NoEcho(p.buffer)
    BY <1>0, <2>4, RunAppended
  <2>7. DetectorAt(p, t + 1)
    BY <1>0, <1>1, <2>4, <2>5, <2>6 DEF DetectorAt
  <2> QED
    BY <1>0, <1>1, <2>4, <2>6, <2>7 DEF p
<1>4. CASE ~Spoken(f) /\ d.speaking
  <2>1. /\ p = [d EXCEPT !.silent = @ + 1, !.buffer = Append(@, f)]
    BY <1>4 DEF Pushed
  <2>2. /\ p.speaking /\ p.preRoll = d.preRoll /\ p.buffer = Append(d.buffer, f)
        /\ p \in Detectors
    <3> DEFINE b == Append(d.buffer, f)
               n == d.silent + 1
    <3>1. b \in Seq(Frames) /\ n \in Nat
      BY <1>0, AppendIsLast
    <3>2. p = [d EXCEPT !.silent = n, !.buffer = b]
      BY <2>1
    <3> HIDE DEF b, n, p
    <3> SUFFICES /\ p.speaking /\ p.preRoll = d.preRoll /\ p.buffer = b
                 /\ p \in Detectors
      BY DEF b
    <3> QED
      BY <1>4, <3>1, <3>2 DEF Detectors
  <2>3. d.preRoll = <<>> /\ StartsSoon(d.buffer)
    BY <1>4 DEF DetectorAt
  <2>4. StartsSoon(Append(d.buffer, f))
    BY <1>0, <2>3, AppendIsLast DEF StartsSoon
  <2> HIDE DEF p
  <2>5. /\ RunTo(p.buffer, t + 1)
        /\ NoEcho(d.buffer) /\ f.kind # "echo" => NoEcho(p.buffer)
    BY <1>0, <2>2, RunAppended
  <2>6. DetectorAt(p, t + 1)
    BY <1>0, <1>1, <2>2, <2>3, <2>4, <2>5 DEF DetectorAt
  <2>7. Complete(p) \/ p.silent < SilenceFrames
    BY <1>0, <2>2 DEF Complete, Detectors
  <2>8. NoEcho(d.preRoll) => NoEcho(p.preRoll)
    BY <2>2
  <2> QED
    BY <2>2, <2>5, <2>6, <2>7, <2>8 DEF p
<1>5. CASE ~Spoken(f) /\ ~d.speaking
  <2>1. /\ p = [d EXCEPT !.preRoll = Remembered(@, f)]
    BY <1>5 DEF Pushed
  <2>2. /\ Remembered(d.preRoll, f) \in Seq(Frames)
        /\ Len(Remembered(d.preRoll, f)) <= PreRollFrames
        /\ RunTo(Remembered(d.preRoll, f), t + 1)
        /\ NoEcho(d.preRoll) /\ f.kind # "echo" => NoEcho(Remembered(d.preRoll, f))
    BY <1>0, PreRollRemembered
  <2>3. /\ ~p.speaking /\ p.silent = d.silent /\ p.preRoll = Remembered(d.preRoll, f)
        /\ p.buffer = d.buffer /\ p \in Detectors
    BY <1>0, <1>5, <2>1, <2>2 DEF Detectors
  <2>4. d.buffer = <<>>
    BY <1>5 DEF DetectorAt
  <2> HIDE DEF p
  <2>5. DetectorAt(p, t + 1)
    BY <1>1, <2>2, <2>3, <2>4 DEF DetectorAt
  <2> QED
    BY <1>1, <2>2, <2>3, <2>4, <2>5 DEF p
<1> QED
  BY <1>0, <1>2, <1>3, <1>4, <1>5

\* The frames the thread has not taken follow those the detector was given,
\* up to the present; what is transcribed is one piece of them.
DetectorInv ==
    /\ now \in 0..MaxTime
    /\ pcm \in Seq(Frames) /\ utterance \in Seq(Frames)
    /\ detector \in Detectors /\ detector.silent < SilenceFrames
    /\ RunTo(pcm, now)
    /\ DetectorAt(detector, now - Len(pcm))
    /\ UtteranceIsContiguous

LEMMA PieceIsContiguous ==
    ASSUME NEW s \in Seq(Frames), NEW t \in Int, RunTo(s, t), s = <<>> \/ StartsSoon(s),
           utterance' = s
    PROVE  UtteranceIsContiguous'
<1>1. Len(s) \in Nat /\ 1..(0 - 1) = {} /\ Len(<<>>) = 0
  OBVIOUS
<1>2. ASSUME NEW i \in 1..(Len(s) - 1)
      PROVE  s[i + 1].at = s[i].at + 1
  <2>1. i \in 1..Len(s) /\ i + 1 \in 1..Len(s)
    BY <1>1
  <2>2. s[i].at = t - Len(s) + i /\ s[i + 1].at = t - Len(s) + (i + 1)
    BY <2>1 DEF RunTo
  <2> QED
    BY <1>1, <2>2
<1> QED
  BY <1>2 DEF UtteranceIsContiguous, StartsSoon, Spoken

\* What finish emits is all that the detector remembers, or nothing.
LEMMA PieceEmitted ==
    ASSUME NEW d \in Detectors, NEW t \in Int, DetectorAt(d, t)
    PROVE  /\ Emitted(d) \in Seq(Frames) /\ RunTo(Emitted(d), t)
           /\ Emitted(d) = <<>> \/ StartsSoon(Emitted(d))
           /\ NoEcho(d.buffer) => NoEcho(Emitted(d))
<1>1. <<>> \in Seq(Frames) /\ RunTo(<<>>, t) /\ NoEcho(<<>>)
  BY NothingRuns
<1>2. CASE Emitted(d) = <<>>
  BY <1>1, <1>2
<1>3. CASE d.speaking /\ Emitted(d) = d.buffer
  BY <1>3 DEF DetectorAt, Detectors
<1> QED
  BY <1>2, <1>3 DEF Emitted

LEMMA TakeStep ==
    ASSUME DetectorInv, TakeFrame
    PROVE  /\ DetectorInv'
           /\ NoEcho(detector.buffer) /\ NoEcho(detector.preRoll)
              /\ (InputIsSuppressed \/ Head(pcm).kind # "echo") =>
                 /\ NoEcho(detector'.buffer) /\ NoEcho(detector'.preRoll)
                 /\ NoEcho(utterance')
<1> DEFINE t == now - Len(pcm)
           pushed == Pushed(detector, Head(pcm))
<1>1. /\ pcm # <<>> /\ pcm' = Tail(pcm) /\ now' = now
      /\ pcm \in Seq(Frames) /\ detector \in Detectors /\ detector.silent < SilenceFrames
      /\ RunTo(pcm, now) /\ DetectorAt(detector, t)
  BY DEF TakeFrame, DetectorInv
<1>2. now \in Int /\ Len(pcm) \in Nat /\ t \in Int
  BY <1>1 DEF DetectorInv
<1>3. /\ pcm' \in Seq(Frames) /\ Len(pcm') = Len(pcm) - 1 /\ Head(pcm) \in Frames
      /\ RunTo(pcm', now') /\ Head(pcm).at = now - Len(pcm) + 1
  BY <1>1, <1>2, HeadIsFirst, RunShortened
<1>4. now' - Len(pcm') = t + 1 /\ t + 1 \in Int /\ Head(pcm).at = t + 1
  BY <1>1, <1>2, <1>3
<1> HIDE DEF t
<1>5. /\ pushed \in Detectors /\ DetectorAt(pushed, t + 1)
      /\ Complete(pushed) \/ pushed.silent < SilenceFrames
      /\ NoEcho(detector.buffer) /\ NoEcho(detector.preRoll) /\ Head(pcm).kind # "echo" =>
            NoEcho(pushed.buffer) /\ NoEcho(pushed.preRoll)
  BY <1>1, <1>2, <1>3, <1>4, FramePushed
<1> HIDE DEF pushed
<1>6. \/ InputIsSuppressed /\ detector' = Listening /\ utterance' = <<>>
      \/ /\ ~InputIsSuppressed /\ Complete(pushed) /\ detector' = Listening
         /\ utterance' = Emitted(pushed)
      \/ /\ ~InputIsSuppressed /\ ~Complete(pushed) /\ detector' = pushed
         /\ utterance' = <<>>
  BY DEF TakeFrame, Process, Reset, Finished, pushed
<1>7. /\ <<>> \in Seq(Frames) /\ RunTo(<<>>, t + 1) /\ NoEcho(<<>>)
      /\ Listening \in Detectors /\ DetectorAt(Listening, t + 1)
      /\ Listening.silent < SilenceFrames
      /\ NoEcho(Listening.buffer) /\ NoEcho(Listening.preRoll)
  BY <1>4, NothingRuns
<1>8. /\ Emitted(pushed) \in Seq(Frames) /\ RunTo(Emitted(pushed), t + 1)
      /\ Emitted(pushed) = <<>> \/ StartsSoon(Emitted(pushed))
      /\ NoEcho(pushed.buffer) => NoEcho(Emitted(pushed))
  BY <1>4, <1>5, PieceEmitted
<1>9. /\ detector' \in Detectors /\ detector'.silent < SilenceFrames
      /\ DetectorAt(detector', t + 1)
      /\ utterance' \in Seq(Frames) /\ RunTo(utterance', t + 1)
      /\ utterance' = <<>> \/ StartsSoon(utterance')
  BY <1>5, <1>6, <1>7, <1>8
<1>10. UtteranceIsContiguous'
  BY <1>4, <1>9, PieceIsContiguous
<1>11. DetectorInv'
  <2>1. DetectorAt(detector, now - Len(pcm))'
    BY <1>4, <1>9 DEF DetectorAt, RunTo, StartsSoon, Spoken
  <2>2. RunTo(pcm, now)'
    BY <1>3 DEF RunTo
  <2> QED
    BY <1>1, <1>3, <1>9, <1>10, <2>1, <2>2 DEF DetectorInv, Detectors, Frames
<1> QED
  BY <1>5, <1>6, <1>7, <1>8, <1>11

\* A frame arrives.
LEMMA TickStep ==
    ASSUME DetectorInv, Tick
    PROVE  /\ DetectorInv'
           /\ \E f \in Frames : /\ pcm' = Append(pcm, f)
                                /\ f.kind = "echo" => speaker # <<>>
<1>1. PICK kind \in {"quiet", "speech"} \cup (IF speaker = <<>> THEN {} ELSE {"echo"}) :
         pcm' = Append(pcm, [at |-> now + 1, kind |-> kind])
  BY DEF Tick
<1> DEFINE f == [at |-> now + 1, kind |-> kind]
<1>2. now' = now + 1 /\ now < MaxTime /\ UNCHANGED <<detector, utterance>>
  BY DEF Tick
<1>3. now \in Nat /\ MaxTime \in Nat /\ pcm \in Seq(Frames) /\ Len(pcm) \in Nat
      /\ RunTo(pcm, now) /\ DetectorAt(detector, now - Len(pcm))
  BY TurnAssumption DEF DetectorInv
<1>4. f \in Frames /\ f.at = now + 1 /\ (f.kind = "echo" => speaker # <<>>)
  <2>1. now + 1 \in 1..MaxTime
    BY <1>2, <1>3
  <2>2. kind \in {"quiet", "speech", "echo"} /\ (kind = "echo" => speaker # <<>>)
    OBVIOUS
  <2> QED
    BY <2>1, <2>2 DEF Frames
<1>5. pcm' = Append(pcm, f)
  BY <1>1
<1> HIDE DEF f
<1>6. pcm' \in Seq(Frames) /\ Len(pcm') = Len(pcm) + 1 /\ RunTo(pcm', now')
  BY <1>2, <1>3, <1>4, <1>5, AppendIsLast, RunAppended
<1>7. now' - Len(pcm') = now - Len(pcm) /\ now' \in 0..MaxTime
  BY <1>2, <1>3, <1>6
<1>8. DetectorAt(detector, now - Len(pcm))' /\ RunTo(pcm, now)'
  BY <1>2, <1>3, <1>6, <1>7 DEF DetectorAt, RunTo, StartsSoon, Spoken
<1>9. UtteranceIsContiguous'
  BY <1>2 DEF DetectorInv, UtteranceIsContiguous, Spoken
<1> QED
  BY <1>2, <1>4, <1>5, <1>6, <1>7, <1>8, <1>9 DEF DetectorInv, Detectors, Frames

\* The last utterance.
LEMMA FinishStep ==
    ASSUME DetectorInv, FinishInput
    PROVE  /\ DetectorInv'
           /\ NoEcho(detector.buffer) /\ NoEcho(utterance) =>
                 /\ NoEcho(detector'.buffer) /\ NoEcho(detector'.preRoll)
                 /\ NoEcho(utterance')
<1> DEFINE t == now - Len(pcm)
<1>1. /\ detector' = Listening /\ UNCHANGED <<now, pcm>>
      /\ utterance' = Emitted(detector) \/ utterance' = utterance
  BY DEF FinishInput, Finished, Process
<1>2. t \in Int /\ detector \in Detectors /\ DetectorAt(detector, t)
  BY DEF DetectorInv
<1> HIDE DEF t
<1>3. /\ Listening \in Detectors /\ DetectorAt(Listening, t)
      /\ Listening.silent < SilenceFrames
      /\ NoEcho(Listening.buffer) /\ NoEcho(Listening.preRoll)
  BY <1>2, NothingRuns
<1>4. /\ Emitted(detector) \in Seq(Frames) /\ RunTo(Emitted(detector), t)
      /\ Emitted(detector) = <<>> \/ StartsSoon(Emitted(detector))
      /\ NoEcho(detector.buffer) => NoEcho(Emitted(detector))
  BY <1>2, PieceEmitted
<1>5. UtteranceIsContiguous'
  <2>1. CASE utterance' = Emitted(detector)
    BY <1>2, <1>4, <2>1, PieceIsContiguous
  <2>2. CASE utterance' = utterance
    BY <2>2 DEF DetectorInv, UtteranceIsContiguous, Spoken
  <2> QED
    BY <1>1, <2>1, <2>2
<1>6. DetectorAt(detector, now - Len(pcm))' /\ RunTo(pcm, now)'
  BY <1>1, <1>3 DEF DetectorAt, RunTo, StartsSoon, Spoken, DetectorInv, t
<1>7. DetectorInv'
  BY <1>1, <1>3, <1>4, <1>5, <1>6 DEF DetectorInv, Detectors, Frames
<1> QED
  BY <1>1, <1>3, <1>4, <1>7

LEMMA DetectorStep ==
    ASSUME DetectorInv, [Next]_vars
    PROVE  DetectorInv'
<1>1. CASE GiveUpTurn \/ HearWords
  <2>1. utterance' = <<>> /\ UNCHANGED <<now, pcm, detector>>
    BY <1>1 DEF GiveUpTurn, HearWords
  <2>2. <<>> \in Seq(Frames) /\ Len(<<>>) = 0 /\ 1..(0 - 1) = {}
    OBVIOUS
  <2>3. UtteranceIsContiguous'
    BY <2>1, <2>2 DEF UtteranceIsContiguous
  <2>4. DetectorAt(detector, now - Len(pcm))' /\ RunTo(pcm, now)'
    BY <2>1 DEF DetectorAt, RunTo, StartsSoon, Spoken, DetectorInv
  <2> QED
    BY <2>1, <2>2, <2>3, <2>4 DEF DetectorInv, Detectors, Frames
<1>2. CASE UNCHANGED <<now, pcm, detector, utterance>>
  <2>1. DetectorAt(detector, now - Len(pcm))' /\ RunTo(pcm, now)'
    BY <1>2 DEF DetectorAt, RunTo, StartsSoon, Spoken, DetectorInv
  <2>2. UtteranceIsContiguous'
    BY <1>2 DEF DetectorInv, UtteranceIsContiguous, Spoken
  <2> QED
    BY <1>2, <2>1, <2>2 DEF DetectorInv, Detectors, Frames
<1>3. \/ UNCHANGED <<now, pcm, detector, utterance>>
      \/ TakeFrame \/ FinishInput \/ GiveUpTurn \/ HearWords \/ Tick
  BY DEF Next, vars, input, ThreadStep, NoteWords, NoteHangUp, Reply, SpeechStep, AskSegment,
         WriteLine, SegmentQueued, SpeechFails, NoteSpeech, SpeakDropped, PromptOutdated, SpeakPrompt, SpeakText,
         SendBye, CallEnds, WorkerStep
<1> QED
  BY <1>1, <1>2, <1>3, TakeStep, FinishStep, TickStep

LEMMA DetectorInvariance == Spec => []DetectorInv
<1>1. Init => DetectorInv
  <2> SUFFICES ASSUME Init
               PROVE  DetectorInv
    OBVIOUS
  <2>1. /\ now = 0 /\ pcm = <<>> /\ detector = Listening /\ utterance = <<>>
        /\ Len(pcm) = 0 /\ 0 - 0 = 0 /\ 1..(0 - 1) = {} /\ 0 \in 0..MaxTime
    BY TurnAssumption DEF Init
  <2>2. /\ RunTo(<<>>, 0) /\ Listening \in Detectors /\ DetectorAt(Listening, 0)
        /\ Listening.silent < SilenceFrames /\ <<>> \in Seq(Frames)
    BY NothingRuns
  <2>3. UtteranceIsContiguous
    BY <2>1 DEF UtteranceIsContiguous
  <2> QED
    BY <2>1, <2>2, <2>3 DEF DetectorInv
<1>2. DetectorInv /\ [Next]_vars => DetectorInv'
  BY DetectorStep
<1> QED
  BY <1>1, <1>2, PTL DEF Spec

-----------------------------------------------------------------------------
(* The types.                                                              *)

\* The part of TypeOK that is about the activity and the end of the call.
ActivityTyped ==
    /\ thread \in {"listen", "stt", "noting", "llm", "tts", "done"}
    /\ suppressedUntil \in Nat \cup {Never}
    /\ generation \in Nat
    /\ said \in Nat
    /\ sleeping \subseteq [at : Nat, gen : Nat, said : Nat]
    /\ endRequested \in BOOLEAN
    /\ byeAt \in Nat \cup {Never}
    /\ call \in {"active", "ended"}
    /\ speaks \in 0..MaxSpeaks
    /\ exposed \in BOOLEAN

\* What the note of a text changes.
LEMMA NoteTyped ==
    ASSUME ActivityTyped, PipelineInv, now \in Nat, NEW c \in Clients, NoteSpeech(c)
    PROVE  ActivityTyped'
<1>1. IdleAfter \in Nat /\ EndBuffer \in Nat /\ speech[c].units \in Nat
  BY TurnAssumption DEF PipelineInv
<1>2. /\ thread' \in {"listen", thread} /\ generation' = generation + 1
      /\ UNCHANGED <<suppressedUntil, said, call, speaks, exposed>>
  BY DEF NoteSpeech
<1>3. sleeping' \subseteq [at : Nat, gen : Nat, said : Nat]
  <2>1. IdlePrompt(speech[c].units) \in [at : Nat, gen : Nat, said : Nat]
    BY <1>1 DEF IdlePrompt, ActivityTyped
  <2> QED
    BY <2>1 DEF NoteSpeech, ActivityTyped
<1>4. endRequested' \in BOOLEAN
  BY DEF NoteSpeech, ScheduleEnd, ActivityTyped
<1>5. byeAt' \in Nat \cup {Never}
  BY <1>1 DEF NoteSpeech, ScheduleEnd, ActivityTyped
<1> QED
  BY <1>2, <1>3, <1>4, <1>5 DEF ActivityTyped

LEMMA ActivityStep ==
    ASSUME ActivityTyped, PipelineInv, now \in Nat, [Next]_vars
    PROVE  ActivityTyped'
<1>1. CASE UNCHANGED vars \/ WorkerStep \/ Tick
  BY <1>1 DEF vars, activity, ending, input, WorkerStep, Tick, ActivityTyped
<1>2. CASE TakeFrame \/ FinishInput \/ GiveUpTurn
  BY <1>2 DEF TakeFrame, FinishInput, GiveUpTurn, Process, activity, ending, ActivityTyped
<1>3. CASE HearWords \/ NoteWords \/ NoteHangUp
  <2>1. /\ said' \in {said, said + 1} /\ generation' \in {generation, generation + 1}
        /\ thread' \in {"noting", "llm", "tts"}
        /\ UNCHANGED <<suppressedUntil, sleeping, endRequested, byeAt, call, speaks, exposed>>
    BY <1>3 DEF HearWords, NoteWords, NoteHangUp, CallerNoted, ending
  <2> QED
    BY <2>1 DEF ActivityTyped
<1>4. CASE \E text \in {"reply", "farewell"}, n \in 1..MaxSegments : Reply(text, n)
  BY <1>4 DEF Reply, activity, ending, ActivityTyped
<1>5. ASSUME NEW c \in Clients, AskSegment(c) \/ WriteLine(c)
      PROVE  ActivityTyped'
  BY <1>5 DEF AskSegment, WriteLine, activity, ending, input, ActivityTyped
<1>6. ASSUME NEW c \in Clients, SegmentQueued(c)
      PROVE  ActivityTyped'
  <2>1. exposed' = (exposed \/ Exposing(c)) /\ UNCHANGED <<input, ending, speaks>>
    BY <1>6 DEF SegmentQueued
  <2>2. exposed' \in BOOLEAN
    BY <2>1
  <2>3. said' \in Nat /\ UNCHANGED <<generation, sleeping>>
    BY <1>6 DEF SegmentQueued, AllQueued, activity, ActivityTyped
  <2>4. suppressedUntil' \in Nat \cup {Never}
    <3>1. speech[c].units \in Nat /\ Post \in Nat
      BY TurnAssumption DEF PipelineInv
    <3>2. suppressedUntil' \in {suppressedUntil, now + (speech[c].units + 1) + Post}
      BY <1>6 DEF SegmentQueued, AllQueued, SuppressInputFor, activity
    <3>3. now + (speech[c].units + 1) + Post \in Nat
      BY <3>1
    <3> QED
      BY <3>2, <3>3 DEF ActivityTyped
  <2> QED
    BY <2>1, <2>2, <2>3, <2>4 DEF input, ending, ActivityTyped
<1>7. ASSUME NEW c \in Clients, SpeechFails(c)
      PROVE  ActivityTyped'
  <2>1. exposed' \in BOOLEAN
    BY <1>7 DEF SpeechFails
  <2>2. thread' \in {"listen", thread} /\ UNCHANGED <<activity, ending, speaks>>
    BY <1>7 DEF SpeechFails
  <2> QED
    BY <2>1, <2>2 DEF activity, ending, ActivityTyped
<1>8. CASE SpeakDropped
  <2>1. exposed' \in BOOLEAN
    BY <1>8 DEF SpeakDropped
  <2>2. UNCHANGED <<thread, activity, ending, speaks>>
    BY <1>8 DEF SpeakDropped, input
  <2> QED
    BY <2>1, <2>2 DEF activity, ending, ActivityTyped
<1>9. ASSUME NEW p \in sleeping, PromptOutdated(p) \/ SpeakPrompt(p)
      PROVE  ActivityTyped'
  <2>1. /\ sleeping' = sleeping \ {p}
        /\ UNCHANGED <<thread, suppressedUntil, generation, said, ending, speaks, exposed>>
    BY <1>9 DEF PromptOutdated, SpeakPrompt, input
  <2> QED
    BY <2>1 DEF ending, ActivityTyped
<1>10. CASE \E n \in 1..SpeakSegments : SpeakText(n)
  <2>1. /\ speaks < MaxSpeaks /\ speaks' = speaks + 1
        /\ UNCHANGED <<thread, activity, ending, exposed>>
    BY <1>10 DEF SpeakText, input
  <2>2. speaks' \in 0..MaxSpeaks
    BY <2>1, TurnAssumption DEF ActivityTyped
  <2> QED
    BY <2>1, <2>2 DEF activity, ending, ActivityTyped
<1>11. CASE SendBye \/ CallEnds
  <2>1. /\ call' = "ended" /\ byeAt' \in {byeAt, Never}
        /\ UNCHANGED <<thread, activity, endRequested, speaks, exposed>>
    BY <1>11 DEF SendBye, CallEnds, input
  <2> QED
    BY <2>1 DEF activity, ActivityTyped
<1> QED
  BY <1>1, <1>2, <1>3, <1>4, <1>5, <1>6, <1>7, <1>8, <1>9, <1>10, <1>11, NoteTyped
  DEF Next, ThreadStep, SpeechStep

\* The types of everything.
TypeInv == PipelineInv /\ DetectorInv /\ ActivityTyped

LEMMA TypeInvariance == Spec => []TypeInv
<1>1. Init => ActivityTyped
  <2>1. 0 \in 0..MaxSpeaks /\ 0 \in Nat /\ {} \subseteq [at : Nat, gen : Nat, said : Nat]
    BY TurnAssumption
  <2> QED
    BY <2>1 DEF Init, ActivityTyped
<1>2. PipelineInv /\ DetectorInv /\ ActivityTyped /\ [Next]_vars => ActivityTyped'
  BY ActivityStep DEF DetectorInv
<1> QED
  BY <1>1, <1>2, PipelineInvariance, DetectorInvariance, PTL DEF Spec, TypeInv

-----------------------------------------------------------------------------
(* The speaker's queue.                                                    *)

\* The thread synthesizes the turn's text, and only the turn says farewell.
ThreadInv ==
    /\ thread = "tts" <=> speech["turn"].text # "none"
    /\ \A c \in Clients :
          /\ speech[c].text = "farewell" => c = "turn"
          /\ speech[c].text = "none" => speech[c].left = 0
          /\ Unnoted(c) => speech[c].units > 0
    /\ byeAt # Never => endRequested

\* The answer of the turn has begun to play.
Answering == thread = "tts" /\ speech["turn"].units > 0

\* How a text is begun, and given up or finished.
LEMMA TextBegun ==
    ASSUME PipelineInv, NEW c \in Clients, NEW text, NEW n, Speak(c, text, n)
    PROVE  /\ speech'[c].text = text /\ speech'[c].left = n /\ speech'[c].units = 0
           /\ \A d \in Clients : d # c => speech'[d] = speech[d]
BY DEF PipelineInv, Speak

LEMMA TextOver ==
    ASSUME PipelineInv, NEW c \in Clients, speech' = [speech EXCEPT ![c] = Silent]
    PROVE  /\ speech'[c].text = "none" /\ speech'[c].left = 0 /\ speech'[c].units = 0
           /\ \A d \in Clients : d # c => speech'[d] = speech[d]
BY DEF PipelineInv, Silent

\* A segment that is the last of its text, or not.
LEMMA SegmentSplits ==
    ASSUME PipelineInv, NEW c \in Clients, SegmentQueued(c)
    PROVE  /\ call = "active" /\ speech[c].left > 0 /\ speech[c].units \in Nat
           /\ UNCHANGED <<now, pcm, detector, utterance, thread, endRequested, byeAt, call>>
           /\ exposed' = (exposed \/ Exposing(c))
           /\ \A d \in Clients : d # c => speech'[d] = speech[d]
           /\ speech'[c].text = speech[c].text
           /\ speech'[c].left = speech[c].left - 1
           /\ speech'[c].units = speech[c].units + 1
           /\ UNCHANGED <<generation, sleeping>>
           /\ \/ speech[c].left = 1 /\ AllQueued(speech[c].units + 1)
              \/ speech[c].left > 1 /\ UNCHANGED activity
<1>1. /\ call = "active" /\ speech[c].left > 0
      /\ speech[c].left \in 0..MaxSegments /\ speech[c].units \in Nat
      /\ UNCHANGED <<now, pcm, detector, utterance, thread, endRequested, byeAt, call>>
      /\ exposed' = (exposed \/ Exposing(c))
  BY DEF SegmentQueued, PipelineInv, input, ending
<1>2. /\ \A d \in Clients : d # c => speech'[d] = speech[d]
      /\ speech'[c].text = speech[c].text
      /\ speech'[c].left = speech[c].left - 1
      /\ speech'[c].units = speech[c].units + 1
  <2>1. speech' = [speech EXCEPT ![c].left = @ - 1, ![c].units = @ + 1]
    BY DEF SegmentQueued
  <2> QED
    BY <2>1 DEF PipelineInv
<1>3. UNCHANGED <<generation, sleeping>>
  BY DEF SegmentQueued, AllQueued, activity
<1>4. \/ speech[c].left = 1 /\ AllQueued(speech[c].units + 1)
      \/ speech[c].left > 1 /\ UNCHANGED activity
  <2>1. speech[c].left = 1 \/ speech[c].left > 1
    BY <1>1, TurnAssumption
  <2> QED
    BY <2>1 DEF SegmentQueued
<1> QED
  BY <1>1, <1>2, <1>3, <1>4

LEMMA ThreadInvStep ==
    ASSUME TypeInv, ThreadInv, [Next]_vars
    PROVE  ThreadInv'
<1>0. /\ "turn" \in Clients /\ "prompt" \in Clients /\ "speak" \in Clients
      /\ PipelineInv /\ MaxSegments \in Nat \ {0}
  BY TurnAssumption DEF TypeInv
<1>1. CASE /\ UNCHANGED <<speech, endRequested>> /\ byeAt' \in {byeAt, Never}
           /\ thread' = "tts" <=> thread = "tts"
  BY <1>1 DEF ThreadInv, Unnoted
<1>2. CASE NoteHangUp \/ \E text \in {"reply", "farewell"}, n \in 1..MaxSegments : Reply(text, n)
  <2>1. PICK text \in {"reply", "farewell"}, n \in 1..MaxSegments :
           /\ Speak("turn", text, n) /\ thread' = "tts" /\ UNCHANGED ending
    BY <1>0, <1>2 DEF NoteHangUp, Reply
  <2>2. /\ speech'["turn"].text = text /\ speech'["turn"].left = n
        /\ \A d \in Clients : d # "turn" => speech'[d] = speech[d]
    BY <1>0, <2>1, TextBegun
  <2> QED
    BY <2>1, <2>2 DEF ThreadInv, Unnoted, ending
<1>3. ASSUME NEW c \in Clients, SegmentQueued(c)
      PROVE  ThreadInv'
  <2>1. /\ speech[c].left > 0 /\ speech[c].units \in Nat
        /\ UNCHANGED <<thread, endRequested, byeAt>>
        /\ \A d \in Clients : d # c => speech'[d] = speech[d]
        /\ speech'[c].text = speech[c].text
        /\ speech'[c].units = speech[c].units + 1
    BY <1>0, <1>3, SegmentSplits
  <2>2. speech[c].text # "none"
    BY <2>1 DEF ThreadInv
  <2>3. speech'[c].units > 0
    BY <2>1
  <2>4. thread' = "tts" <=> speech'["turn"].text # "none"
    BY <1>0, <2>1 DEF ThreadInv
  <2>5. ASSUME NEW d \in Clients
        PROVE  /\ speech'[d].text = "farewell" => d = "turn"
               /\ speech'[d].text = "none" => speech'[d].left = 0
               /\ Unnoted(d)' => speech'[d].units > 0
    BY <2>1, <2>2, <2>3 DEF ThreadInv, Unnoted
  <2> QED
    BY <2>1, <2>4, <2>5 DEF ThreadInv
<1>4. ASSUME NEW c \in Clients,
             SpeechFails(c) \/ NoteSpeech(c) \/ (SpeakDropped /\ c = "speak")
      PROVE  ThreadInv'
  <2>1. /\ speech' = [speech EXCEPT ![c] = Silent]
        /\ thread' = IF c = "turn" THEN "listen" ELSE thread
    BY <1>4 DEF SpeechFails, NoteSpeech, SpeakDropped, input
  <2>2. /\ speech'[c].text = "none" /\ speech'[c].left = 0
        /\ \A d \in Clients : d # c => speech'[d] = speech[d]
    BY <1>0, <2>1, TextOver
  <2>3. byeAt' # Never => endRequested'
    BY <1>4 DEF SpeechFails, NoteSpeech, SpeakDropped, ScheduleEnd, ending, ThreadInv
  <2>4. thread' = "tts" <=> speech'["turn"].text # "none"
    BY <1>0, <2>1, <2>2 DEF ThreadInv
  <2> QED
    BY <2>2, <2>3, <2>4 DEF ThreadInv, Unnoted
<1>5. CASE (\E p \in sleeping : SpeakPrompt(p)) \/ (\E n \in 1..SpeakSegments : SpeakText(n))
  <2>1. PICK c \in {"prompt", "speak"}, n \in Nat \ {0} :
           /\ Speak(c, c, n) /\ UNCHANGED <<thread, endRequested, byeAt>>
    BY <1>5, TurnAssumption DEF SpeakPrompt, SpeakText, ending, input
  <2>2. /\ speech'[c].text = c /\ speech'[c].left = n
        /\ \A d \in Clients : d # c => speech'[d] = speech[d]
    BY <1>0, <2>1, TextBegun
  <2> QED
    BY <1>0, <2>1, <2>2 DEF ThreadInv, Unnoted
<1>6. \/ /\ UNCHANGED <<speech, endRequested>> /\ byeAt' \in {byeAt, Never}
         /\ thread' = "tts" <=> thread = "tts"
      \/ NoteHangUp
      \/ \E text \in {"reply", "farewell"}, n \in 1..MaxSegments : Reply(text, n)
      \/ \E c \in Clients : SegmentQueued(c) \/ SpeechFails(c) \/ NoteSpeech(c)
      \/ SpeakDropped
      \/ \E p \in sleeping : SpeakPrompt(p)
      \/ \E n \in 1..SpeakSegments : SpeakText(n)
  BY DEF Next, vars, input, ending, ThreadStep, TakeFrame, FinishInput, Process, GiveUpTurn,
         HearWords, NoteWords, SpeechStep, AskSegment, WriteLine, PromptOutdated, SendBye,
         CallEnds, WorkerStep, Tick
<1> QED
  BY <1>0, <1>1, <1>2, <1>3, <1>4, <1>5, <1>6

LEMMA ThreadInvariance == Spec => []ThreadInv
<1>1. Init => ThreadInv
  <2> SUFFICES ASSUME Init
               PROVE  ThreadInv
    OBVIOUS
  <2>1. /\ thread = "listen" /\ byeAt = Never
        /\ \A c \in Clients : speech[c].text = "none" /\ speech[c].left = 0
    BY DEF Init, Silent
  <2>2. "turn" \in Clients
    BY TurnAssumption
  <2> QED
    BY <2>1, <2>2 DEF ThreadInv, Unnoted
<1>2. TypeInv /\ ThreadInv /\ [Next]_vars => ThreadInv'
  BY ThreadInvStep
<1> QED
  BY <1>1, <1>2, TypeInvariance, PTL DEF Spec

\* Unless speech was exposed, nothing but the answer's own units is queued
\* while it plays, and a scheduled BYE waits for the farewell.
QueueInv ==
    ~exposed =>
       /\ Answering => Len(speaker) <= speech["turn"].units
       /\ \A c \in Clients : c # "turn" /\ speech[c].left > 0 => speech[c].units = 0
       /\ byeAt # Never =>
             \A i \in 1..Len(speaker) : speaker[i].closing => now + i <= byeAt

\* What an unexposed segment finds.
LEMMA SegmentUnexposed ==
    ASSUME TypeInv, ThreadInv, QueueInv, NEW c \in Clients, SegmentQueued(c), ~exposed'
    PROVE  /\ ~exposed
           /\ Len(speaker) <= speech[c].units
           /\ Len(speaker') = Len(speaker) + 1
           /\ \A i \in 1..Len(speaker) : speaker'[i] = speaker[i]
           /\ speaker'[Len(speaker) + 1].closing => c = "turn" /\ ~endRequested
           /\ c # "turn" => /\ thread = "listen" /\ pcm = <<>> /\ speech[c].left = 1
                            /\ speech[c].units = 0
<1>0. /\ "turn" \in Clients /\ PipelineInv /\ exposed \in BOOLEAN
      /\ speaker \in Seq([own : BOOLEAN, closing : BOOLEAN]) /\ Len(speaker) \in Nat
  BY TurnAssumption DEF TypeInv, PipelineInv, ActivityTyped
<1>1. ~exposed /\ ~Exposing(c)
  BY SegmentSplits, <1>0
<1>2. speech[c].left > 0 /\ speech[c].left \in 0..MaxSegments /\ speech[c].units \in Nat
  BY <1>0 DEF SegmentQueued, PipelineInv
<1>3. c # "turn" => thread = "listen" /\ pcm = <<>> /\ speech[c].left = 1 /\ speech[c].units = 0
  <2> HAVE c # "turn"
  <2>1. thread = "listen" /\ pcm = <<>> /\ ~(speech[c].left > 1)
    BY <1>1 DEF Exposing
  <2>2. speech[c].left = 1
    BY <1>2, <2>1, TurnAssumption
  <2>3. speech[c].units = 0
    BY <1>1, <1>2 DEF QueueInv
  <2> QED
    BY <2>1, <2>2, <2>3
<1>4. Len(speaker) <= speech[c].units
  <2>1. CASE speech[c].units = 0
    <3>1. speaker = <<>>
      BY <1>1, <2>1 DEF Exposing
    <3> QED
      BY <2>1, <3>1
  <2>2. CASE speech[c].units # 0
    <3>1. c = "turn"
      BY <1>3, <2>2
    <3>2. Answering
      BY <1>2, <2>2, <3>1 DEF Answering, ThreadInv
    <3> QED
      BY <1>1, <3>1, <3>2 DEF QueueInv
  <2> QED
    BY <2>1, <2>2
<1>5. /\ Len(speaker') = Len(speaker) + 1
      /\ \A i \in 1..Len(speaker) : speaker'[i] = speaker[i]
      /\ speaker'[Len(speaker) + 1].closing => speech[c].text = "farewell" /\ ~endRequested
  <2> DEFINE u == [own |-> Head(stdout) = Request(c),
                   closing |-> speech[c].text = "farewell" /\ ~endRequested]
  <2>1. speaker' = Append(speaker, u)
    BY DEF SegmentQueued
  <2>2. u \in [own : BOOLEAN, closing : BOOLEAN]
    OBVIOUS
  <2>3. u.closing => speech[c].text = "farewell" /\ ~endRequested
    OBVIOUS
  <2> HIDE DEF u
  <2> QED
    BY <1>0, <2>1, <2>2, <2>3, AppendIsLast
<1> QED
  BY <1>1, <1>3, <1>4, <1>5 DEF ThreadInv

LEMMA QueueInvStep ==
    ASSUME TypeInv, ThreadInv, QueueInv, [Next]_vars
    PROVE  QueueInv'
<1>0. /\ "turn" \in Clients /\ "prompt" \in Clients /\ "speak" \in Clients
      /\ PipelineInv /\ now \in Nat /\ exposed \in BOOLEAN /\ byeAt \in Nat \cup {Never}
      /\ Len(speaker) \in Nat /\ speech["turn"].units \in Nat
      /\ EndBuffer \in Nat /\ Never \notin Nat
  BY TurnAssumption DEF TypeInv, PipelineInv, ActivityTyped, DetectorInv, Never
<1>1. CASE /\ UNCHANGED <<now, speaker, speech, exposed>>
           /\ byeAt' \in {byeAt, Never}
           /\ thread' = "tts" <=> thread = "tts"
  BY <1>1 DEF QueueInv, Answering
<1>2. CASE NoteHangUp \/ \E text \in {"reply", "farewell"}, n \in 1..MaxSegments : Reply(text, n)
  <2>1. PICK text, n : /\ Speak("turn", text, n)
                       /\ UNCHANGED <<now, speaker, byeAt, exposed>>
    BY <1>2 DEF NoteHangUp, Reply, ending
  <2>2. /\ speech'["turn"].units = 0
        /\ \A d \in Clients : d # "turn" => speech'[d] = speech[d]
    BY <1>0, <2>1, TextBegun
  <2> QED
    BY <2>1, <2>2 DEF QueueInv, Answering
<1>3. ASSUME NEW c \in Clients, SegmentQueued(c)
      PROVE  QueueInv'
  <2> SUFFICES ASSUME ~exposed'
               PROVE  /\ Answering' => Len(speaker') <= speech'["turn"].units
                      /\ \A d \in Clients :
                            d # "turn" /\ speech'[d].left > 0 => speech'[d].units = 0
                      /\ byeAt' # Never =>
                            \A i \in 1..Len(speaker') :
                               speaker'[i].closing => now' + i <= byeAt'
    BY DEF QueueInv, Never
  <2>1. /\ ~exposed /\ Len(speaker) <= speech[c].units
        /\ Len(speaker') = Len(speaker) + 1
        /\ \A i \in 1..Len(speaker) : speaker'[i] = speaker[i]
        /\ speaker'[Len(speaker) + 1].closing => c = "turn" /\ ~endRequested
        /\ c # "turn" => thread = "listen" /\ speech[c].left = 1
    BY <1>3, SegmentUnexposed
  <2>2. /\ UNCHANGED <<now, thread, byeAt>> /\ speech[c].units \in Nat
        /\ \A d \in Clients : d # c => speech'[d] = speech[d]
        /\ speech'[c].left = speech[c].left - 1
        /\ speech'[c].units = speech[c].units + 1
    BY <1>0, <1>3, SegmentSplits
  <2>3. \A d \in Clients : d # "turn" /\ speech'[d].left > 0 => speech'[d].units = 0
    <3>1. c # "turn" => speech'[c].left = 0
      BY <2>1, <2>2
    <3> QED
      BY <2>1, <2>2, <3>1 DEF QueueInv
  <2>4. Answering' => Len(speaker') <= speech'["turn"].units
    <3>1. CASE c = "turn"
      BY <1>0, <2>1, <2>2, <3>1
    <3>2. CASE c # "turn"
      BY <2>1, <2>2, <3>2 DEF Answering
    <3> QED
      BY <3>1, <3>2
  <2>5. ASSUME byeAt' # Never, NEW i \in 1..Len(speaker'), speaker'[i].closing
        PROVE  now + i <= byeAt'
    <3>1. endRequested
      BY <2>2, <2>5 DEF ThreadInv
    <3>2. i \in 1..Len(speaker) /\ speaker[i].closing
      BY <1>0, <2>1, <2>5, <3>1
    <3> QED
      BY <2>1, <2>2, <2>5, <3>2 DEF QueueInv
  <2> QED
    BY <2>2, <2>3, <2>4, <2>5
<1>4. ASSUME NEW c \in Clients, SpeechFails(c) \/ (SpeakDropped /\ c = "speak")
      PROVE  QueueInv'
  <2>1. /\ speech' = [speech EXCEPT ![c] = Silent] /\ UNCHANGED <<now, speaker, byeAt>>
        /\ thread' = IF c = "turn" THEN "listen" ELSE thread
    BY <1>4 DEF SpeechFails, SpeakDropped, ending, input
  <2>2. ~exposed' => ~exposed
    BY <1>4 DEF SpeechFails, SpeakDropped
  <2>3. /\ speech'[c].units = 0
        /\ \A d \in Clients : d # c => speech'[d] = speech[d]
    BY <1>0, <2>1, TextOver
  <2> QED
    BY <1>0, <2>1, <2>2, <2>3 DEF QueueInv, Answering
<1>5. ASSUME NEW c \in Clients, NoteSpeech(c)
      PROVE  QueueInv'
  <2> SUFFICES ASSUME ~exposed
               PROVE  QueueInv'
    BY <1>5 DEF QueueInv, NoteSpeech
  <2>1. /\ speech' = [speech EXCEPT ![c] = Silent] /\ UNCHANGED <<now, speaker, exposed>>
        /\ thread' = IF c = "turn" THEN "listen" ELSE thread
        /\ \/ UNCHANGED byeAt
           \/ /\ speech[c].text = "farewell"
              /\ byeAt' = now + speech[c].units + EndBuffer
    BY <1>5 DEF NoteSpeech, ScheduleEnd
  <2>2. /\ speech'[c].left = 0
        /\ \A d \in Clients : d # c => speech'[d] = speech[d]
    BY <1>0, <2>1, TextOver
  <2>3. Answering' => Len(speaker') <= speech'["turn"].units
    BY <1>0, <2>1, <2>2 DEF QueueInv, Answering
  <2>4. \A d \in Clients : d # "turn" /\ speech'[d].left > 0 => speech'[d].units = 0
    BY <2>2 DEF QueueInv
  <2>5. ASSUME byeAt' # Never, NEW i \in 1..Len(speaker), speaker[i].closing
        PROVE  now + i <= byeAt'
    <3>1. CASE byeAt' = byeAt
      BY <2>5, <3>1 DEF QueueInv
    <3>2. CASE byeAt' # byeAt
      <4>1. c = "turn" /\ speech[c].text = "farewell"
        BY <2>1, <3>2 DEF ThreadInv
      <4>2. Answering
        BY <1>5, <4>1 DEF NoteSpeech, Answering, ThreadInv
      <4>3. Len(speaker) <= speech[c].units /\ byeAt' = now + speech[c].units + EndBuffer
        BY <2>1, <3>2, <4>1, <4>2 DEF QueueInv
      <4> QED
        BY <1>0, <2>5, <4>1, <4>3
    <3> QED
      BY <3>1, <3>2
  <2> QED
    BY <2>1, <2>3, <2>4, <2>5 DEF QueueInv
<1>6. CASE (\E p \in sleeping : SpeakPrompt(p)) \/ (\E n \in 1..SpeakSegments : SpeakText(n))
  <2>1. PICK c \in {"prompt", "speak"}, n \in Nat :
           /\ Speak(c, c, n) /\ UNCHANGED <<now, speaker, thread, byeAt, exposed>>
    BY <1>6, TurnAssumption DEF SpeakPrompt, SpeakText, ending, input
  <2>2. /\ speech'[c].units = 0
        /\ \A d \in Clients : d # c => speech'[d] = speech[d]
    BY <1>0, <2>1, TextBegun
  <2> QED
    BY <1>0, <2>1, <2>2 DEF QueueInv, Answering
<1>7. CASE Tick
  <2>1. /\ now' = now + 1 /\ UNCHANGED <<speech, thread, byeAt, exposed>>
        /\ speaker' = IF speaker = <<>> THEN <<>> ELSE Tail(speaker)
    BY <1>7 DEF Tick, ending
  <2>2. CASE speaker = <<>>
    <3>1. speaker' = <<>> /\ Len(speaker') = 0 /\ 1..0 = {} /\ Len(speaker) = 0
      BY <2>1, <2>2
    <3> QED
      BY <2>1, <3>1 DEF QueueInv, Answering
  <2>3. CASE speaker # <<>>
    <3>1. /\ Len(speaker') = Len(speaker) - 1
          /\ \A i \in 1..(Len(speaker) - 1) : speaker'[i] = speaker[i + 1]
      <4>1. speaker \in Seq([own : BOOLEAN, closing : BOOLEAN])
        BY <1>0 DEF PipelineInv
      <4> QED
        BY <2>1, <2>3, <4>1, HeadIsFirst
    <3>2. ASSUME ~exposed, byeAt # Never, NEW i \in 1..Len(speaker'), speaker'[i].closing
          PROVE  now + 1 + i <= byeAt
      <4>1. i + 1 \in 1..Len(speaker) /\ speaker[i + 1].closing
        BY <1>0, <3>1, <3>2
      <4>2. now + (i + 1) <= byeAt
        BY <3>2, <4>1 DEF QueueInv
      <4> QED
        BY <1>0, <3>2, <4>2
    <3>3. ASSUME ~exposed, Answering
          PROVE  Len(speaker') <= speech["turn"].units
      <4>1. Len(speaker) <= speech["turn"].units
        BY <3>3 DEF QueueInv
      <4> QED
        BY <1>0, <3>1, <4>1
    <3>4. Answering' <=> Answering
      BY <2>1 DEF Answering
    <3> QED
      BY <2>1, <3>2, <3>3, <3>4 DEF QueueInv
  <2> QED
    BY <2>2, <2>3
<1>8. \/ /\ UNCHANGED <<now, speaker, speech, exposed>> /\ byeAt' \in {byeAt, Never}
         /\ thread' = "tts" <=> thread = "tts"
      \/ NoteHangUp
      \/ \E text \in {"reply", "farewell"}, n \in 1..MaxSegments : Reply(text, n)
      \/ \E c \in Clients : SegmentQueued(c) \/ SpeechFails(c) \/ NoteSpeech(c)
      \/ SpeakDropped
      \/ \E p \in sleeping : SpeakPrompt(p)
      \/ \E n \in 1..SpeakSegments : SpeakText(n)
      \/ Tick
  BY DEF Next, vars, input, ending, ThreadStep, TakeFrame, FinishInput, Process, GiveUpTurn,
         HearWords, NoteWords, SpeechStep, AskSegment, WriteLine, PromptOutdated, SendBye,
         CallEnds, WorkerStep
<1> QED
  BY <1>0, <1>1, <1>2, <1>3, <1>4, <1>5, <1>6, <1>7, <1>8

LEMMA QueueInvariance == Spec => []QueueInv
<1>1. Init => QueueInv
  BY TurnAssumption DEF Init, QueueInv, Answering, Silent
<1>2. TypeInv /\ ThreadInv /\ QueueInv /\ [Next]_vars => QueueInv'
  BY QueueInvStep
<1> QED
  BY <1>1, <1>2, TypeInvariance, ThreadInvariance, PTL DEF Spec

-----------------------------------------------------------------------------
(* The echo.                                                               *)

\* Unless speech was exposed, the input is suppressed until everything queued
\* was played and its echo has died away, except while the thread still
\* synthesizes: then it takes no frame.
EchoInv ==
    ~exposed =>
       /\ speaker # <<>> /\ ~Answering => now + Len(speaker) + Post <= suppressedUntil
       /\ call = "active" /\ speaker # <<>> => thread = "listen" \/ Answering
       /\ NoEcho(pcm) \/ Answering \/ (thread = "listen" /\ now < suppressedUntil)
       /\ Unnoted("turn") => now + speech["turn"].units + Post <= suppressedUntil
       /\ NoEcho(detector.buffer) /\ NoEcho(detector.preRoll) /\ NoEcho(utterance)

\* The thread takes an echo only while the input is suppressed.
LEMMA EchoTaken ==
    ASSUME TypeInv, EchoInv, TakeFrame
    PROVE  EchoInv'
<1> SUFFICES ASSUME ~exposed
             PROVE  EchoInv'
  BY DEF TakeFrame, EchoInv
<1>1. /\ thread = "listen" /\ pcm # <<>> /\ pcm' = Tail(pcm) /\ thread' \in {"listen", "stt"}
      /\ UNCHANGED <<now, speaker, speech, suppressedUntil, call, exposed>>
      /\ InputIsSuppressed => thread' = "listen"
  BY DEF TakeFrame, Process, activity, ending
<1>2. ~Answering /\ ~Answering'
  BY <1>1 DEF Answering
<1>3. /\ now \in Nat /\ Len(speaker) \in Nat /\ Post \in Nat /\ pcm \in Seq(Frames)
      /\ RunTo(pcm, now) /\ suppressedUntil \in Nat \cup {Never} /\ Never = -1
      /\ DetectorInv /\ speaker \in Seq([own : BOOLEAN, closing : BOOLEAN])
  BY TurnAssumption DEF TypeInv, DetectorInv, PipelineInv, ActivityTyped, Never
<1>4. now < suppressedUntil => InputIsSuppressed
  BY <1>3 DEF InputIsSuppressed
<1>5. NoEcho(pcm) => NoEcho(pcm') /\ Head(pcm).kind # "echo"
  BY <1>1, <1>3, RunShortened
<1>6. NoEcho(pcm) \/ now < suppressedUntil
  BY <1>2 DEF EchoInv
<1>7. NoEcho(detector'.buffer) /\ NoEcho(detector'.preRoll) /\ NoEcho(utterance')
  BY <1>3, <1>4, <1>5, <1>6, TakeStep DEF EchoInv
<1>8. speaker # <<>> => now + Len(speaker) + Post <= suppressedUntil
  BY <1>2 DEF EchoInv
<1>9. speaker # <<>> => now < suppressedUntil
  <2> HAVE speaker # <<>>
  <2>1. Len(speaker) > 0
    BY <1>3, HeadIsFirst
  <2> QED
    BY <1>3, <1>8, <2>1
<1>10. Unnoted("turn")' => now' + speech'["turn"].units + Post <= suppressedUntil'
  BY <1>1 DEF EchoInv, Unnoted
<1> QED
  BY <1>1, <1>2, <1>4, <1>5, <1>6, <1>7, <1>8, <1>9, <1>10 DEF EchoInv, NoEcho

\* While a unit plays, its echo arrives.
LEMMA EchoArrives ==
    ASSUME TypeInv, EchoInv, Tick, Post > 0
    PROVE  EchoInv'
<1> SUFFICES ASSUME ~exposed
             PROVE  EchoInv'
  BY DEF Tick, EchoInv
<1>1. /\ call = "active" /\ now' = now + 1 /\ ~(thread = "listen" /\ pcm # <<>>)
      /\ UNCHANGED <<detector, utterance, thread, speech, suppressedUntil, call, exposed>>
      /\ speaker' = IF speaker = <<>> THEN <<>> ELSE Tail(speaker)
  BY DEF Tick, activity, ending
<1>2. /\ now \in Nat /\ Len(speaker) \in Nat /\ Post \in Nat /\ pcm \in Seq(Frames)
      /\ RunTo(pcm, now) /\ suppressedUntil \in Nat \cup {Never} /\ Never = -1
      /\ speaker \in Seq([own : BOOLEAN, closing : BOOLEAN]) /\ DetectorInv
  BY TurnAssumption DEF TypeInv, DetectorInv, PipelineInv, ActivityTyped, Never
<1>3. Answering' <=> Answering
  BY <1>1 DEF Answering
<1>4. speaker' # <<>> => speaker # <<>> /\ Len(speaker') = Len(speaker) - 1
  BY <1>1, <1>2, HeadIsFirst
<1>5. speaker # <<>> /\ ~Answering => now + Len(speaker) + Post <= suppressedUntil
  BY DEF EchoInv
<1>6. speaker' # <<>> /\ ~Answering' => now' + Len(speaker') + Post <= suppressedUntil'
  <2>1. /\ now' = now + 1 /\ suppressedUntil' = suppressedUntil
        /\ now \in Int /\ Post \in Int /\ Len(speaker) \in Int /\ suppressedUntil \in Int
    BY <1>1, <1>2
  <2>2. ASSUME speaker' # <<>>, ~Answering'
        PROVE  now + Len(speaker) + Post <= suppressedUntil /\ Len(speaker') = Len(speaker) - 1
    BY <1>3, <1>4, <1>5, <2>2
  <2>3. now + Len(speaker) + Post <= suppressedUntil /\ Len(speaker') = Len(speaker) - 1 =>
           now' + Len(speaker') + Post <= suppressedUntil'
    BY <2>1
  <2> QED
    BY <2>2, <2>3
<1>7. speaker' # <<>> => thread' = "listen" \/ Answering'
  BY <1>1, <1>3, <1>4 DEF EchoInv
<1>8. PICK f \in Frames : pcm' = Append(pcm, f) /\ (f.kind = "echo" => speaker # <<>>)
  BY <1>2, TickStep
<1>9. NoEcho(pcm') \/ Answering' \/ (thread' = "listen" /\ now' < suppressedUntil')
  <2> SUFFICES ASSUME ~NoEcho(pcm'), ~Answering
               PROVE  thread' = "listen" /\ now' < suppressedUntil'
    BY <1>3
  <2>1. CASE ~NoEcho(pcm)
    <3>1. pcm # <<>>
      BY <2>1, NothingRuns, <1>2 DEF NoEcho
    <3>2. thread = "listen"
      BY <2>1 DEF EchoInv
    <3> QED
      BY <1>1, <3>1, <3>2
  <2>2. CASE NoEcho(pcm)
    <3>1. f.kind = "echo"
      <4>1. /\ Len(pcm') = Len(pcm) + 1 /\ pcm'[Len(pcm) + 1] = f
            /\ \A i \in 1..Len(pcm) : pcm'[i] = pcm[i]
        BY <1>2, <1>8, AppendIsLast
      <4>2. Len(pcm) \in Nat
        BY <1>2
      <4> QED
        BY <2>2, <4>1, <4>2 DEF NoEcho
    <3>2. speaker # <<>> /\ Len(speaker) > 0
      BY <1>2, <1>8, <3>1, HeadIsFirst
    <3>3. thread = "listen"
      BY <1>1, <3>2 DEF EchoInv
    <3>4. now + Len(speaker) + Post <= suppressedUntil
      BY <1>5, <3>2
    <3>5. now + 1 < suppressedUntil
      BY <1>2, <3>2, <3>4
    <3> QED
      BY <1>1, <3>3, <3>5
  <2> QED
    BY <2>1, <2>2
<1>10. ~Unnoted("turn")'
  <2>1. "turn" \in Clients /\ Noting = {}
    BY TurnAssumption DEF Tick
  <2>2. ~Unnoted("turn")
    BY <2>1 DEF Noting
  <2> QED
    BY <1>1, <2>2 DEF Unnoted
<1> QED
  BY <1>1, <1>6, <1>7, <1>9, <1>10 DEF EchoInv, NoEcho

\* A queued segment is covered by the suppression of its text, or the thread
\* goes on synthesizing.
LEMMA EchoOfSegment ==
    ASSUME TypeInv, ThreadInv, QueueInv, EchoInv, NEW c \in Clients, SegmentQueued(c)
    PROVE  EchoInv'
<1> SUFFICES ASSUME ~exposed'
             PROVE  EchoInv'
  BY DEF EchoInv
<1>0. /\ "turn" \in Clients /\ PipelineInv /\ now \in Nat /\ Len(speaker) \in Nat
      /\ Post \in Nat /\ suppressedUntil \in Nat \cup {Never} /\ Never = -1
      /\ suppressedUntil \in Int
  BY TurnAssumption DEF TypeInv, PipelineInv, ActivityTyped, DetectorInv, Never
<1>1. /\ ~exposed /\ Len(speaker) <= speech[c].units /\ Len(speaker') = Len(speaker) + 1
      /\ c # "turn" => /\ thread = "listen" /\ pcm = <<>> /\ speech[c].left = 1
  BY SegmentUnexposed
<1>2. /\ UNCHANGED <<now, pcm, detector, utterance, thread, call>>
      /\ speech[c].left > 0 /\ speech[c].units \in Nat
      /\ speech'[c].left = speech[c].left - 1
      /\ speech'[c].units = speech[c].units + 1
      /\ \A d \in Clients : d # c => speech'[d] = speech[d]
  BY <1>0, SegmentSplits
<1>3. NoEcho(detector.buffer)' /\ NoEcho(detector.preRoll)' /\ NoEcho(utterance)'
  BY <1>1, <1>2 DEF EchoInv, NoEcho
<1>4. speech[c].left = 1 =>
         /\ now + (speech[c].units + 1) + Post <= suppressedUntil'
         /\ suppressedUntil' \in Int
  <2> DEFINE total == speech[c].units + 1
  <2> HAVE speech[c].left = 1
  <2>1. AllQueued(total)
    BY <1>0, SegmentSplits
  <2>2. suppressedUntil' = IF suppressedUntil < now + total + Post THEN now + total + Post
                           ELSE suppressedUntil
    BY <2>1 DEF AllQueued, SuppressInputFor
  <2>3. total \in Nat
    BY <1>2
  <2> HIDE DEF total
  <2>4. now + total + Post <= suppressedUntil' /\ suppressedUntil' \in Int
    BY <1>0, <2>2, <2>3
  <2> QED
    BY <2>4 DEF total
<1>5. CASE c = "turn"
  <2>1. thread' = "tts" /\ Answering'
    BY <1>2, <1>5 DEF ThreadInv, Answering
  <2>2. Unnoted("turn")' => now' + speech'["turn"].units + Post <= suppressedUntil'
    <3>1. Unnoted("turn")' => speech[c].left = 1
      <4>1. speech[c].left \in Int
        BY <1>0, TurnAssumption DEF PipelineInv
      <4> QED
        BY <1>2, <1>5, <4>1 DEF Unnoted
    <3> QED
      BY <1>2, <1>4, <1>5, <3>1
  <2> QED
    BY <1>3, <2>1, <2>2 DEF EchoInv
<1>6. CASE c # "turn"
  <2>1. /\ thread' = "listen" /\ speech'["turn"] = speech["turn"]
        /\ speech["turn"].text = "none" /\ ~Unnoted("turn")'
    BY <1>0, <1>1, <1>2, <1>6 DEF ThreadInv, Unnoted
  <2>2. Len(speaker') <= speech[c].units + 1 /\ Len(speaker') \in Nat
    BY <1>0, <1>1, <1>2
  <2>3. now + Len(speaker') + Post <= suppressedUntil' /\ now < suppressedUntil'
    BY <1>0, <1>1, <1>2, <1>4, <1>6, <2>2
  <2> QED
    BY <1>2, <1>3, <2>1, <2>3 DEF EchoInv, NoEcho
<1> QED
  BY <1>5, <1>6

\* When the answer is noted, the suppression is that of all of it.
LEMMA EchoNoted ==
    ASSUME TypeInv, ThreadInv, QueueInv, EchoInv, NEW c \in Clients, NoteSpeech(c)
    PROVE  EchoInv'
<1> SUFFICES ASSUME ~exposed
             PROVE  EchoInv'
  BY DEF EchoInv, NoteSpeech
<1>0. /\ "turn" \in Clients /\ PipelineInv /\ now \in Int /\ Len(speaker) \in Nat
      /\ Post \in Nat /\ suppressedUntil \in Int /\ speech[c].units \in Nat
  BY TurnAssumption DEF TypeInv, PipelineInv, ActivityTyped, DetectorInv, Never
<1>1. /\ UNCHANGED <<now, speaker, pcm, detector, utterance, suppressedUntil, call, exposed>>
      /\ speech' = [speech EXCEPT ![c] = Silent] /\ Unnoted(c)
      /\ thread' = IF c = "turn" THEN "listen" ELSE thread
  BY DEF NoteSpeech
<1>2. /\ speech'[c].text = "none"
      /\ \A d \in Clients : d # c => speech'[d] = speech[d]
  BY <1>0, <1>1, TextOver
<1>3. NoEcho(detector.buffer)' /\ NoEcho(detector.preRoll)' /\ NoEcho(utterance)'
  BY <1>1 DEF EchoInv, NoEcho
<1>4. CASE c = "turn"
  <2>1. Answering /\ speech[c].units > 0
    BY <1>1, <1>4 DEF Answering, ThreadInv, Unnoted
  <2>2. Len(speaker) <= speech[c].units
    BY <1>4, <2>1 DEF QueueInv
  <2>3. now + speech[c].units + Post <= suppressedUntil
    BY <1>1, <1>4 DEF EchoInv
  <2>4. now + Len(speaker) + Post <= suppressedUntil /\ now < suppressedUntil
    BY <1>0, <2>1, <2>2, <2>3
  <2>5. thread' = "listen" /\ ~Unnoted("turn")'
    BY <1>1, <1>2, <1>4 DEF Unnoted
  <2> QED
    BY <1>1, <1>3, <2>4, <2>5 DEF EchoInv
<1>5. CASE c # "turn"
  <2>1. thread' = thread /\ speech'["turn"] = speech["turn"]
    BY <1>0, <1>1, <1>2, <1>5
  <2> QED
    BY <1>1, <1>3, <2>1 DEF EchoInv, Answering, NoEcho, Unnoted
<1> QED
  BY <1>4, <1>5

LEMMA EchoStep ==
    ASSUME TypeInv, ThreadInv, QueueInv, EchoInv, [Next]_vars, Post > 0
    PROVE  EchoInv'
<1>0. /\ "turn" \in Clients /\ "prompt" \in Clients /\ "speak" \in Clients
      /\ PipelineInv /\ DetectorInv /\ speech["turn"].units \in Nat
  BY TurnAssumption DEF TypeInv, PipelineInv
<1>1. CASE /\ UNCHANGED <<now, speaker, pcm, detector, utterance, thread, speech,
                          suppressedUntil, exposed>>
           /\ call' \in {call, "ended"}
  BY <1>1 DEF EchoInv, Answering, NoEcho, Unnoted
<1>2. CASE \/ GiveUpTurn \/ HearWords \/ NoteWords \/ NoteHangUp
           \/ \E text \in {"reply", "farewell"}, n \in 1..MaxSegments : Reply(text, n)
  <2>1. /\ thread \in {"stt", "noting", "llm"} /\ utterance' \in {utterance, <<>>}
        /\ UNCHANGED <<now, speaker, pcm, detector, suppressedUntil, call, exposed>>
    BY <1>2 DEF GiveUpTurn, HearWords, NoteWords, NoteHangUp, CallerNoted, Reply,
                activity, ending
  <2>2. ~Answering' /\ ~Unnoted("turn")'
    <3>1. CASE GiveUpTurn \/ HearWords \/ NoteWords
      <4>1. thread' \in {"listen", "noting", "llm"} /\ speech' = speech
        BY <3>1 DEF GiveUpTurn, HearWords, NoteWords
      <4>2. speech["turn"].text = "none"
        BY <1>0, <2>1 DEF ThreadInv
      <4> QED
        BY <4>1, <4>2 DEF Answering, Unnoted
    <3>2. CASE NoteHangUp \/ \E text \in {"reply", "farewell"}, n \in 1..MaxSegments : Reply(text, n)
      <4>1. PICK text \in {"reply", "farewell"}, n \in 1..MaxSegments :
               Speak("turn", text, n)
        BY <3>2, TurnAssumption DEF NoteHangUp, Reply
      <4> QED
        BY <1>0, <4>1, TextBegun DEF Answering, Unnoted
    <3> QED
      BY <1>2, <3>1, <3>2
  <2>3. ~Answering
    BY <2>1 DEF Answering
  <2>4. NoEcho(utterance) => NoEcho(utterance')
    BY <2>1, NothingRuns
  <2> QED
    BY <2>1, <2>2, <2>3, <2>4 DEF EchoInv, NoEcho
<1>3. CASE FinishInput
  <2>1. /\ call = "ended" /\ pcm = <<>> /\ thread = "listen"
        /\ thread' \in {"listen", "stt", "done"}
        /\ UNCHANGED <<now, speaker, pcm, speech, suppressedUntil, call, exposed>>
    BY <1>3 DEF FinishInput, Process, activity, ending
  <2>2. ~Answering /\ ~Answering' /\ ~Unnoted("turn")'
    BY <1>0, <2>1 DEF Answering, ThreadInv, Unnoted
  <2>3. NoEcho(pcm')
    BY <2>1, <1>0 DEF NoEcho
  <2>4. NoEcho(detector.buffer) /\ NoEcho(utterance) =>
           NoEcho(detector'.buffer) /\ NoEcho(detector'.preRoll) /\ NoEcho(utterance')
    BY <1>0, <1>3, FinishStep
  <2> QED
    BY <2>1, <2>2, <2>3, <2>4 DEF EchoInv, NoEcho
<1>4. ASSUME NEW c \in Clients, SpeechFails(c) \/ (SpeakDropped /\ c = "speak")
      PROVE  EchoInv'
  <2>1. /\ speech' = [speech EXCEPT ![c] = Silent]
        /\ UNCHANGED <<now, speaker, pcm, detector, utterance, suppressedUntil, call>>
        /\ thread' = IF c = "turn" THEN "listen" ELSE thread
        /\ c = "turn" => speech["turn"].left > 0
    BY <1>4 DEF SpeechFails, SpeakDropped, activity, ending, input
  <2>2. ~exposed' => ~exposed /\ ~(speech[c].units > 0)
    BY <1>4 DEF SpeechFails, SpeakDropped
  <2>3. CASE c = "turn"
    <3>1. thread = "tts" /\ thread' = "listen"
      BY <2>1, <2>3 DEF ThreadInv
    <3>2. ~Answering' /\ (~exposed' => ~Answering) /\ ~Unnoted("turn")'
      <4>1. speech'["turn"].text = "none"
        BY <1>0, <2>1, <2>3, TextOver
      <4> QED
        BY <2>2, <2>3, <3>1, <4>1 DEF Answering, Unnoted
    <3> QED
      BY <2>1, <2>2, <3>1, <3>2 DEF EchoInv, NoEcho
  <2>4. CASE c # "turn"
    <3>1. speech'["turn"] = speech["turn"] /\ thread' = thread
      BY <1>0, <2>1, <2>4, TextOver
    <3>2. Answering' <=> Answering
      BY <3>1 DEF Answering
    <3> QED
      BY <2>1, <2>2, <3>1, <3>2 DEF EchoInv, NoEcho, Unnoted
  <2> QED
    BY <2>3, <2>4
<1>5. CASE (\E p \in sleeping : SpeakPrompt(p)) \/ (\E n \in 1..SpeakSegments : SpeakText(n))
  <2>1. PICK c \in {"prompt", "speak"}, n \in Nat :
           /\ Speak(c, c, n)
           /\ UNCHANGED <<now, speaker, pcm, detector, utterance, thread, suppressedUntil,
                          call, exposed>>
    BY <1>5, TurnAssumption DEF SpeakPrompt, SpeakText, activity, ending, input
  <2>2. speech'["turn"] = speech["turn"]
    BY <1>0, <2>1, TextBegun
  <2>3. Answering' <=> Answering
    BY <2>1, <2>2 DEF Answering
  <2> QED
    BY <2>1, <2>2, <2>3 DEF EchoInv, NoEcho, Unnoted
<1>6. \/ /\ UNCHANGED <<now, speaker, pcm, detector, utterance, thread, speech,
                        suppressedUntil, exposed>>
         /\ call' \in {call, "ended"}
      \/ GiveUpTurn \/ HearWords \/ NoteWords \/ NoteHangUp
      \/ \E text \in {"reply", "farewell"}, n \in 1..MaxSegments : Reply(text, n)
      \/ TakeFrame \/ FinishInput
      \/ \E c \in Clients : SegmentQueued(c) \/ SpeechFails(c) \/ NoteSpeech(c)
      \/ SpeakDropped
      \/ \E p \in sleeping : SpeakPrompt(p)
      \/ \E n \in 1..SpeakSegments : SpeakText(n)
      \/ Tick
  BY DEF Next, vars, input, activity, ending, ThreadStep, SpeechStep, AskSegment, WriteLine,
         PromptOutdated, SendBye, CallEnds, WorkerStep
<1> QED
  BY <1>0, <1>1, <1>2, <1>3, <1>4, <1>5, <1>6, EchoTaken, EchoArrives, EchoOfSegment,
     EchoNoted

-----------------------------------------------------------------------------
(* The mutex.                                                              *)

\* What the steps of the worker do to the queue for the mutex.
LEMMA QueueAfterAsk ==
    ASSUME WorkerTypeOK, NEW c \in Clients, Ask(c), NEW d, InLock(d)'
    PROVE  InLock(d) \/ d = c
<1>1. lock \in Seq(Clients) /\ lock' = Append(lock, c)
  BY DEF WorkerTypeOK, Ask
<1>2. PICK i \in 1..Len(lock') : lock'[i] = d
  BY DEF InLock
<1> QED
  BY <1>1, <1>2, AppendIsLast DEF InLock

LEMMA QueueAfterRelease ==
    ASSUME WorkerTypeOK, NEW c, lock # <<>>, Head(lock) = c, Release, NEW d, InLock(d)'
    PROVE  InLock(d) /\ d # c
<1>1. lock \in Seq(Clients) /\ lock' = Tail(lock)
  BY DEF WorkerTypeOK, Release
<1>2. PICK i \in 1..Len(lock') : lock'[i] = d
  BY DEF InLock
<1>3. /\ Len(lock) \in Nat \ {0} /\ lock[1] = c /\ Len(lock') = Len(lock) - 1
      /\ \A j \in 1..(Len(lock) - 1) : lock'[j] = lock[j + 1]
  BY <1>1, HeadIsFirst
<1>4. i + 1 \in 1..Len(lock) /\ i + 1 # 1 /\ 1 \in 1..Len(lock) /\ lock[i + 1] = d
  BY <1>2, <1>3
<1> QED
  BY <1>3, <1>4 DEF InLock, WorkerTypeOK

LEMMA QueueAfterLeave ==
    ASSUME WorkerTypeOK, NEW c \in Clients, LeaveQueue(c), NEW d, InLock(d)'
    PROVE  InLock(d) /\ d # c
<1> DEFINE n == Len(lock)
<1>1. lock \in Seq(Clients) /\ n \in Nat /\ \A j, k \in 1..n : lock[j] = lock[k] => j = k
  BY DEF WorkerTypeOK
<1>2. PICK i \in 2..n : lock[i] = c /\ lock' = SubSeq(lock, 1, i - 1) \o SubSeq(lock, i + 1, n)
  BY DEF LeaveQueue
<1> DEFINE before == SubSeq(lock, 1, i - 1)
           after == SubSeq(lock, i + 1, n)
<1> HIDE DEF n
<1>3. n = Len(lock) /\ i \in Nat /\ 2 <= i /\ i <= n
  BY <1>1, <1>2 DEF n
<1>4. /\ before \in Seq(Clients) /\ Len(before) = i - 1
      /\ \A j \in 1..(i - 1) : before[j] = lock[j]
  BY <1>1, <1>3
<1>5. /\ after \in Seq(Clients) /\ Len(after) = n - i
      /\ \A j \in 1..(n - i) : after[j] = lock[i + j]
  BY <1>1, <1>3
<1> HIDE DEF before, after
<1>6. lock' = before \o after
  BY <1>2 DEF before, after
<1>7. PICK k \in 1..Len(lock') : lock'[k] = d
  BY DEF InLock
<1>8. /\ Len(lock') = n - 1
      /\ lock'[k] = IF k <= i - 1 THEN before[k] ELSE after[k - (i - 1)]
  BY <1>3, <1>4, <1>5, <1>6, <1>7
<1>9. \E j \in 1..n : j # i /\ lock[j] = d
  <2>1. CASE k <= i - 1
    BY <1>3, <1>4, <1>7, <1>8, <2>1
  <2>2. CASE ~(k <= i - 1)
    <3>1. k - (i - 1) \in 1..(n - i) /\ i + (k - (i - 1)) \in 1..n
          /\ i + (k - (i - 1)) # i
      BY <1>3, <1>7, <1>8, <2>2
    <3>2. lock[i + (k - (i - 1))] = d
      BY <1>5, <1>7, <1>8, <2>2, <3>1
    <3> QED
      BY <3>1, <3>2
  <2> QED
    BY <2>1, <2>2
<1> QED
  BY <1>1, <1>2, <1>3, <1>9 DEF InLock, n

\* A client that gives the mutex back is the one whose text goes on or ends.
LEMMA LockStep ==
    ASSUME PipelineInv, LockIsWanted, [Next]_vars
    PROVE  LockIsWanted'
<1>0. WorkerTypeOK /\ "turn" \in Clients /\ "prompt" \in Clients /\ "speak" \in Clients
  BY TurnAssumption DEF PipelineInv, WorkerInv
<1>1. CASE UNCHANGED <<lock, speech>>
  BY <1>1 DEF LockIsWanted, InLock
<1>2. ASSUME NEW c \in Clients, AskSegment(c)
      PROVE  LockIsWanted'
  <2>1. Ask(c) /\ speech' = speech /\ speech[c].left > 0
    BY <1>2 DEF AskSegment
  <2> QED
    BY <1>0, <2>1, QueueAfterAsk DEF LockIsWanted
<1>3. ASSUME NEW c \in Clients, SegmentQueued(c) \/ SpeechFails(c)
      PROVE  LockIsWanted'
  <2>1. lock # <<>> /\ Head(lock) = c /\ Release
    BY <1>3 DEF SegmentQueued, SpeechFails, ReadAnswer, RequestFails, WriteTimesOut, WriteFails,
       ReadTimesOut, ReadFails, Holds
  <2>2. \A d \in Clients : d # c => speech'[d] = speech[d]
    <3>1. CASE SegmentQueued(c)
      BY <3>1, SegmentSplits
    <3>2. CASE SpeechFails(c)
      BY <3>2, TextOver DEF SpeechFails
    <3> QED
      BY <1>3, <3>1, <3>2
  <2> QED
    BY <1>0, <2>1, <2>2, QueueAfterRelease DEF LockIsWanted
<1>4. CASE SpeakDropped
  <2>1. LeaveQueue("speak") /\ speech' = [speech EXCEPT !["speak"] = Silent]
    BY <1>4 DEF SpeakDropped
  <2>2. \A d \in Clients : d # "speak" => speech'[d] = speech[d]
    BY <1>0, <2>1, TextOver
  <2> QED
    BY <1>0, <2>1, <2>2, QueueAfterLeave DEF LockIsWanted
<1>5. ASSUME NEW c \in Clients, NEW text, NEW n \in Nat \ {0}, Speak(c, text, n), lock' = lock
      PROVE  LockIsWanted'
  <2>1. speech'[c].left = n /\ \A d \in Clients : d # c => speech'[d] = speech[d]
    BY <1>5, TextBegun
  <2> QED
    BY <1>5, <2>1 DEF LockIsWanted, InLock
<1>6. CASE \/ NoteHangUp
           \/ \E text \in {"reply", "farewell"}, n \in 1..MaxSegments : Reply(text, n)
           \/ \E p \in sleeping : SpeakPrompt(p)
           \/ \E n \in 1..SpeakSegments : SpeakText(n)
  BY <1>0, <1>5, <1>6, TurnAssumption
  DEF NoteHangUp, Reply, SpeakPrompt, SpeakText, workerVars
<1>7. ASSUME NEW c \in Clients, NoteSpeech(c)
      PROVE  LockIsWanted'
  <2>1. speech' = [speech EXCEPT ![c] = Silent] /\ speech[c].left = 0 /\ lock' = lock
    BY <1>7 DEF NoteSpeech, Unnoted, workerVars
  <2>2. ~InLock(c) /\ \A d \in Clients : d # c => speech'[d] = speech[d]
    BY <2>1, TextOver DEF LockIsWanted
  <2> QED
    BY <2>1, <2>2 DEF LockIsWanted, InLock
<1>8. \/ UNCHANGED <<lock, speech>>
      \/ \E c \in Clients : AskSegment(c) \/ SegmentQueued(c) \/ SpeechFails(c) \/ NoteSpeech(c)
      \/ SpeakDropped
      \/ NoteHangUp
      \/ \E text \in {"reply", "farewell"}, n \in 1..MaxSegments : Reply(text, n)
      \/ \E p \in sleeping : SpeakPrompt(p)
      \/ \E n \in 1..SpeakSegments : SpeakText(n)
  BY DEF Next, vars, workerVars, ThreadStep, TakeFrame, FinishInput, GiveUpTurn, HearWords,
         NoteWords, SpeechStep, WriteLine, WriteRequest, PromptOutdated, SendBye, CallEnds,
         WorkerStep, AnswerLine, Exit, Tick
<1> QED
  BY <1>1, <1>2, <1>3, <1>4, <1>6, <1>7, <1>8

-----------------------------------------------------------------------------
(* The idle prompts.                                                       *)

\* Every text is pushed and noted once, so the transcript is ahead of the
\* generation by the texts between the two; a prompt that remembers a
\* generation remembers at least as long a transcript.
PromptInv ==
    /\ IsFiniteSet(Noting)
    /\ said = generation + Cardinality(Noting)
    /\ \A p \in sleeping : p.gen <= p.said

\* Neither the members of Noting nor the counters change.
LEMMA NotingStays ==
    ASSUME PromptInv, Noting' = Noting, UNCHANGED <<said, generation>>,
           sleeping' \subseteq sleeping
    PROVE  PromptInv'
BY DEF PromptInv

\* A text is pushed to the transcript.
LEMMA NotingGrows ==
    ASSUME TypeInv, PromptInv, NEW x, x \notin Noting, Noting' = Noting \cup {x},
           said' = said + 1, UNCHANGED <<generation, sleeping>>
    PROVE  PromptInv'
<1>1. IsFiniteSet(Noting')
      /\ Cardinality(Noting') = Cardinality(Noting) + 1
      /\ Cardinality(Noting) \in Nat
  BY FS_AddElement, FS_CardinalityType DEF PromptInv
<1>2. said \in Nat /\ generation \in Nat
  BY DEF TypeInv, ActivityTyped
<1>3. said' = generation' + Cardinality(Noting')
  BY <1>1, <1>2 DEF PromptInv
<1> QED
  BY <1>1, <1>3 DEF PromptInv

\* It is noted, and perhaps an idle prompt is scheduled.
LEMMA NotingShrinks ==
    ASSUME TypeInv, PromptInv, NEW x, x \in Noting, Noting' = Noting \ {x},
           generation' = generation + 1, UNCHANGED said,
           \A p \in sleeping' : p \in sleeping \/ (p.gen = generation + 1 /\ p.said = said)
    PROVE  PromptInv'
<1>1. IsFiniteSet(Noting')
      /\ Cardinality(Noting') = Cardinality(Noting) - 1
      /\ Cardinality(Noting) \in Nat /\ Cardinality(Noting') \in Nat
  <2>1. IsFiniteSet(Noting) /\ Cardinality(Noting) \in Nat
    BY FS_CardinalityType DEF PromptInv
  <2>2. IsFiniteSet(Noting \ {x}) /\ Cardinality(Noting \ {x}) = Cardinality(Noting) - 1
    BY <2>1, FS_RemoveElement
  <2>3. Cardinality(Noting \ {x}) \in Nat
    BY <2>2, FS_CardinalityType
  <2> QED
    BY <2>1, <2>2, <2>3
<1>2. said \in Nat /\ generation \in Nat
  BY DEF TypeInv, ActivityTyped
<1>3. said' = generation' + Cardinality(Noting')
  BY <1>1, <1>2 DEF PromptInv
<1>4. generation + 1 <= said
  BY <1>1, <1>2 DEF PromptInv
<1>5. \A p \in sleeping' : p.gen <= p.said
  BY <1>4 DEF PromptInv
<1> QED
  BY <1>1, <1>3, <1>5 DEF PromptInv

\* Who is between the transcript and the note depends on the texts and the thread.
LEMMA NotingDepends ==
    ASSUME \A d \in Clients : Unnoted(d)' <=> Unnoted(d),
           thread' = "noting" <=> thread = "noting"
    PROVE  Noting' = Noting
BY DEF Noting

LEMMA PromptInvStep ==
    ASSUME TypeInv, ThreadInv, LockIsWanted, PromptInv, [Next]_vars
    PROVE  PromptInv'
<1>0. /\ "turn" \in Clients /\ "prompt" \in Clients /\ "speak" \in Clients
      /\ "caller" \notin Clients /\ PipelineInv
  BY TurnAssumption DEF TypeInv
<1>1. CASE /\ UNCHANGED <<speech, said, generation>> /\ sleeping' \subseteq sleeping
           /\ thread' = "noting" <=> thread = "noting"
  BY <1>1, NotingDepends, NotingStays DEF Unnoted
<1>2. CASE HearWords
  <2>1. /\ thread = "stt" /\ thread' = "noting" /\ said' = said + 1
        /\ UNCHANGED <<speech, generation, sleeping>>
    BY <1>2 DEF HearWords
  <2>2. "caller" \notin Noting /\ Noting' = Noting \cup {"caller"}
    BY <1>0, <2>1 DEF Noting, Unnoted
  <2> QED
    BY <2>1, <2>2, NotingGrows
<1>3. CASE NoteWords \/ NoteHangUp
  <2>1. /\ thread = "noting" /\ thread' \in {"llm", "tts"}
        /\ generation' = generation + 1 /\ UNCHANGED <<said, sleeping>>
    BY <1>3 DEF NoteWords, NoteHangUp, CallerNoted
  <2>2. \A d \in Clients : Unnoted(d)' <=> Unnoted(d)
    <3>1. CASE NoteWords
      BY <3>1 DEF NoteWords, Unnoted
    <3>2. CASE NoteHangUp
      <4>1. /\ speech'["turn"].left = 1 /\ speech["turn"].text = "none"
            /\ \A d \in Clients : d # "turn" => speech'[d] = speech[d]
        BY <1>0, <2>1, <3>2, TextBegun DEF NoteHangUp, ThreadInv
      <4> QED
        BY <4>1 DEF Unnoted
    <3> QED
      BY <1>3, <3>1, <3>2
  <2>3. "caller" \in Noting /\ Noting' = Noting \ {"caller"}
    BY <1>0, <2>1, <2>2 DEF Noting
  <2> QED
    BY <2>1, <2>3, NotingShrinks
<1>4. ASSUME NEW c \in Clients, NEW text, NEW n \in Nat \ {0}, Speak(c, text, n), ~Unnoted(c),
             thread' = "noting" <=> thread = "noting",
             UNCHANGED <<said, generation>>, sleeping' \subseteq sleeping
      PROVE  PromptInv'
  <2>1. /\ speech'[c].left = n
        /\ \A d \in Clients : d # c => speech'[d] = speech[d]
    BY <1>0, <1>4, TextBegun
  <2>2. \A d \in Clients : Unnoted(d)' <=> Unnoted(d)
    BY <1>4, <2>1 DEF Unnoted
  <2> QED
    BY <1>4, <2>2, NotingDepends, NotingStays
<1>5. CASE \E text \in {"reply", "farewell"}, n \in 1..MaxSegments : Reply(text, n)
  <2>1. PICK text \in {"reply", "farewell"}, n \in 1..MaxSegments :
           /\ Speak("turn", text, n) /\ thread = "llm" /\ thread' = "tts"
           /\ UNCHANGED <<said, generation, sleeping>>
    BY <1>5 DEF Reply, activity
  <2>2. ~Unnoted("turn") /\ n \in Nat \ {0}
    BY <1>0, <2>1, TurnAssumption DEF ThreadInv, Unnoted
  <2> QED
    BY <1>0, <1>4, <2>1, <2>2
<1>6. CASE (\E p \in sleeping : SpeakPrompt(p)) \/ (\E n \in 1..SpeakSegments : SpeakText(n))
  <2>1. PICK c \in {"prompt", "speak"}, n \in Nat \ {0} :
           /\ Speak(c, c, n) /\ speech[c] = Silent
           /\ UNCHANGED <<thread, said, generation>> /\ sleeping' \subseteq sleeping
    BY <1>6, TurnAssumption DEF SpeakPrompt, SpeakText, activity, input
  <2>2. ~Unnoted(c)
    BY <2>1 DEF Unnoted, Silent
  <2> QED
    BY <1>0, <1>4, <2>1, <2>2
<1>7. ASSUME NEW c \in Clients, SegmentQueued(c)
      PROVE  PromptInv'
  <2>1. /\ speech[c].left > 0 /\ UNCHANGED <<thread, generation, sleeping>>
        /\ \A d \in Clients : d # c => speech'[d] = speech[d]
        /\ speech'[c].text = speech[c].text
        /\ speech'[c].left = speech[c].left - 1
        /\ \/ speech[c].left = 1 /\ AllQueued(speech[c].units + 1)
           \/ speech[c].left > 1 /\ UNCHANGED activity
    BY <1>0, <1>7, SegmentSplits
  <2>2. c # "caller" /\ ~Unnoted(c) /\ speech[c].text # "none"
    BY <1>0, <2>1 DEF Unnoted, ThreadInv
  <2>3. CASE speech[c].left = 1
    <3>1. said' = said + 1
      BY <2>1, <2>3 DEF AllQueued
    <3>2. \A d \in Clients : Unnoted(d)' <=> (Unnoted(d) \/ d = c)
      BY <2>1, <2>2, <2>3 DEF Unnoted
    <3>3. c \notin Noting /\ Noting' = Noting \cup {c}
      BY <2>1, <2>2, <3>2 DEF Noting
    <3> QED
      BY <2>1, <3>1, <3>3, NotingGrows
  <2>4. CASE speech[c].left > 1
    <3>1. UNCHANGED said
      BY <2>1, <2>4 DEF activity
    <3>2. speech'[c].left # 0
      BY <2>1, <2>4
    <3>3. \A d \in Clients : Unnoted(d)' <=> Unnoted(d)
      BY <2>1, <2>2, <3>2 DEF Unnoted
    <3> QED
      BY <2>1, <3>1, <3>3, NotingDepends, NotingStays
  <2> QED
    BY <2>1, <2>3, <2>4
<1>8. ASSUME NEW c \in Clients, speech' = [speech EXCEPT ![c] = Silent],
             thread' = IF c = "turn" THEN "listen" ELSE thread
      PROVE  /\ \A d \in Clients : Unnoted(d)' <=> (Unnoted(d) /\ d # c)
             /\ speech[c].text # "none" => (thread' = "noting" <=> thread = "noting")
  <2>1. /\ speech'[c].text = "none"
        /\ \A d \in Clients : d # c => speech'[d] = speech[d]
    BY <1>0, <1>8, TextOver
  <2>2. c = "turn" /\ speech[c].text # "none" => thread = "tts"
    BY DEF ThreadInv
  <2> QED
    BY <1>8, <2>1, <2>2 DEF Unnoted
<1>9. ASSUME NEW c \in Clients, SpeechFails(c) \/ (SpeakDropped /\ c = "speak")
      PROVE  PromptInv'
  <2>1. /\ speech' = [speech EXCEPT ![c] = Silent]
        /\ thread' = IF c = "turn" THEN "listen" ELSE thread
        /\ UNCHANGED <<said, generation, sleeping>>
    BY <1>9 DEF SpeechFails, SpeakDropped, activity, input
  <2>2. speech[c].left > 0
    <3>1. CASE SpeechFails(c)
      BY <3>1 DEF SpeechFails
    <3>2. CASE SpeakDropped /\ c = "speak"
      <4>1. lock \in Seq(Clients) /\ InLock("speak")
        BY <1>0, <3>2 DEF SpeakDropped, LeaveQueue, InLock, PipelineInv, WorkerInv, WorkerTypeOK
      <4> QED
        BY <3>2, <4>1 DEF LockIsWanted
    <3> QED
      BY <1>9, <3>1, <3>2
  <2>3. ~Unnoted(c) /\ speech[c].text # "none"
    BY <2>2 DEF Unnoted, ThreadInv
  <2>4. /\ \A d \in Clients : Unnoted(d)' <=> Unnoted(d)
        /\ thread' = "noting" <=> thread = "noting"
    BY <1>8, <2>1, <2>3
  <2> QED
    BY <2>1, <2>4, NotingDepends, NotingStays
<1>10. ASSUME NEW c \in Clients, NoteSpeech(c)
       PROVE  PromptInv'
  <2>1. /\ speech' = [speech EXCEPT ![c] = Silent] /\ Unnoted(c)
        /\ thread' = IF c = "turn" THEN "listen" ELSE thread
        /\ generation' = generation + 1 /\ UNCHANGED said
        /\ sleeping' \subseteq sleeping \cup {IdlePrompt(speech[c].units)}
    BY <1>10 DEF NoteSpeech
  <2>2. /\ \A d \in Clients : Unnoted(d)' <=> (Unnoted(d) /\ d # c)
        /\ thread' = "noting" <=> thread = "noting"
    BY <1>8, <2>1 DEF Unnoted
  <2>3. c \in Noting /\ Noting' = Noting \ {c}
    BY <1>0, <2>1, <2>2 DEF Noting
  <2>4. \A p \in sleeping' : p \in sleeping \/ (p.gen = generation + 1 /\ p.said = said)
    BY <2>1 DEF IdlePrompt
  <2> QED
    BY <2>1, <2>3, <2>4, NotingShrinks
<1>11. \/ /\ UNCHANGED <<speech, said, generation>> /\ sleeping' \subseteq sleeping
          /\ thread' = "noting" <=> thread = "noting"
       \/ HearWords \/ NoteWords \/ NoteHangUp
       \/ \E text \in {"reply", "farewell"}, n \in 1..MaxSegments : Reply(text, n)
       \/ \E c \in Clients : SegmentQueued(c) \/ SpeechFails(c) \/ NoteSpeech(c)
       \/ SpeakDropped
       \/ \E p \in sleeping : SpeakPrompt(p)
       \/ \E n \in 1..SpeakSegments : SpeakText(n)
  <2>1. CASE TakeFrame \/ FinishInput \/ GiveUpTurn
    BY <2>1 DEF TakeFrame, FinishInput, GiveUpTurn, Process, activity
  <2>2. CASE \/ SendBye \/ CallEnds \/ WorkerStep \/ Tick \/ UNCHANGED vars
             \/ \E c \in Clients : AskSegment(c) \/ WriteLine(c)
             \/ \E p \in sleeping : PromptOutdated(p)
    BY <2>2 DEF SendBye, CallEnds, WorkerStep, Tick, vars, AskSegment, WriteLine,
                PromptOutdated, activity, input
  <2> QED
    BY <2>1, <2>2 DEF Next, ThreadStep, SpeechStep
<1> QED
  BY <1>0, <1>1, <1>2, <1>3, <1>5, <1>6, <1>7, <1>9, <1>10, <1>11

-----------------------------------------------------------------------------
(* Theorems.                                                               *)

\* The types of the worker, the detector, the queues and the tasks' state.
THEOREM TypeCorrect == Spec => []TypeOK
<1>1. TypeInv => TypeOK
  BY DEF TypeInv, TypeOK, PipelineInv, DetectorInv, Detectors, DetectorAt, ActivityTyped,
         WorkerInv
<1> QED
  BY <1>1, TypeInvariance, PTL

\* As long as every request of PersistentWorker::request got its answer, the
\* pipes of the worker hold nothing but the current request or its answer,
\* for any number of clients.
THEOREM WorkerInStep == Spec => []InStep
<1>1. PipelineInv => InStep
  BY DEF PipelineInv, WorkerInv
<1> QED
  BY <1>1, PipelineInvariance, PTL

\* What queue_tts_text queues is the speech of its own text, as long as no
\* request of the shared worker ended without its answer.
THEOREM SpeechIsOwn == Spec => []SaysItsOwn
<1>1. PipelineInv => SaysItsOwn
  BY DEF PipelineInv
<1> QED
  BY <1>1, PipelineInvariance, PTL

\* push_frame and finish: what is transcribed is one piece of what arrived, and
\* its first spoken frame is within the pre-roll.
THEOREM UtteranceIsOnePiece == Spec => []UtteranceIsContiguous
<1>1. DetectorInv => UtteranceIsContiguous
  BY DEF DetectorInv
<1> QED
  BY <1>1, DetectorInvariance, PTL

\* The assistant never answers its own voice, if its echo dies away within
\* post_tts_input_suppression_ms, which is not zero.
THEOREM EchoIsUnheard ==
    ASSUME Post > 0
    PROVE  Spec => []EchoUnheard
<1>1. Init => EchoInv
  <2>1. NoEcho(<<>>) /\ NoEcho(Listening.buffer) /\ NoEcho(Listening.preRoll)
    <3>1. 0 \in Int
      OBVIOUS
    <3> QED
      BY <3>1, NothingRuns
  <2>2. Init => ~Unnoted("turn")
    BY TurnAssumption DEF Init, Unnoted, Silent
  <2> QED
    BY <2>1, <2>2 DEF Init, EchoInv
<1>2. TypeInv /\ ThreadInv /\ QueueInv /\ EchoInv /\ [Next]_vars => EchoInv'
  BY EchoStep, Post > 0
<1>3. EchoInv => EchoUnheard
  BY DEF EchoInv, EchoUnheard, NoEcho
<1> QED
  BY <1>1, <1>2, <1>3, TypeInvariance, ThreadInvariance, QueueInvariance, PTL DEF Spec

\* schedule_end_call waits until the farewell was played.
THEOREM FarewellIsHeard == Spec => FarewellIsPlayed
<1>1. TypeInv /\ QueueInv /\ [Next]_vars =>
         [byeAt # Never /\ byeAt' = Never /\ ~exposed =>
             \A i \in 1..Len(speaker) : ~speaker[i].closing]_vars
  <2> SUFFICES ASSUME TypeInv, QueueInv, [Next]_vars, byeAt # Never, byeAt' = Never, ~exposed,
                      NEW i \in 1..Len(speaker), speaker[i].closing
               PROVE  FALSE
    OBVIOUS
  <2>0. /\ now \in Nat /\ byeAt \in Nat /\ EndBuffer \in Nat /\ Never \notin Nat /\ i \in Nat \ {0}
        /\ PipelineInv
    BY TurnAssumption DEF TypeInv, ActivityTyped, DetectorInv, Never, PipelineInv
  <2>1. now + i <= byeAt
    BY DEF QueueInv
  <2>2. ~SendBye
    BY <2>0, <2>1 DEF SendBye
  <2>3. ASSUME NEW c \in Clients, NoteSpeech(c)
        PROVE  FALSE
    <3>1. byeAt' = byeAt \/ byeAt' = now + speech[c].units + EndBuffer
      BY <2>3 DEF NoteSpeech, ScheduleEnd
    <3>2. speech[c].units \in Nat
      BY <2>0 DEF PipelineInv
    <3> QED
      BY <2>0, <3>1, <3>2
  <2>4. UNCHANGED byeAt \/ SendBye \/ \E c \in Clients : NoteSpeech(c)
    BY DEF Next, vars, ending, ThreadStep, TakeFrame, FinishInput, GiveUpTurn, HearWords,
           NoteWords, NoteHangUp, Reply, SpeechStep, AskSegment, WriteLine, SegmentQueued,
           SpeechFails, SpeakDropped, PromptOutdated, SpeakPrompt, SpeakText, CallEnds,
           WorkerStep, Tick
  <2> QED
    BY <2>2, <2>3, <2>4
<1> QED
  BY <1>1, TypeInvariance, QueueInvariance, PTL DEF Spec, FarewellIsPlayed

\* PersistentWorker::request never waits for somebody who has left.
THEOREM MutexIsWanted == Spec => []LockIsWanted
<1>1. Init => LockIsWanted
  <2>1. Len(<<>>) = 0 /\ 1..0 = {}
    OBVIOUS
  <2> QED
    BY <2>1 DEF Init, WorkerInit, LockIsWanted, InLock
<1>2. PipelineInv /\ LockIsWanted /\ [Next]_vars => LockIsWanted'
  BY LockStep
<1> QED
  BY <1>1, <1>2, PipelineInvariance, PTL DEF Spec

\* schedule_idle_prompt remembers the generation that note_activity returns
\* to it, and maybe_speak_idle_prompt compares it: if they agree, the
\* transcript got nothing since but the texts that are not noted yet, however
\* the accesses of the thread, the control API and the prompts interleave.
THEOREM PromptsFollowSilence == Spec => PromptsBreakSilence
<1>1. Init => PromptInv
  <2> SUFFICES ASSUME Init
               PROVE  PromptInv
    OBVIOUS
  <2>1. \A c \in Clients : ~Unnoted(c)
    BY DEF Init, Unnoted, Silent
  <2>2. Noting = {}
    BY <2>1 DEF Init, Noting
  <2> QED
    BY <2>2, FS_EmptySet DEF Init, PromptInv
<1>2. TypeInv /\ ThreadInv /\ LockIsWanted /\ PromptInv /\ [Next]_vars => PromptInv'
  BY PromptInvStep
<1>3. TypeInv /\ PromptInv /\ [Next]_vars =>
         [speech["prompt"] = Silent /\ speech'["prompt"] # Silent =>
             \E p \in sleeping : said <= p.said + Cardinality(Noting)]_vars
  <2> SUFFICES ASSUME TypeInv, PromptInv, [Next]_vars,
                      speech["prompt"] = Silent, speech'["prompt"] # Silent
               PROVE  \E p \in sleeping : said <= p.said + Cardinality(Noting)
    OBVIOUS
  <2>0. /\ "prompt" \in Clients /\ "turn" \in Clients /\ "speak" \in Clients /\ PipelineInv
    BY TurnAssumption DEF TypeInv
  <2>1. ASSUME NEW p \in sleeping, SpeakPrompt(p)
        PROVE  said <= p.said + Cardinality(Noting)
    <3>1. Cardinality(Noting) \in Nat /\ said = p.gen + Cardinality(Noting)
      BY <2>1, FS_CardinalityType DEF SpeakPrompt, PromptInv
    <3>2. p.gen \in Nat /\ p.said \in Nat /\ p.gen <= p.said
      BY DEF PromptInv, TypeInv, ActivityTyped
    <3> QED
      BY <3>1, <3>2
  <2>2. ASSUME NEW c \in Clients, c # "prompt",
               \/ \E text, n : Speak(c, text, n)
               \/ SegmentQueued(c) \/ speech' = [speech EXCEPT ![c] = Silent]
        PROVE  FALSE
    <3>1. speech'["prompt"] = speech["prompt"]
      BY <2>0, <2>2, TextBegun, SegmentSplits, TextOver
    <3> QED
      BY <3>1
  <2>3. ASSUME speech' = [speech EXCEPT !["prompt"] = Silent]
        PROVE  FALSE
    BY <2>0, <2>3 DEF PipelineInv
  <2>4. ~SegmentQueued("prompt")
    BY DEF SegmentQueued, Silent
  <2>5. \/ UNCHANGED speech
        \/ NoteHangUp
        \/ \E text \in {"reply", "farewell"}, n \in 1..MaxSegments : Reply(text, n)
        \/ \E c \in Clients : SegmentQueued(c) \/ SpeechFails(c) \/ NoteSpeech(c)
        \/ \E p \in sleeping : SpeakPrompt(p)
        \/ \E n \in 1..SpeakSegments : SpeakText(n)
        \/ SpeakDropped
    BY DEF Next, vars, ThreadStep, TakeFrame, FinishInput, GiveUpTurn, HearWords, NoteWords,
           SpeechStep, AskSegment, WriteLine, PromptOutdated, SendBye, CallEnds,
           WorkerStep, Tick
  <2>6. CASE \/ NoteHangUp
             \/ \E text \in {"reply", "farewell"}, n \in 1..MaxSegments : Reply(text, n)
             \/ \E n \in 1..SpeakSegments : SpeakText(n)
    BY <2>0, <2>2, <2>6 DEF NoteHangUp, Reply, SpeakText
  <2>7. ASSUME NEW c \in Clients, SegmentQueued(c) \/ SpeechFails(c) \/ NoteSpeech(c)
        PROVE  FALSE
    BY <2>2, <2>3, <2>4, <2>7 DEF SpeechFails, NoteSpeech
  <2>8. ~SpeakDropped
    BY <2>0, <2>2 DEF SpeakDropped
  <2> QED
    BY <2>1, <2>5, <2>6, <2>7, <2>8
<1> QED
  BY <1>1, <1>2, <1>3, TypeInvariance, ThreadInvariance, MutexIsWanted, PTL
  DEF Spec, PromptsBreakSilence
=============================================================================
