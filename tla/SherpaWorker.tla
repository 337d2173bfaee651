---------------------------- MODULE SherpaWorker ----------------------------
(***************************************************************************)
(* The persistent speech worker (src/sherpa_onnx.rs): a Python process     *)
(* that answers one line of JSON with another, shared by all calls behind  *)
(* a mutex.                                                                *)
(*                                                                         *)
(* A line carries no identity: an answer belongs to whoever reads it.  A   *)
(* request that times out, or whose future is dropped, gives the mutex     *)
(* back and leaves behind what it had written; the process is never        *)
(* restarted.                                                              *)
(***************************************************************************)
EXTENDS Naturals, Sequences

CONSTANT Clients   \* tasks that use the worker, each for one request at a time

VARIABLES
    lock,      \* clients at PersistentWorker.inner; the first one holds it
    phase,     \* what the holder does: "write" or "read"
    asked,     \* number, modulo two, of a client's latest request
    stdin,     \* lines the worker has not read yet
    torn,      \* stdin ends in a part of a line
    stdout,    \* lines nobody has read yet
    process,   \* "alive" or "exited"
    spoilt     \* history: a request ended without its answer

workerVars == <<lock, phase, asked, stdin, torn, stdout, process, spoilt>>

\* A request line, and the answer line made from it.  Anything else is
\* refused by the reader: an error answer, or the rest of a line.
Request(c) == [by |-> c, nr |-> asked[c]]
Invalid == [by |-> "nobody", nr |-> 0]

\* The bridge has spawned the process and read its ready line.
WorkerInit ==
    /\ lock = <<>>
    /\ phase = "write"
    /\ asked = [c \in Clients |-> 0]
    /\ stdin = <<>>
    /\ torn = FALSE
    /\ stdout = <<>>
    /\ process = "alive"
    /\ spoilt = FALSE

-----------------------------------------------------------------------------
InLock(c) == \E i \in 1..Len(lock) : lock[i] = c
Holds(c, p) == lock # <<>> /\ Head(lock) = c /\ phase = p
Release == lock' = Tail(lock) /\ phase' = "write"

\* PersistentWorker::request waits for the mutex, which is fair.
Ask(c) ==
    /\ ~InLock(c)
    /\ lock' = Append(lock, c)
    /\ asked' = [asked EXCEPT ![c] = 1 - @]
    /\ UNCHANGED <<phase, stdin, torn, stdout, process, spoilt>>

\* A line completes what an earlier request left unfinished.
Written(c) == Append(stdin, IF torn THEN Invalid ELSE Request(c))

\* Mutation of WriteRequest: the mutex is released before the answer is read.
WriteRequestWithoutLock(c) ==
    /\ InLock(c) /\ phase = "write"
    /\ process = "alive"
    /\ stdin' = Written(c)
    /\ torn' = FALSE
    /\ phase' = "read"
    /\ UNCHANGED <<lock, asked, stdout, process, spoilt>>

\* The line, its end and the flush.
WriteRequest(c) ==
    /\ Holds(c, "write")
    /\ process = "alive"
    /\ stdin' = Written(c)
    /\ torn' = FALSE
    /\ phase' = "read"
    /\ UNCHANGED <<lock, asked, stdout, process, spoilt>>

\* One of the three writes times out, or the future is dropped in it: the line
\* reached the pipe or its buffer whole, in part or not at all.
WriteTimesOut(c) ==
    /\ Holds(c, "write")
    /\ process = "alive"
    /\ \/ UNCHANGED <<stdin, torn>>
       \/ torn' = TRUE /\ UNCHANGED stdin
       \/ torn' = FALSE /\ stdin' = Written(c)
    /\ spoilt' = TRUE
    /\ Release
    /\ UNCHANGED <<asked, stdout, process>>

WriteFails(c) ==
    /\ Holds(c, "write")
    /\ process = "exited"
    /\ Release
    /\ UNCHANGED <<asked, stdin, torn, stdout, process, spoilt>>

\* The answer is the next line, whoever's it is.
ReadAnswer(c) ==
    /\ Holds(c, "read")
    /\ stdout # <<>>
    /\ stdout' = Tail(stdout)
    /\ Release
    /\ UNCHANGED <<asked, stdin, torn, process, spoilt>>

\* Mutation of ReadTimesOut: read_line is awaited without a timeout.
ReadNeverTimesOut(c) == Holds(c, "read") /\ FALSE /\ UNCHANGED workerVars

\* The answer is late, or the future is dropped.  A part of the line that was
\* read already is lost.
ReadTimesOut(c) ==
    /\ Holds(c, "read")
    /\ stdout = <<>> /\ process = "alive"
    /\ \/ UNCHANGED <<stdin, stdout>>
       \/ stdin # <<>> /\ stdin' = Tail(stdin) /\ stdout' = <<Invalid>>
    /\ spoilt' = TRUE
    /\ Release
    /\ UNCHANGED <<asked, torn, process>>

\* read_line returns no bytes: the worker exited.
ReadFails(c) ==
    /\ Holds(c, "read")
    /\ stdout = <<>> /\ process = "exited"
    /\ Release
    /\ UNCHANGED <<asked, stdin, torn, stdout, process, spoilt>>

\* The future is dropped while it waits for the mutex.
LeaveQueue(c) ==
    /\ \E i \in 2..Len(lock) :
          /\ lock[i] = c
          /\ lock' = SubSeq(lock, 1, i - 1) \o SubSeq(lock, i + 1, Len(lock))
    /\ UNCHANGED <<phase, asked, stdin, torn, stdout, process, spoilt>>

\* The request ends without an answer.
RequestFails(c) ==
    \/ WriteTimesOut(c) \/ WriteFails(c) \/ ReadTimesOut(c) \/ ReadFails(c)

-----------------------------------------------------------------------------
(* The process: it answers line by line, with an error to what it cannot   *)
(* decode or synthesize, and may exit.                                     *)

AnswerLine ==
    /\ process = "alive"
    /\ stdin # <<>>
    /\ stdin' = Tail(stdin)
    /\ \E line \in {Head(stdin), Invalid} : stdout' = Append(stdout, line)
    /\ UNCHANGED <<lock, phase, asked, torn, process, spoilt>>

Exit ==
    /\ process = "alive"
    /\ process' = "exited"
    /\ stdin' = <<>>
    /\ torn' = FALSE
    /\ UNCHANGED <<lock, phase, asked, stdout, spoilt>>

-----------------------------------------------------------------------------
WorkerTypeOK ==
    /\ lock \in Seq(Clients)
    /\ \A i, j \in 1..Len(lock) : lock[i] = lock[j] => i = j
    /\ phase \in {"write", "read"}
    /\ phase = "read" => lock # <<>>
    /\ asked \in [Clients -> {0, 1}]
    /\ torn \in BOOLEAN
    /\ process \in {"alive", "exited"}
    /\ spoilt \in BOOLEAN

\* As long as no request ended without its answer, the pipes hold at most the
\* holder's request, or its answer: nothing is left for a later request to read.
InStep ==
    ~spoilt =>
       /\ ~torn
       /\ Len(stdin) + Len(stdout) <= (IF phase = "read" THEN 1 ELSE 0)
       /\ \A i \in 1..Len(stdin) : stdin[i] = Request(Head(lock))
       /\ \A i \in 1..Len(stdout) : stdout[i] \in {Request(Head(lock)), Invalid}
=============================================================================
