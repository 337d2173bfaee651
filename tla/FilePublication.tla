--------------------------- MODULE FilePublication ---------------------------
(***************************************************************************)
(* How the program gives a finished file its name, in the three ways it    *)
(* does: the phone book (src/phonebook.rs) is rewritten under one          *)
(* temporary name and replaces its predecessor, an encoded snapshot        *)
(* (pa/backup/writer.rs) is synchronized and renamed only if the name is   *)
(* free, and the copy of the database (pa/backup/source.rs) is linked to   *)
(* its name and loses its temporary one.                                   *)
(*                                                                         *)
(* A behaviour is about one of them, with several executions at the same   *)
(* time.  A step is a system call, or what a lock makes one step.  The     *)
(* snapshot has to survive a power loss; nothing says so of the others.    *)
(* Permission checks of the directories are left out.                      *)
(***************************************************************************)
EXTENDS Integers

CONSTANTS
    Kinds,      \* publications: "phone_book", "snapshot", "database"
    Writers,    \* concurrent executions
    MaxFiles,   \* bound: files created
    MaxBook,    \* bound: versions of the phone book
    MaxFaults   \* bound: failed calls, crashes and power losses

ASSUME PublicationAssumption ==
    /\ Kinds \subseteq {"phone_book", "snapshot", "database"}
    /\ "tmp" \notin Writers
    /\ MaxFiles \in Nat \ {0} /\ MaxBook \in Nat \ {0} /\ MaxFaults \in Nat

VARIABLES
    kind,          \* what is published
    place,         \* the file with the published name
    temp,          \* the files with temporary names
    content,       \* of every file: 0 as long as it is not whole
    synced,        \* files whose content has reached the disk
    disk,          \* the file that has the published name on the disk
    created,       \* files created so far
    book,          \* version of the phone book in memory, 0 without a process
    work,          \* the executions
    acknowledged,  \* history: files whose publication returned Ok
    overlapped,    \* history: a temporary phone book was opened twice
    faults         \* history

names == <<place, temp, disk>>
files == <<content, synced, created>>
history == <<acknowledged, overlapped, faults>>
vars == <<kind, names, files, book, work, history>>

NoFile == 0
Files == 1..MaxFiles
Resting == [point |-> "idle", file |-> NoFile, version |-> 0]

\* The process ended before the execution did: nothing of it runs any more,
\* and its temporary name is taken.
Cut == [Resting EXCEPT !.point = "cut"]

\* The temporary name: PHONE_BOOK.json.tmp, or one of the execution's own.
TempOf(w) == IF kind = "phone_book" THEN "tmp" ELSE w

\* The phone book has been loaded, or seeded and stored.
Init ==
    /\ kind \in Kinds
    /\ place = IF kind = "phone_book" THEN 1 ELSE NoFile
    /\ disk = place
    /\ temp = [n \in Writers \cup {"tmp"} |-> NoFile]
    /\ content = [f \in Files |-> IF f = place THEN 1 ELSE 0]
    /\ synced = {}
    /\ created = place
    /\ book = place
    /\ work = [w \in Writers |-> Resting]
    /\ acknowledged = {}
    /\ overlapped = FALSE
    /\ faults = 0

-----------------------------------------------------------------------------
At(w, point) == work[w].point = point
Go(w, point) == work' = [work EXCEPT ![w].point = point]
Return(w) == work' = [work EXCEPT ![w] = Resting]

\* Mutation of NewFile: the sequence number of the name is not advanced.
NewFileUncounted(w, point) ==
    /\ created < MaxFiles
    /\ created' = created
    /\ temp' = [temp EXCEPT ![TempOf(w)] = created + 1]
    /\ work' = [work EXCEPT ![w].point = point, ![w].file = created + 1]

\* A new, empty file gets the temporary name.
NewFile(w, point) ==
    /\ created < MaxFiles
    /\ created' = created + 1
    /\ temp' = [temp EXCEPT ![TempOf(w)] = created + 1]
    /\ work' = [work EXCEPT ![w].point = point, ![w].file = created + 1]

-----------------------------------------------------------------------------
(* The phone book.                                                         *)

\* Executions between the read lock of persist and its release.
Persisting == {w \in Writers : work[w].point \in {"open", "write", "rename"}}

\* Mutation of UpdateBook: persist does not hold the lock while it writes.
UpdateBookUnlocked(w) ==
    /\ kind = "phone_book" /\ book # 0
    /\ At(w, "idle")
    /\ book < MaxBook
    /\ book' = book + 1
    /\ Go(w, "persist")
    /\ UNCHANGED <<kind, names, files, history>>

\* touch_caller and merge_update change the book under the write lock and
\* then persist it.
UpdateBook(w) ==
    /\ kind = "phone_book" /\ book # 0
    /\ At(w, "idle")
    /\ Persisting = {}
    /\ book < MaxBook
    /\ book' = book + 1
    /\ Go(w, "persist")
    /\ UNCHANGED <<kind, names, files, history>>

\* persist takes the read lock, which others may have, and serializes.
Persist(w) ==
    /\ kind = "phone_book"
    /\ At(w, "persist")
    /\ work' = [work EXCEPT ![w].point = "open", ![w].version = book]
    /\ UNCHANGED <<kind, names, files, book, history>>

\* Mutation of OpenTruncated: the published file is written in place.
OpenInPlace(w) ==
    /\ kind = "phone_book"
    /\ At(w, "open")
    /\ content' = [content EXCEPT ![place] = 0]
    /\ work' = [work EXCEPT ![w].point = "write", ![w].file = place]
    /\ UNCHANGED <<kind, names, synced, created, book, history>>

\* fs::write opens the temporary file, new or truncated, ...
OpenTruncated(w) ==
    /\ kind = "phone_book"
    /\ At(w, "open")
    /\ overlapped' = (overlapped \/ \E v \in Persisting : ~At(v, "open"))
    /\ IF temp["tmp"] = NoFile
       THEN NewFile(w, "write") /\ UNCHANGED content
       ELSE /\ content' = [content EXCEPT ![temp["tmp"]] = 0]
            /\ work' = [work EXCEPT ![w].point = "write",
                                    ![w].file = temp["tmp"]]
            /\ UNCHANGED <<temp, created>>
    /\ UNCHANGED <<kind, place, disk, synced, book, acknowledged, faults>>

\* ... and writes it.
WriteBook(w) ==
    /\ kind = "phone_book"
    /\ At(w, "write")
    /\ content' = [content EXCEPT ![work[w].file] = work[w].version]
    /\ Go(w, "rename")
    /\ UNCHANGED <<kind, names, synced, created, book, history>>

\* The temporary file, whoever made it, replaces the published one.  Without
\* one the execution returns an error.
RenameOver(w) ==
    /\ kind = "phone_book"
    /\ At(w, "rename")
    /\ IF temp["tmp"] = NoFile THEN UNCHANGED <<place, temp>>
       ELSE /\ place' = temp["tmp"]
            /\ temp' = [temp EXCEPT !["tmp"] = NoFile]
    /\ Return(w)
    /\ UNCHANGED <<kind, disk, files, book, history>>

\* load: a phone book that is not whole is an error, and there is no service.
LoadBook ==
    /\ kind = "phone_book" /\ book = 0
    /\ content[place] # 0
    /\ book' = content[place]
    /\ UNCHANGED <<kind, names, files, work, history>>

-----------------------------------------------------------------------------
(* Snapshots and copies of the database.                                   *)

\* The destination must be absent.
Begin(w) ==
    /\ kind # "phone_book"
    /\ At(w, "idle")
    /\ place = NoFile
    /\ Go(w, "create")
    /\ UNCHANGED <<kind, names, files, book, history>>

\* The temporary file is created exclusively; a name that is taken, by another
\* execution or by one that a process left behind, is skipped.  (So many of
\* them that the execution gives up are one of the calls that fail.)
CreateTemporary(w) ==
    /\ At(w, "create")
    /\ NewFile(w, "write")
    /\ UNCHANGED <<kind, place, disk, content, synced, book, history>>

\* Mutation of WriteWhole: the file is not synchronized.
WriteWholeUnsynced(w) ==
    /\ kind # "phone_book"
    /\ At(w, "write")
    /\ content' = [content EXCEPT ![work[w].file] = 1]
    /\ Go(w, IF kind = "snapshot" THEN "check" ELSE "publish")
    /\ UNCHANGED <<kind, names, synced, created, book, history>>

\* write_all; or the pages of the live database, and their validation.
WriteWhole(w) ==
    /\ kind # "phone_book"
    /\ At(w, "write")
    /\ content' = [content EXCEPT ![work[w].file] = 1]
    /\ Go(w, IF kind = "snapshot" THEN "sync" ELSE "publish")
    /\ UNCHANGED <<kind, names, synced, created, book, history>>

SyncFile(w) ==
    /\ At(w, "sync")
    /\ synced' = synced \cup {work[w].file}
    /\ Go(w, "check")
    /\ UNCHANGED <<kind, names, content, created, book, history>>

\* Drop removes the temporary file if the name still belongs to it.  (It
\* ignores a failure of that, which is left out.)
DropTemporary(w) ==
    temp' = [temp EXCEPT ![w] = IF @ = work[w].file THEN NoFile ELSE @]

Owned(w) == temp[w] = work[w].file

\* Mutation of CheckAgain: what it finds ends the execution without Drop.
CheckAgainDisarmed(w) ==
    /\ At(w, "check")
    /\ IF place = NoFile /\ Owned(w) THEN Go(w, "publish") ELSE Return(w)
    /\ UNCHANGED <<kind, names, files, book, history>>

\* The destination is looked for a second time, and the temporary file.
CheckAgain(w) ==
    /\ At(w, "check")
    /\ IF place = NoFile /\ Owned(w) THEN Go(w, "publish") /\ UNCHANGED temp
       ELSE Return(w) /\ DropTemporary(w)
    /\ UNCHANGED <<kind, place, disk, files, book, history>>

\* Mutation of Publish: a rename that replaces.
PublishReplacing(w) ==
    /\ At(w, "publish")
    /\ IF ~Owned(w)
       THEN Return(w) /\ DropTemporary(w) /\ UNCHANGED place
       ELSE /\ place' = work[w].file
            /\ IF kind = "snapshot"
               THEN temp' = [temp EXCEPT ![w] = NoFile] /\ Go(w, "sync_parent")
               ELSE UNCHANGED temp /\ Go(w, "drop")
    /\ UNCHANGED <<kind, disk, files, book, history>>

\* renameat with RENAME_NOREPLACE; or hard_link, which does not replace either
\* and leaves the temporary name to Drop.  What is wrong ends the execution.
Publish(w) ==
    /\ At(w, "publish")
    /\ IF place # NoFile \/ ~Owned(w)
       THEN Return(w) /\ DropTemporary(w) /\ UNCHANGED place
       ELSE /\ place' = work[w].file
            /\ IF kind = "snapshot"
               THEN temp' = [temp EXCEPT ![w] = NoFile] /\ Go(w, "sync_parent")
               ELSE UNCHANGED temp /\ Go(w, "drop")
    /\ UNCHANGED <<kind, disk, files, book, history>>

\* sync_parent_directory, after which write returns Ok.
SyncParent(w) ==
    /\ At(w, "sync_parent")
    /\ disk' = place
    /\ acknowledged' = acknowledged \cup {work[w].file}
    /\ Return(w)
    /\ UNCHANGED <<kind, place, temp, files, book, overlapped, faults>>

\* The attempt guard is dropped, and backup_to_path returns Ok.
DropAttempt(w) ==
    /\ At(w, "drop")
    /\ DropTemporary(w)
    /\ acknowledged' = acknowledged \cup {work[w].file}
    /\ Return(w)
    /\ UNCHANGED <<kind, place, disk, files, book, overlapped, faults>>

-----------------------------------------------------------------------------
(* Failures.                                                               *)

Fault == faults < MaxFaults /\ faults' = faults + 1

\* A system call fails, the database cannot be copied or validated.  Only the
\* backups clean up behind it.
CallFails(w) ==
    /\ Fault
    /\ work[w].point \notin {"idle", "drop", "cut"}
    /\ Return(w)
    /\ IF kind = "phone_book" THEN UNCHANGED temp ELSE DropTemporary(w)
    /\ UNCHANGED <<kind, place, disk, files, book, acknowledged, overlapped>>

\* Somebody removes a temporary file.
TemporaryRemoved(n) ==
    /\ Fault
    /\ temp[n] # NoFile
    /\ temp' = [temp EXCEPT ![n] = NoFile]
    /\ UNCHANGED <<kind, place, disk, files, book, work, acknowledged, overlapped>>

\* The process ends.  No Drop runs: the temporary files stay.
ProcessEnds ==
    /\ work' = [w \in Writers |-> IF temp'[w] = NoFile THEN Resting ELSE Cut]
    /\ book' = 0

Crash ==
    /\ Fault
    /\ UNCHANGED temp
    /\ ProcessEnds
    /\ UNCHANGED <<kind, place, disk, files, acknowledged, overlapped>>

\* What was not synchronized may be lost, contents and names, among these the
\* removal of a name: any temporary name may be there again.
PowerLoss ==
    /\ Fault
    /\ kind = "snapshot"
    /\ \E left \in [Writers -> 0..created] :
          temp' = [n \in DOMAIN temp |-> IF n = "tmp" THEN NoFile ELSE left[n]]
    /\ ProcessEnds
    /\ \E lost \in SUBSET {f \in Files \ synced : content[f] # 0} :
          content' = [f \in Files |-> IF f \in lost THEN 0 ELSE content[f]]
    /\ place' \in {place, disk}
    /\ disk' = place'
    /\ UNCHANGED <<kind, synced, created, acknowledged, overlapped>>

-----------------------------------------------------------------------------
PhoneBookStep(w) ==
    \/ UpdateBook(w) \/ Persist(w) \/ OpenTruncated(w) \/ WriteBook(w)
    \/ RenameOver(w)

BackupStep(w) ==
    \/ Begin(w) \/ CreateTemporary(w) \/ WriteWhole(w) \/ SyncFile(w) \/ CheckAgain(w)
    \/ Publish(w) \/ SyncParent(w) \/ DropAttempt(w)

Next ==
    \/ \E w \in Writers : PhoneBookStep(w) \/ BackupStep(w) \/ CallFails(w)
    \/ LoadBook
    \/ \E n \in DOMAIN temp : TemporaryRemoved(n)
    \/ Crash \/ PowerLoss

Spec == Init /\ [][Next]_vars

-----------------------------------------------------------------------------
(* Properties.                                                             *)

Points == {"idle", "persist", "open", "write", "rename", "create", "sync",
           "check", "publish", "sync_parent", "drop", "cut"}

TypeOK ==
    /\ kind \in {"phone_book", "snapshot", "database"}
    /\ place \in 0..created /\ disk \in 0..created
    /\ temp \in [Writers \cup {"tmp"} -> 0..created]
    /\ content \in [Files -> 0..MaxBook]
    /\ synced \subseteq 1..created
    /\ created \in 0..MaxFiles
    /\ book \in 0..MaxBook
    /\ work \in [Writers -> [point : Points, file : 0..created, version : 0..MaxBook]]
    /\ acknowledged \subseteq 1..created
    /\ overlapped \in BOOLEAN
    /\ faults \in 0..MaxFaults

\* Whoever opens the published name finds a whole file.  Only the phone book
\* may be truncated, after two persists opened its temporary file: by one that
\* is about to write it, or for good if that one fails or the process ends.
PublishedIsWhole ==
    place # NoFile /\ content[place] = 0 =>
       /\ overlapped
       /\ faults > 0 \/ \E w \in Writers : At(w, "write") /\ work[w].file = place

\* A published backup is never replaced, and a phone book only by one that is
\* not older.
NothingOlder ==
    [][place # NoFile /\ place' \notin {place, NoFile} =>
          /\ kind = "phone_book"
          /\ content'[place'] # 0 => content'[place'] >= content[place]]_vars

\* A backup that returned Ok stays, whole and under its name, through a crash
\* of the process, and a snapshot through a loss of power.
AcknowledgedSurvives ==
    \A f \in acknowledged : place = f /\ content[f] # 0

\* When no execution is under way and nothing failed, the file is the phone
\* book in memory, whatever the executions overwrote of each other's.
QuietBookIsStored ==
    (\A w \in Writers : At(w, "idle")) /\ faults = 0 /\ kind = "phone_book" =>
       content[place] = book

\* No execution that returned leaves a temporary file, be it with Ok or with
\* an error at any of its calls.  (One that the end of the process cuts off
\* does: it is not idle but cut.)
NothingLeftBehind ==
    \A w \in Writers : At(w, "idle") => temp[w] = NoFile
=============================================================================
