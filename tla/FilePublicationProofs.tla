------------------------ MODULE FilePublicationProofs ------------------------
(***************************************************************************)
(* Theorems about FilePublication for any executions, files, versions of   *)
(* the phone book and failures.                                            *)
(***************************************************************************)
EXTENDS FilePublication, TLAPS

-----------------------------------------------------------------------------
(* The inductive invariant.                                                *)

\* An execution has opened the temporary phone book.
Writing(w) == work[w].point \in {"write", "rename"}

\* A backup has made its temporary file.
Holding(w) == work[w].point \notin {"idle", "create", "cut"}

\* A backup has published its file.
Published(w) == work[w].point \in {"sync_parent", "drop"}

PhoneBook == kind = "phone_book"
Snapshot == kind = "snapshot"

\* Files that are still to be created are empty.
Unborn == PhoneBook => \A f \in Files : f > created => content[f] = 0

\* Everybody who persists does so with the book that is in memory.
BookInOrder ==
    PhoneBook =>
       /\ place # NoFile /\ acknowledged = {}
       /\ temp["tmp"] # place
       /\ \A w \in Writers :
             /\ temp[w] = NoFile
             /\ work[w].point \in {"idle", "persist", "open", "write", "rename"}
             /\ ~At(w, "idle") => book # 0
             /\ w \in Persisting => work[w].version = book
             /\ Writing(w) => work[w].file # NoFile
             /\ Writing(w) /\ temp["tmp"] # NoFile => content[temp["tmp"]] \in {0, book}
       /\ book # 0 => content[place] <= book

\* Until two executions have the temporary file open it has one writer.
OneWriter ==
    PhoneBook /\ ~overlapped =>
       /\ content[place] # 0
       /\ \A w \in Writers : Writing(w) =>
             /\ \A v \in Writers : Writing(v) => v = w
             /\ work[w].file # place
             /\ temp["tmp"] \in {NoFile, work[w].file}
             /\ At(w, "rename") => content[work[w].file] # 0

\* Without a failure every empty file is about to be written.
EmptyIsOpen ==
    PhoneBook /\ faults = 0 =>
       \A f \in Files : f <= created /\ content[f] = 0 =>
          \E w \in Writers : At(w, "write") /\ work[w].file = f

\* The file has the book in memory, or is about to.
Fresh(f) ==
    \/ content[f] = book
    \/ \E w \in Writers : At(w, "write") /\ work[w].file = f

\* Without a failure whoever finds the temporary file missing finds that it
\* was published with the same book.
BookIsKept ==
    PhoneBook /\ faults = 0 =>
       /\ book # 0
       /\ temp["tmp"] # NoFile => /\ Fresh(temp["tmp"])
                                  /\ \E w \in Writers : Writing(w)
       /\ \/ Fresh(place)
          \/ \E w \in Writers : At(w, "persist") \/ At(w, "open")
          \/ temp["tmp"] # NoFile

\* Every backup has a file of its own, which nobody has published before.
BackupInOrder ==
    ~PhoneBook =>
       /\ \A w \in Writers :
             /\ work[w].point \in {"idle", "create", "write", "sync", "check",
                                   "publish", "sync_parent", "drop", "cut"}
             /\ temp[w] # NoFile =>
                   At(w, "cut") \/ (Holding(w) /\ temp[w] = work[w].file)
             /\ At(w, "sync_parent") => temp[w] = NoFile
             /\ Holding(w) => work[w].file # NoFile
             /\ Holding(w) /\ ~Published(w) => work[w].file # place
             /\ Published(w) => work[w].file = place
             /\ Holding(w) /\ ~At(w, "write") => content[work[w].file] # 0
       /\ \A v, w \in Writers :
             Holding(v) /\ Holding(w) /\ v # w => work[v].file # work[w].file
       /\ place # NoFile => content[place] # 0
       /\ \A f \in acknowledged : f = place

\* What a snapshot promises is on the disk.
SnapshotInOrder ==
    Snapshot =>
       /\ \A w \in Writers :
             /\ ~At(w, "drop")
             /\ work[w].point \in {"check", "publish", "sync_parent"}
                   => work[w].file \in synced
       /\ \A f \in synced : content[f] # 0
       /\ place # NoFile => place \in synced
       /\ disk \in {NoFile, place}
       /\ \A f \in acknowledged : f = disk

-----------------------------------------------------------------------------
(* What a step leaves in the record of its execution.                      *)

Records(F, V) == [point : Points, file : F, version : V]

\* Only w moves, to these values.
Moves(w, p, f, n) ==
    /\ \A v \in Writers : v # w => work'[v] = work[v]
    /\ work'[w].point = p /\ work'[w].file = f /\ work'[w].version = n

LEMMA Goes ==
    ASSUME NEW F, NEW V, work \in [Writers -> Records(F, V)], NEW w \in Writers,
           NEW p \in Points, Go(w, p)
    PROVE  /\ work' \in [Writers -> Records(F, V)]
           /\ Moves(w, p, work[w].file, work[w].version)
<1> DEFINE r == [work[w] EXCEPT !.point = p]
<1>1. work[w] \in Records(F, V)
  OBVIOUS
<1>2. r \in Records(F, V) /\ r.point = p /\ r.file = work[w].file /\ r.version = work[w].version
  BY <1>1 DEF Records
<1>3. work' = [work EXCEPT ![w] = r]
  BY DEF Go
<1> HIDE DEF r
<1> QED
  BY <1>2, <1>3 DEF Moves

LEMMA GoesWithFile ==
    ASSUME NEW F, NEW V, work \in [Writers -> Records(F, V)], NEW w \in Writers,
           NEW p \in Points, NEW f \in F,
           work' = [work EXCEPT ![w].point = p, ![w].file = f]
    PROVE  /\ work' \in [Writers -> Records(F, V)]
           /\ Moves(w, p, f, work[w].version)
<1> DEFINE r == [work[w] EXCEPT !.point = p, !.file = f]
<1>1. work[w] \in Records(F, V)
  OBVIOUS
<1>2. r \in Records(F, V) /\ r.point = p /\ r.file = f /\ r.version = work[w].version
  BY <1>1 DEF Records
<1>3. work' = [work EXCEPT ![w] = r]
  OBVIOUS
<1> HIDE DEF r
<1> QED
  BY <1>2, <1>3 DEF Moves

LEMMA GoesWithVersion ==
    ASSUME NEW F, NEW V, work \in [Writers -> Records(F, V)], NEW w \in Writers,
           NEW p \in Points, NEW n \in V,
           work' = [work EXCEPT ![w].point = p, ![w].version = n]
    PROVE  /\ work' \in [Writers -> Records(F, V)]
           /\ Moves(w, p, work[w].file, n)
<1> DEFINE r == [work[w] EXCEPT !.point = p, !.version = n]
<1>1. work[w] \in Records(F, V)
  OBVIOUS
<1>2. r \in Records(F, V) /\ r.point = p /\ r.file = work[w].file /\ r.version = n
  BY <1>1 DEF Records
<1>3. work' = [work EXCEPT ![w] = r]
  OBVIOUS
<1> HIDE DEF r
<1> QED
  BY <1>2, <1>3 DEF Moves

LEMMA Returns ==
    ASSUME NEW F, NEW V, work \in [Writers -> Records(F, V)], NEW w \in Writers,
           0 \in F, 0 \in V, Return(w)
    PROVE  work' \in [Writers -> Records(F, V)] /\ Moves(w, "idle", 0, 0)
<1>1. /\ Resting \in Records(F, V)
      /\ Resting.point = "idle" /\ Resting.file = 0 /\ Resting.version = 0
  BY DEF Resting, Records, Points, NoFile
<1> QED
  BY <1>1 DEF Return, Moves

WorkTyped == work \in [Writers -> Records(Nat, Nat)]

Stays(w, p) == Moves(w, p, work[w].file, work[w].version)

(* TypeOK, with the executions apart. *)
TypeNames ==
    /\ kind \in {"phone_book", "snapshot", "database"}
    /\ place \in 0..created /\ disk \in 0..created
    /\ temp \in [Writers \cup {"tmp"} -> 0..created]
TypeFiles ==
    /\ content \in [Files -> 0..MaxBook]
    /\ synced \subseteq 1..created
    /\ created \in 0..MaxFiles
TypeWork ==
    /\ book \in 0..MaxBook
    /\ WorkTyped
    /\ \A w \in Writers : /\ work[w].file \in 0..created
                          /\ work[w].version \in 0..MaxBook
TypeHistory ==
    /\ acknowledged \subseteq 1..created
    /\ overlapped \in BOOLEAN
    /\ faults \in 0..MaxFaults
Types == TypeNames /\ TypeFiles /\ TypeWork /\ TypeHistory

LEMMA Typed == TypeOK <=> Types
<1>1. created \in 0..MaxFiles
        => \A r : r \in Records(0..created, 0..MaxBook)
                    <=> r \in Records(Nat, Nat) /\ r.file \in 0..created
                                                /\ r.version \in 0..MaxBook
  BY PublicationAssumption DEF Records
<1>2. created \in 0..MaxFiles
        => (work \in [Writers -> Records(0..created, 0..MaxBook)]
              <=> WorkTyped /\ \A w \in Writers : /\ work[w].file \in 0..created
                                                  /\ work[w].version \in 0..MaxBook)
  BY <1>1 DEF WorkTyped
<1> QED
  BY <1>2 DEF TypeOK, Records, Types, TypeNames, TypeFiles, TypeWork, TypeHistory

LEMMA PhoneBookMoves ==
    ASSUME Types, NEW w \in Writers
    PROVE  /\ UpdateBook(w) => WorkTyped' /\ Stays(w, "persist")
           /\ Persist(w) => WorkTyped' /\ Moves(w, "open", work[w].file, book)
           /\ OpenTruncated(w) =>
                 /\ WorkTyped'
                 /\ Moves(w, "write", temp'["tmp"], work[w].version)
           /\ WriteBook(w) => WorkTyped' /\ Stays(w, "rename")
           /\ RenameOver(w) => WorkTyped' /\ Moves(w, "idle", 0, 0)
<1>1. WorkTyped /\ book \in Nat /\ created \in Nat /\ 0 \in Nat
  BY PublicationAssumption DEF Types, TypeNames, TypeFiles, TypeWork, TypeHistory
<1>2. {"persist", "open", "write", "rename"} \subseteq Points
  BY DEF Points
<1>3. UpdateBook(w) => WorkTyped' /\ Stays(w, "persist")
  BY <1>1, <1>2, Goes DEF UpdateBook, WorkTyped, Stays
<1>4. Persist(w) => WorkTyped' /\ Moves(w, "open", work[w].file, book)
  BY <1>1, <1>2, GoesWithVersion DEF Persist, WorkTyped
<1>5. ASSUME OpenTruncated(w)
      PROVE  WorkTyped' /\ Moves(w, "write", temp'["tmp"], work[w].version)
  <2>1. /\ temp'["tmp"] \in Nat
        /\ work' = [work EXCEPT ![w].point = "write", ![w].file = temp'["tmp"]]
    <3>1. CASE temp["tmp"] = NoFile
      <4>1. temp' = [temp EXCEPT !["tmp"] = created + 1]
        BY <1>5, <3>1 DEF OpenTruncated, NewFile, TempOf
      <4>2. temp'["tmp"] = created + 1
        BY <4>1 DEF Types, TypeNames, TypeFiles, TypeWork, TypeHistory
      <4> QED
        BY <1>1, <1>5, <3>1, <4>2 DEF OpenTruncated, NewFile
    <3>2. CASE temp["tmp"] # NoFile
      <4>1. temp["tmp"] \in Nat
        BY DEF Types, TypeNames, TypeFiles, TypeWork, TypeHistory
      <4> QED
        BY <1>5, <3>2, <4>1 DEF OpenTruncated
    <3> QED
      BY <3>1, <3>2
  <2> QED
    BY <1>1, <1>2, <2>1, GoesWithFile DEF WorkTyped
<1>6. WriteBook(w) => WorkTyped' /\ Stays(w, "rename")
  BY <1>1, <1>2, Goes DEF WriteBook, WorkTyped, Stays
<1>7. RenameOver(w) => WorkTyped' /\ Moves(w, "idle", 0, 0)
  BY <1>1, Returns DEF RenameOver, WorkTyped
<1> QED
  BY <1>3, <1>4, <1>5, <1>6, <1>7

LEMMA BackupMoves ==
    ASSUME Types, NEW w \in Writers
    PROVE  /\ Begin(w) => WorkTyped' /\ Stays(w, "create")
           /\ CreateTemporary(w) =>
                 WorkTyped' /\ Moves(w, "write", created + 1, work[w].version)
           /\ WriteWhole(w) =>
                 /\ WorkTyped'
                 /\ Stays(w, IF kind = "snapshot" THEN "sync" ELSE "publish")
           /\ SyncFile(w) => WorkTyped' /\ Stays(w, "check")
           /\ CheckAgain(w) =>
                 /\ WorkTyped'
                 /\ IF place = NoFile /\ Owned(w) THEN Stays(w, "publish")
                    ELSE Moves(w, "idle", 0, 0)
           /\ Publish(w) =>
                 /\ WorkTyped'
                 /\ IF place # NoFile \/ ~Owned(w) THEN Moves(w, "idle", 0, 0)
                    ELSE Stays(w, IF kind = "snapshot" THEN "sync_parent" ELSE "drop")
           /\ SyncParent(w) => WorkTyped' /\ Moves(w, "idle", 0, 0)
           /\ DropAttempt(w) => WorkTyped' /\ Moves(w, "idle", 0, 0)
           /\ CallFails(w) => WorkTyped' /\ Moves(w, "idle", 0, 0)
<1>1. WorkTyped /\ created + 1 \in Nat /\ 0 \in Nat
  BY PublicationAssumption DEF Types, TypeNames, TypeFiles, TypeWork, TypeHistory
<1>2. {"create", "write", "sync", "check", "publish", "sync_parent", "drop"}
        \subseteq Points
  BY DEF Points
<1>3. Return(w) => WorkTyped' /\ Moves(w, "idle", 0, 0)
  BY <1>1, Returns DEF WorkTyped
<1>4. \A p \in Points : Go(w, p) => WorkTyped' /\ Stays(w, p)
  BY <1>1, Goes DEF WorkTyped, Stays
<1>5. CreateTemporary(w) =>
         WorkTyped' /\ Moves(w, "write", created + 1, work[w].version)
  BY <1>1, <1>2, GoesWithFile DEF CreateTemporary, NewFile, WorkTyped
<1>6. /\ Begin(w) => WorkTyped' /\ Stays(w, "create")
      /\ SyncFile(w) => WorkTyped' /\ Stays(w, "check")
  BY <1>2, <1>4 DEF Begin, SyncFile
<1>7. WriteWhole(w) =>
         /\ WorkTyped'
         /\ Stays(w, IF kind = "snapshot" THEN "sync" ELSE "publish")
  <2>1. (IF kind = "snapshot" THEN "sync" ELSE "publish") \in Points
    BY <1>2
  <2> QED
    BY <2>1, <1>4 DEF WriteWhole
<1>8. CheckAgain(w) =>
         /\ WorkTyped'
         /\ IF place = NoFile /\ Owned(w) THEN Stays(w, "publish")
            ELSE Moves(w, "idle", 0, 0)
  BY <1>2, <1>3, <1>4 DEF CheckAgain
<1>9. Publish(w) =>
         /\ WorkTyped'
         /\ IF place # NoFile \/ ~Owned(w) THEN Moves(w, "idle", 0, 0)
            ELSE Stays(w, IF kind = "snapshot" THEN "sync_parent" ELSE "drop")
  BY <1>2, <1>3, <1>4 DEF Publish
<1>10. /\ SyncParent(w) => WorkTyped' /\ Moves(w, "idle", 0, 0)
       /\ DropAttempt(w) => WorkTyped' /\ Moves(w, "idle", 0, 0)
       /\ CallFails(w) => WorkTyped' /\ Moves(w, "idle", 0, 0)
  BY <1>3 DEF SyncParent, DropAttempt, CallFails
<1> QED
  BY <1>5, <1>6, <1>7, <1>8, <1>9, <1>10

LEMMA NothingRuns ==
    ASSUME ProcessEnds
    PROVE  /\ WorkTyped'
           /\ \A w \in Writers :
                 /\ work'[w].point = IF temp'[w] = NoFile THEN "idle" ELSE "cut"
                 /\ work'[w].file = 0 /\ work'[w].version = 0
<1>1. /\ Resting \in Records(Nat, Nat)
      /\ Resting.point = "idle" /\ Resting.file = 0 /\ Resting.version = 0
  BY DEF Resting, Records, Points, NoFile
<1>2. /\ Cut \in Records(Nat, Nat)
      /\ Cut.point = "cut" /\ Cut.file = 0 /\ Cut.version = 0
  BY <1>1 DEF Cut, Records, Points
<1> QED
  BY <1>1, <1>2 DEF ProcessEnds, WorkTyped

-----------------------------------------------------------------------------
(* Types.                                                                  *)

LEMMA NewFileTypes ==
    ASSUME Types, NEW w \in Writers, NEW p, NewFile(w, p)
    PROVE  /\ created' = created + 1 /\ created' \in 1..MaxFiles
           /\ temp' \in [Writers \cup {"tmp"} -> 0..created']
           /\ temp'[TempOf(w)] = created + 1
           /\ \A n \in Writers \cup {"tmp"} : n # TempOf(w) => temp'[n] = temp[n]
<1>1. created' = created + 1 /\ created' \in 1..MaxFiles
  BY PublicationAssumption DEF Types, TypeNames, TypeFiles, TypeWork, TypeHistory, NewFile
<1>2. temp' = [temp EXCEPT ![TempOf(w)] = created + 1] /\ TempOf(w) \in Writers \cup {"tmp"}
  BY DEF NewFile, TempOf
<1>3. \A n \in Writers \cup {"tmp"} : temp[n] \in 0..created'
  BY <1>1, PublicationAssumption DEF Types, TypeNames, TypeFiles, TypeWork, TypeHistory
<1>4. created + 1 \in 0..created'
  BY <1>1, PublicationAssumption DEF Types, TypeNames, TypeFiles, TypeWork, TypeHistory
<1>5. temp \in [Writers \cup {"tmp"} -> 0..created]
  BY DEF Types, TypeNames, TypeFiles, TypeWork, TypeHistory
<1> HIDE DEF NewFile
<1> QED
  BY <1>1, <1>2, <1>3, <1>4, <1>5

LEMMA DropTypes ==
    ASSUME Types, NEW w \in Writers, DropTemporary(w)
    PROVE  /\ temp' \in [Writers \cup {"tmp"} -> 0..created]
           /\ temp'[w] = IF temp[w] = work[w].file THEN NoFile ELSE temp[w]
           /\ \A n \in Writers \cup {"tmp"} : n # w => temp'[n] = temp[n]
BY PublicationAssumption DEF Types, TypeNames, TypeFiles, TypeWork, TypeHistory, DropTemporary, NoFile

LEMMA MovesTyped ==
    ASSUME Types, NEW w \in Writers, NEW p, NEW f \in 0..created',
           NEW n \in 0..MaxBook,
           created' \in Nat, created <= created', book' \in 0..MaxBook,
           WorkTyped', Moves(w, p, f, n)
    PROVE  TypeWork'
BY PublicationAssumption DEF Types, TypeFiles, TypeWork, Moves

LEMMA StaysTyped ==
    ASSUME Types, NEW w \in Writers, NEW p, created' = created, book' \in 0..MaxBook,
           WorkTyped', Stays(w, p)
    PROVE  TypeWork'
BY PublicationAssumption DEF Types, TypeFiles, TypeWork, Stays, Moves

LEMMA RestsTyped ==
    ASSUME Types, NEW w \in Writers, created' = created, book' = book,
           WorkTyped', Moves(w, "idle", 0, 0)
    PROVE  TypeWork'
BY PublicationAssumption DEF Types, TypeFiles, TypeWork, Moves

LEMMA PhoneBookTypes ==
    ASSUME Types, NEW w \in Writers, PhoneBookStep(w)
    PROVE  Types'
<1> USE DEF Types
<1>1. CASE UpdateBook(w)
  <2>1. UNCHANGED <<kind, place, temp, disk, content, synced, created, acknowledged,
                    overlapped, faults>>
    BY <1>1 DEF UpdateBook, names, files, history
  <2>2. book' \in 0..MaxBook
    BY <1>1, PublicationAssumption DEF UpdateBook, TypeWork
  <2>3. TypeWork'
    BY <1>1, <2>1, <2>2, PhoneBookMoves, StaysTyped
  <2> QED
    BY <2>1, <2>3 DEF TypeNames, TypeFiles, TypeHistory
<1>2. CASE Persist(w)
  <2>1. UNCHANGED <<kind, place, temp, disk, content, synced, created, book,
                    acknowledged, overlapped, faults>>
    BY <1>2 DEF Persist, names, files, history
  <2>2. /\ created' \in Nat /\ created <= created' /\ book' \in 0..MaxBook
        /\ work[w].file \in 0..created' /\ book \in 0..MaxBook
    BY <2>1, PublicationAssumption DEF TypeWork, TypeFiles
  <2>3. TypeWork'
    BY <1>2, <2>2, PhoneBookMoves, MovesTyped
  <2> QED
    BY <2>1, <2>3 DEF TypeNames, TypeFiles, TypeHistory
<1>3. CASE OpenTruncated(w)
  <2>1. WorkTyped' /\ Moves(w, "write", temp'["tmp"], work[w].version)
    BY <1>3, PhoneBookMoves
  <2>2. /\ UNCHANGED <<kind, place, disk, synced, book, acknowledged, faults>>
        /\ overlapped' \in BOOLEAN
    BY <1>3 DEF OpenTruncated
  <2>3. /\ created' \in 0..MaxFiles /\ created <= created'
        /\ temp' \in [Writers \cup {"tmp"} -> 0..created']
        /\ content' \in [Files -> 0..MaxBook]
    <3>1. CASE temp["tmp"] = NoFile
      <4>1. NewFile(w, "write") /\ UNCHANGED content
        BY <1>3, <3>1 DEF OpenTruncated
      <4>2. /\ created' = created + 1 /\ created' \in 1..MaxFiles
            /\ temp' \in [Writers \cup {"tmp"} -> 0..created']
        BY <4>1, NewFileTypes
      <4>3. created' \in 0..MaxFiles /\ created <= created'
        BY <4>2, PublicationAssumption DEF TypeFiles
      <4> QED
        BY <4>1, <4>2, <4>3 DEF TypeFiles
    <3>2. CASE temp["tmp"] # NoFile
      <4>1. /\ content' = [content EXCEPT ![temp["tmp"]] = 0]
            /\ UNCHANGED <<temp, created>>
        BY <1>3, <3>2 DEF OpenTruncated
      <4>2. created' \in 0..MaxFiles /\ created <= created' /\ 0 \in 0..MaxBook
        BY <4>1, PublicationAssumption DEF TypeFiles
      <4>3. content' \in [Files -> 0..MaxBook]
        BY <4>1, <4>2 DEF TypeFiles
      <4> QED
        BY <4>1, <4>2, <4>3 DEF TypeNames
    <3> QED
      BY <3>1, <3>2
  <2>4. /\ created' \in Nat /\ book' \in 0..MaxBook
        /\ temp'["tmp"] \in 0..created' /\ work[w].version \in 0..MaxBook
    BY <2>2, <2>3, PublicationAssumption DEF TypeWork
  <2>5. TypeWork'
    BY <2>1, <2>3, <2>4, MovesTyped
  <2>6. 0..created \subseteq 0..created' /\ 1..created \subseteq 1..created'
    BY <2>3, PublicationAssumption DEF TypeFiles
  <2> QED
    BY <2>2, <2>3, <2>5, <2>6 DEF TypeNames, TypeFiles, TypeHistory
<1>4. CASE WriteBook(w)
  <2>1. UNCHANGED <<kind, place, temp, disk, synced, created, book, acknowledged,
                    overlapped, faults>>
    BY <1>4 DEF WriteBook, names, history
  <2>2. content' \in [Files -> 0..MaxBook]
    BY <1>4 DEF WriteBook, TypeFiles, TypeWork
  <2>3. TypeWork'
    BY <1>4, <2>1, PhoneBookMoves, StaysTyped DEF TypeWork
  <2> QED
    BY <2>1, <2>2, <2>3 DEF TypeNames, TypeFiles, TypeHistory
<1>5. CASE RenameOver(w)
  <2>1. UNCHANGED <<kind, disk, content, synced, created, book, acknowledged,
                    overlapped, faults>>
    BY <1>5 DEF RenameOver, files, history
  <2>2. temp' \in [Writers \cup {"tmp"} -> 0..created] /\ place' \in 0..created
    BY <1>5, PublicationAssumption DEF RenameOver, TypeNames, TypeFiles, NoFile
  <2>3. TypeWork'
    BY <1>5, <2>1, PhoneBookMoves, RestsTyped
  <2> QED
    BY <2>1, <2>2, <2>3 DEF TypeNames, TypeFiles, TypeHistory
<1> QED
  BY <1>1, <1>2, <1>3, <1>4, <1>5 DEF PhoneBookStep

\* SyncFile, SyncParent and DropAttempt name the file that they publish.
LEMMA BackupTypes ==
    ASSUME Types, NEW w \in Writers, BackupStep(w),
           At(w, "sync") \/ At(w, "sync_parent") \/ At(w, "drop") => work[w].file # NoFile
    PROVE  Types'
<1> USE DEF Types
<1>0. /\ \A v \in Writers : work[v].file \in 0..created
      /\ created \in Nat /\ 1 \in 0..MaxBook
  BY PublicationAssumption DEF TypeWork, TypeFiles
<1>9. At(w, "sync") \/ At(w, "sync_parent") \/ At(w, "drop")
        => work[w].file \in 1..created
  BY <1>0 DEF NoFile
<1>1. CASE Begin(w)
  <2>1. UNCHANGED <<kind, place, temp, disk, content, synced, created, book,
                    acknowledged, overlapped, faults>>
    BY <1>1 DEF Begin, names, files, history
  <2>2. TypeWork'
    BY <1>1, <2>1, BackupMoves, StaysTyped DEF TypeWork
  <2> QED
    BY <2>1, <2>2 DEF TypeNames, TypeFiles, TypeHistory
<1>2. CASE CreateTemporary(w)
  <2>1. /\ UNCHANGED <<kind, place, disk, content, synced, book, acknowledged,
                       overlapped, faults>>
        /\ NewFile(w, "write")
    BY <1>2 DEF CreateTemporary, history
  <2>2. /\ created' = created + 1 /\ created' \in 1..MaxFiles
        /\ temp' \in [Writers \cup {"tmp"} -> 0..created']
    BY <2>1, NewFileTypes
  <2>3. /\ created' \in Nat /\ created <= created' /\ created + 1 \in 0..created'
        /\ created' \in 0..MaxFiles
        /\ 0..created \subseteq 0..created' /\ 1..created \subseteq 1..created'
    BY <1>0, <2>2, PublicationAssumption
  <2>4. book' \in 0..MaxBook /\ work[w].version \in 0..MaxBook
    BY <2>1 DEF TypeWork
  <2>5. TypeWork'
    BY <1>2, <2>3, <2>4, BackupMoves, MovesTyped
  <2> QED
    BY <2>1, <2>2, <2>3, <2>5 DEF TypeNames, TypeFiles, TypeHistory
<1>3. CASE WriteWhole(w)
  <2>1. UNCHANGED <<kind, place, temp, disk, synced, created, book, acknowledged,
                    overlapped, faults>>
    BY <1>3 DEF WriteWhole, names, history
  <2>2. content' \in [Files -> 0..MaxBook]
    BY <1>0, <1>3 DEF WriteWhole, TypeFiles
  <2>3. TypeWork'
    BY <1>3, <2>1, BackupMoves, StaysTyped DEF TypeWork
  <2> QED
    BY <2>1, <2>2, <2>3 DEF TypeNames, TypeFiles, TypeHistory
<1>4. CASE SyncFile(w)
  <2>1. UNCHANGED <<kind, place, temp, disk, content, created, book, acknowledged,
                    overlapped, faults>>
    BY <1>4 DEF SyncFile, names, history
  <2>2. synced' \subseteq 1..created'
    BY <1>9, <1>4, <2>1 DEF SyncFile, TypeFiles
  <2>3. TypeWork'
    BY <1>4, <2>1, BackupMoves, StaysTyped DEF TypeWork
  <2> QED
    BY <2>1, <2>2, <2>3 DEF TypeNames, TypeFiles, TypeHistory
<1>5. CASE CheckAgain(w)
  <2>1. UNCHANGED <<kind, place, disk, content, synced, created, book, acknowledged,
                    overlapped, faults>>
    BY <1>5 DEF CheckAgain, files, history
  <2>2. temp' \in [Writers \cup {"tmp"} -> 0..created]
    BY <1>5, DropTypes DEF CheckAgain, TypeNames
  <2>3. TypeWork'
    BY <1>5, <2>1, BackupMoves, StaysTyped, RestsTyped DEF TypeWork
  <2> QED
    BY <2>1, <2>2, <2>3 DEF TypeNames, TypeFiles, TypeHistory
<1>6. CASE Publish(w)
  <2>1. UNCHANGED <<kind, disk, content, synced, created, book, acknowledged,
                    overlapped, faults>>
    BY <1>6 DEF Publish, files, history
  <2>2. temp' \in [Writers \cup {"tmp"} -> 0..created] /\ place' \in 0..created
    <3>1. CASE place # NoFile \/ ~Owned(w)
      BY <1>6, <3>1, DropTypes DEF Publish, TypeNames
    <3>2. CASE ~(place # NoFile \/ ~Owned(w))
      BY <1>0, <1>6, <3>2 DEF Publish, TypeNames, NoFile
    <3> QED
      BY <3>1, <3>2
  <2>3. TypeWork'
    BY <1>6, <2>1, BackupMoves, StaysTyped, RestsTyped DEF TypeWork
  <2> QED
    BY <2>1, <2>2, <2>3 DEF TypeNames, TypeFiles, TypeHistory
<1>7. CASE SyncParent(w)
  <2>1. /\ UNCHANGED <<kind, place, temp, content, synced, created, book,
                       overlapped, faults>>
        /\ disk' = place
    BY <1>7 DEF SyncParent, files
  <2>2. acknowledged' \subseteq 1..created'
    BY <1>9, <1>7, <2>1 DEF SyncParent, TypeHistory
  <2>3. TypeWork'
    BY <1>7, <2>1, BackupMoves, RestsTyped
  <2> QED
    BY <2>1, <2>2, <2>3 DEF TypeNames, TypeFiles, TypeHistory
<1>8. CASE DropAttempt(w)
  <2>1. UNCHANGED <<kind, place, disk, content, synced, created, book,
                    overlapped, faults>>
    BY <1>8 DEF DropAttempt, files
  <2>2. acknowledged' \subseteq 1..created'
    BY <1>9, <1>8, <2>1 DEF DropAttempt, TypeHistory
  <2>3. temp' \in [Writers \cup {"tmp"} -> 0..created]
    BY <1>8, DropTypes DEF DropAttempt
  <2>4. TypeWork'
    BY <1>8, <2>1, BackupMoves, RestsTyped
  <2> QED
    BY <2>1, <2>2, <2>3, <2>4 DEF TypeNames, TypeFiles, TypeHistory
<1> QED
  BY <1>1, <1>2, <1>3, <1>4, <1>5, <1>6, <1>7, <1>8 DEF BackupStep

\* Loading needs a phone book on the disk.
LEMMA OtherTypes ==
    ASSUME Types, PhoneBook => place # NoFile,
           \/ \E w \in Writers : CallFails(w)
           \/ LoadBook
           \/ \E n \in DOMAIN temp : TemporaryRemoved(n)
           \/ Crash \/ PowerLoss
    PROVE  Types'
<1> USE DEF Types
<1>0. 0 \in 0..created /\ 0 \in 0..MaxBook
  BY PublicationAssumption DEF TypeFiles
<1>1. ASSUME Fault PROVE faults' \in 0..MaxFaults
  BY <1>1, PublicationAssumption DEF Fault, TypeHistory
<1>2. ASSUME NEW w \in Writers, CallFails(w) PROVE Types'
  <2>1. UNCHANGED <<kind, place, disk, content, synced, created, book, acknowledged,
                    overlapped>>
    BY <1>2 DEF CallFails, files
  <2>2. temp' \in [Writers \cup {"tmp"} -> 0..created]
    BY <1>2, DropTypes DEF CallFails, TypeNames
  <2>3. TypeWork' /\ faults' \in 0..MaxFaults
    BY <1>1, <1>2, <2>1, BackupMoves, RestsTyped DEF CallFails
  <2> QED
    BY <2>1, <2>2, <2>3 DEF TypeNames, TypeFiles, TypeHistory
<1>3. CASE LoadBook
  <2>1. UNCHANGED <<kind, place, temp, disk, content, synced, created, work,
                    acknowledged, overlapped, faults>>
    BY <1>3 DEF LoadBook, names, files, history
  <2>2. place \in Files
    BY <1>3, PublicationAssumption
       DEF LoadBook, PhoneBook, TypeNames, TypeFiles, Files, NoFile
  <2>3. book' \in 0..MaxBook
    BY <1>3, <2>2 DEF LoadBook, TypeFiles
  <2> QED
    BY <2>1, <2>3 DEF TypeNames, TypeFiles, TypeHistory, TypeWork, WorkTyped
<1>4. ASSUME NEW n \in DOMAIN temp, TemporaryRemoved(n) PROVE Types'
  <2>1. UNCHANGED <<kind, place, disk, content, synced, created, book, work,
                    acknowledged, overlapped>>
    BY <1>4 DEF TemporaryRemoved, files
  <2>2. temp' \in [Writers \cup {"tmp"} -> 0..created]
    BY <1>0, <1>4 DEF TemporaryRemoved, TypeNames, NoFile
  <2>3. faults' \in 0..MaxFaults
    BY <1>1, <1>4 DEF TemporaryRemoved
  <2> QED
    BY <2>1, <2>2, <2>3 DEF TypeNames, TypeFiles, TypeHistory, TypeWork, WorkTyped
<1>5. ASSUME ProcessEnds, created' = created PROVE TypeWork'
  BY <1>0, <1>5, NothingRuns DEF ProcessEnds, TypeWork
<1>6. CASE Crash
  <2>1. UNCHANGED <<kind, place, temp, disk, content, synced, created, acknowledged,
                    overlapped>>
    BY <1>6 DEF Crash, files
  <2>2. ProcessEnds /\ faults' \in 0..MaxFaults
    BY <1>1, <1>6 DEF Crash
  <2> QED
    BY <1>5, <2>1, <2>2 DEF TypeNames, TypeFiles, TypeHistory
<1>7. CASE PowerLoss
  <2>1. /\ UNCHANGED <<kind, synced, created, acknowledged, overlapped>>
        /\ place' \in {place, disk} /\ disk' = place'
    BY <1>7 DEF PowerLoss
  <2>2. ProcessEnds /\ faults' \in 0..MaxFaults
    BY <1>1, <1>7 DEF PowerLoss
  <2>3. content' \in [Files -> 0..MaxBook]
    BY <1>0, <1>7 DEF PowerLoss, TypeFiles
  <2>4. temp' \in [Writers \cup {"tmp"} -> 0..created]
    BY <1>0, <1>7 DEF PowerLoss, TypeNames, NoFile
  <2> QED
    BY <1>5, <2>1, <2>2, <2>3, <2>4 DEF TypeNames, TypeFiles, TypeHistory
<1> QED
  BY <1>2, <1>3, <1>4, <1>6, <1>7

-----------------------------------------------------------------------------
(* The phone book.                                                         *)

BookInv == Unborn /\ BookInOrder /\ OneWriter /\ EmptyIsOpen /\ BookIsKept

LEMMA UpdateBookKeeps ==
    ASSUME Types, BookInv, NEW w \in Writers, UpdateBook(w)
    PROVE  BookInv'
<1> USE DEF Types, BookInv, At, Writing, PhoneBook, Persisting
<1>1. /\ UNCHANGED <<kind, place, temp, content, created, acknowledged, overlapped,
                     faults>>
      /\ PhoneBook /\ book # 0 /\ book' = book + 1 /\ book \in Nat
      /\ Persisting = {} /\ work[w].point = "idle"
  BY PublicationAssumption DEF UpdateBook, names, files, history, TypeWork
<1>2. Moves(w, "persist", work[w].file, work[w].version)
  BY PhoneBookMoves DEF Stays
<1>3. \A v \in Writers : /\ work[v].point \notin {"open", "write", "rename"}
                         /\ work'[v].point \notin {"open", "write", "rename"}
  BY <1>1, <1>2 DEF Moves
<1>4. Unborn'
  BY <1>1 DEF Unborn
<1>5. BookInOrder'
  <2>1. content[place] \in Nat
    BY <1>1, PublicationAssumption DEF TypeNames, TypeFiles, BookInOrder, NoFile, Files
  <2> QED
    BY <1>1, <1>2, <1>3, <2>1 DEF BookInOrder, Moves
<1>6. OneWriter'
  BY <1>1, <1>3 DEF OneWriter
<1>7. EmptyIsOpen'
  BY <1>1, <1>2, <1>3 DEF EmptyIsOpen, Moves
<1>8. BookIsKept'
  BY <1>1, <1>2, <1>3 DEF BookIsKept, Moves
<1> QED
  BY <1>4, <1>5, <1>6, <1>7, <1>8

LEMMA PersistKeeps ==
    ASSUME Types, BookInv, NEW w \in Writers, Persist(w)
    PROVE  BookInv'
<1> USE DEF Types, BookInv, At, Writing, PhoneBook, Persisting
<1>1. /\ UNCHANGED <<kind, place, temp, content, created, book, acknowledged,
                     overlapped, faults>>
      /\ PhoneBook /\ work[w].point = "persist"
  BY DEF Persist, names, files, history
<1>2. Moves(w, "open", work[w].file, book)
  BY PhoneBookMoves
<1>4. Unborn'
  BY <1>1 DEF Unborn
<1>5. BookInOrder'
  BY <1>1, <1>2 DEF BookInOrder, Moves
<1>6. OneWriter'
  BY <1>1, <1>2 DEF OneWriter, Moves
<1>7. EmptyIsOpen'
  BY <1>1, <1>2 DEF EmptyIsOpen, Moves
<1>8. BookIsKept'
  BY <1>1, <1>2 DEF BookIsKept, Fresh, Moves
<1> QED
  BY <1>4, <1>5, <1>6, <1>7, <1>8

LEMMA OpenTruncatedKeeps ==
    ASSUME Types, BookInv, NEW w \in Writers, OpenTruncated(w)
    PROVE  BookInv'
<1> USE DEF Types, BookInv, At, Writing, PhoneBook, Persisting
<1> DEFINE f == temp'["tmp"]
<1>1. /\ UNCHANGED <<kind, place, book, acknowledged, faults>>
      /\ PhoneBook /\ work[w].point = "open"
  BY DEF OpenTruncated
<1>2. Moves(w, "write", f, work[w].version)
  BY PhoneBookMoves
<1>3. /\ f # NoFile /\ f \in Files /\ f # place /\ f \in 1..created'
      /\ created' \in {created, f} /\ created <= created' /\ created' \in Nat
      /\ created \in Nat
      /\ content'[f] = 0
      /\ \A g \in Files : g # f => content'[g] = content[g]
      /\ \A v \in Writers : temp'[v] = temp[v]
      /\ created' # created => f = created + 1
  <2>1. CASE temp["tmp"] = NoFile
    <3>1. NewFile(w, "write") /\ UNCHANGED content /\ TempOf(w) = "tmp"
      BY <1>1, <2>1 DEF OpenTruncated, TempOf
    <3>2. /\ created' = created + 1 /\ created' \in 1..MaxFiles
          /\ temp'["tmp"] = created + 1
          /\ \A n \in Writers \cup {"tmp"} : n # "tmp" => temp'[n] = temp[n]
      BY <3>1, NewFileTypes
    <3>3. created \in Nat /\ place \in 0..created
      BY PublicationAssumption DEF TypeFiles, TypeNames
    <3>4. \A v \in Writers : v # "tmp"
      BY PublicationAssumption
    <3> QED
      BY <1>1, <3>1, <3>2, <3>3, <3>4, PublicationAssumption
         DEF Unborn, Files, NoFile
  <2>2. CASE temp["tmp"] # NoFile
    <3>1. /\ content' = [content EXCEPT ![temp["tmp"]] = 0]
          /\ UNCHANGED <<temp, created>>
      BY <2>2 DEF OpenTruncated
    <3>2. temp["tmp"] \in 0..created /\ created \in 0..MaxFiles
      BY DEF TypeFiles, TypeNames
    <3> QED
      BY <1>1, <2>2, <3>1, <3>2, PublicationAssumption
         DEF BookInOrder, TypeFiles, Files, NoFile
  <2> QED
    BY <2>1, <2>2
<1>4. overlapped' = (overlapped \/ \E v \in Writers : Writing(v))
  BY DEF OpenTruncated
<1>5. place \in Files /\ content'[place] = content[place]
  BY <1>1, <1>3, PublicationAssumption
     DEF TypeNames, TypeFiles, BookInOrder, NoFile, Files
<1> HIDE DEF f
<1>6. temp'["tmp"] = f
  BY DEF f
<1>7. Unborn'
  BY <1>1, <1>3 DEF Unborn, Files
<1>8. BookInOrder'
  BY <1>1, <1>2, <1>3, <1>5, <1>6 DEF BookInOrder, Moves
<1>9. OneWriter'
  BY <1>1, <1>2, <1>3, <1>4, <1>5, <1>6 DEF OneWriter, Moves
<1>10. EmptyIsOpen'
  <2> SUFFICES ASSUME faults = 0, NEW g \in Files, g <= created', content'[g] = 0
               PROVE  \E v \in Writers : /\ work'[v].point = "write"
                                         /\ work'[v].file = g
    BY <1>1 DEF EmptyIsOpen
  <2>1. CASE g = f
    BY <1>2, <2>1 DEF Moves
  <2>2. CASE g # f
    <3>1. g <= created /\ content[g] = 0
      BY <1>3, <2>2 DEF Files
    <3>2. PICK v \in Writers : work[v].point = "write" /\ work[v].file = g
      BY <1>1, <3>1 DEF EmptyIsOpen
    <3> QED
      BY <1>1, <1>2, <3>2 DEF Moves
  <2> QED
    BY <2>1, <2>2
<1>11. BookIsKept'
  BY <1>1, <1>2, <1>3, <1>6 DEF BookIsKept, Fresh, Moves
<1> QED
  BY <1>7, <1>8, <1>9, <1>10, <1>11

LEMMA WriteBookKeeps ==
    ASSUME Types, BookInv, NEW w \in Writers, WriteBook(w)
    PROVE  BookInv'
<1> USE DEF Types, BookInv, At, Writing, PhoneBook, Persisting
<1> DEFINE f == work[w].file
<1>1. /\ UNCHANGED <<kind, place, temp, created, book, acknowledged, overlapped,
                     faults>>
      /\ PhoneBook /\ work[w].point = "write"
  BY DEF WriteBook, names, history
<1>2. Moves(w, "rename", f, work[w].version)
  BY PhoneBookMoves DEF Stays
<1>3. /\ work[w].version = book /\ book # 0 /\ f # NoFile
      /\ f \in Files /\ f <= created /\ created \in Nat
  BY <1>1, PublicationAssumption
     DEF BookInOrder, TypeWork, TypeFiles, Files, NoFile
<1>4. /\ content'[f] = book
      /\ \A g \in Files : g # f => content'[g] = content[g]
  BY <1>3 DEF WriteBook, TypeFiles
<1>5. /\ place \in Files
      /\ temp["tmp"] # NoFile => temp["tmp"] \in Files
  BY <1>1, PublicationAssumption
     DEF TypeNames, TypeFiles, BookInOrder, NoFile, Files
<1>6. book \in Nat
  BY PublicationAssumption DEF TypeWork
<1> HIDE DEF f
<1>7. Unborn'
  BY <1>1, <1>3, <1>4 DEF Unborn, Files
<1>8. BookInOrder'
  <2>1. work[w].file = f
    BY DEF f
  <2> QED
    BY <1>1, <1>2, <1>3, <1>4, <1>5, <1>6, <2>1 DEF BookInOrder, Moves
<1>9. OneWriter'
  <2>1. work[w].file = f
    BY DEF f
  <2> QED
    BY <1>1, <1>2, <1>3, <1>4, <1>5, <2>1 DEF OneWriter, Moves
<1>10. EmptyIsOpen'
  BY <1>1, <1>2, <1>3, <1>4 DEF EmptyIsOpen, Moves, f
<1>11. BookIsKept'
  BY <1>1, <1>2, <1>4, <1>5 DEF BookIsKept, Fresh, Moves, f
<1> QED
  BY <1>7, <1>8, <1>9, <1>10, <1>11

LEMMA RenameOverKeeps ==
    ASSUME Types, BookInv, NEW w \in Writers, RenameOver(w)
    PROVE  BookInv'
<1> USE DEF Types, BookInv, At, Writing, PhoneBook, Persisting
<1>1. /\ UNCHANGED <<kind, content, created, book, acknowledged, overlapped, faults>>
      /\ PhoneBook /\ work[w].point = "rename"
  BY DEF RenameOver, files, history
<1>2. Moves(w, "idle", 0, 0)
  BY PhoneBookMoves
<1>3. /\ temp'["tmp"] = NoFile
      /\ \A v \in Writers : temp'[v] = temp[v]
      /\ place' = IF temp["tmp"] = NoFile THEN place ELSE temp["tmp"]
  <2>1. \A v \in Writers : v # "tmp"
    BY PublicationAssumption
  <2> QED
    BY <2>1 DEF RenameOver, TypeNames
<1>4. Unborn'
  BY <1>1 DEF Unborn
<1>5. book \in Nat
  BY PublicationAssumption DEF TypeWork
<1>6. BookInOrder'
  BY <1>1, <1>2, <1>3, <1>5 DEF BookInOrder, Moves
<1>7. OneWriter'
  BY <1>1, <1>2, <1>3 DEF OneWriter, Moves
<1>8. EmptyIsOpen'
  BY <1>1, <1>2 DEF EmptyIsOpen, Moves
<1>9. BookIsKept'
  BY <1>1, <1>2, <1>3 DEF BookIsKept, Fresh, Moves
<1> QED
  BY <1>4, <1>6, <1>7, <1>8, <1>9

LEMMA LoadBookKeeps ==
    ASSUME Types, BookInv, LoadBook
    PROVE  BookInv'
<1> USE DEF Types, BookInv, At, Writing, PhoneBook, Persisting
<1>1. /\ UNCHANGED <<kind, place, temp, content, created, work, acknowledged,
                     overlapped, faults>>
      /\ PhoneBook /\ book = 0 /\ book' = content[place]
  BY DEF LoadBook, names, files, history
<1>2. \A w \in Writers : work[w].point = "idle"
  BY <1>1 DEF BookInOrder
<1>3. content[place] \in Nat
  BY <1>1, PublicationAssumption DEF TypeNames, TypeFiles, BookInOrder, NoFile, Files
<1>4. BookInOrder'
  BY <1>1, <1>2, <1>3 DEF BookInOrder
<1> QED
  BY <1>1, <1>2, <1>4 DEF Unborn, OneWriter, EmptyIsOpen, BookIsKept

\* The execution ends and leaves the temporary file as it is.
LEMMA FailedPersistKeeps ==
    ASSUME Types, BookInv, PhoneBook, NEW w \in Writers, CallFails(w)
    PROVE  BookInv'
<1> USE DEF Types, BookInv, At, Writing, PhoneBook, Persisting
<1>1. /\ UNCHANGED <<kind, place, temp, content, created, book, acknowledged,
                     overlapped>>
      /\ faults' # 0
  BY PublicationAssumption DEF CallFails, Fault, files, TypeHistory
<1>2. Moves(w, "idle", 0, 0)
  BY BackupMoves
<1>3. BookInOrder'
  BY <1>1, <1>2 DEF BookInOrder, Moves
<1>4. OneWriter'
  BY <1>1, <1>2 DEF OneWriter, Moves
<1> QED
  BY <1>1, <1>3, <1>4 DEF Unborn, EmptyIsOpen, BookIsKept

LEMMA TemporaryRemovedKeeps ==
    ASSUME Types, BookInv, PhoneBook, NEW n \in DOMAIN temp, TemporaryRemoved(n)
    PROVE  BookInv'
<1> USE DEF Types, BookInv, At, Writing, PhoneBook, Persisting
<1>1. /\ UNCHANGED <<kind, place, content, created, book, work, acknowledged,
                     overlapped>>
      /\ faults' # 0
  BY PublicationAssumption DEF TemporaryRemoved, Fault, files, TypeHistory
<1>2. /\ temp'["tmp"] \in {NoFile, temp["tmp"]}
      /\ \A w \in Writers : temp'[w] \in {NoFile, temp[w]}
  BY DEF TemporaryRemoved, TypeNames
<1>3. BookInOrder'
  BY <1>1, <1>2 DEF BookInOrder
<1>4. OneWriter'
  BY <1>1, <1>2 DEF OneWriter
<1> QED
  BY <1>1, <1>3, <1>4 DEF Unborn, EmptyIsOpen, BookIsKept

LEMMA CrashKeepsBook ==
    ASSUME Types, BookInv, PhoneBook, Crash
    PROVE  BookInv'
<1> USE DEF Types, BookInv, At, Writing, PhoneBook, Persisting
<1>1. /\ UNCHANGED <<kind, place, content, created, acknowledged, overlapped>>
      /\ faults' # 0 /\ book' = 0 /\ ProcessEnds /\ temp' = temp
  BY PublicationAssumption DEF Crash, ProcessEnds, Fault, files, TypeHistory
<1>2. \A w \in Writers : work'[w].point = "idle"
  BY <1>1, NothingRuns DEF BookInOrder
<1>3. /\ temp'["tmp"] = temp["tmp"]
      /\ \A w \in Writers : temp'[w] = NoFile
  BY <1>1 DEF BookInOrder
<1>4. BookInOrder'
  BY <1>1, <1>2, <1>3 DEF BookInOrder
<1> QED
  BY <1>1, <1>2, <1>4 DEF Unborn, OneWriter, EmptyIsOpen, BookIsKept

-----------------------------------------------------------------------------
(* Snapshots and copies of the database.                                   *)

BackupInv == ~PhoneBook /\ BackupInOrder /\ SnapshotInOrder

LEMMA NamesAreFiles ==
    ASSUME Types
    PROVE  /\ \A w \in Writers : work[w].file # NoFile => work[w].file \in Files
           /\ place # NoFile => place \in Files
           /\ created \in Nat
           /\ \A f \in synced : f \in Files
           /\ \A f \in acknowledged : f # NoFile
BY PublicationAssumption
   DEF Types, TypeNames, TypeFiles, TypeWork, TypeHistory, Files, NoFile

LEMMA BeginKeeps ==
    ASSUME Types, BackupInv, NEW w \in Writers, Begin(w)
    PROVE  BackupInv'
<1> USE DEF Types, BackupInv, At, Holding, Published, PhoneBook, Snapshot
<1>1. /\ UNCHANGED <<kind, place, temp, disk, content, synced, created, acknowledged>>
      /\ work[w].point = "idle"
  BY DEF Begin, names, files, history
<1>2. Moves(w, "create", work[w].file, work[w].version)
  BY BackupMoves DEF Stays
<1>3. BackupInOrder'
  BY <1>1, <1>2 DEF BackupInOrder, Moves
<1>4. SnapshotInOrder'
  BY <1>1, <1>2 DEF SnapshotInOrder, Moves
<1> QED
  BY <1>1, <1>3, <1>4

LEMMA CreateTemporaryKeeps ==
    ASSUME Types, BackupInv, NEW w \in Writers, CreateTemporary(w)
    PROVE  BackupInv'
<1> USE DEF Types, BackupInv, At, Holding, Published, PhoneBook, Snapshot
<1>1. /\ UNCHANGED <<kind, place, disk, content, synced, acknowledged>>
      /\ work[w].point = "create" /\ NewFile(w, "write") /\ TempOf(w) = w
  BY DEF CreateTemporary, history, TempOf
<1>2. Moves(w, "write", created + 1, work[w].version)
  BY BackupMoves
<1>3. /\ temp'[w] = created + 1
      /\ \A v \in Writers : v # w => temp'[v] = temp[v]
  BY <1>1, NewFileTypes
<1>4. /\ created + 1 # NoFile /\ created + 1 # place
      /\ \A v \in Writers : work[v].file # created + 1
  BY PublicationAssumption DEF TypeNames, TypeFiles, TypeWork, NoFile
<1> DEFINE f == created + 1
<1> HIDE DEF f
<1>5. /\ Moves(w, "write", f, work[w].version) /\ temp'[w] = f
      /\ f # NoFile /\ f # place /\ \A v \in Writers : work[v].file # f
  BY <1>2, <1>3, <1>4 DEF f
<1>6. BackupInOrder'
  BY <1>1, <1>3, <1>5 DEF BackupInOrder, Moves
<1>7. SnapshotInOrder'
  BY <1>1, <1>5 DEF SnapshotInOrder, Moves
<1> QED
  BY <1>1, <1>6, <1>7

LEMMA WriteWholeKeeps ==
    ASSUME Types, BackupInv, NEW w \in Writers, WriteWhole(w)
    PROVE  BackupInv'
<1> USE DEF Types, BackupInv, At, Holding, Published, PhoneBook, Snapshot
<1> DEFINE p == IF kind = "snapshot" THEN "sync" ELSE "publish"
<1>1. /\ UNCHANGED <<kind, place, temp, disk, synced, created, acknowledged>>
      /\ work[w].point = "write"
  BY DEF WriteWhole, names, history
<1>2. Moves(w, p, work[w].file, work[w].version)
  BY BackupMoves DEF Stays
<1>3. /\ content'[work[w].file] # 0
      /\ \A f \in Files : f # work[w].file => content'[f] = content[f]
  BY <1>1, NamesAreFiles DEF WriteWhole, TypeFiles, BackupInOrder
<1>4. BackupInOrder'
  BY <1>1, <1>2, <1>3, NamesAreFiles DEF BackupInOrder, Moves
<1>5. SnapshotInOrder'
  BY <1>1, <1>2, <1>3, NamesAreFiles DEF SnapshotInOrder, Moves
<1> QED
  BY <1>1, <1>4, <1>5

LEMMA SyncFileKeeps ==
    ASSUME Types, BackupInv, NEW w \in Writers, SyncFile(w)
    PROVE  BackupInv'
<1> USE DEF Types, BackupInv, At, Holding, Published, PhoneBook, Snapshot
<1>1. /\ UNCHANGED <<kind, place, temp, disk, content, created, acknowledged>>
      /\ work[w].point = "sync" /\ synced' = synced \cup {work[w].file}
  BY DEF SyncFile, names, history
<1>2. Moves(w, "check", work[w].file, work[w].version)
  BY BackupMoves DEF Stays
<1>3. BackupInOrder'
  BY <1>1, <1>2 DEF BackupInOrder, Moves
<1>4. SnapshotInOrder'
  BY <1>1, <1>2 DEF SnapshotInOrder, BackupInOrder, Moves
<1> QED
  BY <1>1, <1>3, <1>4

\* An execution that ends before the publication drops its temporary file.
LEMMA EndsKeeps ==
    ASSUME Types, BackupInv, NEW w \in Writers, ~At(w, "cut"), DropTemporary(w),
           Moves(w, "idle", 0, 0),
           UNCHANGED <<kind, place, disk, content, synced, created, acknowledged>>
    PROVE  BackupInv'
<1> USE DEF Types, BackupInv, At, Holding, Published, PhoneBook, Snapshot
<1>1. /\ temp'[w] = NoFile
      /\ \A v \in Writers : v # w => temp'[v] = temp[v]
  BY DropTypes DEF BackupInOrder
<1>2. BackupInOrder'
  BY <1>1 DEF BackupInOrder, Moves
<1>3. SnapshotInOrder'
  BY DEF SnapshotInOrder, Moves
<1> QED
  BY <1>2, <1>3

LEMMA CheckAgainKeeps ==
    ASSUME Types, BackupInv, NEW w \in Writers, CheckAgain(w)
    PROVE  BackupInv'
<1> USE DEF Types, BackupInv, At, Holding, Published, PhoneBook, Snapshot
<1>1. /\ UNCHANGED <<kind, place, disk, content, synced, created, acknowledged>>
      /\ work[w].point = "check"
  BY DEF CheckAgain, files, history
<1>2. CASE place = NoFile /\ Owned(w)
  <2>1. UNCHANGED temp /\ Moves(w, "publish", work[w].file, work[w].version)
    BY <1>2, BackupMoves DEF CheckAgain, Stays
  <2>2. BackupInOrder'
    BY <1>1, <2>1 DEF BackupInOrder, Moves
  <2>3. SnapshotInOrder'
    BY <1>1, <2>1 DEF SnapshotInOrder, Moves
  <2> QED
    BY <1>1, <2>2, <2>3
<1>3. CASE ~(place = NoFile /\ Owned(w))
  BY <1>1, <1>3, BackupMoves, EndsKeeps DEF CheckAgain
<1> QED
  BY <1>2, <1>3

LEMMA PublishKeeps ==
    ASSUME Types, BackupInv, NEW w \in Writers, Publish(w)
    PROVE  BackupInv'
<1> USE DEF Types, BackupInv, At, Holding, Published, PhoneBook, Snapshot
<1>1. /\ UNCHANGED <<kind, disk, content, synced, created, acknowledged>>
      /\ work[w].point = "publish"
  BY DEF Publish, files, history
<1>2. CASE place # NoFile \/ ~Owned(w)
  BY <1>1, <1>2, BackupMoves, EndsKeeps DEF Publish
<1>3. CASE ~(place # NoFile \/ ~Owned(w))
  <2> DEFINE p == IF kind = "snapshot" THEN "sync_parent" ELSE "drop"
  <2>1. place' = work[w].file /\ Moves(w, p, work[w].file, work[w].version)
    BY <1>3, BackupMoves DEF Publish, Stays
  <2>2. /\ temp'[w] = IF kind = "snapshot" THEN NoFile ELSE temp[w]
        /\ \A v \in Writers : v # w => temp'[v] = temp[v]
    BY <1>3 DEF Publish, TypeNames
  <2>3. BackupInOrder'
    BY <1>1, <1>3, <2>1, <2>2, NamesAreFiles DEF BackupInOrder, Moves
  <2>4. SnapshotInOrder'
    BY <1>1, <1>3, <2>1 DEF SnapshotInOrder, Moves
  <2> QED
    BY <1>1, <2>3, <2>4
<1> QED
  BY <1>2, <1>3

LEMMA SyncParentKeeps ==
    ASSUME Types, BackupInv, NEW w \in Writers, SyncParent(w)
    PROVE  BackupInv'
<1> USE DEF Types, BackupInv, At, Holding, Published, PhoneBook, Snapshot
<1>1. /\ UNCHANGED <<kind, place, temp, content, synced, created>>
      /\ work[w].point = "sync_parent" /\ disk' = place
      /\ acknowledged' = acknowledged \cup {work[w].file}
  BY DEF SyncParent, files
<1>2. Moves(w, "idle", 0, 0)
  BY BackupMoves
<1>3. BackupInOrder'
  BY <1>1, <1>2 DEF BackupInOrder, Moves
<1>4. SnapshotInOrder'
  BY <1>1, <1>2 DEF SnapshotInOrder, BackupInOrder, Moves
<1> QED
  BY <1>1, <1>3, <1>4

LEMMA DropAttemptKeeps ==
    ASSUME Types, BackupInv, NEW w \in Writers, DropAttempt(w)
    PROVE  BackupInv'
<1> USE DEF Types, BackupInv, At, Holding, Published, PhoneBook, Snapshot
<1>1. /\ UNCHANGED <<kind, place, disk, content, synced, created>>
      /\ work[w].point = "drop" /\ DropTemporary(w)
      /\ acknowledged' = acknowledged \cup {work[w].file}
  BY DEF DropAttempt, files
<1>2. Moves(w, "idle", 0, 0)
  BY BackupMoves
<1>3. /\ temp'[w] = NoFile
      /\ \A v \in Writers : v # w => temp'[v] = temp[v]
  BY <1>1, DropTypes DEF BackupInOrder
<1>4. BackupInOrder'
  BY <1>1, <1>2, <1>3 DEF BackupInOrder, Moves
<1>5. SnapshotInOrder'
  BY <1>1 DEF SnapshotInOrder
<1> QED
  BY <1>1, <1>4, <1>5

LEMMA FailedBackupKeeps ==
    ASSUME Types, BackupInv, NEW w \in Writers, CallFails(w)
    PROVE  BackupInv'
BY BackupMoves, EndsKeeps DEF CallFails, files, BackupInv, PhoneBook, At

LEMMA RemovedBackupKeeps ==
    ASSUME Types, BackupInv, NEW n \in DOMAIN temp, TemporaryRemoved(n)
    PROVE  BackupInv'
<1> USE DEF Types, BackupInv, At, Holding, Published, PhoneBook, Snapshot
<1>1. UNCHANGED <<kind, place, disk, content, synced, created, work, acknowledged>>
  BY DEF TemporaryRemoved, files
<1>2. \A w \in Writers : temp'[w] \in {NoFile, temp[w]}
  BY DEF TemporaryRemoved, TypeNames
<1>3. BackupInOrder'
  BY <1>1, <1>2 DEF BackupInOrder
<1>4. SnapshotInOrder'
  BY <1>1 DEF SnapshotInOrder
<1> QED
  BY <1>1, <1>3, <1>4

LEMMA ProcessEndKeeps ==
    ASSUME Types, BackupInv, Crash \/ PowerLoss
    PROVE  BackupInv'
<1> USE DEF Types, BackupInv, At, Holding, Published, PhoneBook, Snapshot
<1>1. /\ UNCHANGED <<kind, synced, created, acknowledged>> /\ ProcessEnds
  BY DEF Crash, PowerLoss, files
<1>2. \A w \in Writers : /\ work'[w].point \in {"idle", "cut"}
                         /\ temp'[w] # NoFile => work'[w].point = "cut"
  BY <1>1, NothingRuns
<1>3. CASE Crash
  BY <1>1, <1>2, <1>3 DEF Crash, files, BackupInOrder, SnapshotInOrder
<1>4. CASE PowerLoss
  <2>1. kind = "snapshot" /\ place' \in {place, disk} /\ disk' = place'
    BY <1>4 DEF PowerLoss
  <2>2. \A f \in synced : content'[f] = content[f]
    BY <1>4, NamesAreFiles DEF PowerLoss
  <2>3. SnapshotInOrder'
    BY <1>1, <1>2, <2>1, <2>2, NamesAreFiles DEF SnapshotInOrder
  <2>4. BackupInOrder'
    BY <1>1, <1>2, <2>1, <2>2, NamesAreFiles DEF BackupInOrder, SnapshotInOrder
  <2> QED
    BY <1>1, <2>3, <2>4
<1> QED
  BY <1>3, <1>4

-----------------------------------------------------------------------------
(* The invariant of the specification.                                     *)

PublicationInv == Types /\ BookInv /\ BackupInOrder /\ SnapshotInOrder

LEMMA InitInv == Init => PublicationInv
<1> SUFFICES ASSUME Init PROVE PublicationInv
  OBVIOUS
<1> USE DEF Init, Resting, NoFile, Files
<1>1. /\ place \in {0, 1} /\ 1 \in Files /\ 1 \in 0..MaxBook /\ 0 \in 0..MaxBook
      /\ 0 \in 0..MaxFiles /\ 1 \in 0..MaxFiles /\ 0 \in 0..MaxFaults
  BY PublicationAssumption
<1>2. Types
  <2>1. TypeNames
    BY <1>1, PublicationAssumption DEF TypeNames
  <2>2. TypeFiles
    BY <1>1 DEF TypeFiles
  <2>3. TypeWork
    BY <1>1 DEF TypeWork, WorkTyped, Records, Points
  <2>4. TypeHistory
    BY <1>1 DEF TypeHistory
  <2> QED
    BY <2>1, <2>2, <2>3, <2>4 DEF Types
<1>3. \A w \in Writers : work[w].point = "idle"
  OBVIOUS
<1>4. BookInv
  <2>1. \A f \in Files : content[f] = IF f = place THEN 1 ELSE 0
    OBVIOUS
  <2>2. PhoneBook => /\ place = 1 /\ created = 1 /\ book = 1 /\ content[place] = 1
                     /\ \A n \in Writers \cup {"tmp"} : temp[n] = 0
    BY <1>1, <2>1 DEF PhoneBook
  <2>3. Unborn /\ EmptyIsOpen
    BY <2>1, <2>2 DEF Unborn, EmptyIsOpen
  <2>4. \A w \in Writers : ~Writing(w) /\ w \notin Persisting
    BY <1>3 DEF Writing, Persisting
  <2>5. PhoneBook => temp["tmp"] = 0 /\ \A w \in Writers : temp[w] = 0
    BY <2>2
  <2>6. BookInOrder
    <3>1. acknowledged = {}
      OBVIOUS
    <3> HIDE DEF Init
    <3> QED
      BY <1>3, <2>2, <2>4, <2>5, <3>1 DEF BookInOrder, At
  <2>7. OneWriter
    BY <2>2, <2>4 DEF OneWriter
  <2>8. BookIsKept
    BY <2>2, <2>5 DEF BookIsKept, Fresh
  <2> QED
    BY <2>3, <2>6, <2>7, <2>8 DEF BookInv
<1>5. BackupInOrder /\ SnapshotInOrder
  BY <1>3 DEF BackupInOrder, SnapshotInOrder, PhoneBook, Snapshot, Holding, Published, At
<1> QED
  BY <1>2, <1>4, <1>5 DEF PublicationInv

LEMMA StepInv == PublicationInv /\ [Next]_vars => PublicationInv'
<1> SUFFICES ASSUME PublicationInv, [Next]_vars PROVE PublicationInv'
  OBVIOUS
<1> USE DEF PublicationInv
<1>1. CASE UNCHANGED vars
  <2>1. UNCHANGED <<kind, place, temp, disk, content, synced, created, book, work,
                    acknowledged, overlapped, faults>>
    BY <1>1 DEF vars, names, files, history
  <2>2. Types'
    BY <2>1 DEF Types, TypeNames, TypeFiles, TypeWork, TypeHistory, WorkTyped
  <2>3. BookInv'
    BY <2>1 DEF BookInv, Unborn, BookInOrder, OneWriter, EmptyIsOpen, BookIsKept,
                PhoneBook, Fresh, Persisting, Writing, At
  <2>4. BackupInOrder' /\ SnapshotInOrder'
    BY <2>1 DEF BackupInOrder, SnapshotInOrder, PhoneBook, Snapshot, Holding,
                Published, At
  <2> QED
    BY <2>2, <2>3, <2>4
<1>2. CASE Next
  <2>1. \/ \E w \in Writers : PhoneBookStep(w) \/ BackupStep(w) \/ CallFails(w)
        \/ LoadBook
        \/ \E n \in DOMAIN temp : TemporaryRemoved(n)
        \/ Crash \/ PowerLoss
    BY <1>2 DEF Next
  <2>2. kind' = kind
    BY <2>1 DEF PhoneBookStep, UpdateBook, Persist, OpenTruncated, WriteBook, RenameOver,
                BackupStep, Begin, CreateTemporary, WriteWhole, SyncFile, CheckAgain,
                Publish, SyncParent, DropAttempt, CallFails, LoadBook,
                TemporaryRemoved, Crash, PowerLoss
  <2>3. Types'
    <3>1. PhoneBook => place # NoFile
      BY DEF BookInv, BookInOrder
    <3>2. \A w \in Writers :
             At(w, "sync") \/ At(w, "sync_parent") \/ At(w, "drop")
               => work[w].file # NoFile
      BY DEF BookInv, BookInOrder, BackupInOrder, At, Holding
    <3> QED
      BY <2>1, <3>1, <3>2, PhoneBookTypes, BackupTypes, OtherTypes
  <2>4. CASE PhoneBook
    <3>1. \A w \in Writers : ~BackupStep(w)
      <4>1. \A w \in Writers : work[w].point \notin {"create", "sync", "check",
                                                     "publish", "sync_parent", "drop"}
        BY <2>4 DEF BookInv, BookInOrder
      <4> QED
        BY <2>4, <4>1
           DEF BackupStep, Begin, CreateTemporary, WriteWhole, SyncFile, CheckAgain,
               Publish, SyncParent, DropAttempt, At, PhoneBook
    <3>2. ~PowerLoss
      BY <2>4 DEF PowerLoss, PhoneBook
    <3>3. BookInv'
      <4>1. ASSUME NEW w \in Writers, PhoneBookStep(w) PROVE BookInv'
        BY <4>1, UpdateBookKeeps, PersistKeeps, OpenTruncatedKeeps, WriteBookKeeps,
           RenameOverKeeps DEF PhoneBookStep
      <4>2. ASSUME NEW w \in Writers, CallFails(w) PROVE BookInv'
        BY <2>4, <4>2, FailedPersistKeeps
      <4>3. ASSUME NEW n \in DOMAIN temp, TemporaryRemoved(n) PROVE BookInv'
        BY <2>4, <4>3, TemporaryRemovedKeeps
      <4>4. LoadBook \/ Crash => BookInv'
        BY <2>4, LoadBookKeeps, CrashKeepsBook
      <4> QED
        BY <2>1, <3>1, <3>2, <4>1, <4>2, <4>3, <4>4
    <3>4. BackupInOrder' /\ SnapshotInOrder'
      BY <2>2, <2>4 DEF BackupInOrder, SnapshotInOrder, PhoneBook, Snapshot
    <3> QED
      BY <2>3, <3>3, <3>4
  <2>5. CASE ~PhoneBook
    <3>1. ~LoadBook /\ \A w \in Writers : ~PhoneBookStep(w)
      BY <2>5 DEF LoadBook, PhoneBookStep, UpdateBook, Persist, OpenTruncated,
                  WriteBook, RenameOver, PhoneBook
    <3>2. BackupInv
      BY <2>5 DEF BackupInv
    <3>3. BackupInv'
      <4>1. ASSUME NEW w \in Writers, BackupStep(w) PROVE BackupInv'
        BY <3>2, <4>1, BeginKeeps, CreateTemporaryKeeps, WriteWholeKeeps,
           SyncFileKeeps, CheckAgainKeeps, PublishKeeps, SyncParentKeeps,
           DropAttemptKeeps DEF BackupStep
      <4>2. ASSUME NEW w \in Writers, CallFails(w) PROVE BackupInv'
        BY <3>2, <4>2, FailedBackupKeeps
      <4>3. ASSUME NEW n \in DOMAIN temp, TemporaryRemoved(n) PROVE BackupInv'
        BY <3>2, <4>3, RemovedBackupKeeps
      <4>4. Crash \/ PowerLoss => BackupInv'
        BY <3>2, ProcessEndKeeps
      <4> QED
        BY <2>1, <3>1, <4>1, <4>2, <4>3, <4>4
    <3>4. BookInv'
      BY <2>2, <2>5 DEF BookInv, Unborn, BookInOrder, OneWriter, EmptyIsOpen,
                        BookIsKept, PhoneBook
    <3> QED
      BY <2>3, <3>3, <3>4 DEF BackupInv
  <2> QED
    BY <2>4, <2>5
<1> QED
  BY <1>1, <1>2

LEMMA Invariance == Spec => []PublicationInv
BY InitInv, StepInv, PTL DEF Spec

-----------------------------------------------------------------------------
(* The theorems.                                                           *)

\* Names refer to files that were created, and executions to their positions.
THEOREM TypeCorrect == Spec => []TypeOK
<1>1. PublicationInv => TypeOK
  BY Typed DEF PublicationInv
<1> QED
  BY <1>1, Invariance, PTL

\* Whoever opens the published phone book, snapshot or copy finds it whole,
\* unless two executions of persist had the temporary phone book open.
THEOREM WholeIsPublished == Spec => []PublishedIsWhole
<1>1. PublicationInv => PublishedIsWhole
  <2> SUFFICES ASSUME PublicationInv, place # NoFile, content[place] = 0
               PROVE  /\ overlapped
                      /\ \/ faults > 0
                         \/ \E w \in Writers : /\ At(w, "write")
                                               /\ work[w].file = place
    BY DEF PublishedIsWhole
  <2> USE DEF PublicationInv
  <2>1. PhoneBook
    BY DEF BackupInOrder
  <2>2. overlapped
    BY <2>1 DEF BookInv, OneWriter
  <2>3. place \in Files /\ place <= created /\ faults \in Nat
    BY PublicationAssumption
       DEF Types, TypeNames, TypeFiles, TypeHistory, Files, NoFile
  <2> QED
    BY <2>1, <2>2, <2>3 DEF BookInv, EmptyIsOpen
<1> QED
  BY <1>1, Invariance, PTL

\* What write or backup_to_path acknowledged is there, whole and under its
\* name, after any failures and crashes, and a snapshot after a power loss.
THEOREM AcknowledgedKept == Spec => []AcknowledgedSurvives
<1>1. PublicationInv => AcknowledgedSurvives
  BY DEF PublicationInv, AcknowledgedSurvives, BookInv, BookInOrder, BackupInOrder,
         Types, TypeHistory, NoFile
<1> QED
  BY <1>1, Invariance, PTL

\* Overlapping executions of touch_caller and merge_update leave the phone
\* book in memory on the disk when all of them have ended without a failure.
THEOREM QuietBook == Spec => []QuietBookIsStored
<1>1. PublicationInv => QuietBookIsStored
  <2> SUFFICES ASSUME PublicationInv, PhoneBook, faults = 0,
                      \A w \in Writers : At(w, "idle")
               PROVE  content[place] = book
    BY DEF QuietBookIsStored, PhoneBook
  <2> QED
    BY DEF PublicationInv, BookInv, BookIsKept, Fresh, Writing, At
<1> QED
  BY <1>1, Invariance, PTL

\* When write or backup_to_path has returned, with Ok or with an error of any
\* of its calls, its temporary file is gone.
THEOREM NothingIsLeft == Spec => []NothingLeftBehind
<1>1. PublicationInv => NothingLeftBehind
  BY DEF PublicationInv, NothingLeftBehind, BookInv, BookInOrder, BackupInOrder,
         Holding, At
<1> QED
  BY <1>1, Invariance, PTL

\* A published backup is never replaced, and a phone book only by one that has
\* all the updates of its predecessor, whoever renames whose temporary file.
THEOREM NothingOlderReplaces == Spec => NothingOlder
<1> DEFINE Newer == place # NoFile /\ place' \notin {place, NoFile} =>
                       /\ kind = "phone_book"
                       /\ content'[place'] # 0 => content'[place'] >= content[place]
<1>1. PublicationInv /\ [Next]_vars => [Newer]_vars
  <2> SUFFICES ASSUME PublicationInv, [Next]_vars, place # NoFile,
                      place' \notin {place, NoFile}
               PROVE  Newer
    OBVIOUS
  <2> USE DEF PublicationInv
  <2>1. \/ \E w \in Writers : RenameOver(w) \/ Publish(w)
        \/ PowerLoss
    BY DEF Next, vars, names, files, history, PhoneBookStep, UpdateBook, Persist,
           OpenTruncated, WriteBook, BackupStep, Begin, CreateTemporary, WriteWhole,
           SyncFile, CheckAgain, SyncParent, DropAttempt, CallFails, LoadBook,
           TemporaryRemoved, Crash
  <2>2. ASSUME NEW w \in Writers, RenameOver(w) PROVE Newer
    <3>1. /\ PhoneBook /\ At(w, "rename") /\ content' = content
          /\ temp["tmp"] # NoFile /\ place' = temp["tmp"]
      BY <2>2 DEF RenameOver, PhoneBook, files
    <3>2. content[place'] \in {0, book} /\ book # 0 /\ content[place] <= book
      BY <3>1 DEF BookInv, BookInOrder, Writing, At
    <3>3. content[place] \in Nat /\ book \in Nat
      BY PublicationAssumption, NamesAreFiles
         DEF Types, TypeFiles, TypeWork
    <3> QED
      BY <3>1, <3>2, <3>3 DEF PhoneBook
  <2>3. ASSUME NEW w \in Writers, Publish(w) PROVE Newer
    BY <2>3 DEF Publish
  <2>4. CASE PowerLoss
    BY <2>4 DEF PowerLoss, SnapshotInOrder, Snapshot
  <2> QED
    BY <2>1, <2>2, <2>3, <2>4
<1> QED
  BY <1>1, Invariance, PTL DEF Spec, NothingOlder
=============================================================================
