---------------------------- MODULE KVStorageAdv ----------------------------
(***************************************************************************)
(* The durable key-value store (internal/service/solestorage.go): every    *)
(* Put is written to the log of module DiskWal, then to the key-value      *)
(* files of internal/storage/impl.diskv.go, and then its position in the   *)
(* log is stored there too, under VersionKey.  Initialize replays what the *)
(* stored position lacks.                                                  *)
(*                                                                         *)
(* Connections of the RESP service call Put concurrently: only the log has *)
(* a lock, held while the pages of one entry are written.  The process may *)
(* be killed between any two steps and started again; kv, version and      *)
(* files survive.  The library that keeps the key-value files (diskv) is   *)
(* given no TempDir, so it writes over the old value: a process killed in  *)
(* the middle of that leaves a torn value, or a torn position, and a write *)
(* that returns an error may have removed the file.  (diskv's read cache,  *)
(* from which Get may still answer until the next start, is left out.)     *)
(*                                                                         *)
(* VersionKey has the format of any other key, and nothing keeps a Put     *)
(* from it: such a Put, and its replay, write over the stored position.    *)
(***************************************************************************)
EXTENDS DiskWal

CONSTANTS
    Putter,     \* connections that call Put
    Key,
    KeyOf,      \* the key each entry is written to
    ValidKey,   \* the keys that the key-value files accept, but for VersionKey
    VersionKey,
    PositionIn, \* the position that the value of an entry decodes to, or Torn
    NoVersion,  \* no value is stored under VersionKey
    Torn        \* what is left of a value when the process was killed writing it

ASSUME StoreAssumption ==
    /\ KeyOf \in [Entry -> Key]
    /\ ValidKey \subseteq Key
    /\ VersionKey \in Key \ ValidKey
    /\ PositionIn \in [Entry -> SequenceId \cup {Torn}]
    /\ NoVersion \notin SequenceId
    /\ Torn \notin Entry \cup SequenceId \cup {NoEntry, NoVersion}

VARIABLES
    kv,        \* on disk: the entry last stored for each key
    version,   \* on disk: what is stored under VersionKey
    status,    \* where the process is between its start and serving
    cursor,    \* the page that a replay reads next
    pc,        \* where each Put is
    entry,     \* what it writes
    written,   \* how many of its pages are in the log
    seq,       \* the position WriteEntry returned
    issued,    \* history: entries some Put was called with
    acked,     \* history: entries whose Put returned no error
    failed,    \* history: entries whose Put failed to write the key-value file
    before,    \* history: acked and failed when the Put of an entry began
    overlap    \* history: some Put began while another one was under way

putVars == <<pc, entry, written, seq>>
histVars == <<issued, acked, failed, before, overlap>>
vars == <<files, diskWal, kv, version, status, cursor, putVars, histVars>>

Status == {"down", "check", "replay", "writeVersion", "up",
           "panicked", "unreadable", "refused", "undecodable", "failed"}

NoCursor == [file |-> 0, page |-> 0]

TypeOK ==
    /\ WalTypeOK
    /\ kv \in [ValidKey -> Entry \cup {NoEntry, Torn}]
    /\ version \in SequenceId \cup {NoVersion, Torn}
    /\ status \in Status
    /\ cursor \in [file : Nat, page : Nat]
    /\ pc \in [Putter -> {"idle", "page", "write", "kv", "version"}]
    /\ entry \in [Putter -> Entry \cup {NoEntry}]
    /\ written \in [Putter -> Nat]
    /\ seq \in [Putter -> SequenceId]
    /\ issued \subseteq Entry
    /\ acked \subseteq issued
    /\ failed \subseteq issued
    /\ before \in [Entry -> SUBSET Entry]
    /\ overlap \in BOOLEAN

Init ==
    /\ WalInit
    /\ pc = [p \in Putter |-> "idle"]
    /\ entry = [p \in Putter |-> NoEntry]
    /\ written = [p \in Putter |-> 0]
    /\ seq = [p \in Putter |-> StartWalSequence]
    /\ cursor = NoCursor
    /\ status = "down"
    /\ kv = [k \in ValidKey |-> NoEntry]
    /\ version = NoVersion
    /\ issued = {}
    /\ acked = {}
    /\ failed = {}
    /\ before = [e \in Entry |-> {}]
    /\ overlap = FALSE

-----------------------------------------------------------------------------
(***************************************************************************)
(* The key-value files                                                     *)
(***************************************************************************)

\* validateKeyFormat
AcceptedKey == ValidKey \cup {VersionKey}

\* What is left in the file of an entry's key: a value, or a position when the
\* key is VersionKey.
SetFile(e, value, position) ==
    \/ /\ KeyOf[e] # VersionKey
       /\ kv' = [kv EXCEPT ![KeyOf[e]] = value]
       /\ UNCHANGED version
    \/ /\ KeyOf[e] = VersionKey
       /\ version' = position
       /\ UNCHANGED kv

\* kv.Put of an entry whose key is accepted
Store(e) == SetFile(e, e, PositionIn[e])

\* kv.Put returns an error: the file could not be opened, or it was truncated
\* and then removed because the write failed, or closing it failed after the
\* write.
StoreFails(e) ==
    \/ UNCHANGED <<kv, version>>
    \/ SetFile(e, NoEntry, NoVersion)
    \/ Store(e)

\* The same of writeVersion
StoreVersionFails(s) == version' \in {version, NoVersion, s}

-----------------------------------------------------------------------------
(***************************************************************************)
(* Initialize                                                              *)
(***************************************************************************)

\* k.wal.Initialize()
WalInitialize ==
    /\ status = "down"
    /\ \/ InitializeEmpty /\ status' = "check"
       \/ InitializeFromFiles /\ status' = "check"
       \/ InitializePanics /\ status' = "panicked" /\ UNCHANGED <<files, diskWal>>
    /\ UNCHANGED <<kv, version, cursor, putVars, histVars>>

\* readVersion, and StartWalSequence when nothing is found
from == IF version = NoVersion THEN StartWalSequence ELSE version

\* readVersion cannot decode what it finds: Initialize returns the error.
VersionUnreadable ==
    /\ status = "check" /\ version = Torn
    /\ status' = "unreadable"
    /\ UNCHANGED <<files, diskWal, kv, version, cursor, putVars, histVars>>

\* ReplayIncomplete up to the choice of the first file
ReplayIncomplete ==
    /\ status = "check" /\ version # Torn
    /\ \/ /\ curPosition = from \/ NoWal
          /\ status' = "writeVersion" /\ UNCHANGED cursor
       \/ /\ curPosition # from /\ ~NoWal
          /\ NewerThan(from, curPosition) \/ ReplayStart(from) = {}
          /\ status' = "refused" /\ UNCHANGED cursor
       \/ /\ curPosition # from /\ ~NoWal
          /\ ~NewerThan(from, curPosition)
          /\ \E c \in ReplayStart(from) : cursor' = [file |-> c, page |-> 1]
          /\ status' = "replay"
    /\ UNCHANGED <<files, diskWal, kv, version, putVars, histVars>>

\* recoverFn decodes the data of one page as an entry and stores it.
Decodable(pg) == pg.type = "Whole" /\ KeyOf[pg.entry] \in AcceptedKey

\* A bug to catch: the replay goes on when recoverFn returns an error.
ReplayPageIgnoresErrors ==
    /\ status = "replay"
    /\ cursor.file \in DOMAIN files
    /\ cursor.page \in DOMAIN files[cursor.file]
    /\ LET pg == files[cursor.file][cursor.page]
       IN  \/ Decodable(pg) /\ (Store(pg.entry) \/ StoreFails(pg.entry))
           \/ ~Decodable(pg) /\ UNCHANGED <<kv, version>>
    /\ cursor' = [cursor EXCEPT !.page = @ + 1]
    /\ UNCHANGED <<files, diskWal, status, putVars, histVars>>

\* replayFile: the page at the cursor
ReplayPage ==
    /\ status = "replay"
    /\ cursor.file \in DOMAIN files
    /\ cursor.page \in DOMAIN files[cursor.file]
    /\ LET pg == files[cursor.file][cursor.page]
       IN  \/ /\ Decodable(pg)
              /\ Store(pg.entry)
              /\ cursor' = [cursor EXCEPT !.page = @ + 1]
              /\ UNCHANGED status
           \/ /\ Decodable(pg)
              /\ StoreFails(pg.entry)
              /\ status' = "failed"
              /\ UNCHANGED cursor
           \/ /\ ~Decodable(pg)
              /\ status' = "undecodable"
              /\ UNCHANGED <<kv, version, cursor>>
    /\ UNCHANGED <<files, diskWal, putVars, histVars>>

\* The end of a file: the next one, or the end of the log.
ReplayFileEnd ==
    /\ status = "replay"
    /\ cursor.file \in DOMAIN files => cursor.page \notin DOMAIN files[cursor.file]
    /\ IF cursor.file + 1 \in DOMAIN files
       THEN cursor' = [file |-> cursor.file + 1, page |-> 1] /\ UNCHANGED status
       ELSE cursor' = NoCursor /\ status' = "writeVersion"
    /\ UNCHANGED <<files, diskWal, kv, version, putVars, histVars>>

\* k.writeVersion of what ReplayIncomplete returned
InitialVersion ==
    /\ status = "writeVersion"
    /\ LET s == IF NoWal THEN StartWalSequence ELSE curPosition
       IN  \/ version' = s /\ status' = "up"
           \/ StoreVersionFails(s) /\ status' = "failed"
    /\ UNCHANGED <<files, diskWal, kv, cursor, putVars, histVars>>

-----------------------------------------------------------------------------
(***************************************************************************)
(* Put                                                                     *)
(***************************************************************************)

\* A bug to catch: the log is not locked.
LogUnlocked == TRUE

\* DiskWal.Lock() is free.
LogFree == \A q \in Putter : pc[q] \notin {"page", "write"}

\* Put up to the lock of the log
Put(p, e) ==
    /\ status = "up" /\ pc[p] = "idle" /\ e \notin issued
    /\ LogFree
    /\ pc' = [pc EXCEPT ![p] = "page"]
    /\ entry' = [entry EXCEPT ![p] = e]
    /\ written' = [written EXCEPT ![p] = 0]
    /\ issued' = issued \cup {e}
    /\ before' = [before EXCEPT ![e] = acked \cup failed]
    /\ overlap' = (overlap \/ \E q \in Putter : pc[q] # "idle")
    /\ UNCHANGED <<files, diskWal, kv, version, status, cursor, seq, acked, failed>>

GuaranteePage(p) ==
    /\ pc[p] = "page"
    /\ guaranteePage
    /\ pc' = [pc EXCEPT ![p] = "write"]
    /\ UNCHANGED <<kv, version, status, cursor, entry, written, seq, histVars>>

\* A bug to catch: the position is stored as soon as the entry is in the log.
WriteDataPageAndVersion(p) ==
    /\ pc[p] = "write"
    /\ LET n == PagesOf[entry[p]]
           i == written[p] + 1
       IN  /\ writeDataPage(entry[p], PageType(i, n))
           /\ written' = [written EXCEPT ![p] = i]
           /\ IF i = n
              THEN /\ pc' = [pc EXCEPT ![p] = "kv"]
                   /\ seq' = [seq EXCEPT ![p] = curPosition']
                   /\ version' = curPosition'
              ELSE pc' = [pc EXCEPT ![p] = "page"] /\ UNCHANGED <<seq, version>>
    /\ UNCHANGED <<kv, status, cursor, entry, histVars>>

\* writeDataPage; after the last page WriteEntry unlocks the log and returns
\* the position.
WriteDataPage(p) ==
    /\ pc[p] = "write"
    /\ LET n == PagesOf[entry[p]]
           i == written[p] + 1
       IN  /\ writeDataPage(entry[p], PageType(i, n))
           /\ written' = [written EXCEPT ![p] = i]
           /\ IF i = n
              THEN /\ pc' = [pc EXCEPT ![p] = "kv"]
                   /\ seq' = [seq EXCEPT ![p] = curPosition']
              ELSE pc' = [pc EXCEPT ![p] = "page"] /\ UNCHANGED seq
    /\ UNCHANGED <<kv, version, status, cursor, entry, histVars>>

\* A bug to catch: the format of the key is not validated.
KvPutUnvalidated(p) ==
    /\ pc[p] = "kv"
    /\ LET k == KeyOf[entry[p]]
       IN  kv' = [x \in DOMAIN kv \cup {k} |-> IF x = k THEN entry[p] ELSE kv[x]]
    /\ pc' = [pc EXCEPT ![p] = "version"]
    /\ UNCHANGED <<files, diskWal, version, status, cursor, entry, written, seq, histVars>>

\* k.kv.Put(key, val)
KvPut(p) ==
    /\ pc[p] = "kv"
    /\ KeyOf[entry[p]] \in AcceptedKey
    /\ Store(entry[p])
    /\ pc' = [pc EXCEPT ![p] = "version"]
    /\ UNCHANGED <<files, diskWal, status, cursor, entry, written, seq, histVars>>

\* k.writeVersion(seq), and Put returns nil
WriteVersion(p) ==
    /\ pc[p] = "version"
    /\ version' = seq[p]
    /\ pc' = [pc EXCEPT ![p] = "idle"]
    /\ acked' = acked \cup {entry[p]}
    /\ UNCHANGED <<files, diskWal, kv, status, cursor, entry, written, seq, issued, failed, before, overlap>>

\* Each write may return an error; Put returns it, and what is written so far
\* stays.  A page that could not be written is not counted.
WriteEntryFails(p) ==
    /\ pc[p] = "write"
    /\ pc' = [pc EXCEPT ![p] = "idle"]
    /\ UNCHANGED <<files, diskWal, kv, version, status, cursor, entry, written, seq, histVars>>

\* The key-value files refuse the format of the key, or cannot be written.
KvPutFails(p) ==
    /\ pc[p] = "kv"
    /\ \/ /\ KeyOf[entry[p]] \notin AcceptedKey
          /\ UNCHANGED <<kv, version, failed>>
       \/ /\ KeyOf[entry[p]] \in AcceptedKey
          /\ StoreFails(entry[p])
          /\ failed' = failed \cup {entry[p]}
    /\ pc' = [pc EXCEPT ![p] = "idle"]
    /\ UNCHANGED <<files, diskWal, status, cursor, entry, written, seq, issued, acked, before, overlap>>

WriteVersionFails(p) ==
    /\ pc[p] = "version"
    /\ StoreVersionFails(seq[p])
    /\ pc' = [pc EXCEPT ![p] = "idle"]
    /\ UNCHANGED <<files, diskWal, kv, status, cursor, entry, written, seq, histVars>>

-----------------------------------------------------------------------------
\* The entries that are being written to the key-value files, by a Put or by
\* the replay.
BeingStored ==
    {e \in Entry :
        /\ KeyOf[e] \in AcceptedKey
        /\ \/ \E p \in Putter : pc[p] = "kv" /\ entry[p] = e
           \/ /\ status = "replay" /\ cursor.file \in DOMAIN files
              /\ cursor.page \in DOMAIN files[cursor.file]
              /\ files[cursor.file][cursor.page] = [entry |-> e, type |-> "Whole"]}

VersionBeingStored == status = "writeVersion" \/ \E p \in Putter : pc[p] = "version"

\* diskv writes one value at a time: at most one is torn.
Tear ==
    \/ UNCHANGED <<kv, version>>
    \/ \E e \in BeingStored : SetFile(e, Torn, Torn)
    \/ VersionBeingStored /\ version' = Torn /\ UNCHANGED kv

\* The process ends, whatever it was doing, and is started again:
\* NewKVStorageAdv, and Initialize next.
CrashRestart ==
    /\ status # "down"
    /\ Tear
    /\ curCollection' = 0 /\ curSeq' = 0 /\ pageOccupied' = 0 /\ curFile' = FALSE
    /\ pc' = [p \in Putter |-> "idle"]
    /\ entry' = [p \in Putter |-> NoEntry]
    /\ written' = [p \in Putter |-> 0]
    /\ seq' = [p \in Putter |-> StartWalSequence]
    /\ cursor' = NoCursor
    /\ status' = "down"
    /\ UNCHANGED <<files, histVars>>

Initialize ==
    \/ WalInitialize \/ VersionUnreadable \/ ReplayIncomplete
    \/ ReplayPage \/ ReplayFileEnd \/ InitialVersion

PutStep(p) ==
    \/ \E e \in Entry : Put(p, e)
    \/ GuaranteePage(p)
    \/ WriteDataPage(p)
    \/ KvPut(p)
    \/ WriteVersion(p)
    \/ WriteEntryFails(p)
    \/ KvPutFails(p)
    \/ WriteVersionFails(p)

Next ==
    \/ Initialize
    \/ \E p \in Putter : PutStep(p)
    \/ CrashRestart

Spec == Init /\ [][Next]_vars

-----------------------------------------------------------------------------
(***************************************************************************)
(* Properties                                                              *)
(***************************************************************************)

Serving == status \in {"check", "replay", "writeVersion", "up"}

\* The position in memory is the end of the log on disk, whatever crashes and
\* failed writes came before (curSeq, curCollection and pageOccupied of
\* DiskWal against the files): otherwise positions of entries repeat and files
\* grow past their limit.
WritePointIsLogEnd ==
    Serving =>
        /\ curCollection = Len(files)
        /\ curSeq = pageOccupied
        /\ curSeq = IF files = << >> THEN 0 ELSE Len(lastFile)

\* No wal file holds more than MaxPages pages, but for the one BrokenEnd page
\* that Initialize appends without guaranteePage.
FilesBounded ==
    \A c \in DOMAIN files :
        \/ Len(files[c]) <= MaxPages
        \/ /\ Len(files[c]) = MaxPages + 1
           /\ files[c][MaxPages + 1].type = "BrokenEnd"

\* No Put was called with VersionKey as its key.
VersionKeyUntouched == \A e \in issued : KeyOf[e] # VersionKey

\* ReplayIncomplete never refuses the stored position ("request newer wal than
\* history", "insufficient wal history") unless a Put was called with
\* VersionKey itself: in every order in which concurrent Puts store their
\* positions, wherever the process is killed and whichever write fails, what is
\* stored under VersionKey is a position of the log, or nothing.  (A Put of
\* VersionKey that is cut short, or its replay, leaves there what the client
\* sent.)
ReplayNeverRefused == VersionKeyUntouched => status # "refused"

\* The page before page i of file c, in the same file or at the end of the
\* file before.
PageBefore(c, i) ==
    IF i > 1 THEN files[c][i - 1] ELSE files[c - 1][Len(files[c - 1])]

\* The pages of an entry are never interleaved with those of another one,
\* although Puts run concurrently and crashes and failed writes leave
\* incomplete records: a page that continues a record follows the page it
\* continues.
RecordsContiguous ==
    \A c \in DOMAIN files : \A i \in DOMAIN files[c] :
        files[c][i].type \in {"Middle", "End", "BrokenEnd"} =>
            /\ c > 1 \/ i > 1
            /\ PageBefore(c, i).type \in {"Start", "Middle"}
            /\ files[c][i].type # "BrokenEnd" => PageBefore(c, i).entry = files[c][i].entry

\* A Put that was acknowledged is never undone: while the store serves, the
\* value is none that an earlier Put wrote or tried to write, put back by a
\* replay, and it is missing only when a Put of the same key that was not over
\* when this one began failed to write it (diskv removes the file).  No failure
\* or kill during Initialize costs it, and no Put of another key.
AckedNeverReverts ==
    VersionKeyUntouched /\ status = "up" =>
        \A e \in acked :
            /\ kv[KeyOf[e]] \notin before[e]
            /\ kv[KeyOf[e]] = NoEntry =>
                   \E f \in failed \ before[e] : KeyOf[f] = KeyOf[e]

\* As long as Puts come one after the other, a process killed in the middle of
\* a write never leaves an acknowledged value torn: the position is stored
\* after the value, so a value that is torn is replayed from the log before the
\* store serves again.  (When Puts overlap it may: a later one can have stored
\* its position already.)
AckedNotTorn ==
    VersionKeyUntouched /\ status = "up" /\ ~overlap =>
        \A e \in acked : kv[KeyOf[e]] # Torn

-----------------------------------------------------------------------------
(***************************************************************************)
(* What the comments in the code promise and the code does not do          *)
(***************************************************************************)

\* Entry e is what the log holds last, in one page, for its key.
LoggedLast(e) ==
    \E c \in DOMAIN files : \E i \in DOMAIN files[c] :
        /\ files[c][i] = [entry |-> e, type |-> "Whole"]
        /\ \A d \in DOMAIN files : \A j \in DOMAIN files[d] :
               (d > c \/ (d = c /\ j > i)) =>
                   files[d][j].entry = NoEntry \/ KeyOf[files[d][j].entry] # KeyOf[e]

\* "check if recover required" (solestorage.go): when Initialize is done with
\* the replay, every key has the value that the log holds last for it.
LoggedIsRecovered ==
    status = "writeVersion" =>
        \A e \in Entry : LoggedLast(e) /\ KeyOf[e] \in ValidKey => kv[KeyOf[e]] = e

\* "empty file" (readWalFileInfo): a wal file without pages, which a crash
\* leaves when it comes between guaranteePage and writeDataPage, is a clean one.
EmptyFileIsClean == status # "panicked"

\* The record of entry e was marked as broken by Initialize.
MarkedBroken(e) ==
    \E c \in DOMAIN files : \E i \in DOMAIN files[c] :
        files[c][i].type = "BrokenEnd" /\ PageBefore(c, i).entry = e

\* "in order to indicate that the whole record is invalid" (Initialize): no
\* replay fails on a page of a record that is marked so.
InvalidRecordIgnored ==
    status = "undecodable" => ~MarkedBroken(files[cursor.file][cursor.page].entry)
=============================================================================
