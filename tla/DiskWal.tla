------------------------------ MODULE DiskWal ------------------------------
(***************************************************************************)
(* The write-ahead log of the durable key-value store                      *)
(* (internal/wal/wal.go).                                                  *)
(*                                                                         *)
(* The log is a series of files, numbered by their Collection, of pages of *)
(* fixed size.  An entry takes one page of type Whole, or a Start page,    *)
(* Middle pages and an End page, which may lie in two files.  The position *)
(* in the log is a SequenceId: a Collection and the number of pages in it. *)
(* The Term is 1 for ever (the code sets no other) and is left out.        *)
(*                                                                         *)
(* A page is written by one call of write(2), so a process that is killed  *)
(* leaves whole pages behind.  Loss of power, which could tear a page or   *)
(* drop pages that were not yet synced, is not modelled, and so neither is *)
(* the background Sync.                                                    *)
(***************************************************************************)
EXTENDS Naturals, Sequences

CONSTANTS
    Entry,     \* the entries that are ever written, each with an identity
    PagesOf,   \* the number of pages each of them needs
    MaxPages,  \* maxFileSize \div maxPageSize
    NoEntry    \* the content of a BrokenEnd page

ASSUME WalAssumption ==
    /\ PagesOf \in [Entry -> Nat \ {0}]
    /\ MaxPages \in Nat \ {0}
    /\ NoEntry \notin Entry

VARIABLES
    files,          \* on disk: the pages of each wal file, by Collection
    curCollection,
    curSeq,
    pageOccupied,
    curFile         \* whether a file is open

diskWal == <<curCollection, curSeq, pageOccupied, curFile>>

EntryType == {"Whole", "Start", "Middle", "End", "BrokenEnd"}
Page == [entry : Entry \cup {NoEntry}, type : EntryType]
SequenceId == [Collection : Nat, Seq : Nat]

WalTypeOK ==
    /\ files \in Seq(Seq(Page))
    /\ curCollection \in Nat
    /\ curSeq \in Nat
    /\ pageOccupied \in Nat
    /\ curFile \in BOOLEAN

\* SequenceId.Compare(to) > 0
NewerThan(s, to) ==
    \/ s.Collection > to.Collection
    \/ s.Collection = to.Collection /\ s.Seq > to.Seq

StartWalSequence == [Collection |-> 1, Seq |-> 1]

curPosition == [Collection |-> curCollection, Seq |-> curSeq]

\* "no wal": what Initialize finds in an empty folder
NoWal == curCollection = 0 /\ curSeq = 0

\* An empty folder, and what NewDiskWal returns
WalInit ==
    /\ files = << >>
    /\ curCollection = 0
    /\ curSeq = 0
    /\ pageOccupied = 0
    /\ curFile = FALSE

-----------------------------------------------------------------------------
\* The type of the i-th page of an entry of n pages.
PageType(i, n) ==
    CASE n = 1           -> "Whole"
      [] n > 1 /\ i = n  -> "End"
      [] n > 1 /\ i = 1  -> "Start"
      [] OTHER           -> "Middle"

OpenNextFile ==
    /\ files' = Append(files, << >>)
    /\ curCollection' = curCollection + 1
    /\ curSeq' = 0
    /\ curFile' = TRUE

\* A bug to catch: a new file does not start its own numbering of pages.
guaranteePageKeepsSeq ==
    \/ /\ ~curFile \/ pageOccupied + 1 > MaxPages
       /\ files' = Append(files, << >>)
       /\ curCollection' = curCollection + 1
       /\ curFile' = TRUE
       /\ pageOccupied' = IF curFile THEN 0 ELSE pageOccupied
       /\ UNCHANGED curSeq
    \/ /\ curFile /\ pageOccupied + 1 <= MaxPages
       /\ UNCHANGED <<files, diskWal>>

\* guaranteePage(1)
guaranteePage ==
    \/ /\ ~curFile                                \* no file open
       /\ OpenNextFile
       /\ UNCHANGED pageOccupied
    \/ /\ curFile /\ pageOccupied + 1 > MaxPages  \* reach max file size
       /\ OpenNextFile
       /\ pageOccupied' = 0
    \/ /\ curFile /\ pageOccupied + 1 <= MaxPages
       /\ UNCHANGED <<files, diskWal>>

writeDataPage(e, t) ==
    /\ files' = [files EXCEPT ![curCollection] = Append(@, [entry |-> e, type |-> t])]
    /\ curSeq' = curSeq + 1
    /\ pageOccupied' = pageOccupied + 1
    /\ UNCHANGED <<curCollection, curFile>>

-----------------------------------------------------------------------------
lastFile == files[Len(files)]

\* What readWalFileInfo leaves of the last file: a record that stops after a
\* Middle page gets a BrokenEnd page.
FixIncomplete(f) ==
    IF f[Len(f)].type = "Middle"
    THEN Append(f, [entry |-> NoEntry, type |-> "BrokenEnd"])
    ELSE f

\* Initialize in a folder without wal files
InitializeEmpty ==
    /\ files = << >>
    /\ UNCHANGED <<files, diskWal>>

\* readWalFileInfo indexes the records of the last page, and panics when the
\* last file has no page.
InitializePanics == files # << >> /\ lastFile = << >>

\* The last file is opened, and its pages are counted once more.
seekWalFileWritePoint(f) ==
    /\ pageOccupied' = Len(f)
    /\ curFile' = TRUE

\* A bug to catch: the pages that the last file holds already are not counted.
InitializeFromFilesUncounted ==
    /\ files # << >> /\ lastFile # << >>
    /\ LET fixed == FixIncomplete(lastFile)
       IN  /\ files' = [files EXCEPT ![Len(files)] = fixed]
           /\ curSeq' = Len(fixed)
    /\ pageOccupied' = 0
    /\ curCollection' = Len(files)
    /\ curFile' = TRUE

\* A bug to catch: the position counts complete records instead of pages.
InitializeFromRecords ==
    /\ files # << >> /\ lastFile # << >>
    /\ LET fixed == FixIncomplete(lastFile)
       IN  /\ files' = [files EXCEPT ![Len(files)] = fixed]
           /\ curSeq' = Len(SelectSeq(fixed, LAMBDA pg : pg.type \in {"Whole", "End"}))
           /\ seekWalFileWritePoint(fixed)
    /\ curCollection' = Len(files)

\* Initialize from the last file: its number and its pages are the position.
InitializeFromFiles ==
    /\ files # << >> /\ lastFile # << >>
    /\ LET fixed == FixIncomplete(lastFile)
       IN  /\ files' = [files EXCEPT ![Len(files)] = fixed]
           /\ curSeq' = Len(fixed)
           /\ seekWalFileWritePoint(fixed)
    /\ curCollection' = Len(files)

-----------------------------------------------------------------------------
\* The files that ReplayIncomplete may start from to replay what came after
\* `from': the newest that is not newer than the file `from' is in.
ReplayStart(from) ==
    {c \in DOMAIN files : /\ c <= from.Collection
                          /\ \A d \in DOMAIN files : d <= from.Collection => d <= c}
=============================================================================
