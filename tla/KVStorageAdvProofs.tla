------------------------- MODULE KVStorageAdvProofs -------------------------
(***************************************************************************)
(* Proofs about KVStorageAdv and DiskWal for every set of connections,     *)
(* keys and entries, every number of pages of each entry and every size of *)
(* the files.                                                              *)
(*                                                                         *)
(* The properties of the store rest on those of the log.  The invariant    *)
(* has four parts: the shape of the files and the position in memory       *)
(* (LogLink), what each Put has written so far (PutLink), the stored       *)
(* position (VersionLink), and the order of entries in the log, from which *)
(* a replay restores what it must (StoreLink).  What depends on the stored *)
(* position holds as long as no Put was called with VersionKey.            *)
(***************************************************************************)
EXTENDS KVStorageAdv, TLAPS

\* There is a page i in file c.
At(c, i) == c \in DOMAIN files /\ i \in DOMAIN files[c]

\* The end of the log on disk.
LogEnd == [Collection |-> Len(files), Seq |-> IF files = << >> THEN 0 ELSE Len(lastFile)]

\* Page i of file c is not before page j of file d.
NotBefore(c, i, d, j) == c > d \/ (c = d /\ i >= j)

\* Page i of file c is the last one of the log.
LastAt(c, i) == At(c, i) /\ \A d, j \in Nat : At(d, j) => NotBefore(c, i, d, j)

\* Some page of the log holds a part of entry e.
InLog(e) == \E c, i \in Nat : At(c, i) /\ files[c][i].entry = e

\* s is a position of the log.
Position(s) == s.Collection \in DOMAIN files /\ s.Seq <= Len(files[s.Collection])

-----------------------------------------------------------------------------
\* No file but the last is empty, and only a page that marks a broken record
\* belongs to no entry.
LogShape ==
    /\ \A c \in DOMAIN files : c < Len(files) => files[c] # << >>
    /\ \A c \in DOMAIN files : \A i \in DOMAIN files[c] :
           files[c][i].type # "BrokenEnd" => files[c][i].entry \in Entry

\* A process that was just started knows nothing of the log.  One that serves
\* has a file open when there is one, and Initialize left no empty file at the
\* end.
OpenLink ==
    /\ status = "down" => curCollection = 0 /\ curSeq = 0 /\ pageOccupied = 0 /\ ~curFile
    /\ Serving => (curFile <=> files # << >>)
    /\ Serving /\ status # "up" /\ files # << >> => lastFile # << >>

LogLink ==
    /\ LogShape /\ OpenLink /\ WritePointIsLogEnd
    /\ FilesBounded /\ RecordsContiguous /\ ReplayNeverRefused

\* Entries whose value a Put has written to the key-value files, or has failed
\* to.
Done == acked \cup failed

\* A Put is under way.
Active(p) == pc[p] # "idle"

\* What the Put of p has in the log.
PutLink(p) ==
    /\ Active(p) => status = "up" /\ entry[p] \in issued \ Done
    /\ pc[p] \in {"page", "write"} =>
           /\ written[p] < PagesOf[entry[p]]
           /\ written[p] > 0 => \A c, i \in Nat : LastAt(c, i) =>
                  files[c][i] = [entry |-> entry[p],
                                 type |-> PageType(written[p], PagesOf[entry[p]])]
           /\ written[p] > 0 => InLog(entry[p])
    /\ pc[p] = "write" => curFile /\ pageOccupied < MaxPages
    /\ pc[p] \in {"kv", "version"} => Position(seq[p]) /\ InLog(entry[p])
    /\ pc[p] = "version" => KeyOf[entry[p]] \in AcceptedKey

\* Puts that are under way have different entries, and at most one of them has
\* the lock of the log.
PutsDiffer ==
    \A p, q \in Putter : Active(p) /\ Active(q) /\ p # q =>
        /\ entry[p] # entry[q] /\ overlap
        /\ ~(pc[p] \in {"page", "write"} /\ pc[q] \in {"page", "write"})

\* The stored position is one of the log, or where an empty log starts.
VersionLink ==
    VersionKeyUntouched =>
        /\ version \in SequenceId => version = StartWalSequence \/ Position(version)
        /\ status \in {"replay", "writeVersion", "up"} => version # Torn

\* Where a replay is.
ReplayLink ==
    VersionKeyUntouched /\ status = "replay" =>
        /\ cursor.file \in DOMAIN files /\ cursor.page >= 1
        /\ cursor.file >= from.Collection /\ NewerThan(LogEnd, from)

-----------------------------------------------------------------------------
\* Entries whose value is in the key-value files: their Put returned no error,
\* or has only the position to store.
Settled == acked \cup {entry[p] : p \in {q \in Putter : pc[q] = "version"}}

\* A Put that was not over when that of e began failed to write the value of
\* the same key.
FailedSince(e) == \E f \in failed \ before[e] : KeyOf[f] = KeyOf[e]

\* The value stored for the key of e is one that the Put of e replaced, or it
\* is missing and no failed Put explains that, or it is a torn one that no
\* overlapping Put can explain.
Bad(e) ==
    \/ kv[KeyOf[e]] \in before[e]
    \/ kv[KeyOf[e]] = NoEntry /\ ~FailedSince(e)
    \/ ~overlap /\ kv[KeyOf[e]] = Torn

\* The replay that is to come, or what is left of it, has a page for the key
\* of e that is not from before e.
Restorable(e) ==
    /\ status \notin {"writeVersion", "up"}
    /\ version # Torn /\ NewerThan(LogEnd, from)
    /\ \E c, i \in Nat :
          /\ At(c, i) /\ files[c][i].entry \in Entry
          /\ KeyOf[files[c][i].entry] = KeyOf[e] /\ files[c][i].entry \notin before[e]
          /\ c >= from.Collection
          /\ status = "replay" => NotBefore(c, i, cursor.file, cursor.page)

\* What was done before a Put began is in the log before its pages.
HistoryLink ==
    \A e \in Entry :
        /\ before[e] \subseteq Done /\ e \notin before[e]
        /\ e \in Done => InLog(e) /\ KeyOf[e] \in AcceptedKey
        /\ \A f \in before[e] : \A c, i, d, j \in Nat :
              /\ At(c, i) /\ files[c][i].entry = f
              /\ At(d, j) /\ files[d][j].entry = e
              => ~NotBefore(c, i, d, j)

SettledLink ==
    VersionKeyUntouched => \A e \in Settled : Bad(e) => Restorable(e)

\* The entry that a Put is about to store is at the end of the log, and the
\* stored position is older.
PendingLink(p) ==
    VersionKeyUntouched /\ pc[p] = "kv" /\ ~overlap /\ acked # {} =>
        /\ NewerThan(LogEnd, from) /\ lastFile # << >>
        /\ \A c, i \in Nat : LastAt(c, i) => files[c][i].entry = entry[p]

\* The pages of the log are those of entries that some Put was called with.
IssuedLink == \A c, i : At(c, i) => files[c][i].entry \in issued \cup {NoEntry}

StoreLink ==
    /\ HistoryLink /\ SettledLink /\ IssuedLink
    /\ \A p \in Putter : PendingLink(p)

IndInv ==
    /\ TypeOK /\ LogLink
    /\ (\A p \in Putter : PutLink(p)) /\ PutsDiffer
    /\ VersionLink /\ ReplayLink /\ StoreLink

-----------------------------------------------------------------------------
(***************************************************************************)
(* The log grows                                                           *)
(***************************************************************************)

\* A page is added to the last file.
Appends(pg) ==
    /\ files # << >>
    /\ files' = [files EXCEPT ![Len(files)] = Append(@, pg)]

\* A new file is added.
Opens == files' = Append(files, << >>)

\* Nothing that is on disk goes away or changes.
Grows ==
    /\ \A c, i \in Nat : At(c, i) => At(c, i)' /\ files'[c][i] = files[c][i]
    /\ \A c \in DOMAIN files : c \in DOMAIN files' /\ Len(files[c]) <= Len(files'[c])
    /\ LogEnd' = LogEnd \/ NewerThan(LogEnd', LogEnd)

LEMMA FilesType ==
    ASSUME WalTypeOK
    PROVE  /\ Len(files) \in Nat /\ DOMAIN files = 1..Len(files)
           /\ files # << >> <=> Len(files) > 0
           /\ \A c \in DOMAIN files : /\ files[c] \in Seq(Page) /\ Len(files[c]) \in Nat
                                      /\ DOMAIN files[c] = 1..Len(files[c])
                                      /\ files[c] # << >> <=> Len(files[c]) > 0
           /\ \A c \in DOMAIN files : \A i \in DOMAIN files[c] : files[c][i] \in Page
           /\ LogEnd \in SequenceId
           /\ files # << >> => Len(files) \in DOMAIN files
BY DEF WalTypeOK, LogEnd, SequenceId, lastFile

\* The number of files, and the pages of each.
LEMMA FilesLen ==
    ASSUME WalTypeOK
    PROVE  /\ Len(files) \in Nat /\ DOMAIN files = 1..Len(files)
           /\ files # << >> <=> Len(files) >= 1
BY DEF WalTypeOK

LEMMA FilesDomain ==
    ASSUME WalTypeOK, NEW d \in Nat, d >= 1, d <= Len(files)
    PROVE  d \in DOMAIN files
BY FilesLen

LEMMA FileLen ==
    ASSUME WalTypeOK, NEW c \in DOMAIN files
    PROVE  /\ c \in Nat /\ c >= 1 /\ c <= Len(files)
           /\ files[c] \in Seq(Page) /\ Len(files[c]) \in Nat
           /\ DOMAIN files[c] = 1..Len(files[c])
           /\ files[c] # << >> <=> Len(files[c]) >= 1
BY DEF WalTypeOK

LEMMA LastLen ==
    ASSUME WalTypeOK, files # << >>
    PROVE  /\ Len(files) \in Nat /\ Len(files) >= 1 /\ Len(files) \in DOMAIN files
           /\ lastFile = files[Len(files)]
           /\ lastFile \in Seq(Page) /\ Len(lastFile) \in Nat
           /\ DOMAIN lastFile = 1..Len(lastFile)
           /\ lastFile # << >> <=> Len(lastFile) >= 1
BY FilesLen, FileLen DEF lastFile

\* The state of the files after a page is added.
LEMMA AppendsFiles ==
    ASSUME WalTypeOK, NEW pg \in Page, Appends(pg)
    PROVE  /\ files' \in Seq(Seq(Page)) /\ Len(files') = Len(files)
           /\ DOMAIN files' = DOMAIN files
           /\ \A c \in DOMAIN files : c # Len(files) => files'[c] = files[c]
           /\ files'[Len(files)] = Append(lastFile, pg)
           /\ Len(files'[Len(files)]) = Len(lastFile) + 1
           /\ files'[Len(files)][Len(lastFile) + 1] = pg
           /\ \A i \in 1..Len(lastFile) : files'[Len(files)][i] = lastFile[i]
<1>1. /\ Len(files) \in Nat /\ DOMAIN files = 1..Len(files)
      /\ Len(files) \in DOMAIN files /\ lastFile \in Seq(Page) /\ Len(lastFile) \in Nat
  BY FilesType DEF lastFile, Appends
<1>2. Append(lastFile, pg) \in Seq(Page)
  BY <1>1
<1>3. files' = [files EXCEPT ![Len(files)] = Append(lastFile, pg)]
  BY DEF Appends, lastFile
<1>4. files' \in Seq(Seq(Page)) /\ Len(files') = Len(files) /\ DOMAIN files' = DOMAIN files
  BY <1>1, <1>2, <1>3 DEF WalTypeOK
<1>5. files'[Len(files)] = Append(lastFile, pg)
  BY <1>1, <1>3
<1>6. \A c \in DOMAIN files : c # Len(files) => files'[c] = files[c]
  BY <1>1, <1>3
<1> QED
  BY <1>1, <1>2, <1>4, <1>5, <1>6

LEMMA AppendsAt ==
    ASSUME WalTypeOK, NEW pg \in Page, Appends(pg)
    PROVE  /\ \A c, i : At(c, i)' <=> At(c, i) \/ (c = Len(files) /\ i = Len(lastFile) + 1)
           /\ \A c, i : At(c, i) => files'[c][i] = files[c][i]
           /\ files'[Len(files)][Len(lastFile) + 1] = pg
           /\ ~At(Len(files), Len(lastFile) + 1)
           /\ LogEnd' = [Collection |-> Len(files), Seq |-> Len(lastFile) + 1]
           /\ LogEnd = [Collection |-> Len(files), Seq |-> Len(lastFile)]
           /\ Len(files) \in Nat /\ Len(lastFile) \in Nat
<1>1. /\ Len(files) \in Nat /\ DOMAIN files = 1..Len(files) /\ Len(files) > 0
      /\ Len(files) \in DOMAIN files /\ lastFile \in Seq(Page) /\ Len(lastFile) \in Nat
      /\ DOMAIN lastFile = 1..Len(lastFile)
  BY FilesType DEF lastFile, Appends
<1>2. /\ files' \in Seq(Seq(Page)) /\ Len(files') = Len(files)
      /\ DOMAIN files' = DOMAIN files
      /\ \A c \in DOMAIN files : c # Len(files) => files'[c] = files[c]
      /\ Len(files'[Len(files)]) = Len(lastFile) + 1
      /\ files'[Len(files)][Len(lastFile) + 1] = pg
      /\ \A i \in 1..Len(lastFile) : files'[Len(files)][i] = lastFile[i]
  BY AppendsFiles
<1>3. DOMAIN files'[Len(files)] = 1..(Len(lastFile) + 1)
  BY <1>1, <1>2
<1>4. ASSUME NEW c, NEW i
      PROVE  /\ At(c, i)' <=> At(c, i) \/ (c = Len(files) /\ i = Len(lastFile) + 1)
             /\ At(c, i) => files'[c][i] = files[c][i]
  <2>1. CASE c = Len(files)
    BY <2>1, <1>1, <1>2, <1>3 DEF At, lastFile
  <2>2. CASE c # Len(files)
    BY <2>2, <1>1, <1>2 DEF At
  <2> QED
    BY <2>1, <2>2
<1>5. ~At(Len(files), Len(lastFile) + 1)
  BY <1>1 DEF At, lastFile
<1>6. LogEnd' = [Collection |-> Len(files), Seq |-> Len(lastFile) + 1]
  BY <1>1, <1>2 DEF LogEnd, lastFile
<1>7. LogEnd = [Collection |-> Len(files), Seq |-> Len(lastFile)]
  BY DEF LogEnd, Appends
<1> QED
  BY <1>1, <1>2, <1>4, <1>5, <1>6, <1>7

LEMMA OpensAt ==
    ASSUME WalTypeOK, Opens
    PROVE  /\ files' \in Seq(Seq(Page)) /\ Len(files') = Len(files) + 1
           /\ Len(files) \in Nat
           /\ DOMAIN files' = DOMAIN files \cup {Len(files) + 1}
           /\ \A c \in DOMAIN files : files'[c] = files[c]
           /\ files'[Len(files) + 1] = << >>
           /\ \A c, i : At(c, i)' <=> At(c, i)
           /\ \A c, i : At(c, i) => files'[c][i] = files[c][i]
           /\ LogEnd' = [Collection |-> Len(files) + 1, Seq |-> 0]
<1>1. << >> \in Seq(Page)
  OBVIOUS
<1>2. /\ files' \in Seq(Seq(Page)) /\ Len(files') = Len(files) + 1
      /\ Len(files) \in Nat /\ DOMAIN files = 1..Len(files) /\ DOMAIN files' = 1..(Len(files) + 1)
      /\ \A c \in DOMAIN files : files'[c] = files[c]
      /\ files'[Len(files) + 1] = << >>
  BY <1>1 DEF WalTypeOK, Opens
<1>3. DOMAIN files' = DOMAIN files \cup {Len(files) + 1}
  BY <1>2
<1>4. DOMAIN files'[Len(files) + 1] = {}
  BY <1>2
<1>5. ASSUME NEW c, NEW i
      PROVE  /\ At(c, i)' <=> At(c, i)
             /\ At(c, i) => files'[c][i] = files[c][i]
  BY <1>2, <1>3, <1>4 DEF At
<1>6. LogEnd' = [Collection |-> Len(files) + 1, Seq |-> 0]
  BY <1>2 DEF LogEnd, lastFile
<1> QED
  BY <1>2, <1>3, <1>5, <1>6

\* The pages of the log are numbered.
LEMMA AtNat ==
    ASSUME WalTypeOK, NEW c, NEW i, At(c, i)
    PROVE  /\ c \in Nat /\ i \in Nat /\ c >= 1 /\ i >= 1 /\ c <= Len(files)
           /\ i <= Len(files[c]) /\ files[c][i] \in Page
           /\ c = Len(files) => i <= Len(lastFile)
           /\ files # << >> /\ Len(files) \in Nat
BY FilesType DEF At, lastFile

\* After a page is added, it is the last one.
LEMMA AppendsLast ==
    ASSUME WalTypeOK, NEW pg \in Page, Appends(pg), NEW c \in Nat, NEW i \in Nat, LastAt(c, i)'
    PROVE  c = Len(files) /\ i = Len(lastFile) + 1 /\ files'[c][i] = pg
<1> DEFINE n == Len(files)
           m == Len(lastFile) + 1
<1>1. /\ \A d, j : At(d, j)' <=> At(d, j) \/ (d = n /\ j = m)
      /\ files'[n][m] = pg /\ n \in Nat /\ m \in Nat /\ Len(lastFile) \in Nat
  BY AppendsAt
<1>2. At(c, i)' /\ \A d, j \in Nat : At(d, j)' => NotBefore(c, i, d, j)
  BY DEF LastAt, NotBefore
<1>3. NotBefore(c, i, n, m)
  BY <1>1, <1>2
<1>4. At(c, i) => c <= n /\ (c = n => i <= Len(lastFile))
  BY AtNat
<1> QED
  BY <1>1, <1>2, <1>3, <1>4 DEF NotBefore

\* A new file leaves the last page what it was.
LEMMA OpensLast ==
    ASSUME WalTypeOK, Opens, NEW c \in Nat, NEW i \in Nat, LastAt(c, i)'
    PROVE  LastAt(c, i) /\ files'[c][i] = files[c][i]
<1>1. /\ \A d, j : At(d, j)' <=> At(d, j)
      /\ \A d, j : At(d, j) => files'[d][j] = files[d][j]
  BY OpensAt
<1>2. At(c, i)' /\ \A d, j \in Nat : At(d, j)' => NotBefore(c, i, d, j)
  BY DEF LastAt, NotBefore
<1> QED
  BY <1>1, <1>2 DEF LastAt

LEMMA AppendsGrows ==
    ASSUME WalTypeOK, NEW pg \in Page, Appends(pg)
    PROVE  Grows /\ NewerThan(LogEnd', LogEnd)
<1>1. NewerThan(LogEnd', LogEnd)
  BY AppendsAt DEF NewerThan
<1>2. \A c \in DOMAIN files : c \in DOMAIN files' /\ Len(files[c]) <= Len(files'[c])
  BY AppendsFiles, FilesType DEF lastFile, Appends
<1> QED
  BY <1>1, <1>2, AppendsAt DEF Grows

LEMMA OpensGrows ==
    ASSUME WalTypeOK, Opens
    PROVE  Grows
<1>1. NewerThan(LogEnd', LogEnd)
  BY OpensAt DEF NewerThan, LogEnd
<1>2. \A c \in DOMAIN files : c \in DOMAIN files' /\ Len(files[c]) <= Len(files'[c])
  BY OpensAt, FilesType
<1> QED
  BY <1>1, <1>2, OpensAt DEF Grows

LEMMA SameGrows ==
    ASSUME WalTypeOK, UNCHANGED files
    PROVE  Grows
BY FilesType DEF Grows, At, LogEnd, lastFile

\* What is said of the log stays true while it grows.
LEMMA GrowsKeeps ==
    ASSUME WalTypeOK, WalTypeOK', Grows
    PROVE  /\ \A e : InLog(e) => InLog(e)'
           /\ \A s \in SequenceId : Position(s) => Position(s)'
           /\ \A s \in SequenceId : NewerThan(LogEnd, s) => NewerThan(LogEnd', s)
<1>1. LogEnd \in SequenceId /\ LogEnd' \in SequenceId
  BY DEF WalTypeOK, LogEnd, SequenceId, lastFile
<1>2. ASSUME NEW e, InLog(e) PROVE InLog(e)'
  <2>1. PICK c \in Nat, i \in Nat : At(c, i) /\ files[c][i].entry = e
    BY <1>2 DEF InLog
  <2>2. At(c, i)' /\ files'[c][i].entry = e
    BY <2>1 DEF Grows
  <2> QED
    BY <2>2 DEF InLog
<1>3. ASSUME NEW s \in SequenceId, Position(s) PROVE Position(s)'
  <2>1. s.Collection \in DOMAIN files /\ s.Seq <= Len(files[s.Collection])
    BY <1>3 DEF Position
  <2>2. s.Collection \in DOMAIN files' /\ Len(files[s.Collection]) <= Len(files'[s.Collection])
    BY <2>1 DEF Grows
  <2>3. Len(files[s.Collection]) \in Nat /\ s.Seq \in Nat
    BY <2>1, FilesType DEF SequenceId
  <2>4. Len(files'[s.Collection]) \in Nat
    BY <2>2 DEF WalTypeOK
  <2> QED
    BY <2>1, <2>2, <2>3, <2>4 DEF Position
<1>4. ASSUME NEW s \in SequenceId, NewerThan(LogEnd, s) PROVE NewerThan(LogEnd', s)
  BY <1>1, <1>4 DEF Grows, NewerThan, SequenceId
<1> QED
  BY <1>2, <1>3, <1>4

\* A position of the log, and the start of one that has pages, is not newer
\* than its end.
LEMMA PositionNotNewer ==
    ASSUME WalTypeOK, NEW s \in SequenceId,
           Position(s) \/ (s = StartWalSequence /\ files # << >> /\ (Len(files) > 1 \/ lastFile # << >>))
    PROVE  s = LogEnd \/ NewerThan(LogEnd, s)
<1>1. /\ Len(files) \in Nat
      /\ files # << >> => Len(lastFile) \in Nat
      /\ DOMAIN files = 1..Len(files)
      /\ files # << >> => (lastFile # << >> <=> Len(lastFile) > 0) /\ Len(files) > 0
  BY FilesType DEF lastFile
<1>2. CASE Position(s)
  <2>1. files # << >> /\ s.Collection <= Len(files)
    BY <1>2, <1>1, FilesType DEF Position
  <2>2. s.Collection = Len(files) => s.Seq <= Len(lastFile)
    BY <1>2 DEF Position, lastFile
  <2>3. LogEnd = [Collection |-> Len(files), Seq |-> Len(lastFile)]
    BY <2>1 DEF LogEnd
  <2> QED
    BY <1>1, <2>1, <2>2, <2>3 DEF NewerThan, SequenceId
<1>3. CASE s = StartWalSequence /\ files # << >> /\ (Len(files) > 1 \/ lastFile # << >>)
  BY <1>1, <1>3 DEF NewerThan, LogEnd, StartWalSequence
<1> QED
  BY <1>2, <1>3

\* Where the last page is: in the last file, or in the one before when that is
\* empty.
LEMMA LastPage ==
    ASSUME WalTypeOK, LogShape, NEW c \in Nat, NEW i \in Nat, LastAt(c, i)
    PROVE  /\ files # << >> /\ At(c, i)
           /\ lastFile # << >> => c = Len(files) /\ i = Len(lastFile)
           /\ lastFile = << >> => c = Len(files) - 1 /\ c >= 1 /\ i = Len(files[c])
<1>1. At(c, i) /\ \A d, j \in Nat : At(d, j) => NotBefore(c, i, d, j)
  BY DEF LastAt
<1>2. /\ c >= 1 /\ i >= 1 /\ c <= Len(files) /\ i <= Len(files[c]) /\ files # << >>
      /\ c = Len(files) => i <= Len(lastFile)
  BY <1>1, AtNat
<1>3. ASSUME NEW d \in DOMAIN files, files[d] # << >>
      PROVE  NotBefore(c, i, d, Len(files[d])) /\ Len(files[d]) \in Nat
  <2>1. d \in Nat /\ Len(files[d]) \in Nat /\ Len(files[d]) \in DOMAIN files[d]
    BY <1>3, FileLen
  <2> QED
    BY <1>1, <2>1 DEF At
<1>4. ASSUME lastFile # << >>
      PROVE  c = Len(files) /\ i = Len(lastFile)
  <2>1. NotBefore(c, i, Len(files), Len(lastFile))
    BY <1>2, <1>3, <1>4, LastLen
  <2>2. Len(files) \in Nat /\ Len(lastFile) \in Nat
    BY <1>2, LastLen
  <2> QED
    BY <1>2, <2>1, <2>2 DEF NotBefore
<1>5. ASSUME lastFile = << >>
      PROVE  c = Len(files) - 1 /\ i = Len(files[c])
  <2>1. Len(lastFile) = 0 /\ Len(files) \in Nat
    BY <1>2, <1>5, LastLen
  <2>2. c # Len(files)
    BY <1>2, <2>1
  <2>3. Len(files) - 1 \in DOMAIN files /\ Len(files) - 1 < Len(files)
    BY <1>2, <2>1, <2>2, FilesDomain
  <2>4. files[Len(files) - 1] # << >>
    BY <2>3 DEF LogShape
  <2>5. NotBefore(c, i, Len(files) - 1, Len(files[Len(files) - 1]))
    BY <1>3, <2>3, <2>4
  <2>6. c = Len(files) - 1
    BY <1>2, <2>1, <2>2, <2>5 DEF NotBefore
  <2>7. Len(files[c]) \in Nat
    BY <2>3, <2>6, FileLen
  <2> QED
    BY <1>2, <2>5, <2>6, <2>7 DEF NotBefore
<1> QED
  BY <1>1, <1>2, <1>4, <1>5

\* A log with a page has a last one.
LEMMA LastExists ==
    ASSUME WalTypeOK, LogShape, NEW c, NEW i, At(c, i)
    PROVE  \E d, j \in Nat : LastAt(d, j)
<1>1. ASSUME NEW d \in DOMAIN files, files[d] # << >>,
             \A x, y \in Nat : At(x, y) => x <= d
      PROVE  d \in Nat /\ Len(files[d]) \in Nat /\ LastAt(d, Len(files[d]))
  <2>1. d \in Nat /\ Len(files[d]) \in Nat /\ Len(files[d]) \in DOMAIN files[d]
    BY <1>1, FileLen
  <2>2. ASSUME NEW x \in Nat, NEW y \in Nat, At(x, y)
        PROVE  NotBefore(d, Len(files[d]), x, y)
    <3>1. x <= d /\ y <= Len(files[x])
      BY <1>1, <2>2, AtNat
    <3> QED
      BY <2>1, <3>1 DEF NotBefore
  <2> QED
    BY <2>1, <2>2 DEF LastAt, At
<1>2. /\ c \in Nat /\ i \in Nat /\ c >= 1 /\ i >= 1 /\ c <= Len(files) /\ files # << >>
      /\ c = Len(files) => i <= Len(lastFile)
  BY AtNat
<1>3. \A x, y \in Nat : At(x, y) => x <= Len(files)
  BY AtNat
<1>4. CASE lastFile # << >>
  BY <1>1, <1>2, <1>3, <1>4, LastLen
<1>5. CASE lastFile = << >>
  <2>1. Len(lastFile) = 0 /\ Len(files) \in Nat
    BY <1>2, <1>5, LastLen
  <2>2. ASSUME NEW x \in Nat, NEW y \in Nat, At(x, y)
        PROVE  x <= Len(files) - 1
    <3>1. y >= 1 /\ x <= Len(files) /\ (x = Len(files) => y <= Len(lastFile))
      BY <2>2, AtNat
    <3> QED
      BY <2>1, <3>1
  <2>3. c <= Len(files) - 1
    BY <1>2, <2>2
  <2>4. Len(files) - 1 \in DOMAIN files /\ Len(files) - 1 < Len(files)
    BY <1>2, <2>1, <2>3, FilesDomain
  <2>5. files[Len(files) - 1] # << >>
    BY <2>4 DEF LogShape
  <2> QED
    BY <1>1, <2>2, <2>4, <2>5
<1> QED
  BY <1>4, <1>5

LEMMA AppendsShape ==
    ASSUME WalTypeOK, LogShape, NEW pg \in Page, Appends(pg),
           pg.type # "BrokenEnd" => pg.entry \in Entry
    PROVE  LogShape'
<1> DEFINE n == Len(files)
           m == Len(lastFile) + 1
<1>1. /\ Len(files') = n /\ DOMAIN files' = DOMAIN files
      /\ \A c \in DOMAIN files : c # n => files'[c] = files[c]
  BY AppendsFiles
<1>2. ASSUME NEW c \in DOMAIN files', NEW i \in DOMAIN files'[c], files'[c][i].type # "BrokenEnd"
      PROVE  files'[c][i].entry \in Entry
  <2>1. At(c, i)'
    BY DEF At
  <2>2. At(c, i) \/ files'[c][i] = pg
    BY <2>1, AppendsAt
  <2>3. At(c, i) => files'[c][i] = files[c][i]
    BY AppendsAt
  <2> QED
    BY <1>2, <2>2, <2>3 DEF LogShape, At
<1>3. \A c \in DOMAIN files' : c < Len(files') => files'[c] # << >>
  BY <1>1, FilesType DEF LogShape
<1> QED
  BY <1>2, <1>3 DEF LogShape

LEMMA AppendsBounded ==
    ASSUME WalTypeOK, FilesBounded, NEW pg \in Page, Appends(pg),
           \/ Len(lastFile) < MaxPages
           \/ Len(lastFile) = MaxPages /\ pg.type = "BrokenEnd"
    PROVE  FilesBounded'
<1> DEFINE n == Len(files)
           m == Len(lastFile) + 1
<1>1. /\ DOMAIN files' = DOMAIN files /\ n \in DOMAIN files
      /\ \A c \in DOMAIN files : c # n => files'[c] = files[c]
      /\ Len(files'[n]) = m /\ files'[n][m] = pg /\ Len(lastFile) \in Nat
  BY AppendsFiles, FilesType DEF Appends, lastFile
<1>2. MaxPages \in Nat
  BY WalAssumption
<1> QED
  BY <1>1, <1>2 DEF FilesBounded

\* A page that continues a record is added right after the page it continues.
LEMMA AppendsContiguous ==
    ASSUME WalTypeOK, LogShape, RecordsContiguous, NEW pg \in Page, Appends(pg),
           pg.type \in {"Middle", "End", "BrokenEnd"} =>
               \E c, i \in Nat :
                  /\ LastAt(c, i) /\ files[c][i].type \in {"Start", "Middle"}
                  /\ pg.type # "BrokenEnd" => files[c][i].entry = pg.entry
    PROVE  RecordsContiguous'
<1> DEFINE n == Len(files)
           m == Len(lastFile) + 1
<1>1. /\ Len(files') = n /\ DOMAIN files' = DOMAIN files
      /\ \A c \in DOMAIN files : c # n => files'[c] = files[c]
      /\ n \in Nat /\ Len(lastFile) \in Nat /\ DOMAIN files = 1..n
      /\ files'[n][m] = pg
      /\ \A i \in 1..Len(lastFile) : files'[n][i] = files[n][i]
  BY AppendsFiles, FilesType DEF Appends, lastFile
<1> SUFFICES ASSUME NEW c \in DOMAIN files', NEW i \in DOMAIN files'[c],
                    files'[c][i].type \in {"Middle", "End", "BrokenEnd"}
             PROVE  /\ c > 1 \/ i > 1
                    /\ PageBefore(c, i)'.type \in {"Start", "Middle"}
                    /\ files'[c][i].type # "BrokenEnd" =>
                           PageBefore(c, i)'.entry = files'[c][i].entry
  BY DEF RecordsContiguous
<1>2. At(c, i) \/ (c = n /\ i = m)
  BY AppendsAt DEF At
<1>3. CASE At(c, i)
  <2>1. /\ c \in Nat /\ i \in Nat /\ c >= 1 /\ i >= 1 /\ c <= n /\ i <= Len(files[c])
        /\ c = n => i <= Len(lastFile)
    BY <1>3, AtNat
  <2>2. files'[c][i] = files[c][i]
    BY <1>3, AppendsAt
  <2>3. /\ c > 1 \/ i > 1
        /\ PageBefore(c, i).type \in {"Start", "Middle"}
        /\ files[c][i].type # "BrokenEnd" => PageBefore(c, i).entry = files[c][i].entry
    BY <1>3, <2>2 DEF RecordsContiguous, At
  <2>4. PageBefore(c, i)' = PageBefore(c, i)
    <3>1. CASE i > 1
      <4>1. At(c, i - 1)
        BY <1>3, <2>1, <3>1, FilesType DEF At
      <4>2. files'[c][i - 1] = files[c][i - 1]
        BY <4>1, AppendsAt
      <4> QED
        BY <3>1, <4>2 DEF PageBefore
    <3>2. CASE ~(i > 1)
      <4>1. c - 1 \in DOMAIN files /\ c - 1 # n
        BY <1>1, <2>1, <2>3, <3>2
      <4> QED
        BY <1>1, <3>2, <4>1 DEF PageBefore
    <3> QED
      BY <3>1, <3>2
  <2> QED
    BY <2>2, <2>3, <2>4
<1>4. CASE c = n /\ i = m
  <2>1. files'[c][i] = pg
    BY <1>1, <1>4
  <2>2. PICK d \in Nat, j \in Nat :
            /\ LastAt(d, j) /\ files[d][j].type \in {"Start", "Middle"}
            /\ pg.type # "BrokenEnd" => files[d][j].entry = pg.entry
    BY <2>1
  <2>3. /\ lastFile # << >> => d = n /\ j = Len(lastFile)
        /\ lastFile = << >> => d = n - 1 /\ d >= 1 /\ j = Len(files[d])
        /\ At(d, j)
    BY <2>2, LastPage
  <2>4. d \in DOMAIN files /\ j >= 1
    BY <2>3, AtNat DEF At
  <2>5. PageBefore(c, i)' = files[d][j] /\ (c > 1 \/ i > 1)
    <3>1. CASE lastFile # << >>
      <4>1. Len(lastFile) \in Nat /\ d = n /\ j = Len(lastFile) /\ j >= 1
        BY <2>3, <2>4, <3>1, LastLen DEF Appends
      <4>2. c = d /\ i - 1 = j /\ j \in 1..Len(lastFile) /\ i > 1
        BY <1>4, <4>1
      <4>3. files'[c][i - 1] = files[d][j]
        BY <1>1, <1>4, <4>2
      <4> QED
        BY <4>2, <4>3 DEF PageBefore
    <3>2. CASE lastFile = << >>
      <4>1. Len(lastFile) = 0
        BY <3>2
      <4>2. ~(i > 1) /\ c - 1 = d /\ c > 1 /\ d # n
        <5>1. n \in Nat /\ d = n - 1 /\ d >= 1
          BY <2>3, <3>2, LastLen DEF Appends
        <5> QED
          BY <1>4, <4>1, <5>1
      <4>3. files'[c - 1] = files[d] /\ j = Len(files[d])
        BY <1>1, <2>3, <2>4, <3>2, <4>2
      <4> QED
        BY <4>2, <4>3 DEF PageBefore
    <3> QED
      BY <3>1, <3>2
  <2> QED
    BY <2>1, <2>2, <2>5
<1> QED
  BY <1>2, <1>3, <1>4

\* A new file is opened after a file that has pages.
LEMMA OpensLog ==
    ASSUME WalTypeOK, LogShape, FilesBounded, RecordsContiguous, Opens,
           files # << >> => lastFile # << >>
    PROVE  LogShape' /\ FilesBounded' /\ RecordsContiguous'
<1> DEFINE n == Len(files)
<1>1. /\ files' \in Seq(Seq(Page)) /\ Len(files') = n + 1 /\ n \in Nat
      /\ DOMAIN files' = DOMAIN files \cup {n + 1}
      /\ \A c \in DOMAIN files : files'[c] = files[c]
      /\ files'[n + 1] = << >> /\ Len(files'[n + 1]) = 0 /\ DOMAIN files'[n + 1] = {}
      /\ DOMAIN files = 1..n
  BY OpensAt, FilesType
<1>2. LogShape'
  <2>1. ASSUME NEW c \in DOMAIN files', c < Len(files') PROVE files'[c] # << >>
    <3>1. c \in DOMAIN files /\ files'[c] = files[c] /\ c <= n
      BY <1>1, <2>1
    <3>2. files[c] # << >>
      BY <1>1, <3>1, LastLen DEF LogShape
    <3> QED
      BY <3>1, <3>2
  <2>2. ASSUME NEW c \in DOMAIN files', NEW i \in DOMAIN files'[c],
               files'[c][i].type # "BrokenEnd"
        PROVE  files'[c][i].entry \in Entry
    BY <1>1, <2>2 DEF LogShape
  <2> QED
    BY <2>1, <2>2 DEF LogShape
<1>3. FilesBounded'
  BY <1>1, WalAssumption DEF FilesBounded
<1>4. RecordsContiguous'
  <2> SUFFICES ASSUME NEW c \in DOMAIN files', NEW i \in DOMAIN files'[c],
                      files'[c][i].type \in {"Middle", "End", "BrokenEnd"}
               PROVE  /\ c > 1 \/ i > 1
                      /\ PageBefore(c, i)'.type \in {"Start", "Middle"}
                      /\ files'[c][i].type # "BrokenEnd" =>
                             PageBefore(c, i)'.entry = files'[c][i].entry
    BY DEF RecordsContiguous
  <2>1. c \in DOMAIN files /\ files'[c] = files[c] /\ i \in DOMAIN files[c]
    BY <1>1
  <2>2. /\ c > 1 \/ i > 1
        /\ PageBefore(c, i).type \in {"Start", "Middle"}
        /\ files[c][i].type # "BrokenEnd" => PageBefore(c, i).entry = files[c][i].entry
    BY <2>1 DEF RecordsContiguous
  <2>3. PageBefore(c, i)' = PageBefore(c, i)
    BY <1>1, <2>1, <2>2, FilesType DEF PageBefore
  <2> QED
    BY <2>1, <2>2, <2>3
<1> QED
  BY <1>2, <1>3, <1>4

-----------------------------------------------------------------------------
(***************************************************************************)
(* What the steps share                                                    *)
(***************************************************************************)

LEMMA FromType ==
    ASSUME TypeOK, version # Torn
    PROVE  from \in SequenceId
BY DEF TypeOK, from, StartWalSequence, SequenceId

\* Only a Put that begins can touch VersionKey.
LEMMA SameUntouched ==
    ASSUME UNCHANGED issued
    PROVE  VersionKeyUntouched' <=> VersionKeyUntouched
BY DEF VersionKeyUntouched

\* Until then, what is stored is stored under a key of its own.
LEMMA PlainKey ==
    ASSUME VersionKeyUntouched, NEW e \in issued, KeyOf[e] \in AcceptedKey
    PROVE  KeyOf[e] \in ValidKey /\ KeyOf[e] # VersionKey
BY DEF VersionKeyUntouched, AcceptedKey

LEMMA PlainFile ==
    ASSUME NEW e, NEW v, NEW s, KeyOf[e] # VersionKey, SetFile(e, v, s)
    PROVE  kv' = [kv EXCEPT ![KeyOf[e]] = v] /\ UNCHANGED version
BY DEF SetFile

LEMMA SetFileType ==
    ASSUME TypeOK, NEW e \in Entry, NEW v \in Entry \cup {NoEntry, Torn},
           NEW s \in SequenceId \cup {NoVersion, Torn}, SetFile(e, v, s)
    PROVE  /\ kv' \in [ValidKey -> Entry \cup {NoEntry, Torn}]
           /\ version' \in SequenceId \cup {NoVersion, Torn}
BY DEF SetFile, TypeOK

\* What kv.Put may leave.
LEMMA StoreFailsCases ==
    ASSUME NEW e \in Entry, StoreFails(e)
    PROVE  \/ UNCHANGED <<kv, version>>
           \/ \E v \in {e, NoEntry} : \E s \in SequenceId \cup {NoVersion, Torn} : SetFile(e, v, s)
<1>1. PositionIn[e] \in SequenceId \cup {NoVersion, Torn}
  BY StoreAssumption
<1> QED
  BY <1>1 DEF StoreFails, Store

LEMMA StoreType ==
    ASSUME TypeOK, NEW e \in Entry, Store(e) \/ StoreFails(e)
    PROVE  /\ kv' \in [ValidKey -> Entry \cup {NoEntry, Torn}]
           /\ version' \in SequenceId \cup {NoVersion, Torn}
<1>1. CASE UNCHANGED <<kv, version>>
  BY <1>1 DEF TypeOK
<1>2. CASE \E v \in {e, NoEntry} : \E s \in SequenceId \cup {NoVersion, Torn} : SetFile(e, v, s)
  BY <1>2, SetFileType
<1>3. Store(e) => StoreFails(e)
  BY DEF StoreFails
<1> QED
  BY <1>1, <1>2, <1>3, StoreFailsCases

\* Puts run only while the store serves.
LEMMA NotUp ==
    ASSUME IndInv, status # "up"
    PROVE  (\A p \in Putter : pc[p] = "idle") /\ Settled = acked
BY DEF IndInv, PutLink, Active, Settled

LEMMA NoPuts ==
    ASSUME \A p \in Putter : pc'[p] = "idle"
    PROVE  /\ \A p \in Putter : PutLink(p)' /\ PendingLink(p)'
           /\ PutsDiffer' /\ Settled' = acked'
BY DEF PutLink, PendingLink, PutsDiffer, Settled, Active

\* Entries that are settled have a key that can be stored.
LEMMA SettledType ==
    ASSUME IndInv, VersionKeyUntouched, NEW e \in Settled
    PROVE  /\ e \in Entry /\ KeyOf[e] \in ValidKey /\ InLog(e)
           /\ before[e] \subseteq Done /\ before[e] \subseteq Entry /\ e \notin before[e]
           /\ Torn \notin before[e] /\ NoEntry \notin before[e]
<1>1. acked \subseteq issued /\ failed \subseteq issued /\ issued \subseteq Entry
  BY DEF IndInv, TypeOK
<1>2. e \in issued /\ KeyOf[e] \in AcceptedKey /\ InLog(e)
  BY <1>1 DEF IndInv, Settled, PutLink, Active, StoreLink, HistoryLink, Done
<1>3. before[e] \subseteq Done /\ e \notin before[e] /\ before[e] \subseteq Entry
  BY <1>1, <1>2 DEF IndInv, StoreLink, HistoryLink, Done
<1>4. Torn \notin Entry /\ NoEntry \notin Entry
  BY StoreAssumption, WalAssumption
<1> QED
  BY <1>1, <1>2, <1>3, <1>4, PlainKey

\* When the store serves, nothing is to be restored.
LEMMA UpSettled ==
    ASSUME IndInv, VersionKeyUntouched, status \in {"writeVersion", "up"}, NEW e \in Settled
    PROVE  ~Bad(e)
BY DEF IndInv, StoreLink, SettledLink, Restorable

\* The order of entries in the log is kept when a page of an entry that is not
\* done is added.
LEMMA AppendsHistory ==
    ASSUME WalTypeOK, HistoryLink, NEW pg \in Page, Appends(pg), pg.entry \notin Done,
           UNCHANGED <<acked, failed, before>>
    PROVE  HistoryLink'
<1> DEFINE n == Len(files)
           m == Len(lastFile) + 1
<1>1. /\ \A c, i : At(c, i)' <=> At(c, i) \/ (c = n /\ i = m)
      /\ \A c, i : At(c, i) => files'[c][i] = files[c][i]
      /\ files'[n][m] = pg
      /\ n \in Nat /\ m \in Nat /\ Len(lastFile) \in Nat
  BY AppendsAt
<1>2. ASSUME NEW e, InLog(e) PROVE InLog(e)'
  <2>1. PICK c \in Nat, i \in Nat : At(c, i) /\ files[c][i].entry = e
    BY <1>2 DEF InLog
  <2>2. At(c, i)' /\ files'[c][i].entry = e
    BY <1>1, <2>1
  <2> QED
    BY <2>2 DEF InLog
<1>3. ASSUME NEW e \in Entry, NEW f \in before[e],
             NEW c \in Nat, NEW i \in Nat, NEW d \in Nat, NEW j \in Nat,
             At(c, i)', files'[c][i].entry = f, At(d, j)', files'[d][j].entry = e
      PROVE  ~NotBefore(c, i, d, j)
  <2>1. f \in Done
    BY DEF HistoryLink
  <2>2. At(c, i) /\ files[c][i].entry = f
    BY <1>1, <1>3, <2>1
  <2>3. c <= n /\ (c = n => i <= Len(lastFile))
    BY <2>2, AtNat
  <2>4. CASE At(d, j)
    BY <1>1, <1>3, <2>2, <2>4 DEF HistoryLink
  <2>5. CASE d = n /\ j = m
    BY <1>1, <2>3, <2>5 DEF NotBefore
  <2> QED
    BY <1>1, <1>3, <2>4, <2>5
<1>4. ASSUME NEW e \in Entry
      PROVE  /\ before'[e] \subseteq Done' /\ e \notin before'[e]
             /\ e \in Done' => InLog(e)' /\ KeyOf[e] \in AcceptedKey
  BY <1>2 DEF HistoryLink, Done
<1> QED
  BY <1>3, <1>4 DEF HistoryLink, NotBefore

\* It is kept when no page is added.
LEMMA SamePagesHistory ==
    ASSUME HistoryLink, UNCHANGED <<acked, failed, before>>,
           \A c, i : At(c, i)' <=> At(c, i),
           \A c, i : At(c, i) => files'[c][i] = files[c][i]
    PROVE  HistoryLink'
<1>1. ASSUME NEW e, InLog(e) PROVE InLog(e)'
  <2>1. PICK c \in Nat, i \in Nat : At(c, i) /\ files[c][i].entry = e
    BY <1>1 DEF InLog
  <2>2. At(c, i)' /\ files'[c][i].entry = e
    BY <2>1
  <2> QED
    BY <2>2 DEF InLog
<1>2. ASSUME NEW e \in Entry, NEW f \in before[e],
             NEW c \in Nat, NEW i \in Nat, NEW d \in Nat, NEW j \in Nat,
             At(c, i)', files'[c][i].entry = f, At(d, j)', files'[d][j].entry = e
      PROVE  ~NotBefore(c, i, d, j)
  BY <1>2 DEF HistoryLink
<1>3. ASSUME NEW e \in Entry
      PROVE  /\ before'[e] \subseteq Done' /\ e \notin before'[e]
             /\ e \in Done' => InLog(e)' /\ KeyOf[e] \in AcceptedKey
  BY <1>1 DEF HistoryLink, Done
<1> QED
  BY <1>2, <1>3 DEF HistoryLink, NotBefore

LEMMA SameHistory ==
    ASSUME HistoryLink, UNCHANGED <<files, acked, failed, before>>
    PROVE  HistoryLink'
BY DEF HistoryLink, Done, InLog, At

\* Initialize keeps what the files say of positions and values that are to be
\* restored, and so does a step that leaves the files alone.
LEMMA GrowsRestorable ==
    ASSUME WalTypeOK, WalTypeOK', Grows, TypeOK, NEW e, Restorable(e),
           UNCHANGED <<version, before>>, status' \notin {"replay", "writeVersion", "up"}
    PROVE  Restorable(e)'
<1>1. from \in SequenceId /\ from' = from
  BY FromType DEF Restorable, from
<1>2. NewerThan(LogEnd', from')
  BY <1>1, GrowsKeeps DEF Restorable
<1>3. PICK c \in Nat, i \in Nat :
          /\ At(c, i) /\ files[c][i].entry \in Entry
          /\ KeyOf[files[c][i].entry] = KeyOf[e] /\ files[c][i].entry \notin before[e]
          /\ c >= from.Collection
  BY DEF Restorable
<1>4. At(c, i)' /\ files'[c][i] = files[c][i]
  BY <1>3 DEF Grows
<1>5. version' # Torn
  BY DEF Restorable
<1>6. \E x, y \in Nat :
          /\ At(x, y)' /\ files'[x][y].entry \in Entry
          /\ KeyOf[files'[x][y].entry] = KeyOf[e] /\ files'[x][y].entry \notin before'[e]
          /\ x >= from'.Collection
  BY <1>1, <1>3, <1>4
<1> QED
  BY <1>2, <1>5, <1>6 DEF Restorable

-----------------------------------------------------------------------------
(***************************************************************************)
(* Initialize                                                              *)
(***************************************************************************)

\* An empty folder.
LEMMA InitInv == Init => IndInv
<1> SUFFICES ASSUME Init PROVE IndInv
  OBVIOUS
<1>1. files = << >> /\ DOMAIN files = {} /\ \A c, i : ~At(c, i)
  BY DEF Init, WalInit, At
<1>2. TypeOK
  <2>1. WalTypeOK
    <3>1. files \in Seq(Seq(Page))
      BY DEF Init, WalInit
    <3>2. curCollection \in Nat /\ curSeq \in Nat /\ pageOccupied \in Nat
      BY DEF Init, WalInit
    <3>3. curFile \in BOOLEAN
      BY DEF Init, WalInit
    <3> QED
      BY <3>1, <3>2, <3>3 DEF WalTypeOK
  <2>2. NoCursor \in [file : Nat, page : Nat] /\ StartWalSequence \in SequenceId
    BY DEF NoCursor, StartWalSequence, SequenceId
  <2> QED
    BY <2>1, <2>2 DEF Init, TypeOK, Status
<1>3. LogLink
  BY <1>1 DEF Init, WalInit, LogLink, LogShape, OpenLink, WritePointIsLogEnd, Serving, FilesBounded,
              RecordsContiguous, ReplayNeverRefused
<1>4. (\A p \in Putter : PutLink(p) /\ PendingLink(p)) /\ PutsDiffer /\ Settled = {}
  BY DEF Init, PutLink, PendingLink, PutsDiffer, Active, Settled
<1>5. VersionLink /\ ReplayLink
  BY StoreAssumption DEF Init, VersionLink, ReplayLink
<1>6. HistoryLink /\ SettledLink /\ IssuedLink
  BY <1>1, <1>4 DEF Init, HistoryLink, Done, SettledLink, IssuedLink
<1> QED
  BY <1>2, <1>3, <1>4, <1>5, <1>6 DEF IndInv, StoreLink

Broken == [entry |-> NoEntry, type |-> "BrokenEnd"]

\* What Initialize makes of the files and of the position in memory.
LEMMA FromFiles ==
    ASSUME WalTypeOK, InitializeFromFiles
    PROVE  /\ files # << >> /\ lastFile # << >>
           /\ \/ UNCHANGED files
              \/ Appends(Broken) /\ lastFile[Len(lastFile)].type = "Middle"
           /\ curCollection' = Len(files) /\ Len(files') = Len(files)
           /\ curSeq' = Len(files'[Len(files)]) /\ pageOccupied' = Len(files'[Len(files)])
           /\ curFile' = TRUE
<1>1. files # << >> /\ lastFile # << >>
  BY DEF InitializeFromFiles
<1>2. Len(files) \in DOMAIN files /\ lastFile = files[Len(files)]
  BY <1>1, LastLen
<1>3. /\ files' = [files EXCEPT ![Len(files)] = FixIncomplete(lastFile)]
      /\ curSeq' = Len(FixIncomplete(lastFile))
      /\ pageOccupied' = Len(FixIncomplete(lastFile))
      /\ curFile' = TRUE /\ curCollection' = Len(files)
  BY DEF InitializeFromFiles, seekWalFileWritePoint
<1>4. files'[Len(files)] = FixIncomplete(lastFile)
  BY <1>2, <1>3 DEF WalTypeOK
<1>5. CASE lastFile[Len(lastFile)].type = "Middle"
  <2>1. Appends(Broken)
    BY <1>1, <1>2, <1>3, <1>5 DEF Appends, FixIncomplete, Broken
  <2>2. Len(files') = Len(files)
    BY <2>1, AppendsFiles DEF Broken, Page, EntryType
  <2> QED
    BY <1>1, <1>3, <1>4, <1>5, <2>1, <2>2
<1>6. CASE lastFile[Len(lastFile)].type # "Middle"
  <2>1. files' = files
    BY <1>2, <1>3, <1>6 DEF FixIncomplete, WalTypeOK
  <2> QED
    BY <1>1, <1>3, <1>4, <2>1
<1> QED
  BY <1>5, <1>6

LEMMA FromFilesStep ==
    ASSUME IndInv, status = "down", InitializeFromFiles, status' = "check",
           UNCHANGED <<kv, version, cursor, putVars, histVars>>
    PROVE  IndInv'
<1>1. WalTypeOK /\ LogShape /\ FilesBounded /\ RecordsContiguous /\ HistoryLink
  BY DEF IndInv, TypeOK, LogLink, StoreLink
<1>2. /\ files # << >> /\ lastFile # << >>
      /\ curCollection' = Len(files) /\ Len(files') = Len(files)
      /\ curSeq' = Len(files'[Len(files)]) /\ pageOccupied' = Len(files'[Len(files)])
      /\ curFile' = TRUE
  BY <1>1, FromFiles
<1>3. \/ UNCHANGED files
      \/ Appends(Broken) /\ lastFile[Len(lastFile)].type = "Middle"
  BY <1>1, FromFiles
<1>4. /\ files' \in Seq(Seq(Page)) /\ Grows
      /\ LogShape' /\ FilesBounded' /\ RecordsContiguous' /\ HistoryLink' /\ IssuedLink'
  <2>1. CASE UNCHANGED files
    <3>1. files' \in Seq(Seq(Page)) /\ Grows
      BY <1>1, <2>1, SameGrows DEF WalTypeOK
    <3>2. LogShape' /\ FilesBounded' /\ RecordsContiguous'
      BY <1>1, <2>1 DEF LogShape, FilesBounded, RecordsContiguous, PageBefore
    <3>3. HistoryLink' /\ IssuedLink'
      BY <1>1, <2>1, SameHistory DEF IndInv, StoreLink, IssuedLink, At, histVars
    <3> QED
      BY <3>1, <3>2, <3>3
  <2>2. CASE Appends(Broken) /\ lastFile[Len(lastFile)].type = "Middle"
    <3>1. Broken \in Page /\ Broken.type = "BrokenEnd" /\ Broken.entry = NoEntry
      BY DEF Broken, Page, EntryType
    <3>2. files' \in Seq(Seq(Page)) /\ Grows
      BY <1>1, <2>2, <3>1, AppendsFiles, AppendsGrows
    <3>3. LogShape'
      BY <1>1, <2>2, <3>1, AppendsShape
    <3>4. Len(files) \in DOMAIN files /\ lastFile = files[Len(files)] /\ Len(lastFile) \in Nat
      BY <1>1, <1>2, LastLen
    <3>5. Len(lastFile) < MaxPages \/ Len(lastFile) = MaxPages
      <4>1. \/ Len(lastFile) <= MaxPages
            \/ Len(lastFile) = MaxPages + 1 /\ lastFile[MaxPages + 1].type = "BrokenEnd"
        BY <1>1, <3>4 DEF FilesBounded
      <4> QED
        BY <2>2, <3>4, <4>1, WalAssumption
    <3>6. FilesBounded'
      BY <1>1, <2>2, <3>1, <3>5, AppendsBounded
    <3>7. PICK c \in Nat, i \in Nat : LastAt(c, i)
      <4>1. At(Len(files), Len(lastFile))
        BY <1>1, <1>2, <3>4, LastLen DEF At
      <4> QED
        BY <1>1, <4>1, LastExists
    <3>8. files[c][i].type = "Middle"
      BY <1>1, <1>2, <2>2, <3>4, <3>7, LastPage
    <3>9. RecordsContiguous'
      BY <1>1, <2>2, <3>1, <3>7, <3>8, AppendsContiguous
    <3>10. Done \subseteq Entry
      BY DEF IndInv, TypeOK, Done
    <3>11. HistoryLink'
      BY <1>1, <2>2, <3>1, <3>10, WalAssumption, AppendsHistory DEF histVars
    <3>12. IssuedLink'
      BY <1>1, <2>2, <3>1, AppendsAt DEF IndInv, StoreLink, IssuedLink, histVars
    <3> QED
      BY <3>2, <3>3, <3>6, <3>9, <3>11, <3>12
  <2> QED
    BY <1>3, <2>1, <2>2
<1>5. Len(files) \in Nat /\ Len(files) \in DOMAIN files' /\ Len(files'[Len(files)]) \in Nat
  BY <1>1, <1>2, <1>4, LastLen DEF Grows
<1>6. files' # << >> /\ files'[Len(files)] # << >>
  <2>1. Len(lastFile) >= 1 /\ Len(lastFile) \in Nat /\ Len(files) \in DOMAIN files /\ Len(files) >= 1
    BY <1>1, <1>2, LastLen
  <2>2. Len(lastFile) <= Len(files'[Len(files)])
    BY <1>4, <2>1 DEF Grows, lastFile
  <2> QED
    BY <1>2, <1>5, <2>1, <2>2
<1>7. TypeOK'
  BY <1>2, <1>4, <1>5 DEF IndInv, TypeOK, WalTypeOK, putVars, histVars, Status
<1>8. LogLink'
  BY <1>2, <1>4, <1>6 DEF LogLink, OpenLink, WritePointIsLogEnd, ReplayNeverRefused, lastFile
<1>9. \A p \in Putter : pc'[p] = "idle"
  BY NotUp DEF putVars
<1>10. VersionLink' /\ ReplayLink'
  <2>1. \A s \in SequenceId : Position(s) => Position(s)'
    BY <1>1, <1>4, <1>7, GrowsKeeps DEF TypeOK
  <2> QED
    BY <2>1, SameUntouched DEF IndInv, VersionLink, ReplayLink, histVars
<1>11. SettledLink'
  <2>1. Settled' = acked /\ Settled = acked
    BY <1>9, NoPuts, NotUp DEF histVars
  <2>2. ASSUME VersionKeyUntouched, NEW e \in acked PROVE Bad(e)' => Restorable(e)'
    <3>1. Bad(e) => Restorable(e)
      BY <2>1, <2>2 DEF IndInv, StoreLink, SettledLink
    <3>2. Bad(e)' => Bad(e)
      BY DEF Bad, FailedSince, histVars
    <3>3. Restorable(e) => Restorable(e)'
      BY <1>1, <1>4, <1>7, GrowsRestorable DEF IndInv, TypeOK, histVars
    <3> QED
      BY <3>1, <3>2, <3>3
  <2> QED
    BY <2>1, <2>2, SameUntouched DEF SettledLink, histVars
<1> QED
  BY <1>4, <1>7, <1>8, <1>9, <1>10, <1>11, NoPuts DEF IndInv, StoreLink

\* A step of Initialize that leaves the files alone.
LEMMA QuietStep ==
    ASSUME IndInv, status # "up", UNCHANGED <<files, diskWal, putVars, histVars>>,
           status' \in Status, kv' \in [ValidKey -> Entry \cup {NoEntry, Torn}],
           version' \in SequenceId \cup {NoVersion, Torn}, cursor' \in [file : Nat, page : Nat],
           LogLink', VersionLink', ReplayLink', SettledLink'
    PROVE  IndInv'
<1>1. TypeOK'
  BY DEF IndInv, TypeOK, WalTypeOK, diskWal, putVars, histVars
<1>2. \A p \in Putter : pc'[p] = "idle"
  BY NotUp DEF putVars
<1>3. HistoryLink' /\ IssuedLink'
  BY SameHistory DEF IndInv, StoreLink, IssuedLink, At, histVars
<1> QED
  BY <1>1, <1>2, <1>3, NoPuts DEF IndInv, StoreLink

LEMMA QuietLog ==
    ASSUME IndInv, status # "up", UNCHANGED <<files, diskWal>>, Serving' => Serving,
           status' # "down", status' = "refused" => ~VersionKeyUntouched'
    PROVE  LogLink'
<1>1. LogShape' /\ FilesBounded' /\ RecordsContiguous' /\ ReplayNeverRefused'
  BY DEF IndInv, LogLink, LogShape, FilesBounded, RecordsContiguous, PageBefore,
         ReplayNeverRefused
<1>2. OpenLink' /\ WritePointIsLogEnd'
  BY DEF IndInv, LogLink, OpenLink, WritePointIsLogEnd, Serving, lastFile, diskWal
<1> QED
  BY <1>1, <1>2 DEF LogLink

\* Settled entries after a step that leaves the values alone.
LEMMA QuietSettled ==
    ASSUME IndInv, status # "up", UNCHANGED <<files, kv, version, putVars, histVars>>,
           status' \notin {"replay", "writeVersion", "up"}
    PROVE  SettledLink'
<1>1. Settled' = acked /\ Settled = acked
  BY NotUp, NoPuts DEF putVars, histVars
<1>2. ASSUME VersionKeyUntouched, NEW e \in acked PROVE Bad(e)' => Restorable(e)'
  <2>1. Bad(e) => Restorable(e)
    BY <1>1, <1>2 DEF IndInv, StoreLink, SettledLink
  <2>2. Bad(e)' => Bad(e)
    BY DEF Bad, FailedSince, histVars
  <2>3. Restorable(e) => Restorable(e)'
    BY DEF Restorable, At, LogEnd, lastFile, from, histVars
  <2> QED
    BY <2>1, <2>2, <2>3
<1> QED
  BY <1>1, <1>2, SameUntouched DEF SettledLink, histVars

\* The stored position after a step that leaves it and the files alone.
LEMMA QuietVersion ==
    ASSUME IndInv, UNCHANGED <<files, version, histVars>>,
           \/ status' \notin {"replay", "writeVersion", "up"}
           \/ status \in {"replay", "writeVersion", "up"}
           \/ version # Torn
    PROVE  VersionLink'
BY SameUntouched DEF IndInv, VersionLink, Position, histVars

LEMMA WalInitializeStep ==
    ASSUME IndInv, WalInitialize
    PROVE  IndInv'
<1>1. status = "down" /\ UNCHANGED <<kv, version, cursor, putVars, histVars>>
  BY DEF WalInitialize
<1>2. TypeOK
  BY DEF IndInv
<1>3. ASSUME UNCHANGED <<files, diskWal>>, status' \in {"check", "panicked"}, LogLink'
      PROVE  IndInv'
  <2>1. VersionLink' /\ ReplayLink'
    BY <1>1, <1>3, QuietVersion DEF ReplayLink
  <2>2. SettledLink'
    BY <1>1, <1>3, QuietSettled
  <2> QED
    BY <1>1, <1>2, <1>3, <2>1, <2>2, QuietStep DEF TypeOK, Status
<1>4. CASE InitializeEmpty /\ status' = "check"
  <2>1. files = << >> /\ UNCHANGED <<files, diskWal>>
    BY <1>4 DEF InitializeEmpty
  <2>2. curCollection = 0 /\ curSeq = 0 /\ pageOccupied = 0 /\ ~curFile
    BY <1>1 DEF IndInv, LogLink, OpenLink
  <2>3. OpenLink' /\ WritePointIsLogEnd'
    BY <1>4, <2>1, <2>2 DEF OpenLink, WritePointIsLogEnd, diskWal
  <2>4. LogShape' /\ FilesBounded' /\ RecordsContiguous' /\ ReplayNeverRefused'
    BY <1>4, <2>1 DEF IndInv, LogLink, LogShape, FilesBounded, RecordsContiguous, PageBefore,
                      ReplayNeverRefused
  <2> QED
    BY <1>3, <1>4, <2>1, <2>3, <2>4 DEF LogLink
<1>5. CASE InitializeFromFiles /\ status' = "check"
  BY <1>1, <1>5, FromFilesStep
<1>6. CASE status' = "panicked" /\ UNCHANGED <<files, diskWal>>
  <2>1. LogLink'
    BY <1>1, <1>6, QuietLog DEF Serving
  <2> QED
    BY <1>3, <1>6, <2>1
<1> QED
  BY <1>4, <1>5, <1>6 DEF WalInitialize

LEMMA VersionUnreadableStep ==
    ASSUME IndInv, VersionUnreadable
    PROVE  IndInv'
<1>1. /\ status = "check" /\ status' = "unreadable"
      /\ UNCHANGED <<files, diskWal, kv, version, cursor, putVars, histVars>>
  BY DEF VersionUnreadable
<1>2. LogLink' /\ SettledLink'
  BY <1>1, QuietLog, QuietSettled DEF Serving
<1>3. VersionLink' /\ ReplayLink'
  BY <1>1, QuietVersion DEF ReplayLink
<1> QED
  BY <1>1, <1>2, <1>3, QuietStep DEF IndInv, TypeOK, Status

\* While Initialize runs, the position in memory is the end of the log, and
\* unless the log is empty the stored position is one of its files' and not
\* newer.
LEMMA StoredPosition ==
    ASSUME IndInv, VersionKeyUntouched, status = "check", version # Torn, ~NoWal
    PROVE  /\ curPosition = LogEnd /\ from \in SequenceId
           /\ from = LogEnd \/ NewerThan(LogEnd, from)
           /\ from.Collection \in DOMAIN files
<1>1. WalTypeOK /\ TypeOK
  BY DEF IndInv, TypeOK
<1>2. /\ curCollection = Len(files)
      /\ curSeq = IF files = << >> THEN 0 ELSE Len(lastFile)
  BY DEF IndInv, LogLink, WritePointIsLogEnd, Serving
<1>3. curPosition = LogEnd
  BY <1>2 DEF curPosition, LogEnd
<1>4. files # << >>
  <2>1. files = << >> => curCollection = 0 /\ curSeq = 0
    BY <1>2
  <2> QED
    BY <2>1 DEF NoWal
<1>5. lastFile # << >>
  BY <1>4 DEF IndInv, LogLink, OpenLink, Serving
<1>6. from \in SequenceId /\ (from = StartWalSequence \/ Position(from))
  <2>1. from \in SequenceId
    BY <1>1, FromType
  <2>2. version \in SequenceId \/ version = NoVersion
    BY <1>1 DEF TypeOK
  <2> QED
    BY <2>1, <2>2 DEF IndInv, VersionLink, from
<1>7. from = LogEnd \/ NewerThan(LogEnd, from)
  BY <1>1, <1>4, <1>5, <1>6, PositionNotNewer
<1>8. from.Collection \in DOMAIN files
  <2>1. CASE Position(from)
    BY <2>1 DEF Position
  <2>2. CASE from = StartWalSequence
    <3>1. 1 \in DOMAIN files
      BY <1>1, <1>4, FilesDomain, FilesLen
    <3> QED
      BY <2>2, <3>1 DEF StartWalSequence
  <2> QED
    BY <1>6, <2>1, <2>2
<1> QED
  BY <1>3, <1>6, <1>7, <1>8

\* A position that is older than the end of the log is not newer.
LEMMA NewerAsymmetric ==
    ASSUME NEW s \in SequenceId, NEW t \in SequenceId, NewerThan(s, t)
    PROVE  ~NewerThan(t, s) /\ s # t
BY DEF NewerThan, SequenceId

LEMMA ReplayIncompleteStep ==
    ASSUME IndInv, ReplayIncomplete
    PROVE  IndInv'
<1>1. /\ status = "check" /\ version # Torn
      /\ UNCHANGED <<files, diskWal, kv, version, putVars, histVars>>
  BY DEF ReplayIncomplete
<1>2. TypeOK /\ WalTypeOK /\ LogEnd \in SequenceId /\ from \in SequenceId
  BY <1>1, FilesType, FromType DEF IndInv, TypeOK
<1>3. /\ Settled' = acked /\ Settled = acked /\ acked' = acked
      /\ VersionKeyUntouched' <=> VersionKeyUntouched
  BY <1>1, NotUp, NoPuts, SameUntouched DEF putVars, histVars
<1>4. ASSUME VersionKeyUntouched, NEW e \in acked
      PROVE  (Bad(e) => Restorable(e)) /\ (Bad(e)' => Bad(e))
  <2>1. Bad(e) => Restorable(e)
    BY <1>3, <1>4 DEF IndInv, StoreLink, SettledLink
  <2>2. Bad(e)' => Bad(e)
    BY <1>1 DEF Bad, FailedSince, histVars
  <2> QED
    BY <2>1, <2>2
<1>5. CASE (curPosition = from \/ NoWal) /\ status' = "writeVersion" /\ UNCHANGED cursor
  <2>1. LogLink'
    BY <1>1, <1>5, QuietLog DEF Serving
  <2>2. VersionLink' /\ ReplayLink'
    BY <1>1, <1>5, QuietVersion DEF ReplayLink
  <2>3. ASSUME VersionKeyUntouched, NEW e \in acked PROVE ~Bad(e)
    <3>1. SUFFICES ASSUME Restorable(e) PROVE FALSE
      BY <1>4, <2>3
    <3>2. NewerThan(LogEnd, from) /\ \E c, i \in Nat : At(c, i)
      BY <3>1 DEF Restorable
    <3>3. files # << >>
      BY <1>2, <3>2, AtNat
    <3>4. ~NoWal
      BY <1>1, <1>2, <3>3, FilesLen DEF NoWal, IndInv, LogLink, WritePointIsLogEnd, Serving
    <3>5. curPosition = LogEnd
      BY <1>1, <2>3, <3>4, StoredPosition
    <3> QED
      BY <1>2, <1>5, <3>2, <3>4, <3>5, NewerAsymmetric
  <2>4. SettledLink'
    BY <1>1, <1>3, <1>4, <2>3 DEF SettledLink
  <2> QED
    BY <1>1, <1>2, <1>5, <2>1, <2>2, <2>4, QuietStep DEF TypeOK, Status
<1>6. CASE /\ curPosition # from /\ ~NoWal
           /\ NewerThan(from, curPosition) \/ ReplayStart(from) = {}
           /\ status' = "refused" /\ UNCHANGED cursor
  <2>1. ASSUME VersionKeyUntouched PROVE FALSE
    <3>1. /\ curPosition = LogEnd /\ NewerThan(LogEnd, from)
          /\ from.Collection \in DOMAIN files
      BY <1>1, <1>6, <2>1, StoredPosition
    <3>2. ~NewerThan(from, curPosition)
      BY <1>2, <3>1, NewerAsymmetric
    <3>3. from.Collection \in ReplayStart(from)
      BY <1>2, <3>1 DEF ReplayStart, SequenceId
    <3> QED
      BY <1>6, <3>2, <3>3
  <2>2. LogLink'
    BY <1>1, <1>3, <1>6, <2>1, QuietLog DEF Serving
  <2>3. VersionLink' /\ ReplayLink' /\ SettledLink'
    BY <1>3, <2>1 DEF VersionLink, ReplayLink, SettledLink
  <2> QED
    BY <1>1, <1>2, <1>6, <2>2, <2>3, QuietStep DEF TypeOK, Status
<1>7. CASE /\ curPosition # from /\ ~NoWal
           /\ \E c \in ReplayStart(from) : cursor' = [file |-> c, page |-> 1]
           /\ status' = "replay"
  <2>1. PICK c \in ReplayStart(from) : cursor' = [file |-> c, page |-> 1]
    BY <1>7
  <2>2. c \in DOMAIN files /\ c <= from.Collection /\ c \in Nat
    BY <1>2, FileLen DEF ReplayStart
  <2>3. cursor'.file = c /\ cursor'.page = 1 /\ cursor' \in [file : Nat, page : Nat]
    BY <2>1, <2>2
  <2>4. ASSUME VersionKeyUntouched
        PROVE  NewerThan(LogEnd, from) /\ c = from.Collection
    <3>1. NewerThan(LogEnd, from) /\ from.Collection \in DOMAIN files
      BY <1>1, <1>7, <2>4, StoredPosition
    <3>2. from.Collection <= c
      BY <1>2, <3>1 DEF ReplayStart, SequenceId
    <3> QED
      BY <1>2, <2>2, <3>1, <3>2 DEF SequenceId
  <2>5. LogLink'
    BY <1>1, <1>7, QuietLog DEF Serving
  <2>6. from' = from /\ LogEnd' = LogEnd
    BY <1>1 DEF from, LogEnd, lastFile
  <2>7. VersionLink' /\ ReplayLink'
    <3>1. VersionLink'
      BY <1>1, QuietVersion
    <3>2. ReplayLink'
      BY <1>1, <1>3, <2>2, <2>3, <2>4, <2>6 DEF ReplayLink
    <3> QED
      BY <3>1, <3>2
  <2>8. ASSUME VersionKeyUntouched, NEW e \in acked, Restorable(e) PROVE Restorable(e)'
    <3>1. PICK x \in Nat, y \in Nat :
              /\ At(x, y) /\ files[x][y].entry \in Entry
              /\ KeyOf[files[x][y].entry] = KeyOf[e] /\ files[x][y].entry \notin before[e]
              /\ x >= from.Collection
      BY <2>8 DEF Restorable
    <3>2. y >= 1
      BY <1>2, <3>1, AtNat
    <3>3. NotBefore(x, y, cursor'.file, cursor'.page)
      BY <2>2, <2>3, <2>4, <2>8, <3>1, <3>2 DEF NotBefore
    <3>4. At(x, y)' /\ files' = files /\ before' = before
      BY <1>1, <3>1 DEF At, histVars
    <3>5. \E c1, i1 \in Nat :
              /\ At(c1, i1)' /\ files'[c1][i1].entry \in Entry
              /\ KeyOf[files'[c1][i1].entry] = KeyOf[e] /\ files'[c1][i1].entry \notin before'[e]
              /\ c1 >= from'.Collection
              /\ NotBefore(c1, i1, cursor'.file, cursor'.page)
      BY <2>6, <3>1, <3>3, <3>4
    <3> QED
      BY <1>1, <1>7, <2>4, <2>6, <2>8, <3>5 DEF Restorable, NotBefore
  <2>9. SettledLink'
    BY <1>3, <1>4, <2>8 DEF SettledLink
  <2> QED
    BY <1>1, <1>2, <1>7, <2>3, <2>5, <2>7, <2>9, QuietStep DEF TypeOK, Status
<1> QED
  BY <1>5, <1>6, <1>7 DEF ReplayIncomplete

\* Page x, y is after the cursor and restores e, the values of the other
\* variables being what they were.
LEMMA StillRestorable ==
    ASSUME UNCHANGED <<files, version, before>>, NEW e, NEW x \in Nat, NEW y \in Nat,
           status' \notin {"writeVersion", "up"}, version # Torn, NewerThan(LogEnd, from),
           At(x, y), files[x][y].entry \in Entry,
           KeyOf[files[x][y].entry] = KeyOf[e], files[x][y].entry \notin before[e],
           x >= from.Collection,
           status' = "replay" => NotBefore(x, y, cursor'.file, cursor'.page)
    PROVE  Restorable(e)'
<1>1. from' = from /\ LogEnd' = LogEnd /\ At(x, y)'
  BY DEF from, LogEnd, lastFile, At
<1>2. \E c, i \in Nat :
          /\ At(c, i)' /\ files'[c][i].entry \in Entry
          /\ KeyOf[files'[c][i].entry] = KeyOf[e] /\ files'[c][i].entry \notin before'[e]
          /\ c >= from'.Collection
          /\ status' = "replay" => NotBefore(c, i, cursor'.file, cursor'.page)
  BY <1>1
<1> QED
  BY <1>1, <1>2 DEF Restorable, NotBefore

\* A page that restores e, for an entry that is bad.
LEMMA RestorableWitness ==
    ASSUME NEW e, Restorable(e)
    PROVE  /\ status \notin {"writeVersion", "up"} /\ version # Torn /\ NewerThan(LogEnd, from)
           /\ \E x, y \in Nat :
                 /\ At(x, y) /\ files[x][y].entry \in Entry
                 /\ KeyOf[files[x][y].entry] = KeyOf[e] /\ files[x][y].entry \notin before[e]
                 /\ x >= from.Collection
                 /\ status = "replay" => NotBefore(x, y, cursor.file, cursor.page)
BY DEF Restorable

\* An acknowledged entry has a page after every page of what was done before
\* its Put began.
LEMMA LaterPage ==
    ASSUME IndInv, VersionKeyUntouched, NEW e \in acked, NEW c \in Nat, NEW i \in Nat,
           At(c, i), files[c][i].entry \in before[e]
    PROVE  \E x, y \in Nat :
              /\ At(x, y) /\ files[x][y].entry = e /\ e \in Entry /\ e \notin before[e]
              /\ x > c \/ (x = c /\ y > i)
<1>1. e \in Entry /\ e \notin before[e] /\ InLog(e)
  BY SettledType DEF Settled
<1>2. PICK x \in Nat, y \in Nat : At(x, y) /\ files[x][y].entry = e
  BY <1>1 DEF InLog
<1>3. ~NotBefore(c, i, x, y)
  BY <1>1, <1>2 DEF IndInv, StoreLink, HistoryLink
<1>4. x > c \/ (x = c /\ y > i)
  BY <1>3 DEF NotBefore
<1> QED
  BY <1>1, <1>2, <1>4

\* The replay of one page keeps what is to be restored in front of it, and when
\* it fails the next start replays the page again.
LEMMA ReplayedSettled ==
    ASSUME IndInv, VersionKeyUntouched, UNCHANGED <<files, version, histVars>>,
           status = "replay", NEW c, c = cursor.file, NEW i, i = cursor.page, At(c, i),
           NEW g \in Entry, files[c][i].entry = g, KeyOf[g] \in ValidKey,
           NEW v \in {g, NoEntry}, kv' = [kv EXCEPT ![KeyOf[g]] = v],
           \/ status' = "failed"
           \/ status' = "replay" /\ v = g /\ cursor'.file = c /\ cursor'.page = i + 1,
           NEW e \in acked
    PROVE  Bad(e)' => Restorable(e)'
<1>1. TypeOK /\ WalTypeOK /\ c \in Nat /\ i \in Nat
  BY DEF IndInv, TypeOK
<1>2. /\ version # Torn /\ NewerThan(LogEnd, from) /\ c >= from.Collection
      /\ from \in SequenceId
  BY <1>1, FromType DEF IndInv, VersionLink, ReplayLink
<1>3. /\ e \in Settled /\ e \in Entry /\ KeyOf[e] \in ValidKey
      /\ Torn \notin before[e] /\ NoEntry \notin before[e]
  BY SettledType DEF Settled
<1>4. status' \notin {"writeVersion", "up"}
  OBVIOUS
<1>5. CASE KeyOf[g] # KeyOf[e]
  <2>1. kv'[KeyOf[e]] = kv[KeyOf[e]]
    BY <1>1, <1>3, <1>5 DEF TypeOK
  <2>2. Bad(e)' => Bad(e)
    BY <2>1 DEF Bad, FailedSince, histVars
  <2>3. Bad(e) => Restorable(e)
    BY <1>3 DEF IndInv, StoreLink, SettledLink
  <2>4. ASSUME Restorable(e) PROVE Restorable(e)'
    <3>1. PICK x \in Nat, y \in Nat :
              /\ At(x, y) /\ files[x][y].entry \in Entry
              /\ KeyOf[files[x][y].entry] = KeyOf[e] /\ files[x][y].entry \notin before[e]
              /\ x >= from.Collection /\ NotBefore(x, y, c, i)
      BY <2>4, RestorableWitness
    <3>2. ~(x = c /\ y = i)
      BY <1>5, <3>1
    <3>3. status' = "replay" => NotBefore(x, y, cursor'.file, cursor'.page)
      BY <1>1, <3>1, <3>2 DEF NotBefore
    <3> QED
      BY <1>2, <1>4, <3>1, <3>3, StillRestorable DEF histVars
  <2> QED
    BY <2>2, <2>3, <2>4
<1>6. CASE KeyOf[g] = KeyOf[e]
  <2>1. kv'[KeyOf[e]] = v
    BY <1>1, <1>3, <1>6 DEF TypeOK
  <2>2. g # NoEntry /\ g # Torn /\ NoEntry # Torn
    BY WalAssumption, StoreAssumption
  <2>3. ASSUME g \in before[e] PROVE Restorable(e)'
    <3>1. PICK x \in Nat, y \in Nat :
              /\ At(x, y) /\ files[x][y].entry = e /\ e \notin before[e]
              /\ x > c \/ (x = c /\ y > i)
      BY <1>1, <2>3, LaterPage
    <3>2. x >= from.Collection
      BY <1>1, <1>2, <3>1 DEF SequenceId
    <3>3. status' = "replay" => NotBefore(x, y, cursor'.file, cursor'.page)
      BY <1>1, <3>1 DEF NotBefore
    <3> QED
      BY <1>2, <1>3, <1>4, <3>1, <3>2, <3>3, StillRestorable DEF histVars
  <2>4. ASSUME v = NoEntry, g \notin before[e] PROVE Restorable(e)'
    <3>1. status' # "replay"
      BY <2>2, <2>4
    <3> QED
      BY <1>1, <1>2, <1>4, <1>6, <2>4, <3>1, StillRestorable DEF histVars
  <2>5. v = g /\ g \notin before[e] => ~Bad(e)'
    BY <2>1, <2>2 DEF Bad, histVars
  <2> QED
    BY <2>3, <2>4, <2>5
<1> QED
  BY <1>5, <1>6

LEMMA ReplayPageStep ==
    ASSUME IndInv, ReplayPage
    PROVE  IndInv'
<1> DEFINE c == cursor.file
           i == cursor.page
           pg == files[c][i]
<1>1. /\ status = "replay" /\ At(c, i)
      /\ UNCHANGED <<files, diskWal, putVars, histVars>>
  BY DEF ReplayPage, At
<1>2. /\ TypeOK /\ WalTypeOK /\ c \in Nat /\ i \in Nat /\ pg \in Page
      /\ cursor \in [file : Nat, page : Nat]
  BY <1>1, AtNat DEF IndInv, TypeOK
<1>3. /\ Settled' = acked /\ Settled = acked
      /\ VersionKeyUntouched' <=> VersionKeyUntouched
  BY <1>1, NotUp, NoPuts, SameUntouched DEF putVars, histVars
<1>4. CASE ~Decodable(pg) /\ status' = "undecodable" /\ UNCHANGED <<kv, version, cursor>>
  <2>1. LogLink' /\ SettledLink'
    BY <1>1, <1>4, QuietLog, QuietSettled DEF Serving
  <2>2. VersionLink' /\ ReplayLink'
    BY <1>1, <1>4, QuietVersion DEF ReplayLink
  <2> QED
    BY <1>1, <1>2, <1>4, <2>1, <2>2, QuietStep DEF TypeOK, Status
<1>5. ASSUME Decodable(pg)
      PROVE  /\ pg.entry \in Entry
             /\ VersionKeyUntouched => KeyOf[pg.entry] \in ValidKey /\ KeyOf[pg.entry] # VersionKey
  <2>1. pg.entry \in Entry
    BY <1>1, <1>5 DEF IndInv, LogLink, LogShape, Decodable, At
  <2>2. pg.entry \in issued
    BY <1>1, <2>1, WalAssumption DEF IndInv, StoreLink, IssuedLink
  <2> QED
    BY <1>5, <2>1, <2>2, PlainKey DEF Decodable
<1>6. CASE /\ Decodable(pg) /\ Store(pg.entry)
           /\ cursor' = [cursor EXCEPT !.page = @ + 1] /\ UNCHANGED status
  <2>1. cursor'.file = c /\ cursor'.page = i + 1 /\ cursor' \in [file : Nat, page : Nat]
    <3>1. i + 1 \in Nat
      BY <1>2
    <3>2. cursor' = [cursor EXCEPT !.page = i + 1]
      BY <1>6
    <3> HIDE DEF c, i
    <3> QED
      BY <1>2, <3>1, <3>2 DEF c, i
  <2>2. /\ kv' \in [ValidKey -> Entry \cup {NoEntry, Torn}]
        /\ version' \in SequenceId \cup {NoVersion, Torn}
    BY <1>2, <1>5, <1>6, StoreType
  <2>3. LogLink'
    BY <1>1, <1>6, QuietLog DEF Serving
  <2>4. ASSUME VersionKeyUntouched
        PROVE  UNCHANGED version /\ kv' = [kv EXCEPT ![KeyOf[pg.entry]] = pg.entry]
    BY <1>5, <1>6, <2>4, PlainFile DEF Store
  <2>5. VersionLink'
    BY <1>1, <1>3, <2>4, QuietVersion DEF VersionLink
  <2>6. ReplayLink'
    <3> SUFFICES ASSUME VersionKeyUntouched PROVE ReplayLink'
      BY <1>3 DEF ReplayLink
    <3>1. from' = from /\ LogEnd' = LogEnd
      BY <1>1, <2>4 DEF from, LogEnd, lastFile
    <3> QED
      BY <1>1, <1>2, <2>1, <3>1 DEF IndInv, ReplayLink
  <2>7. ASSUME VersionKeyUntouched, NEW e \in acked PROVE Bad(e)' => Restorable(e)'
    BY <1>1, <1>5, <1>6, <2>1, <2>4, <2>7, ReplayedSettled
  <2>8. SettledLink'
    BY <1>3, <2>7 DEF SettledLink
  <2> QED
    BY <1>1, <1>2, <1>6, <2>1, <2>2, <2>3, <2>5, <2>6, <2>8, QuietStep DEF TypeOK
<1>7. CASE /\ Decodable(pg) /\ StoreFails(pg.entry)
           /\ status' = "failed" /\ UNCHANGED cursor
  <2>1. /\ kv' \in [ValidKey -> Entry \cup {NoEntry, Torn}]
        /\ version' \in SequenceId \cup {NoVersion, Torn}
    BY <1>2, <1>5, <1>7, StoreType
  <2>2. LogLink' /\ ReplayLink'
    BY <1>1, <1>7, QuietLog DEF Serving, ReplayLink
  <2>3. CASE UNCHANGED <<kv, version>>
    <3>1. SettledLink' /\ VersionLink'
      BY <1>1, <1>7, <2>3, QuietSettled, QuietVersion
    <3> QED
      BY <1>1, <1>2, <1>7, <2>1, <2>2, <3>1, QuietStep DEF TypeOK, Status
  <2>4. ASSUME NEW v \in {pg.entry, NoEntry}, NEW s, SetFile(pg.entry, v, s)
        PROVE  IndInv'
    <3>1. ASSUME VersionKeyUntouched
          PROVE  UNCHANGED version /\ kv' = [kv EXCEPT ![KeyOf[pg.entry]] = v]
      BY <1>5, <1>7, <2>4, <3>1, PlainFile
    <3>2. VersionLink'
      BY <1>1, <1>3, <1>7, <3>1, QuietVersion DEF VersionLink
    <3>3. ASSUME VersionKeyUntouched, NEW e \in acked PROVE Bad(e)' => Restorable(e)'
      BY <1>1, <1>5, <1>7, <3>1, <3>3, ReplayedSettled
    <3>4. SettledLink'
      BY <1>3, <3>3 DEF SettledLink
    <3> QED
      BY <1>1, <1>2, <1>7, <2>1, <2>2, <3>2, <3>4, QuietStep DEF TypeOK, Status
  <2> QED
    BY <1>5, <1>7, <2>3, <2>4, StoreFailsCases
<1> QED
  BY <1>4, <1>6, <1>7 DEF ReplayPage

LEMMA ReplayFileEndStep ==
    ASSUME IndInv, ReplayFileEnd
    PROVE  IndInv'
<1> DEFINE c == cursor.file
           i == cursor.page
<1>1. /\ status = "replay" /\ UNCHANGED <<files, diskWal, kv, version, putVars, histVars>>
  BY DEF ReplayFileEnd
<1>2. TypeOK /\ WalTypeOK /\ c \in Nat /\ i \in Nat
  BY DEF IndInv, TypeOK
<1>3. /\ Settled' = acked /\ Settled = acked
      /\ VersionKeyUntouched' <=> VersionKeyUntouched
  BY <1>1, NotUp, NoPuts, SameUntouched DEF putVars, histVars
<1>4. ASSUME VersionKeyUntouched
      PROVE  /\ version # Torn /\ NewerThan(LogEnd, from) /\ c >= from.Collection /\ i >= 1
             /\ c \in DOMAIN files /\ from \in SequenceId
             /\ i > Len(files[c]) /\ Len(files[c]) \in Nat
  <2>1. /\ version # Torn /\ NewerThan(LogEnd, from) /\ c >= from.Collection /\ i >= 1
        /\ c \in DOMAIN files /\ from \in SequenceId
    BY <1>1, <1>2, <1>4, FromType DEF IndInv, VersionLink, ReplayLink
  <2>2. i \notin DOMAIN files[c]
    BY <2>1 DEF ReplayFileEnd
  <2> QED
    BY <1>2, <2>1, <2>2, FileLen
<1>5. ASSUME VersionKeyUntouched, NEW e \in acked
      PROVE  (Bad(e)' => Bad(e)) /\ (Bad(e) => Restorable(e))
  <2>1. Bad(e)' => Bad(e)
    BY <1>1 DEF Bad, FailedSince, histVars
  <2>2. Bad(e) => Restorable(e)
    BY <1>3, <1>5 DEF IndInv, StoreLink, SettledLink
  <2> QED
    BY <2>1, <2>2
<1>6. ASSUME VersionKeyUntouched, NEW e \in acked, Restorable(e)
      PROVE  \E x, y \in Nat :
                /\ At(x, y) /\ files[x][y].entry \in Entry
                /\ KeyOf[files[x][y].entry] = KeyOf[e] /\ files[x][y].entry \notin before[e]
                /\ x >= from.Collection /\ x >= c + 1 /\ y >= 1 /\ x <= Len(files)
  <2>1. PICK x \in Nat, y \in Nat :
            /\ At(x, y) /\ files[x][y].entry \in Entry
            /\ KeyOf[files[x][y].entry] = KeyOf[e] /\ files[x][y].entry \notin before[e]
            /\ x >= from.Collection /\ NotBefore(x, y, c, i)
    BY <1>1, <1>6, RestorableWitness
  <2>2. y >= 1 /\ y <= Len(files[x]) /\ x <= Len(files)
    BY <1>2, <2>1, AtNat
  <2>3. x # c
    BY <1>2, <1>4, <1>6, <2>1, <2>2 DEF NotBefore
  <2>4. x >= c + 1
    BY <1>2, <2>1, <2>3 DEF NotBefore
  <2> QED
    BY <2>1, <2>2, <2>4
<1>7. VersionLink'
  BY <1>1, QuietVersion
<1>8. CASE /\ c + 1 \in DOMAIN files
           /\ cursor' = [file |-> c + 1, page |-> 1] /\ UNCHANGED status
  <2>1. cursor'.file = c + 1 /\ cursor'.page = 1 /\ cursor' \in [file : Nat, page : Nat]
    BY <1>2, <1>8
  <2>2. LogLink'
    BY <1>1, <1>8, QuietLog DEF Serving
  <2>3. from' = from /\ LogEnd' = LogEnd
    BY <1>1 DEF from, LogEnd, lastFile
  <2>4. ReplayLink'
    <3> SUFFICES ASSUME VersionKeyUntouched PROVE ReplayLink'
      BY <1>3 DEF ReplayLink
    <3>1. c + 1 >= from.Collection
      BY <1>2, <1>4 DEF SequenceId
    <3> QED
      BY <1>1, <1>4, <1>8, <2>1, <2>3, <3>1 DEF ReplayLink
  <2>5. ASSUME VersionKeyUntouched, NEW e \in acked, Restorable(e) PROVE Restorable(e)'
    <3>1. PICK x \in Nat, y \in Nat :
              /\ At(x, y) /\ files[x][y].entry \in Entry
              /\ KeyOf[files[x][y].entry] = KeyOf[e] /\ files[x][y].entry \notin before[e]
              /\ x >= from.Collection /\ x >= c + 1 /\ y >= 1
      BY <1>6, <2>5
    <3>2. NotBefore(x, y, cursor'.file, cursor'.page)
      BY <1>2, <2>1, <3>1 DEF NotBefore
    <3>3. status' \notin {"writeVersion", "up"}
      BY <1>1, <1>8
    <3> QED
      BY <1>1, <1>4, <2>5, <3>1, <3>2, <3>3, StillRestorable DEF histVars
  <2>6. SettledLink'
    BY <1>3, <1>5, <2>5 DEF SettledLink
  <2> QED
    BY <1>1, <1>2, <1>7, <1>8, <2>1, <2>2, <2>4, <2>6, QuietStep DEF TypeOK
<1>9. CASE c + 1 \notin DOMAIN files /\ cursor' = NoCursor /\ status' = "writeVersion"
  <2>1. LogLink' /\ ReplayLink'
    BY <1>1, <1>9, QuietLog DEF Serving, ReplayLink
  <2>2. ASSUME VersionKeyUntouched, NEW e \in acked PROVE ~Bad(e)
    <3>1. SUFFICES ASSUME Restorable(e) PROVE FALSE
      BY <1>5, <2>2
    <3>2. PICK x \in Nat : x >= c + 1 /\ x <= Len(files)
      BY <1>6, <2>2, <3>1
    <3>3. c + 1 \in DOMAIN files
      BY <1>2, <3>2, FilesDomain, FilesLen
    <3> QED
      BY <1>9, <3>3
  <2>3. SettledLink'
    BY <1>3, <1>5, <2>2 DEF SettledLink
  <2>4. cursor' \in [file : Nat, page : Nat]
    BY <1>9 DEF NoCursor
  <2> QED
    BY <1>1, <1>2, <1>7, <1>9, <2>1, <2>3, <2>4, QuietStep DEF TypeOK, Status
<1> QED
  BY <1>8, <1>9 DEF ReplayFileEnd

\* What Initialize writes, or fails to write, is a position of the log.
LEMMA InitialVersionStep ==
    ASSUME IndInv, InitialVersion
    PROVE  IndInv'
<1> DEFINE s == IF NoWal THEN StartWalSequence ELSE curPosition
<1>1. /\ status = "writeVersion" /\ status' \in {"up", "failed"}
      /\ version' \in {version, NoVersion, s} /\ (status' = "up" => version' = s)
      /\ UNCHANGED <<files, diskWal, kv, cursor, putVars, histVars>>
  BY DEF InitialVersion, StoreVersionFails
<1>2. TypeOK /\ WalTypeOK
  BY DEF IndInv, TypeOK
<1>3. LogLink' /\ ReplayLink'
  BY <1>1, QuietLog DEF Serving, ReplayLink
<1>4. s \in SequenceId /\ s # Torn /\ NoVersion \notin SequenceId
  BY <1>2, StoreAssumption DEF SequenceId, StartWalSequence, curPosition, WalTypeOK
<1>5. s # StartWalSequence => Position(s)
  <2> SUFFICES ASSUME ~NoWal PROVE Position(curPosition)
    OBVIOUS
  <2>1. /\ curCollection = Len(files)
        /\ curSeq = IF files = << >> THEN 0 ELSE Len(lastFile)
    BY <1>1 DEF IndInv, LogLink, WritePointIsLogEnd, Serving
  <2>2. files # << >>
    <3>1. files = << >> => curCollection = 0 /\ curSeq = 0
      BY <2>1
    <3> QED
      BY <3>1 DEF NoWal
  <2>3. /\ Len(files) \in DOMAIN files /\ lastFile = files[Len(files)]
        /\ Len(lastFile) \in Nat
    BY <1>2, <2>2, LastLen
  <2> QED
    BY <2>1, <2>2, <2>3 DEF Position, curPosition
<1> HIDE DEF s
<1>6. VersionKeyUntouched' <=> VersionKeyUntouched
  BY <1>1, SameUntouched DEF histVars
<1>7. VersionLink'
  <2>1. CASE version' = version
    BY <1>1, <2>1, QuietVersion
  <2>2. CASE version' = NoVersion
    BY <1>4, <2>2, StoreAssumption DEF VersionLink
  <2>3. CASE version' = s
    <3>1. version' = StartWalSequence \/ Position(version')
      BY <1>5, <2>3
    <3> QED
      BY <1>1, <1>4, <2>3, <3>1 DEF VersionLink, Position
  <2> QED
    BY <1>1, <2>1, <2>2, <2>3
<1>8. SettledLink'
  <2>1. Settled' = Settled
    BY <1>1 DEF Settled, putVars, histVars
  <2>2. ASSUME VersionKeyUntouched, NEW e \in Settled PROVE ~Bad(e)'
    <3>1. ~Bad(e)
      BY <1>1, <2>2, UpSettled
    <3> QED
      BY <1>1, <3>1 DEF Bad, FailedSince, histVars
  <2> QED
    BY <1>6, <2>1, <2>2 DEF SettledLink
<1>9. version' \in SequenceId \cup {NoVersion, Torn}
  BY <1>1, <1>2, <1>4 DEF TypeOK
<1> QED
  BY <1>1, <1>2, <1>3, <1>7, <1>8, <1>9, QuietStep DEF TypeOK, Status

-----------------------------------------------------------------------------
(***************************************************************************)
(* Put                                                                     *)
(***************************************************************************)

\* A step of a Put that leaves the files alone.
LEMMA UpLog ==
    ASSUME IndInv, UNCHANGED <<files, diskWal, status>>, issued \subseteq issued'
    PROVE  LogLink'
<1>1. VersionKeyUntouched' => VersionKeyUntouched
  BY DEF VersionKeyUntouched
<1> QED
  BY <1>1 DEF IndInv, LogLink, LogShape, OpenLink, WritePointIsLogEnd, Serving, FilesBounded,
              RecordsContiguous, PageBefore, ReplayNeverRefused, lastFile, diskWal

LEMMA UpStep ==
    ASSUME IndInv, status = "up", UNCHANGED status,
           TypeOK', LogLink', \A p \in Putter : PutLink(p)' /\ PendingLink(p)',
           PutsDiffer', VersionLink', HistoryLink', SettledLink', IssuedLink'
    PROVE  IndInv'
BY DEF IndInv, StoreLink, ReplayLink

\* What a Put that is under way is known to have.
LEMMA ActiveType ==
    ASSUME IndInv, NEW p \in Putter, pc[p] # "idle"
    PROVE  /\ status = "up" /\ entry[p] \in Entry /\ entry[p] \in issued
           /\ entry[p] \notin Done
           /\ PagesOf[entry[p]] \in Nat /\ PagesOf[entry[p]] >= 1
<1>1. status = "up" /\ entry[p] \in issued \ Done
  BY DEF IndInv, PutLink, Active
<1>2. entry[p] \in Entry
  BY <1>1 DEF IndInv, TypeOK
<1> QED
  BY <1>1, <1>2, WalAssumption

\* Another Put that is under way overlaps, and has not the lock of the log
\* when this one has it.
LEMMA OtherPut ==
    ASSUME IndInv, NEW p \in Putter, NEW q \in Putter, p # q, pc[p] # "idle", pc[q] # "idle"
    PROVE  /\ overlap /\ entry[p] # entry[q]
           /\ pc[p] \in {"page", "write"} => pc[q] \notin {"page", "write"}
BY DEF IndInv, PutsDiffer, Active

\* While the store serves, settled entries stay so when no value changes.
LEMMA UpKeepsSettled ==
    ASSUME IndInv, status = "up", UNCHANGED <<kv, issued, failed, before>>, overlap => overlap',
           Settled' \subseteq Settled
    PROVE  SettledLink'
<1>1. ASSUME VersionKeyUntouched, NEW e \in Settled PROVE ~Bad(e)'
  <2>1. ~Bad(e)
    BY <1>1, UpSettled
  <2> QED
    BY <2>1 DEF Bad, FailedSince
<1> QED
  BY <1>1, SameUntouched DEF SettledLink

\* What is said of Put q stays when its variables do and the log grows, unless
\* it has the lock.
LEMMA OtherLink ==
    ASSUME IndInv, NEW q \in Putter, WalTypeOK', Grows, UNCHANGED <<status, issued, acked, failed>>,
           pc'[q] = pc[q], entry'[q] = entry[q], seq'[q] = seq[q],
           pc[q] \notin {"page", "write"}
    PROVE  PutLink(q)'
<1>1. WalTypeOK /\ PutLink(q) /\ seq[q] \in SequenceId
  BY DEF IndInv, TypeOK
<1>2. \A e : InLog(e) => InLog(e)'
  BY <1>1, GrowsKeeps
<1>3. Position(seq[q]) => Position(seq[q])'
  BY <1>1, GrowsKeeps
<1> QED
  BY <1>1, <1>2, <1>3 DEF PutLink, Active, Done

\* The same when the log does not change.
LEMMA SameLink ==
    ASSUME IndInv, NEW q \in Putter, UNCHANGED <<files, diskWal, status>>,
           issued \subseteq issued', entry[q] \notin Done' \/ pc'[q] = "idle",
           pc'[q] = pc[q], entry'[q] = entry[q], seq'[q] = seq[q], written'[q] = written[q]
    PROVE  PutLink(q)'
<1>1. PutLink(q)
  BY DEF IndInv
<1> QED
  BY <1>1 DEF PutLink, Active, Position, InLog, LastAt, At, diskWal

LEMMA SamePending ==
    ASSUME IndInv, NEW q \in Putter, UNCHANGED <<files, issued, acked, overlap>>,
           VersionKeyUntouched => UNCHANGED version,
           pc'[q] = pc[q], entry'[q] = entry[q]
    PROVE  PendingLink(q)'
<1>1. PendingLink(q)
  BY DEF IndInv, StoreLink
<1>2. VersionKeyUntouched' <=> VersionKeyUntouched
  BY SameUntouched
<1> QED
  BY <1>1, <1>2 DEF PendingLink, LogEnd, lastFile, from, LastAt, At

LEMMA PutBegins ==
    ASSUME IndInv, NEW p \in Putter, NEW e \in Entry, Put(p, e)
    PROVE  IndInv'
<1>1. /\ status = "up" /\ pc[p] = "idle" /\ e \notin issued /\ LogFree
      /\ pc' = [pc EXCEPT ![p] = "page"] /\ entry' = [entry EXCEPT ![p] = e]
      /\ written' = [written EXCEPT ![p] = 0] /\ issued' = issued \cup {e}
      /\ before' = [before EXCEPT ![e] = Done]
      /\ overlap' = (overlap \/ \E q \in Putter : pc[q] # "idle")
      /\ UNCHANGED <<files, diskWal, kv, version, status, cursor, seq, acked, failed>>
  BY DEF Put, Done
<1>2. TypeOK /\ WalTypeOK
  BY DEF IndInv, TypeOK
<1>3. TypeOK'
  <2>1. WalTypeOK'
    BY <1>1, <1>2 DEF WalTypeOK, diskWal
  <2>2. overlap' \in BOOLEAN
    BY <1>1
  <2>3. before' \in [Entry -> SUBSET Entry]
    BY <1>1, <1>2 DEF TypeOK, Done
  <2> QED
    BY <1>1, <1>2, <2>1, <2>2, <2>3 DEF TypeOK
<1>4. /\ pc'[p] = "page" /\ entry'[p] = e /\ written'[p] = 0
      /\ \A q \in Putter : q # p => pc'[q] = pc[q] /\ entry'[q] = entry[q] /\ written'[q] = written[q]
  BY <1>1, <1>2 DEF TypeOK
<1>5. /\ Done \subseteq issued /\ e \notin Done /\ issued \subseteq issued' /\ Done' = Done
      /\ VersionKeyUntouched' => VersionKeyUntouched
  BY <1>1, <1>2 DEF TypeOK, Done, VersionKeyUntouched
<1>6. ASSUME NEW q \in Putter PROVE PutLink(q)'
  <2>1. CASE q = p
    <3>1. PagesOf[e] \in Nat /\ 0 < PagesOf[e]
      BY WalAssumption
    <3> QED
      BY <1>1, <1>4, <1>5, <2>1, <3>1 DEF PutLink, Active
  <2>2. CASE q # p
    <3>1. pc[q] = "idle" \/ entry[q] \notin Done'
      BY <1>5, ActiveType
    <3> QED
      BY <1>1, <1>4, <1>5, <2>2, <3>1, SameLink
  <2> QED
    BY <2>1, <2>2
<1>7. PutsDiffer'
  <2> SUFFICES ASSUME NEW q \in Putter, NEW s \in Putter, q # s, pc'[q] # "idle", pc'[s] # "idle"
               PROVE  /\ entry'[q] # entry'[s] /\ overlap'
                      /\ ~(pc'[q] \in {"page", "write"} /\ pc'[s] \in {"page", "write"})
    BY DEF PutsDiffer, Active
  <2>1. ASSUME NEW x \in Putter, x # p, pc'[x] # "idle"
        PROVE  entry'[x] # e /\ overlap' /\ pc'[x] \notin {"page", "write"}
    <3>1. pc[x] # "idle" /\ pc'[x] = pc[x] /\ entry'[x] = entry[x]
      BY <1>4, <2>1
    <3>2. entry[x] \in issued
      BY <3>1, ActiveType
    <3> QED
      BY <1>1, <3>1, <3>2 DEF LogFree
  <2>2. CASE q = p \/ s = p
    BY <1>4, <2>1, <2>2
  <2>3. CASE q # p /\ s # p
    BY <1>4, <2>1, <2>3, OtherPut
  <2> QED
    BY <2>2, <2>3
<1>8. VersionLink'
  BY <1>1, <1>5 DEF IndInv, VersionLink, Position
<1>9. HistoryLink'
  <2>1. HistoryLink /\ IssuedLink
    BY DEF IndInv, StoreLink
  <2>2. \A c, i : At(c, i) => files[c][i].entry # e
    BY <1>1, <2>1, WalAssumption DEF IssuedLink
  <2>3. before'[e] = Done /\ \A x \in Entry : x # e => before'[x] = before[x]
    BY <1>1, <1>2 DEF TypeOK
  <2>4. \A c, i : At(c, i)' <=> At(c, i)
    BY <1>1 DEF At
  <2>5. \A x : InLog(x)' <=> InLog(x)
    BY <1>1 DEF InLog, At
  <2>6. ASSUME NEW x \in Entry
        PROVE  /\ before'[x] \subseteq Done' /\ x \notin before'[x]
               /\ x \in Done' => InLog(x)' /\ KeyOf[x] \in AcceptedKey
    BY <1>1, <1>5, <2>1, <2>3, <2>5 DEF HistoryLink
  <2>7. ASSUME NEW x \in Entry, NEW f \in before'[x],
               NEW c \in Nat, NEW i \in Nat, NEW d \in Nat, NEW j \in Nat,
               At(c, i)', files'[c][i].entry = f, At(d, j)', files'[d][j].entry = x
        PROVE  ~NotBefore(c, i, d, j)
    <3>1. x # e
      BY <1>1, <2>2, <2>4, <2>7
    <3> QED
      BY <1>1, <2>1, <2>3, <2>4, <2>7, <3>1 DEF HistoryLink
  <2> QED
    BY <2>6, <2>7 DEF HistoryLink, NotBefore
<1>10. IssuedLink'
  BY <1>1 DEF IndInv, StoreLink, IssuedLink, At
<1>11. SettledLink'
  <2>1. Settled' \subseteq Settled
    BY <1>1, <1>4 DEF Settled
  <2>2. ASSUME VersionKeyUntouched, NEW x \in Settled PROVE ~Bad(x)'
    <3>1. ~Bad(x)
      BY <1>1, <2>2, UpSettled
    <3>2. x \in issued /\ x \in Entry
      BY <1>5, <2>2, ActiveType, SettledType DEF Settled, Done
    <3>3. before'[x] = before[x]
      BY <1>1, <1>2, <3>2 DEF TypeOK
    <3> QED
      BY <1>1, <3>1, <3>3 DEF Bad, FailedSince
  <2> QED
    BY <1>5, <2>1, <2>2 DEF SettledLink
<1>12. ASSUME NEW q \in Putter PROVE PendingLink(q)'
  <2>1. pc'[q] = "kv" => overlap'
    BY <1>1, <1>4
  <2> QED
    BY <2>1 DEF PendingLink
<1> QED
  BY <1>1, <1>3, <1>5, <1>6, <1>7, <1>8, <1>9, <1>10, <1>11, <1>12, UpLog, UpStep

\* A step of the Put that has the lock keeps apart what it did before.
LEMMA LockedDiffer ==
    ASSUME IndInv, NEW p \in Putter, pc[p] # "idle", UNCHANGED <<entry, overlap>>,
           pc'[p] \in {"page", "write"} => pc[p] \in {"page", "write"},
           \A q \in Putter : q # p => pc'[q] = pc[q]
    PROVE  PutsDiffer'
<1> SUFFICES ASSUME NEW q \in Putter, NEW s \in Putter, q # s, pc'[q] # "idle", pc'[s] # "idle"
             PROVE  /\ entry'[q] # entry'[s] /\ overlap'
                    /\ ~(pc'[q] \in {"page", "write"} /\ pc'[s] \in {"page", "write"})
  BY DEF PutsDiffer, Active
<1>1. pc[q] # "idle" /\ pc[s] # "idle"
  OBVIOUS
<1>2. /\ overlap /\ entry[q] # entry[s]
      /\ pc[q] \in {"page", "write"} => pc[s] \notin {"page", "write"}
  BY <1>1, OtherPut
<1>3. ASSUME NEW x \in Putter, pc'[x] \in {"page", "write"} PROVE pc[x] \in {"page", "write"}
  BY <1>3
<1> QED
  BY <1>2, <1>3

\* The new last file, when guaranteePage opens one.
LEMMA GuaranteePageStep ==
    ASSUME IndInv, NEW p \in Putter, GuaranteePage(p)
    PROVE  IndInv'
<1>1. /\ pc[p] = "page" /\ guaranteePage /\ pc' = [pc EXCEPT ![p] = "write"]
      /\ UNCHANGED <<kv, version, status, cursor, entry, written, seq, histVars>>
  BY DEF GuaranteePage
<1>2. TypeOK /\ WalTypeOK /\ status = "up" /\ MaxPages \in Nat /\ MaxPages >= 1
  BY <1>1, ActiveType, WalAssumption DEF IndInv, TypeOK
<1>3. /\ LogShape /\ FilesBounded /\ RecordsContiguous /\ (curFile <=> files # << >>)
      /\ curCollection = Len(files) /\ curSeq = pageOccupied
      /\ curSeq = IF files = << >> THEN 0 ELSE Len(lastFile)
      /\ HistoryLink /\ IssuedLink
  BY <1>2 DEF IndInv, LogLink, OpenLink, WritePointIsLogEnd, Serving, StoreLink
<1>4. \/ /\ Opens /\ (files # << >> => lastFile # << >>)
         /\ curCollection' = Len(files) + 1 /\ curSeq' = 0 /\ pageOccupied' = 0 /\ curFile' = TRUE
      \/ UNCHANGED <<files, diskWal>> /\ curFile /\ pageOccupied < MaxPages
  <2>1. CASE ~curFile /\ OpenNextFile /\ UNCHANGED pageOccupied
    BY <1>3, <2>1 DEF OpenNextFile, Opens
  <2>2. CASE curFile /\ pageOccupied + 1 > MaxPages /\ OpenNextFile /\ pageOccupied' = 0
    <3>1. files # << >> /\ pageOccupied = Len(lastFile) /\ pageOccupied \in Nat
      BY <1>2, <1>3, <2>2 DEF WalTypeOK
    <3>2. lastFile # << >>
      BY <1>2, <2>2, <3>1, LastLen
    <3> QED
      BY <1>3, <2>2, <3>2 DEF OpenNextFile, Opens
  <2>3. CASE curFile /\ pageOccupied + 1 <= MaxPages /\ UNCHANGED <<files, diskWal>>
    BY <1>2, <2>3 DEF WalTypeOK
  <2> QED
    BY <1>1, <2>1, <2>2, <2>3 DEF guaranteePage
<1>5. /\ WalTypeOK' /\ Grows /\ LogLink' /\ HistoryLink' /\ IssuedLink'
      /\ curFile' /\ pageOccupied' < MaxPages
      /\ \A c, i \in Nat : LastAt(c, i)' => LastAt(c, i) /\ files'[c][i] = files[c][i]
  <2>1. CASE /\ Opens /\ (files # << >> => lastFile # << >>)
             /\ curCollection' = Len(files) + 1 /\ curSeq' = 0 /\ pageOccupied' = 0 /\ curFile' = TRUE
    <3>1. /\ files' \in Seq(Seq(Page)) /\ Len(files') = Len(files) + 1 /\ Len(files) \in Nat
          /\ files'[Len(files) + 1] = << >>
          /\ \A c, i : At(c, i)' <=> At(c, i)
          /\ \A c, i : At(c, i) => files'[c][i] = files[c][i]
      BY <1>2, <2>1, OpensAt
    <3>2. WalTypeOK'
      BY <2>1, <3>1 DEF WalTypeOK
    <3>3. LogShape' /\ FilesBounded' /\ RecordsContiguous'
      BY <1>2, <1>3, <2>1, OpensLog
    <3>4. files' # << >> /\ Len(files'[Len(files')]) = 0
      BY <3>1
    <3>5. OpenLink' /\ WritePointIsLogEnd' /\ ReplayNeverRefused'
      BY <1>1, <1>2, <2>1, <3>1, <3>4 DEF OpenLink, WritePointIsLogEnd, ReplayNeverRefused, lastFile
    <3>6. Grows
      BY <1>2, <2>1, OpensGrows
    <3>7. HistoryLink'
      BY <1>1, <1>3, <3>1, SamePagesHistory DEF histVars
    <3>8. IssuedLink'
      BY <1>1, <1>3, <3>1 DEF IssuedLink, histVars
    <3>9. \A c, i \in Nat : LastAt(c, i)' => LastAt(c, i) /\ files'[c][i] = files[c][i]
      BY <1>2, <2>1, OpensLast
    <3>10. LogLink'
      BY <3>3, <3>5 DEF LogLink
    <3>11. curFile' /\ pageOccupied' < MaxPages
      BY <1>2, <2>1
    <3> QED
      BY <3>2, <3>6, <3>7, <3>8, <3>9, <3>10, <3>11
  <2>2. CASE UNCHANGED <<files, diskWal>> /\ curFile /\ pageOccupied < MaxPages
    <3>1. WalTypeOK' /\ Grows
      BY <1>2, <2>2, SameGrows DEF WalTypeOK, diskWal
    <3>2. LogLink'
      BY <1>1, <2>2, UpLog DEF histVars
    <3>3. HistoryLink' /\ IssuedLink'
      BY <1>1, <1>3, <2>2, SameHistory DEF IssuedLink, At, histVars
    <3>4. \A c, i \in Nat : LastAt(c, i)' => LastAt(c, i) /\ files'[c][i] = files[c][i]
      BY <2>2 DEF LastAt, At
    <3> QED
      BY <2>2, <3>1, <3>2, <3>3, <3>4 DEF diskWal
  <2> QED
    BY <1>4, <2>1, <2>2
<1>6. pc'[p] = "write" /\ \A q \in Putter : q # p => pc'[q] = pc[q]
  BY <1>1, <1>2 DEF TypeOK
<1>7. TypeOK'
  BY <1>1, <1>2, <1>5 DEF TypeOK, histVars
<1>8. ASSUME NEW q \in Putter PROVE PutLink(q)'
  <2>1. CASE q = p
    <3>1. PutLink(p)
      BY DEF IndInv
    <3>2. \A e : InLog(e) => InLog(e)'
      BY <1>2, <1>5, GrowsKeeps
    <3> QED
      BY <1>1, <1>5, <1>6, <2>1, <3>1, <3>2 DEF PutLink, Active, Done, histVars
  <2>2. CASE q # p
    <3>1. pc[q] \notin {"page", "write"}
      BY <1>1, <2>2, OtherPut
    <3> QED
      BY <1>1, <1>5, <1>6, <2>2, <3>1, OtherLink DEF histVars
  <2> QED
    BY <2>1, <2>2
<1>9. PutsDiffer'
  BY <1>1, <1>6, LockedDiffer DEF histVars
<1>10. VersionLink'
  BY <1>1, <1>2, <1>5, GrowsKeeps, SameUntouched DEF IndInv, VersionLink, histVars
<1>11. SettledLink'
  <2>1. Settled' = Settled
    BY <1>1, <1>6 DEF Settled, histVars
  <2> QED
    BY <1>1, <1>2, <2>1, UpKeepsSettled DEF histVars
<1>12. ASSUME NEW q \in Putter PROVE PendingLink(q)'
  <2>1. pc'[q] = "kv" => overlap'
    BY <1>1, <1>6, OtherPut DEF histVars
  <2> QED
    BY <2>1 DEF PendingLink
<1> QED
  BY <1>1, <1>2, <1>5, <1>7, <1>8, <1>9, <1>10, <1>11, <1>12, UpStep

\* The type of a page: the first one of a long entry is Start, the last one End.
LEMMA PageTypes ==
    ASSUME NEW n \in Nat, NEW i \in Nat, i >= 1, i <= n
    PROVE  /\ PageType(i, n) \in {"Whole", "Start", "Middle", "End"}
           /\ i < n => PageType(i, n) \in {"Start", "Middle"}
           /\ PageType(i, n) \in {"Middle", "End"} => i > 1
BY DEF PageType

\* A log that holds a page ends after every stored position.
LEMMA StoredNotNewer ==
    ASSUME IndInv, VersionKeyUntouched, version # Torn, NEW c, NEW i, At(c, i)
    PROVE  from = LogEnd \/ NewerThan(LogEnd, from)
<1>1. WalTypeOK /\ TypeOK
  BY DEF IndInv, TypeOK
<1>2. from \in SequenceId /\ (from = StartWalSequence \/ Position(from))
  <2>1. version \in SequenceId \/ version = NoVersion
    BY <1>1 DEF TypeOK
  <2> QED
    BY <1>1, <2>1, FromType DEF IndInv, VersionLink, from
<1>3. /\ c \in Nat /\ i \in Nat /\ c >= 1 /\ i >= 1 /\ c <= Len(files) /\ files # << >>
      /\ c = Len(files) => i <= Len(lastFile)
  BY <1>1, AtNat
<1>4. Len(files) > 1 \/ lastFile # << >>
  <2>1. Len(files) \in Nat /\ Len(lastFile) \in Nat /\ (lastFile = << >> => Len(lastFile) = 0)
    BY <1>1, <1>3, LastLen
  <2> QED
    BY <1>3, <2>1
<1> QED
  BY <1>1, <1>2, <1>3, <1>4, PositionNotNewer

\* A page of the Put that has the lock: it continues the record that is at the
\* end of the log.
LEMMA WriteDataPageStep ==
    ASSUME IndInv, NEW p \in Putter, WriteDataPage(p)
    PROVE  IndInv'
<1> DEFINE n == PagesOf[entry[p]]
           i == written[p] + 1
           pg == [entry |-> entry[p], type |-> PageType(i, n)]
           c == Len(files)
           m == Len(lastFile) + 1
<1>1. /\ pc[p] = "write" /\ writeDataPage(entry[p], PageType(i, n))
      /\ written' = [written EXCEPT ![p] = i]
      /\ \/ /\ i = n /\ pc' = [pc EXCEPT ![p] = "kv"]
            /\ seq' = [seq EXCEPT ![p] = curPosition']
         \/ i # n /\ pc' = [pc EXCEPT ![p] = "page"] /\ UNCHANGED seq
      /\ UNCHANGED <<kv, version, status, cursor, entry, histVars>>
  BY DEF WriteDataPage
<1>2. /\ TypeOK /\ WalTypeOK /\ status = "up" /\ entry[p] \in Entry
      /\ entry[p] \in issued /\ entry[p] \notin Done /\ n \in Nat /\ n >= 1
  BY <1>1, ActiveType DEF IndInv, TypeOK
<1>3. /\ written[p] \in Nat /\ written[p] < n /\ pageOccupied < MaxPages /\ curFile
      /\ written[p] > 0 => InLog(entry[p])
      /\ written[p] > 0 => \A d, j \in Nat : LastAt(d, j) =>
             files[d][j] = [entry |-> entry[p], type |-> PageType(written[p], n)]
  BY <1>1, <1>2 DEF IndInv, PutLink, TypeOK
<1>4. i \in Nat /\ i >= 1 /\ i <= n
  BY <1>2, <1>3
<1>5. /\ LogShape /\ FilesBounded /\ RecordsContiguous /\ HistoryLink /\ IssuedLink
      /\ curCollection = Len(files) /\ curSeq = pageOccupied
      /\ files # << >> /\ curSeq = Len(lastFile)
  BY <1>2, <1>3 DEF IndInv, LogLink, OpenLink, WritePointIsLogEnd, Serving, StoreLink
<1>6. PageType(i, n) \in {"Whole", "Start", "Middle", "End"}
  BY <1>2, <1>4, PageTypes
<1>7. pg \in Page /\ pg.entry = entry[p] /\ pg.type = PageType(i, n) /\ pg.type # "BrokenEnd"
  BY <1>2, <1>6 DEF Page, EntryType
<1>8. Appends(pg)
  BY <1>1, <1>5 DEF Appends, writeDataPage
<1>9. /\ curSeq' = curSeq + 1 /\ pageOccupied' = pageOccupied + 1
      /\ curCollection' = curCollection /\ curFile' = curFile
  BY <1>1 DEF writeDataPage
<1> HIDE DEF pg, i, n
<1>10. /\ files' \in Seq(Seq(Page)) /\ Len(files') = c /\ Len(files'[c]) = m
       /\ c \in DOMAIN files' /\ c \in Nat /\ c >= 1 /\ Len(lastFile) \in Nat
  BY <1>2, <1>5, <1>7, <1>8, AppendsFiles, LastLen
<1>11. WalTypeOK'
  BY <1>2, <1>9, <1>10 DEF WalTypeOK
<1>12. Grows /\ NewerThan(LogEnd', LogEnd)
  BY <1>2, <1>7, <1>8, AppendsGrows
<1>13. files' # << >> /\ files'[Len(files')] # << >>
  BY <1>10
<1>14. LogLink'
  <2>1. LogShape'
    BY <1>2, <1>5, <1>7, <1>8, AppendsShape
  <2>2. FilesBounded'
    BY <1>2, <1>3, <1>5, <1>7, <1>8, AppendsBounded
  <2>3. ASSUME pg.type \in {"Middle", "End", "BrokenEnd"}
        PROVE  \E d, j \in Nat :
                  /\ LastAt(d, j) /\ files[d][j].type \in {"Start", "Middle"}
                  /\ pg.type # "BrokenEnd" => files[d][j].entry = pg.entry
    <3>1. i > 1
      BY <1>2, <1>4, <1>7, <2>3, PageTypes
    <3>2. written[p] >= 1 /\ written[p] <= n /\ written[p] > 0
      BY <1>2, <1>3, <3>1 DEF i
    <3>3. PageType(written[p], n) \in {"Start", "Middle"}
      BY <1>2, <1>3, <3>2, PageTypes
    <3>4. PICK x \in Nat, y \in Nat : At(x, y)
      BY <1>3, <3>2 DEF InLog
    <3>5. PICK d \in Nat, j \in Nat : LastAt(d, j)
      BY <1>2, <1>5, <3>4, LastExists
    <3>6. files[d][j] = [entry |-> entry[p], type |-> PageType(written[p], n)]
      BY <1>3, <3>2, <3>5
    <3>7. files[d][j].type \in {"Start", "Middle"} /\ files[d][j].entry = entry[p]
      BY <3>3, <3>6
    <3> QED
      BY <1>7, <3>5, <3>7
  <2>4. RecordsContiguous'
    BY <1>2, <1>5, <1>7, <1>8, <2>3, AppendsContiguous
  <2>5. OpenLink' /\ WritePointIsLogEnd' /\ ReplayNeverRefused'
    BY <1>1, <1>2, <1>3, <1>5, <1>9, <1>10, <1>13
       DEF OpenLink, WritePointIsLogEnd, ReplayNeverRefused, lastFile
  <2> QED
    BY <2>1, <2>2, <2>4, <2>5 DEF LogLink
<1>15. pc'[p] \in {"kv", "page"} /\ \A q \in Putter : q # p =>
           pc'[q] = pc[q] /\ seq'[q] = seq[q] /\ written'[q] = written[q]
  BY <1>1, <1>2 DEF TypeOK
<1>16. curPosition' = [Collection |-> c, Seq |-> m] /\ curPosition' \in SequenceId
  BY <1>5, <1>9, <1>10 DEF curPosition, SequenceId
<1>17. TypeOK'
  <2>1. /\ pc' \in [Putter -> {"idle", "page", "write", "kv", "version"}]
        /\ written' \in [Putter -> Nat]
    BY <1>1, <1>2, <1>4 DEF TypeOK
  <2>2. seq' \in [Putter -> SequenceId]
    BY <1>1, <1>2, <1>16 DEF TypeOK
  <2> QED
    BY <1>1, <1>2, <1>11, <2>1, <2>2 DEF TypeOK, histVars
<1>18. /\ \A d, j \in Nat : LastAt(d, j)' => files'[d][j] = pg
       /\ InLog(entry[p])'
  <2>1. \A d, j \in Nat : LastAt(d, j)' => files'[d][j] = pg
    BY <1>2, <1>7, <1>8, AppendsLast
  <2>2. files'[c][m] = pg /\ \A x, y : x = c /\ y = m => At(x, y)'
    BY <1>2, <1>7, <1>8, AppendsAt
  <2>3. \E x, y \in Nat : At(x, y)' /\ files'[x][y].entry = entry[p]
    BY <1>7, <1>10, <2>2
  <2> QED
    BY <1>1, <2>1, <2>3 DEF InLog
<1>19. ASSUME NEW q \in Putter PROVE PutLink(q)'
  <2>1. CASE q = p /\ i = n
    <3>1. pc'[p] = "kv" /\ seq'[p] = [Collection |-> c, Seq |-> m]
      BY <1>1, <1>2, <1>16, <2>1 DEF TypeOK
    <3>2. Position(seq[p])'
      BY <1>10, <3>1 DEF Position
    <3> QED
      BY <1>1, <1>2, <1>18, <2>1, <3>1, <3>2 DEF PutLink, Active, Done, histVars
  <2>2. CASE q = p /\ i # n
    <3>1. pc'[p] = "page" /\ written'[p] = i /\ i < n
      BY <1>1, <1>2, <1>4, <2>2 DEF TypeOK
    <3> QED
      BY <1>1, <1>2, <1>18, <2>2, <3>1 DEF PutLink, Active, Done, histVars, pg, n
  <2>3. CASE q # p
    <3>1. pc[q] \notin {"page", "write"}
      BY <1>1, <2>3, OtherPut
    <3> QED
      BY <1>1, <1>11, <1>12, <1>15, <2>3, <3>1, OtherLink DEF histVars
  <2> QED
    BY <2>1, <2>2, <2>3
<1>20. PutsDiffer'
  BY <1>1, <1>15, LockedDiffer DEF histVars
<1>21. VersionLink'
  BY <1>1, <1>2, <1>11, <1>12, GrowsKeeps, SameUntouched DEF IndInv, VersionLink, histVars
<1>22. HistoryLink' /\ IssuedLink'
  <2>1. HistoryLink'
    BY <1>1, <1>2, <1>5, <1>7, <1>8, AppendsHistory DEF histVars
  <2>2. ASSUME NEW x, NEW y, At(x, y)' PROVE files'[x][y].entry \in issued' \cup {NoEntry}
    BY <1>1, <1>2, <1>5, <1>7, <1>8, <2>2, AppendsAt DEF IssuedLink, histVars
  <2> QED
    BY <2>1, <2>2 DEF IssuedLink
<1>23. SettledLink'
  <2>1. Settled' = Settled
    BY <1>1, <1>15 DEF Settled, histVars
  <2> QED
    BY <1>1, <1>2, <2>1, UpKeepsSettled DEF histVars
<1>24. ASSUME NEW q \in Putter PROVE PendingLink(q)'
  <2>1. CASE q = p
    <3> SUFFICES ASSUME VersionKeyUntouched, acked # {} PROVE NewerThan(LogEnd', from')
      BY <1>1, <1>7, <1>13, <1>18, <2>1, SameUntouched DEF PendingLink, lastFile, histVars
    <3>1. PICK e \in acked : TRUE
      OBVIOUS
    <3>2. InLog(e)
      BY <3>1, SettledType DEF Settled
    <3>3. version # Torn
      BY <1>2 DEF IndInv, VersionLink
    <3>4. PICK x \in Nat, y \in Nat : At(x, y)
      BY <3>2 DEF InLog
    <3>5. from = LogEnd \/ NewerThan(LogEnd, from)
      BY <3>3, <3>4, StoredNotNewer
    <3>6. from \in SequenceId /\ from' = from
      BY <1>1, <1>2, <3>3, FromType DEF from
    <3> QED
      BY <1>2, <1>11, <1>12, <3>5, <3>6, GrowsKeeps
  <2>2. CASE q # p
    BY <1>1, <1>15, <2>2, OtherPut DEF PendingLink, histVars
  <2> QED
    BY <2>1, <2>2
<1> QED
  BY <1>1, <1>2, <1>14, <1>17, <1>19, <1>20, <1>21, <1>22, <1>23, <1>24, UpStep

LEMMA KvPutStep ==
    ASSUME IndInv, NEW p \in Putter, KvPut(p)
    PROVE  IndInv'
<1> DEFINE g == entry[p]
<1>1. /\ pc[p] = "kv" /\ KeyOf[g] \in AcceptedKey /\ Store(g)
      /\ pc' = [pc EXCEPT ![p] = "version"]
      /\ UNCHANGED <<files, diskWal, status, cursor, entry, written, seq, histVars>>
  BY DEF KvPut
<1>2. /\ TypeOK /\ WalTypeOK /\ status = "up" /\ g \in Entry /\ g \in issued /\ g \notin Done
      /\ g # NoEntry /\ g # Torn
  BY <1>1, ActiveType, WalAssumption, StoreAssumption DEF IndInv, TypeOK
<1>3. /\ pc'[p] = "version" /\ \A q \in Putter : q # p => pc'[q] = pc[q]
      /\ VersionKeyUntouched' <=> VersionKeyUntouched
  BY <1>1, <1>2, SameUntouched DEF TypeOK, histVars
<1>4. TypeOK'
  <2>1. WalTypeOK'
    BY <1>1, <1>2 DEF WalTypeOK, diskWal
  <2>2. /\ kv' \in [ValidKey -> Entry \cup {NoEntry, Torn}]
        /\ version' \in SequenceId \cup {NoVersion, Torn}
    BY <1>1, <1>2, StoreType
  <2> QED
    BY <1>1, <1>2, <2>1, <2>2 DEF TypeOK, histVars
<1>5. ASSUME NEW q \in Putter PROVE PutLink(q)'
  <2>1. CASE q = p
    <3>1. PutLink(p)
      BY DEF IndInv
    <3> QED
      BY <1>1, <1>3, <2>1, <3>1 DEF PutLink, Active, Done, Position, InLog, At, histVars
  <2>2. CASE q # p
    <3>1. pc[q] = "idle" \/ entry[q] \notin Done'
      BY <1>1, ActiveType DEF Done, histVars
    <3> QED
      BY <1>1, <1>3, <2>2, <3>1, SameLink DEF histVars
  <2> QED
    BY <2>1, <2>2
<1>6. PutsDiffer'
  BY <1>1, <1>3, LockedDiffer DEF histVars
<1>7. ASSUME VersionKeyUntouched
      PROVE  KeyOf[g] \in ValidKey /\ kv' = [kv EXCEPT ![KeyOf[g]] = g] /\ UNCHANGED version
  BY <1>1, <1>2, <1>7, PlainKey, PlainFile DEF Store
<1>8. VersionLink' /\ HistoryLink' /\ IssuedLink'
  <2>1. VersionLink'
    BY <1>1, <1>2, <1>3, <1>7, QuietVersion DEF VersionLink
  <2>2. HistoryLink' /\ IssuedLink'
    BY <1>1, SameHistory DEF IndInv, StoreLink, IssuedLink, At, histVars
  <2> QED
    BY <2>1, <2>2
<1>9. SettledLink'
  <2>1. Settled' \subseteq Settled \cup {g}
    BY <1>1, <1>3 DEF Settled, histVars
  <2>2. ASSUME VersionKeyUntouched, NEW e \in Settled \cup {g} PROVE ~Bad(e)'
    <3>1. e \in Entry /\ KeyOf[e] \in ValidKey /\ before[e] \subseteq Done
      BY <1>2, <1>7, <2>2, SettledType DEF IndInv, StoreLink, HistoryLink
    <3>2. CASE KeyOf[e] = KeyOf[g]
      <4>1. kv'[KeyOf[e]] = g
        BY <1>2, <1>7, <2>2, <3>1, <3>2 DEF TypeOK
      <4> QED
        BY <1>1, <1>2, <3>1, <4>1 DEF Bad, histVars
    <3>3. CASE KeyOf[e] # KeyOf[g]
      <4>1. kv'[KeyOf[e]] = kv[KeyOf[e]] /\ e \in Settled
        BY <1>2, <1>7, <2>2, <3>1, <3>3 DEF TypeOK
      <4>2. ~Bad(e)
        BY <1>2, <2>2, <4>1, UpSettled
      <4> QED
        BY <1>1, <4>1, <4>2 DEF Bad, FailedSince, histVars
    <3> QED
      BY <3>2, <3>3
  <2> QED
    BY <1>3, <2>1, <2>2 DEF SettledLink
<1>10. ASSUME NEW q \in Putter PROVE PendingLink(q)'
  <2>1. CASE q = p
    BY <1>3, <2>1 DEF PendingLink
  <2>2. CASE q # p
    BY <1>1, <1>3, <1>7, <2>2, SamePending DEF histVars
  <2> QED
    BY <2>1, <2>2
<1>11. LogLink'
  BY <1>1, UpLog DEF histVars
<1> QED
  BY <1>1, <1>2, <1>4, <1>5, <1>6, <1>8, <1>9, <1>10, <1>11, UpStep

\* A Put that returns, with an error or without: the log is what it was, and
\* its entry is done, or remains one that was never written to the key-value
\* files.
LEMMA PutEnds ==
    ASSUME IndInv, NEW p \in Putter, pc[p] # "idle", pc' = [pc EXCEPT ![p] = "idle"],
           UNCHANGED <<files, diskWal, status, cursor, entry, written, seq, issued, before, overlap>>,
           acked \subseteq acked', acked' \subseteq acked \cup {entry[p]},
           failed \subseteq failed', failed' \subseteq failed \cup {entry[p]},
           entry[p] \in Done' => InLog(entry[p]) /\ KeyOf[entry[p]] \in AcceptedKey,
           kv' \in [ValidKey -> Entry \cup {NoEntry, Torn}],
           version' \in SequenceId \cup {NoVersion, Torn}
    PROVE  /\ TypeOK' /\ LogLink' /\ (\A q \in Putter : PutLink(q)') /\ PutsDiffer'
           /\ HistoryLink' /\ IssuedLink'
           /\ pc'[p] = "idle" /\ \A q \in Putter : q # p => pc'[q] = pc[q]
<1> DEFINE g == entry[p]
<1>1. /\ TypeOK /\ WalTypeOK /\ status = "up" /\ g \in Entry /\ g \in issued
  BY ActiveType DEF IndInv, TypeOK
<1>2. pc'[p] = "idle" /\ \A q \in Putter : q # p => pc'[q] = pc[q]
  BY <1>1 DEF TypeOK
<1>3. Done \subseteq Done' /\ Done' \subseteq Done \cup {g}
  BY DEF Done
<1>4. TypeOK'
  <2>1. WalTypeOK'
    BY <1>1 DEF WalTypeOK, diskWal
  <2>2. acked' \subseteq issued' /\ failed' \subseteq issued'
    BY <1>1 DEF TypeOK
  <2> QED
    BY <1>1, <2>1, <2>2 DEF TypeOK
<1>5. ASSUME NEW q \in Putter PROVE PutLink(q)'
  <2>1. CASE q = p
    BY <1>2, <2>1 DEF PutLink, Active
  <2>2. CASE q # p
    <3>1. pc[q] = "idle" \/ entry[q] \notin Done'
      BY <1>3, <2>2, ActiveType, OtherPut
    <3> QED
      BY <1>2, <2>2, <3>1, SameLink
  <2> QED
    BY <2>1, <2>2
<1>6. PutsDiffer'
  BY <1>2, LockedDiffer
<1>7. IssuedLink' /\ LogLink'
  BY UpLog DEF IndInv, StoreLink, IssuedLink, At
<1>8. HistoryLink'
  <2>1. HistoryLink
    BY DEF IndInv, StoreLink
  <2>2. \A x : InLog(x)' <=> InLog(x)
    BY DEF InLog, At
  <2>3. ASSUME NEW x \in Entry
        PROVE  /\ before'[x] \subseteq Done' /\ x \notin before'[x]
               /\ x \in Done' => InLog(x)' /\ KeyOf[x] \in AcceptedKey
    BY <1>3, <2>1, <2>2 DEF HistoryLink
  <2>4. ASSUME NEW x \in Entry, NEW f \in before'[x],
               NEW c \in Nat, NEW i \in Nat, NEW d \in Nat, NEW j \in Nat,
               At(c, i)', files'[c][i].entry = f, At(d, j)', files'[d][j].entry = x
        PROVE  ~NotBefore(c, i, d, j)
    <3>1. At(c, i) /\ At(d, j)
      BY <2>4 DEF At
    <3> QED
      BY <2>1, <2>4, <3>1 DEF HistoryLink
  <2> QED
    BY <2>3, <2>4 DEF HistoryLink, NotBefore
<1> QED
  BY <1>2, <1>4, <1>5, <1>6, <1>7, <1>8

\* When a Put ends, no other one is pending alone.
LEMMA NonePending ==
    ASSUME IndInv, NEW p \in Putter, pc[p] # "idle", pc'[p] = "idle", UNCHANGED overlap,
           \A q \in Putter : q # p => pc'[q] = pc[q], NEW q \in Putter
    PROVE  PendingLink(q)'
<1>1. pc'[q] = "kv" => overlap'
  BY OtherPut
<1> QED
  BY <1>1 DEF PendingLink

\* The position is stored, and the Put is acknowledged; or it fails to store it.
LEMMA WriteVersionStep ==
    ASSUME IndInv, NEW p \in Putter, WriteVersion(p) \/ WriteVersionFails(p)
    PROVE  IndInv'
<1> DEFINE g == entry[p]
<1>1. /\ pc[p] = "version" /\ pc[p] # "idle" /\ version' \in {version, NoVersion, seq[p]}
      /\ pc' = [pc EXCEPT ![p] = "idle"]
      /\ acked' \in {acked, acked \cup {g}} /\ failed' = failed
      /\ UNCHANGED <<files, diskWal, kv, status, cursor, entry, written, seq, issued, before, overlap>>
  BY DEF WriteVersion, WriteVersionFails, StoreVersionFails, histVars
<1>2. /\ TypeOK /\ WalTypeOK /\ status = "up" /\ g \in Entry
      /\ seq[p] \in SequenceId
  BY <1>1, ActiveType DEF IndInv, TypeOK
<1>3. Position(seq[p]) /\ InLog(g) /\ KeyOf[g] \in AcceptedKey
  BY <1>1 DEF IndInv, PutLink
<1>4. /\ kv' \in [ValidKey -> Entry \cup {NoEntry, Torn}]
      /\ version' \in SequenceId \cup {NoVersion, Torn}
  BY <1>1, <1>2 DEF TypeOK
<1>5. /\ TypeOK' /\ LogLink' /\ (\A q \in Putter : PutLink(q)') /\ PutsDiffer'
      /\ HistoryLink' /\ IssuedLink'
      /\ pc'[p] = "idle" /\ \A q \in Putter : q # p => pc'[q] = pc[q]
  BY <1>1, <1>3, <1>4, PutEnds
<1>6. VersionLink'
  <2>1. VersionKeyUntouched' <=> VersionKeyUntouched
    BY <1>1, SameUntouched
  <2>2. Position(seq[p])'
    BY <1>1, <1>3 DEF Position
  <2>3. NoVersion \notin SequenceId /\ NoVersion # Torn /\ Torn \notin SequenceId
    BY StoreAssumption
  <2>4. CASE version' = version
    BY <1>1, <1>2, <2>1, <2>4 DEF IndInv, VersionLink, Position
  <2>5. CASE version' = NoVersion
    BY <2>3, <2>5 DEF VersionLink
  <2>6. CASE version' = seq[p]
    <3>1. Position(version)'
      BY <1>1, <1>3, <2>6 DEF Position
    <3> QED
      BY <1>2, <2>3, <2>6, <3>1 DEF VersionLink
  <2> QED
    BY <1>1, <2>4, <2>5, <2>6
<1>7. SettledLink'
  <2>1. Settled' \subseteq Settled
    BY <1>1, <1>5 DEF Settled
  <2> QED
    BY <1>1, <1>2, <2>1, UpKeepsSettled
<1>8. ASSUME NEW q \in Putter PROVE PendingLink(q)'
  BY <1>1, <1>5, NonePending
<1> QED
  BY <1>1, <1>2, <1>5, <1>6, <1>7, <1>8, UpStep

LEMMA WriteEntryFailsStep ==
    ASSUME IndInv, NEW p \in Putter, WriteEntryFails(p)
    PROVE  IndInv'
<1>1. /\ pc[p] = "write" /\ pc[p] # "idle" /\ pc' = [pc EXCEPT ![p] = "idle"]
      /\ UNCHANGED <<files, diskWal, kv, version, status, cursor, entry, written, seq, issued,
                     acked, failed, before, overlap>>
  BY DEF WriteEntryFails, histVars
<1>2. TypeOK /\ status = "up" /\ entry[p] \notin Done
  BY <1>1, ActiveType DEF IndInv
<1>3. /\ TypeOK' /\ LogLink' /\ (\A q \in Putter : PutLink(q)') /\ PutsDiffer'
      /\ HistoryLink' /\ IssuedLink'
      /\ pc'[p] = "idle" /\ \A q \in Putter : q # p => pc'[q] = pc[q]
  <2>1. entry[p] \notin Done'
    BY <1>1, <1>2 DEF Done
  <2>2. /\ kv' \in [ValidKey -> Entry \cup {NoEntry, Torn}]
        /\ version' \in SequenceId \cup {NoVersion, Torn}
    BY <1>1, <1>2 DEF TypeOK
  <2> QED
    BY <1>1, <2>1, <2>2, PutEnds
<1>4. VersionLink'
  BY <1>1, <1>2, QuietVersion DEF histVars
<1>5. SettledLink'
  <2>1. Settled' \subseteq Settled
    BY <1>1, <1>3 DEF Settled
  <2> QED
    BY <1>1, <1>2, <2>1, UpKeepsSettled
<1>6. ASSUME NEW q \in Putter PROVE PendingLink(q)'
  BY <1>1, <1>3, NonePending
<1> QED
  BY <1>1, <1>2, <1>3, <1>4, <1>5, <1>6, UpStep

\* The value that kv.Put failed to write may be gone; the Put that failed is on
\* record.
LEMMA KvPutFailsStep ==
    ASSUME IndInv, NEW p \in Putter, KvPutFails(p)
    PROVE  IndInv'
<1> DEFINE g == entry[p]
<1>1. /\ pc[p] = "kv" /\ pc[p] # "idle" /\ pc' = [pc EXCEPT ![p] = "idle"]
      /\ UNCHANGED <<files, diskWal, status, cursor, entry, written, seq, issued, acked, before, overlap>>
      /\ \/ KeyOf[g] \notin AcceptedKey /\ UNCHANGED <<kv, version, failed>>
         \/ KeyOf[g] \in AcceptedKey /\ StoreFails(g) /\ failed' = failed \cup {g}
  BY DEF KvPutFails
<1>2. /\ TypeOK /\ status = "up" /\ g \in Entry /\ g \in issued /\ g \notin Done /\ InLog(g)
      /\ g # NoEntry /\ g # Torn /\ NoEntry # Torn
  BY <1>1, ActiveType, WalAssumption, StoreAssumption DEF IndInv, PutLink
<1>3. failed \subseteq failed' /\ failed' \subseteq failed \cup {g}
  BY <1>1
<1>4. /\ TypeOK' /\ LogLink' /\ (\A q \in Putter : PutLink(q)') /\ PutsDiffer'
      /\ HistoryLink' /\ IssuedLink'
      /\ pc'[p] = "idle" /\ \A q \in Putter : q # p => pc'[q] = pc[q]
  <2>1. g \in Done' => InLog(g) /\ KeyOf[g] \in AcceptedKey
    BY <1>1, <1>2 DEF Done
  <2>2. /\ kv' \in [ValidKey -> Entry \cup {NoEntry, Torn}]
        /\ version' \in SequenceId \cup {NoVersion, Torn}
    <3>1. CASE UNCHANGED <<kv, version, failed>>
      BY <1>2, <3>1 DEF TypeOK
    <3>2. CASE StoreFails(g)
      BY <1>2, <3>2, StoreType
    <3> QED
      BY <1>1, <3>1, <3>2
  <2> QED
    BY <1>1, <1>3, <2>1, <2>2, PutEnds
<1>5. VersionKeyUntouched' <=> VersionKeyUntouched
  BY <1>1, SameUntouched
<1>6. ASSUME VersionKeyUntouched
      PROVE  /\ UNCHANGED version
             /\ \/ UNCHANGED kv
                \/ /\ KeyOf[g] \in ValidKey /\ g \in failed'
                   /\ \E v \in {g, NoEntry} : kv' = [kv EXCEPT ![KeyOf[g]] = v]
  <2>1. CASE UNCHANGED <<kv, version, failed>>
    BY <2>1
  <2>2. CASE KeyOf[g] \in AcceptedKey /\ StoreFails(g) /\ failed' = failed \cup {g}
    <3>1. KeyOf[g] \in ValidKey /\ KeyOf[g] # VersionKey
      BY <1>2, <1>6, <2>2, PlainKey
    <3> QED
      BY <1>2, <2>2, <3>1, StoreFailsCases, PlainFile
  <2> QED
    BY <1>1, <2>1, <2>2
<1>7. VersionLink'
  BY <1>1, <1>2, <1>5, <1>6 DEF IndInv, VersionLink, Position
<1>8. SettledLink'
  <2>1. Settled' \subseteq Settled
    BY <1>1, <1>4 DEF Settled
  <2>2. ASSUME VersionKeyUntouched, NEW e \in Settled PROVE ~Bad(e)'
    <3>1. /\ e \in Entry /\ KeyOf[e] \in ValidKey /\ before[e] \subseteq Done
          /\ NoEntry \notin before[e] /\ ~Bad(e)
      BY <1>2, <2>2, SettledType, UpSettled
    <3>2. FailedSince(e) => FailedSince(e)'
      BY <1>1, <1>3 DEF FailedSince
    <3>3. CASE kv'[KeyOf[e]] = kv[KeyOf[e]]
      BY <1>1, <3>1, <3>2, <3>3 DEF Bad
    <3>4. ASSUME KeyOf[e] = KeyOf[g], g \in failed', NEW v \in {g, NoEntry}, kv'[KeyOf[e]] = v
          PROVE  ~Bad(e)'
      <4>1. FailedSince(e)'
        BY <1>1, <1>2, <3>1, <3>4 DEF FailedSince
      <4> QED
        BY <1>1, <1>2, <3>1, <3>4, <4>1 DEF Bad
    <3>5. CASE /\ KeyOf[g] \in ValidKey /\ g \in failed'
               /\ \E v \in {g, NoEntry} : kv' = [kv EXCEPT ![KeyOf[g]] = v]
      <4>1. PICK v \in {g, NoEntry} : kv' = [kv EXCEPT ![KeyOf[g]] = v]
        BY <3>5
      <4>2. CASE KeyOf[e] = KeyOf[g]
        BY <1>2, <3>1, <3>4, <3>5, <4>1, <4>2 DEF TypeOK
      <4>3. CASE KeyOf[e] # KeyOf[g]
        BY <1>2, <3>1, <3>3, <4>1, <4>3 DEF TypeOK
      <4> QED
        BY <4>2, <4>3
    <3> QED
      BY <1>6, <2>2, <3>3, <3>5
  <2> QED
    BY <1>5, <2>1, <2>2 DEF SettledLink
<1>9. ASSUME NEW q \in Putter PROVE PendingLink(q)'
  BY <1>1, <1>4, NonePending
<1> QED
  BY <1>1, <1>2, <1>4, <1>7, <1>8, <1>9, UpStep

-----------------------------------------------------------------------------
(***************************************************************************)
(* The process is killed                                                   *)
(***************************************************************************)

\* A value that is torn when the process is killed will be replayed, if it is
\* that of a key with an acknowledged entry and Puts do not overlap.
LEMMA TornRestorable ==
    ASSUME IndInv, VersionKeyUntouched, NEW e \in acked, NEW g \in BeingStored,
           KeyOf[e] = KeyOf[g], ~overlap,
           UNCHANGED <<files, version, before>>, status' = "down"
    PROVE  Restorable(e)'
<1>1. /\ TypeOK /\ WalTypeOK /\ LogShape /\ e \in Settled /\ g \in Entry
  BY DEF IndInv, TypeOK, LogLink, Settled, BeingStored
<1>2. /\ e \in Entry /\ InLog(e) /\ before[e] \subseteq Done /\ e \notin before[e]
  BY <1>1, SettledType
<1>3. ASSUME NEW p \in Putter, pc[p] = "kv", entry[p] = g PROVE Restorable(e)'
  <2>1. status = "up" /\ g \notin before[e]
    BY <1>2, <1>3, ActiveType
  <2>2. /\ NewerThan(LogEnd, from) /\ lastFile # << >>
        /\ \A c, i \in Nat : LastAt(c, i) => files[c][i].entry = g
    BY <1>3 DEF IndInv, StoreLink, PendingLink
  <2>3. version # Torn
    BY <2>1 DEF IndInv, VersionLink
  <2>4. PICK x \in Nat, y \in Nat : At(x, y)
    BY <1>2 DEF InLog
  <2>5. PICK c \in Nat, i \in Nat : LastAt(c, i)
    BY <1>1, <2>4, LastExists
  <2>6. At(c, i) /\ c = Len(files) /\ files[c][i].entry = g /\ files # << >>
    BY <1>1, <2>2, <2>5, LastPage
  <2>7. c >= from.Collection
    <3>1. from \in SequenceId /\ LogEnd.Collection = Len(files)
      BY <1>1, <2>3, FromType DEF LogEnd
    <3> QED
      BY <2>2, <2>6, <3>1 DEF NewerThan, SequenceId
  <2> QED
    BY <1>1, <2>1, <2>2, <2>3, <2>6, <2>7, StillRestorable
<1>4. ASSUME status = "replay", At(cursor.file, cursor.page),
             files[cursor.file][cursor.page].entry = g
      PROVE  Restorable(e)'
  <2>1. /\ version # Torn /\ NewerThan(LogEnd, from) /\ cursor.file >= from.Collection
        /\ cursor.file \in Nat /\ cursor.page \in Nat /\ from \in SequenceId
    BY <1>1, <1>4, FromType DEF IndInv, VersionLink, ReplayLink, TypeOK
  <2>2. CASE g \in before[e]
    <3>1. PICK x \in Nat, y \in Nat :
              /\ At(x, y) /\ files[x][y].entry = e
              /\ x > cursor.file \/ (x = cursor.file /\ y > cursor.page)
      BY <1>4, <2>1, <2>2, LaterPage
    <3>2. x >= from.Collection
      BY <2>1, <3>1 DEF SequenceId
    <3> QED
      BY <1>2, <2>1, <3>1, <3>2, StillRestorable
  <2>3. CASE g \notin before[e]
    BY <1>1, <1>4, <2>1, <2>3, StillRestorable
  <2> QED
    BY <2>2, <2>3
<1>5. \/ \E p \in Putter : pc[p] = "kv" /\ entry[p] = g
      \/ /\ status = "replay" /\ At(cursor.file, cursor.page)
         /\ files[cursor.file][cursor.page] = [entry |-> g, type |-> "Whole"]
  BY DEF BeingStored, At
<1> QED
  BY <1>3, <1>4, <1>5

LEMMA CrashRestartStep ==
    ASSUME IndInv, CrashRestart
    PROVE  IndInv'
<1>1. /\ curCollection' = 0 /\ curSeq' = 0 /\ pageOccupied' = 0 /\ curFile' = FALSE
      /\ pc' = [p \in Putter |-> "idle"] /\ entry' = [p \in Putter |-> NoEntry]
      /\ written' = [p \in Putter |-> 0] /\ seq' = [p \in Putter |-> StartWalSequence]
      /\ cursor' = NoCursor /\ status' = "down" /\ UNCHANGED <<files, histVars>>
      /\ Tear
  BY DEF CrashRestart
<1>2. TypeOK /\ WalTypeOK /\ version \in SequenceId \cup {NoVersion, Torn}
  BY DEF IndInv, TypeOK
<1>3. /\ kv' \in [ValidKey -> Entry \cup {NoEntry, Torn}]
      /\ version' \in {version, Torn}
  <2>1. CASE UNCHANGED <<kv, version>> \/ (version' = Torn /\ UNCHANGED kv)
    BY <1>2, <2>1 DEF TypeOK
  <2>2. ASSUME NEW e \in BeingStored, SetFile(e, Torn, Torn)
        PROVE  kv' \in [ValidKey -> Entry \cup {NoEntry, Torn}] /\ version' \in {version, Torn}
    BY <1>2, <2>2, SetFileType DEF BeingStored, SetFile
  <2> QED
    BY <1>1, <2>1, <2>2 DEF Tear
<1>4. TypeOK'
  <2>1. WalTypeOK'
    <3>1. files' \in Seq(Seq(Page)) /\ curFile' \in BOOLEAN
      BY <1>1, <1>2 DEF WalTypeOK
    <3> QED
      BY <1>1, <3>1 DEF WalTypeOK
  <2>2. NoCursor \in [file : Nat, page : Nat] /\ StartWalSequence \in SequenceId
    BY DEF NoCursor, StartWalSequence, SequenceId
  <2> QED
    BY <1>1, <1>2, <1>3, <2>1, <2>2 DEF TypeOK, histVars, Status
<1>5. LogLink'
  BY <1>1 DEF IndInv, LogLink, LogShape, OpenLink, WritePointIsLogEnd, Serving, FilesBounded,
              RecordsContiguous, PageBefore, ReplayNeverRefused
<1>6. \A p \in Putter : pc'[p] = "idle"
  BY <1>1
<1>7. VersionLink' /\ ReplayLink'
  <2>1. VersionKeyUntouched' <=> VersionKeyUntouched
    BY <1>1, SameUntouched DEF histVars
  <2> QED
    BY <1>1, <1>3, <2>1, StoreAssumption DEF IndInv, VersionLink, ReplayLink, Position
<1>8. HistoryLink' /\ IssuedLink'
  BY <1>1, SameHistory DEF IndInv, StoreLink, IssuedLink, At, histVars
<1>9. ASSUME VersionKeyUntouched, NEW g \in BeingStored
      PROVE  KeyOf[g] # VersionKey
  <2>1. ASSUME NEW p \in Putter, pc[p] = "kv", entry[p] = g PROVE g \in issued
    BY <2>1, ActiveType
  <2>2. ASSUME At(cursor.file, cursor.page), files[cursor.file][cursor.page].entry = g
        PROVE  g \in issued
    BY <2>2, WalAssumption DEF IndInv, StoreLink, IssuedLink, BeingStored
  <2>3. g \in issued
    BY <2>1, <2>2 DEF BeingStored, At
  <2> QED
    BY <1>9, <2>3 DEF VersionKeyUntouched
<1>10. ASSUME VersionKeyUntouched, NEW e \in acked PROVE Bad(e)' => Restorable(e)'
  <2>1. /\ e \in Settled /\ KeyOf[e] \in ValidKey /\ Torn \notin before[e]
        /\ Bad(e) => Restorable(e)
    BY <1>10, SettledType DEF Settled, IndInv, StoreLink, SettledLink
  <2>2. Torn # NoEntry
    BY StoreAssumption
  <2>3. ASSUME Restorable(e), version' = version PROVE Restorable(e)'
    <3>1. PICK x \in Nat, y \in Nat :
              /\ At(x, y) /\ files[x][y].entry \in Entry
              /\ KeyOf[files[x][y].entry] = KeyOf[e] /\ files[x][y].entry \notin before[e]
              /\ x >= from.Collection
      BY <2>3, RestorableWitness
    <3>2. version # Torn /\ NewerThan(LogEnd, from)
      BY <2>3, RestorableWitness
    <3> QED
      BY <1>1, <2>3, <3>1, <3>2, StillRestorable DEF histVars
  <2>4. ASSUME kv'[KeyOf[e]] = kv[KeyOf[e]] PROVE Bad(e)' => Bad(e)
    BY <1>1, <2>4 DEF Bad, FailedSince, histVars
  <2>5. CASE UNCHANGED <<kv, version>>
    BY <2>1, <2>3, <2>4, <2>5
  <2>6. ASSUME NEW g \in BeingStored, SetFile(g, Torn, Torn)
        PROVE  Bad(e)' => Restorable(e)'
    <3>1. kv' = [kv EXCEPT ![KeyOf[g]] = Torn] /\ UNCHANGED version
      BY <1>9, <1>10, <2>6, PlainFile
    <3>2. CASE KeyOf[e] = KeyOf[g]
      <4>1. kv'[KeyOf[e]] = Torn
        BY <1>2, <2>1, <3>1, <3>2 DEF TypeOK
      <4>2. Bad(e)' => ~overlap
        BY <1>1, <2>1, <2>2, <4>1 DEF Bad, histVars
      <4>3. ~overlap => Restorable(e)'
        BY <1>1, <1>10, <3>1, <3>2, TornRestorable DEF histVars
      <4> QED
        BY <4>2, <4>3
    <3>3. CASE KeyOf[e] # KeyOf[g]
      <4>1. kv'[KeyOf[e]] = kv[KeyOf[e]]
        BY <1>2, <2>1, <3>1, <3>3 DEF TypeOK
      <4> QED
        BY <2>1, <2>3, <2>4, <3>1, <4>1
    <3> QED
      BY <3>2, <3>3
  <2>7. CASE VersionBeingStored /\ UNCHANGED kv
    <3>1. status \in {"writeVersion", "up"}
      BY <2>7, ActiveType DEF VersionBeingStored
    <3>2. ~Bad(e)
      BY <1>10, <2>1, <3>1, UpSettled
    <3> QED
      BY <2>4, <2>7, <3>2
  <2> QED
    BY <1>1, <2>5, <2>6, <2>7 DEF Tear
<1>11. SettledLink'
  <2>1. Settled' = acked
    BY <1>1, <1>6, NoPuts DEF histVars
  <2> QED
    BY <1>1, <1>10, <2>1, SameUntouched DEF SettledLink, histVars
<1> QED
  BY <1>4, <1>5, <1>6, <1>7, <1>8, <1>11, NoPuts DEF IndInv, StoreLink

LEMMA StutterStep ==
    ASSUME IndInv, UNCHANGED vars
    PROVE  IndInv'
<1>1. UNCHANGED <<files, diskWal, kv, version, status, cursor, putVars, histVars>>
  BY DEF vars
<1>2. TypeOK'
  BY <1>1 DEF IndInv, TypeOK, WalTypeOK, diskWal, putVars, histVars
<1>3. LogLink' /\ (VersionKeyUntouched' <=> VersionKeyUntouched)
  BY <1>1, UpLog, SameUntouched DEF histVars
<1>4. ASSUME NEW p \in Putter PROVE PutLink(p)' /\ PendingLink(p)'
  BY <1>1, <1>3 DEF IndInv, StoreLink, PutLink, PendingLink, Active, Done, Position, InLog,
              LastAt, At, LogEnd, lastFile, from, diskWal, putVars, histVars
<1>5. PutsDiffer' /\ VersionLink' /\ ReplayLink'
  BY <1>1, <1>3 DEF IndInv, PutsDiffer, Active, VersionLink, ReplayLink, Position, LogEnd, lastFile,
              from, putVars, histVars
<1>6. HistoryLink' /\ IssuedLink'
  BY <1>1, SameHistory DEF IndInv, StoreLink, IssuedLink, At, histVars
<1>7. SettledLink'
  BY <1>1, <1>3 DEF IndInv, StoreLink, SettledLink, Settled, Bad, FailedSince, Restorable, At, LogEnd, lastFile,
              from, putVars, histVars
<1> QED
  BY <1>2, <1>3, <1>4, <1>5, <1>6, <1>7 DEF IndInv, StoreLink

LEMMA StepInv == IndInv /\ [Next]_vars => IndInv'
<1> SUFFICES ASSUME IndInv, [Next]_vars PROVE IndInv'
  OBVIOUS
<1>1. CASE WalInitialize
  BY <1>1, WalInitializeStep
<1>2. CASE VersionUnreadable
  BY <1>2, VersionUnreadableStep
<1>3. CASE ReplayIncomplete
  BY <1>3, ReplayIncompleteStep
<1>4. CASE ReplayPage
  BY <1>4, ReplayPageStep
<1>5. CASE ReplayFileEnd
  BY <1>5, ReplayFileEndStep
<1>6. CASE InitialVersion
  BY <1>6, InitialVersionStep
<1>7. ASSUME NEW p \in Putter, NEW e \in Entry, Put(p, e) PROVE IndInv'
  BY <1>7, PutBegins
<1>8. ASSUME NEW p \in Putter, GuaranteePage(p) PROVE IndInv'
  BY <1>8, GuaranteePageStep
<1>9. ASSUME NEW p \in Putter, WriteDataPage(p) PROVE IndInv'
  BY <1>9, WriteDataPageStep
<1>10. ASSUME NEW p \in Putter, KvPut(p) PROVE IndInv'
  BY <1>10, KvPutStep
<1>11. ASSUME NEW p \in Putter, WriteVersion(p) \/ WriteVersionFails(p) PROVE IndInv'
  BY <1>11, WriteVersionStep
<1>12. ASSUME NEW p \in Putter, WriteEntryFails(p) PROVE IndInv'
  BY <1>12, WriteEntryFailsStep
<1>13. ASSUME NEW p \in Putter, KvPutFails(p) PROVE IndInv'
  BY <1>13, KvPutFailsStep
<1>14. CASE CrashRestart
  BY <1>14, CrashRestartStep
<1>15. CASE UNCHANGED vars
  BY <1>15, StutterStep
<1> QED
  BY <1>1, <1>2, <1>3, <1>4, <1>5, <1>6, <1>7, <1>8, <1>9, <1>10, <1>11, <1>12, <1>13, <1>14, <1>15
     DEF Next, Initialize, PutStep

-----------------------------------------------------------------------------
(***************************************************************************)
(* The theorems                                                            *)
(***************************************************************************)

LEMMA Inductive == Spec => []IndInv
<1>1. Init => IndInv
  BY InitInv
<1>2. IndInv /\ [Next]_vars => IndInv'
  BY StepInv
<1> QED
  BY <1>1, <1>2, PTL DEF Spec

\* The files, the position and every Put are always of their types, and only
\* what a Put was called with is acknowledged.
THEOREM Typing == Spec => []TypeOK
<1>1. IndInv => TypeOK
  BY DEF IndInv
<1> QED
  BY <1>1, Inductive, PTL

\* The position in memory is the end of the log on disk after every crash,
\* every failed write and every change of file (curSeq, curCollection,
\* pageOccupied).
THEOREM WritePoint == Spec => []WritePointIsLogEnd
<1>1. IndInv => WritePointIsLogEnd
  BY DEF IndInv, LogLink
<1> QED
  BY <1>1, Inductive, PTL

\* No wal file grows past its limit, whatever its size and that of the entries,
\* but for the one page that marks a broken record (guaranteePage, Initialize).
THEOREM Bounded == Spec => []FilesBounded
<1>1. IndInv => FilesBounded
  BY DEF IndInv, LogLink
<1> QED
  BY <1>1, Inductive, PTL

\* Records of any number of pages are never interleaved, by any number of
\* concurrent Puts, crashes and failed writes (WriteEntry, DiskWal.Lock).
THEOREM Contiguous == Spec => []RecordsContiguous
<1>1. IndInv => RecordsContiguous
  BY DEF IndInv, LogLink
<1> QED
  BY <1>1, Inductive, PTL

\* Whatever the order of concurrent Puts, the kills and the writes that fail,
\* the stored position is never one that ReplayIncomplete refuses, as long as
\* no Put is called with VersionKey itself.
THEOREM NeverRefused == Spec => []ReplayNeverRefused
<1>1. IndInv => ReplayNeverRefused
  BY DEF IndInv, LogLink
<1> QED
  BY <1>1, Inductive, PTL

\* Every number of concurrent Puts, crashes, failed writes and interrupted
\* replays leaves an acknowledged Put in force: no value of an earlier Put comes
\* back, and the value is missing only when a later or concurrent Put of the
\* same key failed to write it, never for what happens while the store starts
\* (ReplayIncomplete, Put, diskv's removal of the file).
THEOREM AckedStays == Spec => []AckedNeverReverts
<1>1. IndInv => AckedNeverReverts
  <2> SUFFICES ASSUME IndInv, VersionKeyUntouched, status = "up", NEW e \in acked
               PROVE  /\ kv[KeyOf[e]] \notin before[e]
                      /\ kv[KeyOf[e]] = NoEntry =>
                             \E f \in failed \ before[e] : KeyOf[f] = KeyOf[e]
    BY DEF AckedNeverReverts
  <2>1. e \in Settled
    BY DEF Settled
  <2>2. ~Bad(e)
    BY <2>1, UpSettled
  <2> QED
    BY <2>2 DEF Bad, FailedSince
<1> QED
  BY <1>1, Inductive, PTL

\* When Puts come one after the other, no acknowledged value is found torn once
\* the store serves, wherever in a Put or in a replay the process was killed
\* and whichever write failed (the position is stored after the value).
THEOREM AckedWhole == Spec => []AckedNotTorn
<1>1. IndInv => AckedNotTorn
  <2> SUFFICES ASSUME IndInv, VersionKeyUntouched, status = "up", ~overlap, NEW e \in acked
               PROVE  kv[KeyOf[e]] # Torn
    BY DEF AckedNotTorn
  <2>1. e \in Settled
    BY DEF Settled
  <2>2. ~Bad(e)
    BY <2>1, UpSettled
  <2> QED
    BY <2>2 DEF Bad
<1> QED
  BY <1>1, Inductive, PTL

=============================================================================
