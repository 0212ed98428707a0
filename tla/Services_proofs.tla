---------------------------- MODULE Services_proofs ----------------------------
(***************************************************************************)
(* What is proved of the parts of Services, for every value of their       *)
(* constants: of each part an inductive invariant, in the names of         *)
(* Services, and then the properties of Services themselves.               *)
(* A part's invariant is its IInv and InitIInv its base; the lemma XKeeps  *)
(* is the step of action X, and XRuns says that what Services does is, as  *)
(* far as the part goes, what the part does.                               *)
(***************************************************************************)
EXTENDS Services, SequenceTheorems, TLAPS

\* The parts that take turns in Services
Parts == {"log", "inbox", "mqtt", "loads", "trim", "meter", "release", "end", "tariff", "limits", "regulation"}


-----------------------------------------------------------------------------
(* The delivery of logs *)

\* The oldest file that is there, and the newest archive
LogLow == IF current = None THEN Len(file) + 1 - Len(archives) ELSE Len(file) - Len(archives)
LogHigh == LogLow + Len(archives) - 1

\* Where a file begins, the next one to be created included
LogFirst(i) == IF i <= Len(file) THEN file[i].first ELSE file[Len(file)].last + 1

\* The files follow one another, and the archives are the newest but for "current".
LogFilesAreInOrder ==
  /\ file \in Seq([first : Nat, last : Nat]) /\ Len(file) >= 1
  /\ \A i \in 1 .. Len(file) : 1 <= file[i].first /\ file[i].first <= file[i].last + 1
  /\ \A i, j \in 1 .. Len(file) : i < j => file[i].last < file[j].first
  /\ \A i \in 1 .. Len(file) - 1 : file[i + 1].first = file[i].last + 1
LogArchivesAreInOrder ==
  /\ archives \in Seq(Nat) /\ LogLow >= 1 /\ (current # None => current = Len(file))
  /\ \A k \in 1 .. Len(archives) : archives[k] = LogLow + k - 1

\* What lies before the oldest file has expired.
LogGoneHasExpired == \A n \in Nat : 1 <= n /\ n < LogFirst(LogLow) => n \in expired

\* Every line before line x is at Loki, or too old.
LogBefore(x, lines) == \A n \in Nat : 1 <= n /\ n < x => n \in lines \cup expired

\* A cursor to a file: everything before it is at Loki, or will be with "lines".
LogReached(c, lines) ==
  /\ c \in [inode : {None} \cup Nat, position : Nat]
  /\ c.inode # None =>
       /\ c.inode \in 1 .. Len(file) /\ c.position <= Log!Size(c.inode)
       /\ LogBefore(file[c.inode].first + c.position, lines)

\* The archives that were listed and are still there have been looked up.
LogLookedUp == \A i \in pass.names : i # 0 /\ i >= LogLow => i \in pass.files

\* "current" was newer than every archive listed.
LogLiveIsNewer ==
  /\ \A i \in pass.files : i = pass.live \/ (i \in pass.names /\ i # 0)
  /\ pass.live # None =>
       /\ pass.live \in 1 .. Len(file) /\ pass.live <= LogHigh + 1
       /\ \A i \in pass.names : i < pass.live

\* The files to read are consecutive; all before the one being read is done with.
LogConvex(S) == \A i, k \in S : \A j \in i .. k : j \in S
LogReadsOn ==
  /\ pass.files \subseteq 1 .. Len(file) /\ LogConvex(pass.files) /\ pass.inode \in pass.files
  /\ LogBefore(file[pass.inode].first + Log!Position(pass.inode), delivered)
  /\ \A j \in pass.files : j > pass.inode => j # pass.from.inode

LogStages == {"idle", "archives", "current", "check", "open", "push", "save"}
LogPasses == [at : LogStages, from : [inode : {None} \cup Nat, position : Nat], names : SUBSET Nat,
              files : SUBSET Nat, live : {None} \cup Nat, inode : {None} \cup Nat, read : SUBSET Nat,
              next : [inode : {None} \cup Nat, position : Nat]]
LogPassTypes == pass \in LogPasses

LogPassInv ==
  /\ LogPassTypes
  /\ pass.at # "idle" => LogReached(pass.from, delivered)
  /\ pass.at \in {"archives", "current", "check"} => \A i \in pass.names : i <= LogHigh \/ i = 0
  /\ pass.at = "current" => LogLookedUp /\ \A i \in pass.files : i \in pass.names /\ i # 0
  /\ pass.at = "check" => LogLookedUp /\ LogLiveIsNewer
  /\ pass.at = "open" => LogReadsOn
  /\ pass.at = "push" => LogReached(pass.next, delivered \cup pass.read)
  /\ pass.at = "save" => LogReached(pass.next, delivered)

LogIInv ==
  /\ LogFilesAreInOrder /\ LogArchivesAreInOrder /\ LogGoneHasExpired
  /\ LogReached(cursor, delivered) /\ LogPassInv

LEMMA LogSizeType ==
  ASSUME LogFilesAreInOrder, NEW i \in 1 .. Len(file)
  PROVE  /\ file[i].first \in Nat /\ file[i].last \in Nat /\ file[i].first <= file[i].last + 1 /\ Log!Size(i) \in Nat
         /\ file[i].first + Log!Size(i) = file[i].last + 1
<1>1. file[i] \in [first : Nat, last : Nat] BY ElementOfSeq DEF LogFilesAreInOrder
<1>2. file[i].first \in Nat /\ file[i].last \in Nat /\ file[i].first <= file[i].last + 1
  BY <1>1 DEF LogFilesAreInOrder
<1>3. QED BY <1>2 DEF Log!Size

LEMMA LogArchivedIs ==
  ASSUME LogFilesAreInOrder, LogArchivesAreInOrder
  PROVE  /\ LogLow \in Nat /\ LogHigh \in Int /\ Len(file) \in Nat /\ Len(archives) \in Nat
            /\ Log!Archived = LogLow .. LogHigh
         /\ current = None => LogHigh = Len(file)
         /\ current # None => LogHigh = Len(file) - 1
<1>1. Len(file) \in Nat /\ Len(archives) \in Nat BY DEF LogFilesAreInOrder, LogArchivesAreInOrder
<1>2. LogLow \in Int BY <1>1 DEF LogLow
<1>3. LogLow \in Nat /\ LogHigh \in Int BY <1>1, <1>2 DEF LogArchivesAreInOrder, LogHigh
<1>4. \A i \in LogLow .. LogHigh : i \in Log!Archived
  <2> SUFFICES ASSUME NEW i \in LogLow .. LogHigh PROVE i \in Log!Archived OBVIOUS
  <2>1. PICK k : k = i - LogLow + 1 OBVIOUS
  <2>2. k \in 1 .. Len(archives) /\ i = LogLow + k - 1 BY <1>1, <1>3, <2>1 DEF LogHigh
  <2>3. i = archives[k] BY <2>2 DEF LogArchivesAreInOrder
  <2>4. QED BY <2>2, <2>3 DEF Log!Archived
<1>5. \A i \in Log!Archived : i \in LogLow .. LogHigh BY <1>1, <1>3 DEF Log!Archived, LogArchivesAreInOrder, LogHigh
<1>6. Log!Archived = LogLow .. LogHigh BY <1>4, <1>5
<1>7. (current = None => LogHigh = Len(file)) /\ (current # None => LogHigh = Len(file) - 1)
  BY <1>1 DEF LogLow, LogHigh
<1>8. QED BY <1>1, <1>3, <1>6, <1>7

\* Files only grow, retention only takes from the end: what was reached stays so.
LogGrows ==
  /\ expired \subseteq expired' /\ Len(file) <= Len(file') /\ Len(file') \in Nat
  /\ \A i \in 1 .. Len(file) : file'[i].first = file[i].first /\ file[i].last <= file'[i].last

LEMMA LogBeforeStays ==
  ASSUME NEW x, NEW lines, NEW more, LogBefore(x, lines), lines \subseteq more, expired \subseteq expired'
  PROVE  LogBefore(x, more)'
BY DEF LogBefore

LEMMA LogReachedStays ==
  ASSUME LogFilesAreInOrder, LogFilesAreInOrder', LogGrows, NEW c, NEW lines, NEW more, LogReached(c, lines),
         lines \subseteq more
  PROVE  LogReached(c, more)'
<1> SUFFICES ASSUME c.inode # None
             PROVE  /\ c.inode \in 1 .. Len(file') /\ c.position <= Log!Size(c.inode)'
                    /\ LogBefore(file[c.inode].first + c.position, more)'
  BY DEF LogReached
<1>1. c.inode \in 1 .. Len(file) /\ c.position <= Log!Size(c.inode) /\ c.position \in Nat BY DEF LogReached
<1>2. Len(file) \in Nat /\ Len(file') \in Nat BY DEF LogFilesAreInOrder
<1>3. c.inode \in 1 .. Len(file') BY <1>1, <1>2 DEF LogGrows
<1>4. file'[c.inode].first = file[c.inode].first /\ file[c.inode].last <= file'[c.inode].last BY <1>1 DEF LogGrows
<1>5. file[c.inode].first \in Nat /\ file[c.inode].last \in Nat BY <1>1, LogSizeType
<1>6. file'[c.inode].last \in Nat
  <2>1. PICK f, i : f = file' /\ i = c.inode OBVIOUS
  <2>2. f \in Seq([first : Nat, last : Nat]) /\ i \in 1 .. Len(f) BY <1>3, <2>1 DEF LogFilesAreInOrder
  <2>3. f[i] \in [first : Nat, last : Nat] BY <2>2, ElementOfSeq
  <2>4. QED BY <2>1, <2>3
<1>7. c.position <= Log!Size(c.inode)' BY <1>1, <1>4, <1>5, <1>6 DEF Log!Size
<1>8. LogBefore(file[c.inode].first + c.position, more)'
  <2>1. PICK x : x = file[c.inode].first + c.position OBVIOUS
  <2>2. LogBefore(x, lines) BY <2>1 DEF LogReached
  <2>3. LogBefore(x, more)' BY <2>2, LogBeforeStays DEF LogGrows
  <2>4. QED BY <2>1, <2>3, <1>4 DEF LogBefore
<1>9. QED BY <1>3, <1>7, <1>8

\* What multilog does: the forwarder is left alone.
LEMMA LogMultilogKeeps ==
  ASSUME LogIInv, LogFilesAreInOrder', LogArchivesAreInOrder', LogGoneHasExpired', LogGrows,
         LogLow <= LogLow', LogHigh <= LogHigh', UNCHANGED <<pass, cursor, delivered>>
  PROVE  LogIInv'
<1>1. LogFilesAreInOrder /\ LogArchivesAreInOrder /\ LogPassInv /\ LogPassTypes BY DEF LogIInv, LogPassInv
<1>2. LogLow \in Nat /\ LogHigh \in Int /\ Len(file) \in Nat BY <1>1, LogArchivedIs
<1>3. LogLow' \in Nat /\ LogHigh' \in Int
  <2>1. Len(file') \in Nat /\ Len(archives') \in Nat BY DEF LogFilesAreInOrder, LogArchivesAreInOrder
  <2>2. LogLow' \in Int BY <2>1 DEF LogLow
  <2>3. QED BY <2>1, <2>2 DEF LogArchivesAreInOrder, LogHigh
<1>4. LogReached(cursor, delivered)'
  <2>1. PICK c, d : c = cursor /\ d = delivered OBVIOUS
  <2>2. LogReached(c, d) BY <2>1 DEF LogIInv
  <2>3. LogReached(c, d)' BY <1>1, <2>2, LogReachedStays
  <2>4. QED BY <2>1, <2>3 DEF LogReached, LogBefore
<1>5. pass.at # "idle" => LogReached(pass.from, delivered)'
  <2> SUFFICES ASSUME pass.at # "idle" PROVE LogReached(pass.from, delivered)' OBVIOUS
  <2>1. PICK c, d : c = pass.from /\ d = delivered OBVIOUS
  <2>2. LogReached(c, d) BY <1>1, <2>1 DEF LogPassInv
  <2>3. LogReached(c, d)' BY <1>1, <2>2, LogReachedStays
  <2>4. QED BY <2>1, <2>3 DEF LogReached, LogBefore
<1>6. pass.at = "push" => LogReached(pass.next, delivered \cup pass.read)'
  <2> SUFFICES ASSUME pass.at = "push" PROVE LogReached(pass.next, delivered \cup pass.read)' OBVIOUS
  <2>1. PICK c, d : c = pass.next /\ d = delivered \cup pass.read OBVIOUS
  <2>2. LogReached(c, d) BY <1>1, <2>1 DEF LogPassInv
  <2>3. LogReached(c, d)' BY <1>1, <2>2, LogReachedStays
  <2>4. QED BY <2>1, <2>3 DEF LogReached, LogBefore
<1>7. pass.at = "save" => LogReached(pass.next, delivered)'
  <2> SUFFICES ASSUME pass.at = "save" PROVE LogReached(pass.next, delivered)' OBVIOUS
  <2>1. PICK c, d : c = pass.next /\ d = delivered OBVIOUS
  <2>2. LogReached(c, d) BY <1>1, <2>1 DEF LogPassInv
  <2>3. LogReached(c, d)' BY <1>1, <2>2, LogReachedStays
  <2>4. QED BY <2>1, <2>3 DEF LogReached, LogBefore
<1>8. pass.at \in {"archives", "current", "check"} => \A i \in pass.names : i <= LogHigh' \/ i = 0
  BY <1>1, <1>2, <1>3 DEF LogPassInv, LogPassTypes, LogPasses
<1>9. LogLookedUp => LogLookedUp' BY <1>1, <1>2, <1>3 DEF LogLookedUp, LogPassTypes, LogPasses
<1>10. LogLiveIsNewer => LogLiveIsNewer' BY <1>1, <1>2, <1>3 DEF LogLiveIsNewer, LogPassTypes, LogPasses, LogGrows
<1>11. pass.at = "open" => LogReadsOn'
  <2> SUFFICES ASSUME pass.at = "open" PROVE LogReadsOn' OBVIOUS
  <2>1. LogReadsOn /\ LogReached(pass.from, delivered) BY <1>1 DEF LogPassInv
  <2>2. PICK i \in 1 .. Len(file) : i = pass.inode BY <2>1 DEF LogReadsOn
  <2>3. Log!Position(i)' = Log!Position(i)
    <3>1. CASE pass.from.inode = i
      <4>1. pass.from.inode # None BY LogAssumption, <1>2, <3>1
      <4>2. pass.from.position <= Log!Size(i) BY <2>1, <3>1, <4>1 DEF LogReached
      <4>3. pass.from.position <= Log!Size(i)' BY <1>5, <3>1, <4>1 DEF LogReached
      <4>4. QED BY <3>1, <4>2, <4>3 DEF Log!Position
    <3>2. CASE pass.from.inode # i BY <3>2 DEF Log!Position
    <3>3. QED BY <3>1, <3>2
  <2>4. file'[i].first = file[i].first BY <2>2 DEF LogGrows
  <2>5. LogBefore(file[pass.inode].first + Log!Position(pass.inode), delivered)'
    <3>1. PICK x, d : x = file[i].first + Log!Position(i) /\ d = delivered OBVIOUS
    <3>2. LogBefore(x, d) BY <2>1, <2>2, <3>1 DEF LogReadsOn
    <3>3. LogBefore(x, d)' BY <3>2, LogBeforeStays DEF LogGrows
    <3>4. QED BY <2>2, <2>3, <2>4, <3>1, <3>3 DEF LogBefore
  <2>6. pass.files \subseteq 1 .. Len(file') BY <1>2, <2>1 DEF LogReadsOn, LogGrows
  <2>7. QED BY <2>1, <2>5, <2>6 DEF LogReadsOn, LogConvex
<1>12. LogPassInv' BY <1>1, <1>5, <1>6, <1>7, <1>8, <1>9, <1>10, <1>11 DEF LogPassInv, LogPassTypes, LogPasses
<1>13. QED BY <1>4, <1>12 DEF LogIInv

\* The files that were not written to are as they were.
LEMMA LogWriteKeeps == ASSUME LogIInv, Log!Write PROVE LogIInv'
<1>1. LogFilesAreInOrder /\ LogArchivesAreInOrder /\ LogGoneHasExpired BY DEF LogIInv
<1>2. current = Len(file) /\ current # None BY <1>1 DEF LogArchivesAreInOrder, Log!Write
<1>3. UNCHANGED <<archives, current, pass, cursor, delivered, expired>> BY DEF Log!Write
<1>4. PICK l \in Nat : l = Len(file) BY <1>1 DEF LogFilesAreInOrder
<1>5. l \in 1 .. Len(file) /\ l >= 1 BY <1>1, <1>4 DEF LogFilesAreInOrder
<1>6. file[l].first \in Nat /\ file[l].last \in Nat /\ file[l].first <= file[l].last + 1 BY <1>1, <1>5, LogSizeType
<1>7. CASE file' = file
  <2>1. LogGrows BY <1>1, <1>3, <1>4, <1>7, LogSizeType DEF LogGrows
  <2>2. LogLow' = LogLow /\ LogHigh' = LogHigh BY <1>3, <1>7 DEF LogLow, LogHigh
  <2>3. LogFilesAreInOrder' /\ LogArchivesAreInOrder'
    BY <1>1, <1>3, <1>7, <2>2 DEF LogFilesAreInOrder, LogArchivesAreInOrder
  <2>4. LogGoneHasExpired' BY <1>1, <1>3, <1>7, <2>2 DEF LogGoneHasExpired, LogFirst
  <2>5. LogLow \in Nat /\ LogHigh \in Int BY <1>1, LogArchivedIs
  <2>6. QED BY <1>1, <1>3, <2>1, <2>2, <2>3, <2>4, <2>5, LogMultilogKeeps
<1>8. CASE file' = [file EXCEPT ![current].last = @ + 1]
  <2>1. PICK f, g, e : f = file /\ g = file' /\ e = [file[l] EXCEPT !.last = @ + 1] OBVIOUS
  <2>2. f \in Seq([first : Nat, last : Nat]) /\ l \in 1 .. Len(f) BY <1>1, <1>5, <2>1 DEF LogFilesAreInOrder
  <2>3. f[l] \in [first : Nat, last : Nat] BY <2>2, ElementOfSeq
  <2>4. e \in [first : Nat, last : Nat] /\ e.first = f[l].first /\ e.last = f[l].last + 1 BY <2>1, <2>3
  <2>5. g = [f EXCEPT ![l] = e] BY <1>2, <1>4, <1>8, <2>1
  <2>6. g \in Seq([first : Nat, last : Nat]) /\ Len(g) = Len(f)
        /\ \A i \in 1 .. Len(f) : g[i] = IF i = l THEN e ELSE f[i]
    <3>1. PICK R : R = [first : Nat, last : Nat] OBVIOUS
    <3>2. f \in Seq(R) /\ l \in 1 .. Len(f) /\ e \in R BY <2>2, <2>4, <3>1
    <3>3. [f EXCEPT ![l] = e] \in Seq(R) /\ Len([f EXCEPT ![l] = e]) = Len(f)
          /\ \A i \in 1 .. Len(f) : [f EXCEPT ![l] = e][i] = IF i = l THEN e ELSE f[i]
      BY <3>2, ExceptSeq
    <3>4. QED BY <2>5, <3>1, <3>3
  <2>7. Len(file') = l /\ file' \in Seq([first : Nat, last : Nat]) /\ file'[l].first = file[l].first
        /\ file'[l].last = file[l].last + 1 /\ \A i \in 1 .. l : i # l => file'[i] = file[i]
    BY <1>4, <1>5, <2>1, <2>4, <2>6
  <2>8. \A i \in 1 .. l : file[i].first \in Nat /\ file[i].last \in Nat BY <1>1, <1>4, LogSizeType
  <2>9. LogFilesAreInOrder'
    <3>1. \A i \in 1 .. l : 1 <= file'[i].first /\ file'[i].first <= file'[i].last + 1
      <4> SUFFICES ASSUME NEW i \in 1 .. l PROVE 1 <= file'[i].first /\ file'[i].first <= file'[i].last + 1
        OBVIOUS
      <4>1. 1 <= file[i].first /\ file[i].first <= file[i].last + 1 BY <1>1, <1>4 DEF LogFilesAreInOrder
      <4>2. CASE i = l BY <1>6, <2>7, <4>1, <4>2
      <4>3. CASE i # l BY <2>7, <4>1, <4>3
      <4>4. QED BY <4>2, <4>3
    <3>2. \A i, j \in 1 .. l : i < j => file'[i].last < file'[j].first
      <4> SUFFICES ASSUME NEW i \in 1 .. l, NEW j \in 1 .. l, i < j PROVE file'[i].last < file'[j].first OBVIOUS
      <4>1. i # l BY <1>4
      <4>2. file'[i].last = file[i].last /\ file'[j].first = file[j].first BY <2>7, <4>1
      <4>3. QED BY <1>1, <1>4, <4>2 DEF LogFilesAreInOrder
    <3>3. \A i \in 1 .. l - 1 : file'[i + 1].first = file'[i].last + 1
      <4> SUFFICES ASSUME NEW i \in 1 .. l - 1 PROVE file'[i + 1].first = file'[i].last + 1 OBVIOUS
      <4>1. i # l /\ i \in 1 .. l /\ i + 1 \in 1 .. l BY <1>4
      <4>2. file'[i].last = file[i].last /\ file'[i + 1].first = file[i + 1].first BY <2>7, <4>1
      <4>3. QED BY <1>1, <1>4, <4>2 DEF LogFilesAreInOrder
    <3>4. QED BY <1>5, <2>7, <3>1, <3>2, <3>3 DEF LogFilesAreInOrder
  <2>10. LogGrows
    <3>1. \A i \in 1 .. l : file'[i].first = file[i].first /\ file[i].last <= file'[i].last
      <4> SUFFICES ASSUME NEW i \in 1 .. l
                   PROVE  file'[i].first = file[i].first /\ file[i].last <= file'[i].last
        OBVIOUS
      <4>1. file[i].last \in Nat BY <2>8
      <4>2. CASE i = l BY <2>7, <4>1, <4>2
      <4>3. CASE i # l
        <5>1. file'[i] = file[i] BY <2>7, <4>3
        <5>2. QED BY <4>1, <5>1
      <4>4. QED BY <4>2, <4>3
    <3>2. QED BY <1>3, <1>4, <2>7, <3>1 DEF LogGrows
  <2>11. LogLow' = LogLow /\ LogHigh' = LogHigh BY <1>3, <1>4, <2>7 DEF LogLow, LogHigh
  <2>12. LogArchivesAreInOrder' BY <1>1, <1>3, <1>4, <2>7, <2>11 DEF LogArchivesAreInOrder
  <2>13. LogLow \in Nat /\ LogHigh \in Int /\ LogLow <= l
    <3>1. Len(archives) \in Nat BY <1>1 DEF LogArchivesAreInOrder
    <3>2. QED BY <1>1, <1>2, <1>4, <3>1, LogArchivedIs DEF LogLow
  <2>14. LogFirst(LogLow)' = LogFirst(LogLow)
    <3>1. LogLow \in 1 .. l BY <1>1, <2>13 DEF LogArchivesAreInOrder
    <3>2. file'[LogLow].first = file[LogLow].first BY <2>7, <3>1
    <3>3. QED BY <1>4, <2>7, <2>11, <2>13, <3>2 DEF LogFirst
  <2>15. LogGoneHasExpired' BY <1>1, <1>3, <2>14 DEF LogGoneHasExpired
  <2>16. QED BY <1>3, <2>9, <2>10, <2>11, <2>12, <2>13, <2>15, LogMultilogKeeps
<1>9. QED BY <1>7, <1>8 DEF Log!Write

LEMMA LogRenameKeeps == ASSUME LogIInv, Log!Rename PROVE LogIInv'
<1>1. LogFilesAreInOrder /\ LogArchivesAreInOrder /\ LogGoneHasExpired BY DEF LogIInv
<1>2. current = Len(file) /\ current # None /\ current' = None /\ archives' = Append(archives, current)
  BY <1>1 DEF LogArchivesAreInOrder, Log!Rename
<1>3. UNCHANGED <<file, pass, cursor, delivered, expired>> BY DEF Log!Rename
<1>4. Len(file) \in Nat /\ Len(archives) \in Nat /\ archives \in Seq(Nat)
  BY <1>1 DEF LogFilesAreInOrder, LogArchivesAreInOrder
<1>5. archives' \in Seq(Nat) /\ Len(archives') = Len(archives) + 1
      /\ (\A k \in 1 .. Len(archives) : archives'[k] = archives[k]) /\ archives'[Len(archives) + 1] = Len(file)
  BY <1>2, <1>4
<1>6. LogLow = Len(file) - Len(archives) /\ LogLow' = LogLow /\ LogHigh' = LogHigh + 1
  BY <1>2, <1>3, <1>4, <1>5 DEF LogLow, LogHigh
<1>7. LogFilesAreInOrder' /\ LogGrows
  <2>1. LogFilesAreInOrder' BY <1>1, <1>3 DEF LogFilesAreInOrder
  <2>2. LogGrows BY <1>1, <1>3, <1>4, LogSizeType DEF LogGrows
  <2>3. QED BY <2>1, <2>2
<1>8. LogArchivesAreInOrder'
  <2>1. \A k \in 1 .. Len(archives') : archives'[k] = LogLow + k - 1
    <3> SUFFICES ASSUME NEW k \in 1 .. Len(archives') PROVE archives'[k] = LogLow + k - 1 OBVIOUS
    <3>1. CASE k = Len(archives) + 1 BY <1>4, <1>5, <1>6, <3>1
    <3>2. CASE k \in 1 .. Len(archives) BY <1>1, <1>5, <3>2 DEF LogArchivesAreInOrder
    <3>3. QED BY <1>4, <1>5, <3>1, <3>2
  <2>2. QED BY <1>1, <1>2, <1>5, <1>6, <2>1 DEF LogArchivesAreInOrder
<1>9. LogGoneHasExpired' BY <1>1, <1>3, <1>6 DEF LogGoneHasExpired, LogFirst
<1>10. LogLow \in Nat /\ LogHigh \in Int BY <1>1, LogArchivedIs
<1>11. QED BY <1>3, <1>6, <1>7, <1>8, <1>9, <1>10, LogMultilogKeeps

LEMMA LogCreateKeeps == ASSUME LogIInv, Log!Create PROVE LogIInv'
<1>1. LogFilesAreInOrder /\ LogArchivesAreInOrder /\ LogGoneHasExpired BY DEF LogIInv
<1>2. UNCHANGED <<archives, pass, cursor, delivered, expired>> BY DEF Log!Create
<1>3. PICK l \in Nat : l = Len(file) BY <1>1 DEF LogFilesAreInOrder
<1>4. l \in 1 .. Len(file) /\ l >= 1 BY <1>1, <1>3 DEF LogFilesAreInOrder
<1>5. file[l].first \in Nat /\ file[l].last \in Nat /\ file[l].first <= file[l].last + 1 BY <1>1, <1>4, LogSizeType
<1>6. PICK e : e = [first |-> file[l].last + 1, last |-> file[l].last] OBVIOUS
<1>7. e \in [first : Nat, last : Nat] /\ e.first = file[l].last + 1 /\ e.last = file[l].last BY <1>5, <1>6
<1>8. file' = Append(file, e) /\ current' = l + 1 /\ current = None BY <1>3, <1>6 DEF Log!Create
<1>9. file' \in Seq([first : Nat, last : Nat]) /\ Len(file') = l + 1
      /\ (\A i \in 1 .. l : file'[i] = file[i]) /\ file'[l + 1] = e
  BY <1>1, <1>3, <1>7, <1>8 DEF LogFilesAreInOrder
<1>10. \A i \in 1 .. l : file[i].first \in Nat /\ file[i].last \in Nat BY <1>1, <1>3, LogSizeType
<1>11. \A i \in 1 .. l : file[i].last <= file[l].last
  <2> SUFFICES ASSUME NEW i \in 1 .. l, i # l PROVE file[i].last <= file[l].last BY <1>10
  <2>1. file[i].last < file[l].first BY <1>1, <1>3, <1>4 DEF LogFilesAreInOrder
  <2>2. QED BY <1>5, <1>10, <2>1
<1>12. LogFilesAreInOrder'
  <2>1. \A i \in 1 .. l + 1 : 1 <= file'[i].first /\ file'[i].first <= file'[i].last + 1
    <3> SUFFICES ASSUME NEW i \in 1 .. l + 1 PROVE 1 <= file'[i].first /\ file'[i].first <= file'[i].last + 1
      OBVIOUS
    <3>1. CASE i = l + 1 BY <1>5, <1>7, <1>9, <3>1
    <3>2. CASE i \in 1 .. l BY <1>1, <1>3, <1>9, <3>2 DEF LogFilesAreInOrder
    <3>3. QED BY <3>1, <3>2
  <2>2. \A i, j \in 1 .. l + 1 : i < j => file'[i].last < file'[j].first
    <3> SUFFICES ASSUME NEW i \in 1 .. l + 1, NEW j \in 1 .. l + 1, i < j PROVE file'[i].last < file'[j].first
      OBVIOUS
    <3>1. i \in 1 .. l /\ file'[i] = file[i] BY <1>9
    <3>2. CASE j = l + 1
      <4>1. file'[i].last = file[i].last /\ file'[j].first = file[l].last + 1 BY <1>7, <1>9, <3>1, <3>2
      <4>2. file[i].last \in Nat /\ file[i].last <= file[l].last BY <1>10, <1>11, <3>1
      <4>3. QED BY <1>5, <4>1, <4>2
    <3>3. CASE j \in 1 .. l BY <1>1, <1>3, <1>9, <3>1, <3>3 DEF LogFilesAreInOrder
    <3>4. QED BY <3>2, <3>3
  <2>3. \A i \in 1 .. l + 1 - 1 : file'[i + 1].first = file'[i].last + 1
    <3> SUFFICES ASSUME NEW i \in 1 .. l PROVE file'[i + 1].first = file'[i].last + 1 OBVIOUS
    <3>1. CASE i = l BY <1>7, <1>9, <3>1
    <3>2. CASE i # l
      <4>1. i \in 1 .. l - 1 /\ i + 1 \in 1 .. l BY <3>2
      <4>2. QED BY <1>1, <1>3, <1>9, <4>1 DEF LogFilesAreInOrder
    <3>3. QED BY <3>1, <3>2
  <2>4. QED BY <1>9, <2>1, <2>2, <2>3 DEF LogFilesAreInOrder
<1>13. LogGrows BY <1>2, <1>3, <1>9, <1>10 DEF LogGrows
<1>14. Len(archives) \in Nat BY <1>1 DEF LogArchivesAreInOrder
<1>15. current' # None BY LogAssumption, <1>8
<1>16. LogLow' = LogLow /\ LogHigh' = LogHigh /\ LogLow = l + 1 - Len(archives)
  BY <1>2, <1>3, <1>8, <1>9, <1>14, <1>15 DEF LogLow, LogHigh
<1>17. LogArchivesAreInOrder' BY <1>1, <1>2, <1>8, <1>9, <1>16 DEF LogArchivesAreInOrder
<1>18. LogLow \in Nat /\ LogHigh \in Int BY <1>1, LogArchivedIs
<1>19. LogFirst(LogLow)' = LogFirst(LogLow)
  <2>1. CASE LogLow <= l
    <3>1. LogLow \in 1 .. l BY <1>1, <1>18, <2>1 DEF LogArchivesAreInOrder
    <3>2. file'[LogLow] = file[LogLow] BY <1>9, <3>1
    <3>3. QED BY <1>3, <1>9, <1>16, <1>18, <2>1, <3>2 DEF LogFirst
  <2>2. CASE LogLow = l + 1 BY <1>3, <1>7, <1>9, <1>16, <2>2 DEF LogFirst
  <2>3. QED BY <1>14, <1>16, <2>1, <2>2
<1>20. LogGoneHasExpired' BY <1>1, <1>2, <1>19 DEF LogGoneHasExpired
<1>21. QED BY <1>2, <1>12, <1>13, <1>16, <1>17, <1>18, <1>20, LogMultilogKeeps

LEMMA LogRemoveKeeps == ASSUME LogIInv, Log!Remove PROVE LogIInv'
<1>1. LogFilesAreInOrder /\ LogArchivesAreInOrder /\ LogGoneHasExpired BY DEF LogIInv
<1>2. UNCHANGED <<file, current, pass, cursor, delivered>> BY DEF Log!Remove
<1>3. PICK l \in Nat : l = Len(file) BY <1>1 DEF LogFilesAreInOrder
<1>4. archives \in Seq(Nat) /\ Len(archives) \in Nat /\ Len(archives) > 0 /\ archives' = Tail(archives)
  BY LogAssumption, <1>1 DEF LogArchivesAreInOrder, Log!Remove
<1>5. archives' \in Seq(Nat) /\ Len(archives') = Len(archives) - 1
      /\ \A k \in 1 .. Len(archives') : archives'[k] = archives[k + 1]
  BY <1>4
<1>6. LogLow \in Nat /\ LogHigh \in Int BY <1>1, LogArchivedIs
<1>7. LogLow' = LogLow + 1 /\ LogHigh' = LogHigh BY <1>2, <1>3, <1>4, <1>5 DEF LogLow, LogHigh
<1>8. Head(archives) = LogLow /\ LogLow >= 1 /\ LogLow <= l
  <2>1. Head(archives) = archives[1] BY <1>4
  <2>2. archives[1] = LogLow BY <1>1, <1>4, <1>6 DEF LogArchivesAreInOrder
  <2>3. QED BY <1>1, <1>3, <1>4, <2>1, <2>2 DEF LogArchivesAreInOrder, LogLow
<1>9. LogArchivesAreInOrder'
  <2>1. \A k \in 1 .. Len(archives') : archives'[k] = LogLow' + k - 1
    BY <1>1, <1>4, <1>5, <1>6, <1>7 DEF LogArchivesAreInOrder
  <2>2. QED BY <1>1, <1>2, <1>5, <1>6, <1>7, <2>1 DEF LogArchivesAreInOrder
<1>10. LogFilesAreInOrder' /\ LogGrows BY <1>1, <1>2, <1>3, LogSizeType DEF LogFilesAreInOrder, LogGrows, Log!Remove
<1>11. expired' = expired \cup (file[LogLow].first .. file[LogLow].last) BY <1>8 DEF Log!Remove
<1>12. LogLow \in 1 .. Len(file) BY <1>3, <1>6, <1>8
<1>13. file[LogLow].first \in Nat /\ file[LogLow].last \in Nat BY <1>1, <1>12, LogSizeType
<1>14. LogFirst(LogLow)' = file[LogLow].last + 1
  <2>1. CASE LogLow + 1 <= l
    <3>1. file[LogLow + 1].first = file[LogLow].last + 1 BY <1>1, <1>3, <1>6, <1>8, <2>1 DEF LogFilesAreInOrder
    <3>2. QED BY <1>2, <1>3, <1>7, <2>1, <3>1 DEF LogFirst
  <2>2. CASE LogLow = l BY <1>2, <1>3, <1>6, <1>7, <2>2 DEF LogFirst
  <2>3. QED BY <1>6, <1>8, <2>1, <2>2
<1>15. LogFirst(LogLow) = file[LogLow].first BY <1>3, <1>8 DEF LogFirst
<1>16. LogGoneHasExpired' BY <1>1, <1>11, <1>13, <1>14, <1>15 DEF LogGoneHasExpired
<1>17. QED BY <1>2, <1>6, <1>7, <1>9, <1>10, <1>16, LogMultilogKeeps

-----------------------------------------------------------------------------
(* The forwarder *)

\* The forwarder's steps leave the files alone.
LogStill == UNCHANGED <<file, archives, current, expired>>

LEMMA LogStillFiles ==
  ASSUME LogIInv, LogStill
  PROVE  LogFilesAreInOrder' /\ LogArchivesAreInOrder' /\ LogGoneHasExpired' /\ LogGrows /\ LogLow' = LogLow
        /\ LogHigh' = LogHigh
<1>1. LogFilesAreInOrder /\ LogArchivesAreInOrder /\ LogGoneHasExpired BY DEF LogIInv
<1>2. LogLow' = LogLow /\ LogHigh' = LogHigh BY DEF LogStill, LogLow, LogHigh
<1>3. Len(file) \in Nat BY <1>1 DEF LogFilesAreInOrder
<1>4. QED
  BY <1>1, <1>2, <1>3, LogSizeType DEF LogStill, LogFilesAreInOrder, LogArchivesAreInOrder, LogGoneHasExpired,
    LogFirst, LogGrows

LEMMA LogStillReached ==
  ASSUME LogIInv, LogStill, NEW c, NEW lines, LogReached(c, lines) PROVE LogReached(c, lines)'
BY LogStillFiles, LogReachedStays DEF LogIInv

\* The pass is over, and the cursor is one that is reached.
LEMMA LogOverKeeps ==
  ASSUME LogIInv, LogStill, pass' = Log!Idle,
         cursor' \in {cursor, Log!Start} \/ (pass.at = "save" /\ cursor' = pass.next),
         delivered \subseteq delivered'
  PROVE  LogIInv'
<1>1. LogPassInv'
  <2>1. Log!Start \in [inode : {None} \cup Nat, position : Nat] BY DEF Log!Start
  <2>2. PICK a \in LogStages, c \in [inode : {None} \cup Nat, position : Nat] : a = "idle" /\ c = Log!Start
    BY <2>1 DEF LogStages
  <2>3. pass' = [at |-> a, from |-> c, names |-> {}, files |-> {}, live |-> None, inode |-> None, read |-> {},
                 next |-> c]
    BY <2>2 DEF Log!Idle
  <2>4. pass' \in LogPasses BY <2>3 DEF LogPasses
  <2>5. pass'.at = "idle" BY <2>2, <2>3
  <2>6. QED BY <2>4, <2>5 DEF LogPassInv, LogPassTypes, LogPasses
<1>2. LogReached(cursor, delivered)'
  <2>1. CASE cursor' = Log!Start BY <2>1 DEF LogReached, Log!Start
  <2>2. CASE cursor' = cursor \/ (pass.at = "save" /\ cursor' = pass.next)
    <3>1. PICK c, d, e : c = cursor' /\ d = delivered /\ e = delivered' OBVIOUS
    <3>2. LogReached(c, d) BY <2>2, <3>1 DEF LogIInv, LogPassInv
    <3>3. LogReached(c, e)' BY <3>1, <3>2, LogStillFiles, LogReachedStays DEF LogIInv
    <3>4. QED BY <3>1, <3>3 DEF LogReached, LogBefore
  <2>3. QED BY <2>1, <2>2
<1>3. QED BY <1>1, <1>2, LogStillFiles DEF LogIInv

\* The pass goes on.
LEMMA LogGoesOnKeeps ==
  ASSUME LogIInv, LogStill, UNCHANGED <<cursor, delivered>>, LogPassInv' PROVE LogIInv'
<1>1. PICK c, d : c = cursor /\ d = delivered OBVIOUS
<1>2. LogReached(c, d)' BY <1>1, LogStillReached DEF LogIInv
<1>3. LogReached(cursor, delivered)' BY <1>1, <1>2 DEF LogReached, LogBefore
<1>4. QED BY <1>3, LogStillFiles DEF LogIInv

LEMMA LogBeginKeeps == ASSUME LogIInv, Log!Begin PROVE LogIInv'
<1>1. LogStill /\ UNCHANGED <<cursor, delivered>> BY DEF Log!Begin, LogStill
<1>2. cursor \in [inode : {None} \cup Nat, position : Nat] /\ LogReached(cursor, delivered) BY DEF LogIInv, LogReached
<1>3. pass' = [at |-> "archives", from |-> cursor, names |-> Log!Names, files |-> {}, live |-> None, inode |-> None,
               read |-> {}, next |-> cursor]
  BY DEF Log!Begin, Log!Idle
<1>4. Log!Archived = LogLow .. LogHigh /\ LogLow \in Nat /\ LogHigh \in Int BY LogArchivedIs DEF LogIInv
<1>5. Log!Names \subseteq Nat /\ \A i \in Log!Names : i <= LogHigh \/ i = 0 BY <1>4 DEF Log!Names
<1>6. LogReached(pass.from, delivered)'
  <2>1. PICK c, d : c = cursor /\ d = delivered OBVIOUS
  <2>2. LogReached(c, d)' BY <1>1, <1>2, <2>1, LogStillReached
  <2>3. QED BY <1>1, <1>3, <2>1, <2>2 DEF LogReached, LogBefore
<1>7. LogPassTypes'
  <2>1. PICK n \in SUBSET Nat, c \in [inode : {None} \cup Nat, position : Nat] : n = Log!Names /\ c = cursor
    BY <1>2, <1>5
  <2>2. PICK a \in LogStages : a = "archives" BY DEF LogStages
  <2>3. pass' = [at |-> a, from |-> c, names |-> n, files |-> {}, live |-> None, inode |-> None,
                 read |-> {}, next |-> c]
    BY <1>3, <2>1, <2>2
  <2>4. QED BY <2>3 DEF LogPassTypes, LogPasses
<1>8. pass'.at = "archives" /\ pass'.names = Log!Names BY <1>3
<1>9. LogHigh' = LogHigh BY <1>1, LogStillFiles
<1>10. LogPassInv' BY <1>5, <1>6, <1>7, <1>8, <1>9 DEF LogPassInv
<1>11. QED BY <1>1, <1>10, LogGoesOnKeeps

\* The step of a pass that has the same cursor
LEMMA LogFromKeeps ==
  ASSUME LogIInv, LogStill, delivered' = delivered, pass.at # "idle", pass'.from = pass.from
  PROVE  LogReached(pass.from, delivered)'
<1>1. PICK c, d : c = pass.from /\ d = delivered OBVIOUS
<1>2. LogReached(c, d) BY <1>1 DEF LogIInv, LogPassInv
<1>3. LogReached(c, d)' BY <1>2, LogStillReached
<1>4. QED BY <1>1, <1>3 DEF LogReached, LogBefore

LEMMA LogStatArchivesKeeps == ASSUME LogIInv, Log!StatArchives PROVE LogIInv'
<1>1. LogStill /\ UNCHANGED <<cursor, delivered>> /\ pass.at = "archives" BY DEF Log!StatArchives, LogStill
<1>2. LogPassTypes /\ LogPassInv BY DEF LogIInv, LogPassInv
<1>3. PICK F : F = Log!Archived \cap pass.names OBVIOUS
<1>4. pass' = [pass EXCEPT !.at = "current", !.files = F] BY <1>3 DEF Log!StatArchives
<1>5. F \in SUBSET Nat BY <1>2, <1>3 DEF LogPassTypes, LogPasses
<1>6. LogPassTypes'
  <2>1. PICK a \in LogStages : a = "current" BY DEF LogStages
  <2>2. pass' = [pass EXCEPT !.at = a, !.files = F] BY <1>4, <2>1
  <2>3. QED BY <1>2, <1>5, <2>2 DEF LogPassTypes, LogPasses
<1>7. pass'.at = "current" /\ pass'.files = F /\ pass'.names = pass.names /\ pass'.from = pass.from
  BY <1>2, <1>4 DEF LogPassTypes, LogPasses
<1>8. Log!Archived = LogLow .. LogHigh /\ LogLow \in Nat /\ LogHigh \in Int BY LogArchivedIs DEF LogIInv
<1>9. LogLow' = LogLow /\ LogHigh' = LogHigh BY <1>1, LogStillFiles
<1>10. \A i \in pass.names : i \in Nat /\ (i <= LogHigh \/ i = 0)
  BY <1>1, <1>2 DEF LogPassInv, LogPassTypes, LogPasses
<1>11. LogLookedUp' BY <1>3, <1>7, <1>8, <1>9, <1>10 DEF LogLookedUp
<1>12. \A i \in pass'.files : i \in pass'.names /\ i # 0
  BY <1>3, <1>7, <1>8 DEF LogIInv, LogArchivesAreInOrder
<1>13. LogReached(pass.from, delivered)' BY <1>1, <1>7, LogFromKeeps
<1>14. LogPassInv' BY <1>6, <1>7, <1>9, <1>10, <1>11, <1>12, <1>13 DEF LogPassInv
<1>15. QED BY <1>1, <1>14, LogGoesOnKeeps

LEMMA LogStatCurrentKeeps == ASSUME LogIInv, Log!StatCurrent PROVE LogIInv'
<1>1. LogStill /\ UNCHANGED <<cursor, delivered>> /\ pass.at = "current" BY DEF Log!StatCurrent, LogStill
<1>2. LogPassTypes /\ LogPassInv BY DEF LogIInv, LogPassInv
<1>3. PICK F : F = IF current = None THEN pass.files ELSE pass.files \cup {current} OBVIOUS
<1>4. pass' = [pass EXCEPT !.at = "check", !.live = current, !.files = F]
  BY <1>2, <1>3 DEF Log!StatCurrent, LogPassTypes, LogPasses
<1>5. LogLow \in Nat /\ LogHigh \in Int /\ Len(file) \in Nat /\ Len(file) >= 1
      /\ (current # None => current = Len(file) /\ LogHigh = Len(file) - 1)
  BY LogArchivedIs DEF LogIInv, LogArchivesAreInOrder, LogFilesAreInOrder
<1>6. F \in SUBSET Nat /\ current \in {None} \cup Nat BY <1>2, <1>3, <1>5 DEF LogPassTypes, LogPasses
<1>7. LogPassTypes'
  <2>1. PICK c \in {None} \cup Nat : c = current BY <1>6
  <2>2. PICK a \in LogStages : a = "check" BY DEF LogStages
  <2>3. pass' = [pass EXCEPT !.at = a, !.live = c, !.files = F] BY <1>4, <2>1, <2>2
  <2>4. QED BY <1>2, <1>6, <2>3 DEF LogPassTypes, LogPasses
<1>8. pass'.at = "check" /\ pass'.files = F /\ pass'.live = current /\ pass'.names = pass.names
      /\ pass'.from = pass.from
  BY <1>2, <1>4 DEF LogPassTypes, LogPasses
<1>9. LogLow' = LogLow /\ LogHigh' = LogHigh /\ file' = file BY <1>1, LogStillFiles DEF LogStill
<1>10. \A i \in pass.names : i \in Nat /\ (i <= LogHigh \/ i = 0)
  BY <1>1, <1>2 DEF LogPassInv, LogPassTypes, LogPasses
<1>11. LogLookedUp /\ \A i \in pass.files : i \in pass.names /\ i # 0 BY <1>1, <1>2 DEF LogPassInv
<1>12. LogLookedUp' BY <1>3, <1>8, <1>9, <1>11 DEF LogLookedUp
<1>13. LogLiveIsNewer'
  <2>1. \A i \in F : i = current \/ (i \in pass.names /\ i # 0) BY <1>3, <1>11
  <2>2. current # None => /\ current \in 1 .. Len(file) /\ current <= LogHigh + 1
                          /\ \A i \in pass.names : i < current
    BY <1>5, <1>10
  <2>3. QED BY <1>8, <1>9, <2>1, <2>2 DEF LogLiveIsNewer
<1>14. LogReached(pass.from, delivered)' BY <1>1, <1>8, LogFromKeeps
<1>15. LogPassInv' BY <1>7, <1>8, <1>9, <1>10, <1>12, <1>13, <1>14 DEF LogPassInv
<1>16. QED BY <1>1, <1>15, LogGoesOnKeeps

LEMMA LogFirstGrows ==
  ASSUME LogFilesAreInOrder, NEW a \in 1 .. Len(file), NEW b \in Nat, a <= b
  PROVE  file[a].first \in Nat /\ LogFirst(b) \in Nat /\ file[a].first <= LogFirst(b)
<1>1. PICK l \in Nat : l = Len(file) /\ l >= 1 BY DEF LogFilesAreInOrder
<1>2. \A i \in 1 .. l : file[i].first \in Nat /\ file[i].last \in Nat /\ file[i].first <= file[i].last + 1
  BY <1>1, LogSizeType
<1>3. \A i, j \in 1 .. l : i < j => file[i].last < file[j].first BY <1>1 DEF LogFilesAreInOrder
<1>4. CASE b <= l
  <2>1. LogFirst(b) = file[b].first /\ b \in 1 .. l BY <1>1, <1>4 DEF LogFirst
  <2>2. CASE a = b BY <1>1, <1>2, <2>1, <2>2
  <2>3. CASE a < b
    <3>1. a \in 1 .. l BY <1>1
    <3>2. file[a].last < file[b].first BY <1>3, <2>1, <2>3, <3>1
    <3>3. PICK x \in Nat, y \in Nat, z \in Nat : file[a].first = x /\ file[a].last = y /\ file[b].first = z
      BY <1>2, <2>1, <3>1
    <3>4. x <= y + 1 BY <1>2, <3>1, <3>3
    <3>5. x <= z BY <3>2, <3>3, <3>4
    <3>6. QED BY <2>1, <3>3, <3>5
  <2>4. a = b \/ a < b BY <1>1
  <2>5. QED BY <2>2, <2>3, <2>4
<1>5. CASE b > l
  <2>1. LogFirst(b) = file[l].last + 1 /\ l \in 1 .. l BY <1>1, <1>5 DEF LogFirst
  <2>2. CASE a = l BY <1>1, <1>2, <2>1, <2>2
  <2>3. CASE a < l
    <3>1. a \in 1 .. l BY <1>1
    <3>2. file[a].last < file[l].first BY <1>3, <2>1, <2>3, <3>1
    <3>3. PICK w \in Nat, x \in Nat, y \in Nat, z \in Nat :
            file[a].first = w /\ file[a].last = x /\ file[l].first = y /\ file[l].last = z
      BY <1>2, <2>1, <3>1
    <3>4. w <= x + 1 /\ y <= z + 1 BY <1>2, <2>1, <3>1, <3>3
    <3>5. w <= z + 1 /\ z + 1 \in Nat BY <3>2, <3>3, <3>4
    <3>6. QED BY <2>1, <3>3, <3>5
  <2>4. a = l \/ a < l BY <1>1
  <2>5. QED BY <2>2, <2>3, <2>4
<1>6. b <= l \/ b > l BY <1>1
<1>7. QED BY <1>4, <1>5, <1>6

LEMMA LogOldestIs ==
  ASSUME NEW S \in SUBSET Nat, NEW a \in S, \A j \in S : a <= j PROVE Log!Oldest(S) = a
<1>1. PICK o : o = Log!Oldest(S) OBVIOUS
<1>2. o \in S /\ \A j \in S : o <= j BY <1>1 DEF Log!Oldest
<1>3. o <= a /\ a <= o /\ o \in Nat /\ a \in Nat BY <1>2
<1>4. o = a BY <1>3
<1>5. QED BY <1>1, <1>4

\* The listing was steady: its files are those that are there.
LEMMA LogSteadyFiles ==
  ASSUME LogIInv, pass.at = "check", Log!Steady, pass.files # {}
  PROVE  /\ pass.files \subseteq 1 .. Len(file) /\ LogConvex(pass.files)
         /\ \E a \in pass.files : a <= LogLow /\ \A j \in pass.files : a <= j
<1>1. LogFilesAreInOrder /\ LogArchivesAreInOrder /\ LogPassTypes /\ LogLookedUp /\ LogLiveIsNewer
  BY DEF LogIInv, LogPassInv
<1>2. LogLow \in Nat /\ LogLow >= 1 /\ LogHigh \in Int /\ Len(file) \in Nat /\ Log!Archived = LogLow .. LogHigh
      /\ LogHigh <= Len(file)
  BY <1>1, LogArchivedIs DEF LogArchivesAreInOrder
<1>3. pass.names = Log!Names BY DEF Log!Steady
<1>4. PICK F \in SUBSET Nat, v \in {None} \cup Nat : F = pass.files /\ v = pass.live
  BY <1>1 DEF LogPassTypes, LogPasses
<1>5. \A i \in LogLow .. LogHigh : i \in F
  <2> SUFFICES ASSUME NEW i \in LogLow .. LogHigh PROVE i \in F OBVIOUS
  <2>1. i \in Log!Names /\ i # 0 /\ i >= LogLow BY <1>2 DEF Log!Names
  <2>2. QED BY <1>1, <1>3, <1>4, <2>1 DEF LogLookedUp
<1>6. \A i \in F : i = v \/ i \in LogLow .. LogHigh BY <1>1, <1>2, <1>3, <1>4 DEF LogLiveIsNewer, Log!Names
<1>7. v # None => v \in 1 .. Len(file) /\ v <= LogHigh + 1 /\ \A i \in LogLow .. LogHigh : i < v
  BY <1>1, <1>2, <1>3, <1>4 DEF LogLiveIsNewer, Log!Names
<1>8. None \notin Nat BY LogAssumption
<1>9. F \subseteq 1 .. Len(file)
  <2> SUFFICES ASSUME NEW i \in F PROVE i \in 1 .. Len(file) OBVIOUS
  <2>1. CASE i = v BY <1>7, <1>8, <2>1
  <2>2. CASE i \in LogLow .. LogHigh BY <1>2, <2>2
  <2>3. QED BY <1>6, <2>1, <2>2
<1>10. LogConvex(F)
  <2> SUFFICES ASSUME NEW i \in F, NEW k \in F, NEW j \in i .. k PROVE j \in F BY DEF LogConvex
  <2>1. CASE k \in LogLow .. LogHigh
    <3>1. i \in LogLow .. LogHigh BY <1>6, <1>7, <1>8, <2>1
    <3>2. QED BY <1>2, <1>5, <2>1, <3>1
  <2>2. CASE k = v
    <3>1. v # None /\ v \in Nat /\ v <= LogHigh + 1 BY <1>7, <1>8, <2>2
    <3>2. CASE j = v BY <2>2, <3>2
    <3>3. CASE j # v
      <4>1. i # v /\ i \in LogLow .. LogHigh BY <1>6, <2>2, <3>1, <3>3
      <4>2. j \in LogLow .. LogHigh BY <1>2, <2>2, <3>1, <3>3, <4>1
      <4>3. QED BY <1>5, <4>2
    <3>4. QED BY <3>2, <3>3
  <2>3. QED BY <1>6, <2>1, <2>2
<1>11. \E a \in F : a <= LogLow /\ \A j \in F : a <= j
  <2>1. CASE LogLow <= LogHigh
    <3>1. LogLow \in F BY <1>2, <1>5, <2>1
    <3>2. \A j \in F : LogLow <= j
      <4> SUFFICES ASSUME NEW j \in F PROVE LogLow <= j OBVIOUS
      <4>1. CASE j = v
        <5>1. v # None /\ v \in Nat BY <1>8, <4>1
        <5>2. LogLow < v BY <1>2, <1>7, <2>1, <5>1
        <5>3. QED BY <1>2, <4>1, <5>1, <5>2
      <4>2. CASE j \in LogLow .. LogHigh BY <1>2, <4>2
      <4>3. QED BY <1>6, <4>1, <4>2
    <3>3. QED BY <1>2, <3>1, <3>2
  <2>2. CASE ~(LogLow <= LogHigh)
    <3>1. \A i \in F : i = v BY <1>2, <1>6, <2>2
    <3>2. v \in F /\ v # None /\ v \in Nat /\ v <= LogHigh + 1 BY <1>4, <1>7, <1>8, <3>1
    <3>3. v <= LogLow BY <1>2, <2>2, <3>2
    <3>4. QED BY <3>1, <3>2, <3>3
  <2>3. QED BY <2>1, <2>2
<1>12. QED BY <1>4, <1>9, <1>10, <1>11

LEMMA LogCheckKeeps == ASSUME LogIInv, Log!Check PROVE LogIInv'
<1>1. LogStill /\ UNCHANGED <<cursor, delivered>> /\ pass.at = "check" BY DEF Log!Check, LogStill
<1>2. CASE pass' = Log!Idle BY <1>1, <1>2, LogOverKeeps
<1>3. CASE Log!Steady /\ pass.files # {} /\ pass' = [pass EXCEPT !.at = "open", !.inode = Log!StartFile]
  <2>1. LogFilesAreInOrder /\ LogArchivesAreInOrder /\ LogGoneHasExpired /\ LogPassTypes
        /\ LogReached(pass.from, delivered)
    BY <1>1 DEF LogIInv, LogPassInv
  <2>2. pass.files \subseteq 1 .. Len(file) /\ LogConvex(pass.files) BY <1>1, <1>3, LogSteadyFiles
  <2>3. PICK a \in pass.files : a <= LogLow /\ \A j \in pass.files : a <= j BY <1>1, <1>3, LogSteadyFiles
  <2>4. Len(file) \in Nat /\ LogLow \in Nat BY <2>1, LogArchivedIs
  <2>5. Log!Oldest(pass.files) = a BY <2>2, <2>3, <2>4, LogOldestIs
  <2>6. PICK i \in pass.files : i = Log!StartFile BY <2>5 DEF Log!StartFile
  <2>7. i \in Nat /\ i \in 1 .. Len(file) BY <2>2, <2>4
  <2>8. LogPassTypes'
    <3>1. PICK s \in LogStages : s = "open" BY DEF LogStages
    <3>2. pass' = [pass EXCEPT !.at = s, !.inode = i] BY <1>3, <2>6, <3>1
    <3>3. QED BY <2>1, <2>7, <3>2 DEF LogPassTypes, LogPasses
  <2>9. pass'.at = "open" /\ pass'.inode = i /\ pass'.files = pass.files /\ pass'.from = pass.from
    BY <1>3, <2>1, <2>6 DEF LogPassTypes, LogPasses
  <2>10. LogBefore(file[i].first + Log!Position(i), delivered) /\ \A j \in pass.files : j > i => j # pass.from.inode
    <3>1. CASE pass.from.inode \in pass.files
      <4>1. i = pass.from.inode /\ i # None BY LogAssumption, <2>6, <2>7, <3>1 DEF Log!StartFile
      <4>2. pass.from.position <= Log!Size(i) /\ LogBefore(file[i].first + pass.from.position, delivered)
        BY <2>1, <4>1 DEF LogReached
      <4>3. QED BY <2>2, <2>4, <4>1, <4>2 DEF Log!Position
    <3>2. CASE pass.from.inode \notin pass.files
      <4>1. i = a /\ i <= LogLow BY <2>3, <2>5, <2>6, <3>2 DEF Log!StartFile
      <4>2. Log!Position(i) = 0 BY <3>2 DEF Log!Position
      <4>3. file[i].first \in Nat /\ LogFirst(LogLow) \in Nat /\ file[i].first <= LogFirst(LogLow)
        BY <2>1, <2>4, <2>7, <4>1, LogFirstGrows
      <4>4. file[i].first + 0 = file[i].first BY <4>3
      <4>5. LogBefore(file[i].first, delivered) BY <2>1, <4>3 DEF LogBefore, LogGoneHasExpired
      <4>6. QED BY <3>2, <4>2, <4>4, <4>5
    <3>3. QED BY <3>1, <3>2
  <2>11. LogReadsOn'
    <3>1. PICK x, d : x = file[i].first + Log!Position(i) /\ d = delivered OBVIOUS
    <3>2. LogBefore(x, d)' BY <1>1, <2>10, <3>1 DEF LogBefore, LogStill
    <3>3. (file[i].first + Log!Position(i))' = x BY <1>1, <2>9, <3>1 DEF LogStill, Log!Position, Log!Size
    <3>4. LogBefore(file[pass.inode].first + Log!Position(pass.inode), delivered)'
      BY <1>1, <2>9, <3>1, <3>2, <3>3 DEF LogBefore, Log!Position, Log!Size
    <3>5. QED BY <1>1, <2>2, <2>9, <2>10, <3>4 DEF LogReadsOn, LogConvex, LogStill
  <2>12. LogReached(pass.from, delivered)' BY <1>1, <2>9, LogFromKeeps
  <2>13. LogPassInv' BY <2>8, <2>9, <2>11, <2>12 DEF LogPassInv
  <2>14. QED BY <1>1, <2>13, LogGoesOnKeeps
<1>4. QED BY <1>2, <1>3 DEF Log!Check

\* Where reading goes on, and what it brings
LEMMA LogAfterReached ==
  ASSUME LogIInv, pass.at = "open", NEW i, i = pass.inode, NEW c, c = Log!After(i)
  PROVE  /\ i \in 1 .. Len(file) /\ Log!Readable(i) \in SUBSET Nat
         /\ LogReached(c, delivered \cup Log!Readable(i)) /\ c \in [inode : {None} \cup Nat, position : Nat]
         /\ Log!Readable(i) = {} => LogBefore(file[i].last + 1, delivered)
<1>1. LogFilesAreInOrder /\ LogPassTypes /\ LogReached(pass.from, delivered) /\ LogReadsOn BY DEF LogIInv, LogPassInv
<1>2. i \in 1 .. Len(file) /\ Len(file) \in Nat BY <1>1 DEF LogReadsOn, LogFilesAreInOrder
<1>3. /\ file[i].first \in Nat /\ file[i].last \in Nat /\ file[i].first <= file[i].last + 1 /\ Log!Size(i) \in Nat
      /\ file[i].first + Log!Size(i) = file[i].last + 1
  BY <1>1, <1>2, LogSizeType
<1>4. PICK p : p = Log!Position(i) OBVIOUS
<1>5. p \in Nat /\ p <= Log!Size(i)
  <2>1. pass.from.position \in Nat BY <1>1 DEF LogPassTypes, LogPasses
  <2>2. QED BY <1>3, <1>4, <2>1 DEF Log!Position
<1>6. PICK F, L, z : F = file[i].first /\ L = file[i].last /\ z = Log!Size(i) OBVIOUS
<1>7. F \in Nat /\ L \in Nat /\ F <= L + 1 /\ z \in Nat /\ F + z = L + 1 /\ p \in Nat /\ p <= z BY <1>3, <1>5, <1>6
<1>8. LogBefore(F + p, delivered) BY <1>1, <1>4, <1>6 DEF LogReadsOn
<1>9. PICK b \in Nat : b = Batch /\ b > 0 BY LogAssumption
<1>10. Log!Readable(i) = {n \in F .. L : n >= F + p /\ n < F + p + b} BY <1>4, <1>6, <1>9 DEF Log!Readable
<1>11. PICK q : q = p + Log!Smaller(b, z - p) OBVIOUS
<1>12. q \in Nat /\ q <= z /\ (q = p + b \/ q = z) BY <1>7, <1>9, <1>11 DEF Log!Smaller
<1>13. c = [inode |-> i, position |-> q] BY <1>4, <1>6, <1>9, <1>11 DEF Log!After
<1>14. c.inode = i /\ c.position = q BY <1>13
<1>15. i \in {None} \cup Nat BY <1>2
<1>16. c \in [inode : {None} \cup Nat, position : Nat] BY <1>12, <1>13, <1>15
<1>17. LogBefore(F + q, delivered \cup Log!Readable(i))
  <2> SUFFICES ASSUME NEW n \in Nat, 1 <= n, n < F + q PROVE n \in delivered \cup Log!Readable(i) \cup expired
    BY DEF LogBefore
  <2>1. CASE n < F + p BY <1>8, <2>1 DEF LogBefore
  <2>2. CASE ~(n < F + p)
    <3>0. q <= p + b
      <4>1. CASE q = p + b BY <1>7, <1>9, <4>1
      <4>2. CASE z - p <= b BY <1>7, <1>9, <1>12, <4>2
      <4>3. QED BY <1>7, <1>9, <1>11, <4>1, <4>2 DEF Log!Smaller
    <3>1. n \in F .. L /\ n >= F + p /\ n < F + p + b BY <1>7, <1>9, <1>12, <2>2, <3>0
    <3>2. QED BY <1>10, <3>1
  <2>3. QED BY <2>1, <2>2
<1>18. LogReached(c, delivered \cup Log!Readable(i)) BY <1>2, <1>6, <1>12, <1>14, <1>16, <1>17 DEF LogReached
<1>19. Log!Readable(i) = {} => LogBefore(file[i].last + 1, delivered)
  <2> SUFFICES ASSUME Log!Readable(i) = {} PROVE LogBefore(file[i].last + 1, delivered) OBVIOUS
  <2>1. p = z
    <3> SUFFICES ASSUME p # z PROVE FALSE OBVIOUS
    <3>1. F + p \in F .. L /\ F + p >= F + p /\ F + p < F + p + b BY <1>7, <1>9
    <3>2. QED BY <1>10, <3>1
  <2>2. F + p = file[i].last + 1 BY <1>6, <1>7, <2>1
  <2>3. QED BY <1>8, <2>2
<1>20. Log!Readable(i) \in SUBSET Nat BY <1>7, <1>10
<1>21. QED BY <1>2, <1>16, <1>18, <1>19, <1>20

LEMMA LogOpenKeeps == ASSUME LogIInv, Log!Open PROVE LogIInv'
<1>1. LogStill /\ UNCHANGED <<cursor, delivered>> /\ pass.at = "open" BY DEF Log!Open, LogStill
<1>2. LogPassTypes /\ LogReadsOn BY <1>1 DEF LogIInv, LogPassInv
<1>3. PICK i, c, R, d : i = pass.inode /\ c = Log!After(i) /\ R = Log!Readable(i) /\ d = delivered OBVIOUS
<1>4. /\ i \in 1 .. Len(file) /\ R \in SUBSET Nat /\ LogReached(c, d \cup R)
      /\ c \in [inode : {None} \cup Nat, position : Nat] /\ (R = {} => LogBefore(file[i].last + 1, d))
  BY <1>1, <1>3, LogAfterReached
<1>5. LogReached(c, d \cup R)' BY <1>1, <1>4, LogStillReached
<1>6. CASE pass' = Log!Idle BY <1>1, <1>6, LogOverKeeps
<1>7. CASE pass' = [pass EXCEPT !.at = "push", !.read = R, !.next = c]
  <2>1. PICK s \in LogStages : s = "push" BY DEF LogStages
  <2>2. pass' = [pass EXCEPT !.at = s, !.read = R, !.next = c] BY <1>7, <2>1
  <2>3. LogPassTypes' BY <1>2, <1>4, <2>2 DEF LogPassTypes, LogPasses
  <2>4. pass'.at = "push" /\ pass'.read = R /\ pass'.next = c /\ pass'.from = pass.from
    BY <1>2, <1>7 DEF LogPassTypes, LogPasses
  <2>5. LogReached(pass.next, delivered \cup pass.read)' BY <1>1, <1>3, <1>5, <2>4 DEF LogReached, LogBefore
  <2>6. LogReached(pass.from, delivered)' BY <1>1, <2>4, LogFromKeeps
  <2>7. LogPassInv' BY <2>3, <2>4, <2>5, <2>6 DEF LogPassInv
  <2>8. QED BY <1>1, <2>7, LogGoesOnKeeps
<1>8. CASE R = {} /\ pass' = [pass EXCEPT !.at = "save", !.next = c]
  <2>1. PICK s \in LogStages : s = "save" BY DEF LogStages
  <2>2. pass' = [pass EXCEPT !.at = s, !.next = c] BY <1>8, <2>1
  <2>3. LogPassTypes' BY <1>2, <1>4, <2>2 DEF LogPassTypes, LogPasses
  <2>4. pass'.at = "save" /\ pass'.next = c /\ pass'.from = pass.from BY <1>2, <1>8 DEF LogPassTypes, LogPasses
  <2>5. LogReached(pass.next, delivered)' BY <1>1, <1>3, <1>5, <1>8, <2>4 DEF LogReached, LogBefore
  <2>6. LogReached(pass.from, delivered)' BY <1>1, <2>4, LogFromKeeps
  <2>7. LogPassInv' BY <2>3, <2>4, <2>5, <2>6 DEF LogPassInv
  <2>8. QED BY <1>1, <2>7, LogGoesOnKeeps
<1>9. CASE /\ R = {} /\ {j \in pass.files : j > i} # {}
           /\ pass' = [pass EXCEPT !.inode = Log!Oldest({j \in pass.files : j > i}), !.next = c]
  <2>1. LogFilesAreInOrder /\ Len(file) \in Nat BY LogArchivedIs DEF LogIInv
  <2>2. PICK k \in pass.files : k > i BY <1>9
  <2>3. pass.files \subseteq 1 .. Len(file) /\ LogConvex(pass.files) /\ i \in pass.files
        /\ \A j \in pass.files : j > i => j # pass.from.inode
    BY <1>2, <1>3 DEF LogReadsOn
  <2>4. PICK m : m = i + 1 OBVIOUS
  <2>5. i \in Nat /\ m \in Nat /\ k \in Nat /\ m \in i .. k BY <1>4, <2>1, <2>2, <2>3, <2>4
  <2>6. m \in pass.files BY <2>2, <2>3, <2>5 DEF LogConvex
  <2>7. Log!Oldest({j \in pass.files : j > i}) = m
    <3>1. PICK S : S = {j \in pass.files : j > i} OBVIOUS
    <3>2. S \in SUBSET Nat /\ m \in S /\ \A j \in S : m <= j BY <2>1, <2>3, <2>4, <2>5, <2>6, <3>1
    <3>3. QED BY <3>1, <3>2, LogOldestIs
  <2>8. pass' = [pass EXCEPT !.inode = m, !.next = c] BY <1>9, <2>7
  <2>9. LogPassTypes' BY <1>2, <1>4, <2>5, <2>8 DEF LogPassTypes, LogPasses
  <2>10. pass'.at = "open" /\ pass'.inode = m /\ pass'.files = pass.files /\ pass'.from = pass.from
    BY <1>1, <1>2, <2>8 DEF LogPassTypes, LogPasses
  <2>11. file[m].first = file[i].last + 1
    <3>1. i \in 1 .. Len(file) - 1 BY <1>4, <2>1, <2>3, <2>4, <2>5, <2>6
    <3>2. QED BY <2>1, <2>4, <3>1 DEF LogFilesAreInOrder
  <2>12. m # pass.from.inode BY <2>3, <2>4, <2>5, <2>6
  <2>13. LogBefore(file[pass.inode].first + Log!Position(pass.inode), delivered)'
    <3>1. Log!Position(m)' = 0 BY <2>10, <2>12 DEF Log!Position
    <3>2. file[m].first \in Nat BY <2>1, <2>3, <2>6, LogSizeType
    <3>3. (file[m].first + Log!Position(m))' = file[m].first BY <1>1, <3>1, <3>2 DEF LogStill
    <3>4. LogBefore(file[m].first, d) BY <1>4, <1>9, <2>11
    <3>5. PICK x : x = file[m].first OBVIOUS
    <3>6. LogBefore(x, d)' BY <1>1, <3>4, <3>5 DEF LogBefore, LogStill
    <3>7. QED BY <1>1, <1>3, <2>10, <3>3, <3>5, <3>6 DEF LogBefore, Log!Position, Log!Size
  <2>14. \A j \in pass.files : j > m => j # pass.from.inode BY <2>1, <2>3, <2>4, <2>5
  <2>15. LogReadsOn' BY <1>1, <2>3, <2>6, <2>10, <2>13, <2>14 DEF LogReadsOn, LogConvex, LogStill
  <2>16. LogReached(pass.from, delivered)' BY <1>1, <2>10, LogFromKeeps
  <2>17. LogPassInv' BY <2>9, <2>10, <2>15, <2>16 DEF LogPassInv
  <2>18. QED BY <1>1, <2>17, LogGoesOnKeeps
<1>10. QED BY <1>3, <1>6, <1>7, <1>8, <1>9 DEF Log!Open

LEMMA LogPushKeeps == ASSUME LogIInv, Log!Push PROVE LogIInv'
<1>1. LogStill /\ UNCHANGED cursor /\ pass.at = "push" /\ delivered \subseteq delivered' BY DEF Log!Push, LogStill
<1>2. CASE pass' = Log!Idle BY <1>1, <1>2, LogOverKeeps
<1>3. CASE pass' = [pass EXCEPT !.at = "save"] /\ delivered' = delivered \cup pass.read
  <2>1. LogPassTypes /\ LogFilesAreInOrder BY DEF LogIInv, LogPassInv
  <2>2. PICK s \in LogStages : s = "save" BY DEF LogStages
  <2>3. pass' = [pass EXCEPT !.at = s] BY <1>3, <2>2
  <2>4. LogPassTypes' BY <2>1, <2>3 DEF LogPassTypes, LogPasses
  <2>5. pass'.at = "save" /\ pass'.next = pass.next /\ pass'.from = pass.from
    BY <1>3, <2>1 DEF LogPassTypes, LogPasses
  <2>6. PICK c, a, n, d, e : c = cursor /\ a = pass.from /\ n = pass.next /\ d = delivered /\ e = delivered' OBVIOUS
  <2>7. LogReached(c, d) /\ LogReached(a, d) /\ LogReached(n, e) BY <1>1, <1>3, <2>6 DEF LogIInv, LogPassInv
  <2>8. LogFilesAreInOrder' /\ LogGrows BY <1>1, LogStillFiles
  <2>9. d \subseteq e BY <1>1, <2>6
  <2>10. LogReached(c, e)' /\ LogReached(a, e)' /\ LogReached(n, e)' BY <2>1, <2>7, <2>8, <2>9, LogReachedStays
  <2>11. LogReached(cursor, delivered)' BY <1>1, <2>6, <2>10 DEF LogReached, LogBefore
  <2>12. LogReached(pass.from, delivered)' BY <2>5, <2>6, <2>10 DEF LogReached, LogBefore
  <2>13. LogReached(pass.next, delivered)' BY <2>5, <2>6, <2>10 DEF LogReached, LogBefore
  <2>14. LogPassInv' BY <2>4, <2>5, <2>12, <2>13 DEF LogPassInv
  <2>15. QED BY <1>1, <2>11, <2>14, LogStillFiles DEF LogIInv
<1>4. QED BY <1>2, <1>3 DEF Log!Push

LEMMA LogSaveKeeps == ASSUME LogIInv, Log!Save PROVE LogIInv'
BY LogOverKeeps DEF Log!Save, LogStill

LEMMA LogCrashKeeps == ASSUME LogIInv, Log!Crash PROVE LogIInv'
BY LogOverKeeps DEF Log!Crash, LogStill

LEMMA LogStutterKeeps == ASSUME LogIInv, UNCHANGED Log!lvars PROVE LogIInv'
<1>1. LogLow \in Nat /\ LogHigh \in Int BY LogArchivedIs DEF LogIInv
<1>2. LogStill /\ UNCHANGED <<pass, cursor, delivered>> BY DEF Log!lvars, LogStill
<1>3. QED BY <1>1, <1>2, LogStillFiles, LogMultilogKeeps

LEMMA LogInitIInv == ASSUME Log!Init PROVE LogIInv
<1>1. PICK e : e = [first |-> 1, last |-> 0] OBVIOUS
<1>2. e \in [first : Nat, last : Nat] /\ e.first = 1 /\ e.last = 0 BY <1>1
<1>3. file = <<e>> /\ archives = <<>> /\ current = 1 /\ current # None BY LogAssumption, <1>1 DEF Log!Init
<1>4. file \in Seq([first : Nat, last : Nat]) /\ Len(file) = 1 /\ file[1] = e BY <1>2, <1>3
<1>5. LogFilesAreInOrder BY <1>2, <1>4 DEF LogFilesAreInOrder
<1>6. archives \in Seq(Nat) /\ Len(archives) = 0 BY <1>3
<1>7. LogLow = 1 BY <1>3, <1>4, <1>6 DEF LogLow
<1>8. LogArchivesAreInOrder BY <1>3, <1>4, <1>6, <1>7 DEF LogArchivesAreInOrder
<1>9. LogGoneHasExpired BY <1>2, <1>4, <1>7 DEF LogGoneHasExpired, LogFirst
<1>10. Log!Start \in [inode : {None} \cup Nat, position : Nat] /\ Log!Start.inode = None BY DEF Log!Start
<1>11. LogReached(cursor, delivered) BY <1>10 DEF Log!Init, LogReached
<1>12. LogPassInv
  <2>1. PICK a \in LogStages, c \in [inode : {None} \cup Nat, position : Nat] : a = "idle" /\ c = Log!Start
    BY <1>10 DEF LogStages
  <2>2. pass = [at |-> a, from |-> c, names |-> {}, files |-> {}, live |-> None, inode |-> None, read |-> {},
                next |-> c]
    BY <2>1 DEF Log!Init, Log!Idle
  <2>3. pass \in LogPasses BY <2>2 DEF LogPasses
  <2>4. pass.at = "idle" BY <2>1, <2>2
  <2>5. QED BY <2>3, <2>4 DEF LogPassInv, LogPassTypes
<1>13. QED BY <1>5, <1>8, <1>9, <1>11, <1>12 DEF LogIInv

\* The forwarder's invariant holds in every reachable state, wherever multilog
\* rotates and removes, pushes and saves fail and the process crashes
\* (retained_log_files, read_new_lines and process_logs, log_forwarder.py).
THEOREM LogInductive == Log!Spec => []LogIInv
<1>1. Log!Init => LogIInv BY LogInitIInv
<1>2. LogIInv /\ [Log!Next]_Log!lvars => LogIInv'
  BY LogWriteKeeps, LogRenameKeeps, LogCreateKeeps, LogRemoveKeeps, LogBeginKeeps, LogStatArchivesKeeps,
    LogStatCurrentKeeps,
    LogCheckKeeps, LogOpenKeeps, LogPushKeeps, LogSaveKeeps, LogCrashKeeps, LogStutterKeeps
  DEF Log!Next
<1>3. QED BY <1>1, <1>2, PTL DEF Log!Spec

\* No line before the saved cursor is unsent, unless retention removed it first
\* (save_state, log_forwarder.py).
THEOREM LogNothingSkipped == Log!Spec => []Log!NoLineSkipped
<1>1. LogIInv => Log!NoLineSkipped
  <2> SUFFICES ASSUME LogIInv, cursor.inode \in Log!Present,
                      NEW n \in 1 .. file[cursor.inode].first + cursor.position - 1
               PROVE  n \in delivered \cup expired
    BY DEF Log!NoLineSkipped
  <2>1. Log!Present \subseteq Nat
    <3>1. Log!Archived = LogLow .. LogHigh /\ LogLow \in Nat /\ LogHigh \in Int /\ Len(file) \in Nat
      BY LogArchivedIs DEF LogIInv
    <3>2. current # None => current \in Nat BY <3>1 DEF LogIInv, LogArchivesAreInOrder
    <3>3. QED BY <3>1, <3>2 DEF Log!Present
  <2>2. cursor.inode # None BY LogAssumption, <2>1
  <2>3. cursor.inode \in 1 .. Len(file) /\ cursor.position \in Nat
        /\ LogBefore(file[cursor.inode].first + cursor.position, delivered)
    BY <2>2 DEF LogIInv, LogReached
  <2>4. file[cursor.inode].first \in Nat BY <2>3, LogSizeType DEF LogIInv
  <2>5. n \in Nat /\ 1 <= n /\ n < file[cursor.inode].first + cursor.position BY <2>3, <2>4
  <2>6. QED BY <2>3, <2>5 DEF LogBefore
<1>2. QED BY <1>1, LogInductive, PTL

\* What all parts do is, as far as this one goes, what it does.
LEMMA LogRuns == Spec => Log!Spec
<1>1. Init => Log!Init BY DEF Init
<1>2. [Next]_vars => [Log!Next]_Log!lvars
  <2> SUFFICES ASSUME [Next]_vars PROVE Log!Next \/ UNCHANGED logVars
    BY DEF Log!lvars, logVars
  <2>1. CASE UNCHANGED vars BY <2>1 DEF vars
  <2>2. ASSUME NEW p \in Parts, p # "log", Only(p) PROVE UNCHANGED logVars
    BY <2>2 DEF Only
  <2>3. QED BY <2>1, <2>2 DEF Next, Parts
<1>3. QED BY <1>1, <1>2, PTL DEF Spec, Log!Spec

\* Every line before the saved cursor was delivered, or had been removed, for any
\* number of lines, files and retained archives, any size of a batch and any order
\* of rotations, failed pushes and saves, and crashes (log_forwarder.py).
THEOREM NothingSkipped == Spec => []NoLineSkipped
BY LogRuns, LogNothingSkipped, PTL DEF NoLineSkipped

-----------------------------------------------------------------------------
(* The journal of pre-charge requests *)

\* A thread between the reservation and the confirmation of its request
InboxInside(t) == thread[t].at \in {"enqueue", "confirm"}

\* The lock of _accept_request_locked is held by one thread at a time, and by none
\* while the journal is unreadable.
InboxOneInside ==
  /\ \A t, u \in Threads : InboxInside(t) /\ InboxInside(u) => t = u
  /\ error => \A t \in Threads : ~InboxInside(t)

\* Inside, the reservation stands in memory and in the file, and the intent was
\* queued or was not, as the step says.
InboxReservationStands ==
  \A t \in Threads :
    LET r == thread[t].request IN
    InboxInside(t) => /\ journal[r] = "uncertain" /\ journalFile[r] = "uncertain"
                      /\ queued[r] = IF thread[t].at = "enqueue" THEN 0 ELSE 1

\* A request that was queued keeps a record while it may still be delivered; this
\* is what a failed save or a crash must not take away.
InboxQueuedIsRecorded ==
  \A r \in Requests :
    queued[r] > 0 /\ age[r] # "old" => journalFile[r] # None /\ (error \/ journal[r] # None)

\* A record that says so is true, in memory as in the file.
InboxAcceptedWasQueued ==
  \A r \in Requests :
    age[r] # "old" /\ "accepted" \in {journal[r], journalFile[r]} => queued[r] = 1

InboxAtMostOnce == \A r \in Requests : queued[r] \in {0, 1}

InboxIInv ==
  /\ Precharge!TypeOK /\ InboxOneInside /\ InboxReservationStands /\ InboxQueuedIsRecorded
  /\ InboxAcceptedWasQueued /\ InboxAtMostOnce

LEMMA InboxInitIInv == ASSUME Precharge!Init PROVE InboxIInv
<1> USE InboxAssumption DEF Precharge!Init
<1>1. Precharge!TypeOK
  <2>1. journal \in [Requests -> Precharge!Statuses] /\ journalFile \in [Requests -> Precharge!Statuses]
    BY DEF Precharge!Statuses
  <2>2. faults \in 0 .. Faults BY SMT
  <2>6. error \in BOOLEAN BY Zenon
  <2>7. queued \in [Requests -> Nat] OBVIOUS
  <2>3. age \in [Requests -> {"live", "expired", "old"}] /\ intent \in {None} \cup Requests OBVIOUS
  <2>4. thread \in [Threads -> {Precharge!Idle} \cup [at : {"wait", "enqueue", "confirm"}, request : Requests]]
    OBVIOUS
  <2>5. QED BY <2>1, <2>2, <2>3, <2>4, <2>6, <2>7 DEF Precharge!TypeOK
<1>2. \A t \in Threads : ~InboxInside(t) BY DEF InboxInside, Precharge!Idle
<1>3. InboxOneInside /\ InboxReservationStands BY <1>2 DEF InboxOneInside, InboxReservationStands
<1>4. InboxQueuedIsRecorded /\ InboxAcceptedWasQueued /\ InboxAtMostOnce
  BY DEF InboxQueuedIsRecorded, InboxAcceptedWasQueued, InboxAtMostOnce
<1>5. QED BY <1>1, <1>3, <1>4 DEF InboxIInv

\* The journal without the records whose time is over
LEMMA InboxLiveRecords ==
  ASSUME Precharge!TypeOK
  PROVE  /\ Precharge!Live(journal) \in [Requests -> Precharge!Statuses]
         /\ \A r \in Requests : Precharge!Live(journal)[r] = IF age[r] = "old" THEN None ELSE journal[r]
BY DEF Precharge!TypeOK, Precharge!Live, Precharge!Statuses

\* A request that is not answered from the journal was never queued.
LEMMA InboxUnansweredIsNew ==
  ASSUME InboxIInv, NEW t \in Threads, thread[t].at = "wait", Precharge!LockFree,
         ~Precharge!Answers(thread[t].request)
  PROVE  /\ thread[t].request \in Requests /\ ~error
         /\ age[thread[t].request] = "live" /\ journal[thread[t].request] = None
         /\ queued[thread[t].request] = 0
         /\ \A u \in Threads : ~InboxInside(u)
<1>1. thread[t].request \in Requests
  BY DEF InboxIInv, Precharge!TypeOK, Precharge!Idle
<1>2. ~error /\ age[thread[t].request] = "live" /\ journal[thread[t].request] = None
  BY <1>1, InboxLiveRecords DEF Precharge!Answers, InboxIInv
<1>3. queued[thread[t].request] = 0
  BY <1>1, <1>2 DEF InboxIInv, InboxQueuedIsRecorded, InboxAtMostOnce
<1>4. QED
  BY <1>1, <1>2, <1>3 DEF Precharge!LockFree, InboxInside

LEMMA InboxReceiveKeeps ==
  ASSUME InboxIInv, NEW t \in Threads, NEW r \in Requests, Precharge!Receive(t, r)
  PROVE  InboxIInv'
<1> USE DEF Precharge!Receive
<1>1. Precharge!TypeOK' BY DEF InboxIInv, Precharge!TypeOK, Precharge!Idle
<1>2. \A u \in Threads : InboxInside(u)' => InboxInside(u) /\ thread'[u] = thread[u]
  BY DEF InboxIInv, Precharge!TypeOK, InboxInside
<1>3. InboxOneInside' /\ InboxReservationStands' BY <1>2 DEF InboxIInv, InboxOneInside, InboxReservationStands
<1>4. InboxQueuedIsRecorded' /\ InboxAcceptedWasQueued' /\ InboxAtMostOnce'
  BY DEF InboxIInv, InboxQueuedIsRecorded, InboxAcceptedWasQueued, InboxAtMostOnce
<1>5. QED BY <1>1, <1>3, <1>4 DEF InboxIInv

LEMMA InboxAnswerKeeps == ASSUME InboxIInv, NEW t \in Threads, Precharge!Answer(t) PROVE InboxIInv'
<1> USE DEF Precharge!Answer, Precharge!Done
<1>1. Precharge!TypeOK' BY DEF InboxIInv, Precharge!TypeOK
<1>2. \A u \in Threads : InboxInside(u)' => InboxInside(u) /\ thread'[u] = thread[u]
  BY DEF InboxIInv, Precharge!TypeOK, InboxInside, Precharge!Idle
<1>3. InboxOneInside' /\ InboxReservationStands' BY <1>2 DEF InboxIInv, InboxOneInside, InboxReservationStands
<1>4. InboxQueuedIsRecorded' /\ InboxAcceptedWasQueued' /\ InboxAtMostOnce'
  BY DEF InboxIInv, InboxQueuedIsRecorded, InboxAcceptedWasQueued, InboxAtMostOnce
<1>5. QED BY <1>1, <1>3, <1>4 DEF InboxIInv

LEMMA InboxSuppressKeeps == ASSUME InboxIInv, NEW t \in Threads, Precharge!Suppress(t) PROVE InboxIInv'
<1> DEFINE r == thread[t].request
           records == [Precharge!Live(journal) EXCEPT ![r] = "suppressed"]
<1>1. r \in Requests /\ ~error /\ age[r] = "live" /\ queued[r] = 0 /\ \A u \in Threads : ~InboxInside(u)
  BY InboxUnansweredIsNew DEF Precharge!Suppress
<1>2. /\ records \in [Requests -> Precharge!Statuses]
      /\ \A q \in Requests :
           records[q] = IF q = r THEN "suppressed" ELSE IF age[q] = "old" THEN None ELSE journal[q]
  BY <1>1, InboxLiveRecords DEF InboxIInv, Precharge!Statuses
<1>3. /\ journal' \in {journal, records} /\ journalFile' \in {journalFile, records}
      /\ age' = age /\ queued' = queued /\ error' = error
  BY DEF Precharge!Suppress, Precharge!Fault
<1> HIDE DEF records
<1>4. thread' \in [Threads -> {Precharge!Idle} \cup [at : {"wait", "enqueue", "confirm"}, request : Requests]]
      /\ \A u \in Threads : ~InboxInside(u)'
  BY <1>1 DEF Precharge!Suppress, Precharge!Done, InboxIInv, Precharge!TypeOK, InboxInside, Precharge!Idle
<1>5. Precharge!TypeOK'
  <2>1. faults' \in 0 .. Faults
    BY InboxAssumption DEF Precharge!Suppress, Precharge!Fault, InboxIInv, Precharge!TypeOK
  <2>2. intent' = intent BY DEF Precharge!Suppress
  <2>3. QED BY <1>2, <1>3, <1>4, <2>1, <2>2 DEF InboxIInv, Precharge!TypeOK
<1>6. InboxOneInside' /\ InboxReservationStands' BY <1>4 DEF InboxOneInside, InboxReservationStands
<1>7. InboxQueuedIsRecorded'
  BY InboxAssumption, <1>1, <1>2, <1>3 DEF InboxIInv, InboxQueuedIsRecorded
<1>8. InboxAcceptedWasQueued'
  BY InboxAssumption, <1>1, <1>2, <1>3 DEF InboxIInv, InboxAcceptedWasQueued
<1>9. InboxAtMostOnce' BY <1>3 DEF InboxIInv, InboxAtMostOnce
<1>10. QED BY <1>5, <1>6, <1>7, <1>8, <1>9 DEF InboxIInv

LEMMA InboxReserveKeeps == ASSUME InboxIInv, NEW t \in Threads, Precharge!Reserve(t) PROVE InboxIInv'
<1> DEFINE r == thread[t].request
           records == [Precharge!Live(journal) EXCEPT ![r] = "uncertain"]
<1>1. r \in Requests /\ ~error /\ age[r] = "live" /\ queued[r] = 0 /\ \A u \in Threads : ~InboxInside(u)
  BY InboxUnansweredIsNew DEF Precharge!Reserve
<1>2. /\ records \in [Requests -> Precharge!Statuses]
      /\ \A q \in Requests :
           records[q] = IF q = r THEN "uncertain" ELSE IF age[q] = "old" THEN None ELSE journal[q]
  BY <1>1, InboxLiveRecords DEF InboxIInv, Precharge!Statuses
<1>3. /\ journal' = records /\ journalFile' \in {journalFile, records}
      /\ age' = age /\ queued' = queued /\ error' = error /\ intent' = intent
  BY DEF Precharge!Reserve, Precharge!Fault
<1>4. \/ journalFile' = records /\ Precharge!To(t, "enqueue") /\ faults' = faults
      \/ Precharge!Done(t) /\ Precharge!Fault
  BY DEF Precharge!Reserve
<1> HIDE DEF records
<1>5. thread' \in [Threads -> {Precharge!Idle} \cup [at : {"wait", "enqueue", "confirm"}, request : Requests]]
  BY <1>1, <1>4 DEF Precharge!Reserve, Precharge!Done, Precharge!To, InboxIInv, Precharge!TypeOK, Precharge!Idle
<1>6. \A u \in Threads : InboxInside(u)' => u = t /\ journalFile' = records /\ thread'[u].at = "enqueue"
      /\ thread'[u].request = r
  BY <1>1, <1>4 DEF Precharge!Reserve, Precharge!Done, Precharge!To, InboxIInv, Precharge!TypeOK, InboxInside,
    Precharge!Idle
<1>7. Precharge!TypeOK'
  <2>1. faults' \in 0 .. Faults BY InboxAssumption, <1>4 DEF Precharge!Fault, InboxIInv, Precharge!TypeOK
  <2>2. QED BY <1>2, <1>3, <1>5, <2>1 DEF InboxIInv, Precharge!TypeOK
<1>8. InboxOneInside' BY <1>1, <1>3, <1>6 DEF InboxOneInside
<1>9. InboxReservationStands' BY <1>1, <1>2, <1>3, <1>6 DEF InboxReservationStands
<1>10. InboxQueuedIsRecorded'
  BY InboxAssumption, <1>1, <1>2, <1>3 DEF InboxIInv, InboxQueuedIsRecorded
<1>11. InboxAcceptedWasQueued'
  BY InboxAssumption, <1>1, <1>2, <1>3 DEF InboxIInv, InboxAcceptedWasQueued
<1>12. InboxAtMostOnce' BY <1>3 DEF InboxIInv, InboxAtMostOnce
<1>13. QED BY <1>7, <1>8, <1>9, <1>10, <1>11, <1>12 DEF InboxIInv

LEMMA InboxEnqueueKeeps == ASSUME InboxIInv, NEW t \in Threads, Precharge!Enqueue(t) PROVE InboxIInv'
<1> DEFINE r == thread[t].request
<1>1. r \in Requests /\ InboxInside(t) /\ queued[r] = 0 /\ journal[r] = "uncertain" /\ journalFile[r] = "uncertain"
  BY DEF Precharge!Enqueue, InboxIInv, Precharge!TypeOK, Precharge!Idle, InboxInside, InboxReservationStands
<1>2. /\ queued' = [queued EXCEPT ![r] = 1]
      /\ age' = age /\ journal' = journal /\ journalFile' = journalFile /\ error' = error /\ faults' = faults
  BY <1>1 DEF Precharge!Enqueue, InboxIInv, Precharge!TypeOK
<1>3. Precharge!TypeOK'
  BY <1>1, <1>2 DEF Precharge!Enqueue, Precharge!To, InboxIInv, Precharge!TypeOK, Precharge!Idle
<1>4. \A u \in Threads : InboxInside(u)' => InboxInside(u) /\ thread'[u].request = thread[u].request
  BY <1>1 DEF Precharge!Enqueue, Precharge!To, InboxIInv, Precharge!TypeOK, InboxInside
<1>5. InboxOneInside' BY <1>2, <1>4 DEF InboxIInv, InboxOneInside
<1>6. InboxReservationStands'
  <2> SUFFICES ASSUME NEW u \in Threads, InboxInside(u)'
               PROVE  LET q == thread'[u].request IN
                      /\ journal'[q] = "uncertain" /\ journalFile'[q] = "uncertain"
                      /\ queued'[q] = IF thread'[u].at = "enqueue" THEN 0 ELSE 1
    BY DEF InboxReservationStands
  <2>1. u = t BY <1>1, <1>4 DEF InboxIInv, InboxOneInside
  <2>2. thread'[t].at = "confirm" /\ thread'[t].request = r
    BY <1>1 DEF Precharge!Enqueue, Precharge!To, InboxIInv, Precharge!TypeOK, Precharge!Idle
  <2>3. QED BY <1>1, <1>2, <2>1, <2>2 DEF InboxIInv, Precharge!TypeOK
<1>7. InboxQueuedIsRecorded'
  <2>1. ~error BY <1>1 DEF InboxIInv, InboxOneInside
  <2>2. journalFile[r] # None /\ journal[r] # None BY InboxAssumption, <1>1
  <2>3. QED BY <1>1, <1>2, <2>1, <2>2 DEF InboxIInv, Precharge!TypeOK, InboxQueuedIsRecorded
<1>8. InboxAcceptedWasQueued' BY <1>1, <1>2 DEF InboxIInv, Precharge!TypeOK, InboxAcceptedWasQueued
<1>9. InboxAtMostOnce' BY <1>1, <1>2 DEF InboxIInv, Precharge!TypeOK, InboxAtMostOnce
<1>10. QED BY <1>3, <1>5, <1>6, <1>7, <1>8, <1>9 DEF InboxIInv

LEMMA InboxConfirmKeeps == ASSUME InboxIInv, NEW t \in Threads, Precharge!Confirm(t) PROVE InboxIInv'
<1> DEFINE r == thread[t].request
           confirmed == [journal EXCEPT ![r] = "accepted"]
<1>1. r \in Requests /\ InboxInside(t) /\ queued[r] = 1 /\ journal[r] = "uncertain" /\ ~error
  BY DEF Precharge!Confirm, InboxIInv, Precharge!TypeOK, Precharge!Idle, InboxInside, InboxOneInside,
    InboxReservationStands
<1>2. Precharge!Sticky(journal, r) = journal
  BY <1>1 DEF Precharge!Sticky, InboxIInv, Precharge!TypeOK
<1>3. /\ confirmed \in [Requests -> Precharge!Statuses]
      /\ \A q \in Requests : confirmed[q] = IF q = r THEN "accepted" ELSE journal[q]
  BY <1>1 DEF InboxIInv, Precharge!TypeOK, Precharge!Statuses
<1>4. /\ journal' \in {journal, confirmed} /\ journalFile' \in {journalFile, confirmed}
      /\ age' = age /\ queued' = queued /\ error' = error /\ intent' = intent
  BY <1>2 DEF Precharge!Confirm, Precharge!Fault
<1> HIDE DEF confirmed
<1>5. faults' \in 0 .. Faults
  BY InboxAssumption DEF Precharge!Confirm, Precharge!Fault, InboxIInv, Precharge!TypeOK
<1>6. thread' = [thread EXCEPT ![t] = Precharge!Idle]
  BY DEF Precharge!Confirm, Precharge!Done
<1>7. \A u \in Threads : ~InboxInside(u)'
  BY <1>1, <1>6 DEF InboxIInv, InboxOneInside, Precharge!TypeOK, InboxInside, Precharge!Idle
<1>8. Precharge!TypeOK'
  BY <1>3, <1>4, <1>5, <1>6 DEF InboxIInv, Precharge!TypeOK
<1>9. InboxOneInside' /\ InboxReservationStands' BY <1>7 DEF InboxOneInside, InboxReservationStands
<1>10. InboxQueuedIsRecorded'
  BY InboxAssumption, <1>1, <1>3, <1>4 DEF InboxIInv, InboxQueuedIsRecorded
<1>11. InboxAcceptedWasQueued'
  BY <1>1, <1>3, <1>4 DEF InboxIInv, InboxAcceptedWasQueued
<1>12. InboxAtMostOnce' BY <1>4 DEF InboxIInv, InboxAtMostOnce
<1>13. QED BY <1>8, <1>9, <1>10, <1>11, <1>12 DEF InboxIInv

LEMMA InboxConsumeKeeps == ASSUME InboxIInv, Precharge!Consume PROVE InboxIInv'
<1> USE DEF Precharge!Consume
<1>1. Precharge!TypeOK' BY DEF InboxIInv, Precharge!TypeOK
<1>2. InboxOneInside' /\ InboxReservationStands' BY DEF InboxIInv, InboxOneInside, InboxReservationStands, InboxInside
<1>3. InboxQueuedIsRecorded' /\ InboxAcceptedWasQueued' /\ InboxAtMostOnce'
  BY DEF InboxIInv, InboxQueuedIsRecorded, InboxAcceptedWasQueued, InboxAtMostOnce
<1>4. QED BY <1>1, <1>2, <1>3 DEF InboxIInv

LEMMA InboxAgeKeeps == ASSUME InboxIInv, NEW r \in Requests, Precharge!Age(r) PROVE InboxIInv'
<1> USE DEF Precharge!Age
<1>1. Precharge!TypeOK' BY DEF InboxIInv, Precharge!TypeOK
<1>2. InboxOneInside' /\ InboxReservationStands' BY DEF InboxIInv, InboxOneInside, InboxReservationStands, InboxInside
<1>3. \A q \in Requests : age'[q] # "old" => age[q] # "old"
  BY DEF InboxIInv, Precharge!TypeOK
<1>4. InboxQueuedIsRecorded' /\ InboxAcceptedWasQueued' /\ InboxAtMostOnce'
  BY <1>3 DEF InboxIInv, InboxQueuedIsRecorded, InboxAcceptedWasQueued, InboxAtMostOnce
<1>5. QED BY <1>1, <1>2, <1>4 DEF InboxIInv

LEMMA InboxCrashKeeps == ASSUME InboxIInv, Precharge!Crash PROVE InboxIInv'
<1> USE DEF Precharge!Crash
<1>1. thread' \in [Threads -> {Precharge!Idle}] /\ \A u \in Threads : ~InboxInside(u)'
  BY DEF InboxInside, Precharge!Idle
<1>2. age' = age /\ journalFile' = journalFile /\ queued' = queued /\ intent' = None
  OBVIOUS
<1>3. \/ journal' = journalFile /\ error' = FALSE
      \/ journal' = [q \in Requests |-> None] /\ error' = TRUE
  OBVIOUS
<1>4. Precharge!TypeOK'
  <2>1. faults' \in 0 .. Faults BY InboxAssumption DEF Precharge!Fault, InboxIInv, Precharge!TypeOK
  <2>2. error' \in BOOLEAN BY <1>3
  <2>3. journal' \in [Requests -> Precharge!Statuses] BY <1>3 DEF InboxIInv, Precharge!TypeOK, Precharge!Statuses
  <2>4. QED BY <1>1, <1>2, <2>1, <2>2, <2>3 DEF InboxIInv, Precharge!TypeOK
<1>5. InboxOneInside' /\ InboxReservationStands' BY <1>1 DEF InboxOneInside, InboxReservationStands
<1>6. InboxQueuedIsRecorded'
  BY <1>2, <1>3 DEF InboxIInv, InboxQueuedIsRecorded
<1>7. InboxAcceptedWasQueued'
  BY InboxAssumption, <1>2, <1>3 DEF InboxIInv, InboxAcceptedWasQueued
<1>8. InboxAtMostOnce' BY <1>2 DEF InboxIInv, InboxAtMostOnce
<1>9. QED BY <1>4, <1>5, <1>6, <1>7, <1>8 DEF InboxIInv

LEMMA InboxStutterKeeps == ASSUME InboxIInv, UNCHANGED Precharge!jvars PROVE InboxIInv'
<1> USE DEF Precharge!jvars
<1>1. Precharge!TypeOK' BY DEF InboxIInv, Precharge!TypeOK
<1>2. InboxOneInside' /\ InboxReservationStands' BY DEF InboxIInv, InboxOneInside, InboxReservationStands, InboxInside
<1>3. InboxQueuedIsRecorded' /\ InboxAcceptedWasQueued' /\ InboxAtMostOnce'
  BY DEF InboxIInv, InboxQueuedIsRecorded, InboxAcceptedWasQueued, InboxAtMostOnce
<1>4. QED BY <1>1, <1>2, <1>3 DEF InboxIInv

\* The journal's invariant holds in every reachable state, whatever fails between
\* the reservation, the intent and the confirmation (_accept_request_locked).
THEOREM InboxInductive == Precharge!Spec => []InboxIInv
<1>1. Precharge!Init => InboxIInv BY InboxInitIInv
<1>2. InboxIInv /\ [Precharge!Next]_Precharge!jvars => InboxIInv'
  <2> SUFFICES ASSUME InboxIInv, [Precharge!Next]_Precharge!jvars PROVE InboxIInv'
    OBVIOUS
  <2>1. CASE \E t \in Threads : \E r \in Requests : Precharge!Receive(t, r) BY <2>1, InboxReceiveKeeps
  <2>2. CASE \E t \in Threads : Precharge!Answer(t) BY <2>2, InboxAnswerKeeps
  <2>3. CASE \E t \in Threads : Precharge!Suppress(t) BY <2>3, InboxSuppressKeeps
  <2>4. CASE \E t \in Threads : Precharge!Reserve(t) BY <2>4, InboxReserveKeeps
  <2>5. CASE \E t \in Threads : Precharge!Enqueue(t) BY <2>5, InboxEnqueueKeeps
  <2>6. CASE \E t \in Threads : Precharge!Confirm(t) BY <2>6, InboxConfirmKeeps
  <2>7. CASE \E r \in Requests : Precharge!Age(r) BY <2>7, InboxAgeKeeps
  <2>8. CASE Precharge!Consume BY <2>8, InboxConsumeKeeps
  <2>9. CASE Precharge!Crash BY <2>9, InboxCrashKeeps
  <2>10. CASE UNCHANGED Precharge!jvars BY <2>10, InboxStutterKeeps
  <2>11. QED BY <2>1, <2>2, <2>3, <2>4, <2>5, <2>6, <2>7, <2>8, <2>9, <2>10 DEF Precharge!Next
<1>3. QED BY <1>1, <1>2, PTL DEF Precharge!Spec

\* A request is queued at most once however often it is delivered, and a record
\* that says so is true, for any threads, requests and faults (precharge.py).
THEOREM InboxQueuedOnce == Precharge!Spec => []Precharge!QueuedAtMostOnce
<1>1. InboxIInv => Precharge!QueuedAtMostOnce
  BY DEF InboxIInv, InboxAtMostOnce, InboxAcceptedWasQueued, Precharge!QueuedAtMostOnce
<1>2. QED BY <1>1, InboxInductive, PTL

\* What all parts do is, as far as this one goes, what it does.
LEMMA InboxRuns == Spec => Precharge!Spec
<1>1. Init => Precharge!Init BY DEF Init
<1>2. [Next]_vars => [Precharge!Next]_Precharge!jvars
  <2> SUFFICES ASSUME [Next]_vars PROVE Precharge!Next \/ UNCHANGED inboxVars
    BY DEF Precharge!jvars, inboxVars
  <2>1. CASE UNCHANGED vars BY <2>1 DEF vars
  <2>2. ASSUME NEW p \in Parts, p # "inbox", Only(p) PROVE UNCHANGED inboxVars
    BY <2>2 DEF Only
  <2>3. QED BY <2>1, <2>2 DEF Next, Parts
<1>3. QED BY <1>1, <1>2, PTL DEF Spec, Precharge!Spec

\* One pre-charge per request, whatever is retried, fails or restarts, for any
\* threads, requests and faults (_accept_request_locked, precharge.py).
THEOREM QueuedOnce == Spec => []QueuedAtMostOnce
BY InboxRuns, InboxQueuedOnce, PTL DEF QueuedAtMostOnce

-----------------------------------------------------------------------------
(* The tariff *)

\* The edit being served was sent, and no later message takes its place.
TariffServesAnEdit == edit # None => sent[edit.request] # None

\* What was decided on stays true until the thread acts on it: the plan in force
\* moves only when the thread is done with the edit, or by a restart.
TariffStepStands ==
  edit # None =>
    /\ edit.step = "saving" => sent[edit.request].shown = plan
    /\ edit.step = "repeated" => sent[edit.request].plan = plan
    /\ edit.step = "saved" /\ ~manual => sent[edit.request].plan = Tariff!Loaded

TariffIInv == Tariff!TypeOK /\ TariffServesAnEdit /\ TariffStepStands /\ Tariff!PlanSurvives

LEMMA TariffLoadedType == ASSUME Tariff!TypeOK PROVE Tariff!Loaded \in Tariff!Plan
<1>1. Tariff!Default \in Tariffs BY TariffAssumption DEF Tariff!Default
<1>2. QED BY <1>1 DEF Tariff!TypeOK, Tariff!Loaded, Tariff!Plan

LEMMA TariffInitIInv == ASSUME Tariff!Init PROVE TariffIInv
<1>1. Tariff!Default \in Tariffs BY TariffAssumption DEF Tariff!Default
<1>2. plan = Tariff!Loaded /\ Tariff!Loaded \in Tariff!Plan /\ edit = None
  BY <1>1 DEF Tariff!Init, Tariff!Loaded, Tariff!Plan
<1>3. Tariff!TypeOK
  <2>1. setup \in {<<>>} \cup {<<p>> : p \in Tariff!Plan} BY DEF Tariff!Init, Tariff!Plan
  <2>2. sent \in [TariffEdits -> {None} \cup [shown : Tariff!Plan, plan : Tariff!Plan]] BY DEF Tariff!Init
  <2>3. tariffStatus \in [request : TariffEdits \cup {None}, error : BOOLEAN] BY DEF Tariff!Init
  <2>4. manual \in BOOLEAN BY DEF Tariff!Init
  <2>5. restarts \in 0 .. Reboots /\ installs \in 0 .. Installs BY TariffAssumption DEF Tariff!Init
  <2>6. QED BY <1>2, <2>1, <2>2, <2>3, <2>4, <2>5 DEF Tariff!TypeOK
<1>4. QED BY <1>2, <1>3 DEF TariffIInv, TariffServesAnEdit, TariffStepStands, Tariff!PlanSurvives

LEMMA TariffSendKeeps ==
  ASSUME TariffIInv, NEW e \in TariffEdits, NEW p \in Tariff!Plan, Tariff!Send(e, p)
  PROVE  TariffIInv'
<1> USE DEF Tariff!Send, TariffIInv
<1>1. sent' \in [TariffEdits -> {None} \cup [shown : Tariff!Plan, plan : Tariff!Plan]] BY DEF Tariff!TypeOK
<1>2. Tariff!TypeOK' BY <1>1 DEF Tariff!TypeOK
<1>3. edit # None => edit.request \in TariffEdits /\ sent'[edit.request] = sent[edit.request]
  BY DEF Tariff!TypeOK, TariffServesAnEdit
<1>4. Tariff!Loaded' = Tariff!Loaded BY DEF Tariff!Loaded
<1>5. TariffServesAnEdit' BY <1>3 DEF TariffServesAnEdit
<1>6. TariffStepStands' BY <1>3, <1>4 DEF TariffStepStands
<1>7. Tariff!PlanSurvives' BY <1>4 DEF Tariff!PlanSurvives
<1>8. QED BY <1>2, <1>5, <1>6, <1>7

LEMMA TariffApplyKeeps == ASSUME TariffIInv, NEW e \in TariffEdits, Tariff!Apply(e) PROVE TariffIInv'
<1> USE DEF TariffIInv
<1>1. PICK step \in Tariff!Fate(sent[e]) : edit' = [request |-> e, step |-> step] BY DEF Tariff!Apply
<1>2. step \in Tariff!Steps BY DEF Tariff!Fate, Tariff!Steps
<1>3. Tariff!TypeOK' BY <1>1, <1>2 DEF Tariff!Apply, Tariff!TypeOK
<1>4. Tariff!Loaded' = Tariff!Loaded BY DEF Tariff!Apply, Tariff!Loaded
<1>5. TariffServesAnEdit' BY <1>1 DEF Tariff!Apply, TariffServesAnEdit
<1>6. TariffStepStands' BY <1>1 DEF Tariff!Apply, TariffStepStands, Tariff!Fate
<1>7. Tariff!PlanSurvives' BY <1>4 DEF Tariff!Apply, Tariff!PlanSurvives
<1>8. QED BY <1>3, <1>5, <1>6, <1>7

LEMMA TariffSaveKeeps == ASSUME TariffIInv, Tariff!Save PROVE TariffIInv'
<1> USE DEF TariffIInv
<1>1. edit \in [request : TariffEdits, step : Tariff!Steps]
      /\ sent[edit.request] \in [shown : Tariff!Plan, plan : Tariff!Plan]
  BY DEF Tariff!Save, Tariff!TypeOK, TariffServesAnEdit
<1>2. /\ plan' = plan /\ sent' = sent /\ tariffStatus' = tariffStatus
      /\ restarts' = restarts /\ installs' = installs
  BY DEF Tariff!Save
<1>3. CASE setup' = <<sent[edit.request].plan>> /\ edit' = [edit EXCEPT !.step = "saved"] /\ manual' = FALSE
  <2>1. edit' \in [request : TariffEdits, step : Tariff!Steps] /\ edit'.request = edit.request /\ edit'.step = "saved"
    BY <1>1, <1>3 DEF Tariff!Steps
  <2>2. Tariff!Loaded' = sent[edit.request].plan
    BY <1>3 DEF Tariff!Loaded
  <2>3. edit' # None BY TariffAssumption, <2>1
  <2>4. Tariff!TypeOK' BY <1>1, <1>2, <1>3, <2>1 DEF Tariff!TypeOK
  <2>5. TariffServesAnEdit' BY <1>2, <2>1 DEF Tariff!Save, TariffServesAnEdit
  <2>6. TariffStepStands' BY <1>2, <2>1, <2>2 DEF TariffStepStands
  <2>7. Tariff!PlanSurvives' BY <2>1, <2>3 DEF Tariff!PlanSurvives
  <2>8. QED BY <2>4, <2>5, <2>6, <2>7
<1>4. CASE edit' = [edit EXCEPT !.step = "failed"] /\ UNCHANGED <<setup, manual>>
  <2>1. edit' \in [request : TariffEdits, step : Tariff!Steps] /\ edit'.request = edit.request
        /\ edit'.step = "failed"
    BY <1>1, <1>4 DEF Tariff!Steps
  <2>2. Tariff!Loaded' = Tariff!Loaded BY <1>4 DEF Tariff!Loaded
  <2>3. Tariff!TypeOK' BY <1>2, <1>4, <2>1 DEF Tariff!TypeOK
  <2>4. TariffServesAnEdit' BY <1>2, <2>1 DEF Tariff!Save, TariffServesAnEdit
  <2>5. TariffStepStands' BY <2>1 DEF TariffStepStands
  <2>6. Tariff!PlanSurvives' BY <1>2, <1>4, <2>2 DEF Tariff!Save, Tariff!PlanSurvives
  <2>7. QED BY <2>3, <2>4, <2>5, <2>6
<1>5. QED BY <1>3, <1>4 DEF Tariff!Save

LEMMA TariffAcknowledgeKeeps == ASSUME TariffIInv, Tariff!Acknowledge PROVE TariffIInv'
<1> USE DEF TariffIInv
<1>1. edit \in [request : TariffEdits, step : Tariff!Steps]
      /\ sent[edit.request] \in [shown : Tariff!Plan, plan : Tariff!Plan]
  BY DEF Tariff!Acknowledge, Tariff!Answerable, Tariff!TypeOK, TariffServesAnEdit
<1>2. edit.step \in {"saved", "failed", "repeated"} BY <1>1 DEF Tariff!Acknowledge, Tariff!Answerable, Tariff!Steps
<1>3. Tariff!TypeOK'
  <2>1. plan' \in Tariff!Plan BY <1>1 DEF Tariff!Acknowledge, Tariff!TypeOK
  <2>2. tariffStatus' \in [request : TariffEdits \cup {None}, error : BOOLEAN] BY <1>1 DEF Tariff!Acknowledge
  <2>3. QED BY <2>1, <2>2 DEF Tariff!Acknowledge, Tariff!TypeOK
<1>4. Tariff!Loaded' = Tariff!Loaded BY DEF Tariff!Acknowledge, Tariff!Loaded
<1>5. TariffServesAnEdit' /\ TariffStepStands' BY DEF Tariff!Acknowledge, TariffServesAnEdit, TariffStepStands
<1>6. Tariff!PlanSurvives'
  <2>1. CASE edit.step = "saved"
    BY <1>4, <2>1 DEF Tariff!Acknowledge, Tariff!Answerable, TariffStepStands, Tariff!PlanSurvives
  <2>2. CASE edit.step # "saved"
    BY <1>2, <1>4, <2>2 DEF Tariff!Acknowledge, Tariff!Answerable, TariffStepStands, Tariff!PlanSurvives
  <2>3. QED BY <2>1, <2>2
<1>7. QED BY <1>3, <1>5, <1>6

LEMMA TariffRestartKeeps == ASSUME TariffIInv, Tariff!Restart PROVE TariffIInv'
<1> USE DEF TariffIInv
<1>1. Tariff!Loaded' = Tariff!Loaded BY DEF Tariff!Restart, Tariff!Loaded
<1>2. Tariff!TypeOK'
  <2>1. plan' \in Tariff!Plan BY TariffLoadedType DEF Tariff!Restart
  <2>2. restarts' \in 0 .. Reboots BY TariffAssumption DEF Tariff!Restart, Tariff!TypeOK
  <2>3. tariffStatus' \in [request : TariffEdits \cup {None}, error : BOOLEAN] BY DEF Tariff!Restart
  <2>4. manual' \in BOOLEAN BY DEF Tariff!Restart
  <2>5. QED BY <2>1, <2>2, <2>3, <2>4 DEF Tariff!Restart, Tariff!TypeOK
<1>3. TariffServesAnEdit' /\ TariffStepStands' BY DEF Tariff!Restart, TariffServesAnEdit, TariffStepStands
<1>4. Tariff!PlanSurvives' BY <1>1 DEF Tariff!Restart, Tariff!PlanSurvives
<1>5. QED BY <1>2, <1>3, <1>4

LEMMA TariffInstallKeeps == ASSUME TariffIInv, NEW p \in Tariff!Plan, Tariff!Install(p) PROVE TariffIInv'
<1> USE DEF TariffIInv
<1>1. Tariff!TypeOK'
  <2>1. installs' \in 0 .. Installs BY TariffAssumption DEF Tariff!Install, Tariff!TypeOK
  <2>2. manual' \in BOOLEAN BY DEF Tariff!Install
  <2>3. QED BY <2>1, <2>2 DEF Tariff!Install, Tariff!TypeOK
<1>2. TariffServesAnEdit' /\ TariffStepStands' BY DEF Tariff!Install, TariffServesAnEdit, TariffStepStands
<1>3. Tariff!PlanSurvives' BY DEF Tariff!Install, Tariff!PlanSurvives
<1>4. QED BY <1>1, <1>2, <1>3

LEMMA TariffStutterKeeps == ASSUME TariffIInv, UNCHANGED Tariff!tariffVars PROVE TariffIInv'
<1> USE DEF TariffIInv, Tariff!tariffVars
<1>1. Tariff!TypeOK' BY DEF Tariff!TypeOK
<1>2. TariffServesAnEdit' BY DEF TariffServesAnEdit
<1>3. TariffStepStands' BY DEF TariffStepStands, Tariff!Loaded
<1>4. Tariff!PlanSurvives' BY DEF Tariff!PlanSurvives, Tariff!Loaded
<1>5. QED BY <1>1, <1>2, <1>3, <1>4

LEMMA TariffNextKeeps == ASSUME TariffIInv, [Tariff!Next]_Tariff!tariffVars PROVE TariffIInv'
<1>1. CASE \E e \in TariffEdits : Tariff!Apply(e) BY <1>1, TariffApplyKeeps
<1>2. CASE \E e \in TariffEdits : \E p \in Tariff!Plan : Tariff!Send(e, p) BY <1>2, TariffSendKeeps
<1>3. CASE Tariff!Save BY <1>3, TariffSaveKeeps
<1>4. CASE Tariff!Acknowledge BY <1>4, TariffAcknowledgeKeeps
<1>5. CASE Tariff!Restart BY <1>5, TariffRestartKeeps
<1>6. CASE \E p \in Tariff!Plan : Tariff!Install(p) BY <1>6, TariffInstallKeeps
<1>7. CASE UNCHANGED Tariff!tariffVars BY <1>7, TariffStutterKeeps
<1>8. QED BY <1>1, <1>2, <1>3, <1>4, <1>5, <1>6, <1>7 DEF Tariff!Next

\* The invariant of the tariff service holds in every reachable state, whatever
\* fails or restarts between the comparison, the save and the answer (apply).
THEOREM TariffInductive == Tariff!Spec => []TariffIInv
<1>1. Tariff!Init => TariffIInv BY TariffInitIInv
<1>2. TariffIInv /\ [Tariff!Next]_Tariff!tariffVars => TariffIInv' BY TariffNextKeeps
<1>3. QED BY <1>1, <1>2, PTL DEF Tariff!Spec

\* The plan in force is the one a restart brings back, unless the tool replaced
\* the file: the save comes before the acknowledgement (apply, write_tariff).
THEOREM TariffPlanIsDurable == Tariff!Spec => []Tariff!PlanSurvives
<1>1. TariffIInv => Tariff!PlanSurvives BY DEF TariffIInv
<1>2. QED BY <1>1, TariffInductive, PTL

\* A save never replaces a plan its editor was not shown, however late, repeated
\* or rival the edit (the comparison of the revisions in apply).
THEOREM TariffNoBlindSave == Tariff!Spec => Tariff!EditsMeetWhatWasShown
<1> DEFINE Meets == setup' # setup /\ installs' = installs /\ ~manual => sent[edit.request].shown = Tariff!Loaded
<1>1. TariffIInv /\ [Tariff!Next]_Tariff!tariffVars => [Meets]_Tariff!tariffVars
  <2> SUFFICES ASSUME TariffIInv, Tariff!Next, setup' # setup, installs' = installs, ~manual
               PROVE  sent[edit.request].shown = Tariff!Loaded
    BY DEF Tariff!tariffVars
  <2>1. \A p \in Tariff!Plan : ~Tariff!Install(p)
    BY DEF Tariff!Install, TariffIInv, Tariff!TypeOK
  <2>2. Tariff!Save BY <2>1 DEF Tariff!Next, Tariff!Apply, Tariff!Send, Tariff!Acknowledge, Tariff!Restart
  <2>3. plan = Tariff!Loaded BY <2>2 DEF Tariff!Save, TariffIInv, Tariff!PlanSurvives
  <2>4. QED BY <2>2, <2>3 DEF Tariff!Save, TariffIInv, TariffStepStands
<1>2. QED BY <1>1, TariffInductive, PTL DEF Tariff!Spec, Tariff!EditsMeetWhatWasShown

\* What all parts do is, as far as this one goes, what it does.
LEMMA TariffRuns == Spec => Tariff!Spec
<1>1. Init => Tariff!Init BY DEF Init
<1>2. [Next]_vars => [Tariff!Next]_Tariff!tariffVars
  <2> SUFFICES ASSUME [Next]_vars PROVE Tariff!Next \/ UNCHANGED tariffVars
    BY DEF Tariff!tariffVars, tariffVars
  <2>1. CASE UNCHANGED vars BY <2>1 DEF vars
  <2>2. ASSUME NEW p \in Parts, p # "tariff", Only(p) PROVE UNCHANGED tariffVars
    BY <2>2 DEF Only
  <2>3. QED BY <2>1, <2>2 DEF Next, Parts
<1>3. QED BY <1>1, <1>2, PTL DEF Spec, Tariff!Spec

\* An edit never replaces a tariff its editor was not shown, however late, repeated
\* or rival it is (the comparison of the revisions in apply, tariff_service.py).
THEOREM EditsAreInformed == Spec => Tariff!EditsMeetWhatWasShown
BY TariffRuns, TariffNoBlindSave, PTL

-----------------------------------------------------------------------------
(* The limits of the setpoint *)

\* The change under way has an ordered pair; once saved it is one to be kept, and
\* the file holds it, unless the tool replaced the file since.
LimitChangeStands ==
  change # None =>
    /\ change.limits.min <= change.limits.max
    /\ change.saved => change.persist /\ (~replaced => Limits!Loaded = change.limits)

LimitIInv == Limits!TypeOK /\ LimitChangeStands /\ Limits!LimitsSurvive

LEMMA LimitInitIInv == ASSUME Limits!Init PROVE LimitIInv
<1>1. Limits!Loaded = [min |-> -Absolute, max |-> Absolute] BY DEF Limits!Init, Limits!Loaded
<1>2. Limits!Loaded \in Limits!Limits /\ Limits!Loaded.min <= Limits!Loaded.max
  BY LimitsAssumption, <1>1 DEF Limits!Limits, Limits!Watts
<1>3. kept \in BOOLEAN /\ replaced \in BOOLEAN BY Zenon DEF Limits!Init
<1>4. Limits!TypeOK BY LimitsAssumption, <1>2, <1>3 DEF Limits!TypeOK, Limits!Init
<1>5. QED BY <1>2, <1>4 DEF LimitIInv, Limits!Init, LimitChangeStands, Limits!LimitsSurvive

\* What is loaded is a pair in range.
LEMMA LimitLoadedType == ASSUME Limits!TypeOK PROVE Limits!Loaded \in Limits!Limits
<1>1. [min |-> -Absolute, max |-> Absolute] \in Limits!Limits BY LimitsAssumption DEF Limits!Limits, Limits!Watts
<1>2. QED BY <1>1 DEF Limits!TypeOK, Limits!Loaded

\* Bringing the ends of a pair into range keeps their order.
LEMMA LimitWithinRange ==
  ASSUME NEW a \in Int, NEW b \in Int, a <= b
  PROVE  Limits!Within(a) \in Limits!Watts /\ Limits!Within(b) \in Limits!Watts
        /\ Limits!Within(a) <= Limits!Within(b)
BY LimitsAssumption DEF Limits!Within, Limits!Watts

LEMMA LimitAskKeeps ==
  ASSUME LimitIInv, NEW low \in {None} \cup -Absolute - 1 .. Absolute + 1,
         NEW high \in {None} \cup -Absolute - 1 .. Absolute + 1, NEW persist \in BOOLEAN,
         Limits!Ask(low, high, persist)
  PROVE  LimitIInv'
<1> DEFINE min == IF low = None THEN limits.min ELSE low
           max == IF high = None THEN limits.max ELSE high
           pair == [min |-> Limits!Within(min), max |-> Limits!Within(max)]
<1>1. limits.min \in Int /\ limits.max \in Int
  BY LimitsAssumption DEF LimitIInv, Limits!TypeOK, Limits!Limits, Limits!Watts
<1>2. min \in Int /\ max \in Int BY LimitsAssumption, <1>1
<1>3. min <= max BY DEF Limits!Ask, Limits!Ordered
<1>4. pair \in Limits!Limits /\ pair.min <= pair.max BY <1>2, <1>3, LimitWithinRange DEF Limits!Limits
<1>5. change' = [limits |-> pair, persist |-> persist, saved |-> FALSE] BY DEF Limits!Ask
<1> HIDE DEF pair
<1>6. change' \in [limits : Limits!Limits, persist : BOOLEAN, saved : BOOLEAN] /\ ~change'.saved
      /\ change'.limits = pair
  BY <1>4, <1>5
<1>7. Limits!Loaded' = Limits!Loaded BY DEF Limits!Ask, Limits!Loaded
<1>8. Limits!TypeOK' BY <1>6 DEF Limits!Ask, LimitIInv, Limits!TypeOK
<1>9. LimitChangeStands' BY <1>4, <1>6 DEF LimitChangeStands
<1>10. Limits!LimitsSurvive' BY <1>7 DEF Limits!Ask, LimitIInv, Limits!LimitsSurvive
<1>11. QED BY <1>8, <1>9, <1>10 DEF LimitIInv

LEMMA LimitSaveKeeps == ASSUME LimitIInv, Limits!Save PROVE LimitIInv'
<1>1. change \in [limits : Limits!Limits, persist : BOOLEAN, saved : BOOLEAN] /\ change.persist /\ ~change.saved
  BY DEF Limits!Save, LimitIInv, Limits!TypeOK
<1>2. limits' = limits /\ kept' = kept /\ starts' = starts /\ tools' = tools BY DEF Limits!Save
<1>3. CASE limitFile' = <<change.limits>> /\ change' = [change EXCEPT !.saved = TRUE] /\ replaced' = FALSE
  <2>1. /\ change' \in [limits : Limits!Limits, persist : BOOLEAN, saved : BOOLEAN]
        /\ change'.saved /\ change'.persist /\ change'.limits = change.limits
    BY <1>1, <1>3
  <2>2. Limits!Loaded' = change.limits BY <1>3 DEF Limits!Loaded
  <2>3. change' # None BY LimitsAssumption, <2>1
  <2>4. change.limits.min <= change.limits.max BY DEF Limits!Save, LimitIInv, LimitChangeStands
  <2>5. replaced' \in BOOLEAN BY <1>3
  <2>6. limitFile' \in {<<l>> : l \in Limits!Limits} BY <1>1, <1>3
  <2>7. Limits!TypeOK' BY <1>2, <2>1, <2>5, <2>6 DEF LimitIInv, Limits!TypeOK
  <2>8. LimitChangeStands' BY <2>1, <2>2, <2>4 DEF LimitChangeStands
  <2>9. Limits!LimitsSurvive' BY <1>2, <2>1, <2>2, <2>3, <2>4 DEF LimitIInv, Limits!LimitsSurvive
  <2>10. QED BY <2>7, <2>8, <2>9 DEF LimitIInv
<1>4. CASE change' = Limits!Unsaved /\ UNCHANGED <<limitFile, replaced>>
  <2>1. Limits!Loaded' = Limits!Loaded BY <1>4 DEF Limits!Loaded
  <2>2. Limits!TypeOK' BY <1>2, <1>4 DEF LimitIInv, Limits!TypeOK, Limits!Unsaved
  <2>3. LimitChangeStands' BY <1>4 DEF LimitChangeStands, Limits!Unsaved
  <2>4. Limits!LimitsSurvive' BY <1>1, <1>2, <1>4, <2>1 DEF LimitIInv, Limits!LimitsSurvive
  <2>5. QED BY <2>2, <2>3, <2>4 DEF LimitIInv
<1>5. QED BY <1>3, <1>4 DEF Limits!Save

LEMMA LimitUseKeeps == ASSUME LimitIInv, Limits!Use PROVE LimitIInv'
<1>1. change \in [limits : Limits!Limits, persist : BOOLEAN, saved : BOOLEAN]
  BY DEF Limits!Use, LimitIInv, Limits!TypeOK
<1>2. Limits!Loaded' = Limits!Loaded BY DEF Limits!Use, Limits!Loaded
<1>3. Limits!TypeOK' BY <1>1 DEF Limits!Use, LimitIInv, Limits!TypeOK
<1>4. LimitChangeStands' BY DEF Limits!Use, LimitChangeStands
<1>5. Limits!LimitsSurvive' BY <1>1, <1>2 DEF Limits!Use, LimitIInv, LimitChangeStands, Limits!LimitsSurvive
<1>6. QED BY <1>3, <1>4, <1>5 DEF LimitIInv

LEMMA LimitRestartKeeps == ASSUME LimitIInv, Limits!Restart PROVE LimitIInv'
<1>1. Limits!Loaded' = Limits!Loaded BY DEF Limits!Restart, Limits!Loaded
<1>2. starts' \in 0 .. Reboots BY LimitsAssumption DEF Limits!Restart, LimitIInv, Limits!TypeOK
<1>3. kept' \in BOOLEAN /\ replaced' \in BOOLEAN BY Zenon DEF Limits!Restart
<1>4. limits' \in Limits!Limits BY LimitLoadedType DEF LimitIInv, Limits!Restart
<1>5. Limits!TypeOK' BY <1>2, <1>3, <1>4 DEF Limits!Restart, LimitIInv, Limits!TypeOK
<1>6. LimitChangeStands' BY DEF Limits!Restart, LimitChangeStands
<1>7. Limits!LimitsSurvive' BY <1>1 DEF Limits!Restart, LimitIInv, Limits!LimitsSurvive
<1>8. QED BY <1>5, <1>6, <1>7 DEF LimitIInv

LEMMA LimitInstallKeeps == ASSUME LimitIInv, NEW l \in Limits!Limits, Limits!Install(l) PROVE LimitIInv'
<1>1. tools' \in 0 .. Installs BY LimitsAssumption DEF Limits!Install, LimitIInv, Limits!TypeOK
<1>2. replaced' \in BOOLEAN /\ replaced' BY Zenon DEF Limits!Install
<1>3. Limits!Loaded' = l BY DEF Limits!Install, Limits!Loaded
<1>4. Limits!TypeOK' BY <1>1, <1>2 DEF Limits!Install, LimitIInv, Limits!TypeOK
<1>5. LimitChangeStands' BY <1>2 DEF Limits!Install, LimitIInv, LimitChangeStands
<1>6. Limits!LimitsSurvive' BY <1>2, <1>3 DEF Limits!Install, LimitIInv, Limits!LimitsSurvive
<1>7. QED BY <1>4, <1>5, <1>6 DEF LimitIInv

LEMMA LimitStutterKeeps == ASSUME LimitIInv, UNCHANGED Limits!limitVars PROVE LimitIInv'
<1>1. Limits!Loaded' = Limits!Loaded BY DEF Limits!limitVars, Limits!Loaded
<1>2. Limits!TypeOK' BY DEF LimitIInv, Limits!TypeOK, Limits!limitVars
<1>3. LimitChangeStands' BY <1>1 DEF LimitIInv, LimitChangeStands, Limits!limitVars
<1>4. Limits!LimitsSurvive' BY <1>1 DEF LimitIInv, Limits!LimitsSurvive, Limits!limitVars
<1>5. QED BY <1>2, <1>3, <1>4 DEF LimitIInv

LEMMA LimitNextKeeps == ASSUME LimitIInv, [Limits!Next]_Limits!limitVars PROVE LimitIInv'
<1>1. CASE \E low, high \in {None} \cup -Absolute - 1 .. Absolute + 1, persist \in BOOLEAN :
             Limits!Ask(low, high, persist)
  BY <1>1, LimitAskKeeps
<1>2. CASE Limits!Save BY <1>2, LimitSaveKeeps
<1>3. CASE Limits!Use BY <1>3, LimitUseKeeps
<1>4. CASE Limits!Restart BY <1>4, LimitRestartKeeps
<1>5. CASE \E l \in Limits!Limits : Limits!Install(l) BY <1>5, LimitInstallKeeps
<1>6. CASE UNCHANGED Limits!limitVars BY <1>6, LimitStutterKeeps
<1>7. QED BY <1>1, <1>2, <1>3, <1>4, <1>5, <1>6 DEF Limits!Next

\* The limits are in order and in range, and those that were saved for good are
\* in the file, between the validation, the save and the change of the values in
\* use (set_power_limits, controller.py; power_limits.py).
THEOREM LimitInductive == Limits!Spec => []LimitIInv
<1>1. Limits!Init => LimitIInv BY LimitInitIInv
<1>2. LimitIInv /\ [Limits!Next]_Limits!limitVars => LimitIInv' BY LimitNextKeeps
<1>3. QED BY <1>1, <1>2, PTL DEF Limits!Spec

\* What all parts do is, as far as this one goes, what it does.
LEMMA LimitRuns == Spec => Limits!Spec
<1>1. Init => Limits!Init BY DEF Init
<1>2. [Next]_vars => [Limits!Next]_Limits!limitVars
  <2> SUFFICES ASSUME [Next]_vars PROVE Limits!Next \/ UNCHANGED limitVars
    BY DEF Limits!limitVars, limitVars
  <2>1. CASE UNCHANGED vars BY <2>1 DEF vars
  <2>2. ASSUME NEW p \in Parts, p # "limits", Only(p) PROVE UNCHANGED limitVars
    BY <2>2 DEF Only
  <2>3. QED BY <2>1, <2>2 DEF Next, Parts
<1>3. QED BY <1>1, <1>2, PTL DEF Spec, Limits!Spec

\* Limits and a tariff chosen for good are those of the next start, whatever fails
\* or restarts between the save and its use; limits stay ordered
\* (set_power_limits, controller.py; apply, tariff_service.py).
THEOREM ChosenForGood == Spec => []ChoicesSurvive
<1>1. LimitIInv /\ Tariff!PlanSurvives => ChoicesSurvive BY DEF LimitIInv, ChoicesSurvive
<1>2. QED BY <1>1, LimitRuns, LimitInductive, TariffRuns, TariffPlanIsDurable, PTL

-----------------------------------------------------------------------------
(* The dump loads *)

LoadWorkerType ==
  worker \in [at : {"idle", "check", "call", "calling", "exited"}, batch : {None} \cup Dump!Batches,
              load : 1 .. LoadCount, late : 0 .. 1]

\* Generations only grow: a batch is of the present generation or of an earlier one.
LoadBatchesAreOlder ==
  /\ generation \in 0 .. Generations
  /\ waiting \in {None} \cup Dump!Batches /\ (waiting # None => waiting.generation <= generation)
  /\ worker.batch # None => worker.batch.generation <= generation
  /\ worker.at \in {"check", "call", "calling"} => worker.batch # None

\* A late call is the last one of a batch that stays retired.
LoadLateIsLast == worker.late # 0 => worker.at \in {"check", "calling"} /\ Dump!Retired(worker.batch)

\* No request is left once minimize_charging is off.
LoadNothingWaits == ~flag => waiting = None

LoadIInv == LoadWorkerType /\ LoadBatchesAreOlder /\ LoadLateIsLast /\ LoadNothingWaits

\* What the loop and the operator do: the worker is left alone and what is retired
\* stays so.
LEMMA LoadOthersKeep ==
  ASSUME LoadIInv, worker' = worker, generation' \in 0 .. Generations, generation <= generation',
         running' => running, waiting' \in {None} \cup Dump!Batches,
         waiting' # None => waiting'.generation <= generation', ~flag' => waiting' = None
  PROVE  LoadIInv'
<1>1. LoadWorkerType' BY DEF LoadIInv, LoadWorkerType
<1>2. worker.batch # None => worker.batch.generation \in Nat BY DEF LoadIInv, LoadWorkerType, Dump!Batches
<1>3. LoadBatchesAreOlder' BY <1>2 DEF LoadIInv, LoadBatchesAreOlder
<1>4. LoadLateIsLast'
  <2> SUFFICES ASSUME worker.late # 0 PROVE worker.at \in {"check", "calling"} /\ Dump!Retired(worker.batch)'
    BY DEF LoadLateIsLast
  <2>1. worker.at \in {"check", "calling"} /\ Dump!Retired(worker.batch) /\ worker.batch # None
    BY DEF LoadIInv, LoadLateIsLast, LoadBatchesAreOlder
  <2>2. QED BY <1>2, <2>1 DEF Dump!Retired, LoadIInv, LoadBatchesAreOlder
<1>5. LoadNothingWaits' BY DEF LoadNothingWaits
<1>6. QED BY <1>1, <1>3, <1>4, <1>5 DEF LoadIInv

LEMMA LoadRequestKeeps == ASSUME LoadIInv, loop \in {None} \cup BOOLEAN, Dump!Request PROVE LoadIInv'
<1>1. generation \in Nat /\ generation <= Generations BY DEF LoadIInv, LoadBatchesAreOlder
<1>2. CASE ~Dump!Admitted /\ UNCHANGED <<generation, loadIntent, waiting>>
  BY <1>2, LoadOthersKeep DEF Dump!Request, LoadIInv, LoadBatchesAreOlder, LoadNothingWaits
<1>3. ASSUME NEW next, next = generation + (IF loadIntent = loop THEN 0 ELSE 1), Dump!Admitted, next <= Generations,
             generation' = next, waiting' = [on |-> loop, generation |-> next, fresh |-> TRUE]
      PROVE  LoadIInv'
  <2>1. next \in 0 .. Generations /\ generation <= next BY <1>1, <1>3 DEF LoadIInv, LoadBatchesAreOlder
  <2>2. loop \in BOOLEAN BY DEF Dump!Request
  <2>3. waiting' \in Dump!Batches /\ waiting'.generation = next BY <1>3, <2>1, <2>2 DEF Dump!Batches
  <2>4. flag' BY <1>3 DEF Dump!Request, Dump!Admitted
  <2>5. worker' = worker /\ running' = running BY DEF Dump!Request
  <2>6. QED BY <1>3, <2>1, <2>3, <2>4, <2>5, LoadOthersKeep
<1>4. QED BY <1>2, <1>3 DEF Dump!Request

LEMMA LoadRetireKeeps ==
  ASSUME LoadIInv, Dump!Retire, worker' = worker, running' => running
  PROVE  LoadIInv'
<1>1. generation' \in 0 .. Generations /\ generation <= generation' /\ waiting' = None
  BY LoadsAssumption DEF Dump!Retire, LoadIInv, LoadBatchesAreOlder
<1>2. QED BY <1>1, LoadOthersKeep

LEMMA LoadFlagChangesKeeps == ASSUME LoadIInv, Dump!FlagChanges PROVE LoadIInv'
<1>1. CASE flag BY <1>1, LoadRetireKeeps DEF Dump!FlagChanges
<1>2. CASE ~flag
  BY <1>2, LoadOthersKeep DEF Dump!FlagChanges, LoadIInv, LoadBatchesAreOlder, LoadNothingWaits
<1>3. QED BY <1>1, <1>2

LEMMA LoadExpireKeeps == ASSUME LoadIInv, Dump!Expire PROVE LoadIInv'
<1>1. ASSUME NEW b \in {None} \cup Dump!Batches
      PROVE  /\ Dump!Stale(b) \in {None} \cup Dump!Batches /\ (Dump!Stale(b) = None <=> b = None)
             /\ b # None => Dump!Stale(b).generation = b.generation /\ ~Dump!Stale(b).fresh
  BY LoadsAssumption, <1>1 DEF Dump!Stale, Dump!Batches
<1>2. /\ worker' = [worker EXCEPT !.batch = Dump!Stale(worker.batch)] /\ waiting' = Dump!Stale(waiting)
      /\ flag' = flag /\ running' = running /\ generation' = generation
  BY DEF Dump!Expire
<1>3. worker.batch \in {None} \cup Dump!Batches /\ waiting \in {None} \cup Dump!Batches
  BY DEF LoadIInv, LoadWorkerType, LoadBatchesAreOlder
<1>4. /\ LoadWorkerType' /\ worker'.at = worker.at /\ worker'.late = worker.late
      /\ worker'.batch = Dump!Stale(worker.batch)
  BY <1>1, <1>2, <1>3 DEF LoadIInv, LoadWorkerType
<1>5. LoadBatchesAreOlder' BY <1>1, <1>2, <1>3, <1>4 DEF LoadIInv, LoadBatchesAreOlder
<1>6. LoadLateIsLast'
  <2> SUFFICES ASSUME worker'.late # 0 PROVE worker'.at \in {"check", "calling"} /\ Dump!Retired(worker.batch)'
    BY DEF LoadLateIsLast
  <2>1. worker.at \in {"check", "calling"} /\ worker.batch # None
    BY <1>4 DEF LoadIInv, LoadLateIsLast, LoadBatchesAreOlder
  <2>2. QED BY <1>1, <1>3, <1>4, <2>1 DEF Dump!Retired
<1>7. LoadNothingWaits' BY <1>1, <1>2, <1>3 DEF LoadIInv, LoadNothingWaits
<1>8. QED BY <1>4, <1>5, <1>6, <1>7 DEF LoadIInv

LEMMA LoadTakeBatchKeeps == ASSUME LoadIInv, Dump!TakeBatch PROVE LoadIInv'
<1>1. flag' = flag /\ running' = running /\ generation' = generation BY DEF Dump!TakeBatch
<1>2. CASE running /\ waiting # None /\ worker' = [Dump!Resting EXCEPT !.at = "check", !.batch = waiting]
      /\ waiting' = None
  <2>1. worker' = [at |-> "check", batch |-> waiting, load |-> 1, late |-> 0] BY <1>2 DEF Dump!Resting
  <2>2. LoadWorkerType' BY LoadsAssumption, <2>1 DEF LoadWorkerType, LoadIInv, LoadBatchesAreOlder
  <2>3. LoadBatchesAreOlder' BY <1>1, <1>2, <2>1 DEF LoadIInv, LoadBatchesAreOlder
  <2>4. LoadLateIsLast' BY <2>1 DEF LoadLateIsLast
  <2>5. LoadNothingWaits' BY <1>2 DEF LoadNothingWaits
  <2>6. QED BY <2>2, <2>3, <2>4, <2>5 DEF LoadIInv
<1>3. CASE worker' = [worker EXCEPT !.at = "exited"] /\ UNCHANGED waiting
  <2>1. worker.late = 0 BY DEF Dump!TakeBatch, LoadIInv, LoadLateIsLast
  <2>2. LoadWorkerType' /\ worker'.at = "exited" /\ worker'.batch = worker.batch /\ worker'.late = 0
    BY <1>3, <2>1 DEF LoadIInv, LoadWorkerType
  <2>3. LoadBatchesAreOlder' BY <1>1, <1>3, <2>2 DEF LoadIInv, LoadBatchesAreOlder
  <2>4. LoadLateIsLast' BY <2>2 DEF LoadLateIsLast
  <2>5. LoadNothingWaits' BY <1>1, <1>3 DEF LoadIInv, LoadNothingWaits
  <2>6. QED BY <2>2, <2>3, <2>4, <2>5 DEF LoadIInv
<1>4. QED BY <1>2, <1>3 DEF Dump!TakeBatch

\* A worker at rest
LEMMA LoadRestingKeeps ==
  ASSUME LoadIInv, worker' = Dump!Resting,
         UNCHANGED <<flag, running, generation, waiting>>
  PROVE  LoadIInv'
<1>1. LoadWorkerType' BY LoadsAssumption DEF LoadWorkerType, Dump!Resting
<1>2. LoadBatchesAreOlder' BY DEF LoadIInv, LoadBatchesAreOlder, Dump!Resting
<1>3. LoadLateIsLast' /\ LoadNothingWaits' BY DEF LoadIInv, LoadLateIsLast, LoadNothingWaits, Dump!Resting
<1>4. QED BY <1>1, <1>2, <1>3 DEF LoadIInv

LEMMA LoadCheckLoadKeeps == ASSUME LoadIInv, Dump!CheckLoad PROVE LoadIInv'
<1>1. UNCHANGED <<flag, running, generation, waiting>> BY DEF Dump!CheckLoad
<1>2. CASE Dump!Ends(worker.batch) BY <1>1, <1>2, LoadRestingKeeps DEF Dump!CheckLoad
<1>3. CASE ~Dump!Ends(worker.batch)
  <2>1. worker.late = 0 BY <1>3 DEF Dump!Ends, LoadIInv, LoadLateIsLast
  <2>2. LoadWorkerType' /\ worker'.at = "call" /\ worker'.batch = worker.batch /\ worker'.late = 0
    BY <1>3, <2>1 DEF Dump!CheckLoad, LoadIInv, LoadWorkerType
  <2>3. LoadBatchesAreOlder' BY <1>1, <2>2 DEF Dump!CheckLoad, LoadIInv, LoadBatchesAreOlder
  <2>4. LoadLateIsLast' /\ LoadNothingWaits' BY <1>1, <2>2 DEF LoadIInv, LoadLateIsLast, LoadNothingWaits
  <2>5. QED BY <2>2, <2>3, <2>4 DEF LoadIInv
<1>4. QED BY <1>2, <1>3

LEMMA LoadCallLoadKeeps == ASSUME LoadIInv, Dump!CallLoad PROVE LoadIInv'
<1>1. UNCHANGED <<flag, running, generation, waiting>> BY DEF Dump!CallLoad
<1>2. worker.late = 0 BY DEF Dump!CallLoad, LoadIInv, LoadLateIsLast
<1>3. /\ LoadWorkerType' /\ worker'.at = "calling" /\ worker'.batch = worker.batch
      /\ worker'.late = IF Dump!Retired(worker.batch) THEN 1 ELSE 0
  <2> DEFINE n == IF Dump!Retired(worker.batch) THEN 1 ELSE 0
  <2>1. n \in 0 .. 1 BY DEF Dump!Retired
  <2>2. worker' = [worker EXCEPT !.at = "calling", !.late = n]
    <3>1. worker' = [worker EXCEPT !.at = "calling", !.late = worker.late + n] BY DEF Dump!CallLoad
    <3> HIDE DEF n
    <3>2. worker.late + n = n BY <1>2, <2>1
    <3>3. QED BY <3>1, <3>2
  <2> HIDE DEF n
  <2>3. LoadWorkerType' /\ worker'.at = "calling" /\ worker'.batch = worker.batch /\ worker'.late = n
    BY <2>1, <2>2 DEF LoadIInv, LoadWorkerType
  <2>4. QED BY <2>3 DEF n
<1>4. LoadBatchesAreOlder' BY <1>1, <1>3 DEF Dump!CallLoad, LoadIInv, LoadBatchesAreOlder
<1>5. LoadLateIsLast' BY <1>1, <1>3 DEF LoadLateIsLast, Dump!Retired
<1>6. LoadNothingWaits' BY <1>1 DEF LoadIInv, LoadNothingWaits
<1>7. QED BY <1>3, <1>4, <1>5, <1>6 DEF LoadIInv

LEMMA LoadLoadAnswersKeeps == ASSUME LoadIInv, Dump!LoadAnswers PROVE LoadIInv'
<1>1. UNCHANGED <<flag, running, generation, waiting>> BY DEF Dump!LoadAnswers
<1>2. CASE worker.load = LoadCount BY <1>1, <1>2, LoadRestingKeeps DEF Dump!LoadAnswers
<1>3. CASE worker.load # LoadCount
  <2>1. worker.load + 1 \in 1 .. LoadCount BY LoadsAssumption, <1>3 DEF LoadIInv, LoadWorkerType
  <2>2. LoadWorkerType' /\ worker'.at = "check" /\ worker'.batch = worker.batch /\ worker'.late = worker.late
    BY <1>3, <2>1 DEF Dump!LoadAnswers, LoadIInv, LoadWorkerType
  <2>3. LoadBatchesAreOlder' BY <1>1, <2>2 DEF Dump!LoadAnswers, LoadIInv, LoadBatchesAreOlder
  <2>4. LoadLateIsLast' BY <1>1, <2>2 DEF LoadIInv, LoadLateIsLast, Dump!Retired
  <2>5. LoadNothingWaits' BY <1>1 DEF LoadIInv, LoadNothingWaits
  <2>6. QED BY <2>2, <2>3, <2>4, <2>5 DEF LoadIInv
<1>4. QED BY <1>2, <1>3

\* Steps that leave the flag, the intent and the worker alone
LEMMA LoadStillKeeps ==
  ASSUME LoadIInv, UNCHANGED <<flag, running, generation, waiting, worker>>
  PROVE  LoadIInv'
BY DEF LoadIInv, LoadWorkerType, LoadBatchesAreOlder, LoadLateIsLast, LoadNothingWaits, Dump!Retired

LoadLoopType == loop \in {None} \cup BOOLEAN

LEMMA LoadNextKeeps == ASSUME LoadLoopType, LoadIInv, [Dump!Next]_Dump!dvars PROVE LoadIInv' /\ LoadLoopType'
<1>1. CASE \E on \in BOOLEAN : Dump!Decide(on) BY <1>1, LoadStillKeeps DEF Dump!Decide, LoadLoopType
<1>2. CASE Dump!Request
  <2>1. LoadLoopType' BY <1>2 DEF Dump!Request, LoadLoopType
  <2>2. QED BY <1>2, <2>1, LoadRequestKeeps DEF LoadLoopType
<1>3. CASE Dump!FlagChanges BY <1>3, LoadFlagChangesKeeps DEF Dump!FlagChanges, LoadLoopType
<1>4. CASE Dump!LoopCancels BY <1>4, LoadRetireKeeps DEF Dump!LoopCancels, LoadLoopType
<1>5. CASE Dump!Expire BY <1>5, LoadExpireKeeps DEF Dump!Expire, LoadLoopType
<1>6. CASE Dump!TakeBatch BY <1>6, LoadTakeBatchKeeps DEF Dump!TakeBatch, LoadLoopType
<1>7. CASE Dump!CheckLoad BY <1>7, LoadCheckLoadKeeps DEF Dump!CheckLoad, LoadLoopType
<1>8. CASE Dump!CallLoad BY <1>8, LoadCallLoadKeeps DEF Dump!CallLoad, LoadLoopType
<1>9. CASE Dump!LoadAnswers BY <1>9, LoadLoadAnswersKeeps DEF Dump!LoadAnswers, LoadLoopType
<1>10. CASE Dump!PollBegins BY <1>10, LoadStillKeeps DEF Dump!PollBegins, LoadLoopType
<1>11. CASE Dump!PollEnds BY <1>11, LoadStillKeeps DEF Dump!PollEnds, LoadLoopType
<1>12. CASE Dump!RequestStop BY <1>12, LoadRetireKeeps DEF Dump!RequestStop, LoadLoopType
<1>13. CASE Dump!Close BY <1>13, LoadStillKeeps DEF Dump!Close, LoadLoopType
<1>14. CASE UNCHANGED Dump!dvars BY <1>14, LoadStillKeeps DEF Dump!dvars, LoadLoopType
<1>15. QED
  BY <1>1, <1>2, <1>3, <1>4, <1>5, <1>6, <1>7, <1>8, <1>9, <1>10, <1>11, <1>12, <1>13, <1>14 DEF Dump!Next

LEMMA LoadInitIInv == ASSUME Dump!Init PROVE LoadIInv /\ LoadLoopType
<1>1. LoadWorkerType BY LoadsAssumption DEF Dump!Init, LoadWorkerType, Dump!Resting
<1>2. LoadBatchesAreOlder BY LoadsAssumption DEF Dump!Init, LoadBatchesAreOlder, Dump!Resting
<1>3. LoadLateIsLast BY DEF Dump!Init, LoadLateIsLast, Dump!Resting
<1>4. LoadNothingWaits /\ LoadLoopType BY DEF Dump!Init, LoadNothingWaits, LoadLoopType
<1>5. QED BY <1>1, <1>2, <1>3, <1>4 DEF LoadIInv

\* A batch that a later one or the stop has retired makes no call it had not
\* decided on, for any number of loads and batches (_dump_load_loop and
\* cancel_dump_loads, homeassistant.py).
THEOREM LoadRetiredStops == Dump!Spec => []Dump!RetiredBatchStops
<1>1. Dump!Init => LoadIInv /\ LoadLoopType BY LoadInitIInv
<1>2. LoadIInv /\ LoadLoopType /\ [Dump!Next]_Dump!dvars => (LoadIInv /\ LoadLoopType)' BY LoadNextKeeps
<1>3. LoadIInv => Dump!RetiredBatchStops BY DEF LoadIInv, LoadWorkerType, LoadNothingWaits, Dump!RetiredBatchStops
<1>4. QED BY <1>1, <1>2, <1>3, PTL DEF Dump!Spec

\* What all parts do is, as far as this one goes, what it does.
LEMMA LoadRuns == Spec => Dump!Spec
<1>1. Init => Dump!Init BY DEF Init
<1>2. [Next]_vars => [Dump!Next]_Dump!dvars
  <2> SUFFICES ASSUME [Next]_vars PROVE Dump!Next \/ UNCHANGED loadVars
    BY DEF Dump!dvars, loadVars
  <2>1. CASE UNCHANGED vars BY <2>1 DEF vars
  <2>2. ASSUME NEW p \in Parts, p # "loads", Only(p) PROVE UNCHANGED loadVars
    BY <2>2 DEF Only
  <2>3. QED BY <2>1, <2>2 DEF Next, Parts
<1>3. QED BY <1>1, <1>2, PTL DEF Spec, Dump!Spec

-----------------------------------------------------------------------------
(* The end of the process *)

\* The two workers of the model are a sequence of its workers.
LEMMA StopWorkers == <<"watchdog", "poll">> \in Seq(End!Worker)
<1>1. "watchdog" = <<"watchdog", "poll">>[1] /\ "poll" = <<"watchdog", "poll">>[2] /\ Len(<<"watchdog", "poll">>) = 2
  OBVIOUS
<1>2. 1 \in 1 .. 2 /\ 2 \in 1 .. 2 OBVIOUS
<1>3. "watchdog" \in End!Worker /\ "poll" \in End!Worker BY <1>1, <1>2 DEF End!Worker
<1>4. QED BY <1>3

StopRemaining(w) == \E i \in 1 .. Len(main.left) : main.left[i] = w
StopAllEnded == \A w \in End!Worker : jobs[w] = "ended"

\* The main thread, and what the helper reports
StopMains == [at : {"running", "handler", "asking", "joining", "waiting", "returning", "returned", "exited"},
              left : Seq(End!Worker \cup {"first"}), stopped : BOOLEAN, result : {None, TRUE, FALSE}]
StopReports == [mqtt : BOOLEAN, over : BOOLEAN, close : BOOLEAN]

StopTypes ==
  /\ main \in StopMains
  /\ jobs \in [End!Worker -> {"idle", "calling", "announcing", "ended"}]
  /\ done \in StopReports

\* A worker that was joined, and every one once the joins are over, has ended
\* unless the shutdown has noted otherwise.
StopJoinedHaveEnded ==
  main.stopped => /\ main.at = "joining" => \A w \in End!Worker : jobs[w] = "ended" \/ StopRemaining(w)
                  /\ main.at \in {"waiting", "returning"} => StopAllEnded

\* The helper reports MQTT as over only after the network thread has ended.
StopReportIsTrue == done.mqtt => mqttThread = "ended"

\* The permission to close is given when no caller is left.
StopGrantIsTrue == granted => mqttThread = "ended" /\ StopAllEnded

StopIInv == StopTypes /\ StopJoinedHaveEnded /\ StopReportIsTrue /\ StopGrantIsTrue /\ End!CloseAfterWriters

LEMMA StopInitIInv == ASSUME End!Init PROVE StopIInv
<1>1. StopTypes
  <2>1. main \in StopMains BY DEF End!Init, StopMains
  <2>2. done \in StopReports BY DEF End!Init, StopReports
  <2>3. jobs \in [End!Worker -> {"idle", "calling", "announcing", "ended"}] BY DEF End!Init
  <2>4. QED BY <2>1, <2>2, <2>3 DEF StopTypes, StopMains, StopReports
<1>2. StopJoinedHaveEnded BY DEF End!Init, StopJoinedHaveEnded
<1>3. StopReportIsTrue /\ StopGrantIsTrue /\ End!CloseAfterWriters
  BY DEF End!Init, StopReportIsTrue, StopGrantIsTrue, End!CloseAfterWriters
<1>4. QED BY <1>1, <1>2, <1>3 DEF StopIInv

\* Threads that have ended stay so, and what rests on it stays true.
LEMMA StopThreadsKeep ==
  ASSUME StopIInv, jobs' \in [End!Worker -> {"idle", "calling", "announcing", "ended"}],
         \A w \in End!Worker : jobs[w] = "ended" => jobs'[w] = "ended", mqttThread = "ended" => mqttThread' = "ended",
         main' = main, done' = done, granted' = granted, bus' = bus
  PROVE  StopIInv'
<1>1. StopAllEnded => StopAllEnded' BY DEF StopAllEnded
<1>2. StopTypes' BY DEF StopIInv, StopTypes, StopMains, StopReports
<1>3. StopJoinedHaveEnded' BY <1>1 DEF StopIInv, StopJoinedHaveEnded, StopRemaining
<1>4. StopReportIsTrue' BY DEF StopIInv, StopReportIsTrue
<1>5. StopGrantIsTrue' BY <1>1 DEF StopIInv, StopGrantIsTrue
<1>6. End!CloseAfterWriters' BY DEF StopIInv, End!CloseAfterWriters
<1>7. QED BY <1>2, <1>3, <1>4, <1>5, <1>6 DEF StopIInv

\* The main thread moves; no thread and no report does.
LEMMA StopMainKeeps ==
  ASSUME StopIInv, UNCHANGED <<jobs, mqttThread, done, granted, bus>>,
         main' \in StopMains,
         StopJoinedHaveEnded'
  PROVE  StopIInv'
<1>1. StopTypes' BY DEF StopIInv, StopTypes, StopMains, StopReports
<1>2. StopReportIsTrue' /\ StopGrantIsTrue' /\ End!CloseAfterWriters'
  BY DEF StopIInv, StopReportIsTrue, StopGrantIsTrue, End!CloseAfterWriters, StopAllEnded
<1>3. QED BY <1>1, <1>2 DEF StopIInv

\* What is left to do, after its first element is done
LEMMA StopLeftShrinks ==
  ASSUME StopTypes, main.left # <<>>, NEW w, StopRemaining(w)
  PROVE  /\ Tail(main.left) \in Seq(End!Worker \cup {"first"})
         /\ w = Head(main.left) \/ (Len(main.left) # 1 /\ \E i \in 1 .. Len(Tail(main.left)) : Tail(main.left)[i] = w)
<1> DEFINE s == main.left
<1>1. s \in Seq(End!Worker \cup {"first"}) BY DEF StopTypes, StopMains, StopReports
<1>2. PICK i \in 1 .. Len(s) : s[i] = w BY DEF StopRemaining
<1> HIDE DEF s
<1>3. s # <<>> BY DEF s
<1>4. Tail(s) \in Seq(End!Worker \cup {"first"}) /\ Len(Tail(s)) = Len(s) - 1 /\ Head(s) = s[1] /\ Len(s) \in Nat
  BY <1>1, <1>3
<1>5. CASE i = 1 BY <1>2, <1>4, <1>5 DEF s
<1>6. CASE i # 1
  <2>1. i - 1 \in 1 .. Len(Tail(s)) /\ Tail(s)[i - 1] = s[i] BY <1>1, <1>2, <1>3, <1>4, <1>6
  <2>2. Len(s) # 1 BY <1>2, <1>4, <1>6
  <2>3. QED BY <1>2, <1>4, <2>1, <2>2 DEF s
<1>7. QED BY <1>5, <1>6

LEMMA StopSignalKeeps == ASSUME StopIInv, End!Signal PROVE StopIInv'
<1>1. main' \in StopMains
      /\ main'.at = "handler"
  <2>1. <<>> \in Seq(End!Worker \cup {"first"}) /\ <<"first">> \in Seq(End!Worker \cup {"first"}) OBVIOUS
  <2>2. QED BY <2>1 DEF End!Signal, StopIInv, StopTypes, StopMains, StopReports
<1>2. QED BY <1>1, StopMainKeeps DEF End!Signal, StopJoinedHaveEnded

\* The shutdown begins.
LEMMA StopAskingKeeps ==
  ASSUME StopIInv, main' = End!Asking, UNCHANGED <<jobs, mqttThread, done, granted, bus>>
  PROVE  StopIInv'
<1>1. <<"watchdog", "poll">> \in Seq(End!Worker \cup {"first"}) BY StopWorkers
<1>2. main' \in StopMains
      /\ main'.at = "asking"
  BY <1>1 DEF End!Asking, StopIInv, StopTypes, StopMains, StopReports
<1>3. QED BY <1>2, StopMainKeeps DEF StopJoinedHaveEnded

\* The main thread is done with the shutdown, or with everything.
LEMMA StopLeavingKeeps ==
  ASSUME StopIInv, NEW at \in {"returned", "exited"}, main' = [main EXCEPT !.at = at],
         UNCHANGED <<jobs, mqttThread, done, granted, bus>>
  PROVE  StopIInv'
<1>1. main' \in StopMains
      /\ main'.at = at
  BY DEF StopIInv, StopTypes, StopMains, StopReports
<1>2. QED BY <1>1, StopMainKeeps DEF StopJoinedHaveEnded

LEMMA StopHandlerExitsKeeps == ASSUME StopIInv, End!HandlerExits PROVE StopIInv'
<1>1. UNCHANGED <<jobs, mqttThread, done, granted, bus>> BY DEF End!HandlerExits
<1>2. CASE main.left # <<>> BY <1>1, <1>2, StopAskingKeeps DEF End!HandlerExits
<1>3. CASE main.left = <<>> BY <1>1, <1>3, StopLeavingKeeps DEF End!HandlerExits
<1>4. QED BY <1>2, <1>3

LEMMA StopRequestKeeps == ASSUME StopIInv, End!Request PROVE StopIInv'
<1>1. UNCHANGED <<jobs, mqttThread, done, granted, bus>> BY DEF End!Request
<1>2. CASE main.left = <<>>
  <2>1. <<"watchdog", "poll">> \in Seq(End!Worker \cup {"first"}) BY StopWorkers
  <2>2. main' \in StopMains
        /\ main'.at = "joining" /\ main'.left = <<"watchdog", "poll">>
    <3>1. main' = [main EXCEPT !.at = "joining", !.left = <<"watchdog", "poll">>] BY <1>2 DEF End!Request
    <3>2. QED BY <2>1, <3>1 DEF StopIInv, StopTypes, StopMains
  <2>3. \A w \in End!Worker : StopRemaining(w)' BY <2>2 DEF End!Worker, StopRemaining
  <2>4. StopJoinedHaveEnded' BY <2>2, <2>3 DEF StopJoinedHaveEnded
  <2>5. QED BY <1>1, <2>2, <2>4, StopMainKeeps
<1>3. CASE main.left # <<>>
  <2>1. PICK ok \in BOOLEAN : main' = [main EXCEPT !.left = Tail(main.left), !.stopped = main.stopped /\ ok]
    BY <1>3 DEF End!Request
  <2>2. Tail(main.left) \in Seq(End!Worker \cup {"first"}) BY <1>3 DEF StopIInv, StopTypes, StopMains, StopReports
  <2>3. main' \in StopMains
        /\ main'.at = "asking"
    BY <2>1, <2>2 DEF End!Request, StopIInv, StopTypes, StopMains, StopReports
  <2>4. QED BY <1>1, <2>3, StopMainKeeps DEF StopJoinedHaveEnded
<1>4. QED BY <1>2, <1>3

\* A worker is joined: it has ended, or the shutdown notes that it has not.
LEMMA StopJoinedKeeps ==
  ASSUME StopIInv, main.at = "joining", main.left # <<>>, NEW ok \in BOOLEAN,
         ok => main.stopped /\ jobs[Head(main.left)] = "ended",
         main' = [main EXCEPT !.left = Tail(main.left), !.stopped = ok,
                              !.at = IF Len(main.left) = 1 THEN "waiting" ELSE main.at],
         UNCHANGED <<jobs, mqttThread, done, granted, bus>>
  PROVE  StopIInv'
<1> DEFINE at == IF Len(main.left) = 1 THEN "waiting" ELSE "joining"
<1>1. Tail(main.left) \in Seq(End!Worker \cup {"first"}) BY DEF StopIInv, StopTypes, StopMains, StopReports
<1>2. main' \in StopMains
      /\ main'.at = at /\ main'.left = Tail(main.left) /\ main'.stopped = ok
  BY <1>1 DEF StopIInv, StopTypes, StopMains, StopReports
<1>3. ASSUME ok, NEW w \in End!Worker
      PROVE  jobs[w] = "ended" \/ (Len(main.left) # 1 /\ StopRemaining(w)')
  <2>1. jobs[w] = "ended" \/ StopRemaining(w) BY <1>3 DEF StopIInv, StopJoinedHaveEnded
  <2>2. StopTypes BY DEF StopIInv
  <2>3. QED BY <1>2, <1>3, <2>1, <2>2, StopLeftShrinks DEF StopRemaining
<1>4. StopJoinedHaveEnded' BY <1>2, <1>3 DEF StopJoinedHaveEnded, StopAllEnded
<1>5. QED BY <1>2, <1>4, StopMainKeeps

LEMMA StopJoinKeeps == ASSUME StopIInv, End!Join PROVE StopIInv'
<1> DEFINE ok == main.stopped /\ jobs[Head(main.left)] = "ended"
<1>1. ok \in BOOLEAN /\ (ok => main.stopped /\ jobs[Head(main.left)] = "ended") OBVIOUS
<1>2. main' = [main EXCEPT !.left = Tail(main.left), !.stopped = ok,
                           !.at = IF Len(main.left) = 1 THEN "waiting" ELSE main.at]
  BY DEF End!Join
<1> HIDE DEF ok
<1>3. QED BY <1>1, <1>2, StopJoinedKeeps DEF End!Join

LEMMA StopJoinRaisesKeeps == ASSUME StopIInv, End!JoinRaises PROVE StopIInv'
<1>1. FALSE \in BOOLEAN OBVIOUS
<1>2. QED BY <1>1, StopJoinedKeeps DEF End!JoinRaises

LEMMA StopGrantKeeps == ASSUME StopIInv, End!Grant PROVE StopIInv'
<1>1. /\ main' \in StopMains
      /\ main'.at = "returning" /\ main'.stopped = main.stopped
  BY DEF End!Grant, StopIInv, StopTypes, StopMains, StopReports
<1>2. UNCHANGED <<jobs, mqttThread, done, bus>> BY DEF End!Grant
<1>3. main.stopped => StopAllEnded BY DEF End!Grant, StopIInv, StopJoinedHaveEnded
<1>4. StopTypes' BY <1>1, <1>2 DEF StopIInv, StopTypes, StopMains, StopReports
<1>5. StopJoinedHaveEnded' BY <1>1, <1>2, <1>3 DEF StopJoinedHaveEnded, StopAllEnded
<1>6. StopGrantIsTrue'
  BY <1>2, <1>3 DEF End!Grant, End!Quiet, StopGrantIsTrue, StopIInv, StopReportIsTrue, StopAllEnded
<1>7. StopReportIsTrue' /\ End!CloseAfterWriters' BY <1>2 DEF StopIInv, StopReportIsTrue, End!CloseAfterWriters
<1>8. QED BY <1>4, <1>5, <1>6, <1>7 DEF StopIInv

LEMMA StopReturnKeeps == ASSUME StopIInv, End!Return PROVE StopIInv'
<1> DEFINE result == main.stopped /\ done.mqtt /\ done.close
<1>1. result \in {None, TRUE, FALSE} OBVIOUS
<1>2. main' = [main EXCEPT !.at = "returned", !.result = result] BY DEF End!Return
<1> HIDE DEF result
<1>3. /\ main' \in StopMains
      /\ main'.at = "returned"
  BY <1>1, <1>2 DEF StopIInv, StopTypes, StopMains, StopReports
<1>4. QED BY <1>3, StopMainKeeps DEF End!Return, StopJoinedHaveEnded

\* The helper reports.
LEMMA StopHelperKeeps ==
  ASSUME StopIInv, UNCHANGED <<main, jobs, mqttThread, granted>>,
         done' \in StopReports,
         done'.mqtt => done.mqtt \/ mqttThread = "ended", bus' = bus \/ granted
  PROVE  StopIInv'
<1>1. StopTypes' BY DEF StopIInv, StopTypes, StopMains, StopReports
<1>2. StopJoinedHaveEnded' BY DEF StopIInv, StopJoinedHaveEnded, StopRemaining, StopAllEnded
<1>3. StopReportIsTrue' BY DEF StopIInv, StopReportIsTrue
<1>4. StopGrantIsTrue' BY DEF StopIInv, StopGrantIsTrue, StopAllEnded
<1>5. End!CloseAfterWriters' BY DEF StopIInv, End!CloseAfterWriters, StopGrantIsTrue, StopAllEnded
<1>6. QED BY <1>1, <1>2, <1>3, <1>4, <1>5 DEF StopIInv

LEMMA StopIoKeeps == ASSUME StopIInv, End!IoJoins \/ End!IoDisconnects \/ End!IoCloses PROVE StopIInv'
<1>1. done \in StopReports BY DEF StopIInv, StopTypes, StopMains, StopReports
<1>2. CASE End!IoJoins
  <2>1. done' \in StopReports /\ done'.mqtt = done.mqtt
    BY <1>1, <1>2 DEF End!IoJoins, StopReports
  <2>2. QED BY <1>2, <2>1, StopHelperKeeps DEF End!IoJoins
<1>3. CASE End!IoDisconnects
  <2> DEFINE m == ~publishThread.alive
  <2>1. m \in BOOLEAN /\ done' = [done EXCEPT !.mqtt = m, !.over = TRUE] BY <1>3 DEF End!IoDisconnects
  <2> HIDE DEF m
  <2>2. done' \in StopReports BY <1>1, <2>1 DEF StopReports
  <2>3. QED BY <1>3, <2>2, StopHelperKeeps DEF End!IoDisconnects
<1>4. CASE End!IoCloses
  <2>1. done' \in StopReports /\ done'.mqtt = done.mqtt
    BY <1>1, <1>4 DEF End!IoCloses, StopReports
  <2>2. QED BY <1>4, <2>1, StopHelperKeeps DEF End!IoCloses
<1>5. QED BY <1>2, <1>3, <1>4

LEMMA StopWorkKeeps == ASSUME StopIInv, NEW w \in End!Worker, End!Work(w) \/ End!WorkAnnounces(w) PROVE StopIInv'
<1>1. jobs \in [End!Worker -> {"idle", "calling", "announcing", "ended"}]
  BY DEF StopIInv, StopTypes, StopMains, StopReports
<1>2. PICK next \in {"idle", "calling", "announcing", "ended"} : jobs' = [jobs EXCEPT ![w] = next]
      /\ jobs[w] # "ended"
  BY DEF End!Work, End!WorkAnnounces
<1>3. jobs' \in [End!Worker -> {"idle", "calling", "announcing", "ended"}]
      /\ \A v \in End!Worker : jobs[v] = "ended" => jobs'[v] = "ended"
  BY <1>1, <1>2
<1>4. QED BY <1>3, StopThreadsKeep DEF End!Work, End!WorkAnnounces

LEMMA StopNetworkKeeps == ASSUME StopIInv, End!Command \/ End!Connect \/ End!NetworkGoesOn PROVE StopIInv'
<1>1. mqttThread # "ended" BY DEF End!Command, End!Connect, End!NetworkGoesOn
<1>2. jobs' = jobs /\ jobs \in [End!Worker -> {"idle", "calling", "announcing", "ended"}]
  BY DEF End!Command, End!Connect, End!NetworkGoesOn, StopIInv, StopTypes, StopMains, StopReports
<1>3. QED BY <1>1, <1>2, StopThreadsKeep DEF End!Command, End!Connect, End!NetworkGoesOn

\* Time and the publish thread
LEMMA StopStillKeeps ==
  ASSUME StopIInv, UNCHANGED <<main, jobs, mqttThread, done, granted, bus>>
  PROVE  StopIInv'
<1>1. jobs' \in [End!Worker -> {"idle", "calling", "announcing", "ended"}]
  BY DEF StopIInv, StopTypes, StopMains, StopReports
<1>2. QED BY <1>1, StopThreadsKeep

LEMMA StopNextKeeps == ASSUME StopIInv, [End!Next]_End!svars PROVE StopIInv'
<1>1. CASE End!Signal BY <1>1, StopSignalKeeps
<1>2. CASE End!HandlerExits BY <1>2, StopHandlerExitsKeeps
<1>3. CASE End!Stop BY <1>3, StopAskingKeeps DEF End!Stop
<1>4. CASE End!ForceExit BY <1>4, StopLeavingKeeps DEF End!ForceExit
<1>5. CASE End!Expire BY <1>5, StopStillKeeps DEF End!Expire
<1>6. CASE End!Request BY <1>6, StopRequestKeeps
<1>7. CASE End!Join BY <1>7, StopJoinKeeps
<1>8. CASE End!Grant BY <1>8, StopGrantKeeps
<1>9. CASE End!Return BY <1>9, StopReturnKeeps
<1>10. CASE End!Exit BY <1>10, StopLeavingKeeps DEF End!Exit
<1>11. CASE End!JoinRaises BY <1>11, StopJoinRaisesKeeps
<1>12. CASE End!IoJoins \/ End!IoDisconnects \/ End!IoCloses BY <1>12, StopIoKeeps
<1>13. CASE \E w \in End!Worker : End!Work(w) \/ End!WorkAnnounces(w) BY <1>13, StopWorkKeeps
<1>14. CASE End!Command \/ End!Connect \/ End!NetworkGoesOn BY <1>14, StopNetworkKeeps
<1>15. CASE End!PublisherEnds BY <1>15, StopStillKeeps DEF End!PublisherEnds
<1>16. CASE UNCHANGED End!svars BY <1>16, StopStillKeeps DEF End!svars
<1>17. QED
  BY <1>1, <1>2, <1>3, <1>4, <1>5, <1>6, <1>7, <1>8, <1>9, <1>10, <1>11, <1>12, <1>13, <1>14, <1>15, <1>16
  DEF End!Next, End!MainGoesOn

\* The D-Bus connection is closed when no thread is left that could call on it, for
\* any list of workers and any joins that time out (_shutdown_main_loop).
THEOREM StopClosesLast == End!Spec => []End!CloseAfterWriters
<1>1. End!Init => StopIInv BY StopInitIInv
<1>2. StopIInv /\ [End!Next]_End!svars => StopIInv' BY StopNextKeeps
<1>3. StopIInv => End!CloseAfterWriters BY DEF StopIInv
<1>4. QED BY <1>1, <1>2, <1>3, PTL DEF End!Spec

\* What all parts do is, as far as this one goes, what it does.
LEMMA StopRuns == Spec => End!Spec
<1>1. Init => End!Init BY DEF Init
<1>2. [Next]_vars => [End!Next]_End!svars
  <2> SUFFICES ASSUME [Next]_vars PROVE End!Next \/ UNCHANGED endVars
    BY DEF End!svars, endVars
  <2>1. CASE UNCHANGED vars BY <2>1 DEF vars
  <2>2. ASSUME NEW p \in Parts, p # "end", Only(p) PROVE UNCHANGED endVars
    BY <2>2 DEF Only
  <2>3. QED BY <2>1, <2>2 DEF Next, Parts
<1>3. QED BY <1>1, <1>2, PTL DEF Spec, End!Spec

\* A retired batch of dump loads makes at most the call it had decided on, and the
\* D-Bus connection is closed only when no thread is left that could call, for any
\* loads, timeouts, late calls and signals (homeassistant.py, main.py).
THEOREM StoppedStaysStopped == Spec => []StoppedMeansStopped
<1>1. Dump!RetiredBatchStops /\ End!CloseAfterWriters => StoppedMeansStopped BY DEF StoppedMeansStopped
<1>2. QED BY <1>1, LoadRuns, LoadRetiredStops, StopRuns, StopClosesLast, PTL

-----------------------------------------------------------------------------
(* The energy of the day *)

MeterStates ==
  [meter : Meters, zone : Meter!Zones, date : Int, baseline : Int, count : Int, at : Int, complete : BOOLEAN]

MeterLedgerTypes ==
  /\ wall \in Int /\ zone \in Meter!Zones /\ meter \in Meters /\ count \in [Meters -> Int]
  /\ reading # None => reading \in [meter : Meters, count : Int, late : BOOLEAN]
  /\ ledger \in [state : {None} \cup MeterStates, observed : {None} \cup Int, error : BOOLEAN, pending : BOOLEAN,
                 reset : BOOLEAN]
  /\ mono \in Int
  /\ saving \in [copy : {None} \cup MeterStates, current : BOOLEAN, dirty : BOOLEAN]
     /\ ledgerFile \in {None} \cup MeterStates

\* The meter had counted b when date d began in zone z.
MeterBegun(m, z, d, b) == [meter |-> m, zone |-> z, date |-> d, count |-> b] \in entered

\* A complete day begins with what the meter said then, also where it is saved.
MeterJustified(s) == s # None /\ s.complete => MeterBegun(s.meter, s.zone, s.date, s.baseline)
MeterCompleteIsJustified == MeterJustified(ledger.state) /\ MeterJustified(saving.copy) /\ MeterJustified(ledgerFile)

\* A read on its way is not ahead of its meter.
MeterReadIsPast == reading # None => reading.count <= count[reading.meter]

\* Since an undisturbed observation the zone and the meter are the same, the counter
\* has not gone back, and when the next date began it was recorded, if the counter
\* and the read on its way still say what was observed.
MeterStanding == ledger.state # None /\ ledger.observed # None /\ ~ledger.error
MeterSinceObservation ==
  LET s == ledger.state IN
  MeterStanding =>
    /\ s.zone = zone /\ s.meter = meter /\ s.count <= count[meter]
    /\ Meter!Date(zone, wall) > s.date =>
         /\ count[meter] = s.count => MeterBegun(meter, zone, s.date + 1, s.count)
         /\ reading # None /\ reading.meter = meter /\ reading.count = s.count =>
              MeterBegun(meter, zone, s.date + 1, s.count)

MeterIInv == MeterLedgerTypes /\ MeterCompleteIsJustified /\ MeterReadIsPast /\ MeterSinceObservation

LEMMA MeterInitIInv == ASSUME Meter!Init PROVE MeterIInv
<1>1. (CHOOSE m \in Meters : TRUE) \in Meters BY MeterAssumption
<1>2. ledger \in [state : {None} \cup MeterStates, observed : {None} \cup Int, error : BOOLEAN, pending : BOOLEAN,
                  reset : BOOLEAN]
  BY DEF Meter!Init, Meter!Loaded
<1>3. saving \in [copy : {None} \cup MeterStates, current : BOOLEAN, dirty : BOOLEAN] BY DEF Meter!Init, Meter!Unsaved
<1>4. MeterLedgerTypes BY MeterAssumption, <1>1, <1>2, <1>3 DEF Meter!Init, MeterLedgerTypes, Meter!Zones
<1>5. QED
  BY <1>4 DEF Meter!Init, MeterIInv, MeterCompleteIsJustified, MeterJustified, MeterReadIsPast,
    MeterSinceObservation, MeterStanding, Meter!Loaded, Meter!Unsaved

\* A unit is at most a day.
LEMMA MeterNextDate ==
  ASSUME NEW z \in Meter!Zones, NEW at \in Int
  PROVE  /\ Meter!Date(z, at) \in Int /\ Meter!Date(z, at + 1) \in {Meter!Date(z, at), Meter!Date(z, at) + 1}
<1> DEFINE x == at + z
           q == x \div Day
           p == (x + 1) \div Day
<1>1. x \in Int /\ Day \in Nat /\ Day > 0 BY MeterAssumption DEF Meter!Zones
<1>2. q \in Int /\ p \in Int BY <1>1
<1>3. Day * q <= x /\ x < Day * q + Day BY <1>1
<1>4. Day * p <= x + 1 /\ x + 1 < Day * p + Day BY <1>1
<1>5. Meter!Date(z, at) = q /\ Meter!Date(z, at + 1) = p
  <2>1. at + 1 + z = x + 1 BY DEF Meter!Zones
  <2>2. QED BY <2>1 DEF Meter!Date
<1> HIDE DEF q, p, x
<1>6. ~(p < q)
  <2> SUFFICES ASSUME p < q PROVE FALSE OBVIOUS
  <2>1. Day * (p + 1) <= Day * q BY <1>1, <1>2
  <2>2. Day * (p + 1) = Day * p + Day BY <1>1, <1>2
  <2>3. QED BY <1>1, <1>2, <1>3, <1>4, <2>1, <2>2
<1>7. ~(p > q + 1)
  <2> SUFFICES ASSUME p > q + 1 PROVE FALSE OBVIOUS
  <2>1. Day * (q + 2) <= Day * p BY <1>1, <1>2
  <2>2. Day * (q + 2) = Day * q + Day + Day BY <1>1, <1>2
  <2>3. QED BY <1>1, <1>2, <1>3, <1>4, <2>1, <2>2
<1>8. QED BY <1>2, <1>5, <1>6, <1>7

LEMMA MeterInvalidatedType ==
  ASSUME MeterLedgerTypes, NEW reset \in BOOLEAN
  PROVE  /\ Meter!Invalidated(reset) \in [state : {None} \cup MeterStates, observed : {None} \cup Int,
                                          error : BOOLEAN, pending : BOOLEAN, reset : BOOLEAN]
         /\ Meter!Invalidated(reset).error = TRUE /\ Meter!Invalidated(reset).state = ledger.state
<1> DEFINE l == ledger
           b == l.pending \/ reset
<1>1. /\ l \in [state : {None} \cup MeterStates, observed : {None} \cup Int, error : BOOLEAN, pending : BOOLEAN,
                reset : BOOLEAN]
      /\ b \in BOOLEAN
  BY DEF MeterLedgerTypes
<1>2. Meter!Invalidated(reset) = [l EXCEPT !.error = TRUE, !.pending = b] BY DEF Meter!Invalidated
<1> HIDE DEF l, b
<1>3. Meter!Invalidated(reset) = [state |-> l.state, observed |-> l.observed, error |-> TRUE, pending |-> b,
                                  reset |-> l.reset]
  BY <1>1, <1>2
<1>4. QED BY <1>1, <1>3 DEF l

LEMMA MeterReadStartsKeeps == ASSUME MeterIInv, Meter!ReadStarts PROVE MeterIInv'
<1>1. reading' = [meter |-> meter, count |-> count[meter], late |-> FALSE]
      /\ UNCHANGED <<mono, wall, zone, meter, count, ledger, saving, ledgerFile, entered>>
  BY DEF Meter!ReadStarts
<1>2. MeterLedgerTypes' BY <1>1 DEF MeterIInv, MeterLedgerTypes
<1>3. MeterCompleteIsJustified' BY <1>1 DEF MeterIInv, MeterCompleteIsJustified, MeterJustified, MeterBegun
<1>4. MeterReadIsPast' BY <1>1 DEF MeterReadIsPast, MeterIInv, MeterLedgerTypes
<1>5. MeterSinceObservation' BY <1>1 DEF MeterIInv, MeterSinceObservation, MeterStanding, MeterBegun
<1>6. QED BY <1>2, <1>3, <1>4, <1>5 DEF MeterIInv

\* The state an observation leaves: of its meter, zone, date and count
LEMMA MeterObservedState ==
  ASSUME MeterIInv, reading # None, reading.meter = meter
  PROVE  /\ Meter!Observed(meter, reading.count) \in MeterStates
         /\ LET s == Meter!Observed(meter, reading.count) IN
              s.meter = meter /\ s.zone = zone /\ s.count = reading.count /\ s.date = Meter!Date(zone, wall)
         /\ MeterJustified(Meter!Observed(meter, reading.count))
<1> DEFINE old == ledger.state
           v == reading.count
           re == Meter!Reseeds(meter, v)
           new == [meter |-> meter, zone |-> zone, date |-> Meter!Date(zone, wall), baseline |-> v, count |-> v,
                   at |-> wall, complete |-> ~re /\ Meter!Proved(v)]
<1>1. v \in Int /\ meter \in Meters /\ zone \in Meter!Zones /\ wall \in Int /\ old \in {None} \cup MeterStates
  BY DEF MeterIInv, MeterLedgerTypes
<1>2. Meter!Date(zone, wall) \in Int BY <1>1, MeterNextDate
<1>3. CASE old = None \/ re \/ old.date # Meter!Date(zone, wall)
  <2>1. Meter!Observed(meter, v) = new BY <1>3 DEF Meter!Observed
  <2>2. (~re /\ Meter!Proved(v)) \in BOOLEAN OBVIOUS
  <2>3. ASSUME ~re, Meter!Proved(v) PROVE MeterBegun(meter, zone, Meter!Date(zone, wall), v)
    <3>1. MeterStanding /\ Meter!Date(zone, wall) = old.date + 1 /\ v = old.count
      BY <2>3 DEF Meter!Proved, MeterStanding
    <3>2. old \in MeterStates BY <1>1, <3>1 DEF MeterStanding
    <3>3. Meter!Date(zone, wall) > old.date BY <3>1, <3>2 DEF MeterStates
    <3>4. MeterBegun(meter, zone, old.date + 1, old.count) BY <3>1, <3>3 DEF MeterIInv, MeterSinceObservation
    <3>5. QED BY <3>1, <3>4
  <2> HIDE DEF re
  <2>4. new \in MeterStates BY <1>1, <1>2, <2>2 DEF MeterStates
  <2>5. MeterJustified(new) BY <2>3 DEF MeterJustified
  <2>6. QED BY <2>1, <2>4, <2>5
<1>4. CASE ~(old = None \/ re \/ old.date # Meter!Date(zone, wall))
  <2>1. Meter!Observed(meter, v) = [old EXCEPT !.count = v, !.at = wall] BY <1>4 DEF Meter!Observed
  <2>2. old \in MeterStates /\ old.meter = meter /\ old.zone = zone /\ old.date = Meter!Date(zone, wall)
    BY <1>1, <1>4 DEF Meter!Reseeds
  <2>3. MeterJustified(old) BY DEF MeterIInv, MeterCompleteIsJustified
  <2> HIDE DEF re, old, v
  <2>4. [old EXCEPT !.count = v] =
          [meter |-> old.meter, zone |-> old.zone, date |-> old.date, baseline |-> old.baseline, count |-> v,
           at |-> old.at, complete |-> old.complete]
    BY <2>2 DEF MeterStates
  <2>5. Meter!Observed(meter, v) =
          [meter |-> old.meter, zone |-> old.zone, date |-> old.date, baseline |-> old.baseline, count |-> v,
           at |-> wall, complete |-> old.complete]
    BY <2>1, <2>4
  <2>6. Meter!Observed(meter, v) \in MeterStates BY <1>1, <2>2, <2>5 DEF MeterStates
  <2>7. old # None /\ MeterJustified(Meter!Observed(meter, v)) BY <1>4, <2>3, <2>5 DEF MeterJustified, old
  <2>8. QED BY <2>2, <2>5, <2>6, <2>7 DEF v
<1>5. QED BY <1>3, <1>4

LEMMA MeterReadEndsKeeps == ASSUME MeterIInv, Meter!ReadEnds PROVE MeterIInv'
<1>1. reading # None /\ reading' = None /\ UNCHANGED <<mono, wall, zone, meter, count, ledgerFile, entered>>
  BY DEF Meter!ReadEnds
<1>2. CASE reading.meter = meter /\ Meter!Observe(meter, reading.count)
  <2> DEFINE s == Meter!Observed(meter, reading.count)
             re == Meter!Reseeds(meter, reading.count)
  <2>1. /\ ledger' = [state |-> s, observed |-> mono, error |-> FALSE, pending |-> FALSE, reset |-> re]
        /\ saving' \in [copy : {saving.copy}, current : BOOLEAN, dirty : BOOLEAN]
    <3>1. saving' = [saving EXCEPT !.dirty = TRUE, !.current = FALSE] BY <1>2 DEF Meter!Observe
    <3>2. saving' \in [copy : {saving.copy}, current : BOOLEAN, dirty : BOOLEAN]
      BY <3>1 DEF MeterIInv, MeterLedgerTypes
    <3>3. QED BY <1>2, <3>2 DEF Meter!Observe
  <2>2. s \in MeterStates /\ s.meter = meter /\ s.zone = zone /\ s.count = reading.count
        /\ s.date = Meter!Date(zone, wall)
        /\ MeterJustified(s)
    BY <1>1, <1>2, MeterObservedState
  <2>3. re \in BOOLEAN BY DEF Meter!Reseeds
  <2> HIDE DEF s, re
  <2>4. MeterLedgerTypes' BY <1>1, <2>1, <2>2, <2>3 DEF MeterIInv, MeterLedgerTypes
  <2>5. MeterCompleteIsJustified'
    BY <1>1, <2>1, <2>2 DEF MeterIInv, MeterCompleteIsJustified, MeterJustified, MeterBegun
  <2>6. MeterReadIsPast' BY <1>1 DEF MeterReadIsPast
  <2>7. MeterSinceObservation'
    <3>1. s.count <= count[meter] BY <1>1, <1>2, <2>2 DEF MeterIInv, MeterReadIsPast
    <3>2. Meter!Date(zone, wall) \in Int BY MeterNextDate DEF MeterIInv, MeterLedgerTypes
    <3>3. QED BY <1>1, <2>1, <2>2, <3>1, <3>2 DEF MeterSinceObservation, Meter!Date
  <2>8. QED BY <2>4, <2>5, <2>6, <2>7 DEF MeterIInv
<1>3. CASE ledger' = Meter!Invalidated(FALSE) /\ saving' = saving
  <2>1. MeterLedgerTypes' BY <1>1, <1>3, MeterInvalidatedType DEF MeterIInv, MeterLedgerTypes
  <2>2. MeterCompleteIsJustified'
    BY <1>1, <1>3, MeterInvalidatedType DEF MeterIInv, MeterCompleteIsJustified, MeterJustified, MeterBegun
  <2>3. MeterSinceObservation' BY <1>3, MeterInvalidatedType DEF MeterIInv, MeterSinceObservation, MeterStanding
  <2>4. QED BY <1>1, <2>1, <2>2, <2>3 DEF MeterIInv, MeterReadIsPast
<1>4. QED BY <1>2, <1>3 DEF Meter!ReadEnds

\* The saves
LEMMA MeterSavingKeeps == ASSUME MeterIInv, Meter!Persist \/ Meter!Saved PROVE MeterIInv'
<1>1. UNCHANGED <<mono, wall, zone, meter, count, reading, ledger, entered>> BY DEF Meter!Persist, Meter!Saved
<1>2. /\ saving' \in [copy : {None, saving.copy, ledger.state}, current : BOOLEAN, dirty : BOOLEAN]
      /\ ledgerFile' \in {ledgerFile, saving.copy}
  <2>1. CASE Meter!Persist
    <3>1. saving' = [saving EXCEPT !.copy = ledger.state, !.current = TRUE] /\ ledgerFile' = ledgerFile
      BY <2>1 DEF Meter!Persist
    <3>2. QED BY <3>1 DEF MeterIInv, MeterLedgerTypes
  <2>2. CASE Meter!Saved
    <3>1. PICK b \in BOOLEAN : saving' = [saving EXCEPT !.copy = None, !.dirty = b]
      BY <2>2 DEF Meter!Saved, MeterIInv, MeterLedgerTypes
    <3>2. QED BY <2>2, <3>1 DEF Meter!Saved, MeterIInv, MeterLedgerTypes
  <2>3. QED BY <2>1, <2>2
<1>3. MeterLedgerTypes' BY <1>1, <1>2 DEF MeterIInv, MeterLedgerTypes
<1>4. MeterCompleteIsJustified' BY <1>1, <1>2 DEF MeterIInv, MeterCompleteIsJustified, MeterJustified, MeterBegun
<1>5. MeterReadIsPast' BY <1>1 DEF MeterIInv, MeterReadIsPast
<1>6. MeterSinceObservation' BY <1>1 DEF MeterIInv, MeterSinceObservation, MeterStanding, MeterBegun
<1>7. QED BY <1>3, <1>4, <1>5, <1>6 DEF MeterIInv

\* Time passes or the clock jumps, by one unit: a date that begins is recorded.
LEMMA MeterTimeKeeps ==
  ASSUME MeterIInv, NEW step \in {-1, 1}, wall' = wall + step, mono' \in Int,
         entered' = entered \cup Meter!Begins(wall, wall + step),
         reading' = reading \/ (reading # None /\ reading' = [reading EXCEPT !.late = TRUE]),
         UNCHANGED <<zone, meter, count, ledger, saving, ledgerFile>>
  PROVE  MeterIInv'
<1>1. reading' # None =>
        /\ reading # None /\ reading'.meter = reading.meter /\ reading'.count = reading.count
        /\ reading' \in [meter : Meters, count : Int, late : BOOLEAN]
  BY DEF MeterIInv, MeterLedgerTypes
<1>2. wall \in Int /\ wall' \in Int /\ zone \in Meter!Zones BY DEF MeterIInv, MeterLedgerTypes
<1>3. MeterLedgerTypes' BY <1>1, <1>2 DEF MeterIInv, MeterLedgerTypes
<1>4. entered \subseteq entered' OBVIOUS
<1>5. MeterCompleteIsJustified' BY <1>4 DEF MeterIInv, MeterCompleteIsJustified, MeterJustified, MeterBegun
<1>6. MeterReadIsPast' BY <1>1 DEF MeterIInv, MeterReadIsPast
<1>7. MeterSinceObservation'
  <2> DEFINE s == ledger.state
             v == s.count
             d == Meter!Date(zone, wall)
             e == Meter!Date(zone, wall + step)
  <2> SUFFICES ASSUME MeterStanding, e > s.date
               PROVE  /\ count[meter] = v => MeterBegun(meter, zone, s.date + 1, v)'
                      /\ reading' # None /\ reading'.meter = meter /\ reading'.count = v =>
                                 MeterBegun(meter, zone, s.date + 1, v)'
    BY DEF MeterIInv, MeterSinceObservation, MeterStanding
  <2>1. s \in MeterStates /\ s.date \in Int BY DEF MeterStanding, MeterIInv, MeterLedgerTypes, MeterStates
  <2>2. d \in Int /\ e \in Int /\ e <= d + 1
    <3>1. CASE step = 1 BY <1>2, <3>1, MeterNextDate
    <3>2. CASE step = -1
      <4>1. wall - 1 \in Int /\ wall - 1 + 1 = wall /\ wall + step = wall - 1 BY <1>2, <3>2
      <4>2. Meter!Date(zone, wall - 1) \in Int /\ d \in {Meter!Date(zone, wall - 1), Meter!Date(zone, wall - 1) + 1}
        BY <1>2, <4>1, MeterNextDate
      <4>3. QED BY <4>1, <4>2
    <3>3. QED BY <3>1, <3>2
  <2>3. CASE d > s.date
    <3>1. /\ count[meter] = v => MeterBegun(meter, zone, s.date + 1, v)
          /\ reading # None /\ reading.meter = meter /\ reading.count = v => MeterBegun(meter, zone, s.date + 1, v)
      BY <2>3 DEF MeterIInv, MeterSinceObservation
    <3>2. QED BY <1>1, <1>4, <3>1 DEF MeterBegun
  <2>4. CASE ~(d > s.date)
    <3>1. e = s.date + 1 /\ e > d BY <2>1, <2>2, <2>4
    <3>2. meter \in Meters BY DEF MeterIInv, MeterLedgerTypes
    <3>3. [meter |-> meter, zone |-> zone, date |-> e, count |-> count[meter]] \in Meter!Begins(wall, wall + step)
      BY <1>2, <3>1, <3>2 DEF Meter!Begins
    <3>4. reading # None =>
            [meter |-> reading.meter, zone |-> zone, date |-> e, count |-> reading.count]
               \in Meter!Begins(wall, wall + step)
      BY <1>2, <3>1 DEF Meter!Begins
    <3> HIDE DEF e, d
    <3>5. QED BY <1>1, <3>1, <3>3, <3>4 DEF MeterBegun
  <2>5. QED BY <2>3, <2>4
<1>8. QED BY <1>3, <1>5, <1>6, <1>7 DEF MeterIInv

LEMMA MeterCountsKeeps == ASSUME MeterIInv, Meter!Counts PROVE MeterIInv'
<1>1. /\ count' = [count EXCEPT ![meter] = @ + 1]
      /\ UNCHANGED <<mono, wall, zone, meter, reading, ledger, saving, ledgerFile, entered>>
  BY DEF Meter!Counts
<1>2. count \in [Meters -> Int] /\ meter \in Meters BY DEF MeterIInv, MeterLedgerTypes
<1>3. count' \in [Meters -> Int] /\ count'[meter] = count[meter] + 1 /\ \A m \in Meters : count[m] <= count'[m]
  BY <1>1, <1>2
<1>4. MeterLedgerTypes' BY <1>1, <1>3 DEF MeterIInv, MeterLedgerTypes
<1>5. MeterCompleteIsJustified' BY <1>1 DEF MeterIInv, MeterCompleteIsJustified, MeterJustified, MeterBegun
<1>6. MeterReadIsPast' BY <1>1, <1>2, <1>3 DEF MeterIInv, MeterReadIsPast, MeterLedgerTypes
<1>7. MeterSinceObservation'
  <2>1. MeterStanding => ledger.state.count \in Int BY DEF MeterStanding, MeterIInv, MeterLedgerTypes, MeterStates
  <2>2. count[meter] \in Int BY <1>2
  <2>3. QED BY <1>1, <1>3, <2>1, <2>2 DEF MeterIInv, MeterSinceObservation, MeterStanding, MeterBegun
<1>8. QED BY <1>4, <1>5, <1>6, <1>7 DEF MeterIInv

\* Another meter, another zone, a restart: the ledger stands no more.
LEMMA MeterUpsetKeeps == ASSUME MeterIInv, Meter!MeterChanges \/ Meter!ZoneChanges \/ Meter!Restarts PROVE MeterIInv'
<1>1. UNCHANGED <<mono, wall, count, ledgerFile, entered>> /\ meter' \in Meters /\ zone' \in Meter!Zones
      /\ reading' \in {None, reading}
  BY DEF Meter!MeterChanges, Meter!ZoneChanges, Meter!Restarts, MeterIInv, MeterLedgerTypes
<1>2. saving' \in [copy : {None, saving.copy}, current : BOOLEAN, dirty : BOOLEAN]
  <2>1. CASE Meter!Restarts
    <3>1. saving' = [copy |-> None, current |-> FALSE, dirty |-> FALSE] BY <2>1 DEF Meter!Restarts, Meter!Unsaved
    <3>2. QED BY <3>1
  <2>2. CASE Meter!MeterChanges \/ Meter!ZoneChanges
    BY <2>2 DEF Meter!MeterChanges, Meter!ZoneChanges, MeterIInv, MeterLedgerTypes
  <2>3. QED BY <2>1, <2>2
<1>3. ledger' \in [state : {None} \cup MeterStates, observed : {None} \cup Int, error : BOOLEAN, pending : BOOLEAN,
                   reset : BOOLEAN]
      /\ ledger'.error = TRUE /\ ledger'.state \in {ledger.state, ledgerFile}
  <2>1. CASE Meter!Restarts
    <3>1. ledger' = [state |-> ledgerFile, observed |-> None, error |-> TRUE, pending |-> FALSE, reset |-> FALSE]
      BY <2>1 DEF Meter!Restarts, Meter!Loaded
    <3>2. QED BY <3>1 DEF MeterIInv, MeterLedgerTypes
  <2>2. CASE Meter!MeterChanges \/ Meter!ZoneChanges
    <3>1. PICK reset \in BOOLEAN : ledger' = Meter!Invalidated(reset)
      BY <2>2 DEF Meter!MeterChanges, Meter!ZoneChanges
    <3>2. QED BY <3>1, MeterInvalidatedType DEF MeterIInv
  <2>3. QED BY <2>1, <2>2
<1>4. MeterLedgerTypes' BY <1>1, <1>3, <1>2 DEF MeterIInv, MeterLedgerTypes
<1>5. MeterCompleteIsJustified'
  BY <1>1, <1>3, <1>2 DEF MeterIInv, MeterCompleteIsJustified, MeterJustified, MeterBegun
<1>6. MeterReadIsPast' BY <1>1 DEF MeterIInv, MeterReadIsPast
<1>7. MeterSinceObservation' BY <1>3 DEF MeterSinceObservation, MeterStanding
<1>8. QED BY <1>4, <1>5, <1>6, <1>7 DEF MeterIInv

\* The ledger's invariant holds in every reachable state: whatever is complete, in
\* memory, in a save on its way and in the file, is justified, and an undisturbed
\* observation proves the midnight after it (GridEnergyLedger, grid_energy.py).
THEOREM MeterInductive == Meter!Spec => []MeterIInv
<1>1. Meter!Init => MeterIInv BY MeterInitIInv
<1>2. MeterIInv /\ [Meter!Next]_Meter!evars => MeterIInv'
  <2> SUFFICES ASSUME MeterIInv, [Meter!Next]_Meter!evars PROVE MeterIInv'
    OBVIOUS
  <2>1. CASE Meter!ReadStarts BY <2>1, MeterReadStartsKeeps
  <2>2. CASE Meter!ReadEnds BY <2>2, MeterReadEndsKeeps
  <2>3. CASE Meter!Persist \/ Meter!Saved BY <2>3, MeterSavingKeeps
  <2>4. CASE Meter!Tick
    <3>1. mono' \in Int BY <2>4 DEF Meter!Tick, MeterIInv, MeterLedgerTypes
    <3>2. reading' = reading \/ (reading # None /\ reading' = [reading EXCEPT !.late = TRUE]) BY <2>4 DEF Meter!Tick
    <3>3. QED BY <2>4, <3>1, <3>2, MeterTimeKeeps DEF Meter!Tick
  <2>5. CASE Meter!ClockJumps
    <3>1. mono' \in Int BY <2>5 DEF Meter!ClockJumps, MeterIInv, MeterLedgerTypes
    <3>2. QED BY <2>5, <3>1, MeterTimeKeeps DEF Meter!ClockJumps
  <2>6. CASE Meter!Counts BY <2>6, MeterCountsKeeps
  <2>7. CASE Meter!MeterChanges \/ Meter!ZoneChanges \/ Meter!Restarts BY <2>7, MeterUpsetKeeps
  <2>8. CASE UNCHANGED Meter!evars
    BY <2>8 DEF Meter!evars, MeterIInv, MeterLedgerTypes, MeterCompleteIsJustified, MeterJustified, MeterBegun,
      MeterReadIsPast, MeterSinceObservation, MeterStanding
  <2>9. QED BY <2>1, <2>2, <2>3, <2>4, <2>5, <2>6, <2>7, <2>8 DEF Meter!Next
<1>3. QED BY <1>1, <1>2, PTL DEF Meter!Spec

\* The energy of a day shown as complete is counted from what its meter said when
\* its date began, for any meters, length of the day, clock jumps, changes and
\* restarts (_midnight_proved and _reseed_reason, grid_energy.py).
THEOREM MeterDayIsExact == Meter!Spec => []Meter!CompleteDayIsExact
<1>1. MeterIInv => Meter!CompleteDayIsExact
  <2> SUFFICES ASSUME MeterIInv, Meter!ShownComplete
               PROVE  MeterBegun(ledger.state.meter, ledger.state.zone, Meter!Date(zone, wall), ledger.state.baseline)
    BY DEF Meter!CompleteDayIsExact, MeterBegun
  <2>1. MeterStanding /\ ledger.state.complete /\ Meter!Date(ledger.state.zone, wall) = ledger.state.date
    BY DEF Meter!ShownComplete, Meter!Available, MeterStanding
  <2>2. ledger.state.zone = zone BY <2>1 DEF MeterIInv, MeterSinceObservation
  <2>3. QED BY <2>1, <2>2 DEF MeterIInv, MeterCompleteIsJustified, MeterJustified, MeterStanding
<1>2. QED BY <1>1, MeterInductive, PTL

\* What all parts do is, as far as this one goes, what it does.
LEMMA MeterRuns == Spec => Meter!Spec
<1>1. Init => Meter!Init BY DEF Init
<1>2. [Next]_vars => [Meter!Next]_Meter!evars
  <2> SUFFICES ASSUME [Next]_vars PROVE Meter!Next \/ UNCHANGED meterVars
    BY DEF Meter!evars, meterVars
  <2>1. CASE UNCHANGED vars BY <2>1 DEF vars
  <2>2. ASSUME NEW p \in Parts, p # "meter", Only(p) PROVE UNCHANGED meterVars
    BY <2>2 DEF Only
  <2>3. QED BY <2>1, <2>2 DEF Next, Parts
<1>3. QED BY <1>1, <1>2, PTL DEF Spec, Meter!Spec

\* A day shown as complete is counted from what its meter said when the date began,
\* for any meters, length of a day and order of reads, saves, clock jumps, changes
\* of meter and zone and restarts (_midnight_proved and _observe_locked,
\* grid_energy.py).
THEOREM CountedFromMidnight == Spec => []CompleteDayIsExact
BY MeterRuns, MeterDayIsExact, PTL DEF CompleteDayIsExact

-----------------------------------------------------------------------------
(* The trim *)

TrimDecisions == [delta : {0, -1}, setpoint : Int, previous : Int, time : {None} \cup Int]

TrimTyped(t) ==
  t \in [context : {None} \cup Nat, setpoint : {None} \cup Int, command : {None} \cup Int, last : {None} \cup Int,
         reports : SUBSET Int, total : Int, warmup : BOOLEAN, issued : {None} \cup TrimDecisions,
         pending : {None} \cup TrimDecisions, mode : Nat, episode : Nat]

TrimTypes ==
  /\ now \in Nat /\ (sample # None => sample \in Int /\ sample <= now)
  /\ world \in [previous : Int, mode : Nat, episode : Nat, source : Nat]
  /\ accepted \in [moved : Int, spent : Int, drift : Int, sound : BOOLEAN]
  /\ accepted.moved <= now

\* A warmup has no reports and no correction to repeat.
TrimWarmupIsEmpty(t) == t.warmup => t.reports = {} /\ t.pending = None

\* Reports are measured after the command had settled.
TrimReportsFollow(t) == t.reports # {} => t.command # None /\ \A r \in t.reports : r >= t.command + Delay

\* A correction that waits to be written rests on the last report, of after the
\* command, and fits the budget.
TrimPendingIsSound(t) ==
  t.pending # None =>
    /\ ~t.warmup /\ t.command # None /\ t.pending.delta = -1
    /\ t.pending.previous = t.setpoint /\ t.pending.setpoint = t.pending.previous - 1 /\ t.pending.time # None
    /\ t.command + Delay <= t.pending.time /\ t.pending.time <= now
    /\ t.total - 1 >= -MaxTotal

\* The last correction used a report of before the command.
TrimSpentIsPast(t) ==
  IF t.command = None THEN accepted.spent < 0 /\ t.warmup
  ELSE accepted.spent <= t.command /\ t.command <= now

\* In its own episode the trim knows when the inverter's command moved last.
TrimCommandIsKnown(t) == t.episode = world.episode /\ ~t.warmup => accepted.moved <= t.command

TrimBased(t) == t.context = world.source /\ t.setpoint = world.previous

\* The budget counts at least what the setpoint has drifted.
TrimBudgetCovers(t) ==
  /\ t.total <= 0 /\ -MaxTotal <= t.total
  /\ accepted.drift <= 0 /\ -MaxTotal <= accepted.drift
  /\ IF TrimBased(t) THEN t.total <= accepted.drift ELSE accepted.drift = 0

TrimNotAhead(t) == t.episode <= world.episode /\ (t.context # None => t.context <= world.source)

TrimOK(t) ==
      /\ TrimTyped(t) /\ TrimWarmupIsEmpty(t) /\ TrimReportsFollow(t) /\ TrimPendingIsSound(t) /\ TrimSpentIsPast(t)
      /\ TrimCommandIsKnown(t) /\ TrimBudgetCovers(t) /\ TrimNotAhead(t)

\* Between a proposal and its write nobody touches the trim.
TrimSound(d, t) ==
  /\ d \in TrimDecisions /\ d.previous = world.previous
  /\ d.delta # 0 => t.pending = d

TrimCycleKept ==
  cycle.at # "idle" =>
    /\ trim.issued = cycle.decision /\ trim.reports = cycle.reports /\ trim.episode = cycle.world.episode
    /\ TrimSound(cycle.decision, trim)

TrimIInv == TrimTypes /\ TrimOK(trim) /\ TrimCycleKept /\ accepted.sound

LEMMA TrimInitIInv == ASSUME Trim!Init PROVE TrimIInv
<1>1. TrimTypes BY TrimAssumption DEF Trim!Init, TrimTypes
<1>2. TrimTyped(trim)
  <2>1. trim = [context |-> None, setpoint |-> None, command |-> None, last |-> None, reports |-> {},
             total |-> 0, warmup |-> TRUE, issued |-> None, pending |-> None, mode |-> 0, episode |-> 0]
    BY DEF Trim!Init
  <2>2. QED BY <2>1 DEF TrimTyped
<1>3. /\ trim.context = None /\ trim.command = None /\ trim.reports = {} /\ trim.total = 0 /\ trim.warmup = TRUE
      /\ trim.pending = None /\ trim.episode = 0
      /\ accepted.spent = -1 /\ accepted.drift = 0 /\ accepted.sound = TRUE /\ world.episode = 0 /\ world.source = 0
  BY DEF Trim!Init
<1>4. TrimWarmupIsEmpty(trim) /\ TrimReportsFollow(trim) /\ TrimPendingIsSound(trim) /\ TrimSpentIsPast(trim)
      /\ TrimCommandIsKnown(trim)
  BY <1>3 DEF TrimWarmupIsEmpty, TrimReportsFollow, TrimPendingIsSound, TrimSpentIsPast, TrimCommandIsKnown
<1>5. TrimBudgetCovers(trim) /\ TrimNotAhead(trim) BY TrimAssumption, <1>3 DEF TrimBudgetCovers, TrimNotAhead
<1>6. TrimCycleKept BY DEF Trim!Init, TrimCycleKept, Trim!Idle
<1>7. QED BY <1>1, <1>2, <1>3, <1>4, <1>5, <1>6 DEF TrimIInv, TrimOK

-----------------------------------------------------------------------------
(* The operations on the trim *)

TrimFields(c, t) ==
  /\ c.context = t.context /\ c.setpoint = t.setpoint /\ c.command = t.command /\ c.last = t.last
  /\ c.total = t.total /\ c.warmup = t.warmup /\ c.mode = t.mode /\ c.episode = t.episode

LEMMA TrimClearedOK ==
  ASSUME NEW t, TrimOK(t)
  PROVE  /\ TrimOK(Trim!Cleared(t))
         /\ TrimFields(Trim!Cleared(t), t) /\ Trim!Cleared(t).reports = {} /\ Trim!Cleared(t).pending = None
            /\ Trim!Cleared(t).issued = t.issued
<1>1. TrimTyped(t) BY DEF TrimOK
<1>2. PICK c : c = [t EXCEPT !.reports = {}, !.pending = None] OBVIOUS
<1>3. TrimTyped(c) BY <1>1, <1>2 DEF TrimTyped
<1>4. TrimFields(c, t) /\ c.reports = {} /\ c.pending = None /\ c.issued = t.issued
  BY <1>1, <1>2 DEF TrimTyped, TrimFields
<1>5. TrimWarmupIsEmpty(c) /\ TrimReportsFollow(c) /\ TrimPendingIsSound(c) /\ TrimSpentIsPast(c)
      /\ TrimCommandIsKnown(c)
  BY <1>4 DEF TrimOK, TrimWarmupIsEmpty, TrimReportsFollow, TrimPendingIsSound, TrimSpentIsPast,
    TrimCommandIsKnown, TrimFields
<1>6. TrimBudgetCovers(c) /\ TrimNotAhead(c) BY <1>4 DEF TrimOK, TrimBudgetCovers, TrimBased, TrimNotAhead, TrimFields
<1>7. QED BY <1>2, <1>3, <1>4, <1>5, <1>6 DEF TrimOK, Trim!Cleared

LEMMA TrimResetOK ==
  ASSUME NEW t, TrimOK(t)
  PROVE  /\ TrimOK(Trim!Reset(t))
         /\ Trim!Reset(t).warmup = TRUE /\ Trim!Reset(t).issued = None /\ Trim!Reset(t).reports = {}
            /\ Trim!Reset(t).pending = None
         /\ Trim!Reset(t).episode = t.episode
<1>1. PICK c : c = Trim!Cleared(t) OBVIOUS
<1>2. TrimOK(c) /\ TrimFields(c, t) /\ c.reports = {} /\ c.pending = None BY <1>1, TrimClearedOK
<1>3. PICK r : r = [c EXCEPT !.warmup = TRUE, !.issued = None] OBVIOUS
<1>4. TrimTyped(r)
  <2>1. PICK b \in BOOLEAN : b = TRUE OBVIOUS
  <2>2. r = [c EXCEPT !.warmup = b, !.issued = None] BY <1>3, <2>1
  <2>3. TrimTyped(c) BY <1>2 DEF TrimOK
  <2>4. QED BY <2>2, <2>3 DEF TrimTyped
<1>5. /\ r.warmup = TRUE /\ r.issued = None /\ r.reports = {} /\ r.pending = None /\ r.episode = c.episode
      /\ r.context = c.context /\ r.setpoint = c.setpoint /\ r.command = c.command /\ r.total = c.total
  BY <1>2, <1>3 DEF TrimOK, TrimTyped
<1>6. TrimWarmupIsEmpty(r) /\ TrimReportsFollow(r) /\ TrimPendingIsSound(r) /\ TrimSpentIsPast(r)
      /\ TrimCommandIsKnown(r)
  BY <1>2, <1>5 DEF TrimOK, TrimWarmupIsEmpty, TrimReportsFollow, TrimPendingIsSound, TrimSpentIsPast,
    TrimCommandIsKnown
<1>7. TrimBudgetCovers(r) /\ TrimNotAhead(r) BY <1>2, <1>5 DEF TrimOK, TrimBudgetCovers, TrimBased, TrimNotAhead
<1>8. QED BY <1>1, <1>2, <1>3, <1>4, <1>5, <1>6, <1>7 DEF TrimOK, Trim!Reset, TrimFields

\* The decision a trim issues is its own, or one that waits to be written.
TrimIssues(w, t) == TrimOK(w) /\ TrimSound(w.issued, w) /\ w.episode = t.episode
      /\ (w.issued.delta # 0 => TrimBased(w))

LEMMA TrimDecisionType ==
  ASSUME TrimTypes, NEW delta \in {0, -1}, NEW b \in Int, NEW report \in {None} \cup Int, NEW d,
         d = Trim!Decision(delta, b, report)
  PROVE  d \in TrimDecisions /\ d.delta = delta /\ d.setpoint = b + delta /\ d.previous = world.previous
        /\ d.time = report
BY DEF TrimTypes, Trim!Decision, TrimDecisions

\* A decision to hold, or to follow the fast control
LEMMA TrimHeldOK ==
  ASSUME TrimTypes, NEW t, TrimOK(t), NEW b \in Int, NEW report \in {None} \cup Int,
         NEW w, w = Trim!Issue(t, Trim!Decision(0, b, report))
  PROVE  TrimIssues(w, t) /\ w.issued.delta = 0
<1>1. PICK d : d = Trim!Decision(0, b, report) OBVIOUS
<1>2. d \in TrimDecisions /\ d.delta = 0 /\ d.previous = world.previous BY <1>1, TrimDecisionType
<1>3. w = [t EXCEPT !.issued = d, !.pending = t.pending]
  BY <1>1, <1>2 DEF Trim!Issue, TrimOK, TrimTyped
<1>4. TrimTyped(w) BY <1>2, <1>3 DEF TrimOK, TrimTyped
<1>5. TrimFields(w, t) /\ w.reports = t.reports /\ w.pending = t.pending /\ w.issued = d
  BY <1>3 DEF TrimOK, TrimTyped, TrimFields
<1>6. TrimWarmupIsEmpty(w) /\ TrimReportsFollow(w) /\ TrimPendingIsSound(w) /\ TrimSpentIsPast(w)
      /\ TrimCommandIsKnown(w)
  BY <1>5 DEF TrimOK, TrimWarmupIsEmpty, TrimReportsFollow, TrimPendingIsSound, TrimSpentIsPast,
    TrimCommandIsKnown, TrimFields
<1>7. TrimBudgetCovers(w) /\ TrimNotAhead(w) BY <1>5 DEF TrimOK, TrimBudgetCovers, TrimBased, TrimNotAhead, TrimFields
<1>8. QED BY <1>2, <1>4, <1>5, <1>6, <1>7 DEF TrimOK, TrimIssues, TrimSound, TrimFields

LEMMA TrimBaselineOK ==
  ASSUME TrimTypes, NEW t, TrimOK(t), NEW w, w = Trim!Baseline(t)
  PROVE  TrimOK(w) /\ TrimBased(w) /\ ~w.warmup /\ w.command # None /\ w.episode = t.episode
<1>1. now \in Nat /\ world.source \in Nat /\ world.previous \in Int BY DEF TrimTypes
<1>2. CASE world.source # t.context \/ world.previous # t.setpoint
  <2>1. PICK c : c = Trim!Cleared(t) OBVIOUS
  <2>2. TrimOK(c) /\ c.reports = {} /\ c.pending = None /\ c.episode = t.episode /\ c.command = t.command
        /\ c.warmup = t.warmup
    BY <2>1, TrimClearedOK DEF TrimFields
  <2>3. w = [c EXCEPT !.context = world.source, !.setpoint = world.previous, !.command = now,
                      !.total = 0, !.last = None, !.warmup = FALSE]
    BY <1>2, <2>1 DEF Trim!Baseline
  <2>4. TrimTyped(w)
    <3>1. TrimTyped(c) BY <2>2 DEF TrimOK
    <3>2. /\ world.source \in {None} \cup Nat /\ world.previous \in {None} \cup Int /\ now \in {None} \cup Int
          /\ 0 \in Int /\ None \in {None} \cup Int /\ FALSE \in BOOLEAN
      BY <1>1
    <3>3. PICK a \in {None} \cup Nat, b \in {None} \cup Int, m \in {None} \cup Int, l \in {None} \cup Int,
               n \in Int, f \in BOOLEAN :
            a = world.source /\ b = world.previous /\ m = now /\ l = None /\ n = 0 /\ f = FALSE
      BY <3>2
    <3>4. PICK u : u = [c EXCEPT !.context = a, !.setpoint = b, !.command = m] OBVIOUS
    <3>5. w = [u EXCEPT !.total = n, !.last = l, !.warmup = f] BY <2>3, <3>3, <3>4
    <3>6. TrimTyped(u) BY <3>1, <3>4 DEF TrimTyped
    <3>7. QED BY <3>5, <3>6 DEF TrimTyped
  <2>5. /\ w.context = world.source /\ w.setpoint = world.previous /\ w.command = now /\ w.total = 0
        /\ w.warmup = FALSE /\ w.reports = {} /\ w.pending = None /\ w.episode = t.episode
    BY <2>2, <2>3 DEF TrimOK, TrimTyped
  <2>6. accepted.drift = 0 BY <1>2 DEF TrimOK, TrimBudgetCovers, TrimBased
  <2>7. accepted.spent <= now
    BY TrimAssumption, <1>1 DEF TrimOK, TrimSpentIsPast, TrimTypes, TrimTyped
  <2>8. w.command # None BY TrimAssumption, <1>1, <2>5
  <2>9. TrimWarmupIsEmpty(w) /\ TrimReportsFollow(w) /\ TrimPendingIsSound(w)
    BY <2>5 DEF TrimWarmupIsEmpty, TrimReportsFollow, TrimPendingIsSound
  <2>10. TrimSpentIsPast(w) /\ TrimCommandIsKnown(w)
    BY <1>1, <2>5, <2>7, <2>8 DEF TrimSpentIsPast, TrimCommandIsKnown, TrimTypes
  <2>11. TrimBudgetCovers(w) /\ TrimNotAhead(w)
    BY TrimAssumption, <1>1, <2>5, <2>6 DEF TrimOK, TrimBudgetCovers, TrimBased, TrimNotAhead
  <2>12. QED BY <2>4, <2>5, <2>8, <2>9, <2>10, <2>11 DEF TrimOK, TrimBased
<1>3. CASE ~(world.source # t.context \/ world.previous # t.setpoint) /\ t.warmup
  <2>1. w = [t EXCEPT !.command = now, !.warmup = FALSE] BY <1>3 DEF Trim!Baseline
  <2>2. TrimTyped(w)
    <3>1. TrimTyped(t) BY DEF TrimOK
    <3>2. now \in {None} \cup Int /\ FALSE \in BOOLEAN BY <1>1
    <3>3. PICK m \in {None} \cup Int, f \in BOOLEAN : m = now /\ f = FALSE BY <3>2
    <3>4. w = [t EXCEPT !.command = m, !.warmup = f] BY <2>1, <3>3
    <3>5. QED BY <3>1, <3>4 DEF TrimTyped
  <2>3. /\ w.context = t.context /\ w.setpoint = t.setpoint /\ w.command = now /\ w.total = t.total
        /\ w.warmup = FALSE /\ w.reports = t.reports /\ w.pending = t.pending /\ w.episode = t.episode
    BY <2>1 DEF TrimOK, TrimTyped
  <2>4. t.reports = {} /\ t.pending = None BY <1>3 DEF TrimOK, TrimWarmupIsEmpty
  <2>5. accepted.spent <= now
    BY TrimAssumption, <1>1 DEF TrimOK, TrimSpentIsPast, TrimTypes, TrimTyped
  <2>6. w.command # None BY TrimAssumption, <1>1, <2>3
  <2>7. TrimWarmupIsEmpty(w) /\ TrimReportsFollow(w) /\ TrimPendingIsSound(w)
    BY <2>3, <2>4 DEF TrimWarmupIsEmpty, TrimReportsFollow, TrimPendingIsSound
  <2>8. TrimSpentIsPast(w) /\ TrimCommandIsKnown(w)
    BY <1>1, <2>3, <2>5, <2>6 DEF TrimSpentIsPast, TrimCommandIsKnown, TrimTypes
  <2>9. TrimBudgetCovers(w) /\ TrimNotAhead(w) BY <2>3 DEF TrimOK, TrimBudgetCovers, TrimBased, TrimNotAhead
  <2>10. QED BY <1>3, <2>2, <2>3, <2>6, <2>7, <2>8, <2>9 DEF TrimOK, TrimBased
<1>4. CASE ~(world.source # t.context \/ world.previous # t.setpoint) /\ ~t.warmup
  <2>1. w = t BY <1>4 DEF Trim!Baseline
  <2>2. t.command # None BY <1>4 DEF TrimOK, TrimSpentIsPast
  <2>3. QED BY <1>4, <2>1, <2>2 DEF TrimBased
<1>5. QED BY <1>2, <1>3, <1>4

\* A trim with another last report, other reports and perhaps no pending correction
LEMMA TrimReportedOK ==
  ASSUME NEW t, TrimOK(t), ~t.warmup, NEW v, TrimTyped(v), v.pending \in {None, t.pending},
         v.warmup = t.warmup, v.episode = t.episode, v.command = t.command, v.total = t.total,
         v.setpoint = t.setpoint, v.context = t.context,
         \A r \in v.reports : r >= t.command + Delay
  PROVE  TrimOK(v)
<1>1. t.command # None BY DEF TrimOK, TrimSpentIsPast
<1>2. TrimWarmupIsEmpty(v) /\ TrimReportsFollow(v) /\ TrimSpentIsPast(v) /\ TrimCommandIsKnown(v)
  BY <1>1 DEF TrimOK, TrimWarmupIsEmpty, TrimReportsFollow, TrimSpentIsPast, TrimCommandIsKnown
<1>3. TrimPendingIsSound(v) BY DEF TrimOK, TrimPendingIsSound
<1>4. TrimBudgetCovers(v) /\ TrimNotAhead(v) BY DEF TrimOK, TrimBudgetCovers, TrimBased, TrimNotAhead
<1>5. QED BY <1>2, <1>3, <1>4 DEF TrimOK

\* A correction that is found now
LEMMA TrimCorrectedOK ==
  ASSUME TrimTypes, sample # None, NEW t, TrimOK(t), ~t.warmup, TrimBased(t), ~Trim!Predates(t),
         t.total - 1 >= -MaxTotal, NEW w, w = Trim!Issue(t, Trim!Decision(-1, world.previous, sample))
  PROVE  TrimIssues(w, t)
<1>1. PICK d : d = Trim!Decision(-1, world.previous, sample) OBVIOUS
<1>2. sample \in Int /\ sample <= now /\ world.previous \in Int BY DEF TrimTypes
<1>3. d \in TrimDecisions /\ d.delta = -1 /\ d.setpoint = world.previous - 1 /\ d.previous = world.previous
      /\ d.time = sample
  BY <1>1, <1>2, TrimDecisionType
<1>5. TrimTyped(t) BY DEF TrimOK
<1>4. w = [t EXCEPT !.issued = d, !.pending = d] BY <1>1, <1>3, <1>5, d.delta # 0 DEF Trim!Issue, TrimTyped
<1>6. TrimTyped(w) BY <1>3, <1>4, <1>5 DEF TrimTyped
<1>7. TrimFields(w, t) /\ w.reports = t.reports /\ w.pending = d /\ w.issued = d
  BY <1>4, <1>5 DEF TrimTyped, TrimFields
<1>8. t.command # None /\ t.command \in Int BY <1>5 DEF TrimOK, TrimSpentIsPast, TrimTyped
<1>9. t.command + Delay <= sample BY TrimAssumption, <1>2, <1>8 DEF Trim!Predates
<1>10. TrimPendingIsSound(w)
  BY TrimAssumption, <1>2, <1>3, <1>7, <1>8, <1>9 DEF TrimPendingIsSound, TrimFields, TrimBased
<1>11. TrimWarmupIsEmpty(w) /\ TrimReportsFollow(w) /\ TrimSpentIsPast(w) /\ TrimCommandIsKnown(w)
  BY <1>7 DEF TrimOK, TrimWarmupIsEmpty, TrimReportsFollow, TrimSpentIsPast, TrimCommandIsKnown, TrimFields
<1>12. TrimBudgetCovers(w) /\ TrimNotAhead(w)
  BY <1>7 DEF TrimOK, TrimBudgetCovers, TrimBased, TrimNotAhead, TrimFields
<1>13. QED BY <1>3, <1>6, <1>7, <1>10, <1>11, <1>12 DEF TrimOK, TrimIssues, TrimSound, TrimFields, TrimBased

\* A correction found before is issued again.
LEMMA TrimRepeatedOK ==
  ASSUME TrimTypes, NEW t, TrimOK(t), TrimBased(t), t.pending # None, NEW w, w = [t EXCEPT !.issued = t.pending]
  PROVE  TrimIssues(w, t)
<1>1. TrimTyped(t) BY DEF TrimOK
<1>2. PICK d : d = t.pending OBVIOUS
<1>3. d \in TrimDecisions /\ d.previous = world.previous
  BY <1>1, <1>2 DEF TrimTyped, TrimOK, TrimPendingIsSound, TrimBased
<1>4. w = [t EXCEPT !.issued = d] BY <1>2
<1>5. TrimTyped(w) BY <1>1, <1>3, <1>4 DEF TrimTyped
<1>6. TrimFields(w, t) /\ w.reports = t.reports /\ w.pending = d /\ w.issued = d
  BY <1>1, <1>2, <1>4 DEF TrimTyped, TrimFields
<1>7. TrimWarmupIsEmpty(w) /\ TrimReportsFollow(w) /\ TrimSpentIsPast(w) /\ TrimCommandIsKnown(w)
  BY <1>2, <1>6 DEF TrimOK, TrimWarmupIsEmpty, TrimReportsFollow, TrimSpentIsPast, TrimCommandIsKnown, TrimFields
<1>8. TrimPendingIsSound(w) BY <1>2, <1>6 DEF TrimOK, TrimPendingIsSound, TrimFields
<1>9. TrimBudgetCovers(w) /\ TrimNotAhead(w) BY <1>6 DEF TrimOK, TrimBudgetCovers, TrimBased, TrimNotAhead, TrimFields
<1>10. QED BY <1>3, <1>5, <1>6, <1>7, <1>8, <1>9 DEF TrimOK, TrimIssues, TrimSound, TrimFields, TrimBased

LEMMA TrimWindowedOK ==
  ASSUME TrimTypes, sample # None, NEW t, TrimOK(t), TrimBased(t), ~t.warmup, NEW steady, NEW drifted,
         NEW w, w = Trim!Windowed(t, steady, drifted)
  PROVE  TrimIssues(w, t)
<1>1. world.previous \in Int /\ sample \in Int BY DEF TrimTypes
<1>2. TrimTyped(t) /\ t.command # None /\ t.command \in Int BY DEF TrimOK, TrimSpentIsPast, TrimTyped
<1>3. PICK new \in BOOLEAN : new = (t.last = None \/ sample > t.last) OBVIOUS
<1>4. PICK u : u = IF new THEN [t EXCEPT !.pending = None, !.last = sample] ELSE t OBVIOUS
<1>5. PICK v : v = [u EXCEPT !.reports = Trim!Recent(IF new THEN @ \cup {sample} ELSE @)] OBVIOUS
<1>6. PICK delta : delta = IF drifted THEN -1 ELSE 0 OBVIOUS
<1>7. \/ w = Trim!Hold(Trim!Cleared(t))
      \/ w = Trim!Hold([u EXCEPT !.pending = None])
      \/ ~Trim!Predates(t) /\ w = Trim!Hold(v)
      \/ ~Trim!Predates(t) /\ v.pending # None /\ w = [v EXCEPT !.issued = v.pending]
      \/ ~Trim!Predates(t) /\ ~(v.total + delta < -MaxTotal)
         /\ w = Trim!Issue(v, Trim!Decision(delta, world.previous, sample))
  BY <1>3, <1>4, <1>5, <1>6 DEF Trim!Windowed
<1>8. PICK l \in {None} \cup Int, q \in {None, t.pending} :
        u = [t EXCEPT !.last = l, !.reports = t.reports, !.pending = q]
  <2>1. CASE new
    <3>1. u = [t EXCEPT !.last = sample, !.reports = t.reports, !.pending = None] BY <1>2, <1>4, <2>1 DEF TrimTyped
    <3>2. QED BY <1>1, <3>1
  <2>2. CASE ~new
    <3>1. u = [t EXCEPT !.last = t.last, !.reports = t.reports, !.pending = t.pending]
      BY <1>2, <1>4, <2>2 DEF TrimTyped
    <3>2. t.last \in {None} \cup Int BY <1>2 DEF TrimTyped
    <3>3. QED BY <3>1, <3>2
  <2>3. QED BY <2>1, <2>2
<1>9. t.reports \in SUBSET Int /\ \A r \in t.reports : r >= t.command + Delay
  BY <1>2 DEF TrimOK, TrimReportsFollow, TrimTyped
<1>10. CASE w = Trim!Hold(Trim!Cleared(t))
  <2>1. PICK x : x = Trim!Cleared(t) OBVIOUS
  <2>2. TrimOK(x) /\ x.episode = t.episode BY <2>1, TrimClearedOK DEF TrimFields
  <2>3. TrimIssues(w, x) BY <1>1, <1>10, <2>1, <2>2, TrimHeldOK DEF Trim!Hold
  <2>4. QED BY <2>2, <2>3 DEF TrimIssues
<1>11. CASE w = Trim!Hold([u EXCEPT !.pending = None])
  <2>1. PICK x : x = [u EXCEPT !.pending = None] OBVIOUS
  <2>2. x = [t EXCEPT !.last = l, !.reports = t.reports, !.pending = None] BY <1>2, <1>8, <2>1 DEF TrimTyped
  <2>3. TrimTyped(x) BY <1>2, <2>2 DEF TrimTyped
  <2>4. /\ x.pending = None /\ x.reports = t.reports /\ x.warmup = t.warmup /\ x.episode = t.episode
        /\ x.command = t.command /\ x.total = t.total /\ x.setpoint = t.setpoint /\ x.context = t.context
    BY <1>2, <2>2 DEF TrimTyped
  <2>5. TrimOK(x) BY <1>9, <2>3, <2>4, TrimReportedOK
  <2>6. TrimIssues(w, x) BY <1>1, <1>11, <2>1, <2>5, TrimHeldOK DEF Trim!Hold
  <2>7. QED BY <2>4, <2>6 DEF TrimIssues
<1>12. ASSUME ~Trim!Predates(t)
       PROVE  TrimOK(v) /\ TrimBased(v) /\ ~v.warmup /\ v.episode = t.episode /\ v.command = t.command
  <2>1. PICK R : R = Trim!Recent(IF new THEN t.reports \cup {sample} ELSE t.reports) OBVIOUS
  <2>2. u.reports = t.reports BY <1>2, <1>8 DEF TrimTyped
  <2>3. v = [u EXCEPT !.reports = R] BY <1>5, <2>1, <2>2
  <2>4. v = [t EXCEPT !.last = l, !.reports = R, !.pending = q] BY <1>2, <1>8, <2>3 DEF TrimTyped
  <2>5. R \subseteq t.reports \cup {sample} /\ R \in SUBSET Int BY <1>1, <1>9, <2>1 DEF Trim!Recent
  <2>6. sample >= t.command + Delay BY TrimAssumption, <1>1, <1>2, <1>12 DEF Trim!Predates
  <2>7. \A r \in R : r >= t.command + Delay BY <1>9, <2>5, <2>6
  <2>8. q \in {None} \cup TrimDecisions BY <1>2 DEF TrimTyped
  <2>9. TrimTyped(v) BY <1>2, <2>4, <2>5, <2>8 DEF TrimTyped
  <2>10. /\ v.pending = q /\ v.reports = R /\ v.warmup = t.warmup /\ v.episode = t.episode
         /\ v.command = t.command /\ v.total = t.total /\ v.setpoint = t.setpoint /\ v.context = t.context
    BY <1>2, <2>4 DEF TrimTyped
  <2>11. TrimOK(v) BY <2>7, <2>9, <2>10, TrimReportedOK
  <2>12. QED BY <2>10, <2>11 DEF TrimBased
<1>13. CASE ~Trim!Predates(t) /\ w = Trim!Hold(v)
  <2>1. TrimIssues(w, v) BY <1>1, <1>12, <1>13, TrimHeldOK DEF Trim!Hold
  <2>2. QED BY <1>12, <1>13, <2>1 DEF TrimIssues
<1>14. CASE ~Trim!Predates(t) /\ v.pending # None /\ w = [v EXCEPT !.issued = v.pending]
  <2>1. TrimIssues(w, v) BY <1>12, <1>14, TrimRepeatedOK
  <2>2. QED BY <1>12, <1>14, <2>1 DEF TrimIssues
<1>15. CASE ~Trim!Predates(t) /\ ~(v.total + delta < -MaxTotal)
       /\ w = Trim!Issue(v, Trim!Decision(delta, world.previous, sample))
  <2>1. TrimOK(v) /\ TrimBased(v) /\ ~v.warmup /\ v.episode = t.episode /\ v.command = t.command BY <1>12, <1>15
  <2>2. ~Trim!Predates(v) BY <1>15, <2>1 DEF Trim!Predates
  <2>3. v.total \in Int BY <2>1 DEF TrimOK, TrimTyped
  <2>4. CASE delta = -1
    <3>1. v.total - 1 >= -MaxTotal BY TrimAssumption, <1>15, <2>3, <2>4
    <3>2. TrimIssues(w, v) BY <1>15, <2>1, <2>2, <2>4, <3>1, TrimCorrectedOK
    <3>3. QED BY <2>1, <3>2 DEF TrimIssues
  <2>5. CASE delta = 0
    <3>1. TrimIssues(w, v) BY <1>1, <1>15, <2>1, <2>5, TrimHeldOK
    <3>2. QED BY <2>1, <3>1 DEF TrimIssues
  <2>6. QED BY <1>6, <2>4, <2>5
<1>16. QED BY <1>7, <1>10, <1>11, <1>13, <1>14, <1>15

LEMMA TrimProposeOK ==
  ASSUME TrimTypes, NEW t, TrimOK(t), NEW eligible, NEW b \in Int, NEW steady, NEW drifted,
         NEW w, w = Trim!Propose(t, eligible, b, steady, drifted)
  PROVE  TrimIssues(w, t)
<1>1. PICK r, c, x : r = Trim!Reset(t) /\ c = Trim!Cleared(t) /\ x = Trim!Baseline(t) OBVIOUS
<1>2. TrimOK(r) /\ r.episode = t.episode BY <1>1, TrimResetOK
<1>3. TrimOK(c) /\ c.episode = t.episode BY <1>1, TrimClearedOK DEF TrimFields
<1>4. TrimOK(x) /\ TrimBased(x) /\ ~x.warmup /\ x.episode = t.episode BY <1>1, TrimBaselineOK
<1>5. CASE w = Trim!Issue(r, Trim!Decision(0, b, None))
  <2>1. TrimIssues(w, r) BY <1>2, <1>5, TrimHeldOK
  <2>2. QED BY <1>2, <2>1 DEF TrimIssues
<1>6. CASE w = Trim!Issue(c, Trim!Decision(0, b, None))
  <2>1. TrimIssues(w, c) BY <1>3, <1>6, TrimHeldOK
  <2>2. QED BY <1>3, <2>1 DEF TrimIssues
<1>7. CASE w = Trim!Hold(r)
  <2>1. world.previous \in Int BY DEF TrimTypes
  <2>2. TrimIssues(w, r) BY <1>2, <1>7, <2>1, TrimHeldOK DEF Trim!Hold
  <2>3. QED BY <1>2, <2>2 DEF TrimIssues
<1>8. CASE sample # None /\ w = Trim!Windowed(x, steady, drifted)
  <2>1. TrimIssues(w, x) BY <1>4, <1>8, TrimWindowedOK
  <2>2. QED BY <1>4, <2>1 DEF TrimIssues
<1>9. QED BY <1>1, <1>5, <1>6, <1>7, <1>8 DEF Trim!Propose, Trim!Usable

-----------------------------------------------------------------------------
(* The cycle *)

LEMMA TrimCurrentOK ==
  ASSUME TrimTypes, NEW t, TrimOK(t), NEW w, w = Trim!Current(t)
  PROVE  TrimOK(w) /\ w.episode = world.episode
<1>1. CASE w = t /\ t.episode = world.episode BY <1>1
<1>2. CASE w = [Trim!Reset(t) EXCEPT !.episode = world.episode, !.mode = world.mode]
  <2>1. PICK r : r = Trim!Reset(t) OBVIOUS
  <2>2. TrimOK(r) /\ r.warmup = TRUE /\ r.reports = {} /\ r.pending = None BY <2>1, TrimResetOK
  <2>3. PICK e \in Nat, m \in Nat : e = world.episode /\ m = world.mode BY DEF TrimTypes
  <2>4. w = [r EXCEPT !.episode = e, !.mode = m] BY <1>2, <2>1, <2>3
  <2>5. TrimTyped(r) BY <2>2 DEF TrimOK
  <2>6. TrimTyped(w) BY <2>4, <2>5 DEF TrimTyped
  <2>7. /\ w.episode = e /\ w.warmup = r.warmup /\ w.reports = r.reports /\ w.pending = r.pending
        /\ w.context = r.context /\ w.setpoint = r.setpoint /\ w.command = r.command /\ w.total = r.total
    BY <2>4, <2>5 DEF TrimTyped
  <2>8. TrimWarmupIsEmpty(w) /\ TrimReportsFollow(w) /\ TrimPendingIsSound(w) /\ TrimSpentIsPast(w)
        /\ TrimCommandIsKnown(w)
    BY <2>2, <2>7 DEF TrimOK, TrimWarmupIsEmpty, TrimReportsFollow, TrimPendingIsSound, TrimSpentIsPast,
      TrimCommandIsKnown
  <2>9. TrimBudgetCovers(w) /\ TrimNotAhead(w)
    BY <2>2, <2>3, <2>7 DEF TrimOK, TrimBudgetCovers, TrimBased, TrimNotAhead
  <2>10. QED BY <2>3, <2>6, <2>7, <2>8, <2>9 DEF TrimOK
<1>3. QED BY <1>1, <1>2 DEF Trim!Current

\* The state around a trim stays as it is.
LEMMA TrimSameAround ==
  ASSUME NEW t, TrimOK(t), UNCHANGED <<now, world, accepted>> PROVE TrimOK(t)'
BY DEF TrimOK, TrimTyped, TrimWarmupIsEmpty, TrimReportsFollow, TrimPendingIsSound, TrimSpentIsPast,
  TrimCommandIsKnown, TrimBudgetCovers,
  TrimBased, TrimNotAhead

LEMMA TrimProposesKeeps == ASSUME TrimIInv, Trim!CycleProposes PROVE TrimIInv'
<1>1. PICK eligible, steady, drifted \in BOOLEAN, b \in {world.previous, 10} :
        /\ trim' = Trim!Propose(Trim!Current(trim), eligible, b, steady, drifted)
        /\ cycle' = [at |-> "write", decision |-> trim'.issued, reports |-> trim'.reports, world |-> world,
                     sample |-> sample]
  BY DEF Trim!CycleProposes
<1>2. UNCHANGED <<now, sample, world, accepted>> BY DEF Trim!CycleProposes
<1>3. PICK c, w : c = Trim!Current(trim) /\ w = trim' OBVIOUS
<1>4. TrimTypes /\ TrimOK(trim) /\ accepted.sound BY DEF TrimIInv
<1>5. TrimOK(c) /\ c.episode = world.episode BY <1>3, <1>4, TrimCurrentOK
<1>6. b \in Int BY <1>4 DEF TrimTypes
<1>7. w = Trim!Propose(c, eligible, b, steady, drifted) BY <1>1, <1>3
<1>8. TrimIssues(w, c) BY <1>4, <1>5, <1>6, <1>7, TrimProposeOK
<1>9. TrimOK(w)' BY <1>2, <1>8, TrimSameAround DEF TrimIssues
<1>10. TrimOK(trim)'
  BY <1>3, <1>9 DEF TrimOK, TrimTyped, TrimWarmupIsEmpty, TrimReportsFollow, TrimPendingIsSound, TrimSpentIsPast,
    TrimCommandIsKnown, TrimBudgetCovers,
  TrimBased, TrimNotAhead
<1>11. TrimCycleKept' BY <1>1, <1>2, <1>3, <1>5, <1>8 DEF TrimCycleKept, TrimIssues, TrimSound
<1>12. TrimTypes' BY <1>2, <1>4 DEF TrimTypes
<1>13. QED BY <1>2, <1>4, <1>10, <1>11, <1>12 DEF TrimIInv

LEMMA TrimAcceptType ==
  ASSUME NEW d, NEW a, a = Trim!Accept(d), a.moved \in Int, a.spent \in Int, a.drift \in Int, a.sound = TRUE
  PROVE  a \in [moved : Int, spent : Int, drift : Int, sound : BOOLEAN]
<1>1. PICK m, s, f, b : a = [moved |-> m, spent |-> s, drift |-> f, sound |-> b] BY DEF Trim!Accept
<1>2. QED BY <1>1

\* A write that changes the command: the trim begins anew behind it.
LEMMA TrimChangedKeeps ==
  ASSUME TrimIInv, NEW w, TrimOK(w), NEW d \in TrimDecisions, w.issued = d, d.setpoint # d.previous,
         d.delta # 0 => w.pending = d /\ TrimBased(w) /\ trim.pending = d,
         cycle.at # "idle", cycle.decision = d, trim.episode = world.episode, w.episode = world.episode,
         now' = now, sample' = sample, cycle' = Trim!Idle, trim' = Trim!Committed(w, d),
         world' = [world EXCEPT !.previous = d.setpoint], accepted' = Trim!Accept(d)
  PROVE  TrimIInv'
<1>1. now \in Nat /\ accepted \in [moved : Int, spent : Int, drift : Int, sound : BOOLEAN] /\ accepted.sound
      /\ world \in [previous : Int, mode : Nat, episode : Nat, source : Nat]
  BY DEF TrimIInv, TrimTypes
<1>2. d.delta \in {0, -1} /\ d.setpoint \in Int /\ d.previous \in Int BY DEF TrimDecisions
<1>3. TrimTyped(w) /\ w.total \in Int BY DEF TrimOK, TrimTyped
<1>4. PICK total : total = IF d.delta # 0 THEN w.total + d.delta ELSE 0 OBVIOUS
<1>5. PICK x : x = [w EXCEPT !.issued = None, !.pending = None, !.reports = {}] OBVIOUS
<1>6. TrimTyped(x) BY <1>3, <1>5 DEF TrimTyped
<1>7. trim' = [x EXCEPT !.command = now, !.setpoint = d.setpoint, !.warmup = FALSE, !.total = total]
  <2>1. PICK u : u = [w EXCEPT !.issued = None, !.pending = None] OBVIOUS
  <2>2. Trim!Cleared(u) = x BY <1>3, <1>5, <2>1 DEF Trim!Cleared, TrimTyped
  <2>3. x.total = w.total BY <1>3, <1>5 DEF TrimTyped
  <2>4. trim' = [Trim!Cleared(u) EXCEPT !.command = now, !.setpoint = d.setpoint, !.warmup = FALSE,
                                        !.total = IF d.delta # 0 THEN @ + d.delta ELSE 0]
    BY <2>1 DEF Trim!Committed
  <2>5. QED BY <1>4, <2>2, <2>3, <2>4
<1>8. /\ trim'.command = now /\ trim'.setpoint = d.setpoint /\ trim'.warmup = FALSE /\ trim'.total = total
      /\ trim'.reports = {} /\ trim'.pending = None /\ trim'.context = w.context /\ trim'.episode = w.episode
  BY <1>3, <1>5, <1>6, <1>7 DEF TrimTyped
<1>9. total \in Int BY <1>2, <1>3, <1>4
<1>10. TrimTyped(trim')
  <2>0. now \in {None} \cup Int /\ d.setpoint \in {None} \cup Int /\ FALSE \in BOOLEAN BY <1>1, <1>2
  <2>1. PICK m \in {None} \cup Int, b \in {None} \cup Int, f \in BOOLEAN : m = now /\ b = d.setpoint /\ f = FALSE
    BY <2>0
  <2>2. PICK y : y = [x EXCEPT !.command = m, !.setpoint = b, !.warmup = f, !.total = total] OBVIOUS
  <2>3. TrimTyped(y) BY <1>6, <1>9, <2>2 DEF TrimTyped
  <2>4. QED BY <1>7, <2>1, <2>2, <2>3
<1>11. world'.previous = d.setpoint /\ world'.source = world.source /\ world'.episode = world.episode
       /\ world' \in [previous : Int, mode : Nat, episode : Nat, source : Nat]
  BY <1>1, <1>2
<1>12. /\ accepted'.moved = now
       /\ accepted'.spent = IF d.delta # 0 THEN d.time ELSE accepted.spent
       /\ accepted'.drift = IF d.delta # 0 THEN accepted.drift + d.delta ELSE 0
       /\ accepted'.sound = (d.delta # 0 => /\ d.time > accepted.spent
                                            /\ \A r \in cycle.reports : r >= accepted.moved + Delay)
  BY <1>1 DEF Trim!Accept
<1>13. now # None BY TrimAssumption, <1>1
<1>14. CASE d.delta = 0
  <2>1. accepted.spent <= now BY <1>1, <1>3 DEF TrimOK, TrimSpentIsPast, TrimTyped
  <2>2. accepted'.sound = TRUE /\ accepted'.spent = accepted.spent /\ accepted'.drift = 0 /\ total = 0
    BY <1>4, <1>12, <1>14
  <2>3. TrimTypes'
    <3>a. PICK a : a = accepted' OBVIOUS
    <3>b. a = Trim!Accept(d) /\ a.moved \in Int /\ a.spent \in Int /\ a.drift \in Int /\ a.sound = TRUE
      BY <1>1, <1>12, <2>2, <3>a
    <3>1. accepted' \in [moved : Int, spent : Int, drift : Int, sound : BOOLEAN] BY <3>a, <3>b, TrimAcceptType
    <3>2. QED BY <1>1, <1>11, <1>12, <3>1 DEF TrimIInv, TrimTypes
  <2>4. TrimOK(trim)'
    <3>1. TrimWarmupIsEmpty(trim)' /\ TrimReportsFollow(trim)' /\ TrimPendingIsSound(trim)'
      BY <1>8 DEF TrimWarmupIsEmpty, TrimReportsFollow, TrimPendingIsSound
    <3>2. TrimSpentIsPast(trim)' /\ TrimCommandIsKnown(trim)'
      BY <1>1, <1>8, <1>12, <1>13, <2>1, <2>2 DEF TrimSpentIsPast, TrimCommandIsKnown
    <3>3. TrimBudgetCovers(trim)' BY TrimAssumption, <1>8, <2>2 DEF TrimBudgetCovers
    <3>4. TrimNotAhead(trim)' BY <1>8, <1>11 DEF TrimOK, TrimNotAhead
    <3>5. QED BY <1>10, <3>1, <3>2, <3>3, <3>4 DEF TrimOK, TrimTyped
  <2>5. QED BY <2>2, <2>3, <2>4 DEF TrimIInv, TrimCycleKept, Trim!Idle
<1>15. CASE d.delta = -1
  <2>1. w.pending = d /\ TrimBased(w) /\ trim.pending = d /\ d # None BY TrimAssumption, <1>15 DEF TrimDecisions
  <2>2. TrimOK(trim) /\ TrimTyped(trim) /\ trim.reports = cycle.reports BY DEF TrimIInv, TrimCycleKept, TrimOK
  <2>3. d.time \in Int /\ d.time <= now /\ ~trim.warmup /\ trim.command # None /\ trim.command \in Int
        /\ trim.command + Delay <= d.time
    BY <2>1, <2>2 DEF TrimOK, TrimPendingIsSound, TrimDecisions, TrimTyped
  <2>4. accepted.spent < d.time BY TrimAssumption, <1>1, <2>2, <2>3 DEF TrimOK, TrimSpentIsPast
  <2>5. \A r \in cycle.reports : r >= accepted.moved + Delay
    <3>1. accepted.moved <= trim.command BY <2>2, <2>3 DEF TrimOK, TrimCommandIsKnown
    <3>2. \A r \in cycle.reports : r \in Int /\ r >= trim.command + Delay
      BY <2>2 DEF TrimOK, TrimReportsFollow, TrimTyped
    <3>3. QED BY TrimAssumption, <1>1, <2>3, <3>1, <3>2
  <2>6. accepted'.sound = TRUE /\ accepted'.spent = d.time /\ accepted'.drift = accepted.drift - 1
        /\ total = w.total - 1
    BY <1>1, <1>3, <1>4, <1>12, <1>15, <2>4, <2>5
  <2>7. TrimTypes'
    <3>0. accepted.drift - 1 \in Int BY <1>1
    <3>a. PICK a : a = accepted' OBVIOUS
    <3>b. a = Trim!Accept(d) /\ a.moved \in Int /\ a.spent \in Int /\ a.drift \in Int /\ a.sound = TRUE
      BY <1>1, <1>12, <2>3, <2>6, <3>0, <3>a
    <3>1. accepted' \in [moved : Int, spent : Int, drift : Int, sound : BOOLEAN] BY <3>a, <3>b, TrimAcceptType
    <3>2. QED BY <1>1, <1>11, <1>12, <3>1 DEF TrimIInv, TrimTypes
  <2>8. TrimOK(trim)'
    <3>1. TrimWarmupIsEmpty(trim)' /\ TrimReportsFollow(trim)' /\ TrimPendingIsSound(trim)'
      BY <1>8 DEF TrimWarmupIsEmpty, TrimReportsFollow, TrimPendingIsSound
    <3>2. TrimSpentIsPast(trim)' /\ TrimCommandIsKnown(trim)'
      BY <1>1, <1>8, <1>12, <1>13, <2>3, <2>6 DEF TrimSpentIsPast, TrimCommandIsKnown
    <3>3. w.total - 1 >= -MaxTotal /\ w.total <= 0 /\ w.total <= accepted.drift /\ accepted.drift <= 0
      BY <2>1 DEF TrimOK, TrimPendingIsSound, TrimBudgetCovers
    <3>4. TrimBased(trim)' BY <1>8, <1>11, <2>1 DEF TrimBased
    <3>5. TrimBudgetCovers(trim)' BY TrimAssumption, <1>1, <1>3, <1>8, <2>6, <3>3, <3>4 DEF TrimBudgetCovers
    <3>6. TrimNotAhead(trim)' BY <1>8, <1>11 DEF TrimOK, TrimNotAhead
    <3>7. QED BY <1>10, <3>1, <3>2, <3>5, <3>6 DEF TrimOK, TrimTyped
  <2>9. QED BY <2>6, <2>7, <2>8 DEF TrimIInv, TrimCycleKept, Trim!Idle
<1>16. QED BY <1>2, <1>14, <1>15

LEMMA TrimWritesKeeps == ASSUME TrimIInv, Trim!CycleWrites PROVE TrimIInv'
<1>1. PICK steady \in BOOLEAN :
        LET d == cycle.decision IN
        \/ /\ ~Trim!Ready(trim, steady) \/ cycle.world.episode # world.episode
           /\ trim' = Trim!Reset(Trim!Rechecked(steady)) /\ UNCHANGED <<world, accepted>>
        \/ /\ Trim!Ready(trim, steady) /\ cycle.world.episode = world.episode
           /\ \/ trim' = Trim!Reset(Trim!Rechecked(steady)) /\ UNCHANGED <<world, accepted>>
              \/ /\ trim' = Trim!Committed(Trim!Rechecked(steady), d)
                 /\ world' = [world EXCEPT !.previous = d.setpoint]
                 /\ accepted' = Trim!Accept(d)
  BY DEF Trim!CycleWrites
<1>2. cycle.at # "idle" /\ cycle' = Trim!Idle /\ UNCHANGED <<now, sample>> BY DEF Trim!CycleWrites
<1>3. PICK d, w : d = cycle.decision /\ w = Trim!Rechecked(steady) OBVIOUS
<1>4. TrimTypes /\ TrimOK(trim) /\ accepted.sound BY DEF TrimIInv
<1>5. /\ trim.issued = d /\ trim.episode = cycle.world.episode
      /\ d \in TrimDecisions /\ d.previous = world.previous /\ (d.delta # 0 => trim.pending = d)
  BY <1>2, <1>3 DEF TrimIInv, TrimCycleKept, TrimSound
<1>7. /\ TrimOK(w) /\ w.episode = trim.episode
      /\ d.delta = 0 => w = trim
      /\ d.delta # 0 => TrimIssues(w, trim) /\ w = Trim!Propose(trim, TRUE, world.previous, steady, FALSE)
  <2>1. CASE d.delta = 0 BY <1>3, <1>4, <2>1 DEF Trim!Rechecked
  <2>2. CASE d.delta # 0
    <3>1. w = Trim!Propose(trim, TRUE, world.previous, steady, FALSE) BY <1>3, <2>2 DEF Trim!Rechecked
    <3>2. world.previous \in Int BY <1>4 DEF TrimTypes
    <3>3. TrimIssues(w, trim) BY <1>4, <3>1, <3>2, TrimProposeOK
    <3>4. QED BY <2>2, <3>1, <3>3 DEF TrimIssues
  <2>3. QED BY <2>1, <2>2
<1>8. CASE trim' = Trim!Reset(w) /\ UNCHANGED <<world, accepted>>
  <2>1. PICK r : r = Trim!Reset(w) OBVIOUS
  <2>2. TrimOK(r)' BY <1>2, <1>7, <1>8, <2>1, TrimResetOK, TrimSameAround
  <2>3. TrimOK(trim)'
    BY <1>8, <2>1, <2>2 DEF TrimOK, TrimTyped, TrimWarmupIsEmpty, TrimReportsFollow, TrimPendingIsSound,
      TrimSpentIsPast, TrimCommandIsKnown, TrimBudgetCovers, TrimBased, TrimNotAhead
  <2>4. QED BY <1>2, <1>4, <1>8, <2>3 DEF TrimIInv, TrimTypes, TrimCycleKept, Trim!Idle
<1>9. CASE /\ Trim!Ready(trim, steady) /\ cycle.world.episode = world.episode
           /\ trim' = Trim!Committed(w, d) /\ world' = [world EXCEPT !.previous = d.setpoint]
              /\ accepted' = Trim!Accept(d)
  <2>1. w.issued = d
    <3>1. CASE d.delta = 0 BY <1>5, <1>7, <3>1
    <3>2. CASE d.delta # 0 BY <1>3, <1>7, <1>9, <3>2 DEF Trim!Ready
    <3>3. QED BY <3>1, <3>2
  <2>2. d.delta # 0 => w.pending = d /\ TrimBased(w) /\ trim.pending = d
    BY <1>5, <1>7, <2>1 DEF TrimIssues, TrimSound
  <2>3. CASE d.setpoint # d.previous
    BY <1>2, <1>3, <1>5, <1>7, <1>9, <2>1, <2>2, <2>3, TrimChangedKeeps
  <2>4. CASE d.setpoint = d.previous
    <3>1. d.delta = 0
      <4> SUFFICES ASSUME d.delta # 0 PROVE FALSE OBVIOUS
      <4>1. trim.pending = d /\ d # None /\ d.previous \in Int BY TrimAssumption, <1>5 DEF TrimDecisions
      <4>2. d.setpoint = d.previous - 1 BY <1>4, <4>1 DEF TrimOK, TrimPendingIsSound
      <4>3. QED BY <2>4, <4>1, <4>2
    <3>2. w = trim BY <1>7, <3>1
    <3>3. world' = world BY <1>4, <1>5, <1>9, <2>4 DEF TrimTypes
    <3>4. /\ accepted'.moved = accepted.moved /\ accepted'.spent = accepted.spent
          /\ accepted'.drift = accepted.drift /\ accepted'.sound = TRUE
          /\ accepted' \in [moved : Int, spent : Int, drift : Int, sound : BOOLEAN]
      <4>1. accepted' = [moved |-> accepted.moved, spent |-> accepted.spent, drift |-> accepted.drift,
                         sound |-> TRUE]
        BY <1>4, <1>9, <2>4, <3>1 DEF Trim!Accept
      <4>2. QED BY <1>4, <4>1 DEF TrimTypes
    <3>5. PICK x : x = [trim EXCEPT !.issued = None, !.pending = None] OBVIOUS
    <3>6. trim' = x BY <1>9, <2>1, <2>4, <3>1, <3>2, <3>5 DEF Trim!Committed
    <3>7. TrimTyped(trim) BY <1>4 DEF TrimOK
    <3>8. TrimTyped(x) BY <3>5, <3>7 DEF TrimTyped
    <3>9. /\ x.pending = None /\ x.reports = trim.reports /\ x.warmup = trim.warmup /\ x.episode = trim.episode
          /\ x.command = trim.command /\ x.total = trim.total /\ x.setpoint = trim.setpoint
             /\ x.context = trim.context
      BY <3>5, <3>7 DEF TrimTyped
    <3>10. TrimWarmupIsEmpty(trim)' /\ TrimReportsFollow(trim)' /\ TrimPendingIsSound(trim)'
           /\ TrimSpentIsPast(trim)' /\ TrimCommandIsKnown(trim)'
      BY <1>2, <1>4, <3>3, <3>4, <3>6, <3>9
      DEF TrimOK, TrimWarmupIsEmpty, TrimReportsFollow, TrimPendingIsSound, TrimSpentIsPast, TrimCommandIsKnown
    <3>11. TrimBudgetCovers(trim)' /\ TrimNotAhead(trim)'
      BY <1>4, <3>3, <3>4, <3>6, <3>9 DEF TrimOK, TrimBudgetCovers, TrimBased, TrimNotAhead
    <3>12. TrimOK(trim)' BY <3>6, <3>8, <3>10, <3>11 DEF TrimOK, TrimTyped
    <3>13. QED BY <1>2, <1>4, <3>3, <3>4, <3>12 DEF TrimIInv, TrimTypes, TrimCycleKept, Trim!Idle
  <2>5. QED BY <2>3, <2>4
<1>10. QED BY <1>1, <1>3, <1>8, <1>9

-----------------------------------------------------------------------------
(* The world of the trim *)

\* What a step of the world must respect for the trim to stay sound
LEMMA TrimWorldKeeps ==
  ASSUME TrimIInv, trim' = trim, TrimTypes', now <= now', accepted'.sound = TRUE,
         accepted'.spent = accepted.spent, accepted'.drift \in {accepted.drift, 0},
         \/ accepted'.moved = accepted.moved /\ world'.episode = world.episode
         \/ world'.episode = world.episode + 1,
         \/ accepted'.drift = accepted.drift /\ world'.source = world.source
         \/ accepted'.drift = 0 /\ world'.source = world.source + 1,
         world'.previous = world.previous, cycle' = cycle
  PROVE  TrimIInv'
<1>1. TrimOK(trim) /\ TrimTyped(trim) /\ TrimTypes BY DEF TrimIInv, TrimOK
<1>2. /\ world \in [previous : Int, mode : Nat, episode : Nat, source : Nat] /\ now \in Nat /\ now' \in Nat
      /\ accepted \in [moved : Int, spent : Int, drift : Int, sound : BOOLEAN]
  BY <1>1 DEF TrimTypes
<1>3. TrimWarmupIsEmpty(trim)' /\ TrimReportsFollow(trim)' /\ TrimTyped(trim)'
  BY <1>1 DEF TrimOK, TrimTyped, TrimWarmupIsEmpty, TrimReportsFollow
<1>4. TrimPendingIsSound(trim)'
  <2>1. trim.pending # None => trim.pending.time \in Int
    BY <1>1 DEF TrimOK, TrimTyped, TrimPendingIsSound, TrimDecisions
  <2>2. QED BY <1>1, <1>2, <2>1 DEF TrimOK, TrimPendingIsSound
<1>5. TrimSpentIsPast(trim)' 
  <2>1. trim.command # None => trim.command \in Int BY <1>1 DEF TrimTyped
  <2>2. QED BY <1>1, <1>2, <2>1 DEF TrimOK, TrimSpentIsPast
<1>6. trim.episode <= world.episode /\ trim.episode \in Nat /\ (trim.context # None => trim.context <= world.source)
      /\ (trim.context # None => trim.context \in Nat) /\ None # world.source
  BY TrimAssumption, <1>1, <1>2 DEF TrimOK, TrimNotAhead, TrimTyped
<1>7. TrimCommandIsKnown(trim)' BY <1>1, <1>2, <1>6 DEF TrimOK, TrimCommandIsKnown
<1>8. TrimNotAhead(trim)' BY <1>2, <1>6 DEF TrimNotAhead
<1>9. TrimBudgetCovers(trim)'
  <2>1. CASE accepted'.drift = accepted.drift /\ world'.source = world.source
    BY <1>1, <2>1 DEF TrimOK, TrimBudgetCovers, TrimBased
  <2>2. CASE accepted'.drift = 0 /\ world'.source = world.source + 1
    <3>1. ~TrimBased(trim)' BY TrimAssumption, <1>2, <1>6, <2>2 DEF TrimBased
    <3>2. QED BY TrimAssumption, <1>1, <2>2, <3>1 DEF TrimOK, TrimBudgetCovers
  <2>3. QED BY <2>1, <2>2
<1>10. TrimOK(trim)' BY <1>3, <1>4, <1>5, <1>7, <1>8, <1>9 DEF TrimOK
<1>11. TrimCycleKept' BY DEF TrimIInv, TrimCycleKept, TrimSound
<1>12. QED BY <1>10, <1>11 DEF TrimIInv

LEMMA TrimReportKeeps == ASSUME TrimIInv, Trim!Report PROVE TrimIInv'
<1>1. now \in Nat /\ accepted.sound = TRUE BY DEF TrimIInv, TrimTypes
<1>2. TrimTypes' BY <1>1 DEF Trim!Report, TrimIInv, TrimTypes, Trim!Times
<1>3. now' = now /\ now <= now' BY <1>1 DEF Trim!Report
<1>4. QED BY <1>1, <1>2, <1>3, TrimWorldKeeps DEF Trim!Report

LEMMA TrimEpisodeKeeps == ASSUME TrimIInv, Trim!Episode PROVE TrimIInv'
<1>1. TrimTypes /\ now \in Nat /\ accepted.sound = TRUE BY DEF TrimIInv, TrimTypes
<1>2. PICK e \in Nat : e = world.episode + 1 BY <1>1 DEF TrimTypes
<1>3. PICK m \in Int : m = now BY <1>1
<1>4. world' = [world EXCEPT !.episode = e] /\ accepted' = [accepted EXCEPT !.moved = m]
  BY <1>1, <1>2, <1>3 DEF Trim!Episode, TrimTypes
<1>5. /\ world'.previous = world.previous /\ world'.source = world.source /\ world'.episode = e
      /\ accepted'.moved = m /\ accepted'.drift = accepted.drift /\ accepted'.spent = accepted.spent
      /\ accepted'.sound = accepted.sound
  BY <1>1, <1>4 DEF TrimTypes
<1>6. TrimTypes' BY <1>1, <1>2, <1>3, <1>4, <1>5 DEF Trim!Episode, TrimTypes
<1>7. now' = now /\ now <= now' BY <1>1 DEF Trim!Episode
<1>8. QED BY <1>1, <1>2, <1>5, <1>6, <1>7, TrimWorldKeeps DEF Trim!Episode

LEMMA TrimModeKeeps == ASSUME TrimIInv, Trim!ModeChanges PROVE TrimIInv'
<1>1. TrimTypes /\ now \in Nat /\ accepted.sound = TRUE BY DEF TrimIInv, TrimTypes
<1>2. PICK m \in Nat : m = world.mode + 1 BY <1>1 DEF TrimTypes
<1>3. world' = [world EXCEPT !.mode = m] BY <1>1, <1>2 DEF Trim!ModeChanges, TrimTypes
<1>4. world'.previous = world.previous /\ world'.source = world.source /\ world'.episode = world.episode
  BY <1>1, <1>3 DEF TrimTypes
<1>5. TrimTypes' BY <1>1, <1>3 DEF Trim!ModeChanges, TrimTypes
<1>6. now' = now /\ now <= now' BY <1>1 DEF Trim!ModeChanges
<1>7. QED BY <1>1, <1>4, <1>5, <1>6, TrimWorldKeeps DEF Trim!ModeChanges

LEMMA TrimSourceKeeps == ASSUME TrimIInv, Trim!SourceChanges PROVE TrimIInv'
<1>1. TrimTypes /\ now \in Nat /\ accepted.sound = TRUE BY DEF TrimIInv, TrimTypes
<1>2. PICK e \in Nat : e = world.source + 1 BY <1>1 DEF TrimTypes
<1>3. PICK z \in Int : z = 0 OBVIOUS
<1>4. world' = [world EXCEPT !.source = e] /\ accepted' = [accepted EXCEPT !.drift = z]
  BY <1>1, <1>2, <1>3 DEF Trim!SourceChanges, TrimTypes
<1>5. /\ world'.previous = world.previous /\ world'.episode = world.episode /\ world'.source = e
      /\ accepted'.moved = accepted.moved /\ accepted'.drift = z /\ accepted'.spent = accepted.spent
      /\ accepted'.sound = accepted.sound
  BY <1>1, <1>4 DEF TrimTypes
<1>6. TrimTypes' BY <1>1, <1>2, <1>3, <1>4, <1>5 DEF Trim!SourceChanges, TrimTypes
<1>7. now' = now /\ now <= now' BY <1>1 DEF Trim!SourceChanges
<1>8. QED BY <1>1, <1>2, <1>3, <1>5, <1>6, <1>7, TrimWorldKeeps DEF Trim!SourceChanges

LEMMA TrimTickKeeps == ASSUME TrimIInv, Trim!Tick PROVE TrimIInv'
<1>1. TrimTypes /\ now \in Nat /\ accepted.sound = TRUE BY DEF TrimIInv, TrimTypes
<1>2. now' = now + 1 /\ UNCHANGED <<sample, world, trim, cycle, accepted>> BY DEF Trim!Tick
<1>3. TrimTypes' BY <1>1, <1>2 DEF TrimTypes
<1>4. now <= now' BY <1>1, <1>2
<1>5. QED BY <1>1, <1>2, <1>3, <1>4, TrimWorldKeeps

\* A manual command resets the trim, which is no longer based on the setpoint.
LEMMA TrimManualKeeps == ASSUME TrimIInv, Trim!Manual PROVE TrimIInv'
<1>1. TrimTypes /\ TrimOK(trim) /\ now \in Nat /\ accepted.sound = TRUE /\ world.previous \in Int
  BY DEF TrimIInv, TrimTypes
<1>2. PICK r : r = Trim!Reset(trim) OBVIOUS
<1>3. TrimOK(r) /\ r.warmup = TRUE /\ r.reports = {} /\ r.pending = None BY <1>1, <1>2, TrimResetOK
<1>4. PICK p \in Int, m \in Nat, a \in Int, z \in Int :
            p = world.previous + 1 /\ m = world.mode + 1 /\ a = now /\ z = 0
  BY <1>1 DEF TrimTypes
<1>5. world' = [world EXCEPT !.previous = p, !.mode = m] /\ accepted' = [accepted EXCEPT !.moved = a, !.drift = z]
  BY <1>1, <1>4 DEF Trim!Manual, TrimTypes
<1>6. /\ world'.previous = p /\ world'.episode = world.episode /\ world'.source = world.source
      /\ accepted'.moved = a /\ accepted'.drift = 0 /\ accepted'.spent = accepted.spent
      /\ accepted'.sound = accepted.sound
  BY <1>1, <1>4, <1>5 DEF TrimTypes
<1>7. trim' = r /\ now' = now /\ sample' = sample /\ cycle.at = "idle" /\ cycle' = cycle BY <1>2 DEF Trim!Manual
<1>8. TrimTypes'
  <2>1. world' \in [previous : Int, mode : Nat, episode : Nat, source : Nat] BY <1>1, <1>5 DEF TrimTypes
  <2>2. accepted' \in [moved : Int, spent : Int, drift : Int, sound : BOOLEAN] BY <1>1, <1>5 DEF TrimTypes
  <2>3. QED BY <1>1, <1>4, <1>6, <1>7, <2>1, <2>2 DEF TrimTypes
<1>9. TrimTyped(trim)' BY <1>3, <1>7 DEF TrimOK, TrimTyped
<1>10. TrimWarmupIsEmpty(trim)' /\ TrimReportsFollow(trim)' /\ TrimPendingIsSound(trim)' /\ TrimCommandIsKnown(trim)'
  BY <1>3, <1>7 DEF TrimWarmupIsEmpty, TrimReportsFollow, TrimPendingIsSound, TrimCommandIsKnown
<1>11. TrimSpentIsPast(trim)' /\ TrimNotAhead(trim)' BY <1>3, <1>6, <1>7 DEF TrimOK, TrimSpentIsPast, TrimNotAhead
<1>12. TrimBudgetCovers(trim)' BY TrimAssumption, <1>3, <1>6, <1>7 DEF TrimOK, TrimBudgetCovers
<1>13. TrimOK(trim)' BY <1>9, <1>10, <1>11, <1>12 DEF TrimOK
<1>14. QED BY <1>1, <1>6, <1>7, <1>8, <1>13 DEF TrimIInv, TrimCycleKept

LEMMA TrimStutterKeeps == ASSUME TrimIInv, UNCHANGED Trim!tvars PROVE TrimIInv'
<1>1. TrimTypes' BY DEF TrimIInv, TrimTypes, Trim!tvars
<1>2. now \in Nat /\ accepted.sound = TRUE BY DEF TrimIInv, TrimTypes
<1>3. now <= now' BY <1>2 DEF Trim!tvars
<1>4. QED BY <1>1, <1>2, <1>3, TrimWorldKeeps DEF Trim!tvars

LEMMA TrimNextKeeps == ASSUME TrimIInv, [Trim!Next]_Trim!tvars PROVE TrimIInv'
BY TrimProposesKeeps, TrimWritesKeeps, TrimReportKeeps, TrimEpisodeKeeps, TrimManualKeeps, TrimModeKeeps,
  TrimSourceKeeps, TrimTickKeeps,
  TrimStutterKeeps DEF Trim!Next

\* The invariant of the trim, of the proposal a cycle holds and of the inverter it
\* corrects holds in every reachable state (propose and commit,
\* submeter_trim.py).
THEOREM TrimInductive == Trim!Spec => []TrimIInv
<1>1. Trim!Init => TrimIInv BY TrimInitIInv
<1>2. TrimIInv /\ [Trim!Next]_Trim!tvars => TrimIInv' BY TrimNextKeeps
<1>3. QED BY <1>1, <1>2, PTL DEF Trim!Spec

\* An accepted correction used reports of after the command it corrects, one of
\* them new, and the corrections of a command keep to MAX_TOTAL_W
\* (_propose_window and commit, submeter_trim.py).
THEOREM TrimRestOnEvidence == Trim!Spec => []Trim!CorrectionsRestOnEvidence
<1>1. TrimIInv => Trim!CorrectionsRestOnEvidence
  <2>1. SUFFICES ASSUME TrimIInv PROVE Trim!CorrectionsRestOnEvidence OBVIOUS
  <2>2. accepted.sound /\ accepted.drift \in Int BY <2>1 DEF TrimIInv, TrimTypes
  <2>3. accepted.drift <= 0 /\ -MaxTotal <= accepted.drift BY <2>1 DEF TrimIInv, TrimOK, TrimBudgetCovers
  <2>4. QED BY TrimAssumption, <2>2, <2>3 DEF Trim!CorrectionsRestOnEvidence
<1>2. QED BY <1>1, TrimInductive, PTL

\* What all parts do is, as far as this one goes, what it does.
LEMMA TrimRuns == Spec => Trim!Spec
<1>1. Init => Trim!Init BY DEF Init
<1>2. [Next]_vars => [Trim!Next]_Trim!tvars
  <2> SUFFICES ASSUME [Next]_vars PROVE Trim!Next \/ UNCHANGED trimVars
    BY DEF Trim!tvars, trimVars
  <2>1. CASE UNCHANGED vars BY <2>1 DEF vars
  <2>2. ASSUME NEW p \in Parts, p # "trim", Only(p) PROVE UNCHANGED trimVars
    BY <2>2 DEF Only
  <2>3. QED BY <2>1, <2>2 DEF Next, Parts
<1>3. QED BY <1>1, <1>2, PTL DEF Spec, Trim!Spec

\* Every accepted correction rests on reports of after the command it corrects, on
\* one that no earlier correction used, and all of them keep to the budget, for any
\* delays, windows and budget and whatever the watchdog, the operator and failed
\* writes do in between (submeter_trim.py, _write_cycle_setpoint in controller.py).
THEOREM CorrectedOnEvidence == Spec => []CorrectionsRestOnEvidence
BY TrimRuns, TrimRestOnEvidence, PTL DEF CorrectionsRestOnEvidence

-----------------------------------------------------------------------------
(* The publication of releases *)

ReleaseChannels == Release!Candidates \cup {"stable"}
ReleaseClaimed == {"tag", "draft", "readback", "upload", "publish"}
ReleaseTags == [base : Bases, channel : ReleaseChannels, sequence : Nat]
ReleaseRunStates ==
  [at : Release!Ended \cup {"reserve", "check"} \cup ReleaseClaimed, channel : {None} \cup ReleaseChannels,
   sha : 0 .. Commits, rc : {None} \cup ReleaseTags, auto : BOOLEAN, source : 0 .. Commits]

ReleaseLedgerTypes ==
  /\ releaseLedger.counter \in Nat /\ releaseLedger.floor \in Nat
  /\ releaseLedger.plans \in [Runs -> {None} \cup Release!Plans]
ReleaseTypes ==
  /\ head \in 1 .. Commits /\ base \in [1 .. Commits -> Bases]
  /\ releaseLedger \in [counter : Nat, floor : Nat, plans : [Runs -> {None} \cup Release!Plans]]
  /\ run \in [Runs -> ReleaseRunStates]
  /\ refs \subseteq [tag : ReleaseTags, sha : 1 .. Commits]
  /\ releases \subseteq [tag : ReleaseTags, draft : BOOLEAN, full : BOOLEAN]
  /\ shipped \subseteq [tag : ReleaseTags, number : Nat]

\* The concurrency group lets one run in.
ReleaseOneAtATime == \A r, s \in Runs : run[r].at \notin Release!Ended /\ run[s].at \notin Release!Ended => r = s

\* A run past its reservation has a plan, and a promotion a candidate of the ledger.
ReleaseRunStands(r) ==
  /\ run[r].at # "unstarted" => run[r].channel \in ReleaseChannels /\ run[r].sha \in 1 .. Commits
  /\ run[r].at = "reserve" => run[r].channel # "stable"
  /\ run[r].at \in {"check"} \cup ReleaseClaimed /\ run[r].channel # "stable" => releaseLedger.plans[r] # None
  /\ run[r].at # "unstarted" /\ run[r].channel = "stable"
       => run[r].rc \in {Release!CandidateTag(p) : p \in Release!Reserved}
  /\ releaseLedger.plans[r] # None => run[r].at # "unstarted" /\ releaseLedger.plans[r].channel = run[r].channel
ReleaseRunsStand == \A r \in Runs : ReleaseRunStands(r)

\* No two plans share a number or a tag.
ReleasePlansDiffer ==
  /\ \A r \in Runs : releaseLedger.plans[r] # None =>
       /\ releaseLedger.plans[r].number <= releaseLedger.counter
       /\ releaseLedger.plans[r].channel = "nightly" => releaseLedger.plans[r].sequence = r
  /\ \A r, s \in Runs : r # s /\ releaseLedger.plans[r] # None /\ releaseLedger.plans[s] # None =>
       /\ releaseLedger.plans[r].number # releaseLedger.plans[s].number
       /\ Release!CandidateTag(releaseLedger.plans[r]) # Release!CandidateTag(releaseLedger.plans[s])

\* The sequence numbers reserved for a base have a last one.
ReleaseSequences(b, channel) ==
  {0} \cup {p.sequence : p \in {q \in Release!Reserved : q.base = b /\ q.channel = channel}}
ReleaseIsLast(m, S) == m \in S /\ \A n \in S : n <= m
ReleaseSequencesEnd ==
  \A b \in Bases, channel \in Release!Candidates : \E m \in Nat : ReleaseIsLast(m, ReleaseSequences(b, channel))

\* Every tag is of a plan or of a promotion, and what was made public has a claimed
\* number; a stable tag stays.
ReleaseTagsAreOurs ==
  /\ \A t \in Release!Taken : t.channel # "stable" => t \in {Release!CandidateTag(p) : p \in Release!Reserved}
  /\ \A y \in shipped :
       /\ y.number <= releaseLedger.floor
       /\ \E p \in Release!Reserved : y.number = p.number
          /\ y.tag \in {Release!CandidateTag(p), Release!StableTag(p.base)}
       /\ y.tag.channel = "stable" => y.tag \in Release!Taken

\* What Claim checked of everything made public so far
ReleaseCleared(r) ==
  /\ releaseLedger.floor = Release!PlanOf(r).number
  /\ \A y \in shipped :
       /\ y.tag # Release!TagOf(r)
       /\ \/ y.number < Release!PlanOf(r).number
          \/ y.number = Release!PlanOf(r).number /\ y.tag = run[r].rc
  /\ run[r].channel \in {"beta", "rc"} => \A y \in shipped : y.tag # Release!StableTag(Release!PlanOf(r).base)

\* It holds until the run is over, and the run's own draft is the only one.
ReleaseClaimStands(r) ==
  /\ run[r].at \in ReleaseClaimed => ReleaseCleared(r)
  /\ run[r].at = "draft" => \A x \in releases : x.tag # Release!TagOf(r)
  /\ run[r].at \in {"readback", "upload"} => \A x \in releases : x.tag = Release!TagOf(r) => x = Release!Draft(r)
  /\ run[r].at = "publish" => \A x \in releases : x.tag = Release!TagOf(r) => x.full
ReleaseClaimsStand == \A r \in Runs : ReleaseClaimStands(r)

ReleaseIInv ==
  /\ ReleaseTypes /\ ReleaseOneAtATime /\ ReleaseRunsStand /\ ReleasePlansDiffer
  /\ ReleaseSequencesEnd /\ ReleaseTagsAreOurs /\ ReleaseClaimsStand

-----------------------------------------------------------------------------
(* The invariant at the start *)

LEMMA ReleaseInitIInv == ASSUME Release!Init PROVE ReleaseIInv
<1>1. ReleaseTypes
  <2>1. releaseLedger.plans = [r \in Runs |-> None] /\ releaseLedger.counter = 0 /\ releaseLedger.floor = 0
    BY DEF Release!Init
  <2>2. [r \in Runs |-> None] \in [Runs -> {None} \cup Release!Plans] OBVIOUS
  <2>3. releaseLedger \in [counter : Nat, floor : Nat, plans : [Runs -> {None} \cup Release!Plans]]
    BY <2>2 DEF Release!Init
  <2>4. run \in [Runs -> ReleaseRunStates]
    <3>1. [at |-> "unstarted", channel |-> None, sha |-> 0, rc |-> None, auto |-> FALSE, source |-> 0]
            \in ReleaseRunStates
      BY ReleaseAssumption DEF ReleaseRunStates, Release!Ended
    <3>2. QED BY <3>1 DEF Release!Init
  <2>5. head \in 1 .. Commits BY ReleaseAssumption DEF Release!Init
  <2>6. QED BY <2>3, <2>4, <2>5 DEF Release!Init, ReleaseTypes
<1>2. \A r \in Runs : run[r].at = "unstarted" /\ releaseLedger.plans[r] = None BY DEF Release!Init
<1>3. Release!Reserved = {} BY <1>2 DEF Release!Reserved
<1>4. ReleaseOneAtATime BY <1>2 DEF ReleaseOneAtATime, Release!Ended
<1>5. ReleaseRunsStand BY <1>2 DEF ReleaseRunsStand, ReleaseRunStands, ReleaseClaimed
<1>6. ReleasePlansDiffer BY <1>2 DEF ReleasePlansDiffer
<1>7. ReleaseSequencesEnd
  <2>1. \A b, channel : ReleaseSequences(b, channel) = {0} BY <1>3 DEF ReleaseSequences
  <2>2. ReleaseIsLast(0, {0}) BY DEF ReleaseIsLast
  <2>3. QED BY <2>1, <2>2 DEF ReleaseSequencesEnd
<1>8. ReleaseTagsAreOurs
  <2>1. Release!Taken = {} BY DEF Release!Init, Release!Taken
  <2>2. QED BY <2>1 DEF Release!Init, ReleaseTagsAreOurs
<1>9. ReleaseClaimsStand BY <1>2 DEF ReleaseClaimsStand, ReleaseClaimStands, ReleaseClaimed
<1>10. QED BY <1>1, <1>4, <1>5, <1>6, <1>7, <1>8, <1>9 DEF ReleaseIInv

-----------------------------------------------------------------------------
(* Plans *)

LEMMA ReleaseLedgerType == ASSUME ReleaseTypes PROVE ReleaseLedgerTypes
BY DEF ReleaseTypes, ReleaseLedgerTypes

LEMMA ReleaseReservedType ==
  ASSUME ReleaseTypes
  PROVE  \A p \in Release!Reserved : p \in Release!Plans /\ \E s \in Runs : p = releaseLedger.plans[s]
BY ReleaseLedgerType DEF ReleaseLedgerTypes, Release!Reserved

LEMMA ReleaseRunType ==
  ASSUME ReleaseTypes, NEW r \in Runs
  PROVE  /\ run[r] \in ReleaseRunStates /\ run[r].at \in Release!Ended \cup {"reserve", "check"} \cup ReleaseClaimed
         /\ releaseLedger.plans[r] \in {None} \cup Release!Plans
<1>1. run[r] \in ReleaseRunStates BY DEF ReleaseTypes
<1>2. run[r].at \in Release!Ended \cup {"reserve", "check"} \cup ReleaseClaimed BY <1>1 DEF ReleaseRunStates
<1>3. releaseLedger.plans[r] \in {None} \cup Release!Plans BY ReleaseLedgerType DEF ReleaseLedgerTypes
<1>4. QED BY <1>1, <1>2, <1>3

\* The plan a run publishes is in the ledger.
LEMMA ReleasePlanIs ==
  ASSUME ReleaseTypes, ReleaseRunsStand, NEW r \in Runs, run[r].at \in {"check"} \cup ReleaseClaimed
  PROVE  /\ Release!PlanOf(r) \in Release!Reserved /\ Release!PlanOf(r) \in Release!Plans
            /\ run[r].channel \in ReleaseChannels
         /\ run[r].channel = "stable" => Release!CandidateTag(Release!PlanOf(r)) = run[r].rc
         /\ run[r].channel # "stable" => Release!PlanOf(r).channel = run[r].channel
<1>1. ReleaseRunStands(r) /\ run[r].at # "unstarted" BY DEF ReleaseRunsStand, ReleaseClaimed
<1>2. run[r].channel \in ReleaseChannels BY <1>1 DEF ReleaseRunStands
<1>3. CASE run[r].channel = "stable"
  <2>1. \E p \in Release!Reserved : Release!CandidateTag(p) = run[r].rc BY <1>1, <1>3 DEF ReleaseRunStands
  <2>2. Release!PlanOf(r) = CHOOSE p \in Release!Reserved : Release!CandidateTag(p) = run[r].rc
    BY <1>3 DEF Release!PlanOf, Release!Reserved
  <2>3. Release!PlanOf(r) \in Release!Reserved /\ Release!CandidateTag(Release!PlanOf(r)) = run[r].rc BY <2>1, <2>2
  <2>4. QED BY <1>2, <1>3, <2>3, ReleaseReservedType
<1>4. CASE run[r].channel # "stable"
  <2>1. Release!PlanOf(r) = releaseLedger.plans[r] /\ releaseLedger.plans[r] # None
    BY <1>1, <1>4 DEF Release!PlanOf, ReleaseRunStands
  <2>2. Release!PlanOf(r) \in Release!Reserved BY <2>1 DEF Release!Reserved
  <2>3. Release!PlanOf(r).channel = run[r].channel BY <1>1, <2>1 DEF ReleaseRunStands
  <2>4. QED BY <1>2, <1>4, <2>2, <2>3, ReleaseReservedType
<1>5. QED BY <1>3, <1>4

\* Its tag is a tag, and of no other plan.
LEMMA ReleaseTagIs ==
  ASSUME ReleaseTypes, ReleaseRunsStand, NEW r \in Runs, run[r].at \in {"check"} \cup ReleaseClaimed
  PROVE  /\ Release!TagOf(r) \in ReleaseTags
            /\ Release!TagOf(r) \in {Release!CandidateTag(Release!PlanOf(r)),
                                    Release!StableTag(Release!PlanOf(r).base)}
         /\ Release!TagOf(r).channel = "stable" <=> run[r].channel = "stable"
         /\ Release!Draft(r) \in [tag : ReleaseTags, draft : BOOLEAN, full : BOOLEAN]
            /\ Release!Draft(r).tag = Release!TagOf(r)
         /\ [Release!Draft(r) EXCEPT !.full = TRUE] \in [tag : ReleaseTags, draft : BOOLEAN, full : BOOLEAN]
         /\ [Release!Draft(r) EXCEPT !.full = TRUE].tag = Release!TagOf(r)
            /\ [Release!Draft(r) EXCEPT !.full = TRUE].full
<1>1. Release!PlanOf(r) \in Release!Plans BY ReleasePlanIs
<1>2. PICK p \in Release!Plans : Release!PlanOf(r) = p BY <1>1
<1>3. p.base \in Bases /\ p.channel \in Release!Candidates /\ p.sequence \in Nat BY DEF Release!Plans
<1>4. Release!CandidateTag(p) \in ReleaseTags /\ Release!CandidateTag(p).channel = p.channel
  BY <1>3 DEF Release!CandidateTag, ReleaseTags, ReleaseChannels
<1>5. Release!StableTag(p.base) \in ReleaseTags /\ Release!StableTag(p.base).channel = "stable"
  BY <1>3 DEF Release!StableTag, ReleaseTags, ReleaseChannels
<1>6. Release!TagOf(r) = IF run[r].channel = "stable" THEN Release!StableTag(p.base) ELSE Release!CandidateTag(p)
  BY <1>2 DEF Release!TagOf
<1>7. p.channel # "stable" BY <1>3 DEF Release!Candidates
<1>8. PICK t \in ReleaseTags : Release!TagOf(r) = t BY <1>4, <1>5, <1>6
<1>9. Release!Draft(r) = [tag |-> t, draft |-> TRUE, full |-> FALSE] BY <1>8 DEF Release!Draft
<1>10. /\ Release!Draft(r) \in [tag : ReleaseTags, draft : BOOLEAN, full : BOOLEAN] /\ Release!Draft(r).tag = t
       /\ [Release!Draft(r) EXCEPT !.full = TRUE] \in [tag : ReleaseTags, draft : BOOLEAN, full : BOOLEAN]
       /\ [Release!Draft(r) EXCEPT !.full = TRUE].tag = t /\ [Release!Draft(r) EXCEPT !.full = TRUE].full
  <2>1. PICK d \in [tag : ReleaseTags, draft : BOOLEAN, full : BOOLEAN] : Release!Draft(r) = d /\ d.tag = t
    <3>1. [tag |-> t, draft |-> TRUE, full |-> FALSE] \in [tag : ReleaseTags, draft : BOOLEAN, full : BOOLEAN] OBVIOUS
    <3>2. [tag |-> t, draft |-> TRUE, full |-> FALSE].tag = t OBVIOUS
    <3>3. QED BY <1>9, <3>1, <3>2
  <2>2. [d EXCEPT !.full = TRUE] \in [tag : ReleaseTags, draft : BOOLEAN, full : BOOLEAN] OBVIOUS
  <2>3. [d EXCEPT !.full = TRUE].tag = t /\ [d EXCEPT !.full = TRUE].full BY <2>1
  <2>4. QED BY <2>1, <2>2, <2>3
<1>11. Release!TagOf(r) \in {Release!CandidateTag(Release!PlanOf(r)), Release!StableTag(Release!PlanOf(r).base)}
  BY <1>2, <1>6
<1>12. Release!TagOf(r).channel = "stable" <=> run[r].channel = "stable" BY <1>4, <1>5, <1>6, <1>7
<1>13. QED BY <1>8, <1>10, <1>11, <1>12

\* A tag is of one plan, and so is a number.
LEMMA ReleaseOnePlan ==
  ASSUME ReleasePlansDiffer, NEW p \in Release!Reserved, NEW q \in Release!Reserved,
         p.number = q.number \/ Release!CandidateTag(p) = Release!CandidateTag(q)
  PROVE  p = q
<1>1. PICK r \in Runs : p = releaseLedger.plans[r] /\ releaseLedger.plans[r] # None BY DEF Release!Reserved
<1>2. PICK s \in Runs : q = releaseLedger.plans[s] /\ releaseLedger.plans[s] # None BY DEF Release!Reserved
<1>3. QED BY <1>1, <1>2 DEF ReleasePlansDiffer

-----------------------------------------------------------------------------
(* Steps of one run *)

\* A step of run r, and one that leaves what it publishes alone
ReleaseMoved(r) == run' \in [Runs -> ReleaseRunStates] /\ \A s \in Runs : s # r => run'[s] = run[s]
ReleaseSame(r) == run'[r].channel = run[r].channel /\ run'[r].sha = run[r].sha /\ run'[r].rc = run[r].rc

LEMMA ReleaseGoesIs ==
  ASSUME ReleaseTypes, NEW r \in Runs, NEW at \in Release!Ended \cup {"reserve", "check"} \cup ReleaseClaimed,
         Release!Goes(r, at)
  PROVE  ReleaseMoved(r) /\ ReleaseSame(r) /\ run'[r].at = at
<1>1. run \in [Runs -> ReleaseRunStates] BY DEF ReleaseTypes
<1>2. PICK o \in ReleaseRunStates : o = run[r] BY <1>1
<1>3. PICK n \in 0 .. Commits : n = IF at \in Release!Ended THEN 0 ELSE o.source
  BY ReleaseAssumption, <1>2 DEF ReleaseRunStates
<1>10. PICK a \in BOOLEAN : a = (o.auto /\ at # "published") BY <1>2 DEF ReleaseRunStates
<1>4. PICK w : w = [o EXCEPT !.at = at, !.source = n, !.auto = a] OBVIOUS
<1>5. w \in ReleaseRunStates BY <1>4 DEF ReleaseRunStates
<1>6. w.at = at /\ w.channel = o.channel /\ w.sha = o.sha /\ w.rc = o.rc BY <1>4 DEF ReleaseRunStates
<1>7. run' = [run EXCEPT ![r] = w] BY <1>1, <1>2, <1>3, <1>4, <1>10 DEF Release!Goes, ReleaseRunStates
<1>8. run'[r] = w /\ run' \in [Runs -> ReleaseRunStates] /\ \A s \in Runs : s # r => run'[s] = run[s]
  BY <1>1, <1>5, <1>7
<1>9. QED BY <1>2, <1>6, <1>8 DEF ReleaseMoved, ReleaseSame

LEMMA ReleaseOneStays ==
  ASSUME ReleaseOneAtATime, NEW r \in Runs, ReleaseMoved(r), run[r].at \notin Release!Ended \/ Release!GroupFree
  PROVE  ReleaseOneAtATime'
BY DEF ReleaseOneAtATime, ReleaseMoved, Release!GroupFree

LEMMA ReleaseOthersRest ==
  ASSUME ReleaseOneAtATime', NEW r \in Runs, run'[r].at \notin Release!Ended
  PROVE  \A s \in Runs : s # r => run'[s].at \in Release!Ended
BY DEF ReleaseOneAtATime

\* Only a run that is not over has a claim.
LEMMA ReleaseClaimsOfOne ==
  ASSUME ReleaseOneAtATime', NEW r \in Runs, run'[r].at \notin Release!Ended, ReleaseClaimStands(r)'
  PROVE  ReleaseClaimsStand'
<1>1. \A s \in Runs : s # r => run'[s].at \in Release!Ended BY ReleaseOthersRest
<1>2. \A s \in Runs : s # r => ReleaseClaimStands(s)' BY <1>1 DEF ReleaseClaimStands, ReleaseClaimed, Release!Ended
<1>3. QED BY <1>2 DEF ReleaseClaimsStand

LEMMA ReleaseNoClaims ==
  ASSUME \A s \in Runs : run'[s].at \in Release!Ended \cup {"reserve", "check"}
  PROVE  ReleaseClaimsStand'
BY DEF ReleaseClaimsStand, ReleaseClaimStands, ReleaseClaimed, Release!Ended

LEMMA ReleasePlansKept ==
  ASSUME ReleaseIInv, NEW r \in Runs, ReleaseMoved(r), releaseLedger'.plans = releaseLedger.plans,
         releaseLedger'.counter = releaseLedger.counter, ReleaseRunStands(r)'
  PROVE  ReleaseRunsStand' /\ ReleasePlansDiffer' /\ ReleaseSequencesEnd' /\ Release!Reserved' = Release!Reserved
<1>1. Release!Reserved' = Release!Reserved BY DEF Release!Reserved
<1>2. \A s \in Runs : s # r => ReleaseRunStands(s)'
  BY <1>1 DEF ReleaseIInv, ReleaseRunsStand, ReleaseRunStands, ReleaseMoved
<1>3. ReleasePlansDiffer' BY DEF ReleaseIInv, ReleasePlansDiffer
<1>4. \A b, channel : ReleaseSequences(b, channel)' = ReleaseSequences(b, channel) BY <1>1 DEF ReleaseSequences
<1>5. ReleaseSequencesEnd' BY <1>4 DEF ReleaseIInv, ReleaseSequencesEnd
<1>6. QED BY <1>1, <1>2, <1>3, <1>5 DEF ReleaseRunsStand

\* A run that goes on without a new plan
LEMMA ReleaseRunGoesOn ==
  ASSUME ReleaseTypes, ReleaseRunsStand, NEW r \in Runs, ReleaseSame(r), releaseLedger'.plans = releaseLedger.plans,
         run[r].at # "unstarted", run'[r].at \notin {"unstarted", "reserve"},
         run'[r].at \in {"check"} \cup ReleaseClaimed => run[r].at \in {"check"} \cup ReleaseClaimed
  PROVE  ReleaseRunStands(r)'
<1>1. Release!Reserved' = Release!Reserved BY DEF Release!Reserved
<1>2. ReleaseRunStands(r) BY DEF ReleaseRunsStand
<1>3. QED BY <1>1, <1>2 DEF ReleaseRunStands, ReleaseSame

LEMMA ReleaseTagsKept ==
  ASSUME ReleaseIInv, Release!Reserved' = Release!Reserved, shipped' = shipped, releaseLedger'.floor \in Nat,
         releaseLedger'.floor >= releaseLedger.floor,
         \A t \in Release!Taken' : t \in Release!Taken \/ t.channel = "stable"
               \/ t \in {Release!CandidateTag(p) : p \in Release!Reserved},
         \A t \in Release!Taken : t.channel = "stable" => t \in Release!Taken'
  PROVE  ReleaseTagsAreOurs'
<1>1. ReleaseTagsAreOurs BY DEF ReleaseIInv
<1>2. \A t \in Release!Taken' : t.channel # "stable" => t \in {Release!CandidateTag(p) : p \in Release!Reserved}
  BY <1>1 DEF ReleaseTagsAreOurs
<1>3. ASSUME NEW y \in shipped
      PROVE  /\ y.number <= releaseLedger'.floor
             /\ \E p \in Release!Reserved : y.number = p.number
                /\ y.tag \in {Release!CandidateTag(p), Release!StableTag(p.base)}
             /\ y.tag.channel = "stable" => y.tag \in Release!Taken'
  <2>1. y.number \in Nat /\ releaseLedger.floor \in Nat
    BY ReleaseLedgerType DEF ReleaseIInv, ReleaseTypes, ReleaseLedgerTypes
  <2>2. y.number <= releaseLedger.floor BY <1>1 DEF ReleaseTagsAreOurs
  <2>3. y.number <= releaseLedger'.floor BY <2>1, <2>2
  <2>4. QED BY <1>1, <2>3 DEF ReleaseTagsAreOurs
<1>4. QED BY <1>2, <1>3 DEF ReleaseTagsAreOurs

LEMMA ReleasePlanKept ==
  ASSUME NEW r \in Runs, ReleaseSame(r), releaseLedger'.plans = releaseLedger.plans
  PROVE  Release!PlanOf(r)' = Release!PlanOf(r) /\ Release!TagOf(r)' = Release!TagOf(r)
        /\ Release!Draft(r)' = Release!Draft(r)
<1>1. Release!PlanOf(r)' = Release!PlanOf(r) BY DEF Release!PlanOf, ReleaseSame
<1>2. Release!TagOf(r)' = Release!TagOf(r) BY <1>1 DEF Release!TagOf, ReleaseSame
<1>3. QED BY <1>1, <1>2 DEF Release!Draft

LEMMA ReleaseClearedKept ==
  ASSUME NEW r \in Runs, ReleaseSame(r), releaseLedger'.plans = releaseLedger.plans,
         releaseLedger'.floor = releaseLedger.floor, shipped' = shipped,
         ReleaseCleared(r)
  PROVE  ReleaseCleared(r)'
BY ReleasePlanKept DEF ReleaseCleared, ReleaseSame

-----------------------------------------------------------------------------
(* Runs of the workflow *)

LEMMA ReleaseStartKeeps ==
  ASSUME ReleaseIInv, NEW r \in Runs, NEW channel \in ReleaseChannels, NEW rc, NEW auto \in BOOLEAN,
         Release!Start(r, channel, rc, auto)
  PROVE  ReleaseIInv'
<1>1. UNCHANGED <<head, base, releaseLedger, refs, releases, shipped>> /\ Release!GroupFree /\ run[r].at = "unstarted"
  BY DEF Release!Start
<1>2. rc \in {None} \cup ReleaseTags /\ (channel = "stable" => rc \in Release!Taken /\ rc.channel = "rc")
  <2>1. channel = "stable" => rc \in Release!Public /\ rc.channel = "rc" BY DEF Release!Start
  <2>2. Release!Public \subseteq Release!Taken /\ Release!Public \subseteq ReleaseTags
    BY DEF Release!Public, Release!Taken, ReleaseIInv, ReleaseTypes
  <2>3. channel # "stable" => rc = None BY DEF Release!Start
  <2>4. QED BY <2>1, <2>2, <2>3
<1>3. PICK w : w = [at |-> IF channel = "stable" THEN "check" ELSE "reserve", channel |-> channel, sha |-> head,
                    rc |-> rc, auto |-> auto, source |-> 0]
  OBVIOUS
<1>4. head \in 1 .. Commits /\ head \in 0 .. Commits /\ 0 \in 0 .. Commits
  BY ReleaseAssumption DEF ReleaseIInv, ReleaseTypes
<1>5. w \in ReleaseRunStates BY <1>2, <1>3, <1>4 DEF ReleaseRunStates
<1>6. run \in [Runs -> ReleaseRunStates] BY DEF ReleaseIInv, ReleaseTypes
<1>7. run' = [run EXCEPT ![r] = w] BY <1>3 DEF Release!Start
<1>8. ReleaseMoved(r) /\ run'[r] = w BY <1>5, <1>6, <1>7 DEF ReleaseMoved
<1>9. w.at = (IF channel = "stable" THEN "check" ELSE "reserve") /\ w.channel = channel /\ w.sha = head /\ w.rc = rc
  BY <1>3
<1>10. ReleaseTypes' BY <1>1, <1>8 DEF ReleaseIInv, ReleaseTypes, ReleaseMoved
<1>11. ReleaseOneAtATime' BY <1>1, <1>8, ReleaseOneStays DEF ReleaseIInv
<1>12. ReleaseRunStands(r)'
  <2>1. releaseLedger.plans[r] = None BY <1>1 DEF ReleaseIInv, ReleaseRunsStand, ReleaseRunStands
  <2>2. Release!Reserved' = Release!Reserved BY <1>1 DEF Release!Reserved
  <2>3. channel = "stable" => rc \in {Release!CandidateTag(p) : p \in Release!Reserved}
    BY <1>2 DEF ReleaseIInv, ReleaseTagsAreOurs
  <2>4. QED BY <1>1, <1>4, <1>8, <1>9, <2>1, <2>2, <2>3 DEF ReleaseRunStands, ReleaseClaimed
<1>13. ReleaseRunsStand' /\ ReleasePlansDiffer' /\ ReleaseSequencesEnd' /\ Release!Reserved' = Release!Reserved
  BY <1>1, <1>8, <1>12, ReleasePlansKept
<1>14. ReleaseTagsAreOurs' BY <1>1 DEF ReleaseIInv, ReleaseTagsAreOurs, Release!Taken, Release!Reserved
<1>15. ReleaseClaimsStand'
  <2>1. \A s \in Runs : run'[s].at \in Release!Ended \cup {"reserve", "check"}
    BY <1>1, <1>8, <1>9 DEF Release!GroupFree, ReleaseMoved
  <2>2. QED BY <2>1, ReleaseNoClaims
<1>16. QED BY <1>10, <1>11, <1>13, <1>14, <1>15 DEF ReleaseIInv

LEMMA ReleaseRerunKeeps == ASSUME ReleaseIInv, NEW r \in Runs, Release!Rerun(r) PROVE ReleaseIInv'
<1>1. UNCHANGED <<head, base, releaseLedger, refs, releases, shipped>> /\ Release!GroupFree
      /\ run[r].at \in {"failed", "skipped"}
  BY DEF Release!Rerun
<1>2. PICK at \in {"check", "reserve"} :
        at = (IF run[r].channel = "stable" THEN "check" ELSE "reserve") /\ Release!Goes(r, at)
  BY DEF Release!Rerun
<1>3. ReleaseMoved(r) /\ ReleaseSame(r) /\ run'[r].at = at BY <1>2, ReleaseGoesIs DEF ReleaseIInv
<1>4. ReleaseTypes' BY <1>1, <1>3 DEF ReleaseIInv, ReleaseTypes, ReleaseMoved
<1>5. ReleaseOneAtATime' BY <1>1, <1>3, ReleaseOneStays DEF ReleaseIInv
<1>6. ReleaseRunStands(r)'
  <2>1. Release!Reserved' = Release!Reserved /\ ReleaseRunStands(r)
    BY <1>1 DEF Release!Reserved, ReleaseIInv, ReleaseRunsStand
  <2>2. QED BY <1>1, <1>2, <1>3, <2>1 DEF ReleaseRunStands, ReleaseSame, ReleaseClaimed
<1>7. ReleaseRunsStand' /\ ReleasePlansDiffer' /\ ReleaseSequencesEnd' /\ Release!Reserved' = Release!Reserved
  BY <1>1, <1>3, <1>6, ReleasePlansKept
<1>8. ReleaseTagsAreOurs' BY <1>1 DEF ReleaseIInv, ReleaseTagsAreOurs, Release!Taken, Release!Reserved
<1>9. ReleaseClaimsStand'
  <2>1. \A s \in Runs : run'[s].at \in Release!Ended \cup {"reserve", "check"}
    BY <1>1, <1>2, <1>3 DEF Release!GroupFree, ReleaseMoved
  <2>2. QED BY <2>1, ReleaseNoClaims
<1>10. QED BY <1>4, <1>5, <1>7, <1>8, <1>9 DEF ReleaseIInv

\* A run fails or is skipped.
LEMMA ReleaseEndKeeps ==
  ASSUME ReleaseIInv, NEW r \in Runs, NEW at \in {"failed", "skipped"}, run[r].at \notin Release!Ended,
         Release!Goes(r, at),
         UNCHANGED <<head, base, releaseLedger, refs, releases, shipped>>
  PROVE  ReleaseIInv'
<1>1. at \in Release!Ended /\ "unstarted" \in Release!Ended BY DEF Release!Ended
<1>2. ReleaseMoved(r) /\ ReleaseSame(r) /\ run'[r].at = at BY <1>1, ReleaseGoesIs DEF ReleaseIInv
<1>3. ReleaseTypes' BY <1>2 DEF ReleaseIInv, ReleaseTypes, ReleaseMoved
<1>4. ReleaseOneAtATime' BY <1>2, ReleaseOneStays DEF ReleaseIInv
<1>5. ReleaseRunStands(r)' BY <1>1, <1>2, ReleaseRunGoesOn DEF ReleaseIInv, ReleaseClaimed
<1>6. ReleaseRunsStand' /\ ReleasePlansDiffer' /\ ReleaseSequencesEnd' /\ Release!Reserved' = Release!Reserved
  BY <1>2, <1>5, ReleasePlansKept
<1>7. ReleaseTagsAreOurs' BY DEF ReleaseIInv, ReleaseTagsAreOurs, Release!Taken, Release!Reserved
<1>8. ReleaseClaimsStand'
  <2>1. \A s \in Runs : s # r => run[s].at \in Release!Ended BY DEF ReleaseIInv, ReleaseOneAtATime
  <2>2. \A s \in Runs : run'[s].at \in Release!Ended BY <1>1, <1>2, <2>1 DEF ReleaseMoved
  <2>3. QED BY <2>2, ReleaseNoClaims
<1>9. QED BY <1>3, <1>4, <1>6, <1>7, <1>8 DEF ReleaseIInv

-----------------------------------------------------------------------------
(* Reservations *)

LEMMA ReleaseMaxIs ==
  ASSUME NEW S \in SUBSET Nat, NEW m \in Nat, ReleaseIsLast(m, S)
  PROVE  Release!Max(S) \in Nat /\ ReleaseIsLast(Release!Max(S), S)
BY DEF Release!Max, ReleaseIsLast

LEMMA ReleaseSequencesType == ASSUME ReleaseTypes PROVE \A b, channel : ReleaseSequences(b, channel) \in SUBSET Nat
<1>1. \A p \in Release!Reserved : p.sequence \in Nat BY ReleaseReservedType DEF Release!Plans
<1>2. QED BY <1>1 DEF ReleaseSequences

\* The next sequence number is after all reserved ones.
LEMMA ReleaseNextIs ==
  ASSUME ReleaseIInv, NEW b \in Bases, NEW channel \in Release!Candidates
  PROVE  Release!NextSequence(b, channel) \in Nat
        /\ \A n \in ReleaseSequences(b, channel) : n < Release!NextSequence(b, channel)
<1> DEFINE U == {u \in Release!Taken \cup {Release!CandidateTag(p) : p \in Release!Reserved} :
                   u.base = b /\ u.channel = channel}
           S == {0} \cup {t.sequence : t \in U}
<1>1. ASSUME NEW u \in U PROVE u.sequence \in ReleaseSequences(b, channel)
  <2>1. channel # "stable" BY DEF Release!Candidates
  <2>2. u \in {Release!CandidateTag(p) : p \in Release!Reserved} BY <2>1 DEF ReleaseIInv, ReleaseTagsAreOurs
  <2>3. PICK p \in Release!Reserved : u = Release!CandidateTag(p) BY <2>2
  <2>4. p.base = b /\ p.channel = channel /\ u.sequence = p.sequence BY <2>3 DEF Release!CandidateTag
  <2>5. QED BY <2>4 DEF ReleaseSequences
<1>2. ASSUME NEW p \in Release!Reserved, p.base = b, p.channel = channel PROVE p.sequence \in S
  <2>1. Release!CandidateTag(p) \in U /\ Release!CandidateTag(p).sequence = p.sequence
    BY <1>2 DEF Release!CandidateTag
  <2>2. QED BY <2>1
<1>3. S = ReleaseSequences(b, channel)
  <2>1. S \subseteq ReleaseSequences(b, channel) BY <1>1 DEF ReleaseSequences
  <2>2. ReleaseSequences(b, channel) \subseteq S BY <1>2 DEF ReleaseSequences
  <2>3. QED BY <2>1, <2>2
<1>4. PICK m \in Nat : ReleaseIsLast(m, ReleaseSequences(b, channel)) BY DEF ReleaseIInv, ReleaseSequencesEnd
<1>5. ReleaseSequences(b, channel) \in SUBSET Nat BY ReleaseSequencesType DEF ReleaseIInv
<1>6. Release!Max(S) \in Nat /\ ReleaseIsLast(Release!Max(S), ReleaseSequences(b, channel))
  BY <1>3, <1>4, <1>5, ReleaseMaxIs
<1>7. Release!NextSequence(b, channel) = 1 + Release!Max(S) BY DEF Release!NextSequence
<1>8. PICK k \in Nat : k = Release!Max(S) BY <1>6
<1>9. \A n \in ReleaseSequences(b, channel) : n \in Nat /\ n <= k BY <1>5, <1>6, <1>8 DEF ReleaseIsLast
<1>10. Release!NextSequence(b, channel) = 1 + k BY <1>7, <1>8
<1> HIDE DEF S, U
<1>11. QED BY <1>9, <1>10

\* A run that has its plan already
LEMMA ReleaseReservedKeeps ==
  ASSUME ReleaseIInv, NEW r \in Runs, run[r].at = "reserve", releaseLedger.plans[r] # None, Release!Goes(r, "check"),
         UNCHANGED <<head, base, releaseLedger, refs, releases, shipped>>
  PROVE  ReleaseIInv'
<1>1. ReleaseMoved(r) /\ ReleaseSame(r) /\ run'[r].at = "check" BY ReleaseGoesIs DEF ReleaseIInv
<1>2. run[r].at \notin Release!Ended BY DEF Release!Ended
<1>3. ReleaseTypes' BY <1>1 DEF ReleaseIInv, ReleaseTypes, ReleaseMoved
<1>4. ReleaseOneAtATime' BY <1>1, <1>2, ReleaseOneStays DEF ReleaseIInv
<1>5. ReleaseRunStands(r)'
  <2>1. Release!Reserved' = Release!Reserved /\ ReleaseRunStands(r)
    BY DEF Release!Reserved, ReleaseIInv, ReleaseRunsStand
  <2>2. QED BY <1>1, <2>1 DEF ReleaseRunStands, ReleaseSame
<1>6. ReleaseRunsStand' /\ ReleasePlansDiffer' /\ ReleaseSequencesEnd' /\ Release!Reserved' = Release!Reserved
  BY <1>1, <1>5, ReleasePlansKept
<1>7. ReleaseTagsAreOurs' BY DEF ReleaseIInv, ReleaseTagsAreOurs, Release!Taken, Release!Reserved
<1>8. ReleaseClaimsStand'
  <2>1. run'[r].at \notin Release!Ended BY <1>1 DEF Release!Ended
  <2>2. \A s \in Runs : run'[s].at \in Release!Ended \cup {"reserve", "check"} BY <1>1, <1>4, <2>1, ReleaseOthersRest
  <2>3. QED BY <2>2, ReleaseNoClaims
<1>9. QED BY <1>3, <1>4, <1>6, <1>7, <1>8 DEF ReleaseIInv

\* A new plan
LEMMA ReleasePlanKeeps ==
  ASSUME ReleaseIInv, NEW r \in Runs, NEW p \in Release!Plans, run[r].at = "reserve", releaseLedger.plans[r] = None,
         p.channel = run[r].channel, p.number = releaseLedger.counter + 1,
         p.sequence = IF p.channel = "nightly" THEN r ELSE Release!NextSequence(p.base, p.channel),
         releaseLedger' = [releaseLedger EXCEPT !.counter = @ + 1, !.plans[r] = p], Release!Goes(r, "check"),
         UNCHANGED <<head, base, refs, releases, shipped>>
  PROVE  ReleaseIInv'
<1>1. ReleaseMoved(r) /\ ReleaseSame(r) /\ run'[r].at = "check" BY ReleaseGoesIs DEF ReleaseIInv
<1>2. run[r].at \notin Release!Ended /\ run'[r].at \notin Release!Ended BY <1>1 DEF Release!Ended
<1>3. PICK plans \in [Runs -> {None} \cup Release!Plans] : plans = releaseLedger.plans
  BY ReleaseLedgerType DEF ReleaseIInv, ReleaseLedgerTypes
<1>4. releaseLedger'.counter = releaseLedger.counter + 1 /\ releaseLedger'.floor = releaseLedger.floor
      /\ releaseLedger'.plans = [plans EXCEPT ![r] = p]
      /\ releaseLedger' \in [counter : Nat, floor : Nat, plans : [Runs -> {None} \cup Release!Plans]]
  <2>1. PICK o \in [counter : Nat, floor : Nat, plans : [Runs -> {None} \cup Release!Plans]] : o = releaseLedger
    BY DEF ReleaseIInv, ReleaseTypes
  <2>2. PICK n \in Nat : n = o.counter + 1 OBVIOUS
  <2>3. PICK q \in [Runs -> {None} \cup Release!Plans] : q = [plans EXCEPT ![r] = p] BY <1>3
  <2>4. releaseLedger' = [o EXCEPT !.counter = n, !.plans = q] BY <1>3, <2>1, <2>2, <2>3
  <2>5. QED BY <2>1, <2>2, <2>3, <2>4
<1>5. releaseLedger'.plans[r] = p /\ p # None
      /\ \A s \in Runs : s # r => releaseLedger'.plans[s] = releaseLedger.plans[s]
  BY ReleaseAssumption, <1>3, <1>4
<1>6. Release!Reserved' = Release!Reserved \cup {p} BY <1>3, <1>5 DEF Release!Reserved
<1>7. ReleaseTypes' BY <1>1, <1>4 DEF ReleaseIInv, ReleaseTypes, ReleaseMoved
<1>8. ReleaseOneAtATime' BY <1>1, <1>2, ReleaseOneStays DEF ReleaseIInv
<1>9. ReleaseRunsStand'
  <2>1. ASSUME NEW s \in Runs, s # r PROVE ReleaseRunStands(s)'
    <3>1. ReleaseRunStands(s) /\ run'[s] = run[s] /\ releaseLedger'.plans[s] = releaseLedger.plans[s]
      BY <1>1, <1>5, <2>1 DEF ReleaseIInv, ReleaseRunsStand, ReleaseMoved
    <3>2. QED BY <1>6, <3>1 DEF ReleaseRunStands
  <2>2. ReleaseRunStands(r)'
    <3>1. ReleaseRunStands(r) BY DEF ReleaseIInv, ReleaseRunsStand
    <3>2. run[r].channel \in ReleaseChannels /\ run[r].channel # "stable" /\ run[r].sha \in 1 .. Commits
      BY <3>1 DEF ReleaseRunStands
    <3>3. QED BY <1>1, <1>5, <3>2 DEF ReleaseRunStands, ReleaseSame
  <2>3. QED BY <2>1, <2>2 DEF ReleaseRunsStand
<1>10. p.base \in Bases /\ p.channel \in Release!Candidates /\ p.sequence \in Nat BY DEF Release!Plans
<1>11. ASSUME NEW s \in Runs, s # r, releaseLedger.plans[s] # None
       PROVE  releaseLedger.plans[s].number < p.number
             /\ Release!CandidateTag(releaseLedger.plans[s]) # Release!CandidateTag(p)
  <2>1. PICK q \in Release!Plans : q = releaseLedger.plans[s] BY <1>3, <1>11
  <2>2. q \in Release!Reserved /\ q.number <= releaseLedger.counter /\ (q.channel = "nightly" => q.sequence = s)
    BY <1>11, <2>1 DEF ReleaseIInv, ReleasePlansDiffer, Release!Reserved
  <2>3. q.number < p.number
    <3>1. q.number \in Nat /\ releaseLedger.counter \in Nat
      BY ReleaseLedgerType DEF Release!Plans, ReleaseIInv, ReleaseLedgerTypes
    <3>2. QED BY <2>2, <3>1
  <2>4. ASSUME Release!CandidateTag(q) = Release!CandidateTag(p) PROVE FALSE
    <3>1. q.base = p.base /\ q.channel = p.channel /\ q.sequence = p.sequence BY <2>4 DEF Release!CandidateTag
    <3>2. CASE p.channel = "nightly" BY <1>11, <2>2, <3>1, <3>2
    <3>3. CASE p.channel # "nightly"
      <4>1. q.sequence \in ReleaseSequences(p.base, p.channel) BY <2>2, <3>1 DEF ReleaseSequences
      <4>2. q.sequence < Release!NextSequence(p.base, p.channel) BY <1>10, <4>1, ReleaseNextIs
      <4>3. QED BY <1>10, <3>1, <3>3, <4>2
    <3>4. QED BY <3>2, <3>3
  <2>5. QED BY <2>1, <2>3, <2>4
<1>12. ReleasePlansDiffer'
  <2>1. ASSUME NEW s \in Runs, releaseLedger'.plans[s] # None
        PROVE  /\ releaseLedger'.plans[s].number <= releaseLedger'.counter
               /\ releaseLedger'.plans[s].channel = "nightly" => releaseLedger'.plans[s].sequence = s
    <3>1. releaseLedger.counter \in Nat BY ReleaseLedgerType DEF ReleaseIInv, ReleaseLedgerTypes
    <3>2. CASE s = r BY <1>4, <1>5, <3>1, <3>2
    <3>3. CASE s # r
      <4>1. PICK q \in Release!Plans : q = releaseLedger.plans[s] /\ q = releaseLedger'.plans[s]
        BY <1>3, <1>5, <2>1, <3>3
      <4>2. q.number <= releaseLedger.counter /\ q.number \in Nat /\ (q.channel = "nightly" => q.sequence = s)
        BY <1>5, <2>1, <3>3, <4>1 DEF ReleaseIInv, ReleasePlansDiffer, Release!Plans
      <4>3. QED BY <1>4, <3>1, <4>1, <4>2
    <3>4. QED BY <3>2, <3>3
  <2>2. ASSUME NEW s \in Runs, NEW t \in Runs, s # t, releaseLedger'.plans[s] # None, releaseLedger'.plans[t] # None
        PROVE  /\ releaseLedger'.plans[s].number # releaseLedger'.plans[t].number
               /\ Release!CandidateTag(releaseLedger'.plans[s]) # Release!CandidateTag(releaseLedger'.plans[t])
    <3>1. CASE s = r
      <4>1. releaseLedger.plans[t].number < p.number
            /\ Release!CandidateTag(releaseLedger.plans[t]) # Release!CandidateTag(p)
        BY <1>5, <1>11, <2>2, <3>1
      <4>2. releaseLedger.plans[t] \in Release!Plans BY <1>3, <1>5, <2>2, <3>1
      <4>3. p.number \in Nat /\ releaseLedger.plans[t].number \in Nat BY <4>2 DEF Release!Plans
      <4>4. QED BY <1>5, <2>2, <3>1, <4>1, <4>3
    <3>2. CASE t = r
      <4>1. releaseLedger.plans[s].number < p.number
            /\ Release!CandidateTag(releaseLedger.plans[s]) # Release!CandidateTag(p)
        BY <1>5, <1>11, <2>2, <3>2
      <4>2. releaseLedger.plans[s] \in Release!Plans BY <1>3, <1>5, <2>2, <3>2
      <4>3. p.number \in Nat /\ releaseLedger.plans[s].number \in Nat BY <4>2 DEF Release!Plans
      <4>4. QED BY <1>5, <2>2, <3>2, <4>1, <4>3
    <3>3. CASE s # r /\ t # r
      <4>1. releaseLedger'.plans[s] = releaseLedger.plans[s] /\ releaseLedger'.plans[t] = releaseLedger.plans[t]
        BY <1>5, <3>3
      <4>2. QED BY <2>2, <4>1 DEF ReleaseIInv, ReleasePlansDiffer
    <3>4. QED BY <3>1, <3>2, <3>3
  <2>3. QED BY <2>1, <2>2 DEF ReleasePlansDiffer
<1>13. ReleaseSequencesEnd'
  <2>1. ASSUME NEW b \in Bases, NEW channel \in Release!Candidates
        PROVE  \E m \in Nat : ReleaseIsLast(m, ReleaseSequences(b, channel)')
    <3>1. PICK m \in Nat : ReleaseIsLast(m, ReleaseSequences(b, channel)) BY DEF ReleaseIInv, ReleaseSequencesEnd
    <3>2. ReleaseSequences(b, channel) \in SUBSET Nat BY ReleaseSequencesType DEF ReleaseIInv
    <3>3. ReleaseSequences(b, channel)' \subseteq ReleaseSequences(b, channel) \cup {p.sequence}
      BY <1>6 DEF ReleaseSequences
    <3>4. ReleaseSequences(b, channel) \subseteq ReleaseSequences(b, channel)' BY <1>6 DEF ReleaseSequences
    <3>5. CASE p.sequence \in ReleaseSequences(b, channel)' /\ m <= p.sequence
      <4>1. \A n \in ReleaseSequences(b, channel) : n <= p.sequence BY <1>10, <3>1, <3>2, <3>5 DEF ReleaseIsLast
      <4>2. ReleaseIsLast(p.sequence, ReleaseSequences(b, channel)') BY <1>10, <3>3, <3>5, <4>1 DEF ReleaseIsLast
      <4>3. QED BY <1>10, <4>2
    <3>6. CASE p.sequence \in ReleaseSequences(b, channel)' /\ p.sequence < m
      <4>1. ReleaseIsLast(m, ReleaseSequences(b, channel)') BY <1>10, <3>1, <3>3, <3>4, <3>6 DEF ReleaseIsLast
      <4>2. QED BY <4>1
    <3>7. CASE p.sequence \notin ReleaseSequences(b, channel)'
      <4>1. ReleaseSequences(b, channel)' = ReleaseSequences(b, channel) BY <3>3, <3>4, <3>7
      <4>2. QED BY <3>1, <4>1
    <3>8. QED BY <1>10, <3>5, <3>6, <3>7
  <2>2. QED BY <2>1 DEF ReleaseSequencesEnd
<1>14. ReleaseTagsAreOurs'
  <2>1. Release!Taken' = Release!Taken BY DEF Release!Taken
  <2>2. \A t \in {Release!CandidateTag(q) : q \in Release!Reserved} :
          t \in {Release!CandidateTag(q) : q \in Release!Reserved \cup {p}}
    OBVIOUS
  <2>3. QED BY <1>4, <1>6, <2>1, <2>2 DEF ReleaseIInv, ReleaseTagsAreOurs
<1>15. ReleaseClaimsStand'
  <2>1. \A s \in Runs : run'[s].at \in Release!Ended \cup {"reserve", "check"} BY <1>1, <1>2, <1>8, ReleaseOthersRest
  <2>2. QED BY <2>1, ReleaseNoClaims
<1>16. QED BY <1>7, <1>8, <1>9, <1>12, <1>13, <1>14, <1>15 DEF ReleaseIInv

LEMMA ReleaseReserveKeeps == ASSUME ReleaseIInv, NEW r \in Runs, Release!Reserve(r) PROVE ReleaseIInv'
<1>1. run[r].at = "reserve" /\ UNCHANGED <<head, base, refs, releases, shipped>> BY DEF Release!Reserve
<1>2. CASE releaseLedger.plans[r] # None BY <1>1, <1>2, ReleaseReservedKeeps DEF Release!Reserve
<1>3. CASE releaseLedger.plans[r] = None
  <2>1. run[r].channel \in Release!Candidates /\ run[r].sha \in 1 .. Commits
    <3>1. ReleaseRunStands(r) BY DEF ReleaseIInv, ReleaseRunsStand
    <3>2. QED BY <1>1, <3>1 DEF ReleaseRunStands, ReleaseChannels
  <2>2. PICK channel \in Release!Candidates : channel = run[r].channel BY <2>1
  <2>3. PICK sha \in 1 .. Commits : sha = run[r].sha BY <2>1
  <2>4. PICK b \in Bases : b = base[sha] BY DEF ReleaseIInv, ReleaseTypes
  <2>5. PICK n \in Nat : n = releaseLedger.counter + 1 BY ReleaseLedgerType DEF ReleaseIInv, ReleaseLedgerTypes
  <2>6. PICK m \in Nat : m = IF channel = "nightly" THEN r ELSE Release!NextSequence(b, channel)
    BY ReleaseAssumption, ReleaseNextIs
  <2>7. PICK p : p = [base |-> b, channel |-> channel, sha |-> sha, number |-> n, sequence |-> m] OBVIOUS
  <2>8. p \in Release!Plans BY <2>7 DEF Release!Plans
  <2>9. p.base = b /\ p.channel = channel /\ p.number = n /\ p.sequence = m BY <2>7
  <2>10. Release!Goes(r, "check") /\ releaseLedger' = [releaseLedger EXCEPT !.counter = @ + 1, !.plans[r] = p]
    BY <1>3, <2>2, <2>3, <2>4, <2>5, <2>6, <2>7, SMTT(20) DEF Release!Reserve
  <2>11. QED BY <1>1, <1>3, <2>2, <2>5, <2>6, <2>8, <2>9, <2>10, ReleasePlanKeeps
<1>4. QED BY <1>2, <1>3

-----------------------------------------------------------------------------
(* Claims *)

LEMMA ReleaseClaimKeeps == ASSUME ReleaseIInv, NEW r \in Runs, Release!Claim(r) PROVE ReleaseIInv'
<1>1. run[r].at = "check" /\ Release!AboveFloor(r) /\ Release!Absent(Release!TagOf(r))
      /\ UNCHANGED <<head, base, refs, releases, shipped>>
      /\ (run[r].channel \in {"beta", "rc"} => Release!Absent(Release!StableTag(Release!PlanOf(r).base)))
  BY DEF Release!Claim, Release!Publishable
<1>2. Release!PlanOf(r) \in Release!Reserved /\ Release!PlanOf(r) \in Release!Plans
      /\ run[r].channel \in ReleaseChannels
      /\ (run[r].channel = "stable" => Release!CandidateTag(Release!PlanOf(r)) = run[r].rc)
      /\ (run[r].channel # "stable" => Release!PlanOf(r).channel = run[r].channel)
  BY <1>1, ReleasePlanIs DEF ReleaseIInv
<1>3. PICK p \in Release!Plans : p = Release!PlanOf(r) BY <1>2
<1>4. PICK n \in Nat : n = p.number BY DEF Release!Plans
<1>5. releaseLedger'.plans = releaseLedger.plans /\ releaseLedger'.counter = releaseLedger.counter
      /\ releaseLedger'.floor = n
      /\ releaseLedger' \in [counter : Nat, floor : Nat, plans : [Runs -> {None} \cup Release!Plans]]
  <2>1. PICK o \in [counter : Nat, floor : Nat, plans : [Runs -> {None} \cup Release!Plans]] : o = releaseLedger
    BY DEF ReleaseIInv, ReleaseTypes
  <2>2. releaseLedger' = [o EXCEPT !.floor = n] BY <1>3, <1>4, <2>1 DEF Release!Claim
  <2>3. QED BY <2>1, <2>2
<1>6. ReleaseMoved(r) /\ ReleaseSame(r) /\ run'[r].at = "tag"
  <2>1. PICK o \in ReleaseRunStates : o = run[r] BY DEF ReleaseIInv, ReleaseTypes
  <2>2. PICK h \in 0 .. Commits : h = head BY DEF ReleaseIInv, ReleaseTypes
  <2>3. PICK w : w = [o EXCEPT !.at = "tag", !.source = h] OBVIOUS
  <2>4. w \in ReleaseRunStates /\ w.at = "tag" /\ w.channel = o.channel /\ w.sha = o.sha /\ w.rc = o.rc
    BY <2>3 DEF ReleaseRunStates, ReleaseClaimed
  <2>5. run' = [run EXCEPT ![r] = w] /\ run \in [Runs -> ReleaseRunStates]
    BY <2>1, <2>2, <2>3 DEF Release!Claim, ReleaseIInv, ReleaseTypes, ReleaseRunStates
  <2>6. run'[r] = w /\ run' \in [Runs -> ReleaseRunStates] /\ \A s \in Runs : s # r => run'[s] = run[s] BY <2>4, <2>5
  <2>7. QED BY <2>1, <2>4, <2>6 DEF ReleaseMoved, ReleaseSame
<1>7. run[r].at \notin Release!Ended /\ run'[r].at \notin Release!Ended BY <1>1, <1>6 DEF Release!Ended
<1>8. ReleaseTypes' BY <1>1, <1>5, <1>6 DEF ReleaseIInv, ReleaseTypes, ReleaseMoved
<1>9. ReleaseOneAtATime' BY <1>6, <1>7, ReleaseOneStays DEF ReleaseIInv
<1>10. ReleaseRunStands(r)' BY <1>1, <1>5, <1>6, ReleaseRunGoesOn DEF ReleaseIInv
<1>11. ReleaseRunsStand' /\ ReleasePlansDiffer' /\ ReleaseSequencesEnd' /\ Release!Reserved' = Release!Reserved
  BY <1>5, <1>6, <1>10, ReleasePlansKept
<1>12. PICK f \in Nat : f = releaseLedger.floor BY ReleaseLedgerType DEF ReleaseIInv, ReleaseLedgerTypes
<1>13. IF run[r].channel = "stable" THEN n >= f ELSE n > f BY <1>1, <1>3, <1>4, <1>12 DEF Release!AboveFloor
<1>14. ReleaseTagsAreOurs'
  <2>1. releaseLedger'.floor \in Nat /\ releaseLedger'.floor >= releaseLedger.floor BY <1>4, <1>5, <1>12, <1>13
  <2>2. Release!Taken' = Release!Taken BY <1>1 DEF Release!Taken
  <2>3. QED BY <1>1, <1>11, <2>1, <2>2, ReleaseTagsKept
<1>15. Release!TagOf(r) \in {Release!CandidateTag(p), Release!StableTag(p.base)}
       /\ (Release!TagOf(r).channel = "stable" <=> run[r].channel = "stable")
  BY <1>1, <1>3, ReleaseTagIs DEF ReleaseIInv
<1>16. ASSUME NEW y \in shipped
       PROVE  /\ y.tag # Release!TagOf(r)
              /\ y.number < n \/ (y.number = n /\ y.tag = run[r].rc)
  <2>1. PICK q \in Release!Reserved : y.number = q.number
        /\ y.tag \in {Release!CandidateTag(q), Release!StableTag(q.base)}
    BY DEF ReleaseIInv, ReleaseTagsAreOurs
  <2>2. q \in Release!Plans BY ReleaseReservedType DEF ReleaseIInv
  <2>3. PICK m \in Nat : m = y.number BY <2>1, <2>2 DEF Release!Plans
  <2>4. m <= f BY <1>12, <2>3 DEF ReleaseIInv, ReleaseTagsAreOurs
  <2>5. y.tag # Release!TagOf(r)
    <3>1. CASE y.tag.channel = "stable"
      <4>1. y.tag \in Release!Taken BY <3>1 DEF ReleaseIInv, ReleaseTagsAreOurs
      <4>2. QED BY <1>1, <4>1 DEF Release!Absent
    <3>2. CASE y.tag.channel # "stable"
      <4>1. ASSUME y.tag = Release!TagOf(r) PROVE FALSE
        <5>1. run[r].channel # "stable" BY <1>15, <3>2, <4>1
        <5>2. Release!StableTag(q.base).channel = "stable" /\ Release!StableTag(p.base).channel = "stable"
          BY DEF Release!StableTag
        <5>3. Release!CandidateTag(q) = Release!CandidateTag(p) BY <1>15, <2>1, <3>2, <4>1, <5>2
        <5>4. q = p BY <1>2, <1>3, <5>3, ReleaseOnePlan DEF ReleaseIInv
        <5>5. m = n BY <1>4, <2>1, <2>3, <5>4
        <5>6. QED BY <1>13, <2>4, <5>1, <5>5
      <4>2. QED BY <4>1
    <3>3. QED BY <3>1, <3>2
  <2>6. m <= n BY <1>13, <2>4
  <2>7. ASSUME m = n PROVE y.tag = run[r].rc
    <3>1. run[r].channel = "stable" BY <1>13, <2>4, <2>7
    <3>2. q = p BY <1>2, <1>3, <1>4, <2>1, <2>3, <2>7, ReleaseOnePlan DEF ReleaseIInv
    <3>3. Release!TagOf(r) = Release!StableTag(p.base) BY <1>3, <3>1 DEF Release!TagOf
    <3>4. y.tag = Release!CandidateTag(p) BY <2>1, <2>5, <3>2, <3>3
    <3>5. QED BY <1>2, <1>3, <3>1, <3>4
  <2>8. m < n \/ (m = n /\ y.tag = run[r].rc) BY <2>6, <2>7
  <2>9. QED BY <2>3, <2>5, <2>8
<1>17. run[r].channel \in {"beta", "rc"} => \A y \in shipped : y.tag # Release!StableTag(p.base)
  <2> SUFFICES ASSUME run[r].channel \in {"beta", "rc"}, NEW y \in shipped,
                      y.tag = Release!StableTag(p.base) PROVE FALSE
    OBVIOUS
  <2>1. y.tag.channel = "stable" BY DEF Release!StableTag
  <2>2. y.tag \in Release!Taken BY <2>1 DEF ReleaseIInv, ReleaseTagsAreOurs
  <2>3. QED BY <1>1, <1>3, <2>2 DEF Release!Absent
<1>18. Release!PlanOf(r)' = Release!PlanOf(r) /\ Release!TagOf(r)' = Release!TagOf(r) BY <1>5, <1>6, ReleasePlanKept
<1>19. ReleaseCleared(r)'
  <2>1. releaseLedger'.floor = Release!PlanOf(r)'.number BY <1>3, <1>4, <1>5, <1>18
  <2>2. run'[r].channel = run[r].channel /\ run'[r].rc = run[r].rc /\ shipped' = shipped BY <1>1, <1>6 DEF ReleaseSame
  <2>3. QED BY <1>3, <1>4, <1>16, <1>17, <1>18, <2>1, <2>2 DEF ReleaseCleared
<1>20. ReleaseClaimStands(r)' BY <1>6, <1>19 DEF ReleaseClaimStands
<1>21. ReleaseClaimsStand' BY <1>7, <1>9, <1>20, ReleaseClaimsOfOne
<1>22. QED BY <1>8, <1>9, <1>11, <1>14, <1>21 DEF ReleaseIInv

-----------------------------------------------------------------------------
(* Publication *)

\* A step between the claim and the end of its run
LEMMA ReleaseClaimGoesOn ==
  ASSUME ReleaseIInv, NEW r \in Runs, ReleaseMoved(r), ReleaseSame(r), run[r].at \in ReleaseClaimed,
         run'[r].at \in ReleaseClaimed,
         UNCHANGED <<head, base, releaseLedger, shipped>>, refs' \subseteq [tag : ReleaseTags, sha : 1 .. Commits],
         releases' \subseteq [tag : ReleaseTags, draft : BOOLEAN, full : BOOLEAN],
         \A t \in Release!Taken' : t \in Release!Taken
               \/ t = Release!TagOf(r), Release!Taken \subseteq Release!Taken',
         run'[r].at = "draft" => \A x \in releases' : x.tag # Release!TagOf(r),
         run'[r].at \in {"readback", "upload"}
            => \A x \in releases' : x.tag = Release!TagOf(r) => x = Release!Draft(r),
         run'[r].at = "publish" => \A x \in releases' : x.tag = Release!TagOf(r) => x.full
  PROVE  ReleaseIInv'
<1>1. run[r].at \notin Release!Ended /\ run'[r].at \notin Release!Ended BY DEF Release!Ended, ReleaseClaimed
<1>2. ReleaseTypes' BY DEF ReleaseIInv, ReleaseTypes, ReleaseMoved
<1>3. ReleaseOneAtATime' BY <1>1, ReleaseOneStays DEF ReleaseIInv
<1>4. ReleaseRunStands(r)'
  <2>1. run[r].at # "unstarted" /\ run'[r].at \notin {"unstarted", "reserve"} BY DEF ReleaseClaimed
  <2>2. QED BY <2>1, ReleaseRunGoesOn DEF ReleaseIInv
<1>5. ReleaseRunsStand' /\ ReleasePlansDiffer' /\ ReleaseSequencesEnd' /\ Release!Reserved' = Release!Reserved
  BY <1>4, ReleasePlansKept
<1>6. ReleaseTagsAreOurs'
  <2>1. Release!TagOf(r).channel = "stable" \/ Release!TagOf(r) \in {Release!CandidateTag(p) : p \in Release!Reserved}
    <3>1. Release!PlanOf(r) \in Release!Reserved BY ReleasePlanIs DEF ReleaseIInv
    <3>2. Release!TagOf(r) \in {Release!CandidateTag(Release!PlanOf(r)), Release!StableTag(Release!PlanOf(r).base)}
      BY ReleaseTagIs DEF ReleaseIInv
    <3>3. Release!StableTag(Release!PlanOf(r).base).channel = "stable" BY DEF Release!StableTag
    <3>4. QED BY <3>1, <3>2, <3>3
  <2>2. releaseLedger'.floor \in Nat /\ releaseLedger'.floor >= releaseLedger.floor
    BY ReleaseLedgerType DEF ReleaseIInv, ReleaseLedgerTypes
  <2>3. QED BY <1>5, <2>1, <2>2, ReleaseTagsKept
<1>7. Release!PlanOf(r)' = Release!PlanOf(r) /\ Release!TagOf(r)' = Release!TagOf(r)
      /\ Release!Draft(r)' = Release!Draft(r)
  BY ReleasePlanKept
<1>8. ReleaseCleared(r)' BY ReleaseClearedKept DEF ReleaseIInv, ReleaseClaimsStand, ReleaseClaimStands
<1>9. ReleaseClaimStands(r)' BY <1>7, <1>8 DEF ReleaseClaimStands
<1>10. ReleaseClaimsStand' BY <1>1, <1>3, <1>9, ReleaseClaimsOfOne
<1>11. QED BY <1>2, <1>3, <1>5, <1>6, <1>10 DEF ReleaseIInv

LEMMA ReleaseCreateTagKeeps == ASSUME ReleaseIInv, NEW r \in Runs, Release!CreateTag(r) PROVE ReleaseIInv'
<1>1. run[r].at = "tag" /\ Release!Absent(Release!TagOf(r))
      /\ UNCHANGED <<head, base, releaseLedger, releases, shipped>>
      /\ refs' = refs \cup {[tag |-> Release!TagOf(r), sha |-> Release!PlanOf(r).sha]} /\ Release!Goes(r, "draft")
  BY DEF Release!CreateTag
<1>2. run[r].at \in ReleaseClaimed /\ "draft" \in ReleaseClaimed BY <1>1 DEF ReleaseClaimed
<1>3. ReleaseMoved(r) /\ ReleaseSame(r) /\ run'[r].at = "draft" BY <1>1, <1>2, ReleaseGoesIs DEF ReleaseIInv
<1>4. PICK t \in ReleaseTags : t = Release!TagOf(r) BY <1>2, ReleaseTagIs DEF ReleaseIInv
<1>5. PICK c \in 1 .. Commits : c = Release!PlanOf(r).sha
  <2>1. Release!PlanOf(r) \in Release!Plans BY <1>2, ReleasePlanIs DEF ReleaseIInv
  <2>2. QED BY <2>1 DEF Release!Plans
<1>6. PICK x \in [tag : ReleaseTags, sha : 1 .. Commits] :
        x = [tag |-> Release!TagOf(r), sha |-> Release!PlanOf(r).sha] /\ x.tag = Release!TagOf(r)
  <2>1. [tag |-> t, sha |-> c] \in [tag : ReleaseTags, sha : 1 .. Commits] /\ [tag |-> t, sha |-> c].tag = t OBVIOUS
  <2>2. QED BY <1>4, <1>5, <2>1
<1>7. refs' = refs \cup {x} BY <1>1, <1>6
<1>8. refs' \subseteq [tag : ReleaseTags, sha : 1 .. Commits]
      /\ releases' \subseteq [tag : ReleaseTags, draft : BOOLEAN, full : BOOLEAN]
  BY <1>1, <1>7 DEF ReleaseIInv, ReleaseTypes
<1>9. (\A u \in Release!Taken' : u \in Release!Taken \/ u = Release!TagOf(r))
      /\ Release!Taken \subseteq Release!Taken'
  BY <1>1, <1>6, <1>7 DEF Release!Taken
<1>10. \A y \in releases' : y.tag # Release!TagOf(r) BY <1>1 DEF Release!Absent, Release!Taken
<1>11. QED BY <1>1, <1>2, <1>3, <1>8, <1>9, <1>10, ReleaseClaimGoesOn

\* The draft is there, or not yet.
LEMMA ReleaseDraftKeeps ==
  ASSUME ReleaseIInv, NEW r \in Runs, ReleaseMoved(r), ReleaseSame(r), run[r].at \in {"draft", "readback"},
         run'[r].at \in {"readback", "upload"}, releases' \in {releases, releases \cup {Release!Draft(r)}},
         UNCHANGED <<head, base, releaseLedger, refs, shipped>>
  PROVE  ReleaseIInv'
<1>1. run[r].at \in ReleaseClaimed /\ run'[r].at \in ReleaseClaimed BY DEF ReleaseClaimed
<1>2. Release!Draft(r) \in [tag : ReleaseTags, draft : BOOLEAN, full : BOOLEAN]
      /\ Release!Draft(r).tag = Release!TagOf(r)
  BY <1>1, ReleaseTagIs DEF ReleaseIInv
<1>3. refs' \subseteq [tag : ReleaseTags, sha : 1 .. Commits]
      /\ releases' \subseteq [tag : ReleaseTags, draft : BOOLEAN, full : BOOLEAN]
  BY <1>2 DEF ReleaseIInv, ReleaseTypes
<1>4. (\A u \in Release!Taken' : u \in Release!Taken \/ u = Release!TagOf(r))
      /\ Release!Taken \subseteq Release!Taken'
  BY <1>2 DEF Release!Taken
<1>5. \A x \in releases : x.tag = Release!TagOf(r) => x = Release!Draft(r)
  BY DEF ReleaseIInv, ReleaseClaimsStand, ReleaseClaimStands
<1>6. \A x \in releases' : x.tag = Release!TagOf(r) => x = Release!Draft(r) BY <1>5
<1>7. QED BY <1>1, <1>3, <1>4, <1>6, ReleaseClaimGoesOn

LEMMA ReleaseCreateDraftKeeps == ASSUME ReleaseIInv, NEW r \in Runs, Release!CreateDraft(r) PROVE ReleaseIInv'
<1>1. PICK at \in {"readback", "upload"} : Release!Goes(r, at)
      /\ releases' \in {releases, releases \cup {Release!Draft(r)}}
  BY DEF Release!CreateDraft
<1>2. ReleaseMoved(r) /\ ReleaseSame(r) /\ run'[r].at = at BY <1>1, ReleaseGoesIs DEF ReleaseIInv, ReleaseClaimed
<1>3. QED BY <1>1, <1>2, ReleaseDraftKeeps DEF Release!CreateDraft

LEMMA ReleaseLateDraftKeeps == ASSUME ReleaseIInv, NEW r \in Runs, Release!LateDraft(r) PROVE ReleaseIInv'
<1>1. ReleaseMoved(r) /\ ReleaseSame(r) BY DEF Release!LateDraft, ReleaseMoved, ReleaseSame, ReleaseIInv, ReleaseTypes
<1>2. QED BY <1>1, ReleaseDraftKeeps DEF Release!LateDraft

LEMMA ReleaseReadbackKeeps == ASSUME ReleaseIInv, NEW r \in Runs, Release!Readback(r) PROVE ReleaseIInv'
<1>1. ReleaseMoved(r) /\ ReleaseSame(r) /\ run'[r].at = "upload"
  BY ReleaseGoesIs DEF Release!Readback, ReleaseIInv, ReleaseClaimed
<1>2. QED BY <1>1, ReleaseDraftKeeps DEF Release!Readback

\* A release that takes the place of another with its tag
LEMMA ReleaseTagsStay ==
  ASSUME NEW x \in releases, NEW z, z.tag = x.tag, releases' = (releases \ {x}) \cup {z}, refs' = refs
  PROVE  Release!Taken' = Release!Taken
<1>1. Release!Taken' \subseteq Release!Taken BY DEF Release!Taken
<1>2. ASSUME NEW y \in refs \cup releases PROVE y.tag \in Release!Taken'
  <2>1. y = x \/ y \in refs' \cup releases' BY DEF Release!Taken
  <2>2. QED BY <2>1 DEF Release!Taken
<1>3. QED BY <1>1, <1>2 DEF Release!Taken

LEMMA ReleaseUploadKeeps == ASSUME ReleaseIInv, NEW r \in Runs, Release!Upload(r) PROVE ReleaseIInv'
<1>1. run[r].at = "upload" /\ Release!Draft(r) \in releases /\ UNCHANGED <<head, base, releaseLedger, refs, shipped>>
      /\ Release!Goes(r, "publish")
  BY DEF Release!Upload
<1>2. run[r].at \in ReleaseClaimed /\ "publish" \in ReleaseClaimed BY <1>1 DEF ReleaseClaimed
<1>3. ReleaseMoved(r) /\ ReleaseSame(r) /\ run'[r].at = "publish" BY <1>1, <1>2, ReleaseGoesIs DEF ReleaseIInv
<1>4. PICK x, z : x = Release!Draft(r) /\ z = [Release!Draft(r) EXCEPT !.full = TRUE] OBVIOUS
<1>5. x.tag = Release!TagOf(r) /\ z \in [tag : ReleaseTags, draft : BOOLEAN, full : BOOLEAN]
      /\ z.tag = Release!TagOf(r) /\ z.full
  BY <1>2, <1>4, ReleaseTagIs DEF ReleaseIInv
<1>6. x \in releases /\ releases' = (releases \ {x}) \cup {z} BY <1>1, <1>4 DEF Release!Upload
<1>7. refs' \subseteq [tag : ReleaseTags, sha : 1 .. Commits]
      /\ releases' \subseteq [tag : ReleaseTags, draft : BOOLEAN, full : BOOLEAN]
  BY <1>1, <1>5, <1>6 DEF ReleaseIInv, ReleaseTypes
<1>8. Release!Taken' = Release!Taken BY <1>1, <1>5, <1>6, ReleaseTagsStay
<1>9. \A y \in releases : y.tag = Release!TagOf(r) => y = x
  BY <1>1, <1>4 DEF ReleaseIInv, ReleaseClaimsStand, ReleaseClaimStands
<1>10. \A y \in releases' : y.tag = Release!TagOf(r) => y.full BY <1>5, <1>6, <1>9
<1>11. QED BY <1>1, <1>2, <1>3, <1>7, <1>8, <1>10, ReleaseClaimGoesOn

LEMMA ReleaseMakePublicKeeps == ASSUME ReleaseIInv, NEW r \in Runs, Release!MakePublic(r) PROVE ReleaseIInv'
<1>1. run[r].at = "publish" /\ UNCHANGED <<head, base, releaseLedger, refs>>
      /\ shipped' = shipped \cup {[tag |-> Release!TagOf(r), number |-> Release!PlanOf(r).number]}
  BY DEF Release!MakePublic
<1>2. run[r].at \in ReleaseClaimed /\ run[r].at \notin Release!Ended
      /\ "published" \in Release!Ended /\ "failed" \in Release!Ended
  BY <1>1 DEF ReleaseClaimed, Release!Ended
<1>3. PICK at \in {"published", "failed"} : ReleaseMoved(r) /\ ReleaseSame(r) /\ run'[r].at = at
  <2>1. PICK at \in {"published", "failed"} : Release!Goes(r, at) BY DEF Release!MakePublic
  <2>2. ReleaseMoved(r) /\ ReleaseSame(r) /\ run'[r].at = at BY <1>2, <2>1, ReleaseGoesIs DEF ReleaseIInv
  <2>3. QED BY <2>2
<1>4. PICK x \in releases : x.tag = Release!TagOf(r) /\ releases' = (releases \ {x}) \cup {[x EXCEPT !.draft = FALSE]}
  BY DEF Release!MakePublic
<1>5. PICK z \in [tag : ReleaseTags, draft : BOOLEAN, full : BOOLEAN] : z = [x EXCEPT !.draft = FALSE]
      /\ z.tag = x.tag
  <2>1. x \in [tag : ReleaseTags, draft : BOOLEAN, full : BOOLEAN] BY DEF ReleaseIInv, ReleaseTypes
  <2>2. [x EXCEPT !.draft = FALSE] \in [tag : ReleaseTags, draft : BOOLEAN, full : BOOLEAN]
        /\ [x EXCEPT !.draft = FALSE].tag = x.tag
    BY <2>1
  <2>3. QED BY <2>2
<1>6. Release!Taken' = Release!Taken /\ Release!TagOf(r) \in Release!Taken
  <2>1. releases' = (releases \ {x}) \cup {z} /\ refs' = refs BY <1>1, <1>4, <1>5
  <2>2. Release!Taken' = Release!Taken BY <1>5, <2>1, ReleaseTagsStay
  <2>3. QED BY <1>4, <2>2 DEF Release!Taken
<1>7. Release!PlanOf(r) \in Release!Reserved /\ Release!PlanOf(r) \in Release!Plans
  BY <1>2, ReleasePlanIs DEF ReleaseIInv
<1>8. PICK t \in ReleaseTags : t = Release!TagOf(r)
      /\ t \in {Release!CandidateTag(Release!PlanOf(r)), Release!StableTag(Release!PlanOf(r).base)}
  BY <1>2, ReleaseTagIs DEF ReleaseIInv
<1>9. PICK n \in Nat : n = Release!PlanOf(r).number BY <1>7 DEF Release!Plans
<1>10. PICK y \in [tag : ReleaseTags, number : Nat] :
         y = [tag |-> Release!TagOf(r), number |-> Release!PlanOf(r).number] /\ y.tag = t /\ y.number = n
  <2>1. [tag |-> t, number |-> n] \in [tag : ReleaseTags, number : Nat] /\ [tag |-> t, number |-> n].tag = t
        /\ [tag |-> t, number |-> n].number = n
    OBVIOUS
  <2>2. QED BY <1>8, <1>9, <2>1
<1>11. shipped' = shipped \cup {y} BY <1>1, <1>10
<1>12. ReleaseTypes' BY <1>1, <1>3, <1>4, <1>5, <1>11 DEF ReleaseIInv, ReleaseTypes, ReleaseMoved
<1>13. ReleaseOneAtATime' BY <1>2, <1>3, ReleaseOneStays DEF ReleaseIInv
<1>14. ReleaseRunStands(r)'
  <2>1. run[r].at # "unstarted" /\ run'[r].at \notin {"unstarted", "reserve"} BY <1>1, <1>3
  <2>2. QED BY <1>1, <1>2, <1>3, <2>1, ReleaseRunGoesOn DEF ReleaseIInv
<1>15. ReleaseRunsStand' /\ ReleasePlansDiffer' /\ ReleaseSequencesEnd' /\ Release!Reserved' = Release!Reserved
  BY <1>1, <1>3, <1>14, ReleasePlansKept
<1>16. ReleaseTagsAreOurs'
  <2>1. releaseLedger.floor = n BY <1>2, <1>9 DEF ReleaseIInv, ReleaseClaimsStand, ReleaseClaimStands, ReleaseCleared
  <2>2. /\ y.number <= releaseLedger.floor
        /\ \E p \in Release!Reserved : y.number = p.number
           /\ y.tag \in {Release!CandidateTag(p), Release!StableTag(p.base)}
        /\ y.tag \in Release!Taken
    BY <1>6, <1>7, <1>8, <1>9, <1>10, <2>1
  <2>3. QED BY <1>1, <1>6, <1>11, <1>15, <2>2 DEF ReleaseIInv, ReleaseTagsAreOurs
<1>17. ReleaseClaimsStand'
  <2>1. \A s \in Runs : s # r => run[s].at \in Release!Ended BY <1>2 DEF ReleaseIInv, ReleaseOneAtATime
  <2>2. \A s \in Runs : run'[s].at \in Release!Ended BY <1>2, <1>3, <2>1 DEF ReleaseMoved
  <2>3. QED BY <2>2, ReleaseNoClaims
<1>18. QED BY <1>12, <1>13, <1>15, <1>16, <1>17 DEF ReleaseIInv

-----------------------------------------------------------------------------
(* The invariant *)

\* Commits and deletions, and steps that change nothing
LEMMA ReleaseOthersKeep ==
  ASSUME ReleaseIInv, UNCHANGED <<base, releaseLedger, run, shipped>>, head' \in 1 .. Commits, refs' \subseteq refs,
         releases' \subseteq releases, \A t \in Release!Taken : t.channel = "stable" => t \in Release!Taken'
  PROVE  ReleaseIInv'
<1>1. ReleaseTypes' BY DEF ReleaseIInv, ReleaseTypes
<1>2. Release!Reserved' = Release!Reserved BY DEF Release!Reserved
<1>3. ReleaseOneAtATime' /\ ReleasePlansDiffer' BY DEF ReleaseIInv, ReleaseOneAtATime, ReleasePlansDiffer
<1>4. ReleaseRunsStand' BY <1>2 DEF ReleaseIInv, ReleaseRunsStand, ReleaseRunStands
<1>5. ReleaseSequencesEnd'
  <2>1. \A b, channel : ReleaseSequences(b, channel)' = ReleaseSequences(b, channel) BY <1>2 DEF ReleaseSequences
  <2>2. QED BY <2>1 DEF ReleaseIInv, ReleaseSequencesEnd
<1>6. ReleaseTagsAreOurs'
  <2>1. Release!Taken' \subseteq Release!Taken BY DEF Release!Taken
  <2>2. releaseLedger'.floor \in Nat /\ releaseLedger'.floor >= releaseLedger.floor
    BY ReleaseLedgerType DEF ReleaseIInv, ReleaseLedgerTypes
  <2>3. QED BY <1>2, <2>1, <2>2, ReleaseTagsKept
<1>7. ReleaseClaimsStand'
  <2> SUFFICES ASSUME NEW r \in Runs PROVE ReleaseClaimStands(r)' BY DEF ReleaseClaimsStand
  <2>1. ReleaseClaimStands(r) /\ ReleaseSame(r) BY DEF ReleaseIInv, ReleaseClaimsStand, ReleaseSame
  <2>2. Release!PlanOf(r)' = Release!PlanOf(r) /\ Release!TagOf(r)' = Release!TagOf(r)
        /\ Release!Draft(r)' = Release!Draft(r)
    BY <2>1, ReleasePlanKept
  <2>3. ReleaseCleared(r) => ReleaseCleared(r)' BY <2>1, ReleaseClearedKept
  <2>4. QED BY <2>1, <2>2, <2>3 DEF ReleaseClaimStands
<1>8. QED BY <1>1, <1>3, <1>4, <1>5, <1>6, <1>7 DEF ReleaseIInv

LEMMA ReleaseDeleteKeeps == ASSUME ReleaseIInv, Release!Delete PROVE ReleaseIInv'
<1>1. UNCHANGED <<head, base, releaseLedger, run, shipped>> BY DEF Release!Delete
<1>2. PICK tag \in {t \in Release!Taken : t.channel # "stable"} :
        refs' \in {refs, {x \in refs : x.tag # tag}} /\ releases' \in {releases, {x \in releases : x.tag # tag}}
  BY DEF Release!Delete
<1>3. \A t \in Release!Taken : t.channel = "stable" => t \in Release!Taken'
  <2> SUFFICES ASSUME NEW x \in refs \cup releases, x.tag.channel = "stable" PROVE x.tag \in Release!Taken'
    BY DEF Release!Taken
  <2>1. x.tag # tag BY <1>2
  <2>2. x \in refs' \cup releases' BY <1>2, <2>1
  <2>3. QED BY <2>2 DEF Release!Taken
<1>4. head' \in 1 .. Commits BY <1>1 DEF ReleaseIInv, ReleaseTypes
<1>5. QED BY <1>1, <1>2, <1>3, <1>4, ReleaseOthersKeep

LEMMA ReleaseCommitKeeps == ASSUME ReleaseIInv, Release!Commit PROVE ReleaseIInv'
<1>1. head' \in 1 .. Commits
  <2>1. head \in Nat /\ 1 <= head /\ head < Commits /\ Commits \in Nat
    BY ReleaseAssumption DEF Release!Commit, ReleaseIInv, ReleaseTypes
  <2>2. QED BY <2>1 DEF Release!Commit
<1>2. Release!Taken' = Release!Taken BY DEF Release!Commit, Release!Taken
<1>3. QED BY <1>1, <1>2, ReleaseOthersKeep DEF Release!Commit

LEMMA ReleaseStutterKeeps == ASSUME ReleaseIInv, UNCHANGED Release!rvars PROVE ReleaseIInv'
<1>1. Release!Taken' = Release!Taken /\ head' \in 1 .. Commits
  BY DEF Release!rvars, Release!Taken, ReleaseIInv, ReleaseTypes
<1>2. QED BY <1>1, ReleaseOthersKeep DEF Release!rvars

\* The invariant holds in every reachable state of the workflow, for any number of
\* runs, failures, commits and deletions (release_state.py, release_control.py).
THEOREM ReleaseInductive == Release!Spec => []ReleaseIInv
<1>1. Release!Init => ReleaseIInv BY ReleaseInitIInv
<1>2. ReleaseIInv /\ [Release!Next]_Release!rvars => ReleaseIInv'
  <2> SUFFICES ASSUME ReleaseIInv, [Release!Next]_Release!rvars PROVE ReleaseIInv' OBVIOUS
  <2>1. ASSUME NEW r \in Runs, NEW channel \in Release!Candidates, NEW auto \in BOOLEAN,
               Release!Start(r, channel, None, auto)
        PROVE  ReleaseIInv'
    BY <2>1, ReleaseStartKeeps DEF ReleaseChannels
  <2>2. ASSUME NEW r \in Runs, NEW rc \in Release!Public, Release!Start(r, "stable", rc, FALSE) PROVE ReleaseIInv'
    BY <2>2, ReleaseStartKeeps DEF ReleaseChannels
  <2>3. ASSUME NEW r \in Runs, Release!Fail(r) PROVE ReleaseIInv' BY <2>3, ReleaseEndKeeps DEF Release!Fail
  <2>4. ASSUME NEW r \in Runs, Release!Closed(r) PROVE ReleaseIInv'
    <3>1. run[r].at \notin Release!Ended BY <2>4 DEF Release!Closed, Release!Ended
    <3>2. QED BY <2>4, <3>1, ReleaseEndKeeps DEF Release!Closed
  <2>5. ASSUME NEW r \in Runs, Release!Superseded(r) PROVE ReleaseIInv'
    <3>1. run[r].at \notin Release!Ended BY <2>5 DEF Release!Superseded, Release!Ended
    <3>2. QED BY <2>5, <3>1, ReleaseEndKeeps DEF Release!Superseded
  <2>6. QED
    BY <2>1, <2>2, <2>3, <2>4, <2>5, ReleaseRerunKeeps, ReleaseReserveKeeps, ReleaseClaimKeeps,
      ReleaseCreateTagKeeps, ReleaseCreateDraftKeeps, ReleaseLateDraftKeeps, ReleaseReadbackKeeps,
      ReleaseUploadKeeps, ReleaseMakePublicKeeps, ReleaseCommitKeeps, ReleaseDeleteKeeps, ReleaseStutterKeeps
    DEF Release!Next
<1>3. QED BY <1>1, <1>2, PTL DEF Release!Spec

\* A run that leaves "publish" with a change of the releases has made its own public.
LEMMA ReleasePublishIs ==
  ASSUME ReleaseIInv, [Release!Next]_Release!rvars, NEW r \in Runs, run[r].at = "publish", run'[r].at # "publish",
         releases' # releases
  PROVE  Release!MakePublic(r)
<1>1. run \in [Runs -> ReleaseRunStates] BY DEF ReleaseIInv, ReleaseTypes
<1>2. ASSUME NEW s \in Runs, NEW at, Release!Goes(s, at), s # r PROVE FALSE
  <2>1. run'[r] = run[r] BY <1>1, <1>2 DEF Release!Goes
  <2>2. QED BY <2>1
<1>3. ASSUME NEW s \in Runs, Release!CreateDraft(s) PROVE FALSE
  <2>1. s # r BY <1>3 DEF Release!CreateDraft
  <2>2. QED BY <1>2, <1>3, <2>1 DEF Release!CreateDraft
<1>4. ASSUME NEW s \in Runs, Release!Upload(s) PROVE FALSE
  <2>1. s # r BY <1>4 DEF Release!Upload
  <2>2. QED BY <1>2, <1>4, <2>1 DEF Release!Upload
<1>5. ASSUME NEW s \in Runs, Release!MakePublic(s) PROVE Release!MakePublic(r)
  <2>1. CASE s = r BY <1>5, <2>1
  <2>2. CASE s # r BY <1>2, <1>5, <2>2 DEF Release!MakePublic
  <2>3. QED BY <2>1, <2>2
<1>6. \A s \in Runs : ~Release!LateDraft(s) BY DEF Release!LateDraft
<1>7. ~Release!Delete /\ ~Release!Commit BY DEF Release!Delete, Release!Commit
<1>8. \A s \in Runs : /\ \A channel, rc, auto : ~Release!Start(s, channel, rc, auto)
                      /\ ~Release!Rerun(s) /\ ~Release!Fail(s) /\ ~Release!Closed(s) /\ ~Release!Reserve(s)
                         /\ ~Release!Superseded(s) /\ ~Release!Claim(s)
                      /\ ~Release!CreateTag(s) /\ ~Release!Readback(s)
  BY DEF Release!Start, Release!Rerun, Release!Fail, Release!Closed, Release!Reserve, Release!Superseded,
    Release!Claim, Release!CreateTag, Release!Readback
<1>9. ~UNCHANGED Release!rvars BY DEF Release!rvars
<1>10. QED BY <1>3, <1>4, <1>5, <1>6, <1>7, <1>8, <1>9 DEF Release!Next

\* What making the release of r public promises of it and of what was public before.
ReleaseAdvance(r) ==
  /\ \A x \in releases' \ releases : x.full
  /\ \A y \in shipped :
       /\ y.tag # Release!TagOf(r)
       /\ \/ y.number < Release!PlanOf(r).number
          \/ y.number = Release!PlanOf(r).number /\ y.tag = run[r].rc
  /\ run[r].channel \in {"beta", "rc"} =>
       \A y \in shipped : y.tag # Release!StableTag(Release!PlanOf(r).base)

\* What becomes public is complete and newer than all before it, or the newest
\* candidate promoted, under a tag never used, for any runs, failures, commits and
\* deletions in between (verify_reservation, release_state.py; publish_versioned and
\* promote, release_versioned.py).
THEOREM ReleaseAdvances == Release!Spec => Release!ReleasesOnlyAdvance
<1>1. ReleaseIInv /\ [Release!Next]_Release!rvars
        => [\A r \in Runs : run[r].at = "publish" /\ run'[r].at # "publish" /\ releases' # releases
                            => ReleaseAdvance(r)]_Release!rvars
  <2> SUFFICES ASSUME ReleaseIInv, [Release!Next]_Release!rvars, NEW r \in Runs, run[r].at = "publish",
                      run'[r].at # "publish", releases' # releases
               PROVE  ReleaseAdvance(r)
    OBVIOUS
  <2>1. Release!MakePublic(r) BY ReleasePublishIs
  <2>2. ReleaseCleared(r) /\ \A x \in releases : x.tag = Release!TagOf(r) => x.full
    BY DEF ReleaseIInv, ReleaseClaimsStand, ReleaseClaimStands, ReleaseClaimed
  <2>3. PICK x \in releases : x.tag = Release!TagOf(r)
        /\ releases' = (releases \ {x}) \cup {[x EXCEPT !.draft = FALSE]}
    BY <2>1 DEF Release!MakePublic
  <2>4. x \in [tag : ReleaseTags, draft : BOOLEAN, full : BOOLEAN] BY DEF ReleaseIInv, ReleaseTypes
  <2>5. [x EXCEPT !.draft = FALSE].full = x.full BY <2>4
  <2>6. \A z \in releases' \ releases : z.full BY <2>2, <2>3, <2>5
  <2>7. QED BY <2>2, <2>6 DEF ReleaseCleared, ReleaseAdvance
<1>2. QED BY <1>1, ReleaseInductive, PTL DEF Release!Spec, Release!ReleasesOnlyAdvance, ReleaseAdvance

\* What all parts do is, as far as this one goes, what it does.
LEMMA ReleaseRuns == Spec => Release!Spec
<1>1. Init => Release!Init BY DEF Init
<1>2. [Next]_vars => [Release!Next]_Release!rvars
  <2> SUFFICES ASSUME [Next]_vars PROVE Release!Next \/ UNCHANGED releaseVars
    BY DEF Release!rvars, releaseVars
  <2>1. CASE UNCHANGED vars BY <2>1 DEF vars
  <2>2. ASSUME NEW p \in Parts, p # "release", Only(p) PROVE UNCHANGED releaseVars
    BY <2>2 DEF Only
  <2>3. QED BY <2>1, <2>2 DEF Next, Parts
<1>3. QED BY <1>1, <1>2, PTL DEF Spec, Release!Spec

\* What no longer holds replaces nothing: a tariff that was not shown
\* (tariff_service.py), or a build behind a public one (release_state.py).
THEOREM NothingStaleReplaces == Spec => StaleReplacesNothing
BY EditsAreInformed, ReleaseRuns, ReleaseAdvances, PTL DEF StaleReplacesNothing

-----------------------------------------------------------------------------
(* The regulation *)

RegulationIInv ==
  /\ load \in Loads /\ mode \in Modes /\ range \in Ranges
  /\ inverter \in Int /\ setpoint \in Int /\ creep \in Int
  /\ filtered \in Int \cup {None} /\ prev \in Int \cup {None} /\ (background => filtered \in Int)

LEMMA ExtremesOfTwo ==
  ASSUME NEW a \in Int, NEW b \in Int
  PROVE  /\ Regulator!Max({a, b}) = IF a >= b THEN a ELSE b
         /\ Regulator!Min({a, b}) = IF a <= b THEN a ELSE b
<1>1. \E x \in {a, b} : \A y \in {a, b} : x <= y OBVIOUS
<1>2. \E x \in {a, b} : \A y \in {a, b} : x >= y OBVIOUS
<1>3. Regulator!Min({a, b}) \in {a, b} /\ Regulator!Min({a, b}) <= a /\ Regulator!Min({a, b}) <= b
  BY <1>1 DEF Regulator!Min
<1>4. Regulator!Max({a, b}) \in {a, b} /\ Regulator!Max({a, b}) >= a /\ Regulator!Max({a, b}) >= b
  BY <1>2 DEF Regulator!Max
<1>5. QED BY <1>3, <1>4

LEMMA CutIs == ASSUME NEW n \in Int, NEW d \in Nat \ {0} PROVE Regulator!Cut(n, d) \in Int
BY DEF Regulator!Cut

LEMMA MagnitudeIs ==
  ASSUME NEW w \in Int
  PROVE  Regulator!Magnitude(w) = IF w >= 0 THEN w ELSE -w
<1>1. -w \in Int OBVIOUS
<1>2. QED BY <1>1, ExtremesOfTwo DEF Regulator!Magnitude

\* What a limit makes of a command
LEMMA WithinIs ==
  ASSUME NEW w \in Int, NEW r, r.min \in Int, r.max \in Int, r.min <= r.max
  PROVE  Regulator!Within(w, r) = IF w < r.min THEN r.min ELSE IF w > r.max THEN r.max ELSE w
<1>1. Regulator!Max({r.min, w}) = IF r.min >= w THEN r.min ELSE w BY ExtremesOfTwo
<1>2. PICK most \in Int : most = Regulator!Max({r.min, w}) BY <1>1
<1>3. Regulator!Min({r.max, most}) = IF r.max <= most THEN r.max ELSE most BY ExtremesOfTwo
<1>4. QED BY <1>1, <1>2, <1>3 DEF Regulator!Within

-----------------------------------------------------------------------------
(* Every step of the calculation is a number. *)

LEMMA SmoothedIs == ASSUME NEW old \in Int, NEW new \in Int PROVE Regulator!Smoothed(old, new) \in Int
<1>1. 3 * (new - old) \in Int OBVIOUS
<1>2. Regulator!Cut(3 * (new - old), 10) \in Int BY <1>1, CutIs
<1>3. QED BY <1>2 DEF Regulator!Smoothed

LEMMA CreptIs == ASSUME RegulationIInv, NEW f \in Int PROVE Regulator!Crept(f) \in Int
<1> DEFINE r == [min |-> -Regulator!CreepMax, max |-> Regulator!CreepMax]
<1>1. r.min \in Int /\ r.max \in Int /\ r.min <= r.max BY DEF Regulator!CreepMax
<1>2. PICK w \in Int : w = IF f > 0 THEN creep + 1 ELSE creep - 2 BY DEF RegulationIInv
<1> HIDE DEF r
<1>3. Regulator!Within(w, r) \in Int BY <1>1, WithinIs
<1>4. QED BY <1>2, <1>3 DEF Regulator!Crept, r

LEMMA NormalIs == ASSUME RegulationIInv, NEW f \in Int PROVE Regulator!Normal(f) \in Int
<1>1. Regulator!Damped(f, Regulator!Crept(f)) \in Int BY CreptIs DEF Regulator!Damped
<1>2. 10 * inverter - Regulator!Damped(f, f) \in Int BY DEF Regulator!Damped, RegulationIInv
<1>3. Regulator!Cut(Regulator!Damped(f, Regulator!Crept(f)), 20) \in Int BY <1>1, CutIs
<1>4. Regulator!Cut(10 * inverter - Regulator!Damped(f, f), 10) \in Int BY <1>2, CutIs
<1>5. QED BY <1>3, <1>4 DEF Regulator!Normal, RegulationIInv

LEMMA CorrectedIs ==
  ASSUME RegulationIInv, NEW gt \in Int, NEW old \in Int \cup {None}, NEW f \in Int
  PROVE  Regulator!Corrected(gt, old, f) \in Int
<1>1. PICK raw \in Int : raw = Regulator!Normal(f) BY NormalIs
<1>2. PICK burst \in Int :
        burst = IF Regulator!Bursts(gt, old) THEN raw + Regulator!Cut(-8 * (gt - old), 10) ELSE raw
  <2>1. CASE Regulator!Bursts(gt, old)
    <3>1. -8 * (gt - old) \in Int BY <2>1 DEF Regulator!Bursts
    <3>2. Regulator!Cut(-8 * (gt - old), 10) \in Int BY <3>1, CutIs
    <3>3. QED BY <2>1, <3>2
  <2>2. CASE ~Regulator!Bursts(gt, old) BY <2>2
  <2>3. QED BY <2>1, <2>2
<1>3. prev # None => Regulator!Cut(3 * (gt - prev), 10) \in Int
  <2>1. prev # None => 3 * (gt - prev) \in Int BY DEF RegulationIInv
  <2>2. QED BY <2>1, CutIs
<1>4. QED BY <1>1, <1>2, <1>3 DEF Regulator!Corrected

LEMMA ModedIs == ASSUME RegulationIInv, NEW w \in Int PROVE Regulator!Moded(w) \in Int
<1>1. mode.mppt \in Int /\ mode.pv \in Int BY RegulationAssumption DEF RegulationIInv
<1>2. Regulator!Solar \in Int
  <2>1. 94 * mode.mppt \in Int BY <1>1
  <2>2. QED BY <2>1, CutIs DEF Regulator!Solar
<1>3. PICK sun \in Int, spare \in Int : sun = Regulator!Solar - 60 /\ spare = Regulator!Solar - 500 BY <1>2
<1>4. Regulator!Max({0, sun}) \in Int /\ Regulator!Max({0, spare}) \in Int BY ExtremesOfTwo
<1>5. PICK floor \in Int, ceiling \in Int :
        floor = -Regulator!Max({0, sun}) /\ ceiling = -Regulator!Max({0, spare})
  BY <1>4
<1>6. Regulator!Max({w, floor}) \in Int BY ExtremesOfTwo
<1>7. Regulator!OnlyCharging(w) \in Int BY <1>3, <1>5, <1>6 DEF Regulator!OnlyCharging
<1>8. Regulator!LimitToEv(Regulator!OnlyCharging(w)) \in Int BY <1>3, <1>5, <1>7 DEF Regulator!LimitToEv
<1>9. QED BY <1>1, <1>8 DEF Regulator!Moded, Regulator!Charge, Regulator!HouseSupport, Regulator!NoFeed

-----------------------------------------------------------------------------
(* What limits make of any of them *)

LEMMA LimitedBounds ==
  ASSUME RegulationIInv, NEW w \in Int
  PROVE  LET v == Regulator!Limited(w) IN
         /\ v \in Int /\ range.min <= v /\ v <= range.max
         /\ (setpoint - 2000 <= v /\ v <= setpoint + 2000) \/ v \in {range.min, range.max}
<1>1. range.min \in Int /\ range.max \in Int /\ range.min <= range.max /\ setpoint \in Int
  BY RegulationAssumption DEF RegulationIInv
<1>2. PICK a \in Int : a = Regulator!Within(w, range) BY <1>1, WithinIs
<1>3. PICK b \in Int : b = Regulator!Slewed(a) /\ setpoint - 2000 <= b /\ b <= setpoint + 2000
  <2> DEFINE r == [min |-> setpoint - Regulator!DeltaLimit, max |-> setpoint + Regulator!DeltaLimit]
  <2>1. r.min \in Int /\ r.max \in Int /\ r.min <= r.max /\ r.min = setpoint - 2000 /\ r.max = setpoint + 2000
    BY <1>1 DEF Regulator!DeltaLimit
  <2>2. Regulator!Slewed(a) = Regulator!Within(a, r) BY DEF Regulator!Slewed
  <2> HIDE DEF r
  <2>3. Regulator!Within(a, r) = IF a < r.min THEN r.min ELSE IF a > r.max THEN r.max ELSE a BY <2>1, WithinIs
  <2>4. QED BY <1>1, <2>1, <2>2, <2>3
<1>4. Regulator!Limited(w) = Regulator!Within(b, range) BY <1>2, <1>3 DEF Regulator!Limited
<1>5. Regulator!Within(b, range) = IF b < range.min THEN range.min ELSE IF b > range.max THEN range.max ELSE b
  BY <1>1, WithinIs
<1>6. QED BY <1>1, <1>3, <1>4, <1>5

\* A cycle's command
LEMMA CommandIs ==
  ASSUME RegulationIInv, NEW w \in Int, NEW v, v = Regulator!Guarded(Regulator!Limited(w))
  PROVE  /\ v \in Int
         /\ v = Regulator!Within(v, range) \/ (Regulator!Restricted /\ v = 0)
         /\ Regulator!Restricted => v >= 0
         /\ Regulator!Magnitude(v - setpoint) <= Regulator!DeltaLimit \/ v \in {range.min, range.max, 0}
<1>1. range.min \in Int /\ range.max \in Int /\ range.min <= range.max /\ setpoint \in Int
  BY RegulationAssumption DEF RegulationIInv
<1>2. PICK u \in Int : /\ u = Regulator!Limited(w) /\ range.min <= u /\ u <= range.max
                       /\ (setpoint - 2000 <= u /\ u <= setpoint + 2000) \/ u \in {range.min, range.max}
  BY LimitedBounds
<1>3. Regulator!Max({0, u}) = IF 0 >= u THEN 0 ELSE u BY ExtremesOfTwo
<1>4. v = u \/ (Regulator!Restricted /\ v = 0) BY <1>2, <1>3 DEF Regulator!Guarded
<1>5. Regulator!Restricted => v >= 0 BY <1>2, <1>3 DEF Regulator!Guarded
<1>6. v \in Int BY <1>4
<1>7. v = u => v = Regulator!Within(v, range) BY <1>1, <1>2, WithinIs
<1>8. Regulator!Magnitude(v - setpoint) <= Regulator!DeltaLimit \/ v \in {range.min, range.max, 0}
  <2>1. PICK m \in Int : m = v - setpoint BY <1>1, <1>6
  <2>2. Regulator!Magnitude(m) = IF m >= 0 THEN m ELSE -m BY MagnitudeIs
  <2>3. QED BY <1>1, <1>2, <1>4, <2>1, <2>2 DEF Regulator!DeltaLimit
<1>9. QED BY <1>4, <1>5, <1>6, <1>7, <1>8

LEMMA ResultIs ==
  ASSUME RegulationIInv, NEW gt \in Int, NEW old \in Int \cup {None}, NEW f \in Int
  PROVE  \E w \in Int : Regulator!Result(gt, old, f) = Regulator!Guarded(Regulator!Limited(w))
<1>1. Regulator!Corrected(gt, old, f) \in Int BY CorrectedIs
<1>2. Regulator!Moded(Regulator!Corrected(gt, old, f)) \in Int BY <1>1, ModedIs
<1>3. setpoint \in Int BY DEF RegulationIInv
<1>4. PICK diff \in Int : diff = Regulator!Moded(Regulator!Corrected(gt, old, f)) - setpoint BY <1>2, <1>3
<1>5. 9 * diff \in Int OBVIOUS
<1>6. Regulator!Cut(9 * diff, 10) \in Int BY <1>5, CutIs
<1>7. setpoint + (IF Regulator!Bursts(gt, old) THEN diff ELSE Regulator!Cut(9 * diff, 10)) \in Int
  BY <1>3, <1>4, <1>6
<1>8. QED BY <1>4, <1>7 DEF Regulator!Result

-----------------------------------------------------------------------------
(* The steps *)

LEMMA RegulationInit == ASSUME Regulator!Init PROVE RegulationIInv
<1>1. load \in Int BY RegulationAssumption DEF Regulator!Init
<1>2. QED BY <1>1 DEF Regulator!Init, Regulator!Grid, RegulationIInv

\* What a cycle computes, and from what
LEMMA CycleIs ==
  ASSUME RegulationIInv, Regulator!Cycle
  PROVE  \E gt \in Int, old \in Int \cup {None}, f \in Int :
           /\ setpoint' = Regulator!Result(gt, old, f) /\ creep' = Regulator!Crept(f) /\ prev' = gt
           /\ filtered' = IF background THEN filtered ELSE f
<1>1. Regulator!Excluded \in Int
  <2>1. mode.ev \in Int \cup {None} BY RegulationAssumption DEF RegulationIInv
  <2>2. QED BY <2>1 DEF Regulator!Excluded
<1>2. load \in Int /\ inverter \in Int BY RegulationAssumption DEF RegulationIInv
<1>3. PICK gt \in Int : gt = Regulator!Grid - Regulator!Excluded BY <1>1, <1>2 DEF Regulator!Grid
<1>4. PICK old \in Int \cup {None} : old = IF background THEN filtered - Regulator!Excluded ELSE filtered
  <2>1. CASE background
    <3>1. filtered \in Int BY <2>1 DEF RegulationIInv
    <3>2. filtered - Regulator!Excluded \in Int BY <1>1, <3>1
    <3>3. QED BY <2>1, <3>2
  <2>2. CASE ~background BY <2>2 DEF RegulationIInv
  <2>3. QED BY <2>1, <2>2
<1>5. PICK f \in Int :
        f = IF background THEN old ELSE IF old = None THEN gt ELSE Regulator!Smoothed(old, gt)
  <2>1. CASE background BY <1>1, <1>4, <2>1 DEF RegulationIInv
  <2>2. CASE ~background /\ old = None BY <2>2
  <2>3. CASE ~background /\ old # None
    <3>1. old \in Int BY <2>3
    <3>2. Regulator!Smoothed(old, gt) \in Int BY <3>1, SmoothedIs
    <3>3. QED BY <2>3, <3>2
  <2>4. QED BY <2>1, <2>2, <2>3
<1>6. QED BY <1>3, <1>4, <1>5, Zenon DEF Regulator!Cycle

LEMMA RegulationCycleKeeps == ASSUME RegulationIInv, Regulator!Cycle PROVE RegulationIInv'
<1>1. PICK gt \in Int, old \in Int \cup {None}, f \in Int :
        /\ setpoint' = Regulator!Result(gt, old, f) /\ creep' = Regulator!Crept(f) /\ prev' = gt
        /\ filtered' = IF background THEN filtered ELSE f
  BY CycleIs
<1>2. setpoint' \in Int
  <2>1. PICK w \in Int : setpoint' = Regulator!Guarded(Regulator!Limited(w)) BY <1>1, ResultIs
  <2>2. QED BY <2>1, CommandIs
<1>3. creep' \in Int BY <1>1, CreptIs
<1>4. UNCHANGED <<background, load, mode, range, inverter>> BY DEF Regulator!Cycle
<1>5. QED BY <1>1, <1>2, <1>3, <1>4 DEF RegulationIInv

\* What the filter thread reads between two cycles is a number.
LEMMA SampledIs ==
  ASSUME RegulationIInv, inverter' \in Int
  PROVE  Regulator!Sampled \in Int \cup {None} /\ (background => Regulator!Sampled \in Int)
<1>1. load \in Int BY RegulationAssumption DEF RegulationIInv
<1>2. load + inverter' \in Int BY <1>1
<1>3. CASE background
  <2>1. filtered \in Int BY <1>3 DEF RegulationIInv
  <2>2. Regulator!Smoothed(filtered, load + inverter') \in Int BY <1>2, <2>1, SmoothedIs
  <2>3. QED BY <1>3, <2>2 DEF Regulator!Sampled
<1>4. CASE ~background BY <1>4 DEF Regulator!Sampled, RegulationIInv
<1>5. QED BY <1>3, <1>4

\* Every step keeps the invariant.
LEMMA RegulationInductive == Regulator!Spec => []RegulationIInv
<1>1. Regulator!Init => RegulationIInv BY RegulationInit
<1>2. RegulationIInv /\ [Regulator!Next]_Regulator!regVars => RegulationIInv'
  <2> SUFFICES ASSUME RegulationIInv, [Regulator!Next]_Regulator!regVars PROVE RegulationIInv' OBVIOUS
  <2>1. CASE Regulator!Cycle BY <2>1, RegulationCycleKeeps
  <2>2. CASE Regulator!Follow \/ Regulator!Lag
    <3>1. inverter' \in Int BY <2>2 DEF Regulator!Follow, Regulator!Lag, RegulationIInv
    <3>2. filtered' = Regulator!Sampled /\ UNCHANGED <<background, load, mode, range, setpoint, prev, creep>>
      BY <2>2 DEF Regulator!Follow, Regulator!Lag
    <3>3. QED BY <3>1, <3>2, SampledIs DEF RegulationIInv
  <2>3. CASE Regulator!Change
    <3>1. load' \in Loads /\ mode' \in Modes /\ range' \in Ranges BY <2>3 DEF Regulator!Change, RegulationIInv
    <3>2. UNCHANGED <<background, inverter, setpoint, filtered, prev, creep>> BY <2>3 DEF Regulator!Change
    <3>3. QED BY <3>1, <3>2 DEF RegulationIInv
  <2>4. CASE UNCHANGED Regulator!regVars BY <2>4 DEF Regulator!regVars, RegulationIInv
  <2>5. QED BY <2>1, <2>2, <2>3, <2>4 DEF Regulator!Next
<1>3. QED BY <1>1, <1>2, PTL DEF Regulator!Spec

LEMMA RegulationRuns == Spec => Regulator!Spec
<1>1. Init => Regulator!Init BY DEF Init
<1>2. [Next]_vars => [Regulator!Next]_Regulator!regVars
  <2> SUFFICES ASSUME [Next]_vars PROVE Regulator!Next \/ UNCHANGED regVars
    BY DEF Regulator!regVars, regVars
  <2>1. CASE UNCHANGED vars BY <2>1 DEF vars
  <2>2. ASSUME NEW p \in Parts, p # "regulation", Only(p) PROVE UNCHANGED regVars BY <2>2 DEF Only, Parts
  <2>3. QED BY <2>1, <2>2 DEF Next, Parts
<1>3. QED BY <1>1, <1>2, PTL DEF Spec, Regulator!Spec

\* Every command of the regulation keeps to the limits in force, to what is left of
\* them where the power of an EV is unknown, and to the slew limit unless the limits
\* demand more, for any loads, modes and limits (SetpointCalculator.calculate).
THEOREM CommandsStayBounded == Spec => CommandsAreBounded
<1> DEFINE Bounded ==
      setpoint' # setpoint =>
        /\ setpoint' = Regulator!Within(setpoint', range) \/ (Regulator!Restricted /\ setpoint' = 0)
        /\ Regulator!Restricted => setpoint' >= 0
        /\ \/ Regulator!Magnitude(setpoint' - setpoint) <= Regulator!DeltaLimit
           \/ setpoint' \in {range.min, range.max, 0}
<1>1. RegulationIInv /\ [Regulator!Next]_Regulator!regVars => [Bounded]_Regulator!regVars
  <2> SUFFICES ASSUME RegulationIInv, Regulator!Next, setpoint' # setpoint PROVE Bounded
    BY DEF Regulator!regVars
  <2>1. Regulator!Cycle BY DEF Regulator!Next, Regulator!Follow, Regulator!Lag, Regulator!Change
  <2>2. PICK gt \in Int, old \in Int \cup {None}, f \in Int : setpoint' = Regulator!Result(gt, old, f)
    BY <2>1, CycleIs
  <2>3. PICK w \in Int : setpoint' = Regulator!Guarded(Regulator!Limited(w)) BY <2>2, ResultIs
  <2>4. QED BY <2>3, CommandIs
<1>2. QED BY <1>1, RegulationRuns, RegulationInductive, PTL
  DEF Regulator!Spec, CommandsAreBounded, Regulator!CommandsAreBounded

=============================================================================
