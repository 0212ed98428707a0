---------------------------- MODULE LogForwarder ----------------------------
(* log_forwarder.py: the cursor of one log against rotation, retention,       *)
(* failed pushes and crashes.                                                 *)
(*                                                                            *)
(* multilog appends records to "current", renames it to an archive, creates a *)
(* new "current" and removes the oldest archive, at any moment of a pass of   *)
(* the forwarder.  The cursor names a file by its inode.  A batch is saved    *)
(* only after it was pushed, so that a crash repeats records.                 *)
(*                                                                            *)
(* A file is the record [first, last] of the numbers of its complete lines.   *)
(* Inode numbers are never used again: see the README.                        *)
EXTENDS Naturals, Sequences

CONSTANTS
  None,
  Batch,        \* BATCH_SIZE
  Retained,     \* how many archives multilog keeps
  Lines,        \* bound: lines ever written
  Files,        \* bound: files ever created
  Crashes       \* bound: restarts of the forwarder

VARIABLES
  file,         \* inode -> [first, last]: what was written to it
  archives,     \* inodes of the retained archives, oldest first
  current,      \* inode of "current"; None between rename and creation
  torn,         \* the last line of "current" is not complete yet
  pass,         \* process_logs in flight: its step and what it has read
  cursor,       \* the state file
  delivered,    \* lines Loki accepted complete
  expired,      \* lines of archives that retention removed
  crashes       \* what remains of Crashes

lvars == <<file, archives, current, torn, pass, cursor, delivered, expired, crashes>>

Inodes == 1 .. Files
Cursors == [inode : {None} \cup Inodes, position : 0 .. Lines]
Start == [inode |-> None, position |-> 0]
Idle == [at |-> "idle", from |-> Start, names |-> {}, files |-> {}, live |-> None, inode |-> None,
         read |-> {}, next |-> Start]

Created == DOMAIN file
Written == IF current = None THEN file[Len(file)].last ELSE file[current].last
Archived == {archives[k] : k \in 1 .. Len(archives)}
Present == Archived \cup (IF current = None THEN {} ELSE {current})
Size(i) == file[i].last - file[i].first + 1

TypeOK ==
  /\ \A i \in Created : file[i].first \in 1 .. Lines + 1 /\ file[i].last \in 0 .. Lines
  /\ Archived \subseteq Inodes /\ current \in {None} \cup Inodes /\ torn \in BOOLEAN
  /\ pass.at \in {"idle", "archives", "current", "check", "open", "push", "save"}
  /\ pass.next \in Cursors /\ cursor \in Cursors
  /\ delivered \subseteq 1 .. Lines /\ crashes \in 0 .. Crashes

Init ==
  /\ file = <<[first |-> 1, last |-> 0]>> /\ archives = <<>> /\ current = 1 /\ torn = FALSE
  /\ pass = Idle /\ cursor = Start /\ delivered = {} /\ expired = {} /\ crashes = Crashes

-----------------------------------------------------------------------------
(* multilog *)

\* A line arrives in two pieces, or whole.
Write ==
  /\ current # None /\ Written < Lines
  /\ \/ ~torn /\ torn' = TRUE /\ UNCHANGED file
     \/ torn' = FALSE /\ file' = [file EXCEPT ![current].last = @ + 1]
  /\ UNCHANGED <<archives, current, pass, cursor, delivered, expired, crashes>>

Rename ==
  /\ current # None /\ ~torn /\ Len(file) < Files
  /\ archives' = Append(archives, current) /\ current' = None
  /\ UNCHANGED <<file, torn, pass, cursor, delivered, expired, crashes>>

Create ==
  /\ current = None
  /\ file' = Append(file, [first |-> file[Len(file)].last + 1, last |-> file[Len(file)].last])
  /\ current' = Len(file) + 1
  /\ UNCHANGED <<archives, torn, pass, cursor, delivered, expired, crashes>>

Remove ==
  /\ Len(archives) > Retained
  /\ archives' = Tail(archives)
  /\ expired' = expired \cup (file[Head(archives)].first .. file[Head(archives)].last)
  /\ UNCHANGED <<file, current, torn, pass, cursor, delivered, crashes>>

-----------------------------------------------------------------------------
(* retained_log_files: the directory is listed, its files are looked up one   *)
(* after the other, and the listing is repeated.                              *)

\* Archives by their inode, "current" by 0
Names == Archived \cup (IF current = None THEN {} ELSE {0})

\* load_state, and the first listing
Begin ==
  /\ pass.at = "idle"
  /\ pass' = [Idle EXCEPT !.at = "archives", !.from = cursor, !.names = Names, !.next = cursor]
  /\ UNCHANGED <<file, archives, current, torn, cursor, delivered, expired, crashes>>

\* An archive that is gone is left out.
StatArchives ==
  /\ pass.at = "archives"
  /\ pass' = [pass EXCEPT !.at = "current", !.files = Archived \cap pass.names]
  /\ UNCHANGED <<file, archives, current, torn, cursor, delivered, expired, crashes>>

StatCurrent ==
  /\ pass.at = "current"
  /\ pass' = [pass EXCEPT !.at = "check", !.live = current,
                           !.files = IF current = None THEN @ ELSE @ \cup {current}]
  /\ UNCHANGED <<file, archives, current, torn, cursor, delivered, expired, crashes>>

\* Mutant: a rotation during the scan goes unnoticed.
FaultySteady == TRUE

Steady == Names = pass.names

\* The files are in the order of their names, which is that of their creation.
Oldest(files) == CHOOSE i \in files : \A j \in files : i <= j

\* The saved inode, or everything that is retained
StartFile == IF pass.from.inode \in pass.files THEN pass.from.inode ELSE Oldest(pass.files)

Check ==
  /\ pass.at = "check"
  /\ pass' = IF Steady /\ pass.files # {} THEN [pass EXCEPT !.at = "open", !.inode = StartFile] ELSE Idle
  /\ UNCHANGED <<file, archives, current, torn, cursor, delivered, expired, crashes>>

-----------------------------------------------------------------------------
(* read_new_lines: one file after the other, until there is something to push *)

\* The path was looked up as "current", or by the archive's name.
AsCurrent(i) == i = pass.live
Opened(i) == IF AsCurrent(i) THEN current = i ELSE i \in Archived

\* The lines of file i behind a position; a torn last line stays pending.
Position(i) == IF pass.from.inode = i /\ pass.from.position <= Size(i) THEN pass.from.position ELSE 0
Readable(i) == LET p == Position(i) IN
  {n \in file[i].first .. file[i].last : n >= file[i].first + p /\ n < file[i].first + p + Batch}

Smaller(a, b) == IF a < b THEN a ELSE b
After(i) == [inode |-> i, position |-> Position(i) + Smaller(Batch, Size(i) - Position(i))]

Open ==
  /\ pass.at = "open"
  /\ LET i == pass.inode
         newer == {j \in pass.files : j > i} IN
     pass' = IF ~Opened(i) THEN Idle
             ELSE IF Readable(i) # {} THEN [pass EXCEPT !.at = "push", !.read = Readable(i), !.next = After(i)]
             ELSE IF AsCurrent(i) THEN [pass EXCEPT !.at = "save", !.next = After(i)]
             ELSE IF newer # {} THEN [pass EXCEPT !.inode = Oldest(newer), !.next = After(i)]
             ELSE [pass EXCEPT !.at = "save", !.next = After(i)]
  /\ UNCHANGED <<file, archives, current, torn, cursor, delivered, expired, crashes>>

\* push_to_loki: refused and not delivered, delivered although the reply was
\* lost, or acknowledged.
Push ==
  /\ pass.at = "push"
  /\ \/ pass' = Idle /\ delivered' \in {delivered, delivered \cup pass.read}
     \/ pass' = [pass EXCEPT !.at = "save"] /\ delivered' = delivered \cup pass.read
  /\ UNCHANGED <<file, archives, current, torn, cursor, expired, crashes>>

\* save_state replaces the file as a whole, or fails
Save ==
  /\ pass.at = "save"
  /\ pass' = Idle
  /\ cursor' \in {cursor, pass.next}
  /\ UNCHANGED <<file, archives, current, torn, delivered, expired, crashes>>

\* A crash loses the pass; a reboot clears /run as well.
Crash ==
  /\ crashes > 0 /\ crashes' = crashes - 1
  /\ pass' = Idle
  /\ cursor' \in {cursor, Start}
  /\ UNCHANGED <<file, archives, current, torn, delivered, expired>>

Next ==
  \/ Write \/ Rename \/ Create \/ Remove
  \/ Begin \/ StatArchives \/ StatCurrent \/ Check \/ Open \/ Push \/ Save \/ Crash

Spec == Init /\ [][Next]_lvars

-----------------------------------------------------------------------------
(* Properties *)

\* "a crash may replay, but cannot skip logs" (save_state): no line that lies
\* before the saved cursor is unsent, unless retention had removed its file,
\* whatever rotations, failed pushes and crashes come between any two steps.
\* Lines that the cursor would return to lie behind it.
NoLineSkipped ==
  cursor.inode \in Present =>
    \A n \in 1 .. file[cursor.inode].first + cursor.position - 1 : n \in delivered \cup expired

=============================================================================
