----------------------------- MODULE FilePlayer -----------------------------
(***************************************************************************)
(* fileplayer (main/fileplayer.cpp) with its ribbon (gvideo/gvribbon.cpp): *)
(* it plays the files of a tree to which a recorder may add, as commands   *)
(* and clicks in the viewer tell it to.                                    *)
(*                                                                         *)
(* The file timer always runs, and of its times nothing is said here, nor  *)
(* of --sleep; fading, the decoding of images, and a ribbon that is as     *)
(* wide as a day has files are other abstractions.                         *)
(***************************************************************************)
EXTENDS FileTree

CONSTANTS
  Roots,        \* the directories that may be the root, in the order of their names
  MainRoot,     \* the one that it is started with
  Length,       \* [Roots -> Nat]: how long their names are
  Contents,     \* [Roots -> SUBSET Files]: what is there at first
  Bad,          \* files that are not images
  Options,      \* how it is started, and the kinds of commands it is sent
  Skips,        \* what play --skip may say
  MaxCommands   \* bound: number of commands

ASSUME PlayerAssumption ==
  /\ Roots \subseteq Nat \ {0} /\ IsFiniteSet(Roots) /\ MainRoot \in Roots
  /\ Length \in [Roots -> Nat] /\ Contents \in [Roots -> SUBSET Files]
  /\ Bad \subseteq Files /\ Skips \subseteq Nat
  /\ Options \subseteq [loop : BOOLEAN, stays : BOOLEAN, ribbon : BOOLEAN, skip : Nat,
                        reverse : BOOLEAN,
                        sent : SUBSET {"play", "turn", "stop", "move", "root", "click"}]
  /\ MaxCommands \in Nat

VARIABLES
  option, running,
  files,         \* what the main root has
  m_root,
  m_tree,
  m_stopped,
  m_skip,        \* [reverse, skip, skipped]
  m_file_count,  \* whether it has shown a file since it started or looped
  shown,         \* history: the last file shown
  told,          \* history: whether a command moved the tree to where it is
  ribbon,        \* a record, see NoRibbon
  scan,          \* the scanner's iterator
  busy, ribbonTimer,
  commands

playVars   == <<m_root, m_tree, m_stopped, m_skip>>
ribbonVars == <<ribbon, scan, busy, ribbonTimer>>
vars == <<option, running, files, playVars, m_file_count, shown, told, ribbonVars, commands>>

(* What there is under a root: the recorder adds to the main one only.     *)
FilesOf(root) == IF root = MainRoot THEN files ELSE Contents[root]

(* The ribbon: the root that it was made for, and scans; its day, and the  *)
(* root of the file that brought it there; the files that it knows, of any *)
(* root, and the slot that is marked.  "was" is history: the files of the  *)
(* day under its base, when it came to that day.                           *)
NoRibbon == [base |-> 0, root |-> 0, day |-> 0, known |-> {}, mark |-> 0, was |-> {}]

TypeOK ==
  /\ option \in Options /\ running \in BOOLEAN /\ files \subseteq Files
  /\ m_root \in Roots /\ m_tree \in Iterators /\ m_stopped \in BOOLEAN
  /\ m_skip.reverse \in BOOLEAN /\ m_skip.skip \in Nat /\ m_skip.skipped \in Nat
  /\ m_file_count \in BOOLEAN /\ shown \in Files \union {End} /\ told \in BOOLEAN
  /\ ribbon \in [base : Roots \union {0}, root : Roots \union {0}, day : Days \union {0},
                 known : SUBSET (Roots \X Slots), mark : Slots \union {0},
                 was : SUBSET Slots]
  /\ scan \in Iterators /\ busy \in BOOLEAN /\ ribbonTimer \in BOOLEAN
  /\ commands \in 0 .. MaxCommands

Init ==
  /\ option \in Options /\ running = TRUE /\ files = Contents[MainRoot]
  /\ m_root = MainRoot
  /\ m_tree = Moved(Start(files, option.reverse))
  /\ m_stopped \in BOOLEAN
  /\ m_skip = [reverse |-> option.reverse, skip |-> option.skip, skipped |-> 0]
  /\ m_file_count = FALSE /\ shown = End /\ told = FALSE
  /\ ribbon = NoRibbon /\ scan = AtEnd(FALSE) /\ busy = FALSE /\ ribbonTimer = FALSE
  /\ commands = 0

-----------------------------------------------------------------------------
(* Skippage *)

IsSkipped(s) == s.skip > 0 /\ s.skipped < s.skip

(* skip() *)
SkipOne(s) ==
  IF s.skip = 0 THEN s
  ELSE [s EXCEPT !.skipped = IF IsSkipped(s) THEN @ + 1 ELSE 0]

(* noskip() *)
NoSkip(s) == [s EXCEPT !.skipped = s.skip]

\* Mutant of WithSkip: what was said of the next file is forgotten.
WithSkipOnly(s, n) == [s EXCEPT !.skip = n]

(* update(), when there is a number. *)
WithSkip(s, n) == [s EXCEPT !.skip = n, !.skipped = IF @ > n THEN @ ELSE n]

-----------------------------------------------------------------------------
(* The ribbon *)

(* scanSome(), from where the scanner is: all, or as much as there is time *)
(* for.  After a reposition() the first file is seen twice.                *)
Scanned(r, t) ==
  LET here == t.at # End /\ t.at[1] = r.day
      rest == {i \in t.names : i >= t.at[2]}
      next == Following(FilesOf(r.base), t)
  IN  IF ~here THEN {<<r, AtEnd(FALSE), FALSE>>}
      ELSE {<<[r EXCEPT !.known = @ \union ({r.base} \X rest)], AtEnd(FALSE), FALSE>>,
            <<[r EXCEPT !.known = @ \union {<<r.base, t.at[2]>>}], next, TRUE>>}

(* RibbonScanner::start(), for a file that is shown.  Under another root   *)
(* than the ribbon's, the day's path is out of the scanner's tree.         *)
Rescanned(base, day) ==
  LET new == [base |-> base, root |-> m_root, day |-> day, known |-> {}, mark |-> 0,
              was |-> NamesIn(FilesOf(base), day)]
  IN  IF base # m_root THEN {<<new, AtEnd(FALSE), FALSE>>}
      ELSE UNION {Scanned(new, t) :
                    t \in {Reposition(FilesOf(base), AtEnd(FALSE), <<day, 0>>)}}

(* Whether the ribbon finds the time in the paths of a root: it looks      *)
(* where it was in those of its own.                                       *)
Timestamped(root) == Length[root] = Length[ribbon.base]

(* apply(), inside the ribbon's day *)
Marked(r, name) == [r EXCEPT !.known = @ \union {<<m_root, name>>}, !.mark = name]

\* Mutant of AppliedTo: a file of another day does not start a scan.
AppliedToOnce(path) ==
  IF ribbon.base = 0
  THEN {<<Marked(s[1], path[2]), s[2], s[3]>> : s \in Rescanned(m_root, path[1])}
  ELSE IF ~Timestamped(m_root) THEN {<<ribbon, scan, busy>>}
  ELSE IF path[1] = ribbon.day THEN {<<Marked(ribbon, path[2]), scan, busy>>}
  ELSE {<<Marked([ribbon EXCEPT !.known = {}, !.day = path[1],
                                !.was = NamesIn(FilesOf(ribbon.base), path[1])], path[2]),
          scan, busy>>}

(* process(), of the ribbon: it is made with the first file; a file of     *)
(* another day starts a scan, which also clears the mark; and so it is     *)
(* only the first scan that the mark survives.                             *)
AppliedTo(path) ==
  IF ribbon.base = 0
  THEN {<<Marked(s[1], path[2]), s[2], s[3]>> : s \in Rescanned(m_root, path[1])}
  ELSE IF ~Timestamped(m_root) THEN {<<ribbon, scan, busy>>}
  ELSE IF path[1] = ribbon.day THEN {<<Marked(ribbon, path[2]), scan, busy>>}
  ELSE Rescanned(ribbon.base, path[1])

SeenByRibbon(path) ==
  IF ~option.ribbon THEN UNCHANGED ribbonVars
  ELSE \E s \in AppliedTo(path) :
         /\ ribbon' = s[1] /\ scan' = s[2] /\ busy' = s[3]
         /\ ribbonTimer' = (ribbonTimer \/ busy')

(* onRibbonTimeout().  The scanner may have been started again since, and  *)
(* be done; work() asserts that it is not.                                 *)
RibbonTimeout ==
  /\ running /\ ribbonTimer
  /\ \E s \in IF busy THEN Scanned(ribbon, scan) ELSE {<<ribbon, scan, FALSE>>} :
       ribbon' = s[1] /\ scan' = s[2] /\ busy' = s[3] /\ ribbonTimer' = s[3]
  /\ UNCHANGED <<option, running, files, playVars, m_file_count, shown, told, commands>>

-----------------------------------------------------------------------------
(* Playing *)

(* process(): whether the file is shown. *)
Shows(path, s) == ~IsSkipped(s) /\ path \notin Bad \union {End}

Process(path, s) ==
  /\ m_skip' = SkipOne(s)
  /\ IF Shows(path, s) THEN shown' = path /\ SeenByRibbon(path)
     ELSE UNCHANGED <<shown, ribbonVars>>

Resend == UNCHANGED <<shown, ribbonVars>>

(* onFileTimeout(), when stopped: the tree is left as it was. *)
FileTimeoutStopped ==
  /\ running /\ m_stopped
  /\ IF m_tree.moved THEN Process(m_tree.at, m_skip)
     ELSE Resend /\ UNCHANGED m_skip
  /\ UNCHANGED <<option, running, files, m_root, m_tree, m_stopped, m_file_count, told, commands>>

(* next(), and at the end of it all the last file that there is by now.    *)
\* Mutant of NextFile: new files are not looked for.
NextFileOld(fs) == Following(fs, m_tree)

NextFile(fs) ==
  LET next == Following(fs, m_tree)
      last == Following(fs, Last(fs, m_tree))
  IN  IF next.at # End \/ m_tree.reversed THEN next
      ELSE last

(* Whether that is a file, and not the one where it was. *)
Found(next) == next.at # End /\ (next.at # m_tree.at \/ m_tree.moved)

(* onFileTimeout(), when playing: there is a next file.                    *)
FileTimeout ==
  /\ running /\ ~m_stopped
  /\ \E next \in {NextFile(FilesOf(m_root))} :
       /\ Found(next) /\ m_tree' = next /\ Process(next.at, m_skip)
       /\ m_file_count' = (m_file_count \/ Shows(next.at, m_skip)) /\ told' = FALSE
  /\ UNCHANGED <<option, running, files, m_root, m_stopped, commands>>

(* There is none: it goes round again, waits, or ends.                     *)
FileTimeoutAtEnd ==
  /\ running /\ ~m_stopped /\ told' = FALSE
  /\ \E next \in {NextFile(FilesOf(m_root))} :
       /\ ~Found(next)
       /\ \/ /\ option.loop
             /\ \E again \in {Following(FilesOf(m_root), RepositionRoot(FilesOf(m_root), next))},
                   skip \in {[m_skip EXCEPT !.skipped = 0]} :
                  /\ m_tree' = again
                  /\ IF again.at # End THEN Process(again.at, skip)
                     ELSE m_skip' = skip /\ Resend
                  /\ m_file_count' = (again.at # End /\ Shows(again.at, skip))
             /\ UNCHANGED running
          \/ /\ ~option.loop /\ m_tree' = next /\ Resend
             /\ running' = (m_file_count /\ option.stays)
             /\ UNCHANGED <<m_skip, m_file_count>>
  /\ UNCHANGED <<option, files, m_root, m_stopped, commands>>

-----------------------------------------------------------------------------
(* Commands, from the socket or the viewer *)

Command(kind) ==
  /\ running /\ kind \in option.sent
  /\ commands < MaxCommands /\ commands' = commands + 1
  /\ UNCHANGED <<option, running, files, m_file_count, shown, ribbonVars>>

Stop == Command("stop") /\ m_stopped' = TRUE /\ UNCHANGED <<m_root, m_tree, m_skip, told>>

Forwards  == [set |-> TRUE, reverse |-> FALSE]
Backwards == [set |-> TRUE, reverse |-> TRUE]
SameWay   == [set |-> FALSE, reverse |-> FALSE]

(* update(), of the direction. *)
Turned(s, way) ==
  IF way.set /\ way.reverse # s.reverse
  THEN /\ m_skip' = NoSkip([s EXCEPT !.reverse = way.reverse])
       /\ m_tree' = Reversed(m_tree, way.reverse)
  ELSE m_skip' = s /\ UNCHANGED m_tree

Play(way, n) ==
  /\ Command(IF way.set THEN "turn" ELSE "play") /\ m_stopped' = FALSE
  /\ Turned(IF n = End THEN m_skip ELSE WithSkip(m_skip, n), way)
  /\ UNCHANGED <<m_root, told>>

(* What follows when the tree has moved. *)
Go(t) ==
  /\ m_tree' = t
  /\ m_skip' = IF t.moved THEN NoSkip(m_skip) ELSE m_skip
  /\ told' = t.moved /\ UNCHANGED m_stopped

MoveFirst ==
  Command("move") /\ UNCHANGED m_root
    /\ Go(IF m_tree.reversed THEN Last(FilesOf(m_root), m_tree)
          ELSE First(FilesOf(m_root), m_tree))

MoveLast ==
  Command("move") /\ UNCHANGED m_root
    /\ Go(IF m_tree.reversed THEN First(FilesOf(m_root), m_tree)
          ELSE Last(FilesOf(m_root), m_tree))

(* A failure is an exception, so that nothing follows. *)
MoveTo(path) ==
  /\ Command("move") /\ UNCHANGED m_root
  /\ IF Seek(FilesOf(m_root), path, m_tree.reversed).at = End
     THEN UNCHANGED <<m_tree, m_skip, m_stopped, told>>
     ELSE Go(Reposition(FilesOf(m_root), m_tree, path))

(* move --root and move --match-name: both make a new tree, that goes      *)
(* forwards, and leave the ribbon as it is.  When the rest of the command  *)
(* fails, nothing more is done.                                            *)
MoveRoot(root) ==
  /\ Command("root") /\ m_root' = root
  /\ \/ Go(Reroot(FilesOf(root)))
     \/ /\ m_tree' = Reroot(FilesOf(root)) /\ told' = FALSE
        /\ UNCHANGED <<m_skip, m_stopped>>

(* reposition(), to a file of a root: of another than the player's it is   *)
(* out of the tree.                                                        *)
Jump(root, path) ==
  IF root = m_root THEN Reposition(FilesOf(root), m_tree, path) ELSE m_tree

(* What follows: a click also makes the next file be shown, whether or not *)
(* the tree has moved.                                                     *)
Jumped(t) ==
  /\ m_tree' = t /\ told' = t.moved /\ UNCHANGED <<m_root, m_stopped>>
  /\ m_skip' = NoSkip(m_skip) \/ (~t.moved /\ m_skip' = m_skip)

(* doCommandNext() and doCommandPrevious() *)
DayMove(offset) ==
  LET day == ribbon.day + offset + (IF m_tree.reversed THEN 1 ELSE 0)
  IN  /\ Command("click") /\ ribbon.base # 0
      /\ Jumped(Jump(ribbon.root, <<day, 0>>))

(* doCommandRibbonMove(): of the files in a slot, the first or the last.   *)
RibbonMove(i) ==
  LET slots == {k[2] : k \in ribbon.known}
      here  == AtOrBeyond(slots, i, m_tree.reversed)
      way   == IF here # {} THEN m_tree.reversed ELSE ~m_tree.reversed
      slot  == Foremost(IF here # {} THEN here ELSE slots, way)
      roots == {k[1] : k \in {l \in ribbon.known : l[2] = slot}}
  IN  /\ Command("click") /\ ribbon.base # 0
      /\ Jumped(IF slots = {} THEN m_tree
                ELSE Jump(Foremost(roots, way), <<ribbon.day, slot>>))

-----------------------------------------------------------------------------

(* The recorder adds a file. *)
Record(f) ==
  /\ f \notin files /\ \A g \in files : Before(g, f, FALSE)
  /\ files' = files \union {f}
  /\ UNCHANGED <<option, running, playVars, m_file_count, shown, told, ribbonVars, commands>>

Next ==
  \/ FileTimeoutStopped \/ FileTimeout \/ FileTimeoutAtEnd \/ RibbonTimeout
  \/ Stop \/ MoveFirst \/ MoveLast
  \/ \E way \in {Forwards, Backwards, SameWay}, n \in Skips \union {End} : Play(way, n)
  \/ \E f \in Files : MoveTo(f) \/ Record(f)
  \/ \E root \in Roots : MoveRoot(root)
  \/ \E offset \in {-1, 1} : DayMove(offset)
  \/ \E i \in Slots : RibbonMove(i)

Spec == Init /\ [][Next]_vars

(* The timers go off. *)
Fairness ==
  /\ WF_vars(FileTimeoutStopped) /\ WF_vars(FileTimeout) /\ WF_vars(FileTimeoutAtEnd)
  /\ WF_vars(RibbonTimeout)

FairSpec == Spec /\ Fairness

-----------------------------------------------------------------------------

(* The player and its iterator agree on the direction, as doCommandMove()  *)
(* asserts (fileplayer.cpp:642), unless "move --root" has come to a player *)
(* in reverse: the new tree goes forwards.                                 *)
SameDirection ==
  /\ m_tree.reversed => m_skip.reverse
  /\ "root" \notin option.sent => m_tree.reversed = m_skip.reverse

(* The ribbon has only files that there are, of its day; the scan, done in *)
(* slices between other events, finds all that were there when it began;   *)
(* and what it has yet to find is ahead of it (gvribbon.cpp:127).  After   *)
(* "move --root" there may be files of another root in it, and it may be   *)
(* at a day that a file of another root brought it to: then nothing is     *)
(* scanned.                                                                *)
RibbonRight ==
  /\ \A k \in ribbon.known : k[2] \in NamesIn(FilesOf(k[1]), ribbon.day)
  /\ ribbon.mark # 0 => \E root \in Roots : <<root, ribbon.mark>> \in ribbon.known
  /\ ~busy /\ ribbon.root = ribbon.base => {ribbon.base} \X ribbon.was \subseteq ribbon.known
  /\ busy => \A i \in ribbon.was :
               \/ <<ribbon.base, i>> \in ribbon.known
               \/ scan.at # End /\ scan.at[1] = ribbon.day /\ i \in scan.names /\ i >= scan.at[2]
  /\ busy => ribbonTimer
  /\ "root" \notin option.sent =>
       ribbon.root = ribbon.base /\ \A k \in ribbon.known : k[1] = m_root

PlayerInvariant == TypeOK /\ SameDirection /\ RibbonRight

(* What it was told to move to is shown, whatever commands come before the *)
(* timer and whatever it would have skipped (fileplayer.cpp:1068).         *)
MovesShown ==
  [][(FileTimeout \/ FileTimeoutStopped) /\ told /\ m_tree.at \notin Bad \union {End}
       => shown' = m_tree.at]_vars

(* A player that is left to play forwards gets to the newest file, also if *)
(* that came after its directory had been read (fileplayer.cpp:505).       *)
NewestShown ==
  \A f \in Files \ Bad :
    [](m_skip.skip = 0)
    /\ <>[](/\ running /\ ~m_stopped /\ ~m_tree.reversed /\ ~option.loop
         /\ f \in FilesOf(m_root) /\ \A g \in FilesOf(m_root) : ~Before(f, g, FALSE))
    => <>(shown = f)

(* Statements of the code that do not hold.  The assertion of              *)
(* doCommandMove() (fileplayer.cpp:642), when "move --root" has come in    *)
(* reverse; and that a ribbon "needs to be rescanned" for another day      *)
(* (gvribbon.h), which under another root it is not.                       *)
AlwaysSameDirection == m_tree.reversed = m_skip.reverse

AlwaysRescanned == ~busy => {ribbon.base} \X ribbon.was \subseteq ribbon.known

(* And one of the documentation: reposition() fails                        *)
(* only "if there are no files at or after the required position"          *)
(* (gfiletree.h:89).                                                       *)
FindsFile ==
  [][\A path \in Files :
       MoveTo(path) /\ ~m_tree.reversed /\ (\E f \in FilesOf(m_root) : ~Before(f, path, FALSE))
         => m_tree'.moved]_vars

=============================================================================
