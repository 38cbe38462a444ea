------------------------------ MODULE FileTree ------------------------------
(***************************************************************************)
(* G::DirectoryTree and G::FileTree (glib/gdirectorytree.cpp,              *)
(* gfiletree.cpp): an iterator over the files of a tree of directories,    *)
(* forwards or in reverse.  It reads a directory when it enters it, and    *)
(* sees nothing of what is added there later.                              *)
(*                                                                         *)
(* The tree is a root with directories, a day each, of files; a file is a  *)
(* pair of numbers.  Deeper directories, and files that are ignored, are   *)
(* left out; and files are never deleted.                                  *)
(***************************************************************************)
EXTENDS Integers, FiniteSets, FiniteSetsExt

CONSTANTS
  Days,   \* names of directories
  Slots,  \* names of files in a directory
  End     \* no file, when the iterator is at the end

Files == Days \X Slots

ASSUME FileTreeAssumption ==
  /\ Days \subseteq Nat /\ Slots \subseteq Nat \ {0} /\ IsFiniteSet(Days) /\ IsFiniteSet(Slots)
  /\ End \notin Files

(* An iterator: the names that it read in the root and in the directory    *)
(* where it is, and the file.                                              *)
Iterators ==
  [moved : BOOLEAN, reversed : BOOLEAN, days : SUBSET Days, names : SUBSET Slots,
   at : Files \union {End}]

DaysIn(files) == {f[1] : f \in files}
NamesIn(files, day) == {f[2] : f \in {g \in files : g[1] = day}}

Foremost(S, reversed) == IF reversed THEN Max(S) ELSE Min(S)
Beyond(S, x, reversed) == {y \in S : IF reversed THEN y < x ELSE y > x}
AtOrBeyond(S, x, reversed) == Beyond(S, x, reversed) \union (S \intersect {x})

(* Which of two files the iterator comes to first. *)
Before(f, g, reversed) ==
  LET Less(a, b) == a[1] < b[1] \/ (a[1] = b[1] /\ a[2] < b[2])
  IN  IF reversed THEN Less(g, f) ELSE Less(f, g)

-----------------------------------------------------------------------------

AtEnd(reversed) ==
  [moved |-> FALSE, reversed |-> reversed, days |-> {}, names |-> {}, at |-> End]

(* On, into the first of some directories that has files. *)
Enter(files, days, ahead, reversed) ==
  LET filled == {d \in ahead : NamesIn(files, d) # {}}
      day    == Foremost(filled, reversed)
      names  == NamesIn(files, day)
  IN  IF filled = {} THEN AtEnd(reversed)
      ELSE [moved |-> FALSE, reversed |-> reversed, days |-> days, names |-> names,
            at |-> <<day, Foremost(names, reversed)>>]

Start(files, reversed) == Enter(files, DaysIn(files), DaysIn(files), reversed)

Moved(t) == [t EXCEPT !.moved = TRUE]

(* operator++, over directories. *)
Advance(files, t) ==
  LET names == Beyond(t.names, t.at[2], t.reversed)
  IN  IF t.at = End THEN t
      ELSE IF names # {} THEN [t EXCEPT !.at[2] = Foremost(names, t.reversed)]
      ELSE Enter(files, t.days, Beyond(t.days, t.at[1], t.reversed), t.reversed)

(* next() *)
Following(files, t) ==
  IF t.moved THEN [t EXCEPT !.moved = FALSE] ELSE [Advance(files, t) EXCEPT !.moved = FALSE]

(* down(), twice: to the directory, at or after the one that is wanted,    *)
(* and there, whichever that is, to the file at or after the wanted name;  *)
(* from the end of a directory to the next.                                *)
Seek(files, path, reversed) ==
  LET days  == AtOrBeyond(DaysIn(files), path[1], reversed)
      day   == Foremost(days, reversed)
      names == AtOrBeyond(NamesIn(files, day), path[2], reversed)
  IN  IF days = {} THEN AtEnd(reversed)
      ELSE IF names = {} THEN Enter(files, DaysIn(files), Beyond(days, day, reversed), reversed)
      ELSE [moved |-> FALSE, reversed |-> reversed, days |-> DaysIn(files),
            names |-> NamesIn(files, day), at |-> <<day, Foremost(names, reversed)>>]

(* reposition(): nothing is changed when there is no such file. *)
Reposition(files, t, path) ==
  LET p == Seek(files, path, t.reversed) IN IF p.at = End THEN t ELSE Moved(p)

RepositionRoot(files, t) ==
  LET p == Start(files, t.reversed) IN IF p.at = End THEN t ELSE Moved(p)

(* last(), first() and reverse() *)
Last(files, t)  == Moved([Start(files, ~t.reversed) EXCEPT !.reversed = t.reversed])
First(files, t) == Moved(Start(files, t.reversed))
Reversed(t, reversed) == [t EXCEPT !.reversed = reversed]

(* reroot() *)
Reroot(files) == Moved(Start(files, FALSE))

=============================================================================
