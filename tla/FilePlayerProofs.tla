--------------------------- MODULE FilePlayerProofs ---------------------------
(* Theorems about the file player, for any roots and files, any options,   *)
(* and any commands and clicks.                                            *)
EXTENDS FilePlayer, SubsequenceProofs

-----------------------------------------------------------------------------
(* The foremost of some names *)

LEMMA GreatestOf ==
  ASSUME NEW S, IsFiniteSet(S), S \subseteq Nat, S # {}
  PROVE  \E m \in S : \A n \in S : m >= n
<1>1. /\ Cardinality(S) \in Nat /\ Cardinality(S) # 0
      /\ \A n \in 1 .. Cardinality(S) :
           Place(S, n) \in S /\ Rank(S, Place(S, n)) = n
      /\ \A n \in S : Rank(S, n) \in 1 .. Cardinality(S)
  BY PlaceOfRank, FS_EmptySet
<1> DEFINE N == Cardinality(S)
           m == Place(S, N)
<1>2. N \in Nat /\ m \in S /\ Rank(S, m) = N /\ \A n \in S : Rank(S, n) \in 1 .. N
  BY <1>1
<1> HIDE DEF m, N
<1>3. \A n \in S : ~(m < n)
  <2> SUFFICES ASSUME NEW n \in S, m < n PROVE FALSE
    OBVIOUS
  <2>1. Rank(S, m) < Rank(S, n)
    BY <1>2, RankRises
  <2> QED  BY <1>2, <2>1
<1>4. \A n \in S : n \in Nat
  OBVIOUS
<1> QED  BY <1>2, <1>3, <1>4

LEMMA ForemostOf ==
  ASSUME NEW S, IsFiniteSet(S), S \subseteq Nat, S # {}, NEW reversed
  PROVE  /\ Foremost(S, reversed) \in S
         /\ reversed = FALSE => \A n \in S : n >= Foremost(S, reversed)
<1>1. Max(S) \in S
  BY GreatestOf DEF Max
<1>2. Min(S) \in S /\ \A n \in S : Min(S) <= n
  BY NatMinimum DEF Min
<1>3. \A n \in S : n >= Min(S)
  BY <1>2
<1> QED  BY <1>1, <1>2, <1>3 DEF Foremost

-----------------------------------------------------------------------------
(* Iterators *)

(* What an iterator has read is, or was, there.                            *)
ReadFrom(fs, t) ==
  /\ t \in Iterators /\ t.days \subseteq DaysIn(fs)
  /\ t.at # End => t.at \in fs /\ t.names \subseteq NamesIn(fs, t.at[1])

LEMMA NamesFacts ==
  ASSUME NEW fs \in SUBSET Files
  PROVE  /\ DaysIn(fs) \subseteq Days
         /\ \A d : NamesIn(fs, d) \subseteq Slots
         /\ \A d : \A n \in NamesIn(fs, d) : <<d, n>> \in fs
         /\ \A f \in fs : /\ f \in Files /\ f = <<f[1], f[2]>> /\ f # End
                          /\ f[1] \in DaysIn(fs) /\ f[2] \in NamesIn(fs, f[1])
<1>1. \A f \in fs : f \in Files /\ f = <<f[1], f[2]>> /\ f[1] \in Days /\ f[2] \in Slots
  BY DEF Files
<1>2. DaysIn(fs) = {f[1] : f \in fs} /\ \A d : NamesIn(fs, d) = {f[2] : f \in {g \in fs : g[1] = d}}
  BY DEF DaysIn, NamesIn
<1>3. \A d : \A n \in NamesIn(fs, d) : <<d, n>> \in fs
  <2> SUFFICES ASSUME NEW d, NEW n \in NamesIn(fs, d) PROVE <<d, n>> \in fs
    OBVIOUS
  <2>1. PICK f \in fs : f[1] = d /\ f[2] = n
    BY <1>2
  <2> QED  BY <1>1, <2>1
<1> QED  BY <1>1, <1>2, <1>3, FileTreeAssumption

LEMMA NamesGrow ==
  ASSUME NEW fs, NEW gs, fs \subseteq gs
  PROVE  DaysIn(fs) \subseteq DaysIn(gs) /\ \A d : NamesIn(fs, d) \subseteq NamesIn(gs, d)
BY DEF DaysIn, NamesIn

LEMMA ForemostIn ==
  ASSUME NEW S, S \subseteq Days \/ S \subseteq Slots, S # {}, NEW reversed
  PROVE  /\ Foremost(S, reversed) \in S
         /\ reversed = FALSE => \A n \in S : n >= Foremost(S, reversed)
<1>1. S \in SUBSET Days \/ S \in SUBSET Slots
  OBVIOUS
<1>2. IsFiniteSet(S) /\ S \subseteq Nat
  BY <1>1, FileTreeAssumption, FS_Subset
<1> QED  BY <1>2, ForemostOf

LEMMA BeyondIn ==
  ASSUME NEW S, NEW x, NEW reversed
  PROVE  /\ Beyond(S, x, reversed) \subseteq S /\ AtOrBeyond(S, x, reversed) \subseteq S
         /\ Beyond(S, x, FALSE) = {y \in S : y > x}
BY DEF Beyond, AtOrBeyond

LEMMA AtEndRight ==
  ASSUME NEW fs, NEW reversed \in BOOLEAN
  PROVE  /\ ReadFrom(fs, AtEnd(reversed)) /\ AtEnd(reversed).at = End
         /\ AtEnd(reversed).reversed = reversed
BY DEF ReadFrom, AtEnd, Iterators

(* An iterator that is put at a file. *)
LEMMA PutRight ==
  ASSUME NEW fs \in SUBSET Files, NEW days \in SUBSET DaysIn(fs), NEW reversed \in BOOLEAN,
         NEW day, NEW names, names = NamesIn(fs, day), NEW name \in names,
         NEW t, t = [moved |-> FALSE, reversed |-> reversed, days |-> days, names |-> names,
                     at |-> <<day, name>>]
  PROVE  ReadFrom(fs, t) /\ t.reversed = reversed /\ t.moved = FALSE
<1>1. <<day, name>> \in fs /\ names \subseteq Slots /\ days \subseteq Days
  BY NamesFacts
<1>2. <<day, name>> \in Files
  BY <1>1
<1>3. t \in Iterators
  BY <1>1, <1>2 DEF Iterators
<1>4. t.at[1] = day
  OBVIOUS
<1> QED  BY <1>1, <1>3, <1>4 DEF ReadFrom

LEMMA EnterRight ==
  ASSUME NEW fs \in SUBSET Files, NEW days \in SUBSET DaysIn(fs), NEW ahead,
         ahead \subseteq DaysIn(fs), NEW reversed \in BOOLEAN
  PROVE  /\ ReadFrom(fs, Enter(fs, days, ahead, reversed))
         /\ Enter(fs, days, ahead, reversed).reversed = reversed
<1> DEFINE filled == {d \in ahead : NamesIn(fs, d) # {}}
           day    == Foremost(filled, reversed)
           names  == NamesIn(fs, day)
           name   == Foremost(names, reversed)
           t      == Enter(fs, days, ahead, reversed)
<1>1. CASE filled = {}
  <2>1. t = AtEnd(reversed)
    BY <1>1 DEF Enter
  <2> QED  BY <2>1, AtEndRight
<1>2. CASE filled # {}
  <2>1. day \in filled
    <3>1. filled \subseteq Days
      BY NamesFacts
    <3> QED  BY <1>2, <3>1, ForemostIn
  <2>2. name \in names
    <3>1. names # {} /\ names \subseteq Slots
      BY <2>1, NamesFacts
    <3> HIDE DEF names
    <3> QED  BY <3>1, ForemostIn
  <2>3. t = [moved |-> FALSE, reversed |-> reversed, days |-> days, names |-> names,
             at |-> <<day, name>>]
    BY <1>2 DEF Enter
  <2>4. names = NamesIn(fs, day)
    OBVIOUS
  <2> HIDE DEF names, name, day, t
  <2>5. ReadFrom(fs, t) /\ t.reversed = reversed
    BY <2>2, <2>3, <2>4, PutRight
  <2> QED  BY <2>5 DEF t
<1> QED  BY <1>1, <1>2

LEMMA StartRight ==
  ASSUME NEW fs \in SUBSET Files, NEW reversed \in BOOLEAN
  PROVE  ReadFrom(fs, Start(fs, reversed)) /\ Start(fs, reversed).reversed = reversed
BY EnterRight DEF Start

(* The flags do not matter to what has been read. *)
LEMMA FlagsRight ==
  ASSUME NEW fs, NEW t, ReadFrom(fs, t)
  PROVE  /\ t.reversed \in BOOLEAN /\ t.moved \in BOOLEAN
         /\ ReadFrom(fs, [t EXCEPT !.moved = FALSE])
         /\ [t EXCEPT !.moved = FALSE].reversed = t.reversed
         /\ [t EXCEPT !.moved = FALSE].at = t.at
         /\ ReadFrom(fs, Moved(t)) /\ Moved(t).reversed = t.reversed
         /\ Moved(t).moved = TRUE /\ Moved(t).at = t.at
BY DEF ReadFrom, Iterators, Moved

LEMMA ReversedRight ==
  ASSUME NEW fs, NEW t, ReadFrom(fs, t), NEW reversed \in BOOLEAN
  PROVE  /\ ReadFrom(fs, Reversed(t, reversed)) /\ Reversed(t, reversed).reversed = reversed
         /\ Reversed(t, reversed).moved = t.moved /\ Reversed(t, reversed).at = t.at
BY DEF ReadFrom, Iterators, Reversed

LEMMA AdvanceRight ==
  ASSUME NEW fs \in SUBSET Files, NEW t, ReadFrom(fs, t)
  PROVE  ReadFrom(fs, Advance(fs, t)) /\ Advance(fs, t).reversed = t.reversed
<1> DEFINE names == Beyond(t.names, t.at[2], t.reversed)
           name  == Foremost(names, t.reversed)
           u     == [t EXCEPT !.at[2] = name]
<1>1. t \in Iterators /\ t.reversed \in BOOLEAN /\ t.days \subseteq DaysIn(fs)
  BY DEF ReadFrom, Iterators
<1>2. CASE t.at = End
  BY <1>2 DEF Advance
<1>3. CASE t.at # End /\ names # {}
  <2>1. t.at \in fs /\ t.names \subseteq NamesIn(fs, t.at[1]) /\ t.at \in Days \X Slots
    BY <1>3 DEF ReadFrom, Files
  <2>2. name \in t.names
    <3>1. names \subseteq t.names /\ t.names \subseteq Slots
      BY <1>1, BeyondIn DEF Iterators
    <3> QED  BY <1>3, <3>1, ForemostIn
  <2>3. Advance(fs, t) = u
    BY <1>3 DEF Advance
  <2> HIDE DEF name
  <2>4. u = [t EXCEPT !.at = <<t.at[1], name>>]
    BY <1>1, <2>1 DEF Iterators
  <2>5. <<t.at[1], name>> \in fs /\ <<t.at[1], name>> \in Files
    <3>1. name \in NamesIn(fs, t.at[1])
      BY <2>1, <2>2
    <3>2. <<t.at[1], name>> \in fs
      BY <3>1, NamesFacts
    <3> QED  BY <3>2
  <2>6. u \in Iterators /\ u.days = t.days /\ u.names = t.names /\ u.at = <<t.at[1], name>>
        /\ u.reversed = t.reversed
    BY <1>1, <2>4, <2>5 DEF Iterators
  <2>7. u.at[1] = t.at[1]
    BY <2>6
  <2> HIDE DEF u
  <2> QED  BY <1>1, <2>1, <2>3, <2>5, <2>6, <2>7 DEF ReadFrom
<1>4. CASE t.at # End /\ names = {}
  <2> DEFINE ahead == Beyond(t.days, t.at[1], t.reversed)
  <2>1. Advance(fs, t) = Enter(fs, t.days, ahead, t.reversed)
    BY <1>4 DEF Advance
  <2>2. ahead \subseteq DaysIn(fs)
    BY <1>1, BeyondIn
  <2> HIDE DEF ahead
  <2> QED  BY <1>1, <2>1, <2>2, EnterRight
<1> QED  BY <1>2, <1>3, <1>4

LEMMA FollowingRight ==
  ASSUME NEW fs \in SUBSET Files, NEW t, ReadFrom(fs, t)
  PROVE  /\ ReadFrom(fs, Following(fs, t)) /\ Following(fs, t).reversed = t.reversed
         /\ t.moved = TRUE => Following(fs, t).at = t.at
<1>1. ReadFrom(fs, Advance(fs, t)) /\ Advance(fs, t).reversed = t.reversed
  BY AdvanceRight
<1>2. CASE t.moved = TRUE
  <2> DEFINE u == [t EXCEPT !.moved = FALSE]
  <2>1. ReadFrom(fs, u) /\ u.reversed = t.reversed /\ u.at = t.at
    BY FlagsRight
  <2>2. Following(fs, t) = u
    BY <1>2 DEF Following
  <2> HIDE DEF u
  <2> QED  BY <2>1, <2>2
<1>3. CASE t.moved = FALSE
  <2> DEFINE v == Advance(fs, t)
             u == [v EXCEPT !.moved = FALSE]
  <2>1. Following(fs, t) = u
    BY <1>3 DEF Following
  <2>2. ReadFrom(fs, v) /\ v.reversed = t.reversed
    BY <1>1
  <2> HIDE DEF v
  <2>3. ReadFrom(fs, u) /\ u.reversed = v.reversed
    BY <2>2, FlagsRight
  <2> HIDE DEF u
  <2> QED  BY <1>3, <2>1, <2>2, <2>3
<1>4. t.moved \in BOOLEAN
  BY DEF ReadFrom, Iterators
<1> QED  BY <1>2, <1>3, <1>4

LEMMA SeekRight ==
  ASSUME NEW fs \in SUBSET Files, NEW path, NEW reversed \in BOOLEAN
  PROVE  ReadFrom(fs, Seek(fs, path, reversed)) /\ Seek(fs, path, reversed).reversed = reversed
<1> DEFINE days  == AtOrBeyond(DaysIn(fs), path[1], reversed)
           day   == Foremost(days, reversed)
           names == AtOrBeyond(NamesIn(fs, day), path[2], reversed)
           name  == Foremost(names, reversed)
           t     == Seek(fs, path, reversed)
<1>1. CASE days = {}
  <2>1. t = AtEnd(reversed)
    BY <1>1 DEF Seek
  <2> QED  BY <2>1, AtEndRight
<1>2. CASE days # {} /\ names = {}
  <2> DEFINE ahead == Beyond(days, day, reversed)
             all   == DaysIn(fs)
  <2>1. t = Enter(fs, all, ahead, reversed)
    BY <1>2 DEF Seek
  <2>2. ahead \subseteq all /\ all \in SUBSET DaysIn(fs)
    BY BeyondIn
  <2> HIDE DEF ahead, t
  <2>3. ahead \subseteq DaysIn(fs)
    BY <2>2
  <2> HIDE DEF all
  <2>4. ReadFrom(fs, Enter(fs, all, ahead, reversed))
        /\ Enter(fs, all, ahead, reversed).reversed = reversed
    BY <2>2, <2>3, EnterRight
  <2>5. ReadFrom(fs, t) /\ t.reversed = reversed
    BY <2>1, <2>4
  <2> QED  BY <2>5 DEF t
<1>3. CASE days # {} /\ names # {}
  <2> DEFINE these == NamesIn(fs, day)
  <2>1. name \in these
    <3>1. names \subseteq these /\ these \subseteq Slots
      BY BeyondIn, NamesFacts
    <3> HIDE DEF these, names
    <3> QED  BY <1>3, <3>1, ForemostIn
  <2>2. t = [moved |-> FALSE, reversed |-> reversed, days |-> DaysIn(fs), names |-> these,
             at |-> <<day, name>>]
    BY <1>3 DEF Seek
  <2>3. these = NamesIn(fs, day) /\ DaysIn(fs) \in SUBSET DaysIn(fs)
    OBVIOUS
  <2> HIDE DEF these, name, day, t
  <2>4. ReadFrom(fs, t) /\ t.reversed = reversed
    BY <2>1, <2>2, <2>3, PutRight
  <2> QED  BY <2>4 DEF t
<1> QED  BY <1>1, <1>2, <1>3

(* Where there is a file of the day, it is the day's first that is found.  *)
LEMMA SeekDay ==
  ASSUME NEW fs \in SUBSET Files, NEW f \in fs
  PROVE  \E first \in NamesIn(fs, f[1]) :
           /\ \A i \in NamesIn(fs, f[1]) : i >= first
           /\ Seek(fs, <<f[1], 0>>, FALSE)
                = [moved |-> FALSE, reversed |-> FALSE, days |-> DaysIn(fs),
                   names |-> NamesIn(fs, f[1]), at |-> <<f[1], first>>]
<1> DEFINE d == f[1]
           days  == AtOrBeyond(DaysIn(fs), d, FALSE)
           day   == Foremost(days, FALSE)
           names == AtOrBeyond(NamesIn(fs, day), 0, FALSE)
           name  == Foremost(names, FALSE)
<1>1. d \in Nat /\ d \in DaysIn(fs) /\ DaysIn(fs) \subseteq Nat
  BY NamesFacts, FileTreeAssumption
<1>2. days = {y \in DaysIn(fs) : y > d \/ y = d} /\ days \subseteq Days /\ d \in days
  BY <1>1, NamesFacts DEF AtOrBeyond, Beyond
<1>3. day = d
  <2>1. day \in days /\ \A y \in days : y >= day
    BY <1>2, ForemostIn
  <2>2. day \in DaysIn(fs) /\ (day > d \/ day = d) /\ d >= day
    <3> HIDE DEF day
    <3> QED  BY <1>2, <2>1
  <2>3. day \in Nat
    BY <1>1, <2>2
  <2> HIDE DEF day, d
  <2> QED  BY <1>1, <2>2, <2>3
<1>4. names = NamesIn(fs, d) /\ names # {} /\ names \subseteq Slots
  <2>1. NamesIn(fs, d) \subseteq Nat \ {0} /\ NamesIn(fs, d) \subseteq Slots /\ NamesIn(fs, d) # {}
    BY NamesFacts, FileTreeAssumption
  <2>2. AtOrBeyond(NamesIn(fs, d), 0, FALSE) = NamesIn(fs, d)
    BY <2>1 DEF AtOrBeyond, Beyond
  <2> HIDE DEF day
  <2> QED  BY <1>3, <2>1, <2>2
<1>5. name \in names /\ \A i \in names : i >= name
  <2> HIDE DEF names
  <2> QED  BY <1>4, ForemostIn
<1>6. <<f[1], 0>>[1] = d /\ <<f[1], 0>>[2] = 0
  OBVIOUS
<1>7. Seek(fs, <<f[1], 0>>, FALSE)
        = [moved |-> FALSE, reversed |-> FALSE, days |-> DaysIn(fs),
           names |-> NamesIn(fs, day), at |-> <<day, name>>]
  BY <1>2, <1>4, <1>6 DEF Seek
<1>8. Seek(fs, <<f[1], 0>>, FALSE)
        = [moved |-> FALSE, reversed |-> FALSE, days |-> DaysIn(fs),
           names |-> NamesIn(fs, f[1]), at |-> <<f[1], name>>]
  BY <1>3, <1>7
<1> HIDE DEF name, names, day, days
<1> QED  BY <1>4, <1>5, <1>8

LEMMA RepositionRight ==
  ASSUME NEW fs \in SUBSET Files, NEW t, ReadFrom(fs, t), NEW path
  PROVE  /\ ReadFrom(fs, Reposition(fs, t, path))
         /\ Reposition(fs, t, path).reversed = t.reversed
         /\ Reposition(fs, t, path) = t \/ Reposition(fs, t, path).moved = TRUE
<1> DEFINE p == Seek(fs, path, t.reversed)
           u == Reposition(fs, t, path)
<1>0. t.reversed \in BOOLEAN
  BY FlagsRight
<1>1. ReadFrom(fs, p) /\ p.reversed = t.reversed
  BY <1>0, SeekRight
<1>2. u = t \/ u = Moved(p)
  BY DEF Reposition
<1>3. ReadFrom(fs, Moved(p)) /\ Moved(p).reversed = p.reversed /\ Moved(p).moved = TRUE
  <2> HIDE DEF p
  <2> QED  BY <1>1, FlagsRight
<1> HIDE DEF p, u
<1>4. ReadFrom(fs, u) /\ u.reversed = t.reversed /\ (u = t \/ u.moved = TRUE)
  BY <1>1, <1>2, <1>3
<1> QED  BY <1>4 DEF u

LEMMA RepositionRootRight ==
  ASSUME NEW fs \in SUBSET Files, NEW t, ReadFrom(fs, t)
  PROVE  ReadFrom(fs, RepositionRoot(fs, t)) /\ RepositionRoot(fs, t).reversed = t.reversed
<1> DEFINE p == Start(fs, t.reversed)
           u == RepositionRoot(fs, t)
<1>0. t.reversed \in BOOLEAN
  BY FlagsRight
<1>1. ReadFrom(fs, p) /\ p.reversed = t.reversed
  BY <1>0, StartRight
<1>2. u = t \/ u = Moved(p)
  BY DEF RepositionRoot
<1>3. ReadFrom(fs, Moved(p)) /\ Moved(p).reversed = p.reversed
  <2> HIDE DEF p
  <2> QED  BY <1>1, FlagsRight
<1> HIDE DEF p, u
<1>4. ReadFrom(fs, u) /\ u.reversed = t.reversed
  BY <1>1, <1>2, <1>3
<1> QED  BY <1>4 DEF u

LEMMA EndsRight ==
  ASSUME NEW fs \in SUBSET Files, NEW t, ReadFrom(fs, t)
  PROVE  /\ ReadFrom(fs, Last(fs, t)) /\ Last(fs, t).reversed = t.reversed
         /\ Last(fs, t).moved = TRUE
         /\ ReadFrom(fs, First(fs, t)) /\ First(fs, t).reversed = t.reversed
         /\ First(fs, t).moved = TRUE
<1> DEFINE p == Start(fs, ~t.reversed)
           r == Reversed(p, t.reversed)
           f == Start(fs, t.reversed)
<1>1. t.reversed \in BOOLEAN /\ (~t.reversed) \in BOOLEAN
  BY FlagsRight
<1>2. ReadFrom(fs, p) /\ ReadFrom(fs, f) /\ f.reversed = t.reversed
  BY <1>1, StartRight
<1>3. ReadFrom(fs, r) /\ r.reversed = t.reversed
  <2> HIDE DEF p
  <2> QED  BY <1>1, <1>2, ReversedRight
<1>4. Last(fs, t) = Moved(r) /\ First(fs, t) = Moved(f)
  BY DEF Last, First, Reversed
<1> HIDE DEF r, f
<1>5. /\ ReadFrom(fs, Moved(r)) /\ Moved(r).reversed = r.reversed /\ Moved(r).moved = TRUE
      /\ ReadFrom(fs, Moved(f)) /\ Moved(f).reversed = f.reversed /\ Moved(f).moved = TRUE
  BY <1>2, <1>3, FlagsRight
<1> QED  BY <1>2, <1>3, <1>4, <1>5

LEMMA RerootRight ==
  ASSUME NEW fs \in SUBSET Files
  PROVE  ReadFrom(fs, Reroot(fs)) /\ Reroot(fs).reversed = FALSE /\ Reroot(fs).moved = TRUE
<1> DEFINE p == Start(fs, FALSE)
<1>1. ReadFrom(fs, p) /\ p.reversed = FALSE
  BY StartRight
<1> HIDE DEF p
<1>2. ReadFrom(fs, Moved(p)) /\ Moved(p).reversed = p.reversed /\ Moved(p).moved = TRUE
  BY <1>1, FlagsRight
<1> QED  BY <1>1, <1>2 DEF p, Reroot

-----------------------------------------------------------------------------
(* The ribbon *)

RibbonRecord == [base : Roots \union {0}, root : Roots \union {0}, day : Days \union {0},
                 known : SUBSET (Roots \X Slots), mark : Slots \union {0},
                 was : SUBSET Slots]

RibbonFiles(r) ==
  /\ \A k \in r.known : k[2] \in NamesIn(FilesOf(k[1]), r.day)
  /\ r.mark # 0 => \E root \in Roots : <<root, r.mark>> \in r.known
  /\ "root" \notin option.sent => /\ r.root = r.base /\ r.base \in {0, MainRoot}
                                 /\ \A k \in r.known : k[1] = MainRoot

(* What the scan has yet to find is ahead of it.                           *)
Ahead(r, t) ==
  \A i \in r.was :
    \/ <<r.base, i>> \in r.known
    \/ t.at # End /\ t.at[1] = r.day /\ i \in t.names /\ i >= t.at[2]

ScanRight(r, t, scanning) ==
  /\ ReadFrom(FilesOf(r.base), t) /\ t.reversed = FALSE
  /\ scanning = TRUE => Ahead(r, t) /\ r.base \in Roots
  /\ scanning = FALSE => (r.root = r.base => {r.base} \X r.was \subseteq r.known)

RibbonKept ==
  /\ ribbon \in RibbonRecord /\ RibbonFiles(ribbon) /\ ScanRight(ribbon, scan, busy)
  /\ busy \in BOOLEAN /\ ribbonTimer \in BOOLEAN /\ (busy = TRUE => ribbonTimer = TRUE)

(* A slice of the scan passes one file. *)
LEMMA SliceRight ==
  ASSUME NEW fs \in SUBSET Files, NEW t, ReadFrom(fs, t), t.reversed = FALSE, t.at # End,
         NEW i \in t.names, i >= t.at[2], i # t.at[2]
  PROVE  /\ Following(fs, t).at # End /\ Following(fs, t).at[1] = t.at[1]
         /\ i \in Following(fs, t).names /\ i >= Following(fs, t).at[2]
<1> DEFINE names == Beyond(t.names, t.at[2], FALSE)
           name  == Foremost(names, FALSE)
           u     == Following(fs, t)
<1>1. t \in Iterators /\ t.at \in fs /\ t.at \in Days \X Slots
      /\ t.names \subseteq NamesIn(fs, t.at[1])
  BY DEF ReadFrom, Files
<1>2. CASE t.moved = TRUE
  <2>1. u = [t EXCEPT !.moved = FALSE]
    BY <1>2 DEF Following
  <2>2. u.at = t.at /\ u.names = t.names
    BY <1>1, <2>1 DEF Iterators
  <2> HIDE DEF u
  <2>3. u.at # End /\ u.at[1] = t.at[1] /\ i \in u.names /\ i >= u.at[2]
    BY <2>2
  <2> QED  BY <2>3 DEF u
<1>3. CASE t.moved = FALSE
  <2>1. i \in Nat /\ t.at[2] \in Nat /\ t.names \subseteq Slots /\ t.names \subseteq Nat
    BY <1>1, FileTreeAssumption DEF Iterators
  <2>2. names = {y \in t.names : y > t.at[2]} /\ i \in names
    <3>1. names = {y \in t.names : y > t.at[2]}
      BY DEF Beyond
    <3>2. i > t.at[2]
      BY <2>1
    <3> HIDE DEF names
    <3> QED  BY <3>1, <3>2
  <2>3. name \in t.names /\ i >= name
    <3>1. names \subseteq Slots /\ names # {}
      BY <2>1, <2>2
    <3> HIDE DEF names
    <3>2. name \in names /\ \A n \in names : n >= name
      BY <3>1, ForemostIn
    <3> HIDE DEF name
    <3> QED  BY <2>2, <3>2
  <2> DEFINE v == [t EXCEPT !.at[2] = name]
  <2>4. Advance(fs, t) = v
    BY <2>2 DEF Advance
  <2>5. u = [v EXCEPT !.moved = FALSE]
    <3> HIDE DEF v
    <3> QED  BY <1>3, <2>4 DEF Following
  <2> HIDE DEF name, names
  <2>6. u.at = <<t.at[1], name>> /\ u.names = t.names
    <3>1. v = [t EXCEPT !.at = <<t.at[1], name>>]
      BY <1>1 DEF Iterators
    <3> HIDE DEF v, u
    <3>2. v.at = <<t.at[1], name>> /\ v.names = t.names
          /\ v = [moved |-> t.moved, reversed |-> t.reversed, days |-> t.days,
                  names |-> t.names, at |-> <<t.at[1], name>>]
      BY <1>1, <3>1 DEF Iterators
    <3> QED  BY <2>5, <3>2
  <2>7. <<t.at[1], name>> \in fs
    <3>1. name \in NamesIn(fs, t.at[1])
      BY <1>1, <2>3
    <3> QED  BY <3>1, NamesFacts
  <2>8. <<t.at[1], name>> # End
    BY <2>7, NamesFacts
  <2> HIDE DEF u
  <2>9. u.at # End /\ u.at[1] = t.at[1] /\ i \in u.names /\ i >= u.at[2]
    BY <2>3, <2>6, <2>8
  <2> QED  BY <2>9 DEF u
<1>4. t.moved \in BOOLEAN
  BY FlagsRight
<1> QED  BY <1>2, <1>3, <1>4

LEMMA FilesOfRight ==
  ASSUME files \in SUBSET Files, NEW root \in Roots
  PROVE  FilesOf(root) \in SUBSET Files
BY PlayerAssumption DEF FilesOf

LEMMA ScannedRight ==
  ASSUME files \in SUBSET Files, NEW r \in RibbonRecord, RibbonFiles(r),
         NEW t, ScanRight(r, t, TRUE), NEW s \in Scanned(r, t)
  PROVE  /\ s[1] \in RibbonRecord /\ RibbonFiles(s[1]) /\ s[1].day = r.day
         /\ s[3] \in BOOLEAN /\ ScanRight(s[1], s[2], s[3])
<1> DEFINE fs   == FilesOf(r.base)
           rest == {i \in t.names : i >= t.at[2]}
           more == {r.base} \X rest
           all  == [r EXCEPT !.known = @ \union more]
           one  == [r EXCEPT !.known = @ \union {<<r.base, t.at[2]>>}]
           next == Following(fs, t)
           none == AtEnd(FALSE)
<1>1. ReadFrom(fs, t) /\ t.reversed = FALSE /\ Ahead(r, t) /\ r.base \in Roots
  BY DEF ScanRight
<1>2. ReadFrom(fs, none) /\ none.reversed = FALSE /\ fs \in SUBSET Files
  BY <1>1, AtEndRight, FilesOfRight
<1>3. CASE ~(t.at # End /\ t.at[1] = r.day)
  <2>1. s = <<r, none, FALSE>>
    BY <1>3 DEF Scanned
  <2>2. {r.base} \X r.was \subseteq r.known
    BY <1>1, <1>3 DEF Ahead
  <2>3. s[1] = r /\ s[2] = none /\ s[3] = FALSE
    BY <2>1
  <2> HIDE DEF none
  <2> QED  BY <1>2, <2>2, <2>3 DEF ScanRight
<1>4. CASE t.at # End /\ t.at[1] = r.day
  <2>1. t \in Iterators /\ t.at \in fs /\ t.names \subseteq NamesIn(fs, r.day)
        /\ t.names \subseteq Slots /\ t.at[2] \in Slots /\ t.at[2] \in NamesIn(fs, r.day)
    <3>1. t \in Iterators /\ t.at \in fs /\ t.names \subseteq NamesIn(fs, t.at[1])
      BY <1>1, <1>4 DEF ReadFrom
    <3>2. t.at[2] \in NamesIn(fs, t.at[1]) /\ NamesIn(fs, t.at[1]) \subseteq Slots
      BY <1>2, <3>1, NamesFacts
    <3> QED  BY <1>4, <3>1, <3>2
  <2>2. s = <<all, none, FALSE>> \/ s = <<one, next, TRUE>>
    BY <1>4 DEF Scanned
  <2>3. r.known \subseteq Roots \X Slots /\ rest \subseteq t.names
    BY DEF RibbonRecord
  <2>4. more \subseteq Roots \X Slots /\ <<r.base, t.at[2]>> \in Roots \X Slots
    <3> HIDE DEF rest
    <3> QED  BY <1>1, <2>1, <2>3
  <2>5. /\ all \in RibbonRecord /\ all.day = r.day /\ all.was = r.was /\ all.base = r.base
        /\ all.root = r.root /\ all.known = r.known \union more /\ all.mark = r.mark
    <3> HIDE DEF more
    <3> QED  BY <2>3, <2>4 DEF RibbonRecord
  <2>6. /\ one \in RibbonRecord /\ one.day = r.day /\ one.was = r.was /\ one.base = r.base
        /\ one.root = r.root /\ one.known = r.known \union {<<r.base, t.at[2]>>}
        /\ one.mark = r.mark
    BY <2>3, <2>4 DEF RibbonRecord
  <2>7. {r.base} \X r.was \subseteq all.known
    <3> SUFFICES ASSUME NEW i \in r.was, <<r.base, i>> \notin r.known PROVE <<r.base, i>> \in more
      BY <2>5
    <3> QED  BY <1>1 DEF Ahead
  <2>8. ASSUME NEW i \in one.was, <<one.base, i>> \notin one.known
        PROVE  next.at # End /\ next.at[1] = one.day /\ i \in next.names /\ i >= next.at[2]
    <3>1. i \in t.names /\ i >= t.at[2] /\ i # t.at[2]
      BY <1>1, <2>6, <2>8 DEF Ahead
    <3> HIDE DEF fs
    <3> QED  BY <1>1, <1>2, <1>4, <2>6, <3>1, SliceRight
  <2>9. ReadFrom(fs, next) /\ next.reversed = FALSE
    <3> HIDE DEF fs
    <3> QED  BY <1>1, <1>2, FollowingRight
  <2>10. RibbonFiles(all) /\ RibbonFiles(one)
    <3>1. \A k \in more \union {<<r.base, t.at[2]>>} :
             k[1] = r.base /\ k[2] \in NamesIn(FilesOf(k[1]), r.day) /\ r.base # 0
      BY <1>1, <2>1, PlayerAssumption
    <3> HIDE DEF more, all, one
    <3> QED  BY <2>5, <2>6, <3>1 DEF RibbonFiles
  <2> HIDE DEF rest, more, all, one, next, none
  <2>11. ScanRight(all, none, FALSE)
    BY <1>2, <2>5, <2>7 DEF ScanRight
  <2>12. Ahead(one, next)
    BY <2>8 DEF Ahead
  <2>13. ScanRight(one, next, TRUE)
    BY <1>1, <2>6, <2>9, <2>12 DEF ScanRight
  <2>14. CASE s = <<all, none, FALSE>>
    <3>1. s[1] = all /\ s[2] = none /\ s[3] = FALSE
      BY <2>14
    <3> QED  BY <2>5, <2>10, <2>11, <3>1
  <2>15. CASE s = <<one, next, TRUE>>
    <3>1. s[1] = one /\ s[2] = next /\ s[3] = TRUE
      BY <2>15
    <3> QED  BY <2>6, <2>10, <2>13, <3>1
  <2> QED  BY <2>2, <2>14, <2>15
<1> QED  BY <1>3, <1>4

(* Where the scanner starts, for a file of the day. *)
AtDay(fs, day) == Reposition(fs, AtEnd(FALSE), <<day, 0>>)

LEMMA AtDayRight ==
  ASSUME NEW fs \in SUBSET Files, NEW f \in fs
  PROVE  /\ ReadFrom(fs, AtDay(fs, f[1])) /\ AtDay(fs, f[1]).reversed = FALSE
         /\ AtDay(fs, f[1]).at # End /\ AtDay(fs, f[1]).at[1] = f[1]
         /\ AtDay(fs, f[1]).names = NamesIn(fs, f[1])
         /\ \A i \in AtDay(fs, f[1]).names : i >= AtDay(fs, f[1]).at[2]
<1> DEFINE t    == AtDay(fs, f[1])
           p    == Seek(fs, <<f[1], 0>>, FALSE)
           none == AtEnd(FALSE)
           q    == Seek(fs, <<f[1], 0>>, none.reversed)
           path == <<f[1], 0>>
<1>1. PICK first \in NamesIn(fs, f[1]) :
        /\ \A i \in NamesIn(fs, f[1]) : i >= first
        /\ p = [moved |-> FALSE, reversed |-> FALSE, days |-> DaysIn(fs),
                names |-> NamesIn(fs, f[1]), at |-> <<f[1], first>>]
  BY SeekDay
<1>2. <<f[1], first>> # End
  BY NamesFacts
<1>3. ReadFrom(fs, none) /\ none.reversed = FALSE
  BY AtEndRight
<1>4. ReadFrom(fs, t) /\ t.reversed = FALSE
  <2> HIDE DEF none, path
  <2>1. ReadFrom(fs, Reposition(fs, none, path))
        /\ Reposition(fs, none, path).reversed = none.reversed
    BY <1>3, RepositionRight
  <2> QED  BY <1>3, <2>1 DEF none, path, AtDay
<1>5. t = Moved(p)
  <2>1. q = p
    BY <1>3
  <2>2. t = IF q.at = End THEN none ELSE Moved(q)
    BY DEF Reposition, AtDay
  <2> HIDE DEF p, q, none, t
  <2>3. p.at = <<f[1], first>>
    BY <1>1
  <2> QED  BY <1>2, <2>1, <2>2, <2>3
<1>6. t = [moved |-> TRUE, reversed |-> FALSE, days |-> DaysIn(fs),
           names |-> NamesIn(fs, f[1]), at |-> <<f[1], first>>]
  <2> HIDE DEF p, t
  <2> QED  BY <1>1, <1>5 DEF Moved
<1>7. t.at = <<f[1], first>> /\ t.names = NamesIn(fs, f[1]) /\ t.at[1] = f[1] /\ t.at[2] = first
  <2> HIDE DEF t
  <2> QED  BY <1>6
<1>8. /\ ReadFrom(fs, t) /\ t.reversed = FALSE /\ t.at # End /\ t.at[1] = f[1]
      /\ t.names = NamesIn(fs, f[1]) /\ \A i \in t.names : i >= t.at[2]
  <2> HIDE DEF t
  <2> QED  BY <1>1, <1>2, <1>4, <1>7
<1> QED  BY <1>8 DEF t

LEMMA RescannedRight ==
  ASSUME files \in SUBSET Files, m_root \in Roots, NEW f \in FilesOf(m_root),
         NEW base \in Roots, "root" \notin option.sent => base = MainRoot /\ m_root = MainRoot,
         NEW s \in Rescanned(base, f[1])
  PROVE  /\ s[1] \in RibbonRecord /\ RibbonFiles(s[1]) /\ s[1].day = f[1]
         /\ s[3] \in BOOLEAN /\ ScanRight(s[1], s[2], s[3])
<1> DEFINE fs  == FilesOf(base)
           new == [base |-> base, root |-> m_root, day |-> f[1], known |-> {}, mark |-> 0,
                   was |-> NamesIn(fs, f[1])]
           none == AtEnd(FALSE)
           t   == AtDay(fs, f[1])
<1>1. fs \in SUBSET Files /\ FilesOf(m_root) \in SUBSET Files
  BY FilesOfRight
<1>2. /\ new \in RibbonRecord /\ RibbonFiles(new) /\ new.day = f[1] /\ new.base = base
      /\ new.root = m_root /\ new.was = NamesIn(fs, f[1]) /\ new.known = {}
  <2>1. f[1] \in Days
    BY <1>1, NamesFacts
  <2>2. NamesIn(fs, f[1]) \subseteq Slots
    BY <1>1, NamesFacts
  <2> HIDE DEF fs
  <2> QED  BY <2>1, <2>2 DEF RibbonRecord, RibbonFiles
<1>3. CASE base # m_root
  <2>1. s = <<new, none, FALSE>>
    BY <1>3 DEF Rescanned
  <2>2. ReadFrom(fs, none) /\ none.reversed = FALSE
    BY AtEndRight
  <2> HIDE DEF none, new
  <2>3. ScanRight(new, none, FALSE)
    BY <1>2, <1>3, <2>2 DEF ScanRight
  <2>4. s[1] = new /\ s[2] = none /\ s[3] = FALSE
    BY <2>1
  <2> QED  BY <1>2, <2>3, <2>4
<1>4. CASE base = m_root
  <2>1. s \in Scanned(new, t)
    BY <1>4 DEF Rescanned, AtDay
  <2>2. f \in fs
    BY <1>4
  <2>3. /\ ReadFrom(fs, t) /\ t.reversed = FALSE /\ t.at # End /\ t.at[1] = f[1]
        /\ t.names = NamesIn(fs, f[1]) /\ \A i \in t.names : i >= t.at[2]
    <3> HIDE DEF fs
    <3> QED  BY <1>1, <2>2, AtDayRight
  <2> HIDE DEF t, new
  <2>4. Ahead(new, t)
    BY <1>2, <2>3 DEF Ahead
  <2>5. ScanRight(new, t, TRUE)
    BY <1>2, <2>3, <2>4 DEF ScanRight
  <2> QED  BY <1>2, <2>1, <2>5, ScannedRight
<1> QED  BY <1>3, <1>4

(* What a file does that is shown, and what a slice does.                  *)
LEMMA MarkedRight ==
  ASSUME files \in SUBSET Files, m_root \in Roots, "root" \notin option.sent => m_root = MainRoot,
         NEW r \in RibbonRecord, RibbonFiles(r),
         NEW t, NEW scanning \in BOOLEAN, ScanRight(r, t, scanning),
         NEW f \in FilesOf(m_root), r.day = f[1]
  PROVE  /\ Marked(r, f[2]) \in RibbonRecord /\ RibbonFiles(Marked(r, f[2]))
         /\ ScanRight(Marked(r, f[2]), t, scanning)
<1> DEFINE q == Marked(r, f[2])
           k == <<m_root, f[2]>>
<1>1. f[2] \in NamesIn(FilesOf(m_root), f[1]) /\ f[2] \in Slots
  BY FilesOfRight, NamesFacts
<1>2. k \in Roots \X Slots /\ k[1] = m_root /\ k[2] = f[2]
  BY <1>1
<1>3. /\ q \in RibbonRecord /\ q.day = r.day /\ q.was = r.was /\ q.base = r.base /\ q.root = r.root
      /\ q.known = r.known \union {k} /\ q.mark = f[2]
  <2>1. q = [r EXCEPT !.known = @ \union {k}, !.mark = f[2]]
    BY DEF Marked
  <2> HIDE DEF k, q
  <2> QED  BY <1>1, <1>2, <2>1 DEF RibbonRecord
<1> HIDE DEF q
<1>4. RibbonFiles(q)
  <2>1. \A l \in q.known : l[2] \in NamesIn(FilesOf(l[1]), q.day)
    <3> HIDE DEF k
    <3> QED  BY <1>1, <1>2, <1>3 DEF RibbonFiles
  <2>2. <<m_root, q.mark>> \in q.known
    BY <1>3
  <2> HIDE DEF k
  <2> QED  BY <1>2, <1>3, <2>1, <2>2 DEF RibbonFiles
<1>5. ScanRight(q, t, scanning)
  <2> HIDE DEF k
  <2> QED  BY <1>3 DEF ScanRight, Ahead
<1> QED  BY <1>3, <1>4, <1>5 DEF q

(* A ribbon that is right stays so while the files do. *)
LEMMA RibbonNow ==
  ASSUME files' = files, option' = option, ribbon' \in RibbonRecord, RibbonFiles(ribbon'),
         ScanRight(ribbon', scan', busy'), busy' \in BOOLEAN, ribbonTimer' \in BOOLEAN,
         busy' = TRUE => ribbonTimer' = TRUE
  PROVE  RibbonKept'
BY DEF RibbonKept, RibbonFiles, ScanRight, Ahead, ReadFrom, FilesOf

LEMMA SeenRight ==
  ASSUME files \in SUBSET Files, m_root \in Roots, "root" \notin option.sent => m_root = MainRoot,
         RibbonKept, NEW f \in FilesOf(m_root), SeenByRibbon(f), files' = files, option' = option
  PROVE  RibbonKept'
<1>0. ribbon \in RibbonRecord /\ RibbonFiles(ribbon) /\ ScanRight(ribbon, scan, busy)
      /\ busy \in BOOLEAN /\ ribbonTimer \in BOOLEAN /\ (busy = TRUE => ribbonTimer = TRUE)
  BY DEF RibbonKept
<1>1. CASE ~option.ribbon
  <2>1. ribbon' = ribbon /\ scan' = scan /\ busy' = busy /\ ribbonTimer' = ribbonTimer
    BY <1>1 DEF SeenByRibbon, ribbonVars
  <2> QED  BY <1>0, <2>1, RibbonNow
<1>2. CASE option.ribbon
  <2>1. PICK s \in AppliedTo(f) :
          /\ ribbon' = s[1] /\ scan' = s[2] /\ busy' = s[3]
          /\ ribbonTimer' = (ribbonTimer \/ busy')
    BY <1>2 DEF SeenByRibbon
  <2>2. /\ s[1] \in RibbonRecord /\ RibbonFiles(s[1]) /\ s[3] \in BOOLEAN
        /\ ScanRight(s[1], s[2], s[3])
    <3>1. CASE ribbon.base = 0
      <4>1. PICK u \in Rescanned(m_root, f[1]) : s = <<Marked(u[1], f[2]), u[2], u[3]>>
        BY <3>1 DEF AppliedTo
      <4>2. /\ u[1] \in RibbonRecord /\ RibbonFiles(u[1]) /\ u[1].day = f[1]
            /\ u[3] \in BOOLEAN /\ ScanRight(u[1], u[2], u[3])
        BY RescannedRight
      <4> DEFINE q == Marked(u[1], f[2])
      <4>3. q \in RibbonRecord /\ RibbonFiles(q) /\ ScanRight(q, u[2], u[3])
        BY <4>2, MarkedRight
      <4>4. s[1] = q /\ s[2] = u[2] /\ s[3] = u[3]
        BY <4>1
      <4> HIDE DEF q
      <4> QED  BY <4>2, <4>3, <4>4
    <3>2. CASE ribbon.base # 0 /\ ~Timestamped(m_root)
      <4>1. s = <<ribbon, scan, busy>>
        BY <3>2 DEF AppliedTo
      <4>2. s[1] = ribbon /\ s[2] = scan /\ s[3] = busy
        BY <4>1
      <4> QED  BY <1>0, <4>2
    <3>3. CASE ribbon.base # 0 /\ Timestamped(m_root) /\ f[1] = ribbon.day
      <4> DEFINE q == Marked(ribbon, f[2])
      <4>1. s = <<q, scan, busy>>
        BY <3>3 DEF AppliedTo
      <4>2. q \in RibbonRecord /\ RibbonFiles(q) /\ ScanRight(q, scan, busy)
        BY <1>0, <3>3, MarkedRight
      <4> HIDE DEF q
      <4>3. s[1] = q /\ s[2] = scan /\ s[3] = busy
        BY <4>1
      <4> QED  BY <1>0, <4>2, <4>3
    <3>4. CASE ribbon.base # 0 /\ Timestamped(m_root) /\ f[1] # ribbon.day
      <4>1. s \in Rescanned(ribbon.base, f[1])
        BY <3>4 DEF AppliedTo
      <4>2. ribbon.base \in Roots
        BY <1>0, <3>4 DEF RibbonRecord
      <4>3. "root" \notin option.sent => ribbon.base = MainRoot
        BY <1>0, <3>4 DEF RibbonFiles
      <4> QED  BY <4>1, <4>2, <4>3, RescannedRight
    <3> QED  BY <3>1, <3>2, <3>3, <3>4
  <2>3. ribbonTimer' \in BOOLEAN /\ (busy' = TRUE => ribbonTimer' = TRUE) /\ busy' \in BOOLEAN
    BY <1>0, <2>1, <2>2
  <2>4. ribbon' \in RibbonRecord /\ RibbonFiles(ribbon') /\ ScanRight(ribbon', scan', busy')
    BY <2>1, <2>2
  <2> QED  BY <2>3, <2>4, RibbonNow
<1> QED  BY <1>1, <1>2

LEMMA ScanGoesOn ==
  ASSUME files \in SUBSET Files, RibbonKept, RibbonTimeout
  PROVE  RibbonKept'
<1>0. ribbon \in RibbonRecord /\ RibbonFiles(ribbon) /\ ScanRight(ribbon, scan, busy)
      /\ busy \in BOOLEAN /\ ribbonTimer \in BOOLEAN /\ files' = files /\ option' = option
  BY DEF RibbonKept, RibbonTimeout
<1>1. PICK s \in IF busy THEN Scanned(ribbon, scan) ELSE {<<ribbon, scan, FALSE>>} :
        ribbon' = s[1] /\ scan' = s[2] /\ busy' = s[3] /\ ribbonTimer' = s[3]
  BY DEF RibbonTimeout
<1>2. /\ s[1] \in RibbonRecord /\ RibbonFiles(s[1]) /\ s[3] \in BOOLEAN
      /\ ScanRight(s[1], s[2], s[3])
  <2>1. CASE busy
    <3>1. s \in Scanned(ribbon, scan) /\ ScanRight(ribbon, scan, TRUE)
      BY <1>0, <1>1, <2>1
    <3> QED  BY <1>0, <3>1, ScannedRight
  <2>2. CASE ~busy
    <3>1. s = <<ribbon, scan, FALSE>>
      BY <1>1, <2>2
    <3>2. s[1] = ribbon /\ s[2] = scan /\ s[3] = FALSE
      BY <3>1
    <3>3. ScanRight(ribbon, scan, FALSE)
      BY <1>0, <2>2 DEF ScanRight
    <3> QED  BY <1>0, <3>2, <3>3
  <2> QED  BY <2>1, <2>2
<1>3. ribbon' \in RibbonRecord /\ RibbonFiles(ribbon') /\ ScanRight(ribbon', scan', busy')
  BY <1>1, <1>2
<1> QED  BY <1>0, <1>1, <1>2, <1>3, RibbonNow

(* A file that the recorder adds. *)
LEMMA ReadGrows ==
  ASSUME NEW fs, NEW gs, fs \subseteq gs, NEW t, ReadFrom(fs, t)
  PROVE  ReadFrom(gs, t)
<1>1. DaysIn(fs) \subseteq DaysIn(gs) /\ \A d : NamesIn(fs, d) \subseteq NamesIn(gs, d)
  BY NamesGrow
<1>2. NamesIn(fs, t.at[1]) \subseteq NamesIn(gs, t.at[1])
  BY <1>1
<1> QED  BY <1>1, <1>2 DEF ReadFrom

LEMMA RibbonGrows ==
  ASSUME RibbonKept, UNCHANGED ribbonVars, option' = option, files \subseteq files'
  PROVE  RibbonKept'
<1>1. ribbon' = ribbon /\ scan' = scan /\ busy' = busy /\ ribbonTimer' = ribbonTimer
  BY DEF ribbonVars
<1>2. ReadFrom(FilesOf(ribbon.base), scan)
  BY DEF RibbonKept, ScanRight
<1>4. FilesOf(ribbon.base) \subseteq FilesOf(ribbon.base)'
  BY <1>1 DEF FilesOf
<1>5. ReadFrom(FilesOf(ribbon.base)', scan)
  BY <1>2, <1>4, ReadGrows
<1>6. ReadFrom(FilesOf(ribbon.base), scan)'
  BY <1>1, <1>5 DEF ReadFrom
<1>7. RibbonFiles(ribbon)'
  <2>1. \A k \in ribbon.known : k[2] \in NamesIn(FilesOf(k[1])', ribbon.day)
    <3> SUFFICES ASSUME NEW k \in ribbon.known PROVE k[2] \in NamesIn(FilesOf(k[1])', ribbon.day)
      OBVIOUS
    <3>1. k[2] \in NamesIn(FilesOf(k[1]), ribbon.day)
      BY DEF RibbonKept, RibbonFiles
    <3>2. FilesOf(k[1]) \subseteq FilesOf(k[1])'
      BY DEF FilesOf
    <3>3. NamesIn(FilesOf(k[1]), ribbon.day) \subseteq NamesIn(FilesOf(k[1])', ribbon.day)
      BY <3>2, NamesGrow
    <3> QED  BY <3>1, <3>3
  <2>2. \A k \in ribbon'.known : k[2] \in NamesIn(FilesOf(k[1])', ribbon'.day)
    BY <1>1, <2>1
  <2> QED  BY <1>1, <2>2 DEF RibbonKept, RibbonFiles
<1> QED  BY <1>1, <1>6, <1>7 DEF RibbonKept, ScanRight, Ahead

-----------------------------------------------------------------------------
(* Skipping *)

SkipRecord == [reverse : BOOLEAN, skip : Nat, skipped : Nat]

LEMMA SkipRight ==
  ASSUME NEW s \in SkipRecord
  PROVE  /\ SkipOne(s) \in SkipRecord /\ SkipOne(s).reverse = s.reverse
         /\ NoSkip(s) \in SkipRecord /\ NoSkip(s).reverse = s.reverse
         /\ ~IsSkipped(NoSkip(s))
         /\ [s EXCEPT !.skipped = 0] \in SkipRecord
         /\ [s EXCEPT !.skipped = 0].reverse = s.reverse
<1>1. NoSkip(s) \in SkipRecord /\ NoSkip(s).reverse = s.reverse /\ ~IsSkipped(NoSkip(s))
  BY DEF SkipRecord, NoSkip, IsSkipped
<1>2. [s EXCEPT !.skipped = 0] \in SkipRecord /\ [s EXCEPT !.skipped = 0].reverse = s.reverse
  BY DEF SkipRecord
<1>3. SkipOne(s) \in SkipRecord /\ SkipOne(s).reverse = s.reverse
  BY DEF SkipRecord, SkipOne
<1> QED  BY <1>1, <1>2, <1>3

LEMMA WithSkipRight ==
  ASSUME NEW s \in SkipRecord, NEW n \in Nat
  PROVE  /\ WithSkip(s, n) \in SkipRecord /\ WithSkip(s, n).reverse = s.reverse
         /\ ~IsSkipped(WithSkip(s, n))
<1> DEFINE k == IF s.skipped > n THEN s.skipped ELSE n
           w == WithSkip(s, n)
<1>1. k \in Nat /\ k >= n
  BY DEF SkipRecord
<1>2. w = [s EXCEPT !.skip = n, !.skipped = k]
  BY DEF WithSkip
<1> HIDE DEF k, w
<1>3. w \in SkipRecord /\ w.reverse = s.reverse /\ w.skip = n /\ w.skipped = k
  BY <1>1, <1>2 DEF SkipRecord
<1>4. ~IsSkipped(w)
  BY <1>1, <1>3 DEF IsSkipped
<1> QED  BY <1>3, <1>4 DEF w

-----------------------------------------------------------------------------
(* The invariant *)

TypesKept ==
  /\ option \in Options /\ running \in BOOLEAN /\ files \in SUBSET Files /\ m_root \in Roots
  /\ m_stopped \in BOOLEAN /\ m_skip \in SkipRecord /\ m_file_count \in BOOLEAN
  /\ shown \in Files \union {End} /\ told \in BOOLEAN /\ commands \in 0 .. MaxCommands

(* A tree that is made anew goes forwards.                                 *)
WayKept ==
  /\ m_tree.reversed = TRUE => m_skip.reverse = TRUE
  /\ "root" \notin option.sent => m_tree.reversed = m_skip.reverse /\ m_root = MainRoot

(* What it was told to move to is next, or it has been shown already.      *)
ToldKept ==
  told = TRUE => /\ m_tree.moved = TRUE
                 /\ \/ m_tree.at \in Bad \union {End} \/ ~IsSkipped(m_skip) \/ shown = m_tree.at

PlayerKept ==
  TypesKept /\ ReadFrom(FilesOf(m_root), m_tree) /\ WayKept /\ ToldKept /\ RibbonKept

LEMMA OptionsTyped ==
  ASSUME NEW o \in Options
  PROVE  /\ o.loop \in BOOLEAN /\ o.stays \in BOOLEAN /\ o.ribbon \in BOOLEAN
         /\ o.skip \in Nat /\ o.reverse \in BOOLEAN
BY PlayerAssumption

LEMMA InitKept == Init => PlayerKept
<1> SUFFICES ASSUME Init PROVE PlayerKept
  OBVIOUS
<1> DEFINE p == Start(files, option.reverse)
<1>0. option \in Options /\ option.reverse \in BOOLEAN /\ option.skip \in Nat
      /\ files \in SUBSET Files /\ m_root = MainRoot /\ FilesOf(m_root) = files
  BY OptionsTyped, PlayerAssumption DEF Init, FilesOf
<1>1. ReadFrom(files, p) /\ p.reversed = option.reverse
  BY <1>0, StartRight
<1>2. m_tree = Moved(p) /\ m_skip = [reverse |-> option.reverse, skip |-> option.skip, skipped |-> 0]
      /\ told = FALSE
  BY DEF Init
<1> HIDE DEF p
<1>3. ReadFrom(files, m_tree) /\ m_tree.reversed = option.reverse
  BY <1>1, <1>2, FlagsRight
<1>4. m_skip \in SkipRecord /\ m_skip.reverse = option.reverse
  BY <1>0, <1>2 DEF SkipRecord
<1>5. TypesKept
  <2>1. /\ running = TRUE /\ m_stopped \in BOOLEAN /\ m_file_count = FALSE /\ shown = End
        /\ told = FALSE /\ commands = 0
    BY DEF Init
  <2>2. MaxCommands \in Nat /\ MainRoot \in Roots
    BY PlayerAssumption
  <2>3. commands \in 0 .. MaxCommands
    BY <2>1, <2>2
  <2>4. running \in BOOLEAN /\ m_file_count \in BOOLEAN /\ told \in BOOLEAN
    BY <2>1
  <2>5. m_root \in Roots /\ shown \in Files \union {End}
    BY <1>0, <2>1, <2>2
  <2> QED  BY <1>0, <1>4, <2>1, <2>3, <2>4, <2>5 DEF TypesKept
<1>6. WayKept /\ ToldKept
  BY <1>0, <1>2, <1>3, <1>4, OptionsTyped DEF WayKept, ToldKept
<1>7. RibbonKept
  <2> DEFINE none == AtEnd(FALSE)
  <2>1. ReadFrom(FilesOf(0), none) /\ none.reversed = FALSE
    BY AtEndRight
  <2>2. scan = none /\ ribbon = NoRibbon /\ busy = FALSE /\ ribbonTimer = FALSE
    BY DEF Init
  <2> HIDE DEF none
  <2>3. ribbon \in RibbonRecord /\ RibbonFiles(ribbon) /\ ribbon.was = {}
        /\ ribbon.base = 0 /\ ribbon.root = 0 /\ ribbon.known = {}
    BY <2>2 DEF NoRibbon, RibbonRecord, RibbonFiles
  <2> QED  BY <2>1, <2>2, <2>3 DEF RibbonKept, ScanRight
<1> QED  BY <1>0, <1>3, <1>5, <1>6, <1>7 DEF PlayerKept

-----------------------------------------------------------------------------
(* Playing *)

LEMMA ProcessRight ==
  ASSUME TypesKept, WayKept, RibbonKept, files' = files, option' = option, NEW s \in SkipRecord,
         NEW path \in FilesOf(m_root) \union {End}, Process(path, s)
  PROVE  /\ m_skip' \in SkipRecord /\ m_skip'.reverse = s.reverse
         /\ shown' \in Files \union {End} /\ RibbonKept'
         /\ \/ shown' = path
            \/ shown' = shown /\ (IsSkipped(s) \/ path \in Bad \union {End})
<1>1. m_skip' \in SkipRecord /\ m_skip'.reverse = s.reverse
  BY SkipRight DEF Process
<1>2. CASE ~Shows(path, s)
  <2>1. UNCHANGED <<shown, ribbonVars>>
    BY <1>2 DEF Process
  <2>2. RibbonKept'
    BY <2>1, RibbonGrows
  <2> QED  BY <1>1, <1>2, <2>1, <2>2 DEF TypesKept, Shows
<1>3. CASE Shows(path, s)
  <2>1. shown' = path /\ SeenByRibbon(path) /\ path # End
    BY <1>3 DEF Process, Shows
  <2>2. path \in FilesOf(m_root) /\ files \in SUBSET Files /\ m_root \in Roots
        /\ ("root" \notin option.sent => m_root = MainRoot)
    BY <2>1 DEF TypesKept, WayKept
  <2>3. RibbonKept'
    BY <2>1, <2>2, SeenRight
  <2>4. path \in Files
    BY <2>2, FilesOfRight
  <2> QED  BY <1>1, <2>1, <2>3, <2>4
<1> QED  BY <1>2, <1>3

(* Where the iterator is, there is a file. *)
LEMMA AtFile ==
  ASSUME NEW t, ReadFrom(FilesOf(m_root), t)
  PROVE  t.at \in FilesOf(m_root) \union {End}
BY DEF ReadFrom

LEMMA StoppedKept ==
  ASSUME PlayerKept, FileTimeoutStopped
  PROVE  PlayerKept'
<1>1. TypesKept /\ ReadFrom(FilesOf(m_root), m_tree) /\ WayKept /\ ToldKept /\ RibbonKept
  BY DEF PlayerKept
<1>2. UNCHANGED <<option, running, files, m_root, m_tree, m_stopped, m_file_count, told, commands>>
  BY DEF FileTimeoutStopped
<1>3. CASE m_tree.moved = TRUE
  <2>1. Process(m_tree.at, m_skip) /\ m_skip \in SkipRecord
    BY <1>1, <1>3 DEF FileTimeoutStopped, TypesKept
  <2> DEFINE at == m_tree.at
  <2>2. at \in FilesOf(m_root) \union {End}
    BY <1>1, AtFile
  <2>3. /\ m_skip' \in SkipRecord /\ m_skip'.reverse = m_skip.reverse
        /\ shown' \in Files \union {End} /\ RibbonKept'
        /\ \/ shown' = at
           \/ shown' = shown /\ (IsSkipped(m_skip) \/ at \in Bad \union {End})
    BY <1>1, <1>2, <2>1, <2>2, ProcessRight
  <2>4. TypesKept' /\ WayKept' /\ ToldKept' /\ ReadFrom(FilesOf(m_root), m_tree)'
    BY <1>1, <1>2, <1>3, <2>3 DEF TypesKept, WayKept, ToldKept, FilesOf
  <2> QED  BY <2>3, <2>4 DEF PlayerKept
<1>4. CASE m_tree.moved = FALSE
  <2>1. UNCHANGED <<m_skip, shown, ribbonVars>>
    BY <1>4 DEF FileTimeoutStopped, Resend
  <2>2. RibbonKept'
    BY <1>1, <1>2, <2>1, RibbonGrows
  <2>3. TypesKept' /\ WayKept' /\ ToldKept' /\ ReadFrom(FilesOf(m_root), m_tree)'
    BY <1>1, <1>2, <2>1 DEF TypesKept, WayKept, ToldKept, FilesOf, IsSkipped
  <2> QED  BY <2>2, <2>3 DEF PlayerKept
<1>5. m_tree.moved \in BOOLEAN
  BY <1>1, FlagsRight
<1> QED  BY <1>3, <1>4, <1>5

(* What comes next, also at the end of what has been read.                 *)
LEMMA NextRight ==
  ASSUME NEW fs \in SUBSET Files, ReadFrom(fs, m_tree)
  PROVE  /\ ReadFrom(fs, NextFile(fs)) /\ NextFile(fs).reversed = m_tree.reversed
         /\ m_tree.moved = TRUE /\ m_tree.at # End => NextFile(fs).at = m_tree.at
<1> DEFINE next == Following(fs, m_tree)
           end  == Last(fs, m_tree)
           last == Following(fs, end)
           n    == NextFile(fs)
<1>1. /\ ReadFrom(fs, next) /\ next.reversed = m_tree.reversed
      /\ m_tree.moved = TRUE => next.at = m_tree.at
  BY FollowingRight
<1>2. ReadFrom(fs, end) /\ end.reversed = m_tree.reversed
  BY EndsRight
<1>3. ReadFrom(fs, last) /\ last.reversed = end.reversed
  <2> HIDE DEF end
  <2> QED  BY <1>2, FollowingRight
<1>4. n = IF next.at # End \/ m_tree.reversed THEN next ELSE last
  BY DEF NextFile
<1> HIDE DEF next, end, last, n
<1>5. /\ ReadFrom(fs, n) /\ n.reversed = m_tree.reversed
      /\ m_tree.moved = TRUE /\ m_tree.at # End => n.at = m_tree.at
  BY <1>1, <1>2, <1>3, <1>4
<1> QED  BY <1>5 DEF n

LEMMA PlaysKept ==
  ASSUME PlayerKept, FileTimeout
  PROVE  PlayerKept'
<1>1. TypesKept /\ ReadFrom(FilesOf(m_root), m_tree) /\ WayKept /\ RibbonKept
      /\ FilesOf(m_root) \in SUBSET Files /\ m_skip \in SkipRecord
  BY FilesOfRight DEF PlayerKept, TypesKept
<1> DEFINE next == NextFile(FilesOf(m_root))
           at   == next.at
<1>2. /\ m_tree' = next /\ Process(at, m_skip) /\ told' = FALSE
      /\ m_file_count' = (m_file_count \/ Shows(at, m_skip))
      /\ UNCHANGED <<option, running, files, m_root, m_stopped, commands>>
  BY DEF FileTimeout
<1>3. ReadFrom(FilesOf(m_root), next) /\ next.reversed = m_tree.reversed
  BY <1>1, NextRight
<1>4. at \in FilesOf(m_root) \union {End}
  <2> HIDE DEF next
  <2> QED  BY <1>1, <1>3, AtFile
<1>5. /\ m_skip' \in SkipRecord /\ m_skip'.reverse = m_skip.reverse
      /\ shown' \in Files \union {End} /\ RibbonKept'
  <2> HIDE DEF at
  <2> QED  BY <1>1, <1>2, <1>4, ProcessRight
<1> HIDE DEF next
<1>6. TypesKept' /\ WayKept' /\ ToldKept'
  BY <1>1, <1>2, <1>3, <1>5 DEF TypesKept, WayKept, ToldKept
<1>7. ReadFrom(FilesOf(m_root), m_tree)'
  BY <1>2, <1>3 DEF FilesOf
<1> QED  BY <1>5, <1>6, <1>7 DEF PlayerKept

LEMMA EndKept ==
  ASSUME PlayerKept, FileTimeoutAtEnd
  PROVE  PlayerKept'
<1>1. TypesKept /\ ReadFrom(FilesOf(m_root), m_tree) /\ WayKept /\ RibbonKept
      /\ FilesOf(m_root) \in SUBSET Files /\ m_skip \in SkipRecord
  BY FilesOfRight DEF PlayerKept, TypesKept
<1> DEFINE fs    == FilesOf(m_root)
           next  == NextFile(fs)
           start == RepositionRoot(fs, next)
           again == Following(fs, start)
           skip  == [m_skip EXCEPT !.skipped = 0]
<1>2. UNCHANGED <<option, files, m_root, m_stopped, commands>> /\ told' = FALSE
  BY DEF FileTimeoutAtEnd
<1>3. ReadFrom(fs, next) /\ next.reversed = m_tree.reversed
  BY <1>1, NextRight
<1>4. /\ ReadFrom(fs, again) /\ again.reversed = m_tree.reversed
      /\ skip \in SkipRecord /\ skip.reverse = m_skip.reverse
  <2>1. ReadFrom(fs, start) /\ start.reversed = next.reversed
    <3> HIDE DEF next
    <3> QED  BY <1>1, <1>3, RepositionRootRight
  <2>2. ReadFrom(fs, again) /\ again.reversed = start.reversed
    <3> HIDE DEF start
    <3> QED  BY <1>1, <2>1, FollowingRight
  <2> HIDE DEF start, next
  <2> QED  BY <1>1, <1>3, <2>1, <2>2, SkipRight
<1>5. \/ /\ m_tree' = again /\ running' = running
         /\ IF again.at # End THEN Process(again.at, skip) ELSE m_skip' = skip /\ Resend
         /\ m_file_count' = (again.at # End /\ Shows(again.at, skip))
      \/ /\ m_tree' = next /\ Resend /\ running' = (m_file_count /\ option.stays)
         /\ UNCHANGED <<m_skip, m_file_count>>
  BY DEF FileTimeoutAtEnd
<1> HIDE DEF skip, again, start, next
<1>6. ReadFrom(fs, m_tree') /\ m_tree'.reversed = m_tree.reversed
  BY <1>3, <1>4, <1>5
<1>7. m_file_count' \in BOOLEAN /\ running' \in BOOLEAN
  BY <1>1, <1>5, OptionsTyped DEF TypesKept
<1>8. /\ m_skip' \in SkipRecord /\ m_skip'.reverse = m_skip.reverse
      /\ shown' \in Files \union {End} /\ RibbonKept'
  <2>1. CASE m_tree' = again /\ again.at # End /\ Process(again.at, skip)
    <3> DEFINE at == again.at
    <3>1. at \in FilesOf(m_root) \union {End}
      BY <1>4, AtFile
    <3>2. Process(at, skip)
      BY <2>1
    <3> HIDE DEF at
    <3> QED  BY <1>1, <1>2, <1>4, <3>1, <3>2, ProcessRight
  <2>2. CASE (m_skip' = skip \/ m_skip' = m_skip) /\ Resend
    <3>1. UNCHANGED <<shown, ribbonVars>>
      BY <2>2 DEF Resend
    <3>2. RibbonKept'
      BY <1>1, <1>2, <3>1, RibbonGrows
    <3> QED  BY <1>1, <1>4, <2>2, <3>1, <3>2 DEF TypesKept
  <2> QED  BY <1>5, <2>1, <2>2
<1>9. TypesKept' /\ WayKept' /\ ToldKept'
  BY <1>1, <1>2, <1>6, <1>7, <1>8 DEF TypesKept, WayKept, ToldKept
<1>10. ReadFrom(FilesOf(m_root), m_tree)'
  BY <1>2, <1>6 DEF FilesOf
<1> QED  BY <1>8, <1>9, <1>10 DEF PlayerKept

-----------------------------------------------------------------------------
(* Commands *)

LEMMA CommandKeeps ==
  ASSUME TypesKept, RibbonKept, NEW kind, Command(kind)
  PROVE  /\ UNCHANGED <<option, running, files, m_file_count, shown>> /\ kind \in option.sent
         /\ RibbonKept' /\ commands' \in 0 .. MaxCommands
<1>1. /\ UNCHANGED <<option, running, files, m_file_count, shown, ribbonVars>>
      /\ kind \in option.sent /\ commands < MaxCommands /\ commands' = commands + 1
  BY DEF Command
<1>2. RibbonKept'
  BY <1>1, RibbonGrows
<1>3. commands' \in 0 .. MaxCommands
  BY <1>1, PlayerAssumption DEF TypesKept
<1> QED  BY <1>1, <1>2, <1>3

(* What moves the tree. *)
LEMMA GoKept ==
  ASSUME PlayerKept, NEW kind, Command(kind), NEW root \in Roots, m_root' = root,
         "root" \notin option.sent => root = MainRoot,
         NEW t, ReadFrom(FilesOf(root), t),
         t.reversed = m_tree.reversed \/ (t.reversed = FALSE /\ "root" \in option.sent), Go(t)
  PROVE  PlayerKept'
<1>1. TypesKept /\ WayKept /\ RibbonKept /\ m_skip \in SkipRecord
  BY DEF PlayerKept, TypesKept
<1>2. /\ UNCHANGED <<option, running, files, m_file_count, shown, m_stopped>> /\ RibbonKept'
      /\ commands' \in 0 .. MaxCommands
  BY <1>1, CommandKeeps DEF Go
<1>3. /\ m_tree' = t /\ told' = t.moved
      /\ m_skip' = IF t.moved THEN NoSkip(m_skip) ELSE m_skip
  BY DEF Go
<1>4. t.moved \in BOOLEAN
  BY FlagsRight
<1>5. /\ m_skip' \in SkipRecord /\ m_skip'.reverse = m_skip.reverse
      /\ t.moved = TRUE => ~IsSkipped(m_skip')
  BY <1>1, <1>3, SkipRight
<1>6. ToldKept'
  BY <1>3, <1>4, <1>5 DEF ToldKept, IsSkipped
<1>7. TypesKept' /\ WayKept'
  BY <1>1, <1>2, <1>3, <1>4, <1>5 DEF TypesKept, WayKept
<1>8. ReadFrom(FilesOf(m_root), m_tree)'
  <2>1. FilesOf(m_root)' = FilesOf(root)
    BY <1>2 DEF FilesOf
  <2> QED  BY <1>3, <2>1 DEF ReadFrom
<1> QED  BY <1>2, <1>6, <1>7, <1>8 DEF PlayerKept

LEMMA MovesKept ==
  ASSUME PlayerKept, NEW kind, Command(kind), m_root' = m_root,
         NEW t, ReadFrom(FilesOf(m_root), t), t.reversed = m_tree.reversed, Go(t)
  PROVE  PlayerKept'
<1>1. m_root \in Roots /\ ("root" \notin option.sent => m_root = MainRoot)
  BY DEF PlayerKept, TypesKept, WayKept
<1> QED  BY <1>1, GoKept

LEMMA MoveKept ==
  ASSUME PlayerKept,
         MoveFirst \/ MoveLast \/ \E f \in Files : MoveTo(f)
  PROVE  PlayerKept'
<1> DEFINE fs == FilesOf(m_root)
<1>1. TypesKept /\ WayKept /\ RibbonKept /\ ReadFrom(fs, m_tree) /\ fs \in SUBSET Files
  BY FilesOfRight DEF PlayerKept, TypesKept
<1>2. /\ ReadFrom(fs, Last(fs, m_tree)) /\ Last(fs, m_tree).reversed = m_tree.reversed
      /\ ReadFrom(fs, First(fs, m_tree)) /\ First(fs, m_tree).reversed = m_tree.reversed
  BY <1>1, EndsRight
<1>3. ASSUME NEW path
      PROVE  /\ ReadFrom(fs, Reposition(fs, m_tree, path))
             /\ Reposition(fs, m_tree, path).reversed = m_tree.reversed
  BY <1>1, RepositionRight
<1>4. CASE MoveFirst \/ MoveLast
  <2>1. /\ Command("move") /\ m_root' = m_root
        /\ Go(Last(fs, m_tree)) \/ Go(First(fs, m_tree))
    BY <1>4 DEF MoveFirst, MoveLast
  <2> QED  BY <1>2, <2>1, MovesKept
<1>5. CASE \E f \in Files : MoveTo(f)
  <2>1. PICK f \in Files : MoveTo(f)
    BY <1>5
  <2>2. Command("move") /\ m_root' = m_root
    BY <2>1 DEF MoveTo
  <2>3. CASE UNCHANGED <<m_tree, m_skip, m_stopped, told>>
    <3>1. /\ UNCHANGED <<option, running, files, m_file_count, shown>> /\ RibbonKept'
          /\ commands' \in 0 .. MaxCommands
      BY <1>1, <2>2, CommandKeeps
    <3>2. TypesKept' /\ WayKept' /\ ReadFrom(FilesOf(m_root), m_tree)'
      BY <1>1, <2>2, <2>3, <3>1 DEF TypesKept, WayKept, FilesOf
    <3>3. ToldKept'
      BY <2>3, <3>1 DEF PlayerKept, ToldKept, IsSkipped
    <3> QED  BY <3>1, <3>2, <3>3 DEF PlayerKept
  <2>4. CASE Go(Reposition(fs, m_tree, f))
    BY <1>3, <2>2, <2>4, MovesKept
  <2> QED  BY <2>1, <2>3, <2>4 DEF MoveTo
<1> QED  BY <1>4, <1>5

LEMMA RootKept ==
  ASSUME PlayerKept, NEW root \in Roots, MoveRoot(root)
  PROVE  PlayerKept'
<1> DEFINE t == Reroot(FilesOf(root))
<1>1. TypesKept /\ WayKept /\ RibbonKept /\ FilesOf(root) \in SUBSET Files
  BY FilesOfRight DEF PlayerKept, TypesKept
<1>2. /\ Command("root") /\ m_root' = root
      /\ Go(t) \/ (m_tree' = t /\ told' = FALSE /\ UNCHANGED <<m_skip, m_stopped>>)
  BY DEF MoveRoot
<1>3. /\ UNCHANGED <<option, running, files, m_file_count, shown>> /\ RibbonKept'
      /\ commands' \in 0 .. MaxCommands /\ "root" \in option.sent
  BY <1>1, <1>2, CommandKeeps
<1>4. ReadFrom(FilesOf(root), t) /\ t.reversed = FALSE
  BY <1>1, RerootRight
<1> HIDE DEF t
<1>5. CASE Go(t)
  BY <1>2, <1>3, <1>4, <1>5, GoKept
<1>6. CASE m_tree' = t /\ told' = FALSE /\ UNCHANGED <<m_skip, m_stopped>>
  <2>1. TypesKept' /\ WayKept' /\ ToldKept'
    BY <1>1, <1>2, <1>3, <1>4, <1>6 DEF TypesKept, WayKept, ToldKept
  <2>2. ReadFrom(FilesOf(m_root), m_tree)'
    <3>1. FilesOf(m_root)' = FilesOf(root)
      BY <1>2, <1>3 DEF FilesOf
    <3> QED  BY <1>4, <1>6, <3>1 DEF ReadFrom
  <2> QED  BY <1>3, <2>1, <2>2 DEF PlayerKept
<1> QED  BY <1>2, <1>5, <1>6

(* A click: there may be no such file, or it is under another root. *)
LEMMA JumpKept ==
  ASSUME PlayerKept, Command("click"), NEW t, Jumped(t),
         t = m_tree \/ \E path : t = Reposition(FilesOf(m_root), m_tree, path)
  PROVE  PlayerKept'
<1> DEFINE fs == FilesOf(m_root)
<1>1. /\ TypesKept /\ WayKept /\ ToldKept /\ RibbonKept /\ m_skip \in SkipRecord
      /\ ReadFrom(fs, m_tree) /\ fs \in SUBSET Files
  BY FilesOfRight DEF PlayerKept, TypesKept
<1>2. ReadFrom(fs, t) /\ t.reversed = m_tree.reversed
  <2>1. CASE t = m_tree
    BY <1>1, <2>1
  <2>2. CASE \E path : t = Reposition(fs, m_tree, path)
    <3>1. PICK path : t = Reposition(fs, m_tree, path)
      BY <2>2
    <3>2. /\ ReadFrom(fs, Reposition(fs, m_tree, path))
          /\ Reposition(fs, m_tree, path).reversed = m_tree.reversed
      <4> HIDE DEF fs
      <4> QED  BY <1>1, RepositionRight
    <3> QED  BY <3>1, <3>2
  <2> QED  BY <2>1, <2>2
<1>3. t.moved \in BOOLEAN
  BY <1>2, FlagsRight
<1>4. /\ m_tree' = t /\ told' = t.moved /\ UNCHANGED <<m_root, m_stopped>>
      /\ m_skip' = NoSkip(m_skip) \/ (t.moved = FALSE /\ m_skip' = m_skip)
  BY <1>3 DEF Jumped
<1>5. /\ UNCHANGED <<option, running, files, m_file_count, shown>> /\ RibbonKept'
      /\ commands' \in 0 .. MaxCommands
  BY <1>1, CommandKeeps
<1>6. /\ m_skip' \in SkipRecord /\ m_skip'.reverse = m_skip.reverse
      /\ t.moved = TRUE => ~IsSkipped(m_skip')
  BY <1>1, <1>4, SkipRight
<1>7. ToldKept'
  BY <1>4, <1>6 DEF ToldKept, IsSkipped
<1>8. TypesKept' /\ WayKept'
  BY <1>1, <1>2, <1>3, <1>4, <1>5, <1>6 DEF TypesKept, WayKept
<1>9. ReadFrom(FilesOf(m_root), m_tree)'
  BY <1>2, <1>4, <1>5 DEF FilesOf
<1> QED  BY <1>5, <1>7, <1>8, <1>9 DEF PlayerKept

LEMMA ClickKept ==
  ASSUME PlayerKept,
         (\E offset \in {-1, 1} : DayMove(offset)) \/ \E i \in Slots : RibbonMove(i)
  PROVE  PlayerKept'
<1>1. PICK t : /\ Command("click") /\ Jumped(t)
               /\ t = m_tree \/ \E path : t = Reposition(FilesOf(m_root), m_tree, path)
  <2>1. ASSUME NEW root, NEW path
        PROVE  \/ Jump(root, path) = m_tree
               \/ Jump(root, path) = Reposition(FilesOf(m_root), m_tree, path)
    BY DEF Jump
  <2>2. CASE \E offset \in {-1, 1} : DayMove(offset)
    <3>1. PICK path : Command("click") /\ Jumped(Jump(ribbon.root, path))
      BY <2>2 DEF DayMove
    <3> QED  BY <2>1, <3>1
  <2>3. CASE \E i \in Slots : RibbonMove(i)
    <3>1. PICK root, path : /\ Command("click")
                            /\ Jumped(m_tree) \/ Jumped(Jump(root, path))
      BY <2>3 DEF RibbonMove
    <3> QED  BY <2>1, <3>1
  <2> QED  BY <2>2, <2>3
<1> QED  BY <1>1, JumpKept

LEMMA PlayKept ==
  ASSUME PlayerKept, NEW way \in {Forwards, Backwards, SameWay}, NEW n \in Skips \union {End},
         Play(way, n)
  PROVE  PlayerKept'
<1> DEFINE s == IF n = End THEN m_skip ELSE WithSkip(m_skip, n)
<1>1. /\ TypesKept /\ WayKept /\ ToldKept /\ RibbonKept /\ m_skip \in SkipRecord
      /\ ReadFrom(FilesOf(m_root), m_tree) /\ way.set \in BOOLEAN /\ way.reverse \in BOOLEAN
  <2>1. way.set \in BOOLEAN /\ way.reverse \in BOOLEAN
    <3>1. CASE way = Forwards
      BY <3>1 DEF Forwards
    <3>2. CASE way = Backwards
      BY <3>2 DEF Backwards
    <3>3. CASE way = SameWay
      BY <3>3 DEF SameWay
    <3> QED  BY <3>1, <3>2, <3>3
  <2> QED  BY <2>1 DEF PlayerKept, TypesKept
<1>2. /\ Command(IF way.set THEN "turn" ELSE "play") /\ m_stopped' = FALSE
      /\ Turned(s, way) /\ UNCHANGED <<m_root, told>>
  BY DEF Play
<1>3. s \in SkipRecord /\ s.reverse = m_skip.reverse /\ (~IsSkipped(m_skip) => ~IsSkipped(s))
  <2>1. n = End \/ n \in Nat
    BY PlayerAssumption
  <2> QED  BY <1>1, <2>1, WithSkipRight
<1> HIDE DEF s
<1>4. /\ UNCHANGED <<option, running, files, m_file_count, shown>> /\ RibbonKept'
      /\ commands' \in 0 .. MaxCommands
  BY <1>1, <1>2, CommandKeeps
<1>5. CASE way.set /\ way.reverse # s.reverse
  <2> DEFINE q == [s EXCEPT !.reverse = way.reverse]
             t == Reversed(m_tree, way.reverse)
  <2>1. m_skip' = NoSkip(q) /\ m_tree' = t
    BY <1>2, <1>5 DEF Turned
  <2>2. q \in SkipRecord /\ q.reverse = way.reverse
    BY <1>1, <1>3 DEF SkipRecord
  <2>3. /\ ReadFrom(FilesOf(m_root), t) /\ t.reversed = way.reverse /\ t.moved = m_tree.moved
        /\ t.at = m_tree.at
    BY <1>1, ReversedRight
  <2> HIDE DEF q, t
  <2>4. m_skip' \in SkipRecord /\ m_skip'.reverse = way.reverse /\ ~IsSkipped(m_skip')
    BY <2>1, <2>2, SkipRight
  <2>6. TypesKept' /\ WayKept'
    BY <1>1, <1>2, <1>4, <2>1, <2>3, <2>4 DEF TypesKept, WayKept
  <2>7. ToldKept'
    BY <1>1, <1>2, <2>1, <2>3, <2>4 DEF ToldKept, IsSkipped
  <2>8. ReadFrom(FilesOf(m_root), m_tree)'
    BY <1>2, <1>4, <2>1, <2>3 DEF FilesOf
  <2> QED  BY <1>4, <2>6, <2>7, <2>8 DEF PlayerKept
<1>6. CASE m_skip' = s /\ m_tree' = m_tree
  <2>1. TypesKept' /\ WayKept'
    BY <1>1, <1>2, <1>3, <1>4, <1>6 DEF TypesKept, WayKept
  <2>2. ~IsSkipped(m_skip) => ~IsSkipped(m_skip')
    BY <1>3, <1>6
  <2>3. ToldKept'
    BY <1>1, <1>2, <1>4, <1>6, <2>2 DEF ToldKept, IsSkipped
  <2>4. ReadFrom(FilesOf(m_root), m_tree)'
    BY <1>1, <1>2, <1>4, <1>6 DEF FilesOf
  <2> QED  BY <1>4, <2>1, <2>3, <2>4 DEF PlayerKept
<1> QED  BY <1>2, <1>5, <1>6 DEF Turned

LEMMA RecordKept ==
  ASSUME PlayerKept, NEW f \in Files, Record(f)
  PROVE  PlayerKept'
<1>1. TypesKept /\ WayKept /\ ToldKept /\ RibbonKept /\ ReadFrom(FilesOf(m_root), m_tree)
  BY DEF PlayerKept
<1>2. /\ files \subseteq files' /\ files' = files \union {f}
      /\ UNCHANGED <<option, running, m_root, m_tree, m_stopped, m_skip, m_file_count, shown,
                     told, commands>>
      /\ UNCHANGED ribbonVars
  BY DEF Record, playVars
<1>3. TypesKept' /\ WayKept' /\ ToldKept'
  BY <1>1, <1>2 DEF TypesKept, WayKept, ToldKept, IsSkipped
<1>4. RibbonKept'
  BY <1>1, <1>2, RibbonGrows
<1>5. FilesOf(m_root) \subseteq FilesOf(m_root)'
  BY <1>2 DEF FilesOf
<1>6. ReadFrom(FilesOf(m_root)', m_tree)
  BY <1>1, <1>5, ReadGrows
<1>7. ReadFrom(FilesOf(m_root), m_tree)'
  BY <1>2, <1>6 DEF ReadFrom
<1> QED  BY <1>3, <1>4, <1>7 DEF PlayerKept

LEMMA RestKept ==
  ASSUME PlayerKept, UNCHANGED <<option, running, files, playVars, m_file_count, shown, told>>,
         commands' \in 0 .. MaxCommands, RibbonKept'
  PROVE  PlayerKept'
<1>1. TypesKept /\ WayKept /\ ToldKept /\ ReadFrom(FilesOf(m_root), m_tree)
  BY DEF PlayerKept
<1>2. TypesKept' /\ WayKept' /\ ToldKept'
  BY <1>1 DEF TypesKept, WayKept, ToldKept, IsSkipped, playVars
<1>3. ReadFrom(FilesOf(m_root), m_tree)'
  BY <1>1 DEF FilesOf, playVars
<1> QED  BY <1>2, <1>3 DEF PlayerKept

LEMMA StopKept ==
  ASSUME PlayerKept, Stop
  PROVE  PlayerKept'
<1>1. TypesKept /\ WayKept /\ ToldKept /\ RibbonKept /\ ReadFrom(FilesOf(m_root), m_tree)
  BY DEF PlayerKept
<1>2. Command("stop") /\ m_stopped' = TRUE /\ UNCHANGED <<m_root, m_tree, m_skip, told>>
  BY DEF Stop
<1>3. /\ UNCHANGED <<option, running, files, m_file_count, shown>> /\ RibbonKept'
      /\ commands' \in 0 .. MaxCommands
  BY <1>1, <1>2, CommandKeeps
<1>4. TypesKept' /\ WayKept' /\ ToldKept'
  BY <1>1, <1>2, <1>3 DEF TypesKept, WayKept, ToldKept, IsSkipped
<1>5. ReadFrom(FilesOf(m_root), m_tree)'
  BY <1>1, <1>2, <1>3 DEF FilesOf
<1> QED  BY <1>3, <1>4, <1>5 DEF PlayerKept

LEMMA NextKept == PlayerKept /\ [Next]_vars => PlayerKept'
<1> SUFFICES ASSUME PlayerKept, [Next]_vars PROVE PlayerKept'
  OBVIOUS
<1>1. CASE FileTimeoutStopped
  BY <1>1, StoppedKept
<1>2. CASE FileTimeout
  BY <1>2, PlaysKept
<1>3. CASE FileTimeoutAtEnd
  BY <1>3, EndKept
<1>4. CASE RibbonTimeout
  <2>1. RibbonKept'
    BY <1>4, ScanGoesOn DEF PlayerKept, TypesKept
  <2>2. /\ UNCHANGED <<option, running, files, playVars, m_file_count, shown, told>>
        /\ commands' \in 0 .. MaxCommands
    BY <1>4 DEF RibbonTimeout, PlayerKept, TypesKept
  <2> QED  BY <2>1, <2>2, RestKept
<1>5. CASE Stop
  BY <1>5, StopKept
<1>6. CASE MoveFirst \/ MoveLast \/ \E f \in Files : MoveTo(f)
  BY <1>6, MoveKept
<1>7. CASE \E way \in {Forwards, Backwards, SameWay}, n \in Skips \union {End} : Play(way, n)
  BY <1>7, PlayKept
<1>8. CASE \E f \in Files : Record(f)
  BY <1>8, RecordKept
<1>9. CASE \E root \in Roots : MoveRoot(root)
  BY <1>9, RootKept
<1>10. CASE (\E offset \in {-1, 1} : DayMove(offset)) \/ \E i \in Slots : RibbonMove(i)
  BY <1>10, ClickKept
<1>11. CASE UNCHANGED vars
  <2>1. /\ UNCHANGED <<option, running, files, playVars, m_file_count, shown, told, commands>>
        /\ UNCHANGED ribbonVars
    BY <1>11 DEF vars
  <2>2. RibbonKept'
    BY <2>1, RibbonGrows DEF PlayerKept
  <2>3. commands' \in 0 .. MaxCommands
    BY <2>1 DEF PlayerKept, TypesKept
  <2> QED  BY <2>1, <2>2, <2>3, RestKept
<1> QED
  BY <1>1, <1>2, <1>3, <1>4, <1>5, <1>6, <1>7, <1>8, <1>9, <1>10, <1>11 DEF Next

-----------------------------------------------------------------------------

(* What was said of the ribbon and the iterator is what the runs check.    *)
LEMMA KeptIsRight == PlayerKept => PlayerInvariant
<1> SUFFICES ASSUME PlayerKept PROVE PlayerInvariant
  OBVIOUS
<1>1. /\ TypesKept /\ WayKept /\ RibbonKept /\ m_tree \in Iterators /\ scan \in Iterators
      /\ ribbon \in RibbonRecord /\ RibbonFiles(ribbon) /\ ScanRight(ribbon, scan, busy)
      /\ busy \in BOOLEAN /\ ribbonTimer \in BOOLEAN /\ (busy = TRUE => ribbonTimer = TRUE)
  BY DEF PlayerKept, RibbonKept, ScanRight, ReadFrom
<1>2. m_skip.reverse \in BOOLEAN /\ m_skip.skip \in Nat /\ m_skip.skipped \in Nat
  BY <1>1 DEF TypesKept, SkipRecord
<1>3. TypeOK
  BY <1>1, <1>2 DEF TypeOK, TypesKept, RibbonRecord
<1>4. SameDirection
  BY <1>1 DEF WayKept, SameDirection
<1>5. RibbonRight
  <2>1. /\ \A k \in ribbon.known : k[2] \in NamesIn(FilesOf(k[1]), ribbon.day)
        /\ ribbon.mark # 0 => \E root \in Roots : <<root, ribbon.mark>> \in ribbon.known
        /\ "root" \notin option.sent =>
             ribbon.root = ribbon.base /\ \A k \in ribbon.known : k[1] = m_root
    BY <1>1 DEF RibbonFiles, WayKept
  <2>2. ~busy /\ ribbon.root = ribbon.base => {ribbon.base} \X ribbon.was \subseteq ribbon.known
    BY <1>1 DEF ScanRight
  <2>3. busy => Ahead(ribbon, scan) /\ ribbonTimer
    BY <1>1 DEF ScanRight
  <2> QED  BY <2>1, <2>2, <2>3 DEF RibbonRight, Ahead
<1> QED  BY <1>3, <1>4, <1>5 DEF PlayerInvariant

(* Through whatever commands and clicks come, the iterator goes the way of *)
(* the player, unless it was made anew for another root; the ribbon has    *)
(* only files that there are, and all of its day that were there when its  *)
(* scan began, wherever that was interrupted or started again, unless a    *)
(* file of another root brought it to that day.                            *)
THEOREM PlayerRight == Spec => []PlayerInvariant
<1>1. Init => PlayerKept
  BY InitKept
<1>2. PlayerKept /\ [Next]_vars => PlayerKept'
  BY NextKept
<1>3. PlayerKept => PlayerInvariant
  BY KeptIsRight
<1> QED  BY <1>1, <1>2, <1>3, PTL DEF Spec

(* The step of the next theorem. *)
LEMMA ShowsTold ==
  ASSUME PlayerKept, FileTimeout \/ FileTimeoutStopped, told, m_tree.at \notin Bad \union {End}
  PROVE  shown' = m_tree.at
<1>1. /\ TypesKept /\ RibbonKept /\ ReadFrom(FilesOf(m_root), m_tree)
      /\ FilesOf(m_root) \in SUBSET Files /\ m_tree.moved = TRUE
      /\ ~IsSkipped(m_skip) \/ shown = m_tree.at
  BY FilesOfRight DEF PlayerKept, TypesKept, ToldKept
<1>2. Process(m_tree.at, m_skip)
  <2>1. CASE FileTimeoutStopped
    BY <1>1, <2>1 DEF FileTimeoutStopped
  <2>2. CASE FileTimeout
    <3>1. NextFile(FilesOf(m_root)).at = m_tree.at
      BY <1>1, NextRight
    <3> QED  BY <2>2, <3>1 DEF FileTimeout
  <2> QED  BY <2>1, <2>2
<1> QED  BY <1>1, <1>2 DEF Process, Shows

(* What the player was told to move to is the next that it shows, or has   *)
(* been shown since: no play, stop or move before the timer makes it skip  *)
(* that.                                                                   *)
THEOREM MovesAreShown == Spec => MovesShown
<1>1. Init => PlayerKept
  BY InitKept
<1>2. PlayerKept /\ [Next]_vars => PlayerKept'
  BY NextKept
<1>3. PlayerKept /\ [Next]_vars
        => [(FileTimeout \/ FileTimeoutStopped) /\ told /\ m_tree.at \notin Bad \union {End}
              => shown' = m_tree.at]_vars
  BY ShowsTold
<1> QED  BY <1>1, <1>2, <1>3, PTL DEF Spec, MovesShown
=============================================================================
