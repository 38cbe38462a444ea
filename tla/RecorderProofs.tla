--------------------------- MODULE RecorderProofs ---------------------------
(* The store, the cache and the state of the recorder, for every size of   *)
(* the cache.                                                              *)
EXTENDS Recorder, SubsequenceProofs

-----------------------------------------------------------------------------
(* The inductive invariant *)

Opened == [open : {TRUE}, shot : Shots, same : Paths \union {NoPath}]

CacheTyped ==
  /\ entry \in [Entries -> {ClosedEntry} \union Opened]
  /\ cached \in [Entries -> Seq(Shots)]
  /\ m_p \in Entries \union {1}
  /\ recent \in Seq(Shots)

StateTyped ==
  /\ m_state \in {"stopped", "slow", "fast"} /\ m_old_state \in {"init", "stopped", "slow"}
  /\ m_fast_time \in 0 .. MaxNow /\ lasting \in {"slow", "stopped"}

ChannelTyped ==
  /\ m_channel \in {"closed", "attached", "gone"}
  /\ m_timer \in BOOLEAN /\ up \in BOOLEAN /\ ended \in BOOLEAN

OtherTyped ==
  /\ option \in Options /\ now \in 0 .. MaxNow
  /\ m_image \in Sizes \union {0} /\ m_old_path \in Paths \union {NoPath}
  /\ images \in Nat /\ gone \in Nat /\ commands \in Nat /\ restarts \in Nat
  /\ faults \in Nat /\ settled \in BOOLEAN

(* Whenever an image may be recorded there is a number for it.             *)
Counted ==
  /\ gone <= MaxGone /\ images <= MaxImages + gone
  /\ m_channel = "gone" => images < MaxImages + gone

(* While the recorder is fast the state to go back to is the old state,    *)
(* and the cache is empty.                                                 *)
StateRight ==
  /\ m_state = "fast" => /\ m_old_state = lasting /\ recent = <<>>
                         /\ \A i \in Entries : entry[i] = ClosedEntry
  /\ m_state # "fast" => m_state = lasting

(* A store of files that begin with one of the first n shots each, no      *)
(* later than t, no two with the same, and that are named for it.          *)
Filed(fs, n, t) ==
  /\ DOMAIN fs \subseteq Paths
  /\ \A x \in DOMAIN fs :
       /\ fs[x] \in Seq(Shots) /\ Len(fs[x]) >= 1
       /\ x \in {FastPath(fs[x][1]), SlowPath(fs[x][1])}
       /\ fs[x][1].id <= n /\ fs[x][1].at <= t
  /\ \A x, y \in DOMAIN fs : fs[x][1] = fs[y][1] => x = y

(* How many images ago an entry was written.                               *)
Age(i) == IF i <= m_p THEN m_p - i ELSE m_p - i + CacheSize

Ring ==
  /\ Len(recent) <= CacheSize
  /\ \A i \in Entries :
       /\ entry[i].open <=> Age(i) < Len(recent)
       /\ entry[i].open => entry[i].shot = recent[Len(recent) - Age(i)]

EntriesRight ==
  \A i \in Entries :
    entry[i].open => /\ Len(cached[i]) >= 1 /\ cached[i][1] = entry[i].shot
                     /\ entry[i].same \in {NoPath, SlowPath(entry[i].shot)}

Numbered ==
  /\ \A i \in Entries :
       entry[i].open => entry[i].shot.id <= images /\ entry[i].shot.at <= now
  /\ \A i, j \in Entries :
       entry[i].open /\ entry[j].open /\ entry[i].shot.id = entry[j].shot.id => i = j

(* Where a cached shot has been saved: in the file of its second, which    *)
(* still begins with it, or nowhere.                                       *)
SavedAt(fs, i) ==
  /\ entry[i].same = NoPath => \A x \in DOMAIN fs : fs[x][1] # entry[i].shot
  /\ entry[i].same # NoPath => /\ entry[i].same \in DOMAIN fs
                               /\ fs[entry[i].same][1] = entry[i].shot

Saved == \A i \in Entries : entry[i].open => SavedAt(files, i)

(* The file of a cached shot is not written again: its second is over, or  *)
(* it is the file that was saved last.                                     *)
SavedLast ==
  /\ m_old_path # NoPath => m_old_path[1] <= 1 + (now \div PerSec)
  /\ \A i \in Entries :
       entry[i].open /\ entry[i].same # NoPath =>
         /\ m_old_path # NoPath /\ entry[i].same[1] <= m_old_path[1]
         /\ entry[i].same[1] = m_old_path[1] => entry[i].same = m_old_path

(* No cached shot is older than one of its second that is in the store: a  *)
(* recorder that is slow has saved the first of them.                      *)
CachedLater ==
  \A x \in DOMAIN files, i \in Entries :
    entry[i].open /\ SlowPath(files[x][1]) = SlowPath(entry[i].shot) =>
      files[x][1] = entry[i].shot \/ files[x][1].id < entry[i].shot.id

ThisSecond == <<1 + (now \div PerSec), 0>>
ThisInstant == <<1 + (now \div PerSec), 1 + (now % PerSec)>>

SlowSaved ==
  m_state = "slow" =>
    \A i \in Entries :
      entry[i].open /\ SlowPath(entry[i].shot) = ThisSecond => m_old_path = ThisSecond

(* Where a recorder that has been at it since before this second would     *)
(* save next there is no file but the one that it saved last.              *)
SettledRight ==
  settled =>
    /\ ThisSecond \in DOMAIN files => m_state # "fast" /\ m_old_path = ThisSecond
    /\ m_state = "fast" /\ ThisInstant \in DOMAIN files => m_old_path = ThisInstant

RecorderTyped == CacheTyped /\ StateTyped /\ ChannelTyped /\ OtherTyped

(* What holds of the recorder and its cache whatever fails to be saved,    *)
(* and what holds of the store if everything is.                           *)
CacheInductive == RecorderTyped /\ Counted /\ StateRight /\ Ring /\ EntriesRight

StoreRight ==
  /\ faults = 0 /\ Filed(files, images, now) /\ Numbered /\ Saved /\ SavedLast
  /\ CachedLater /\ SlowSaved /\ SettledRight

RecorderInductive == CacheInductive /\ StoreRight

-----------------------------------------------------------------------------
(* Instants and paths *)

LEMMA Division ==
  ASSUME NEW a \in Nat, NEW b \in Nat, a <= b, NEW P \in Nat \ {0}
  PROVE  a \div P \in Nat /\ a % P \in 0 .. P - 1 /\ a \div P <= b \div P
  OBVIOUS

LEMMA SameInstant ==
  ASSUME NEW a \in Nat, NEW t \in Nat, NEW P \in Nat \ {0},
         a \div P = t \div P, a % P = t % P
  PROVE  a = t
OBVIOUS

LEMMA EarlierSecond ==
  ASSUME NEW a \in Nat, NEW t \in Nat, NEW P \in Nat \ {0}, a < t, t % P = 0
  PROVE  a \div P < t \div P
OBVIOUS

LEMMA SameSecond ==
  ASSUME NEW t \in Nat, NEW P \in Nat \ {0}, (t + 1) % P # 0
  PROVE  (t + 1) \div P = t \div P
OBVIOUS

(* The path of a shot is in the store, and a fast path is not a slow one.  *)
LEMMA PathsOfShots ==
  ASSUME NEW s \in Shots
  PROVE  /\ FastPath(s) \in Paths /\ SlowPath(s) \in Paths
         /\ NoPath \notin Paths
         /\ \A t \in Shots : FastPath(s) # SlowPath(t)
         /\ s.at \in Nat /\ s.id \in Nat /\ s.size \in Nat \ {0}
<1>1. /\ s.at \in 0 .. MaxNow /\ s.id \in Nat /\ s.size \in Nat \ {0}
      /\ MaxNow \in Nat /\ PerSec \in Nat \ {0}
  <2>1. s.at \in 0 .. MaxNow /\ s.id \in 1 .. MaxImages + MaxGone /\ s.size \in Sizes
    BY DEF Shots
  <2>2. /\ MaxNow \in Nat /\ PerSec \in Nat \ {0} /\ Sizes \subseteq Nat \ {0}
        /\ MaxImages \in Nat /\ MaxGone \in Nat
    BY RecorderAssumption, CacheAssumption
  <2>3. s.size \in Nat \ {0}
    BY <2>1, <2>2
  <2> QED  BY <2>1, <2>2, <2>3
<1>2. /\ s.at \div PerSec \in Nat /\ s.at % PerSec \in 0 .. PerSec - 1
      /\ s.at \div PerSec <= MaxNow \div PerSec /\ MaxNow \div PerSec \in Nat
  <2>1. s.at \in Nat /\ s.at <= MaxNow /\ MaxNow <= MaxNow
    BY <1>1
  <2> QED  BY <1>1, <2>1, Division
<1> QED  BY <1>1, <1>2 DEF Paths, NoPath, FastPath, SlowPath

LEMMA BlocksOfShot ==
  ASSUME NEW s \in Shots
  PROVE  Blocks(s) \in Seq(Shots) /\ Len(Blocks(s)) >= 1 /\ Blocks(s)[1] = s
<1>1. s.size \in Nat \ {0}
  BY PathsOfShots
<1> QED  BY <1>1 DEF Blocks

LEMMA OverwrittenBegins ==
  ASSUME NEW S, NEW old \in Seq(S), NEW new \in Seq(S), Len(new) >= 1
  PROVE  /\ Overwritten(old, new) \in Seq(S)
         /\ Len(Overwritten(old, new)) >= 1 /\ Overwritten(old, new)[1] = new[1]
<1> DEFINE n == IF Len(old) > Len(new) THEN Len(old) ELSE Len(new)
<1>1. n \in Nat /\ n >= 1 /\ Len(old) \in Nat /\ Len(new) \in Nat
  OBVIOUS
<1>2. \A i \in 1 .. n : (IF i <= Len(new) THEN new[i] ELSE old[i]) \in S
  OBVIOUS
<1>3. Overwritten(old, new) = [i \in 1 .. n |-> IF i <= Len(new) THEN new[i] ELSE old[i]]
  BY DEF Overwritten
<1> QED  BY <1>1, <1>2, <1>3

-----------------------------------------------------------------------------
(* commit() goes through its list *)

(* What the recursive definition of CacheCommit() stands for.              *)
Steps(g, n, other) ==
  g = [i \in 0 .. n |-> IF i = 0 THEN files ELSE Moved(g[i - 1], i, other)]

LEMMA StepsExist ==
  ASSUME CacheSize \in Nat, NEW other
  PROVE  \E g : Steps(g, CacheSize, other)
<1> DEFINE S == {n \in 0 .. CacheSize : \E g : Steps(g, n, other)}
<1>1. 0 \in S
  <2> DEFINE g == [i \in 0 .. 0 |-> files]
  <2>1. Steps(g, 0, other)
    BY DEF Steps
  <2> QED  BY <2>1
<1>2. ASSUME NEW k \in 1 .. CacheSize, k - 1 \in S PROVE k \in S
  <2>1. PICK g : Steps(g, k - 1, other)
    BY <1>2
  <2> DEFINE h == [i \in 0 .. k |-> IF i = k THEN Moved(g[k - 1], k, other) ELSE g[i]]
  <2>2. \A i \in 0 .. k - 1 : h[i] = g[i]
    OBVIOUS
  <2>3. \A i \in 0 .. k - 1 : g[i] = IF i = 0 THEN files ELSE Moved(g[i - 1], i, other)
    BY <2>1 DEF Steps
  <2>4. \A i \in 0 .. k : h[i] = IF i = 0 THEN files ELSE Moved(h[i - 1], i, other)
    <3> SUFFICES ASSUME NEW i \in 0 .. k
                 PROVE  h[i] = IF i = 0 THEN files ELSE Moved(h[i - 1], i, other)
      OBVIOUS
    <3>1. CASE i = k
      <4>1. h[k] = Moved(g[k - 1], k, other) /\ h[k - 1] = g[k - 1] /\ k # 0
        BY <2>2
      <4> QED  BY <3>1, <4>1
    <3>2. CASE i # k
      <4>1. i \in 0 .. k - 1 /\ (i # 0 => i - 1 \in 0 .. k - 1)
        BY <3>2
      <4> HIDE DEF h
      <4>2. i # 0 => h[i - 1] = g[i - 1]
        BY <4>1, <2>2
      <4> QED  BY <2>2, <2>3, <4>1, <4>2
    <3> QED  BY <3>1, <3>2
  <2>5. Steps(h, k, other)
    BY <2>4 DEF Steps
  <2> QED  BY <2>5
<1>3. \A k \in 0 .. CacheSize : k \in S
  <2> HIDE DEF S
  <2> QED  BY <1>1, <1>2, UpToLast
<1> QED  BY <1>3

LEMMA CommitSteps ==
  ASSUME CacheSize \in Nat, NEW other, CacheCommit(other)
  PROVE  \E g : /\ files' = g[CacheSize] /\ g[0] = files
                /\ \A i \in 1 .. CacheSize : g[i] = Moved(g[i - 1], i, other)
<1> DEFINE g == CHOOSE f : Steps(f, CacheSize, other)
<1>1. Steps(g, CacheSize, other)
  BY StepsExist
<1>2. files' = g[CacheSize]
  BY DEF CacheCommit, Steps
<1>3. g[0] = files /\ \A i \in 1 .. CacheSize : g[i] = Moved(g[i - 1], i, other)
  <2> HIDE DEF g
  <2>1. \A i \in 0 .. CacheSize : g[i] = IF i = 0 THEN files ELSE Moved(g[i - 1], i, other)
    BY <1>1 DEF Steps
  <2> QED  BY <2>1
<1> QED  BY <1>2, <1>3

-----------------------------------------------------------------------------
(* What saving and moving files does to the store *)

LEMMA PutFiled ==
  ASSUME NEW fs, NEW n \in Nat, NEW t \in Nat, Filed(fs, n, t),
         NEW s \in Shots, s.id <= n, s.at <= t, \A x \in DOMAIN fs : fs[x][1] # s,
         NEW path \in {FastPath(s), SlowPath(s)},
         NEW blocks \in Seq(Shots), Len(blocks) >= 1, blocks[1] = s
  PROVE  Filed(Put(fs, path, blocks), n, t)
<1> DEFINE p == Put(fs, path, blocks)
<1>1. /\ DOMAIN p = DOMAIN fs \union {path} /\ p[path] = blocks
      /\ \A x \in DOMAIN fs \ {path} : p[x] = fs[x]
  BY DEF Put
<1>2. path \in Paths
  BY PathsOfShots
<1> HIDE DEF p
<1>3. ASSUME NEW x \in DOMAIN p
      PROVE  /\ p[x] \in Seq(Shots) /\ Len(p[x]) >= 1
             /\ x \in {FastPath(p[x][1]), SlowPath(p[x][1])}
             /\ p[x][1].id <= n /\ p[x][1].at <= t
  <2>1. CASE x = path
    BY <1>1, <2>1
  <2>2. CASE x # path
    <3>1. x \in DOMAIN fs /\ p[x] = fs[x]
      BY <1>1, <2>2
    <3> QED  BY <3>1 DEF Filed
  <2> QED  BY <2>1, <2>2
<1>4. ASSUME NEW x \in DOMAIN p, NEW y \in DOMAIN p, p[x][1] = p[y][1]
      PROVE  x = y
  <2>1. \A z \in DOMAIN p : z # path => z \in DOMAIN fs /\ p[z] = fs[z] /\ p[z][1] # s
    BY <1>1
  <2>2. p[path][1] = s
    BY <1>1
  <2>3. \A v, w \in DOMAIN fs : fs[v][1] = fs[w][1] => v = w
    BY DEF Filed
  <2> QED  BY <1>4, <2>1, <2>2, <2>3
<1>5. DOMAIN p \subseteq Paths
  BY <1>1, <1>2 DEF Filed
<1> QED  BY <1>3, <1>4, <1>5 DEF Filed, p

LEMMA RenameFiled ==
  ASSUME NEW fs, NEW n \in Nat, NEW t \in Nat, Filed(fs, n, t), NEW src \in DOMAIN fs,
         NEW dst, dst = FastPath(fs[src][1]), src # dst
  PROVE  Filed(Rename(fs, src, dst), n, t)
<1> DEFINE p == Rename(fs, src, dst)
<1>1. /\ DOMAIN p = (DOMAIN fs \ {src}) \union {dst} /\ p[dst] = fs[src]
      /\ \A x \in DOMAIN fs \ {src, dst} : p[x] = fs[x]
  BY DEF Rename
<1>2. dst \in Paths
  <2>1. fs[src][1] \in Shots
    BY DEF Filed
  <2> QED  BY <2>1, PathsOfShots
<1> HIDE DEF p
<1>3. ASSUME NEW x \in DOMAIN p
      PROVE  /\ p[x] \in Seq(Shots) /\ Len(p[x]) >= 1
             /\ x \in {FastPath(p[x][1]), SlowPath(p[x][1])}
             /\ p[x][1].id <= n /\ p[x][1].at <= t
  <2>1. CASE x = dst
    BY <1>1, <2>1 DEF Filed
  <2>2. CASE x # dst
    <3>1. x \in DOMAIN fs /\ p[x] = fs[x]
      BY <1>1, <2>2
    <3> QED  BY <3>1 DEF Filed
  <2> QED  BY <2>1, <2>2
<1>4. ASSUME NEW x \in DOMAIN p, NEW y \in DOMAIN p, p[x][1] = p[y][1]
      PROVE  x = y
  <2>1. \A z \in DOMAIN p : z # dst => z \in DOMAIN fs /\ z # src /\ p[z] = fs[z]
    BY <1>1
  <2>2. p[dst] = fs[src]
    BY <1>1
  <2>3. \A v, w \in DOMAIN fs : fs[v][1] = fs[w][1] => v = w
    BY DEF Filed
  <2> QED  BY <1>4, <2>1, <2>2, <2>3
<1>5. DOMAIN p \subseteq Paths
  BY <1>1, <1>2 DEF Filed
<1> QED  BY <1>3, <1>4, <1>5 DEF Filed, p

(* What is known of the cache when it is committed.                        *)
CacheRight ==
  /\ images \in Nat /\ now \in Nat /\ CachedLater
  /\ \A i \in Entries : entry[i].open \in BOOLEAN
  /\ \A i \in Entries : entry[i].open =>
       /\ entry[i].shot \in Shots /\ entry[i].shot.id <= images /\ entry[i].shot.at <= now
       /\ cached[i] \in Seq(Shots) /\ Len(cached[i]) >= 1 /\ cached[i][1] = entry[i].shot
       /\ entry[i].same \in {NoPath, SlowPath(entry[i].shot)} /\ SavedAt(files, i)
  /\ \A i, j \in Entries :
       entry[i].open /\ entry[j].open /\ entry[i].shot = entry[j].shot => i = j
  /\ CacheSize \in Nat

(* The image of a file is still in the store, or one of the cache that is  *)
(* later has its name.                                                     *)
Later(new, old) ==
  new = old \/ (new.id > old.id /\ \E i \in Entries : entry[i].open /\ new = entry[i].shot)

KeptIn(fs, x) ==
  \E y \in {x, FastPath(files[x][1])} \intersect DOMAIN fs : Later(fs[y][1], files[x][1])

LEMMA Replaced ==
  ASSUME CacheRight, Filed(files, images, now), NEW x \in DOMAIN files,
         NEW k \in Entries, entry[k].open,
         SlowPath(files[x][1]) = SlowPath(entry[k].shot)
  PROVE  Later(entry[k].shot, files[x][1])
<1>1. files[x][1] = entry[k].shot \/ files[x][1].id < entry[k].shot.id
  BY DEF CacheRight, CachedLater
<1>2. files[x][1].id \in Nat /\ entry[k].shot.id \in Nat
  <2>1. files[x][1] \in Shots /\ entry[k].shot \in Shots
    BY DEF Filed, CacheRight
  <2> QED  BY <2>1, PathsOfShots
<1> QED  BY <1>1, <1>2 DEF Later

FastSoFar(fs, k) ==
  /\ Filed(fs, images, now)
  /\ \A i \in Entries : entry[i].open /\ i > k => SavedAt(fs, i)
  /\ \A x \in DOMAIN files : KeptIn(fs, x)

LEMMA FastStep ==
  ASSUME CacheRight, NEW k \in Entries, NEW fs, FastSoFar(fs, k - 1), Filed(files, images, now)
  PROVE  FastSoFar(Moved(fs, k, FALSE), k)
<1>0. k \in Nat /\ \A i \in Entries : i \in Nat
  BY DEF CacheRight, Entries
<1>1. CASE ~entry[k].open
  <2>1. Moved(fs, k, FALSE) = fs
    BY <1>1 DEF Moved
  <2>2. \A i \in Entries : entry[i].open => (i > k => i > k - 1) /\ (i <= k => i <= k - 1)
    BY <1>0, <1>1
  <2> QED  BY <2>1, <2>2 DEF FastSoFar
<1>2. CASE entry[k].open
  <2> DEFINE s == entry[k].shot
             dst == FastPath(s)
             p == Moved(fs, k, FALSE)
  <2>1. /\ s \in Shots /\ s.id <= images /\ s.at <= now /\ images \in Nat /\ now \in Nat
        /\ SavedAt(fs, k) /\ SavedAt(files, k)
        /\ cached[k] \in Seq(Shots) /\ Len(cached[k]) >= 1 /\ cached[k][1] = s
        /\ entry[k].same \in {NoPath, SlowPath(s)}
    BY <1>0, <1>2 DEF CacheRight, FastSoFar
  <2>2. /\ Filed(fs, images, now) /\ \A i \in Entries : entry[i].open /\ i > k => SavedAt(fs, i)
        /\ \A x \in DOMAIN files : KeptIn(fs, x)
    BY <1>0 DEF FastSoFar
  <2>3. \A i \in Entries : entry[i].open /\ i # k =>
          entry[i].shot # s /\ entry[i].shot \in Shots
    BY <1>2 DEF CacheRight
  <2>3a. \A t \in Shots : FastPath(t) # SlowPath(s) /\ SlowPath(t) # dst
    BY <2>1, PathsOfShots
  <2>4. /\ Filed(p, images, now) /\ dst \in DOMAIN p /\ p[dst][1] = s
        /\ DOMAIN p \subseteq DOMAIN fs \union {dst}
        /\ \A x \in DOMAIN p \ {dst} : p[x] = fs[x]
        /\ \A x \in DOMAIN fs : x \notin DOMAIN p => x = SlowPath(s) /\ x = entry[k].same
    <3>1. CASE entry[k].same = NoPath
      <4>1. p = Put(fs, dst, cached[k])
        BY <1>2, <3>1 DEF Moved, Path
      <4>2. \A x \in DOMAIN fs : fs[x][1] # s
        BY <2>1, <3>1 DEF SavedAt
      <4> HIDE DEF p, s
      <4>3. dst \in {FastPath(s), SlowPath(s)}
        OBVIOUS
      <4>4. Filed(p, images, now)
        <5> HIDE DEF dst
        <5> QED  BY <2>1, <2>2, <4>1, <4>2, <4>3, PutFiled
      <4>5. /\ DOMAIN p = DOMAIN fs \union {dst} /\ p[dst] = cached[k]
            /\ \A x \in DOMAIN fs \ {dst} : p[x] = fs[x]
        <5> HIDE DEF dst
        <5> QED  BY <4>1 DEF Put
      <4> HIDE DEF dst
      <4> QED  BY <2>1, <4>4, <4>5
    <3>2. CASE entry[k].same # NoPath
      <4> DEFINE src == entry[k].same
      <4>1. src \in DOMAIN fs /\ src = SlowPath(s) /\ fs[src][1] = s /\ src # dst
        BY <2>1, <3>2, <2>3a DEF SavedAt
      <4>2. p = Rename(fs, src, dst)
        BY <1>2, <3>2, <4>1 DEF Moved, Path
      <4> HIDE DEF p, s
      <4>3. dst = FastPath(fs[src][1])
        BY <4>1
      <4> HIDE DEF dst, src
      <4>4. Filed(p, images, now)
        BY <2>1, <2>2, <4>1, <4>2, <4>3, RenameFiled
      <4>5. /\ DOMAIN p = (DOMAIN fs \ {src}) \union {dst} /\ p[dst] = fs[src]
            /\ \A x \in DOMAIN fs \ {src, dst} : p[x] = fs[x]
        BY <4>1, <4>2 DEF Rename
      <4> QED  BY <4>1, <4>4, <4>5 DEF src
    <3> QED  BY <3>1, <3>2
  <2> HIDE DEF p, s, dst
  <2>5. ASSUME NEW i \in Entries, entry[i].open, i > k PROVE SavedAt(p, i)
    <3>1. SavedAt(fs, i) /\ entry[i].shot # s /\ entry[i].shot \in Shots
      <4>1. i # k
        BY <1>0, <2>5
      <4> QED  BY <2>2, <2>3, <2>5, <4>1
    <3>2. CASE entry[i].same = NoPath
      BY <2>4, <3>1, <3>2 DEF SavedAt
    <3>3. CASE entry[i].same # NoPath
      <4> DEFINE x == entry[i].same
      <4>1. x \in DOMAIN fs /\ fs[x][1] = entry[i].shot /\ x = SlowPath(entry[i].shot) /\ x # dst
        BY <2>3a, <2>5, <3>1, <3>3 DEF SavedAt, CacheRight
      <4>2. x \in DOMAIN p
        <5>1. ASSUME x \notin DOMAIN p PROVE FALSE
          <6>1. x = entry[k].same /\ entry[k].same # NoPath
            BY <2>4, <3>3, <4>1, <5>1
          <6>2. fs[x][1] = s
            BY <2>1, <6>1 DEF SavedAt, s
          <6> QED  BY <3>1, <4>1, <6>2
        <5> QED  BY <5>1
      <4>3. p[x] = fs[x]
        BY <2>4, <4>1, <4>2
      <4> QED  BY <3>3, <4>1, <4>2, <4>3 DEF SavedAt
    <3> QED  BY <3>2, <3>3
  <2>6. ASSUME NEW x \in DOMAIN files PROVE KeptIn(p, x)
    <3> DEFINE shot == files[x][1]
    <3>1. shot \in Shots /\ x \in {FastPath(shot), SlowPath(shot)}
      BY DEF Filed
    <3>2. PICK y \in {x, FastPath(shot)} \intersect DOMAIN fs : Later(fs[y][1], shot)
      BY <2>2 DEF KeptIn
    <3> HIDE DEF shot
    <3>3. CASE y # dst /\ y \in DOMAIN p
      <4>1. p[y] = fs[y]
        BY <2>4, <3>3
      <4> QED  BY <3>2, <3>3, <4>1 DEF KeptIn, shot
    <3>4. CASE y \notin DOMAIN p
      <4>1. y = SlowPath(s) /\ y = entry[k].same /\ y \in Paths
        BY <2>4, <2>2, <3>2, <3>4 DEF Filed
      <4>2. y = x
        BY <2>3a, <3>1, <3>2, <4>1
      <4>3. NoPath \notin Paths
        BY <2>1, PathsOfShots
      <4>4. shot = s
        BY <2>1, <4>1, <4>2, <4>3 DEF SavedAt, s, shot
      <4>5. dst = FastPath(shot) /\ Later(p[dst][1], shot)
        BY <2>4, <4>4 DEF dst, Later
      <4> QED  BY <2>4, <4>5 DEF KeptIn, shot
    <3>5. CASE y = dst
      <4>1. FastPath(shot) = FastPath(s)
        BY <2>3a, <3>1, <3>2, <3>5 DEF dst
      <4>2. SlowPath(shot) = SlowPath(s)
        BY <4>1 DEF FastPath, SlowPath
      <4>3. Later(s, shot)
        BY <1>2, <4>2, Replaced DEF s, shot
      <4>4. dst = FastPath(shot) /\ Later(p[dst][1], shot)
        BY <2>4, <4>1, <4>3 DEF dst
      <4> QED  BY <2>4, <4>4 DEF KeptIn, shot
    <3> QED  BY <3>3, <3>4, <3>5
  <2> QED  BY <2>4, <2>5, <2>6 DEF FastSoFar, p
<1> QED  BY <1>1, <1>2 DEF CacheRight

SlowSoFar(fs, k) ==
  /\ Filed(fs, images, now)
  /\ \A i \in Entries : entry[i].open /\ entry[i].same # NoPath =>
       entry[i].same = SlowPath(entry[i].shot) /\ entry[i].same \in DOMAIN fs
  /\ \A i \in Entries : entry[i].open /\ entry[i].same = NoPath /\ i > k =>
       \A x \in DOMAIN fs : fs[x][1] # entry[i].shot
  /\ \A x \in DOMAIN files : KeptIn(fs, x)

LEMMA SlowStep ==
  ASSUME CacheRight, NEW k \in Entries, NEW fs, SlowSoFar(fs, k - 1), Filed(files, images, now)
  PROVE  SlowSoFar(Moved(fs, k, TRUE), k)
<1>0. k \in Nat /\ \A i \in Entries : i \in Nat
  BY DEF CacheRight, Entries
<1>1. \A i \in Entries : (i > k => i > k - 1) /\ (i <= k => i = k \/ i <= k - 1)
  BY <1>0
<1>2. CASE ~entry[k].open
  <2>1. Moved(fs, k, TRUE) = fs
    BY <1>2 DEF Moved
  <2> QED  BY <2>1, <1>1, <1>2 DEF SlowSoFar
<1>3. CASE entry[k].open /\ entry[k].same # NoPath
  <2>1. entry[k].same = SlowPath(entry[k].shot) /\ entry[k].same \in DOMAIN fs
    BY <1>3 DEF SlowSoFar
  <2>2. Moved(fs, k, TRUE) = fs
    BY <1>3, <2>1 DEF Moved, Rename, Path
  <2> QED  BY <2>1, <2>2, <1>1, <1>3 DEF SlowSoFar
<1>4. CASE entry[k].open /\ entry[k].same = NoPath
  <2> DEFINE s == entry[k].shot
             dst == SlowPath(s)
             p == Moved(fs, k, TRUE)
  <2>1. /\ s \in Shots /\ s.id <= images /\ s.at <= now /\ images \in Nat /\ now \in Nat
        /\ cached[k] \in Seq(Shots) /\ Len(cached[k]) >= 1 /\ cached[k][1] = s
    BY <1>4 DEF CacheRight
  <2>2. p = Put(fs, dst, cached[k])
    BY <1>4 DEF Moved, Path
  <2>3. \A x \in DOMAIN fs : fs[x][1] # s
    BY <1>0, <1>4 DEF SlowSoFar
  <2>4. dst \in {FastPath(s), SlowPath(s)}
    OBVIOUS
  <2>5. \A i \in Entries : entry[i].open /\ i # k => entry[i].shot # s
    BY <1>4 DEF CacheRight
  <2> HIDE DEF p, s
  <2>6. Filed(p, images, now)
    <3> HIDE DEF dst
    <3>1. Filed(fs, images, now)
      BY DEF SlowSoFar
    <3> QED  BY <2>1, <2>2, <2>3, <2>4, <3>1, PutFiled
  <2>7. /\ DOMAIN p = DOMAIN fs \union {dst} /\ p[dst] = cached[k]
        /\ \A x \in DOMAIN fs \ {dst} : p[x] = fs[x]
    <3> HIDE DEF dst
    <3> QED  BY <2>2 DEF Put
  <2> HIDE DEF dst
  <2>8. \A i \in Entries : entry[i].open /\ entry[i].same # NoPath =>
          entry[i].same = SlowPath(entry[i].shot) /\ entry[i].same \in DOMAIN p
    BY <2>7 DEF SlowSoFar
  <2>9. ASSUME NEW i \in Entries, entry[i].open, entry[i].same = NoPath, i > k,
               NEW x \in DOMAIN p
        PROVE  p[x][1] # entry[i].shot
    <3>1. entry[i].shot # s /\ i > k - 1
      BY <1>0, <2>5, <2>9
    <3>2. CASE x = dst
      BY <2>1, <2>7, <3>1, <3>2
    <3>3. CASE x # dst
      <4>1. x \in DOMAIN fs /\ p[x] = fs[x]
        BY <2>7, <3>3
      <4> QED  BY <2>9, <3>1, <4>1 DEF SlowSoFar
    <3> QED  BY <3>2, <3>3
  <2>10. ASSUME NEW x \in DOMAIN files PROVE KeptIn(p, x)
    <3> DEFINE shot == files[x][1]
    <3>1. shot \in Shots /\ x \in {FastPath(shot), SlowPath(shot)}
      BY DEF Filed
    <3>2. PICK y \in {x, FastPath(shot)} \intersect DOMAIN fs : Later(fs[y][1], shot)
      BY DEF SlowSoFar, KeptIn
    <3> HIDE DEF shot
    <3>3. CASE y # dst
      <4>1. y \in DOMAIN p /\ p[y] = fs[y]
        BY <2>7, <3>2, <3>3
      <4> QED  BY <3>2, <4>1 DEF KeptIn, shot
    <3>4. CASE y = dst
      <4>1. FastPath(shot) # SlowPath(s)
        BY <2>1, <3>1, PathsOfShots
      <4>2. y = x /\ SlowPath(shot) = SlowPath(s)
        BY <3>1, <3>2, <3>4, <4>1 DEF dst
      <4>3. Later(s, shot)
        BY <1>4, <4>2, Replaced DEF s, shot
      <4>4. y \in DOMAIN p /\ Later(p[y][1], shot)
        BY <2>1, <2>7, <3>4, <4>3
      <4> QED  BY <3>2, <4>4 DEF KeptIn, shot
    <3> QED  BY <3>3, <3>4
  <2> QED  BY <2>6, <2>8, <2>9, <2>10 DEF SlowSoFar, p
<1>5. entry[k].open \in BOOLEAN
  BY DEF CacheRight
<1> QED  BY <1>2, <1>3, <1>4, <1>5

(* What a commit for fast recording makes of the store, and one for slow.  *)
LEMMA FastCommit ==
  ASSUME CacheRight, Filed(files, images, now), CacheCommit(FALSE)
  PROVE  /\ Filed(files', images, now)
         /\ \A x \in DOMAIN files : KeptIn(files', x)
<1>1. CacheSize \in Nat
  BY DEF CacheRight
<1>2. PICK g : /\ files' = g[CacheSize] /\ g[0] = files
               /\ \A i \in 1 .. CacheSize : g[i] = Moved(g[i - 1], i, FALSE)
  BY <1>1, CommitSteps
<1> DEFINE S == {k \in 0 .. CacheSize : FastSoFar(g[k], k)}
<1>3. 0 \in S
  <2>1. \A i \in Entries : i > 0 /\ ~(i <= 0)
    BY <1>1 DEF Entries
  <2>2. FastSoFar(files, 0)
    BY <2>1 DEF FastSoFar, CacheRight, KeptIn, Later
  <2> QED  BY <1>1, <1>2, <2>2
<1>4. ASSUME NEW k \in 1 .. CacheSize, k - 1 \in S PROVE k \in S
  <2>1. k \in Entries /\ k \in 0 .. CacheSize
    BY <1>1 DEF Entries
  <2>2. FastSoFar(g[k - 1], k - 1)
    BY <1>4
  <2>3. FastSoFar(Moved(g[k - 1], k, FALSE), k)
    BY <2>1, <2>2, FastStep
  <2> QED  BY <1>2, <2>1, <2>3
<1>5. CacheSize \in S
  <2> HIDE DEF S
  <2>1. \A k \in 0 .. CacheSize : k \in S
    BY <1>1, <1>3, <1>4, UpToLast
  <2> QED  BY <1>1, <2>1
<1>6. FastSoFar(files', CacheSize)
  BY <1>2, <1>5
<1> QED  BY <1>6 DEF FastSoFar

LEMMA SlowCommit ==
  ASSUME CacheRight, Filed(files, images, now), CacheCommit(TRUE)
  PROVE  /\ Filed(files', images, now)
         /\ \A x \in DOMAIN files : KeptIn(files', x)
<1>1. CacheSize \in Nat
  BY DEF CacheRight
<1>2. PICK g : /\ files' = g[CacheSize] /\ g[0] = files
               /\ \A i \in 1 .. CacheSize : g[i] = Moved(g[i - 1], i, TRUE)
  BY <1>1, CommitSteps
<1> DEFINE S == {k \in 0 .. CacheSize : SlowSoFar(g[k], k)}
<1>3. 0 \in S
  <2>1. SlowSoFar(files, 0)
    BY DEF SlowSoFar, CacheRight, SavedAt, KeptIn, Later
  <2> QED  BY <1>1, <1>2, <2>1
<1>4. ASSUME NEW k \in 1 .. CacheSize, k - 1 \in S PROVE k \in S
  <2>1. k \in Entries /\ k \in 0 .. CacheSize
    BY <1>1 DEF Entries
  <2>2. SlowSoFar(g[k - 1], k - 1)
    BY <1>4
  <2>3. SlowSoFar(Moved(g[k - 1], k, TRUE), k)
    BY <2>1, <2>2, SlowStep
  <2> QED  BY <1>2, <2>1, <2>3
<1>5. CacheSize \in S
  <2> HIDE DEF S
  <2>1. \A k \in 0 .. CacheSize : k \in S
    BY <1>1, <1>3, <1>4, UpToLast
  <2> QED  BY <1>1, <2>1
<1>6. SlowSoFar(files', CacheSize)
  BY <1>2, <1>5
<1> QED  BY <1>6 DEF SlowSoFar

(* Whatever has become of the files in the store, each cached shot is put  *)
(* there.                                                                  *)
LeadReady ==
  /\ CacheSize \in Nat
  /\ \A i \in Entries : entry[i].open =>
       entry[i].shot \in Shots /\ entry[i].same \in {NoPath, SlowPath(entry[i].shot)}

LeadSoFar(fs, k, other) ==
  \A i \in Entries : entry[i].open /\ i <= k => Path(entry[i].shot, ~other) \in DOMAIN fs

LEMMA LeadStep ==
  ASSUME LeadReady, NEW other \in BOOLEAN, NEW k \in Entries, NEW fs,
         LeadSoFar(fs, k - 1, other)
  PROVE  LeadSoFar(Moved(fs, k, other), k, other)
<1> DEFINE s == entry[k].shot
           same == entry[k].same
           dst == Path(s, ~other)
           p == Moved(fs, k, other)
<1>1. CASE ~entry[k].open
  <2>1. p = fs
    BY <1>1 DEF Moved
  <2>2. \A i \in Entries : entry[i].open /\ i <= k => i <= k - 1
    BY <1>1 DEF Entries, LeadReady
  <2> QED  BY <2>1, <2>2 DEF LeadSoFar
<1>2. CASE entry[k].open
  <2>1. s \in Shots /\ same \in {NoPath, SlowPath(s)}
    BY <1>2 DEF LeadReady
  <2>2. p = IF same # NoPath /\ same \in DOMAIN fs THEN Rename(fs, same, dst)
            ELSE Put(fs, dst, cached[k])
    BY <1>2 DEF Moved
  <2> HIDE DEF p, dst
  <2>3. dst \in DOMAIN p /\ \A x \in DOMAIN fs : x \in DOMAIN p \/ (x = same /\ x # dst)
    BY <2>2 DEF Rename, Put
  <2>4. ASSUME NEW i \in Entries, entry[i].open, i <= k
        PROVE  Path(entry[i].shot, ~other) \in DOMAIN p
    <3>1. CASE i = k
      BY <2>3, <3>1 DEF dst
    <3>2. CASE i # k
      <4>1. i <= k - 1
        BY <2>4, <3>2 DEF Entries, LeadReady
      <4>2. Path(entry[i].shot, ~other) \in DOMAIN fs
        BY <2>4, <4>1 DEF LeadSoFar
      <4>3. CASE other
        <5>1. same # NoPath => same = dst
          BY <2>1, <4>3 DEF dst, Path
        <5>2. DOMAIN fs \subseteq DOMAIN p
          BY <2>2, <5>1 DEF Rename, Put
        <5> QED  BY <4>2, <5>2
      <4>4. CASE ~other
        <5>1. Path(entry[i].shot, ~other) = FastPath(entry[i].shot) /\ entry[i].shot \in Shots
          BY <2>4, <4>4 DEF Path, LeadReady
        <5>2. FastPath(entry[i].shot) # SlowPath(s)
          BY <2>1, <5>1, PathsOfShots
        <5>3. same = NoPath => DOMAIN fs \subseteq DOMAIN p
          BY <2>2 DEF Put
        <5> QED  BY <2>1, <2>3, <4>2, <5>1, <5>2, <5>3
      <4> QED  BY <4>3, <4>4
    <3> QED  BY <3>1, <3>2
  <2> QED  BY <2>4 DEF LeadSoFar, p
<1> QED  BY <1>1, <1>2

LEMMA LeadCommit ==
  ASSUME LeadReady, NEW other \in BOOLEAN, CacheCommit(other)
  PROVE  \A i \in Entries : entry[i].open => Path(entry[i].shot, ~other) \in DOMAIN files'
<1>1. CacheSize \in Nat
  BY DEF LeadReady
<1>2. PICK g : /\ files' = g[CacheSize] /\ g[0] = files
               /\ \A i \in 1 .. CacheSize : g[i] = Moved(g[i - 1], i, other)
  BY <1>1, CommitSteps
<1> DEFINE S == {k \in 0 .. CacheSize : LeadSoFar(g[k], k, other)}
<1>3. 0 \in S
  <2>1. \A i \in Entries : ~(i <= 0)
    BY <1>1 DEF Entries
  <2> QED  BY <1>1, <2>1 DEF LeadSoFar
<1>4. ASSUME NEW k \in 1 .. CacheSize, k - 1 \in S PROVE k \in S
  <2>1. k \in Entries /\ k \in 0 .. CacheSize
    BY <1>1 DEF Entries
  <2>2. LeadSoFar(g[k - 1], k - 1, other)
    BY <1>4
  <2>3. LeadSoFar(Moved(g[k - 1], k, other), k, other)
    BY <2>1, <2>2, LeadStep
  <2> QED  BY <1>2, <2>1, <2>3
<1>5. CacheSize \in S
  <2> HIDE DEF S
  <2>1. \A k \in 0 .. CacheSize : k \in S
    BY <1>1, <1>3, <1>4, UpToLast
  <2> QED  BY <1>1, <2>1
<1>6. \A i \in Entries : i <= CacheSize
  BY <1>1 DEF Entries
<1> QED  BY <1>2, <1>5, <1>6 DEF LeadSoFar

-----------------------------------------------------------------------------
(* The ring *)

LEMMA LatestShots ==
  ASSUME CacheSize \in Nat, NEW s \in Seq(Shots)
  PROVE  /\ LastOf(s) \in Seq(Shots)
         /\ Len(LastOf(s)) = IF Len(s) > CacheSize THEN CacheSize ELSE Len(s)
         /\ \A a \in 0 .. Len(LastOf(s)) - 1 :
              LastOf(s)[Len(LastOf(s)) - a] = s[Len(s) - a]
<1>1. CASE Len(s) > CacheSize
  <2> DEFINE m == Len(s) - CacheSize + 1
             r == SubSeq(s, m, Len(s))
  <2>1. LastOf(s) = r
    BY <1>1 DEF LastOf
  <2>2. m \in Nat /\ m >= 2 /\ Len(s) \in Nat /\ Len(s) - m + 1 = CacheSize
    BY <1>1
  <2>3. r \in Seq(Shots) /\ Len(r) = CacheSize
    BY <2>2
  <2>4. \A k \in 1 .. CacheSize : r[k] = s[m + k - 1]
    BY <2>2
  <2>5. ASSUME NEW a \in 0 .. CacheSize - 1 PROVE r[CacheSize - a] = s[Len(s) - a]
    <3>1. CacheSize - a \in 1 .. CacheSize /\ m + (CacheSize - a) - 1 = Len(s) - a
      BY <2>2
    <3> HIDE DEF r, m
    <3> QED  BY <2>4, <3>1
  <2> HIDE DEF r
  <2> QED  BY <1>1, <2>1, <2>3, <2>5
<1>2. CASE ~(Len(s) > CacheSize)
  <2>1. LastOf(s) = s
    BY <1>2 DEF LastOf
  <2> QED  BY <1>2, <2>1
<1> QED  BY <1>1, <1>2

(* A turn of the ring: the least recent entry is now the latest one.       *)
LEMMA NextAge ==
  ASSUME CacheSize \in Nat, m_p \in Entries, m_p' = Following(m_p)
  PROVE  /\ m_p' \in Entries
         /\ \A i \in Entries : Age(i) \in Nat /\ Age(i)' \in 0 .. CacheSize - 1
         /\ \A i \in Entries : Age(i)' = IF i = m_p' THEN 0 ELSE Age(i) + 1
<1>1. m_p \in Nat /\ 1 <= m_p /\ m_p <= CacheSize
  BY DEF Entries
<1>2. m_p' = IF m_p = CacheSize THEN 1 ELSE m_p + 1
  BY DEF Following
<1>3. m_p' \in 1 .. CacheSize
  BY <1>1, <1>2
<1>4. ASSUME NEW i \in 1 .. CacheSize
      PROVE  /\ Age(i) \in Nat /\ Age(i)' \in 0 .. CacheSize - 1
             /\ Age(i)' = IF i = m_p' THEN 0 ELSE Age(i) + 1
  BY <1>1, <1>2, <1>3 DEF Age
<1> QED  BY <1>3, <1>4 DEF Entries

LEMMA Cached ==
  ASSUME CacheTyped, Ring, EntriesRight, NEW shot \in Shots,
         NEW same \in {NoPath, SlowPath(shot)}, CacheStore(shot, same),
         recent' = LastOf(Append(recent, shot))
  PROVE  /\ CacheTyped' /\ Ring' /\ EntriesRight'
         /\ \E e : \A i \in Entries :
              entry'[i] = IF i = e THEN [open |-> TRUE, shot |-> shot, same |-> same]
                          ELSE entry[i]
<1> DEFINE s == Append(recent, shot)
           n == Len(recent)
           new == [open |-> TRUE, shot |-> shot, same |-> same]
<1>1. CacheSize \in Nat /\ recent \in Seq(Shots) /\ n \in Nat /\ n <= CacheSize
  BY CacheAssumption DEF CacheTyped, Ring
<1>2. s \in Seq(Shots) /\ Len(s) = n + 1 /\ s[n + 1] = shot
      /\ \A k \in 1 .. n : s[k] = recent[k]
  BY <1>1
<1>3. /\ recent' \in Seq(Shots) /\ Len(recent') = IF n + 1 > CacheSize THEN CacheSize ELSE n + 1
      /\ \A a \in 0 .. Len(recent') - 1 : recent'[Len(recent') - a] = s[n + 1 - a]
  <2>1. recent' = LastOf(s)
    OBVIOUS
  <2> HIDE DEF s
  <2>2. /\ LastOf(s) \in Seq(Shots)
        /\ Len(LastOf(s)) = IF Len(s) > CacheSize THEN CacheSize ELSE Len(s)
        /\ \A a \in 0 .. Len(LastOf(s)) - 1 :
             LastOf(s)[Len(LastOf(s)) - a] = s[Len(s) - a]
    BY <1>1, <1>2, LatestShots
  <2> HIDE DEF n
  <2>3. Len(s) = n + 1 /\ n \in Nat
    BY <1>1, <1>2
  <2> QED  BY <2>1, <2>2, <2>3
<1>4. Len(recent') \in Nat /\ Len(recent') <= CacheSize
  BY <1>1, <1>3
<1> HIDE DEF s
<1>5. CASE CacheSize = 0
  <2>1. Entries = {} /\ UNCHANGED cacheVars
    BY <1>5 DEF Entries, CacheStore
  <2>2. CacheTyped'
    BY <1>3, <2>1 DEF CacheTyped, cacheVars, Entries, Opened
  <2>3. Ring' /\ EntriesRight'
    BY <1>4, <2>1 DEF Ring, EntriesRight, Entries
  <2> QED  BY <2>1, <2>2, <2>3
<1>6. CASE CacheSize # 0
  <2> DEFINE e == m_p'
  <2>1. m_p \in Entries
    BY <1>1, <1>6 DEF CacheTyped, Entries
  <2>2. m_p' = Following(m_p)
    BY <1>6 DEF CacheStore
  <2>3. /\ e \in Entries
        /\ \A i \in Entries : Age(i) \in Nat /\ Age(i)' \in 0 .. CacheSize - 1
        /\ \A i \in Entries : Age(i)' = IF i = e THEN 0 ELSE Age(i) + 1
    BY <1>1, <2>1, <2>2, NextAge
  <2>4. /\ entry' = [entry EXCEPT ![e] = new]
        /\ cached' = [cached EXCEPT ![e] =
             Overwritten(IF entry[e].open THEN cached[e] ELSE <<>>, Blocks(shot))]
    BY <1>6, <2>2 DEF CacheStore
  <2> HIDE DEF e
  <2>5. new \in Opened /\ new.open /\ new.shot = shot /\ new.same = same
    <3>1. same \in Paths \union {NoPath}
      BY PathsOfShots
    <3> QED  BY <3>1 DEF Opened
  <2>6. Blocks(shot) \in Seq(Shots) /\ Len(Blocks(shot)) >= 1 /\ Blocks(shot)[1] = shot
    BY BlocksOfShot
  <2> HIDE DEF new
  <2>7. /\ cached \in [Entries -> Seq(Shots)] /\ DOMAIN entry = Entries
        /\ entry \in [Entries -> {ClosedEntry} \union Opened]
    BY DEF CacheTyped
  <2>8. entry' \in [Entries -> {ClosedEntry} \union Opened]
        /\ \A i \in Entries : entry'[i] = IF i = e THEN new ELSE entry[i]
    BY <2>3, <2>4, <2>5, <2>7
  <2> DEFINE old == IF entry[e].open THEN cached[e] ELSE <<>>
             c == Overwritten(old, Blocks(shot))
  <2>9. old \in Seq(Shots)
    BY <2>3, <2>7
  <2> HIDE DEF old
  <2>10. c \in Seq(Shots) /\ Len(c) >= 1 /\ c[1] = shot
    BY <2>6, <2>9, OverwrittenBegins
  <2>11. cached' = [cached EXCEPT ![e] = c]
    BY <2>4 DEF old
  <2> HIDE DEF c
  <2>12. cached' \in [Entries -> Seq(Shots)]
         /\ \A i \in Entries : cached'[i] = IF i = e THEN c ELSE cached[i]
    BY <2>3, <2>7, <2>10, <2>11
  <2>13. CacheTyped'
    BY <1>3, <2>3, <2>8, <2>12 DEF CacheTyped, e, Entries, Opened
  <2>14. EntriesRight'
    <3> SUFFICES ASSUME NEW i \in Entries, entry'[i].open
                 PROVE  /\ Len(cached'[i]) >= 1 /\ cached'[i][1] = entry'[i].shot
                        /\ entry'[i].same \in {NoPath, SlowPath(entry'[i].shot)}
      BY DEF EntriesRight, Entries, SlowPath
    <3> QED  BY <2>5, <2>8, <2>10, <2>12 DEF EntriesRight
  <2>15. Ring'
    <3>1. ASSUME NEW i \in Entries
          PROVE  /\ entry'[i].open <=> Age(i)' < Len(recent')
                 /\ entry'[i].open => entry'[i].shot = recent'[Len(recent') - Age(i)']
      <4>1. CASE i = e
        <5>1. Len(recent') >= 1
          BY <1>1, <1>3, <1>6
        <5>2. recent'[Len(recent') - 0] = s[n + 1 - 0]
          BY <1>3, <5>1
        <5>3. recent'[Len(recent')] = shot
          BY <1>1, <1>2, <1>4, <5>2
        <5>4. entry'[i] = new /\ Age(i)' = 0
          BY <2>3, <2>8, <4>1
        <5> QED  BY <1>4, <2>5, <5>1, <5>3, <5>4
      <4>2. CASE i # e
        <5> DEFINE a == Age(i)
        <5>1. a \in Nat /\ Age(i)' = a + 1 /\ a + 1 <= CacheSize - 1 /\ entry'[i] = entry[i]
          BY <1>1, <2>3, <2>8, <4>2
        <5>2. (entry[i].open <=> a < n)
              /\ (entry[i].open => entry[i].shot = recent[n - a])
          BY DEF Ring
        <5> HIDE DEF a
        <5>3. a < n <=> a + 1 < Len(recent')
          BY <1>1, <1>3, <5>1
        <5>4. ASSUME a < n PROVE recent'[Len(recent') - (a + 1)] = recent[n - a]
          <6>1. a + 1 \in 0 .. Len(recent') - 1 /\ n + 1 - (a + 1) = n - a /\ n - a \in 1 .. n
            BY <1>1, <1>4, <5>1, <5>3, <5>4
          <6>2. recent'[Len(recent') - (a + 1)] = s[n - a]
            BY <1>3, <6>1
          <6> QED  BY <1>2, <6>1, <6>2
        <5> QED  BY <5>1, <5>2, <5>3, <5>4
      <4> QED  BY <4>1, <4>2
    <3> QED  BY <1>4, <3>1 DEF Ring, Entries
  <2> QED  BY <2>8, <2>13, <2>14, <2>15 DEF new
<1> QED  BY <1>5, <1>6

-----------------------------------------------------------------------------
(* Recording an image *)

LEMMA Checked ==
  ASSUME CacheInductive, CheckState
  PROVE  /\ m_state' \in {"stopped", "slow", "fast"} /\ m_old_state' \in {"init", "stopped", "slow"}
         /\ m_fast_time' \in 0 .. MaxNow
         /\ m_state' = "fast" => m_state = "fast" /\ m_old_state' = lasting
         /\ m_state' # "fast" => m_state' = lasting
<1>1. StateTyped /\ StateRight
  BY DEF CacheInductive, RecorderTyped
<1>2. CASE UNCHANGED recording
  BY <1>1, <1>2 DEF StateTyped, StateRight, recording
<1>3. CASE m_state = "fast" /\ SetState(m_old_state)
  BY <1>1, <1>3 DEF StateTyped, StateRight, SetState
<1> QED  BY <1>2, <1>3 DEF CheckState, FastForLong

LEMMA NewShot ==
  ASSUME CacheInductive, images < MaxImages + gone, NEW size \in Sizes
  PROVE  /\ Shot(size) \in Shots /\ Shot(size).id = images + 1 /\ Shot(size).at = now
<1>1. MaxImages \in Nat /\ MaxGone \in Nat
  BY RecorderAssumption
<1>2. images \in Nat /\ gone \in Nat /\ gone <= MaxGone /\ now \in 0 .. MaxNow
  BY DEF CacheInductive, RecorderTyped, OtherTyped, Counted
<1>3. images + 1 \in 1 .. MaxImages + MaxGone
  BY <1>1, <1>2
<1> QED  BY <1>2, <1>3 DEF Shot, Shots

(* Nothing is saved, when the recorder is stopped or the last one was      *)
(* saved there, or the shot is.                                            *)
NotSaved(shot, path) ==
  /\ path = NoPath /\ UNCHANGED <<files, m_old_path>>
  /\ m_state' = "stopped" \/ m_old_path = Path(shot, m_state' = "fast")

SavedAs(shot, path) ==
  /\ path # m_old_path /\ path = Path(shot, m_state' = "fast") /\ m_state' # "stopped"
  /\ files' = Put(files, path, Blocks(shot)) /\ m_old_path' = path

LEMMA RecordedAs ==
  ASSUME CacheInductive, images < MaxImages + gone, NEW size \in Sizes, Record(size)
  PROVE  /\ images' = images + 1 /\ faults' \in Nat
         /\ m_old_path' \in Paths \union {NoPath}
         /\ \E path \in {NoPath, Path(Shot(size), m_state' = "fast")} :
              IF m_state' # "fast"
              THEN CacheStore(Shot(size), path) /\ recent' = LastOf(Append(recent, Shot(size)))
              ELSE UNCHANGED <<cacheVars, recent>>
<1> DEFINE shot == Shot(size)
           fast == m_state' = "fast"
<1>1. PICK out \in IF m_state' = "stopped" THEN {SaveSkipped} ELSE SaveOutcomes(shot, fast) :
        /\ images' = images + 1
        /\ faults' = IF out.failed THEN faults + 1 ELSE faults
        /\ m_old_path' = out.old
        /\ IF m_state' # "fast"
           THEN CacheStore(shot, out.path) /\ recent' = LastOf(Append(recent, shot))
           ELSE UNCHANGED <<cacheVars, recent>>
  BY DEF Record
<1>2. faults \in Nat /\ m_old_path \in Paths \union {NoPath}
  BY DEF CacheInductive, RecorderTyped, OtherTyped
<1>3. faults' \in Nat
  BY <1>1, <1>2
<1>4. Path(shot, fast) \in Paths
  <2>1. shot \in Shots
    BY NewShot
  <2> QED  BY <2>1, PathsOfShots DEF Path
<1>5. out.path \in {NoPath, Path(shot, fast)} /\ out.old \in Paths \union {NoPath}
  <2> HIDE DEF shot, fast
  <2>1. CASE out = SaveSkipped
    BY <1>2, <2>1 DEF SaveSkipped
  <2>2. CASE out \in SaveOutcomes(shot, fast)
    BY <1>2, <1>4, <2>2 DEF SaveOutcomes, Outcome, SaveSkipped
  <2> QED  BY <2>1, <2>2
<1> QED  BY <1>1, <1>3, <1>5

LEMMA SavedOrNot ==
  ASSUME MaxFaults = 0, faults = 0, NEW size, Record(size)
  PROVE  /\ images' = images + 1 /\ faults' = 0
         /\ \E path :
              /\ NotSaved(Shot(size), path) \/ SavedAs(Shot(size), path)
              /\ IF m_state' # "fast"
                 THEN CacheStore(Shot(size), path) /\ recent' = LastOf(Append(recent, Shot(size)))
                 ELSE UNCHANGED <<cacheVars, recent>>
<1> DEFINE shot == Shot(size)
           fast == m_state' = "fast"
<1>1. PICK out \in IF m_state' = "stopped" THEN {SaveSkipped} ELSE SaveOutcomes(shot, fast) :
        /\ images' = images + 1
        /\ out.failed => faults < MaxFaults
        /\ faults' = IF out.failed THEN faults + 1 ELSE faults
        /\ files' = out.files /\ m_old_path' = out.old
        /\ IF m_state' # "fast"
           THEN CacheStore(shot, out.path) /\ recent' = LastOf(Append(recent, shot))
           ELSE UNCHANGED <<cacheVars, recent>>
  BY DEF Record
<1> HIDE DEF shot
<1>2. ~out.failed
  BY <1>1
<1>3. CASE out = SaveSkipped
  <2>1. m_state' = "stopped" \/ m_old_path = Path(shot, fast)
    <3>1. ASSUME m_state' # "stopped", m_old_path # Path(shot, fast) PROVE FALSE
      <4>1. out \in SaveOutcomes(shot, fast)
        BY <1>1, <3>1
      <4>2. out = Outcome(Put(files, Path(shot, fast), Blocks(shot)), Path(shot, fast),
                          Path(shot, fast), FALSE)
        BY <1>2, <3>1, <4>1 DEF SaveOutcomes, Outcome
      <4>3. out.old = Path(shot, fast) /\ out.old = m_old_path
        BY <1>3, <4>2 DEF Outcome, SaveSkipped
      <4> QED  BY <3>1, <4>3
    <3> QED  BY <3>1
  <2>2. out.files = files /\ out.old = m_old_path /\ out.path = NoPath
    BY <1>3 DEF SaveSkipped
  <2>3. NotSaved(shot, NoPath)
    BY <1>1, <2>1, <2>2 DEF NotSaved
  <2> QED  BY <1>1, <1>2, <2>2, <2>3 DEF shot
<1>4. CASE out # SaveSkipped
  <2> DEFINE path == Path(shot, fast)
  <2>1. m_state' # "stopped" /\ out \in SaveOutcomes(shot, fast)
    BY <1>1, <1>4
  <2>2. path # m_old_path
    BY <1>4, <2>1 DEF SaveOutcomes
  <2>3. out = Outcome(Put(files, path, Blocks(shot)), path, path, FALSE)
    BY <1>2, <2>1, <2>2 DEF SaveOutcomes, Outcome
  <2>4. out.files = Put(files, path, Blocks(shot)) /\ out.old = path /\ out.path = path
    BY <2>3 DEF Outcome
  <2>5. SavedAs(shot, path)
    BY <1>1, <2>1, <2>2, <2>4 DEF SavedAs
  <2> QED  BY <1>1, <1>2, <2>4, <2>5 DEF shot
<1> QED  BY <1>3, <1>4

(* The path that an image is saved to.                                     *)
LEMMA NewPath ==
  ASSUME CacheInductive, images < MaxImages + gone, NEW size \in Sizes,
         NEW path, SavedAs(Shot(size), path)
  PROVE  /\ path \in {FastPath(Shot(size)), SlowPath(Shot(size))} /\ path \in Paths
         /\ path # NoPath /\ path[1] = 1 + (now \div PerSec) /\ path[1] \in Nat
         /\ m_state' # "fast" => path = SlowPath(Shot(size)) /\ path[2] = 0
         /\ path = IF m_state' = "fast" THEN ThisInstant ELSE ThisSecond
<1>1. Shot(size) \in Shots /\ Shot(size).at = now
  BY NewShot
<1>2. path \in {FastPath(Shot(size)), SlowPath(Shot(size))}
      /\ path = IF m_state' = "fast" THEN FastPath(Shot(size)) ELSE SlowPath(Shot(size))
  BY DEF SavedAs, Path
<1>3. path \in Paths /\ path # NoPath
  BY <1>1, <1>2, PathsOfShots
<1>4. now \in Nat /\ PerSec \in Nat \ {0}
  BY CacheAssumption, RecorderAssumption DEF CacheInductive, RecorderTyped, OtherTyped
<1>5. now \div PerSec \in Nat
  BY <1>4
<1> QED  BY <1>1, <1>2, <1>3, <1>5 DEF FastPath, SlowPath, ThisInstant, ThisSecond

(* A cached shot that has been saved is not where the next one goes.       *)
LEMMA SavedElsewhere ==
  ASSUME RecorderInductive, images < MaxImages + gone, NEW size \in Sizes,
         NEW path, SavedAs(Shot(size), path), m_state' # "fast",
         NEW i \in Entries, entry[i].open, entry[i].same # NoPath
  PROVE  /\ entry[i].same # path /\ entry[i].same[1] <= path[1]
         /\ entry[i].same[1] # path[1]
<1> DEFINE same == entry[i].same
           sec == 1 + (now \div PerSec)
<1>1. path[1] = sec /\ path[2] = 0 /\ sec \in Nat /\ path \in Paths /\ path # m_old_path
  BY NewPath DEF SavedAs, RecorderInductive
<1>2. /\ m_old_path # NoPath /\ m_old_path[1] <= sec
      /\ same[1] <= m_old_path[1]
      /\ same[1] = m_old_path[1] => same = m_old_path
  BY DEF RecorderInductive, StoreRight, SavedLast
<1>3. m_old_path \in Paths
  BY <1>2 DEF RecorderInductive, CacheInductive, RecorderTyped, OtherTyped
<1>4. entry[i].shot \in Shots /\ same = SlowPath(entry[i].shot)
  <2>1. entry[i] \in Opened
    BY DEF RecorderInductive, CacheInductive, RecorderTyped, CacheTyped, ClosedEntry
  <2> QED  BY <2>1 DEF Opened, RecorderInductive, CacheInductive, EntriesRight
<1>5. same \in Paths /\ same[2] = 0
  <2>1. same \in Paths
    BY <1>4, PathsOfShots
  <2> QED  BY <1>4, <2>1 DEF SlowPath
<1> HIDE DEF same, sec
<1>6. \A x \in Paths : x[1] \in Nat
  <2>1. MaxNow \div PerSec \in Nat
    BY CacheAssumption, RecorderAssumption
  <2> QED  BY <2>1 DEF Paths
<1>7. \A x, y \in Paths : x[1] = y[1] /\ x[2] = y[2] => x = y
  BY DEF Paths
<1>8. same[1] # path[1]
  <2> SUFFICES ASSUME same[1] = path[1] PROVE FALSE
    OBVIOUS
  <2>1. same = path
    BY <1>1, <1>5, <1>7
  <2>2. same[1] = m_old_path[1]
    BY <1>1, <1>2, <1>3, <1>5, <1>6
  <2> QED  BY <1>1, <1>2, <2>1, <2>2
<1>9. same[1] <= path[1]
  BY <1>1, <1>2, <1>3, <1>5, <1>6
<1> QED  BY <1>8, <1>9 DEF same

LEMMA FiledMore ==
  ASSUME NEW fs, NEW n \in Nat, NEW t \in Nat, Filed(fs, n, t)
  PROVE  /\ Filed(fs, n + 1, t)
         /\ \A x \in DOMAIN fs : \A s \in Shots :
              s.id = n + 1 => fs[x][1] # s /\ fs[x][1].id < s.id
<1>1. \A x \in DOMAIN fs : fs[x][1].id <= n /\ fs[x][1] \in Shots
  BY DEF Filed
<1>2. \A s \in Shots : s.id \in Nat
  BY PathsOfShots
<1>3. \A x \in DOMAIN fs : fs[x][1].id <= n + 1 /\ fs[x][1].id < n + 1
  BY <1>1, <1>2
<1>4. Filed(fs, n + 1, t)
  BY <1>3 DEF Filed
<1>5. ASSUME NEW x \in DOMAIN fs, NEW s \in Shots, s.id = n + 1
      PROVE  fs[x][1] # s /\ fs[x][1].id < s.id
  <2>1. fs[x][1].id < n + 1 /\ n + 1 \in Nat /\ ~(n + 1 < n + 1)
    BY <1>3
  <2> QED  BY <1>5, <2>1
<1> QED  BY <1>4, <1>5

LEMMA FiledLater ==
  ASSUME NEW fs, NEW n \in Nat, NEW t \in Nat, NEW u \in Nat, t <= u, Filed(fs, n, t)
  PROVE  Filed(fs, n, u)
<1>1. \A x \in DOMAIN fs : fs[x][1].at \in Nat
  BY PathsOfShots DEF Filed
<1>2. \A x \in DOMAIN fs : fs[x][1].at <= u
  BY <1>1 DEF Filed
<1> QED  BY <1>2 DEF Filed

(* The cache after an image has been recorded, whatever failed.            *)
LEMMA RecordedInCache ==
  ASSUME CacheInductive, images < MaxImages + gone, CheckState,
         NEW size \in Sizes, Record(size)
  PROVE  /\ CacheTyped' /\ Ring' /\ EntriesRight'
         /\ m_old_path' \in Paths \union {NoPath}
         /\ images' = images + 1 /\ faults' \in Nat
         /\ m_state' = "fast" => recent' = <<>> /\ \A i \in Entries : entry'[i] = ClosedEntry
<1> DEFINE shot == Shot(size)
<1>1. CacheTyped /\ Ring /\ EntriesRight
  BY DEF CacheInductive, RecorderTyped
<1>2. shot \in Shots
  BY NewShot
<1>3. PICK path \in {NoPath, Path(shot, m_state' = "fast")} :
        IF m_state' # "fast"
        THEN CacheStore(shot, path) /\ recent' = LastOf(Append(recent, shot))
        ELSE UNCHANGED <<cacheVars, recent>>
  BY RecordedAs
<1>4. /\ m_old_path' \in Paths \union {NoPath}
      /\ images' = images + 1 /\ faults' \in Nat
  BY RecordedAs
<1> HIDE DEF shot
<1>5. CASE m_state' = "fast"
  <2>1. m_state = "fast" /\ UNCHANGED <<cacheVars, recent>>
    BY <1>3, <1>5, Checked
  <2>2. recent = <<>> /\ \A i \in Entries : entry[i] = ClosedEntry
    BY <2>1 DEF CacheInductive, StateRight
  <2>3. CacheTyped'
    BY <1>1, <2>1 DEF CacheTyped, cacheVars, Entries, Opened
  <2>4. Ring' /\ EntriesRight'
    BY <1>1, <2>1 DEF Ring, EntriesRight, Age, cacheVars, Entries
  <2> QED  BY <1>4, <2>1, <2>2, <2>3, <2>4 DEF cacheVars
<1>6. CASE m_state' # "fast"
  <2>1. path \in {NoPath, SlowPath(shot)}
    BY <1>3, <1>6 DEF Path
  <2>2. CacheStore(shot, path) /\ recent' = LastOf(Append(recent, shot))
    BY <1>3, <1>6
  <2> QED  BY <1>1, <1>2, <1>4, <1>6, <2>1, <2>2, Cached
<1> QED  BY <1>5, <1>6

(* What has been recorded is still there, or a later image has its name.   *)
Kept ==
  \A x \in DOMAIN files :
    LET shot == files[x][1] IN
    \E y \in {x, FastPath(shot)} \intersect DOMAIN files' :
      \/ files'[y][1] = shot
      \/ /\ files'[y][1].id > shot.id
         /\ IF commands' > commands
            THEN \E i \in DOMAIN recent : files'[y][1] = recent[i]
            ELSE ~settled

(* The store, if nothing fails.                                            *)
LEMMA RecordedInStore ==
  ASSUME MaxFaults = 0, RecorderInductive, images < MaxImages + gone, CheckState,
         NEW size \in Sizes, Record(size), now' = now, settled' = settled, commands' = commands
  PROVE  StoreRight' /\ Kept
<1> DEFINE shot == Shot(size)
<1>1. /\ CacheTyped /\ Ring /\ EntriesRight /\ Numbered /\ Saved /\ SavedLast
      /\ Filed(files, images, now) /\ images \in Nat /\ now \in Nat
      /\ m_old_path \in Paths \union {NoPath} /\ faults = 0 /\ commands \in Nat
      /\ CachedLater /\ SlowSaved /\ SettledRight
  BY RecorderAssumption
     DEF RecorderInductive, CacheInductive, StoreRight, RecorderTyped, OtherTyped
<1>2. shot \in Shots /\ shot.id = images + 1 /\ shot.at = now
  BY NewShot DEF RecorderInductive
<1>3. PICK path :
        /\ NotSaved(shot, path) \/ SavedAs(shot, path)
        /\ IF m_state' # "fast"
           THEN CacheStore(shot, path) /\ recent' = LastOf(Append(recent, shot))
           ELSE UNCHANGED <<cacheVars, recent>>
  BY <1>1, SavedOrNot
<1>4. images' = images + 1 /\ faults' = 0
  BY <1>1, SavedOrNot
<1>5. SavedAs(shot, path) =>
        /\ path \in {FastPath(shot), SlowPath(shot)} /\ path \in Paths /\ path # NoPath
        /\ path[1] = 1 + (now \div PerSec) /\ path[1] \in Nat
        /\ m_state' # "fast" => path = SlowPath(shot)
        /\ path = IF m_state' = "fast" THEN ThisInstant ELSE ThisSecond
        /\ path # m_old_path /\ m_old_path' = path /\ m_state' # "stopped"
  BY NewPath DEF RecorderInductive, SavedAs
<1>6. SavedAs(shot, path) /\ m_state' # "fast" =>
        \A i \in Entries : entry[i].open /\ entry[i].same # NoPath =>
          entry[i].same # path /\ entry[i].same[1] <= path[1] /\ entry[i].same[1] # path[1]
  BY SavedElsewhere
<1>6a. NotSaved(shot, path) =>
         path = NoPath /\ files' = files /\ m_old_path' = m_old_path
  BY DEF NotSaved
<1>6b. SlowPath(shot) = ThisSecond /\ FastPath(shot) = ThisInstant
  BY <1>2 DEF SlowPath, FastPath, ThisSecond, ThisInstant
<1>6c. ThisSecond # ThisInstant
  <2>1. now % PerSec \in Nat
    BY <1>1, CacheAssumption
  <2> QED  BY <2>1 DEF ThisSecond, ThisInstant
<1>7. /\ \A x \in DOMAIN files : files[x][1] # shot /\ files[x][1].id < shot.id
      /\ Filed(files, images + 1, now)
  BY <1>1, <1>2, FiledMore
<1> HIDE DEF shot
<1>8. m_state' # "fast" => path \in {NoPath, SlowPath(shot)}
  BY <1>3, <1>5, <1>6a
<1>9. Blocks(shot) \in Seq(Shots) /\ Len(Blocks(shot)) >= 1 /\ Blocks(shot)[1] = shot
  BY <1>2, BlocksOfShot
<1>10. Filed(files', images', now')
  <2>1. CASE NotSaved(shot, path)
    BY <1>4, <1>6a, <1>7, <2>1
  <2>2. CASE SavedAs(shot, path)
    <3> DEFINE blocks == Blocks(shot)
    <3>1. /\ blocks \in Seq(Shots) /\ Len(blocks) >= 1 /\ blocks[1] = shot
          /\ path # NoPath /\ path \in {FastPath(shot), SlowPath(shot)}
      BY <1>5, <1>9, <2>2
    <3> HIDE DEF blocks
    <3>2. \A x \in DOMAIN files : files[x][1] # shot
      BY <1>7
    <3>3. /\ images + 1 \in Nat /\ now \in Nat /\ shot \in Shots
          /\ shot.id <= images + 1 /\ shot.at <= now
      BY <1>1, <1>2
    <3>4. Filed(Put(files, path, blocks), images + 1, now)
      BY <1>7, <3>1, <3>2, <3>3, PutFiled
    <3> USE DEF blocks
    <3> QED  BY <1>4, <2>2, <3>4 DEF SavedAs
  <2> QED  BY <1>3, <2>1, <2>2
<1>10a. settled =>
          /\ ThisSecond \in DOMAIN files => m_state' # "fast" /\ m_old_path = ThisSecond
          /\ m_state' = "fast" /\ ThisInstant \in DOMAIN files => m_old_path = ThisInstant
  <2>1. m_state' = "fast" => m_state = "fast"
    BY Checked DEF RecorderInductive
  <2> QED  BY <1>1, <2>1 DEF SettledRight
<1>11. /\ DOMAIN files \subseteq DOMAIN files'
       /\ \A x \in DOMAIN files : files'[x] = files[x] \/ (SavedAs(shot, path) /\ x = path)
       /\ SavedAs(shot, path) => path \in DOMAIN files' /\ files'[path][1] = shot
       /\ \A x \in DOMAIN files' : x \in DOMAIN files \/ (SavedAs(shot, path) /\ x = path)
  BY <1>3, <1>6a, <1>9 DEF SavedAs, Put
<1>11a. Kept
  <2> SUFFICES ASSUME NEW x \in DOMAIN files
               PROVE  /\ x \in DOMAIN files'
                      /\ \/ files'[x][1] = files[x][1]
                         \/ files'[x][1].id > files[x][1].id /\ ~settled
    <3>1. ~(commands' > commands)
      BY <1>1
    <3> QED  BY <3>1 DEF Kept
  <2>1. CASE files'[x] = files[x]
    BY <1>11, <2>1
  <2>2. CASE SavedAs(shot, path) /\ x = path
    <3>1. files'[x][1] = shot /\ files[x][1].id < shot.id /\ x \in DOMAIN files'
      BY <1>7, <1>11, <2>2
    <3>2. ~settled
      BY <1>5, <1>10a, <2>2
    <3>3. files[x][1].id \in Nat /\ shot.id \in Nat
      <4>1. files[x][1] \in Shots
        BY <1>1 DEF Filed
      <4> QED  BY <1>2, <4>1, PathsOfShots
    <3> QED  BY <3>1, <3>2, <3>3
  <2> QED  BY <1>11, <2>1, <2>2
<1>11b. settled /\ ThisSecond \in DOMAIN files' => m_state' # "fast" /\ m_old_path' = ThisSecond
  <2>1. CASE NotSaved(shot, path)
    BY <1>6a, <1>10a, <2>1
  <2>2. CASE SavedAs(shot, path)
    BY <1>5, <1>6c, <1>10a, <1>11, <2>2
  <2> QED  BY <1>3, <2>1, <2>2
<1>11c. settled /\ m_state' = "fast" /\ ThisInstant \in DOMAIN files' => m_old_path' = ThisInstant
  <2>1. CASE NotSaved(shot, path)
    BY <1>6a, <1>10a, <2>1
  <2>2. CASE SavedAs(shot, path)
    BY <1>5, <2>2
  <2> QED  BY <1>3, <2>1, <2>2
<1>11d. SettledRight'
  <2>1. ThisSecond' = ThisSecond /\ ThisInstant' = ThisInstant
    BY DEF ThisSecond, ThisInstant
  <2> QED  BY <1>11b, <1>11c, <2>1 DEF SettledRight
<1>12. CASE m_state' = "fast"
  <2>1. m_state = "fast" /\ UNCHANGED <<cacheVars, recent>>
    BY <1>3, <1>12, Checked DEF RecorderInductive
  <2>2. \A i \in Entries : entry[i] = ClosedEntry
    BY <2>1 DEF RecorderInductive, CacheInductive, StateRight
  <2>4. \A i \in Entries : entry'[i] = ClosedEntry /\ ~entry'[i].open
    BY <2>1, <2>2 DEF ClosedEntry, cacheVars
  <2>6. Numbered' /\ Saved' /\ CachedLater' /\ SlowSaved'
    BY <1>12, <2>4 DEF Numbered, Saved, CachedLater, SlowSaved, Entries
  <2>7. SavedLast'
    <3>1. m_old_path' # NoPath => m_old_path'[1] <= 1 + (now \div PerSec)
      <4>1. CASE NotSaved(shot, path)
        BY <1>1, <1>6a, <4>1 DEF SavedLast
      <4>2. CASE SavedAs(shot, path)
        BY <1>5, <4>2 DEF SavedAs
      <4> QED  BY <1>3, <4>1, <4>2
    <3> QED  BY <2>4, <3>1 DEF SavedLast, Entries
  <2> QED  BY <1>4, <1>10, <1>11a, <1>11d, <2>6, <2>7 DEF StoreRight
<1>13. CASE m_state' # "fast"
  <2> DEFINE new == [open |-> TRUE, shot |-> shot, same |-> path]
  <2>1. CacheStore(shot, path) /\ recent' = LastOf(Append(recent, shot))
    BY <1>3, <1>13
  <2>3. PICK e : \A i \in Entries : entry'[i] = IF i = e THEN new ELSE entry[i]
    BY <1>1, <1>2, <1>8, <1>13, <2>1, Cached
  <2>4. new.shot = shot /\ new.same = path
    OBVIOUS
  <2> HIDE DEF new
  <2>5. \A i \in Entries : entry[i].open => entry[i].shot \in Shots /\ entry[i].shot.id <= images
    <3> SUFFICES ASSUME NEW i \in Entries, entry[i].open
                 PROVE  entry[i].shot \in Shots /\ entry[i].shot.id <= images
      OBVIOUS
    <3>1. entry[i] \in Opened
      BY <1>1 DEF CacheTyped, ClosedEntry
    <3> QED  BY <1>1, <3>1 DEF Opened, Numbered
  <2>6. \A s \in Shots : s.id \in Nat
    BY PathsOfShots
  <2>7. Numbered'
    <3>1. ASSUME NEW i \in Entries, entry'[i].open
          PROVE  entry'[i].shot.id <= images' /\ entry'[i].shot.at <= now'
      <4>1. CASE i = e
        BY <1>1, <1>2, <1>4, <2>3, <2>4, <4>1
      <4>2. CASE i # e
        <5>1. entry'[i] = entry[i] /\ entry[i].shot.id \in Nat /\ entry[i].shot.id <= images
          BY <2>3, <2>5, <2>6, <3>1, <4>2
        <5> QED  BY <1>1, <1>4, <3>1, <5>1 DEF Numbered
      <4> QED  BY <4>1, <4>2
    <3>2. \A i, j \in Entries :
            entry'[i].open /\ entry'[j].open /\ entry'[i].shot.id = entry'[j].shot.id => i = j
      <4>1. \A i \in Entries : entry[i].open => entry[i].shot.id # images + 1
        BY <1>1, <2>5, <2>6
      <4> QED  BY <1>1, <1>2, <2>3, <2>4, <4>1 DEF Numbered
    <3> QED  BY <3>1, <3>2 DEF Numbered, Entries
  <2>8. ASSUME NEW i \in Entries, entry'[i].open PROVE SavedAt(files, i)'
    <3>1. CASE i = e
      <4>1. entry'[i].shot = shot /\ entry'[i].same = path
        BY <2>3, <2>4, <3>1
      <4>2. CASE NotSaved(shot, path)
        BY <1>6a, <1>7, <4>1, <4>2 DEF SavedAt
      <4>3. CASE SavedAs(shot, path)
        BY <1>5, <1>11, <1>13, <4>1, <4>3 DEF SavedAt
      <4> QED  BY <1>3, <4>2, <4>3
    <3>2. CASE i # e
      <4>1. entry'[i] = entry[i] /\ entry[i].open
        BY <2>3, <2>8, <3>2
      <4>2. SavedAt(files, i) /\ entry[i].shot # shot
        BY <1>1, <1>2, <2>5, <2>6, <4>1 DEF Saved
      <4>3. CASE entry[i].same = NoPath
        BY <1>11, <4>1, <4>2, <4>3 DEF SavedAt
      <4>4. CASE entry[i].same # NoPath
        <5>1. SavedAs(shot, path) => entry[i].same # path
          BY <1>6, <1>13, <4>1, <4>4
        <5> QED  BY <1>11, <4>1, <4>2, <4>4, <5>1 DEF SavedAt
      <4> QED  BY <4>3, <4>4
    <3> QED  BY <3>1, <3>2
  <2>9. Saved'
    BY <2>8 DEF Saved, Entries
  <2>10. SavedLast'
    <3>1. CASE NotSaved(shot, path)
      <4>1. \A i \in Entries : entry'[i].open /\ entry'[i].same # NoPath =>
              entry[i].open /\ entry'[i] = entry[i]
        BY <1>6a, <2>3, <2>4, <3>1
      <4> QED  BY <1>1, <1>6a, <3>1, <4>1 DEF SavedLast, Entries
    <3>2. CASE SavedAs(shot, path)
      <4>1. m_old_path' = path /\ path # NoPath /\ path[1] = 1 + (now \div PerSec)
            /\ path[1] \in Nat
        BY <1>5, <3>2 DEF SavedAs
      <4>2. ASSUME NEW i \in Entries, entry'[i].open, entry'[i].same # NoPath
            PROVE  /\ entry'[i].same[1] <= path[1]
                   /\ entry'[i].same[1] = path[1] => entry'[i].same = path
        <5>1. CASE i = e
          BY <2>3, <2>4, <4>1, <5>1
        <5>2. CASE i # e
          BY <1>6, <1>13, <2>3, <3>2, <4>2, <5>2
        <5> QED  BY <5>1, <5>2
      <4> QED  BY <4>1, <4>2 DEF SavedLast, Entries
    <3> QED  BY <1>3, <3>1, <3>2
  <2>11. ASSUME NEW i \in Entries, entry[i].open, m_state' = "slow",
                SlowPath(entry[i].shot) = ThisSecond
         PROVE  m_old_path = ThisSecond
    <3>1. m_state # "fast"
      BY <2>11 DEF RecorderInductive, CacheInductive, StateRight, ClosedEntry
    <3>2. m_state = "slow"
      BY <1>13, <3>1, <2>11 DEF CheckState, FastForLong, recording
    <3> QED  BY <1>1, <2>11, <3>2 DEF SlowSaved
  <2>12. SlowSaved'
    <3> SUFFICES ASSUME m_state' = "slow", NEW i \in Entries, entry'[i].open,
                        SlowPath(entry'[i].shot) = ThisSecond
                 PROVE  m_old_path' = ThisSecond
      BY DEF SlowSaved, ThisSecond, SlowPath, Entries
    <3>1. CASE SavedAs(shot, path)
      BY <1>5, <1>13, <3>1
    <3>2. CASE NotSaved(shot, path)
      <4>1. m_old_path = ThisSecond
        BY <1>6b, <3>2 DEF NotSaved, Path
      <4> QED  BY <1>6a, <3>2, <4>1
    <3> QED  BY <1>3, <3>1, <3>2
  <2>13. ASSUME NEW x \in DOMAIN files', NEW i \in Entries, entry'[i].open,
                SlowPath(files'[x][1]) = SlowPath(entry'[i].shot)
         PROVE  files'[x][1] = entry'[i].shot \/ files'[x][1].id < entry'[i].shot.id
    <3>1. CASE SavedAs(shot, path) /\ x = path
      <4>1. files'[x][1] = shot /\ m_state' = "slow" /\ m_old_path # ThisSecond
        <5>1. m_state' \in {"stopped", "slow", "fast"}
          BY Checked DEF RecorderInductive
        <5> QED  BY <1>5, <1>11, <1>13, <3>1, <5>1
      <4>2. i = e
        BY <1>6b, <2>3, <2>11, <2>13, <4>1
      <4> QED  BY <2>3, <2>4, <4>1, <4>2
    <3>2. CASE x \in DOMAIN files /\ files'[x] = files[x]
      <4>1. CASE i = e
        BY <1>7, <2>3, <2>4, <3>2, <4>1
      <4>2. CASE i # e
        BY <1>1, <2>3, <2>13, <3>2, <4>2 DEF CachedLater
      <4> QED  BY <4>1, <4>2
    <3> QED  BY <1>11, <3>1, <3>2
  <2>14. CachedLater'
    BY <2>13 DEF CachedLater, SlowPath, Entries
  <2> QED  BY <1>4, <1>10, <1>11a, <1>11d, <2>7, <2>9, <2>10, <2>12, <2>14 DEF StoreRight
<1> QED  BY <1>12, <1>13

-----------------------------------------------------------------------------
(* The steps, and the cache *)

LEMMA CacheKept ==
  ASSUME CacheTyped, Ring, EntriesRight, UNCHANGED <<cacheVars, recent>>
  PROVE  CacheTyped' /\ Ring' /\ EntriesRight'
<1>1. entry' = entry /\ cached' = cached /\ m_p' = m_p /\ recent' = recent
  BY DEF cacheVars
<1> QED  BY <1>1 DEF CacheTyped, Ring, EntriesRight, Age, Entries, Opened

LEMMA Ages ==
  ASSUME NEW C \in Nat, NEW p \in Nat \ {0}, NEW i \in 1 .. C
  PROVE  (IF i <= p THEN p - i ELSE p - i + C) \in Nat
OBVIOUS

LEMMA CacheEmptied ==
  ASSUME entry' = [i \in Entries |-> ClosedEntry], recent' = <<>>,
         cached' \in [Entries -> Seq(Shots)], m_p' \in Entries \union {1}
  PROVE  /\ CacheTyped' /\ Ring' /\ EntriesRight'
         /\ \A i \in Entries : entry'[i] = ClosedEntry /\ ~entry'[i].open
<1>1. \A i \in Entries : entry'[i] = ClosedEntry /\ ~entry'[i].open
  BY DEF ClosedEntry
<1>2. CacheTyped'
  BY <1>1 DEF CacheTyped, Entries, Opened
<1>3. CacheSize \in Nat /\ recent' = <<>> /\ Len(recent') = 0
  BY CacheAssumption
<1>4. m_p' \in Nat /\ m_p' >= 1
  BY <1>3 DEF Entries
<1>5. Ring'
  <2>1. ASSUME NEW i \in Entries
        PROVE  /\ entry'[i].open <=> Age(i)' < Len(recent')
               /\ entry'[i].open => entry'[i].shot = recent'[Len(recent') - Age(i)']
    <3>1. i \in 1 .. CacheSize
      BY DEF Entries
    <3>2. m_p' \in Nat \ {0}
      BY <1>4
    <3>3. Age(i)' \in Nat
      BY <1>3, <3>1, <3>2, Ages DEF Age
    <3>4. ~(Age(i)' < 0)
      BY <3>3
    <3> QED  BY <1>1, <1>3, <3>4
  <2> QED  BY <1>3, <2>1 DEF Ring, Entries
<1>6. EntriesRight'
  BY <1>1 DEF EntriesRight, Entries
<1> QED  BY <1>1, <1>2, <1>5, <1>6

LEMMA CommitEmpties ==
  ASSUME CacheTyped, NEW other, CacheCommit(other), recent' = <<>>
  PROVE  /\ CacheTyped' /\ Ring' /\ EntriesRight'
         /\ \A i \in Entries : entry'[i] = ClosedEntry /\ ~entry'[i].open
<1>1. /\ entry' = [i \in Entries |-> ClosedEntry] /\ m_p' = m_p
      /\ cached' = [i \in Entries |-> IF entry[i].open THEN <<>> ELSE cached[i]]
  BY DEF CacheCommit
<1>2. cached' \in [Entries -> Seq(Shots)]
  BY <1>1 DEF CacheTyped
<1>3. m_p' \in Entries \union {1}
  BY <1>1 DEF CacheTyped
<1> QED  BY <1>1, <1>2, <1>3, CacheEmptied

(* What the handler of an event, of which a command is one, may make of    *)
(* the state.                                                              *)
LEMMA StateSet ==
  ASSUME StateTyped, StateRight, now \in 0 .. MaxNow,
         NEW state \in {"fast", "slow", "stopped"}, SetState(state),
         lasting' = IF state = "fast" THEN lasting ELSE state,
         state = "fast" => recent' = <<>> /\ \A i \in Entries : entry'[i] = ClosedEntry
  PROVE  StateTyped' /\ StateRight'
<1>1. /\ m_state' = state
      /\ m_old_state' = IF state = "fast" /\ m_state # "fast" THEN m_state ELSE m_old_state
      /\ m_fast_time' = IF state = "fast" THEN now ELSE m_fast_time
  BY DEF SetState
<1>2. StateTyped'
  BY <1>1 DEF StateTyped
<1>3. StateRight'
  BY <1>1 DEF StateTyped, StateRight, Entries
<1> QED  BY <1>2, <1>3

LEMMA RecordingKeeps ==
  ASSUME CacheInductive, CheckState, lasting' = lasting,
         m_state' = "fast" => recent' = <<>> /\ \A i \in Entries : entry'[i] = ClosedEntry
  PROVE  StateTyped' /\ StateRight'
<1>1. /\ m_state' \in {"stopped", "slow", "fast"} /\ m_old_state' \in {"init", "stopped", "slow"}
      /\ m_fast_time' \in 0 .. MaxNow
      /\ m_state' = "fast" => m_old_state' = lasting
      /\ m_state' # "fast" => m_state' = lasting
  BY Checked
<1>2. lasting \in {"slow", "stopped"}
  BY DEF CacheInductive, RecorderTyped, StateTyped
<1>3. StateTyped'
  BY <1>1, <1>2 DEF StateTyped
<1>4. StateRight'
  BY <1>1 DEF StateRight, Entries
<1> QED  BY <1>3, <1>4

LEMMA CacheInit == Init => CacheInductive
<1> SUFFICES ASSUME Init PROVE CacheInductive
  OBVIOUS
<1>0. /\ MaxNow \in Nat /\ MaxImages \in Nat /\ MaxGone \in Nat
      /\ CacheSize \in Nat /\ option.base \in {"slow", "stopped"} /\ option.fast \in BOOLEAN
  BY RecorderAssumption, CacheAssumption DEF Init
<1>1. \A i \in Entries : entry[i] = ClosedEntry /\ ~entry[i].open
  BY DEF Init, ClosedEntry
<1>2. CacheTyped
  BY <1>1 DEF Init, CacheTyped
<1>3. StateTyped /\ StateRight
  BY <1>0, <1>1 DEF Init, StateTyped, StateRight
<1>4. ChannelTyped /\ OtherTyped /\ Counted
  <2>1. ChannelTyped
    BY <1>0 DEF Init, ChannelTyped
  <2>2. OtherTyped
    <3>1. settled \in BOOLEAN
      BY DEF Init
    <3> QED  BY <1>0, <3>1 DEF Init, OtherTyped
  <2>3. Counted
    BY <1>0 DEF Init, Counted
  <2> QED  BY <2>1, <2>2, <2>3
<1>5. Ring
  <2>1. \A i \in Entries : Age(i) \in Nat
    BY <1>0 DEF Init, Age, Entries
  <2>2. Len(recent) = 0
    BY DEF Init
  <2> QED  BY <1>0, <1>1, <2>1, <2>2 DEF Ring
<1>6. EntriesRight
  BY <1>1 DEF EntriesRight
<1> QED  BY <1>2, <1>3, <1>4, <1>5, <1>6 DEF CacheInductive, RecorderTyped

LEMMA CacheReadImage ==
  ASSUME CacheInductive, ReadImage PROVE CacheInductive'
<1>1. /\ images < MaxImages + gone /\ CheckState /\ m_image' \in Sizes /\ Record(m_image')
      /\ UNCHANGED <<option, now, channel, counters, lasting, settled>>
  BY DEF ReadImage
<1>2. /\ CacheTyped' /\ Ring' /\ EntriesRight' /\ m_old_path' \in Paths \union {NoPath}
      /\ images' = images + 1 /\ faults' \in Nat
      /\ m_state' = "fast" => recent' = <<>> /\ \A i \in Entries : entry'[i] = ClosedEntry
  <2> DEFINE size == m_image'
  <2>1. size \in Sizes /\ Record(size)
    BY <1>1
  <2> HIDE DEF size
  <2> QED  BY <1>1, <2>1, RecordedInCache
<1>3. StateTyped' /\ StateRight'
  BY <1>1, <1>2, RecordingKeeps
<1>4. ChannelTyped'
  BY <1>1 DEF CacheInductive, RecorderTyped, ChannelTyped, channel
<1>5. OtherTyped' /\ Counted'
  <2>1. OtherTyped /\ Counted
    BY DEF CacheInductive, RecorderTyped
  <2>2. MaxImages \in Nat /\ ReadImage /\ m_channel' = m_channel /\ m_channel # "gone"
    BY <1>1, RecorderAssumption DEF ReadImage, channel
  <2>3. OtherTyped'
    BY <1>1, <1>2, <2>1 DEF OtherTyped, counters
  <2>4. Counted'
    BY <1>1, <1>2, <2>1, <2>2 DEF OtherTyped, Counted, counters
  <2> QED  BY <2>3, <2>4
<1> QED  BY <1>2, <1>3, <1>4, <1>5 DEF CacheInductive, RecorderTyped

LEMMA CacheReadGone ==
  ASSUME CacheInductive, ReadGone PROVE CacheInductive'
<1>1. /\ m_channel = "gone" /\ CheckState /\ m_channel' = "closed"
      /\ UNCHANGED <<option, now, m_image, up, counters, lasting, settled>>
  BY DEF ReadGone
<1>2. \/ m_image # 0 /\ Record(m_image)
      \/ UNCHANGED <<storeVars, images, faults, recent>>
  BY DEF ReadGone
<1>3. /\ OtherTyped /\ Counted /\ CacheTyped /\ Ring /\ EntriesRight /\ ChannelTyped
      /\ MaxImages \in Nat
  BY RecorderAssumption DEF CacheInductive, RecorderTyped
<1>4. /\ CacheTyped' /\ Ring' /\ EntriesRight' /\ m_old_path' \in Paths \union {NoPath}
      /\ images' \in {images, images + 1} /\ faults' \in Nat
      /\ m_state' = "fast" => recent' = <<>> /\ \A i \in Entries : entry'[i] = ClosedEntry
  <2>1. CASE m_image # 0 /\ Record(m_image)
    <3>1. images < MaxImages + gone /\ m_image \in Sizes
      BY <1>1, <1>3, <2>1 DEF OtherTyped, Counted
    <3> QED  BY <1>1, <2>1, <3>1, RecordedInCache
  <2>2. CASE UNCHANGED <<storeVars, images, faults, recent>>
    <3>1. UNCHANGED <<cacheVars, recent>> /\ entry' = entry /\ recent' = recent
          /\ m_old_path' = m_old_path /\ images' = images /\ faults' = faults
      BY <2>2 DEF storeVars, cacheVars
    <3>2. CacheTyped' /\ Ring' /\ EntriesRight'
      BY <1>3, <3>1, CacheKept
    <3>3. m_state' = "fast" => m_state = "fast"
      BY <1>1, Checked
    <3> QED  BY <1>3, <3>1, <3>2, <3>3 DEF OtherTyped, CacheInductive, StateRight
  <2> QED  BY <1>2, <2>1, <2>2
<1>5. StateTyped' /\ StateRight'
  BY <1>1, <1>4, RecordingKeeps
<1>6. ChannelTyped'
  BY <1>1, <1>3 DEF ChannelTyped, ReadGone
<1>7. OtherTyped' /\ Counted'
  <2>1. OtherTyped'
    BY <1>1, <1>3, <1>4 DEF OtherTyped, counters
  <2>2. Counted'
    BY <1>1, <1>3, <1>4 DEF OtherTyped, Counted, counters
  <2> QED  BY <2>1, <2>2
<1> QED  BY <1>4, <1>5, <1>6, <1>7 DEF CacheInductive, RecorderTyped

LEMMA CacheCommand ==
  ASSUME CacheInductive, Command PROVE CacheInductive'
<1>1. /\ OtherTyped /\ Counted /\ CacheTyped /\ Ring /\ EntriesRight /\ ChannelTyped
      /\ StateTyped /\ StateRight /\ commands' = commands + 1 /\ settled' = FALSE
      /\ UNCHANGED <<option, now, m_old_path, m_image, channel, images, gone, restarts, faults>>
  BY DEF CacheInductive, RecorderTyped, Command
<1>2. PICK state \in {"fast", "slow", "stopped"} :
        /\ SetState(state)
        /\ lasting' = IF state = "fast" THEN lasting ELSE state
        /\ IF state # "stopped" THEN CacheCommit(state = "slow") /\ recent' = <<>>
           ELSE UNCHANGED <<files, cacheVars, recent>>
  BY DEF Command
<1>3. CacheTyped' /\ Ring' /\ EntriesRight'
      /\ (state # "stopped" => recent' = <<>> /\ \A i \in Entries : entry'[i] = ClosedEntry)
  <2>1. CASE state # "stopped"
    <3> DEFINE other == state = "slow"
    <3>1. CacheCommit(other) /\ recent' = <<>>
      BY <1>2, <2>1
    <3> HIDE DEF other
    <3> QED  BY <1>1, <3>1, CommitEmpties
  <2>2. CASE state = "stopped"
    <3>1. UNCHANGED <<cacheVars, recent>>
      BY <1>2, <2>2
    <3> QED  BY <1>1, <2>2, <3>1, CacheKept
  <2> QED  BY <2>1, <2>2
<1>4. StateTyped' /\ StateRight'
  BY <1>1, <1>2, <1>3, StateSet DEF OtherTyped
<1>5. ChannelTyped' /\ OtherTyped' /\ Counted'
  <2>1. settled' \in BOOLEAN
    BY DEF Command
  <2>2. OtherTyped'
    BY <1>1, <2>1 DEF OtherTyped
  <2> QED  BY <1>1, <2>2 DEF ChannelTyped, Counted, channel
<1> QED  BY <1>3, <1>4, <1>5 DEF CacheInductive, RecorderTyped

LEMMA CacheRestart ==
  ASSUME CacheInductive, Restart PROVE CacheInductive'
<1>1. /\ OtherTyped /\ Counted /\ CacheTyped /\ ChannelTyped
      /\ option.base \in {"slow", "stopped"} /\ option.fast \in BOOLEAN
  BY RecorderAssumption DEF CacheInductive, RecorderTyped, OtherTyped
<1>2. /\ Started /\ restarts' = restarts + 1
      /\ UNCHANGED <<option, now, files, cached, up, images, commands, gone, faults>>
  BY DEF Restart
<1>3. /\ CacheTyped' /\ Ring' /\ EntriesRight'
      /\ \A i \in Entries : entry'[i] = ClosedEntry
  <2>1. /\ entry' = [i \in Entries |-> ClosedEntry] /\ recent' = <<>> /\ m_p' = 1
        /\ cached' = cached
    BY <1>2 DEF Started
  <2>2. cached' \in [Entries -> Seq(Shots)] /\ m_p' \in Entries \union {1}
    BY <1>1, <2>1 DEF CacheTyped
  <2> QED  BY <2>1, <2>2, CacheEmptied
<1>4. StateTyped' /\ StateRight'
  <2>1. StateTyped'
    <3>1. now' = now /\ now \in 0 .. MaxNow /\ MaxNow \in Nat
      BY <1>1, <1>2, RecorderAssumption DEF OtherTyped
    <3>2. m_fast_time' \in 0 .. MaxNow
      BY <1>2, <3>1 DEF Started
    <3> QED  BY <1>1, <1>2, <3>2 DEF Started, StateTyped
  <2>2. StateRight'
    BY <1>1, <1>2, <1>3 DEF Started, StateRight, Entries
  <2> QED  BY <2>1, <2>2
<1>5. ChannelTyped' /\ OtherTyped' /\ Counted'
  <2>1. ChannelTyped'
    BY <1>1, <1>2 DEF Started, ChannelTyped
  <2>2. OtherTyped'
    <3>1. settled' \in BOOLEAN
      BY <1>2 DEF Started
    <3> QED  BY <1>1, <1>2, <3>1 DEF Started, OtherTyped
  <2>3. Counted'
    BY <1>1, <1>2 DEF Started, Counted
  <2> QED  BY <2>1, <2>2, <2>3
<1> QED  BY <1>3, <1>4, <1>5 DEF CacheInductive, RecorderTyped

(* The other steps leave the state, the cache and the store alone.         *)
Elsewhere == UNCHANGED <<storeVars, recording, images, faults, recent, lasting, m_image>>

LEMMA CacheElsewhere ==
  ASSUME CacheInductive, Elsewhere, ChannelTyped', option' = option, now' \in 0 .. MaxNow,
         gone' \in Nat, commands' \in Nat, restarts' \in Nat, Counted', settled' \in BOOLEAN
  PROVE  CacheInductive'
<1>1. CacheTyped' /\ Ring' /\ EntriesRight'
  <2>1. UNCHANGED <<cacheVars, recent>>
    BY DEF Elsewhere, storeVars
  <2> QED  BY <2>1, CacheKept DEF CacheInductive, RecorderTyped
<1>2. StateTyped' /\ StateRight'
  BY DEF CacheInductive, RecorderTyped, StateTyped, StateRight, Elsewhere, recording,
         storeVars, cacheVars, Entries
<1>3. OtherTyped'
  BY DEF CacheInductive, RecorderTyped, OtherTyped, Elsewhere, storeVars
<1> QED  BY <1>1, <1>2, <1>3 DEF CacheInductive, RecorderTyped

LEMMA CacheOthers ==
  ASSUME CacheInductive, RetryTimeout \/ PublisherComes \/ PublisherGoes \/ Tick \/ UNCHANGED vars
  PROVE  CacheInductive' /\ Elsewhere
<1>1. /\ OtherTyped /\ Counted /\ ChannelTyped
      /\ MaxNow \in Nat /\ MaxGone \in Nat /\ MaxImages \in Nat
  BY RecorderAssumption DEF CacheInductive, RecorderTyped
<1>2. Elsewhere /\ option' = option
  BY DEF Elsewhere, vars, RetryTimeout, PublisherComes, PublisherGoes, Tick
<1>3. commands' = commands /\ restarts' = restarts /\ images' = images
  BY DEF vars, counters, RetryTimeout, PublisherComes, PublisherGoes, Tick
<1>4. now' \in 0 .. MaxNow
  BY <1>1 DEF OtherTyped, vars, RetryTimeout, PublisherComes, PublisherGoes, Tick
<1>5. ChannelTyped'
  BY <1>1 DEF ChannelTyped, vars, channel, RetryTimeout, PublisherComes, PublisherGoes, Tick
<1>6. gone' \in Nat /\ Counted'
  <2>1. CASE PublisherGoes
    BY <1>1, <1>3, <2>1 DEF PublisherGoes, OtherTyped, Counted
  <2>2. CASE RetryTimeout \/ PublisherComes \/ Tick \/ UNCHANGED vars
    <3>1. gone' = gone /\ (m_channel' = m_channel \/ m_channel' = "attached")
      BY <2>2 DEF vars, counters, channel, RetryTimeout, PublisherComes, Tick
    <3> QED  BY <1>1, <1>3, <3>1 DEF OtherTyped, Counted
  <2> QED  BY <2>1, <2>2
<1>6a. settled' \in BOOLEAN
  <2>1. settled' = settled \/ settled' = (settled \/ now' % PerSec = 0)
    BY DEF vars, RetryTimeout, PublisherComes, PublisherGoes, Tick
  <2> QED  BY <1>1, <2>1 DEF OtherTyped
<1>7. CacheInductive'
  BY <1>1, <1>2, <1>3, <1>4, <1>5, <1>6, <1>6a, CacheElsewhere DEF OtherTyped
<1> QED  BY <1>2, <1>7

LEMMA CacheStep == CacheInductive /\ [Next]_vars => CacheInductive'
BY CacheReadImage, CacheReadGone, CacheCommand, CacheRestart, CacheOthers DEF Next

(* Where the shots that the cache holds are found.                         *)
LEMMA RecentCached ==
  ASSUME CacheInductive
  PROVE  /\ \A k \in DOMAIN recent : \E i \in Entries : entry[i].open /\ entry[i].shot = recent[k]
         /\ \A i \in Entries : entry[i].open => \E k \in DOMAIN recent : entry[i].shot = recent[k]
<1> DEFINE n == Len(recent)
<1>1. /\ Ring /\ CacheTyped /\ recent \in Seq(Shots) /\ n \in Nat /\ n <= CacheSize
      /\ CacheSize \in Nat /\ DOMAIN recent = 1 .. n
  BY CacheAssumption DEF CacheInductive, RecorderTyped, CacheTyped, Ring
<1> HIDE DEF n
<1>2. \A i \in Entries : /\ entry[i].open <=> Age(i) < n
                         /\ entry[i].open => entry[i].shot = recent[n - Age(i)]
  BY <1>1 DEF Ring, n
<1>3. ASSUME NEW k \in 1 .. n
      PROVE  \E i \in Entries : entry[i].open /\ entry[i].shot = recent[k]
  <2> DEFINE a == n - k
             i == IF m_p > a THEN m_p - a ELSE m_p - a + CacheSize
  <2>1. m_p \in 1 .. CacheSize
    BY <1>1, <1>3 DEF CacheTyped, Entries
  <2>2. i \in 1 .. CacheSize /\ a \in Nat /\ a < n /\ n - a = k
    BY <1>1, <2>1
  <2>3. Age(i) = a
    BY <1>1, <2>1 DEF Age
  <2> HIDE DEF i, a
  <2>4. i \in Entries
    BY <2>2 DEF Entries
  <2> QED  BY <1>2, <2>2, <2>3, <2>4
<1>4. ASSUME NEW i \in Entries, entry[i].open
      PROVE  \E k \in 1 .. n : entry[i].shot = recent[k]
  <2>1. Age(i) \in Nat
    <3>1. m_p \in 1 .. CacheSize /\ i \in 1 .. CacheSize
      BY <1>1 DEF CacheTyped, Entries
    <3> QED  BY <1>1, <3>1, Ages DEF Age
  <2>2. n - Age(i) \in 1 .. n
    BY <1>1, <1>2, <1>4, <2>1
  <2> QED  BY <1>2, <1>4, <2>2
<1> QED  BY <1>1, <1>3, <1>4

LEMMA LeadCommand ==
  ASSUME CacheInductive, Command
  PROVE  /\ m_state' = "fast" => \A k \in DOMAIN recent : FastPath(recent[k]) \in DOMAIN files'
         /\ m_state' = "slow" => \A k \in DOMAIN recent : SlowPath(recent[k]) \in DOMAIN files'
<1>1. LeadReady
  <2>1. CacheTyped /\ EntriesRight /\ CacheSize \in Nat
    BY CacheAssumption DEF CacheInductive, RecorderTyped
  <2>2. \A i \in Entries : entry[i].open => entry[i] \in Opened
    BY <2>1 DEF CacheTyped, ClosedEntry
  <2> QED  BY <2>1, <2>2 DEF LeadReady, EntriesRight, Opened
<1>2. \A k \in DOMAIN recent : \E i \in Entries : entry[i].open /\ entry[i].shot = recent[k]
  BY RecentCached
<1>3. m_state' # "stopped" => CacheCommit(m_state' = "slow")
  BY DEF Command, SetState
<1>4. CASE m_state' = "fast"
  <2>1. CacheCommit(FALSE)
    <3>1. (m_state' = "slow") = FALSE
      BY <1>4
    <3> QED  BY <1>3, <1>4, <3>1
  <2>2. \A i \in Entries : entry[i].open => FastPath(entry[i].shot) \in DOMAIN files'
    BY <1>1, <2>1, LeadCommit DEF Path
  <2> QED  BY <1>2, <1>4, <2>2
<1>5. CASE m_state' = "slow"
  <2>1. CacheCommit(TRUE)
    <3>1. (m_state' = "slow") = TRUE
      BY <1>5
    <3> QED  BY <1>3, <1>5, <3>1
  <2>2. \A i \in Entries : entry[i].open => SlowPath(entry[i].shot) \in DOMAIN files'
    BY <1>1, <2>1, LeadCommit DEF Path
  <2> QED  BY <1>2, <1>5, <2>2
<1> QED  BY <1>4, <1>5

LEMMA CacheAlways == Spec => []CacheInductive
<1>1. Init => CacheInductive
  BY CacheInit
<1>2. CacheInductive /\ [Next]_vars => CacheInductive'
  BY CacheStep
<1> QED  BY <1>1, <1>2, PTL DEF Spec

-----------------------------------------------------------------------------
(* The steps, and the store *)

LEMMA CommittedRight ==
  ASSUME RecorderInductive PROVE CacheRight /\ Filed(files, images, now)
<1>1. /\ images \in Nat /\ now \in Nat /\ CacheTyped /\ EntriesRight /\ Numbered /\ Saved
      /\ CachedLater /\ Filed(files, images, now) /\ CacheSize \in Nat
  BY CacheAssumption, RecorderAssumption
     DEF RecorderInductive, CacheInductive, StoreRight, RecorderTyped, OtherTyped
<1>2. ASSUME NEW i \in Entries PROVE entry[i].open \in BOOLEAN
  <2>1. entry[i] = ClosedEntry \/ entry[i] \in Opened
    BY <1>1 DEF CacheTyped
  <2>2. entry[i].open = TRUE \/ entry[i].open = FALSE
    BY <2>1 DEF ClosedEntry, Opened
  <2> QED  BY <2>2
<1>3. ASSUME NEW i \in Entries, entry[i].open
      PROVE  /\ entry[i].shot \in Shots
             /\ entry[i].shot.id <= images /\ entry[i].shot.at <= now
             /\ cached[i] \in Seq(Shots) /\ Len(cached[i]) >= 1
             /\ cached[i][1] = entry[i].shot
             /\ entry[i].same \in {NoPath, SlowPath(entry[i].shot)} /\ SavedAt(files, i)
  <2>1. entry[i] \in Opened /\ cached[i] \in Seq(Shots)
    BY <1>1, <1>3 DEF CacheTyped, ClosedEntry
  <2>2. entry[i].shot \in Shots
    BY <2>1 DEF Opened
  <2> QED  BY <1>1, <1>3, <2>1, <2>2 DEF EntriesRight, Numbered, Saved
<1>4. \A i, j \in Entries :
        entry[i].open /\ entry[j].open /\ entry[i].shot = entry[j].shot => i = j
  BY <1>1 DEF Numbered
<1> QED  BY <1>1, <1>2, <1>3, <1>4 DEF CacheRight

LEMMA StoreKept ==
  ASSUME StoreRight, UNCHANGED <<storeVars, images, faults>>,
         images \in Nat, now \in Nat, now' \in Nat, now <= now',
         m_old_path \in Paths \union {NoPath},
         \A i \in Entries : entry[i].open => entry[i].shot \in Shots, SlowSaved', SettledRight'
  PROVE  StoreRight'
<1>1. UNCHANGED <<files, entry, m_old_path, images, faults>>
  BY DEF storeVars, cacheVars
<1>2. 1 + (now \div PerSec) <= 1 + (now' \div PerSec)
      /\ now \div PerSec \in Nat /\ now' \div PerSec \in Nat
  <2> DEFINE p == now \div PerSec
             q == now' \div PerSec
  <2>1. PerSec \in Nat \ {0} /\ now' <= now'
    BY CacheAssumption
  <2>2. p \in Nat /\ p <= q
    BY <2>1, Division
  <2>3. q \in Nat
    BY <2>1, Division
  <2> HIDE DEF p, q
  <2>4. 1 + p <= 1 + q
    BY <2>2, <2>3
  <2> QED  BY <2>2, <2>3, <2>4 DEF p, q
<1>3. m_old_path # NoPath => m_old_path[1] \in Nat
  <2>1. MaxNow \div PerSec \in Nat
    BY CacheAssumption, RecorderAssumption
  <2> QED  BY <2>1 DEF Paths
<1>4. m_old_path' # NoPath => m_old_path'[1] <= 1 + (now' \div PerSec)
  BY <1>1, <1>2, <1>3 DEF StoreRight, SavedLast
<1>5. SavedLast'
  BY <1>1, <1>4 DEF StoreRight, SavedLast, Entries
<1>6. Saved' /\ CachedLater'
  BY <1>1 DEF StoreRight, Saved, SavedAt, CachedLater, SlowPath, Entries
<1>7. faults' = 0 /\ Filed(files', images', now')
  BY <1>1, FiledLater DEF StoreRight
<1>8. Numbered'
  <2>1. \A i \in Entries : entry[i].open => entry[i].shot.at <= now'
    <3> SUFFICES ASSUME NEW i \in Entries, entry[i].open PROVE entry[i].shot.at <= now'
      OBVIOUS
    <3>1. entry[i].shot.at \in Nat /\ entry[i].shot.at <= now
      BY PathsOfShots DEF StoreRight, Numbered
    <3> QED  BY <3>1
  <2> QED  BY <1>1, <2>1 DEF StoreRight, Numbered, Entries
<1> QED  BY <1>5, <1>6, <1>7, <1>8 DEF StoreRight

(* With nothing in the cache the store need only be filed.                 *)
LEMMA StoreEmptied ==
  ASSUME \A i \in Entries : ~entry'[i].open, Filed(files', images', now'), faults' = 0,
         m_old_path' # NoPath => m_old_path'[1] <= 1 + (now' \div PerSec), ~settled'
  PROVE  StoreRight'
BY DEF StoreRight, Numbered, Saved, SavedLast, CachedLater, SlowSaved, SettledRight, Entries

LEMMA OpenShots ==
  ASSUME CacheTyped PROVE \A i \in Entries : entry[i].open => entry[i].shot \in Shots
<1> SUFFICES ASSUME NEW i \in Entries, entry[i].open PROVE entry[i].shot \in Shots
  OBVIOUS
<1>1. entry[i] \in Opened
  BY DEF CacheTyped, ClosedEntry
<1> QED  BY <1>1 DEF Opened

(* Where nothing has been removed and nothing written over all is kept.    *)
LEMMA KeptAlone ==
  ASSUME files' = files PROVE Kept
BY DEF Kept

(* After a command what is new in the store comes from the cache.          *)
LEMMA KeptByCommand ==
  ASSUME CacheInductive, commands' = commands + 1, \A x \in DOMAIN files : KeptIn(files', x)
  PROVE  Kept
<1>1. commands' > commands
  BY DEF CacheInductive, RecorderTyped, OtherTyped
<1> SUFFICES ASSUME NEW x \in DOMAIN files
             PROVE  \E y \in {x, FastPath(files[x][1])} \intersect DOMAIN files' :
                      \/ files'[y][1] = files[x][1]
                      \/ /\ files'[y][1].id > files[x][1].id
                         /\ \E i \in DOMAIN recent : files'[y][1] = recent[i]
  BY <1>1 DEF Kept
<1>2. PICK y \in {x, FastPath(files[x][1])} \intersect DOMAIN files' :
        Later(files'[y][1], files[x][1])
  BY DEF KeptIn
<1>3. \A i \in Entries : entry[i].open => \E k \in DOMAIN recent : entry[i].shot = recent[k]
  BY RecentCached
<1> QED  BY <1>2, <1>3 DEF Later

LEMMA StoreCommand ==
  ASSUME RecorderInductive, Command
  PROVE  StoreRight' /\ Kept
<1>1. /\ CacheRight /\ Filed(files, images, now) /\ CacheTyped /\ OtherTyped /\ StoreRight
      /\ CacheInductive /\ UNCHANGED <<now, m_old_path, images, faults>>
      /\ commands' = commands + 1 /\ settled' = FALSE
  BY CommittedRight DEF RecorderInductive, CacheInductive, RecorderTyped, Command
<1>2. PICK state \in {"fast", "slow", "stopped"} :
        /\ m_state' = state
        /\ IF state # "stopped" THEN CacheCommit(state = "slow") /\ recent' = <<>>
           ELSE UNCHANGED <<files, cacheVars, recent>>
  BY DEF Command, SetState
<1>3. ASSUME Filed(files', images, now), \A i \in Entries : ~entry'[i].open PROVE StoreRight'
  BY <1>1, <1>3, StoreEmptied DEF StoreRight, SavedLast
<1>4. CASE state = "stopped"
  <2>1. UNCHANGED <<storeVars, images, faults>> /\ files' = files
    BY <1>1, <1>2, <1>4 DEF storeVars
  <2>2. /\ now \in Nat /\ now' = now /\ now <= now /\ images \in Nat
        /\ m_old_path \in Paths \union {NoPath}
    BY <1>1, RecorderAssumption DEF OtherTyped
  <2>3. SlowSaved' /\ SettledRight'
    BY <1>1, <1>2, <1>4 DEF SlowSaved, SettledRight
  <2>4. StoreRight'
    BY <1>1, <2>1, <2>2, <2>3, StoreKept, OpenShots
  <2> QED  BY <2>1, <2>4, KeptAlone
<1>5. CASE state = "fast"
  <2>1. CacheCommit(FALSE) /\ recent' = <<>>
    <3>1. (state = "slow") = FALSE
      BY <1>5
    <3> QED  BY <1>2, <1>5, <3>1
  <2>2. \A i \in Entries : ~entry'[i].open
    BY <1>1, <2>1, CommitEmpties
  <2>3. Filed(files', images, now) /\ Kept
    BY <1>1, <2>1, FastCommit, KeptByCommand
  <2> QED  BY <1>3, <2>2, <2>3
<1>6. CASE state = "slow"
  <2>1. CacheCommit(TRUE) /\ recent' = <<>>
    <3>1. (state = "slow") = TRUE
      BY <1>6
    <3> QED  BY <1>2, <1>6, <3>1
  <2>2. \A i \in Entries : ~entry'[i].open
    BY <1>1, <2>1, CommitEmpties
  <2>3. Filed(files', images, now) /\ Kept
    BY <1>1, <2>1, SlowCommit, KeptByCommand
  <2> QED  BY <1>3, <2>2, <2>3
<1> QED  BY <1>4, <1>5, <1>6

LEMMA StoreReadImage ==
  ASSUME MaxFaults = 0, RecorderInductive, ReadImage PROVE StoreRight' /\ Kept
<1> DEFINE size == m_image'
<1>1. /\ images < MaxImages + gone /\ CheckState /\ size \in Sizes /\ Record(size)
      /\ now' = now /\ settled' = settled /\ commands' = commands
  BY DEF ReadImage, counters
<1> HIDE DEF size
<1> QED  BY <1>1, RecordedInStore

LEMMA StoreReadGone ==
  ASSUME MaxFaults = 0, RecorderInductive, ReadGone PROVE StoreRight' /\ Kept
<1>1. /\ m_channel = "gone" /\ CheckState /\ now' = now
      /\ settled' = settled /\ commands' = commands
      /\ \/ m_image # 0 /\ Record(m_image)
         \/ UNCHANGED <<storeVars, images, faults, recent>>
  BY DEF ReadGone, counters
<1>2. OtherTyped /\ Counted /\ CacheTyped /\ StoreRight /\ now \in Nat /\ images \in Nat
  BY RecorderAssumption DEF RecorderInductive, CacheInductive, RecorderTyped, OtherTyped
<1>3. CASE m_image # 0 /\ Record(m_image)
  <2>1. images < MaxImages + gone /\ m_image \in Sizes
    BY <1>1, <1>2, <1>3 DEF OtherTyped, Counted
  <2> QED  BY <1>1, <1>3, <2>1, RecordedInStore
<1>4. CASE UNCHANGED <<storeVars, images, faults, recent>>
  <2>1. files' = files /\ entry' = entry /\ m_old_path' = m_old_path
    BY <1>4 DEF storeVars, cacheVars
  <2>2. m_state' = m_state \/ (m_state = "fast" /\ \A i \in Entries : ~entry[i].open)
    BY <1>1 DEF RecorderInductive, CacheInductive, StateRight, CheckState, FastForLong,
       recording, ClosedEntry
  <2>3. SlowSaved'
    BY <1>1, <1>2, <2>1, <2>2 DEF StoreRight, SlowSaved, ThisSecond, SlowPath, Entries
  <2>4. m_state' = "fast" => m_state = "fast"
    BY <1>1, Checked DEF RecorderInductive
  <2>5. SettledRight'
    BY <1>1, <1>2, <2>1, <2>4 DEF StoreRight, SettledRight, ThisSecond, ThisInstant
  <2>6. StoreRight'
    BY <1>1, <1>2, <1>4, <2>3, <2>5, StoreKept, OpenShots DEF OtherTyped
  <2> QED  BY <2>1, <2>6, KeptAlone
<1> QED  BY <1>1, <1>3, <1>4

LEMMA StoreRestart ==
  ASSUME RecorderInductive, Restart PROVE StoreRight' /\ Kept
<1>1. /\ entry' = [i \in Entries |-> ClosedEntry] /\ m_old_path' = NoPath
      /\ files' = files /\ images' = images /\ faults' = faults
      /\ now' = now /\ ~settled'
  BY DEF Restart, Started
<1>2. \A i \in Entries : ~entry'[i].open
  BY <1>1 DEF ClosedEntry
<1>3. StoreRight'
  BY <1>1, <1>2, StoreEmptied DEF RecorderInductive, StoreRight
<1> QED  BY <1>1, <1>3, KeptAlone

(* When a second begins there is no file of it yet, nor of an instant when *)
(* that begins.                                                            *)
LEMMA NoneYet ==
  ASSUME RecorderInductive, now' = now + 1
  PROVE  /\ ThisInstant' \notin DOMAIN files
         /\ now' % PerSec = 0 => ThisSecond' \notin DOMAIN files
         /\ now' % PerSec = 0 =>
              \A i \in Entries : entry[i].open => SlowPath(entry[i].shot) # ThisSecond'
         /\ now' % PerSec # 0 => ThisSecond' = ThisSecond
<1>1. /\ now \in Nat /\ now + 1 \in Nat /\ PerSec \in Nat \ {0}
      /\ Filed(files, images, now) /\ Numbered /\ CacheTyped
  BY CacheAssumption, RecorderAssumption
     DEF RecorderInductive, CacheInductive, StoreRight, RecorderTyped, OtherTyped
<1> DEFINE t == now + 1
<1>2. ASSUME NEW s \in Shots, s.at <= now
      PROVE  /\ FastPath(s) # <<1 + (t \div PerSec), 1 + (t % PerSec)>>
             /\ SlowPath(s) # <<1 + (t \div PerSec), 1 + (t % PerSec)>>
             /\ t % PerSec = 0 => /\ SlowPath(s) # <<1 + (t \div PerSec), 0>>
                                  /\ FastPath(s) # <<1 + (t \div PerSec), 0>>
  <2>1. s.at \in Nat /\ s.at < t /\ s.at # t /\ t \in Nat
    BY <1>1, <1>2, PathsOfShots
  <2> HIDE DEF t
  <2>2. /\ t \div PerSec \in Nat /\ s.at \div PerSec \in Nat
        /\ t % PerSec \in Nat /\ s.at % PerSec \in Nat
    BY <1>1, <2>1
  <2>3. ~(s.at \div PerSec = t \div PerSec /\ s.at % PerSec = t % PerSec)
    BY <1>1, <2>1, SameInstant
  <2>4. t % PerSec = 0 => s.at \div PerSec # t \div PerSec
    <3>1. t % PerSec = 0 => s.at \div PerSec < t \div PerSec
      BY <1>1, <2>1, EarlierSecond
    <3> QED  BY <2>2, <3>1
  <2> QED  BY <2>2, <2>3, <2>4 DEF FastPath, SlowPath
<1>3. /\ ThisInstant' = <<1 + (t \div PerSec), 1 + (t % PerSec)>>
      /\ ThisSecond' = <<1 + (t \div PerSec), 0>> /\ now' = t
  BY DEF ThisInstant, ThisSecond
<1>4. \A x \in DOMAIN files : \E s \in Shots : s.at <= now /\ x \in {FastPath(s), SlowPath(s)}
  BY <1>1 DEF Filed
<1>5. \A i \in Entries : entry[i].open => entry[i].shot \in Shots /\ entry[i].shot.at <= now
  BY <1>1, OpenShots DEF Numbered
<1>6. t % PerSec # 0 => t \div PerSec = now \div PerSec
  BY <1>1, SameSecond
<1> HIDE DEF t
<1>7. t % PerSec # 0 => ThisSecond' = ThisSecond
  BY <1>3, <1>6 DEF ThisSecond
<1>8. ThisInstant' \notin DOMAIN files
  BY <1>2, <1>3, <1>4
<1>9. t % PerSec = 0 => ThisSecond' \notin DOMAIN files
  BY <1>2, <1>3, <1>4
<1>10. t % PerSec = 0 => \A i \in Entries : entry[i].open => SlowPath(entry[i].shot) # ThisSecond'
  BY <1>2, <1>3, <1>5
<1> QED  BY <1>3, <1>7, <1>8, <1>9, <1>10

LEMMA StoreOthers ==
  ASSUME RecorderInductive,
         RetryTimeout \/ PublisherComes \/ PublisherGoes \/ Tick \/ UNCHANGED vars
  PROVE  StoreRight' /\ Kept
<1>1. /\ UNCHANGED <<storeVars, images, faults>> /\ files' = files /\ entry' = entry
      /\ m_old_path' = m_old_path /\ m_state' = m_state
  BY DEF vars, storeVars, cacheVars, recording, RetryTimeout, PublisherComes, PublisherGoes, Tick
<1>2. /\ now \in Nat /\ images \in Nat /\ m_old_path \in Paths \union {NoPath}
      /\ StoreRight /\ CacheTyped
  BY RecorderAssumption DEF RecorderInductive, CacheInductive, RecorderTyped, OtherTyped
<1>3. \/ now' = now /\ settled' = settled
      \/ now' = now + 1 /\ settled' = (settled \/ now' % PerSec = 0)
  BY DEF vars, RetryTimeout, PublisherComes, PublisherGoes, Tick
<1>4. now' \in Nat /\ now <= now'
  BY <1>2, <1>3
<1>5. SlowSaved' /\ SettledRight'
  <2>1. CASE now' = now /\ settled' = settled
    BY <1>1, <1>2, <2>1
       DEF StoreRight, SlowSaved, SettledRight, ThisSecond, ThisInstant, SlowPath, Entries
  <2>2. CASE now' = now + 1 /\ now' % PerSec = 0
    <3>1. /\ ThisInstant' \notin DOMAIN files' /\ ThisSecond' \notin DOMAIN files'
          /\ \A i \in Entries : entry'[i].open => SlowPath(entry'[i].shot) # ThisSecond'
      BY <1>1, <2>2, NoneYet
    <3> QED  BY <3>1 DEF SlowSaved, SettledRight, SlowPath, Entries
  <2>3. CASE now' = now + 1 /\ now' % PerSec # 0 /\ settled' = settled
    <3>1. ThisInstant' \notin DOMAIN files' /\ ThisSecond' = ThisSecond
      BY <1>1, <2>3, NoneYet
    <3> QED  BY <1>1, <1>2, <2>3, <3>1 DEF StoreRight, SlowSaved, SettledRight, SlowPath, Entries
  <2>4. settled \in BOOLEAN
    BY DEF RecorderInductive, CacheInductive, RecorderTyped, OtherTyped
  <2> QED  BY <1>3, <2>1, <2>2, <2>3, <2>4
<1>6. StoreRight'
  BY <1>1, <1>2, <1>4, <1>5, StoreKept, OpenShots
<1> QED  BY <1>1, <1>6, KeptAlone

LEMMA StoreStep ==
  ASSUME MaxFaults = 0, RecorderInductive, [Next]_vars
  PROVE  RecorderInductive' /\ Kept
<1>1. CacheInductive'
  BY CacheStep DEF RecorderInductive
<1>2. StoreRight' /\ Kept
  BY StoreReadImage, StoreReadGone, StoreCommand, StoreRestart, StoreOthers DEF Next
<1> QED  BY <1>1, <1>2 DEF RecorderInductive

LEMMA StoreInit == Init => StoreRight
<1> SUFFICES ASSUME Init PROVE StoreRight
  OBVIOUS
<1>1. files = <<>> /\ DOMAIN files = {} /\ faults = 0
  BY DEF Init
<1>2. \A i \in Entries : ~entry[i].open
  BY DEF Init, ClosedEntry
<1>3. m_old_path = NoPath /\ ~settled
  BY DEF Init
<1> QED  BY <1>1, <1>2, <1>3
            DEF StoreRight, Filed, Numbered, Saved, SavedLast, CachedLater, SlowSaved, SettledRight

LEMMA RecorderAlways ==
  ASSUME MaxFaults = 0 PROVE Spec => []RecorderInductive
<1>1. Init => RecorderInductive
  BY CacheInit, StoreInit DEF RecorderInductive
<1>2. RecorderInductive /\ [Next]_vars => RecorderInductive'
  BY StoreStep
<1> QED  BY <1>1, <1>2, PTL DEF Spec

-----------------------------------------------------------------------------
(* The theorems *)

LEMMA InductiveHolds == RecorderInductive => RecorderInvariant
<1> SUFFICES ASSUME RecorderInductive PROVE RecorderInvariant
  OBVIOUS
<1>1. /\ CacheInductive /\ CacheTyped /\ StateTyped /\ ChannelTyped /\ OtherTyped
      /\ StateRight /\ EntriesRight /\ Filed(files, images, now)
  BY DEF RecorderInductive, CacheInductive, StoreRight, RecorderTyped
<1>2. TypeOK
  <2>1. \A x \in DOMAIN files : files[x] \in Seq(Shots) /\ x \in Paths
    BY <1>1 DEF Filed
  <2>2. \A i \in Entries : entry[i] = ClosedEntry
          \/ entry[i] \in [open : {TRUE}, shot : Shots, same : Paths \union {NoPath}]
    BY <1>1 DEF CacheTyped, Opened
  <2> QED  BY <1>1, <2>1, <2>2 DEF TypeOK, CacheTyped, StateTyped, ChannelTyped, OtherTyped
<1>3. FilesNamedRight
  BY <1>1 DEF Filed, FilesNamedRight
<1>4. NoShotTwice
  BY <1>1 DEF Filed, NoShotTwice
<1>5. CacheHoldsRecent
  BY <1>1, RecentCached DEF CacheHoldsRecent, OpenEntries, EntriesRight, StateRight
<1> QED  BY <1>2, <1>3, <1>4, <1>5 DEF RecorderInvariant

(* A file of the store is named for the image that it begins with, no      *)
(* image is in the store twice, and the cache holds the latest images, if  *)
(* every image can be saved (gvcache.cpp, gvimageoutput.cpp).              *)
THEOREM RecorderRight ==
  ASSUME MaxFaults = 0 PROVE Spec => []RecorderInvariant
<1>1. RecorderInductive => RecorderInvariant
  BY InductiveHolds
<1> QED  BY <1>1, RecorderAlways, PTL

(* The cache holds the latest images, those since the last commit, whether *)
(* or not they could be saved as well (gvcache.cpp:54).                    *)
THEOREM CacheRecent == Spec => []CacheHoldsRecent
<1>1. CacheInductive => CacheHoldsRecent
  BY RecentCached DEF CacheInductive, CacheHoldsRecent, OpenEntries, EntriesRight, StateRight
<1> QED  BY <1>1, CacheAlways, PTL

(* The fast and the slow commands put the latest images into the store     *)
(* (recorder.cpp, onCommandSocketData()), whatever could not be saved.     *)
THEOREM LeadInRight == Spec => LeadIn
<1> DEFINE Step ==
      \A i \in DOMAIN recent :
        commands' > commands =>
          /\ m_state' = "fast" => FastPath(recent[i]) \in DOMAIN files'
          /\ m_state' = "slow" => SlowPath(recent[i]) \in DOMAIN files'
<1>1. CacheInductive /\ [Next]_vars => Step
  <2> SUFFICES ASSUME CacheInductive, [Next]_vars PROVE Step
    OBVIOUS
  <2>1. CASE Command
    BY <2>1, LeadCommand
  <2>2. CASE ReadImage \/ ReadGone \/ RetryTimeout \/ PublisherComes \/ PublisherGoes
             \/ Restart \/ Tick \/ UNCHANGED vars
    <3>1. commands' = commands /\ commands \in Nat
      BY <2>2 DEF CacheInductive, RecorderTyped, OtherTyped, counters, vars,
         ReadImage, ReadGone, RetryTimeout, PublisherComes, PublisherGoes, Restart, Tick
    <3> QED  BY <3>1
  <2> QED  BY <2>1, <2>2 DEF Next
<1>2. CacheInductive /\ [Next]_vars => [Step]_vars
  BY <1>1
<1> QED  BY <1>2, CacheAlways, PTL DEF Spec, LeadIn

(* An image leaves the store only when a later one takes the name of its   *)
(* second or instant: one of the cache by a command, or one that is saved  *)
(* in the second in which the recorder had a command or was started, if    *)
(* every image can be saved (gvcache.cpp, gvimageoutput.cpp:370).          *)
THEOREM NothingLostRight ==
  ASSUME MaxFaults = 0 PROVE Spec => NothingLost
<1>1. RecorderInductive /\ [Next]_vars => [Kept]_vars
  BY StoreStep
<1> QED  BY <1>1, RecorderAlways, PTL DEF Spec, NothingLost, Kept

(* From fast the recorder drops back to the state it was last told to be   *)
(* in (recorder.cpp, checkState() and setState()), whatever fails.         *)
THEOREM DropsBackRight == Spec => DropsBack
<1> DEFINE Step == m_state = "fast" /\ m_state' # "fast" /\ counters' = counters =>
                     m_state' = lasting
<1>1. CacheInductive /\ [Next]_vars => Step
  <2> SUFFICES ASSUME CacheInductive, [Next]_vars, counters' = counters,
                      m_state = "fast", m_state' # "fast"
               PROVE  m_state' = lasting
    OBVIOUS
  <2>1. CASE ReadImage \/ ReadGone
    BY <2>1, Checked DEF ReadImage, ReadGone
  <2>2. CASE Command
    BY <2>2 DEF Command, counters, CacheInductive, RecorderTyped, OtherTyped
  <2>3. CASE Restart
    BY <2>3 DEF Restart, counters, CacheInductive, RecorderTyped, OtherTyped
  <2>4. CASE RetryTimeout \/ PublisherComes \/ PublisherGoes \/ Tick \/ UNCHANGED vars
    BY <2>4 DEF RetryTimeout, PublisherComes, PublisherGoes, Tick, vars, recording
  <2> QED  BY <2>1, <2>2, <2>3, <2>4 DEF Next
<1>2. CacheInductive /\ [Next]_vars => [Step]_vars
  BY <1>1
<1> QED  BY <1>2, CacheAlways, PTL DEF Spec, DropsBack
=============================================================================
