----------------------------- MODULE ImageCache -----------------------------
(***************************************************************************)
(* Gv::Cache (gvideo/gvcache.cpp) and the saving half of Gv::ImageOutput   *)
(* (gvideo/gvimageoutput.cpp): where a recorder keeps its images.          *)
(*                                                                         *)
(* The store is a directory tree with one file per instant ("fast" paths)  *)
(* or one per second ("slow" paths).  The cache is a ring of files that    *)
(* are held open and written again and again; commit() closes them and     *)
(* moves them into the store.  An image that has also been saved is moved  *)
(* from where it was saved, its "same-as" path, instead.                   *)
(*                                                                         *)
(* A shot is an image and the time that it was recorded at.  A file is a   *)
(* sequence of blocks, each of which comes from some shot, so that one can *)
(* tell what a file is made of.  Directories are made as needed and left   *)
(* out, and so are time zones and file types.                              *)
(***************************************************************************)
EXTENDS Integers, Sequences

CONSTANTS
  CacheSize,  \* --cache-size
  PerSec      \* instants that a second is divided into

ASSUME CacheAssumption == CacheSize \in Nat /\ PerSec \in Nat \ {0}

VARIABLES
  files,       \* the store: from paths to blocks
  entry,       \* m_list
  cached,      \* the files under .cache
  m_p,         \* the entry that was last written
  m_old_path   \* where ImageOutput saved last

cacheVars == <<entry, cached, m_p>>
storeVars == <<files, cacheVars, m_old_path>>

Entries == 1 .. CacheSize

NoPath == <<0, 0>>
FastPath(shot) == <<1 + (shot.at \div PerSec), 1 + (shot.at % PerSec)>>
SlowPath(shot) == <<1 + (shot.at \div PerSec), 0>>

Blocks(shot) == [i \in 1 .. shot.size |-> shot]

ClosedEntry == [open |-> FALSE]
OpenEntries == {i \in Entries : entry[i].open}

-----------------------------------------------------------------------------
(* Files *)

Put(fs, path, blocks) ==
  [x \in DOMAIN fs \union {path} |-> IF x = path THEN blocks ELSE fs[x]]

(* rename(2) *)
Rename(fs, src, dst) ==
  IF src = dst THEN fs
  ELSE [x \in (DOMAIN fs \ {src}) \union {dst} |->
          IF x = dst THEN fs[src] ELSE fs[x]]

(* An open file is written again from its beginning, and not truncated. *)
Overwritten(old, blocks) ==
  [i \in 1 .. (IF Len(old) > Len(blocks) THEN Len(old) ELSE Len(blocks)) |->
     IF i <= Len(blocks) THEN blocks[i] ELSE old[i]]

-----------------------------------------------------------------------------
(* Gv::ImageOutput::save(): what it may do with a shot and what it returns *)

Path(shot, fast) == IF fast THEN FastPath(shot) ELSE SlowPath(shot)

SaveSkipped == [files |-> files, old |-> m_old_path, path |-> NoPath, failed |-> FALSE]

Outcome(fs, old, path, failed) ==
  [files |-> fs, old |-> old, path |-> path, failed |-> failed]

\* Mutant of SaveOutcomes: the old contents are not kept.
SaveOutcomesAgain(shot, fast) ==
  LET path == Path(shot, fast)
  IN  { Outcome(Put(files, path, Blocks(shot)), path, path, FALSE),
        Outcome(files, m_old_path, path, TRUE),
        Outcome(Put(files, path, <<>>), m_old_path, path, TRUE) }

(* The same filename as last time: the old contents are kept.  If the file *)
(* cannot be opened or written its path is returned all the same.          *)
SaveOutcomes(shot, fast) ==
  LET path == Path(shot, fast)
  IN  IF path = m_old_path THEN {SaveSkipped}
      ELSE { Outcome(Put(files, path, Blocks(shot)), path, path, FALSE),
             Outcome(files, m_old_path, path, TRUE),
             Outcome(Put(files, path, <<>>), m_old_path, path, TRUE) }

-----------------------------------------------------------------------------
(* Gv::Cache *)

Following(i) == IF i = CacheSize THEN 1 ELSE i + 1

\* Mutant of CacheStore: the same-as path is dropped.
CacheStoreAnyway(shot, same) ==
  IF CacheSize = 0 THEN UNCHANGED cacheVars
  ELSE LET e == Following(m_p)
       IN  /\ m_p' = e
           /\ entry' = [entry EXCEPT ![e] = [open |-> TRUE, shot |-> shot, same |-> NoPath]]
           /\ cached' = [cached EXCEPT ![e] =
                Overwritten(IF entry[e].open THEN @ ELSE <<>>, Blocks(shot))]

(* store(): the least recent entry is written, and opened if it is not. *)
CacheStore(shot, same) ==
  IF CacheSize = 0 THEN UNCHANGED cacheVars
  ELSE LET e == Following(m_p)
       IN  /\ m_p' = e
           /\ entry' = [entry EXCEPT ![e] = [open |-> TRUE, shot |-> shot, same |-> same]]
           /\ cached' = [cached EXCEPT ![e] =
                Overwritten(IF entry[e].open THEN @ ELSE <<>>, Blocks(shot))]

\* Mutant of Moved: the cached file is discarded wherever it has been saved.
MovedSaved(fs, i, other) ==
  LET dst == Path(entry[i].shot, ~other)
  IN  IF ~entry[i].open THEN fs
      ELSE IF entry[i].same # NoPath
           THEN [x \in DOMAIN fs \ {entry[i].same} |-> fs[x]]
           ELSE Put(fs, dst, cached[i])

(* commit() of one entry.  The saved file may not be there. *)
Moved(fs, i, other) ==
  IF ~entry[i].open THEN fs
  ELSE LET dst == Path(entry[i].shot, ~other)
       IN  IF entry[i].same # NoPath /\ entry[i].same \in DOMAIN fs
           THEN Rename(fs, entry[i].same, dst)
           ELSE Put(fs, dst, cached[i])

(* commit(): the entries in the order of the list. *)
CacheCommit(other) ==
  LET upTo[i \in 0 .. CacheSize] ==
        IF i = 0 THEN files ELSE Moved(upTo[i - 1], i, other)
  IN  /\ files' = upTo[CacheSize]
      /\ entry' = [i \in Entries |-> ClosedEntry]
      /\ cached' = [i \in Entries |-> IF entry[i].open THEN <<>> ELSE cached[i]]
      /\ UNCHANGED m_p

=============================================================================
