--------------------------- MODULE WriteBehindStore ---------------------------
(***************************************************************************)
(* What the usage cache promises its readers, without threads or locks: a  *)
(* store that lives in memory and is written behind, as two files, to      *)
(* disk.  Every content that memory has held since the process came up is  *)
(* a version; a file may only ever move forward to a version that memory   *)
(* really held, and a new process starts from the two files and nothing    *)
(* else.                                                                   *)
(***************************************************************************)
EXTENDS Naturals, Sequences

VARIABLES
  up,           \* is the process running?
  versions,     \* the contents held since it came up, oldest first
  cacheFile,    \* usage-api-cache.json: latest snapshot of every plugin
  historyFile,  \* usage-metrics-history.json: the retained points
  cacheGen,     \* versions[cacheGen + 1] is the version cacheFile holds
  historyGen    \* versions[historyGen + 1] is the one historyFile holds

storeVars == <<up, versions, cacheFile, historyFile, cacheGen, historyGen>>

Current == Len(versions) - 1

Init ==
  /\ up = TRUE
  /\ versions = <<[snapshots |-> cacheFile, history |-> historyFile]>>
  /\ cacheGen = 0
  /\ historyGen = 0

(* Memory takes a new content; the files do not move. *)
Put ==
  /\ up /\ up'
  /\ Len(versions') = Len(versions) + 1
  /\ SubSeq(versions', 1, Len(versions)) = versions
  /\ UNCHANGED <<cacheFile, historyFile, cacheGen, historyGen>>

(* One file moves to a later (or the same) version. *)
PersistCache ==
  /\ up
  /\ cacheGen' \in cacheGen .. Current
  /\ cacheFile' = versions[cacheGen' + 1].snapshots
  /\ UNCHANGED <<up, versions, historyFile, historyGen>>

PersistHistory ==
  /\ up
  /\ historyGen' \in historyGen .. Current
  /\ historyFile' = versions[historyGen' + 1].history
  /\ UNCHANGED <<up, versions, cacheFile, cacheGen>>

(* The process ends: whatever had not reached the files is gone. *)
Stop ==
  /\ up /\ ~up'
  /\ versions' = <<>>
  /\ cacheGen' = 0 /\ historyGen' = 0
  /\ UNCHANGED <<cacheFile, historyFile>>

(* A new process starts from the files. *)
Restart ==
  /\ ~up /\ up'
  /\ versions' = <<[snapshots |-> cacheFile, history |-> historyFile]>>
  /\ UNCHANGED <<cacheFile, historyFile, cacheGen, historyGen>>

Next == Put \/ PersistCache \/ PersistHistory \/ Stop \/ Restart

Spec == Init /\ [][Next]_storeVars
=============================================================================
