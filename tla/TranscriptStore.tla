--------------------------- MODULE TranscriptStore ---------------------------
(***************************************************************************)
(* Reading a session's transcript while the agent writes it                *)
(* (bridge/transcript.ts, TranscriptStore).                                *)
(*                                                                         *)
(* A file is a sequence of lines of two bytes, the text and the newline,   *)
(* so that an odd size is a torn last line.  Every write gives the file a  *)
(* new version, which stands for its mtime and ctime, and was[v] is what   *)
(* version v contains.  A cached object is shared and mutated in place: it *)
(* is named by a number, and whoever holds the number sees the changes.    *)
(* Hashes do not collide: a fingerprint or a checksum is what it is of.    *)
(***************************************************************************)
EXTENDS Naturals, Sequences, FiniteSets

CONSTANTS
  Ino,          \* inodes the session's path may have
  FileCap,      \* fileCap, in bytes
  Sample,        \* GUARD_BYTES, in lines
  Reader,        \* requests for the transcript
  Contents,     \* what the file may hold: records of its lines' text and its size
  MaxWrites     \* bound: writes after the first

Object == 1 .. Cardinality(Ino) + Cardinality(Reader) + 1
NoObject == 0
Attempts == 2

VARIABLES
  was,      \* was[v]: text and size of version v
  file,     \* file[i]: the version inode i is at
  path,     \* the inode the path names
  cache,    \* the cache: an object for each inode, or NoObject
  obj,      \* the cached objects
  load,     \* the pending read: phase, attempt, handle, info, object, reuse, bytes read
  req       \* the requests: kind, phase, the object loaded, the answer

vars == <<was, file, path, cache, obj, load, req>>

(***************************************************************************)
(* Files (external: the agent appends, rewrites in place, or renames a new *)
(* file over the path).                                                    *)
(***************************************************************************)
Write ==
  /\ Len(was) <= MaxWrites
  /\ \E c \in Contents, i \in Ino :
       was' = Append(was, c) /\ path' = i /\ file' = [file EXCEPT ![i] = Len(was) + 1]
  /\ UNCHANGED <<cache, obj, load, req>>

(***************************************************************************)
(* What a reader makes of the bytes it has.                                *)
(***************************************************************************)
Least(m, n) == IF m < n THEN m ELSE n

\* The first line after a window that does not begin the file is partial.
FirstLine(start) == IF start = 0 THEN 1 ELSE start \div 2 + 2

LinesOf(c, start) == SubSeq(c.text, FirstLine(start), c.size \div 2)

StartOf(c) == IF c.size > FileCap THEN c.size - FileCap ELSE 0

\* The bytes of a file between two offsets, as far as it has them.
Bytes(c, from, to) == SubSeq(c.text, from \div 2 + 1, Least(to, c.size) \div 2)

Marks(c, offset) ==
  LET sampled == 2 * Least(offset \div 2, Sample)
  IN  [prefix |-> Bytes(c, 0, sampled), boundary |-> Bytes(c, offset - sampled, offset)]

Fresh(c) ==
  [size |-> 0, version |-> 0, offset |-> StartOf(c), start |-> StartOf(c), lines |-> <<>>,
   marks |-> Marks(c, 0), kept |-> <<>>]

\* Sizes and times that leave a cached object usable.
SizesFit(o, v) ==
  /\ was[v].size >= o.size
  /\ ~(was[v].size <= o.size /\ v # o.version)
  /\ ~(o.start = 0 /\ StartOf(was[v]) > 0)
  /\ ~(o.start > 0 /\ was[v].size # o.size)

(***************************************************************************)
(* load, queuedRead and read.                                              *)
(***************************************************************************)
Idle == [phase |-> "idle", attempt |-> 0, ino |-> 0, info |-> 0, obj |-> NoObject, reuse |-> FALSE, buffer |-> <<>>]

NotAsked == [kind |-> "none", phase |-> "idle", obj |-> NoObject, lines |-> <<>>, version |-> 0, start |-> 0]

Init ==
  /\ was \in {<<c>> : c \in Contents}
  /\ \E i \in Ino : path = i
  /\ file = [i \in Ino |-> 1]
  /\ cache = [i \in Ino |-> NoObject]
  /\ obj = [o \in Object |-> Fresh(was[1])]
  /\ load = Idle
  /\ req = [r \in Reader |-> NotAsked]

\* A request joins the pending read of its session, or starts one.
Ask(r) ==
  /\ req[r].phase = "idle"
  /\ \E kind \in {"transcript", "record"} : req' = [req EXCEPT ![r].kind = kind, ![r].phase = "loading"]
  /\ load' = IF load.phase = "idle" THEN [Idle EXCEPT !.phase = "open"] ELSE load
  /\ UNCHANGED <<was, file, path, cache, obj>>

\* The requests that wait for the read are given its object: a record or an image is
\* answered at once, a transcript awaits its status and its children first.
Resolve(o, x) ==
  req' = [r \in Reader |->
    IF req[r].phase # "loading" THEN req[r]
    ELSE IF o = NoObject THEN [req[r] EXCEPT !.phase = "failed"]
    ELSE IF req[r].kind = "transcript" THEN [req[r] EXCEPT !.phase = "status", !.obj = o]
    ELSE [req[r] EXCEPT !.phase = "done", !.lines = x.lines, !.version = x.version, !.start = x.start]]

InUse == {cache[i] : i \in Ino} \union {load.obj} \union {req[r].obj : r \in Reader}
Unused == CHOOSE o \in Object : o \notin InUse

\* Mutant: the cached object stays in the map while this read changes it.
TakenLeft(i) == cache

\* The entry of an inode leaves the map while a read holds it.
Taken(i) == [cache EXCEPT ![i] = NoObject]

\* checkedOpen: the path is checked, opened and compared with what was checked; then the
\* cached object of this inode is taken, or a new one made.
Open ==
  /\ load.phase = "open"
  /\ LET v == file[path]
         cached == cache[path]
         reuse == cached # NoObject /\ SizesFit(obj[cached], v)
         o == IF reuse THEN cached ELSE Unused
     IN  /\ load' = [load EXCEPT !.ino = path, !.info = v, !.obj = o, !.reuse = reuse, !.buffer = <<>>,
                                 !.phase = IF reuse THEN "verify" ELSE "bytes"]
         /\ cache' = Taken(path)
         /\ obj' = IF reuse THEN obj ELSE [obj EXCEPT ![o] = Fresh(was[v])]
  /\ UNCHANGED <<was, file, path, req>>

OpenFails ==
  /\ load.phase = "open" /\ load' = Idle /\ Resolve(NoObject, Idle)
  /\ UNCHANGED <<was, file, path, cache, obj>>

Now == was[file[load.ino]]
Held == obj[load.obj]
Start(v) == StartOf(was[v])

\* The samples at the ends of what was consumed, and on growth all of it, are as before.
Verify ==
  /\ load.phase \in {"verify", "retained"}
  /\ LET same == IF load.phase = "verify" THEN Held.marks = Marks(Now, Held.offset)
                 ELSE Held.kept = Bytes(Now, Held.start, Held.offset)
         grown == was[load.info].size > Held.size
     IN  IF same
         THEN load' = [load EXCEPT !.phase = IF @ = "verify" /\ grown THEN "retained" ELSE "bytes"] /\ obj' = obj
         ELSE LET o == Unused
              IN  /\ load' = [load EXCEPT !.phase = "bytes", !.reuse = FALSE, !.obj = o]
                  /\ obj' = [obj EXCEPT ![o] = Fresh(was[load.info])]
  /\ UNCHANGED <<was, file, path, cache, req>>

\* The lines of the buffer are appended to the object, up to the last newline.
Parsed(o, buffer) ==
  LET whole == IF o.start > 0 /\ o.offset = o.start /\ buffer # <<>> THEN Tail(buffer) ELSE buffer
  IN  IF buffer = <<>> THEN o
      ELSE [o EXCEPT !.lines = @ \o whole, !.offset = 2 * (@ \div 2 + Len(buffer))]

\* One call of handle.read: some of the bytes still wanted, none where the file ends.
ReadBytes ==
  /\ load.phase = "bytes"
  /\ LET from == Held.offset + 2 * Len(load.buffer)
         rest == Bytes(Now, from, was[load.info].size)
     IN  IF rest = <<>>
         THEN /\ obj' = [obj EXCEPT ![load.obj] = Parsed(Held, load.buffer)]
              /\ load' = [load EXCEPT !.phase = IF load.reuse /\ load.buffer = <<>> THEN "marks" ELSE "generation"]
         ELSE /\ \E n \in 1 .. Len(rest) : load' = [load EXCEPT !.buffer = @ \o SubSeq(rest, 1, n)]
              /\ obj' = obj
  /\ UNCHANGED <<was, file, path, cache, req>>

\* What was consumed is read again for the checksum and the samples of the next read.
Remember ==
  /\ load.phase \in {"generation", "marks"}
  /\ obj' = [obj EXCEPT ![load.obj] =
               IF load.phase = "generation" THEN [Held EXCEPT !.kept = Bytes(Now, Held.start, Held.offset)]
               ELSE [Held EXCEPT !.marks = Marks(Now, Held.offset)]]
  /\ load' = [load EXCEPT !.phase = IF @ = "generation" THEN "marks" ELSE "stat"]
  /\ UNCHANGED <<was, file, path, cache, req>>

\* The last stat equals the first.
Unaltered == file[load.ino] = load.info

Stamped(o) == [o EXCEPT !.size = was[load.info].size, !.version = load.info]

\* A read that saw one version keeps its object, as far as the budget goes; one that did
\* not is repeated once.
Stat ==
  /\ load.phase = "stat"
  /\ IF Unaltered
     THEN LET o == Stamped(Held)
          IN  /\ obj' = [obj EXCEPT ![load.obj] = o]
              /\ \E evicted \in SUBSET Ino :
                   cache' = [i \in Ino |-> IF i \in evicted THEN NoObject
                                           ELSE IF i = load.ino THEN load.obj ELSE cache[i]]
              /\ load' = Idle /\ Resolve(load.obj, o)
     ELSE /\ IF load.attempt + 1 < Attempts
             THEN load' = [Idle EXCEPT !.phase = "open", !.attempt = load.attempt + 1] /\ req' = req
             ELSE load' = Idle /\ Resolve(NoObject, Idle)
          /\ UNCHANGED <<cache, obj>>
  /\ UNCHANGED <<was, file, path>>

\* transcript() resumes and answers with what the object holds now.
Answer(r) ==
  /\ req[r].phase = "status"
  /\ LET o == obj[req[r].obj]
     IN  req' = [req EXCEPT ![r] = [@ EXCEPT !.phase = "done", !.obj = NoObject, !.lines = o.lines,
                                             !.version = o.version, !.start = o.start]]
  /\ UNCHANGED <<was, file, path, cache, obj, load>>

Next ==
  \/ Write
  \/ \E r \in Reader : Ask(r) \/ Answer(r)
  \/ Open \/ OpenFails \/ Verify \/ ReadBytes \/ Remember \/ Stat

Spec == Init /\ [][Next]_vars

(***************************************************************************)
(* Properties.                                                             *)
(***************************************************************************)
TypeOK ==
  /\ path \in Ino /\ file \in [Ino -> 1 .. Len(was)] /\ cache \in [Ino -> Object \union {NoObject}]
  /\ load.phase \in {"idle", "open", "verify", "retained", "bytes", "generation", "marks", "stat"}
  /\ \A r \in Reader : req[r].phase \in {"idle", "loading", "status", "done", "failed"}

\* A cached object holds the lines of one version of its file, the one it is stamped
\* with: appends, rewrites in place, truncation and replacement between two reads or in
\* the middle of one never splice old lines to new ones.
CacheIsTrue ==
  \A i \in Ino : cache[i] # NoObject =>
    LET o == obj[cache[i]] IN o.version > 0 /\ o.lines = LinesOf(was[o.version], o.start)

\* "A changing descriptor retries once without publishing mixed generations"
\* (bridge/transcript-hardening.test.ts:91): the records of every answered transcript are
\* the lines of some version the file had.
NoMixedGenerations ==
  \A r \in Reader : req[r].phase = "done" =>
    \E v \in 1 .. Len(was) : req[r].lines = LinesOf(was[v], req[r].start)

=============================================================================
