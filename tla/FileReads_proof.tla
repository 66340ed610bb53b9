--------------------------- MODULE FileReads_proof ---------------------------
(***************************************************************************)
(* Theorems about FileReads, for any contents, any number of files and any *)
(* number of changes by an outsider.                                       *)
(***************************************************************************)
EXTENDS FileReads, SequenceTheorems, TLAPS

Pins == {None} \cup {r.content : r \in References}
Metadata == [content : Seq(Chunks), links : 0..3, mtime : Nat, ctime : Nat]
Writers == [pc : {"write", "publish", "unlink"}, file : 1..Files, left : Seq(Chunks),
            overwrite : BOOLEAN]
Openers == [pc : {"open"}, kind : Kinds, pin : Pins, limit : 1..2]
Lookers == [pc : {"stat"}, kind : Kinds, pin : Pins, limit : 1..2, file : 1..Files,
            data : Seq(Chunks)]
Pinners == [pc : {"read", "digest", "again"}, kind : Kinds, pin : Pins, limit : 1..2,
            file : 1..Files, data : Seq(Chunks), before : Metadata]

(* What the records of writer and reader hold at each step.                *)
Shapes ==
    /\ path \in 1..Files \cup {None}
    /\ files \in [1..Files -> Metadata]
    /\ writer \in {Idle} \cup Writers
    /\ touched \subseteq 1..Files
    /\ opened \subseteq {"root", "parent", "file"}
    /\ reader \in {Idle} \cup Openers \cup Lookers \cup Pinners
    /\ reader.pc = "idle" => opened = {}

Exists(f) == files[f].ctime > 0
Holds(f) == writer.pc # "idle" /\ writer.file = f

(* The links of a file are its name and its staging name; an outsider can  *)
(* only have added some.                                                   *)
Named(f) == (IF path = f THEN 1 ELSE 0) + (IF Holds(f) THEN 1 ELSE 0)

LinkCount ==
    \A f \in 1..Files : /\ files[f].links >= Named(f)
                        /\ f \notin touched => files[f].links = Named(f)

(* A file that is being staged has no other name and no reader.            *)
Staged ==
    /\ path # None => Exists(path)
    /\ \A f \in touched : Exists(f)
    /\ writer.pc # "idle" =>
          /\ Exists(writer.file)
          /\ writer.pc \in {"write", "publish"} => path # writer.file
          /\ path # writer.file =>
                /\ writer.file \notin touched
                /\ reader.pc \notin {"idle", "open"} => reader.file # writer.file

(* Only a staged file that no outsider can reach is less than a document.  *)
Complete ==
    \A f \in 1..Files : f \notin touched /\ Exists(f) =>
        IF Holds(f) /\ writer.pc = "write"
        THEN files[f].content \o writer.left \in Documents
        ELSE files[f].content \in Documents

(* While the content has its old time, what was read is the start of it,   *)
(* and while the file has its old time, the name leads to it.              *)
Start(data, content) ==
    Len(data) <= Len(content) /\ \A i \in 1..Len(data) : data[i] = content[i]

Watched ==
    reader.pc \in {"read", "digest", "again"} =>
        LET f == files[reader.file] b == reader.before IN
        /\ b.mtime <= f.mtime /\ b.ctime <= f.ctime
        /\ b.mtime = f.mtime => b.content = f.content /\ Start(reader.data, f.content)
        /\ b.ctime = f.ctime /\ reader.file \notin touched => path = reader.file
        /\ reader.kind # "job" =>
              /\ Len(reader.data) <= Len(b.content)
              /\ reader.pc \in {"digest", "again"} => Len(reader.data) = Len(b.content)

Opened == reader.pc \notin {"idle", "open"} => Exists(reader.file)

IInv == /\ Shapes /\ LinkCount /\ Staged /\ Complete /\ Watched /\ Opened /\ ReadIsPublished
-----------------------------------------------------------------------------
USE FileReadsAssumption

LEMMA InitIInv == Init => IInv
  BY DEF Init, IInv, Shapes, LinkCount, Staged, Complete, Watched, Opened, ReadIsPublished, Given,
         Metadata, NoFile, Idle, Kinds, Exists, Holds, Named

LEMMA ReaderTyped ==
  ASSUME Shapes
  PROVE  /\ reader.pc \notin {"idle", "open"} => reader.file \in 1..Files /\ reader.kind \in Kinds
         /\ reader.pc \in {"read", "digest", "again"} =>
               reader.data \in Seq(Chunks) /\ reader.before \in Metadata
  BY DEF Shapes, Idle, Openers, Lookers, Pinners

LEMMA WriterTyped ==
  ASSUME Shapes, writer.pc # "idle"
  PROVE  writer \in Writers
  BY DEF Shapes, Idle, Writers

(* The reader's knowledge survives what only makes its file younger, as    *)
(* long as a change of content or of name is dated.                        *)
LEMMA WatchedKept ==
  ASSUME IInv, UNCHANGED reader, touched \subseteq touched',
         reader.pc \notin {"idle", "open"} =>
            LET f == files[reader.file] g == files'[reader.file] IN
            /\ g \in Metadata
            /\ f.mtime <= g.mtime /\ f.ctime <= g.ctime
            /\ f.mtime = g.mtime => f.content = g.content
            /\ f.ctime = g.ctime /\ path = reader.file => path' = reader.file
  PROVE  Watched' /\ Opened'
<1>1. CASE reader.pc \in {"idle", "open"}
  BY <1>1 DEF Watched, Opened
<1>2. CASE reader.pc \notin {"idle", "open"}
  <2> DEFINE f == files[reader.file] g == files'[reader.file] b == reader.before
  <2>1. reader.file \in 1..Files /\ f \in Metadata /\ g \in Metadata
    BY <1>2, ReaderTyped DEF IInv, Shapes
  <2>2. /\ f.mtime \in Nat /\ f.ctime \in Nat /\ g.mtime \in Nat /\ g.ctime \in Nat
        /\ f.mtime <= g.mtime /\ f.ctime <= g.ctime
        /\ f.mtime = g.mtime => f.content = g.content
        /\ f.ctime = g.ctime /\ path = reader.file => path' = reader.file
    BY <1>2, <2>1 DEF Metadata
  <2>3. Opened'
    BY <1>2, <2>2 DEF IInv, Opened, Exists
  <2>4. ASSUME reader.pc \in {"read", "digest", "again"} PROVE Watched'
    <3>1. b.mtime \in Nat /\ b.ctime \in Nat
      BY <2>4, ReaderTyped DEF IInv, Metadata
    <3>2. /\ b.mtime <= f.mtime /\ b.ctime <= f.ctime
          /\ b.mtime = f.mtime => b.content = f.content /\ Start(reader.data, f.content)
          /\ b.ctime = f.ctime /\ reader.file \notin touched => path = reader.file
          /\ reader.kind # "job" =>
                /\ Len(reader.data) <= Len(b.content)
                /\ reader.pc \in {"digest", "again"} => Len(reader.data) = Len(b.content)
      BY <2>4 DEF IInv, Watched
    <3>3. /\ b.mtime <= g.mtime /\ b.ctime <= g.ctime
          /\ b.mtime = g.mtime => b.content = g.content /\ Start(reader.data, g.content)
          /\ b.ctime = g.ctime /\ reader.file \notin touched' => path' = reader.file
      BY <2>2, <3>1, <3>2
    <3> QED
      BY <3>2, <3>3 DEF Watched
  <2> QED
    BY <2>3, <2>4 DEF Watched
<1> QED
  BY <1>1, <1>2

LEMMA CreateStep ==
  ASSUME IInv, NEW doc \in Documents, NEW overwrite \in BOOLEAN, Create(doc, overwrite)
  PROVE  IInv'
<1>1. PICK f \in Fresh :
         /\ files' = [files EXCEPT ![f].links = 1, ![f].ctime = 1]
         /\ writer' = [pc |-> "write", file |-> f, left |-> doc, overwrite |-> overwrite]
  BY DEF Create
<1>2. /\ f \in 1..Files /\ files[f] = NoFile /\ files[f].ctime = 0 /\ writer = Idle
      /\ UNCHANGED <<path, outside, touched, reader, opened, answer>>
  BY DEF Fresh, NoFile, Create, reading
<1>3. /\ files \in [1..Files -> Metadata] /\ doc \in Seq(Chunks)
      /\ ~Exists(f) /\ path # f /\ f \notin touched
  BY <1>2 DEF IInv, Shapes, Staged, Exists
<1>4. /\ files' \in [1..Files -> Metadata]
      /\ files'[f].content = <<>> /\ files'[f].links = 1 /\ files'[f].ctime = 1
      /\ \A g \in 1..Files : g # f => files'[g] = files[g]
  BY <1>1, <1>2, <1>3 DEF Metadata, NoFile
<1>5. Shapes'
  BY <1>1, <1>2, <1>3, <1>4 DEF IInv, Shapes, Writers, Idle
<1>6. LinkCount'
  BY <1>1, <1>2, <1>3, <1>4 DEF IInv, LinkCount, Named, Holds, Idle
<1>7. Staged'
  BY <1>1, <1>2, <1>3, <1>4 DEF IInv, Shapes, Staged, Exists, Opened
<1>8. Complete'
  <2>1. files'[f].content \o writer'.left \in Documents
    BY <1>1, <1>3, <1>4, ConcatEmptySeq
  <2>2. ASSUME NEW g \in 1..Files, g # f, g \notin touched, Exists(g)'
        PROVE  files'[g].content \in Documents
    BY <1>2, <1>4, <2>2 DEF IInv, Complete, Exists, Holds, Idle
  <2> QED
    BY <1>1, <1>2, <1>3, <2>1, <2>2 DEF Complete, Holds
<1>9. Watched' /\ Opened'
  <2>1. reader.pc \notin {"idle", "open"} =>
           files'[reader.file] = files[reader.file] /\ files[reader.file] \in Metadata
    BY <1>3, <1>4, ReaderTyped DEF IInv, Opened
  <2> QED
    BY <1>2, <2>1, WatchedKept DEF Metadata
<1> QED
  BY <1>2, <1>5, <1>6, <1>7, <1>8, <1>9 DEF IInv, ReadIsPublished, Given

(* No file gets older, and a change of content is dated.                   *)
Younger(fs) ==
    \A g \in 1..Files :
       /\ files[g].mtime <= fs[g].mtime /\ files[g].ctime <= fs[g].ctime
       /\ files[g].mtime = fs[g].mtime => files[g].content = fs[g].content
       /\ files[g].ctime > 0 => fs[g].ctime > 0

LEMMA LinkedFile ==
  ASSUME files \in [1..Files -> Metadata], NEW f \in 1..Files, NEW n \in 0..3
  PROVE  LET fs == Linked(files, f, n) IN
         /\ fs \in [1..Files -> Metadata]
         /\ fs[f].content = files[f].content /\ fs[f].links = n
         /\ fs[f].mtime = files[f].mtime /\ fs[f].ctime = files[f].ctime + 1
         /\ \A g \in 1..Files : g # f => fs[g] = files[g]
         /\ Younger(fs)
<1> DEFINE m == files[f]
           r == [content |-> m.content, links |-> n, mtime |-> m.mtime, ctime |-> m.ctime + 1]
<1>1. m \in Metadata
  OBVIOUS
<1>2. r \in Metadata
  BY <1>1 DEF Metadata
<1>3. Linked(files, f, n)[f] = r
  BY <1>1 DEF Linked, Metadata
<1>4. \A g \in 1..Files : g # f => Linked(files, f, n)[g] = files[g]
  BY DEF Linked
<1>5. Linked(files, f, n) = [g \in 1..Files |-> Linked(files, f, n)[g]]
  BY DEF Linked
<1>6. Linked(files, f, n) \in [1..Files -> Metadata]
  BY <1>2, <1>3, <1>4, <1>5
<1>7. \A g \in 1..Files : files[g].mtime \in Nat /\ files[g].ctime \in Nat
  BY DEF Metadata
<1>8. ASSUME NEW g \in 1..Files
      PROVE  /\ files[g].mtime <= Linked(files, f, n)[g].mtime
             /\ files[g].ctime <= Linked(files, f, n)[g].ctime
             /\ files[g].mtime = Linked(files, f, n)[g].mtime
                   => files[g].content = Linked(files, f, n)[g].content
             /\ files[g].ctime > 0 => Linked(files, f, n)[g].ctime > 0
  <2>1. CASE g = f
    BY <1>3, <1>7, <2>1
  <2>2. CASE g # f
    BY <1>4, <1>7, <2>2
  <2> QED
    BY <2>1, <2>2
<1> QED
  BY <1>3, <1>4, <1>6, <1>8 DEF Younger

LEMMA WrittenFile ==
  ASSUME files \in [1..Files -> Metadata], NEW f \in 1..Files, NEW data \in Seq(Chunks)
  PROVE  LET fs == Written(f, data) IN
         /\ fs \in [1..Files -> Metadata]
         /\ fs[f].content = data /\ fs[f].links = files[f].links
         /\ fs[f].mtime = files[f].mtime + 1 /\ fs[f].ctime = files[f].ctime + 1
         /\ \A g \in 1..Files : g # f => fs[g] = files[g]
         /\ Younger(fs)
<1> DEFINE m == files[f]
           r == [content |-> data, links |-> m.links, mtime |-> m.mtime + 1, ctime |-> m.ctime + 1]
<1>1. m \in Metadata
  OBVIOUS
<1>2. r \in Metadata
  BY <1>1 DEF Metadata
<1>3. Written(f, data)[f] = r
  BY <1>1 DEF Written, Metadata
<1>4. \A g \in 1..Files : g # f => Written(f, data)[g] = files[g]
  BY DEF Written
<1>5. Written(f, data) = [g \in 1..Files |-> Written(f, data)[g]]
  BY DEF Written
<1>6. Written(f, data) \in [1..Files -> Metadata]
  BY <1>2, <1>3, <1>4, <1>5
<1>7. \A g \in 1..Files : files[g].mtime \in Nat /\ files[g].ctime \in Nat
  BY DEF Metadata
<1>8. ASSUME NEW g \in 1..Files
      PROVE  /\ files[g].mtime <= Written(f, data)[g].mtime
             /\ files[g].ctime <= Written(f, data)[g].ctime
             /\ files[g].mtime = Written(f, data)[g].mtime
                   => files[g].content = Written(f, data)[g].content
             /\ files[g].ctime > 0 => Written(f, data)[g].ctime > 0
  <2>1. CASE g = f
    BY <1>3, <1>7, <2>1
  <2>2. CASE g # f
    BY <1>4, <1>7, <2>2
  <2> QED
    BY <2>1, <2>2
<1> QED
  BY <1>3, <1>4, <1>6, <1>8 DEF Younger

(* The first chunk moves from what is left to what is held.                *)
LEMMA HeadMoves ==
  ASSUME NEW held \in Seq(Chunks), NEW left \in Seq(Chunks), left # <<>>
  PROVE  /\ Head(left) \in Chunks /\ Tail(left) \in Seq(Chunks)
         /\ Append(held, Head(left)) \in Seq(Chunks)
         /\ Append(held, Head(left)) \o Tail(left) = held \o left
<1> DEFINE c == Head(left) t == Tail(left)
<1>1. c \in Chunks /\ t \in Seq(Chunks) /\ Len(t) = Len(left) - 1 /\ Len(left) > 0
      /\ c = left[1] /\ \A i \in 1..Len(t) : t[i] = left[i + 1]
  BY HeadTailProperties
<1>2. Append(held, c) = held \o <<c>> /\ <<c>> \in Seq(Chunks) /\ Append(held, c) \in Seq(Chunks)
  BY <1>1, AppendIsConcat, AppendProperties
<1>3. (held \o <<c>>) \o t = held \o (<<c>> \o t)
  BY <1>1, <1>2, ConcatAssociative
<1>4. <<c>> \o t = left
  <2>1. /\ <<c>> \o t \in Seq(Chunks) /\ Len(<<c>>) = 1 /\ <<c>>[1] = c
        /\ Len(<<c>> \o t) = 1 + Len(t)
        /\ \A i \in 1..(1 + Len(t)) : (<<c>> \o t)[i] = IF i <= 1 THEN <<c>>[i] ELSE t[i - 1]
    BY <1>1, <1>2, ConcatProperties
  <2>2. \A i \in 1..Len(left) : (<<c>> \o t)[i] = left[i]
    BY <1>1, <2>1
  <2> QED
    BY <1>1, <2>1, <2>2, SeqEqual
<1> QED
  BY <1>1, <1>2, <1>3, <1>4

(* The reader's knowledge survives when files only get younger and the     *)
(* name leaves a file only with a date.                                    *)
LEMMA YoungerKept ==
  ASSUME IInv, UNCHANGED reader, touched \subseteq touched',
         files' \in [1..Files -> Metadata], Younger(files'),
         \A f \in 1..Files : files[f].ctime = files'[f].ctime /\ path = f => path' = f
  PROVE  Watched' /\ Opened'
  BY ReaderTyped, WatchedKept DEF IInv, Younger

LEMMA Existing ==
  ASSUME IInv
  PROVE  /\ path # None => path \in 1..Files /\ files[path].ctime > 0
         /\ \A g \in touched : g \in 1..Files /\ files[g].ctime > 0
         /\ files \in [1..Files -> Metadata]
         /\ writer.pc # "idle" => writer \in Writers /\ writer.file \in 1..Files
  BY WriterTyped DEF IInv, Shapes, Staged, Exists, Writers

LEMMA LinkFacts ==
  ASSUME IInv, NEW g \in 1..Files
  PROVE  /\ files[g].links \in 0..3 /\ files[g].links >= Named(g)
         /\ g \notin touched => files[g].links = Named(g)
         /\ path = g => files[g].links >= 1
         /\ Holds(g) => files[g].links >= 1
<1>1. files[g] \in Metadata
  BY Existing
<1>2. /\ files[g].links >= Named(g)
      /\ g \notin touched => files[g].links = Named(g)
  BY DEF IInv, LinkCount
<1>3. /\ Named(g) \in 0..2
      /\ path = g => Named(g) >= 1
      /\ Holds(g) => Named(g) >= 1
  BY DEF Named
<1>4. files[g].links \in 0..3
  BY <1>1 DEF Metadata
<1> QED
  BY <1>2, <1>3, <1>4

LEMMA WriteChunkStep == IInv /\ WriteChunk => IInv'
<1> SUFFICES ASSUME IInv, WriteChunk PROVE IInv'
  OBVIOUS
<1> DEFINE f == writer.file held == files[f].content
<1>1. /\ writer \in Writers /\ writer.pc = "write" /\ f \in 1..Files
      /\ files \in [1..Files -> Metadata] /\ writer.left \in Seq(Chunks) /\ held \in Seq(Chunks)
      /\ UNCHANGED <<path, outside, touched, reader, opened, answer>>
  BY WriterTyped DEF WriteChunk, reading, IInv, Shapes, Writers, Metadata
<1>2. path # f /\ f \notin touched /\ Exists(f) /\ held \o writer.left \in Documents
  BY <1>1 DEF IInv, Staged, Complete, Holds
<1>3. CASE writer.left = <<>>
  <2>1. writer' = [writer EXCEPT !.pc = "publish"] /\ UNCHANGED files
    BY <1>3 DEF WriteChunk
  <2>2. writer' \in Writers /\ writer'.pc = "publish" /\ writer'.file = f
    BY <1>1, <2>1 DEF Writers
  <2>3. held \in Documents
    BY <1>1, <1>2, <1>3, ConcatEmptySeq
  <2>4. Shapes' /\ LinkCount'
    BY <1>1, <2>1, <2>2 DEF IInv, Shapes, LinkCount, Named, Holds
  <2>5. Staged'
    BY <1>1, <2>1, <2>2 DEF IInv, Staged, Exists
  <2>6. Complete'
    BY <1>1, <2>1, <2>2, <2>3 DEF IInv, Complete, Exists, Holds
  <2> QED
    BY <1>1, <2>1, <2>4, <2>5, <2>6
    DEF IInv, Watched, Opened, Exists, ReadIsPublished, Given
<1>4. CASE writer.left # <<>>
  <2> DEFINE data == Append(held, Head(writer.left))
  <2>1. files' = Written(f, data) /\ writer' = [writer EXCEPT !.left = Tail(writer.left)]
    BY <1>4 DEF WriteChunk
  <2>2. /\ Head(writer.left) \in Chunks /\ Tail(writer.left) \in Seq(Chunks)
        /\ data \in Seq(Chunks) /\ data \o Tail(writer.left) = held \o writer.left
    BY <1>1, <1>4, HeadMoves
  <2>3. /\ writer' \in Writers /\ writer'.pc = "write" /\ writer'.file = f
        /\ writer'.left = Tail(writer.left)
    BY <1>1, <2>1, <2>2 DEF Writers
  <2>4. /\ files' \in [1..Files -> Metadata]
        /\ files'[f].content = data /\ files'[f].links = files[f].links
        /\ \A g \in 1..Files : g # f => files'[g] = files[g]
        /\ Younger(files')
    BY <1>1, <2>1, <2>2, WrittenFile
  <2>5. Shapes'
    BY <1>1, <2>3, <2>4 DEF IInv, Shapes
  <2>6. LinkCount'
    BY <1>1, <2>3, <2>4 DEF IInv, LinkCount, Named, Holds
  <2>7. Staged'
    <3>1. /\ files'[f].ctime > 0
          /\ path # None => files'[path].ctime > 0
          /\ \A g \in touched : files'[g].ctime > 0
      BY <1>1, <1>2, <2>4, Existing DEF Younger, Exists
    <3>2. reader.pc \notin {"idle", "open"} => reader.file # f
      BY <1>1, <1>2 DEF IInv, Staged
    <3> QED
      BY <1>1, <1>2, <2>3, <3>1, <3>2 DEF Staged, Exists
  <2>8. Complete'
    BY <1>1, <1>2, <2>2, <2>3, <2>4 DEF IInv, Complete, Exists, Holds
  <2>9. Watched' /\ Opened'
    BY <1>1, <2>4, YoungerKept
  <2> QED
    BY <1>1, <2>5, <2>6, <2>7, <2>8, <2>9 DEF IInv, ReadIsPublished, Given
<1> QED
  BY <1>3, <1>4

LEMMA PublishStep == IInv /\ Publish => IInv'
<1> SUFFICES ASSUME IInv, Publish PROVE IInv'
  OBVIOUS
<1> DEFINE f == writer.file
<1>1. /\ writer \in Writers /\ writer.pc = "publish" /\ f \in 1..Files
      /\ files \in [1..Files -> Metadata]
      /\ UNCHANGED <<outside, touched, reader, opened, answer>>
  BY Existing DEF Publish, reading, IInv
<1>2. /\ path # f /\ f \notin touched /\ files[f].ctime > 0 /\ files[f].content \in Documents
      /\ reader.pc \notin {"idle", "open"} => reader.file # f
  BY <1>1 DEF IInv, Staged, Complete, Holds, Exists
<1>3. files[f].links = 1 /\ files[f].links >= 1
  BY <1>1, <1>2 DEF IInv, LinkCount, Named, Holds
<1>4. path # None => path \in 1..Files
  BY Existing
<1>5. CASE writer.overwrite
  <2>1. /\ files' = IF path = None THEN files ELSE Linked(files, path, files[path].links - 1)
        /\ path' = f /\ writer' = Idle
    BY <1>5 DEF Publish
  <2>2. path # None => files[path].links \in 0..3 /\ files[path].links >= 1
    BY <1>1, <1>2, <1>4 DEF IInv, LinkCount, Named, Holds, Metadata
  <2>3. /\ files' \in [1..Files -> Metadata]
        /\ \A g \in 1..Files : g # path => files'[g] = files[g]
        /\ path # None => /\ files'[path].content = files[path].content
                          /\ files'[path].links = files[path].links - 1
                          /\ files'[path].ctime = files[path].ctime + 1
    BY <1>1, <1>4, <2>1, <2>2, LinkedFile
  <2>4. Younger(files')
    <3>1. CASE path = None
      BY <1>1, <2>1, <3>1 DEF Younger, Metadata
    <3>2. CASE path # None
      BY <1>1, <1>4, <2>1, <2>2, <3>2, LinkedFile
    <3> QED
      BY <3>1, <3>2
  <2>5. Shapes'
    BY <1>1, <2>1, <2>3 DEF IInv, Shapes, Idle
  <2>6. LinkCount'
    <3> SUFFICES ASSUME NEW g \in 1..Files
                 PROVE  /\ files'[g].links >= Named(g)'
                        /\ g \notin touched => files'[g].links = Named(g)'
      BY <1>1 DEF LinkCount
    <3>1. Named(g)' = IF g = f THEN 1 ELSE 0
      BY <2>1 DEF Named, Holds, Idle
    <3>2. CASE g = f
      BY <1>1, <1>2, <1>3, <2>3, <3>1, <3>2
    <3>3. CASE g = path
      BY <1>1, <1>2, <2>3, <3>1, <3>3, LinkFacts DEF Named, Holds
    <3>4. CASE g # f /\ g # path
      BY <2>3, <3>1, <3>4, LinkFacts DEF Named, Holds
    <3> QED
      BY <3>2, <3>3, <3>4
  <2>7. Staged'
    BY <1>1, <1>2, <2>1, <2>4, Existing DEF Staged, Exists, Idle, Younger
  <2>8. Complete'
    <3>1. \A g \in 1..Files : files'[g].content = files[g].content
      BY <2>3
    <3>2. \A g \in 1..Files : files'[g].ctime > 0 => files[g].ctime > 0
      BY <1>1, <1>4, <2>3, Existing
    <3> QED
      BY <1>1, <2>1, <3>1, <3>2 DEF IInv, Complete, Exists, Holds, Idle
  <2>9. Watched' /\ Opened'
    <3>1. path # None => files[path].ctime \in Nat
      BY <1>1, <1>4 DEF Metadata
    <3>2. \A g \in 1..Files : path = g => files[g].ctime # files'[g].ctime
      BY <2>3, <3>1
    <3> QED
      BY <1>1, <2>3, <2>4, <3>2, YoungerKept
  <2> QED
    BY <1>1, <2>5, <2>6, <2>7, <2>8, <2>9 DEF IInv, ReadIsPublished, Given
<1>6. CASE ~writer.overwrite
  <2>1. /\ writer' = [writer EXCEPT !.pc = "unlink"]
        /\ path = None => path' = f /\ files' = Linked(files, f, 2)
        /\ path # None => UNCHANGED <<path, files>>
    BY <1>6 DEF Publish
  <2>2. writer' \in Writers /\ writer'.pc = "unlink" /\ writer'.file = f
    BY <1>1, <2>1 DEF Writers
  <2>3. CASE path # None
    BY <1>1, <1>2, <2>1, <2>2, <2>3
    DEF IInv, Shapes, LinkCount, Named, Holds, Staged, Exists, Complete, Watched, Opened,
        ReadIsPublished, Given
  <2>4. CASE path = None
    <3>1. /\ files' \in [1..Files -> Metadata]
          /\ \A g \in 1..Files : g # f => files'[g] = files[g]
          /\ files'[f].content = files[f].content /\ files'[f].links = 2
          /\ files'[f].ctime = files[f].ctime + 1
          /\ Younger(files') /\ path' = f
      BY <1>1, <2>1, <2>4, LinkedFile
    <3>2. Shapes' /\ LinkCount'
      BY <1>1, <2>2, <2>4, <3>1 DEF IInv, Shapes, LinkCount, Named, Holds
    <3>3. Staged'
      BY <1>1, <1>2, <2>2, <3>1, Existing DEF Staged, Exists, Younger
    <3>4. Complete'
      BY <1>1, <1>2, <2>2, <3>1 DEF IInv, Complete, Exists, Holds
    <3>5. Watched' /\ Opened'
      BY <1>1, <2>4, <3>1, YoungerKept
    <3> QED
      BY <1>1, <3>2, <3>3, <3>4, <3>5 DEF IInv, ReadIsPublished, Given
  <2> QED
    BY <2>3, <2>4
<1> QED
  BY <1>1, <1>5, <1>6 DEF Writers

LEMMA UnlinkTempStep == IInv /\ UnlinkTemp => IInv'
<1> SUFFICES ASSUME IInv, UnlinkTemp PROVE IInv'
  OBVIOUS
<1> DEFINE f == writer.file
<1>1. /\ writer \in Writers /\ writer.pc = "unlink" /\ f \in 1..Files
      /\ files \in [1..Files -> Metadata] /\ files[f].ctime > 0
      /\ files' = Linked(files, f, files[f].links - 1) /\ writer' = Idle
      /\ UNCHANGED <<path, outside, touched, reader, opened, answer>>
  BY Existing DEF UnlinkTemp, reading, IInv, Staged, Exists
<1>2. files[f].links \in 0..3 /\ files[f].links >= 1
  BY <1>1, LinkFacts DEF Holds
<1>3. /\ files' \in [1..Files -> Metadata]
      /\ \A g \in 1..Files : g # f => files'[g] = files[g]
      /\ files'[f].content = files[f].content /\ files'[f].links = files[f].links - 1
      /\ Younger(files')
  BY <1>1, <1>2, LinkedFile
<1>4. Shapes'
  BY <1>1, <1>3 DEF IInv, Shapes, Idle
<1>5. LinkCount'
  <2> SUFFICES ASSUME NEW g \in 1..Files
               PROVE  /\ files'[g].links >= Named(g)'
                      /\ g \notin touched => files'[g].links = Named(g)'
    BY <1>1 DEF LinkCount
  <2>1. Named(g)' = IF path = g THEN 1 ELSE 0
    BY <1>1 DEF Named, Holds, Idle
  <2>2. CASE g = f
    BY <1>1, <1>2, <1>3, <2>1, <2>2, LinkFacts DEF Named, Holds
  <2>3. CASE g # f
    BY <1>1, <1>3, <2>1, <2>3, LinkFacts DEF Named, Holds
  <2> QED
    BY <2>2, <2>3
<1>6. Staged'
  BY <1>1, <1>3, Existing DEF Staged, Exists, Idle, Younger
<1>7. Complete'
  BY <1>1, <1>3 DEF IInv, Complete, Exists, Holds, Idle
<1>8. Watched' /\ Opened'
  BY <1>1, <1>3, YoungerKept
<1> QED
  BY <1>1, <1>4, <1>5, <1>6, <1>7, <1>8 DEF IInv, ReadIsPublished, Given

(* An outsider works on a file that has its name, so that nothing staged   *)
(* without one is touched.                                                 *)
LEMMA OutsiderStep == IInv /\ Outsider => IInv'
<1> SUFFICES ASSUME IInv, Outsider PROVE IInv'
  OBVIOUS
<1> DEFINE held == files[path].content
<1>1. /\ path \in 1..Files /\ files \in [1..Files -> Metadata] /\ held \in Seq(Chunks)
      /\ files[path].ctime > 0 /\ files[path].links \in 0..3
      /\ touched' = touched \cup {path}
      /\ UNCHANGED <<path, writer, reader, opened, answer>>
  BY Existing DEF Outsider, reading, Metadata
<1>2. /\ files' \in [1..Files -> Metadata] /\ Younger(files')
      /\ \A g \in 1..Files : g # path => files'[g] = files[g]
      /\ files'[path].links >= files[path].links
  <2>1. ASSUME NEW data \in Seq(Chunks), files' = Written(path, data)
        PROVE  /\ files' \in [1..Files -> Metadata] /\ Younger(files')
               /\ \A g \in 1..Files : g # path => files'[g] = files[g]
               /\ files'[path].links >= files[path].links
    BY <1>1, <2>1, WrittenFile
  <2>2. ASSUME NEW i \in DOMAIN held, NEW c \in Chunks PROVE [held EXCEPT ![i] = c] \in Seq(Chunks)
    BY <1>1, ExceptSeq
  <2>3. ASSUME NEW c \in Chunks PROVE Append(held, c) \in Seq(Chunks)
    BY <1>1
  <2>4. held # <<>> => SubSeq(held, 1, Len(held) - 1) \in Seq(Chunks)
    BY <1>1
  <2>5. CASE files[path].links < 3 /\ files' = Linked(files, path, files[path].links + 1)
    <3>1. files[path].links + 1 \in 0..3
      BY <1>1, <2>5
    <3> QED
      BY <1>1, <2>5, <3>1, LinkedFile
  <2> QED
    BY <2>1, <2>2, <2>3, <2>4, <2>5 DEF Outsider
<1>3. Shapes'
  BY <1>1, <1>2 DEF IInv, Shapes
<1>4. LinkCount'
  <2> SUFFICES ASSUME NEW g \in 1..Files
               PROVE  /\ files'[g].links >= Named(g)
                      /\ g \notin touched' => files'[g].links = Named(g)
    BY <1>1 DEF LinkCount, Named, Holds
  <2>1. CASE g = path
    <3>1. Named(g) \in 0..2 /\ files'[g].links \in 0..3
      BY <1>2 DEF Named, Metadata
    <3> QED
      BY <1>1, <1>2, <2>1, <3>1, LinkFacts
  <2>2. CASE g # path
    BY <1>1, <1>2, <2>2, LinkFacts
  <2> QED
    BY <2>1, <2>2
<1>5. Staged'
  BY <1>1, <1>2, Existing DEF IInv, Staged, Exists, Younger
<1>6. Complete'
  BY <1>1, <1>2 DEF IInv, Complete, Exists, Holds
<1>7. Watched' /\ Opened'
  BY <1>1, <1>2, YoungerKept
<1> QED
  BY <1>1, <1>3, <1>4, <1>5, <1>6, <1>7 DEF IInv, ReadIsPublished, Given
-----------------------------------------------------------------------------
(* What a step of the reader leaves to show.                               *)
LEMMA ReaderStep ==
  ASSUME IInv, UNCHANGED publication,
         reader' \in {Idle} \cup Openers \cup Lookers \cup Pinners,
         opened' \subseteq {"root", "parent", "file"},
         reader'.pc = "idle" => opened' = {},
         reader'.pc \notin {"idle", "open"} =>
            /\ files[reader'.file].ctime > 0
            /\ writer.pc # "idle" /\ path # writer.file => reader'.file # writer.file,
         Watched', ReadIsPublished'
  PROVE  IInv'
<1> USE DEF publication
<1>1. Shapes'
  BY DEF IInv, Shapes
<1>2. LinkCount' /\ Complete'
  BY DEF IInv, LinkCount, Named, Holds, Complete, Exists
<1>3. Staged'
  BY DEF IInv, Staged, Exists
<1>4. Opened'
  BY DEF Opened, Exists
<1> QED
  BY <1>1, <1>2, <1>3, <1>4 DEF IInv

LEMMA EndsStep ==
  ASSUME IInv, UNCHANGED publication, NEW how, Ends(how),
         Given(how) /\ how.file \notin touched => how.data \in Documents
  PROVE  IInv'
<1>1. reader' = Idle /\ reader'.pc = "idle" /\ opened' = {} /\ answer' = how
  BY DEF Ends, Idle
<1>2. Watched' /\ ReadIsPublished'
  BY <1>1 DEF Watched, ReadIsPublished, publication, Given
<1> QED
  BY <1>1, <1>2, ReaderStep

LEMMA RefusedStep ==
  ASSUME IInv, UNCHANGED publication, Ends(Refused) \/ Ends([kind |-> "absent"])
  PROVE  IInv'
  BY EndsStep DEF Given, Refused, Kinds

(* The file of a reader exists, and is not one that is being staged.       *)
LEMMA FileKept ==
  ASSUME IInv, reader.pc \notin {"idle", "open"}
  PROVE  /\ reader.file \in 1..Files /\ files[reader.file].ctime > 0
         /\ files[reader.file] \in Metadata
         /\ writer.pc # "idle" /\ path # writer.file => reader.file # writer.file
  BY ReaderTyped, Existing DEF IInv, Staged, Opened, Exists

LEMMA AskStep == IInv /\ Ask => IInv'
<1> SUFFICES ASSUME IInv, Ask PROVE IInv'
  OBVIOUS
<1>1. ASSUME NEW kind \in Kinds, NEW pin \in Pins, NEW limit \in 1..2, Begin(kind, pin, limit)
      PROVE  IInv'
  <2>1. /\ reader' \in Openers /\ reader'.pc = "open" /\ opened' \subseteq {"root", "parent", "file"}
        /\ UNCHANGED publication /\ answer' = None
    BY <1>1 DEF Begin, Openers, Ask
  <2>2. Watched' /\ ReadIsPublished'
    BY <2>1 DEF Watched, ReadIsPublished, Given
  <2> QED
    BY <2>1, <2>2, ReaderStep
<1> QED
  BY <1>1 DEF Ask, Pins, Kinds

LEMMA OpenStep == IInv /\ Open => IInv'
<1> SUFFICES ASSUME IInv, Open PROVE IInv'
  OBVIOUS
<1>1. UNCHANGED publication /\ reader \in Openers
  BY DEF Open, IInv, Shapes, Idle, Lookers, Pinners
<1>2. CASE path = None
  BY <1>1, <1>2, RefusedStep DEF Open
<1>3. CASE path # None
  <2>1. /\ reader' = [pc |-> "stat", kind |-> reader.kind, pin |-> reader.pin,
                      limit |-> reader.limit, file |-> path, data |-> <<>>]
        /\ opened' = opened \cup {"file"} /\ UNCHANGED answer
    BY <1>3 DEF Open
  <2>2. path \in 1..Files /\ files[path].ctime > 0
    BY <1>3, Existing
  <2>3. reader' \in Lookers /\ reader'.pc = "stat" /\ reader'.file = path
    BY <1>1, <2>1, <2>2 DEF Openers, Lookers
  <2>4. Watched' /\ ReadIsPublished'
    BY <1>1, <2>1, <2>3 DEF IInv, Watched, ReadIsPublished, Given, publication
  <2>5. opened' \subseteq {"root", "parent", "file"}
    BY <2>1 DEF IInv, Shapes
  <2> QED
    BY <1>1, <2>2, <2>3, <2>4, <2>5, ReaderStep
<1> QED
  BY <1>2, <1>3

LEMMA StatStep == IInv /\ Stat => IInv'
<1> SUFFICES ASSUME IInv, Stat PROVE IInv'
  OBVIOUS
<1> DEFINE f == files[reader.file]
<1>1. /\ UNCHANGED publication /\ reader \in Lookers /\ reader.pc = "stat"
      /\ reader.file \in 1..Files /\ f.ctime > 0 /\ f \in Metadata
      /\ writer.pc # "idle" /\ path # writer.file => reader.file # writer.file
  BY FileKept DEF Stat, IInv, Shapes, Idle, Openers, Pinners
<1>2. CASE Ends(Refused)
  BY <1>1, <1>2, RefusedStep
<1>3. CASE /\ f.links = 1
           /\ reader' = [pc |-> "read", kind |-> reader.kind, pin |-> reader.pin,
                         limit |-> reader.limit, file |-> reader.file, data |-> <<>>,
                         before |-> f]
           /\ UNCHANGED <<opened, answer>>
  <2>1. /\ reader' \in Pinners /\ reader'.pc = "read" /\ reader'.file = reader.file
        /\ reader'.data = <<>> /\ reader'.before = f
    BY <1>1, <1>3 DEF Lookers, Pinners
  <2>2. reader.file \notin touched => path = reader.file
    BY <1>1, <1>3, LinkFacts DEF Named, Holds
  <2>3. Watched'
    <3>1. /\ f.mtime \in Nat /\ f.ctime \in Nat /\ Len(f.content) \in Nat
          /\ Len(<<>>) = 0
      BY <1>1 DEF Metadata
    <3>2. UNCHANGED <<files, path, touched>>
      BY <1>1 DEF publication
    <3> QED
      BY <2>1, <2>2, <3>1, <3>2 DEF Watched, Start
  <2>4. ReadIsPublished' /\ opened' \subseteq {"root", "parent", "file"}
    BY <1>1, <1>3 DEF IInv, Shapes, ReadIsPublished, Given, publication
  <2> QED
    BY <1>1, <2>1, <2>3, <2>4, ReaderStep
<1> QED
  BY <1>2, <1>3 DEF Stat

LEMMA PinnedFile ==
  ASSUME IInv, reader.pc \in {"read", "digest", "again"}
  PROVE  /\ reader \in Pinners /\ reader.file \in 1..Files
         /\ reader.data \in Seq(Chunks) /\ reader.before \in Metadata
         /\ files[reader.file] \in Metadata /\ files[reader.file].ctime > 0
         /\ writer.pc # "idle" /\ path # writer.file => reader.file # writer.file
  BY FileKept, ReaderTyped DEF IInv, Shapes, Idle, Openers, Lookers

(* The reader goes on with the same file and what it has read so far.      *)
LEMMA GoesStep ==
  ASSUME IInv, UNCHANGED publication, reader.pc \in {"read", "digest", "again"},
         NEW where \in {"digest", "again"}, Goes(where),
         reader.kind # "job" => Len(reader.data) = Len(reader.before.content)
  PROVE  IInv'
<1>1. /\ reader' = [reader EXCEPT !.pc = where] /\ UNCHANGED <<opened, answer>>
  BY DEF Goes
<1>2. /\ reader' \in Pinners /\ reader'.pc = where /\ reader'.file = reader.file
      /\ reader'.data = reader.data /\ reader'.before = reader.before
      /\ reader'.kind = reader.kind
  BY <1>1, PinnedFile DEF Pinners
<1>3. Watched'
  BY <1>2 DEF IInv, Watched, publication, Start
<1>4. ReadIsPublished' /\ opened' \subseteq {"root", "parent", "file"}
  BY <1>1 DEF IInv, Shapes, ReadIsPublished, Given, publication
<1> QED
  BY <1>2, <1>3, <1>4, PinnedFile, ReaderStep

(* One more chunk extends what was read of the old content.                *)
LEMMA ChunkStep ==
  ASSUME IInv, UNCHANGED publication, reader.pc = "read",
         LET held == files[reader.file].content n == Len(reader.data) IN
         /\ n < Len(held)
         /\ reader.kind # "job" => n < Len(reader.before.content)
         /\ reader' = [reader EXCEPT !.data = Append(reader.data, held[n + 1])],
         UNCHANGED <<opened, answer>>
  PROVE  IInv'
<1> DEFINE f == files[reader.file] b == reader.before n == Len(reader.data)
           data == Append(reader.data, f.content[n + 1])
<1>1. /\ reader \in Pinners /\ reader.file \in 1..Files /\ reader.data \in Seq(Chunks)
      /\ b \in Metadata /\ f \in Metadata /\ f.content \in Seq(Chunks) /\ n \in Nat
      /\ b.content \in Seq(Chunks)
  BY PinnedFile DEF Metadata
<1>2. /\ f.content[n + 1] \in Chunks /\ data \in Seq(Chunks) /\ Len(data) = n + 1
      /\ \A i \in 1..n : data[i] = reader.data[i]
      /\ data[n + 1] = f.content[n + 1]
  BY <1>1, ElementOfSeq, AppendProperties
<1>3. /\ reader' \in Pinners /\ reader'.pc = "read" /\ reader'.file = reader.file
      /\ reader'.data = data /\ reader'.before = b /\ reader'.kind = reader.kind
  BY <1>1, <1>2 DEF Pinners
<1>4. Start(reader.data, f.content) => Start(data, f.content)
  <2> SUFFICES ASSUME Start(reader.data, f.content) PROVE Start(data, f.content)
    OBVIOUS
  <2>1. \A i \in 1..(n + 1) : i \in 1..n \/ i = n + 1
    BY <1>1
  <2> QED
    BY <1>1, <1>2, <2>1 DEF Start
<1>5. reader.kind # "job" => Len(data) <= Len(b.content)
  BY <1>1, <1>2
<1>6. Watched'
  BY <1>3, <1>4, <1>5 DEF IInv, Watched, publication
<1>7. ReadIsPublished' /\ opened' \subseteq {"root", "parent", "file"}
  BY DEF IInv, Shapes, ReadIsPublished, Given, publication
<1> QED
  BY <1>3, <1>6, <1>7, PinnedFile, ReaderStep

LEMMA ReadChunkStep == IInv /\ ReadChunk => IInv'
<1> SUFFICES ASSUME IInv, ReadChunk PROVE IInv'
  OBVIOUS
<1> DEFINE held == files[reader.file].content n == Len(reader.data)
           more == n < Len(held)
           wanted == IF reader.kind = "job" THEN n < reader.limit + 1
                                            ELSE n < Len(reader.before.content)
<1>1. reader.pc = "read" /\ UNCHANGED publication
  BY DEF ReadChunk
<1>2. CASE wanted /\ more
  BY <1>1, <1>2, ChunkStep DEF ReadChunk
<1>3. CASE ~(wanted /\ more) /\ Ends(Refused)
  BY <1>1, <1>3, RefusedStep
<1>4. CASE /\ ~(wanted /\ more)
           /\ ~(wanted /\ ~more /\ reader.kind # "job")
           /\ ~(~wanted /\ more /\ reader.kind # "job")
  <2>1. Goes(IF reader.kind = "artifact" THEN "digest" ELSE "again")
    BY <1>4 DEF ReadChunk
  <2>2. reader.kind # "job" => Len(reader.data) = Len(reader.before.content)
    <3>1. reader.before.content \in Seq(Chunks) /\ reader.data \in Seq(Chunks)
      BY <1>1, PinnedFile DEF Metadata
    <3>2. reader.kind # "job" => n <= Len(reader.before.content)
      BY <1>1 DEF IInv, Watched
    <3> QED
      BY <1>4, <3>1, <3>2
  <2> QED
    BY <1>1, <2>1, <2>2, GoesStep
<1>5. \/ wanted /\ more
      \/ ~(wanted /\ more) /\ Ends(Refused)
      \/ /\ ~(wanted /\ more)
         /\ ~(wanted /\ ~more /\ reader.kind # "job")
         /\ ~(~wanted /\ more /\ reader.kind # "job")
  BY DEF ReadChunk, Truncated
<1> QED
  BY <1>2, <1>3, <1>4, <1>5

LEMMA DigestStep == IInv /\ Digest => IInv'
<1> SUFFICES ASSUME IInv, Digest PROVE IInv'
  OBVIOUS
<1>1. reader.pc = "digest" /\ UNCHANGED publication /\ (Goes("again") \/ Ends(Refused))
  BY DEF Digest
<1>2. reader.kind # "job" => Len(reader.data) = Len(reader.before.content)
  BY <1>1 DEF IInv, Watched
<1> QED
  BY <1>1, <1>2, GoesStep, RefusedStep

(* What the second look proves: the data is the content the file has now,  *)
(* the name leads to it, and it is a whole document.                       *)
LEMMA SecondLook ==
  ASSUME IInv, reader.pc = "again",
         LET after == files[reader.file] IN
         IF reader.kind = "job"
         THEN SameJobFile(reader.before, after) /\ Len(reader.data) = Len(reader.before.content)
         ELSE SameFile(reader.before, after)
  PROVE  /\ reader.data = files[reader.file].content
         /\ reader.kind # "job" /\ reader.file \notin touched => path = reader.file
         /\ reader.file \notin touched => reader.data \in Documents
<1> DEFINE f == files[reader.file] b == reader.before
<1>1. /\ reader.file \in 1..Files /\ reader.data \in Seq(Chunks) /\ f.content \in Seq(Chunks)
      /\ f.ctime > 0
      /\ writer.pc # "idle" /\ path # writer.file => reader.file # writer.file
  BY PinnedFile DEF Metadata
<1>2. b.mtime = f.mtime /\ Len(reader.data) = Len(b.content)
  BY DEF SameJobFile, SameFile, IInv, Watched
<1>3. b.content = f.content /\ Start(reader.data, f.content)
  BY <1>2 DEF IInv, Watched
<1>4. reader.data = f.content
  BY <1>1, <1>2, <1>3, SeqEqual DEF Start
<1>5. reader.kind # "job" /\ reader.file \notin touched => path = reader.file
  BY DEF SameFile, IInv, Watched
<1>6. ~(Holds(reader.file) /\ writer.pc = "write")
  BY <1>1 DEF IInv, Staged, Holds
<1>7. reader.file \notin touched => f.content \in Documents
  BY <1>1, <1>6 DEF IInv, Complete, Exists
<1> QED
  BY <1>4, <1>5, <1>7

LEMMA AgainStep == IInv /\ Again => IInv'
<1> SUFFICES ASSUME IInv, Again PROVE IInv'
  OBVIOUS
<1>1. reader.pc = "again" /\ UNCHANGED publication
  BY DEF Again
<1>2. CASE Ends(Refused)
  BY <1>1, <1>2, RefusedStep
<1>3. CASE Ends([kind |-> reader.kind, data |-> reader.data, file |-> reader.file]) /\ ~Ends(Refused)
  <2>1. reader.file \notin touched => reader.data \in Documents
    BY <1>1, <1>3, SecondLook DEF Again
  <2> QED
    BY <1>1, <1>3, <2>1, EndsStep
<1> QED
  BY <1>2, <1>3 DEF Again

LEMMA NextIInv == IInv /\ [Next]_vars => IInv'
<1> SUFFICES ASSUME IInv, [Next]_vars PROVE IInv'
  OBVIOUS
<1>1. CASE UNCHANGED vars
  BY <1>1 DEF vars, publication, reading, IInv, Shapes, LinkCount, Named, Holds, Staged, Exists,
              Complete, Watched, Opened, ReadIsPublished, Given
<1> QED
  BY <1>1, CreateStep, WriteChunkStep, PublishStep, UnlinkTempStep, OutsiderStep, AskStep, OpenStep,
     StatStep, ReadChunkStep, DigestStep, AgainStep DEF Next

LEMMA Inductive == Spec => []IInv
  BY InitIInv, NextIInv, PTL DEF Spec
-----------------------------------------------------------------------------
(* Every variable keeps its type, a reader that is not at work holds no    *)
(* descriptor, and whatever is written beside it, a read of a file that no *)
(* outsider has touched answers with a document the program published      *)
(* (atomic_write_private, read_private_bytes).                             *)
THEOREM PublishedIsRead == Spec => []FileReadsInv
<1>1. IInv => FileReadsTypeOK
  <2> SUFFICES ASSUME IInv PROVE FileReadsTypeOK
    OBVIOUS
  <2>1. \A f \in 1..Files : files[f].links \in 0..3 /\ files[f].content \in Seq(Chunks)
    BY Existing DEF Metadata
  <2>2. reader.pc \in {"idle", "open", "stat", "read", "digest", "again"}
    BY DEF IInv, Shapes, Idle, Openers, Lookers, Pinners
  <2> QED
    BY <2>1, <2>2, ReaderTyped DEF IInv, Shapes, FileReadsTypeOK
<1>2. IInv => FileReadsInv
  BY <1>1 DEF IInv, FileReadsInv
<1> QED
  BY <1>2, Inductive, PTL

(* A read answers with one whole content of the file, at the moment it     *)
(* answers, and the name still leads there (_read, read_private_bytes,     *)
(* load_job).                                                              *)
THEOREM WholeIsRead == Spec => ReadIsWhole
<1> DEFINE Whole ==
       Given(answer') /\ ~Given(answer) =>
          /\ answer'.data = files[answer'.file].content
          /\ answer'.kind # "job" /\ answer'.file \notin touched => path = answer'.file
<1>1. ASSUME IInv, Next PROVE Whole
  <2> SUFFICES ASSUME Given(answer'), ~Given(answer) PROVE Whole
    OBVIOUS
  <2>1. CASE Again
    <3>1. Ends([kind |-> reader.kind, data |-> reader.data, file |-> reader.file])
      BY <2>1 DEF Again, Ends, Given, Refused, Kinds
    <3>2. ~Ends(Refused)
      BY DEF Ends, Given, Refused, Kinds
    <3>3. /\ reader.data = files[reader.file].content
          /\ reader.kind # "job" /\ reader.file \notin touched => path = reader.file
      BY <1>1, <2>1, <3>2, SecondLook DEF Again
    <3> QED
      BY <3>1, <3>3 DEF Ends
  <2>2. CASE ~Again
    <3>1. answer' \in {answer, None, Refused, [kind |-> "absent"]}
      BY <1>1, <2>2
      DEF Next, Create, WriteChunk, Publish, UnlinkTemp, Outsider, Ask, Open, Stat, ReadChunk,
          Digest, reading, Begin, Ends, Goes, Truncated
    <3> QED
      BY <3>1 DEF Given, Refused, Kinds
  <2> QED
    BY <2>1, <2>2
<1>2. IInv /\ [Next]_vars => [Whole]_vars
  BY <1>1
<1> QED
  BY <1>2, Inductive, PTL DEF Spec, ReadIsWhole
=============================================================================
