----------------------------- MODULE FileReads ------------------------------
(***************************************************************************)
(* Reading one file beside processes that change it: the pinned artifact   *)
(* and the private output of artifacts.py, and the job file of job.py.     *)
(* Each opens the name, looks at the file, reads it in chunks and looks    *)
(* again, and refuses a file that is not as it was.  The program's own     *)
(* writers publish whole files under the name, by a link or by a           *)
(* replacement (atomic_write_private, which ReceiptLog follows through its *)
(* failures); an outsider may change a file in place.                      *)
(*                                                                         *)
(* A content is a sequence of chunks, its digest the content itself.       *)
(* Every change of a file gives it a new time: what two changes within one *)
(* tick of the file system's clock do is not modelled.                     *)
(***************************************************************************)
EXTENDS Integers, Sequences, FiniteSets

CONSTANTS Chunks,        \* what a chunk may hold
          Documents,     \* whole contents the program publishes
          Parsable,      \* contents its parsers accept
          References,    \* artifact references: content and role contract
          Expectations,  \* what a consumer asks of a reference
          Files,         \* bound: files ever created
          MaxOutside,    \* bound: changes by an outsider
          None

VARIABLES path,      \* the file the name leads to
          files,     \* content, links and times of each file
          writer,    \* a publication under way
          outside,   \* how often an outsider changed something
          touched,   \* history: files an outsider has written to or linked
          reader,    \* a read under way
          opened,    \* descriptors the reader holds
          answer     \* how the last read ended

publication == <<path, files, writer, touched, outside>>
reading == <<reader, opened, answer>>
vars == <<publication, reading>>

ASSUME FileReadsAssumption ==
    /\ Parsable \subseteq Seq(Chunks) /\ Documents \subseteq Seq(Chunks)
    /\ Files \in Nat /\ MaxOutside \in Nat /\ None \notin Nat

NoFile == [content |-> <<>>, links |-> 0, mtime |-> 0, ctime |-> 0]
Idle == [pc |-> "idle"]
Kinds == {"artifact", "private", "job"}

FileReadsTypeOK ==
    /\ path \in 1..Files \cup {None}
    /\ \A f \in 1..Files : files[f].links \in 0..3 /\ files[f].content \in Seq(Chunks)
    /\ reader.pc \in {"idle", "open", "stat", "read", "digest", "again"}
    /\ opened \subseteq {"root", "parent", "file"}
    /\ reader.pc = "idle" => opened = {}
    /\ reader.pc \notin {"idle", "open"} => reader.file \in 1..Files

Init ==
    /\ path = None /\ files = [f \in 1..Files |-> NoFile] /\ writer = Idle
    /\ outside = 0 /\ touched = {}
    /\ reader = Idle /\ opened = {} /\ answer = None
-----------------------------------------------------------------------------
(* Changes of a file: its content, or the number of its links.             *)
Written(f, data) == [files EXCEPT ![f].content = data, ![f].mtime = @ + 1, ![f].ctime = @ + 1]
Linked(fs, f, n) == [fs EXCEPT ![f].links = n, ![f].ctime = @ + 1]

Fresh == {f \in 1..Files : /\ files[f] = NoFile
                           /\ \A g \in 1..(f - 1) : files[g] # NoFile}

(* Mutant: the document is staged under its final name.                    *)
Create_InPlace(doc, overwrite) ==
    /\ writer = Idle
    /\ \E f \in Fresh :
          /\ files' = [files EXCEPT ![f].links = 1, ![f].ctime = 1]
          /\ path' = f
          /\ writer' = [pc |-> "write", file |-> f, left |-> doc, overwrite |-> overwrite]
    /\ UNCHANGED <<outside, touched, reading>>

Create(doc, overwrite) ==
    /\ writer = Idle
    /\ \E f \in Fresh :
          /\ files' = [files EXCEPT ![f].links = 1, ![f].ctime = 1]
          /\ writer' = [pc |-> "write", file |-> f, left |-> doc, overwrite |-> overwrite]
    /\ UNCHANGED <<path, outside, touched, reading>>

WriteChunk ==
    /\ writer.pc = "write"
    /\ IF writer.left = <<>>
       THEN writer' = [writer EXCEPT !.pc = "publish"] /\ UNCHANGED files
       ELSE /\ files' = Written(writer.file, Append(files[writer.file].content, Head(writer.left)))
            /\ writer' = [writer EXCEPT !.left = Tail(@)]
    /\ UNCHANGED <<path, outside, touched, reading>>

(* os.replace over the name, or os.link, which fails when it exists.       *)
Publish ==
    /\ writer.pc = "publish"
    /\ IF writer.overwrite
       THEN /\ files' = IF path = None THEN files ELSE Linked(files, path, files[path].links - 1)
            /\ path' = writer.file /\ writer' = Idle
       ELSE /\ writer' = [writer EXCEPT !.pc = "unlink"]
            /\ IF path = None
               THEN path' = writer.file /\ files' = Linked(files, writer.file, 2)
               ELSE UNCHANGED <<path, files>>
    /\ UNCHANGED <<outside, touched, reading>>

UnlinkTemp ==
    /\ writer.pc = "unlink"
    /\ files' = Linked(files, writer.file, files[writer.file].links - 1)
    /\ writer' = Idle
    /\ UNCHANGED <<path, outside, touched, reading>>

(* An outsider rewrites a chunk, appends, truncates, or links the file.    *)
Outsider ==
    /\ path # None /\ outside < MaxOutside
    /\ LET held == files[path].content IN
       \/ \E i \in DOMAIN held, c \in Chunks : files' = Written(path, [held EXCEPT ![i] = c])
       \/ \E c \in Chunks : files' = Written(path, Append(held, c))
       \/ held # <<>> /\ files' = Written(path, SubSeq(held, 1, Len(held) - 1))
       \/ files[path].links < 3 /\ files' = Linked(files, path, files[path].links + 1)
    /\ touched' = touched \cup {path}
    /\ outside' = outside + 1
    /\ UNCHANGED <<path, writer, reading>>
-----------------------------------------------------------------------------
(* ArtifactRef.validate and ArtifactExpectation.validate.                  *)
Meets(reference, expected) ==
    /\ reference.role = expected.role
    /\ reference.media = expected.media /\ reference.schema = expected.schema
    /\ reference.producer = "atlas" \/ reference.role \notin {"dataset_split", "candidate"}

Ends(how) == reader' = Idle /\ answer' = how /\ opened' = {}

Refused == [kind |-> "refused"]

Goes(where) == reader' = [reader EXCEPT !.pc = where] /\ UNCHANGED <<opened, answer>>

Begin(kind, pin, limit) ==
    /\ reader' = [pc |-> "open", kind |-> kind, pin |-> pin, limit |-> limit]
    /\ opened' = IF kind = "job" THEN {} ELSE {"root", "parent"}
    /\ answer' = None

Ask ==
    /\ reader.pc = "idle"
    /\ \/ \E r \in References, e \in Expectations, limit \in 1..2 :
             /\ Meets(r, e) /\ Len(r.content) <= limit
             /\ Begin("artifact", r.content, limit)
       \/ \E kind \in {"private", "job"}, limit \in 1..2 : Begin(kind, None, limit)
    /\ UNCHANGED publication

Open ==
    /\ reader.pc = "open"
    /\ IF path = None
       THEN Ends(IF reader.kind = "private" THEN [kind |-> "absent"] ELSE Refused)
       ELSE /\ reader' = [pc |-> "stat", kind |-> reader.kind, pin |-> reader.pin,
                          limit |-> reader.limit, file |-> path, data |-> <<>>]
            /\ opened' = opened \cup {"file"}
            /\ UNCHANGED answer
    /\ UNCHANGED publication

(* The first look: one link, a size within the limit and, for an artifact, *)
(* the pinned one.                                                         *)
Stat ==
    /\ reader.pc = "stat"
    /\ LET f == files[reader.file] IN
       IF /\ f.links = 1 /\ Len(f.content) <= reader.limit
          /\ reader.kind = "artifact" => Len(f.content) = Len(reader.pin)
       THEN /\ reader' = [pc |-> "read", kind |-> reader.kind, pin |-> reader.pin,
                          limit |-> reader.limit, file |-> reader.file, data |-> <<>>,
                          before |-> f]
            /\ UNCHANGED <<opened, answer>>
       ELSE Ends(Refused)
    /\ UNCHANGED publication

(* Mutant: an empty read is tried again.                                   *)
Truncated_Retries == Goes("read")

Truncated == Ends(Refused)

(* Artifacts and outputs are read up to the size first seen, and then one  *)
(* byte is tried for; a job file is read to its end or one past its limit. *)
ReadChunk ==
    /\ reader.pc = "read"
    /\ LET held == files[reader.file].content
           n == Len(reader.data)
           more == n < Len(held)
           wanted == IF reader.kind = "job" THEN n < reader.limit + 1
                                            ELSE n < Len(reader.before.content)
       IN  CASE wanted /\ more -> /\ reader' = [reader EXCEPT !.data = Append(@, held[n + 1])]
                                  /\ UNCHANGED <<opened, answer>>
             [] wanted /\ ~more /\ reader.kind # "job" -> Truncated
             [] ~wanted /\ more /\ reader.kind # "job" -> Ends(Refused)
             [] OTHER -> Goes(IF reader.kind = "artifact" THEN "digest" ELSE "again")
    /\ UNCHANGED publication

Digest ==
    /\ reader.pc = "digest"
    /\ IF reader.data = reader.pin /\ reader.data \in Parsable THEN Goes("again") ELSE Ends(Refused)
    /\ UNCHANGED publication

(* Mutant: the second look only compares the sizes.                        *)
SameFile_Size(before, after) == Len(before.content) = Len(after.content)

(* _stable_identity: links, size and both times.                           *)
SameFile(before, after) ==
    /\ before.links = after.links /\ Len(before.content) = Len(after.content)
    /\ before.mtime = after.mtime /\ before.ctime = after.ctime

(* load_job compares the size and one time only.                           *)
SameJobFile(before, after) ==
    Len(before.content) = Len(after.content) /\ before.mtime = after.mtime

Again ==
    /\ reader.pc = "again"
    /\ LET after == files[reader.file]
           same == IF reader.kind = "job"
                   THEN /\ SameJobFile(reader.before, after)
                        /\ Len(reader.data) = Len(reader.before.content)
                   ELSE SameFile(reader.before, after)
       IN  IF same THEN Ends([kind |-> reader.kind, data |-> reader.data, file |-> reader.file])
                   ELSE Ends(Refused)
    /\ UNCHANGED publication

Next ==
    \/ \E doc \in Documents, overwrite \in BOOLEAN : Create(doc, overwrite)
    \/ WriteChunk \/ Publish \/ UnlinkTemp \/ Outsider
    \/ Ask \/ Open \/ Stat \/ ReadChunk \/ Digest \/ Again

Reader == Open \/ Stat \/ ReadChunk \/ Digest \/ Again

Spec == Init /\ [][Next]_vars
FairSpec == Spec /\ WF_vars(Reader)
-----------------------------------------------------------------------------
Given(a) == a # None /\ a.kind \in Kinds

(* The bytes a read answers with are the whole content of the file at that *)
(* moment, and never a mixture of two contents; for an artifact or an      *)
(* output that no outsider has linked the name still leads to that file    *)
(* (_read, read_private_bytes, load_job).                                  *)
ReadIsWhole ==
    [][Given(answer') /\ ~Given(answer) =>
          /\ answer'.data = files[answer'.file].content
          /\ answer'.kind # "job" /\ answer'.file \notin touched => path = answer'.file]_vars

(* Unless an outsider changed the file, what is read is a document the     *)
(* program published, never one it is still staging                        *)
(* (atomic_write_private, read_private_bytes).                             *)
ReadIsPublished ==
    Given(answer) /\ answer.file \notin touched => answer.data \in Documents

(* The invariant of the reads: types, no descriptor held between two reads *)
(* (finally: os.close), and published contents.                            *)
FileReadsInv == FileReadsTypeOK /\ ReadIsPublished

(* Every read comes to an end, however often the file is replaced or grows *)
(* under it: each loop is bounded by what was seen first or by the limit.  *)
ReadEnds == reader.pc = "open" ~> reader.pc = "idle"
=============================================================================
