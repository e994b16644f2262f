-------------------------------- MODULE Files --------------------------------
(***************************************************************************)
(* Files of one instance: uploads into it, listings and reads out of it    *)
(* (server/src/instances/service.ts upload, listFiles, readFile;           *)
(* instances/files.ts; docker/tar.ts; the routes under /instances/:id).    *)
(*                                                                         *)
(* Every request asks the container something, awaits the answer and acts  *)
(* on it, while other requests, the agent in the container and the         *)
(* container itself go on.                                                 *)
(***************************************************************************)
EXTENDS Naturals, Sequences, FiniteSetsExt

CONSTANTS
    Handlers,       \* bound: requests at a time
    MaxBeside,      \* bound: requests beside one that lists or reads
    RawNames,       \* file names a browser sends, as sequences of characters
    Legal,          \* [A-Za-z0-9_-]; "." is legal too, all else becomes "_"
    MaxName,        \* MAX_UPLOAD_NAME
    MaxExtension,   \* MAX_EXTENSION, the dot included
    MaxFile,        \* uploads.maxFileBytes
    MaxInstance,    \* uploads.maxInstanceBytes
    MaxRead,        \* maxReadBytes
    MaxListing,     \* MAX_LISTING_ENTRIES
    Block,          \* BLOCK, the header of an archive's entry
    MaxSize,        \* bound: sizes of files and directories in the workspace
    MaxChunk        \* bound: the bytes in one chunk of an archive

ASSUME HandlerAssumption ==
    IsFiniteSet(Handlers) /\ Handlers # {} /\ MaxBeside \in Nat
ASSUME SizeAssumption ==
    /\ MaxFile \in Nat /\ MaxInstance \in Nat /\ MaxRead \in Nat
    /\ MaxListing \in Nat /\ MaxSize \in Nat
    /\ Block \in Nat \ {0} /\ MaxChunk \in Nat \ {0}
ASSUME LengthAssumption ==
    MaxName \in Nat /\ MaxExtension \in Nat /\ MaxExtension < MaxName
ASSUME NameAssumption ==
    /\ RawNames \subseteq Seq(STRING)
    /\ "_" \in Legal /\ {".", "/", "\\"} \cap Legal = {}

VARIABLES
    box,            \* the container, as Docker lists it
    dir,            \* the uploads directory: name -> size
    target,         \* the path that is listed and read: its kind and size
    req,            \* per handler: the request it serves
    short           \* history: a measuring that failed passed for one that
                    \* had not

vars == <<box, dir, target, req, short>>

-----------------------------------------------------------------------------
(* The name an upload gets                                                 *)

IndexesOf(s, c) == {i \in DOMAIN s : s[i] = c}

Base(raw) == LET slashes == IndexesOf(raw, "/") \cup IndexesOf(raw, "\\")
             IN  IF slashes = {} THEN raw
                 ELSE SubSeq(raw, Max(slashes) + 1, Len(raw))

Cleaned(raw) ==
    LET base == Base(raw)
        kept == [i \in DOMAIN base |->
                    IF base[i] \in Legal \cup {"."} THEN base[i] ELSE "_"]
        rest == {i \in DOMAIN kept : kept[i] # "."}
    IN  IF rest = {} THEN << >> ELSE SubSeq(kept, Min(rest), Len(kept))

(* Deviation: the extension comes on top of the limit.                     *)
OnTop(name, extension) == SubSeq(name, 1, MaxName) \o extension

Shortened(name, extension) ==
    SubSeq(name, 1, MaxName - Len(extension)) \o extension

(* uploadFileName, which refuses what is empty after the cleaning.         *)
UploadFileName(raw) ==
    LET name == Cleaned(raw)
        dots == IndexesOf(name, ".")
        last == IF dots = {} THEN 0 ELSE Max(dots)
        extension == IF last > 1 /\ Len(name) - last + 1 <= MaxExtension
                     THEN SubSeq(name, last, Len(name)) ELSE << >>
    IN  IF Len(name) <= MaxName THEN name ELSE Shortened(name, extension)

-----------------------------------------------------------------------------
(* State                                                                   *)

Names == {UploadFileName(r) : r \in RawNames} \ {<< >>}

(* What the path can be, as far as a test tells: `fileLink` and `linkOut`  *)
(* are links, to a file and out of the workspace; `fileOut` is a regular   *)
(* file to which a link in a directory above it leads out; a link to a     *)
(* directory is treated as one everywhere.                                 *)
Regular == {"file", "fileOut"}
Sized == Regular \cup {"directory"}
Kinds == Sized \cup {"missing", "fileLink", "linkOut"}
Targets == {t \in [kind : Kinds, size : 0 .. MaxSize] :
               t.kind \in Sized \/ t.size = 0}

(* The type flag of an archive's entry; a regular file has two spellings.  *)
RegularFile == "0"
AlternativeRegular == "NUL"
Flags == {RegularFile, AlternativeRegular, "other"}

(* What a handler holds between two awaits.  A listing knows how many      *)
(* entries the directory had, how many came out of `find` and how many     *)
(* were sent; a read what the archive holds, with which flag and whether   *)
(* from outside the workspace, how much of it has come, whether it has     *)
(* ended, and what was taken from its header.  `steady`: the path has not  *)
(* changed since it was checked, and no `find` on it has failed.           *)
UploadRequest ==
    [op : {"upload"}, name : Names, size : 0 .. MaxFile,
     at : {"finding", "measuring", "putting", "announcing"}]
ListRequest ==
    [op : {"list"}, steady : BOOLEAN, found : 0 .. MaxSize,
     came : 0 .. MaxSize, shown : Nat, truncated : BOOLEAN,
     at : {"finding", "asking", "checked", "walking", "answered"}]
ReadRequest ==
    [op : {"read"}, steady : BOOLEAN, flag : Flags, out : BOOLEAN,
     length : 0 .. MaxSize, got : Nat, ended : BOOLEAN,
     header : BOOLEAN, size : 0 .. MaxSize,
     at : {"finding", "asking", "checked", "fetching", "reading",
           "answered"},
     answer : {"none", "missing", "wrongKind", "tooLarge", "malformed",
               "file"}]

(* What is refused before anything was listed or read of it.               *)
Refusal == [op : {"refused"}, at : {"answered"},
            answer : {"notRunning", "missing", "outside", "wrongKind",
                      "tooLarge"}]

(* No request, or one with an answer of which nothing is kept.             *)
Free == [op |-> "none", at |-> "answered"]

TypeOK ==
    /\ box \in {"running", "stopped", "gone"}
    /\ DOMAIN dir \subseteq Names /\ dir \in [DOMAIN dir -> 0 .. MaxFile]
    /\ target \in Targets
    /\ req \in [Handlers -> {Free} \cup Refusal \cup UploadRequest
                                   \cup ListRequest \cup ReadRequest]
    /\ short \in BOOLEAN

Init ==
    /\ box = "running" /\ dir = << >>
    /\ target = [kind |-> "missing", size |-> 0]
    /\ req = [h \in Handlers |-> Free]
    /\ short = FALSE

world == <<box, target>>

(* Handler h, in a request of kind op, at one of its awaits.               *)
At(h, op, at) == req[h].op = op /\ req[h].at = at
Idle(h) == req[h].at = "answered"

GoesTo(h, at) == req' = [req EXCEPT ![h].at = at]
Says(h, answer) ==
    req' = [req EXCEPT ![h] = [op |-> "refused", at |-> "answered",
                               answer |-> answer]]

(* An answer of which nothing is kept: what an upload did is told by the   *)
(* directory.                                                              *)
IsDone(h) == req' = [req EXCEPT ![h] = Free]

-----------------------------------------------------------------------------
(* The beginning of every request, when the handler's last one is answered *)

(* The bound: a listing or a read shares nothing with other requests.      *)
MayBegin(h, looks) ==
    LET others == {g \in Handlers \ {h} : req[g] # Free}
    IN  looks \/ (\E g \in others : req[g].op # "upload") =>
            Cardinality(others) <= MaxBeside

(* The name and the size are judged before Docker is asked anything: what  *)
(* is unusable or too large is refused here.                               *)
UploadArrives(h) ==
    /\ Idle(h) /\ MayBegin(h, FALSE)
    /\ \E raw \in RawNames, size \in 0 .. MaxFile :
           LET name == UploadFileName(raw)
           IN  /\ name # << >>
               /\ req' = [req EXCEPT ![h] =
                     [op |-> "upload", name |-> name, size |-> size,
                      at |-> "finding"]]
    /\ UNCHANGED <<world, dir, short>>

(* resolveWorkspacePath has let the path pass.                             *)
ListArrives(h) ==
    /\ Idle(h) /\ MayBegin(h, TRUE)
    /\ req' = [req EXCEPT ![h] = [op |-> "list", steady |-> TRUE,
           found |-> 0, came |-> 0, shown |-> 0, truncated |-> FALSE,
           at |-> "finding"]]
    /\ UNCHANGED <<world, dir, short>>

ReadArrives(h) ==
    /\ Idle(h) /\ MayBegin(h, TRUE)
    /\ req' = [req EXCEPT ![h] = [op |-> "read", steady |-> TRUE,
           flag |-> "other", out |-> FALSE, length |-> 0, got |-> 0,
           ended |-> FALSE, header |-> FALSE, size |-> 0,
           at |-> "finding", answer |-> "none"]]
    /\ UNCHANGED <<world, dir, short>>

(* runningContainerOf: one `docker ps` for the whole request.              *)
Finds(h) ==
    /\ req[h].at = "finding"
    /\ IF req[h].op = "upload"
       THEN IF box = "running" THEN GoesTo(h, "measuring") ELSE IsDone(h)
       ELSE IF box = "running" THEN GoesTo(h, "asking")
            ELSE Says(h, "notRunning")
    /\ UNCHANGED <<world, dir, short>>

(* An exec needs a container that runs.                                    *)
Refused(h) ==
    /\ box # "running"
    /\ \/ (At(h, "upload", "measuring") \/ At(h, "upload", "announcing"))
          /\ IsDone(h)
       \/ (At(h, "list", "asking") \/ At(h, "read", "asking"))
          /\ Says(h, "notRunning")
    /\ UNCHANGED <<world, dir, short>>

(* Docker fails a call, a stream breaks, or a script fails with an exit    *)
(* code of no meaning, killed with its container for one: an error answer  *)
(* that says nothing of the path.                                          *)
Fails(h) ==
    /\ ~Idle(h)
    /\ IsDone(h)
    /\ UNCHANGED <<world, dir, short>>

(* The beginning of both scripts: the exit codes, in the order of their    *)
(* tests.                                                                  *)
Checks(h) ==
    /\ At(h, "list", "asking") \/ At(h, "read", "asking")
    /\ box = "running"
    /\ CASE target.kind = "missing" -> Says(h, "missing")
         [] target.kind \in {"linkOut", "fileOut"} -> Says(h, "outside")
         [] OTHER -> GoesTo(h, "checked")
    /\ UNCHANGED <<world, dir, short>>

-----------------------------------------------------------------------------
(* Uploads                                                                 *)

(* The bytes of what is sized: by whose they are and their place in it.    *)
Bytes(size) == {b \in (DOMAIN size) \X (1 .. MaxFile) : b[2] <= size[b[1]]}

Used(d) == Cardinality(Bytes(d))

(* Deviation: the directory as it is, without the file on its way.         *)
FitsAlready(size) == Used(dir) <= MaxInstance

Fits(size) == Used(dir) + size <= MaxInstance

(* usedUploadBytes, and the decision in the same turn.                     *)
Measures(h) ==
    /\ At(h, "upload", "measuring") /\ box = "running"
    /\ IF Fits(req[h].size) THEN GoesTo(h, "putting") ELSE IsDone(h)
    /\ UNCHANGED <<world, dir, short>>

(* A measuring that failed before it had counted everything, and that both *)
(* inspects still saw running: exitCodeOf takes it for a success.          *)
MeasuresShort(h) ==
    /\ At(h, "upload", "measuring") /\ box = "running"
    /\ GoesTo(h, "putting")
    /\ short' = TRUE
    /\ UNCHANGED <<world, dir>>

(* singleFileArchive: what is in the directory once it is unpacked there.  *)
Extracted(d, name, size) == [n \in DOMAIN d \cup {name} |->
                                IF n = name THEN size ELSE d[n]]

(* putArchive, into a container that is there, running or not; announced   *)
(* if the session was ready when the container was listed.                 *)
Puts(h) ==
    /\ At(h, "upload", "putting")
    /\ IF box = "gone" THEN IsDone(h) /\ UNCHANGED dir
       ELSE /\ dir' = Extracted(dir, req[h].name, req[h].size)
            /\ GoesTo(h, "announcing") \/ IsDone(h)
    /\ UNCHANGED <<world, short>>

(* announce: tmux takes the path or refuses it; the file is there anyway.  *)
Announces(h) ==
    /\ At(h, "upload", "announcing") /\ box = "running"
    /\ IsDone(h)
    /\ UNCHANGED <<world, dir, short>>

-----------------------------------------------------------------------------
(* Listings                                                                *)

(* Deviation: the script hands out no more than is shown.                  *)
HeadExact(n) == Min({n, MaxListing})

(* LIST_SCRIPT: one entry more than the limit.                             *)
Head1(n) == Min({n, MaxListing + 1})

(* The script's last test, of the path it resolved, and `find` opens it.   *)
(* A path that changed since may have become anything else.                *)
Opens(h) ==
    /\ At(h, "list", "checked") /\ box = "running"
    /\ \/ /\ target.kind = "directory"
          /\ req' = [req EXCEPT ![h].at = "walking", ![h].found = target.size]
       \/ /\ target.kind # "directory" \/ ~req[h].steady
          /\ Says(h, "wrongKind")
    /\ UNCHANGED <<world, dir, short>>

(* A refusal that both inspects miss, the script seeming to run still, is  *)
(* an exit code 0 (exitCodeOf): no output, and thus an empty listing.      *)
RefusalMissed(h) ==
    /\ At(h, "list", "asking") \/ At(h, "list", "checked")
    /\ box = "running"
    /\ req' = [req EXCEPT ![h].at = "answered", ![h].steady = FALSE]
    /\ UNCHANGED <<world, dir, short>>

(* `find` has handed out what it came by: every entry there was, unless it *)
(* failed or the directory changed under it.  Its errors are dropped, and  *)
(* the exit code is that of `head`: all of this is an exit code 0, which   *)
(* checkPath passes and parseListing counts.                               *)
Lists(h) ==
    /\ At(h, "list", "walking") /\ box = "running"
    /\ \E came \in 0 .. MaxSize :
         LET n == Head1(came)
         IN  req' = [req EXCEPT
                 ![h].at = "answered", ![h].came = came,
                 ![h].steady = req[h].steady /\ came = req[h].found,
                 ![h].shown = Min({n, MaxListing}),
                 ![h].truncated = n > MaxListing]
    /\ UNCHANGED <<world, dir, short>>

-----------------------------------------------------------------------------
(* Reads                                                                   *)

(* The rest of STAT_SCRIPT: a link is refused wherever it points.          *)
Stats(h) ==
    /\ At(h, "read", "checked") /\ box = "running"
    /\ CASE target.kind \notin Regular -> Says(h, "wrongKind")
         [] OTHER -> IF target.size > MaxRead THEN Says(h, "tooLarge")
                     ELSE GoesTo(h, "fetching")
    /\ UNCHANGED <<world, dir, short>>

(* getArchive: whatever is under the path by now.  Docker sends a link as  *)
(* a link, but follows those above it; which of its two flags a regular    *)
(* file has is the writer's choice.                                        *)
Fetches(h) ==
    /\ At(h, "read", "fetching")
    /\ IF box = "gone" THEN Says(h, "notRunning")
       ELSE IF target.kind = "missing" THEN Says(h, "missing")
       ELSE \E flag \in Flags :
              /\ flag = "other" <=> target.kind \notin Regular
              /\ req' = [req EXCEPT ![h].at = "reading",
                     ![h].flag = flag, ![h].out = target.kind = "fileOut",
                     ![h].length = IF target.kind \in Regular
                                   THEN target.size ELSE 0]
    /\ UNCHANGED <<world, dir, short>>

(* Deviation: an entry of any kind is taken for a file.                    *)
AnyEntry(h) == FALSE

(* readAscii ends a field at its first NUL.                                *)
ReadAscii(flag) == IF flag = AlternativeRegular THEN "" ELSE flag

(* The typeflag, once there is a header.                                   *)
NoFile(h) == ReadAscii(req[h].flag) \notin {RegularFile, AlternativeRegular}

(* readFirstEntry, one turn of its loop: the header is looked at once, as  *)
(* soon as a block is held, and the body when all of it is.                *)
ChunkArrives(h) ==
    /\ At(h, "read", "reading")
    /\ \E n \in 1 .. MaxChunk :
         LET got  == req[h].got + n
             size == IF req[h].header THEN req[h].size ELSE req[h].length
             to(at, answer) ==
                 req' = [req EXCEPT ![h].got = got, ![h].at = at,
                     ![h].answer = answer, ![h].header = got >= Block,
                     ![h].size = IF got >= Block THEN size ELSE 0]
         IN  /\ got <= Block + req[h].length + MaxChunk
             /\ CASE got < Block -> to("reading", "none")
                  [] got >= Block /\ ~req[h].header /\ NoFile(h) ->
                         to("answered", "wrongKind")
                  [] got >= Block /\ ~req[h].header /\ ~NoFile(h)
                                 /\ size > MaxRead ->
                         to("answered", "tooLarge")
                  [] OTHER -> IF got >= Block + size
                              THEN to("answered", "file")
                              ELSE to("reading", "none")
    /\ UNCHANGED <<world, dir, short>>

(* The stream ends before the entry does.  Nothing but a part of a block   *)
(* is read as an archive without an entry, and that as a missing path.     *)
StreamEnds(h) ==
    /\ At(h, "read", "reading")
    /\ req' = [req EXCEPT ![h].at = "answered", ![h].ended = TRUE,
           ![h].answer = IF req[h].header THEN "malformed" ELSE "missing"]
    /\ UNCHANGED <<world, dir, short>>

-----------------------------------------------------------------------------
(* The container and the agent in it                                       *)

BoxChanges ==
    /\ box # "gone"
    /\ box' \in {"running", "stopped", "gone"} \ {box}
    /\ UNCHANGED <<dir, target, req, short>>

(* The path changes, and with it what was checked about it.                *)
Unsettled(r) == IF r.at \in {"checked", "walking", "fetching"}
                THEN [r EXCEPT !.steady = FALSE] ELSE r

AgentWrites ==
    /\ box = "running"
    /\ target' \in Targets \ {target}
    /\ req' = [h \in Handlers |-> Unsettled(req[h])]
    /\ UNCHANGED <<box, dir, short>>

AgentTidies ==
    /\ box = "running"
    /\ \E n \in DOMAIN dir :
           dir' = [m \in DOMAIN dir \ {n} |-> dir[m]]
    /\ UNCHANGED <<world, req, short>>

Next ==
    \/ BoxChanges \/ AgentWrites \/ AgentTidies
    \/ \E h \in Handlers :
           \/ UploadArrives(h) \/ ListArrives(h) \/ ReadArrives(h)
           \/ Finds(h) \/ Refused(h) \/ Fails(h) \/ Checks(h)
           \/ Measures(h) \/ MeasuresShort(h) \/ Puts(h) \/ Announces(h)
           \/ Opens(h) \/ RefusalMissed(h) \/ Lists(h)
           \/ Stats(h) \/ Fetches(h) \/ ChunkArrives(h) \/ StreamEnds(h)

Spec == Init /\ [][Next]_vars

-----------------------------------------------------------------------------

Putting == {h \in Handlers : At(h, "upload", "putting")}
OnItsWay == [h \in Putting |-> req[h].size]

(* The quota is measured before an await and used after it; what uploads   *)
(* at the same time can exceed it by is one file for every other request,  *)
(* those on their way included, and nothing alone exceeds it.  Stated as   *)
(* long as no failed measuring has passed for a success, which exitCodeOf  *)
(* allows: after that nothing is left of the quota.                        *)
OverrunIsParallel ==
    ~short =>
        Used(dir) + Cardinality(Bytes(OnItsWay))
            <= MaxInstance + (Cardinality(Handlers) - 1) * MaxFile

(* Whatever name was sent, the file has a name of its own in the           *)
(* directory: not empty, not hidden, short enough for a tar header, with   *)
(* no character but those that need no quoting (uploadFileName).           *)
NamesAreUsable ==
    \A n \in DOMAIN dir :
        /\ Len(n) \in 1 .. MaxName /\ n[1] # "."
        /\ \A i \in DOMAIN n : n[i] \in Legal \cup {"."}

(* A listing shows all there is in the directory, or as much as may be     *)
(* shown and that it was cut; it never says so without more (LIST_SCRIPT,  *)
(* MAX_LISTING_ENTRIES).  The exception, which the answer does not tell    *)
(* apart: of a `find` that failed or whose directory changed meanwhile the *)
(* errors are dropped and the exit code is that of `head`, and a refusal   *)
(* that both inspects miss counts as an exit code 0, so that entries may   *)
(* be missing from a listing that says it is not truncated.                *)
ListingIsTrue ==
    \A h \in Handlers :
        At(h, "list", "answered") =>
            /\ req[h].truncated => req[h].came > MaxListing
            /\ req[h].steady =>
                   /\ req[h].truncated <=> req[h].found > MaxListing
                   /\ req[h].shown = Min({req[h].found, MaxListing})

(* What the archive and the bytes of it that came amount to, however they  *)
(* were cut into chunks.                                                   *)
Amounts(r) ==
    IF r.got < Block THEN IF r.ended THEN "missing" ELSE "none"
    ELSE IF r.flag # RegularFile THEN "wrongKind"
    ELSE IF r.length > MaxRead THEN "tooLarge"
    ELSE IF r.got >= Block + r.length THEN "file"
    ELSE IF r.ended THEN "malformed" ELSE "none"

(* Where the answer to a read is decided.                                  *)
Needed(r) == IF r.flag = RegularFile /\ r.length <= MaxRead
             THEN Block + r.length ELSE Block

(* A read answers what the archive amounts to, whatever the agent did to   *)
(* the path since its size was asked and wherever the chunks end, and      *)
(* takes no more of the stream than the chunk that decides it: an          *)
(* oversized file stays in the container (tar.ts, readFirstEntry).  It     *)
(* hands out nothing but a regular file, and one from outside the          *)
(* workspace only if the path was changed after it had been checked: that  *)
(* case the code lets through, since Docker follows the links above the    *)
(* last name and nothing checks the path again.  A regular file with the   *)
(* second spelling of its flag is refused: tar.ts means to accept it, but  *)
(* readAscii has ended the field at that very NUL.                         *)
ReadIsExact ==
    \A h \in Handlers :
        LET r == req[h]
        IN  r.op = "read" /\ (r.at = "reading" \/ r.got > 0) =>
                /\ r.answer = Amounts(r)
                /\ r.got < Needed(r) + MaxChunk
                /\ r.answer = "file" /\ r.out => ~r.steady

=============================================================================
