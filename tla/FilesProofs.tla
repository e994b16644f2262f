---------------------------- MODULE FilesProofs ----------------------------
(***************************************************************************)
(* Files.tla for any number of requests, any limits and any cut of an      *)
(* archive into chunks: the types, that a listing says whether it was cut, *)
(* that a read answers what its archive amounts to, that every file put    *)
(* has a name, and that only parallel uploads pass the quota.              *)
(***************************************************************************)
EXTENDS Files, FiniteSetTheorems, SequenceTheorems, WellFoundedInduction,
        TLAPS

ListFits(r) ==
    /\ r.at # "answered" => ~r.truncated
    /\ r.at = "answered" =>
           /\ r.truncated => r.came > MaxListing
           /\ r.steady => /\ r.truncated <=> r.found > MaxListing
                          /\ r.shown = Min({r.found, MaxListing})

(* A read that is under way has not been answered; one whose header has    *)
(* been looked at is of a file that may be read and has not all come.  As  *)
(* long as nothing was changed since the path was checked, it leads        *)
(* nowhere out of the workspace.                                           *)
ReadFits(r) ==
    /\ r.at # "answered" => r.answer = "none" /\ ~r.ended
    /\ r.at \in {"finding", "asking", "checked", "fetching"} =>
           r.got = 0 /\ ~r.header
    /\ r.at \in {"checked", "fetching"} /\ r.steady =>
           target.kind # "fileOut"
    /\ r.at = "reading" => (r.header <=> r.got >= Block)
    /\ r.at = "reading" /\ r.header =>
           /\ r.flag = RegularFile /\ r.length <= MaxRead
           /\ r.size = r.length /\ r.got < Block + r.length
    /\ r.at = "reading" \/ r.got > 0 =>
           /\ r.answer = Amounts(r) /\ r.got < Needed(r) + MaxChunk
           /\ r.out => ~r.steady

Request == {Free} \cup Refusal \cup UploadRequest \cup ListRequest
               \cup ReadRequest

RequestFits(r) ==
    /\ r \in Request
    /\ r.op = "list" => ListFits(r)
    /\ r.op = "read" => ReadFits(r)

IInv == TypeOK /\ \A h \in Handlers : RequestFits(req[h])

-----------------------------------------------------------------------------
(* Helpers                                                                 *)

LEMMA MinOfTwo ==
  ASSUME NEW a \in Nat, NEW b \in Nat
  PROVE  Min({a, b}) = IF a <= b THEN a ELSE b
<1> DEFINE m == IF a <= b THEN a ELSE b
<1>1. m \in {a, b} /\ \A y \in {a, b} : m <= y
  OBVIOUS
<1>2. \A x \in {a, b} : (\A y \in {a, b} : x <= y) => x = m
  OBVIOUS
<1> HIDE DEF m
<1>3. Min({a, b}) \in {a, b} /\ \A y \in {a, b} : Min({a, b}) <= y
  BY <1>1 DEF Min
<1> QED
  BY <1>2, <1>3 DEF m

(* The kind of a request is that of its record.                            *)
LEMMA KindOfRequest ==
  ASSUME NEW r \in Request
  PROVE  /\ r.op = "upload" => r \in UploadRequest
         /\ r.op = "list" => r \in ListRequest
         /\ r.op = "read" => r \in ReadRequest
<1>1. /\ Free.op = "none"
      /\ \A q \in Refusal : q.op = "refused"
  BY DEF Free, Refusal
<1>2. r \in UploadRequest => r.op = "upload"
  BY DEF UploadRequest
<1>3. r \in ListRequest => r.op = "list"
  BY DEF ListRequest
<1>4. r \in ReadRequest => r.op = "read"
  BY DEF ReadRequest
<1> QED
  BY <1>1, <1>2, <1>3, <1>4 DEF Request

(* One handler's request changes, and what it becomes fits.                *)
LEMMA OneChanges ==
  ASSUME IInv, NEW h \in Handlers, NEW r, RequestFits(r),
         req' = [req EXCEPT ![h] = r],
         box' = box, target' = target, short' \in BOOLEAN,
         DOMAIN dir' \subseteq Names, dir' \in [DOMAIN dir' -> 0 .. MaxFile]
  PROVE  IInv'
<1>1. req \in [Handlers -> Request]
  BY DEF IInv, TypeOK, Request
<1>2. req' \in [Handlers -> Request] /\ req'[h] = r
  BY <1>1 DEF RequestFits
<1>3. \A g \in Handlers \ {h} : req'[g] = req[g]
  BY <1>1
<1>4. \A g \in Handlers : RequestFits(req'[g])
  BY <1>2, <1>3 DEF IInv
<1> QED
  BY <1>2, <1>4 DEF IInv, TypeOK, Request, RequestFits, ListFits, ReadFits,
     Amounts, Needed

LEMMA FactsOfIInv ==
  ASSUME IInv
  PROVE  /\ req \in [Handlers -> Request]
         /\ \A h \in Handlers : RequestFits(req[h])
         /\ DOMAIN dir \subseteq Names /\ dir \in [DOMAIN dir -> 0 .. MaxFile]
         /\ short \in BOOLEAN /\ target \in Targets
BY DEF IInv, TypeOK, Request

(* An upload that goes on, and any request that is answered.               *)
LEMMA UploadGoesOn ==
  ASSUME NEW r \in UploadRequest,
         NEW at \in {"finding", "measuring", "putting", "announcing"}
  PROVE  RequestFits([r EXCEPT !.at = at])
<1> DEFINE p == [r EXCEPT !.at = at]
<1>1. p \in UploadRequest
  BY DEF UploadRequest
<1> HIDE DEF p
<1>2. p.op = "upload"
  BY <1>1 DEF UploadRequest
<1>3. RequestFits(p)
  BY <1>1, <1>2 DEF RequestFits, Request
<1> QED
  BY <1>3 DEF p

LEMMA FreeFits == RequestFits(Free)
BY DEF RequestFits, Request, Free

LEMMA RefusalFits ==
  ASSUME NEW answer \in {"notRunning", "missing", "outside", "wrongKind",
                         "tooLarge"}
  PROVE  RequestFits([op |-> "refused", at |-> "answered",
                      answer |-> answer])
BY DEF RequestFits, Request, Refusal

(* A list that has not been answered yet.                                  *)
LEMMA ListGoesOn ==
  ASSUME NEW r \in ListRequest, RequestFits(r), r.at # "answered",
         NEW at \in {"asking", "checked", "walking"}, NEW n \in 0 .. MaxSize
  PROVE  /\ RequestFits([r EXCEPT !.at = at])
         /\ RequestFits([r EXCEPT !.at = at, !.found = n])
<1> DEFINE p == [r EXCEPT !.at = at]
           q == [r EXCEPT !.at = at, !.found = n]
<1>1. /\ p \in ListRequest /\ q \in ListRequest /\ p.at = at /\ q.at = at
      /\ p.truncated = r.truncated /\ q.truncated = r.truncated
  BY DEF ListRequest
<1>4. ~r.truncated
  BY DEF RequestFits, ListFits, ListRequest
<1> HIDE DEF p, q
<1>2. p.op = "list" /\ q.op = "list"
  BY <1>1 DEF ListRequest
<1>3. RequestFits(p) /\ RequestFits(q)
  BY <1>1, <1>2, <1>4 DEF RequestFits, Request, ListFits
<1> QED
  BY <1>3 DEF p, q

(* A read that has not come to its stream yet.                             *)
LEMMA ReadGoesOn ==
  ASSUME NEW r \in ReadRequest, ReadFits(r),
         r.at \in {"finding", "asking", "checked", "fetching"},
         NEW at \in {"asking", "checked", "fetching"},
         at = "asking" \/ r.at = "checked" \/ target.kind # "fileOut"
  PROVE  RequestFits([r EXCEPT !.at = at])
<1> DEFINE q == [r EXCEPT !.at = at]
<1>1. /\ q \in ReadRequest /\ q.at = at /\ q.got = r.got
      /\ q.answer = r.answer /\ q.ended = r.ended /\ q.header = r.header
      /\ q.steady = r.steady
  BY DEF ReadRequest
<1> HIDE DEF q
<1>2. q.op = "read" /\ q.got = 0
  BY <1>1 DEF ReadRequest, ReadFits
<1>3. /\ q.answer = "none" /\ ~q.ended /\ ~q.header
      /\ q.at \in {"checked", "fetching"} /\ q.steady =>
             target.kind # "fileOut"
  BY <1>1 DEF ReadFits
<1>4. ReadFits(q)
  BY <1>1, <1>2, <1>3 DEF ReadFits
<1>5. RequestFits(q)
  BY <1>1, <1>2, <1>4 DEF RequestFits, Request
<1> QED
  BY <1>5 DEF q

-----------------------------------------------------------------------------
(* Requests arrive                                                         *)

LEMMA InitIInv == Init => IInv
<1> SUFFICES ASSUME Init PROVE IInv
  OBVIOUS
<1>1. [kind |-> "missing", size |-> 0] \in Targets
  BY SizeAssumption DEF Targets, Kinds, Sized, Regular
<1>2. DOMAIN dir = {} /\ dir \in [DOMAIN dir -> 0 .. MaxFile]
  BY DEF Init
<1> QED
  BY <1>1, <1>2, FreeFits DEF Init, IInv, TypeOK, RequestFits, Request

LEMMA ArrivesKeeps ==
  ASSUME IInv, NEW h \in Handlers,
         UploadArrives(h) \/ ListArrives(h) \/ ReadArrives(h)
  PROVE  IInv'
<1>1. UNCHANGED <<box, target, dir, short>>
  BY Zenon DEF UploadArrives, ListArrives, ReadArrives, world
<1>2. PICK r : RequestFits(r) /\ req' = [req EXCEPT ![h] = r]
  <2>1. CASE UploadArrives(h)
    <3>1. PICK raw \in RawNames, size \in 0 .. MaxFile :
             /\ UploadFileName(raw) # << >>
             /\ req' = [req EXCEPT ![h] =
                 [op |-> "upload", name |-> UploadFileName(raw), size |-> size,
                  at |-> "finding"]]
      BY <2>1 DEF UploadArrives
    <3> DEFINE r == [op |-> "upload", name |-> UploadFileName(raw),
                     size |-> size, at |-> "finding"]
    <3>2. r \in UploadRequest /\ r.op = "upload"
      BY <3>1 DEF UploadRequest, Names
    <3>3. RequestFits(r)
      BY <3>2 DEF RequestFits, Request
    <3> QED
      BY <3>1, <3>3
  <2>2. CASE ListArrives(h)
    <3> DEFINE r == [op |-> "list", steady |-> TRUE, found |-> 0, came |-> 0,
                     shown |-> 0, truncated |-> FALSE, at |-> "finding"]
    <3>1. r \in ListRequest
      BY SizeAssumption DEF ListRequest
    <3>2. RequestFits(r)
      BY <3>1 DEF RequestFits, Request, ListFits
    <3> QED
      BY <2>2, <3>2 DEF ListArrives
  <2>3. CASE ReadArrives(h)
    <3> DEFINE r == [op |-> "read", steady |-> TRUE, flag |-> "other",
                     out |-> FALSE, length |-> 0, got |-> 0, ended |-> FALSE,
                     header |-> FALSE, size |-> 0, at |-> "finding",
                     answer |-> "none"]
    <3>1. r \in ReadRequest
      BY SizeAssumption DEF ReadRequest, Flags
    <3>2. RequestFits(r)
      BY <3>1 DEF RequestFits, Request, ReadFits
    <3> QED
      BY <2>3, <3>2 DEF ReadArrives
  <2> QED
    BY <2>1, <2>2, <2>3
<1> QED
  BY <1>1, <1>2, OneChanges, FactsOfIInv

-----------------------------------------------------------------------------
(* Before the container has said anything                                  *)

LEMMA FindsKeeps ==
  ASSUME IInv, NEW h \in Handlers, Finds(h)
  PROVE  IInv'
<1>1. UNCHANGED <<box, target, dir, short>>
  BY Zenon DEF Finds, world
<1> DEFINE r0 == req[h]
<1>2. r0 \in Request /\ RequestFits(r0) /\ r0.at = "finding"
  BY FactsOfIInv DEF Finds
<1>3. PICK r : RequestFits(r) /\ req' = [req EXCEPT ![h] = r]
  <2>1. CASE IsDone(h)
    BY <2>1, FreeFits DEF IsDone
  <2>2. CASE Says(h, "notRunning")
    BY <2>2, RefusalFits DEF Says
  <2>3. CASE r0.op = "upload" /\ GoesTo(h, "measuring")
    <3>1. r0 \in UploadRequest
      BY <1>2, <2>3, KindOfRequest
    <3>2. req' = [req EXCEPT ![h] = [r0 EXCEPT !.at = "measuring"]]
      BY <2>3, FactsOfIInv DEF GoesTo
    <3> QED
      BY <3>1, <3>2, UploadGoesOn
  <2>4. CASE r0.op # "upload" /\ GoesTo(h, "asking")
    <3>1. r0 \in ListRequest \/ r0 \in ReadRequest
      BY <1>2, <2>4 DEF Request, Free, Refusal, UploadRequest
    <3>2. req' = [req EXCEPT ![h] = [r0 EXCEPT !.at = "asking"]]
      BY <2>4, FactsOfIInv DEF GoesTo
    <3>3. CASE r0 \in ListRequest
      <4>1. 0 \in 0 .. MaxSize /\ r0.at # "answered"
        BY <1>2, SizeAssumption
      <4>2. RequestFits([r0 EXCEPT !.at = "asking"])
        BY <1>2, <3>3, <4>1, ListGoesOn, Zenon
      <4> QED
        BY <3>2, <4>2
    <3>4. CASE r0 \in ReadRequest
      <4>1. ReadFits(r0)
        BY <1>2, <3>4 DEF RequestFits, ReadRequest
      <4> QED
        BY <1>2, <3>2, <3>4, <4>1, ReadGoesOn
    <3> QED
      BY <3>1, <3>3, <3>4
  <2> QED
    BY <2>1, <2>2, <2>3, <2>4 DEF Finds
<1> QED
  BY <1>1, <1>3, OneChanges, FactsOfIInv

LEMMA RefusedKeeps ==
  ASSUME IInv, NEW h \in Handlers, Refused(h) \/ Fails(h)
  PROVE  IInv'
<1>1. UNCHANGED <<box, target, dir, short>>
  BY Zenon DEF Refused, Fails, world
<1>2. PICK r : RequestFits(r) /\ req' = [req EXCEPT ![h] = r]
  <2>1. CASE IsDone(h)
    BY <2>1, FreeFits DEF IsDone
  <2>2. CASE Says(h, "notRunning")
    BY <2>2, RefusalFits DEF Says
  <2> QED
    BY <2>1, <2>2 DEF Refused, Fails
<1> QED
  BY <1>1, <1>2, OneChanges, FactsOfIInv

(* The first tests of a script: what passes them is in the workspace.      *)
LEMMA ChecksKeeps ==
  ASSUME IInv, NEW h \in Handlers, Checks(h)
  PROVE  IInv'
<1>1. UNCHANGED <<box, target, dir, short>>
  BY Zenon DEF Checks, world
<1>2. req[h] \in Request /\ RequestFits(req[h]) /\ req[h].at = "asking"
  BY FactsOfIInv DEF Checks, At
<1>3. PICK r : RequestFits(r) /\ req' = [req EXCEPT ![h] = r]
  <2>1. \/ Says(h, "missing") \/ Says(h, "outside")
        \/ target.kind # "fileOut" /\ GoesTo(h, "checked")
    BY DEF Checks
  <2>2. ASSUME NEW answer \in {"missing", "outside"}, Says(h, answer)
        PROVE  \E r : RequestFits(r) /\ req' = [req EXCEPT ![h] = r]
    BY <2>2, RefusalFits DEF Says
  <2>3. CASE target.kind # "fileOut" /\ GoesTo(h, "checked")
    <3>1. req' = [req EXCEPT ![h] = [req[h] EXCEPT !.at = "checked"]]
      BY <2>3, FactsOfIInv DEF GoesTo
    <3>2. CASE req[h].op = "list"
      <4>1. 0 \in 0 .. MaxSize /\ req[h].at # "answered"
        BY <1>2, SizeAssumption
      <4>2. RequestFits([req[h] EXCEPT !.at = "checked"])
        BY <1>2, <3>2, <4>1, KindOfRequest, ListGoesOn, Zenon
      <4> QED
        BY <3>1, <4>2
    <3>3. CASE req[h].op = "read"
      BY <1>2, <2>3, <3>1, <3>3, KindOfRequest, ReadGoesOn DEF RequestFits
    <3> QED
      BY <3>2, <3>3 DEF Checks, At
  <2> QED
    BY <2>1, <2>2, <2>3
<1> QED
  BY <1>1, <1>3, OneChanges, FactsOfIInv

-----------------------------------------------------------------------------
(* Uploads and listings                                                    *)

LEMMA UploadKeeps ==
  ASSUME IInv, NEW h \in Handlers,
         Measures(h) \/ MeasuresShort(h) \/ Puts(h) \/ Announces(h)
  PROVE  IInv'
<1> DEFINE r0 == req[h]
<1>1. r0 \in UploadRequest
  BY FactsOfIInv, KindOfRequest
     DEF Measures, MeasuresShort, Puts, Announces, At
<1>2. PICK r : RequestFits(r) /\ req' = [req EXCEPT ![h] = r]
  <2>1. \/ IsDone(h) \/ GoesTo(h, "putting") \/ GoesTo(h, "announcing")
    BY DEF Measures, MeasuresShort, Puts, Announces
  <2>2. CASE IsDone(h)
    BY <2>2, FreeFits DEF IsDone
  <2>3. ASSUME NEW at \in {"putting", "announcing"}, GoesTo(h, at)
        PROVE  RequestFits([r0 EXCEPT !.at = at])
               /\ req' = [req EXCEPT ![h] = [r0 EXCEPT !.at = at]]
    <3>1. at \in {"finding", "measuring", "putting", "announcing"}
      OBVIOUS
    <3>2. RequestFits([r0 EXCEPT !.at = at])
      BY <1>1, <3>1, UploadGoesOn
    <3> QED
      BY <2>3, <3>2, FactsOfIInv DEF GoesTo
  <2> QED
    BY <2>1, <2>2, <2>3
<1>3. UNCHANGED <<box, target>> /\ short' \in BOOLEAN
  <2>1. short' = short \/ short' = TRUE
    BY DEF Measures, MeasuresShort, Puts, Announces
  <2> QED
    BY <2>1, FactsOfIInv DEF Measures, MeasuresShort, Puts, Announces, world
<1>4. DOMAIN dir' \subseteq Names /\ dir' \in [DOMAIN dir' -> 0 .. MaxFile]
  <2>1. CASE dir' = dir
    BY <2>1, FactsOfIInv
  <2>2. CASE dir' = Extracted(dir, r0.name, r0.size)
    <3>1. r0.name \in Names /\ r0.size \in 0 .. MaxFile
      BY <1>1 DEF UploadRequest
    <3>2. DOMAIN dir' = DOMAIN dir \cup {r0.name}
      BY <2>2 DEF Extracted
    <3>3. \A n \in DOMAIN dir \cup {r0.name} :
              dir'[n] = IF n = r0.name THEN r0.size ELSE dir[n]
      BY <2>2 DEF Extracted
    <3>4. dir' = [n \in DOMAIN dir' |-> dir'[n]]
      BY <2>2, <3>2 DEF Extracted
    <3> HIDE DEF r0
    <3>5. \A n \in DOMAIN dir' : dir'[n] \in 0 .. MaxFile
      BY <3>1, <3>2, <3>3, FactsOfIInv
    <3> QED
      BY <3>1, <3>2, <3>4, <3>5, FactsOfIInv
  <2> QED
    BY <2>1, <2>2 DEF Measures, MeasuresShort, Puts, Announces
<1> QED
  BY <1>2, <1>3, <1>4, OneChanges

(* `find` opens the directory or finds that there is none.                 *)
LEMMA OpensKeeps ==
  ASSUME IInv, NEW h \in Handlers, Opens(h)
  PROVE  IInv'
<1>1. UNCHANGED <<box, target, dir, short>>
  BY Zenon DEF Opens, world
<1>2. req[h] \in ListRequest /\ RequestFits(req[h]) /\ req[h].at = "checked"
  BY FactsOfIInv, KindOfRequest DEF Opens, At
<1>3. PICK r : RequestFits(r) /\ req' = [req EXCEPT ![h] = r]
  <2>1. CASE Says(h, "wrongKind")
    BY <2>1, RefusalFits DEF Says
  <2>2. CASE req' = [req EXCEPT ![h].at = "walking",
                                ![h].found = target.size]
    <3>1. target.size \in 0 .. MaxSize
      BY FactsOfIInv DEF Targets
    <3>2. req' = [req EXCEPT ![h] =
                     [req[h] EXCEPT !.at = "walking", !.found = target.size]]
      BY <2>2, FactsOfIInv
    <3> QED
      BY <1>2, <3>1, <3>2, ListGoesOn
  <2> QED
    BY <2>1, <2>2 DEF Opens
<1> QED
  BY <1>1, <1>3, OneChanges, FactsOfIInv

LEMMA RefusalMissedKeeps ==
  ASSUME IInv, NEW h \in Handlers, RefusalMissed(h)
  PROVE  IInv'
<1> DEFINE q == [req[h] EXCEPT !.at = "answered", !.steady = FALSE]
<1>1. UNCHANGED <<box, target, dir, short>> /\ req' = [req EXCEPT ![h] = q]
  BY FactsOfIInv DEF RefusalMissed, world
<1>2. req[h] \in ListRequest /\ RequestFits(req[h]) /\ ~req[h].truncated
  BY FactsOfIInv, KindOfRequest DEF RefusalMissed, At, RequestFits, ListFits,
     ListRequest
<1>3. q \in ListRequest /\ ~q.steady /\ q.truncated = req[h].truncated
  BY <1>2 DEF ListRequest
<1> HIDE DEF q
<1>4. q.op = "list" /\ ListFits(q)
  BY <1>2, <1>3 DEF ListFits, ListRequest
<1>5. RequestFits(q)
  BY <1>3, <1>4 DEF RequestFits, Request
<1> QED
  BY <1>1, <1>5, OneChanges, FactsOfIInv

(* What is shown of some entries, and whether it is said to be cut.        *)
LEMMA HeadTells ==
  ASSUME NEW n \in Nat
  PROVE  /\ Head1(n) \in Nat /\ (Head1(n) > MaxListing <=> n > MaxListing)
         /\ Min({Head1(n), MaxListing}) = Min({n, MaxListing})
         /\ Min({n, MaxListing}) \in Nat
<1>1. Head1(n) = IF n <= MaxListing + 1 THEN n ELSE MaxListing + 1
  BY MinOfTwo, SizeAssumption DEF Head1
<1>2. Head1(n) \in Nat /\ (Head1(n) > MaxListing <=> n > MaxListing)
  BY <1>1, SizeAssumption
<1>3. Min({Head1(n), MaxListing}) =
          IF Head1(n) <= MaxListing THEN Head1(n) ELSE MaxListing
  BY <1>2, MinOfTwo, SizeAssumption
<1>4. Min({n, MaxListing}) = IF n <= MaxListing THEN n ELSE MaxListing
  BY MinOfTwo, SizeAssumption
<1> QED
  BY <1>1, <1>2, <1>3, <1>4, SizeAssumption

LEMMA ListsKeeps ==
  ASSUME IInv, NEW h \in Handlers, Lists(h)
  PROVE  IInv'
<1>1. UNCHANGED <<box, target, dir, short>>
  BY Zenon DEF Lists, world
<1>2. req[h] \in ListRequest
  BY FactsOfIInv, KindOfRequest DEF Lists, At
<1>3. PICK came \in 0 .. MaxSize :
         req' = [req EXCEPT
             ![h].at = "answered", ![h].came = came,
             ![h].steady = req[h].steady /\ came = req[h].found,
             ![h].shown = Min({Head1(came), MaxListing}),
             ![h].truncated = Head1(came) > MaxListing]
  BY DEF Lists
<1> DEFINE r0 == req[h]
           same == r0.steady /\ came = r0.found
           shown == Min({Head1(came), MaxListing})
           cut == Head1(came) > MaxListing
           q == [r0 EXCEPT !.at = "answered", !.came = came, !.steady = same,
                           !.shown = shown, !.truncated = cut]
<1>4. req' = [req EXCEPT ![h] = q]
  BY <1>3, FactsOfIInv
<1>5. /\ came \in Nat /\ (cut <=> came > MaxListing)
      /\ shown = Min({came, MaxListing}) /\ shown \in Nat
  BY HeadTells, SizeAssumption
<1>6. r0 \in ListRequest /\ same \in BOOLEAN /\ cut \in BOOLEAN
      /\ (same => came = r0.found)
  BY <1>2
<1> HIDE DEF r0, same, shown, cut
<1>7. /\ q \in ListRequest /\ q.steady = same /\ q.found = r0.found
      /\ q.came = came /\ q.shown = shown /\ q.truncated = cut
      /\ q.at = "answered"
  BY <1>5, <1>6 DEF ListRequest
<1> HIDE DEF q
<1>8. ListFits(q) /\ q.op = "list"
  BY <1>5, <1>6, <1>7 DEF ListFits, ListRequest
<1>9. RequestFits(q)
  BY <1>7, <1>8 DEF RequestFits, Request
<1> QED
  BY <1>1, <1>4, <1>9, OneChanges, FactsOfIInv

-----------------------------------------------------------------------------
(* Reads                                                                   *)

LEMMA StatsKeeps ==
  ASSUME IInv, NEW h \in Handlers, Stats(h)
  PROVE  IInv'
<1>1. UNCHANGED <<box, target, dir, short>>
  BY Zenon DEF Stats, world
<1>2. req[h] \in ReadRequest /\ ReadFits(req[h]) /\ req[h].at = "checked"
  BY FactsOfIInv, KindOfRequest DEF Stats, At, RequestFits
<1>3. PICK r : RequestFits(r) /\ req' = [req EXCEPT ![h] = r]
  <2>1. \/ Says(h, "wrongKind") \/ Says(h, "tooLarge")
        \/ GoesTo(h, "fetching")
    BY DEF Stats
  <2>2. ASSUME NEW answer \in {"wrongKind", "tooLarge"}, Says(h, answer)
        PROVE  \E r : RequestFits(r) /\ req' = [req EXCEPT ![h] = r]
    BY <2>2, RefusalFits DEF Says
  <2>3. CASE GoesTo(h, "fetching")
    <3>1. req' = [req EXCEPT ![h] = [req[h] EXCEPT !.at = "fetching"]]
      BY <2>3, FactsOfIInv DEF GoesTo
    <3> QED
      BY <1>2, <3>1, ReadGoesOn
  <2> QED
    BY <2>1, <2>2, <2>3
<1> QED
  BY <1>1, <1>3, OneChanges, FactsOfIInv

(* The stream opens on whatever is under the path by now.                  *)
LEMMA FetchesKeeps ==
  ASSUME IInv, NEW h \in Handlers, Fetches(h)
  PROVE  IInv'
<1>1. UNCHANGED <<box, target, dir, short>>
  BY Zenon DEF Fetches, world
<1>2. req[h] \in ReadRequest /\ ReadFits(req[h]) /\ req[h].at = "fetching"
  BY FactsOfIInv, KindOfRequest DEF Fetches, At, RequestFits
<1>3. ASSUME NEW answer \in {"notRunning", "missing"}, Says(h, answer)
      PROVE  IInv'
  <2>1. PICK r : RequestFits(r) /\ req' = [req EXCEPT ![h] = r]
    BY <1>3, RefusalFits DEF Says
  <2> QED
    BY <1>1, <2>1, OneChanges, FactsOfIInv
<1>4. CASE ~ \E answer \in {"notRunning", "missing"} : Says(h, answer)
  <2> DEFINE r0 == req[h]
             length == IF target.kind \in Regular THEN target.size ELSE 0
             out == target.kind = "fileOut"
  <2>1. PICK flag \in Flags :
           req' = [req EXCEPT ![h].at = "reading", ![h].flag = flag,
                       ![h].out = out, ![h].length = length]
    BY <1>4 DEF Fetches
  <2> DEFINE q == [r0 EXCEPT !.at = "reading", !.flag = flag, !.out = out,
                             !.length = length]
  <2>2. req' = [req EXCEPT ![h] = q]
    BY <2>1, FactsOfIInv
  <2>3. length \in 0 .. MaxSize /\ out \in BOOLEAN
    BY FactsOfIInv, SizeAssumption DEF Targets
  <2>4. /\ r0 \in ReadRequest /\ r0.got = 0 /\ ~r0.header /\ ~r0.ended
        /\ r0.answer = "none" /\ (out => ~r0.steady)
    BY <1>2 DEF ReadFits
  <2> HIDE DEF r0, out, length
  <2>5. /\ q \in ReadRequest /\ q.at = "reading" /\ q.length = length
        /\ q.got = r0.got /\ q.header = r0.header /\ q.ended = r0.ended
        /\ q.answer = r0.answer /\ q.out = out /\ q.steady = r0.steady
    BY <2>3, <2>4 DEF ReadRequest
  <2> HIDE DEF q
  <2>6. /\ q.op = "read" /\ q.got = 0 /\ ~q.header /\ ~q.ended
        /\ q.answer = "none" /\ q.at = "reading" /\ (q.out => ~q.steady)
    BY <2>4, <2>5 DEF ReadRequest
  <2>7. Amounts(q) = "none" /\ Needed(q) \in Nat /\ Needed(q) > 0
    BY <2>3, <2>5, <2>6, SizeAssumption DEF Amounts, Needed
  <2>8. ~(q.got >= Block) /\ q.got < Needed(q) + MaxChunk
    BY <2>6, <2>7, SizeAssumption
  <2>9. ReadFits(q)
    BY <2>6, <2>7, <2>8 DEF ReadFits
  <2>10. RequestFits(q)
    BY <2>5, <2>6, <2>9 DEF RequestFits, Request
  <2> QED
    BY <1>1, <2>2, <2>10, OneChanges, FactsOfIInv
<1> QED
  BY <1>3, <1>4

(* A read whose stream is open, as its parts.                              *)
LEMMA Reading ==
  ASSUME IInv, NEW h \in Handlers, At(h, "read", "reading")
  PROVE  LET r == req[h]
         IN  /\ r \in ReadRequest /\ r.op = "read" /\ r.at = "reading"
             /\ r.got \in Nat /\ r.length \in 0 .. MaxSize
             /\ r.header \in BOOLEAN /\ r.answer = "none" /\ ~r.ended
             /\ r.header <=> r.got >= Block
             /\ r.header => /\ r.flag = RegularFile /\ r.length <= MaxRead
                            /\ r.size = r.length /\ r.got < Block + r.length
             /\ r.flag \in Flags /\ (r.out => ~r.steady)
<1>1. req[h] \in ReadRequest /\ ReadFits(req[h]) /\ req[h].at = "reading"
  BY FactsOfIInv, KindOfRequest DEF At, RequestFits
<1>2. /\ req[h].op = "read" /\ req[h].got \in Nat
      /\ req[h].length \in 0 .. MaxSize /\ req[h].header \in BOOLEAN
      /\ req[h].flag \in Flags
  BY <1>1 DEF ReadRequest
<1> QED
  BY <1>1, <1>2 DEF ReadFits

LEMMA StreamEndsKeeps ==
  ASSUME IInv, NEW h \in Handlers, StreamEnds(h)
  PROVE  IInv'
<1> DEFINE r0 == req[h]
           answer == IF r0.header THEN "malformed" ELSE "missing"
           q == [r0 EXCEPT !.at = "answered", !.ended = TRUE,
                           !.answer = answer]
<1>1. UNCHANGED <<box, target, dir, short>> /\ req' = [req EXCEPT ![h] = q]
  BY FactsOfIInv DEF StreamEnds, world
<1>2. /\ r0 \in ReadRequest /\ r0.got \in Nat /\ r0.length \in 0 .. MaxSize
      /\ r0.header <=> r0.got >= Block
      /\ r0.header => /\ r0.flag = RegularFile /\ r0.length <= MaxRead
                      /\ r0.got < Block + r0.length
      /\ r0.out => ~r0.steady
  BY Reading DEF StreamEnds
<1>3. answer \in {"malformed", "missing"}
  OBVIOUS
<1>4. answer = IF r0.header THEN "malformed" ELSE "missing"
  OBVIOUS
<1> HIDE DEF r0, answer
<1>5. /\ q \in ReadRequest /\ q.op = "read" /\ q.at = "answered"
      /\ q.ended /\ q.answer = answer /\ q.got = r0.got
      /\ q.flag = r0.flag /\ q.length = r0.length
      /\ q.out = r0.out /\ q.steady = r0.steady
  BY <1>2, <1>3 DEF ReadRequest
<1> HIDE DEF q
<1>6. q.answer = Amounts(q)
  <2>1. CASE r0.got >= Block
    BY <1>2, <1>4, <1>5, <2>1, SizeAssumption DEF Amounts
  <2>2. CASE ~(r0.got >= Block)
    BY <1>2, <1>4, <1>5, <2>2, SizeAssumption DEF Amounts
  <2> QED
    BY <2>1, <2>2
<1>7. q.got < Needed(q) + MaxChunk
  BY <1>2, <1>5, SizeAssumption DEF Needed
<1>8. RequestFits(q)
  BY <1>2, <1>5, <1>6, <1>7 DEF RequestFits, Request, ReadFits
<1> QED
  BY <1>1, <1>8, OneChanges, FactsOfIInv

(* Of the two spellings of a regular file's flag one is read.              *)
LEMMA NoFileIsFlag ==
  ASSUME NEW h, req[h].flag \in Flags
  PROVE  NoFile(h) <=> req[h].flag # RegularFile
BY DEF NoFile, ReadAscii, Flags, RegularFile, AlternativeRegular

(* One more chunk: the body's size is the archive's from the header on.    *)
LEMMA ChunkArrivesKeeps ==
  ASSUME IInv, NEW h \in Handlers, ChunkArrives(h)
  PROVE  IInv'
<1> DEFINE r0 == req[h]
<1>1. /\ r0 \in ReadRequest /\ r0.op = "read" /\ r0.at = "reading"
      /\ r0.got \in Nat /\ r0.length \in 0 .. MaxSize
      /\ r0.header \in BOOLEAN /\ r0.answer = "none" /\ ~r0.ended
      /\ r0.header <=> r0.got >= Block
      /\ r0.header => /\ r0.flag = RegularFile /\ r0.length <= MaxRead
                      /\ r0.size = r0.length /\ r0.got < Block + r0.length
      /\ r0.flag \in Flags /\ (r0.out => ~r0.steady)
  BY Reading, SMTT(30) DEF ChunkArrives
<1>2. PICK n \in 1 .. MaxChunk :
        LET got  == r0.got + n
            size == IF r0.header THEN r0.size ELSE r0.length
            to(at, answer) ==
                req' = [req EXCEPT ![h].got = got, ![h].at = at,
                    ![h].answer = answer, ![h].header = got >= Block,
                    ![h].size = IF got >= Block THEN size ELSE 0]
        IN  CASE got < Block -> to("reading", "none")
              [] got >= Block /\ ~r0.header /\ r0.flag # RegularFile ->
                     to("answered", "wrongKind")
              [] got >= Block /\ ~r0.header /\ ~(r0.flag # RegularFile)
                             /\ size > MaxRead ->
                     to("answered", "tooLarge")
              [] OTHER -> IF got >= Block + size
                          THEN to("answered", "file")
                          ELSE to("reading", "none")
  <2>1. NoFile(h) <=> r0.flag # RegularFile
    BY <1>1, NoFileIsFlag
  <2> QED
    BY <2>1, ZenonT(60) DEF ChunkArrives
<1> DEFINE got == r0.got + n
           header == got >= Block
           size == IF header THEN r0.length ELSE 0
           to(at, answer) ==
               req' = [req EXCEPT ![h] =
                   [r0 EXCEPT !.got = got, !.at = at, !.answer = answer,
                              !.header = header, !.size = size]]
<1>3. /\ got \in Nat /\ header \in BOOLEAN /\ size \in 0 .. MaxSize
      /\ got > r0.got /\ got <= r0.got + MaxChunk
  BY <1>1, SizeAssumption
<1>4. (IF r0.header THEN r0.size ELSE r0.length) = r0.length
  BY <1>1
<1>5. /\ got < Block => to("reading", "none")
      /\ got >= Block /\ ~r0.header /\ r0.flag # RegularFile =>
             to("answered", "wrongKind")
      /\ got >= Block /\ ~r0.header /\ r0.flag = RegularFile
                     /\ r0.length > MaxRead => to("answered", "tooLarge")
      /\ got >= Block /\ (r0.header \/ (r0.flag = RegularFile
                                        /\ ~(r0.length > MaxRead))) =>
             IF got >= Block + r0.length THEN to("answered", "file")
             ELSE to("reading", "none")
  <2> DEFINE size0 == IF r0.header THEN r0.size ELSE r0.length
             was(at, answer) ==
                 req' = [req EXCEPT ![h].got = got, ![h].at = at,
                     ![h].answer = answer, ![h].header = got >= Block,
                     ![h].size = IF got >= Block THEN size0 ELSE 0]
  <2>1. ~(got < Block /\ got >= Block)
    BY <1>1, SizeAssumption
  <2>2. ASSUME NEW at, NEW answer, was(at, answer) PROVE to(at, answer)
    BY <1>4, <2>2, FactsOfIInv
  <2>3. (CASE got < Block -> was("reading", "none")
          [] got >= Block /\ ~r0.header /\ r0.flag # RegularFile ->
                 was("answered", "wrongKind")
          [] got >= Block /\ ~r0.header /\ ~(r0.flag # RegularFile)
                         /\ size0 > MaxRead ->
                 was("answered", "tooLarge")
          [] OTHER -> IF got >= Block + size0 THEN was("answered", "file")
                      ELSE was("reading", "none"))
    BY <1>2, Zenon
  <2>4. size0 = r0.length
    BY <1>4
  <2> HIDE DEF r0, got, size0, was, to
  <2>5. /\ got < Block => was("reading", "none")
        /\ got >= Block /\ ~r0.header /\ r0.flag # RegularFile =>
               was("answered", "wrongKind")
        /\ got >= Block /\ ~r0.header /\ r0.flag = RegularFile
                       /\ r0.length > MaxRead => was("answered", "tooLarge")
        /\ got >= Block /\ (r0.header \/ (r0.flag = RegularFile
                                          /\ ~(r0.length > MaxRead))) =>
               IF got >= Block + r0.length THEN was("answered", "file")
               ELSE was("reading", "none")
    BY <2>1, <2>3, <2>4
  <2> QED
    BY <2>2, <2>5
<1>6. PICK at \in {"reading", "answered"},
           answer \in {"none", "wrongKind", "tooLarge", "file"} :
        /\ to(at, answer)
        /\ got < Block => at = "reading" /\ answer = "none"
        /\ got >= Block /\ ~r0.header /\ r0.flag # RegularFile =>
               at = "answered" /\ answer = "wrongKind"
        /\ got >= Block /\ ~r0.header /\ r0.flag = RegularFile
                       /\ r0.length > MaxRead =>
               at = "answered" /\ answer = "tooLarge"
        /\ got >= Block /\ (r0.header \/ (r0.flag = RegularFile
                                          /\ ~(r0.length > MaxRead))) =>
               IF got >= Block + r0.length
               THEN at = "answered" /\ answer = "file"
               ELSE at = "reading" /\ answer = "none"
  <2> HIDE DEF r0, got, to
  <2>1. got < Block \/ got >= Block
    <3> USE DEF r0, got
    <3> QED
      BY <1>1, SizeAssumption
  <2>2. ~(got < Block /\ got >= Block)
    <3> USE DEF r0, got
    <3> QED
      BY <1>1, SizeAssumption
  <2>3. CASE got < Block
    BY <1>5, <2>2, <2>3
  <2>4. CASE got >= Block /\ ~r0.header /\ r0.flag # RegularFile
    BY <1>5, <2>2, <2>4
  <2>5. CASE got >= Block /\ ~r0.header /\ r0.flag = RegularFile
                        /\ r0.length > MaxRead
    BY <1>5, <2>2, <2>5
  <2>6. CASE got >= Block /\ (r0.header \/ (r0.flag = RegularFile
                                             /\ ~(r0.length > MaxRead)))
    <3>1. r0.header => r0.flag = RegularFile /\ ~(r0.length > MaxRead)
      <4> USE DEF r0
      <4> QED
        BY <1>1, SizeAssumption
    <3>2. CASE got >= Block + r0.length
      BY <1>5, <2>2, <2>6, <3>1, <3>2
    <3>3. CASE ~(got >= Block + r0.length)
      BY <1>5, <2>2, <2>6, <3>1, <3>3
    <3> QED
      BY <3>2, <3>3
  <2>7. \/ got < Block
        \/ got >= Block /\ ~r0.header /\ r0.flag # RegularFile
        \/ got >= Block /\ ~r0.header /\ r0.flag = RegularFile
                       /\ r0.length > MaxRead
        \/ got >= Block /\ (r0.header \/ (r0.flag = RegularFile
                                          /\ ~(r0.length > MaxRead)))
    BY <2>1
  <2> QED
    BY <2>3, <2>4, <2>5, <2>6, <2>7
<1> DEFINE q == [r0 EXCEPT !.got = got, !.at = at, !.answer = answer,
                           !.header = header, !.size = size]
<1>14. req' = [req EXCEPT ![h] = q]
  BY <1>6
<1>7. header <=> got >= Block
  OBVIOUS
<1>8. size = IF header THEN r0.length ELSE 0
  OBVIOUS
<1> HIDE DEF r0, got, header, size
<1>9. /\ q \in ReadRequest /\ q.op = "read" /\ q.at = at
      /\ q.ended = r0.ended /\ q.answer = answer /\ q.got = got
      /\ q.flag = r0.flag /\ q.length = r0.length
      /\ q.out = r0.out /\ q.steady = r0.steady
      /\ q.header = header /\ q.size = size
  BY <1>1, <1>3 DEF ReadRequest
<1> HIDE DEF q
<1> DEFINE good == r0.flag = RegularFile /\ r0.length <= MaxRead
<1>10. CASE got < Block
  <2>1. at = "reading" /\ answer = "none" /\ ~header
    BY <1>1, <1>3, <1>6, <1>7, <1>10, SizeAssumption
  <2>2. Amounts(q) = "none" /\ got < Needed(q) + MaxChunk
    BY <1>1, <1>3, <1>9, <1>10, SizeAssumption DEF Amounts, Needed
  <2>3. ReadFits(q)
    BY <1>1, <1>7, <1>9, <2>1, <2>2 DEF ReadFits
  <2> QED
    BY <1>14, <1>9, <2>3, OneChanges, FactsOfIInv
       DEF ChunkArrives, world, RequestFits, Request
<1>11. CASE ~(got < Block) /\ ~good
  <2>1. ~r0.header /\ header /\ r0.got < Block
    BY <1>1, <1>3, <1>7, <1>11, SizeAssumption
  <2>2. /\ at = "answered"
        /\ answer = IF r0.flag # RegularFile THEN "wrongKind" ELSE "tooLarge"
    BY <1>1, <1>3, <1>6, <1>11, <2>1, SizeAssumption
  <2>3. Amounts(q) = answer /\ got < Needed(q) + MaxChunk
    BY <1>1, <1>3, <1>9, <1>11, <2>1, <2>2, SizeAssumption
       DEF Amounts, Needed
  <2>4. ReadFits(q)
    BY <1>1, <1>9, <2>2, <2>3 DEF ReadFits
  <2> QED
    BY <1>14, <1>9, <2>4, OneChanges, FactsOfIInv
       DEF ChunkArrives, world, RequestFits, Request
<1>12. CASE ~(got < Block) /\ good
  <2>1. header /\ size = r0.length /\ r0.got < Block + r0.length + MaxChunk
    BY <1>1, <1>3, <1>7, <1>8, <1>12, SizeAssumption
  <2>2. IF got >= Block + r0.length
        THEN at = "answered" /\ answer = "file"
        ELSE at = "reading" /\ answer = "none"
    BY <1>1, <1>3, <1>6, <1>12, SizeAssumption
  <2>3. r0.got < Block + r0.length
    BY <1>1, SizeAssumption
  <2> QED
    <3>1. Amounts(q) = answer /\ got < Needed(q) + MaxChunk
      BY <1>1, <1>3, <1>9, <1>12, <2>2, <2>3, SizeAssumption
         DEF Amounts, Needed
    <3>2. ReadFits(q)
      BY <1>1, <1>3, <1>7, <1>9, <1>12, <2>1, <2>2, <3>1, SizeAssumption
         DEF ReadFits
    <3> QED
      BY <1>14, <1>9, <3>2, OneChanges, FactsOfIInv
         DEF ChunkArrives, world, RequestFits, Request
<1> QED
  BY <1>10, <1>11, <1>12

-----------------------------------------------------------------------------
(* The container and the agent                                             *)

LEMMA AgentKeeps ==
  ASSUME IInv, BoxChanges \/ AgentTidies
  PROVE  IInv'
<1>1. req' = req /\ target' = target /\ short' = short
  BY DEF BoxChanges, AgentTidies, world
<1>2. box' \in {"running", "stopped", "gone"}
  BY DEF BoxChanges, AgentTidies, world, IInv, TypeOK
<1>3. DOMAIN dir' \subseteq Names /\ dir' \in [DOMAIN dir' -> 0 .. MaxFile]
  <2>1. CASE dir' = dir
    BY <2>1, FactsOfIInv
  <2>2. CASE AgentTidies
    <3>1. PICK n \in DOMAIN dir :
             dir' = [m \in DOMAIN dir \ {n} |-> dir[m]]
      BY <2>2 DEF AgentTidies
    <3> QED
      BY <3>1, FactsOfIInv
  <2> QED
    BY <2>1, <2>2 DEF BoxChanges
<1> QED
  BY <1>1, <1>2, <1>3
     DEF IInv, TypeOK, RequestFits, ListFits, ReadFits, Amounts, Needed

(* A path that changes takes its steadiness from what was checked of it.   *)
LEMMA UnsettledFits ==
  ASSUME NEW r, RequestFits(r)
  PROVE  LET q == Unsettled(r)
         IN  /\ q \in Request /\ (q.op = "list" => ListFits(q))
             /\ q.op = "read" => ReadFits(q)
                    /\ ~(q.at \in {"checked", "fetching"} /\ q.steady)
<1> DEFINE q == [r EXCEPT !.steady = FALSE]
<1>1. CASE r.at \notin {"checked", "walking", "fetching"}
  <2>1. Unsettled(r) = r
    BY <1>1 DEF Unsettled
  <2> QED
    BY <1>1, <2>1 DEF RequestFits
<1>2. CASE r.at \in {"checked", "walking", "fetching"}
  <2>1. Unsettled(r) = q
    BY <1>2 DEF Unsettled
  <2>2. r \in ListRequest \/ r \in ReadRequest
    BY <1>2 DEF RequestFits, Request, Free, Refusal, UploadRequest
  <2>3. CASE r \in ListRequest
    <3>1. ~r.truncated
      BY <1>2, <2>3 DEF RequestFits, ListFits, ListRequest
    <3>2. q \in ListRequest /\ q.truncated = r.truncated /\ q.at = r.at
      BY <2>3 DEF ListRequest
    <3> HIDE DEF q
    <3>3. q.op = "list" /\ ListFits(q)
      BY <1>2, <3>1, <3>2 DEF ListFits, ListRequest
    <3> QED
      BY <2>1, <3>2, <3>3 DEF Request
  <2>4. CASE r \in ReadRequest
    <3>1. ReadFits(r)
      BY <2>4 DEF RequestFits, ReadRequest
    <3>2. /\ q \in ReadRequest /\ q.at = r.at /\ ~q.steady /\ q.got = r.got
          /\ q.answer = r.answer /\ q.ended = r.ended
          /\ q.header = r.header
      BY <2>4 DEF ReadRequest
    <3> HIDE DEF q
    <3>3. r.at \in {"checked", "fetching"} =>
              /\ q.answer = "none" /\ ~q.ended /\ q.got = 0 /\ ~q.header
      BY <3>1, <3>2 DEF ReadFits
    <3>4. r.at # "walking"
      BY <2>4 DEF ReadRequest
    <3>5. q.op = "read" /\ ReadFits(q)
      BY <1>2, <3>2, <3>3, <3>4 DEF ReadFits, ReadRequest
    <3> QED
      BY <2>1, <3>2, <3>5 DEF Request
  <2> QED
    BY <2>2, <2>3, <2>4
<1> QED
  BY <1>1, <1>2

LEMMA AgentWritesKeeps ==
  ASSUME IInv, AgentWrites
  PROVE  IInv'
<1>1. /\ box' = box /\ dir' = dir /\ short' = short /\ target' \in Targets
      /\ req' = [h \in Handlers |-> Unsettled(req[h])]
  BY DEF AgentWrites
<1>2. ASSUME NEW h \in Handlers
      PROVE  RequestFits(req[h])' /\ req'[h] \in Request
  <2> DEFINE q == Unsettled(req[h])
  <2>1. req'[h] = q
    BY <1>1
  <2>2. /\ q \in Request /\ (q.op = "list" => ListFits(q))
        /\ q.op = "read" => ReadFits(q)
               /\ ~(q.at \in {"checked", "fetching"} /\ q.steady)
    BY UnsettledFits, FactsOfIInv
  <2> HIDE DEF q
  <2>3. q = req'[h] /\ RequestFits(req[h])'
    BY <2>1, <2>2 DEF RequestFits, Request, ListFits, ReadFits, Amounts,
       Needed
  <2> QED
    BY <2>2, <2>3
<1>3. req' \in [Handlers -> Request]
  BY <1>1, <1>2
<1> QED
  BY <1>1, <1>2, <1>3 DEF IInv, TypeOK, Request

LEMMA StepKeepsIInv == IInv /\ [Next]_vars => IInv'
<1> SUFFICES ASSUME IInv, [Next]_vars PROVE IInv'
  OBVIOUS
<1>1. CASE BoxChanges \/ AgentWrites \/ AgentTidies
  BY <1>1, AgentKeeps, AgentWritesKeeps
<1>2. ASSUME NEW h \in Handlers,
             UploadArrives(h) \/ ListArrives(h) \/ ReadArrives(h)
      PROVE  IInv'
  BY <1>2, ArrivesKeeps
<1>3. ASSUME NEW h \in Handlers,
             Measures(h) \/ MeasuresShort(h) \/ Puts(h) \/ Announces(h)
      PROVE  IInv'
  BY <1>3, UploadKeeps
<1>4. ASSUME NEW h \in Handlers,
             \/ Finds(h) \/ Refused(h) \/ Fails(h) \/ Checks(h)
             \/ Opens(h) \/ RefusalMissed(h) \/ Lists(h)
      PROVE  IInv'
  BY <1>4, FindsKeeps, RefusedKeeps, ChecksKeeps, OpensKeeps,
     RefusalMissedKeeps, ListsKeeps
<1>5. ASSUME NEW h \in Handlers,
             Stats(h) \/ Fetches(h) \/ ChunkArrives(h) \/ StreamEnds(h)
      PROVE  IInv'
  BY <1>5, StatsKeeps, FetchesKeeps, ChunkArrivesKeeps, StreamEndsKeeps
<1>6. CASE UNCHANGED vars
  BY <1>6 DEF vars, IInv, TypeOK, RequestFits, ListFits, ReadFits, Amounts,
              Needed
<1> QED
  BY <1>1, <1>2, <1>3, <1>4, <1>5, <1>6 DEF Next

LEMMA SpecIInv == Spec => []IInv
<1> QED
  BY InitIInv, StepKeepsIInv, PTL DEF Spec

-----------------------------------------------------------------------------
(* Counting bytes                                                          *)

LEMMA BytesType ==
  ASSUME NEW s, IsFiniteSet(DOMAIN s)
  PROVE  /\ IsFiniteSet(Bytes(s)) /\ Cardinality(Bytes(s)) \in Nat
         /\ Cardinality(Bytes(s)) <= Cardinality(DOMAIN s) * MaxFile
<1>1. /\ IsFiniteSet(1 .. MaxFile) /\ Cardinality(1 .. MaxFile) = MaxFile
  BY FS_Interval, SizeAssumption
<1>2. /\ IsFiniteSet((DOMAIN s) \X (1 .. MaxFile))
      /\ Cardinality((DOMAIN s) \X (1 .. MaxFile)) =
             Cardinality(DOMAIN s) * MaxFile
  BY <1>1, FS_Product
<1>3. Bytes(s) \subseteq (DOMAIN s) \X (1 .. MaxFile)
  BY DEF Bytes
<1> QED
  BY <1>2, <1>3, FS_Subset, FS_CardinalityType

LEMMA BytesOfOne ==
  ASSUME NEW x, NEW n \in 0 .. MaxFile
  PROVE  /\ IsFiniteSet({x} \X (1 .. n)) /\ Cardinality({x} \X (1 .. n)) = n
<1>1. IsFiniteSet(1 .. n) /\ Cardinality(1 .. n) = n
  BY FS_Interval, SizeAssumption
<1>2. IsFiniteSet({x}) /\ Cardinality({x}) = 1
  BY FS_Singleton
<1>3. Cardinality({x} \X (1 .. n)) = 1 * n /\ IsFiniteSet({x} \X (1 .. n))
  BY <1>1, <1>2, FS_Product, ZenonT(40)
<1> QED
  BY <1>3, SizeAssumption

LEMMA FewerBytes ==
  ASSUME NEW s, NEW t, IsFiniteSet(DOMAIN s),
         DOMAIN t \subseteq DOMAIN s, \A x \in DOMAIN t : t[x] = s[x]
  PROVE  /\ IsFiniteSet(DOMAIN t)
         /\ Cardinality(Bytes(t)) <= Cardinality(Bytes(s))
<1>1. Bytes(t) \subseteq Bytes(s)
  BY DEF Bytes
<1> QED
  BY <1>1, BytesType, FS_Subset

LEMMA BytesWithOne ==
  ASSUME NEW s, NEW t, NEW x, NEW n \in 0 .. MaxFile, IsFiniteSet(DOMAIN s),
         DOMAIN t \subseteq DOMAIN s \cup {x},
         \A y \in DOMAIN t : t[y] = IF y = x THEN n ELSE s[y]
  PROVE  /\ IsFiniteSet(DOMAIN t)
         /\ Cardinality(Bytes(t)) <= Cardinality(Bytes(s)) + n
<1> DEFINE one == {x} \X (1 .. n)
<1>1. IsFiniteSet(one) /\ Cardinality(one) = n
  BY BytesOfOne
<1>2. IsFiniteSet(DOMAIN t)
  BY FS_AddElement, FS_Subset
<1>3. Bytes(t) \subseteq Bytes(s) \cup one
  BY SizeAssumption DEF Bytes
<1> HIDE DEF one
<1>4. /\ IsFiniteSet(Bytes(s) \cup one)
      /\ Cardinality(Bytes(s) \cup one) <= Cardinality(Bytes(s)) + n
  <2>1. IsFiniteSet(Bytes(s)) /\ Cardinality(Bytes(s)) \in Nat
    BY BytesType
  <2>2. IsFiniteSet(Bytes(s) \cap one)
    BY <1>1, FS_Subset
  <2>3. Cardinality(Bytes(s) \cap one) \in Nat
    BY <2>2, FS_CardinalityType
  <2>4. /\ IsFiniteSet(Bytes(s) \cup one)
        /\ Cardinality(Bytes(s) \cup one) =
               Cardinality(Bytes(s)) + n - Cardinality(Bytes(s) \cap one)
    BY <1>1, <2>1, FS_Union
  <2> QED
    BY <2>1, <2>3, <2>4, SizeAssumption
<1>5. /\ Cardinality(Bytes(t)) <= Cardinality(Bytes(s) \cup one)
      /\ Cardinality(Bytes(t)) \in Nat
  BY <1>2, <1>3, <1>4, FS_Subset, BytesType
<1> QED
  <2>1. /\ Cardinality(Bytes(s)) \in Nat
        /\ Cardinality(Bytes(s) \cup one) \in Nat
    BY <1>4, BytesType, FS_CardinalityType
  <2> QED
    BY <1>2, <1>4, <1>5, <2>1, SizeAssumption

LEMMA BytesWithoutOne ==
  ASSUME NEW s, NEW t, NEW x \in DOMAIN s, IsFiniteSet(DOMAIN s),
         s[x] \in 0 .. MaxFile,
         DOMAIN t = DOMAIN s \ {x}, \A y \in DOMAIN t : t[y] = s[y]
  PROVE  Cardinality(Bytes(s)) = Cardinality(Bytes(t)) + s[x]
<1> DEFINE one == {x} \X (1 .. s[x])
<1>1. IsFiniteSet(one) /\ Cardinality(one) = s[x]
  BY BytesOfOne
<1>2. Bytes(s) = Bytes(t) \cup one /\ Bytes(t) \cap one = {}
  <2> DEFINE all == (DOMAIN s) \X (1 .. MaxFile)
  <2>1. one \subseteq all /\ Bytes(s) \subseteq all /\ Bytes(t) \subseteq all
    BY SizeAssumption DEF Bytes
  <2>2. ASSUME NEW y \in DOMAIN s, NEW i \in 1 .. MaxFile
        PROVE  /\ <<y, i>> \in Bytes(s) <=> i <= s[y]
               /\ <<y, i>> \in Bytes(t) <=> y # x /\ i <= s[y]
               /\ <<y, i>> \in one <=> y = x /\ i <= s[y]
    BY <2>2, SizeAssumption DEF Bytes
  <2>3. \A b \in all : \E y \in DOMAIN s, i \in 1 .. MaxFile : b = <<y, i>>
    OBVIOUS
  <2> HIDE DEF all, one
  <2>4. \A b \in all : /\ b \in Bytes(s) <=> b \in Bytes(t) \/ b \in one
                       /\ ~(b \in Bytes(t) /\ b \in one)
    BY <2>2, <2>3
  <2> QED
    BY <2>1, <2>4
<1>3. IsFiniteSet(DOMAIN t)
  BY FS_Subset
<1>4. IsFiniteSet(Bytes(t)) /\ Cardinality(Bytes(t)) \in Nat
  BY <1>3, BytesType
<1> HIDE DEF one
<1>5. Cardinality(Bytes(t) \cap one) = 0
  BY <1>2, FS_EmptySet
<1>6. Cardinality(Bytes(t) \cup one) =
          Cardinality(Bytes(t)) + Cardinality(one) - 0
  BY <1>1, <1>4, <1>5, FS_Union, Zenon
<1> QED
  BY <1>1, <1>2, <1>4, <1>6, SizeAssumption

-----------------------------------------------------------------------------
(* How far the uploads can exceed what is allowed                          *)

Room == IsFiniteSet(DOMAIN dir) /\ OverrunIsParallel

Handles(h) ==
    \/ UploadArrives(h) \/ ListArrives(h) \/ ReadArrives(h)
    \/ Finds(h) \/ Refused(h) \/ Fails(h) \/ Checks(h)
    \/ Announces(h) \/ Opens(h) \/ RefusalMissed(h) \/ Lists(h)
    \/ Stats(h) \/ Fetches(h) \/ ChunkArrives(h) \/ StreamEnds(h)

LEMMA OnItsWayType ==
  ASSUME IInv
  PROVE  /\ DOMAIN OnItsWay = Putting /\ IsFiniteSet(Putting)
         /\ \A h \in Putting : OnItsWay[h] = req[h].size
                               /\ req[h].size \in 0 .. MaxFile
         /\ Cardinality(Bytes(OnItsWay)) \in Nat
<1>1. DOMAIN OnItsWay = Putting /\ Putting \subseteq Handlers
  BY DEF OnItsWay, Putting
<1>2. IsFiniteSet(Putting)
  BY <1>1, HandlerAssumption, FS_Subset
<1>3. ASSUME NEW h \in Putting
      PROVE  OnItsWay[h] = req[h].size /\ req[h].size \in 0 .. MaxFile
  <2>1. req[h] \in UploadRequest
    BY <1>1, FactsOfIInv, KindOfRequest DEF Putting, At
  <2> QED
    BY <2>1 DEF OnItsWay, UploadRequest
<1> QED
  BY <1>1, <1>2, <1>3, BytesType

(* What is in the directory shrinks or stays, and so does what is on its   *)
(* way there.                                                              *)
LEMMA ShrinkingKeepsRoom ==
  ASSUME IInv, Room, IInv',
         DOMAIN dir' \subseteq DOMAIN dir,
         \A n \in DOMAIN dir' : dir'[n] = dir[n],
         \A h \in Putting' : h \in Putting /\ req'[h].size = req[h].size,
         ~short' => ~short
  PROVE  Room'
<1>1. /\ IsFiniteSet(DOMAIN dir') /\ Used(dir') <= Used(dir)
  BY FewerBytes DEF Room, Used
<1>2. /\ DOMAIN OnItsWay' \subseteq DOMAIN OnItsWay
      /\ \A h \in DOMAIN OnItsWay' : OnItsWay'[h] = OnItsWay[h]
  BY DEF OnItsWay
<1>3. /\ IsFiniteSet(DOMAIN OnItsWay)
      /\ Cardinality(Bytes(OnItsWay)) \in Nat
  BY OnItsWayType
<1>4. Cardinality(Bytes(OnItsWay')) <= Cardinality(Bytes(OnItsWay))
  BY <1>2, <1>3, FewerBytes
<1>5. Used(dir) \in Nat /\ Used(dir') \in Nat
  BY <1>1, BytesType DEF Room, Used
<1>6. Cardinality(Bytes(OnItsWay')) \in Nat
  BY <1>2, <1>3, FewerBytes, BytesType
<1>7. Cardinality(Handlers) \in Nat
  BY HandlerAssumption, FS_CardinalityType
<1> DEFINE limit == MaxInstance + (Cardinality(Handlers) - 1) * MaxFile
<1>8. limit \in Int
  BY <1>7, SizeAssumption
<1>9. ~short => Used(dir) + Cardinality(Bytes(OnItsWay)) <= limit
  BY DEF Room, OverrunIsParallel
<1> HIDE DEF limit
<1>10. ~short' => Used(dir') + Cardinality(Bytes(OnItsWay')) <= limit
  BY <1>1, <1>3, <1>4, <1>5, <1>6, <1>8, <1>9
<1> QED
  BY <1>1, <1>10 DEF limit, Room, OverrunIsParallel, Used, Bytes

LEMMA ChunkChanges ==
  ASSUME IInv, NEW h \in Handlers, ChunkArrives(h)
  PROVE  /\ req'[h].op = "read"
         /\ \A g \in Handlers \ {h} : req'[g] = req[g]
<1>1. PICK n \in 1 .. MaxChunk :
        LET got  == req[h].got + n
            size == IF req[h].header THEN req[h].size ELSE req[h].length
            to(at, answer) ==
                req' = [req EXCEPT ![h].got = got, ![h].at = at,
                    ![h].answer = answer, ![h].header = got >= Block,
                    ![h].size = IF got >= Block THEN size ELSE 0]
        IN  CASE got < Block -> to("reading", "none")
              [] got >= Block /\ ~req[h].header /\ NoFile(h) ->
                     to("answered", "wrongKind")
              [] got >= Block /\ ~req[h].header /\ ~NoFile(h)
                             /\ size > MaxRead ->
                     to("answered", "tooLarge")
              [] OTHER -> IF got >= Block + size
                          THEN to("answered", "file")
                          ELSE to("reading", "none")
  BY ZenonT(40) DEF ChunkArrives
<1> DEFINE got == req[h].got + n
           size == IF req[h].header THEN req[h].size ELSE req[h].length
           to(at, answer) ==
               req' = [req EXCEPT ![h].got = got, ![h].at = at,
                   ![h].answer = answer, ![h].header = got >= Block,
                   ![h].size = IF got >= Block THEN size ELSE 0]
<1>2. (CASE got < Block -> to("reading", "none")
        [] got >= Block /\ ~req[h].header /\ NoFile(h) ->
               to("answered", "wrongKind")
        [] got >= Block /\ ~req[h].header /\ ~NoFile(h)
                       /\ size > MaxRead ->
               to("answered", "tooLarge")
        [] OTHER -> IF got >= Block + size
                    THEN to("answered", "file")
                    ELSE to("reading", "none"))
  BY <1>1
<1> HIDE DEF got, size, to
<1>3. PICK at, answer : to(at, answer)
  BY <1>2
<1>4. req \in [Handlers -> Request] /\ req[h] \in ReadRequest
  BY FactsOfIInv, Reading DEF ChunkArrives
<1> QED
  BY <1>3, <1>4, SMTT(30) DEF to, ReadRequest

(* No handler but the one that steps has another request after the step.   *)
LEMMA OthersStay ==
  ASSUME IInv, NEW h \in Handlers,
         Handles(h) \/ Measures(h) \/ MeasuresShort(h) \/ Puts(h)
  PROVE  \A g \in Handlers \ {h} : req'[g] = req[g]
<1>1. req \in [Handlers -> Request]
  BY FactsOfIInv
<1>2. ASSUME NEW r, req' = [req EXCEPT ![h] = r]
      PROVE  \A g \in Handlers \ {h} : req'[g] = req[g]
  BY <1>1, <1>2
<1>3. CASE UploadArrives(h) \/ ListArrives(h) \/ ReadArrives(h)
  BY <1>2, <1>3 DEF UploadArrives, ListArrives, ReadArrives
<1>4. CASE IsDone(h)
  BY <1>2, <1>4 DEF IsDone
<1>5. ASSUME NEW at, GoesTo(h, at)
      PROVE  \A g \in Handlers \ {h} : req'[g] = req[g]
  BY <1>1, <1>5 DEF GoesTo
<1>6. ASSUME NEW answer, Says(h, answer)
      PROVE  \A g \in Handlers \ {h} : req'[g] = req[g]
  BY <1>2, <1>6 DEF Says
<1>7. CASE Finds(h) \/ Fails(h)
  BY <1>4, <1>5, <1>6, <1>7 DEF Finds, Fails
<1>8. CASE Refused(h) \/ Announces(h) \/ Measures(h) \/ MeasuresShort(h)
           \/ Puts(h)
  BY <1>4, <1>5, <1>6, <1>8
     DEF Refused, Announces, Measures, MeasuresShort, Puts
<1>9. CASE Checks(h) \/ Stats(h)
  <2>1. \/ IsDone(h) \/ \E at : GoesTo(h, at) \/ \E answer : Says(h, answer)
    BY <1>9 DEF Checks, Stats
  <2> QED
    BY <1>4, <1>5, <1>6, <2>1
<1>10. CASE Lists(h) \/ RefusalMissed(h)
  BY <1>1, <1>10 DEF Lists, RefusalMissed
<1>11. CASE Opens(h)
  <2>1. CASE req' = [req EXCEPT ![h].at = "walking",
                                ![h].found = target.size]
    BY <1>1, <2>1
  <2> QED
    BY <1>6, <1>11, <2>1 DEF Opens
<1>12. CASE Fetches(h)
  <2>1. CASE box # "gone" /\ target.kind # "missing"
    BY <1>1, <1>12, <2>1 DEF Fetches
  <2> QED
    BY <1>6, <1>12, <2>1 DEF Fetches
<1>13. CASE StreamEnds(h)
  BY <1>1, <1>13 DEF StreamEnds
<1>14. CASE ChunkArrives(h)
  BY <1>14, ChunkChanges
<1> QED
  BY <1>3, <1>7, <1>8, <1>9, <1>10, <1>11, <1>12, <1>13, <1>14 DEF Handles

(* Only a measuring lets an upload go on its way.                          *)
LEMMA NobodyElseOnItsWay ==
  ASSUME IInv, NEW h \in Handlers, Handles(h)
  PROVE  ~(req'[h].op = "upload" /\ req'[h].at = "putting")
<1> SUFFICES ASSUME req'[h].op = "upload" PROVE req'[h].at # "putting"
  OBVIOUS
<1>1. req \in [Handlers -> Request] /\ req[h] \in Request
  BY FactsOfIInv
<1>2. CASE UploadArrives(h) \/ ListArrives(h) \/ ReadArrives(h)
  <2>1. CASE UploadArrives(h)
    <3>1. PICK raw \in RawNames, size \in 0 .. MaxFile :
             req' = [req EXCEPT ![h] =
                 [op |-> "upload", name |-> UploadFileName(raw), size |-> size,
                  at |-> "finding"]]
      BY <2>1 DEF UploadArrives
    <3> QED
      BY <1>1, <3>1
  <2>2. CASE ListArrives(h)
    BY <1>1, <2>2 DEF ListArrives
  <2>3. CASE ReadArrives(h)
    BY <1>1, <2>3 DEF ReadArrives
  <2> QED
    BY <1>2, <2>1, <2>2, <2>3
<1>3. CASE IsDone(h)
  BY <1>1, <1>3 DEF IsDone, Free
<1>4. ASSUME NEW answer, Says(h, answer) PROVE req'[h].at # "putting"
  BY <1>1, <1>4 DEF Says
<1>5. ASSUME NEW at \in {"measuring", "asking", "checked", "fetching"},
             GoesTo(h, at), req[h] \in UploadRequest \cup ListRequest
                                         \cup ReadRequest
      PROVE  req'[h].at # "putting"
  BY <1>1, <1>5 DEF GoesTo, UploadRequest, ListRequest, ReadRequest
<1>6. CASE req[h] \in {Free} \cup Refusal
  <2>1. req[h].op \notin {"upload", "list", "read"} /\ req[h].at = "answered"
    BY <1>6 DEF Free, Refusal
  <2> QED
    BY <1>2, <2>1 DEF Handles, Finds, Refused, Fails, Idle, Checks,
       Announces, Opens, RefusalMissed, Lists, Stats, Fetches, ChunkArrives,
       StreamEnds, At
<1>7. CASE req[h] \in UploadRequest \cup ListRequest \cup ReadRequest
  <2>1. CASE Finds(h) \/ Refused(h) \/ Fails(h) \/ Announces(h)
    BY <1>3, <1>4, <1>5, <1>7, <2>1 DEF Finds, Refused, Fails, Announces
  <2>2. CASE Checks(h) \/ Stats(h)
    BY <1>4, <1>5, <1>7, <2>2 DEF Checks, Stats
  <2>3. CASE Opens(h) \/ RefusalMissed(h) \/ Lists(h)
    <3>1. req[h] \in ListRequest
      BY <1>1, <2>3, KindOfRequest DEF Opens, RefusalMissed, Lists, At
    <3>2. CASE Says(h, "wrongKind")
      BY <1>4, <3>2
    <3>3. CASE Opens(h) /\ ~Says(h, "wrongKind")
      <4>1. req' = [req EXCEPT ![h].at = "walking", ![h].found = target.size]
        BY <3>3 DEF Opens
      <4> QED
        BY <1>1, <3>1, <4>1 DEF ListRequest
    <3>4. CASE RefusalMissed(h)
      BY <1>1, <3>1, <3>4 DEF RefusalMissed, ListRequest
    <3>5. CASE Lists(h)
      <4>1. PICK came \in 0 .. MaxSize :
               req' = [req EXCEPT
                   ![h].at = "answered", ![h].came = came,
                   ![h].steady = req[h].steady /\ came = req[h].found,
                   ![h].shown = Min({Head1(came), MaxListing}),
                   ![h].truncated = Head1(came) > MaxListing]
        BY <3>5 DEF Lists
      <4> QED
        BY <1>1, <3>1, <4>1 DEF ListRequest
    <3> QED
      BY <2>3, <3>2, <3>3, <3>4, <3>5
  <2>4. CASE Fetches(h) \/ StreamEnds(h)
    <3>1. req[h] \in ReadRequest
      BY <1>1, <2>4, KindOfRequest DEF Fetches, StreamEnds, At
    <3>2. CASE \E answer : Says(h, answer)
      BY <1>4, <3>2
    <3>3. CASE Fetches(h) /\ ~ \E answer : Says(h, answer)
      <4> DEFINE length == IF target.kind \in Regular THEN target.size ELSE 0
      <4>1. PICK flag \in Flags :
               req' = [req EXCEPT ![h].at = "reading", ![h].flag = flag,
                   ![h].out = target.kind = "fileOut", ![h].length = length]
        BY <3>3 DEF Fetches
      <4> HIDE DEF length
      <4> QED
        BY <1>1, <3>1, <4>1 DEF ReadRequest
    <3>4. CASE StreamEnds(h)
      BY <1>1, <3>1, <3>4 DEF StreamEnds, ReadRequest
    <3> QED
      BY <2>4, <3>2, <3>3, <3>4
  <2>5. CASE ChunkArrives(h)
    BY <2>5, ChunkChanges
  <2> QED
    BY <1>2, <2>1, <2>2, <2>3, <2>4, <2>5 DEF Handles
<1> QED
  BY <1>1, <1>6, <1>7 DEF Request

LEMMA HandlesKeepsRoom ==
  ASSUME IInv, Room, IInv', NEW h \in Handlers, Handles(h)
  PROVE  Room'
<1>1. dir' = dir /\ short' = short
  BY Zenon DEF Handles, UploadArrives, ListArrives, ReadArrives, Finds,
     Refused, Fails, Checks, Announces, Opens, RefusalMissed, Lists, Stats,
     Fetches, ChunkArrives, StreamEnds
<1>2. \A g \in Putting' : g \in Putting /\ req'[g].size = req[g].size
  BY OthersStay, NobodyElseOnItsWay DEF Putting, At
<1> QED
  BY <1>1, <1>2, ShrinkingKeepsRoom, SMTT(30)

(* What others have on its way is a file each at most.                     *)
LEMMA OthersOnTheirWay ==
  ASSUME IInv, NEW h \in Handlers,
         NEW s, DOMAIN s \subseteq Handlers \ {h}
  PROVE  Cardinality(Bytes(s)) <= (Cardinality(Handlers) - 1) * MaxFile
<1>1. /\ IsFiniteSet(Handlers \ {h})
      /\ Cardinality(Handlers \ {h}) = Cardinality(Handlers) - 1
  BY HandlerAssumption, FS_RemoveElement
<1>2. /\ IsFiniteSet(DOMAIN s)
      /\ Cardinality(DOMAIN s) <= Cardinality(Handlers \ {h})
  BY <1>1, FS_Subset
<1>3. /\ Cardinality(DOMAIN s) \in Nat /\ Cardinality(Handlers \ {h}) \in Nat
      /\ Cardinality(Handlers) \in Nat
  BY <1>1, <1>2, HandlerAssumption, FS_CardinalityType
<1>4. Cardinality(Bytes(s)) <= Cardinality(DOMAIN s) * MaxFile
      /\ Cardinality(Bytes(s)) \in Nat
  BY <1>2, BytesType
<1>5. ASSUME NEW m \in Nat, NEW n \in Nat, m <= n
      PROVE  m * MaxFile <= n * MaxFile /\ m * MaxFile \in Nat
             /\ n * MaxFile \in Nat
  BY <1>5, SizeAssumption
<1> QED
  BY <1>1, <1>2, <1>3, <1>4, <1>5

(* What is measured is what the directory holds; the rest is on its way.   *)
LEMMA MeasuresKeepsRoom ==
  ASSUME IInv, Room, IInv', NEW h \in Handlers, Measures(h)
  PROVE  Room'
<1>1. /\ dir' = dir /\ short' = short
      /\ At(h, "upload", "measuring") /\ req[h] \in UploadRequest
  BY FactsOfIInv, KindOfRequest DEF Measures, At
<1>2. \A g \in Handlers \ {h} : req'[g] = req[g]
  BY OthersStay
<1>3. CASE IsDone(h)
  <2>1. req'[h] = Free
    BY <1>3, FactsOfIInv DEF IsDone
  <2>2. \A g \in Putting' : g \in Putting /\ req'[g].size = req[g].size
    BY <1>2, <2>1 DEF Putting, At, Free
  <2> QED
    BY <1>1, <2>2, ShrinkingKeepsRoom
<1>4. CASE Fits(req[h].size) /\ GoesTo(h, "putting")
  <2> DEFINE others == [g \in Putting |-> req[g].size]
             size == req[h].size
             limit == (Cardinality(Handlers) - 1) * MaxFile
  <2>1. req'[h].size = size /\ size \in 0 .. MaxFile
    BY <1>1, <1>4, FactsOfIInv DEF GoesTo, UploadRequest
  <2>2. h \notin Putting /\ Putting' \subseteq Putting \cup {h}
    BY <1>1, <1>2 DEF Putting, At
  <2>3. /\ DOMAIN OnItsWay' \subseteq DOMAIN others \cup {h}
        /\ \A g \in DOMAIN OnItsWay' :
               OnItsWay'[g] = IF g = h THEN size ELSE others[g]
    BY <1>2, <2>1, <2>2 DEF OnItsWay, Putting
  <2>4. IsFiniteSet(DOMAIN others) /\ DOMAIN others \subseteq Handlers \ {h}
    BY <2>2, OnItsWayType DEF Putting
  <2> HIDE DEF others
  <2>5. Cardinality(Bytes(others)) <= limit
    BY <2>4, OthersOnTheirWay
  <2> HIDE DEF size
  <2>6. Cardinality(Bytes(OnItsWay')) <= Cardinality(Bytes(others)) + size
    BY <2>1, <2>3, <2>4, BytesWithOne
  <2>7. Used(dir) + size <= MaxInstance
    BY <1>4 DEF Fits, size
  <2>8. Used(dir) \in Nat /\ Cardinality(Bytes(others)) \in Nat
    BY <2>4, BytesType DEF Used, Room
  <2>9. Cardinality(Bytes(OnItsWay')) \in Nat
    <3>1. IsFiniteSet(DOMAIN OnItsWay')
      BY <2>3, <2>4, FS_AddElement, FS_Subset
    <3> QED
      BY <3>1, BytesType
  <2>10. limit \in Int
    BY HandlerAssumption, FS_CardinalityType, SizeAssumption
  <2> HIDE DEF limit
  <2>11. Used(dir) + Cardinality(Bytes(OnItsWay')) <= MaxInstance + limit
    BY <2>1, <2>5, <2>6, <2>7, <2>8, <2>9, <2>10, SizeAssumption
  <2> QED
    BY <1>1, <2>11 DEF limit, Room, OverrunIsParallel, Used, Bytes
<1> QED
  BY <1>3, <1>4 DEF Measures

(* After a measuring that came short only the directory is left to bound.  *)
LEMMA MeasuresShortKeepsRoom ==
  ASSUME IInv, Room, NEW h \in Handlers, MeasuresShort(h)
  PROVE  Room'
BY DEF Room, OverrunIsParallel, MeasuresShort

(* What is put is on its way no more, and in the directory instead of what *)
(* had its name.                                                           *)
LEMMA PutsKeepsRoom ==
  ASSUME IInv, Room, IInv', NEW h \in Handlers, Puts(h)
  PROVE  Room'
<1>1. At(h, "upload", "putting") /\ req[h] \in UploadRequest
  BY FactsOfIInv, KindOfRequest DEF Puts, At
<1>2. \A g \in Handlers \ {h} : req'[g] = req[g]
  BY OthersStay
<1>3. req'[h].at # "putting"
  BY <1>1, FactsOfIInv DEF Puts, IsDone, GoesTo, Free, UploadRequest
<1>4. Putting' = Putting \ {h} /\ h \in Putting
  BY <1>1, <1>2, <1>3 DEF Putting, At
<1>7. short' = short
  BY DEF Puts
<1>5. CASE dir' = dir
  BY <1>2, <1>4, <1>5, <1>7, ShrinkingKeepsRoom DEF Putting
<1>6. CASE dir' = Extracted(dir, req[h].name, req[h].size)
  <2> DEFINE size == req[h].size
             limit == MaxInstance + (Cardinality(Handlers) - 1) * MaxFile
  <2>1. size \in 0 .. MaxFile
    BY <1>1 DEF UploadRequest
  <2>2. /\ DOMAIN dir' \subseteq DOMAIN dir \cup {req[h].name}
        /\ \A n \in DOMAIN dir' :
               dir'[n] = IF n = req[h].name THEN size ELSE dir[n]
    BY <1>6 DEF Extracted
  <2>3. IsFiniteSet(DOMAIN dir') /\ Used(dir') <= Used(dir) + size
    BY <2>1, <2>2, BytesWithOne, ZenonT(60) DEF Room, Used
  <2>4. /\ h \in DOMAIN OnItsWay /\ OnItsWay[h] = size
        /\ IsFiniteSet(DOMAIN OnItsWay)
        /\ DOMAIN OnItsWay' = DOMAIN OnItsWay \ {h}
        /\ \A g \in DOMAIN OnItsWay' : OnItsWay'[g] = OnItsWay[g]
    BY <1>2, <1>4, OnItsWayType DEF OnItsWay, Putting
  <2>5. Cardinality(Bytes(OnItsWay)) = Cardinality(Bytes(OnItsWay')) + size
    BY <2>1, <2>4, BytesWithoutOne
  <2>6. /\ Used(dir) \in Nat /\ Used(dir') \in Nat
        /\ Cardinality(Bytes(OnItsWay')) \in Nat
    BY <2>3, <2>4, FewerBytes, BytesType DEF Used, Room
  <2>7. limit \in Int
    BY HandlerAssumption, FS_CardinalityType, SizeAssumption
  <2>8. ~short => Used(dir) + Cardinality(Bytes(OnItsWay)) <= limit
    BY DEF Room, OverrunIsParallel
  <2> HIDE DEF limit, size
  <2>9. ~short' => Used(dir') + Cardinality(Bytes(OnItsWay')) <= limit
    BY <1>7, <2>1, <2>3, <2>5, <2>6, <2>7, <2>8
  <2> QED
    BY <2>3, <2>9 DEF limit, Room, OverrunIsParallel, Used, Bytes
<1> QED
  BY <1>5, <1>6 DEF Puts

LEMMA StepKeepsRoom == IInv /\ Room /\ IInv' /\ [Next]_vars => Room'
<1> SUFFICES ASSUME IInv, Room, IInv', [Next]_vars PROVE Room'
  OBVIOUS
<1>1. ASSUME NEW h \in Handlers,
             Handles(h) \/ Measures(h) \/ MeasuresShort(h) \/ Puts(h)
      PROVE  Room'
  BY <1>1, HandlesKeepsRoom, MeasuresKeepsRoom, MeasuresShortKeepsRoom,
     PutsKeepsRoom
<1>2. CASE BoxChanges \/ AgentWrites \/ AgentTidies \/ UNCHANGED vars
  <2>1. short' = short
    BY <1>2 DEF BoxChanges, AgentWrites, AgentTidies, vars
  <2>2. \A h \in Putting' : h \in Putting /\ req'[h] = req[h]
    <3>1. CASE req' = req
      BY <3>1 DEF Putting, At
    <3>2. CASE AgentWrites
      <4>1. \A h \in Handlers : req'[h] = Unsettled(req[h])
        BY <3>2 DEF AgentWrites
      <4>2. ASSUME NEW h \in Handlers, req'[h].at = "putting"
            PROVE  req'[h] = req[h]
        <5>1. CASE req[h].at \in {"checked", "walking", "fetching"}
          <6>1. req[h] \in ListRequest \cup ReadRequest
            BY <5>1, FactsOfIInv
               DEF Request, Free, Refusal, UploadRequest
          <6>2. req'[h] = [req[h] EXCEPT !.steady = FALSE]
            BY <4>1, <5>1 DEF Unsettled
          <6>3. req'[h].at = req[h].at
            BY <6>1, <6>2 DEF ListRequest, ReadRequest
          <6> QED
            BY <4>2, <5>1, <6>3
        <5> QED
          BY <4>1, <5>1 DEF Unsettled
      <4> QED
        BY <4>2 DEF Putting, At
    <3> QED
      BY <1>2, <3>1, <3>2 DEF BoxChanges, AgentTidies, vars
  <2>3. /\ DOMAIN dir' \subseteq DOMAIN dir
        /\ \A n \in DOMAIN dir' : dir'[n] = dir[n]
    <3>1. CASE AgentTidies
      BY <3>1 DEF AgentTidies
    <3> QED
      BY <1>2, <3>1 DEF BoxChanges, AgentWrites, vars
  <2> QED
    BY <2>1, <2>2, <2>3, ShrinkingKeepsRoom
<1> QED
  BY <1>1, <1>2 DEF Next, Handles

LEMMA InitRoom == Init => Room
<1> SUFFICES ASSUME Init PROVE Room
  OBVIOUS
<1>1. DOMAIN dir = {} /\ DOMAIN OnItsWay = {}
  BY DEF Init, OnItsWay, Putting, At, Free
<1>2. Bytes(dir) = {} /\ Bytes(OnItsWay) = {}
  BY <1>1 DEF Bytes
<1>3. Cardinality(Handlers) \in Nat /\ Cardinality(Handlers) # 0
  BY HandlerAssumption, FS_CardinalityType, FS_EmptySet
<1>4. ASSUME NEW n \in Nat \ {0}
      PROVE  0 <= MaxInstance + (n - 1) * MaxFile
  BY SizeAssumption
<1>5. Cardinality(Bytes(dir)) = 0 /\ Cardinality(Bytes(OnItsWay)) = 0
  BY <1>2, FS_EmptySet
<1>6. 0 <= MaxInstance + (Cardinality(Handlers) - 1) * MaxFile
  BY <1>3, <1>4
<1> QED
  BY <1>1, <1>5, <1>6, FS_EmptySet DEF Room, OverrunIsParallel, Used

(* However many uploads run at once, and whatever the agent deletes        *)
(* between their measuring and their putting: each can have taken the      *)
(* room that was there for one file of its own, and no more (upload in     *)
(* service.ts measures before an await and puts after it).                 *)
THEOREM SpecOverrunIsParallel == Spec => []OverrunIsParallel
<1>1. Room => OverrunIsParallel
  BY DEF Room
<1> QED
  BY <1>1, SpecIInv, InitRoom, StepKeepsRoom, PTL DEF Spec

-----------------------------------------------------------------------------
(* Names.  The smallest of some numbers is the end of the smallest of the  *)
(* finite sets they begin.                                                 *)

LEMMA MinOfNats ==
  ASSUME NEW S \in SUBSET Nat, S # {}
  PROVE  Min(S) \in S /\ \A y \in S : Min(S) <= y
<1> DEFINE upTo(x) == {y \in S : y <= x}
           T == {upTo(x) : x \in S}
<1>1. ASSUME NEW x \in S
      PROVE  IsFiniteSet(upTo(x))
  <2>1. IsFiniteSet(0 .. x)
    BY FS_Interval
  <2>2. \A y \in upTo(x) : y \in 0 .. x
    OBVIOUS
  <2> HIDE DEF upTo
  <2> QED
    BY <2>1, <2>2, FS_Subset
<1>2. T \subseteq FiniteSubsetsOf(Nat) /\ T # {}
  BY <1>1 DEF FiniteSubsetsOf
<1>3. PICK t \in T : \A u \in T : ~(<<u, t>> \in StrictSubsetOrdering(Nat))
  <2> HIDE DEF T
  <2> QED
    BY <1>2, FS_StrictSubsetOrderingWellFounded, WFMin
<1>4. PICK x \in S : t = upTo(x)
  BY <1>3
<1>5. ASSUME NEW y \in S, y < x
      PROVE  FALSE
  <2>0. upTo(y) \in T
    OBVIOUS
  <2>1. upTo(y) \subseteq upTo(x) /\ x \notin upTo(y) /\ x \in upTo(x)
    <3>1. x \in Nat /\ y \in Nat /\ \A z \in S : z \in Nat
      OBVIOUS
    <3> HIDE DEF T
    <3>2. x <= x /\ ~(x <= y) /\ \A z \in S : z <= y => z <= x
      BY <1>5, <3>1
    <3> QED
      BY <3>2
  <2>2. upTo(y) \in SUBSET Nat /\ upTo(x) \in SUBSET Nat
    OBVIOUS
  <2> HIDE DEF upTo, T
  <2>3. <<upTo(y), upTo(x)>> \in StrictSubsetOrdering(Nat)
    BY <2>1, <2>2 DEF StrictSubsetOrdering
  <2> QED
    BY <1>3, <1>4, <2>0, <2>3
<1>6. \A y \in S : x <= y
  BY <1>5
<1> QED
  BY <1>6 DEF Min

LEMMA MaxOfNats ==
  ASSUME NEW n \in Nat, NEW S \in SUBSET (0 .. n), S # {}
  PROVE  Max(S) \in S /\ \A y \in S : Max(S) >= y
<1> DEFINE T == {n - x : x \in S}
<1>1. T \subseteq Nat /\ T # {}
  <2>1. \A x \in S : x \in 0 .. n /\ n - x \in Nat
    OBVIOUS
  <2> QED
    BY <2>1
<1>2. Min(T) \in T /\ \A y \in T : Min(T) <= y
  BY <1>1, MinOfNats
<1>3. PICK x \in S : Min(T) = n - x
  BY <1>2
<1>4. \A y \in S : n - x <= n - y
  BY <1>2, <1>3
<1>5. \A y \in S : x >= y
  BY <1>4
<1> QED
  BY <1>5 DEF Max

(* What a name may be made of, and what makes one usable.                  *)
Characters == Legal \cup {"."}

Begins(name) == name # << >> => name[1] # "."

LEMMA BaseIsSequence ==
  ASSUME NEW raw \in Seq(STRING)
  PROVE  Base(raw) \in Seq(STRING)
<1> DEFINE slashes == IndexesOf(raw, "/") \cup IndexesOf(raw, "\\")
<1>1. Len(raw) \in Nat /\ DOMAIN raw = 1 .. Len(raw)
  BY LenProperties
<1>2. slashes \in SUBSET (0 .. Len(raw))
  BY <1>1 DEF IndexesOf
<1>3. CASE slashes # {}
  <2> HIDE DEF slashes
  <2>1. Max(slashes) \in 0 .. Len(raw)
    BY <1>1, <1>2, <1>3, MaxOfNats
  <2>2. \A i \in (Max(slashes) + 1) .. Len(raw) : raw[i] \in STRING
    BY <1>1, <2>1, LenProperties
  <2>3. SubSeq(raw, Max(slashes) + 1, Len(raw)) \in Seq(STRING)
    BY <1>1, <2>1, <2>2, SubSeqProperties
  <2> QED
    BY <1>3, <2>3 DEF Base, slashes
<1> QED
  BY <1>3 DEF Base

LEMMA CleanedIsClean ==
  ASSUME NEW raw \in Seq(STRING)
  PROVE  Cleaned(raw) \in Seq(Characters) /\ Begins(Cleaned(raw))
<1> DEFINE base == Base(raw)
           kept == [i \in DOMAIN base |->
                       IF base[i] \in Legal \cup {"."} THEN base[i] ELSE "_"]
           rest == {i \in DOMAIN kept : kept[i] # "."}
           n == Len(base)
<1>1. base \in Seq(STRING)
  BY BaseIsSequence
<1> HIDE DEF base
<1>2. n \in Nat /\ DOMAIN base = 1 .. n
  BY <1>1, LenProperties
<1>3. \A i \in 1 .. n : kept[i] \in Characters
  BY <1>2, NameAssumption DEF Characters
<1>4. DOMAIN kept = 1 .. n /\ kept \in Seq(Characters) /\ Len(kept) = n
  <2>1. kept = [i \in 1 .. n |-> kept[i]]
    BY <1>2
  <2> HIDE DEF kept, n
  <2>2. kept \in [1 .. n -> Characters]
    BY <1>3, <2>1
  <2>3. kept \in Seq(Characters)
    BY <1>2, <2>2, SeqDef
  <2>4. Len(kept) \in Nat /\ DOMAIN kept = 1 .. Len(kept)
    BY <2>3, LenProperties
  <2> QED
    BY <1>2, <2>2, <2>3, <2>4
<1>5. Cleaned(raw) =
          IF rest = {} THEN << >> ELSE SubSeq(kept, Min(rest), Len(kept))
  BY DEF Cleaned, base
<1>6. rest \in SUBSET Nat /\ rest \subseteq 1 .. n
      /\ \A i \in rest : kept[i] # "."
  BY <1>2
<1> HIDE DEF kept, rest
<1>7. CASE rest = {}
  BY <1>5, <1>7 DEF Begins
<1>8. CASE rest # {}
  <2> DEFINE m == Min(rest)
  <2>1. m \in rest
    BY <1>6, <1>8, MinOfNats
  <2>2. m \in 1 .. n /\ kept[m] # "."
    BY <1>6, <2>1
  <2> HIDE DEF m, n
  <2>3. \A i \in m .. n : kept[i] \in Characters
    BY <1>2, <1>3, <2>2
  <2>4. /\ SubSeq(kept, m, n) \in Seq(Characters)
        /\ \A i \in 1 .. n - m + 1 : SubSeq(kept, m, n)[i] = kept[m + i - 1]
    BY <1>2, <2>2, <2>3, SubSeqProperties
  <2>5. SubSeq(kept, m, n)[1] = kept[m]
    BY <1>2, <2>2, <2>4
  <2>6. Cleaned(raw) = SubSeq(kept, m, n)
    BY <1>4, <1>5, <1>8 DEF m
  <2> QED
    BY <2>2, <2>4, <2>5, <2>6 DEF Begins
<1> QED
  BY <1>7, <1>8

(* A name that is too long loses its middle: it begins as it did and has   *)
(* as many characters as it may have.                                      *)
LEMMA ShortenedFits ==
  ASSUME NEW name \in Seq(Characters), Len(name) > MaxName,
         NEW extension \in Seq(Characters), Len(extension) <= MaxExtension
  PROVE  LET s == Shortened(name, extension)
         IN  s \in Seq(Characters) /\ Len(s) = MaxName /\ s[1] = name[1]
<1> DEFINE k == MaxName - Len(extension)
           start == SubSeq(name, 1, k)
<1>1. Len(extension) \in Nat /\ Len(name) \in Nat
      /\ \A i \in 1 .. Len(name) : name[i] \in Characters
  BY LenProperties
<1>2. k \in 1 .. MaxName /\ k <= Len(name) /\ k + Len(extension) = MaxName
  BY <1>1, LengthAssumption
<1> HIDE DEF k
<1>3. /\ start \in Seq(Characters) /\ Len(start) = k
      /\ \A i \in 1 .. k : start[i] = name[i]
  <2>1. \A i \in 1 .. k : name[i] \in Characters
    BY <1>1, <1>2, LengthAssumption
  <2>2. /\ start \in Seq(Characters)
        /\ Len(start) = IF 1 <= k THEN k - 1 + 1 ELSE 0
        /\ \A i \in 1 .. k - 1 + 1 : start[i] = name[1 + i - 1]
    BY <1>2, <2>1, LengthAssumption, SubSeqProperties
  <2> QED
    BY <1>2, <2>2, LengthAssumption
<1> HIDE DEF start
<1>4. /\ start \o extension \in Seq(Characters)
      /\ Len(start \o extension) = k + Len(extension)
      /\ (start \o extension)[1] = start[1]
  BY <1>1, <1>2, <1>3, ConcatProperties, LengthAssumption
<1>5. Shortened(name, extension) = start \o extension
  BY DEF Shortened, start, k
<1> QED
  BY <1>2, <1>3, <1>4, <1>5, LengthAssumption

LEMMA UploadFileNameIsUsable ==
  ASSUME NEW raw \in RawNames, UploadFileName(raw) # << >>
  PROVE  LET name == UploadFileName(raw)
         IN  /\ name \in Seq(Characters)
             /\ Len(name) \in 1 .. MaxName /\ name[1] # "."
<1> DEFINE name == Cleaned(raw)
           dots == IndexesOf(name, ".")
           last == IF dots = {} THEN 0 ELSE Max(dots)
           extension == IF last > 1 /\ Len(name) - last + 1 <= MaxExtension
                        THEN SubSeq(name, last, Len(name)) ELSE << >>
<1>1. name \in Seq(Characters) /\ Begins(name)
  BY CleanedIsClean, NameAssumption
<1>2. UploadFileName(raw) =
          IF Len(name) <= MaxName THEN name ELSE Shortened(name, extension)
  BY DEF UploadFileName
<1> HIDE DEF name
<1>3. Len(name) \in Nat /\ DOMAIN name = 1 .. Len(name)
      /\ \A i \in 1 .. Len(name) : name[i] \in Characters
  BY <1>1, LenProperties
<1>4. last \in 0 .. Len(name)
  <2>1. dots \in SUBSET (0 .. Len(name))
    BY <1>3 DEF IndexesOf
  <2> HIDE DEF dots
  <2>2. CASE dots # {}
    <3>1. Max(dots) \in dots
      BY <1>3, <2>1, <2>2, MaxOfNats
    <3> QED
      BY <2>1, <2>2, <3>1
  <2> QED
    BY <1>3, <2>2
<1> HIDE DEF last
<1>5. extension \in Seq(Characters) /\ Len(extension) <= MaxExtension
  <2>1. CASE last > 1 /\ Len(name) - last + 1 <= MaxExtension
    <3>1. \A i \in last .. Len(name) : name[i] \in Characters
      BY <1>3, <1>4, <2>1
    <3>2. /\ SubSeq(name, last, Len(name)) \in Seq(Characters)
          /\ Len(SubSeq(name, last, Len(name))) = Len(name) - last + 1
      BY <1>3, <1>4, <3>1, SubSeqProperties
    <3> QED
      BY <2>1, <3>2
  <2>2. CASE ~(last > 1 /\ Len(name) - last + 1 <= MaxExtension)
    BY <2>2, LengthAssumption
  <2> QED
    BY <2>1, <2>2
<1> HIDE DEF extension
<1>6. CASE Len(name) <= MaxName
  <2>1. name # << >> /\ UploadFileName(raw) = name
    BY <1>2, <1>6
  <2>2. Len(name) # 0
    BY <1>1, <2>1
  <2> QED
    BY <1>1, <1>3, <1>6, <2>1, <2>2, LengthAssumption DEF Begins
<1>7. CASE ~(Len(name) <= MaxName)
  <2>1. Len(name) > MaxName /\ name # << >>
    BY <1>3, <1>7, LengthAssumption
  <2>2. UploadFileName(raw) = Shortened(name, extension)
    BY <1>2, <1>7
  <2> QED
    BY <1>1, <1>5, <2>1, <2>2, ShortenedFits, LengthAssumption DEF Begins
<1> QED
  BY <1>6, <1>7

(* Whatever names browsers send, and however many: no file in the uploads  *)
(* directory is hidden or nameless, or has a character that needs quoting  *)
(* or a name too long for a tar header (uploadFileName).                   *)
THEOREM SpecNamesAreUsable == Spec => []NamesAreUsable
<1>1. ASSUME IInv PROVE NamesAreUsable
  <2> SUFFICES ASSUME NEW n \in DOMAIN dir
               PROVE  /\ Len(n) \in 1 .. MaxName /\ n[1] # "."
                      /\ \A i \in DOMAIN n : n[i] \in Legal \cup {"."}
    BY DEF NamesAreUsable
  <2>1. PICK raw \in RawNames : n = UploadFileName(raw) /\ n # << >>
    BY <1>1, FactsOfIInv DEF Names
  <2>2. /\ n \in Seq(Characters) /\ Len(n) \in 1 .. MaxName /\ n[1] # "."
    BY <2>1, UploadFileNameIsUsable
  <2> QED
    BY <2>2, LenProperties DEF Characters
<1> QED
  BY <1>1, SpecIInv, PTL

(* Every variable has its type: no file in the directory is larger than an *)
(* upload may be, or named otherwise than uploadFileName names it.         *)
THEOREM SpecTypeOK == Spec => []TypeOK
<1>1. IInv => TypeOK
  BY DEF IInv
<1> QED
  BY <1>1, SpecIInv, PTL

(* However many entries there are and whatever the limit, a listing of a   *)
(* directory that `find` walked undisturbed shows all there is, or as much *)
(* as may be and that it was cut; a disturbed one says so only if more     *)
(* than that had come (MAX_LISTING_ENTRIES, LIST_SCRIPT).                  *)
THEOREM SpecListingIsTrue == Spec => []ListingIsTrue
<1>1. IInv => ListingIsTrue
  BY DEF IInv, RequestFits, ListFits, ListingIsTrue, At
<1> QED
  BY <1>1, SpecIInv, PTL

(* However the archive is cut into chunks and whatever the agent did to    *)
(* the path since its size was asked, a read answers what the archive      *)
(* amounts to and takes no more of it than that needs (readFirstEntry);    *)
(* and a file outside the workspace is handed out only if the path has     *)
(* changed since STAT_SCRIPT resolved it.                                  *)
THEOREM SpecReadIsExact == Spec => []ReadIsExact
<1>1. IInv => ReadIsExact
  BY DEF IInv, RequestFits, ReadFits, ReadIsExact
<1> QED
  BY <1>1, SpecIInv, PTL

=============================================================================
