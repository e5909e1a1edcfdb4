--------------------------- MODULE ReverseScanProofs ---------------------------
(* Theorems about ReverseScan for any samples, detections and databases of any *)
(* length.                                                                     *)
EXTENDS ReverseScan, FiniteSetTheorems, TLAPS

(***************************************************************************)
(* The inductive invariant.  The content is taken before anything is said  *)
(* about it and never changes again; every finding collected is about it;  *)
(* a match is in the list exactly when the records that were read warrant  *)
(* it; the envelope is written once and then only read; and what was       *)
(* yielded is a prefix of what there is to yield.                          *)
(***************************************************************************)
Plain == {"credential", "crypto", "rule"}

Scanning == pc \notin {"yield", "done"}

\* The records hold a trusted one of the digest h that none after it overrides.
Warranted(rs, h) ==
    \E k \in DOMAIN rs :
        /\ rs[k].digest = h
        /\ rs[k].algorithm = "pe-imphash-v1"
        /\ rs[k].provenance # "fixture"
        /\ \A j \in DOMAIN rs :
               ~ /\ k < j
                 /\ rs[j].digest = rs[k].digest
                 /\ rs[j].algorithm = rs[k].algorithm

Hit == HashWanted /\ Warranted(consulted.records, Digest[image])

HasMatch(fs) == \E k \in DOMAIN fs : fs[k].kind = "match"

ImageTaken ==
    /\ pc \in {"idle", "validate", "locate", "open", "load"} => image = NoFile
    /\ pc \in {"decompile", "describe", "enrich", "lookup", "summarise"} =>
           image \in Readings

\* The file is open between its two reads, for a request that was admitted; what
\* it held since the call was noticed, and nothing is noticed any more once it
\* was read.
BetweenReads ==
    /\ stream # Closed <=> pc = "load"
    /\ pc \in {"validate", "locate", "open", "load"} => Found \subseteq seen
    /\ pc = "load" => stream.head \in seen
    /\ pc \in {"locate", "open", "load"} =>
           request.target = "name" /\ request.arch # "blank"
    /\ pc \in {"open", "load"} => request.arch = "known"

EnvelopeOnce ==
    /\ Scanning => envelope = NoEnvelope /\ emitted = <<>>
    /\ ~Scanning => envelope.kind # "none"
    /\ pc = "yield" => envelope.kind = "report"
    /\ \/ envelope = NoEnvelope
       \/ envelope \in {Escaped(e) : e \in {"path", "parser", "database", "records"}}
       \/ envelope \in {Refused(c) : c \in Codes}
       \/ envelope = Reported(envelope.findings) /\ envelope.findings # <<>>
          /\ envelope.findings \in Seq(Items({"native", "ghidra"}))

Collected ==
    pc \in {"enrich", "lookup", "summarise"} =>
        \A k \in DOMAIN findings :
            findings[k].about = image /\ findings[k].kind \in Plain \cup {"match"}

Matched ==
    /\ pc \in {"enrich", "lookup"} => ~HasMatch(findings)
    /\ pc = "lookup" => HashWanted
    /\ pc = "summarise" =>
           /\ HasMatch(findings) <=> Hit
           /\ \A k \in DOMAIN findings :
                  findings[k].kind = "match" => k = Len(findings)

ReportShape ==
    envelope.kind = "report" /\ envelope.findings # <<>> =>
        LET fs == envelope.findings
        IN  /\ image \in Readings
            /\ HasMatch(fs) <=> Hit
            /\ \A k \in DOMAIN fs :
                   /\ fs[k].about = image
                   /\ fs[k].backend = IF functions = "none" THEN "native" ELSE functions
                   /\ fs[k].kind = "summary" <=> k = Len(fs)
                   /\ fs[k].kind = "match" => k + 1 = Len(fs)

EmittedPrefix ==
    /\ emitted # <<>> => envelope.kind = "report"
    /\ envelope.kind = "report" =>
           /\ Len(emitted) <= Len(Outgoing)
           /\ \A k \in DOMAIN emitted : emitted[k] = Outgoing[k]

IInv ==
    /\ TypeOK /\ ImageTaken /\ BetweenReads /\ EnvelopeOnce /\ Collected /\ Matched
    /\ ReportShape /\ EmittedPrefix

-------------------------------------------------------------------------------
\* What a scan returns or raises is told apart by its fields.
LEMMA EnvelopeFields ==
    ASSUME NEW fs, NEW c, NEW e
    PROVE  /\ NoEnvelope.kind = "none"
           /\ Reported(fs).kind = "report" /\ Reported(fs).findings = fs
           /\ Reported(fs).errors = <<>>
           /\ Refused(c).kind = "report" /\ Refused(c).findings = <<>>
           /\ Refused(c).errors = <<c>>
           /\ Escaped(e).kind = "exception"
  BY DEF NoEnvelope, Reported, Refused, Escaped

LEMMA ItemFields ==
    ASSUME NEW k, NEW b, NEW h
    PROVE  /\ Item(k, b, h).kind = k /\ Item(k, b, h).about = image
           /\ Item(k, b, h).backend = b /\ Item(k, b, h).hash = h
  BY DEF Item

LEMMA ItemType ==
    ASSUME NEW k \in Kinds, NEW h \in Hashes, image \in Readings
    PROVE  Item(k, "none", h) \in Items({"none"})
  BY DEF Item, Items

LEMMA NoDigestHash == NoDigest \in Hashes
  BY DEF Hashes

\* What the detectors report becomes one plain finding each, about the image.
LEMMA Detected ==
    ASSUME image \in Readings,
           NEW fs, fs = [k \in DOMAIN Detections[image] |->
                            Item(Detections[image][k], "none", NoDigest)]
    PROVE  /\ fs \in Seq(Items({"none"}))
           /\ \A k \in DOMAIN fs : fs[k].about = image /\ fs[k].kind \in Plain
<1>1. Detections[image] \in Seq(Plain)
  BY ReverseScanAssumption DEF Plain
<1>2. \A k \in DOMAIN Detections[image] : Detections[image][k] \in Plain
  BY <1>1
<1>3. Plain \subseteq Kinds
  BY DEF Plain, Kinds
<1>4. \A k \in DOMAIN fs : fs[k] \in Items({"none"})
  BY <1>2, <1>3, NoDigestHash, ItemType
<1>5. DOMAIN fs = 1 .. Len(Detections[image]) /\ Len(Detections[image]) \in Nat
  BY <1>1
<1>6. fs \in Seq(Items({"none"}))
  <2>1. fs \in [1 .. Len(Detections[image]) -> Items({"none"})]
    BY <1>4, <1>5
  <2>. QED
    BY <1>5, <2>1
<1>. QED
  BY <1>2, <1>6, ItemFields

\* Appending says what the last element is and keeps the others.
LEMMA Appended ==
    ASSUME NEW S, NEW fs \in Seq(S), NEW x \in S
    PROVE  /\ Append(fs, x) \in Seq(S) /\ Append(fs, x) # <<>>
           /\ Len(Append(fs, x)) = Len(fs) + 1 /\ Len(fs) \in Nat
           /\ DOMAIN fs = 1 .. Len(fs)
           /\ DOMAIN Append(fs, x) = 1 .. Len(fs) + 1
           /\ \A k \in DOMAIN fs : Append(fs, x)[k] = fs[k]
           /\ Append(fs, x)[Len(fs) + 1] = x
  OBVIOUS

\* Stamping gives every item a backend that exists and changes nothing else.
LEMMA StampedItems ==
    ASSUME NEW fs \in Seq(Items({"none"})), functions \in {"native", "ghidra", "none"}
    PROVE  /\ Stamped(fs) \in Seq(Items({"native", "ghidra"}))
           /\ Len(Stamped(fs)) = Len(fs) /\ DOMAIN Stamped(fs) = DOMAIN fs
           /\ \A k \in DOMAIN fs :
                  /\ Stamped(fs)[k].kind = fs[k].kind
                  /\ Stamped(fs)[k].about = fs[k].about
                  /\ Stamped(fs)[k].backend =
                         IF functions = "none" THEN "native" ELSE functions
<1>. DEFINE stamp == IF functions = "none" THEN "native" ELSE functions
<1>1. stamp \in {"native", "ghidra"}
  OBVIOUS
<1>2. Stamped(fs) = [k \in DOMAIN fs |-> [fs[k] EXCEPT !.backend = stamp]]
  BY DEF Stamped
<1>. HIDE DEF stamp
<1>3. DOMAIN fs = 1 .. Len(fs) /\ Len(fs) \in Nat
  OBVIOUS
<1>4. ASSUME NEW k \in DOMAIN fs
      PROVE  /\ [fs[k] EXCEPT !.backend = stamp] \in Items({"native", "ghidra"})
             /\ [fs[k] EXCEPT !.backend = stamp].kind = fs[k].kind
             /\ [fs[k] EXCEPT !.backend = stamp].about = fs[k].about
             /\ [fs[k] EXCEPT !.backend = stamp].backend = stamp
  <2>1. fs[k] \in Items({"none"})
    OBVIOUS
  <2>. QED
    BY <1>1, <2>1 DEF Items
<1>5. Stamped(fs) \in Seq(Items({"native", "ghidra"})) /\ Len(Stamped(fs)) = Len(fs)
  BY <1>2, <1>3, <1>4
<1>. QED
  BY <1>2, <1>4, <1>5 DEF stamp

\* The last record of a digest decides, as in a dictionary filled in order.
LEMMA CuratedIsWarranted ==
    ASSUME NEW db \in Databases, Readable(db), NEW h
    PROVE  Curated(db.records, h) <=> Warranted(db.records, h)
<1>. DEFINE rs == db.records
<1>1. rs \in Seq(Entries)
  BY ReverseScanAssumption DEF Readable, Absent, Corrupt
<1>. HIDE DEF rs
<1>2. ASSUME NEW k \in DOMAIN rs PROVE k \in Nat /\ rs[k].provenance \in Provenances
  <2>1. rs[k] \in Entries /\ k \in Nat
    BY <1>1
  <2>. QED
    BY <2>1 DEF Entries
<1>3. \A k \in DOMAIN rs : rs[k].provenance \in Trusted <=> rs[k].provenance # "fixture"
  BY <1>2 DEF Provenances, Trusted
<1>4. ASSUME NEW k \in Matching(rs, h)
      PROVE  (\A j \in Matching(rs, h) : j <= k)
             <=> \A j \in DOMAIN rs : ~ /\ k < j /\ rs[j].digest = rs[k].digest
                                        /\ rs[j].algorithm = rs[k].algorithm
  BY <1>2, <1>4 DEF Matching
<1>5. Curated(rs, h) <=> Warranted(rs, h)
  BY <1>3, <1>4 DEF Curated, Matching, Warranted
<1>. QED
  BY <1>5 DEF rs

-------------------------------------------------------------------------------
\* IInv holds before a payload was submitted.
THEOREM InvInit == Init => IInv
<1>. SUFFICES ASSUME Init PROVE IInv
  OBVIOUS
<1>1. <<>> \in Seq(Items({"none"})) /\ Len(<<>>) = 0
  OBVIOUS
<1>2. <<>> \in Seq(Items({"native", "ghidra"}) \cup {Warning(c) : c \in Codes})
  OBVIOUS
<1>3. NoRequest \in Requests
  BY DEF NoRequest, Requests, Targets, Architectures, Options
<1>4. TypeOK
  BY <1>1, <1>2, <1>3 DEF Init, TypeOK
<1>5. ImageTaken /\ BetweenReads /\ Collected /\ Matched
  BY DEF Init, ImageTaken, BetweenReads, Found, Collected, Matched
<1>6. EnvelopeOnce /\ ReportShape /\ EmittedPrefix
  BY EnvelopeFields DEF Init, EnvelopeOnce, ReportShape, EmittedPrefix, Scanning
<1>. QED
  BY <1>4, <1>5, <1>6 DEF IInv

\* A refusal or an exception ends the scan and says nothing about a content.
EarlyEnd ==
    /\ envelope' \in {Escaped(e) : e \in {"path", "parser", "database", "records"}}
                     \cup {Refused(c) : c \in Codes}
    /\ pc' \in {"yield", "done"}
    /\ pc' = "yield" => envelope'.kind = "report"

LEMMA EarlyEndKeepsInv ==
    ASSUME IInv, Scanning, EarlyEnd, stream' = Closed, seen' \subseteq Samples,
           path' = path, database' = database, request' = request,
           findings' = findings, emitted' = emitted,
           image' \in Readings \cup {NoFile}, consulted' \in Databases \cup {Absent},
           functions' \in {"native", "ghidra", "none"}
    PROVE  IInv'
<1>. USE DEF EarlyEnd
<1>1. /\ envelope'.kind \in {"report", "exception"}
      /\ envelope'.kind = "report" => envelope'.findings = <<>>
  BY EnvelopeFields
<1>2. emitted = <<>>
  BY DEF IInv, EnvelopeOnce
<1>3. TypeOK'
  BY DEF IInv, TypeOK
<1>4. ImageTaken' /\ BetweenReads' /\ Collected' /\ Matched'
  BY DEF ImageTaken, BetweenReads, Found, Collected, Matched
<1>5. EnvelopeOnce'
  BY <1>1 DEF EnvelopeOnce, Scanning
<1>6. ReportShape'
  BY <1>1 DEF ReportShape
<1>7. EmittedPrefix'
  <2>1. (Outgoing' = Warnings' /\ Len(Warnings') \in Nat) \/ envelope'.kind = "exception"
    <3>1. CASE envelope'.kind = "exception"
      BY <3>1
    <3>2. CASE envelope'.kind = "report"
      <4>1. PICK c \in Codes : envelope' = Refused(c)
        BY <3>2, EnvelopeFields
      <4>2. envelope'.errors = <<c>> /\ envelope'.findings = <<>>
        BY <4>1, EnvelopeFields
      <4>3. Warnings' = [k \in {1} |-> Warning(c)]
        BY <4>2 DEF Warnings
      <4>4. Len(Warnings') = 1
        BY <4>3
      <4>. QED
        BY <4>2, <4>4 DEF Outgoing
    <3>. QED
      BY <1>1, <3>1, <3>2
  <2>2. CASE envelope'.kind = "exception"
    BY <1>2, <2>2 DEF EmittedPrefix
  <2>3. CASE envelope'.kind = "report"
    BY <1>2, <2>1, <2>3 DEF EmittedPrefix
  <2>. QED
    BY <1>1, <2>2, <2>3
<1>. QED
  BY <1>3, <1>4, <1>5, <1>6, <1>7 DEF IInv

\* While the scan goes on there is no envelope and nothing is yielded.
LEMMA OnwardKeeps ==
    ASSUME IInv, Scanning, Scanning', envelope' = envelope, emitted' = emitted
    PROVE  EnvelopeOnce' /\ ReportShape' /\ EmittedPrefix'
<1>1. envelope' = NoEnvelope /\ emitted' = <<>> /\ envelope'.kind = "none"
  BY EnvelopeFields DEF IInv, EnvelopeOnce
<1>2. EnvelopeOnce'
  BY <1>1 DEF EnvelopeOnce, Scanning
<1>. QED
  BY <1>1, <1>2 DEF ReportShape, EmittedPrefix

LEMMA ReturnEnds ==
    ASSUME NEW from, NEW e, Return(from, e)
    PROVE  /\ pc = from /\ envelope' = e /\ pc' \in {"yield", "done"}
           /\ pc' = "yield" => e.kind = "report"
  BY DEF Return, Goto

\* Before and after the file is read it is closed, and after it nothing is noticed.
LEMMA ClosedKeeps ==
    ASSUME IInv, pc # "load", pc' \notin {"validate", "locate", "open", "load"},
           stream' = stream
    PROVE  BetweenReads'
  BY DEF IInv, BetweenReads

LEMMA SubmitKeepsInv ==
    ASSUME IInv, NEW r \in Requests, Submit(r)
    PROVE  IInv'
<1>. USE DEF Submit, Goto, host, reading
<1>1. TypeOK'
  BY DEF IInv, TypeOK, Found, Closed
<1>2. ImageTaken' /\ BetweenReads' /\ Collected' /\ Matched'
  BY DEF IInv, ImageTaken, BetweenReads, Found, Collected, Matched
<1>3. EnvelopeOnce' /\ ReportShape' /\ EmittedPrefix'
  BY OnwardKeeps DEF Scanning
<1>. QED
  BY <1>1, <1>2, <1>3 DEF IInv

LEMMA ValidateKeepsInv ==
    ASSUME IInv, Validate
    PROVE  IInv'
<1>0. /\ pc = "validate"
      /\ UNCHANGED <<path, database, request, stream, seen, image, functions, consulted, findings,
                     emitted>>
  BY ReturnEnds DEF Validate, Goto, host, reading
<1>1. CASE /\ pc' = "locate" /\ envelope' = envelope
           /\ request.target = "name" /\ request.arch # "blank"
  <2>1. TypeOK'
    BY <1>0, <1>1 DEF IInv, TypeOK
  <2>2. ImageTaken' /\ BetweenReads' /\ Collected' /\ Matched'
    BY <1>0, <1>1 DEF IInv, ImageTaken, BetweenReads, Found, Collected, Matched
  <2>3. EnvelopeOnce' /\ ReportShape' /\ EmittedPrefix'
    BY <1>0, <1>1, OnwardKeeps DEF Scanning
  <2>. QED
    BY <2>1, <2>2, <2>3 DEF IInv
<1>2. CASE EarlyEnd
  BY <1>0, <1>2, EarlyEndKeepsInv DEF IInv, TypeOK, BetweenReads, Scanning
<1>. QED
  BY <1>1, <1>2, ReturnEnds DEF Validate, Goto, EarlyEnd, Codes

LEMMA LocateKeepsInv ==
    ASSUME IInv, Locate
    PROVE  IInv'
<1>0. /\ pc = "locate"
      /\ UNCHANGED <<path, database, request, stream, seen, image, functions, consulted, findings,
                     emitted>>
  BY ReturnEnds DEF Locate, Goto, host, reading
<1>1. CASE pc' = "open" /\ envelope' = envelope /\ request.arch = "known"
  <2>1. TypeOK'
    BY <1>0, <1>1 DEF IInv, TypeOK
  <2>2. ImageTaken' /\ BetweenReads' /\ Collected' /\ Matched'
    BY <1>0, <1>1 DEF IInv, ImageTaken, BetweenReads, Found, Collected, Matched
  <2>3. EnvelopeOnce' /\ ReportShape' /\ EmittedPrefix'
    BY <1>0, <1>1, OnwardKeeps DEF Scanning
  <2>. QED
    BY <2>1, <2>2, <2>3 DEF IInv
<1>2. CASE EarlyEnd
  BY <1>0, <1>2, EarlyEndKeepsInv DEF IInv, TypeOK, BetweenReads, Scanning
<1>. QED
  BY <1>1, <1>2, ReturnEnds DEF Locate, Goto, EarlyEnd, Codes

\* The file is opened with the content the path names.
LEMMA OpenKeepsInv ==
    ASSUME IInv, Open
    PROVE  IInv'
<1>0. /\ pc = "open" /\ stream = Closed
      /\ UNCHANGED <<path, database, request, seen, image, functions, consulted, findings,
                     emitted>>
  BY ReturnEnds DEF Open, Goto, host, reading, IInv, BetweenReads
<1>1. CASE /\ pc' = "load" /\ envelope' = envelope /\ path # NoFile
           /\ stream' = [head |-> path, file |-> path]
  <2>1. path \in Samples /\ path \in seen
    BY <1>0, <1>1 DEF IInv, TypeOK, BetweenReads, Found
  <2>2. TypeOK'
    BY <1>0, <1>1, <2>1 DEF IInv, TypeOK
  <2>3. BetweenReads'
    <3>1. stream' # Closed /\ stream'.head = path /\ stream'.file = path
      BY <1>1 DEF Closed
    <3>2. Found' = {path} /\ request' = request
      BY <1>0, <1>1, <3>1 DEF Found
    <3>. QED
      BY <1>0, <1>1, <2>1, <3>1, <3>2 DEF IInv, BetweenReads
  <2>4. ImageTaken' /\ Collected' /\ Matched'
    BY <1>0, <1>1 DEF IInv, ImageTaken, Collected, Matched
  <2>5. EnvelopeOnce' /\ ReportShape' /\ EmittedPrefix'
    BY <1>0, <1>1, OnwardKeeps DEF Scanning
  <2>. QED
    BY <2>2, <2>3, <2>4, <2>5 DEF IInv
<1>2. CASE EarlyEnd /\ stream' = stream
  BY <1>0, <1>2, EarlyEndKeepsInv DEF IInv, TypeOK, BetweenReads, Scanning
<1>. QED
  BY <1>1, <1>2, ReturnEnds, EnvelopeFields DEF Open, Goto, EarlyEnd, Codes

\* What is read is of contents the file held since the call.
LEMMA ReadingSeen ==
    ASSUME IInv, pc = "load"
    PROVE  Reading \in Readings /\ Reading \in [head : seen, rest : seen]
<1>1. stream \in [head : Samples, file : Samples] /\ stream.head \in seen /\ Found \subseteq seen
  BY DEF IInv, TypeOK, BetweenReads
<1>2. stream.file \in Found
  BY <1>1, ReverseScanAssumption DEF Found
<1>. QED
  BY <1>1, <1>2 DEF Reading, Readings

\* The rest is what the file holds when it is read.
LEMMA LoadKeepsInv ==
    ASSUME IInv, Load
    PROVE  IInv'
<1>0. /\ pc = "load" /\ stream' = Closed /\ seen' = {}
      /\ UNCHANGED <<path, database, request, functions, consulted, findings,
                     emitted>>
  BY DEF Load, host
<1>1. CASE pc' = "decompile" /\ envelope' = envelope /\ image' = Reading
  <2>1. Reading \in Readings
    BY <1>0, ReadingSeen
  <2>2. TypeOK'
    BY <1>0, <1>1, <2>1 DEF IInv, TypeOK
  <2>3. ImageTaken' /\ BetweenReads' /\ Collected' /\ Matched'
    BY <1>0, <1>1, <2>1 DEF ImageTaken, BetweenReads, Found, Collected, Matched
  <2>4. EnvelopeOnce' /\ ReportShape' /\ EmittedPrefix'
    BY <1>0, <1>1, OnwardKeeps DEF Scanning
  <2>. QED
    BY <2>2, <2>3, <2>4 DEF IInv
<1>2. CASE EarlyEnd /\ image' = image
  BY <1>0, <1>2, EarlyEndKeepsInv DEF IInv, TypeOK, BetweenReads, Scanning
<1>. QED
  BY <1>1, <1>2, ReturnEnds, EnvelopeFields DEF Load, Goto, EarlyEnd, Codes

LEMMA DecompileKeepsInv ==
    ASSUME IInv, Decompile
    PROVE  IInv'
<1>0. /\ pc = "decompile"
      /\ UNCHANGED <<path, database, request, stream, seen, image, consulted, findings, emitted>>
  BY ReturnEnds DEF Decompile, Goto, host, reading
<1>1. CASE /\ pc' = "describe" /\ envelope' = envelope
           /\ functions' \in {"native", "ghidra", "none"}
  <2>1. TypeOK'
    BY <1>0, <1>1 DEF IInv, TypeOK
  <2>2. ImageTaken' /\ Collected' /\ Matched'
    BY <1>0, <1>1 DEF IInv, ImageTaken, Collected, Matched
  <2>20. BetweenReads'
    BY <1>0, <1>1, ClosedKeeps
  <2>3. EnvelopeOnce' /\ ReportShape' /\ EmittedPrefix'
    BY <1>0, <1>1, OnwardKeeps DEF Scanning
  <2>. QED
    BY <2>1, <2>2, <2>3, <2>20 DEF IInv
<1>2. CASE EarlyEnd /\ functions' = functions
  BY <1>0, <1>2, EarlyEndKeepsInv DEF IInv, TypeOK, BetweenReads, Scanning
<1>. QED
  BY <1>1, <1>2, ReturnEnds DEF Decompile, Goto, EarlyEnd, Codes

\* The detectors see the bytes in memory.
LEMMA DescribeKeepsInv ==
    ASSUME IInv, Describe
    PROVE  IInv'
<1>0. /\ pc = "describe" /\ pc' = "enrich" /\ image \in Readings
      /\ UNCHANGED <<path, database, request, stream, seen, image, functions, consulted, envelope,
                     emitted>>
  BY DEF Describe, Goto, host, reading, IInv, ImageTaken
<1>1. /\ findings' \in Seq(Items({"none"}))
      /\ \A k \in DOMAIN findings' :
             findings'[k].about = image /\ findings'[k].kind \in Plain
  BY <1>0, Detected DEF Describe
<1>2. TypeOK'
  BY <1>0, <1>1 DEF IInv, TypeOK
<1>3. ImageTaken' /\ Collected' /\ Matched'
  BY <1>0, <1>1 DEF ImageTaken, Collected, Matched, HasMatch, Plain
<1>20. BetweenReads'
  BY <1>0, ClosedKeeps
<1>4. EnvelopeOnce' /\ ReportShape' /\ EmittedPrefix'
  BY <1>0, OnwardKeeps DEF Scanning
<1>. QED
  BY <1>2, <1>3, <1>4, <1>20 DEF IInv

LEMMA EnrichKeepsInv ==
    ASSUME IInv, Enrich
    PROVE  IInv'
<1>0. /\ pc = "enrich" /\ pc' = IF HashWanted THEN "lookup" ELSE "summarise"
      /\ UNCHANGED <<path, database, request, stream, seen, image, functions, consulted, findings,
                     envelope, emitted>>
  BY DEF Enrich, Goto, host, reading
<1>1. pc' \in {"lookup", "summarise"}
  BY <1>0
<1>2. TypeOK'
  BY <1>0, <1>1 DEF IInv, TypeOK
<1>3. ImageTaken' /\ Collected'
  BY <1>0, <1>1 DEF IInv, ImageTaken, Collected
<1>20. BetweenReads'
  BY <1>0, <1>1, ClosedKeeps
<1>4. Matched'
  <2>1. ~HasMatch(findings)
    BY <1>0 DEF IInv, Matched
  <2>2. ~HasMatch(findings)' /\ \A k \in DOMAIN findings' : findings'[k].kind # "match"
    BY <1>0, <2>1 DEF HasMatch
  <2>3. pc' = "lookup" => HashWanted'
    BY <1>0 DEF HashWanted
  <2>4. pc' = "summarise" => ~Hit'
    BY <1>0 DEF HashWanted, Hit
  <2>. QED
    BY <1>1, <2>2, <2>3, <2>4 DEF Matched
<1>5. EnvelopeOnce' /\ ReportShape' /\ EmittedPrefix'
  BY <1>0, <1>1, OnwardKeeps DEF Scanning
<1>. QED
  BY <1>2, <1>3, <1>4, <1>5, <1>20 DEF IInv

\* The records that decide are those read here, whatever the file becomes.
LEMMA LookupKeepsInv ==
    ASSUME IInv, Lookup
    PROVE  IInv'
<1>0. /\ pc = "lookup" /\ HashWanted /\ image \in Readings /\ consulted' = database
      /\ database \in Databases
      /\ UNCHANGED <<path, database, request, stream, seen, image, functions, emitted>>
  BY DEF Lookup, host, reading, IInv, TypeOK, Matched, ImageTaken
<1>1. CASE EarlyEnd /\ findings' = findings
  BY <1>0, <1>1, EarlyEndKeepsInv DEF IInv, TypeOK, BetweenReads, Scanning
<1>2. CASE /\ Readable(database) /\ pc' = "summarise" /\ envelope' = envelope
           /\ findings' = IF Curated(database.records, Digest[image])
                          THEN Append(findings, Item("match", "none", Digest[image]))
                          ELSE findings
  <2>. DEFINE match == Item("match", "none", Digest[image])
  <2>1. /\ findings \in Seq(Items({"none"})) /\ ~HasMatch(findings)
        /\ \A k \in DOMAIN findings :
               findings[k].about = image /\ findings[k].kind \in Plain \cup {"match"}
    BY <1>0 DEF IInv, TypeOK, Matched, Collected
  <2>2. match \in Items({"none"}) /\ match.kind = "match" /\ match.about = image
    BY <1>0, ItemType, ItemFields DEF Kinds, Hashes
  <2>3. Curated(database.records, Digest[image]) <=> Hit'
    <3>1. Hit' <=> Warranted(database.records, Digest[image])
      BY <1>0 DEF Hit, HashWanted
    <3>. QED
      BY <1>0, <1>2, <3>1, CuratedIsWarranted
  <2>. HIDE DEF match
  <2>4. /\ findings' \in Seq(Items({"none"}))
        /\ HasMatch(findings)' <=> Hit'
        /\ \A k \in DOMAIN findings' :
               /\ findings'[k].about = image
               /\ findings'[k].kind \in Plain \cup {"match"}
               /\ findings'[k].kind = "match" => k = Len(findings')
    <3>1. CASE Hit'
      <4>1. findings' = Append(findings, match)
        BY <1>2, <2>3, <3>1 DEF match
      <4>2. /\ findings' \in Seq(Items({"none"})) /\ Len(findings') = Len(findings) + 1
            /\ Len(findings) \in Nat /\ DOMAIN findings = 1 .. Len(findings)
            /\ DOMAIN findings' = 1 .. Len(findings) + 1
            /\ \A k \in DOMAIN findings : findings'[k] = findings[k]
            /\ findings'[Len(findings) + 1] = match
        BY <2>1, <2>2, <4>1, Appended
      <4>3. \A k \in DOMAIN findings' : k \in DOMAIN findings \/ k = Len(findings) + 1
        BY <4>2
      <4>4. HasMatch(findings')
        BY <2>2, <4>2 DEF HasMatch
      <4>. QED
        BY <2>1, <2>2, <3>1, <4>2, <4>3, <4>4 DEF HasMatch
    <3>2. CASE ~Hit'
      <4>1. findings' = findings
        BY <1>2, <2>3, <3>2
      <4>. QED
        BY <2>1, <3>2, <4>1 DEF HasMatch
    <3>. QED
      BY <3>1, <3>2
  <2>5. TypeOK'
    BY <1>0, <1>2, <2>4 DEF IInv, TypeOK
  <2>6. ImageTaken' /\ Collected' /\ Matched'
    BY <1>0, <1>2, <2>4 DEF ImageTaken, Collected, Matched
  <2>20. BetweenReads'
    BY <1>0, <1>2, ClosedKeeps
  <2>7. EnvelopeOnce' /\ ReportShape' /\ EmittedPrefix'
    BY <1>0, <1>2, OnwardKeeps DEF Scanning
  <2>. QED
    BY <2>5, <2>6, <2>7, <2>20 DEF IInv
<1>. QED
  BY <1>1, <1>2, ReturnEnds, EnvelopeFields DEF Lookup, Goto, EarlyEnd

\* The summary comes last, so the only match is just before it.
LEMMA SummariseKeepsInv ==
    ASSUME IInv, Summarise
    PROVE  IInv'
<1>. DEFINE summary == Item("summary", "none",
                            IF HashWanted THEN Digest[image] ELSE NoDigest)
            all == Append(findings, summary)
            fs == Stamped(all)
<1>0. /\ pc = "summarise" /\ image \in Readings /\ envelope' = Reported(fs)
      /\ pc' \in {"yield", "done"} /\ emitted = <<>>
      /\ UNCHANGED <<path, database, request, stream, seen, image, functions, consulted, findings,
                     emitted>>
  BY ReturnEnds DEF Summarise, host, reading, IInv, ImageTaken, EnvelopeOnce, Scanning
<1>1. /\ findings \in Seq(Items({"none"})) /\ functions \in {"native", "ghidra", "none"}
      /\ HasMatch(findings) <=> Hit
      /\ \A k \in DOMAIN findings :
             /\ findings[k].about = image
             /\ findings[k].kind \in Plain \cup {"match"}
             /\ findings[k].kind = "match" => k = Len(findings)
  BY <1>0 DEF IInv, TypeOK, Matched, Collected
<1>2. summary \in Items({"none"}) /\ summary.kind = "summary" /\ summary.about = image
  <2>1. (IF HashWanted THEN Digest[image] ELSE NoDigest) \in Hashes
    BY <1>0 DEF Hashes
  <2>. QED
    BY <1>0, <2>1, ItemType, ItemFields DEF Kinds
<1>. HIDE DEF summary
<1>3. /\ all \in Seq(Items({"none"})) /\ Len(all) = Len(findings) + 1
      /\ Len(findings) \in Nat /\ DOMAIN findings = 1 .. Len(findings)
      /\ DOMAIN all = 1 .. Len(findings) + 1
      /\ \A k \in DOMAIN findings : all[k] = findings[k]
      /\ all[Len(findings) + 1] = summary
  BY <1>1, <1>2, Appended
<1>. HIDE DEF all
<1>4. /\ fs \in Seq(Items({"native", "ghidra"}))
      /\ Len(fs) = Len(findings) + 1 /\ DOMAIN fs = 1 .. Len(findings) + 1
      /\ \A k \in DOMAIN fs :
             /\ fs[k].kind = all[k].kind /\ fs[k].about = all[k].about
             /\ fs[k].backend = IF functions = "none" THEN "native" ELSE functions
  BY <1>1, <1>3, StampedItems
<1>. HIDE DEF fs
<1>5. /\ \A k \in DOMAIN findings :
             /\ fs[k].kind = findings[k].kind /\ fs[k].about = image
             /\ k \in DOMAIN fs /\ k < Len(fs)
      /\ fs[Len(fs)].kind = "summary" /\ fs[Len(fs)].about = image
      /\ Len(fs) \in DOMAIN fs
      /\ \A k \in DOMAIN fs : k \in DOMAIN findings \/ k = Len(fs)
  BY <1>1, <1>2, <1>3, <1>4
<1>6. fs # <<>>
  BY <1>3, <1>4
<1>7. HasMatch(fs) <=> Hit
  BY <1>1, <1>5 DEF HasMatch
<1>8. \A k \in DOMAIN fs :
          /\ fs[k].about = image
          /\ fs[k].kind = "summary" <=> k = Len(fs)
          /\ fs[k].kind = "match" => k + 1 = Len(fs)
  BY <1>1, <1>3, <1>4, <1>5 DEF Plain
<1>9. /\ envelope'.kind = "report" /\ envelope'.findings = fs /\ envelope'.errors = <<>>
  BY <1>0, EnvelopeFields
<1>10. TypeOK'
  BY <1>0, <1>4, <1>9 DEF IInv, TypeOK
<1>11. ImageTaken' /\ Collected' /\ Matched'
  BY <1>0 DEF ImageTaken, Collected, Matched
<1>20. BetweenReads'
  BY <1>0, ClosedKeeps
<1>12. EnvelopeOnce'
  BY <1>0, <1>4, <1>6, <1>9 DEF EnvelopeOnce, Scanning, Reported
<1>13. ReportShape'
  <2>1. Hit' <=> Hit
    BY <1>0 DEF Hit, HashWanted
  <2>. QED
    BY <1>0, <1>4, <1>7, <1>8, <1>9, <2>1 DEF ReportShape, HasMatch
<1>14. EmittedPrefix'
  <2>1. Outgoing' = fs
    BY <1>6, <1>9 DEF Outgoing
  <2>. QED
    BY <1>0, <1>3, <1>4, <2>1 DEF EmittedPrefix
<1>. QED
  BY <1>10, <1>11, <1>12, <1>13, <1>14, <1>20 DEF IInv

-------------------------------------------------------------------------------
\* A report has findings, or one error code and so one warning.
LEMMA OutgoingOfReport ==
    ASSUME IInv, envelope.kind = "report"
    PROVE  \/ /\ envelope.findings # <<>> /\ envelope.errors = <<>>
              /\ Outgoing = envelope.findings
              /\ envelope.findings \in Seq(Items({"native", "ghidra"}))
           \/ /\ envelope.findings = <<>> /\ envelope.errors # <<>>
              /\ \E c \in Codes : Outgoing = <<Warning(c)>>
<1>1. CASE envelope = Reported(envelope.findings) /\ envelope.findings # <<>>
           /\ envelope.findings \in Seq(Items({"native", "ghidra"}))
  BY <1>1, EnvelopeFields DEF Outgoing
<1>2. ASSUME NEW c \in Codes, envelope = Refused(c)
      PROVE  /\ envelope.findings = <<>> /\ envelope.errors # <<>>
             /\ Outgoing = <<Warning(c)>>
  <2>1. envelope.findings = <<>> /\ envelope.errors = <<c>>
    BY <1>2, EnvelopeFields
  <2>2. Warnings = [k \in {1} |-> Warning(c)]
    BY <2>1 DEF Warnings
  <2>3. Warnings = <<Warning(c)>>
    BY <2>2
  <2>. QED
    BY <2>1, <2>3 DEF Outgoing
<1>. QED
  BY <1>1, <1>2, EnvelopeFields DEF IInv, EnvelopeOnce

LEMMA OutgoingType ==
    ASSUME IInv, envelope.kind = "report"
    PROVE  Outgoing \in Seq(Items({"native", "ghidra"}) \cup {Warning(c) : c \in Codes})
<1>. DEFINE S == Items({"native", "ghidra"}) \cup {Warning(c) : c \in Codes}
<1>1. CASE Outgoing \in Seq(Items({"native", "ghidra"}))
  <2>1. Items({"native", "ghidra"}) \subseteq S
    OBVIOUS
  <2>. HIDE DEF S
  <2>2. Outgoing \in Seq(S)
    BY <1>1, <2>1
  <2>. QED
    BY <2>2 DEF S
<1>2. ASSUME NEW c \in Codes, Outgoing = <<Warning(c)>>
      PROVE  Outgoing \in Seq(S)
  <2>1. Warning(c) \in S
    OBVIOUS
  <2>. HIDE DEF S
  <2>. QED
    BY <1>2, <2>1
<1>. QED
  BY <1>1, <1>2, OutgoingOfReport

\* Steps after the scan leave the envelope and all it depends on alone.
LEMMA DeliveryKeeps ==
    ASSUME IInv, ~Scanning, ~Scanning', pc' = "yield" => pc = "yield",
           UNCHANGED <<request, stream, seen, image, functions, consulted, findings, envelope>>
    PROVE  ImageTaken' /\ BetweenReads' /\ EnvelopeOnce' /\ Collected' /\ Matched' /\ ReportShape'
<1>1. ImageTaken' /\ Collected' /\ Matched'
  BY DEF Scanning, ImageTaken, Collected, Matched
<1>5. BetweenReads'
  BY ClosedKeeps DEF Scanning
<1>2. EnvelopeOnce'
  BY DEF IInv, EnvelopeOnce, Scanning
<1>3. Hit' <=> Hit
  BY DEF Hit, HashWanted
<1>4. ReportShape'
  BY <1>3 DEF IInv, ReportShape, HasMatch
<1>. QED
  BY <1>1, <1>2, <1>4, <1>5

LEMMA YieldKeepsInv ==
    ASSUME IInv, Yield
    PROVE  IInv'
<1>0. /\ pc = "yield" /\ pc' \in {"yield", "done"} /\ envelope.kind = "report"
      /\ UNCHANGED <<path, database, request, stream, seen, image, functions, consulted, findings,
                     envelope>>
  BY DEF Yield, Goto, host, reading, IInv, EnvelopeOnce
<1>1. ImageTaken' /\ BetweenReads' /\ EnvelopeOnce' /\ Collected' /\ Matched' /\ ReportShape'
  BY <1>0, DeliveryKeeps DEF Scanning
<1>. DEFINE S == Items({"native", "ghidra"}) \cup {Warning(c) : c \in Codes}
<1>2. Outgoing \in Seq(S) /\ Outgoing' = Outgoing
  BY <1>0, OutgoingType DEF Outgoing, Warnings
<1>3. /\ emitted \in Seq(S) /\ Len(emitted) <= Len(Outgoing)
      /\ \A k \in DOMAIN emitted : emitted[k] = Outgoing[k]
  BY <1>0 DEF IInv, TypeOK, EmittedPrefix
<1>. HIDE DEF S
<1>4. /\ emitted' \in Seq(S) /\ Len(emitted') <= Len(Outgoing)
      /\ \A k \in DOMAIN emitted' : emitted'[k] = Outgoing[k]
  <2>1. CASE emitted' = emitted
    BY <1>3, <2>1
  <2>2. CASE /\ Len(emitted) < Len(Outgoing)
             /\ emitted' = Append(emitted, Outgoing[Len(emitted) + 1])
    <3>1. Outgoing[Len(emitted) + 1] \in S /\ Len(Outgoing) \in Nat
      BY <1>2, <1>3, <2>2
    <3>. QED
      BY <1>3, <2>2, <3>1, Appended
  <2>. QED
    BY <2>1, <2>2 DEF Yield
<1>5. TypeOK'
  BY <1>0, <1>4 DEF IInv, TypeOK, S
<1>6. EmittedPrefix'
  BY <1>0, <1>2, <1>4 DEF EmittedPrefix
<1>. QED
  BY <1>1, <1>5, <1>6 DEF IInv

LEMMA AbandonKeepsInv ==
    ASSUME IInv, Abandon
    PROVE  IInv'
<1>. USE DEF Abandon, Goto, host, reading
<1>1. ImageTaken' /\ BetweenReads' /\ EnvelopeOnce' /\ Collected' /\ Matched' /\ ReportShape'
  BY DeliveryKeeps DEF Scanning
<1>2. TypeOK'
  BY DEF IInv, TypeOK
<1>3. EmittedPrefix'
  BY DEF IInv, EmittedPrefix, Outgoing, Warnings
<1>. QED
  BY <1>1, <1>2, <1>3 DEF IInv

\* A file that is open may change, and what it becomes is noticed; otherwise
\* nothing in the invariant looks at the host again.
LEMMA HostKeepsInv ==
    ASSUME IInv, path' \in Samples \cup {NoFile}, database' \in Databases,
           TypeOK', BetweenReads',
           UNCHANGED <<pc, request, image, functions, consulted, findings, envelope,
                       emitted>>
    PROVE  IInv'
<1>2. Hit' <=> Hit
  BY DEF Hit, HashWanted
<1>3. ImageTaken' /\ EnvelopeOnce' /\ Collected'
  BY DEF IInv, ImageTaken, EnvelopeOnce, Collected, Scanning
<1>4. Matched' /\ ReportShape'
  BY <1>2 DEF IInv, Matched, ReportShape, HasMatch, HashWanted
<1>5. EmittedPrefix'
  BY DEF IInv, EmittedPrefix, Outgoing, Warnings
<1>. QED
  BY <1>3, <1>4, <1>5 DEF IInv

LEMMA UndisturbedKeepsInv ==
    ASSUME IInv, database' \in Databases,
           UNCHANGED <<path, pc, request, stream, seen, image, functions, consulted,
                       findings, envelope, emitted>>
    PROVE  IInv'
<1>1. TypeOK' /\ BetweenReads'
  BY DEF IInv, TypeOK, BetweenReads, Found
<1>. QED
  BY <1>1, HostKeepsInv DEF IInv, TypeOK

LEMMA RewriteKeepsInv ==
    ASSUME IInv, Rewrite
    PROVE  IInv'
<1>0. /\ path' \in Samples \cup {NoFile}
      /\ UNCHANGED <<database, pc, request, image, functions, consulted, findings,
                     envelope, emitted>>
  BY DEF Rewrite
<1>1. \/ stream = Closed /\ stream' = Closed
      \/ /\ stream \in [head : Samples, file : Samples]
         /\ stream' \in [head : Samples, file : Samples] /\ stream'.head = stream.head
  BY DEF Rewrite, IInv, TypeOK
<1>2. Found' \subseteq Samples
  BY <1>0, <1>1 DEF Found, Closed
<1>3. /\ seen' \in {seen, seen \cup Found'}
      /\ pc \in {"validate", "locate", "open", "load"} => seen' = seen \cup Found'
  BY DEF Rewrite
<1>4. TypeOK'
  BY <1>0, <1>1, <1>2, <1>3 DEF IInv, TypeOK
<1>5. stream' # Closed <=> stream # Closed
  BY <1>1, ReverseScanAssumption DEF Closed
<1>6. BetweenReads'
  BY <1>0, <1>1, <1>3, <1>5 DEF IInv, BetweenReads
<1>. QED
  BY <1>0, <1>4, <1>6, HostKeepsInv DEF IInv, TypeOK

\* The invariant is inductive: no stage of the scan, no step of the adapter or of the
\* host breaks it.
THEOREM InvStep == IInv /\ [Next]_vars => IInv'
<1>. SUFFICES ASSUME IInv, [Next]_vars PROVE IInv'
  OBVIOUS
<1>0. path \in Samples \cup {NoFile} /\ database \in Databases
  BY DEF IInv, TypeOK
<1>1. CASE Scan
  BY <1>1, ValidateKeepsInv, LocateKeepsInv, OpenKeepsInv, LoadKeepsInv,
     DecompileKeepsInv, DescribeKeepsInv, EnrichKeepsInv, LookupKeepsInv, SummariseKeepsInv DEF Scan
<1>2. CASE Yield \/ Abandon
  BY <1>2, YieldKeepsInv, AbandonKeepsInv
<1>3. CASE Rewrite
  BY <1>3, RewriteKeepsInv
<1>4. CASE Update
  BY <1>0, <1>4, UndisturbedKeepsInv DEF Update, reading
<1>5. CASE \E r \in Requests : Submit(r)
  BY <1>5, SubmitKeepsInv
<1>6. CASE UNCHANGED vars
  BY <1>0, <1>6, UndisturbedKeepsInv DEF vars
<1>. QED
  BY <1>1, <1>2, <1>3, <1>4, <1>5, <1>6 DEF Next

\* IInv holds in every reachable state.
THEOREM Invariant == Spec => []IInv
  BY InvInit, InvStep, PTL DEF Spec

-------------------------------------------------------------------------------
LEMMA InvImpliesReportWellFormed == IInv => ReportWellFormed
<1>. SUFFICES ASSUME IInv, envelope.kind = "report"
              PROVE  LET fs == envelope.findings
                     IN  /\ (fs = <<>>) # (envelope.errors = <<>>)
                         /\ \A k \in DOMAIN fs : fs[k].kind = "summary" <=> k = Len(fs)
  BY DEF ReportWellFormed
<1>. QED
  BY OutgoingOfReport DEF IInv, ReportShape

\* The matches of a report are its last finding but one, or none.
LEMMA InvImpliesMatchIffCurated == IInv => MatchIffCurated
<1>. SUFFICES ASSUME IInv, envelope.kind = "report", envelope.findings # <<>>
              PROVE  MatchIffCurated
  BY DEF MatchIffCurated
<1>. DEFINE fs == envelope.findings
            matches == {k \in DOMAIN fs : fs[k].kind = "match"}
<1>1. HasMatch(fs) <=> Hit
  BY DEF IInv, ReportShape
<1>2. Cardinality(matches) = IF Hit THEN 1 ELSE 0
  <2>1. CASE Hit
    <3>1. PICK k \in DOMAIN fs : fs[k].kind = "match"
      BY <1>1, <2>1 DEF HasMatch
    <3>2. \A j \in matches : j = k
      <4>1. fs \in Seq(Items({"native", "ghidra"}))
        BY OutgoingOfReport
      <4>2. \A j \in matches : j + 1 = Len(fs)
        BY DEF IInv, ReportShape
      <4>3. k \in Nat /\ \A j \in matches : j \in Nat
        BY <4>1
      <4>. QED
        BY <3>1, <4>2, <4>3
    <3>3. matches = {k}
      BY <3>1, <3>2
    <3>. QED
      BY <2>1, <3>3, FS_Singleton
  <2>2. CASE ~Hit
    <3>1. matches = {}
      BY <1>1, <2>2 DEF HasMatch
    <3>. QED
      BY <2>2, <3>1, FS_EmptySet
  <2>. QED
    BY <2>1, <2>2
<1>3. Hit <=> /\ Shape[image] = "pe"
              /\ {"imphash", "pe_imphash"} \cap request.enrich # {}
              /\ Warranted(consulted.records, Digest[image])
  BY DEF Hit, HashWanted
<1>. QED
  BY <1>2, <1>3 DEF MatchIffCurated, Warranted

LEMMA InvImpliesAttributed == IInv => AttributedToItsBackend
<1>. SUFFICES ASSUME IInv, NEW k \in DOMAIN emitted, emitted[k].kind # "warning"
              PROVE  emitted[k].backend = IF functions = "ghidra" THEN "ghidra" ELSE "native"
  BY DEF AttributedToItsBackend
<1>1. emitted \in Seq(Items({"native", "ghidra"}) \cup {Warning(c) : c \in Codes})
  BY DEF IInv, TypeOK
<1>2. emitted # <<>> /\ k \in 1 .. Len(emitted) /\ Len(emitted) \in Nat
  BY <1>1
<1>3. envelope.kind = "report" /\ Len(emitted) <= Len(Outgoing) /\ emitted[k] = Outgoing[k]
  BY <1>2 DEF IInv, EmittedPrefix
<1>4. CASE Outgoing = envelope.findings /\ envelope.findings # <<>>
           /\ envelope.findings \in Seq(Items({"native", "ghidra"}))
  <2>1. k \in DOMAIN envelope.findings
    BY <1>2, <1>3, <1>4
  <2>2. functions \in {"native", "ghidra", "none"}
    BY DEF IInv, TypeOK
  <2>. QED
    BY <1>3, <1>4, <2>1, <2>2 DEF IInv, ReportShape
<1>5. ASSUME NEW c \in Codes, Outgoing = <<Warning(c)>> PROVE FALSE
  <2>1. k = 1
    BY <1>2, <1>3, <1>5
  <2>. QED
    BY <1>3, <1>5, <2>1 DEF Warning
<1>. QED
  BY <1>3, <1>4, <1>5, OutgoingOfReport

LEMMA InvImpliesConsumerSees == IInv => ConsumerSeesTheReport
<1>. SUFFICES ASSUME IInv, NEW k \in DOMAIN emitted
              PROVE  /\ envelope.kind = "report"
                     /\ (emitted[k].kind = "warning") = (envelope.findings = <<>>)
                     /\ envelope.findings # <<>> =>
                            k <= Len(envelope.findings)
                            /\ emitted[k].about = envelope.findings[k].about
                            /\ emitted[k].kind = envelope.findings[k].kind
  BY DEF ConsumerSeesTheReport
<1>1. emitted \in Seq(Items({"native", "ghidra"}) \cup {Warning(c) : c \in Codes})
  BY DEF IInv, TypeOK
<1>2. emitted # <<>> /\ k \in 1 .. Len(emitted) /\ Len(emitted) \in Nat
  BY <1>1
<1>3. envelope.kind = "report" /\ Len(emitted) <= Len(Outgoing) /\ emitted[k] = Outgoing[k]
  BY <1>2 DEF IInv, EmittedPrefix
<1>4. CASE Outgoing = envelope.findings /\ envelope.findings # <<>>
           /\ envelope.findings \in Seq(Items({"native", "ghidra"}))
  <2>1. k \in DOMAIN envelope.findings /\ k <= Len(envelope.findings)
    BY <1>2, <1>3, <1>4
  <2>2. envelope.findings[k].kind \in Kinds
    <3>1. envelope.findings[k] \in Items({"native", "ghidra"})
      BY <1>4, <2>1
    <3>. QED
      BY <3>1 DEF Items
  <2>. QED
    BY <1>3, <1>4, <2>1, <2>2 DEF Kinds
<1>5. ASSUME NEW c \in Codes, Outgoing = <<Warning(c)>>, envelope.findings = <<>>
      PROVE  (emitted[k].kind = "warning") = (envelope.findings = <<>>)
  <2>1. k = 1
    BY <1>2, <1>3, <1>5
  <2>. QED
    BY <1>3, <1>5, <2>1 DEF Warning
<1>. QED
  BY <1>3, <1>4, <1>5, OutgoingOfReport

-------------------------------------------------------------------------------
\* Every variable keeps the shape the code gives it.
THEOREM TypeCorrect == Spec => []TypeOK
  BY Invariant, PTL DEF IInv

\* Every path through scan_binary that returns, returns findings or errors, and
\* findings close with the summary.
THEOREM ReportsAreWellFormed == Spec => []ReportWellFormed
  BY Invariant, InvImpliesReportWellFormed, PTL

\* For a database of any length: known malware is reported, once, exactly when
\* the last record of the image's digest was trusted at the time it was read.
THEOREM MatchesAreCurated == Spec => []MatchIffCurated
  BY Invariant, InvImpliesMatchIffCurated, PTL

\* Every finding that is yielded names the backend of this scan's functions.
THEOREM FindingsAreAttributed == Spec => []AttributedToItsBackend
  BY Invariant, InvImpliesAttributed, PTL

\* The generator yields the report from its beginning and in its order.
THEOREM ConsumersSeeTheReport == Spec => []ConsumerSeesTheReport
  BY Invariant, InvImpliesConsumerSees, PTL

-------------------------------------------------------------------------------
(* What an exception that reaches the caller says.                             *)

EscapeExplained ==
    envelope.kind = "exception" =>
        \/ /\ envelope.error = "path" /\ image = NoFile
           /\ request.target # "blank" /\ request.arch # "blank"
        \/ /\ envelope.error = "parser" /\ image = NoFile
           /\ request.target = "name" /\ request.arch = "known"
        \/ /\ envelope.error \in {"database", "records"} /\ image \in Readings
           /\ HashWanted /\ consulted \in Databases /\ ~Readable(consulted)

LEMMA StepExplains ==
    ASSUME IInv, EscapeExplained, [Next]_vars
    PROVE  EscapeExplained'
<1>. USE DEF Goto, Return, host, reading
<1>1. NoEnvelope.kind # "exception" /\ \A c : Refused(c).kind # "exception"
  BY DEF NoEnvelope, Refused
<1>2. \A e : Escaped(e).error = e
  BY DEF Escaped
<1>3. ASSUME Scanning PROVE envelope.kind # "exception"
  BY <1>1, <1>3 DEF IInv, EnvelopeOnce
<1>4. CASE Validate
  <2>1. image' = NoFile /\ request' = request
    BY <1>4 DEF Validate, IInv, ImageTaken
  <2>2. envelope'.kind = "exception" =>
            /\ envelope' = Escaped("path")
            /\ request.target # "blank" /\ request.arch # "blank"
    BY <1>1, <1>3, <1>4 DEF Validate, Scanning
  <2>. QED
    BY <1>2, <2>1, <2>2 DEF EscapeExplained
<1>10. CASE Locate
  <2>1. /\ image' = NoFile /\ request' = request
        /\ request.target # "blank" /\ request.arch # "blank"
    BY <1>10 DEF Locate, IInv, ImageTaken, BetweenReads
  <2>2. envelope'.kind = "exception" => envelope' = Escaped("path")
    BY <1>1, <1>3, <1>10 DEF Locate, Scanning
  <2>. QED
    BY <1>2, <2>1, <2>2 DEF EscapeExplained
<1>11. CASE Load
  <2>1. /\ request' = request
        /\ image = NoFile /\ request.target = "name" /\ request.arch = "known"
    BY <1>11 DEF Load, IInv, ImageTaken, BetweenReads
  <2>2. envelope'.kind = "exception" => envelope' = Escaped("parser") /\ image' = image
    BY <1>1, <1>3, <1>11 DEF Load, Scanning
  <2>. QED
    BY <1>2, <2>1, <2>2 DEF EscapeExplained
<1>5. CASE Lookup
  <2>1. /\ HashWanted /\ database \in Databases /\ consulted' = database
        /\ UNCHANGED <<request, image>> /\ image \in Readings
    BY <1>5 DEF Lookup, IInv, TypeOK, Matched, ImageTaken
  <2>2. HashWanted' /\ consulted' \in Databases /\ image' \in Readings
    BY <2>1 DEF HashWanted
  <2>3. envelope'.kind = "exception" =>
            /\ envelope' = Escaped("database") \/ envelope' = Escaped("records")
            /\ ~Readable(database)
    <3>1. CASE UNCHANGED envelope
      BY <1>3, <1>5, <3>1 DEF Lookup, Scanning
    <3>2. CASE database = Absent /\ envelope' = Escaped("database")
      BY <3>2 DEF Readable, Absent
    <3>3. CASE ~Readable(database) /\ envelope' = Escaped("records")
      BY <3>3
    <3>. QED
      BY <1>5, <3>1, <3>2, <3>3 DEF Lookup
  <2>4. ~Readable(database) => ~Readable(consulted)'
    BY <2>1 DEF Readable
  <2>. QED
    BY <1>2, <2>2, <2>3, <2>4 DEF EscapeExplained
<1>6. CASE Summarise
  <2>1. PICK fs : envelope' = Reported(fs)
    BY <1>6 DEF Summarise
  <2>. QED
    BY <2>1 DEF EscapeExplained, Reported
<1>7. CASE Open \/ Decompile
  <2>1. envelope' = envelope \/ \E c : envelope' = Refused(c)
    BY <1>7 DEF Open, Decompile
  <2>. QED
    BY <1>1, <1>3, <1>7, <2>1 DEF Open, Decompile, Scanning, EscapeExplained
<1>8. CASE Describe \/ Enrich \/ \E r \in Requests : Submit(r)
  BY <1>3, <1>8 DEF Describe, Enrich, Submit, Scanning, EscapeExplained
<1>9. CASE Yield \/ Abandon \/ Rewrite \/ Update \/ UNCHANGED vars
  <2>1. UNCHANGED <<request, image, consulted, envelope>>
    BY <1>9 DEF Yield, Abandon, Rewrite, Update, vars
  <2>. QED
    BY <2>1 DEF EscapeExplained, HashWanted, Readable
<1>. QED
  BY <1>4, <1>5, <1>6, <1>7, <1>8, <1>9, <1>10, <1>11 DEF Next, Scan

\* Of the exceptions that leave scan_binary in the model, one of the path or of a
\* parser comes before anything was taken from the file, for a request that was
\* admitted; one of the database comes when a requested lookup for a reading in
\* memory read a database it cannot use, as the file was at that moment.
THEOREM EscapesAreExplained == Spec => []EscapeExplained
<1>1. Init => EscapeExplained
  BY DEF Init, NoEnvelope, EscapeExplained
<1>. QED
  BY <1>1, StepExplains, Invariant, PTL DEF Spec

\* What the technical specification says of failures is so of the database
\* where every content the file may have is readable; a run refutes it otherwise.
THEOREM ReadableDatabasesNeverEscape ==
    ASSUME \A d \in Databases : Readable(d)
    PROVE  Spec => []DatabaseFailureIsStructured
<1>1. EscapeExplained => DatabaseFailureIsStructured
  BY DEF EscapeExplained, DatabaseFailureIsStructured
<1>. QED
  BY <1>1, EscapesAreExplained, PTL

-------------------------------------------------------------------------------
(* ReverseScan implements the safety part of ScanService, step by step.        *)

LEMMA PendingWhileScanning ==
    ASSUME IInv, Scanning
    PROVE  Reply = Service!Pending
  BY EnvelopeFields DEF IInv, EnvelopeOnce, Reply, Service!Pending

\* A report with findings is about the one reading that was taken.
LEMMA FindingsAreAboutTheImage ==
    IInv => (envelope.kind = "report" /\ envelope.findings # <<>>
             => Reply = Service!Findings(image))
<1>. SUFFICES ASSUME IInv, envelope.kind = "report", envelope.findings # <<>>
              PROVE  Reply = Service!Findings(image)
  OBVIOUS
<1>1. envelope.findings \in Seq(Items({"native", "ghidra"}))
  BY OutgoingOfReport
<1>2. 1 \in DOMAIN envelope.findings
  BY <1>1
<1>3. \A k \in DOMAIN envelope.findings : envelope.findings[k].about = image
  BY DEF IInv, ReportShape
<1>4. Subjects = {image}
  BY <1>2, <1>3 DEF Subjects
<1>5. Cardinality(Subjects) = 1 /\ (CHOOSE s \in Subjects : TRUE) = image
  BY <1>4, FS_Singleton
<1>. QED
  BY <1>5 DEF Reply, Service!Findings

\* A scan that comes to its end has something to report.
LEMMA SummaryLast ==
    ASSUME IInv, Summarise
    PROVE  envelope'.findings # <<>>
<1>. DEFINE all == Append(findings, Item("summary", "none",
                                    IF HashWanted THEN Digest[image] ELSE NoDigest))
<1>1. envelope' = Reported(Stamped(all)) /\ findings \in Seq(Items({"none"}))
  BY ReturnEnds DEF Summarise, IInv, TypeOK
<1>2. Len(findings) + 1 \in DOMAIN all
  BY <1>1
<1>3. Len(findings) + 1 \in DOMAIN Stamped(all)
  BY <1>2 DEF Stamped
<1>. QED
  BY <1>1, <1>3, EnvelopeFields

LEMMA EarlyEndIsNoFinding ==
    ASSUME EarlyEnd
    PROVE  Reply' \in {Service!Error, Service!Raised}
  BY EnvelopeFields DEF EarlyEnd, Reply, Service!Error, Service!Raised

\* The only step that reports findings is the last of the scan.
LEMMA ScanSteps ==
    ASSUME IInv, IInv', Scan
    PROVE  Service!Next \/ UNCHANGED Service!vars
<1>. USE DEF Goto, host, reading
<1>0. pc # "idle" /\ pc' # "idle" /\ Scanning /\ path' = path
  BY ReturnEnds DEF Scan, Validate, Locate, Open, Load, Decompile, Describe, Enrich,
                    Lookup, Summarise, Scanning, Return
<1>1. Reply = Service!Pending
  BY <1>0, PendingWhileScanning
<1>2. CASE EarlyEnd /\ image' = image /\ stream' \in {stream, Closed} /\ seen' \in {seen, {}}
  <2>1. Found' \in SUBSET Found
    BY <1>0, <1>2 DEF Found, Closed
  <2>. QED
    BY <1>0, <1>1, <1>2, <2>1, EarlyEndIsNoFinding DEF Service!Next, Service!Answer
<1>3. CASE Scanning' /\ image' = image /\ seen' = seen /\ Found' = Found
  <2>1. Reply' = Service!Pending
    BY <1>3, EnvelopeFields DEF IInv, EnvelopeOnce, Reply, Service!Pending
  <2>. QED
    BY <1>0, <1>1, <1>3, <2>1 DEF Service!vars
<1>4. CASE Load /\ pc' = "decompile" /\ image' = Reading
  <2>1. Reply' = Service!Pending
    BY <1>4, EnvelopeFields DEF IInv, EnvelopeOnce, Reply, Service!Pending, Scanning
  <2>2. image = NoFile /\ pc = "load" /\ stream' = Closed /\ seen' = {}
    BY <1>4 DEF Load, IInv, ImageTaken
  <2>3. image' \in [head : seen, rest : seen]
    BY <1>4, <2>2, ReadingSeen
  <2>4. Found' \in SUBSET Found
    BY <1>0, <2>2 DEF Found, Closed
  <2>. QED
    BY <1>0, <1>1, <2>1, <2>2, <2>3, <2>4 DEF Service!Next, Service!Take
<1>5. CASE Open /\ pc' = "load"
  <2>1. stream = Closed /\ stream' = [head |-> path, file |-> path]
    BY <1>5, ReturnEnds DEF Open, IInv, BetweenReads
  <2>2. Found' = Found
    BY <1>0, <2>1 DEF Found, Closed
  <2>. QED
    BY <1>3, <1>5, <2>2 DEF Open, Scanning
<1>6. CASE Summarise
  <2>1. /\ pc = "summarise" /\ image \in Readings /\ image' = image
        /\ envelope'.kind = "report" /\ UNCHANGED <<stream, seen>>
    BY <1>6, ReturnEnds, EnvelopeFields DEF Summarise, IInv, ImageTaken
  <2>2. envelope'.findings # <<>>
    BY <1>6, SummaryLast
  <2>3. (envelope.kind = "report" /\ envelope.findings # <<>>
         => Reply = Service!Findings(image))'
    BY FindingsAreAboutTheImage, PTL
  <2>4. Reply' = Service!Findings(image')
    BY <2>1, <2>2, <2>3 DEF Service!Findings
  <2>5. Found' = Found
    BY <1>0, <2>1 DEF Found
  <2>. QED
    BY <1>0, <1>1, <2>1, <2>4, <2>5, ReverseScanAssumption DEF Service!Next, Service!Answer
<1>7. ASSUME UNCHANGED stream PROVE Found' = Found
  BY <1>0, <1>7 DEF Found
<1>8. CASE Validate \/ Locate \/ Decompile
  BY <1>2, <1>3, <1>7, <1>8, ReturnEnds, EnvelopeFields
     DEF Validate, Locate, Decompile, EarlyEnd, Codes, Scanning
<1>9. CASE Describe \/ Enrich \/ Lookup
  BY <1>2, <1>3, <1>7, <1>9, ReturnEnds, EnvelopeFields
     DEF Describe, Enrich, Lookup, EarlyEnd, Codes, Scanning
<1>10. CASE Open \/ Load
  BY <1>2, <1>4, <1>5, <1>10, ReturnEnds, EnvelopeFields
     DEF Open, Load, EarlyEnd, Codes, Scanning
<1>. QED
  BY <1>6, <1>8, <1>9, <1>10 DEF Scan

LEMMA OtherSteps ==
    ASSUME IInv, IInv', Next, ~Scan
    PROVE  Service!Next \/ UNCHANGED Service!vars
<1>. USE DEF Goto, host, reading
<1>1. CASE \E r \in Requests : Submit(r)
  <2>1. /\ pc = "idle" /\ pc' # "idle" /\ UNCHANGED <<path, stream, image, envelope>>
        /\ seen' = Found
    BY <1>1 DEF Submit
  <2>2. Reply' = Reply /\ Found' = Found
    BY <2>1 DEF Reply, Subjects, Found
  <2>. QED
    BY <2>1, <2>2 DEF Service!Next, Service!Ask
<1>2. CASE Yield \/ Abandon \/ Update
  <2>1. /\ UNCHANGED <<path, stream, seen, image, envelope>>
        /\ (pc' = "idle" <=> pc = "idle")
    BY <1>2 DEF Yield, Abandon, Update
  <2>2. Reply' = Reply /\ Found' = Found
    BY <2>1 DEF Reply, Subjects, Found
  <2>. QED
    BY <2>1, <2>2 DEF Service!vars
<1>3. CASE Rewrite
  <2>1. /\ UNCHANGED <<pc, image, envelope>> /\ seen' \in {seen, seen \cup Found'}
        /\ pc \in {"validate", "locate", "open", "load"} => seen' = seen \cup Found'
    BY <1>3 DEF Rewrite
  <2>2. Reply' = Reply
    BY <2>1 DEF Reply, Subjects
  <2>3. Found' \in SUBSET Samples
    BY DEF Found, Closed, IInv, TypeOK
  <2>4. ASSUME pc # "idle", image = NoFile, Reply = Service!Pending
        PROVE  seen' = seen \cup Found'
    <3>1. envelope.kind = "none"
      BY <2>4 DEF Reply, Service!Pending
    <3>2. Scanning
      BY <3>1 DEF IInv, EnvelopeOnce
    <3>3. pc \in {"validate", "locate", "open", "load"}
      BY <2>4, <3>2, ReverseScanAssumption DEF IInv, TypeOK, ImageTaken, Scanning
    <3>. QED
      BY <2>1, <3>3
  <2>. QED
    BY <2>1, <2>2, <2>3, <2>4 DEF Service!Next, Service!Rewrite
<1>. QED
  BY <1>1, <1>2, <1>3 DEF Next

LEMMA InitIsServiceInit == Init => Service!Init
<1>1. Init => Found \in SUBSET Samples
  BY DEF Init, Found, Closed
<1>. QED
  BY <1>1, EnvelopeFields DEF Init, Service!Init, Reply, Service!Pending

LEMMA StepIsServiceStep == IInv /\ IInv' /\ [Next]_vars => [Service!Next]_(Service!vars)
<1>. SUFFICES ASSUME IInv, IInv', [Next]_vars
              PROVE  Service!Next \/ UNCHANGED Service!vars
  OBVIOUS
<1>1. CASE UNCHANGED vars
  BY <1>1 DEF vars, Service!vars, Reply, Subjects, Found
<1>. QED
  BY <1>1, ScanSteps, OtherSteps

\* Initially nothing was asked; every step of scan_binary, of the adapter and of
\* the host is a step the gateway may expect, or none it can see: an answer with
\* findings is about one reading whose parts the file held during the call.
THEOREM ScanImplementsService == Spec => Service!Init /\ [][Service!Next]_(Service!vars)
  BY InitIsServiceInit, StepIsServiceStep, Invariant, PTL DEF Spec
===============================================================================
