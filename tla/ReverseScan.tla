----------------------------- MODULE ReverseScan ------------------------------
(***************************************************************************)
(* scan.py, findings.py, iat/db.py and adapter.py: one scan of the file a  *)
(* payload names, and the adapter that hands its findings to a consumer.   *)
(* The file and the hash database belong to the host and may change        *)
(* between any two steps; the consumer may stop at any finding.            *)
(*                                                                         *)
(* A file content is a sample.  What the scan has in memory is a reading:  *)
(* the first block as it was when the file was opened and the rest as it   *)
(* was when it was read, which a writer in between makes two contents.     *)
(* StaticLoad takes the two reads further apart; the decompiler is what    *)
(* DecompileService promises.                                              *)
(***************************************************************************)
EXTENDS Naturals, Sequences, FiniteSets

CONSTANTS
    Samples, NoFile,     \* see ScanService
    Shape,       \* Shape[r]: how the loader classifies a reading, "bad" if it rejects
    Digest,      \* Digest[r]: the PE imphash of its imports
    Detections,  \* Detections[r]: what the detectors and rules report on it
    Databases    \* the contents the database file may have

\* What two reads of a file return when it changes between them or does not.
Readings == [head : Samples, rest : Samples]

Absent == [kind |-> "absent"]         \* read_text raises OSError
Corrupt == [kind |-> "corrupt"]       \* no JSON, or no samples list
Stored(rs) == [kind |-> "stored", records |-> rs]

Trusted == {"curated", "vendor-curated", "analyst-verified"}
Provenances == Trusted \cup {"fixture"}
Algorithms == {"pe-imphash-v1", "import-set-md5-v1"}

NoDigest == "invalid"                 \* not 32 lower-case hex digits
Entries ==
    [digest : {Digest[r] : r \in Readings} \cup {NoDigest},
     algorithm : Algorithms, provenance : Provenances]

ASSUME ReverseScanAssumption ==
    /\ NoFile \notin Samples \cup Readings
    /\ Shape \in [Readings -> {"pe", "elf", "raw", "bad"}]
    /\ \A r \in Readings : Digest[r] # NoDigest
    /\ \A r \in Readings : Detections[r] \in Seq({"credential", "crypto", "rule"})
    /\ \A d \in Databases :
           \/ d \in {Absent, Corrupt}
           \/ d.kind = "stored" /\ d = Stored(d.records) /\ d.records \in Seq(Entries)

VARIABLES
    path,        \* the content the path names, or NoFile
    database,    \* the content of the database file
    pc,
    request,     \* the payload, and who passed it
    stream,      \* the file being read: its first block as fetched, its content now
    seen,        \* history: the contents of the file from the call until it is read
    image,       \* the reading in memory, or NoFile
    functions,   \* the backend that decompiled, "none" without functions
    consulted,   \* the database as the lookup read it
    findings,    \* the list under construction
    envelope,    \* what scan_binary returned or raised
    emitted      \* the Findings the adapter yielded

vars == <<path, database, pc, request, stream, seen, image, functions, consulted,
          findings, envelope, emitted>>
host == <<path, database>>
reading == <<stream, seen>>

-------------------------------------------------------------------------------
Targets == {"name", "blank", "unresolvable"}   \* ~nobody/x, a NUL character
Architectures == {"known", "blank", "unknown"}
Options == {"imphash", "pe_imphash", "import_set_hash", "iat_list"}

Requests ==
    [target : Targets, arch : Architectures, enrich : SUBSET Options,
     adapter : BOOLEAN]

NoRequest == [target |-> "blank", arch |-> "blank", enrich |-> {},
              adapter |-> FALSE]

\* No file is open: the stream's content is that of no file.
Closed == [head |-> NoFile, file |-> NoFile]

\* The contents of the file the path names, and of the one opened through it.
Found == {path, stream.file} \ {NoFile}

\* One item of the list: what it reports, about which reading, the backend
\* stamped into its metadata and the import hash next to it.
Item(k, b, h) == [kind |-> k, about |-> image, backend |-> b, hash |-> h]

NoEnvelope == [kind |-> "none"]
Reported(fs) == [kind |-> "report", findings |-> fs, errors |-> <<>>]
Refused(code) == [kind |-> "report", findings |-> <<>>, errors |-> <<code>>]
Escaped(e) == [kind |-> "exception", error |-> e]

\* The readings the findings of the envelope are about.
Subjects == {envelope.findings[k].about : k \in DOMAIN envelope.findings}

\* What the gateway has of the scan so far.
Reply ==
    IF envelope.kind = "none" THEN [kind |-> "pending"]
    ELSE IF envelope.kind = "exception" THEN [kind |-> "raised"]
    ELSE IF envelope.findings = <<>> THEN [kind |-> "error"]
    ELSE [kind |-> "findings",
          about |-> IF Cardinality(Subjects) = 1 THEN CHOOSE s \in Subjects : TRUE
                    ELSE NoFile]

Service == INSTANCE ScanService WITH
    found <- Found,
    taken <- image,
    asked <- pc # "idle",
    reply <- Reply

Init ==
    /\ path \in Samples \cup {NoFile}
    /\ database \in Databases
    /\ pc = "idle"
    /\ request = NoRequest
    /\ stream = Closed
    /\ seen = {}
    /\ image = NoFile
    /\ functions = "none"
    /\ consulted = Absent
    /\ findings = <<>>
    /\ envelope = NoEnvelope
    /\ emitted = <<>>

Goto(from, to) == pc = from /\ pc' = to

\* scan_binary is over: the adapter goes on with a report, nobody does with an
\* exception.
Return(from, e) ==
    /\ Goto(from, IF request.adapter /\ e.kind = "report" THEN "yield" ELSE "done")
    /\ envelope' = e

-------------------------------------------------------------------------------
(* scan_binary. *)

\* The CLI passes the payload as it is; the adapter fills in an architecture
\* for one that is absent or empty, but not for spaces or a number.
Submit(r) ==
    /\ Goto("idle", "validate")
    /\ request' = r
    /\ seen' = Found
    /\ UNCHANGED <<host, stream, image, functions, consulted, findings, envelope,
                   emitted>>

\* The fields are checked, then the path is expanded and resolved, which
\* raises for an unknown home directory or a NUL character.
Validate ==
    /\ \/ /\ request.target = "blank"
          /\ Return("validate", Refused("invalid_binary_path"))
       \/ /\ request.target # "blank" /\ request.arch = "blank"
          /\ Return("validate", Refused("invalid_architecture"))
       \/ /\ request.target = "unresolvable" /\ request.arch # "blank"
          /\ Return("validate", Escaped("path"))
       \/ /\ request.target = "name" /\ request.arch # "blank"
          /\ Goto("validate", "locate")
          /\ UNCHANGED envelope
    /\ UNCHANGED <<host, request, reading, image, functions, consulted, findings,
                   emitted>>

\* is_file() answers, or raises: no access to a directory, a name too long.
Locate ==
    /\ \/ Return("locate", Escaped("path"))
       \/ /\ path = NoFile
          /\ Return("locate", Refused("binary_not_found"))
       \/ /\ path # NoFile /\ request.arch = "unknown"
          /\ Return("locate", Refused("unsupported_architecture"))
       \/ /\ path # NoFile /\ request.arch = "known"
          /\ Goto("locate", "open")
          /\ UNCHANGED envelope
    /\ UNCHANGED <<host, request, reading, image, functions, consulted, findings,
                   emitted>>

\* BinaryLoader().load begins: the file is opened and its first block fetched,
\* if it is still there, readable and not too large.
Open ==
    /\ \/ /\ path # NoFile
          /\ Goto("open", "load")
          /\ stream' = [head |-> path, file |-> path]
          /\ UNCHANGED envelope
       \/ /\ \E c \in {"magic_error", "analysis_failed"} : Return("open", Refused(c))
          /\ UNCHANGED stream
    /\ UNCHANGED <<host, request, seen, image, functions, consulted, findings,
                   emitted>>

\* The bytes there are when the rest is read.
Reading == [head |-> stream.head, rest |-> stream.file]

\* The rest is read, the file closed and a backend run on the bytes, which may
\* reject them or fail; of the parsers of PE and ELF also with an exception
\* that nothing here catches.
Load ==
    /\ pc = "load"
    /\ \/ /\ Shape[Reading] # "bad"
          /\ Goto("load", "decompile")
          /\ image' = Reading
          /\ UNCHANGED envelope
       \/ /\ \E c \in {"magic_error", "analysis_failed"} : Return("load", Refused(c))
          /\ UNCHANGED image
       \/ /\ Shape[Reading] # "raw" /\ Return("load", Escaped("parser"))
          /\ UNCHANGED image
    /\ stream' = Closed
    /\ seen' = {}
    /\ UNCHANGED <<host, request, functions, consulted, findings, emitted>>

\* Disassembly and decompilation of the code in the bytes.  Ghidra never
\* answers without a function, the native lifter may.
Decompile ==
    /\ \/ /\ Goto("decompile", "describe")
          /\ functions' \in {"native", "ghidra", "none"}
          /\ UNCHANGED envelope
       \/ /\ Return("decompile", Refused("analysis_failed"))
          /\ UNCHANGED functions
    /\ UNCHANGED <<host, request, reading, image, consulted, findings, emitted>>


\* extract_features, the detectors and the rules work on the bytes in memory.
Describe ==
    /\ Goto("describe", "enrich")
    /\ findings' = [k \in DOMAIN Detections[image] |->
                       Item(Detections[image][k], "none", NoDigest)]
    /\ UNCHANGED <<host, request, reading, image, functions, consulted, envelope,
                   emitted>>

\* _apply_import_enrichment looks a hash up for PE images, when asked to.
HashWanted ==
    Shape[image] = "pe" /\ request.enrich \cap {"imphash", "pe_imphash"} # {}

Enrich ==
    /\ pc = "enrich"
    /\ Goto("enrich", IF HashWanted THEN "lookup" ELSE "summarise")
    /\ UNCHANGED <<host, request, reading, image, functions, consulted, findings,
                   envelope, emitted>>

\* The records of a dictionary keyed by algorithm and digest: the last one.
Matching(rs, h) ==
    {k \in DOMAIN rs : rs[k].digest = h /\ rs[k].algorithm = "pe-imphash-v1"}

\* Mutated form: any trusted record of the digest counts, not the last.
CuratedSomewhere(rs, h) ==
    \E k \in Matching(rs, h) : rs[k].provenance \in Trusted

Curated(rs, h) ==
    \E k \in Matching(rs, h) :
        /\ \A j \in Matching(rs, h) : j <= k
        /\ rs[k].provenance \in Trusted

\* MalwareImphashDB.__init__ refuses the whole database for one bad digest.
Readable(db) ==
    db.kind = "stored" /\ \A k \in DOMAIN db.records : db.records[k].digest # NoDigest

\* Mutated form: a database that cannot be read becomes an error entry next to
\* the findings collected so far.
LookupReports ==
    /\ consulted' = database
    /\ \/ /\ database = Absent
          /\ Goto("lookup", "done")
          /\ envelope' = [kind |-> "report", findings |-> findings,
                          errors |-> <<"database">>]
       \/ /\ database # Absent
          /\ Goto("lookup", "summarise")
          /\ UNCHANGED envelope
    /\ UNCHANGED <<host, request, reading, image, functions, findings, emitted>>

\* imphash_finding reads the database file on every call, outside the try.
Lookup ==
    /\ pc = "lookup"
    /\ consulted' = database
    /\ \/ /\ database = Absent
          /\ Return("lookup", Escaped("database"))
          /\ UNCHANGED findings
       \/ /\ database # Absent /\ ~Readable(database)
          /\ Return("lookup", Escaped("records"))
          /\ UNCHANGED findings
       \/ /\ Readable(database)
          /\ Goto("lookup", "summarise")
          /\ findings' = IF Curated(database.records, Digest[image])
                         THEN Append(findings, Item("match", "none", Digest[image]))
                         ELSE findings
          /\ UNCHANGED envelope
    /\ UNCHANGED <<host, request, reading, image, functions, emitted>>

\* Metadata without a backend gets the one that produced the functions, and
\* "native" when there are none.
Stamped(fs) ==
    [k \in DOMAIN fs |->
        [fs[k] EXCEPT !.backend = IF functions = "none" THEN "native" ELSE functions]]

\* Mutated forms: no default for an empty result; the summary not last.
SummariseUnnamed ==
    /\ LET all == Append(findings, Item("summary", functions, NoDigest))
       IN  Return("summarise",
                  Reported([k \in DOMAIN all |-> [all[k] EXCEPT !.backend = functions]]))
    /\ UNCHANGED <<host, request, reading, image, functions, consulted, findings,
                   emitted>>

\* The summary closes the list and carries the hash that was looked up.
Summarise ==
    /\ LET hash == IF HashWanted THEN Digest[image] ELSE NoDigest
           all == Append(findings, Item("summary", "none", hash))
       IN  pc = "summarise" /\ Return("summarise", Reported(Stamped(all)))
    /\ UNCHANGED <<host, request, reading, image, functions, consulted, findings,
                   emitted>>

-------------------------------------------------------------------------------
(* The adapter, pulled by its consumer. *)

Warning(code) == [kind |-> "warning", about |-> NoFile, backend |-> "native",
                  hash |-> code]

Warnings ==
    IF envelope.errors = <<>> THEN <<Warning("no_findings")>>
    ELSE [k \in DOMAIN envelope.errors |-> Warning(envelope.errors[k])]

\* Mutated forms: no return after the findings; the adapter's own backend
\* replaces the one in the metadata.
OutgoingBoth == envelope.findings \o Warnings

OutgoingRelabelled ==
    IF envelope.findings = <<>> THEN Warnings
    ELSE [k \in DOMAIN envelope.findings |->
             [envelope.findings[k] EXCEPT !.backend = "native"]]

\* What the generator yields: the findings, or a warning per error.
Outgoing == IF envelope.findings # <<>> THEN envelope.findings ELSE Warnings

Yield ==
    /\ pc = "yield"
    /\ \/ /\ Len(emitted) < Len(Outgoing)
          /\ emitted' = Append(emitted, Outgoing[Len(emitted) + 1])
          /\ UNCHANGED pc
       \/ /\ Len(emitted) = Len(Outgoing)
          /\ Goto("yield", "done")
          /\ UNCHANGED emitted
    /\ UNCHANGED <<host, request, reading, image, functions, consulted, findings,
                   envelope>>

\* The consumer leaves its async for loop early.
Abandon ==
    /\ Goto("yield", "done")
    /\ UNCHANGED <<host, request, reading, image, functions, consulted, findings,
                   envelope, emitted>>

-------------------------------------------------------------------------------
(* The host. *)

\* The file is removed, replaced or written in place; an open file may be
\* written under the path, or without it once the path was replaced.
Rewrite ==
    /\ path' \in Samples \cup {NoFile}
    /\ IF stream = Closed THEN stream' = stream
       ELSE \E s \in Samples : stream' = [stream EXCEPT !.file = s]
    /\ seen' = IF pc \in {"validate", "locate", "open", "load"} THEN seen \cup Found'
               ELSE seen
    /\ UNCHANGED <<database, pc, request, image, functions, consulted, findings,
                   envelope, emitted>>

Update ==
    /\ \E d \in Databases \ {database} : database' = d
    /\ UNCHANGED <<path, pc, request, reading, image, functions, consulted, findings,
                   envelope, emitted>>

Scan ==
    \/ Validate \/ Locate \/ Open \/ Load \/ Decompile \/ Describe \/ Enrich
    \/ Lookup \/ Summarise

Next ==
    \/ Scan \/ Yield \/ Abandon \/ Rewrite \/ Update
    \/ \E r \in Requests : Submit(r)

\* scan_binary runs to its end once called; nobody has to drain the adapter.
Spec == Init /\ [][Next]_vars /\ WF_vars(Scan)

-------------------------------------------------------------------------------
(* Properties. *)

Kinds == {"credential", "crypto", "rule", "match", "summary"}
Hashes == {Digest[r] : r \in Readings} \cup {NoDigest}
Codes == {"invalid_binary_path", "invalid_architecture", "binary_not_found",
          "unsupported_architecture", "magic_error", "analysis_failed"}

Items(backends) ==
    [kind : Kinds, about : Readings, backend : backends, hash : Hashes]

\* Every variable keeps the shape the code gives it; every finding that leaves
\* the scan names a backend that exists.
TypeOK ==
    /\ path \in Samples \cup {NoFile}
    /\ database \in Databases /\ consulted \in Databases \cup {Absent}
    /\ pc \in {"idle", "validate", "locate", "open", "load", "decompile", "describe",
               "enrich", "lookup", "summarise", "yield", "done"}
    /\ request \in Requests
    /\ stream \in [head : Samples, file : Samples] \cup {Closed}
    /\ seen \subseteq Samples
    /\ image \in Readings \cup {NoFile}
    /\ functions \in {"native", "ghidra", "none"}
    /\ findings \in Seq(Items({"none"}))
    /\ \/ envelope = NoEnvelope
       \/ envelope \in {Escaped(e) : e \in {"path", "parser", "database", "records"}}
       \/ envelope \in {Refused(c) : c \in Codes}
       \/ envelope.findings \in Seq(Items({"native", "ghidra"})) /\ envelope.errors = <<>>
    /\ emitted \in Seq(Items({"native", "ghidra"}) \cup {Warning(c) : c \in Codes})

\* A report holds findings or errors, never both and never neither, and its
\* findings end with the one summary, whatever enrichment added before.
ReportWellFormed ==
    envelope.kind = "report" =>
        LET fs == envelope.findings
        IN  /\ (fs = <<>>) # (envelope.errors = <<>>)
            /\ \A k \in DOMAIN fs : fs[k].kind = "summary" <=> k = Len(fs)

\* A known-malware finding needs a request for hashes, a PE image, and, in the
\* database as it was when it was read, a trusted record of the image's PE
\* imphash that no later record overrides; then it is reported, once.
MatchIffCurated ==
    envelope.kind = "report" /\ envelope.findings # <<>> =>
        LET fs == envelope.findings
            records == consulted.records
            Overrides(j, k) == k < j /\ records[j].digest = records[k].digest
                               /\ records[j].algorithm = records[k].algorithm
            hit == /\ Shape[image] = "pe"
                   /\ {"imphash", "pe_imphash"} \cap request.enrich # {}
                   /\ \E k \in DOMAIN records :
                          /\ records[k].digest = Digest[image]
                          /\ records[k].algorithm = "pe-imphash-v1"
                          /\ records[k].provenance # "fixture"
                          /\ \A j \in DOMAIN records : ~Overrides(j, k)
        IN  Cardinality({k \in DOMAIN fs : fs[k].kind = "match"})
                = IF hit THEN 1 ELSE 0

\* Every finding a consumer receives names the backend that produced the
\* functions of this scan, also when Ghidra served.
AttributedToItsBackend ==
    \A k \in DOMAIN emitted :
        emitted[k].kind # "warning" =>
            emitted[k].backend = IF functions = "ghidra" THEN "ghidra" ELSE "native"

\* The consumer sees the report in order: its findings, or warnings exactly
\* when there are none, and all of it unless it left early.
ConsumerSeesTheReport ==
    \A k \in DOMAIN emitted :
           /\ envelope.kind = "report"
           /\ (emitted[k].kind = "warning") = (envelope.findings = <<>>)
           /\ envelope.findings # <<>> =>
                  k <= Len(envelope.findings)
                  /\ emitted[k].about = envelope.findings[k].about
                  /\ emitted[k].kind = envelope.findings[k].kind

\* Seen from the gateway: one reply, to every scan; and one with findings is in
\* all of them about the one reading that was taken, of which the first block
\* and the rest are each what the file held at some moment of the call.
ImplementsService == Service!Spec

\* Technical specification: failures are returned in structured form.
DatabaseFailureIsStructured ==
    envelope.kind = "exception" => envelope.error \notin {"database", "records"}
===============================================================================
