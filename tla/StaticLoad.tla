------------------------------ MODULE StaticLoad ------------------------------
(***************************************************************************)
(* magic.py, backends/loader.py and the entry points of iat/: one call     *)
(* that reads a sample while other processes write, replace and remove it. *)
(* Between stat, open, the header read and the read of the rest anything   *)
(* may happen to the path and to the open file.                            *)
(*                                                                         *)
(* A file is its size, counted in blocks, the magic in its first block and *)
(* a tag for the blocks after it.  The stream is buffered: reading the     *)
(* header fetches the first block, seek(0) stays inside the buffer, so     *)
(* read() returns that block and continues in the file as it is by then.   *)
(***************************************************************************)
EXTENDS Naturals, Sequences

CONSTANTS
    Limit,       \* MAX_STATIC_FILE_SIZE, in blocks
    Excess,      \* how far beyond Limit a file may grow
    Nodes,       \* inodes the path may name over time
    Bodies,      \* tags of the blocks after the first
    NoNode, NoBody

ASSUME StaticLoadAssumption ==
    /\ Limit \in Nat \ {0}
    /\ Excess \in Nat \ {0}
    /\ NoNode \notin Nodes
    /\ Bodies # {} /\ NoBody \notin Bodies

VARIABLES
    entry,       \* the inode the path names
    content,     \* what each inode holds
    pc,
    caller,      \* who called read_static_file, and with which settings
    handle,      \* the inode the stream is open on
    buffer,      \* the first block, as fetched with the header
    data,        \* the bytes in memory
    rejected,    \* the third-party backend raised MagicError
    disturbed,   \* history: the path or a file changed since stat
    answer

vars == <<entry, content, pc, caller, handle, buffer, data, rejected,
          disturbed, answer>>
world == <<entry, content>>

-------------------------------------------------------------------------------
Magics == {"MZ", "ELF", "other"}

Empty == [size |-> 0, magic |-> "other", body |-> NoBody]

\* Size n, with the magic m and, beyond the first block, the tag b.
Bytes(n, m, b) ==
    IF n = 0 THEN Empty
    ELSE [size |-> n, magic |-> m, body |-> IF n = 1 THEN NoBody ELSE b]

Contents ==
    {Bytes(n, m, b) : n \in 0 .. Limit + Excess, m \in Magics, b \in Bodies}

\* extract_pe_imports and extract_elf_imports of a path or of bytes, and
\* BinaryLoader with its chain.
Iat(k, m) == [kind |-> k, expected |-> {m}, chain |-> <<>>, fallback |-> FALSE]
Loader(c, f) == [kind |-> "loader", expected |-> {}, chain |-> c, fallback |-> f]

Backends == {"pefile", "pyelftools", "minimal", "raw"}
ThirdParty == {"pefile", "pyelftools"}
DefaultChain == <<"pefile", "pyelftools", "raw">>
\* The default, the default without its catch-all, and the parsers alone.
BackendChains == {DefaultChain, <<"pefile", "pyelftools">>, <<"minimal">>}

Callers ==
    {Iat(k, m) : k \in {"path", "bytes"}, m \in {"MZ", "ELF"}}
        \cup {Loader(c, f) : c \in BackendChains, f \in BOOLEAN}

Nobody == [kind |-> "none", expected |-> {}, chain |-> <<>>, fallback |-> FALSE]

Supports(backend, d) ==
    CASE backend = "pefile" -> d.magic = "MZ"
      [] backend = "pyelftools" -> d.magic = "ELF"
      [] backend = "minimal" -> d.magic \in {"MZ", "ELF"}
      [] backend = "raw" -> TRUE

Container(backend, d) ==
    IF backend = "raw" THEN "raw" ELSE IF d.magic = "MZ" THEN "pe" ELSE "elf"

Unanswered == [kind |-> "none"]
Failure(e) == [kind |-> "failure", error |-> e]
Imports(m) == [kind |-> "imports", magic |-> m]
Image(backend, d) ==
    [kind |-> "image", backend |-> backend, container |-> Container(backend, d)]

Init ==
    /\ entry \in Nodes \cup {NoNode}
    /\ content \in [Nodes -> Contents]
    /\ pc = "idle"
    /\ caller = Nobody
    /\ handle = NoNode
    /\ buffer = Empty
    /\ data = Empty
    /\ rejected = FALSE
    /\ disturbed = FALSE
    /\ answer = Unanswered

Goto(from, to) == pc = from /\ pc' = to

Finish(from, a) == Goto(from, "done") /\ answer' = a

-------------------------------------------------------------------------------
(* The call. *)

\* expanduser raises RuntimeError for an unknown home directory.
Resolve(c) ==
    /\ c.kind # "bytes"
    /\ caller' = c
    /\ \/ Goto("idle", "stat") /\ UNCHANGED answer
       \/ Finish("idle", Failure("runtime"))
    /\ UNCHANGED <<world, handle, buffer, data, rejected, disturbed>>

\* parse_pe_imports and parse_elf_imports of bytes the caller already holds.
Given(c, d) ==
    /\ c.kind = "bytes"
    /\ caller' = c
    /\ data' = d
    /\ Goto("idle", "validate")
    /\ UNCHANGED <<world, handle, buffer, rejected, disturbed, answer>>

\* Mutated form: the size is left to whoever parses the bytes.
StatUnchecked ==
    /\ \/ entry # NoNode /\ Goto("stat", "open") /\ UNCHANGED answer
       \/ entry = NoNode /\ Finish("stat", Failure("magic"))
    /\ disturbed' = FALSE
    /\ UNCHANGED <<world, caller, handle, buffer, data, rejected>>

\* A path that cannot be stat'ed, or a size over the limit, ends the call.
Fits == entry # NoNode /\ content[entry].size <= Limit

Stat ==
    /\ \/ Fits /\ Goto("stat", "open") /\ UNCHANGED answer
       \/ ~Fits /\ Finish("stat", Failure("magic"))
    /\ disturbed' = FALSE
    /\ UNCHANGED <<world, caller, handle, buffer, data, rejected>>

\* open() fails for a path that is gone, a directory, a file without access.
Open ==
    /\ \/ /\ entry # NoNode
          /\ Goto("open", "header")
          /\ handle' = entry
          /\ UNCHANGED answer
       \/ /\ Finish("open", Failure("magic"))
          /\ UNCHANGED handle
    /\ UNCHANGED <<world, caller, buffer, data, rejected, disturbed>>

\* The start of a stream: its first block, if it has one.
First(c) == Bytes(IF c.size = 0 THEN 0 ELSE 1, c.magic, c.body)

\* Mutated form: read() for the header.
HeaderUnbounded ==
    /\ Goto("header", "read")
    /\ buffer' = content[handle]
    /\ UNCHANGED <<world, caller, handle, data, rejected, disturbed, answer>>

\* read(64): a caller that expects a magic gets no further without it.
Header ==
    /\ pc = "header"
    /\ buffer' = First(content[handle])
    /\ \/ /\ caller.expected = {} \/ buffer'.magic \in caller.expected
          /\ Goto("header", "read")
          /\ UNCHANGED <<handle, answer>>
       \/ /\ caller.expected # {} /\ buffer'.magic \notin caller.expected
          /\ Finish("header", Failure("magic"))
          /\ handle' = NoNode
    /\ UNCHANGED <<world, caller, data, rejected, disturbed>>

\* What read(n) returns: the buffered block and what the file holds after it,
\* or, with nothing buffered, the file.
Stream(n) ==
    LET c == content[handle]
        total == IF c.size > n THEN n ELSE c.size
    IN  IF buffer.size = 0 THEN Bytes(total, c.magic, c.body)
        ELSE Bytes(IF total < 1 THEN 1 ELSE total, buffer.magic, c.body)

\* Mutated form: read() without a bound.
ReadAll ==
    /\ Goto("read", IF caller.kind = "path" THEN "validate" ELSE "load")
    /\ data' = Stream(Limit + Excess)
    /\ handle' = NoNode
    /\ UNCHANGED <<world, caller, buffer, rejected, disturbed, answer>>

\* Mutated form: read on until the file has no more than what was read.
ReadWhileGrowing ==
    /\ pc = "read"
    /\ \/ /\ data = content[handle]
          /\ Goto("read", IF caller.kind = "path" THEN "validate" ELSE "load")
          /\ handle' = NoNode
          /\ UNCHANGED data
       \/ /\ data # content[handle]
          /\ data' = content[handle]
          /\ UNCHANGED <<pc, handle>>
    /\ UNCHANGED <<world, caller, buffer, rejected, disturbed, answer>>

\* seek(0) and read(MAX_STATIC_FILE_SIZE + 1); leaving the block closes.
Read ==
    /\ Goto("read", IF caller.kind = "path" THEN "validate" ELSE "load")
    /\ data' = Stream(Limit + 1)
    /\ handle' = NoNode
    /\ UNCHANGED <<world, caller, buffer, rejected, disturbed, answer>>

\* An OSError of either read closes the file and is reported as MagicError.
ReadFails ==
    /\ pc \in {"header", "read"}
    /\ Finish(pc, Failure("magic"))
    /\ handle' = NoNode
    /\ UNCHANGED <<world, caller, buffer, data, rejected, disturbed>>

\* validate_bytes: the bounds the parsers rely on, checked on the bytes.
Acceptable(expected) ==
    data.size <= Limit /\ data.magic \in expected

Validate ==
    /\ \/ Acceptable(caller.expected) /\ Goto("validate", "parse") /\ UNCHANGED answer
       \/ ~Acceptable(caller.expected) /\ Finish("validate", Failure("magic"))
    /\ UNCHANGED <<world, caller, handle, buffer, data, rejected, disturbed>>

\* The bounded table walks end with the imports or with MagicError.
Parse ==
    /\ \/ Finish("parse", Imports(data.magic))
       \/ Finish("parse", Failure("magic"))
    /\ UNCHANGED <<world, caller, handle, buffer, data, rejected, disturbed>>

Supporting == {k \in DOMAIN caller.chain : Supports(caller.chain[k], data)}
Chosen == caller.chain[CHOOSE k \in Supporting : \A j \in Supporting : k <= j]

\* BinaryLoader.load: the first backend that supports the bytes serves.  A
\* third-party parser may reject them with MagicError, or raise something its
\* backend does not translate (an AttributeError for a missing header, say),
\* which no handler of load names; raw does neither; the minimal backend runs
\* the bounded parsers, which validate first.
Load ==
    /\ pc = "load"
    /\ \/ /\ Supporting = {}
          /\ Finish("load", Failure("magic"))
          /\ UNCHANGED rejected
       \/ /\ Supporting # {}
          /\ Chosen = "minimal" => Acceptable({"MZ", "ELF"})
          /\ Finish("load", Image(Chosen, data))
          /\ UNCHANGED rejected
       \/ /\ Supporting # {} /\ Chosen \in ThirdParty
          /\ Finish("load", Failure("parser"))
          /\ UNCHANGED rejected
       \/ /\ Supporting # {} /\ Chosen # "raw"
          /\ Goto("load", "recover")
          /\ rejected' = TRUE
          /\ UNCHANGED answer
    /\ UNCHANGED <<world, caller, handle, buffer, data, disturbed>>

\* Mutated forms: the fallback's parsers trust that the read was bounded, and
\* the loop goes on to the next backend after a rejection.
RecoverTrusting ==
    /\ \/ /\ caller.fallback /\ data.magic \in {"MZ", "ELF"}
          /\ Finish("recover", Image("minimal", data))
       \/ Finish("recover", Failure("magic"))
    /\ UNCHANGED <<world, caller, handle, buffer, data, rejected, disturbed>>

RecoverNext ==
    /\ Finish("recover", Image(caller.chain[Len(caller.chain)], data))
    /\ UNCHANGED <<world, caller, handle, buffer, data, rejected, disturbed>>

\* The handler of MagicError: the bounded parsers get the same bytes, unless
\* they are what failed or the fallback is off.
Recover ==
    /\ pc = "recover"
    /\ \/ /\ caller.fallback /\ Chosen # "minimal"
          /\ Acceptable({"MZ", "ELF"})
          /\ Finish("recover", Image("minimal", data))
       \/ Finish("recover", Failure("magic"))
    /\ UNCHANGED <<world, caller, handle, buffer, data, rejected, disturbed>>

-------------------------------------------------------------------------------
(* The rest of the host. *)

\* An open file is rewritten, grows or shrinks in place.
Write(n) ==
    /\ \E c \in Contents \ {content[n]} : content' = [content EXCEPT ![n] = c]
    /\ disturbed' = (disturbed \/ n \in {entry, handle})
    /\ UNCHANGED <<entry, pc, caller, handle, buffer, data, rejected, answer>>

\* The path is renamed over, removed or created.
Replace ==
    /\ \E n \in (Nodes \cup {NoNode}) \ {entry} : entry' = n
    /\ disturbed' = TRUE
    /\ UNCHANGED <<content, pc, caller, handle, buffer, data, rejected, answer>>

Reader ==
    \/ Stat \/ Open \/ Header \/ Read \/ ReadFails
    \/ Validate \/ Parse \/ Load \/ Recover

Begin ==
    \E c \in Callers : Resolve(c) \/ \E d \in Contents : Given(c, d)

Host == Replace \/ \E n \in Nodes : Write(n)

Next == Begin \/ Reader \/ Host

Spec == Init /\ [][Next]_vars /\ WF_vars(Reader)

-------------------------------------------------------------------------------
(* Properties. *)

\* Every variable keeps the shape the code gives it.
TypeOK ==
    /\ entry \in Nodes \cup {NoNode}
    /\ content \in [Nodes -> Contents]
    /\ pc \in {"idle", "stat", "open", "header", "read", "validate", "parse",
               "load", "recover", "done"}
    /\ caller \in Callers \cup {Nobody}
    /\ handle \in Nodes \cup {NoNode}
    /\ buffer \in Contents /\ buffer.size <= 1
    /\ data \in Contents
    /\ rejected \in BOOLEAN /\ disturbed \in BOOLEAN
    /\ answer \in {Unanswered}
           \cup {Failure(e) : e \in {"magic", "runtime", "parser"}}
           \cup {Imports(m) : m \in Magics}
           \cup {[kind |-> "image", backend |-> b, container |-> c] :
                    b \in Backends, c \in {"pe", "elf", "raw"}}

\* However the file grows after stat, a call that read it holds at most one
\* block more than the limit: memory is bounded by the code, not by the file.
MemoryBounded == caller.kind # "bytes" => data.size <= Limit + 1

\* The table walks of iat/, which index the bytes without checking the whole,
\* only ever run on bytes within the limit that start with the magic they
\* expect: for iat callers and for both ways into the minimal backend.
ParsersBounded ==
    /\ pc = "parse" => data.size <= Limit /\ data.magic \in caller.expected
    /\ answer.kind = "imports" =>
           data.size <= Limit /\ caller.expected = {answer.magic}
           /\ data.magic = answer.magic
    /\ answer.kind = "image" /\ answer.backend = "minimal" =>
           data.size <= Limit

\* One pass: the container announced is that of the bytes in memory, even when
\* the file changed its magic between stat and read, and an ELF or PE file the
\* mature parser rejected is never relabelled as raw.
ContainerOfTheBytes ==
    answer.kind = "image" =>
        /\ answer.container = "pe" => data.magic = "MZ"
        /\ answer.container = "elf" => data.magic = "ELF"
        /\ answer.container = "raw" => answer.backend = "raw"
        /\ rejected => answer.backend = "minimal" /\ answer.container # "raw"

\* A call nobody disturbed returns the whole file, within the limit; so an
\* oversized or torn sample can only come from a concurrent writer.
UndisturbedReadIsExact ==
    /\ answer.kind \in {"image", "imports"} /\ caller.kind # "bytes"
    /\ ~disturbed
    => data = content[entry] /\ data.size <= Limit

\* A started call is answered, also when its file is removed or keeps growing.
CallAnswered == pc # "idle" ~> answer # Unanswered
===============================================================================
