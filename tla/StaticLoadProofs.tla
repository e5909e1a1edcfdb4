--------------------------- MODULE StaticLoadProofs ---------------------------
(* Theorems about StaticLoad for every limit, any number of inodes and any    *)
(* growth of a file.                                                          *)
EXTENDS StaticLoad, TLAPS

(***************************************************************************)
(* The inductive invariant.  Each point of the call belongs to one kind of *)
(* caller; the stream is open in the two reads only; a call that reads has *)
(* nothing in memory before it read, and at most one block more than the   *)
(* limit after; a rejection leads to the fallback alone.  While nothing    *)
(* disturbs it, a call holds on to the file it has stat'ed.                *)
(***************************************************************************)
CallerPhase ==
    /\ pc = "idle" => caller = Nobody
    /\ pc \in {"stat", "open", "header", "read"} => caller.kind \in {"path", "loader"}
    /\ pc \in {"validate", "parse"} => caller.kind \in {"path", "bytes"}
    /\ pc \in {"load", "recover"} => caller.kind = "loader"

StreamPhase == pc \in {"header", "read"} <=> handle # NoNode

DataPhase == pc \in {"idle", "stat", "open", "header", "read"} => data = Empty

AnswerPhase ==
    /\ pc # "done" => answer = Unanswered
    /\ rejected => pc \in {"recover", "done"}

\* Whatever happens between stat and the end of the read is seen as a
\* disturbance, so an undisturbed call still has the file it has stat'ed.
Intact ==
    ~disturbed /\ caller.kind # "bytes" =>
        /\ pc = "open" => Fits
        /\ pc \in {"header", "read"} => Fits /\ handle = entry
        /\ pc = "read" => buffer = First(content[entry])
        /\ \/ pc \in {"validate", "parse", "load", "recover"}
           \/ answer.kind \in {"image", "imports"}
           => Fits /\ data = content[entry]

IInv ==
    /\ TypeOK /\ CallerPhase /\ StreamPhase /\ DataPhase /\ AnswerPhase
    /\ MemoryBounded /\ ParsersBounded /\ ContainerOfTheBytes /\ Intact

-------------------------------------------------------------------------------
\* What a file holds is determined by its size, its magic and its body.
LEMMA ContentFields ==
    ASSUME NEW c \in Contents
    PROVE  /\ c.size \in Nat /\ c.size <= Limit + Excess
           /\ c.magic \in Magics
           /\ c.size > 1 => c.body \in Bodies
           /\ c.size = 0 => c = Empty
           /\ c = Bytes(c.size, c.magic, c.body)
<1>1. PICK n \in 0 .. Limit + Excess, m \in Magics, b \in Bodies : c = Bytes(n, m, b)
  BY DEF Contents
<1>. USE StaticLoadAssumption
<1>2. CASE n = 0
  BY <1>1, <1>2 DEF Bytes, Empty, Magics
<1>3. CASE n = 1
  BY <1>1, <1>3 DEF Bytes, Empty
<1>4. CASE n > 1
  BY <1>1, <1>4 DEF Bytes, Empty
<1>. QED
  BY <1>2, <1>3, <1>4

LEMMA BytesFields ==
    ASSUME NEW n \in Nat, n <= Limit + Excess, NEW m \in Magics, NEW b,
           n > 1 => b \in Bodies
    PROVE  /\ Bytes(n, m, b) \in Contents
           /\ Bytes(n, m, b).size = n
           /\ n > 0 => Bytes(n, m, b).magic = m
<1>. USE StaticLoadAssumption
<1>1. n \in 0 .. Limit + Excess
  OBVIOUS
<1>2. PICK d \in Bodies : n > 1 => d = b
  OBVIOUS
<1>3. Bytes(n, m, b) = Bytes(n, m, d)
  BY <1>2 DEF Bytes
<1>. QED
  BY <1>1, <1>3 DEF Contents, Bytes, Empty

LEMMA EmptyContent == Empty \in Contents /\ Empty.size = 0
<1>1. "other" \in Magics /\ 0 <= Limit + Excess
  BY StaticLoadAssumption DEF Magics
<1>2. PICK b \in Bodies : TRUE
  BY StaticLoadAssumption
<1>. QED
  BY <1>1, <1>2, BytesFields DEF Empty, Contents, Bytes

\* The header is at most one block, and the magic is in it.
LEMMA FirstFields ==
    ASSUME NEW c \in Contents
    PROVE  /\ First(c) \in Contents
           /\ First(c).size = IF c.size = 0 THEN 0 ELSE 1
           /\ c.size > 0 => First(c).magic = c.magic
<1>1. 1 <= Limit + Excess
  BY StaticLoadAssumption
<1>. QED
  BY <1>1, ContentFields, BytesFields DEF First

\* A bounded read returns at most what was asked for, whatever the file is by
\* then; and exactly the file, if the file has not changed since the header.
LEMMA StreamBounded ==
    ASSUME NEW n \in Nat, n > 0, n <= Limit + Excess, NEW c \in Contents,
           c = content[handle], buffer \in Contents, buffer.size <= 1
    PROVE  /\ Stream(n) \in Contents /\ Stream(n).size <= n
           /\ buffer = First(c) /\ c.size <= n => Stream(n) = c
<1>. DEFINE total == IF c.size > n THEN n ELSE c.size
            taken == IF total < 1 THEN 1 ELSE total
<1>1. /\ c.size \in Nat /\ c.magic \in Magics
      /\ c.size > 1 => c.body \in Bodies
      /\ buffer.magic \in Magics
  BY ContentFields
<1>2. total \in Nat /\ total <= n /\ (total > 1 => c.body \in Bodies)
  BY <1>1
<1>3. taken \in Nat /\ taken <= n /\ (taken > 1 => c.body \in Bodies)
  BY <1>2
<1>4. Stream(n) = IF buffer.size = 0 THEN Bytes(total, c.magic, c.body)
                  ELSE Bytes(taken, buffer.magic, c.body)
  BY DEF Stream
<1>5. Stream(n) \in Contents /\ Stream(n).size <= n
  <2>. HIDE DEF total, taken
  <2>1. total <= Limit + Excess /\ taken <= Limit + Excess
    BY <1>2, <1>3, StaticLoadAssumption
  <2>2. /\ Bytes(total, c.magic, c.body) \in Contents
        /\ Bytes(total, c.magic, c.body).size = total
    BY <1>1, <1>2, <2>1, BytesFields
  <2>3. /\ Bytes(taken, buffer.magic, c.body) \in Contents
        /\ Bytes(taken, buffer.magic, c.body).size = taken
    BY <1>1, <1>3, <2>1, BytesFields
  <2>. QED
    BY <1>2, <1>3, <1>4, <2>2, <2>3
<1>6. ASSUME buffer = First(c), c.size <= n PROVE Stream(n) = c
  <2>1. total = c.size
    BY <1>1, <1>6
  <2>2. CASE c.size = 0
    BY <1>4, <1>6, <2>1, <2>2, FirstFields, ContentFields
  <2>3. CASE c.size > 0
    BY <1>1, <1>4, <1>6, <2>1, <2>3, FirstFields, ContentFields
  <2>. QED
    BY <1>1, <2>2, <2>3
<1>. QED
  BY <1>5, <1>6

-------------------------------------------------------------------------------
\* The callers are told apart by their fields.
LEMMA CallerFields ==
    ASSUME NEW c \in Callers
    PROVE  /\ c.kind \in {"path", "bytes", "loader"} /\ c # Nobody
           /\ c.kind \in {"path", "bytes"} =>
                  \E m \in {"MZ", "ELF"} : c.expected = {m}
           /\ c.kind = "loader" => c.chain \in BackendChains
  BY DEF Callers, Iat, Loader, Nobody

\* So are the answers.
LEMMA AnswerFields ==
    ASSUME NEW e, NEW m, NEW b, NEW d
    PROVE  /\ Unanswered.kind = "none"
           /\ Failure(e).kind = "failure"
           /\ Imports(m).kind = "imports" /\ Imports(m).magic = m
           /\ Image(b, d).kind = "image" /\ Image(b, d).backend = b
           /\ Image(b, d).container = Container(b, d)
  BY DEF Unanswered, Failure, Imports, Image

LEMMA ChainElements ==
    ASSUME NEW chain \in BackendChains
    PROVE  /\ DOMAIN chain \subseteq 1 .. 3
           /\ \A k \in DOMAIN chain : chain[k] \in Backends
<1>1. CASE chain = DefaultChain
  BY <1>1 DEF DefaultChain, Backends
<1>2. CASE chain = <<"pefile", "pyelftools">>
  BY <1>2 DEF Backends
<1>3. CASE chain = <<"minimal">>
  BY <1>3 DEF Backends
<1>. QED
  BY <1>1, <1>2, <1>3 DEF BackendChains

LEMMA LeastOfThree ==
    ASSUME NEW S \in SUBSET (1 .. 3), S # {}
    PROVE  \E k \in S : \A j \in S : k <= j
<1>. \A x \in S : x = 1 \/ x = 2 \/ x = 3
  OBVIOUS
<1>1. CASE 1 \in S
  BY <1>1
<1>2. CASE 1 \notin S /\ 2 \in S
  BY <1>2
<1>3. CASE 1 \notin S /\ 2 \notin S
  <2>1. 3 \in S
    BY <1>3
  <2>. QED
    BY <1>3, <2>1
<1>. QED
  BY <1>1, <1>2, <1>3

\* The backend a loader chooses is one of its chain and supports the bytes.
LEMMA ChosenSupports ==
    ASSUME caller.chain \in BackendChains, Supporting # {}
    PROVE  Chosen \in Backends /\ Supports(Chosen, data)
<1>1. Supporting \in SUBSET (1 .. 3)
  BY ChainElements DEF Supporting
<1>2. \E k \in Supporting : \A j \in Supporting : k <= j
  BY <1>1, LeastOfThree
<1>3. PICK k \in Supporting : Chosen = caller.chain[k]
  BY <1>2 DEF Chosen
<1>. QED
  BY <1>3, ChainElements DEF Supporting

\* The container of a chosen backend is the one of the bytes.
LEMMA ContainerFits ==
    ASSUME NEW b \in Backends, data \in Contents, Supports(b, data)
    PROVE  /\ Container(b, data) \in {"pe", "elf", "raw"}
           /\ Container(b, data) = "pe" => data.magic = "MZ"
           /\ Container(b, data) = "elf" => data.magic = "ELF"
           /\ Container(b, data) = "raw" <=> b = "raw"
<1>1. data.magic \in Magics
  BY ContentFields
<1>2. CASE b = "raw"
  BY <1>2 DEF Container
<1>3. CASE b = "pefile"
  BY <1>3 DEF Container, Supports
<1>4. CASE b = "pyelftools"
  BY <1>4 DEF Container, Supports
<1>5. CASE b = "minimal"
  BY <1>1, <1>5 DEF Container, Supports, Magics
<1>. QED
  BY <1>2, <1>3, <1>4, <1>5 DEF Backends

-------------------------------------------------------------------------------
\* IInv holds before a file was asked for.
THEOREM InvInit == Init => IInv
<1>. SUFFICES ASSUME Init PROVE IInv
  OBVIOUS
<1>. USE DEF Init
<1>1. TypeOK
  <2>1. /\ buffer \in Contents /\ buffer.size <= 1 /\ data \in Contents
    BY EmptyContent
  <2>2. /\ caller \in Callers \cup {Nobody} /\ handle \in Nodes \cup {NoNode}
        /\ rejected \in BOOLEAN /\ disturbed \in BOOLEAN
        /\ answer = Unanswered
    OBVIOUS
  <2>3. pc = "idle" /\ entry \in Nodes \cup {NoNode} /\ content \in [Nodes -> Contents]
    OBVIOUS
  <2>. HIDE DEF Init
  <2>. QED
    BY <2>1, <2>2, <2>3 DEF TypeOK
<1>2. CallerPhase /\ StreamPhase /\ DataPhase /\ AnswerPhase
  BY DEF CallerPhase, StreamPhase, DataPhase, AnswerPhase
<1>3. MemoryBounded /\ ParsersBounded /\ ContainerOfTheBytes /\ Intact
  BY StaticLoadAssumption, EmptyContent, AnswerFields
     DEF MemoryBounded, ParsersBounded, ContainerOfTheBytes, Intact, Nobody, Empty
<1>. QED
  BY <1>1, <1>2, <1>3 DEF IInv

\* Where a step leads, and with what answer, is of the type.
LEMMA AnswerTypes ==
    /\ \A m \in Magics : Imports(m) \in {Imports(x) : x \in Magics}
    /\ \A b \in Backends : \A d : Container(b, d) \in {"pe", "elf", "raw"} =>
           Image(b, d) \in {[kind |-> "image", backend |-> x, container |-> c] :
                               x \in Backends, c \in {"pe", "elf", "raw"}}
  BY DEF Image

\* An answer that is no image and no imports satisfies what is said of those.
LEMMA NoContentAnswered ==
    ASSUME answer'.kind \in {"none", "failure"}, pc' # "parse"
    PROVE  ParsersBounded' /\ ContainerOfTheBytes'
  BY DEF ParsersBounded, ContainerOfTheBytes

LEMMA UnansweredKind ==
    ASSUME IInv, pc # "done"
    PROVE  answer = Unanswered /\ answer.kind = "none"
  BY AnswerFields DEF IInv, AnswerPhase

LEMMA ResolveKeepsInv ==
    ASSUME IInv, NEW c \in Callers, Resolve(c)
    PROVE  IInv'
<1>. USE DEF Resolve, Goto, Finish, world
<1>0. pc = "idle" /\ ~rejected /\ data = Empty /\ handle = NoNode
  BY DEF IInv, AnswerPhase, DataPhase, StreamPhase
<1>1. TypeOK'
  BY <1>0 DEF IInv, TypeOK
<1>2. CallerPhase' /\ StreamPhase' /\ DataPhase' /\ AnswerPhase'
  BY <1>0, CallerFields, UnansweredKind
     DEF IInv, CallerPhase, StreamPhase, DataPhase, AnswerPhase
<1>3. MemoryBounded'
  BY <1>0, EmptyContent, StaticLoadAssumption DEF MemoryBounded
<1>4. answer'.kind \in {"none", "failure"} /\ pc' \in {"stat", "done"}
  BY <1>0, UnansweredKind, AnswerFields
<1>5. ParsersBounded' /\ ContainerOfTheBytes'
  BY <1>4, NoContentAnswered
<1>6. Intact'
  BY <1>4 DEF Intact
<1>. QED
  BY <1>1, <1>2, <1>3, <1>5, <1>6 DEF IInv

LEMMA GivenKeepsInv ==
    ASSUME IInv, NEW c \in Callers, NEW d \in Contents, Given(c, d)
    PROVE  IInv'
<1>. USE DEF Given, Goto, world
<1>0. pc = "idle" /\ ~rejected /\ handle = NoNode
  BY DEF IInv, AnswerPhase, DataPhase, StreamPhase
<1>1. TypeOK'
  BY <1>0 DEF IInv, TypeOK
<1>2. CallerPhase' /\ StreamPhase' /\ DataPhase' /\ AnswerPhase'
  BY <1>0, CallerFields, UnansweredKind
     DEF IInv, CallerPhase, StreamPhase, DataPhase, AnswerPhase
<1>3. MemoryBounded' /\ Intact'
  BY DEF MemoryBounded, Intact
<1>4. answer'.kind = "none" /\ pc' = "validate"
  BY <1>0, UnansweredKind
<1>5. ParsersBounded' /\ ContainerOfTheBytes'
  BY <1>4, NoContentAnswered
<1>. QED
  BY <1>1, <1>2, <1>3, <1>5 DEF IInv

LEMMA StatKeepsInv ==
    ASSUME IInv, Stat
    PROVE  IInv'
<1>. USE DEF Stat, Goto, Finish, world
<1>0. /\ pc = "stat" /\ ~rejected /\ data = Empty /\ handle = NoNode
      /\ caller.kind # "bytes"
  BY DEF IInv, AnswerPhase, DataPhase, StreamPhase, CallerPhase
<1>1. TypeOK'
  <2>1. answer' \in {answer, Failure("magic")} /\ pc' \in {"open", "done"}
    OBVIOUS
  <2>2. UNCHANGED <<world, caller, handle, buffer, data, rejected>>
    OBVIOUS
  <2>3. disturbed' \in BOOLEAN
    OBVIOUS
  <2>4. answer' \in {Unanswered, Failure("magic")}
    BY <1>0, <2>1, UnansweredKind
  <2>. HIDE DEF Stat
  <2>. QED
    BY <2>1, <2>2, <2>3, <2>4 DEF IInv, TypeOK
<1>2. CallerPhase' /\ StreamPhase' /\ DataPhase' /\ AnswerPhase'
  BY <1>0, UnansweredKind
     DEF IInv, CallerPhase, StreamPhase, DataPhase, AnswerPhase
<1>3. MemoryBounded'
  BY <1>0 DEF IInv, MemoryBounded
<1>4. /\ answer'.kind \in {"none", "failure"} /\ pc' \in {"open", "done"}
      /\ pc' = "open" => Fits
  BY <1>0, UnansweredKind, AnswerFields
<1>5. ParsersBounded' /\ ContainerOfTheBytes'
  BY <1>4, NoContentAnswered
<1>6. Intact'
  BY <1>4 DEF Intact, Fits
<1>. QED
  BY <1>1, <1>2, <1>3, <1>5, <1>6 DEF IInv

LEMMA OpenKeepsInv ==
    ASSUME IInv, Open
    PROVE  IInv'
<1>. USE DEF Open, Goto, Finish, world
<1>0. /\ pc = "open" /\ ~rejected /\ data = Empty /\ handle = NoNode
      /\ caller.kind \in {"path", "loader"}
  BY DEF IInv, AnswerPhase, DataPhase, StreamPhase, CallerPhase
<1>1. TypeOK'
  BY <1>0 DEF IInv, TypeOK
<1>2. CallerPhase' /\ StreamPhase' /\ DataPhase' /\ AnswerPhase'
  BY <1>0, UnansweredKind
     DEF IInv, CallerPhase, StreamPhase, DataPhase, AnswerPhase
<1>3. MemoryBounded'
  BY <1>0 DEF IInv, MemoryBounded
<1>4. /\ answer'.kind \in {"none", "failure"} /\ pc' \in {"header", "done"}
      /\ pc' = "header" => handle' = entry
  BY <1>0, UnansweredKind, AnswerFields
<1>5. ParsersBounded' /\ ContainerOfTheBytes'
  BY <1>4, NoContentAnswered
<1>6. Intact'
  BY <1>0, <1>4 DEF IInv, Intact, Fits
<1>. QED
  BY <1>1, <1>2, <1>3, <1>5, <1>6 DEF IInv

\* The header comes from the file that was stat'ed, if nothing intervened.
LEMMA HeaderKeepsInv ==
    ASSUME IInv, Header
    PROVE  IInv'
<1>. USE DEF Header, Goto, Finish, world
<1>0. /\ pc = "header" /\ ~rejected /\ data = Empty /\ handle \in Nodes
      /\ caller.kind \in {"path", "loader"} /\ content[handle] \in Contents
  BY DEF IInv, TypeOK, AnswerPhase, DataPhase, StreamPhase, CallerPhase
<1>1. buffer' \in Contents /\ buffer'.size <= 1
  BY <1>0, FirstFields
<1>2. TypeOK'
  BY <1>0, <1>1 DEF IInv, TypeOK
<1>3. CallerPhase' /\ StreamPhase' /\ DataPhase' /\ AnswerPhase'
  BY <1>0, UnansweredKind, StaticLoadAssumption
     DEF IInv, CallerPhase, StreamPhase, DataPhase, AnswerPhase
<1>4. MemoryBounded'
  BY <1>0 DEF IInv, MemoryBounded
<1>5. /\ answer'.kind \in {"none", "failure"} /\ pc' \in {"read", "done"}
      /\ pc' = "read" => handle' = handle
  BY <1>0, UnansweredKind, AnswerFields
<1>6. ParsersBounded' /\ ContainerOfTheBytes'
  BY <1>5, NoContentAnswered
<1>7. Intact'
  BY <1>0, <1>5 DEF IInv, Intact, Fits, First
<1>. QED
  BY <1>2, <1>3, <1>4, <1>6, <1>7 DEF IInv

\* The rest of the stream: bounded whatever happened, the file if nothing did.
LEMMA ReadKeepsInv ==
    ASSUME IInv, Read
    PROVE  IInv'
<1>. USE DEF Read, Goto, world
<1>0. /\ pc = "read" /\ ~rejected /\ handle \in Nodes
      /\ caller.kind \in {"path", "loader"} /\ content[handle] \in Contents
      /\ buffer \in Contents /\ buffer.size <= 1
  BY DEF IInv, TypeOK, AnswerPhase, StreamPhase, CallerPhase
<1>1. data' \in Contents /\ data'.size <= Limit + 1
  <2>1. Limit + 1 \in Nat /\ Limit + 1 > 0 /\ Limit + 1 <= Limit + Excess
    BY StaticLoadAssumption
  <2>. QED
    BY <1>0, <2>1, StreamBounded
<1>2. /\ pc' \in {"validate", "load"} /\ answer' = answer /\ answer.kind = "none"
      /\ pc' = IF caller.kind = "path" THEN "validate" ELSE "load"
  BY <1>0, UnansweredKind
<1>3. TypeOK'
  BY <1>0, <1>1, <1>2 DEF IInv, TypeOK
<1>4. CallerPhase' /\ StreamPhase' /\ DataPhase' /\ AnswerPhase'
  BY <1>0, <1>2, UnansweredKind
     DEF IInv, CallerPhase, StreamPhase, DataPhase, AnswerPhase
<1>5. MemoryBounded'
  BY <1>1 DEF MemoryBounded
<1>6. ParsersBounded' /\ ContainerOfTheBytes'
  BY <1>2, NoContentAnswered
<1>7. Intact'
  <2>. SUFFICES ASSUME ~disturbed PROVE Fits' /\ data' = content[entry]'
    BY <1>2 DEF Intact
  <2>1. /\ entry # NoNode /\ content[entry].size <= Limit /\ handle = entry
        /\ buffer = First(content[entry])
    BY <1>0 DEF IInv, Intact, Fits
  <2>2. content[handle].size \in Nat /\ content[handle].size <= Limit + 1
    BY <1>0, <2>1, ContentFields, StaticLoadAssumption
  <2>3. Limit + 1 \in Nat /\ Limit + 1 > 0 /\ Limit + 1 <= Limit + Excess
    BY StaticLoadAssumption
  <2>4. Stream(Limit + 1) = content[handle]
    BY <1>0, <2>1, <2>2, <2>3, StreamBounded
  <2>. QED
    BY <2>1, <2>4 DEF Fits
<1>. QED
  BY <1>3, <1>4, <1>5, <1>6, <1>7 DEF IInv

LEMMA ReadFailsKeepsInv ==
    ASSUME IInv, ReadFails
    PROVE  IInv'
<1>. USE DEF ReadFails, Goto, Finish, world
<1>0. /\ pc \in {"header", "read"} /\ pc' = "done" /\ ~rejected
      /\ answer' = Failure("magic") /\ answer'.kind = "failure"
  BY AnswerFields DEF IInv, AnswerPhase
<1>1. TypeOK'
  BY <1>0 DEF IInv, TypeOK
<1>2. CallerPhase' /\ StreamPhase' /\ DataPhase' /\ AnswerPhase'
  BY <1>0 DEF IInv, CallerPhase, StreamPhase, DataPhase, AnswerPhase
<1>3. MemoryBounded'
  BY <1>0 DEF IInv, MemoryBounded
<1>4. ParsersBounded' /\ ContainerOfTheBytes'
  BY <1>0, NoContentAnswered
<1>5. Intact'
  BY <1>0 DEF Intact
<1>. QED
  BY <1>1, <1>2, <1>3, <1>4, <1>5 DEF IInv

LEMMA ValidateKeepsInv ==
    ASSUME IInv, Validate
    PROVE  IInv'
<1>. USE DEF Validate, Goto, Finish, world
<1>0. /\ pc = "validate" /\ ~rejected /\ handle = NoNode
      /\ caller.kind \in {"path", "bytes"} /\ answer = Unanswered
      /\ answer.kind = "none"
  BY UnansweredKind DEF IInv, AnswerPhase, StreamPhase, CallerPhase
<1>1. TypeOK'
  BY <1>0 DEF IInv, TypeOK
<1>2. CallerPhase' /\ StreamPhase' /\ DataPhase' /\ AnswerPhase'
  BY <1>0 DEF IInv, CallerPhase, StreamPhase, DataPhase, AnswerPhase
<1>3. MemoryBounded'
  BY <1>0 DEF IInv, MemoryBounded
<1>4. /\ answer'.kind \in {"none", "failure"} /\ pc' \in {"parse", "done"}
      /\ pc' = "parse" => Acceptable(caller.expected)
  BY <1>0, AnswerFields
<1>5. ParsersBounded' /\ ContainerOfTheBytes'
  BY <1>4 DEF ParsersBounded, ContainerOfTheBytes, Acceptable
<1>6. Intact'
  BY <1>0, <1>4 DEF IInv, Intact, Fits
<1>. QED
  BY <1>1, <1>2, <1>3, <1>5, <1>6 DEF IInv

\* The imports are those of the magic the caller expects.
LEMMA ParseKeepsInv ==
    ASSUME IInv, Parse
    PROVE  IInv'
<1>. USE DEF Parse, Goto, Finish, world
<1>0. /\ pc = "parse" /\ pc' = "done" /\ ~rejected /\ handle = NoNode
      /\ caller.kind \in {"path", "bytes"} /\ caller # Nobody
  BY DEF IInv, AnswerPhase, StreamPhase, CallerPhase, Nobody
<1>1. /\ data.size <= Limit /\ data.magic \in caller.expected
      /\ data.magic \in Magics
  BY <1>0, ContentFields DEF IInv, TypeOK, ParsersBounded
<1>2. TypeOK'
  BY <1>0, <1>1, AnswerTypes DEF IInv, TypeOK
<1>3. CallerPhase' /\ StreamPhase' /\ DataPhase' /\ AnswerPhase'
  BY <1>0 DEF IInv, CallerPhase, StreamPhase, DataPhase, AnswerPhase
<1>4. MemoryBounded'
  BY <1>0 DEF IInv, MemoryBounded
<1>5. \/ answer' = Imports(data.magic) /\ answer'.kind = "imports"
         /\ answer'.magic = data.magic
      \/ answer'.kind = "failure"
  BY AnswerFields
<1>6. caller.expected = {data.magic}
  <2>1. caller \in Callers
    BY <1>0 DEF IInv, TypeOK
  <2>. QED
    BY <1>0, <1>1, <2>1, CallerFields
<1>7. ParsersBounded' /\ ContainerOfTheBytes'
  BY <1>0, <1>1, <1>5, <1>6 DEF ParsersBounded, ContainerOfTheBytes
<1>8. Intact'
  BY <1>0, <1>5 DEF IInv, Intact, Fits
<1>. QED
  BY <1>2, <1>3, <1>4, <1>7, <1>8 DEF IInv

\* What a loader answers is the image of a backend that supports the bytes, and
\* of the bounded parsers only for bytes within the limit.
LEMMA ImageAnswered ==
    ASSUME IInv, NEW b \in Backends, Supports(b, data), ~rejected \/ b = "minimal",
           b = "minimal" => data.size <= Limit,
           answer' = Image(b, data), pc' = "done", data' = data,
           rejected' = rejected
    PROVE  /\ answer' \in {[kind |-> "image", backend |-> x, container |-> c] :
                              x \in Backends, c \in {"pe", "elf", "raw"}}
           /\ ParsersBounded' /\ ContainerOfTheBytes'
<1>1. data \in Contents /\ rejected \in BOOLEAN
  BY DEF IInv, TypeOK
<1>2. /\ answer'.kind = "image" /\ answer'.backend = b
      /\ answer'.container = Container(b, data)
  BY AnswerFields
<1>3. ParsersBounded'
  BY <1>2 DEF ParsersBounded
<1>4. ContainerOfTheBytes'
  BY <1>1, <1>2, ContainerFits DEF ContainerOfTheBytes
<1>. QED
  BY <1>1, <1>3, <1>4, ContainerFits, AnswerTypes

LEMMA LoadKeepsInv ==
    ASSUME IInv, Load
    PROVE  IInv'
<1>. USE DEF Load, Goto, Finish, world
<1>0. /\ pc = "load" /\ rejected = FALSE /\ handle = NoNode /\ caller.kind = "loader"
      /\ answer = Unanswered /\ answer.kind = "none" /\ caller # Nobody
  BY UnansweredKind DEF IInv, TypeOK, AnswerPhase, StreamPhase, CallerPhase, Nobody
<1>1. caller.chain \in BackendChains
  BY <1>0, CallerFields DEF IInv, TypeOK
<1>2. pc' \in {"done", "recover"} /\ (pc' = "recover" => answer' = answer)
  OBVIOUS
<1>3. CallerPhase' /\ StreamPhase' /\ DataPhase' /\ AnswerPhase'
  BY <1>0, <1>2 DEF IInv, CallerPhase, StreamPhase, DataPhase, AnswerPhase
<1>4. MemoryBounded'
  BY <1>0 DEF IInv, MemoryBounded
<1>5. Intact'
  BY <1>0, <1>2 DEF IInv, Intact, Fits
<1>6. TypeOK' /\ ParsersBounded' /\ ContainerOfTheBytes'
  <2>1. CASE Supporting = {} \/ pc' = "recover" \/ answer' = Failure("parser")
    <3>1. /\ answer' \in {Unanswered, Failure("magic"), Failure("parser")}
          /\ rejected' \in BOOLEAN
      BY <1>0, <2>1
    <3>2. answer'.kind \in {"none", "failure"}
      BY <3>1, AnswerFields
    <3>3. TypeOK'
      BY <1>2, <3>1 DEF IInv, TypeOK
    <3>. QED
      BY <1>2, <3>2, <3>3, NoContentAnswered
  <2>2. CASE Supporting # {} /\ pc' # "recover" /\ answer' # Failure("parser")
    <3>1. /\ Chosen \in Backends /\ Supports(Chosen, data)
          /\ answer' = Image(Chosen, data) /\ pc' = "done"
          /\ rejected' = rejected /\ data' = data
          /\ Chosen = "minimal" => data.size <= Limit
      BY <1>1, <2>2, ChosenSupports DEF Acceptable
    <3>. HIDE DEF Load
    <3>2. /\ answer' \in {[kind |-> "image", backend |-> x, container |-> c] :
                             x \in Backends, c \in {"pe", "elf", "raw"}}
          /\ ParsersBounded' /\ ContainerOfTheBytes'
      BY <1>0, <3>1, ImageAnswered
    <3>3. TypeOK'
      BY <3>1, <3>2 DEF IInv, TypeOK, Load
    <3>. QED
      BY <3>2, <3>3
  <2>. QED
    BY <2>1, <2>2
<1>. QED
  BY <1>3, <1>4, <1>5, <1>6 DEF IInv

LEMMA RecoverKeepsInv ==
    ASSUME IInv, Recover
    PROVE  IInv'
<1>. USE DEF Recover, Goto, Finish, world
<1>0. /\ pc = "recover" /\ pc' = "done" /\ handle = NoNode
      /\ caller.kind = "loader"
  BY DEF IInv, StreamPhase, CallerPhase
<1>1. CallerPhase' /\ StreamPhase' /\ DataPhase' /\ AnswerPhase'
  BY <1>0 DEF IInv, CallerPhase, StreamPhase, DataPhase, AnswerPhase
<1>2. MemoryBounded'
  BY <1>0 DEF IInv, MemoryBounded
<1>3. Intact'
  BY <1>0 DEF IInv, Intact, Fits
<1>4. TypeOK' /\ ParsersBounded' /\ ContainerOfTheBytes'
  <2>1. CASE answer' = Failure("magic")
    BY <1>0, <2>1, AnswerFields, NoContentAnswered DEF IInv, TypeOK
  <2>2. CASE Acceptable({"MZ", "ELF"}) /\ answer' = Image("minimal", data)
    <3>1. /\ "minimal" \in Backends /\ Supports("minimal", data)
          /\ data.size <= Limit /\ data' = data /\ rejected' = rejected
      BY <2>2 DEF Acceptable, Supports, Backends
    <3>. HIDE DEF Recover
    <3>2. /\ answer' \in {[kind |-> "image", backend |-> x, container |-> c] :
                             x \in Backends, c \in {"pe", "elf", "raw"}}
          /\ ParsersBounded' /\ ContainerOfTheBytes'
      BY <1>0, <2>2, <3>1, ImageAnswered
    <3>3. TypeOK'
      BY <1>0, <3>1, <3>2 DEF IInv, TypeOK, Recover
    <3>. QED
      BY <3>2, <3>3
  <2>. QED
    BY <2>1, <2>2
<1>. QED
  BY <1>1, <1>2, <1>3, <1>4 DEF IInv

\* The rest of the host touches nothing of the call, and an undisturbed call
\* neither the path nor the open file.
LEMMA HostKeepsInv ==
    ASSUME IInv, Host
    PROVE  IInv'
<1>0. /\ UNCHANGED <<pc, caller, handle, buffer, data, rejected, answer>>
      /\ entry' \in Nodes \cup {NoNode} /\ content' \in [Nodes -> Contents]
      /\ disturbed' \in BOOLEAN
      /\ ~disturbed' =>
             /\ entry' = entry /\ ~disturbed
             /\ entry # NoNode => content'[entry] = content[entry]
  <2>1. CASE Replace
    BY <2>1 DEF Replace, IInv, TypeOK
  <2>2. ASSUME NEW n \in Nodes, Write(n) PROVE <1>0
    <3>1. PICK c \in Contents : content' = [content EXCEPT ![n] = c]
      BY <2>2 DEF Write
    <3>2. content' \in [Nodes -> Contents]
      BY <3>1 DEF IInv, TypeOK
    <3>3. /\ disturbed' = (disturbed \/ n \in {entry, handle})
          /\ disturbed \in BOOLEAN /\ entry' = entry
          /\ entry \in Nodes \cup {NoNode}
      BY <2>2 DEF Write, IInv, TypeOK
    <3>4. disturbed' \in BOOLEAN
      BY <3>3
    <3>5. ~disturbed' => ~disturbed /\ n # entry
      BY <3>3
    <3>6. n # entry /\ entry # NoNode => content'[entry] = content[entry]
      BY <3>1, <3>3 DEF IInv, TypeOK
    <3>. QED
      BY <2>2, <3>2, <3>3, <3>4, <3>5, <3>6 DEF Write
  <2>. QED
    BY <2>1, <2>2 DEF Host
<1>1. TypeOK'
  BY <1>0 DEF IInv, TypeOK
<1>2. CallerPhase' /\ StreamPhase' /\ DataPhase' /\ AnswerPhase'
  BY <1>0 DEF IInv, CallerPhase, StreamPhase, DataPhase, AnswerPhase
<1>3. MemoryBounded' /\ ParsersBounded' /\ ContainerOfTheBytes'
  BY <1>0 DEF IInv, MemoryBounded, ParsersBounded, ContainerOfTheBytes
<1>4. Intact'
  <2>1. CASE disturbed'
    BY <2>1 DEF Intact
  <2>2. CASE ~disturbed'
    BY <1>0, <2>2 DEF IInv, Intact, Fits
  <2>. QED
    BY <2>1, <2>2
<1>. QED
  BY <1>1, <1>2, <1>3, <1>4 DEF IInv

\* The invariant is inductive: no step of the reader, of its callers or of a writer
\* breaks it.
THEOREM InvStep == IInv /\ [Next]_vars => IInv'
<1>. SUFFICES ASSUME IInv, [Next]_vars PROVE IInv'
  OBVIOUS
<1>1. CASE Begin
  BY <1>1, ResolveKeepsInv, GivenKeepsInv DEF Begin
<1>2. CASE Reader
  BY <1>2, StatKeepsInv, OpenKeepsInv, HeaderKeepsInv, ReadKeepsInv,
     ReadFailsKeepsInv, ValidateKeepsInv, ParseKeepsInv, LoadKeepsInv,
     RecoverKeepsInv DEF Reader
<1>3. CASE Host
  BY <1>3, HostKeepsInv
<1>4. CASE UNCHANGED vars
  BY <1>4 DEF vars, IInv, TypeOK, CallerPhase, StreamPhase, DataPhase, AnswerPhase,
     MemoryBounded, ParsersBounded, ContainerOfTheBytes, Intact, Fits
<1>. QED
  BY <1>1, <1>2, <1>3, <1>4 DEF Next

\* IInv holds in every reachable state.
THEOREM Invariant == Spec => []IInv
  BY InvInit, InvStep, PTL DEF Spec

-------------------------------------------------------------------------------
\* Every variable keeps the shape the code gives it.
THEOREM TypeCorrect == Spec => []TypeOK
  BY Invariant, PTL DEF IInv

\* read_static_file asks for one block more than the limit, so whatever a writer
\* does between stat and read, memory holds no more.
THEOREM MemoryIsBounded == Spec => []MemoryBounded
  BY Invariant, PTL DEF IInv

\* validate_bytes stands before every table walk: of iat/ callers, of the
\* minimal backend in a chain, and of the fallback.
THEOREM ParsersAreBounded == Spec => []ParsersBounded
  BY Invariant, PTL DEF IInv

\* A loader names the container of the bytes it holds, whichever backend of
\* whichever chain served and whatever the file is by now.
THEOREM ContainerIsOfTheBytes == Spec => []ContainerOfTheBytes
  BY Invariant, PTL DEF IInv

\* An answer about a file nobody touched is about the whole of that file.
THEOREM UndisturbedReadsAreExact == Spec => []UndisturbedReadIsExact
<1>1. IInv => UndisturbedReadIsExact
  BY DEF IInv, Intact, Fits, UndisturbedReadIsExact
<1>. QED
  BY <1>1, Invariant, PTL

\* The stream is closed whenever the call is not between open and the end of the
\* read, so an answered call holds no file, however it ended.
StreamClosed == answer # Unanswered => handle = NoNode

\* However a call ends, it holds no open file once it is answered.
THEOREM StreamsAreClosed == Spec => []StreamClosed
<1>1. IInv => StreamClosed
  BY DEF IInv, AnswerPhase, StreamPhase, StreamClosed
<1>. QED
  BY <1>1, Invariant, PTL
===============================================================================
