------------------------------ MODULE YaraRule ------------------------------
(***************************************************************************)
(* generate_yara_rule (yara_gen.py) on the features of one file: the       *)
(* strings find_xor_strings recovered, the names of the imports and the    *)
(* printable runs of the file compete for the literals of the rule.        *)
(*                                                                         *)
(* A rule is its literals and its condition.  Names, metadata, escaping    *)
(* and layout are left out.  YARA itself is external: what a literal       *)
(* declared "ascii wide" and the clauses of a condition match.             *)
(***************************************************************************)
EXTENDS StringRecovery

CONSTANTS
  Requests,      \* the features and options a rule may be asked for with
  Noisy,         \* _NOISY_STRINGS and what ends like a library, in lower case
  SectionNames,  \* _SECTION_NAMES
  Literal        \* lengths and caps of literals, by name

Containers == {"raw", "pe", "elf"}

Request == [container : Containers, imports : Seq(Seq(Bytes)), max : Nat, fallback : BOOLEAN]

ASSUME YaraAssumption ==
  /\ Requests \subseteq Request
  /\ Noisy \cup SectionNames \subseteq Seq(Bytes)
  /\ \A n \in {"run", "least", "most", "distinct", "letters", "cap", "size"} : Literal[n] \in Nat
  /\ Literal.run > 0
  /\ \A d \in Files : Len(d) <= Literal.size   \* no larger file is loaded (magic.py)

VARIABLES
  request,  \* the request being answered
  rule      \* the answer

yaraVars == <<data, stage, found, request, rule>>

NoRequest == [container |-> "raw", imports |-> <<>>, max |-> 0, fallback |-> FALSE]

\* A condition: the import hash is the sample's, at least so many of the
\* literals occur, the size of the file is in a range, its digest is the sample's.
AnyFile == [imphash |-> FALSE, atLeast |-> 0, lower |-> 0, upper |-> Literal.size,
            digest |-> FALSE]

NoRule == [kind |-> "none", strings |-> <<>>, condition |-> AnyFile]

\* YaraGenerationError.
Refused == [NoRule EXCEPT !.kind = "error"]

(***************************************************************************)
(* _string_score.                                                          *)
(***************************************************************************)
Digits == {b \in Bytes : Class[b] = "digit"}

MixedCase(s) == Folded(s) # s /\ \E k \in DOMAIN s : s[k] \in Letters /\ Fold[s[k]] = s[k]

StringScore(s) ==
  IF \/ Len(s) \notin Literal.least .. Literal.most
     \/ Folded(s) \in Noisy
     \/ Cardinality(Range(Folded(s))) < Literal.distinct
     \/ Count(s, Letters) < Literal.letters
  THEN 0
  ELSE Min({Len(s), 48}) + Min({Cardinality(Range(s)), 16})
         + (IF Count(s, Separators) > 0 THEN 12 ELSE 0)
         + (IF Count(s, Digits) > 0 THEN 8 ELSE 0)
         + (IF MixedCase(s) THEN 6 ELSE 0)

(***************************************************************************)
(* _select_strings.                                                        *)
(***************************************************************************)
Candidate(score, offset, value, provenance) ==
  [score |-> score, offset |-> offset, value |-> value, provenance |-> provenance]

\* A recovered string stays a candidate whatever its own score.
FromRecovered ==
  [k \in DOMAIN found |->
     Candidate(1000 + StringScore(found[k].value), found[k].offset, found[k].value,
               "decoded-xor")]

Places(value) == {p \in 1 .. Len(data) - Len(value) + 1 : SubSeq(data, p, p + Len(value) - 1) = value}

\* max(0, data.find(name)): a name that is not in the file, as that of an import
\* by ordinal, counts as at its start.
FromImports(names) ==
  LET of(n) == Candidate(800 + StringScore(n),
                         IF Places(n) = {} THEN 1 ELSE Min(Places(n)), n, "import")
  IN  FlattenSeq([k \in DOMAIN names |->
                    IF StringScore(names[k]) > 0 THEN <<of(names[k])>> ELSE <<>>])

\* extract_ascii_strings, without the names of imports that run on and of sections.
FromText(names) ==
  LET runs == Matches(data, Printable, Literal.run, Len(data))
      of(m) == LET s == SubSeq(data, m.first, m.last)
               IN  Candidate(StringScore(s), m.first, s, "ascii")
      clear(c) ==
        /\ c.score > 0
        /\ \A k \in DOMAIN names :
             StringScore(names[k]) > 0 => ~IsStrictPrefix(Folded(names[k]), Folded(c.value))
        /\ \A w \in SectionNames : ~IsPrefix(w, Folded(c.value))
  IN  FlattenSeq([k \in DOMAIN runs |->
                    IF clear(of(runs[k])) THEN <<of(runs[k])>> ELSE <<>>])

\* By falling score, then by offset, then by the text in lower case.
SortedCandidates(candidates) ==
  LET before(i, j) ==
        LET c == candidates[i]
            e == candidates[j]
            same == Folded(c.value) = Folded(e.value)
        IN  \/ c.score > e.score
            \/ c.score = e.score /\ c.offset < e.offset
            \/ /\ c.score = e.score /\ c.offset = e.offset
               /\ Smaller(Folded(c.value), Folded(e.value)) \/ (same /\ i < j)
      places == DOMAIN candidates
      order == Sorted(places, {p \in places \X places : before(p[1], p[2])})
  IN  [k \in places |-> candidates[order[k]]]

\* One literal for each text, letters of either case alike, up to max_strings.
SelectStrings(q) ==
  FoldLeft(LAMBDA selected, c :
             IF Len(selected) = q.max
                \/ \E k \in DOMAIN selected : Folded(selected[k].value) = Folded(c.value)
             THEN selected ELSE Append(selected, c),
           <<>>,
           SortedCandidates(FromRecovered \o FromImports(q.imports) \o FromText(q.imports)))

(***************************************************************************)
(* generate_yara_rule.                                                     *)
(***************************************************************************)
\* Mutant: the lower bound is the upper one.
NarrowSizes(n) ==
  LET lower == Max({1, (n * 5) \div 4}) IN [lower |-> lower, upper |-> lower]

Sizes(n) ==
  LET lower == Max({1, (n * 3) \div 4})
  IN  [lower |-> lower, upper |-> Min({Literal.size, Max({lower, (n * 5) \div 4})})]

Generated(q) ==
  LET strings == SelectStrings(q)
      with(condition) == [kind |-> "rule", strings |-> strings, condition |-> condition]
  IN  CASE q.max \notin 1 .. Literal.cap \/ data = <<>> -> Refused
        [] q.max \in 1 .. Literal.cap /\ data # <<>> /\ q.container = "pe" ->
             with([AnyFile EXCEPT !.imphash = TRUE,
                                  !.atLeast = IF strings = <<>> THEN 0 ELSE 1])
        [] q.max \in 1 .. Literal.cap /\ data # <<>> /\ q.container # "pe" ->
             IF Len(strings) >= 2
               THEN with([AnyFile EXCEPT !.atLeast = 2, !.lower = Sizes(Len(data)).lower,
                                         !.upper = Sizes(Len(data)).upper])
             ELSE IF q.fallback THEN with([AnyFile EXCEPT !.digest = TRUE])
             ELSE Refused

YaraInit == RecoveryInit /\ request = NoRequest /\ rule = NoRule

Recover == rule = NoRule /\ RecoveryNext /\ UNCHANGED <<request, rule>>

\* The request is drawn only now: no pass of the recovery depends on it.
Generate ==
  /\ stage = "done" /\ rule = NoRule
  /\ \E q \in Requests : request' = q /\ rule' = Generated(q)
  /\ UNCHANGED recovery

YaraNext == Recover \/ Generate

YaraSpec == YaraInit /\ [][YaraNext]_yaraVars

(***************************************************************************)
(* The YARA engine: "ascii wide" finds a literal as it is, or with a zero  *)
(* after each character.                                                   *)
(***************************************************************************)
Wide(s) == [k \in 1 .. 2 * Len(s) |-> IF k % 2 = 1 THEN s[(k + 1) \div 2] ELSE 0]

InFile(literal) == Occurs(literal, data) \/ Occurs(Wide(literal), data)

Holding(r) == {k \in DOMAIN r.strings : InFile(r.strings[k].value)}

MatchesSample(r) ==
  /\ Cardinality(Holding(r)) >= r.condition.atLeast
  /\ Len(data) \in r.condition.lower .. r.condition.upper

-----------------------------------------------------------------------------
(***************************************************************************)
(* Properties.                                                             *)
(***************************************************************************)

\* A rule matches the file it was made from whenever as many of its literals as
\* the condition asks for were read from the file as text: the literals survive
\* the selection unchanged and the range of sizes holds the sample's own.
SampleMatched ==
  /\ rule.kind = "rule"
  /\ Cardinality({k \in DOMAIN rule.strings : rule.strings[k].provenance = "ascii"})
       >= rule.condition.atLeast
  => MatchesSample(rule)

\* What the tests say of the rules of raw files and of PE files (tests/test_yara_gen.py):
\* a generated rule matches the bytes it was generated from.
RuleMatchesItsSample == rule.kind = "rule" => MatchesSample(rule)
=============================================================================
