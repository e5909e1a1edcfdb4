--------------------------- MODULE StringRecovery ---------------------------
(***************************************************************************)
(* find_xor_strings (deobfuscation/string_xor.py): one file goes through   *)
(* the marker loop, the single-byte pass, the repeating-key pass and the   *)
(* final sort.                                                             *)
(*                                                                         *)
(* Bytes are real and so is the exclusive or; their width, the classes of  *)
(* characters and the caps are constants, which the instances scale down.  *)
(* The weights and thresholds of the text score are the numbers of the     *)
(* code, in hundredths and exact.  Positions count from 1.                 *)
(***************************************************************************)
EXTENDS Integers, Sequences, FiniteSets, FiniteSetsExt, SequencesExt

CONSTANTS
  Bits,        \* the width of a byte
  Class,       \* Class[b]: what kind of character the byte is
  Frequent,    \* the characters of " etaoinshrdlu"
  Fold,        \* Fold[b]: the byte in lower case
  Words,       \* the words that tell text from noise ("config", "http", ...)
  Marker,      \* XOR_MARKER
  Limit,       \* the caps and lengths, by name
  Files        \* the contents a file may have

Bytes == 0 .. 2^Bits - 1
Classes == {"vowel", "consonant", "separator", "digit", "sign", "accented", "control"}

ASSUME StringRecoveryAssumption ==
  /\ Bits \in Nat \ {0} /\ Class \in [Bytes -> Classes]
  /\ Frequent \subseteq Bytes /\ Fold \in [Bytes -> Bytes]
  /\ Words \subseteq Seq(Bytes) \ {<<>>} /\ IsFiniteSet(Words) /\ Marker \in Seq(Bytes) \ {<<>>}
  /\ \A n \in {"tagged", "run", "longest", "region", "distinct", "key", "share",
               "candidates", "single", "repeated", "regions", "sample"} : Limit[n] \in Nat
  /\ Limit.tagged > 0 /\ Limit.run > 0 /\ Limit.share > 0
  /\ Files \subseteq Seq(Bytes)

VARIABLES
  data,   \* the bytes of the file
  stage,  \* the pass that is next
  found   \* what the passes before it recovered, in order

recovery == <<data, stage, found>>

Printable == {b \in Bytes : Class[b] \notin {"accented", "control"}}
Letters == {b \in Bytes : Class[b] \in {"vowel", "consonant"}}

Bit(b, k) == (b \div 2^k) % 2

Xor == [a, b \in Bytes |->
          MapThenSumSet(LAMBDA k : 2^k * ((Bit(a, k) + Bit(b, k)) % 2), 0 .. Bits - 1)]

\* value ^ key[index % key_length]; a single byte is a key of length 1.
Decoded(s, key) == [k \in DOMAIN s |-> Xor[s[k], key[((k - 1) % Len(key)) + 1]]]

IsText(s) == Range(s) \subseteq Printable

\* DecodedXorString.  A key is an int (kind "byte") or a bytes object.
Result(offset, kind, key, value) ==
  [offset |-> offset, kind |-> kind, key |-> key, value |-> value]

Clear(first1, last1, first2, last2) == last1 < first2 \/ last2 < first1

\* re.finditer of a class of bytes {lo,hi}: greedy, from left to right.
Matches(s, class, lo, hi) ==
  LET inside == {p \in DOMAIN s : s[p] \in class}
      from[c \in 1 .. Len(s) + 1] ==
        LET stop == Min({q \in c .. Len(s) + 1 : q \notin inside \/ q = c + hi})
        IN  IF c > Len(s) THEN <<>>
            ELSE IF stop - c < lo THEN from[c + 1]
            ELSE <<[first |-> c, last |-> stop - 1]>> \o from[stop]
  IN  from[1]

Folded(s) == [k \in DOMAIN s |-> Fold[s[k]]]

Occurs(word, s) ==
  \E p \in 1 .. Len(s) - Len(word) + 1 : SubSeq(s, p, p + Len(word) - 1) = word

\* A finite set in the order of a relation: its n-th element is the one that n - 1
\* others come before.
Sorted(S, R) ==
  [n \in 1 .. Cardinality(S) |->
     CHOOSE x \in S : Cardinality({y \in S \ {x} : <<y, x>> \in R}) = n - 1]

\* The order of bytes objects and of strings.
Smaller(s, t) ==
  \/ \E p \in DOMAIN s \cap DOMAIN t : s[p] < t[p] /\ \A q \in 1 .. p - 1 : s[q] = t[q]
  \/ IsStrictPrefix(s, t)

(***************************************************************************)
(* _text_score, as a fraction of Len(s): hundredths times the length.      *)
(***************************************************************************)
Count(s, S) == Cardinality({k \in DOMAIN s : s[k] \in S})
Separators == {b \in Bytes : Class[b] = "separator"}
Vowels == {b \in Bytes : Class[b] = "vowel"}

\* 0.2 <= vowel_ratio <= 0.6
NaturalVowels(s) ==
  LET letters == Max({1, Count(s, Letters)})
  IN  letters <= 5 * Count(s, Vowels) /\ 5 * Count(s, Vowels) <= 3 * letters

TextScore(s) ==
  IF Cardinality(Range(Folded(s))) < Limit.distinct THEN 0
  ELSE Min({100 * Len(s),
            65 * Count(s, Letters) + 60 * Count(s, Separators)
              + Len(s) * ((IF NaturalVowels(s) THEN 12 ELSE 0)
                          + 12 * Min({2, Cardinality({w \in Words : Occurs(w, Folded(s))})}))})

\* Mutant: the threshold that text without any known word can reach.
LowThreshold(s, percent) == TextScore(s) >= 75 * Len(s)

GoodEnough(s, percent) == TextScore(s) >= percent * Len(s)

\* A candidate is a result with its score and what breaks a tie of scores; the
\* scores of two compare as fractions.
Scored(tie, result) == [score |-> TextScore(result.value), tie |-> tie, result |-> result]

Better(c, e) == c.score * Len(e.result.value) > e.score * Len(c.result.value)

(***************************************************************************)
(* The marker loop: a record is the marker, the key, the length and the    *)
(* encoded bytes.  A record cut off by the end of the file ends the loop.  *)
(***************************************************************************)
RecordLength(n) == Len(Marker) + 2 + n

Tagged(d) ==
  LET from[c \in 1 .. Len(d) + 1] ==
        LET starts == {p \in c .. Len(d) - RecordLength(0) + 1 :
                         SubSeq(d, p, p + Len(Marker) - 1) = Marker}
            p      == Min(starts)
            body   == p + RecordLength(0)
            length == d[body - 1]
            value  == Decoded(SubSeq(d, body, body + length - 1), <<d[body - 2]>>)
        IN  IF starts = {} \/ body + length - 1 > Len(d) THEN <<>>
            ELSE (IF length >= Limit.tagged /\ IsText(value)
                    THEN <<Result(p, "byte", <<d[body - 2]>>, value)>> ELSE <<>>)
                 \o from[body + length]
  IN  from[1]

(***************************************************************************)
(* _markerless_single_byte.                                                *)
(***************************************************************************)
Sample(d) == SubSeq(d, 1, Min({Len(d), Limit.sample}))

FirstOf(s, n) == SubSeq(s, 1, Min({n, Len(s)}))

\* Candidates in the order of the keys; the cap ends the search, not the rank.
SingleCandidates(d, records) ==
  LET s == Sample(d)
      under(key) ==
        LET plain == Decoded(s, <<key>>)
            kept(m) ==
              /\ \A k \in DOMAIN records :
                   Clear(m.first, m.last, records[k].offset,
                         records[k].offset + RecordLength(Len(records[k].value)) - 1)
              /\ ~IsText(SubSeq(s, m.first, m.last))
              /\ GoodEnough(SubSeq(plain, m.first, m.last), 82)
            of(m) == Scored(m.first, Result(m.first, "byte", <<key>>,
                                            SubSeq(plain, m.first, m.last)))
            runs == Matches(plain, Printable, Limit.run, Limit.longest)
        IN  FlattenSeq([k \in DOMAIN runs |-> IF kept(runs[k]) THEN <<of(runs[k])>> ELSE <<>>])
  IN  FirstOf(FlattenSeq([key \in 1 .. 2^Bits - 1 |-> under(key)]), Limit.candidates)

LastOf(r) == r.offset + Len(r.value) - 1

Apart(r, t) == Clear(r.offset, LastOf(r), t.offset, LastOf(t))

\* Mutant: candidates are taken as they come.
Unranked(candidates) == [k \in DOMAIN candidates |-> candidates[k].result]

\* The stable sort by falling score, then by the tie-breaker of the pass.
Ranked(candidates) ==
  LET before(i, j) ==
        LET c == candidates[i]
            e == candidates[j]
        IN  \/ Better(c, e)
            \/ /\ ~Better(e, c)
               /\ c.tie < e.tie \/ (c.tie = e.tie /\ i < j)
      places == DOMAIN candidates
      order == Sorted(places, {p \in places \X places : before(p[1], p[2])})
  IN  [k \in places |-> candidates[order[k]].result]

\* The greedy choice of results that overlap neither each other nor the rest.
Accepted(ranked, occupied, cap) ==
  FoldLeft(LAMBDA taken, r :
             IF /\ Len(taken) < cap
                /\ \A k \in DOMAIN taken : Apart(r, taken[k])
                /\ \A k \in DOMAIN occupied : Apart(r, occupied[k])
             THEN Append(taken, r) ELSE taken,
           <<>>, ranked)

SingleByte(d, records) ==
  Accepted(Ranked(SingleCandidates(d, records)), <<>>, Limit.single)

(***************************************************************************)
(* _markerless_repeating_key.  Weights are twentieths of the code's.       *)
(***************************************************************************)
CharacterWeight ==
  LET lower == [b \in Bytes |->
                  IF Class[b] \in {"vowel", "consonant", "accented"} /\ Fold[b] = b THEN 5 ELSE 0]
  IN  [b \in Bytes |->
         CASE Fold[b] \in Frequent -> 60 + lower[b]
           [] Fold[b] \notin Frequent /\ Class[b] \in {"vowel", "consonant", "accented"} ->
                40 + lower[b]
           [] Fold[b] \notin Frequent /\ Class[b] \in {"digit", "separator"} -> 30
           [] Fold[b] \notin Frequent /\ Class[b] = "sign" -> 4
           [] Class[b] = "control" -> -160]

\* The smallest non-zero key byte of the greatest weight over encoded[position::n].
InferredByte(encoded, n, position) ==
  LET column == {k \in DOMAIN encoded : (k - 1) % n = position - 1}
      weight(key) == MapThenSumSet(LAMBDA k : CharacterWeight[Xor[encoded[k], key]], column)
      most == Max({weight(key) : key \in 1 .. 2^Bits - 1})
  IN  Min({key \in 1 .. 2^Bits - 1 : weight(key) = most})

InferredKey(encoded, n) == [position \in 1 .. n |-> InferredByte(encoded, n, position)]

KeyLengths(encoded) == 2 .. Min({Limit.key, Len(encoded) \div Limit.share})

RepeatingCandidates(d) ==
  LET s == Sample(d)
      regions == FirstOf(Matches(s, Bytes \ {0}, Limit.run, Limit.region), Limit.regions)
      under(m, n) ==
        LET encoded == SubSeq(s, m.first, m.last)
            key     == InferredKey(encoded, n)
            value   == Decoded(encoded, key)
        IN  IF /\ Cardinality(Range(key)) > 1 /\ IsText(value) /\ GoodEnough(value, 86)
            THEN <<Scored(Len(value), Result(m.first, "bytes", key, value))>> ELSE <<>>
      of(m) ==
        LET encoded == SubSeq(s, m.first, m.last)
        IN  IF IsText(encoded) THEN <<>>
            ELSE FlattenSeq([n \in 1 .. Max(KeyLengths(encoded) \union {1}) |->
                               IF n = 1 THEN <<>> ELSE under(m, n)])
  IN  FlattenSeq([k \in DOMAIN regions |-> of(regions[k])])

\* Mutant: the pass does not look at what the passes before it recovered.
RepeatingAnywhere(d, occupied) ==
  Accepted(Ranked(RepeatingCandidates(d)), <<>>, Limit.repeated)

\* A record already found counts with the length of its text alone, not of its header.
RepeatingKey(d, occupied) ==
  Accepted(Ranked(RepeatingCandidates(d)), occupied, Limit.repeated)

(***************************************************************************)
(* find_xor_strings: the three passes and the final sort.  Two results of  *)
(* one offset are ordered by their keys; an int and a bytes object do not  *)
(* compare, and sorted() raises TypeError.                                 *)
(***************************************************************************)
Uncomparable(results) ==
  \E r, t \in Range(results) : r.offset = t.offset /\ r.kind # t.kind

\* unique, by offset, then key; no two results of one offset differ in the key's kind.
InOrder(results) ==
  LET before(r, t) == r.offset < t.offset \/ (r.offset = t.offset /\ Smaller(r.key, t.key))
      members == Range(results)
  IN  Sorted(members, {p \in members \X members : before(p[1], p[2])})

RecoveryInit ==
  /\ data \in Files
  /\ stage = "tagged"
  /\ found = <<>>

RecoverTagged ==
  /\ stage = "tagged"
  /\ found' = Tagged(data)
  /\ stage' = "single"
  /\ UNCHANGED data

BruteForce ==
  /\ stage = "single"
  /\ found' = found \o SingleByte(data, found)
  /\ stage' = "repeating"
  /\ UNCHANGED data

InferKeys ==
  /\ stage = "repeating"
  /\ found' = found \o RepeatingKey(data, found)
  /\ stage' = "sort"
  /\ UNCHANGED data

SortResults ==
  /\ stage = "sort"
  /\ IF Uncomparable(found)
       THEN stage' = "raised" /\ UNCHANGED found
       ELSE stage' = "done" /\ found' = InOrder(found)
  /\ UNCHANGED data

RecoveryNext == RecoverTagged \/ BruteForce \/ InferKeys \/ SortResults

RecoverySpec == RecoveryInit /\ [][RecoveryNext]_recovery

(***************************************************************************)
(* Properties.                                                             *)
(***************************************************************************)

\* The results always have an order: int keys and bytes keys never meet at
\* one offset, because every pass keeps off what the passes before it hold.
ResultsSortable == stage # "raised"

EncodedPlace(r) ==
  IF r.kind = "byte" /\ SubSeq(data, r.offset, r.offset + Len(Marker) - 1) = Marker
     /\ data[r.offset + Len(Marker) + 1] = Len(r.value)
  THEN {r.offset, r.offset + RecordLength(0)} ELSE {r.offset}

\* A result is evidence: the bytes at its place decode to its text under its
\* key, the text is printable where the bytes are not or are tagged, and text
\* that no marker vouches for holds a known word, since letters, separators
\* and vowels alone score at most 77 hundredths.
ResultsAreEvidence ==
  stage = "done" =>
    /\ \A r \in Range(found) :
         /\ IsText(r.value)
         /\ \E p \in EncodedPlace(r) :
              /\ p + Len(r.value) - 1 <= Len(data)
              /\ Decoded(SubSeq(data, p, p + Len(r.value) - 1), r.key) = r.value
              /\ p = r.offset =>
                   /\ ~IsText(SubSeq(data, p, LastOf(r)))
                   /\ \E w \in Words : Occurs(w, Folded(r.value))
    /\ \A j, k \in DOMAIN found :
         j < k => found[j].offset < found[k].offset /\ Apart(found[j], found[k])

\* The greedy choice loses only to something at least as good: a single-byte
\* candidate that was not taken overlaps one taken whose text does not score
\* lower, unless the pass was already full.
BetterTextWins ==
  stage = "repeating" =>
    LET candidates == Range(SingleCandidates(data, Tagged(data)))
        taken == {c \in candidates : c.result \in Range(found)}
    IN  Cardinality(taken) < Limit.single =>
          \A c \in candidates : \E e \in taken : ~Apart(c.result, e.result) /\ ~Better(c, e)
=============================================================================
