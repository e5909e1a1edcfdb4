---------------------------- MODULE MCReverseScan -----------------------------
(* Two PE samples with different hashes and a script; a header of the one PE   *)
(* before the rest of the other parses, one before a script does not.          *)
(* Databases in which a record is missing, curated, a fixture, overridden both *)
(* ways, of the other algorithm, damaged.                                      *)
EXTENDS CommandLine, TLC

CONSTANTS pe1, pe2, script

MCSamples == {pe1, pe2, script}
MCShape ==
    [r \in Readings |-> IF r.head = script THEN "raw" ELSE IF r.rest = script THEN "bad" ELSE "pe"]
MCDigest ==
    [r \in Readings |-> IF r.rest = pe1 THEN "h1" ELSE IF r.rest = pe2 THEN "h2" ELSE "h0"]
MCDetections ==
    [r \in Readings |-> IF r.rest = pe1 THEN <<"credential", "rule">>
                        ELSE IF r.rest = pe2 THEN <<>> ELSE <<"crypto">>]

R(h, a, p) == [digest |-> h, algorithm |-> a, provenance |-> p]
Good == R("h1", "pe-imphash-v1", "curated")
Fixture == R("h1", "pe-imphash-v1", "fixture")
SetHash == R("h2", "import-set-md5-v1", "analyst-verified")
Bad == R(NoDigest, "pe-imphash-v1", "curated")

MCDatabases ==
    {Absent, Corrupt}
        \cup {Stored(rs) : rs \in {<<>>, <<Good>>, <<Fixture>>, <<Good, Fixture>>,
                                   <<Fixture, Good>>, <<SetHash>>, <<Good, Bad>>}}

\* Fewer contents, for the run that ends with a counterexample.
FewSamples == {pe1, script}
FewDatabases == {Absent, Stored(<<Good>>)}

\* A PE image with one function of two libraries, a local one that is imported
\* as well and an entry point of its own; one that starts at its only
\* function, which its table lists twice.
Im(n, d, a) == [name |-> n, dll |-> d, address |-> a]
Lo(n, a) == [name |-> n, address |-> a]
MCImages ==
    (pe1 :> Pe(<<Im("f", "k", 1), Im("f", "k", 2), Im("f", "u", 3)>>, <<Lo("f", 4), Lo("g", 5)>>, 6))
        @@ (pe2 :> Pe(<<>>, <<Lo("g", 5), Lo("g", 5)>>, 5))
FewImages == [s \in {pe1} |-> MCImages[s]]
MCFakeImage == Pe(<<Im("f", "k", 1)>>, <<Lo("f", 4)>>, 4)
===============================================================================
