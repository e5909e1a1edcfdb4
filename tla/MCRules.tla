------------------------------ MODULE MCRules ------------------------------
(***************************************************************************)
(* The analyses of one feature index: CffRule on every graph of up to six  *)
(* blocks of a few shapes, and StringRecovery and YaraRule on files of     *)
(* three-bit bytes, every one of up to three bytes and those put together  *)
(* from up to three pieces.  The graph is grown for the empty file alone,  *)
(* since neither analysis reads what the other does.                       *)
(***************************************************************************)
EXTENDS CffRule, YaraRule

Bl(tiny, exit, to) == [tiny |-> tiny, exit |-> exit, to |-> to, indirect |-> FALSE]

\* A register holds where it goes.
Through(exit) == [Bl(TRUE, exit, 0) EXCEPT !.indirect = TRUE]

AllShapes ==
  {Bl(FALSE, "plain", 0), Bl(TRUE, "conditional", 5), Bl(TRUE, "jump", 2),
   Bl(TRUE, "call", 2), Through("jump"), Through("call")}

\* 4 is "e" and 7 is "E", 5 is "t", 6 is "."; 3 is an accented letter.
MCClass ==
  [b \in 0 .. 7 |-> CASE b \in {4, 7} -> "vowel" [] b = 5 -> "consonant" [] b = 6 -> "separator"
                      [] b = 3 -> "accented" [] b < 3 -> "control"]
MCFrequent == {4, 5}
MCFold == [b \in 0 .. 7 |-> IF b = 7 THEN 4 ELSE b]
MCWords == {<<5, 4>>, <<4, 5>>}
MCMarker == <<1>>
MCLimit ==
  [tagged |-> 2, run |-> 3, longest |-> 4, region |-> 6, distinct |-> 2, key |-> 3, share |-> 2,
   candidates |-> 3, single |-> 2, repeated |-> 1, regions |-> 2, sample |-> 10]
MCLiteral ==
  [run |-> 2, least |-> 3, most |-> 6, distinct |-> 2, letters |-> 2, cap |-> 2, size |-> 32]

\* Plain text, records (one of them cut off), text under one byte and under two, noise.
Pieces ==
  {<<0>>, <<4, 5, 4>>, <<5, 4, 7, 6>>, <<1, 4, 3, 0, 1, 1>>, <<1, 4, 3, 0>>, <<2, 1, 0>>,
   <<1, 0, 0>>, <<3, 1, 1, 1>>, <<3, 2>>}
MCFiles == BoundedSeq(0 .. 7, 3) \cup {FlattenSeq(s) : s \in BoundedSeq(Pieces, 3)}

Rq(container, imports, max, fallback) ==
  [container |-> container, imports |-> imports, max |-> max, fallback |-> fallback]
RawRequests == {Rq("raw", <<>>, m, f) : m \in 0 .. 3, f \in BOOLEAN}
AllRequests ==
  RawRequests \cup {Rq("pe", <<<<5, 4, 5>>>>, 2, FALSE), Rq("pe", <<>>, 1, FALSE),
                    Rq("elf", <<<<5, 4, 5>>, <<4, 5, 4>>>>, 2, FALSE)}
MCNoisy == {<<4, 4, 5>>}
MCSections == {<<6, 5>>}

RulesInit == Init /\ YaraInit

RulesNext ==
  \/ data = <<>> /\ stage = "tagged" /\ Next /\ UNCHANGED yaraVars
  \/ blocks = <<>> /\ ~verdict.done /\ YaraNext /\ UNCHANGED vars

RulesSpec == RulesInit /\ [][RulesNext]_<<vars, yaraVars>>
=============================================================================
