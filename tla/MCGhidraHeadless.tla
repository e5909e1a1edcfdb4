--------------------------- MODULE MCGhidraHeadless ---------------------------
(* Two calls on two images that export different functions, two directory     *)
(* names, one function whose record breaks, and a launcher that forks, on      *)
(* either platform.                                                           *)
EXTENDS GhidraHeadless, TLC

CONSTANTS r1, r2, i1, i2, f1, f2, g1, d1, d2

MCRequests == {r1, r2}
MCImages == {i1, i2}
MCFunctions == {f1, f2, g1}
MCFunctionsOf == (i1 :> {f1, f2}) @@ (i2 :> {g1})
MCNativeOf == (i1 :> {f1}) @@ (i2 :> {})
MCDirs == {d1, d2}
MCBreaks == {f2}
MCPlatforms == {"posix", "windows"}

\* One image, for the runs that end with a counterexample.
OneImage == {i1}
TwoFunctions == {f1, f2}
OneFunctionsOf == i1 :> {f1, f2}
OneNativeOf == i1 :> {f1}
OneDir == {d1}
===============================================================================
