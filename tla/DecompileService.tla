--------------------------- MODULE DecompileService ---------------------------
(***************************************************************************)
(* What a caller of DecompilerSelector.decompile may rely on, whatever     *)
(* backend serves it: a request that was made is answered once, either     *)
(* with functions of the very image it passed or with one failure, and an  *)
(* answer given is never revised.  The answer comes, however long a program*)
(* the service started runs, unless that program could not be stopped and  *)
(* holds the call for ever.  GhidraHeadless implements it.                 *)
(***************************************************************************)
CONSTANTS
    Requests,    \* calls of decompile, possibly concurrent
    Images,      \* byte strings a caller may pass
    Functions,   \* decompiled functions
    FunctionsOf, \* FunctionsOf[i]: what Ghidra can export for image i
    NativeOf     \* NativeOf[i]: what the native lifter returns for image i
\* Both are functions from Images to sets of Functions.

VARIABLES
    asked,       \* asked[r]: the set holding r's image, {} before the call
    answer,      \* answer[r]: Waiting, or what the call returned or raised
    held         \* the calls kept waiting by a program that was not stopped

vars == <<asked, answer, held>>

Waiting == [kind |-> "waiting"]
Returned(backend, fs) ==
    [kind |-> "functions", backend |-> backend, functions |-> fs]
Raised(error) == [kind |-> "failure", error |-> error]

\* The exception a failed call may surface as, by the place that raises it.
Errors == {"configuration", "unavailable", "native", "timeout", "execution",
           "output", "decode", "os"}

\* Ghidra never answers with nothing; the native lifter answers for its image.
Answers(i) ==
    {Returned("ghidra", fs) : fs \in (SUBSET FunctionsOf[i]) \ {{}}}
        \cup {Returned("native", NativeOf[i])}
        \cup {Raised(e) : e \in Errors}

Init ==
    /\ asked = [r \in Requests |-> {}]
    /\ answer = [r \in Requests |-> Waiting]
    /\ held = {}

\* Building the selector may already fail, and then the call never starts.
Ask(r) ==
    /\ asked[r] = {}
    /\ \E i \in Images : asked' = [asked EXCEPT ![r] = {i}]
    /\ \/ UNCHANGED answer
       \/ answer' = [answer EXCEPT ![r] = Raised("configuration")]
    /\ UNCHANGED held

Answer(r) ==
    /\ answer[r] = Waiting /\ r \notin held
    /\ \E i \in asked[r] : \E a \in Answers(i) :
           answer' = [answer EXCEPT ![r] = a]
    /\ UNCHANGED <<asked, held>>

\* A program the service started for r was not stopped, and r waits for it.
Hold(r) ==
    /\ asked[r] # {} /\ answer[r] = Waiting /\ r \notin held
    /\ held' = held \cup {r}
    /\ UNCHANGED <<asked, answer>>

Release(r) == r \in held /\ held' = held \ {r} /\ UNCHANGED <<asked, answer>>

Next == \E r \in Requests : Ask(r) \/ Answer(r) \/ Hold(r) \/ Release(r)

\* A call that is not held for ever is answered.
Spec == Init /\ [][Next]_vars /\ \A r \in Requests : SF_vars(Answer(r))
===============================================================================
