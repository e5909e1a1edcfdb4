----------------------------- MODULE ScanService ------------------------------
(***************************************************************************)
(* What the gateway may rely on when it has a file scanned: the scan is    *)
(* answered once, and an answer with findings is about one reading of the  *)
(* file, taken during the call.  A file that is rewritten in place while   *)
(* it is read may give a reading of two contents, the first block of the   *)
(* one and the rest of the other; then both were in the file during the    *)
(* call.  So a file that nobody touches is answered as what it is, and     *)
(* findings are never about several readings.  ReverseScan implements it.  *)
(***************************************************************************)
CONSTANTS
    Samples,     \* contents a file may have
    NoFile       \* what a path without a file names, and no reading

VARIABLES
    found,       \* the contents of the file, and of a former one still open
    seen,        \* all of them from the request until the reading is taken
    taken,       \* the reading the scan is about, NoFile before it is taken
    asked,       \* the scan was started
    reply        \* Pending, or how the scan ended

vars == <<found, seen, taken, asked, reply>>

Pending == [kind |-> "pending"]
Findings(r) == [kind |-> "findings", about |-> r]
Error == [kind |-> "error"]
Raised == [kind |-> "raised"]

Init ==
    /\ found \in SUBSET Samples
    /\ seen = {}
    /\ taken = NoFile
    /\ asked = FALSE
    /\ reply = Pending

\* Anybody may rewrite, replace or remove the file at any time.
Rewrite ==
    /\ found' \in SUBSET Samples
    /\ seen' \in {seen, seen \cup found'}
    /\ asked /\ taken = NoFile /\ reply = Pending => seen' = seen \cup found'
    /\ UNCHANGED <<taken, asked, reply>>

Ask ==
    /\ ~asked /\ asked' = TRUE
    /\ seen' = found
    /\ UNCHANGED <<found, taken, reply>>

\* The one time the scan takes the content; it lets go of the file.
Take ==
    /\ asked /\ reply = Pending
    /\ taken = NoFile
    /\ taken' \in [head : seen, rest : seen]
    /\ found' \in SUBSET found
    /\ seen' = {}
    /\ UNCHANGED <<asked, reply>>

Answer ==
    /\ asked /\ reply = Pending
    /\ \/ taken # NoFile /\ reply' = Findings(taken)
       \/ reply' \in {Error, Raised}
    /\ found' \in SUBSET found
    /\ seen' \in {seen, {}}
    /\ UNCHANGED <<taken, asked>>

Next == Rewrite \/ Ask \/ Take \/ Answer

Spec == Init /\ [][Next]_vars /\ WF_vars(Answer)
===============================================================================
