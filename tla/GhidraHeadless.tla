---------------------------- MODULE GhidraHeadless ----------------------------
(***************************************************************************)
(* decompilers/selector.py, decompilers/ghidra.py and the exporter script  *)
(* that runs inside the headless analyzer.  Several calls may be in flight *)
(* (threads of a worker, or CLI processes on one host); they share the     *)
(* host's temporary directory and its Ghidra installation.                 *)
(*                                                                         *)
(* Order inside one call is the code's: configure, select, stage, launch,  *)
(* wait (collect or time out), leave the TemporaryDirectory block, check   *)
(* the status, parse.  Between any two of these steps the other calls, the *)
(* analyzer processes and the host may move.  The standard output of a run *)
(* is kept as the SET of its lines: no step of the parser depends on their *)
(* order, only on whether a prefixed line fails to decode.                 *)
(***************************************************************************)
EXTENDS Naturals, Sequences, FiniteSets

CONSTANTS
    Requests, Images, Functions, FunctionsOf, NativeOf, \* see DecompileService
    Dirs,        \* names mkdtemp may pick under the temporary directory
    Breaks,      \* functions whose exported record escape() leaves with a
                 \* line boundary inside (U+0085, U+2028, U+2029)
    Forks,       \* the launcher is a script whose analyzer outlives its kill
    Platforms,   \* where the host may run; they differ in subprocess.run
    NoDir, NoImage

ASSUME GhidraAssumption ==
    /\ FunctionsOf \in [Images -> SUBSET Functions]
    /\ NativeOf \in [Images -> SUBSET Functions]
    /\ Breaks \subseteq Functions
    /\ Forks \in BOOLEAN
    /\ Platforms \subseteq {"posix", "windows"} /\ Platforms # {}
    /\ NoDir \notin Dirs
    /\ NoImage \notin Images

VARIABLES
    pc,          \* the next step of each call
    image,       \* the bytes passed to each call
    chain,       \* the backends of the call's selector, in priority order
    installed,   \* shutil.which(executable) finds the launcher
    workspace,   \* the TemporaryDirectory each call has open
    disk,        \* the sample.bin in each directory that exists
    process,     \* the analyzer started for each call
    stdout,      \* lines the analyzer of each call has written
    pending,     \* what leaves the with block: "completed" or an exception
    answer       \* what decompile returned or raised

vars == <<pc, image, chain, installed, workspace, disk, process, stdout,
          pending, answer>>
host == <<installed, disk>>
local == <<image, chain, workspace, process, stdout, pending, answer>>

\* Call r waits, without a timeout, for an analyzer it could not stop.
Held(r) == pc[r] = "drain" /\ process[r].state = "orphaned"

Service == INSTANCE DecompileService
               WITH asked <- [r \in Requests |-> {image[r]} \ {NoImage}],
                    held <- {r \in Requests : Held(r)}

-------------------------------------------------------------------------------
Settings == {"native", "ghidra", "auto", "other"}   \* AI_REVERSE_DECOMPILER

Chains == {<<>>, <<"native">>, <<"ghidra", "native">>, <<"ghidra">>}

\* The lines of standard output.  A prefixed line is a record when it decodes.
Diagnostic == [tag |-> "diagnostic"]
Broken     == [tag |-> "broken"]
Record(f)  == [tag |-> "record", function |-> f]
Lines      == {Diagnostic, Broken} \cup {Record(f) : f \in Functions}

\* println(PREFIX + toJson(f)): escape() encodes the characters below 0x20 and
\* passes the other line boundaries of str.splitlines() through, so such a
\* record reaches the parser as a truncated prefixed line and an ordinary one.
Exported(f) == IF f \in Breaks THEN {Broken, Diagnostic} ELSE {Record(f)}

Idle     == [state |-> "none", todo |-> {}, code |-> 0]
Started  == [state |-> "started", todo |-> {}, code |-> 0]
Ended(s, c) == [state |-> s, todo |-> {}, code |-> c]

\* An analyzer that outlives the kill of its launcher is orphaned, then gone.
Survivor == {"orphaned", "gone"}

Processes == [state : {"none", "started", "exporting", "exited", "killed"}
                          \cup Survivor,
              todo : SUBSET Functions, code : {0, 1}]

Control == {"idle", "select", "lift", "stage", "launch", "wait", "drain", "leave",
            "check", "done"}

Endings == {"none", "completed", "timeout", "execution", "decode"}

AnswerType ==
    {Service!Waiting} \cup {Service!Raised(e) : e \in Service!Errors}
        \cup {Service!Returned(b, fs) :
                b \in {"ghidra", "native"}, fs \in SUBSET Functions}

Alive(r) == process[r].state \in {"started", "exporting"}

Recorded(r) == {f \in Functions : Record(f) \in stdout[r]}

\* Mutated form: lines that fail to decode are skipped.
ParsedLeniently(r) ==
    IF Recorded(r) = {} THEN Service!Raised("output")
    ELSE Service!Returned("ghidra", Recorded(r))

\* parse_recorded_output: one bad prefixed line spoils the run, and a run
\* without any record is an error too.
Parsed(r) ==
    IF Broken \in stdout[r] \/ Recorded(r) = {}
    THEN Service!Raised("output")
    ELSE Service!Returned("ghidra", Recorded(r))

Init ==
    /\ pc = [r \in Requests |-> "idle"]
    /\ image = [r \in Requests |-> NoImage]
    /\ chain = [r \in Requests |-> <<>>]
    /\ installed \in BOOLEAN
    /\ workspace = [r \in Requests |-> NoDir]
    /\ disk = [d \in Dirs |-> NoImage]
    /\ process = [r \in Requests |-> Idle]
    /\ stdout = [r \in Requests |-> {}]
    /\ pending = [r \in Requests |-> "none"]
    /\ answer = [r \in Requests |-> Service!Waiting]

Goto(r, from, to) == pc[r] = from /\ pc' = [pc EXCEPT ![r] = to]

Finish(r, from, a) ==
    /\ Goto(r, from, "done")
    /\ answer' = [answer EXCEPT ![r] = a]

-------------------------------------------------------------------------------
(* The calling thread. *)

\* default_decompiler_selector: the environment names the chain, and building
\* the Ghidra backend validates the configured timeout even when Ghidra is
\* not installed and native would serve.
Configure(r, i, setting, timeoutValid) ==
    /\ image' = [image EXCEPT ![r] = i]
    /\ \/ /\ setting = "native"
          /\ Goto(r, "idle", "select")
          /\ chain' = [chain EXCEPT ![r] = <<"native">>]
          /\ UNCHANGED answer
       \/ /\ setting \in {"ghidra", "auto"} /\ timeoutValid
          /\ Goto(r, "idle", "select")
          /\ chain' = [chain EXCEPT ![r] = <<"ghidra", "native">>]
          /\ UNCHANGED answer
       \/ /\ setting = "other" \/ (setting # "native" /\ ~timeoutValid)
          /\ Finish(r, "idle", Service!Raised("configuration"))
          /\ UNCHANGED chain
    /\ UNCHANGED <<host, workspace, process, stdout, pending>>

\* A caller that builds its own DecompilerSelector with Ghidra alone.
Inject(r, i) ==
    /\ Goto(r, "idle", "select")
    /\ image' = [image EXCEPT ![r] = i]
    /\ chain' = [chain EXCEPT ![r] = <<"ghidra">>]
    /\ UNCHANGED <<host, workspace, process, stdout, pending, answer>>

\* available(): native always is, Ghidra is when its launcher is on PATH.
Available(backend) == backend = "native" \/ installed

\* Mutated form: the control follows the backend's name.
SelectByName(r) ==
    /\ chain[r] # <<>> /\ Goto(r, "select", Head(chain[r]))
    /\ UNCHANGED <<host, image, chain, workspace, process, stdout, pending, answer>>

\* selected_backend: the first available backend serves, for good.
Select(r) ==
    LET usable == {k \in DOMAIN chain[r] : Available(chain[r][k])}
        first == CHOOSE k \in usable : \A j \in usable : k <= j
    IN  /\ \/ /\ usable # {}
              /\ Goto(r, "select",
                      IF chain[r][first] = "native" THEN "lift" ELSE "stage")
              /\ UNCHANGED answer
           \/ /\ usable = {}
              /\ Finish(r, "select", Service!Raised("unavailable"))
        /\ UNCHANGED <<host, image, chain, workspace, process, stdout, pending>>

\* The native lifter; it raises ValueError for options Capstone cannot take.
Lift(r) ==
    /\ \/ Finish(r, "lift", Service!Returned("native", NativeOf[image[r]]))
       \/ Finish(r, "lift", Service!Raised("native"))
    /\ UNCHANGED <<host, image, chain, workspace, process, stdout, pending>>

\* Mutated form: a fixed directory name instead of a fresh one.
StageShared(r) ==
    /\ Goto(r, "stage", "launch")
    /\ LET d == CHOOSE e \in Dirs : TRUE
       IN  /\ disk' = [disk EXCEPT ![d] = image[r]]
           /\ workspace' = [workspace EXCEPT ![r] = d]
    /\ UNCHANGED <<installed, image, chain, process, stdout, pending, answer>>

\* Enter TemporaryDirectory, make the project directory, write sample.bin.
Stage(r) ==
    /\ Goto(r, "stage", "launch")
    /\ \E d \in {e \in Dirs : disk[e] = NoImage} :
           /\ disk' = [disk EXCEPT ![d] = image[r]]
           /\ workspace' = [workspace EXCEPT ![r] = d]
    /\ UNCHANGED <<installed, image, chain, process, stdout, pending, answer>>

\* An OSError of mkdtemp, mkdir or write_bytes; what exists is removed again.
StageFails(r) ==
    /\ Finish(r, "stage", Service!Raised("os"))
    /\ UNCHANGED <<host, image, chain, workspace, process, stdout, pending>>

\* subprocess.run starts the launcher, which may be gone since Select.
Launch(r) ==
    /\ \/ /\ installed
          /\ Goto(r, "launch", "wait")
          /\ process' = [process EXCEPT ![r] = Started]
          /\ UNCHANGED pending
       \/ /\ ~installed
          /\ Goto(r, "launch", "leave")
          /\ pending' = [pending EXCEPT ![r] = "execution"]
          /\ UNCHANGED process
    /\ UNCHANGED <<host, image, chain, workspace, stdout, answer>>

\* The analyzer ended in time: subprocess.run returns its status and output,
\* unless text=True meets bytes that are not text (UnicodeDecodeError, which no
\* handler names).
Collect(r) ==
    /\ process[r].state = "exited"
    /\ Goto(r, "wait", "leave")
    /\ \E e \in {"completed", "decode"} : pending' = [pending EXCEPT ![r] = e]
    /\ UNCHANGED <<host, image, chain, workspace, process, stdout, answer>>

\* Mutated form: no timeout is passed, so only an ended analyzer is left.
TimeoutMissing(r) ==
    /\ ~Alive(r)
    /\ Goto(r, "wait", "leave")
    /\ pending' = [pending EXCEPT ![r] = "timeout"]
    /\ UNCHANGED <<host, image, chain, workspace, process, stdout, answer>>

\* The timeout expires, possibly just as the analyzer ends.  subprocess.run
\* kills the process it started, which is the launcher.  On POSIX it waits for
\* that process and raises; on Windows it first reads both pipes to their end.
Timeout(r) ==
    /\ \/ /\ "posix" \in Platforms /\ Goto(r, "wait", "leave")
          /\ pending' = [pending EXCEPT ![r] = "timeout"]
       \/ /\ "windows" \in Platforms /\ Goto(r, "wait", "drain")
          /\ UNCHANGED pending
    /\ \/ /\ Alive(r)
          /\ \E s \in {"killed"} \cup (IF Forks THEN {"orphaned"} ELSE {}) :
                 process' = [process EXCEPT ![r] = Ended(s, 0)]
       \/ ~Alive(r) /\ UNCHANGED process
    /\ UNCHANGED <<host, image, chain, workspace, stdout, answer>>

\* communicate() after the kill has no timeout: the pipes end only when no
\* process holds them, and what was read may not be text.
Drain(r) ==
    /\ process[r].state # "orphaned"
    /\ Goto(r, "drain", "leave")
    /\ \E e \in {"timeout", "decode"} : pending' = [pending EXCEPT ![r] = e]
    /\ UNCHANGED <<host, image, chain, workspace, process, stdout, answer>>

\* Mutated forms: mkdtemp without the with block's clean-up after an exception;
\* and native answering for a Ghidra run that failed.
LeaveKeeps(r) ==
    IF pending[r] = "completed"
    THEN /\ Goto(r, "leave", "check")
         /\ disk' = [disk EXCEPT ![workspace[r]] = NoImage]
         /\ workspace' = [workspace EXCEPT ![r] = NoDir]
         /\ UNCHANGED <<installed, image, chain, process, stdout, pending, answer>>
    ELSE /\ Finish(r, "leave", Service!Raised(pending[r]))
         /\ UNCHANGED <<host, image, chain, workspace, process, stdout, pending>>

LeaveFallsBack(r) ==
    /\ Goto(r, "leave", IF pending[r] = "completed" THEN "check" ELSE "lift")
    /\ disk' = [disk EXCEPT ![workspace[r]] = NoImage]
    /\ workspace' = [workspace EXCEPT ![r] = NoDir]
    /\ UNCHANGED <<installed, image, chain, process, stdout, pending, answer>>

\* Leaving the with block removes the workspace, then lets the pending
\* exception through.
Leave(r) ==
    /\ IF pending[r] = "completed"
       THEN Goto(r, "leave", "check") /\ UNCHANGED answer
       ELSE Finish(r, "leave", Service!Raised(pending[r]))
    /\ disk' = [disk EXCEPT ![workspace[r]] = NoImage]
    /\ workspace' = [workspace EXCEPT ![r] = NoDir]
    /\ UNCHANGED <<installed, image, chain, process, stdout, pending>>

\* A surviving analyzer still holds the project directory: the removal raises
\* OSError, which replaces the exception that was on its way out.
LeaveFails(r) ==
    /\ process[r].state = "orphaned"
    /\ Finish(r, "leave", Service!Raised("os"))
    /\ UNCHANGED <<host, image, chain, workspace, process, stdout, pending>>

\* Mutated form: check=False and nobody looks at the status.
CheckIgnoresStatus(r) ==
    /\ Finish(r, "check", Parsed(r))
    /\ UNCHANGED <<host, image, chain, workspace, process, stdout, pending>>

\* A non-zero status is an error; otherwise the output is parsed.
Check(r) ==
    /\ Finish(r, "check", IF process[r].code # 0
                          THEN Service!Raised("execution")
                          ELSE Parsed(r))
    /\ UNCHANGED <<host, image, chain, workspace, process, stdout, pending>>

-------------------------------------------------------------------------------
(* The analyzer process and the host. *)

\* -import: the analyzer reads the sample that is on disk when it gets to it.
Import(r) ==
    /\ process[r].state = "started"
    /\ process' = [process EXCEPT ![r].state = "exporting",
                                  ![r].todo = FunctionsOf[disk[workspace[r]]]]
    /\ stdout' = [stdout EXCEPT ![r] = @ \cup {Diagnostic}]
    /\ UNCHANGED <<host, pc, image, chain, workspace, pending, answer>>

\* One round of the exporter's loop: a function whose decompilation did not
\* complete is skipped, any other is printed.
Export(r) ==
    /\ process[r].state = "exporting"
    /\ \E f \in process[r].todo :
           /\ process' = [process EXCEPT ![r].todo = @ \ {f}]
           /\ \/ stdout' = [stdout EXCEPT ![r] = @ \cup Exported(f)]
              \/ UNCHANGED stdout
    /\ UNCHANGED <<host, pc, image, chain, workspace, pending, answer>>

\* The script ends when no function is left or its monitor is cancelled; the
\* status is 0 in both cases.  A crash, at any time, leaves another status.
Exit(r) ==
    /\ \/ /\ process[r].state = "exporting"
          /\ process' = [process EXCEPT ![r] = Ended("exited", 0)]
       \/ /\ Alive(r)
          /\ process' = [process EXCEPT ![r] = Ended("exited", 1)]
    /\ UNCHANGED <<host, pc, image, chain, workspace, stdout, pending, answer>>

\* An orphaned analyzer comes to its end, if it ever does.
Expire(r) ==
    /\ process[r].state = "orphaned"
    /\ process' = [process EXCEPT ![r].state = "gone"]
    /\ UNCHANGED <<host, pc, image, chain, workspace, stdout, pending, answer>>

\* Somebody installs or removes Ghidra, or edits PATH.
Toggle ==
    /\ installed' = ~installed
    /\ UNCHANGED <<disk, pc, local>>

-------------------------------------------------------------------------------
Step(r) ==
    \/ Select(r) \/ Lift(r) \/ Stage(r) \/ StageFails(r) \/ Launch(r)
    \/ Collect(r) \/ Timeout(r) \/ Drain(r) \/ Leave(r) \/ LeaveFails(r) \/ Check(r)

Analyzer(r) == Import(r) \/ Export(r) \/ Exit(r) \/ Expire(r)

Call(r) ==
    \E i \in Images :
        \/ Inject(r, i)
        \/ \E s \in Settings, valid \in BOOLEAN : Configure(r, i, s, valid)

Next ==
    \/ \E r \in Requests : Call(r) \/ Step(r) \/ Analyzer(r)
    \/ Toggle

\* Only the calling threads are fair: they run until they return, and waiting
\* ends because subprocess.run is given a finite timeout.  Analyzers may hang,
\* orphaned ones too.
Spec == Init /\ [][Next]_vars /\ \A r \in Requests : WF_vars(Step(r))

-------------------------------------------------------------------------------
(* Properties. *)

\* Every variable keeps the shape the code gives it.
TypeOK ==
    /\ pc \in [Requests -> Control]
    /\ image \in [Requests -> Images \cup {NoImage}]
    /\ chain \in [Requests -> Chains]
    /\ installed \in BOOLEAN
    /\ workspace \in [Requests -> Dirs \cup {NoDir}]
    /\ disk \in [Dirs -> Images \cup {NoImage}]
    /\ process \in [Requests -> Processes]
    /\ stdout \in [Requests -> SUBSET Lines]
    /\ pending \in [Requests -> Endings]
    /\ answer \in [Requests -> AnswerType]

\* A directory on the host's disk belongs to one call and holds the sample of
\* that call, which is still between staging and leaving it or lost it to an
\* analyzer that survived the kill: concurrent calls never share a project.
WorkspaceOwned ==
    \A d \in Dirs : disk[d] # NoImage =>
        \E r \in Requests :
            /\ workspace[r] = d /\ disk[d] = image[r]
            /\ \A q \in Requests \ {r} : workspace[q] # d
            /\ pc[r] \in {"launch", "wait", "drain", "leave"}
               \/ process[r].state \in Survivor

\* Functions returned by Ghidra are functions of the caller's own image, all
\* of those its analyzer exported before ending with status 0, however the
\* calls sharing the host interleaved.
GhidraAnswerFaithful ==
    \A r \in Requests :
        /\ answer[r].kind = "functions"
        /\ answer[r].backend = "ghidra"
        => /\ process[r].state = "exited" /\ process[r].code = 0
           /\ answer[r].functions \subseteq FunctionsOf[image[r]] \ Breaks
           /\ answer[r].functions = Recorded(r)
           /\ answer[r].functions # {}
           /\ Broken \notin stdout[r]

\* When a call is over nothing of it is left on the host: no analyzer it waits
\* for, and no workspace unless an analyzer survived the kill.
NothingLeftBehind ==
    \A r \in Requests : pc[r] \in {"check", "done"} =>
        /\ ~Alive(r)
        /\ workspace[r] = NoDir \/ process[r].state \in Survivor

\* native is the fallback for a missing launcher, never for a failed run: once
\* an analyzer was started for a call, no native functions answer it.
NoLateFallback ==
    \A r \in Requests :
        /\ answer[r].kind = "functions"
        /\ answer[r].backend = "native"
        => process[r].state = "none" /\ stdout[r] = {}

\* What must have happened to a call that fails with an exception of class e.
Explains(r, e) ==
    CASE e = "timeout" -> pending[r] = "timeout" /\ process[r].state # "none"
      [] e = "decode" -> pending[r] = "decode" /\ process[r].state # "none"
      [] e = "execution" -> process[r].state = "none" \/ process[r].code # 0
      [] e = "output" -> /\ process[r].state = "exited" /\ process[r].code = 0
                         /\ Broken \in stdout[r] \/ Recorded(r) = {}
      [] e = "os" -> process[r].state \in {"none"} \cup Survivor
      [] OTHER -> process[r].state = "none"

\* The exception class tells what happened: a timeout was never answered by a
\* later status, an output error never hides a failed run, and so on.
FailureExplained ==
    \A r \in Requests : answer[r].kind = "failure" => Explains(r, answer[r].error)

\* Seen from its callers the chain of backends is the abstract service: one
\* final answer per call, of the caller's own image, and always one, although
\* an analyzer may hang for ever; only an analyzer that outlives the kill on
\* Windows, where subprocess.run then reads its pipes to the end, can keep a
\* call waiting, and no longer than it lives itself.
ImplementsService == Service!Spec

\* docs/ghidra-backend.md: a timeout is reported as a typed backend failure.
TimeoutIsTyped ==
    \A r \in Requests :
        pc[r] = "done" /\ pending[r] = "timeout"
        => answer[r] = Service!Raised("timeout")
===============================================================================
