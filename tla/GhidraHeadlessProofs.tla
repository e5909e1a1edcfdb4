------------------------- MODULE GhidraHeadlessProofs -------------------------
(* Theorems about GhidraHeadless for any number of calls, images, functions   *)
(* and directories, whether or not the launcher forks.                        *)
EXTENDS GhidraHeadless, TLAPS

(***************************************************************************)
(* The inductive invariant.  A call that left "idle" has an image; from    *)
(* staging to leaving it owns a directory that holds that image; its       *)
(* analyzer is alive only while it waits; and everything the analyzer has  *)
(* still to export or has printed comes from that image.                   *)
(***************************************************************************)
HasImage(r) == (pc[r] = "idle") <=> (image[r] = NoImage)

OwnsWorkspace(r) ==
    /\ pc[r] \in {"launch", "wait", "drain", "leave"} => workspace[r] # NoDir
    /\ workspace[r] # NoDir =>
           /\ pc[r] \in {"launch", "wait", "drain", "leave"}
              \/ (process[r].state \in Survivor /\ pc[r] = "done")
           /\ disk[workspace[r]] = image[r]
           /\ \A q \in Requests \ {r} : workspace[q] # workspace[r]

AnalyzerPhase(r) ==
    /\ pc[r] \in {"idle", "select", "lift", "stage", "launch"} =>
           process[r] = Idle /\ stdout[r] = {}
    /\ pc[r] \in {"idle", "select", "lift", "stage", "launch", "wait", "drain"} =>
           pending[r] = "none"
    /\ pc[r] = "wait" =>
           process[r].state \in {"started", "exporting", "exited"}
    /\ pc[r] = "drain" =>
           process[r].state \in {"exited", "killed"} \cup Survivor
    /\ Alive(r) => pc[r] = "wait"
    /\ process[r].state \in Survivor => pc[r] \in {"drain", "leave", "done"}
    /\ pending[r] = "completed" => process[r].state = "exited"
    /\ pending[r] \in {"timeout", "decode"} => process[r].state # "none"
    /\ pc[r] = "check" => pending[r] = "completed"
    /\ pc[r] = "leave" => pending[r] # "none"

OwnOutput(r) ==
    /\ \A f \in process[r].todo \cup Recorded(r) :
           image[r] \in Images /\ f \in FunctionsOf[image[r]]
    /\ Recorded(r) \cap Breaks = {}

DirectoriesOwned ==
    \A d \in Dirs : disk[d] # NoImage => \E r \in Requests : workspace[r] = d

\* The conclusion of GhidraAnswerFaithful for one call.
FaithfulAnswer(r) ==
    answer[r].kind = "functions" /\ answer[r].backend = "ghidra" =>
        /\ process[r].state = "exited" /\ process[r].code = 0
        /\ answer[r].functions \subseteq FunctionsOf[image[r]] \ Breaks
        /\ answer[r].functions = Recorded(r)
        /\ answer[r].functions # {}
        /\ Broken \notin stdout[r]

AnsweredWhenDone(r) == pc[r] # "done" => answer[r] = Service!Waiting

CallInv(r) ==
    /\ HasImage(r) /\ OwnsWorkspace(r) /\ AnalyzerPhase(r) /\ OwnOutput(r)
    /\ AnsweredWhenDone(r) /\ FaithfulAnswer(r)

IInv == TypeOK /\ DirectoriesOwned /\ \A r \in Requests : CallInv(r)

-------------------------------------------------------------------------------
\* Every answer the code builds is of the answer type.
LEMMA RaisedType ==
    ASSUME NEW e \in Service!Errors
    PROVE  Service!Raised(e) \in AnswerType
  BY DEF AnswerType

LEMMA ReturnedType ==
    ASSUME NEW b \in {"ghidra", "native"}, NEW fs \in SUBSET Functions
    PROVE  Service!Returned(b, fs) \in AnswerType
  BY DEF AnswerType

\* The answers of different kinds are told apart by their fields.
LEMMA AnswerFields ==
    ASSUME NEW b, NEW fs, NEW e
    PROVE  /\ Service!Returned(b, fs).kind = "functions"
           /\ Service!Returned(b, fs).backend = b
           /\ Service!Returned(b, fs).functions = fs
           /\ Service!Raised(e).kind = "failure"
           /\ Service!Waiting.kind = "waiting"
  BY DEF Service!Returned, Service!Raised, Service!Waiting

\* parse_recorded_output returns the recorded functions or an output error.
LEMMA ParsedAnswer ==
    ASSUME NEW r \in Requests
    PROVE  /\ Parsed(r) \in AnswerType
           /\ Parsed(r).kind = "functions" =>
                  /\ Parsed(r).backend = "ghidra"
                  /\ Parsed(r).functions = Recorded(r)
                  /\ Recorded(r) # {} /\ Broken \notin stdout[r]
<1>1. Recorded(r) \in SUBSET Functions
  BY DEF Recorded
<1>2. "output" \in Service!Errors
  BY DEF Service!Errors
<1>. QED
  BY <1>1, <1>2, ReturnedType, RaisedType, AnswerFields DEF Parsed

\* A record line is neither broken nor a diagnostic, and names its function.
LEMMA RecordLines ==
    ASSUME NEW f, NEW g
    PROVE  /\ Record(f) # Broken /\ Record(f) # Diagnostic
           /\ Record(f) = Record(g) => f = g
<1>1. Record(f).tag = "record" /\ Broken.tag = "broken" /\ Diagnostic.tag = "diagnostic"
  BY DEF Record, Broken, Diagnostic
<1>2. Record(f).function = f /\ Record(g).function = g
  BY DEF Record
<1>. QED
  BY <1>1, <1>2

\* A process that ended has nothing left to export.
LEMMA EndedProcess ==
    ASSUME NEW s \in {"exited", "killed"} \cup Survivor, NEW c \in {0, 1}
    PROVE  /\ Ended(s, c) \in Processes /\ Ended(s, c).state = s
           /\ Ended(s, c).todo = {} /\ Ended(s, c).code = c
  BY DEF Ended, Processes, Survivor

-------------------------------------------------------------------------------
\* IInv holds before any call was made.
THEOREM InvInit == Init => IInv
<1>. SUFFICES ASSUME Init PROVE IInv
  OBVIOUS
<1>. USE GhidraAssumption DEF Init, Survivor
<1>1. Idle \in Processes /\ Idle.state = "none" /\ Idle.todo = {}
  BY DEF Idle, Processes
<1>2. TypeOK
  BY <1>1 DEF TypeOK, Chains, AnswerType, Control, Endings
<1>3. DirectoriesOwned
  BY DEF DirectoriesOwned
<1>4. ASSUME NEW r \in Requests PROVE CallInv(r)
  BY <1>1, AnswerFields DEF CallInv, HasImage, OwnsWorkspace, AnalyzerPhase, OwnOutput,
              AnsweredWhenDone, FaithfulAnswer, Recorded, Alive
<1>. QED
  BY <1>2, <1>3, <1>4 DEF IInv

\* A step of call r leaves the other calls alone, does not touch the content of
\* a directory another call has open, and does not open such a directory.
LocalStep(r) ==
    \A q \in Requests \ {r} :
        /\ pc'[q] = pc[q] /\ image'[q] = image[q] /\ workspace'[q] = workspace[q]
        /\ process'[q] = process[q] /\ stdout'[q] = stdout[q]
        /\ pending'[q] = pending[q] /\ answer'[q] = answer[q]
        /\ workspace[q] # NoDir =>
               /\ disk'[workspace[q]] = disk[workspace[q]]
               /\ workspace'[r] # workspace[q]

LEMMA OthersKeepInv ==
    ASSUME IInv, NEW r \in Requests, LocalStep(r)
    PROVE  \A q \in Requests \ {r} : CallInv(q)'
  BY DEF IInv, LocalStep, CallInv, HasImage, OwnsWorkspace, AnalyzerPhase, OwnOutput,
         AnsweredWhenDone, FaithfulAnswer, Recorded, Alive, TypeOK

\* What is left to show of a step of one call.
LEMMA CallStep ==
    ASSUME IInv, NEW r \in Requests, LocalStep(r), TypeOK', DirectoriesOwned',
           CallInv(r)'
    PROVE  IInv'
  BY OthersKeepInv DEF IInv

\* A call that is not answered with functions satisfies FaithfulAnswer.
LEMMA NoFunctionsAnswer ==
    ASSUME NEW r \in Requests, NEW e, answer'[r] \in {Service!Waiting, Service!Raised(e)}
    PROVE  FaithfulAnswer(r)'
  BY AnswerFields DEF FaithfulAnswer

LEMMA ConfigureInv ==
    ASSUME IInv, NEW r \in Requests, NEW i \in Images, NEW s \in Settings,
           NEW valid \in BOOLEAN, Configure(r, i, s, valid)
    PROVE  IInv'
<1>. USE GhidraAssumption DEF Configure, Goto, Finish, host
<1>1. Service!Raised("configuration") \in AnswerType
  BY RaisedType DEF Service!Errors
<1>2. TypeOK'
  BY <1>1 DEF IInv, TypeOK, Chains, Control
<1>3. LocalStep(r) /\ DirectoriesOwned'
  BY DEF IInv, LocalStep, TypeOK, DirectoriesOwned, CallInv, OwnsWorkspace
<1>4. CallInv(r)'
  <2>. USE DEF IInv, TypeOK, CallInv
  <2>1. HasImage(r)'
    BY DEF HasImage
  <2>2. OwnsWorkspace(r)'
    BY DEF OwnsWorkspace
  <2>3. AnalyzerPhase(r)'
    BY DEF AnalyzerPhase, Alive
  <2>4. OwnOutput(r)'
    BY DEF OwnOutput, Recorded, AnalyzerPhase, Idle
  <2>5. AnsweredWhenDone(r)'
    BY DEF AnsweredWhenDone
  <2>6. FaithfulAnswer(r)'
    <3>1. answer'[r] \in {Service!Waiting, Service!Raised("configuration")}
      BY DEF AnsweredWhenDone
    <3>. QED
      BY <3>1, NoFunctionsAnswer
  <2>. QED
    BY <2>1, <2>2, <2>3, <2>4, <2>5, <2>6
<1>. QED
  BY <1>2, <1>3, <1>4, CallStep

LEMMA InjectInv ==
    ASSUME IInv, NEW r \in Requests, NEW i \in Images, Inject(r, i)
    PROVE  IInv'
<1>. USE GhidraAssumption DEF Inject, Goto, Finish, host
<1>2. TypeOK'
  BY DEF IInv, TypeOK, Chains, Control
<1>3. LocalStep(r) /\ DirectoriesOwned'
  BY DEF IInv, LocalStep, TypeOK, DirectoriesOwned, CallInv, OwnsWorkspace
<1>4. CallInv(r)'
  <2>. USE DEF IInv, TypeOK, CallInv
  <2>1. HasImage(r)'
    BY DEF HasImage
  <2>2. OwnsWorkspace(r)'
    BY DEF OwnsWorkspace
  <2>3. AnalyzerPhase(r)'
    BY DEF AnalyzerPhase, Alive
  <2>4. OwnOutput(r)'
    BY DEF OwnOutput, Recorded, AnalyzerPhase, Idle
  <2>5. AnsweredWhenDone(r)'
    BY DEF AnsweredWhenDone
  <2>6. FaithfulAnswer(r)'
    <3>1. answer'[r] = Service!Waiting
      BY DEF AnsweredWhenDone
    <3>. QED
      BY <3>1, NoFunctionsAnswer
  <2>. QED
    BY <2>1, <2>2, <2>3, <2>4, <2>5, <2>6
<1>. QED
  BY <1>2, <1>3, <1>4, CallStep

LEMMA SelectInv ==
    ASSUME IInv, NEW r \in Requests, Select(r)
    PROVE  IInv'
<1>. USE GhidraAssumption DEF Select, Goto, Finish, host
<1>1. Service!Raised("unavailable") \in AnswerType
  BY RaisedType DEF Service!Errors
<1>2. TypeOK'
  BY <1>1 DEF IInv, TypeOK, Control
<1>3. LocalStep(r) /\ DirectoriesOwned'
  BY DEF IInv, LocalStep, TypeOK, DirectoriesOwned, CallInv, OwnsWorkspace
<1>4. CallInv(r)'
  <2>. USE DEF IInv, TypeOK, CallInv
  <2>1. HasImage(r)'
    BY DEF HasImage
  <2>2. OwnsWorkspace(r)'
    BY DEF OwnsWorkspace
  <2>3. AnalyzerPhase(r)'
    BY DEF AnalyzerPhase, Alive
  <2>4. OwnOutput(r)'
    BY DEF OwnOutput, Recorded
  <2>5. AnsweredWhenDone(r)'
    BY DEF AnsweredWhenDone
  <2>6. FaithfulAnswer(r)'
    <3>1. answer'[r] \in {Service!Waiting, Service!Raised("unavailable")}
      BY DEF AnsweredWhenDone
    <3>. QED
      BY <3>1, NoFunctionsAnswer
  <2>. QED
    BY <2>1, <2>2, <2>3, <2>4, <2>5, <2>6
<1>. QED
  BY <1>2, <1>3, <1>4, CallStep

LEMMA LiftInv ==
    ASSUME IInv, NEW r \in Requests, Lift(r)
    PROVE  IInv'
<1>. USE GhidraAssumption DEF Lift, Goto, Finish, host
<1>1. /\ Service!Raised("native") \in AnswerType
      /\ Service!Returned("native", NativeOf[image[r]]) \in AnswerType
  <2>1. image[r] \in Images
    BY DEF IInv, TypeOK, CallInv, HasImage
  <2>2. "native" \in Service!Errors /\ NativeOf[image[r]] \in SUBSET Functions
    BY <2>1 DEF Service!Errors
  <2>. QED
    BY <2>2, RaisedType, ReturnedType
<1>2. TypeOK'
  BY <1>1 DEF IInv, TypeOK, Control
<1>3. LocalStep(r) /\ DirectoriesOwned'
  BY DEF IInv, LocalStep, TypeOK, DirectoriesOwned, CallInv, OwnsWorkspace
<1>4. CallInv(r)'
  <2>. USE DEF IInv, TypeOK, CallInv
  <2>1. HasImage(r)'
    BY DEF HasImage
  <2>2. OwnsWorkspace(r)'
    BY DEF OwnsWorkspace
  <2>3. AnalyzerPhase(r)'
    BY DEF AnalyzerPhase, Alive
  <2>4. OwnOutput(r)'
    BY DEF OwnOutput, Recorded
  <2>5. AnsweredWhenDone(r)'
    BY DEF AnsweredWhenDone
  <2>6. FaithfulAnswer(r)'
    <3>1. CASE answer'[r] = Service!Raised("native")
      BY <3>1, NoFunctionsAnswer
    <3>2. CASE answer'[r] = Service!Returned("native", NativeOf[image[r]])
      <4>1. Service!Returned("native", NativeOf[image[r]]).backend = "native"
        BY AnswerFields
      <4>. QED
        BY <3>2, <4>1 DEF FaithfulAnswer
    <3>. QED
      BY <3>1, <3>2
  <2>. QED
    BY <2>1, <2>2, <2>3, <2>4, <2>5, <2>6
<1>. QED
  BY <1>2, <1>3, <1>4, CallStep

LEMMA StageInv ==
    ASSUME IInv, NEW r \in Requests, Stage(r)
    PROVE  IInv'
<1>. USE GhidraAssumption DEF Stage, Goto, Finish, host
<1>1. PICK d \in Dirs : /\ disk[d] = NoImage
                        /\ disk' = [disk EXCEPT ![d] = image[r]]
                        /\ workspace' = [workspace EXCEPT ![r] = d]
  OBVIOUS
<1>5. \A q \in Requests : workspace[q] # NoDir => workspace[q] # d
  BY <1>1 DEF IInv, TypeOK, CallInv, HasImage, OwnsWorkspace
<1>2. TypeOK'
  BY <1>1 DEF IInv, TypeOK, Control
<1>3. LocalStep(r) /\ DirectoriesOwned'
  BY <1>1, <1>5 DEF IInv, LocalStep, TypeOK, DirectoriesOwned, CallInv, OwnsWorkspace
<1>4. CallInv(r)'
  <2>. USE DEF IInv, TypeOK, CallInv
  <2>1. HasImage(r)'
    BY DEF HasImage
  <2>2. OwnsWorkspace(r)'
    BY <1>1, <1>5 DEF OwnsWorkspace
  <2>3. AnalyzerPhase(r)'
    BY DEF AnalyzerPhase, Alive
  <2>4. OwnOutput(r)'
    BY DEF OwnOutput, Recorded
  <2>5. AnsweredWhenDone(r)'
    BY DEF AnsweredWhenDone
  <2>6. FaithfulAnswer(r)'
    <3>1. answer'[r] = Service!Waiting
      BY DEF AnsweredWhenDone
    <3>. QED
      BY <3>1, NoFunctionsAnswer
  <2>. QED
    BY <2>1, <2>2, <2>3, <2>4, <2>5, <2>6
<1>. QED
  BY <1>2, <1>3, <1>4, CallStep

LEMMA StageFailsInv ==
    ASSUME IInv, NEW r \in Requests, StageFails(r)
    PROVE  IInv'
<1>. USE GhidraAssumption DEF StageFails, Goto, Finish, host
<1>1. Service!Raised("os") \in AnswerType
  BY RaisedType DEF Service!Errors
<1>2. TypeOK'
  BY <1>1 DEF IInv, TypeOK, Control
<1>3. LocalStep(r) /\ DirectoriesOwned'
  BY DEF IInv, LocalStep, TypeOK, DirectoriesOwned, CallInv, OwnsWorkspace
<1>4. CallInv(r)'
  <2>. USE DEF IInv, TypeOK, CallInv
  <2>1. HasImage(r)'
    BY DEF HasImage
  <2>2. OwnsWorkspace(r)'
    BY DEF OwnsWorkspace
  <2>3. AnalyzerPhase(r)'
    BY DEF AnalyzerPhase, Alive
  <2>4. OwnOutput(r)'
    BY DEF OwnOutput, Recorded
  <2>5. AnsweredWhenDone(r)'
    BY DEF AnsweredWhenDone
  <2>6. FaithfulAnswer(r)'
    <3>1. answer'[r] \in {Service!Waiting, Service!Raised("os")}
      BY DEF AnsweredWhenDone
    <3>. QED
      BY <3>1, NoFunctionsAnswer
  <2>. QED
    BY <2>1, <2>2, <2>3, <2>4, <2>5, <2>6
<1>. QED
  BY <1>2, <1>3, <1>4, CallStep

LEMMA LaunchInv ==
    ASSUME IInv, NEW r \in Requests, Launch(r)
    PROVE  IInv'
<1>. USE GhidraAssumption DEF Launch, Goto, host, Survivor
<1>1. Started \in Processes /\ Started.state = "started" /\ Started.todo = {}
  BY DEF Started, Processes
<1>2. TypeOK'
  BY <1>1 DEF IInv, TypeOK, Control, Endings, Lines
<1>3. LocalStep(r) /\ DirectoriesOwned'
  BY DEF IInv, LocalStep, TypeOK, DirectoriesOwned, CallInv, OwnsWorkspace
<1>4. CallInv(r)'
  <2>. USE DEF IInv, TypeOK, CallInv
  <2>1. HasImage(r)'
    BY DEF HasImage
  <2>2. OwnsWorkspace(r)'
    BY DEF OwnsWorkspace
  <2>3. AnalyzerPhase(r)'
    BY <1>1 DEF AnalyzerPhase, Alive, Idle
  <2>4. OwnOutput(r)'
    BY <1>1 DEF OwnOutput, Recorded
  <2>5. AnsweredWhenDone(r)'
    BY DEF AnsweredWhenDone
  <2>6. FaithfulAnswer(r)'
    <3>1. answer'[r] = Service!Waiting
      BY DEF AnsweredWhenDone
    <3>. QED
      BY <3>1, NoFunctionsAnswer
  <2>. QED
    BY <2>1, <2>2, <2>3, <2>4, <2>5, <2>6
<1>. QED
  BY <1>2, <1>3, <1>4, CallStep

LEMMA CollectInv ==
    ASSUME IInv, NEW r \in Requests, Collect(r)
    PROVE  IInv'
<1>. USE GhidraAssumption DEF Collect, Goto, host, Survivor
<1>2. TypeOK'
  BY DEF IInv, TypeOK, Control, Endings
<1>3. LocalStep(r) /\ DirectoriesOwned'
  BY DEF IInv, LocalStep, TypeOK, DirectoriesOwned, CallInv, OwnsWorkspace
<1>4. CallInv(r)'
  <2>. USE DEF IInv, TypeOK, CallInv
  <2>1. HasImage(r)'
    BY DEF HasImage
  <2>2. OwnsWorkspace(r)'
    BY DEF OwnsWorkspace
  <2>3. AnalyzerPhase(r)'
    BY DEF AnalyzerPhase, Alive
  <2>4. OwnOutput(r)'
    BY DEF OwnOutput, Recorded
  <2>5. AnsweredWhenDone(r)'
    BY DEF AnsweredWhenDone
  <2>6. FaithfulAnswer(r)'
    <3>1. answer'[r] = Service!Waiting
      BY DEF AnsweredWhenDone
    <3>. QED
      BY <3>1, NoFunctionsAnswer
  <2>. QED
    BY <2>1, <2>2, <2>3, <2>4, <2>5, <2>6
<1>. QED
  BY <1>2, <1>3, <1>4, CallStep

LEMMA TimeoutInv ==
    ASSUME IInv, NEW r \in Requests, Timeout(r)
    PROVE  IInv'
<1>. USE GhidraAssumption DEF Timeout, Goto, host, Survivor
<1>1. /\ process' \in [Requests -> Processes]
      /\ process'[r].state \in {"exited", "killed", "orphaned"}
      /\ process'[r].todo \subseteq process[r].todo
      /\ \A q \in Requests \ {r} : process'[q] = process[q]
  <2>. USE DEF IInv, TypeOK
  <2>1. process[r] \in Processes /\ process[r].state \in {"started", "exporting", "exited"}
    BY DEF CallInv, AnalyzerPhase
  <2>2. CASE ~Alive(r) /\ UNCHANGED process
    BY <2>1, <2>2 DEF Alive
  <2>3. CASE \E s \in {"killed", "orphaned"} :
               process' = [process EXCEPT ![r] = Ended(s, 0)]
    BY <2>1, <2>3, EndedProcess
  <2>. QED
    BY <2>2, <2>3
<1>2. TypeOK'
  BY <1>1 DEF IInv, TypeOK, Control, Endings, Lines
<1>3. LocalStep(r) /\ DirectoriesOwned'
  BY DEF IInv, LocalStep, TypeOK, DirectoriesOwned, CallInv, OwnsWorkspace
<1>4. CallInv(r)'
  <2>. USE DEF IInv, TypeOK, CallInv
  <2>1. HasImage(r)'
    BY DEF HasImage
  <2>2. OwnsWorkspace(r)'
    BY DEF OwnsWorkspace
  <2>3. AnalyzerPhase(r)'
    BY <1>1 DEF AnalyzerPhase, Alive
  <2>4. OwnOutput(r)'
    BY <1>1 DEF OwnOutput, Recorded
  <2>5. AnsweredWhenDone(r)'
    BY DEF AnsweredWhenDone
  <2>6. FaithfulAnswer(r)'
    <3>1. answer'[r] = Service!Waiting
      BY DEF AnsweredWhenDone
    <3>. QED
      BY <3>1, NoFunctionsAnswer
  <2>. QED
    BY <2>1, <2>2, <2>3, <2>4, <2>5, <2>6
<1>. QED
  BY <1>2, <1>3, <1>4, CallStep

LEMMA DrainInv ==
    ASSUME IInv, NEW r \in Requests, Drain(r)
    PROVE  IInv'
<1>. USE GhidraAssumption DEF Drain, Goto, host, Survivor
<1>2. TypeOK'
  BY DEF IInv, TypeOK, Control, Endings
<1>3. LocalStep(r) /\ DirectoriesOwned'
  BY DEF IInv, LocalStep, TypeOK, DirectoriesOwned, CallInv, OwnsWorkspace
<1>4. CallInv(r)'
  <2>. USE DEF IInv, TypeOK, CallInv
  <2>1. HasImage(r)'
    BY DEF HasImage
  <2>2. OwnsWorkspace(r)'
    BY <1>2 DEF OwnsWorkspace
  <2>3. AnalyzerPhase(r)'
    BY <1>2 DEF AnalyzerPhase, Alive
  <2>4. OwnOutput(r)'
    BY <1>2 DEF OwnOutput, Recorded
  <2>5. AnsweredWhenDone(r)'
    BY DEF AnsweredWhenDone
  <2>6. FaithfulAnswer(r)'
    <3>1. answer'[r] = Service!Waiting
      BY DEF AnsweredWhenDone
    <3>. QED
      BY <3>1, NoFunctionsAnswer
  <2>. QED
    BY <2>1, <2>2, <2>3, <2>4, <2>5, <2>6
<1>. QED
  BY <1>2, <1>3, <1>4, CallStep

LEMMA LeaveInv ==
    ASSUME IInv, NEW r \in Requests, Leave(r)
    PROVE  IInv'
<1>. USE GhidraAssumption DEF Leave, Goto, Finish, host, Survivor
<1>1. Service!Raised(pending[r]) \in AnswerType \/ pending[r] = "completed"
  <2>1. pending[r] \in Service!Errors \cup {"completed"}
    BY DEF IInv, TypeOK, Endings, CallInv, AnalyzerPhase, Service!Errors
  <2>. QED
    BY <2>1, RaisedType
<1>2. TypeOK'
  BY <1>1 DEF IInv, TypeOK, Control
<1>3. LocalStep(r) /\ DirectoriesOwned'
  BY DEF IInv, LocalStep, TypeOK, DirectoriesOwned, CallInv, OwnsWorkspace
<1>4. CallInv(r)'
  <2>. USE DEF IInv, TypeOK, CallInv
  <2>1. HasImage(r)'
    BY DEF HasImage
  <2>2. OwnsWorkspace(r)'
    BY DEF OwnsWorkspace
  <2>3. AnalyzerPhase(r)'
    BY DEF AnalyzerPhase, Alive
  <2>4. OwnOutput(r)'
    BY DEF OwnOutput, Recorded
  <2>5. AnsweredWhenDone(r)'
    BY DEF AnsweredWhenDone
  <2>6. FaithfulAnswer(r)'
    <3>1. answer'[r] \in {Service!Waiting, Service!Raised(pending[r])}
      BY DEF AnsweredWhenDone
    <3>. QED
      BY <3>1, NoFunctionsAnswer
  <2>. QED
    BY <2>1, <2>2, <2>3, <2>4, <2>5, <2>6
<1>. QED
  BY <1>2, <1>3, <1>4, CallStep

LEMMA LeaveFailsInv ==
    ASSUME IInv, NEW r \in Requests, LeaveFails(r)
    PROVE  IInv'
<1>. USE GhidraAssumption DEF LeaveFails, Goto, Finish, host, Survivor
<1>1. Service!Raised("os") \in AnswerType
  BY RaisedType DEF Service!Errors
<1>2. TypeOK'
  BY <1>1 DEF IInv, TypeOK, Control
<1>3. LocalStep(r) /\ DirectoriesOwned'
  BY DEF IInv, LocalStep, TypeOK, DirectoriesOwned, CallInv, OwnsWorkspace
<1>4. CallInv(r)'
  <2>. USE DEF IInv, TypeOK, CallInv
  <2>1. HasImage(r)'
    BY DEF HasImage
  <2>2. OwnsWorkspace(r)'
    BY DEF OwnsWorkspace
  <2>3. AnalyzerPhase(r)'
    BY DEF AnalyzerPhase, Alive
  <2>4. OwnOutput(r)'
    BY DEF OwnOutput, Recorded
  <2>5. AnsweredWhenDone(r)'
    BY DEF AnsweredWhenDone
  <2>6. FaithfulAnswer(r)'
    <3>1. answer'[r] \in {Service!Waiting, Service!Raised("os")}
      BY DEF AnsweredWhenDone
    <3>. QED
      BY <3>1, NoFunctionsAnswer
  <2>. QED
    BY <2>1, <2>2, <2>3, <2>4, <2>5, <2>6
<1>. QED
  BY <1>2, <1>3, <1>4, CallStep

LEMMA CheckInv ==
    ASSUME IInv, NEW r \in Requests, Check(r)
    PROVE  IInv'
<1>. USE GhidraAssumption DEF Check, Goto, Finish, host, Survivor
<1>1. Service!Raised("execution") \in AnswerType
  BY RaisedType DEF Service!Errors
<1>2. TypeOK'
  BY <1>1, ParsedAnswer DEF IInv, TypeOK, Control
<1>3. LocalStep(r) /\ DirectoriesOwned'
  BY DEF IInv, LocalStep, TypeOK, DirectoriesOwned, CallInv, OwnsWorkspace
<1>4. CallInv(r)'
  <2>. USE DEF IInv, TypeOK, CallInv
  <2>1. HasImage(r)'
    BY DEF HasImage
  <2>2. OwnsWorkspace(r)'
    BY DEF OwnsWorkspace
  <2>3. AnalyzerPhase(r)'
    BY DEF AnalyzerPhase, Alive
  <2>4. OwnOutput(r)'
    BY DEF OwnOutput, Recorded
  <2>5. AnsweredWhenDone(r)'
    BY DEF AnsweredWhenDone
  <2>6. FaithfulAnswer(r)'
    <3>1. Service!Raised("execution").kind = "failure"
      BY AnswerFields
    <3>2. Recorded(r)' = Recorded(r)
      BY DEF Recorded
    <3>3. process[r].state = "exited" /\ process[r].code \in {0, 1}
      BY DEF AnalyzerPhase, Processes
    <3>4. Recorded(r) \subseteq FunctionsOf[image[r]] \ Breaks
      BY DEF OwnOutput
    <3>5. \/ answer'[r] = Service!Raised("execution")
          \/ answer'[r] = Parsed(r) /\ process[r].code = 0
      BY <3>3
    <3>. QED
      BY <3>1, <3>2, <3>3, <3>4, <3>5, ParsedAnswer DEF FaithfulAnswer
  <2>. QED
    BY <2>1, <2>2, <2>3, <2>4, <2>5, <2>6
<1>. QED
  BY <1>2, <1>3, <1>4, CallStep

LEMMA ImportInv ==
    ASSUME IInv, NEW r \in Requests, Import(r)
    PROVE  IInv'
<1>. USE GhidraAssumption DEF Import, host, Alive, Survivor
<1>1. /\ pc[r] = "wait" /\ image[r] \in Images
      /\ FunctionsOf[disk[workspace[r]]] = FunctionsOf[image[r]]
  BY DEF IInv, TypeOK, CallInv, AnalyzerPhase, OwnsWorkspace, HasImage
<1>5. /\ process' \in [Requests -> Processes]
      /\ process'[r].state = "exporting"
      /\ process'[r].todo = FunctionsOf[image[r]]
      /\ \A q \in Requests \ {r} : process'[q] = process[q]
  BY <1>1, GhidraAssumption DEF IInv, TypeOK, Processes
<1>2. TypeOK'
  BY <1>5 DEF IInv, TypeOK, Control, Endings, Lines
<1>3. LocalStep(r) /\ DirectoriesOwned'
  BY DEF IInv, LocalStep, TypeOK, DirectoriesOwned, CallInv, OwnsWorkspace
<1>4. CallInv(r)'
  <2>. USE DEF IInv, TypeOK, CallInv
  <2>1. HasImage(r)'
    BY DEF HasImage
  <2>2. OwnsWorkspace(r)'
    BY DEF OwnsWorkspace
  <2>3. AnalyzerPhase(r)'
    BY <1>1, <1>5 DEF AnalyzerPhase
  <2>4. OwnOutput(r)'
    <3>1. Recorded(r)' = Recorded(r)
      BY RecordLines DEF Recorded
    <3>. QED
      BY <1>1, <1>5, <3>1 DEF OwnOutput
  <2>5. AnsweredWhenDone(r)'
    BY DEF AnsweredWhenDone
  <2>6. FaithfulAnswer(r)'
    <3>1. answer'[r] = Service!Waiting
      BY <1>1 DEF AnsweredWhenDone
    <3>. QED
      BY <3>1, NoFunctionsAnswer
  <2>. QED
    BY <2>1, <2>2, <2>3, <2>4, <2>5, <2>6
<1>. QED
  BY <1>2, <1>3, <1>4, CallStep

LEMMA ExportInv ==
    ASSUME IInv, NEW r \in Requests, Export(r)
    PROVE  IInv'
<1>. USE GhidraAssumption DEF Export, host, Alive, Survivor
<1>1. pc[r] = "wait"
  BY DEF IInv, CallInv, AnalyzerPhase
<1>5. PICK f \in process[r].todo :
          /\ process' = [process EXCEPT ![r].todo = @ \ {f}]
          /\ \/ stdout' = [stdout EXCEPT ![r] = @ \cup Exported(f)]
             \/ UNCHANGED stdout
  OBVIOUS
<1>6. f \in Functions /\ Exported(f) \subseteq Lines
  BY DEF IInv, TypeOK, Processes, Exported, Lines
<1>7. process' \in [Requests -> Processes]
  BY <1>5 DEF IInv, TypeOK, Processes
<1>2. TypeOK'
  BY <1>5, <1>6, <1>7 DEF IInv, TypeOK
<1>3. LocalStep(r) /\ DirectoriesOwned'
  BY DEF IInv, LocalStep, TypeOK, DirectoriesOwned, CallInv, OwnsWorkspace
<1>4. CallInv(r)'
  <2>. USE DEF IInv, TypeOK, CallInv
  <2>1. HasImage(r)'
    BY DEF HasImage
  <2>2. OwnsWorkspace(r)'
    BY DEF OwnsWorkspace
  <2>3. AnalyzerPhase(r)'
    BY <1>1, <1>5 DEF AnalyzerPhase, Processes
  <2>4. OwnOutput(r)'
    <3>1. Recorded(r)' \subseteq Recorded(r) \cup ({f} \ Breaks)
      BY <1>5, RecordLines DEF Recorded, Exported
    <3>. QED
      BY <1>5, <3>1 DEF OwnOutput, Processes
  <2>5. AnsweredWhenDone(r)'
    BY DEF AnsweredWhenDone
  <2>6. FaithfulAnswer(r)'
    <3>1. answer'[r] = Service!Waiting
      BY <1>1 DEF AnsweredWhenDone
    <3>. QED
      BY <3>1, NoFunctionsAnswer
  <2>. QED
    BY <2>1, <2>2, <2>3, <2>4, <2>5, <2>6
<1>. QED
  BY <1>2, <1>3, <1>4, CallStep

LEMMA ExitInv ==
    ASSUME IInv, NEW r \in Requests, Exit(r)
    PROVE  IInv'
<1>. USE GhidraAssumption DEF Exit, host, Alive, Survivor
<1>1. pc[r] = "wait"
  BY DEF IInv, CallInv, AnalyzerPhase
<1>5. /\ process' \in [Requests -> Processes]
      /\ process'[r].state = "exited" /\ process'[r].todo = {}
      /\ \A q \in Requests \ {r} : process'[q] = process[q]
  BY EndedProcess DEF IInv, TypeOK
<1>2. TypeOK'
  BY <1>5 DEF IInv, TypeOK, Control, Endings, Lines
<1>3. LocalStep(r) /\ DirectoriesOwned'
  BY DEF IInv, LocalStep, TypeOK, DirectoriesOwned, CallInv, OwnsWorkspace
<1>4. CallInv(r)'
  <2>. USE DEF IInv, TypeOK, CallInv
  <2>1. HasImage(r)'
    BY DEF HasImage
  <2>2. OwnsWorkspace(r)'
    BY DEF OwnsWorkspace
  <2>3. AnalyzerPhase(r)'
    BY <1>1, <1>5 DEF AnalyzerPhase
  <2>4. OwnOutput(r)'
    BY <1>5 DEF OwnOutput, Recorded
  <2>5. AnsweredWhenDone(r)'
    BY DEF AnsweredWhenDone
  <2>6. FaithfulAnswer(r)'
    <3>1. answer'[r] = Service!Waiting
      BY <1>1 DEF AnsweredWhenDone
    <3>. QED
      BY <3>1, NoFunctionsAnswer
  <2>. QED
    BY <2>1, <2>2, <2>3, <2>4, <2>5, <2>6
<1>. QED
  BY <1>2, <1>3, <1>4, CallStep

LEMMA ExpireInv ==
    ASSUME IInv, NEW r \in Requests, Expire(r)
    PROVE  IInv'
<1>. USE GhidraAssumption DEF Expire, host, Survivor
<1>1. /\ process' \in [Requests -> Processes]
      /\ process'[r].state = "gone" /\ process'[r].todo = process[r].todo
      /\ \A q \in Requests \ {r} : process'[q] = process[q]
  BY DEF IInv, TypeOK, Processes
<1>2. TypeOK'
  BY <1>1 DEF IInv, TypeOK
<1>3. LocalStep(r) /\ DirectoriesOwned'
  BY DEF IInv, LocalStep, TypeOK, DirectoriesOwned, CallInv, OwnsWorkspace
<1>4. CallInv(r)'
  <2>. USE DEF IInv, TypeOK, CallInv
  <2>1. HasImage(r)'
    BY DEF HasImage
  <2>2. OwnsWorkspace(r)'
    BY <1>1 DEF OwnsWorkspace
  <2>3. AnalyzerPhase(r)'
    BY <1>1 DEF AnalyzerPhase, Alive
  <2>4. OwnOutput(r)'
    BY <1>1 DEF OwnOutput, Recorded
  <2>5. AnsweredWhenDone(r)'
    BY DEF AnsweredWhenDone
  <2>6. FaithfulAnswer(r)'
    BY DEF FaithfulAnswer
  <2>. QED
    BY <2>1, <2>2, <2>3, <2>4, <2>5, <2>6
<1>. QED
  BY <1>2, <1>3, <1>4, CallStep

-------------------------------------------------------------------------------
\* The invariant is inductive: no step of a call, of an analyzer or of the host
\* breaks it.
THEOREM InvStep == IInv /\ [Next]_vars => IInv'
<1>. SUFFICES ASSUME IInv, [Next]_vars PROVE IInv'
  OBVIOUS
<1>1. CASE UNCHANGED vars
  BY <1>1 DEF vars, IInv, TypeOK, DirectoriesOwned, CallInv, HasImage, OwnsWorkspace,
     AnalyzerPhase, OwnOutput, AnsweredWhenDone, FaithfulAnswer, Recorded, Alive
<1>2. CASE Toggle
  BY <1>2 DEF Toggle, local, IInv, TypeOK, DirectoriesOwned, CallInv, HasImage,
     OwnsWorkspace, AnalyzerPhase, OwnOutput, AnsweredWhenDone, FaithfulAnswer,
     Recorded, Alive
<1>3. ASSUME NEW r \in Requests, Call(r) PROVE IInv'
  BY <1>3, ConfigureInv, InjectInv DEF Call
<1>4. ASSUME NEW r \in Requests, Step(r) PROVE IInv'
  BY <1>4, SelectInv, LiftInv, StageInv, StageFailsInv, LaunchInv, CollectInv,
     TimeoutInv, DrainInv, LeaveInv, LeaveFailsInv, CheckInv DEF Step
<1>5. ASSUME NEW r \in Requests, Analyzer(r) PROVE IInv'
  BY <1>5, ImportInv, ExportInv, ExitInv, ExpireInv DEF Analyzer
<1>. QED
  BY <1>1, <1>2, <1>3, <1>4, <1>5 DEF Next

\* IInv holds in every reachable state.
THEOREM Invariance == Spec => []IInv
  BY InvInit, InvStep, PTL DEF Spec

\* Every variable keeps its shape in every behaviour.
THEOREM TypeCorrect == Spec => []TypeOK
<1>1. IInv => TypeOK
  BY DEF IInv
<1>. QED
  BY <1>1, Invariance, PTL

\* Ghidra's functions are always the caller's own, exported by a run that ended
\* well, for any number of concurrent calls.
THEOREM AnswersAreFaithful == Spec => []GhidraAnswerFaithful
<1>1. IInv => GhidraAnswerFaithful
  BY DEF IInv, CallInv, FaithfulAnswer, GhidraAnswerFaithful
<1>. QED
  BY <1>1, Invariance, PTL

\* A directory on disk belongs to exactly one call and holds that call's sample.
THEOREM WorkspacesAreOwned == Spec => []WorkspaceOwned
<1>1. IInv => WorkspaceOwned
  BY GhidraAssumption DEF IInv, TypeOK, CallInv, OwnsWorkspace, DirectoriesOwned,
     WorkspaceOwned
<1>. QED
  BY <1>1, Invariance, PTL

\* A call that is over leaves neither an analyzer nor, unless one survived the
\* kill, a directory behind.
THEOREM CallsCleanUp == Spec => []NothingLeftBehind
<1>1. IInv => NothingLeftBehind
  BY DEF IInv, TypeOK, CallInv, OwnsWorkspace, AnalyzerPhase, NothingLeftBehind
<1>. QED
  BY <1>1, Invariance, PTL

-------------------------------------------------------------------------------
(* What an answer says of the run behind it.  These facts are inductive given  *)
(* IInv: an answer is given in the last step of its call, and neither the call *)
(* nor its analyzer moves afterwards.                                          *)

NativeFirst(r) ==
    answer[r].kind = "functions" /\ answer[r].backend = "native" =>
        process[r].state = "none" /\ stdout[r] = {}

Explained(r) == answer[r].kind = "failure" => Explains(r, answer[r].error)

\* An OSError of subprocess.run itself means that nothing was started.
NothingStarted(r) == pending[r] = "execution" => process[r].state = "none"

AnswerInv(r) == NativeFirst(r) /\ Explained(r) /\ NothingStarted(r)

\* A call that goes on has no answer to account for.
LEMMA OngoingCall ==
    ASSUME IInv', NEW r \in Requests, pc'[r] # "done", NothingStarted(r)'
    PROVE  AnswerInv(r)'
<1>1. answer'[r] = Service!Waiting
  BY DEF IInv, CallInv, AnsweredWhenDone
<1>. QED
  BY <1>1, AnswerFields DEF AnswerInv, NativeFirst, Explained

\* A call that did not move keeps its account.
LEMMA IdleCall ==
    ASSUME NEW r \in Requests, AnswerInv(r), process'[r] = process[r],
           stdout'[r] = stdout[r], pending'[r] = pending[r], answer'[r] = answer[r]
    PROVE  AnswerInv(r)'
  BY DEF AnswerInv, NativeFirst, Explained, Explains, NothingStarted, Recorded

\* Failing with an exception of class e, for a reason.
LEMMA FailedCall ==
    ASSUME NEW r \in Requests, NEW e, answer'[r] = Service!Raised(e), Explains(r, e),
           NothingStarted(r), UNCHANGED <<process, stdout, pending>>
    PROVE  AnswerInv(r)'
<1>1. answer'[r].kind = "failure" /\ answer'[r].error = e
  BY DEF Service!Raised
<1>2. Explains(r, e)'
  BY DEF Explains, Recorded
<1>. QED
  BY <1>1, <1>2 DEF AnswerInv, NativeFirst, Explained, NothingStarted

LEMMA StepAnswers ==
    ASSUME IInv, IInv', NEW r \in Requests, AnswerInv(r), Step(r)
    PROVE  AnswerInv(r)'
<1>. USE DEF Goto, Finish, host, AnswerInv
<1>0. /\ pc \in [Requests -> Control] /\ pending \in [Requests -> Endings]
      /\ process \in [Requests -> Processes] /\ answer \in [Requests -> AnswerType]
      /\ stdout \in [Requests -> SUBSET Lines]
  BY DEF IInv, TypeOK
<1>1. CASE Select(r)
  <2>1. NothingStarted(r)'
    BY <1>1 DEF Select, NothingStarted
  <2>2. CASE answer'[r] = Service!Raised("unavailable")
    <3>1. Explains(r, "unavailable")
      BY <1>1 DEF Select, Explains, IInv, CallInv, AnalyzerPhase, Idle
    <3>. QED
      BY <1>1, <2>2, <3>1, FailedCall DEF Select
  <2>. QED
    BY <1>0, <1>1, <2>1, <2>2, OngoingCall DEF Select
<1>2. CASE Lift(r)
  <2>1. process[r] = Idle /\ stdout[r] = {} /\ UNCHANGED <<process, stdout, pending>>
    BY <1>2 DEF Lift, IInv, CallInv, AnalyzerPhase
  <2>2. CASE answer'[r] = Service!Raised("native")
    <3>1. Explains(r, "native")
      BY <2>1 DEF Explains, Idle
    <3>. QED
      BY <2>1, <2>2, <3>1, FailedCall
  <2>3. CASE answer'[r] = Service!Returned("native", NativeOf[image[r]])
    <3>1. answer'[r].kind = "functions" /\ process'[r].state = "none" /\ stdout'[r] = {}
      BY <2>1, <2>3, AnswerFields DEF Idle
    <3>. QED
      BY <2>1, <3>1 DEF NativeFirst, Explained, NothingStarted
  <2>. QED
    BY <1>0, <1>2, <2>2, <2>3 DEF Lift
<1>3. CASE Stage(r) \/ Collect(r)
  <2>1. NothingStarted(r)' /\ pc'[r] # "done"
    BY <1>0, <1>3 DEF Stage, Collect, NothingStarted
  <2>. QED
    BY <2>1, OngoingCall
<1>4. CASE StageFails(r)
  <2>1. Explains(r, "os") /\ answer'[r] = Service!Raised("os")
    BY <1>0, <1>4 DEF StageFails, Explains, IInv, CallInv, AnalyzerPhase, Idle
  <2>. QED
    BY <1>4, <2>1, FailedCall DEF StageFails
<1>5. CASE Launch(r)
  <2>1. process[r] = Idle /\ pending[r] = "none" /\ pc'[r] # "done"
    BY <1>0, <1>5 DEF Launch, IInv, CallInv, AnalyzerPhase
  <2>2. NothingStarted(r)'
    BY <1>0, <1>5, <2>1 DEF Launch, NothingStarted, Idle
  <2>. QED
    BY <2>1, <2>2, OngoingCall
<1>6. CASE Timeout(r) \/ Drain(r)
  <2>1. NothingStarted(r)' /\ pc'[r] # "done"
    BY <1>0, <1>6 DEF Timeout, Drain, NothingStarted, IInv, CallInv, AnalyzerPhase
  <2>. QED
    BY <2>1, OngoingCall
<1>7. CASE Leave(r)
  <2>1. NothingStarted(r)'
    BY <1>7 DEF Leave, NothingStarted
  <2>2. CASE pending[r] = "completed"
    BY <1>0, <1>7, <2>1, <2>2, OngoingCall DEF Leave
  <2>3. CASE pending[r] # "completed"
    <3>1. pending[r] \in {"timeout", "decode", "execution"}
      BY <1>0, <1>7, <2>3 DEF Leave, Endings, IInv, CallInv, AnalyzerPhase
    <3>2. Explains(r, pending[r])
      BY <3>1 DEF Explains, NothingStarted, IInv, CallInv, AnalyzerPhase
    <3>. QED
      BY <1>0, <1>7, <2>3, <3>2, FailedCall DEF Leave
  <2>. QED
    BY <2>2, <2>3
<1>8. CASE LeaveFails(r)
  <2>1. Explains(r, "os") /\ answer'[r] = Service!Raised("os")
    BY <1>0, <1>8 DEF LeaveFails, Explains, Survivor
  <2>. QED
    BY <1>8, <2>1, FailedCall DEF LeaveFails
<1>9. CASE Check(r)
  <2>1. /\ process[r].state = "exited" /\ process[r].code \in {0, 1}
        /\ UNCHANGED <<process, stdout, pending>>
    BY <1>0, <1>9 DEF Check, IInv, CallInv, AnalyzerPhase, Processes
  <2>2. CASE process[r].code # 0
    <3>1. Explains(r, "execution") /\ answer'[r] = Service!Raised("execution")
      BY <1>0, <1>9, <2>2 DEF Check, Explains
    <3>. QED
      BY <2>1, <3>1, FailedCall
  <2>3. CASE process[r].code = 0 /\ (Broken \in stdout[r] \/ Recorded(r) = {})
    <3>1. Explains(r, "output") /\ answer'[r] = Service!Raised("output")
      BY <1>0, <1>9, <2>1, <2>3 DEF Check, Explains, Parsed
    <3>. QED
      BY <2>1, <3>1, FailedCall
  <2>4. CASE process[r].code = 0 /\ Broken \notin stdout[r] /\ Recorded(r) # {}
    <3>1. answer'[r] = Service!Returned("ghidra", Recorded(r))
      BY <1>0, <1>9, <2>4 DEF Check, Parsed
    <3>2. answer'[r].kind = "functions" /\ answer'[r].backend = "ghidra"
      BY <3>1, AnswerFields
    <3>. QED
      BY <2>1, <3>2 DEF NativeFirst, Explained, NothingStarted
  <2>. QED
    BY <2>1, <2>2, <2>3, <2>4
<1>. QED
  BY <1>1, <1>2, <1>3, <1>4, <1>5, <1>6, <1>7, <1>8, <1>9 DEF Step

LEMMA CallAnswers ==
    ASSUME IInv, IInv', NEW r \in Requests, AnswerInv(r), Call(r)
    PROVE  AnswerInv(r)'
<1>. USE DEF Goto, Finish, host, AnswerInv, Call, Configure, Inject
<1>1. NothingStarted(r)' /\ UNCHANGED <<process, stdout, pending>>
  BY DEF NothingStarted
<1>2. CASE answer'[r] = Service!Raised("configuration")
  <2>1. Explains(r, "configuration")
    BY DEF Explains, IInv, CallInv, AnalyzerPhase, Idle
  <2>. QED
    BY <1>1, <1>2, <2>1, FailedCall
<1>. QED
  BY <1>1, <1>2, OngoingCall DEF IInv, TypeOK

\* An analyzer moves while its call waits for it; one that outlived its call's
\* wait can only end, and no account turns on when it does.
LEMMA AnalyzerAnswers ==
    ASSUME IInv, IInv', NEW r \in Requests, AnswerInv(r), Analyzer(r)
    PROVE  AnswerInv(r)'
<1>1. CASE Import(r) \/ Export(r) \/ Exit(r)
  <2>1. pc[r] = "wait" /\ UNCHANGED <<pc, pending>>
    BY <1>1 DEF Import, Export, Exit, Alive, IInv, CallInv, AnalyzerPhase
  <2>2. pending[r] = "none"
    BY <2>1 DEF IInv, CallInv, AnalyzerPhase
  <2>. QED
    BY <2>1, <2>2, OngoingCall DEF NothingStarted
<1>2. CASE Expire(r)
  <2>1. /\ process[r].state = "orphaned" /\ process'[r].state = "gone"
        /\ process'[r].code = process[r].code
        /\ UNCHANGED <<stdout, pending, answer>>
    BY <1>2 DEF Expire, IInv, TypeOK, Processes
  <2>2. \A e : Explains(r, e) => Explains(r, e)'
    BY <2>1 DEF Explains, Recorded, Survivor
  <2>. QED
    BY <2>1, <2>2 DEF AnswerInv, NativeFirst, Explained, NothingStarted
<1>. QED
  BY <1>1, <1>2 DEF Analyzer

\* A step of one call leaves the others alone.
LEMMA OthersStand ==
    ASSUME IInv, NEW r \in Requests, Call(r) \/ Step(r) \/ Analyzer(r),
           NEW q \in Requests \ {r}
    PROVE  /\ process'[q] = process[q] /\ stdout'[q] = stdout[q]
           /\ pending'[q] = pending[q] /\ answer'[q] = answer[q]
           /\ image'[q] = image[q] /\ pc'[q] = pc[q]
<1>. USE DEF Goto, Finish, host, IInv, TypeOK
<1>1. CASE Call(r)
  BY <1>1 DEF Call, Configure, Inject
<1>2. CASE Step(r)
  BY <1>2 DEF Step, Select, Lift, Stage, StageFails, Launch, Collect, Timeout, Drain, Leave,
              LeaveFails, Check
<1>3. CASE Analyzer(r)
  BY <1>3 DEF Analyzer, Import, Export, Exit, Expire
<1>. QED
  BY <1>1, <1>2, <1>3

LEMMA AnswersInvariant == Spec => [](\A r \in Requests : AnswerInv(r))
<1>1. Init => \A r \in Requests : AnswerInv(r)
  BY AnswerFields DEF Init, AnswerInv, NativeFirst, Explained, NothingStarted
<1>2. IInv /\ IInv' /\ (\A r \in Requests : AnswerInv(r)) /\ [Next]_vars
          => (\A r \in Requests : AnswerInv(r))'
  <2>. SUFFICES ASSUME IInv, IInv', \A r \in Requests : AnswerInv(r), [Next]_vars,
                       NEW q \in Requests
                PROVE  AnswerInv(q)'
    OBVIOUS
  <2>1. CASE Toggle \/ UNCHANGED vars
    BY <2>1, IdleCall DEF Toggle, local, vars
  <2>2. CASE \E r \in Requests : Call(r) \/ Step(r) \/ Analyzer(r)
    BY <2>2, StepAnswers, CallAnswers, AnalyzerAnswers, OthersStand, IdleCall
  <2>. QED
    BY <2>1, <2>2 DEF Next
<1>. QED
  BY <1>1, <1>2, Invariance, PTL DEF Spec

\* native is the fallback for a missing launcher, never for a failed run: once an
\* analyzer was started for a call, no native functions answer it.
THEOREM NativeIsNoLateFallback == Spec => []NoLateFallback
<1>1. (\A r \in Requests : AnswerInv(r)) => NoLateFallback
  BY DEF AnswerInv, NativeFirst, NoLateFallback
<1>. QED
  BY <1>1, AnswersInvariant, PTL

\* The class of an exception tells what happened to the run behind it.
THEOREM FailuresAreExplained == Spec => []FailureExplained
<1>1. (\A r \in Requests : AnswerInv(r)) => FailureExplained
  BY DEF AnswerInv, Explained, FailureExplained
<1>. QED
  BY <1>1, AnswersInvariant, PTL

-------------------------------------------------------------------------------
(* When a timeout is reported as one.                                          *)

TimeoutTold(r) ==
    pc[r] = "done" /\ pending[r] = "timeout" =>
        \/ answer[r] = Service!Raised("timeout")
        \/ process[r].state \in Survivor /\ answer[r] = Service!Raised("os")

\* Only a launcher that forks leaves an analyzer behind the kill.
NoOrphan(r) == ~Forks => process[r].state \notin Survivor

LEMMA StepTellsTimeout ==
    ASSUME IInv, NEW r \in Requests, TimeoutTold(r), Step(r)
    PROVE  TimeoutTold(r)'
<1>. USE DEF Goto, Finish, host
<1>0. /\ pc \in [Requests -> Control] /\ pending \in [Requests -> Endings]
      /\ answer \in [Requests -> AnswerType]
  BY DEF IInv, TypeOK
<1>1. CASE Select(r) \/ Lift(r) \/ Stage(r) \/ StageFails(r)
  <2>1. pending[r] = "none" /\ UNCHANGED pending
    BY <1>1 DEF Select, Lift, Stage, StageFails, IInv, CallInv, AnalyzerPhase
  <2>. QED
    BY <2>1 DEF TimeoutTold
<1>2. CASE Launch(r) \/ Collect(r) \/ Timeout(r) \/ Drain(r)
  <2>1. pc'[r] # "done"
    BY <1>0, <1>2 DEF Launch, Collect, Timeout, Drain
  <2>. QED
    BY <2>1 DEF TimeoutTold
<1>3. CASE Leave(r)
  <2>1. CASE pending[r] = "timeout"
    <3>1. answer'[r] = Service!Raised("timeout")
      BY <1>0, <1>3, <2>1 DEF Leave
    <3>. QED
      BY <3>1 DEF TimeoutTold
  <2>2. CASE pending[r] # "timeout"
    BY <1>3, <2>2 DEF Leave, TimeoutTold
  <2>. QED
    BY <2>1, <2>2
<1>4. CASE LeaveFails(r)
  <2>1. process'[r].state \in Survivor /\ answer'[r] = Service!Raised("os")
    BY <1>0, <1>4 DEF LeaveFails, Survivor
  <2>. QED
    BY <2>1 DEF TimeoutTold
<1>5. CASE Check(r)
  <2>1. pending[r] = "completed" /\ UNCHANGED pending
    BY <1>5 DEF Check, IInv, CallInv, AnalyzerPhase
  <2>. QED
    BY <2>1 DEF TimeoutTold
<1>. QED
  BY <1>1, <1>2, <1>3, <1>4, <1>5 DEF Step

\* A call that begins has no timeout, an analyzer that moves is waited for.
LEMMA OtherwiseNoTimeout ==
    ASSUME IInv, NEW r \in Requests, TimeoutTold(r), Call(r) \/ Analyzer(r)
    PROVE  TimeoutTold(r)'
<1>1. CASE Call(r)
  <2>1. pending[r] = "none" /\ UNCHANGED pending
    BY <1>1 DEF Call, Configure, Inject, Goto, Finish, IInv, CallInv, AnalyzerPhase
  <2>. QED
    BY <2>1 DEF TimeoutTold
<1>2. CASE Import(r) \/ Export(r) \/ Exit(r)
  <2>1. pc[r] = "wait" /\ UNCHANGED pc
    BY <1>2 DEF Import, Export, Exit, Alive, IInv, CallInv, AnalyzerPhase
  <2>. QED
    BY <2>1 DEF TimeoutTold
<1>3. CASE Expire(r)
  <2>1. process'[r].state \in Survivor /\ process[r].state \in Survivor
    BY <1>3 DEF Expire, Survivor, IInv, TypeOK, Processes
  <2>. QED
    BY <1>3, <2>1 DEF Expire, TimeoutTold
<1>. QED
  BY <1>1, <1>2, <1>3 DEF Analyzer

LEMMA OthersHold ==
    ASSUME IInv, NEW r \in Requests, Call(r) \/ Step(r) \/ Analyzer(r),
           NEW q \in Requests \ {r}, TimeoutTold(q)
    PROVE  TimeoutTold(q)'
  BY OthersStand DEF TimeoutTold

\* A call whose wait ends with TimeoutExpired raises the timeout, however the calls
\* interleave, unless an analyzer outlived the kill: then the error of removing
\* the project directory may replace it, and no other answer can.
THEOREM TimeoutsAreTold == Spec => [](\A r \in Requests : TimeoutTold(r))
<1>1. Init => \A r \in Requests : TimeoutTold(r)
  BY DEF Init, TimeoutTold
<1>2. IInv /\ (\A r \in Requests : TimeoutTold(r)) /\ [Next]_vars
          => (\A r \in Requests : TimeoutTold(r))'
  <2>. SUFFICES ASSUME IInv, \A r \in Requests : TimeoutTold(r), [Next]_vars,
                       NEW q \in Requests
                PROVE  TimeoutTold(q)'
    OBVIOUS
  <2>1. CASE Toggle \/ UNCHANGED vars
    BY <2>1 DEF Toggle, local, vars, TimeoutTold
  <2>2. CASE \E r \in Requests : Call(r) \/ Step(r) \/ Analyzer(r)
    BY <2>2, StepTellsTimeout, OtherwiseNoTimeout, OthersHold
  <2>. QED
    BY <2>1, <2>2 DEF Next
<1>. QED
  BY <1>1, <1>2, Invariance, PTL DEF Spec

LEMMA OrphansAreForked == Spec => [](\A r \in Requests : NoOrphan(r))
<1>1. Init => \A r \in Requests : NoOrphan(r)
  BY DEF Init, NoOrphan, Idle, Survivor
<1>2. IInv /\ (\A r \in Requests : NoOrphan(r)) /\ [Next]_vars
          => (\A r \in Requests : NoOrphan(r))'
  <2>. SUFFICES ASSUME IInv, \A r \in Requests : NoOrphan(r), [Next]_vars, ~Forks,
                       NEW q \in Requests
                PROVE  process'[q].state \notin Survivor
    BY DEF NoOrphan
  <2>0. process[q].state \notin Survivor /\ process \in [Requests -> Processes]
    BY DEF NoOrphan, IInv, TypeOK
  <2>1. CASE Toggle \/ UNCHANGED vars
    BY <2>0, <2>1 DEF Toggle, local, vars
  <2>2. ASSUME NEW r \in Requests, Call(r) \/ Step(r) \/ Analyzer(r)
        PROVE  process'[q].state \notin Survivor
    <3>1. CASE q # r
      BY <2>0, <2>2, <3>1, OthersStand
    <3>2. CASE q = r /\ Call(r)
      BY <2>0, <3>2 DEF Call, Configure, Inject
    <3>3. CASE q = r /\ Analyzer(r)
      BY <2>0, <3>3 DEF Analyzer, Import, Export, Exit, Expire, Processes, Ended, Survivor
    <3>4. CASE q = r /\ Timeout(r)
      BY <2>0, <3>4 DEF Timeout, Ended, Survivor
    <3>5. CASE q = r /\ Launch(r)
      BY <2>0, <3>5 DEF Launch, Started, Survivor
    <3>6. CASE q = r /\ Step(r) /\ ~Timeout(r) /\ ~Launch(r)
      BY <2>0, <3>6 DEF Step, Select, Lift, Stage, StageFails, Collect, Drain, Leave,
                        LeaveFails, Check
    <3>. QED
      BY <2>2, <3>1, <3>2, <3>3, <3>4, <3>5, <3>6
  <2>. QED
    BY <2>1, <2>2 DEF Next
<1>. QED
  BY <1>1, <1>2, Invariance, PTL DEF Spec

\* What docs/ghidra-backend.md says of a timeout is so where the launcher does
\* not fork; a run refutes it for one that does.
THEOREM TimeoutsAreTypedWithoutForks ==
    ASSUME ~Forks
    PROVE  Spec => []TimeoutIsTyped
<1>1. (\A r \in Requests : TimeoutTold(r)) /\ (\A r \in Requests : NoOrphan(r))
          => TimeoutIsTyped
  BY DEF TimeoutTold, NoOrphan, TimeoutIsTyped
<1>. QED
  BY <1>1, TimeoutsAreTold, OrphansAreForked, PTL

-------------------------------------------------------------------------------
(* GhidraHeadless implements the safety part of DecompileService: a call asks  *)
(* when it is configured, is answered when it finishes, and what happens in    *)
(* between, on the host and in the analyzer, cannot be seen.                   *)

Asked == [r \in Requests |-> {image[r]} \ {NoImage}]
HeldCalls == {r \in Requests : Held(r)}

\* A step that does not change whether its own call is held changes nobody's.
LEMMA HeldKept ==
    ASSUME IInv, NEW r \in Requests, Call(r) \/ Step(r) \/ Analyzer(r),
           Held(r)' = Held(r)
    PROVE  UNCHANGED HeldCalls
<1>1. \A q \in Requests \ {r} : Held(q)' = Held(q)
  BY OthersStand DEF Held
<1>. QED
  BY <1>1 DEF HeldCalls

\* One that does holds its own call or releases it, and no other.
LEMMA HeldChanged ==
    ASSUME IInv, NEW r \in Requests, Step(r) \/ Analyzer(r), Held(r)' # Held(r)
    PROVE  HeldCalls' = IF Held(r) THEN HeldCalls \ {r} ELSE HeldCalls \cup {r}
<1>1. \A q \in Requests \ {r} : Held(q)' = Held(q)
  BY OthersStand DEF Held
<1>2. Held(r) \in BOOLEAN /\ Held(r)' \in BOOLEAN
  BY DEF Held
<1>. QED
  BY <1>1, <1>2 DEF HeldCalls

\* A call that was made shows its image, and only its image.
LEMMA AskedImage ==
    ASSUME IInv, NEW r \in Requests, pc[r] # "idle"
    PROVE  image[r] \in Images /\ Asked[r] = {image[r]}
  BY GhidraAssumption DEF IInv, TypeOK, CallInv, HasImage, Asked

\* Finishing with one of the answers the service may give is answering.
LEMMA FinishIsAnswer ==
    ASSUME IInv, NEW r \in Requests, pc[r] # "idle", pc[r] # "done", UNCHANGED image,
           ~Held(r), UNCHANGED HeldCalls,
           NEW a \in Service!Answers(image[r]), answer' = [answer EXCEPT ![r] = a]
    PROVE  Service!Next
<1>1. image[r] \in Asked[r]
  BY AskedImage
<1>2. answer[r] = Service!Waiting
  BY DEF IInv, CallInv, AnsweredWhenDone
<1>3. UNCHANGED Asked
  BY DEF Asked
<1>. QED
  BY <1>1, <1>2, <1>3 DEF Service!Next, Service!Answer, Asked, HeldCalls

LEMMA FailureIsAnAnswer ==
    ASSUME NEW i, NEW e \in Service!Errors
    PROVE  Service!Raised(e) \in Service!Answers(i)
  BY DEF Service!Answers

\* What leaves the parser is an answer about the call's own image.
LEMMA ParsedIsAnAnswer ==
    ASSUME IInv, NEW r \in Requests
    PROVE  Parsed(r) \in Service!Answers(image[r])
<1>1. CASE Parsed(r) = Service!Raised("output")
  BY <1>1, FailureIsAnAnswer DEF Service!Errors
<1>2. CASE Parsed(r) = Service!Returned("ghidra", Recorded(r)) /\ Recorded(r) # {}
  <2>1. Recorded(r) \in (SUBSET FunctionsOf[image[r]]) \ {{}}
    BY <1>2 DEF IInv, CallInv, OwnOutput
  <2>. QED
    BY <1>2, <2>1 DEF Service!Answers
<1>. QED
  BY <1>1, <1>2 DEF Parsed

LEMMA CallIsAsk ==
    ASSUME IInv, NEW r \in Requests, Call(r)
    PROVE  Service!Next
<1>. USE DEF Goto, Finish
<1>1. PICK i \in Images :
          /\ image' = [image EXCEPT ![r] = i] /\ pc[r] = "idle"
          /\ \/ UNCHANGED answer
             \/ answer' = [answer EXCEPT ![r] = Service!Raised("configuration")]
  BY DEF Call, Configure, Inject
<1>2. image[r] = NoImage /\ image \in [Requests -> Images \cup {NoImage}]
  BY <1>1 DEF IInv, TypeOK, CallInv, HasImage
<1>4. UNCHANGED HeldCalls
  <2>1. ~Held(r) /\ ~Held(r)'
    BY DEF Call, Configure, Inject, Held, IInv, TypeOK
  <2>. QED
    BY <2>1, HeldKept DEF Held
<1>3. Asked[r] = {} /\ Asked' = [Asked EXCEPT ![r] = {i}]
  <2>1. i # NoImage
    BY GhidraAssumption
  <2>2. image'[r] = i /\ \A q \in Requests \ {r} : image'[q] = image[q]
    BY <1>1, <1>2
  <2>3. /\ \A q \in Requests : Asked[q] = {image[q]} \ {NoImage}
        /\ \A q \in Requests : Asked'[q] = {image'[q]} \ {NoImage}
        /\ Asked = [q \in Requests |-> Asked[q]]
        /\ Asked' = [q \in Requests |-> Asked'[q]]
    BY DEF Asked
  <2>4. Asked[r] = {} /\ Asked'[r] = {i}
    BY <1>2, <2>1, <2>2, <2>3
  <2>5. \A q \in Requests \ {r} : Asked'[q] = Asked[q]
    BY <2>2, <2>3
  <2>. QED
    BY <2>3, <2>4, <2>5, Zenon
<1>. QED
  BY <1>1, <1>3, <1>4 DEF Service!Next, Service!Ask, Asked, HeldCalls

\* The timeout may leave a call held; nothing else about it can be seen.
LEMMA TimeoutMayHold ==
    ASSUME IInv, NEW r \in Requests, Timeout(r)
    PROVE  Service!Next \/ UNCHANGED Service!vars
<1>1. /\ pc[r] = "wait" /\ UNCHANGED <<image, answer>> /\ ~Held(r)
      /\ Step(r) /\ image[r] \in Images /\ answer[r] = Service!Waiting
  BY DEF Timeout, Goto, host, Held, Step, IInv, TypeOK, CallInv, HasImage,
         AnsweredWhenDone
<1>2. UNCHANGED Asked /\ Asked[r] # {}
  BY <1>1, AskedImage DEF Asked
<1>3. CASE Held(r)'
  <2>1. HeldCalls' = HeldCalls \cup {r} /\ r \notin HeldCalls
    BY <1>1, <1>3, HeldChanged DEF HeldCalls
  <2>. QED
    BY <1>1, <1>2, <2>1 DEF Service!Next, Service!Hold, Asked, HeldCalls
<1>4. CASE ~Held(r)'
  <2>1. UNCHANGED HeldCalls
    BY <1>1, <1>4, HeldKept DEF Held
  <2>. QED
    BY <1>1, <1>2, <2>1 DEF Service!vars, Asked, HeldCalls
<1>. QED
  BY <1>3, <1>4

\* An orphaned analyzer that ends releases the call it held.
LEMMA AnalyzerMayRelease ==
    ASSUME IInv, NEW r \in Requests, Analyzer(r)
    PROVE  Service!Next \/ UNCHANGED Service!vars
<1>1. UNCHANGED <<image, answer, pc>>
  BY DEF Analyzer, Import, Export, Exit, Expire
<1>2. UNCHANGED Asked
  BY <1>1 DEF Asked
<1>3. CASE Held(r) # Held(r)'
  <2>1. Held(r) /\ ~Held(r)'
    <3>1. CASE Import(r) \/ Export(r) \/ Exit(r)
      <4>1. pc[r] = "wait"
        BY <3>1 DEF Import, Export, Exit, Alive, IInv, CallInv, AnalyzerPhase
      <4>. QED
        BY <1>1, <1>3, <4>1 DEF Held
    <3>2. CASE Expire(r)
      BY <1>3, <3>2 DEF Expire, Held, IInv, TypeOK, Processes
    <3>. QED
      BY <3>1, <3>2 DEF Analyzer
  <2>2. HeldCalls' = HeldCalls \ {r} /\ r \in HeldCalls
    BY <1>3, <2>1, HeldChanged DEF HeldCalls
  <2>. QED
    BY <1>1, <1>2, <2>2 DEF Service!Next, Service!Release, Asked, HeldCalls
<1>4. CASE Held(r)' = Held(r)
  <2>1. UNCHANGED HeldCalls
    BY <1>4, HeldKept
  <2>. QED
    BY <1>1, <1>2, <2>1 DEF Service!vars, Asked, HeldCalls
<1>. QED
  BY <1>3, <1>4

LEMMA StepIsAnswer ==
    ASSUME IInv, NEW r \in Requests, Step(r)
    PROVE  Service!Next \/ UNCHANGED Service!vars
<1>. USE DEF Goto, Finish, host
<1>. SUFFICES ASSUME ~Timeout(r)
              PROVE  Service!Next \/ UNCHANGED Service!vars
  BY TimeoutMayHold
<1>0. pc[r] # "idle" /\ pc[r] # "done" /\ UNCHANGED image
  BY DEF Step, Select, Lift, Stage, StageFails, Launch, Collect, Timeout, Drain, Leave,
         LeaveFails, Check
<1>6. ~Held(r) /\ UNCHANGED HeldCalls
  <2>1. ~Held(r)
    BY DEF Held, Step, Select, Lift, Stage, StageFails, Launch, Collect, Drain, Leave,
           LeaveFails, Check
  <2>2. pc'[r] # "drain"
    BY DEF Step, Select, Lift, Stage, StageFails, Launch, Collect, Drain, Leave,
           LeaveFails, Check, IInv, TypeOK, Control, Chains
  <2>. QED
    BY <2>1, <2>2, HeldKept DEF Held
<1>1. CASE UNCHANGED answer
  <2>1. UNCHANGED Asked
    BY <1>0 DEF Asked
  <2>. QED
    BY <1>1, <1>6, <2>1 DEF Service!vars, Asked, HeldCalls
<1>2. CASE \E e \in Service!Errors : answer' = [answer EXCEPT ![r] = Service!Raised(e)]
  BY <1>0, <1>2, <1>6, FailureIsAnAnswer, FinishIsAnswer
<1>3. CASE answer' = [answer EXCEPT ![r] = Service!Returned("native", NativeOf[image[r]])]
  BY <1>0, <1>3, <1>6, FinishIsAnswer DEF Service!Answers
<1>4. CASE answer' = [answer EXCEPT ![r] = Parsed(r)]
  BY <1>0, <1>4, <1>6, ParsedIsAnAnswer, FinishIsAnswer
<1>5. pc[r] = "leave" => pending[r] \in Service!Errors \cup {"completed"}
  BY DEF IInv, TypeOK, CallInv, AnalyzerPhase, Endings, Service!Errors
<1>. QED
  BY <1>1, <1>2, <1>3, <1>4, <1>5
     DEF Step, Select, Lift, Stage, StageFails, Launch, Collect, Timeout, Drain, Leave,
         LeaveFails, Check, Service!Errors

\* Whatever backend serves, with any number of calls on the host: each call is
\* answered at most once, with functions of the very image it passed or with one
\* failure, and no answer is revised.
THEOREM HeadlessImplementsService ==
    Spec => Service!Init /\ [][Service!Next]_(Service!vars)
<1>1. Init => Service!Init
  BY DEF Init, Service!Init, Held
<1>2. IInv /\ [Next]_vars => [Service!Next]_(Service!vars)
  <2>. SUFFICES ASSUME IInv, [Next]_vars
                PROVE  Service!Next \/ UNCHANGED Service!vars
    OBVIOUS
  <2>1. CASE \E r \in Requests : Analyzer(r)
    BY <2>1, AnalyzerMayRelease
  <2>2. CASE Toggle \/ UNCHANGED vars
    BY <2>2 DEF Toggle, local, vars, Service!vars, Held
  <2>3. CASE \E r \in Requests : Call(r) \/ Step(r)
    BY <2>3, CallIsAsk, StepIsAnswer
  <2>. QED
    BY <2>1, <2>2, <2>3 DEF Next
<1>. QED
  BY <1>1, <1>2, Invariance, PTL DEF Spec

===============================================================================
