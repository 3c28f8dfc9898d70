------------------------------- MODULE Program -------------------------------
(***************************************************************************)
(* Gracli::run of main.cpp: the options choose one of the two tools, or     *)
(* neither, and then one of the two benchmarks, or neither.  The tools and  *)
(* the benchmarks run one after the other in one process, so they share    *)
(* its descriptors, and what ends one of them abruptly ends the program.    *)
(***************************************************************************)
EXTENDS VerifyDs, QueryInteractive, Bench

CONSTANT Options   \* sets of options a user may give

(* type is the number after -d; files says whether both -f and -S are there. *)
ASSUME OptionsAssumption ==
  \A o \in Options :
    /\ o.type \in Nat
    /\ {o.interactive, o.random_access, o.substring, o.verify, o.files} \subseteq BOOLEAN

VARIABLES
  options,
  stage            \* what run is about to do or is doing

vars == << options, stage, verifyVars, interactiveVars, benchVars >>

Init ==
  /\ options \in Options
  /\ stage = "start"
  /\ VerifyInit /\ InteractiveInit /\ BenchInit

toolVars == << verifyVars, interactiveVars, benchVars >>

(* The data structures by their numbers; what is behind the last is 0. *)
Kinds == << "string", "naive", "sampled", "sampled", "sampled", "lzend", "file", "blocktree" >>

Kind == Kinds[(IF options.type > 7 THEN 0 ELSE options.type) + 1]

(* Without any of the four, interactive is set.  It shadows verify. *)
Interactive ==
  options.interactive \/ ~(options.random_access \/ options.substring \/ options.verify)

FilesMissing == options.verify /\ ~options.files

(* Variant: the tool keeps a copy of an object that was destroyed. *)
BeginToolCopied ==
  IF Kind = "file" THEN Free # {} /\ handle' = LowestFree /\ UNCHANGED opened
  ELSE UNCHANGED << opened, handle >>

(* A tool opens the file for as long as it runs. *)
BeginTool ==
  IF Kind = "file" THEN OpenFile ELSE UNCHANGED << opened, handle >>

Reject ==
  /\ stage = "start" /\ FilesMissing
  /\ stage' = "exited"
  /\ UNCHANGED << options, toolVars >>

NoTool ==
  /\ stage = "start" /\ ~FilesMissing
  /\ (~Interactive /\ ~options.verify) \/ Kind = "string"
  /\ stage' = "bench"
  /\ UNCHANGED << options, toolVars >>

(* Both tools return at once if the file is missing. *)
NoFile ==
  /\ stage = "start" /\ ~FilesMissing /\ Kind # "string"
  /\ IF Interactive THEN NothingToAsk /\ UNCHANGED verifyVars
     ELSE options.verify /\ FileMissing /\ UNCHANGED interactiveVars
  /\ stage' = "bench"
  /\ UNCHANGED << options, benchVars >>

StartInteractive ==
  /\ stage = "start" /\ ~FilesMissing /\ Kind # "string" /\ Interactive
  /\ StartAsking
  /\ BeginTool
  /\ stage' = "interactive"
  /\ UNCHANGED << options, verifyVars, random, benching, answeredFrom >>

StartVerify ==
  /\ stage = "start" /\ ~FilesMissing /\ Kind # "string" /\ ~Interactive /\ options.verify
  /\ StartChars
  /\ BeginTool
  /\ stage' = "verify"
  /\ UNCHANGED << options, interactiveVars, random, benching, answeredFrom >>

(* at and substr of FileAccess, wherever one of the tools calls them. *)
AnswerFrom == answeredFrom' = IF Kind = "file" THEN Behind(handle) ELSE "memory"

InteractiveStep ==
  /\ stage = "interactive"
  /\ InteractiveNext
  /\ IF Index \/ RangeShown THEN AnswerFrom ELSE UNCHANGED answeredFrom
  /\ UNCHANGED << options, stage, verifyVars, opened, handle, random, benching >>

VerifyStep ==
  /\ stage = "verify"
  /\ VerifyNext
  /\ IF \E t \in Threads : CompareChars(t) \/ FillBuffers(t)
     THEN AnswerFrom ELSE UNCHANGED answeredFrom
  /\ UNCHANGED << options, stage, interactiveVars, opened, handle, random, benching >>

(* The data structure is destroyed when its tool returns. *)
EndTool ==
  /\ \/ stage = "interactive" /\ asking = "returned"
     \/ stage = "verify" /\ verifying = "verified"
  /\ CloseFile
  /\ stage' = "bench"
  /\ UNCHANGED << options, verifyVars, interactiveVars, random, benching, answeredFrom >>

(* A signal, or an exception nobody catches. *)
Killed ==
  /\ \/ stage = "interactive" /\ asking \in {"aborted", "undefined"}
     \/ stage = "verify" /\ verifying \in {"crashed", "undefined"}
  /\ stage' = "killed"
  /\ UNCHANGED << options, toolVars >>

(* random_access shadows substring; both treat the data structure alike. *)
NoBench ==
  /\ stage = "bench" /\ ~options.random_access /\ ~options.substring
  /\ stage' = "exited"
  /\ UNCHANGED << options, toolVars >>

BenchStep ==
  /\ stage = "bench" /\ (options.random_access \/ options.substring)
  /\ IF Kind = "file" THEN BenchFile ELSE BenchMemory
  /\ UNCHANGED << options, stage, verifyVars, interactiveVars >>

EndBench ==
  /\ stage = "bench" /\ benching = "done"
  /\ stage' = "exited"
  /\ UNCHANGED << options, toolVars >>

Over == stage \in {"exited", "killed"}

Terminated == Over /\ UNCHANGED vars

Next ==
  \/ Reject \/ NoTool \/ NoFile \/ StartInteractive \/ StartVerify
  \/ InteractiveStep \/ VerifyStep \/ EndTool \/ Killed
  \/ NoBench \/ BenchStep \/ EndBench
  \/ Terminated

(* Every thread that can run does. *)
Spec == Init /\ [][Next]_vars /\ WF_vars(Next)
-----------------------------------------------------------------------------
(* A tool reads from the file it has opened until it returns; the second     *)
(* time the benchmark closes its number, nobody else has got it; and nothing *)
(* stays open.                                                               *)
DescriptorOwned ==
  /\ stage \in {"interactive", "verify"} /\ handle # NoDescriptor => opened[handle] = "file"
  /\ benching = "queried" => Behind(handle) = "nothing"
  /\ stage = "exited" => \A d \in Descriptors : opened[d] = "nothing"

(* Only a benchmark is ever answered from something else than its data        *)
(* structure, or a tool whose file could not be opened.                       *)
StaleOnlyInBenchmark ==
  answeredFrom \in {"nothing", "random"} =>
    \/ handle = NoDescriptor
    \/ stage \in {"bench", "exited"}

ToldToStop ==
  stage = "interactive" /\ asking = "prompt" /\ \E k \in DOMAIN input : input[k].cmd = "exit"

(* The words are used up, and the last one has been answered.                 *)
InputEnded == stage = "interactive" /\ asking = "prompt" /\ input = << >>

(* The end of the input does not end the loop: std::cin fails from then on,   *)
(* nobody looks, and the last word is answered again and again.               *)
EndlessAtEndOfInput ==
  [](InputEnded => [](stage = "interactive" /\ asking \in {"prompt", "answer"}))

(* The program ends, unless somebody has to tell it to and does not: then it  *)
(* goes on for ever, also at the end of the input.                            *)
ProgramEnds ==
  /\ stage \in {"verify", "bench"} ~> Over
  /\ ToldToStop ~> Over
  /\ EndlessAtEndOfInput
=============================================================================
