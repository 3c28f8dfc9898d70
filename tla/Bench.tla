-------------------------------- MODULE Bench --------------------------------
(***************************************************************************)
(* FileAccess, which answers queries from a file on disk, and the          *)
(* benchmarks of bench.hpp, which build a data structure in one function   *)
(* and query it in another.  All that matters here is the descriptor that  *)
(* FileAccess holds: its destructor closes it, and copies share its number. *)
(***************************************************************************)
EXTENDS Integers

CONSTANT MaxDescriptor   \* the highest number the system gives to an open file

ASSUME DescriptorsAssumption == MaxDescriptor \in Nat

Descriptors == 0 .. MaxDescriptor

NoDescriptor == -1     \* what open returns if it fails

VARIABLES
  opened,              \* what each descriptor stands for: "file", "random" or "nothing"
  handle,              \* FileAccess::file of the object that is alive
  random,              \* the descriptor of the std::random_device
  benching,            \* where the benchmark is
  answeredFrom         \* what the last query was answered from

benchVars == << opened, handle, random, benching, answeredFrom >>

BenchInit ==
  /\ opened = [d \in Descriptors |-> "nothing"]
  /\ handle = NoDescriptor
  /\ random = NoDescriptor
  /\ benching = "idle"
  /\ answeredFrom = "no query"

(* open gives the lowest number that is free. *)
Free == {d \in Descriptors : opened[d] = "nothing"}

LowestFree == CHOOSE d \in Free : \A e \in Free : d <= e

Opened(d, what) == [opened EXCEPT ![d] = what]

(* Closing a number that is not open changes nothing. *)
Closed(d) == IF d \in Descriptors THEN [opened EXCEPT ![d] = "nothing"] ELSE opened

Behind(d) == IF d \in Descriptors THEN opened[d] ELSE "nothing"

(* FileAccess::from_file.  A file that is missing is not noticed. *)
OpenFile ==
  \/ Free # {} /\ handle' = LowestFree /\ opened' = Opened(LowestFree, "file")
  \/ handle' = NoDescriptor /\ UNCHANGED opened

(* FileAccess::~FileAccess. *)
CloseFile ==
  /\ opened' = Closed(handle)
  /\ handle' = NoDescriptor

(* build_random_access<FileAccess>: from_file, without looking at the result. *)
BuildFile ==
  /\ benching = "idle"
  /\ OpenFile
  /\ benching' = "built"
  /\ UNCHANGED << random, answeredFrom >>

(* The result gets a copy of the object, which has no move constructor; the *)
(* original is destroyed at the end of the function.                        *)
ReturnResult ==
  /\ benching = "built"
  /\ opened' = Closed(handle)
  /\ benching' = "returned"
  /\ UNCHANGED << handle, random, answeredFrom >>

(* std::random_device reads a file of the system, or asks the processor. *)
SeedRandom ==
  /\ benching = "returned"
  /\ \/ Free # {} /\ random' = LowestFree /\ opened' = Opened(LowestFree, "random")
     \/ UNCHANGED << random, opened >>
  /\ benching' = "querying"
  /\ UNCHANGED << handle, answeredFrom >>

(* at and substr read from whatever the descriptor stands for by now. *)
QueryFile ==
  /\ benching = "querying"
  /\ answeredFrom' = Behind(handle)
  /\ UNCHANGED << opened, handle, random, benching >>

(* Variant: the random device outlives the benchmark. *)
EndQueriesKeepRandom ==
  /\ benching = "querying"
  /\ benching' = "queried"
  /\ UNCHANGED << opened, handle, random, answeredFrom >>

(* The locals of the benchmark end before the object it was given. *)
EndQueries ==
  /\ benching = "querying"
  /\ opened' = Closed(random)
  /\ random' = NoDescriptor
  /\ benching' = "queried"
  /\ UNCHANGED << handle, answeredFrom >>

DestroyResult ==
  /\ benching = "queried"
  /\ CloseFile
  /\ benching' = "done"
  /\ UNCHANGED << random, answeredFrom >>

(* The other data structures live in memory, and are moved. *)
BenchMemory ==
  /\ benching = "idle"
  /\ benching' = "done"
  /\ answeredFrom' = "memory"
  /\ UNCHANGED << opened, handle, random >>

BenchFile ==
  \/ BuildFile \/ ReturnResult \/ SeedRandom \/ QueryFile \/ EndQueries \/ DestroyResult
=============================================================================
