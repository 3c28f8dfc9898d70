------------------------------- MODULE VerifyDs -------------------------------
(***************************************************************************)
(* verify_ds of main.cpp: a data structure is compared with the plain text *)
(* it stands for, character by character and then window by window, each   *)
(* in a parallel loop.  The threads share the progress bar and the one     *)
(* unnamed critical section; the buffers of the second loop are private.   *)
(*                                                                         *)
(* OpenMP leaves open which thread runs which iteration, so a loop begins  *)
(* with any division; each thread then runs its own in order.  One that    *)
(* cancels the loop gives up the rest of its own, the others go on.        *)
(***************************************************************************)
EXTENDS SizeT, Sequences, FiniteSets

CONSTANTS
  Threads,         \* the OpenMP team
  Window,          \* the length of a window: 10 in the code
  Ticks,           \* the steps of the progress bar: 100 in the code
  Chars,           \* the values of a char; 0 ends a C string
  Cases,           \* the texts, and what the data structure answers
  Garbage          \* what uninitialized buffers may hold

Buffer == [1 .. Window -> Chars]

(* source[i] and at[i] are the characters at i, of the text and as the data *)
(* structure has it; substr[i] is what it writes for the window at i.  The  *)
(* structure knows no more than the text, or less, if it is of another one. *)
IsCase(c) ==
  /\ c.length \in Nat /\ c.length < Sizes
  /\ c.known \in 0 .. c.length
  /\ c.source \in [0 .. (c.length - 1) -> Chars]
  /\ c.at \in [0 .. (c.known - 1) -> Chars]
  /\ \A i \in 0 .. c.known : c.substr[i] \in Seq(Chars) /\ Len(c.substr[i]) <= Window
  /\ c.cancellation \in BOOLEAN

ASSUME CasesAssumption ==
  /\ Window \in Nat \ {0} /\ Ticks \in Nat \ {0} /\ Window < Ticks /\ Ticks < Sizes
  /\ Garbage # {} /\ Garbage \subseteq [src : Buffer, ds : Buffer]
  /\ \A c \in Cases : IsCase(c)
  /\ Threads # {}

(* Nothing is loaded yet. *)
NoCase == [length |-> 0, known |-> 0, source |-> << >>, at |-> << >>, substr |-> << >>,
           cancellation |-> FALSE]

VARIABLES
  verifying,       \* where verify_ds is
  case,            \* the text and the data structure
  todo,            \* of each thread: its iterations that are still to come
  pc, turn,        \* of each thread: where it is, and in which iteration
  buffers,         \* of each thread: src_buf and ds_buf
  critical,        \* the threads in the critical section
  progress, seen,  \* the progress bar, and what a thread in update() read from it
  badChars,        \* the indexes that were reported
  badWindows       \* the windows that were reported

teamVars == << pc, turn, critical, seen >>
reportVars == << badChars, badWindows >>
verifyVars == << verifying, case, todo, teamVars, buffers, progress, reportVars >>

VerifyInit ==
  /\ verifying = "idle"
  /\ case = NoCase
  /\ todo = [t \in Threads |-> {}]
  /\ pc = [t \in Threads |-> "left"]
  /\ turn = [t \in Threads |-> 0]
  /\ buffers = [t \in Threads |-> CHOOSE b \in Garbage : TRUE]
  /\ critical = {}
  /\ progress = 0
  /\ seen = [t \in Threads |-> 0]
  /\ badChars = {} /\ badWindows = {}

(* #pragma omp for over 0 .. count - 1. *)
Fork(count) ==
  /\ \E runner \in [0 .. (count - 1) -> Threads] :
       todo' = [t \in Threads |-> {i \in 0 .. (count - 1) : runner[i] = t}]
  /\ pc' = [t \in Threads |-> "take"]
  /\ progress' = 0
  /\ UNCHANGED << turn, critical, seen >>

(* Both files are there and have been loaded. *)
StartChars ==
  /\ verifying = "idle"
  /\ verifying' = "chars"
  /\ case' \in Cases
  /\ Fork(case'.length)
  /\ UNCHANGED << buffers, reportVars >>

(* A file is missing: an early return. *)
FileMissing ==
  /\ verifying = "idle"
  /\ verifying' = "missing"
  /\ UNCHANGED << case, todo, teamVars, buffers, progress, reportVars >>

Take(t) ==
  /\ verifying \in {"chars", "windows"} /\ pc[t] = "take"
  /\ \E i \in todo[t] :
       /\ \A j \in todo[t] : i <= j
       /\ turn' = [turn EXCEPT ![t] = i]
       /\ todo' = [todo EXCEPT ![t] = @ \ {i}]
  /\ pc' = [pc EXCEPT ![t] = IF verifying = "chars" THEN "compare" ELSE "fill"]
  /\ UNCHANGED << verifying, case, buffers, critical, progress, seen, reportVars >>

(* Nothing is left of its iterations. *)
Leave(t) ==
  /\ verifying \in {"chars", "windows"} /\ pc[t] = "take"
  /\ todo[t] = {}
  /\ pc' = [pc EXCEPT ![t] = "left"]
  /\ UNCHANGED << verifying, case, todo, turn, buffers, critical, progress, seen, reportVars >>

(* Variant: a break out of the loop wherever it is cancelled. *)
CancelForAlways(t) ==
  /\ pc' = [pc EXCEPT ![t] = "left"]
  /\ todo' = [todo EXCEPT ![t] = {}]

(* After a report: #pragma omp cancel for, which does nothing unless the   *)
(* program was started with OMP_CANCELLATION.  The thread leaves the loop, *)
(* and the rest of its iterations is not run.                              *)
CancelFor(t) ==
  \/ /\ case.cancellation
     /\ pc' = [pc EXCEPT ![t] = "left"]
     /\ todo' = [todo EXCEPT ![t] = {}]
  \/ /\ ~case.cancellation
     /\ pc' = [pc EXCEPT ![t] = "tick"]
     /\ UNCHANGED todo

(* ds.at checks no index: behind its text it reads what is not its own. *)
AtBehind(t) ==
  /\ verifying = "chars" /\ pc[t] = "compare"
  /\ turn[t] >= case.known
  /\ verifying' = "undefined"
  /\ UNCHANGED << case, todo, teamVars, buffers, progress, reportVars >>

CompareChars(t) ==
  /\ verifying = "chars" /\ pc[t] = "compare"
  /\ turn[t] < case.known
  /\ IF case.source[turn[t]] # case.at[turn[t]]
     THEN badChars' = badChars \cup {turn[t]} /\ CancelFor(t)
     ELSE pc' = [pc EXCEPT ![t] = "tick"] /\ UNCHANGED << badChars, todo >>
  /\ UNCHANGED << verifying, case, turn, buffers, critical, progress, seen, badWindows >>

(* Variant: the buffers are declared before the parallel region. *)
BufferOfShared(t) == CHOOSE u \in Threads : TRUE

(* src_buf and ds_buf are declared in the parallel region: one pair for each. *)
BufferOf(t) == t

(* What source.copy(src_buf, 10, i) writes: less than a window at the end. *)
SourceWindow(c, i) ==
  [k \in 1 .. (IF i + Window <= c.length THEN Window ELSE c.length - i) |-> c.source[i + k - 1]]

(* A buffer keeps what is not overwritten. *)
Overwritten(buf, string) ==
  [k \in 1 .. Window |-> IF k <= Len(string) THEN string[k] ELSE buf[k]]

(* source.copy throws for a place behind the text, and nobody catches it. *)
CopyThrows(t) ==
  /\ verifying = "windows" /\ pc[t] = "fill"
  /\ turn[t] > case.length
  /\ verifying' = "crashed"
  /\ UNCHANGED << case, todo, teamVars, buffers, progress, reportVars >>

(* Nor does ds.substr check where it begins. *)
SubstrBehind(t) ==
  /\ verifying = "windows" /\ pc[t] = "fill"
  /\ turn[t] <= case.length /\ turn[t] > case.known
  /\ verifying' = "undefined"
  /\ UNCHANGED << case, todo, teamVars, buffers, progress, reportVars >>

FillBuffers(t) ==
  /\ verifying = "windows" /\ pc[t] = "fill"
  /\ turn[t] <= case.known
  /\ buffers' = [buffers EXCEPT ![BufferOf(t)] =
                   [src |-> Overwritten(@.src, SourceWindow(case, turn[t])),
                    ds  |-> Overwritten(@.ds, case.substr[turn[t]])]]
  /\ pc' = [pc EXCEPT ![t] = "match"]
  /\ UNCHANGED << verifying, case, todo, turn, critical, progress, seen, reportVars >>

(* strcmp # 0: the strings differ before both have ended. *)
StringsDiffer(a, b) ==
  \E k \in DOMAIN a : a[k] # b[k] /\ \A j \in 1 .. (k - 1) : a[j] = b[j] /\ a[j] # 0

(* The report goes through the critical section, which progress uses, too. *)
CompareWindows(t) ==
  /\ verifying = "windows" /\ pc[t] = "match"
  /\ LET buffer == buffers[BufferOf(t)]
     IN  IF StringsDiffer(buffer.src, buffer.ds)
         THEN critical = {} /\ badWindows' = badWindows \cup {turn[t]} /\ CancelFor(t)
         ELSE pc' = [pc EXCEPT ![t] = "tick"] /\ UNCHANGED << badWindows, todo >>
  /\ UNCHANGED << verifying, case, turn, buffers, critical, progress, seen, badChars >>

(* The iterations of the loop at hand, and how many of them make a tick. *)
Turns == IF verifying = "chars" THEN case.length ELSE Minus(case.length, Window)

(* Variant: one step too many is asked of the bar. *)
TurnsPerTickOneLess == (Turns - 1) \div Ticks

TurnsPerTick == Turns \div Ticks

(* i % (n / 100): a division by zero unless there are a hundred iterations. *)
TickCrashes(t) ==
  /\ pc[t] = "tick" /\ verifying \in {"chars", "windows"}
  /\ TurnsPerTick = 0
  /\ verifying' = "crashed"
  /\ UNCHANGED << case, todo, teamVars, buffers, progress, reportVars >>

Tick(t) ==
  /\ pc[t] = "tick" /\ verifying \in {"chars", "windows"}
  /\ TurnsPerTick # 0
  /\ pc' = [pc EXCEPT ![t] = IF turn[t] % TurnsPerTick = 0 THEN "enter" ELSE "take"]
  /\ UNCHANGED << verifying, case, todo, turn, critical, seen, buffers, progress, reportVars >>

(* Variant: bar.update() without the critical section. *)
BeginUpdateUnlocked(t) ==
  /\ pc[t] = "enter" /\ verifying \in {"chars", "windows"}
  /\ seen' = [seen EXCEPT ![t] = progress]
  /\ pc' = [pc EXCEPT ![t] = "update"]
  /\ UNCHANGED << verifying, case, todo, turn, critical, buffers, progress, reportVars >>

(* bar.update() in the critical section reads the progress ... *)
BeginUpdate(t) ==
  /\ pc[t] = "enter" /\ verifying \in {"chars", "windows"}
  /\ critical = {}
  /\ critical' = {t}
  /\ seen' = [seen EXCEPT ![t] = progress]
  /\ pc' = [pc EXCEPT ![t] = "update"]
  /\ UNCHANGED << verifying, case, todo, turn, buffers, progress, reportVars >>

(* ... and writes it back, one higher. *)
EndUpdate(t) ==
  /\ pc[t] = "update" /\ verifying \in {"chars", "windows"}
  /\ progress' = seen[t] + 1
  /\ critical' = {}
  /\ pc' = [pc EXCEPT ![t] = "take"]
  /\ UNCHANGED << verifying, case, todo, turn, seen, buffers, reportVars >>

(* The implicit barrier at the end of a loop. *)
AllLeft == \A t \in Threads : pc[t] = "left"

(* The second parallel region declares its buffers anew.  It leaves out the *)
(* last window of the text, and begins a wrapped number of iterations for a *)
(* text shorter than a window.                                              *)
StartWindows ==
  /\ verifying = "chars" /\ AllLeft
  /\ verifying' = "windows"
  /\ Fork(Minus(case.length, Window))
  /\ buffers' \in [Threads -> Garbage]
  /\ UNCHANGED << case, reportVars >>

(* "Verification successful!", whatever was reported. *)
PrintMessage ==
  /\ verifying = "windows" /\ AllLeft
  /\ verifying' = "verified"
  /\ UNCHANGED << case, todo, teamVars, buffers, progress, reportVars >>

ThreadStep(t) ==
  \/ Take(t) \/ Leave(t) \/ AtBehind(t) \/ CompareChars(t)
  \/ CopyThrows(t) \/ SubstrBehind(t) \/ FillBuffers(t) \/ CompareWindows(t)
  \/ TickCrashes(t) \/ Tick(t) \/ BeginUpdate(t) \/ EndUpdate(t)

VerifyNext ==
  \/ StartChars \/ FileMissing \/ StartWindows \/ PrintMessage
  \/ \E t \in Threads : ThreadStep(t)

VerifySpec == VerifyInit /\ [][VerifyNext]_verifyVars
-----------------------------------------------------------------------------
VerifyTypeOK ==
  /\ verifying \in {"idle", "missing", "chars", "windows", "verified", "crashed", "undefined"}
  /\ case \in Cases \/ (verifying \in {"idle", "missing"} /\ case = NoCase)
  /\ todo \in [Threads -> SUBSET Nat]
  /\ pc \in [Threads -> {"take", "compare", "fill", "match", "tick", "enter", "update", "left"}]
  /\ turn \in [Threads -> Nat] /\ seen \in [Threads -> Nat]
  /\ buffers \in [Threads -> [src : Buffer, ds : Buffer]]
  /\ critical \subseteq Threads
  /\ progress \in Nat
  /\ badChars \subseteq Nat /\ badWindows \subseteq Nat

(* What goes wrong with a place or a window, and what strcmp can see of it:  *)
(* only what was written over the old buffer, and nothing behind a 0.        *)
CharWrong(i) == i >= case.known \/ case.source[i] # case.at[i]

WindowWrong(i) == i > case.known \/ SourceWindow(case, i) # case.substr[i]

WindowVisiblyWrong(i) ==
  /\ i <= case.known
  /\ \E k \in DOMAIN case.substr[i] :
       /\ case.source[i + k - 1] # case.substr[i][k]
       /\ \A j \in 1 .. (k - 1) : case.source[i + j - 1] = case.substr[i][j] /\ case.substr[i][j] # 0

(* Only what is wrong is reported, whatever the other threads do to their    *)
(* buffers meanwhile and whatever the buffers held before.  (A text shorter  *)
(* than a window gets there only if its first loop is cancelled or empty.)   *)
NoFalseAlarm ==
  /\ \A i \in badChars : CharWrong(i)
  /\ case.length >= Window => \A i \in badWindows : WindowWrong(i)

(* When the threads have met at the end of a loop, everything the loop is    *)
(* able to see was reported; if loops can be cancelled, at least one such    *)
(* thing.  The last window, what a short answer leaves of the old buffer and *)
(* what follows a 0 are never seen.                                          *)
Reported(wrong, reported) ==
  IF case.cancellation THEN wrong # {} => reported # {} ELSE wrong \subseteq reported

EveryVisibleErrorReported ==
  /\ verifying \in {"windows", "verified"} =>
       Reported({i \in 0 .. (case.length - 1) : CharWrong(i)}, badChars)
  /\ verifying = "verified" =>
       Reported({i \in 0 .. (case.length - Window - 1) : WindowVisiblyWrong(i)}, badWindows)

(* The progress bar loses no update although all threads increase it.        *)
TicksCounted ==
  verifying \in {"chars", "windows"} /\ AllLeft /\ ~case.cancellation /\ TurnsPerTick > 0 =>
    progress = Cardinality({i \in 0 .. (Turns - 1) : i % TurnsPerTick = 0})

(* Only a text too short for the progress output or for a window ends the    *)
(* program, and only of a data structure that is shorter than the text it is *)
(* asked for more than it has; without cancellation neither gets through.    *)
CrashesIfShort ==
  /\ verifying = "crashed" => case.length < Ticks + Window
  /\ verifying = "undefined" => case.known < case.length
  /\ verifying = "verified" /\ ~case.cancellation =>
       case.length >= Ticks + Window /\ case.known = case.length

(* The help text of -v: the file reproduces the same characters.  It does    *)
(* not hold of a run that ends with the message.                             *)
SuccessMeansSame ==
  verifying = "verified" =>
    /\ \A i \in 0 .. (case.length - 1) : ~CharWrong(i)
    /\ \A i \in 0 .. (case.length - Window) : ~WindowWrong(i)
=============================================================================
