---------------------------- MODULE Program_proofs ----------------------------
(***************************************************************************)
(* Safety of verify_ds, for every number of threads, every schedule, every *)
(* text and every data structure; then the program as a whole: its         *)
(* verification is that of VerifyDs, so the theorems of the first part     *)
(* hold for it; its interactive mode answers as it should for every text   *)
(* and every input; and every tool reads from its own file, however the    *)
(* descriptors are handed out.                                             *)
(***************************************************************************)
EXTENDS Program, FiniteSetTheorems, WellFoundedInduction, TLAPS

Working == {"compare", "fill", "match", "tick", "enter", "update"}

(* Every thread is in the loop at hand, in one of its iterations. *)
InLoop ==
  verifying \in {"chars", "windows"} =>
    /\ \A t \in Threads : todo[t] \subseteq 0 .. (Turns - 1)
    /\ \A t \in Threads : pc[t] \in Working => turn[t] \in 0 .. (Turns - 1)
    /\ \A t \in Threads : pc[t] \in {"fill", "match"} => verifying = "windows"
    /\ \A t \in Threads : pc[t] = "compare" => verifying = "chars"

(* A thread compares what it has filled in, whatever the others did. *)
OwnBuffers ==
  verifying = "windows" =>
    \A t \in Threads : pc[t] = "match" =>
      /\ turn[t] <= case.known
      /\ \A k \in DOMAIN SourceWindow(case, turn[t]) : buffers[t].src[k] = SourceWindow(case, turn[t])[k]
      /\ \A k \in DOMAIN case.substr[turn[t]] : buffers[t].ds[k] = case.substr[turn[t]][k]

(* Iteration i is still to be begun, or a thread is at one of the steps of it. *)
Pending(i, steps) == \E t \in Threads : i \in todo[t] \/ (pc[t] \in steps /\ turn[t] = i)

(* What is wrong was reported, or its comparison is still to come, or the   *)
(* loop was cancelled, which a report precedes.                            *)
CharsCovered ==
  verifying = "chars" =>
    \A i \in 0 .. (case.length - 1) : CharWrong(i) =>
      i \in badChars \/ Pending(i, {"compare"}) \/ (case.cancellation /\ badChars # {})

WindowsCovered ==
  verifying = "windows" =>
    \A i \in 0 .. (case.length - Window - 1) : WindowVisiblyWrong(i) =>
      i \in badWindows \/ Pending(i, {"fill", "match"}) \/ (case.cancellation /\ badWindows # {})

(* A thread leaves when none of its iterations is left, or given up. *)
LeftDone ==
  verifying \in {"chars", "windows"} => \A t \in Threads : pc[t] = "left" => todo[t] = {}

(* A place the data structure does not have is never compared. *)
ReportedKnown == \A i \in badChars : i < case.known

(* No iteration of a loop without enough of them gets past the progress bar, *)
(* and none that begins behind the text gets past source.copy.               *)
ShortStuck ==
  verifying \in {"chars", "windows"} /\ TurnsPerTick = 0 /\ ~case.cancellation =>
    \A i \in 0 .. (Turns - 1) : Pending(i, {"compare", "fill", "match", "tick"})

BehindStuck ==
  verifying = "windows" /\ ~case.cancellation =>
    \A i \in (case.length + 1) .. (Turns - 1) : Pending(i, {"fill"})

LongEnough ==
  verifying = "windows" /\ ~case.cancellation => case.length = 0 \/ case.length >= Ticks

(* The number of iterations of a loop is a size. *)
LEMMA TurnsType == ASSUME VerifyTypeOK, case \in Cases PROVE Turns \in Nat
  BY CasesAssumption, SizesAssumption DEF Turns, Minus, IsCase, VerifyTypeOK

(* What i % (n / 100) divides by: zero below a hundred iterations ... *)
LEMMA DivZero == ASSUME NEW n \in Nat, NEW d \in Nat \ {0}, n \div d = 0 PROVE n < d
  OBVIOUS

(* ... and only there. *)
LEMMA DivSmall == ASSUME NEW n \in Nat, NEW d \in Nat \ {0}, n \div d # 0 PROVE n >= d
  OBVIOUS

(* At the beginning of a loop its iterations are divided among the threads. *)
LEMMA Divided ==
  ASSUME NEW count, Fork(count)
  PROVE  /\ progress' = 0 /\ todo' \in [Threads -> SUBSET (0 .. (count - 1))]
         /\ \A t \in Threads : todo'[t] \subseteq 0 .. (count - 1)
         /\ \A i \in 0 .. (count - 1) : \E t \in Threads : i \in todo'[t]
         /\ \A t, u \in Threads : t # u => todo'[t] \cap todo'[u] = {}
         /\ pc' = [t \in Threads |-> "take"]
         /\ UNCHANGED << turn, critical, seen >>
  <1>1. PICK runner \in [0 .. (count - 1) -> Threads] :
          todo' = [t \in Threads |-> {i \in 0 .. (count - 1) : runner[i] = t}]
    BY DEF Fork
  <1>2. \A i \in 0 .. (count - 1) : runner[i] \in Threads /\ i \in todo'[runner[i]]
    BY <1>1
  <1> QED
    BY <1>1, <1>2 DEF Fork

(* Windows are strings that fit a buffer. *)
LEMMA CaseType ==
  ASSUME VerifyTypeOK, case \in Cases, NEW i \in 0 .. case.length
  PROVE  /\ IsCase(case)
         /\ SourceWindow(case, i) \in Seq(Chars)
         /\ Len(SourceWindow(case, i)) <= Window
  <1>1. IsCase(case)
    BY CasesAssumption
  <1> DEFINE n == IF i + Window <= case.length THEN Window ELSE case.length - i
  <1>2. n \in Nat /\ n <= Window /\ i + n <= case.length
    BY <1>1, CasesAssumption DEF IsCase
  <1>3. \A k \in 1 .. n : i + k - 1 \in 0 .. (case.length - 1)
    BY <1>1, <1>2 DEF IsCase
  <1>4. SourceWindow(case, i) \in [1 .. n -> Chars]
    BY <1>1, <1>2, <1>3 DEF IsCase, SourceWindow
  <1> QED
    BY <1>1, <1>2, <1>4

(* A place that is compared is wrong if the characters differ. *)
LEMMA Compared ==
  ASSUME VerifyTypeOK, NEW t \in Threads, CompareChars(t)
  PROVE  CharWrong(turn[t]) <=> case.source[turn[t]] # case.at[turn[t]]
  <1>1. turn[t] \in Nat /\ case.known \in Nat /\ turn[t] < case.known
    BY CasesAssumption DEF VerifyTypeOK, CompareChars, IsCase
  <1> QED
    BY <1>1 DEF CharWrong

(* Writing a string over a buffer gives a buffer. *)
LEMMA OverwrittenType ==
  ASSUME NEW buf \in Buffer, NEW string \in Seq(Chars)
  PROVE  Overwritten(buf, string) \in Buffer
  BY DEF Overwritten, Buffer

(* What a thread does after it has compared: it reports and cancels, or it *)
(* goes on to the progress bar.                                           *)
LEMMA CancelType ==
  ASSUME VerifyTypeOK, NEW t \in Threads, CancelFor(t)
  PROVE  /\ pc' \in [Threads -> {"take", "compare", "fill", "match", "tick", "enter", "update", "left"}]
         /\ todo' \in [Threads -> SUBSET Nat]
  <1>1. CASE case.cancellation
    BY <1>1 DEF CancelFor, VerifyTypeOK
  <1>2. CASE ~case.cancellation
    BY <1>2 DEF CancelFor, VerifyTypeOK
  <1> QED
    BY <1>1, <1>2

(* Type correctness, at the beginning and for each step. *)
LEMMA TypeInit == ASSUME VerifyInit PROVE VerifyTypeOK
  <1>1. (CHOOSE b \in Garbage : TRUE) \in [src : Buffer, ds : Buffer]
    BY CasesAssumption
  <1> QED
    BY <1>1 DEF VerifyInit, VerifyTypeOK

LEMMA TypeStep == ASSUME VerifyTypeOK, [VerifyNext]_verifyVars PROVE VerifyTypeOK'
  <1> USE DEF VerifyTypeOK, teamVars, reportVars
  <1>1. CASE StartChars
    <2>1. case' \in Cases /\ case'.length \in Nat
      BY <1>1, CasesAssumption DEF StartChars, IsCase
    <2> QED
      BY <1>1, <2>1, Divided DEF StartChars
  <1>2. CASE FileMissing
    BY <1>2 DEF FileMissing
  <1>3. CASE StartWindows
    <2>1. buffers' \in [Threads -> [src : Buffer, ds : Buffer]]
      BY <1>3, CasesAssumption DEF StartWindows
    <2> QED
      BY <1>3, <2>1, Divided DEF StartWindows
  <1>4. CASE PrintMessage
    BY <1>4 DEF PrintMessage
  <1>5. ASSUME NEW t \in Threads, ThreadStep(t) PROVE VerifyTypeOK'
    <2>1. CASE Take(t)
      BY <2>1 DEF Take
    <2>2. CASE Leave(t)
      BY <2>2 DEF Leave
    <2>3. CASE CompareChars(t)
      <3>1. CASE CharWrong(turn[t])
        <4>1. CancelFor(t) /\ badChars' = badChars \cup {turn[t]}
          BY <2>3, <3>1, Compared DEF CompareChars
        <4>2. UNCHANGED << verifying, case, turn, buffers, critical, progress, seen, badWindows >>
          BY <2>3 DEF CompareChars
        <4> QED
          BY <4>1, <4>2, CancelType
      <3>2. CASE ~CharWrong(turn[t])
        BY <2>3, <3>2, Compared DEF CompareChars
      <3> QED
        BY <3>1, <3>2
    <2>4. CASE CopyThrows(t) \/ AtBehind(t) \/ SubstrBehind(t)
      BY <2>4 DEF CopyThrows, AtBehind, SubstrBehind
    <2>5. CASE FillBuffers(t)
      <3>1. case \in Cases /\ turn[t] \in 0 .. case.length /\ turn[t] \in 0 .. case.known
        BY <2>5, CasesAssumption DEF FillBuffers, IsCase
      <3>2. SourceWindow(case, turn[t]) \in Seq(Chars) /\ case.substr[turn[t]] \in Seq(Chars)
        BY <3>1, CaseType DEF IsCase
      <3>3. [src |-> Overwritten(buffers[t].src, SourceWindow(case, turn[t])),
             ds |-> Overwritten(buffers[t].ds, case.substr[turn[t]])] \in [src : Buffer, ds : Buffer]
        BY <3>2, OverwrittenType
      <3> QED
        BY <2>5, <3>3 DEF FillBuffers, BufferOf
    <2>6. CASE CompareWindows(t)
      <3>1. CASE StringsDiffer(buffers[BufferOf(t)].src, buffers[BufferOf(t)].ds)
        <4>1. CancelFor(t) /\ badWindows' = badWindows \cup {turn[t]}
          BY <2>6, <3>1 DEF CompareWindows
        <4>2. UNCHANGED << verifying, case, turn, buffers, critical, progress, seen, badChars >>
          BY <2>6 DEF CompareWindows
        <4> QED
          BY <4>1, <4>2, CancelType
      <3>2. CASE ~StringsDiffer(buffers[BufferOf(t)].src, buffers[BufferOf(t)].ds)
        BY <2>6, <3>2 DEF CompareWindows
      <3> QED
        BY <3>1, <3>2
    <2>7. CASE TickCrashes(t)
      BY <2>7 DEF TickCrashes
    <2>8. CASE Tick(t)
      BY <2>8 DEF Tick
    <2>9. CASE BeginUpdate(t)
      BY <2>9 DEF BeginUpdate
    <2>10. CASE EndUpdate(t)
      BY <2>10 DEF EndUpdate
    <2> QED
      BY <1>5, <2>1, <2>2, <2>3, <2>4, <2>5, <2>6, <2>7, <2>8, <2>9, <2>10 DEF ThreadStep
  <1>6. CASE UNCHANGED verifyVars
    BY <1>6 DEF verifyVars
  <1> QED
    BY <1>1, <1>2, <1>3, <1>4, <1>5, <1>6 DEF VerifyNext

(* No step leads a thread out of the loop at hand. *)
LEMMA InLoopStep ==
  ASSUME VerifyTypeOK, VerifyTypeOK', InLoop, [VerifyNext]_verifyVars PROVE InLoop'
  <1> USE DEF InLoop, Working, teamVars, reportVars
  <1>1. CASE StartChars
    <2>1. Turns' = case'.length /\ Turns' \in Nat
      BY <1>1, CasesAssumption DEF StartChars, Turns, IsCase
    <2> QED
      BY <1>1, <2>1, Divided DEF StartChars, VerifyTypeOK
  <1>2. CASE FileMissing
    BY <1>2 DEF FileMissing
  <1>3. CASE StartWindows
    <2>1. Turns' = Minus(case.length, Window)
      BY <1>3 DEF StartWindows, Turns, Minus
    <2> QED
      BY <1>3, <2>1, Divided DEF StartWindows, VerifyTypeOK
  <1>4. CASE PrintMessage
    BY <1>4 DEF PrintMessage
  <1>5. ASSUME NEW t \in Threads, ThreadStep(t) PROVE InLoop'
    <2>1. CASE verifying' \in {"crashed", "undefined"}
      BY <2>1
    <2>2. CASE verifying' \notin {"crashed", "undefined"}
      <3>1. UNCHANGED << verifying, case, Turns >>
        BY <1>5, <2>2 DEF ThreadStep, Take, Leave, AtBehind, CompareChars, CopyThrows, SubstrBehind, FillBuffers, CompareWindows,
          TickCrashes, Tick, BeginUpdate, EndUpdate, Turns
      <3> USE <3>1 DEF VerifyTypeOK
      <3> HIDE DEF Turns
      <3>2. CASE Take(t)
        BY <3>2 DEF Take
      <3>3. CASE Leave(t)
        BY <3>3 DEF Leave
      <3>4. CASE CompareChars(t)
        BY <3>4 DEF CompareChars, CancelFor
      <3>5. CASE FillBuffers(t)
        BY <3>5 DEF FillBuffers
      <3>6. CASE CompareWindows(t)
        BY <3>6 DEF CompareWindows, CancelFor
      <3>7. CASE Tick(t)
        BY <3>7 DEF Tick
      <3>8. CASE BeginUpdate(t)
        BY <3>8 DEF BeginUpdate
      <3>9. CASE EndUpdate(t)
        BY <3>9 DEF EndUpdate
      <3> QED
        BY <1>5, <2>2, <3>2, <3>3, <3>4, <3>5, <3>6, <3>7, <3>8, <3>9
        DEF ThreadStep, AtBehind, CopyThrows, SubstrBehind, TickCrashes
    <2> QED
      BY <2>1, <2>2
  <1>6. CASE UNCHANGED verifyVars
    BY <1>6 DEF verifyVars, Turns
  <1> QED
    BY <1>1, <1>2, <1>3, <1>4, <1>5, <1>6 DEF VerifyNext

(* A window that ends in the text is as long as a buffer. *)
LEMMA WindowType ==
  ASSUME VerifyTypeOK, case \in Cases, case.length >= Window, NEW i \in 0 .. (case.length - Window)
  PROVE  /\ DOMAIN SourceWindow(case, i) = 1 .. Window
         /\ \A k \in 1 .. Window : SourceWindow(case, i)[k] = case.source[i + k - 1]
         /\ i <= case.known => case.substr[i] \in Seq(Chars) /\ Len(case.substr[i]) <= Window
  <1>1. IsCase(case)
    BY CasesAssumption
  <1>2. i + Window <= case.length /\ i \in 0 .. case.length
    BY <1>1, CasesAssumption DEF IsCase
  <1>3. SourceWindow(case, i) = [k \in 1 .. Window |-> case.source[i + k - 1]]
    BY <1>2 DEF SourceWindow
  <1> QED
    BY <1>1, <1>2, <1>3 DEF IsCase

(* A thread fills its own buffers, and no other step touches them. *)
LEMMA OwnBuffersStep ==
  ASSUME VerifyTypeOK, VerifyTypeOK', OwnBuffers, [VerifyNext]_verifyVars PROVE OwnBuffers'
  <1> USE DEF OwnBuffers, teamVars, reportVars
  <1>1. CASE StartChars \/ FileMissing \/ PrintMessage
    BY <1>1 DEF StartChars, FileMissing, PrintMessage
  <1>2. CASE StartWindows
    BY <1>2 DEF StartWindows, Fork
  <1>3. ASSUME NEW t \in Threads, ThreadStep(t) PROVE OwnBuffers'
    <2>1. CASE FillBuffers(t)
      <3> SUFFICES ASSUME NEW u \in Threads, pc[u]' = "match"
                   PROVE  /\ turn[u]' <= case'.known
                          /\ \A k \in DOMAIN SourceWindow(case, turn[u])' :
                               buffers'[u].src[k] = SourceWindow(case, turn[u])'[k]
                          /\ \A k \in DOMAIN case'.substr[turn[u]'] :
                               buffers'[u].ds[k] = case'.substr[turn[u]'][k]
        OBVIOUS
      <3>1. verifying = "windows" /\ UNCHANGED << case, turn >> /\ case \in Cases
        BY <2>1 DEF FillBuffers, VerifyTypeOK
      <3>2. SourceWindow(case, turn[u])' = SourceWindow(case, turn[u])
        BY <3>1 DEF SourceWindow
      <3>3. CASE u # t
        <4>1. buffers'[u] = buffers[u] /\ pc'[u] = pc[u]
          BY <2>1, <3>3 DEF FillBuffers, BufferOf, VerifyTypeOK
        <4> QED
          BY <3>1, <3>2, <4>1
      <3>4. CASE u = t
        <4>1. turn[t] \in 0 .. case.length /\ turn[t] \in 0 .. case.known
          BY <2>1, <3>1, CasesAssumption DEF FillBuffers, VerifyTypeOK, IsCase
        <4>2. /\ SourceWindow(case, turn[t]) \in Seq(Chars) /\ Len(SourceWindow(case, turn[t])) <= Window
              /\ case.substr[turn[t]] \in Seq(Chars) /\ Len(case.substr[turn[t]]) <= Window
          BY <3>1, <4>1, CaseType DEF IsCase
        <4>3. buffers'[t] = [src |-> Overwritten(buffers[t].src, SourceWindow(case, turn[t])),
                             ds |-> Overwritten(buffers[t].ds, case.substr[turn[t]])]
          BY <2>1 DEF FillBuffers, BufferOf, VerifyTypeOK
        <4>4. ASSUME NEW buf, NEW string \in Seq(Chars), Len(string) <= Window, NEW k \in DOMAIN string
              PROVE  Overwritten(buf, string)[k] = string[k]
          BY <4>4, CasesAssumption DEF Overwritten
        <4>5. \A k \in DOMAIN SourceWindow(case, turn[t]) : buffers'[t].src[k] = SourceWindow(case, turn[t])[k]
          BY <4>2, <4>3, <4>4
        <4>6. \A k \in DOMAIN case.substr[turn[t]] : buffers'[t].ds[k] = case.substr[turn[t]][k]
          BY <4>2, <4>3, <4>4
        <4> QED
          BY <3>1, <3>2, <3>4, <4>1, <4>5, <4>6
      <3> QED
        BY <3>3, <3>4
    <2>2. ASSUME verifying' = "windows", ~FillBuffers(t) PROVE OwnBuffers'
      <3>1. verifying = "windows" /\ UNCHANGED << case, buffers >>
        BY <1>3, <2>2 DEF ThreadStep, Take, Leave, AtBehind, CompareChars, CopyThrows, SubstrBehind, CompareWindows,
          TickCrashes, Tick, BeginUpdate, EndUpdate
      <3>2. \A u \in Threads : pc'[u] = "match" => pc[u] = "match" /\ turn'[u] = turn[u]
        <4>1. pc' = [pc EXCEPT ![t] = pc'[t]] /\ pc'[t] # "match"
          BY <1>3, <2>2, <3>1 DEF ThreadStep, Take, Leave, AtBehind, CompareChars, CopyThrows, SubstrBehind, CompareWindows,
            TickCrashes, Tick, BeginUpdate, EndUpdate, CancelFor, VerifyTypeOK
        <4>2. \A u \in Threads \ {t} : turn'[u] = turn[u]
          BY <1>3, <2>2 DEF ThreadStep, Take, Leave, AtBehind, CompareChars, CopyThrows, SubstrBehind, CompareWindows,
            TickCrashes, Tick, BeginUpdate, EndUpdate, VerifyTypeOK
        <4> QED
          BY <4>1, <4>2 DEF VerifyTypeOK
      <3> SUFFICES ASSUME NEW u \in Threads, pc'[u] = "match"
                   PROVE  /\ turn'[u] <= case'.known
                          /\ \A k \in DOMAIN SourceWindow(case', turn'[u]) :
                               buffers'[u].src[k] = SourceWindow(case', turn'[u])[k]
                          /\ \A k \in DOMAIN case'.substr[turn'[u]] :
                               buffers'[u].ds[k] = case'.substr[turn'[u]][k]
        OBVIOUS
      <3>3. pc[u] = "match" /\ turn'[u] = turn[u] /\ case' = case /\ buffers' = buffers
        BY <3>1, <3>2
      <3>4. SourceWindow(case', turn'[u]) = SourceWindow(case, turn[u])
        BY <3>3
      <3> QED
        BY <3>1, <3>3, <3>4
    <2> QED
      BY <2>1, <2>2
  <1>4. CASE UNCHANGED verifyVars
    BY <1>4 DEF verifyVars, SourceWindow
  <1> QED
    BY <1>1, <1>2, <1>3, <1>4 DEF VerifyNext

(* If src_buf and ds_buf hold what was written to them, strcmp notices only *)
(* wrong windows, and all that are visibly wrong.                           *)
LEMMA StrcmpSound ==
  ASSUME VerifyTypeOK, InLoop, OwnBuffers, case.length >= Window,
         NEW t \in Threads, verifying = "windows", pc[t] = "match",
         StringsDiffer(buffers[t].src, buffers[t].ds)
  PROVE  WindowWrong(turn[t])
  <1>1. turn[t] \in 0 .. (case.length - Window) /\ case \in Cases
    BY CasesAssumption DEF VerifyTypeOK, InLoop, Working, Turns, Minus, IsCase
  <1>2. DOMAIN SourceWindow(case, turn[t]) = 1 .. Window
    BY <1>1, WindowType
  <1>3. SUFFICES ASSUME SourceWindow(case, turn[t]) = case.substr[turn[t]] PROVE FALSE
    BY DEF WindowWrong
  <1>4. \A k \in 1 .. Window : buffers[t].src[k] = buffers[t].ds[k]
    <2> SUFFICES ASSUME NEW k \in 1 .. Window PROVE buffers[t].src[k] = buffers[t].ds[k]
      OBVIOUS
    <2>1. buffers[t].src[k] = SourceWindow(case, turn[t])[k]
      BY <1>2 DEF OwnBuffers
    <2>2. k \in DOMAIN case.substr[turn[t]]
      BY <1>2, <1>3
    <2>3. buffers[t].ds[k] = case.substr[turn[t]][k]
      BY <2>2 DEF OwnBuffers
    <2> QED
      BY <1>3, <2>1, <2>3
  <1>5. DOMAIN buffers[t].src = 1 .. Window
    BY DEF VerifyTypeOK, Buffer
  <1> QED
    BY <1>4, <1>5 DEF StringsDiffer

LEMMA StrcmpComplete ==
  ASSUME VerifyTypeOK, InLoop, OwnBuffers, case.length >= Window,
         NEW t \in Threads, verifying = "windows", pc[t] = "match",
         WindowVisiblyWrong(turn[t])
  PROVE  StringsDiffer(buffers[t].src, buffers[t].ds)
  <1>1. turn[t] \in 0 .. (case.length - Window) /\ case \in Cases
    BY CasesAssumption DEF VerifyTypeOK, InLoop, Working, Turns, Minus, IsCase
  <1> DEFINE answer == case.substr[turn[t]]
  <1>8. turn[t] <= case.known
    BY DEF OwnBuffers
  <1>2. /\ DOMAIN SourceWindow(case, turn[t]) = 1 .. Window
        /\ \A k \in 1 .. Window : SourceWindow(case, turn[t])[k] = case.source[turn[t] + k - 1]
        /\ DOMAIN answer = 1 .. Len(answer) /\ Len(answer) \in Nat /\ Len(answer) <= Window
    BY <1>1, <1>8, WindowType
  <1>3. PICK k \in DOMAIN answer :
          /\ case.source[turn[t] + k - 1] # answer[k]
          /\ \A j \in 1 .. (k - 1) : case.source[turn[t] + j - 1] = answer[j] /\ answer[j] # 0
    BY DEF WindowVisiblyWrong
  <1>4. k \in 1 .. Window /\ \A j \in 1 .. k : j \in DOMAIN answer /\ j \in 1 .. Window
    BY <1>2, CasesAssumption
  <1>5. \A j \in 1 .. k : buffers[t].src[j] = case.source[turn[t] + j - 1] /\ buffers[t].ds[j] = answer[j]
    BY <1>2, <1>4 DEF OwnBuffers
  <1>6. DOMAIN buffers[t].src = 1 .. Window
    BY DEF VerifyTypeOK, Buffer
  <1>7. k \in 1 .. k /\ \A j \in 1 .. (k - 1) : j \in 1 .. k
    BY <1>4, CasesAssumption
  <1> QED
    BY SMTT(30), <1>3, <1>4, <1>5, <1>6, <1>7 DEF StringsDiffer

(* Reports are made only by the two comparing steps. *)
LEMMA NoFalseAlarmStep ==
  ASSUME VerifyTypeOK, InLoop, OwnBuffers, NoFalseAlarm, [VerifyNext]_verifyVars,
         verifying = "idle" => badChars = {} /\ badWindows = {}
  PROVE  NoFalseAlarm'
  <1> USE DEF NoFalseAlarm, CharWrong, WindowWrong, teamVars, reportVars
  <1>1. CASE StartChars
    BY <1>1 DEF StartChars
  <1>2. CASE UNCHANGED << case, badChars, badWindows >>
    BY <1>2 DEF SourceWindow
  <1>3. ASSUME NEW t \in Threads, CompareChars(t) PROVE NoFalseAlarm'
    <2>1. badChars' \subseteq badChars \cup {turn[t]} /\ UNCHANGED << case, badWindows >>
      BY <1>3 DEF CompareChars
    <2>2. ~CharWrong(turn[t]) => badChars' = badChars
      BY <1>3, Compared DEF CompareChars
    <2> QED
      BY <2>1, <2>2 DEF SourceWindow
  <1>4. ASSUME NEW t \in Threads, CompareWindows(t) PROVE NoFalseAlarm'
    <2>1. badWindows' \subseteq badWindows \cup {turn[t]} /\ UNCHANGED << case, badChars >>
      BY <1>4 DEF CompareWindows
    <2>2. case.length >= Window /\ ~WindowWrong(turn[t]) => badWindows' = badWindows
      <3>1. verifying = "windows" /\ pc[t] = "match"
        BY <1>4 DEF CompareWindows
      <3> QED
        BY <1>4, <3>1, StrcmpSound DEF CompareWindows, BufferOf
    <2> QED
      BY <2>1, <2>2 DEF SourceWindow
  <1>5. StartChars \/ UNCHANGED << case, badChars, badWindows >>
        \/ \E t \in Threads : CompareChars(t) \/ CompareWindows(t)
    BY DEF VerifyNext, verifyVars, FileMissing, StartWindows, PrintMessage, ThreadStep, Take, Leave, AtBehind,
      CopyThrows, SubstrBehind, FillBuffers, TickCrashes, Tick, BeginUpdate, EndUpdate
  <1> QED
    BY <1>1, <1>2, <1>3, <1>4, <1>5

(* Only Leave and a cancellation bring a thread to the barrier. *)
LEMMA LeftDoneStep ==
  ASSUME VerifyTypeOK, LeftDone, [VerifyNext]_verifyVars PROVE LeftDone'
  <1> USE DEF LeftDone, VerifyTypeOK, teamVars, reportVars
  <1>1. CASE StartChars \/ FileMissing \/ StartWindows \/ PrintMessage
    BY <1>1 DEF StartChars, FileMissing, StartWindows, PrintMessage, Fork
  <1>2. ASSUME NEW t \in Threads, ThreadStep(t) PROVE LeftDone'
    <2>1. CASE Take(t)
      BY <2>1 DEF Take
    <2>2. CASE Leave(t)
      BY <2>2 DEF Leave
    <2>3. CASE CompareChars(t)
      BY <2>3 DEF CompareChars, CancelFor
    <2>4. CASE CompareWindows(t)
      BY <2>4 DEF CompareWindows, CancelFor
    <2>5. CASE CopyThrows(t) \/ TickCrashes(t) \/ AtBehind(t) \/ SubstrBehind(t)
      BY <2>5 DEF CopyThrows, TickCrashes, AtBehind, SubstrBehind
    <2>6. CASE FillBuffers(t)
      BY <2>6 DEF FillBuffers
    <2>7. CASE Tick(t)
      BY <2>7 DEF Tick
    <2>8. CASE BeginUpdate(t) \/ EndUpdate(t)
      BY <2>8 DEF BeginUpdate, EndUpdate
    <2> QED
      BY <1>2, <2>1, <2>2, <2>3, <2>4, <2>5, <2>6, <2>7, <2>8 DEF ThreadStep
  <1>3. CASE UNCHANGED verifyVars
    BY <1>3 DEF verifyVars
  <1> QED
    BY <1>1, <1>2, <1>3 DEF VerifyNext

(* A wrong place stays to be compared until it is reported ... *)
LEMMA CharsCoveredStep ==
  ASSUME VerifyTypeOK, CharsCovered, [VerifyNext]_verifyVars PROVE CharsCovered'
  <1> SUFFICES ASSUME verifying' = "chars",
                      NEW i \in 0 .. (case'.length - 1), CharWrong(i)', i \notin badChars',
                      ~(case'.cancellation /\ badChars' # {})
               PROVE  Pending(i, {"compare"})'
    BY DEF CharsCovered
  <1> USE DEF Pending, VerifyTypeOK, teamVars, reportVars
  <1>1. CASE StartChars
    BY <1>1, Divided DEF StartChars
  <1>2. ASSUME NEW t \in Threads, ThreadStep(t) PROVE Pending(i, {"compare"})'
    <2>1. verifying = "chars" /\ case' = case /\ badChars \subseteq badChars'
      BY <1>2 DEF ThreadStep, Take, Leave, AtBehind, CompareChars, CopyThrows, SubstrBehind, FillBuffers, CompareWindows,
        TickCrashes, Tick, BeginUpdate, EndUpdate
    <2>2. Pending(i, {"compare"})
      BY <2>1 DEF CharsCovered, CharWrong
    <2>3. CASE Take(t)
      BY <2>1, <2>2, <2>3 DEF Take
    <2>4. CASE CompareChars(t)
      <3>1. turn[t] # i
        BY <2>1, <2>4, Compared DEF CompareChars, CharWrong
      <3>2. todo' = todo /\ turn' = turn /\ pc' = [pc EXCEPT ![t] = "tick"]
        BY <2>1, <2>4 DEF CompareChars, CancelFor
      <3> QED
        BY <2>2, <3>1, <3>2
    <2>5. CASE ~Take(t) /\ ~CompareChars(t)
      <3>1. todo' = todo /\ turn' = turn /\ pc[t] # "compare" /\ pc' = [pc EXCEPT ![t] = pc'[t]]
        BY <1>2, <2>1, <2>5 DEF ThreadStep, Leave, AtBehind, CopyThrows, SubstrBehind, FillBuffers, CompareWindows,
          TickCrashes, Tick, BeginUpdate, EndUpdate
      <3> QED
        BY <2>2, <3>1
    <2> QED
      BY <2>3, <2>4, <2>5
  <1>3. CASE UNCHANGED verifyVars
    BY <1>3 DEF verifyVars, CharsCovered, CharWrong
  <1> QED
    BY <1>1, <1>2, <1>3 DEF VerifyNext, FileMissing, StartWindows, PrintMessage

(* ... and so does a visibly wrong window. *)
LEMMA WindowsCoveredStep ==
  ASSUME VerifyTypeOK, InLoop, OwnBuffers, WindowsCovered, [VerifyNext]_verifyVars PROVE WindowsCovered'
  <1> SUFFICES ASSUME verifying' = "windows",
                      NEW i \in 0 .. (case'.length - Window - 1), WindowVisiblyWrong(i)', i \notin badWindows',
                      ~(case'.cancellation /\ badWindows' # {})
               PROVE  Pending(i, {"fill", "match"})'
    BY DEF WindowsCovered
  <1> USE DEF Pending, VerifyTypeOK, teamVars, reportVars
  <1>1. CASE StartWindows
    <2>1. case.length \in Nat /\ case' = case
      BY <1>1, CasesAssumption DEF StartWindows, IsCase
    <2>2. i \in 0 .. (Minus(case.length, Window) - 1)
      BY <2>1, CasesAssumption DEF Minus
    <2> QED
      BY <1>1, <2>2, Divided DEF StartWindows
  <1>2. ASSUME NEW t \in Threads, ThreadStep(t) PROVE Pending(i, {"fill", "match"})'
    <2>1. verifying = "windows" /\ case' = case /\ badWindows \subseteq badWindows'
      BY <1>2 DEF ThreadStep, Take, Leave, AtBehind, CompareChars, CopyThrows, SubstrBehind, FillBuffers, CompareWindows,
        TickCrashes, Tick, BeginUpdate, EndUpdate
    <2>2. WindowVisiblyWrong(i)
      BY <2>1 DEF WindowVisiblyWrong
    <2>3. Pending(i, {"fill", "match"})
      BY <2>1, <2>2 DEF WindowsCovered
    <2>4. CASE Take(t)
      BY <2>1, <2>3, <2>4 DEF Take
    <2>5. CASE FillBuffers(t)
      BY <2>3, <2>5 DEF FillBuffers
    <2>6. CASE CompareWindows(t)
      <3>1. case.length >= Window
        BY <2>1, CasesAssumption DEF IsCase
      <3>2. turn[t] # i
        BY <2>1, <2>2, <2>6, <3>1, StrcmpComplete DEF CompareWindows, BufferOf
      <3>3. todo' = todo /\ turn' = turn /\ pc' = [pc EXCEPT ![t] = "tick"]
        BY <2>1, <2>6 DEF CompareWindows, CancelFor
      <3> QED
        BY <2>3, <3>2, <3>3
    <2>7. CASE ~Take(t) /\ ~FillBuffers(t) /\ ~CompareWindows(t)
      <3>1. todo' = todo /\ turn' = turn /\ pc[t] \notin {"fill", "match"} /\ pc' = [pc EXCEPT ![t] = pc'[t]]
        BY <1>2, <2>1, <2>7 DEF ThreadStep, Leave, AtBehind, CopyThrows, SubstrBehind, CompareChars,
          TickCrashes, Tick, BeginUpdate, EndUpdate
      <3> QED
        BY <2>3, <3>1
    <2> QED
      BY <2>4, <2>5, <2>6, <2>7
  <1>3. CASE UNCHANGED verifyVars
    BY <1>3 DEF verifyVars, WindowsCovered, WindowVisiblyWrong
  <1> QED
    BY <1>1, <1>2, <1>3 DEF VerifyNext, FileMissing, StartChars, PrintMessage

(* When all threads have left a loop, nothing of it is still to come. *)
LEMMA NothingPending ==
  ASSUME VerifyTypeOK, LeftDone, verifying \in {"chars", "windows"}, AllLeft,
         NEW i, NEW steps, "left" \notin steps
  PROVE  ~Pending(i, steps)
  BY CasesAssumption DEF LeftDone, AllLeft, Pending

(* At a barrier nothing is pending, so what was covered was reported. *)
LEMMA ReportedStep ==
  ASSUME VerifyTypeOK, LeftDone, CharsCovered, WindowsCovered, EveryVisibleErrorReported,
         [VerifyNext]_verifyVars
  PROVE  EveryVisibleErrorReported'
  <1> USE DEF teamVars, reportVars
  <1> DEFINE wrongChars == {i \in 0 .. (case.length - 1) : CharWrong(i)}
             wrongWindows == {i \in 0 .. (case.length - Window - 1) : WindowVisiblyWrong(i)}
  <1>1. CASE StartWindows
    <2>1. verifying = "chars" /\ AllLeft /\ UNCHANGED << case, badChars >> /\ verifying' = "windows"
      BY <1>1 DEF StartWindows
    <2>2. \A i : ~Pending(i, {"compare"})
      BY <2>1, NothingPending
    <2>3. wrongChars \subseteq badChars \/ (case.cancellation /\ badChars # {})
      BY <2>1, <2>2 DEF CharsCovered
    <2>4. Reported(wrongChars, badChars)
      BY <2>3 DEF Reported
    <2> HIDE DEF wrongChars
    <2>5. wrongChars' = wrongChars
      BY <2>1 DEF wrongChars, CharWrong
    <2>6. Reported(wrongChars, badChars)'
      BY <2>1, <2>4, <2>5 DEF Reported
    <2> QED
      BY <2>1, <2>6 DEF EveryVisibleErrorReported, wrongChars
  <1>2. CASE PrintMessage
    <2>1. verifying = "windows" /\ AllLeft /\ UNCHANGED << case, badChars, badWindows >>
      BY <1>2 DEF PrintMessage
    <2>2. Reported(wrongWindows, badWindows)
      <3>1. \A i : ~Pending(i, {"fill", "match"})
        BY <2>1, NothingPending
      <3>2. wrongWindows \subseteq badWindows \/ (case.cancellation /\ badWindows # {})
        BY <2>1, <3>1 DEF WindowsCovered
      <3> QED
        BY <3>2 DEF Reported
    <2>3. Reported(wrongChars, badChars)
      BY <2>1 DEF EveryVisibleErrorReported
    <2> HIDE DEF wrongChars, wrongWindows
    <2>4. wrongChars' = wrongChars /\ wrongWindows' = wrongWindows
      BY <2>1 DEF wrongChars, wrongWindows, CharWrong, WindowVisiblyWrong
    <2>5. Reported(wrongChars, badChars)' /\ Reported(wrongWindows, badWindows)'
      BY <2>1, <2>2, <2>3, <2>4 DEF Reported
    <2> QED
      BY <2>5 DEF EveryVisibleErrorReported, wrongChars, wrongWindows
  <1>3. CASE UNCHANGED << verifying, case, badChars, badWindows >>
    BY <1>3 DEF EveryVisibleErrorReported, Reported, CharWrong, WindowVisiblyWrong
  <1>4. CASE verifying' \in {"missing", "chars", "crashed", "undefined"}
    BY <1>4 DEF EveryVisibleErrorReported
  <1>5. ASSUME NEW t \in Threads, verifying = "windows", CompareWindows(t) PROVE EveryVisibleErrorReported'
    <2>1. UNCHANGED << verifying, case, badChars >>
      BY <1>5 DEF CompareWindows
    <2> QED
      BY <1>5, <2>1 DEF EveryVisibleErrorReported, Reported, CharWrong
  <1>6. \/ StartWindows \/ PrintMessage \/ UNCHANGED << verifying, case, badChars, badWindows >>
        \/ verifying' \in {"missing", "chars", "crashed", "undefined"}
        \/ \E t \in Threads : verifying = "windows" /\ CompareWindows(t)
    BY DEF VerifyNext, verifyVars, StartChars, FileMissing, ThreadStep, Take, Leave, AtBehind, CompareChars, CopyThrows,
      SubstrBehind, FillBuffers, CompareWindows, TickCrashes, Tick, BeginUpdate, EndUpdate
  <1> QED
    BY <1>1, <1>2, <1>3, <1>4, <1>5, <1>6

(* Without cancellation only an empty text or a long one reaches the second loop. *)
LEMMA LongEnoughStep ==
  ASSUME VerifyTypeOK, LeftDone, ShortStuck, LongEnough, [VerifyNext]_verifyVars PROVE LongEnough'
  <1> SUFFICES ASSUME verifying' = "windows", ~case'.cancellation
               PROVE  case'.length = 0 \/ case'.length >= Ticks
    BY DEF LongEnough
  <1>1. CASE StartWindows
    <2>1. verifying = "chars" /\ AllLeft /\ case' = case /\ case.length \in Nat
      BY <1>1, CasesAssumption DEF StartWindows, VerifyTypeOK, IsCase
    <2>2. CASE TurnsPerTick = 0
      <3>1. \A i \in 0 .. (case.length - 1) : FALSE
        BY <2>1, <2>2, NothingPending DEF ShortStuck, Turns
      <3> QED
        BY <2>1, <3>1
    <2>3. CASE TurnsPerTick # 0
      <3>1. case.length \div Ticks # 0
        BY <2>1, <2>3 DEF TurnsPerTick, Turns
      <3> QED
        BY <2>1, <3>1, DivSmall, CasesAssumption
    <2> QED
      BY <2>2, <2>3
  <1>2. CASE UNCHANGED << verifying, case >>
    BY <1>2 DEF LongEnough
  <1> QED
    BY <1>1, <1>2 DEF VerifyNext, verifyVars, teamVars, reportVars, StartChars, FileMissing, PrintMessage, ThreadStep, Take, Leave, AtBehind,
      CompareChars, CopyThrows, SubstrBehind, FillBuffers, CompareWindows, TickCrashes, Tick, BeginUpdate, EndUpdate

(* Only what the data structure has is compared. *)
LEMMA ReportedKnownStep ==
  ASSUME ReportedKnown, verifying = "idle" => badChars = {}, [VerifyNext]_verifyVars PROVE ReportedKnown'
  <1> USE DEF ReportedKnown, teamVars, reportVars
  <1>1. CASE StartChars
    BY <1>1 DEF StartChars
  <1>2. ASSUME NEW t \in Threads, CompareChars(t) PROVE ReportedKnown'
    BY <1>2 DEF CompareChars
  <1>3. StartChars \/ (\E t \in Threads : CompareChars(t)) \/ UNCHANGED << case, badChars >>
    BY DEF VerifyNext, verifyVars, FileMissing, StartWindows, PrintMessage, ThreadStep, Take, Leave, AtBehind,
      CopyThrows, SubstrBehind, FillBuffers, CompareWindows, TickCrashes, Tick, BeginUpdate, EndUpdate
  <1> QED
    BY <1>1, <1>2, <1>3

(* Where the program ends early, and where it ends with the message. *)
LEMMA CrashesIfShortStep ==
  ASSUME VerifyTypeOK, InLoop, LeftDone, ShortStuck, BehindStuck, LongEnough, CrashesIfShort,
         EveryVisibleErrorReported, ReportedKnown,
         [VerifyNext]_verifyVars
  PROVE  CrashesIfShort'
  <1> USE DEF teamVars, reportVars
  <1>1. CASE PrintMessage
    <2> SUFFICES ASSUME ~case.cancellation PROVE case.length >= Ticks + Window /\ case.known = case.length
      BY <1>1 DEF PrintMessage, CrashesIfShort
    <2>1. /\ verifying = "windows" /\ AllLeft /\ case.length \in Nat /\ case.length < Sizes
          /\ case.known \in 0 .. case.length
      BY <1>1, CasesAssumption DEF PrintMessage, VerifyTypeOK, IsCase
    <2>8. case.known = case.length
      <3> SUFFICES ASSUME case.known < case.length PROVE FALSE
        BY <2>1
      <3>1. case.known \in 0 .. (case.length - 1) /\ CharWrong(case.known)
        BY <2>1 DEF CharWrong
      <3>2. case.known \in badChars
        BY <2>1, <3>1 DEF EveryVisibleErrorReported, Reported
      <3> QED
        BY <2>1, <3>2 DEF ReportedKnown
    <2>2. Turns = Minus(case.length, Window)
      BY <2>1 DEF Turns
    <2>3. \A i \in (case.length + 1) .. (Turns - 1) : FALSE
      BY <2>1, NothingPending DEF BehindStuck
    <2>4. case.length # 0
      <3> SUFFICES ASSUME case.length = 0 PROVE 1 \in (case.length + 1) .. (Turns - 1)
        BY <2>3
      <3>1. Turns = Sizes - Window
        BY <2>2, CasesAssumption, SizesAssumption DEF Minus
      <3> QED
        BY <3>1, CasesAssumption, SizesAssumption
    <2>5. case.length >= Ticks
      BY <2>1, <2>4 DEF LongEnough
    <2>6. Turns = case.length - Window /\ Turns > 0
      BY <2>1, <2>2, <2>5, CasesAssumption DEF Minus
    <2>7. TurnsPerTick # 0
      <3> SUFFICES ASSUME TurnsPerTick = 0 PROVE FALSE
        OBVIOUS
      <3>1. Pending(0, {"compare", "fill", "match", "tick"})
        BY <2>1, <2>6, CasesAssumption DEF ShortStuck
      <3> QED
        BY <2>1, <3>1, NothingPending
    <2> QED
      <3>1. Turns \in Nat /\ Turns \div Ticks # 0
        BY <2>1, <2>6, <2>7, CasesAssumption DEF TurnsPerTick
      <3>2. Turns >= Ticks
        BY <3>1, DivSmall, CasesAssumption
      <3> QED
        BY <2>1, <2>6, <2>8, <3>2, CasesAssumption
  <1>2. ASSUME NEW t \in Threads, CopyThrows(t) PROVE CrashesIfShort'
    <2>1. case.length \in Nat /\ case' = case /\ verifying' = "crashed" /\ case.length < turn[t] /\ turn[t] < Turns
          /\ Turns = Minus(case.length, Window) /\ turn[t] \in Nat
      <3>1. verifying = "windows" /\ pc[t] = "fill" /\ turn[t] > case.length /\ case' = case /\ verifying' = "crashed"
        BY <1>2 DEF CopyThrows
      <3>2. case.length \in Nat /\ Turns = Minus(case.length, Window)
        BY <3>1, CasesAssumption DEF VerifyTypeOK, IsCase, Turns
      <3>3. turn[t] \in 0 .. (Turns - 1)
        BY <3>1 DEF InLoop, Working
      <3>4. Turns \in Int
        BY <3>2, CasesAssumption, SizesAssumption DEF Minus
      <3> QED
        BY <3>1, <3>2, <3>3, <3>4
    <2> QED
      BY <2>1, CasesAssumption, SizesAssumption DEF Minus, CrashesIfShort
  <1>3. ASSUME NEW t \in Threads, TickCrashes(t) PROVE CrashesIfShort'
    <2>1. case.length \in Nat /\ case' = case /\ verifying' = "crashed" /\ Turns \in Nat /\ Turns \div Ticks = 0
      <3>1. case \in Cases /\ case' = case /\ verifying' = "crashed" /\ Turns \div Ticks = 0
        BY <1>3 DEF TickCrashes, TurnsPerTick, VerifyTypeOK
      <3> QED
        BY <3>1, TurnsType, CasesAssumption DEF IsCase
    <2>2. Turns < Ticks
      BY <2>1, DivZero, CasesAssumption
    <2> QED
      BY <2>1, <2>2, CasesAssumption, SizesAssumption DEF Turns, Minus, CrashesIfShort
  <1>7. ASSUME NEW t \in Threads, AtBehind(t) \/ SubstrBehind(t) PROVE CrashesIfShort'
    <2>1. /\ case' = case /\ verifying' = "undefined"
          /\ \/ verifying = "chars" /\ pc[t] = "compare" /\ turn[t] >= case.known
             \/ turn[t] <= case.length /\ turn[t] > case.known
      BY <1>7 DEF AtBehind, SubstrBehind
    <2>2. case.length \in Nat /\ case.known \in Nat /\ turn[t] \in Nat
      BY <1>7, CasesAssumption DEF AtBehind, SubstrBehind, VerifyTypeOK, IsCase
    <2>3. CASE verifying = "chars" /\ pc[t] = "compare" /\ turn[t] >= case.known
      <3>1. turn[t] \in 0 .. (case.length - 1)
        BY <2>3 DEF InLoop, Working, Turns
      <3> QED
        BY <2>1, <2>2, <2>3, <3>1 DEF CrashesIfShort
    <2>4. CASE turn[t] <= case.length /\ turn[t] > case.known
      BY <2>1, <2>2, <2>4 DEF CrashesIfShort
    <2> QED
      BY <2>1, <2>3, <2>4
  <1>4. CASE UNCHANGED << verifying, case >>
    BY <1>4 DEF CrashesIfShort
  <1>5. CASE verifying' \in {"missing", "chars", "windows"}
    BY <1>5 DEF CrashesIfShort
  <1>6. \/ PrintMessage \/ UNCHANGED << verifying, case >> \/ verifying' \in {"missing", "chars", "windows"}
        \/ \E t \in Threads : CopyThrows(t) \/ TickCrashes(t) \/ AtBehind(t) \/ SubstrBehind(t)
    BY DEF VerifyNext, verifyVars, StartChars, FileMissing, StartWindows, ThreadStep, Take, Leave, CompareChars,
      FillBuffers, CompareWindows, Tick, BeginUpdate, EndUpdate
  <1> QED
    BY <1>1, <1>2, <1>3, <1>4, <1>5, <1>6, <1>7

(* In a loop with too few iterations the progress bar stops each of them ... *)
LEMMA ShortStuckStep ==
  ASSUME VerifyTypeOK, ShortStuck, [VerifyNext]_verifyVars PROVE ShortStuck'
  <1> DEFINE steps == {"compare", "fill", "match", "tick"}
  <1> USE DEF teamVars, reportVars
  <1> SUFFICES ASSUME verifying' \in {"chars", "windows"}, TurnsPerTick' = 0, ~case'.cancellation,
                      NEW i \in 0 .. (Turns' - 1)
               PROVE  Pending(i, steps)'
    BY DEF ShortStuck
  <1>1. CASE StartChars
    BY <1>1, Divided DEF StartChars, Turns, Pending
  <1>2. CASE StartWindows
    BY <1>2, Divided DEF StartWindows, Turns, Pending
  <1>3. ASSUME UNCHANGED << verifying, case >>
        PROVE  Turns' = Turns /\ TurnsPerTick = 0 /\ Pending(i, steps)
    <2>1. Turns' = Turns /\ TurnsPerTick' = TurnsPerTick
      BY <1>3 DEF Turns, TurnsPerTick
    <2> QED
      BY <1>3, <2>1 DEF ShortStuck
  <1>4. ASSUME NEW t \in Threads, ThreadStep(t) PROVE Pending(i, steps)'
    <2> USE DEF Pending, VerifyTypeOK
    <2>1. /\ UNCHANGED << verifying, case >>
          /\ ~CopyThrows(t) /\ ~TickCrashes(t) /\ ~AtBehind(t) /\ ~SubstrBehind(t)
      BY <1>4 DEF ThreadStep, Take, Leave, AtBehind, CompareChars, CopyThrows, SubstrBehind, FillBuffers, CompareWindows,
        TickCrashes, Tick, BeginUpdate, EndUpdate
    <2>2. TurnsPerTick = 0 /\ Pending(i, steps)
      BY <1>3, <2>1
    <2>3. CASE Take(t)
      BY <2>2, <2>3 DEF Take
    <2>4. CASE Leave(t)
      BY <2>2, <2>4 DEF Leave
    <2>5. CASE CompareChars(t)
      BY <2>1, <2>2, <2>5 DEF CompareChars, CancelFor
    <2>6. CASE FillBuffers(t)
      BY <2>2, <2>6 DEF FillBuffers
    <2>7. CASE CompareWindows(t)
      BY <2>1, <2>2, <2>7 DEF CompareWindows, CancelFor
    <2>8. CASE Tick(t)
      BY <2>2, <2>8 DEF Tick
    <2>9. CASE BeginUpdate(t) \/ EndUpdate(t)
      BY <2>2, <2>9 DEF BeginUpdate, EndUpdate
    <2> QED
      BY <1>4, <2>1, <2>3, <2>4, <2>5, <2>6, <2>7, <2>8, <2>9 DEF ThreadStep
  <1>5. CASE UNCHANGED verifyVars
    BY <1>3, <1>5 DEF verifyVars, Pending
  <1> QED
    BY <1>1, <1>2, <1>4, <1>5 DEF VerifyNext, FileMissing, PrintMessage

(* ... and source.copy those that begin behind the text. *)
LEMMA BehindStuckStep ==
  ASSUME VerifyTypeOK, BehindStuck, [VerifyNext]_verifyVars PROVE BehindStuck'
  <1> USE DEF teamVars, reportVars
  <1> SUFFICES ASSUME verifying' = "windows", ~case'.cancellation,
                      NEW i \in (case'.length + 1) .. (Turns' - 1)
               PROVE  Pending(i, {"fill"})'
    BY DEF BehindStuck
  <1>1. CASE StartWindows
    <2>1. case.length \in Nat /\ case' = case
      BY <1>1, CasesAssumption DEF StartWindows, VerifyTypeOK, IsCase
    <2>2. Turns' = Minus(case.length, Window)
      BY <1>1, <2>1 DEF StartWindows, Turns, Minus
    <2>3. i \in 0 .. (Minus(case.length, Window) - 1)
      BY <2>1, <2>2, CasesAssumption, SizesAssumption DEF Minus
    <2> QED
      BY <1>1, <2>3, Divided DEF StartWindows, Pending
  <1>2. ASSUME UNCHANGED << verifying, case >>
        PROVE  Pending(i, {"fill"}) /\ i > case.length /\ ~case.cancellation
    <2>1. Turns' = Turns
      BY <1>2 DEF Turns
    <2>2. case.length \in Nat
      BY <1>2, CasesAssumption DEF VerifyTypeOK, IsCase
    <2> QED
      BY <1>2, <2>1, <2>2 DEF BehindStuck
  <1>3. ASSUME NEW t \in Threads, ThreadStep(t) PROVE Pending(i, {"fill"})'
    <2> USE DEF Pending, VerifyTypeOK
    <2>1. /\ UNCHANGED << verifying, case >>
          /\ ~CopyThrows(t) /\ ~TickCrashes(t) /\ ~AtBehind(t) /\ ~SubstrBehind(t)
      BY <1>3 DEF ThreadStep, Take, Leave, AtBehind, CompareChars, CopyThrows, SubstrBehind, FillBuffers, CompareWindows,
        TickCrashes, Tick, BeginUpdate, EndUpdate
    <2>2. Pending(i, {"fill"}) /\ i > case.length /\ ~case.cancellation
      BY <1>2, <2>1
    <2>3. CASE Take(t)
      BY <2>1, <2>2, <2>3 DEF Take
    <2>4. CASE FillBuffers(t)
      <3>1. turn[t] # i
        BY <2>2, <2>4, CasesAssumption DEF FillBuffers, IsCase
      <3> QED
        BY <2>2, <2>4, <3>1 DEF FillBuffers
    <2>5. CASE ~Take(t) /\ ~FillBuffers(t)
      <3>1. todo' = todo /\ turn' = turn /\ pc[t] # "fill" /\ pc' = [pc EXCEPT ![t] = pc'[t]]
        BY <1>3, <2>1, <2>2, <2>5 DEF ThreadStep, Leave, CompareChars, CompareWindows, Tick, BeginUpdate, EndUpdate, CancelFor
      <3> QED
        BY <2>2, <3>1
    <2> QED
      BY <2>3, <2>4, <2>5
  <1>4. CASE UNCHANGED verifyVars
    BY <1>2, <1>4 DEF verifyVars, Pending
  <1> QED
    BY <1>1, <1>3, <1>4 DEF VerifyNext, StartChars, FileMissing, PrintMessage

IdleUntouched == verifying = "idle" => badChars = {} /\ badWindows = {}

Inv ==
  /\ VerifyTypeOK /\ InLoop /\ OwnBuffers /\ IdleUntouched
  /\ ReportedKnown /\ LeftDone /\ CharsCovered /\ WindowsCovered /\ ShortStuck /\ BehindStuck /\ LongEnough
  /\ NoFalseAlarm /\ EveryVisibleErrorReported /\ CrashesIfShort

(* It holds at first ... *)
LEMMA InvInit == ASSUME VerifyInit PROVE Inv
  <1>1. VerifyTypeOK
    BY TypeInit
  <1> QED
    BY <1>1 DEF VerifyInit, Inv, InLoop, OwnBuffers, IdleUntouched, ReportedKnown, LeftDone, CharsCovered, WindowsCovered,
      ShortStuck, BehindStuck, LongEnough, NoFalseAlarm, EveryVisibleErrorReported, CrashesIfShort

(* ... and every step keeps it. *)
LEMMA InvStep == ASSUME Inv, [VerifyNext]_verifyVars PROVE Inv'
  <1>1. VerifyTypeOK'
    BY TypeStep DEF Inv
  <1>2. InLoop' /\ OwnBuffers'
    BY <1>1, InLoopStep, OwnBuffersStep DEF Inv
  <1>3. IdleUntouched'
    BY DEF Inv, IdleUntouched, VerifyNext, verifyVars, teamVars, reportVars, StartChars, FileMissing, StartWindows,
      PrintMessage, ThreadStep, Take, Leave, AtBehind, CompareChars, CopyThrows, SubstrBehind, FillBuffers, CompareWindows,
      TickCrashes, Tick, BeginUpdate, EndUpdate
  <1>4. ReportedKnown' /\ LeftDone' /\ CharsCovered' /\ WindowsCovered'
    BY ReportedKnownStep, LeftDoneStep, CharsCoveredStep, WindowsCoveredStep DEF Inv, IdleUntouched
  <1>5. ShortStuck' /\ BehindStuck' /\ LongEnough'
    BY ShortStuckStep, BehindStuckStep, LongEnoughStep DEF Inv
  <1>6. NoFalseAlarm'
    BY NoFalseAlarmStep DEF Inv, IdleUntouched
  <1>7. EveryVisibleErrorReported' /\ CrashesIfShort'
    BY ReportedStep, CrashesIfShortStep DEF Inv
  <1> QED
    BY <1>1, <1>2, <1>3, <1>4, <1>5, <1>6, <1>7 DEF Inv

(* The inductive invariant of verify_ds. *)
THEOREM Invariance == VerifySpec => []Inv
  <1>1. VerifyInit => Inv
    BY InvInit
  <1>2. Inv /\ [VerifyNext]_verifyVars => Inv'
    BY InvStep
  <1> QED
    BY <1>1, <1>2, PTL DEF VerifySpec

(* Variables and buffers keep their types. *)
THEOREM TypeCorrectness == VerifySpec => []VerifyTypeOK
  <1>1. Inv => VerifyTypeOK
    BY DEF Inv
  <1> QED
    BY <1>1, Invariance, PTL

(* verify_ds reports only what is wrong: the threads do not disturb each *)
(* other's buffers.                                                      *)
THEOREM NoFalseAlarmCorrectness == VerifySpec => []NoFalseAlarm
  <1>1. Inv => NoFalseAlarm
    BY DEF Inv
  <1> QED
    BY <1>1, Invariance, PTL

(* After its loops verify_ds has reported everything it can see. *)
THEOREM ReportCorrectness == VerifySpec => []EveryVisibleErrorReported
  <1>1. Inv => EveryVisibleErrorReported
    BY DEF Inv
  <1> QED
    BY <1>1, Invariance, PTL

(* A division by zero or std::out_of_range ends verify_ds exactly on short *)
(* texts, unless its loops are cancelled.                                  *)
THEOREM CrashCorrectness == VerifySpec => []CrashesIfShort
  <1>1. Inv => CrashesIfShort
    BY DEF Inv
  <1> QED
    BY <1>1, Invariance, PTL

(***************************************************************************)
(* The progress bar.  An iteration that makes a tick is counted when no    *)
(* thread has it in hand any more: the bar shows how many have come so     *)
(* far.  That the two steps of bar.update() do not lose any is the matter  *)
(* of the critical section, and of each iteration being run once.          *)
(***************************************************************************)
AllTicks == {i \in 0 .. (Turns - 1) : i % TurnsPerTick = 0}

Counted == {i \in AllTicks : ~Pending(i, Working)}

OnceEach ==
  \A t, u \in Threads :
    /\ t # u => todo[t] \cap todo[u] = {}
    /\ pc[t] \in Working => turn[t] \notin todo[u]
    /\ pc[t] \in Working /\ pc[u] \in Working /\ turn[t] = turn[u] => t = u

(* Who is between the reading and the writing is alone there, and what was *)
(* read is still so.                                                       *)
AloneInUpdate == \A t \in Threads : pc[t] = "update" => critical = {t} /\ seen[t] = progress

OnlyTicksUpdate ==
  verifying \in {"chars", "windows"} =>
    \A t \in Threads : pc[t] \in {"enter", "update"} => turn[t] % TurnsPerTick = 0

BarShowsCounted ==
  verifying \in {"chars", "windows"} /\ ~case.cancellation /\ TurnsPerTick > 0 =>
    progress = Cardinality(Counted)

TicksInv == Inv /\ OnceEach /\ AloneInUpdate /\ OnlyTicksUpdate /\ BarShowsCounted

(* The sets of ticks are finite. *)
LEMMA TicksFinite ==
  ASSUME VerifyTypeOK, case \in Cases PROVE IsFiniteSet(AllTicks) /\ IsFiniteSet(Counted)
  <1>1. IsFiniteSet(0 .. (Turns - 1))
    BY TurnsType, FS_Interval
  <1>2. IsFiniteSet(AllTicks)
    <2>1. AllTicks \in SUBSET (0 .. (Turns - 1))
      BY DEF AllTicks
    <2> HIDE DEF AllTicks
    <2> QED
      BY <1>1, <2>1, FS_Subset
  <1>3. Counted \in SUBSET AllTicks
    BY DEF Counted
  <1> HIDE DEF AllTicks, Counted
  <1> QED
    BY <1>2, <1>3, FS_Subset

(* An iteration is taken by one thread, once. *)
LEMMA OnceEachStep ==
  ASSUME VerifyTypeOK, OnceEach, [VerifyNext]_verifyVars PROVE OnceEach'
  <1> USE DEF OnceEach, VerifyTypeOK, Working, teamVars, reportVars
  <1>1. CASE StartChars \/ StartWindows
    BY <1>1, Divided DEF StartChars, StartWindows
  <1>2. CASE FileMissing \/ PrintMessage
    BY <1>2 DEF FileMissing, PrintMessage
  <1>3. ASSUME NEW t \in Threads, ThreadStep(t) PROVE OnceEach'
    <2>1. CASE Take(t)
      <3>1. PICK i \in todo[t] : turn' = [turn EXCEPT ![t] = i] /\ todo' = [todo EXCEPT ![t] = @ \ {i}]
        BY <2>1 DEF Take
      <3>2. pc[t] = "take" /\ pc' = [pc EXCEPT ![t] = IF verifying = "chars" THEN "compare" ELSE "fill"]
        BY <2>1 DEF Take
      <3>3. /\ \A u \in Threads : todo'[u] \subseteq todo[u]
            /\ \A u \in Threads \ {t} : turn'[u] = turn[u] /\ pc'[u] = pc[u] /\ todo'[u] = todo[u]
            /\ turn'[t] = i /\ i \notin todo'[t]
        BY <3>1, <3>2
      <3>4. \A u \in Threads \ {t} : i \notin todo[u] /\ (pc[u] \in Working => turn[u] # i)
        BY <3>1
      <3> QED
        BY <3>3, <3>4
    <2>2. CASE Leave(t)
      BY <2>2 DEF Leave
    <2>3. CASE CompareChars(t)
      BY <2>3 DEF CompareChars, CancelFor
    <2>4. CASE CompareWindows(t)
      BY <2>4 DEF CompareWindows, CancelFor
    <2>5. CASE CopyThrows(t) \/ TickCrashes(t) \/ AtBehind(t) \/ SubstrBehind(t)
      BY <2>5 DEF CopyThrows, TickCrashes, AtBehind, SubstrBehind
    <2>6. CASE FillBuffers(t)
      BY <2>6 DEF FillBuffers
    <2>7. CASE Tick(t)
      BY <2>7 DEF Tick
    <2>8. CASE BeginUpdate(t) \/ EndUpdate(t)
      BY <2>8 DEF BeginUpdate, EndUpdate
    <2> QED
      BY <1>3, <2>1, <2>2, <2>3, <2>4, <2>5, <2>6, <2>7, <2>8 DEF ThreadStep
  <1>4. CASE UNCHANGED verifyVars
    BY <1>4 DEF verifyVars
  <1> QED
    BY <1>1, <1>2, <1>3, <1>4 DEF VerifyNext

(* Nobody enters the critical section before its holder has written. *)
LEMMA AloneInUpdateStep ==
  ASSUME VerifyTypeOK, AloneInUpdate, [VerifyNext]_verifyVars PROVE AloneInUpdate'
  <1> USE DEF AloneInUpdate, VerifyTypeOK, teamVars, reportVars
  <1>1. CASE StartChars \/ StartWindows
    BY <1>1 DEF StartChars, StartWindows, Fork
  <1>2. CASE FileMissing \/ PrintMessage
    BY <1>2 DEF FileMissing, PrintMessage
  <1>3. ASSUME NEW t \in Threads, ThreadStep(t) PROVE AloneInUpdate'
    <2>1. CASE Take(t) \/ Leave(t)
      BY <2>1 DEF Take, Leave
    <2>2. CASE CompareChars(t)
      BY <2>2 DEF CompareChars, CancelFor
    <2>3. CASE CompareWindows(t)
      BY <2>3 DEF CompareWindows, CancelFor
    <2>4. CASE AtBehind(t) \/ CopyThrows(t) \/ SubstrBehind(t) \/ TickCrashes(t) \/ FillBuffers(t) \/ Tick(t)
      BY <2>4 DEF AtBehind, CopyThrows, SubstrBehind, TickCrashes, FillBuffers, Tick
    <2>5. CASE BeginUpdate(t)
      BY <2>5 DEF BeginUpdate
    <2>6. CASE EndUpdate(t)
      BY <2>6 DEF EndUpdate
    <2> QED
      BY <1>3, <2>1, <2>2, <2>3, <2>4, <2>5, <2>6 DEF ThreadStep
  <1>4. CASE UNCHANGED verifyVars
    BY <1>4 DEF verifyVars
  <1> QED
    BY <1>1, <1>2, <1>3, <1>4 DEF VerifyNext

(* Inside a loop its numbers of iterations and of ticks stay. *)
LEMMA LoopStays ==
  ASSUME NEW t \in Threads, ThreadStep(t), verifying' \notin {"crashed", "undefined"}
  PROVE  /\ UNCHANGED << verifying, case, Turns, TurnsPerTick, AllTicks >>
         /\ verifying \in {"chars", "windows"}
  <1>1. UNCHANGED << verifying, case >> /\ verifying \in {"chars", "windows"}
    BY DEF ThreadStep, Take, Leave, AtBehind, CompareChars, CopyThrows, SubstrBehind, FillBuffers, CompareWindows, TickCrashes, Tick,
      BeginUpdate, EndUpdate
  <1>2. UNCHANGED << Turns, TurnsPerTick >>
    BY <1>1 DEF Turns, TurnsPerTick
  <1> QED
    BY <1>1, <1>2 DEF AllTicks

(* Only the iterations that make a tick get to the critical section. *)
LEMMA OnlyTicksUpdateStep ==
  ASSUME VerifyTypeOK, OnlyTicksUpdate, [VerifyNext]_verifyVars PROVE OnlyTicksUpdate'
  <1> USE DEF OnlyTicksUpdate, VerifyTypeOK, teamVars, reportVars
  <1>1. CASE StartChars \/ StartWindows
    BY <1>1 DEF StartChars, StartWindows, Fork
  <1>2. CASE FileMissing \/ PrintMessage
    BY <1>2 DEF FileMissing, PrintMessage
  <1>3. ASSUME NEW t \in Threads, ThreadStep(t) PROVE OnlyTicksUpdate'
    <2>1. CASE verifying' \in {"crashed", "undefined"}
      BY <2>1
    <2>2. CASE verifying' \notin {"crashed", "undefined"}
      <3>1. UNCHANGED << verifying, TurnsPerTick >> /\ verifying \in {"chars", "windows"}
        BY <1>3, <2>2, LoopStays
      <3> HIDE DEF TurnsPerTick
      <3>2. CASE Take(t)
        BY <3>1, <3>2 DEF Take
      <3>3. CASE Leave(t)
        BY <3>1, <3>3 DEF Leave
      <3>4. CASE CompareChars(t)
        BY <3>1, <3>4 DEF CompareChars, CancelFor
      <3>5. CASE CompareWindows(t)
        BY <3>1, <3>5 DEF CompareWindows, CancelFor
      <3>6. CASE FillBuffers(t)
        BY <3>1, <3>6 DEF FillBuffers
      <3>7. CASE Tick(t)
        BY <3>1, <3>7 DEF Tick
      <3>8. CASE BeginUpdate(t) \/ EndUpdate(t)
        BY <3>1, <3>8 DEF BeginUpdate, EndUpdate
      <3> QED
        BY <1>3, <2>2, <3>2, <3>3, <3>4, <3>5, <3>6, <3>7, <3>8 DEF ThreadStep, AtBehind, CopyThrows, SubstrBehind, TickCrashes
    <2> QED
      BY <2>1, <2>2
  <1>4. CASE UNCHANGED verifyVars
    BY <1>4 DEF verifyVars, TurnsPerTick, Turns
  <1> QED
    BY <1>1, <1>2, <1>3, <1>4 DEF VerifyNext

(* A step counts nothing, or is the end of an update and counts one. *)
LEMMA CountedStep ==
  ASSUME VerifyTypeOK, VerifyTypeOK', InLoop, OnceEach, OnlyTicksUpdate, ~case.cancellation,
         NEW t \in Threads, ThreadStep(t), verifying' \notin {"crashed", "undefined"}
  PROVE  \/ Counted' = Counted /\ progress' = progress
         \/ /\ EndUpdate(t) /\ turn[t] \notin Counted
            /\ Counted' = Counted \cup {turn[t]}
  <1>1. UNCHANGED << verifying, case, Turns, TurnsPerTick, AllTicks >> /\ verifying \in {"chars", "windows"}
    BY LoopStays
  <1> USE <1>1 DEF VerifyTypeOK, Working
  <1>2. ASSUME \A i \in AllTicks : Pending(i, Working)' <=> Pending(i, Working) PROVE Counted' = Counted
    BY <1>2 DEF Counted
  <1>3. CASE Take(t)
    <2>1. PICK k \in todo[t] : turn' = [turn EXCEPT ![t] = k] /\ todo' = [todo EXCEPT ![t] = @ \ {k}]
      BY <1>3 DEF Take
    <2>2. /\ pc[t] = "take" /\ progress' = progress
          /\ pc' = [pc EXCEPT ![t] = IF verifying = "chars" THEN "compare" ELSE "fill"]
      BY <1>3 DEF Take
    <2>3. ASSUME NEW i \in AllTicks PROVE Pending(i, Working)' <=> Pending(i, Working)
      <3>1. CASE i = k
        BY <2>1, <2>2, <3>1 DEF Pending
      <3>2. CASE i # k
        BY <2>1, <2>2, <3>2 DEF Pending
      <3> QED
        BY <3>1, <3>2
    <2> QED
      BY <1>2, <2>2, <2>3
  <1>4. CASE Leave(t)
    BY <1>2, <1>4 DEF Leave, Pending
  <1>5. CASE CompareChars(t)
    BY <1>2, <1>5 DEF CompareChars, CancelFor, Pending
  <1>6. CASE CompareWindows(t)
    BY <1>2, <1>6 DEF CompareWindows, CancelFor, Pending
  <1>7. CASE FillBuffers(t)
    BY <1>2, <1>7 DEF FillBuffers, Pending
  <1>8. CASE Tick(t)
    <2>1. CASE turn[t] % TurnsPerTick = 0
      <3>1. pc' = [pc EXCEPT ![t] = "enter"] /\ pc[t] = "tick" /\ UNCHANGED << turn, todo, progress >>
        BY <1>8, <2>1 DEF Tick
      <3> QED
        BY <1>2, <3>1 DEF Pending
    <2>2. CASE turn[t] % TurnsPerTick # 0
      <3>1. pc' = [pc EXCEPT ![t] = "take"] /\ pc[t] = "tick" /\ UNCHANGED << turn, todo, progress >>
        BY <1>8, <2>2 DEF Tick
      <3>2. turn[t] \notin AllTicks
        BY <2>2 DEF AllTicks
      <3> QED
        BY <1>2, <3>1, <3>2 DEF Pending
    <2> QED
      BY <2>1, <2>2
  <1>9. CASE BeginUpdate(t)
    BY <1>2, <1>9 DEF BeginUpdate, Pending
  <1>10. CASE EndUpdate(t)
    <2>1. pc[t] = "update" /\ pc' = [pc EXCEPT ![t] = "take"] /\ UNCHANGED << turn, todo >>
      BY <1>10 DEF EndUpdate
    <2>2. turn[t] \in AllTicks
      BY <2>1 DEF AllTicks, OnlyTicksUpdate, InLoop
    <2>3. turn[t] \notin Counted
      BY <2>1 DEF Counted, Pending
    <2>4. ASSUME NEW i \in AllTicks, i = turn[t] PROVE ~Pending(i, Working)'
      BY <2>1, <2>4 DEF Pending, OnceEach
    <2>5. ASSUME NEW i \in AllTicks, i # turn[t] PROVE Pending(i, Working)' <=> Pending(i, Working)
      BY <2>1, <2>5 DEF Pending
    <2>6. Counted' = {i \in AllTicks : ~Pending(i, Working)'}
      BY DEF Counted
    <2>7. Counted \cup {turn[t]} = {i \in AllTicks : i = turn[t] \/ ~Pending(i, Working)}
      BY <2>2 DEF Counted
    <2>8. Counted' = Counted \cup {turn[t]}
      BY <2>4, <2>5, <2>6, <2>7
    <2> QED
      BY <1>10, <2>3, <2>8
  <1> QED
    BY <1>3, <1>4, <1>5, <1>6, <1>7, <1>8, <1>9, <1>10 DEF ThreadStep, AtBehind, CopyThrows, SubstrBehind, TickCrashes

(* The bar keeps up with what is counted. *)
LEMMA BarShowsCountedStep ==
  ASSUME TicksInv, VerifyTypeOK', [VerifyNext]_verifyVars PROVE BarShowsCounted'
  <1> USE DEF TicksInv, Inv
  <1>1. CASE StartChars
    <2>1. progress' = 0 /\ case' \in Cases /\ \A i \in 0 .. (Turns' - 1) : \E t \in Threads : i \in todo'[t]
      BY <1>1, Divided DEF StartChars, Turns
    <2>2. Counted' = {}
      BY <2>1 DEF Counted, AllTicks, Pending
    <2> QED
      BY <2>1, <2>2, FS_EmptySet DEF BarShowsCounted
  <1>2. CASE StartWindows
    <2>1. verifying = "chars" /\ UNCHANGED case
      BY <1>2 DEF StartWindows
    <2>2. progress' = 0 /\ case' \in Cases /\ \A i \in 0 .. (Turns' - 1) : \E t \in Threads : i \in todo'[t]
      BY <1>2, <2>1, Divided DEF StartWindows, Turns, VerifyTypeOK
    <2>3. Counted' = {}
      BY <2>2 DEF Counted, AllTicks, Pending
    <2> QED
      BY <2>2, <2>3, FS_EmptySet DEF BarShowsCounted
  <1>3. CASE FileMissing \/ PrintMessage
    BY <1>3 DEF FileMissing, PrintMessage, BarShowsCounted
  <1>4. ASSUME NEW t \in Threads, ThreadStep(t) PROVE BarShowsCounted'
    <2>1. CASE verifying' \in {"crashed", "undefined"}
      BY <2>1 DEF BarShowsCounted
    <2>2. CASE verifying' \notin {"crashed", "undefined"}
      <3>1. UNCHANGED << verifying, case, TurnsPerTick >> /\ verifying \in {"chars", "windows"}
        BY <1>4, <2>2, LoopStays
      <3>2. SUFFICES ASSUME ~case.cancellation, TurnsPerTick > 0 PROVE progress' = Cardinality(Counted')
        BY <3>1 DEF BarShowsCounted
      <3>3. case \in Cases /\ IsFiniteSet(Counted) /\ progress = Cardinality(Counted)
        BY <3>1, <3>2, TicksFinite DEF VerifyTypeOK, BarShowsCounted
      <3>4. CASE Counted' = Counted /\ progress' = progress
        BY <3>3, <3>4
      <3>5. CASE EndUpdate(t) /\ turn[t] \notin Counted /\ Counted' = Counted \cup {turn[t]}
        <4>1. progress' = progress + 1
          BY <1>4, <3>5 DEF EndUpdate, AloneInUpdate
        <4>2. Cardinality(Counted \cup {turn[t]}) = Cardinality(Counted) + 1
          BY <3>3, <3>5, FS_AddElement
        <4> QED
          BY <3>3, <3>5, <4>1, <4>2
      <3> QED
        BY <1>4, <2>2, <3>2, <3>4, <3>5, CountedStep
    <2> QED
      BY <2>1, <2>2
  <1>5. CASE UNCHANGED verifyVars
    BY <1>5 DEF verifyVars, teamVars, reportVars, BarShowsCounted, Counted, AllTicks, Pending, Turns, TurnsPerTick
  <1> QED
    BY <1>1, <1>2, <1>3, <1>4, <1>5 DEF VerifyNext

(* The inductive invariant of the progress bar. *)
THEOREM TicksInvariance == VerifySpec => []TicksInv
  <1>1. VerifyInit => TicksInv
    <2> SUFFICES ASSUME VerifyInit, Inv PROVE TicksInv
      BY InvInit
    <2> QED
      BY DEF TicksInv, VerifyInit, OnceEach, AloneInUpdate, OnlyTicksUpdate, BarShowsCounted, Working
  <1>2. TicksInv /\ [VerifyNext]_verifyVars => TicksInv'
    <2> SUFFICES ASSUME TicksInv, [VerifyNext]_verifyVars PROVE TicksInv'
      OBVIOUS
    <2>1. Inv' /\ VerifyTypeOK'
      BY InvStep DEF TicksInv, Inv
    <2> QED
      BY <2>1, OnceEachStep, AloneInUpdateStep, OnlyTicksUpdateStep, BarShowsCountedStep DEF TicksInv, Inv
  <1> QED
    BY <1>1, <1>2, PTL DEF VerifySpec

(* The progress bar loses no update: at the end of a loop that was not      *)
(* cancelled it has been moved once for each iteration that makes a tick,   *)
(* whatever the threads did between reading it and writing it back.         *)
THEOREM TicksCorrectness == VerifySpec => []TicksCounted
  <1>1. TicksInv => TicksCounted
    <2> SUFFICES ASSUME TicksInv, verifying \in {"chars", "windows"}, AllLeft, ~case.cancellation,
                        TurnsPerTick > 0
                 PROVE  progress = Cardinality(AllTicks)
      BY DEF TicksCounted, AllTicks
    <2>2. \A i : ~Pending(i, Working)
      BY NothingPending DEF TicksInv, Inv, Working
    <2>3. Counted = AllTicks
      BY <2>2 DEF Counted
    <2> QED
      BY <2>3 DEF TicksInv, BarShowsCounted
  <1> QED
    BY <1>1, TicksInvariance, PTL
-----------------------------------------------------------------------------

(* A step of the program as one of its actions, for the proofs by cases.   *)
LEMMA Steps ==
  ASSUME [Next]_vars
  PROVE  \/ Reject \/ NoTool \/ NoFile \/ StartInteractive \/ StartVerify
         \/ InteractiveStep \/ VerifyStep \/ EndTool \/ Killed
         \/ NoBench \/ BenchStep \/ EndBench
         \/ UNCHANGED vars
BY DEF Next, Terminated

-----------------------------------------------------------------------------
(* Nothing but verify_ds touches what verify_ds works with. *)
THEOREM VerifyImplemented == Spec => VerifySpec
<1>1. Init => VerifyInit
  BY DEF Init
<1>2. [Next]_vars => [VerifyNext]_verifyVars
  <2> SUFFICES ASSUME [Next]_vars PROVE VerifyNext \/ UNCHANGED verifyVars
    OBVIOUS
  <2>1. CASE StartVerify \/ VerifyStep
    BY <2>1 DEF StartVerify, VerifyStep, VerifyNext
  <2>2. CASE NoFile
    BY <2>2 DEF NoFile, VerifyNext
  <2>3. CASE Reject \/ NoTool \/ Killed \/ NoBench \/ EndBench \/ UNCHANGED vars
    BY <2>3 DEF Reject, NoTool, Killed, NoBench, EndBench, toolVars, vars
  <2>4. CASE StartInteractive \/ InteractiveStep \/ EndTool \/ BenchStep
    BY <2>4 DEF StartInteractive, InteractiveStep, EndTool, BenchStep
  <2> QED BY <2>1, <2>2, <2>3, <2>4, Steps
<1> QED BY <1>1, <1>2, PTL DEF Spec, VerifySpec

(* In the program, too, the verification reports only what is wrong.       *)
THEOREM ProgramRaisesNoFalseAlarm == Spec => []NoFalseAlarm
BY VerifyImplemented, NoFalseAlarmCorrectness, PTL

(* And it reports everything a comparison could see.                       *)
THEOREM ProgramReports == Spec => []EveryVisibleErrorReported
BY VerifyImplemented, ReportCorrectness, PTL

(* Its progress bar counts every tick.                                     *)
THEOREM ProgramCountsTicks == Spec => []TicksCounted
BY VerifyImplemented, TicksCorrectness, PTL

(* It crashes on short texts, and only on those.                           *)
THEOREM ProgramCrashesIfShort == Spec => []CrashesIfShort
BY VerifyImplemented, CrashCorrectness, PTL

-----------------------------------------------------------------------------
(* The interactive mode *)

(* What is known of the loop: the data structure is one of those given,    *)
(* and the words are words.                                                *)
Asked ==
  /\ asking \in {"idle", "prompt", "answer", "returned", "undefined", "aborted"}
  /\ asking \in {"prompt", "answer", "undefined", "aborted"} => ds \in Sources
  /\ word \in Word /\ input \in Seq(Word)
  /\ shown.kind = "range" => ds \in Sources /\ asking # "idle"

AskedInv == Asked /\ FailsOnlyOutside /\ PrintsWhatWasAsked

(* A text has at least one character and fits into memory; neither reach   *)
(* nor length is negative.                                                 *)
LEMMA SourceFacts ==
  ASSUME ds \in Sources
  PROVE  /\ ds.text \in Seq(Nat)
         /\ Length \in Nat \ {0} /\ Length <= Memory /\ Length < Sizes
         /\ ds.reach \in Nat /\ ds.reach <= Length
         /\ Memory \in Nat /\ Sizes \in Nat /\ Memory + 1 < Sizes
         /\ Junk \subseteq Nat
BY SourcesAssumption, SizesAssumption DEF Length

(* from is a size; to is moved into the text if it is not there.           *)
LEMMA EndFacts ==
  ASSUME ds \in Sources, word \in Word, Bad \notin {word.from, word.to}
  PROVE  From \in Nat /\ From < Sizes /\ To \in Nat /\ To < Length
<1>1. /\ word.from = Open \/ word.from \in 0 .. (Sizes - 1)
      /\ word.to = Open \/ word.to \in 0 .. (Sizes - 1)
  BY DEF Word, Part
<1>2. From \in Nat /\ From < Sizes
  BY <1>1, SourceFacts DEF From
<1>3. To \in Nat /\ To < Length
  BY <1>1, SourceFacts DEF To
<1> QED BY <1>2, <1>3

(* A range that begins at most one behind its end has the length it should. *)
LEMMA RangeFacts ==
  ASSUME ds \in Sources, word \in Word, Bad \notin {word.from, word.to}, From <= To + 1
  PROVE  RangeLength = To - From + 1
<1>1. /\ From \in Nat /\ To \in Nat /\ Sizes \in Nat
      /\ To + 1 < Sizes /\ From < Sizes
  BY EndFacts, SourceFacts
<1> HIDE DEF From, To
<1>2. CASE From <= To
  <2>1. Minus(To, From) = To - From
    BY <1>1, <1>2 DEF Minus
  <2> QED BY <1>1, <1>2, <2>1 DEF RangeLength, Plus
<1>3. CASE From = To + 1
  <2>1. Minus(To, From) = Sizes - 1
    BY <1>1, <1>3 DEF Minus
  <2> QED BY <1>1, <1>3, <2>1 DEF RangeLength, Plus
<1> QED BY <1>1, <1>2, <1>3

(* A nonempty set of natural numbers has a least element.                  *)
LEMMA LeastNatural ==
  ASSUME NEW S, S \subseteq Nat, S # {}
  PROVE  \E m \in S : \A n \in S : m <= n
<1> DEFINE less == OpToRel(<, Nat)
<1>1. IsWellFoundedOn(less, Nat)
  BY NatLessThanWellFounded
<1>2. \A m, n \in Nat : n < m => << n, m >> \in less
  BY DEF OpToRel
<1> HIDE DEF less
<1>3. PICK m \in S : \A n \in S : ~(<< n, m >> \in less)
  BY <1>1, WFMin
<1>4. ASSUME NEW n \in S PROVE m <= n
  <2>1. ~(n < m)
    BY <1>2, <1>3
  <2> QED BY <2>1
<1> QED BY <1>4

(* A string is shown up to its first 0, and no further.                    *)
LEMMA ShownBeforeZero ==
  ASSUME NEW string \in Seq(Nat)
  PROVE  /\ Len(CString(string)) <= Len(string)
         /\ \A m \in 1 .. Len(string) : string[m] = 0 => Len(CString(string)) <= m - 1
         /\ \A m \in 1 .. Len(string) : (\A j \in 1 .. m : string[j] # 0) =>
              m <= Len(CString(string)) /\ CString(string)[m] = string[m]
<1> DEFINE zeros == {k \in DOMAIN string : string[k] = 0}
<1>1. CASE zeros = {}
  BY <1>1 DEF CString
<1>2. CASE zeros # {}
  <2>1. zeros \subseteq Nat /\ \A k \in zeros : k \in 1 .. Len(string) /\ string[k] = 0
    OBVIOUS
  <2>2. \E k \in zeros : \A j \in zeros : k <= j
    <3> HIDE DEF zeros
    <3> QED BY <2>1, <1>2, LeastNatural
  <2>3. PICK k \in zeros : /\ k = (CHOOSE z \in zeros : \A j \in zeros : z <= j)
                           /\ \A j \in zeros : k <= j
    <3> HIDE DEF zeros
    <3> QED BY <2>2
  <2>4. CString(string) = SubSeq(string, 1, k - 1)
    BY <2>3, <1>2 DEF CString
  <2>5. /\ Len(CString(string)) = k - 1
        /\ \A m \in 1 .. (k - 1) : CString(string)[m] = string[m]
    BY <2>1, <2>4
  <2>6. \A m \in 1 .. Len(string) : string[m] = 0 => k <= m
    BY <2>3
  <2>7. k \in 1 .. Len(string) /\ string[k] = 0
    BY <2>1
  <2> QED BY <2>5, <2>6, <2>7
<1> QED BY <1>1, <1>2

(* What uninitialized memory may hold in the place of what is missing.     *)
Rests(from, len) == [{k \in 1 .. len : from + k > ds.reach} -> Junk]

(* What is in the buffer for a range that begins in the text.              *)
LEMMA FilledFacts ==
  ASSUME ds \in Sources, NEW from \in Nat, NEW len \in Nat, from + len <= Length,
         NEW rest \in Rests(from, len)
  PROVE  /\ Filled(from, len, rest) \in Seq(Nat) /\ Len(Filled(from, len, rest)) = len
         /\ \A k \in 1 .. len : from + k <= ds.reach => Filled(from, len, rest)[k] = ds.text[from + k]
<1>1. \A k \in 1 .. len : ds.text[from + k] \in Nat
  BY SourceFacts DEF Length
<1>2. \A k \in 1 .. len : from + k > ds.reach => rest[k] \in Nat
  BY SourceFacts DEF Rests
<1>3. \A k \in 1 .. len : (IF from + k <= ds.reach THEN ds.text[from + k] ELSE rest[k]) \in Nat
  <2> SUFFICES ASSUME NEW k \in 1 .. len
               PROVE  (IF from + k <= ds.reach THEN ds.text[from + k] ELSE rest[k]) \in Nat
    OBVIOUS
  <2>1. ds.reach \in Nat /\ (from + k <= ds.reach \/ from + k > ds.reach)
    BY SourceFacts
  <2>2. CASE from + k <= ds.reach
    BY <1>1, <2>2
  <2>3. CASE ~(from + k <= ds.reach)
    BY <1>2, <2>1, <2>3
  <2> QED BY <2>2, <2>3
<1> QED BY <1>3 DEF Filled

(* The answer to a range is what PrintsWhatWasAsked asks for.              *)
LEMMA RangeAnswered ==
  ASSUME ds \in Sources, word \in Word, Bad \notin {word.from, word.to}, From <= To,
         NEW rest \in Rests(From, RangeLength)
  PROVE  LET string == CString(Filled(From, RangeLength, rest))
         IN  /\ Len(string) <= To - From + 1
             /\ \A k \in From .. To :
                  /\ k < ds.reach /\ ds.text[k + 1] = 0 => Len(string) <= k - From
                  /\ (\A j \in From .. k : j < ds.reach /\ ds.text[j + 1] # 0) =>
                       k - From + 1 <= Len(string) /\ string[k - From + 1] = ds.text[k + 1]
<1> DEFINE all == Filled(From, RangeLength, rest)
           string == CString(all)
<1>1. /\ From \in Nat /\ To \in Nat /\ To < Length /\ Length \in Nat
      /\ RangeLength = To - From + 1
  <2>1. From \in Nat /\ To \in Nat /\ To < Length
    BY EndFacts
  <2>2. From <= To + 1
    BY <2>1
  <2> QED BY <2>1, <2>2, RangeFacts, SourceFacts
<1>2. RangeLength \in Nat /\ From + RangeLength <= Length
  BY <1>1
<1>3. /\ all \in Seq(Nat) /\ Len(all) = RangeLength
      /\ \A m \in 1 .. RangeLength : From + m <= ds.reach => all[m] = ds.text[From + m]
  BY <1>1, <1>2, FilledFacts
<1>4. /\ Len(string) <= Len(all)
      /\ \A m \in 1 .. Len(all) : all[m] = 0 => Len(string) <= m - 1
      /\ \A m \in 1 .. Len(all) : (\A j \in 1 .. m : all[j] # 0) =>
           m <= Len(string) /\ string[m] = all[m]
  <2> HIDE DEF all
  <2> QED BY <1>3, ShownBeforeZero
<1>5. ds.reach \in Nat
  BY SourceFacts
<1> HIDE DEF all, string, From, To, RangeLength
<1>6. ASSUME NEW k \in From .. To
      PROVE  /\ k \in Nat /\ k - From + 1 \in 1 .. Len(all) /\ From + (k - From + 1) = k + 1
             /\ k < ds.reach => all[k - From + 1] = ds.text[k + 1]
  BY <1>1, <1>3, <1>5
<1>7. ASSUME NEW k \in From .. To, k < ds.reach, ds.text[k + 1] = 0 PROVE Len(string) <= k - From
  <2>1. k - From + 1 \in 1 .. Len(all) /\ all[k - From + 1] = 0
    BY <1>6, <1>7
  <2>2. Len(string) <= (k - From + 1) - 1
    BY <2>1, <1>4
  <2>3. (k - From + 1) - 1 = k - From
    BY <1>1
  <2> QED BY <2>2, <2>3
<1>8. ASSUME NEW k \in From .. To, \A j \in From .. k : j < ds.reach /\ ds.text[j + 1] # 0
      PROVE  k - From + 1 <= Len(string) /\ string[k - From + 1] = ds.text[k + 1]
  <2> DEFINE m == k - From + 1
  <2>1. m \in 1 .. Len(all) /\ all[m] = ds.text[k + 1]
    <3>1. k \in From .. k
      BY <1>1
    <3>2. k < ds.reach
      BY <3>1, <1>8
    <3> QED BY <3>2, <1>6
  <2>2. ASSUME NEW j \in 1 .. m PROVE all[j] # 0
    <3>1. From + j - 1 \in From .. k /\ From + j - 1 + 1 = From + j /\ j \in 1 .. RangeLength
      BY <1>1, <1>3, <2>1
    <3>2. From + j - 1 < ds.reach /\ ds.text[From + j] # 0
      BY <3>1, <1>8
    <3>3. From + j <= ds.reach
      BY <3>2, <1>1, <1>5
    <3> QED BY <3>1, <3>2, <3>3, <1>3
  <2>3. m <= Len(string) /\ string[m] = all[m]
    <3> HIDE DEF m
    <3> QED BY <2>1, <2>2, <1>4
  <2> QED BY <2>1, <2>3
<1>9. Len(string) <= To - From + 1
  BY <1>1, <1>3, <1>4
<1> QED BY <1>7, <1>8, <1>9 DEF all, string

(* The words come from the input, and one that is answered is a range of   *)
(* the data structure at hand.                                             *)
LEMMA AskedInvPreserved ==
  ASSUME AskedInv, [InteractiveNext]_interactiveVars
  PROVE  AskedInv'
<1> USE DEF AskedInv, Asked, FailsOnlyOutside, PrintsWhatWasAsked, Length, From, To
<1>1. CASE UNCHANGED interactiveVars
  BY <1>1 DEF interactiveVars, CString
<1>2. CASE StartAsking
  BY <1>2, InputsAssumption DEF StartAsking
<1>3. CASE NothingToAsk
  BY <1>3 DEF NothingToAsk, Stop
<1>4. CASE ReadWord
  BY <1>4 DEF ReadWord
<1>5. CASE Help
  BY <1>5 DEF Help, Answer
<1>6. CASE Exit
  BY <1>6 DEF Exit, Stop
<1>7. CASE Bounds
  BY <1>7 DEF Bounds, Answer
<1>8. CASE InvalidIndex
  BY <1>8 DEF InvalidIndex, Answer
<1>9. CASE Index
  BY <1>9 DEF Index, Answer
<1>10. CASE IndexBehind
  BY <1>10 DEF IndexBehind, Stop
<1>11. CASE RangeShown
  <2> USE DEF RangeShown, IsRange, Answer
  <2> HIDE DEF From, To, Length, PrintsWhatWasAsked, FailsOnlyOutside
  <2>1. Asked' /\ FailsOnlyOutside'
    BY <1>11 DEF FailsOnlyOutside
  <2>2. PrintsWhatWasAsked'
    <3>1. PICK rest \in Rests(From, RangeLength) :
                /\ shown'.from = From /\ shown'.to = To
                /\ shown'.string = CString(Filled(From, RangeLength, rest))
      <4> HIDE DEF IsRange, Answer
      <4>1. PICK rest \in Rests(From, RangeLength) :
              Answer([kind |-> "range", from |-> From, to |-> To,
                      string |-> CString(Filled(From, RangeLength, rest))])
        BY <1>11 DEF Rests
      <4> QED BY <4>1 DEF Answer
    <3>2. ds' = ds /\ ds \in Sources /\ word \in Word /\ Bad \notin {word.from, word.to}
      BY <1>11
    <3> SUFFICES ASSUME From <= To
                 PROVE  /\ Len(shown'.string) <= shown'.to - shown'.from + 1
                        /\ \A k \in shown'.from .. shown'.to :
                             /\ k < ds'.reach /\ ds'.text[k + 1] = 0 => Len(shown'.string) <= k - shown'.from
                             /\ (\A j \in shown'.from .. k : j < ds'.reach /\ ds'.text[j + 1] # 0) =>
                                  /\ k - shown'.from + 1 <= Len(shown'.string)
                                  /\ shown'.string[k - shown'.from + 1] = ds'.text[k + 1]
      BY <3>1 DEF PrintsWhatWasAsked
    <3> HIDE DEF RangeShown, IsRange, Answer
    <3> QED BY <3>1, <3>2, RangeAnswered
  <2> QED BY <2>1, <2>2
<1>12. CASE RangeBehind \/ RangeTooLong \/ RangeWraps
  <2> USE DEF RangeBehind, RangeTooLong, RangeWraps, IsRange, Stop
  <2> HIDE DEF From, To, Length, PrintsWhatWasAsked, FailsOnlyOutside
  <2>1. ds \in Sources /\ word \in Word /\ Bad \notin {word.from, word.to} /\ word.cmd = "range"
    BY <1>12
  <2>2. From > To + 1
    <3>1. /\ From \in Nat /\ To \in Nat /\ To < Length /\ Length \in Nat /\ Length <= Memory
          /\ Memory \in Nat /\ Sizes \in Nat /\ Memory + 1 < Sizes
      BY <2>1, EndFacts, SourceFacts
    <3>2. CASE From <= To + 1
      <4>1. RangeLength = To - From + 1
        BY <2>1, <3>2, RangeFacts
      <4> QED BY <1>12, <3>1, <3>2, <4>1
    <3> QED BY <3>1, <3>2
  <2>3. UNCHANGED << ds, word, shown, input >>
    BY <1>12
  <2>4. Asked' /\ PrintsWhatWasAsked'
    BY <1>12, <2>1, <2>3 DEF PrintsWhatWasAsked
  <2>5. FailsOnlyOutside'
    BY <2>1, <2>2, <2>3 DEF FailsOnlyOutside, From, To, Length
  <2> QED BY <2>4, <2>5
<1> QED BY <1>1, <1>2, <1>3, <1>4, <1>5, <1>6, <1>7, <1>8, <1>9, <1>10, <1>11, <1>12
        DEF InteractiveNext

(* The rest of the program leaves the loop alone.                          *)
LEMMA InteractiveImplemented ==
  ASSUME [Next]_vars
  PROVE  [InteractiveNext]_interactiveVars
<1>1. CASE StartInteractive \/ InteractiveStep
  BY <1>1 DEF StartInteractive, InteractiveStep, InteractiveNext
<1>2. CASE NoFile
  BY <1>2 DEF NoFile, InteractiveNext
<1>3. CASE Reject \/ NoTool \/ Killed \/ NoBench \/ EndBench \/ UNCHANGED vars
  BY <1>3 DEF Reject, NoTool, Killed, NoBench, EndBench, toolVars, vars
<1>4. CASE StartVerify \/ VerifyStep \/ EndTool \/ BenchStep
  BY <1>4 DEF StartVerify, VerifyStep, EndTool, BenchStep
<1> QED BY <1>1, <1>2, <1>3, <1>4, Steps

(* The interactive mode at all times.                                      *)
THEOREM AskedInvariance == Spec => []AskedInv
<1>1. Init => AskedInv
  <2>1. EmptyWord \in Word
    BY DEF EmptyWord, Word, Part, Bad
  <2> QED BY <2>1 DEF Init, InteractiveInit, AskedInv, Asked, FailsOnlyOutside,
                      PrintsWhatWasAsked, Nothing
<1>2. AskedInv /\ [Next]_vars => AskedInv'
  BY AskedInvPreserved, InteractiveImplemented
<1> QED BY <1>1, <1>2, PTL DEF Spec

(* A range is answered with the characters of the text, from its first to  *)
(* its last, for every text, every word and every size of a size_t.        *)
THEOREM RangesAnswered == Spec => []PrintsWhatWasAsked
<1>1. AskedInv => PrintsWhatWasAsked
  BY DEF AskedInv
<1> QED BY <1>1, AskedInvariance, PTL

(* No other word than one outside of the text makes the loop go wrong.     *)
THEOREM FailureOnlyOutside == Spec => []FailsOnlyOutside
<1>1. AskedInv => FailsOnlyOutside
  BY DEF AskedInv
<1> QED BY <1>1, AskedInvariance, PTL

(* A word that is answered, so that the loop goes on.                      *)
Answerable ==
  \/ word.cmd \in {"help", "bounds"}
  \/ word.cmd = "index" /\ (word.from = Bad \/ word.from \in 0 .. (Length - 1))
  \/ /\ word.cmd = "range"
     /\ Bad \in {word.from, word.to} \/ (RangeLength <= Memory /\ From <= Length)

(* What was answered once, or is the empty word of the beginning, can be   *)
(* answered again.                                                         *)
Repeatable ==
  /\ asking = "idle" => word = EmptyWord
  /\ asking = "prompt" => Answerable

(* The input has ended, and the loop has something to answer.              *)
Endless ==
  stage = "interactive" /\ asking \in {"prompt", "answer"} /\ input = << >> /\ Answerable

(* A word that makes the loop end or go wrong is not answered.             *)
LEMMA OthersStop ==
  ASSUME AskedInv, asking = "answer", Answerable
  PROVE  ~Exit /\ ~IndexBehind /\ ~RangeBehind /\ ~RangeTooLong /\ ~RangeWraps
<1>1. ds \in Sources /\ word \in Word
  BY DEF AskedInv, Asked
<1>2. /\ Length \in Nat /\ Memory \in Nat /\ Sizes \in Nat /\ Memory + 1 < Sizes
      /\ word.from = Open \/ word.from = Bad \/ word.from \in Nat
  BY <1>1, SourceFacts DEF Word, Part
<1>3. ~Exit
  BY DEF Exit, Answerable
<1>4. ~IndexBehind
  BY <1>2 DEF IndexBehind, Answerable, Bad
<1>5. CASE ~IsRange
  BY <1>3, <1>4, <1>5 DEF RangeBehind, RangeTooLong, RangeWraps
<1>6. CASE IsRange
  <2>1. RangeLength <= Memory /\ From <= Length
    BY <1>6 DEF IsRange, Answerable
  <2>2. From \in Nat /\ To \in Nat /\ To < Length /\ From < Sizes
    BY <1>1, <1>6, EndFacts DEF IsRange
  <2> HIDE DEF From, To, Length
  <2>3. RangeLength \in Int
    BY <1>2, <2>2, SizesAssumption DEF RangeLength, Plus, Minus
  <2> HIDE DEF RangeLength
  <2>4. ~RangeBehind /\ ~RangeTooLong /\ ~RangeWraps
    BY <1>2, <2>1, <2>2, <2>3 DEF RangeBehind, RangeTooLong, RangeWraps
  <2> QED BY <1>3, <1>4, <2>4
<1> QED BY <1>5, <1>6

(* Who is answered could be answered.                                      *)
LEMMA RepeatablePreserved ==
  ASSUME AskedInv, Repeatable, [InteractiveNext]_interactiveVars
  PROVE  Repeatable'
<1> USE DEF Repeatable
<1>1. CASE UNCHANGED interactiveVars
  BY <1>1 DEF interactiveVars, Answerable, RangeLength, From, To, Length
<1>2. CASE StartAsking
  BY <1>2 DEF StartAsking, Answerable, EmptyWord
<1>3. CASE ReadWord \/ NothingToAsk \/ Exit \/ IndexBehind \/ RangeBehind \/ RangeTooLong \/ RangeWraps
  BY <1>3 DEF ReadWord, NothingToAsk, Exit, IndexBehind, RangeBehind, RangeTooLong, RangeWraps, Stop
<1>4. ASSUME Answerable, UNCHANGED << ds, word >>, asking' = "prompt" PROVE Repeatable'
  BY <1>4 DEF Answerable, RangeLength, From, To, Length
<1>5. CASE Help \/ Bounds \/ InvalidIndex \/ Index
  BY <1>4, <1>5 DEF Help, Bounds, InvalidIndex, Index, Answer, Answerable
<1>6. CASE RangeShown
  <2>1. Answerable /\ UNCHANGED << ds, word >> /\ asking' = "prompt"
    BY <1>6 DEF RangeShown, IsRange, Answer, Answerable
  <2> QED BY <1>4, <2>1
<1> QED BY <1>1, <1>2, <1>3, <1>5, <1>6 DEF InteractiveNext

(* The end of the input does not end the loop, nor does anything else      *)
(* after it, for every text and every input.                               *)
THEOREM EndlessCorrectness == Spec => EndlessAtEndOfInput
<1> DEFINE Asks == stage = "interactive" /\ asking \in {"prompt", "answer"}
<1>1. Init => Repeatable
  BY DEF Init, InteractiveInit, Repeatable
<1>2. AskedInv /\ Repeatable /\ [Next]_vars => Repeatable'
  BY RepeatablePreserved, InteractiveImplemented
<1>3. Repeatable /\ InputEnded => Endless
  BY DEF Repeatable, InputEnded, Endless
<1>4. AskedInv /\ Endless /\ [Next]_vars => Endless'
  <2> SUFFICES ASSUME AskedInv, Endless, [Next]_vars PROVE Endless'
    OBVIOUS
  <2>1. ASSUME stage' = "interactive", asking' \in {"prompt", "answer"}, UNCHANGED << ds, input, word >>
        PROVE  Endless'
    BY <2>1 DEF Endless, Answerable, RangeLength, From, To, Length
  <2>2. CASE InteractiveStep
    <3>1. stage' = "interactive" /\ InteractiveNext
      BY <2>2 DEF InteractiveStep
    <3>2. ~StartAsking /\ ~NothingToAsk
      BY DEF Endless, StartAsking, NothingToAsk
    <3>3. CASE ReadWord
      BY <2>1, <3>1, <3>3 DEF ReadWord, Endless
    <3>4. CASE asking = "answer" /\ ~ReadWord
      <4>1. ~Exit /\ ~IndexBehind /\ ~RangeBehind /\ ~RangeTooLong /\ ~RangeWraps
        BY <3>4, OthersStop DEF Endless
      <4>2. CASE Help \/ Bounds \/ InvalidIndex \/ Index
        BY <2>1, <3>1, <4>2 DEF Help, Bounds, InvalidIndex, Index, Answer
      <4>3. CASE RangeShown
        <5>1. asking' = "prompt" /\ UNCHANGED << ds, input, word >>
          BY <4>3 DEF RangeShown, Answer
        <5> QED BY <2>1, <3>1, <5>1
      <4> QED BY <3>1, <3>2, <3>4, <4>1, <4>2, <4>3 DEF InteractiveNext
    <3>5. asking = "answer" \/ ReadWord
      BY <3>1, <3>2 DEF InteractiveNext, Help, Exit, Bounds, InvalidIndex, Index, IndexBehind,
        RangeShown, RangeBehind, RangeTooLong, RangeWraps, IsRange
    <3> QED BY <3>3, <3>4, <3>5
  <2>3. CASE UNCHANGED vars
    BY <2>1, <2>3 DEF vars, interactiveVars, Endless
  <2>4. ~Reject /\ ~NoTool /\ ~NoFile /\ ~StartInteractive /\ ~StartVerify /\ ~VerifyStep
        /\ ~EndTool /\ ~Killed /\ ~NoBench /\ ~BenchStep /\ ~EndBench
    BY DEF Endless, Reject, NoTool, NoFile, StartInteractive, StartVerify, VerifyStep, EndTool, Killed,
      NoBench, BenchStep, EndBench
  <2> QED BY <2>2, <2>3, <2>4, Steps
<1>5. Endless => Asks
  BY DEF Endless
<1>6. Spec => []Repeatable
  BY <1>1, <1>2, AskedInvariance, PTL DEF Spec
<1>7. []AskedInv /\ []Repeatable /\ [][Next]_vars => [](InputEnded => []Asks)
  <2> HIDE DEF Asks
  <2> QED BY <1>3, <1>4, <1>5, PTL
<1> QED BY <1>6, <1>7, AskedInvariance, PTL DEF Spec, EndlessAtEndOfInput

-----------------------------------------------------------------------------
(* The descriptors *)

(* Nothing is open, or only a descriptor that stands for what it should.   *)
AllFree == \A d \in Descriptors : opened[d] = "nothing"

OnlyOpen(d, what) ==
  /\ d = NoDescriptor \/ (d \in Descriptors /\ opened[d] = what)
  /\ \A e \in Descriptors : e # d => opened[e] = "nothing"

(* The object in each stage of a benchmark.  A copy holds a number that is *)
(* closed, until std::random_device gets it, or another one.               *)
BenchOwns ==
  CASE benching = "idle"     -> AllFree /\ handle = NoDescriptor /\ random = NoDescriptor
    [] benching = "built"    -> OnlyOpen(handle, "file") /\ random = NoDescriptor
    [] benching = "returned" -> AllFree /\ random = NoDescriptor
    [] benching = "querying" -> OnlyOpen(random, "random")
    [] benching = "queried"  -> AllFree /\ random = NoDescriptor
    [] benching = "done"     -> AllFree /\ handle = NoDescriptor /\ random = NoDescriptor

(* A tool holds its file until it has returned or was killed.              *)
Owned ==
  /\ opened \in [Descriptors -> {"nothing", "file", "random"}]
  /\ handle \in Descriptors \cup {NoDescriptor}
  /\ random \in Descriptors \cup {NoDescriptor}
  /\ stage \in {"start", "interactive", "verify", "killed", "bench", "exited"}
  /\ benching \in {"idle", "built", "returned", "querying", "queried", "done"}
  /\ stage \in {"interactive", "verify", "killed"} =>
       benching = "idle" /\ OnlyOpen(handle, "file") /\ random = NoDescriptor
  /\ stage \in {"start", "bench", "exited"} => BenchOwns
  /\ stage = "start" => benching = "idle" /\ answeredFrom = "no query"
  /\ stage = "exited" => benching \in {"idle", "done"}
  /\ benching # "idle" => options.random_access \/ options.substring

OwnedInv == Owned /\ DescriptorOwned /\ StaleOnlyInBenchmark

(* The lowest number that is free is one.                                  *)
LEMMA LowestFreeIsFree ==
  ASSUME Free # {}
  PROVE  LowestFree \in Descriptors /\ opened[LowestFree] = "nothing"
<1>1. Free \subseteq Nat /\ Free \subseteq Descriptors /\ \A d \in Free : opened[d] = "nothing"
  BY DescriptorsAssumption DEF Free, Descriptors
<1>2. \E d \in Free : \A e \in Free : d <= e
  BY <1>1, LeastNatural
<1>3. LowestFree \in Free
  BY <1>2 DEF LowestFree
<1> QED BY <1>1, <1>3

(* NoDescriptor is no descriptor. *)
LEMMA NoDescriptorIsNone == NoDescriptor \notin Descriptors
BY DescriptorsAssumption DEF NoDescriptor, Descriptors

(* Opening the file leaves that file open, or nothing.                     *)
LEMMA OpenFileOwns ==
  ASSUME opened \in [Descriptors -> {"nothing", "file", "random"}], AllFree, OpenFile
  PROVE  /\ opened' \in [Descriptors -> {"nothing", "file", "random"}]
         /\ handle' \in Descriptors \cup {NoDescriptor}
         /\ OnlyOpen(handle, "file")'
<1>1. CASE Free # {} /\ handle' = LowestFree /\ opened' = Opened(LowestFree, "file")
  <2>1. LowestFree \in Descriptors
    BY <1>1, LowestFreeIsFree
  <2> HIDE DEF LowestFree
  <2> QED BY <1>1, <2>1 DEF Opened, OnlyOpen, AllFree
<1>2. CASE handle' = NoDescriptor /\ UNCHANGED opened
  BY <1>2 DEF OnlyOpen, AllFree
<1> QED BY <1>1, <1>2 DEF OpenFile

(* Closing the only descriptor that is open leaves none.                   *)
LEMMA ClosedFree ==
  ASSUME NEW d \in Descriptors \cup {NoDescriptor}, NEW what,
         opened \in [Descriptors -> {"nothing", "file", "random"}],
         OnlyOpen(d, what), opened' = Closed(d)
  PROVE  opened' \in [Descriptors -> {"nothing", "file", "random"}] /\ AllFree'
<1>1. CASE d \in Descriptors
  BY <1>1 DEF Closed, AllFree, OnlyOpen
<1>2. CASE d = NoDescriptor
  BY <1>2, NoDescriptorIsNone DEF Closed, AllFree, OnlyOpen
<1> QED BY <1>1, <1>2

(* A number that stands for nothing stays so when it is closed.            *)
LEMMA ClosedAgain ==
  ASSUME NEW d \in Descriptors \cup {NoDescriptor},
         opened \in [Descriptors -> {"nothing", "file", "random"}], AllFree, opened' = Closed(d)
  PROVE  opened' \in [Descriptors -> {"nothing", "file", "random"}] /\ AllFree'
<1>1. CASE d \in Descriptors
  BY <1>1 DEF Closed, AllFree
<1>2. CASE d = NoDescriptor
  BY <1>2, NoDescriptorIsNone DEF Closed, AllFree
<1> QED BY <1>1, <1>2

(* The benchmark of a file closes one number twice, and each time nobody   *)
(* else holds it.                                                          *)
LEMMA BenchFileOwns ==
  ASSUME Owned, stage = "bench", BenchFile
  PROVE  /\ opened' \in [Descriptors -> {"nothing", "file", "random"}]
         /\ handle' \in Descriptors \cup {NoDescriptor}
         /\ random' \in Descriptors \cup {NoDescriptor}
         /\ benching' \in {"built", "returned", "querying", "queried", "done"}
         /\ BenchOwns'
<1> USE DEF Owned
<1>0. BenchOwns
  OBVIOUS
<1>1. CASE BuildFile
  <2>1. OpenFile /\ AllFree /\ benching' = "built" /\ random' = NoDescriptor
    BY <1>0, <1>1 DEF BuildFile, BenchOwns
  <2>2. OnlyOpen(handle, "file")'
    BY <2>1, OpenFileOwns
  <2> QED BY <2>1, <2>2, OpenFileOwns DEF BenchOwns
<1>2. CASE ReturnResult
  <2>1. /\ OnlyOpen(handle, "file") /\ opened' = Closed(handle) /\ handle' = handle
        /\ benching' = "returned" /\ random' = NoDescriptor
    BY <1>0, <1>2 DEF ReturnResult, BenchOwns
  <2>2. opened' \in [Descriptors -> {"nothing", "file", "random"}] /\ AllFree'
    BY <2>1, ClosedFree
  <2> QED BY <2>1, <2>2 DEF BenchOwns
<1>3. CASE SeedRandom
  <2>1. AllFree /\ random = NoDescriptor /\ handle' = handle /\ benching' = "querying"
    BY <1>0, <1>3 DEF SeedRandom, BenchOwns
  <2>2. CASE Free # {} /\ random' = LowestFree /\ opened' = Opened(LowestFree, "random")
    <3>1. LowestFree \in Descriptors
      BY <2>2, LowestFreeIsFree
    <3> HIDE DEF LowestFree
    <3>2. /\ opened' \in [Descriptors -> {"nothing", "file", "random"}]
          /\ opened'[random'] = "random"
          /\ \A e \in Descriptors : e # random' => opened'[e] = "nothing"
      BY <2>1, <2>2, <3>1 DEF Opened, AllFree
    <3> QED BY <2>1, <2>2, <3>1, <3>2 DEF BenchOwns, OnlyOpen
  <2>3. CASE UNCHANGED << random, opened >>
    BY <2>1, <2>3 DEF BenchOwns, OnlyOpen, AllFree
  <2> QED BY <1>3, <2>2, <2>3 DEF SeedRandom
<1>4. CASE QueryFile
  BY <1>0, <1>4 DEF QueryFile, BenchOwns, OnlyOpen
<1>5. CASE EndQueries
  <2>1. /\ OnlyOpen(random, "random") /\ opened' = Closed(random) /\ handle' = handle
        /\ benching' = "queried" /\ random' = NoDescriptor
    BY <1>0, <1>5 DEF EndQueries, BenchOwns
  <2>2. opened' \in [Descriptors -> {"nothing", "file", "random"}] /\ AllFree'
    BY <2>1, ClosedFree
  <2> QED BY <2>1, <2>2 DEF BenchOwns
<1>6. CASE DestroyResult
  <2>1. /\ AllFree /\ opened' = Closed(handle) /\ handle' = NoDescriptor
        /\ benching' = "done" /\ random' = NoDescriptor
    BY <1>0, <1>6 DEF DestroyResult, CloseFile, BenchOwns
  <2>2. opened' \in [Descriptors -> {"nothing", "file", "random"}] /\ AllFree'
    BY <2>1, ClosedAgain
  <2> QED BY <2>1, <2>2 DEF BenchOwns
<1> QED BY <1>1, <1>2, <1>3, <1>4, <1>5, <1>6 DEF BenchFile

(* A tool begins with the file it has opened, or without any.              *)
LEMMA BeginToolOwns ==
  ASSUME opened \in [Descriptors -> {"nothing", "file", "random"}],
         AllFree, handle = NoDescriptor, BeginTool
  PROVE  /\ opened' \in [Descriptors -> {"nothing", "file", "random"}]
         /\ handle' \in Descriptors \cup {NoDescriptor}
         /\ OnlyOpen(handle, "file")'
<1>1. CASE OpenFile
  BY <1>1, OpenFileOwns
<1>2. CASE UNCHANGED << opened, handle >>
  BY <1>2 DEF OnlyOpen, AllFree
<1> QED BY <1>1, <1>2 DEF BeginTool

(* What every step of the program does to the descriptors.                 *)
LEMMA OwnedPreserved ==
  ASSUME Owned, [Next]_vars
  PROVE  Owned'
<1> USE DEF Owned
<1>1. CASE UNCHANGED vars
  BY <1>1 DEF vars, benchVars, BenchOwns, AllFree, OnlyOpen
<1>2. CASE Reject \/ NoTool
  BY <1>2 DEF Reject, NoTool, toolVars, benchVars, BenchOwns, AllFree, OnlyOpen
<1>3. CASE NoFile
  BY <1>3 DEF NoFile, benchVars, BenchOwns, AllFree, OnlyOpen
<1>4. CASE StartInteractive \/ StartVerify
  <2>1. /\ stage = "start" /\ benching = "idle" /\ BeginTool
        /\ stage' \in {"interactive", "verify"}
        /\ UNCHANGED << options, random, benching, answeredFrom >>
    BY <1>4 DEF StartInteractive, StartVerify
  <2>2. AllFree /\ handle = NoDescriptor /\ random = NoDescriptor
    BY <2>1 DEF BenchOwns
  <2>3. /\ opened' \in [Descriptors -> {"nothing", "file", "random"}]
        /\ handle' \in Descriptors \cup {NoDescriptor}
        /\ OnlyOpen(handle, "file")'
    BY <2>1, <2>2, BeginToolOwns
  <2> QED BY <2>1, <2>2, <2>3
<1>5. CASE InteractiveStep \/ VerifyStep
  BY <1>5 DEF InteractiveStep, VerifyStep, OnlyOpen
<1>6. CASE EndTool
  <2>1. /\ OnlyOpen(handle, "file") /\ opened' = Closed(handle) /\ handle' = NoDescriptor
        /\ stage' = "bench" /\ benching' = "idle" /\ random' = NoDescriptor
        /\ UNCHANGED << options, answeredFrom >>
    BY <1>6 DEF EndTool, CloseFile
  <2>2. opened' \in [Descriptors -> {"nothing", "file", "random"}] /\ AllFree'
    BY <2>1, ClosedFree
  <2> QED BY <2>1, <2>2 DEF BenchOwns
<1>7. CASE Killed
  BY <1>7 DEF Killed, toolVars, benchVars, OnlyOpen
<1>8. CASE NoBench \/ EndBench
  BY <1>8 DEF NoBench, EndBench, toolVars, benchVars, BenchOwns, AllFree, OnlyOpen
<1>9. CASE BenchStep
  <2>1. CASE BenchFile
    <3>1. stage = "bench" /\ UNCHANGED << options, stage >> /\ (options.random_access \/ options.substring)
      BY <1>9 DEF BenchStep
    <3> QED BY <2>1, <3>1, BenchFileOwns
  <2>2. CASE BenchMemory
    BY <1>9, <2>2 DEF BenchStep, BenchMemory, BenchOwns, AllFree
  <2> QED BY <1>9, <2>1, <2>2 DEF BenchStep
<1> QED BY <1>1, <1>2, <1>3, <1>4, <1>5, <1>6, <1>7, <1>8, <1>9, Steps

(* While a tool runs, its object answers from its file, if it has one.     *)
LEMMA StalePreserved ==
  ASSUME Owned, StaleOnlyInBenchmark, [Next]_vars
  PROVE  StaleOnlyInBenchmark'
<1> USE DEF StaleOnlyInBenchmark
<1>1. CASE UNCHANGED vars
  BY <1>1 DEF vars, benchVars
<1>2. CASE Reject \/ NoTool \/ NoFile \/ EndTool \/ NoBench \/ EndBench \/ BenchStep
  BY <1>2 DEF Reject, NoTool, NoFile, EndTool, NoBench, EndBench, BenchStep
<1>3. CASE StartInteractive \/ StartVerify
  <2>1. answeredFrom' = "no query"
    BY <1>3 DEF StartInteractive, StartVerify, Owned
  <2> QED BY <2>1
<1>4. CASE InteractiveStep \/ VerifyStep
  <2>1. /\ stage \in {"interactive", "verify"} /\ UNCHANGED << stage, handle >>
        /\ AnswerFrom \/ UNCHANGED answeredFrom
    BY <1>4 DEF InteractiveStep, VerifyStep
  <2>2. CASE AnswerFrom
    <3>1. handle = NoDescriptor \/ Behind(handle) = "file"
      BY <2>1, NoDescriptorIsNone DEF Owned, OnlyOpen, Behind
    <3> QED BY <2>1, <2>2, <3>1 DEF AnswerFrom
  <2> QED BY <2>1, <2>2
<1>5. CASE Killed
  BY <1>5 DEF Killed, toolVars, benchVars
<1> QED BY <1>1, <1>2, <1>3, <1>4, <1>5, Steps

(* The descriptors at all times.                                           *)
THEOREM OwnedInvariance == Spec => []OwnedInv
<1>1. Init => Owned /\ StaleOnlyInBenchmark
  <2> SUFFICES ASSUME Init PROVE Owned /\ StaleOnlyInBenchmark
    OBVIOUS
  <2>1. \A d \in Descriptors : opened[d] = "nothing"
    BY DEF Init, BenchInit
  <2> QED BY <2>1 DEF Init, BenchInit, Owned, BenchOwns, AllFree, StaleOnlyInBenchmark
<1>2. Owned /\ StaleOnlyInBenchmark /\ [Next]_vars => (Owned /\ StaleOnlyInBenchmark)'
  BY OwnedPreserved, StalePreserved
<1>3. Owned => DescriptorOwned
  <2> SUFFICES ASSUME Owned PROVE DescriptorOwned
    OBVIOUS
  <2>1. stage \in {"interactive", "verify"} /\ handle # NoDescriptor => opened[handle] = "file"
    BY DEF Owned, OnlyOpen
  <2>2. benching = "queried" => Behind(handle) = "nothing"
    BY DEF Owned, BenchOwns, AllFree, Behind
  <2>3. stage = "exited" => AllFree
    BY DEF Owned, BenchOwns
  <2> QED BY <2>1, <2>2, <2>3 DEF DescriptorOwned, AllFree
<1> QED BY <1>1, <1>2, <1>3, PTL DEF Spec, OwnedInv

(* A tool reads from its own file, the second closing of a number meets    *)
(* nobody else's file, and nothing stays open, whatever numbers the system *)
(* gives out.                                                              *)
THEOREM DescriptorCorrectness == Spec => []DescriptorOwned
<1>1. OwnedInv => DescriptorOwned
  BY DEF OwnedInv
<1> QED BY <1>1, OwnedInvariance, PTL

(* Only the benchmarks answer from something else than the file.           *)
THEOREM StaleCorrectness == Spec => []StaleOnlyInBenchmark
<1>1. OwnedInv => StaleOnlyInBenchmark
  BY DEF OwnedInv
<1> QED BY <1>1, OwnedInvariance, PTL
=============================================================================
