--------------------------- MODULE QueryInteractive ---------------------------
(***************************************************************************)
(* query_interactive of main.cpp: a loop that reads a word, takes it for a *)
(* command, an index or a range, and answers from the data structure.  A   *)
(* word is a record: [cmd |-> "help"], "exit", "bounds", an "index" with   *)
(* its number, or a "range" whose parts are numbers, open or bad.  What    *)
(* std::stoull rejects is bad: also the empty word.                        *)
(***************************************************************************)
EXTENDS SizeT, Sequences

CONSTANTS
  Memory,          \* no more characters than this can be allocated
  Sources,         \* texts and data structures: the text, and where substr stops
  Inputs,          \* the words somebody types before the input ends
  Junk             \* the characters uninitialized memory may hold

Open == -1         \* a part of a range that was left out

Bad == -2          \* a part that is no number

EmptyWord == [cmd |-> "index", from |-> Bad, to |-> Bad]

(* substr never writes at or behind `reach`, which is n, or n - 1 for the   *)
(* naive grammar.  at answers with the character behind `at`'s index.       *)
ASSUME SourcesAssumption ==
  /\ Memory \in Nat /\ Memory + 1 < Sizes
  /\ \A d \in Sources :
       /\ d.text \in Seq(Nat) /\ Len(d.text) \in 1 .. Memory
       /\ d.reach \in {Len(d.text), Len(d.text) - 1}
  /\ Junk # {} /\ Junk \subseteq Nat

(* What stoull and stoul return fits a size_t. *)
Part == {Open, Bad} \cup 0 .. (Sizes - 1)

Word == [cmd : {"help", "exit", "bounds", "index", "range"}, from : Part, to : Part]

ASSUME InputsAssumption == Inputs \subseteq Seq(Word)

(* Nothing is loaded yet. *)
NoSource == [text |-> << >>, reach |-> 0]

VARIABLES
  asking,          \* where the loop is
  ds,              \* the data structure
  input,           \* the words to come
  word,            \* s in the code: the word at hand
  shown            \* what was answered to it

interactiveVars == << asking, ds, input, word, shown >>

Nothing == [kind |-> "nothing"]

InteractiveInit ==
  /\ asking = "idle"
  /\ ds = NoSource
  /\ input = << >>
  /\ word = EmptyWord
  /\ shown = Nothing

Answer(answer) ==
  /\ shown' = answer
  /\ asking' = "prompt"
  /\ UNCHANGED << ds, input, word >>

(* The loop does not go on: it has returned, or something went wrong. *)
Stop(how) ==
  /\ asking' = how
  /\ UNCHANGED << ds, input, word, shown >>

(* The file exists and is loaded ... *)
StartAsking ==
  /\ asking = "idle"
  /\ asking' = "prompt"
  /\ ds' \in Sources
  /\ input' \in Inputs
  /\ UNCHANGED << word, shown >>

(* ... or is missing. *)
NothingToAsk ==
  /\ asking = "idle"
  /\ Stop("returned")

(* std::cin >> s leaves the word as it is at the end of the input. *)
ReadWord ==
  /\ asking = "prompt"
  /\ asking' = "answer"
  /\ IF input = << >> THEN UNCHANGED << input, word >>
     ELSE word' = Head(input) /\ input' = Tail(input)
  /\ UNCHANGED << ds, shown >>

Help ==
  /\ asking = "answer" /\ word.cmd = "help"
  /\ Answer([kind |-> "help"])

Exit ==
  /\ asking = "answer" /\ word.cmd = "exit"
  /\ Stop("returned")

Length == Len(ds.text)

Bounds ==
  /\ asking = "answer" /\ word.cmd = "bounds"
  /\ Answer([kind |-> "bounds", last |-> Length - 1, length |-> Length])

(* Variant: the word is tried again instead of the next one. *)
InvalidIndexAgain ==
  /\ asking = "answer" /\ Bad \in {word.from, word.to} /\ word.cmd \in {"index", "range"}
  /\ UNCHANGED << asking, ds, input, word, shown >>

(* The exceptions of stoull and stoul. *)
InvalidIndex ==
  /\ asking = "answer"
  /\ \/ word.cmd = "index" /\ word.from = Bad
     \/ word.cmd = "range" /\ Bad \in {word.from, word.to}
  /\ Answer([kind |-> "invalid"])

Index ==
  /\ asking = "answer" /\ word.cmd = "index" /\ word.from \in 0 .. (Length - 1)
  /\ Answer([kind |-> "char", index |-> word.from, char |-> ds.text[word.from + 1]])

(* Nobody compares an index with the length: what `at` does is undefined. *)
IndexBehind ==
  /\ asking = "answer" /\ word.cmd = "index" /\ word.from >= Length
  /\ Stop("undefined")

From == IF word.from = Open THEN 0 ELSE word.from

(* Variant: the end is not moved into the text. *)
ToAsTyped == IF word.to = Open THEN Length - 1 ELSE word.to

To == IF word.to = Open \/ word.to > Length - 1 THEN Length - 1 ELSE word.to

(* Variant: the end is taken for exclusive. *)
RangeLengthExclusive == Minus(To, From)

(* to - from + 1 characters, both ends included. *)
RangeLength == Plus(Minus(To, From), 1)

IsRange == asking = "answer" /\ word.cmd = "range" /\ Bad \notin {word.from, word.to}

(* What a C string shows: everything before the first 0. *)
CString(string) ==
  LET zeros == {k \in DOMAIN string : string[k] = 0}
  IN  IF zeros = {} THEN string
      ELSE SubSeq(string, 1, (CHOOSE k \in zeros : \A j \in zeros : k <= j) - 1)

(* The buffer after substr, which leaves `rest` as new has found it. *)
Filled(from, len, rest) ==
  [k \in 1 .. len |-> IF from + k <= ds.reach THEN ds.text[from + k] ELSE rest[k]]

RangeShown ==
  /\ IsRange
  /\ RangeLength <= Memory /\ From <= Length
  /\ \E rest \in [{k \in 1 .. RangeLength : From + k > ds.reach} -> Junk] :
       Answer([kind |-> "range", from |-> From, to |-> To,
               string |-> CString(Filled(From, RangeLength, rest))])

(* A begin far behind the text can wrap around to a length that fits. *)
RangeBehind ==
  /\ IsRange
  /\ RangeLength <= Memory /\ From > Length
  /\ Stop("undefined")

(* new char[len + 1] fails for a length that has wrapped around ... *)
RangeTooLong ==
  /\ IsRange
  /\ RangeLength > Memory /\ RangeLength + 1 < Sizes
  /\ Stop("aborted")

(* ... unless len + 1 wraps around, too: buf[len] is outside of buf. *)
RangeWraps ==
  /\ IsRange
  /\ RangeLength + 1 = Sizes
  /\ Stop("undefined")

InteractiveNext ==
  \/ StartAsking \/ NothingToAsk \/ ReadWord \/ Help \/ Exit \/ Bounds \/ InvalidIndex
  \/ Index \/ IndexBehind \/ RangeShown \/ RangeBehind \/ RangeTooLong \/ RangeWraps
-----------------------------------------------------------------------------
(* A range that begins in the text and does not end before it begins is      *)
(* answered with the characters from its first to its last, whichever parts  *)
(* were left out or lie behind the text, up to the first 0 and no further.   *)
(* Only what substr does not deliver may be anything, or be missing.         *)
PrintsWhatWasAsked ==
  shown.kind = "range" /\ shown.from <= shown.to =>
    /\ Len(shown.string) <= shown.to - shown.from + 1
    /\ \A k \in shown.from .. shown.to :
         /\ k < ds.reach /\ ds.text[k + 1] = 0 => Len(shown.string) <= k - shown.from
         /\ (\A j \in shown.from .. k : j < ds.reach /\ ds.text[j + 1] # 0) =>
              /\ k - shown.from + 1 <= Len(shown.string)
              /\ shown.string[k - shown.from + 1] = ds.text[k + 1]

(* The loop goes wrong only on an index behind the text, or on a range that   *)
(* ends, once its end is moved into the text, more than one before its begin. *)
FailsOnlyOutside ==
  asking \in {"undefined", "aborted"} =>
    \/ word.cmd = "index" /\ word.from >= Length
    \/ word.cmd = "range" /\ From > To + 1

=============================================================================
