----------------------------- MODULE Permutation -----------------------------
(***************************************************************************)
(* Permutation (util/permutation.hpp): a permutation of 0 .. n - 1 that is *)
(* inverted without storing its inverse.  construct walks every cycle once *)
(* and leaves a shortcut every m_shortcut_spacing elements, which leads    *)
(* back to the shortcut before it.  previous walks forward to a shortcut,  *)
(* takes it, and walks forward again to the element before the one asked   *)
(* about.                                                                  *)
(***************************************************************************)
EXTENDS Packing, BitVectors, Sequences, Functions

CONSTANT Inputs          \* the ranges construct is given, as functions

(* The fields of a vector of one element have no bits, and log2(0) is not  *)
(* a width: vectors of two elements and more.                              *)
ASSUME InputsAssumption ==
  \A p \in Inputs :
    LET n == Cardinality(DOMAIN p)
    IN  n \in 2 .. 2^MaxWidth /\ p \in [0 .. (n - 1) -> 0 .. (n - 1)] /\ IsInjective(p)

VARIABLES
  given,             \* the range
  perm,              \* m_permutation_buf
  i,                 \* the loop over the elements
  processed,         \* the elements passed
  space,             \* elements since the last shortcut
  lastShortcut,
  current,           \* the walk through a cycle; in previous, current_pos
  dest,              \* shortcut_dest_raw
  marked,            \* m_shortcut_pos, a set of positions
  shortcuts,         \* m_shortcut_buf
  asked,             \* the argument of previous
  steps,             \* pointers followed since it was called
  pc

built == << given, perm, i, processed, space, lastShortcut, dest, marked, shortcuts >>

vars == << built, current, asked, steps, pc >>

Elements == DOMAIN given

WordWidth == CeilLog2(Cardinality(Elements))

Spacing == IF WordWidth > 1 THEN WordWidth ELSE 1

Init ==
  /\ given \in Inputs
  /\ perm = [k \in Elements |-> Packed(WordWidth, given[k])]
  /\ i = 0 /\ processed = {} /\ space = 0 /\ lastShortcut = 0 /\ current = 0
  /\ dest = [k \in Elements |-> 0]
  /\ marked = {} /\ shortcuts = << >>
  /\ asked = 0 /\ steps = 0
  /\ pc = "elements"

-----------------------------------------------------------------------------
(* construct *)

SkipProcessed ==
  /\ pc = "elements" /\ i \in processed
  /\ i' = i + 1
  /\ UNCHANGED << given, perm, processed, space, lastShortcut, dest, marked, shortcuts,
                  current, asked, steps, pc >>

(* A cycle is entered at its element after i. *)
EnterCycle ==
  /\ pc = "elements" /\ i \in Elements \ processed
  /\ lastShortcut' = perm[i]
  /\ space' = 1
  /\ current' = perm[perm[i]]
  /\ processed' = processed \cup {current'}
  /\ pc' = "cycle"
  /\ UNCHANGED << given, perm, i, dest, marked, shortcuts, asked, steps >>

(* Variant: every shortcut leads back to where the cycle was entered. *)
WalkToStart ==
  /\ pc = "cycle" /\ current # perm[i]
  /\ IF space = Spacing
     THEN /\ dest' = [dest EXCEPT ![current] = lastShortcut]
          /\ marked' = marked \cup {current}
          /\ space' = 1
     ELSE UNCHANGED << dest, marked >> /\ space' = space + 1
  /\ current' = perm[current]
  /\ processed' = processed \cup {current'}
  /\ UNCHANGED << given, perm, i, lastShortcut, shortcuts, asked, steps, pc >>

(* One turn of the walk: a shortcut if the last one is far enough, and the *)
(* next element.                                                           *)
Walk ==
  /\ pc = "cycle" /\ current # perm[i]
  /\ IF space = Spacing
     THEN /\ dest' = [dest EXCEPT ![current] = lastShortcut]
          /\ marked' = marked \cup {current}
          /\ lastShortcut' = current
          /\ space' = 1
     ELSE UNCHANGED << dest, marked, lastShortcut >> /\ space' = space + 1
  /\ current' = perm[current]
  /\ processed' = processed \cup {current'}
  /\ UNCHANGED << given, perm, i, shortcuts, asked, steps, pc >>

(* Back where the cycle was entered: the shortcut that closes it. *)
CloseCycle ==
  /\ pc = "cycle" /\ current = perm[i]
  /\ dest' = [dest EXCEPT ![current] = lastShortcut]
  /\ marked' = marked \cup {current}
  /\ i' = i + 1
  /\ pc' = "elements"
  /\ UNCHANGED << given, perm, processed, space, lastShortcut, shortcuts, current, asked, steps >>

(* Only the shortcuts are kept, in the order of their positions. *)
PackShortcuts ==
  /\ pc = "elements" /\ i = Cardinality(Elements)
  /\ shortcuts' = [k \in 1 .. Cardinality(marked) |-> Packed(WordWidth, dest[Select(marked, k)])]
  /\ pc' = "ready"
  /\ UNCHANGED << given, perm, i, processed, space, lastShortcut, dest, marked, current, asked, steps >>

-----------------------------------------------------------------------------
(* next and previous *)

Successor(k) == perm[k]

AskPrevious ==
  /\ pc \in {"ready", "found"}
  /\ \E k \in Elements : asked' = k /\ current' = k
  /\ steps' = 0
  /\ pc' = "seek"
  /\ UNCHANGED built

Seek ==
  /\ pc = "seek" /\ current \notin marked
  /\ current' = Successor(current)
  /\ steps' = steps + 1
  /\ UNCHANGED << built, asked, pc >>

(* Variant: the shortcut of the next mark. *)
ShortcutAfter(k) == shortcuts[(Rank(marked, k + 1) % Len(shortcuts)) + 1]

(* rank(k) counts the mark at k too. *)
ShortcutAt(k) == shortcuts[Rank(marked, k + 1)]

TakeShortcut ==
  /\ pc = "seek" /\ current \in marked
  /\ current' = ShortcutAt(current)
  /\ steps' = steps + 1
  /\ pc' = "search"
  /\ UNCHANGED << built, asked >>

Search ==
  /\ pc = "search" /\ Successor(current) # asked
  /\ current' = Successor(current)
  /\ steps' = steps + 1
  /\ UNCHANGED << built, asked, pc >>

Found ==
  /\ pc = "search" /\ Successor(current) = asked
  /\ pc' = "found"
  /\ UNCHANGED << built, current, asked, steps >>

Step ==
  \/ SkipProcessed \/ EnterCycle \/ Walk \/ CloseCycle \/ PackShortcuts
  \/ Seek \/ TakeShortcut \/ Search \/ Found

Next == Step \/ AskPrevious

Spec == Init /\ [][Next]_vars

-----------------------------------------------------------------------------
(* Properties *)

(* The element k steps after x. *)
After(p, x, k) ==
  LET walk[n \in 0 .. k] == IF n = 0 THEN x ELSE p[walk[n - 1]]
  IN  walk[k]

(* "A bitvector containing a 1 at each index where there is a shortcut in  *)
(* a cycle", one "every m_shortcut_spacing elements" (permutation.hpp:40): *)
(* once construct is done, a shortcut leads to the shortcut before it on   *)
(* its cycle, at most m_shortcut_spacing elements back, and every cycle    *)
(* has one.                                                                *)
ShortcutsLeadBack ==
  pc \notin {"elements", "cycle"} =>
    /\ \A x \in Elements : \E k \in 0 .. (Spacing - 1) : After(given, x, k) \in marked
    /\ \A m \in marked :
         /\ ShortcutAt(m) \in marked
         /\ \E k \in 1 .. Spacing :
              After(given, ShortcutAt(m), k) = m
              /\ \A j \in 1 .. (k - 1) : After(given, ShortcutAt(m), j) \notin marked

(* previous inverts next, and follows no more than m_shortcut_spacing      *)
(* pointers for it, however long the cycle is.                             *)
PreviousInTime ==
  /\ pc \in {"seek", "search", "found"} => steps <= Spacing
  /\ pc = "found" => given[current] = asked
=============================================================================
