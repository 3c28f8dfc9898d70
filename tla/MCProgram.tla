------------------------------ MODULE MCProgram ------------------------------
(***************************************************************************)
(* Short texts, and data structures that answer one query wrongly, all of  *)
(* them, or none; inputs of up to two words.                               *)
(***************************************************************************)
EXTENDS Program

Flags(i, r, s, v, f, type) ==
  [interactive |-> i, random_access |-> r, substring |-> s, verify |-> v, files |-> f, type |-> type]

(* Everything with the kinds that have no tools, and each tool followed by   *)
(* each kind of benchmark, or none.                                          *)
MCOptions ==
  {Flags(i, r, s, v, f, type) : i, r, s, v, f \in BOOLEAN, type \in {0, 8}}
  \cup {Flags(i, r, s, FALSE, FALSE, type) : i, r, s \in BOOLEAN, type \in {2, 6}}
  \cup {Flags(TRUE, FALSE, s, TRUE, TRUE, 6) : s \in BOOLEAN}
  \cup {Flags(FALSE, TRUE, FALSE, TRUE, TRUE, 6), Flags(FALSE, FALSE, FALSE, TRUE, TRUE, 2)}

MCChars == 0 .. 2

(* Neighbours differ, but for the 0 that some texts have in their middle. *)
Text(n, zero) == [i \in 0 .. (n - 1) |-> IF i = zero THEN 0 ELSE 1 + (i % 2)]

Right(n, zero, cancellation) ==
  LET c == [length |-> n, source |-> Text(n, zero)]
  IN  [length |-> n, known |-> n, source |-> c.source, at |-> c.source,
       substr |-> [i \in 0 .. n |-> SourceWindow(c, i)], cancellation |-> cancellation]

AllWrong(c) ==
  [c EXCEPT !.at = [i \in DOMAIN c.at |-> 2 - c.at[i]], !.substr = [i \in DOMAIN c.substr |-> << >>]]

(* One place, a window that is cut or wrong, and the last window. *)
OneWrong(c) ==
  {[c EXCEPT !.at[1] = 0], [c EXCEPT !.substr[0] = << 1 >>], [c EXCEPT !.substr[1] = << 0, 1 >>],
   [c EXCEPT !.substr[c.length - Window] = << >>]}

(* The data structure has only the first characters. *)
Shorter(c, n) ==
  [c EXCEPT !.known = n,
            !.at = [i \in 0 .. (n - 1) |-> c.at[i]],
            !.substr = [i \in 0 .. n |-> [k \in DOMAIN c.substr[i] \cap 1 .. (n - i) |-> c.substr[i][k]]]]

MCCases ==
  {AllWrong(Right(n, 7, b)) : n \in {0, 1, 4, 5}, b \in BOOLEAN}
  \cup OneWrong(Right(5, 7, FALSE)) \cup {Right(5, 2, TRUE), Right(6, 7, FALSE)}
  \cup {Shorter(Right(5, 7, FALSE), 4), Shorter(AllWrong(Right(5, 7, TRUE)), 1)}

(* The old content of ds_buf equals the first window of a text. *)
MCGarbage == {[src |-> [k \in 1 .. Window |-> 0], ds |-> [k \in 1 .. Window |-> 1 + ((k + 1) % 2)]]}

MCSources == {[text |-> t, reach |-> Len(t) - r] : t \in {<< 1 >>, << 1, 2, 1 >>, << 1, 0, 2 >>}, r \in {0, 1}}

Parts == {Open, Bad} \cup 0 .. 4 \cup {Sizes - 1}

Words ==
  {[cmd |-> c, from |-> Bad, to |-> Bad] : c \in {"help", "exit", "bounds"}}
  \cup {[cmd |-> "index", from |-> v, to |-> Bad] : v \in {Bad, 0, 3}}
  \cup {[cmd |-> "range", from |-> a, to |-> b] : a \in Parts, b \in Parts}

MCInputs ==
  {<< >>} \cup {<< w >> : w \in Words}
  \cup {<< v, w >> : v \in Words, w \in {u \in Words : u.cmd \in {"exit", "index"}}}
=============================================================================
