----------------------------- MODULE RandomAccess -----------------------------
(***************************************************************************)
(* What every data structure of gracli promises its caller (the concepts   *)
(* CharRandomAccess and Substring of concepts.hpp): the text stays what it *)
(* is; at(i) is its i-th character; substr(from, len) is the part of it    *)
(* that starts at from and is len characters long, or ends with the text.  *)
(*                                                                         *)
(* A request is << >> or << query >>, a reply << >> or << string >>.  The  *)
(* data structures implement this module under refinement mappings.        *)
(***************************************************************************)
EXTENDS Integers, Sequences

CONSTANTS
  Texts,             \* the texts data structures are built for
  Queries(_),        \* the queries a caller may put to a text
  Reach(_)           \* where substr stops at the latest: Len, if all is well

VARIABLES text, request, reply

vars == << text, request, reply >>

AtQuery(i) == [op |-> "at", from |-> i, len |-> 1]

SubstrQuery(from, len) == [op |-> "substr", from |-> from, len |-> len]

(* A range that goes on past the reach is cut off there. *)
Answer(t, query) ==
  LET end == IF query.from + query.len < Reach(t) THEN query.from + query.len ELSE Reach(t)
  IN  IF query.op = "at" THEN << t[query.from + 1] >>
      ELSE SubSeq(t, query.from + 1, end)

Init ==
  /\ text \in Texts
  /\ request = << >>
  /\ reply = << >>

Ask ==
  /\ request = << >>
  /\ \E query \in Queries(text) : request' = << query >>
  /\ UNCHANGED << text, reply >>

Respond ==
  /\ request # << >> /\ reply = << >>
  /\ reply' = << Answer(text, request[1]) >>
  /\ UNCHANGED << text, request >>

Take ==
  /\ reply # << >>
  /\ request' = << >>
  /\ reply' = << >>
  /\ UNCHANGED text

Next == Ask \/ Respond \/ Take

(* A query that was put is answered; nobody has to ask. *)
Spec == Init /\ [][Next]_vars /\ WF_vars(Respond)
=============================================================================
