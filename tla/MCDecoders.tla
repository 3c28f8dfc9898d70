----------------------------- MODULE MCDecoders -----------------------------
(***************************************************************************)
(* Plain files: all contents up to Short bits, and longer ones up to Long  *)
(* bits cut out of an irregular sequence, so that integers span several    *)
(* whole bytes.  Bytes have 8 bits and trailers 3, as in the code.  TLC's  *)
(* integers have 32 bits, so a grammar file has integers of 3 bytes and a  *)
(* reader takes no more than 30 bits at once.                              *)
(***************************************************************************)
EXTENDS Loading

CONSTANTS Short, Long

Irregular ==
  << 1, 0, 1, 1, 0, 0, 0, 1, 1, 1, 1, 0, 1, 0, 0, 1, 0, 1, 0, 1, 1, 1, 0, 1,
     0, 0, 1, 1, 0, 1, 1, 1, 0, 0, 0, 0, 1 >>

PlainFiles ==
  UNION {[1 .. n -> {0, 1}] : n \in 0 .. Short}
    \cup {SubSeq(Irregular, first, first + n - 1) : first \in 1 .. 6, n \in (Short + 1) .. Long}

R(id) == NonTerminal(id)

Bodies(r) == SeqOf({0, 255} \cup {R(c) : c \in 0 .. (r - 1)}, 3) \ {<< >>}

(* Three rules of one or two symbols, cyclic or not: any of them may hold  *)
(* any other and itself.                                                   *)
Cycles ==
  LET bodies == SeqOf({65} \cup {R(c) : c \in 0 .. 2}, 2) \ {<< >>}
  IN  {<< b0, b1, b2 >> : b0 \in bodies, b1 \in bodies, b2 \in bodies}

(* Grammars of up to two rules, and one with ids of more than one byte.    *)
RuleSets ==
  Cycles \cup {<< >>} \cup {<< b >> : b \in Bodies(0)}
    \cup {<< << 65, 66 >>, b, c >> : b \in Bodies(1), c \in {<< R(0), R(1) >>, << R(1), 7, R(1), 1 >>}}
    \cup {<< << 65, R(300) >>, << R(65279), 1, 2 >>, << R(255), R(256) >> >>}

Phrase(char, link, len) == [char |-> char, link |-> link, len |-> len]

(* Links of phrases of one character mean nothing; the last length takes   *)
(* all values of its low bits.                                             *)
PhraseSets(intBytes) ==
  {<< >>}
    \cup {<< Phrase(70, 0, 1) >>, << Phrase(7, 0, 1), Phrase(255, 3, 1) >>}
    \cup {<< Phrase(70, 0, 1), Phrase(6, 0, 2), Phrase(0, l, len) >> : l \in {0, 1}, len \in 1 .. 16}
    \cup (IF intBytes = 1 THEN {}
          ELSE {<< Phrase(70, 0, 1), Phrase(6, 259, len), Phrase(9, 1, 5) >> : len \in {258, 515, 1536}}
                 \cup {<< Phrase(70, 0, 1), Phrase(9, 256, len) >> : len \in {258, 1282, 1537, 1792, 2048}})

Files ==
  {[kind |-> "bits", data |-> data] : data \in PlainFiles}
    \cup {[kind |-> "missing", rules |-> << >>]}
    \cup {[kind |-> "grammar", rules |-> rs] : rs \in RuleSets}
    \cup UNION {{[kind |-> "lzend", intBytes |-> n, phrases |-> fs] : fs \in PhraseSets(n)} : n \in 1 .. 3}
=============================================================================
