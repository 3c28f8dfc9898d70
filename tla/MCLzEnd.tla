------------------------------ MODULE MCLzEnd ------------------------------
(***************************************************************************)
(* All parsings of two to MaxPhrases phrases whose texts have at most      *)
(* MaxLength characters.  The character of a phrase is its number: no two  *)
(* are the same, so a character read from the wrong place shows.           *)
(***************************************************************************)
EXTENDS LzEnd

CONSTANTS MaxPhrases, MaxLength

OnePhrase == [count |-> 1, phrase |-> (0 :> [char |-> 0, link |-> 0, len |-> 1]),
              end |-> (0 :> 0), text |-> (0 :> 0)]

(* g with one more phrase: a copy that ends with phrase `link`. *)
Extended(g, link, len) ==
  LET n == Length(g)
      k == g.count
  IN  [count |-> k + 1,
       phrase |-> g.phrase @@ (k :> [char |-> k, link |-> link, len |-> len]),
       end |-> g.end @@ (k :> n + len - 1),
       text |-> [p \in 0 .. (n + len - 1) |->
                   IF p < n THEN g.text[p]
                   ELSE IF p = n + len - 1 THEN k
                   ELSE g.text[g.end[link] - len + 2 + p - n]]]

Extensions(g) ==
  {Extended(g, 0, 1)}
    \cup {Extended(g, c[1], c[2]) : c \in
            {c \in Phrases(g) \X (2 .. MaxLength) :
               c[2] <= g.end[c[1]] + 2 /\ Length(g) + c[2] <= MaxLength}}

ParsingsOf[k \in 1 .. MaxPhrases] ==
  IF k = 1 THEN {OnePhrase}
  ELSE UNION {Extensions(g) : g \in {h \in ParsingsOf[k - 1] : Length(h) < MaxLength}}

Parsings == UNION {ParsingsOf[k] : k \in 2 .. MaxPhrases}
=============================================================================
