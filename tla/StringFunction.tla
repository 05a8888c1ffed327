--------------------------- MODULE StringFunction ---------------------------
(***************************************************************************)
(* youth/core/StringFunction: the string functions, on strings that are    *)
(* sequences of characters.  split, remove and replace search and act in a *)
(* loop, one round of which is one step here.  Positions count from 0 and  *)
(* are of type size_t, SizeMod values of which npos is the largest.        *)
(***************************************************************************)
EXTENDS Integers, Sequences
LOCAL INSTANCE SequencesExt
LOCAL INSTANCE FiniteSetsExt

CONSTANTS
  MaxText, MaxArg,  \* bound: the length of the text, of what it is searched for
  MaxGrown,         \* bound: the length of a text, or number of pieces, that is made
  SizeMod           \* the number of values of size_t

ASSUME TextAssumption ==
  /\ MaxText \in Nat /\ MaxArg \in Nat /\ MaxGrown \in Nat
  /\ SizeMod \in Nat /\ MaxGrown + MaxArg < SizeMod - 1

\* The characters: a letter in both cases, and a space
Chars == {"a", "A", " "}
Lower == [c \in Chars |-> IF c = "A" THEN "a" ELSE c]
Upper == [c \in Chars |-> IF c = "a" THEN "A" ELSE c]
IsSpace(c) == c = " "

VARIABLES
  call,    \* the call: function, text and arguments
  round,   \* the state of its loop: text, pos1 and the pieces so far
  tpc      \* "loop", "done", or "grown" beyond the bound

textVars == <<call, round, tpc>>

npos == SizeMod - 1

\* text.substr(pos, n)
Substr(t, pos, n) == SubSeq(t, pos + 1, pos + n)

\* Where s occurs in t, from a position on
Occurrences(t, s, from) ==
  {i \in from .. Len(t) - Len(s) : Substr(t, i, Len(s)) = s}

\* text.find(s, from) and text.rfind(s)
Find(t, s, from) ==
  IF Occurrences(t, s, from) = {} THEN npos ELSE Min(Occurrences(t, s, from))
Rfind(t, s) ==
  IF Occurrences(t, s, 0) = {} THEN npos ELSE Max(Occurrences(t, s, 0))

startsWith(t, s) == Find(t, s, 0) = 0

\* The difference of the lengths is unsigned.
endsWith(t, s) == Rfind(t, s) = (Len(t) - Len(s)) % SizeMod

contains(t, s) == Find(t, s, 0) # npos
isLower(t) == \A i \in DOMAIN t : t[i] = "a"
isUpper(t) == \A i \in DOMAIN t : t[i] = "A"
toLower(t) == [i \in DOMAIN t |-> Lower[t[i]]]
toUpper(t) == [i \in DOMAIN t |-> Upper[t[i]]]

\* trimmed: spaces are erased from the front, and then from the back.
trimmed(t) ==
  LET front == {i \in DOMAIN t : ~ IsSpace(t[i])}
      str == IF front = {} THEN <<>> ELSE SubSeq(t, Min(front), Len(t))
      back == {i \in DOMAIN str : ~ IsSpace(str[i])}
  IN  IF back = {} THEN <<>> ELSE SubSeq(str, 1, Max(back))

Texts(n) == UNION {[1 .. k -> Chars] : k \in 0 .. n}

\* The predicates and the functions without a loop
Answer(c) ==
  CASE c.fn = "startsWith" -> startsWith(c.text, c.s)
    [] c.fn = "endsWith" -> endsWith(c.text, c.s)
    [] c.fn = "contains" -> contains(c.text, c.s)
    [] c.fn = "isLower" -> isLower(c.text)
    [] c.fn = "isUpper" -> isUpper(c.text)

Changed(c) ==
  CASE c.fn = "toLower" -> toLower(c.text)
    [] c.fn = "toUpper" -> toUpper(c.text)
    [] c.fn = "trimmed" -> trimmed(c.text)

Predicates == {"startsWith", "endsWith", "contains", "isLower", "isUpper"}
Changes == {"toLower", "toUpper", "trimmed"}
Loops == {"split", "remove", "replace"}

Calls ==
  [fn : {"replace"}, text : Texts(MaxText), s : Texts(MaxArg), r : Texts(MaxArg)]
    \cup [fn : Predicates \cup Changes \cup {"split", "remove"}, text : Texts(MaxText),
           s : Texts(MaxArg), r : {<<>>}]

TextTypeOK ==
  /\ call \in Calls
  /\ round.text \in Seq(Chars) /\ round.pos1 \in 0 .. MaxText
  /\ round.pieces \in Seq(Seq(Chars)) /\ round.yes \in BOOLEAN
  /\ tpc \in {"loop", "done", "grown"}

TextInit ==
  /\ call \in Calls
  /\ round = [text |-> call.text, pos1 |-> 0, pieces |-> <<>>, yes |-> FALSE]
  /\ tpc = "loop"

\* The functions that have no loop
TextAnswer ==
  /\ tpc = "loop" /\ call.fn \in Predicates
  /\ round' = [round EXCEPT !.yes = Answer(call)]
  /\ tpc' = "done"
  /\ UNCHANGED call

TextChange ==
  /\ tpc = "loop" /\ call.fn \in Changes
  /\ round' = [round EXCEPT !.text = Changed(call)]
  /\ tpc' = "done"
  /\ UNCHANGED call

\* Mutant: the next search begins one character on.
AfterPiece_One(pos2, s) == pos2 + 1

\* pos1 = pos2 + s.size()
AfterPiece(pos2, s) == pos2 + Len(s)

\* split
Split ==
  /\ tpc = "loop" /\ call.fn = "split"
  /\ LET pos2 == Find(call.text, call.s, round.pos1)
         end == IF pos2 = npos THEN Len(call.text) ELSE pos2
     IN  /\ round' = [round EXCEPT
                        !.pieces = Append(@, Substr(call.text, round.pos1, end - round.pos1)),
                        !.pos1 = IF pos2 = npos THEN @ ELSE AfterPiece(pos2, call.s)]
         /\ tpc' = IF pos2 = npos THEN "done"
                   ELSE IF Len(round.pieces) = MaxGrown THEN "grown" ELSE "loop"
  /\ UNCHANGED call

\* replace, and remove, which replaces by nothing
Replace ==
  /\ tpc = "loop" /\ call.fn \in {"remove", "replace"}
  /\ LET pos == Find(round.text, call.s, 0)
         text == Substr(round.text, 0, pos) \o call.r
                   \o SubSeq(round.text, pos + Len(call.s) + 1, Len(round.text))
     IN  IF pos = npos
         THEN tpc' = "done" /\ UNCHANGED round
         ELSE IF Len(text) > MaxGrown
         THEN tpc' = "grown" /\ UNCHANGED round
         ELSE round' = [round EXCEPT !.text = text] /\ UNCHANGED tpc
  /\ UNCHANGED call

TextNext == TextAnswer \/ TextChange \/ Split \/ Replace

-----------------------------------------------------------------------------
(* Properties                                                              *)

\* The loop must end: what is searched for is not empty, and a replacement is
\* no longer than it and not the same, or is for a single character which it
\* does not have itself.
MustEnd ==
  /\ call.fn \in Loops => call.s # <<>>
  /\ call.fn = "replace" =>
       \/ call.r # call.s /\ Len(call.r) <= Len(call.s)
       \/ Len(call.s) = 1 /\ Occurrences(call.r, call.s, 0) = {}

Free(t, s) == Occurrences(t, s, 0) = {}

\* What each call should give
Right ==
  LET t == call.text
      s == call.s
  IN
  CASE call.fn = "split" ->
         /\ FlattenSeq([i \in 1 .. 2 * Len(round.pieces) - 1 |->
               IF i % 2 = 1 THEN round.pieces[(i + 1) \div 2] ELSE s]) = t
         /\ \A i \in DOMAIN round.pieces : Free(round.pieces[i], s)
    [] call.fn = "remove" ->
         Free(round.text, s) /\ (Len(t) - Len(round.text)) % Len(s) = 0
    [] call.fn = "replace" -> Free(round.text, s)
    [] call.fn = "startsWith" -> round.yes = IsPrefix(s, t)
    [] call.fn = "endsWith" ->
         round.yes = (IsSuffix(s, t) \/ Len(s) = Len(t) + 1)
    [] call.fn = "contains" -> round.yes = ~ Free(t, s)
    [] call.fn = "trimmed" ->
         \E i \in 0 .. Len(t) :
           /\ Substr(t, i, Len(round.text)) = round.text
           /\ \A j \in 1 .. Len(t) :
                j \notin i + 1 .. i + Len(round.text) => IsSpace(t[j])
           /\ round.text # <<>> =>
                ~ IsSpace(Head(round.text)) /\ ~ IsSpace(Last(round.text))
    [] OTHER -> TRUE

(***************************************************************************)
(* split, remove and replace search the text again after every change: the *)
(* loops end, except with an empty argument, which is found for ever, and  *)
(* with a replacement that is the same as what it replaces, or that is     *)
(* longer and brings it back; of longer ones, only those for a single      *)
(* character that they do not have are claimed to end.  Then split has cut *)
(* the text at every separator and nowhere else, nothing is left of what   *)
(* was removed or replaced, and trimmed and the tests are right.  The      *)
(* length of a text that is one shorter than the end it is tested for      *)
(* wraps around to npos, which endsWith takes for a match.                 *)
(***************************************************************************)
CallsReturn == (tpc = "loop" /\ MustEnd) ~> (tpc = "done" /\ Right)
=============================================================================
