----------------------------- MODULE Formatter ------------------------------
(***************************************************************************)
(* mylog::Formatter::parsePattern: one pass over a pattern such as         *)
(* [%d{%H:%M}]%T%m%n that collects raw text and format characters, each    *)
(* with an optional {...}, into the list from which the items are made.    *)
(* A step is one round of the loop; characters are one-letter strings.     *)
(***************************************************************************)
EXTENDS Naturals, Sequences, SequencesExt

CONSTANTS PatternChar, \* the characters patterns are made of
          MaxPattern   \* bound on the length of a pattern

(* The braces around the text of an item. *)
LBrace == "{"
RBrace == "}"

ASSUME FormatterAssumption ==
  {"%", LBrace, RBrace} \subseteq PatternChar /\ "" \notin PatternChar /\ MaxPattern \in Nat

(* The format characters that creatItem knows. *)
Key == {"d", "t", "c", "f", "l", "p", "T", "m", "n"}

VARIABLES
  pattern,    \* _pattern
  fmt_pos,    \* the number of characters consumed
  val,        \* raw text not yet put into fmt_order
  fmt_order,  \* pairs of a format character, or "" for raw text, and a text
  parse       \* "running", what parsePattern returns, or "abort"

fmtVars == <<pattern, fmt_pos, val, fmt_order, parse>>

Pattern == UNION {[1..n -> PatternChar] : n \in 0..MaxPattern}

FmtInit ==
  /\ pattern \in Pattern
  /\ fmt_pos = 0 /\ val = <<>> /\ fmt_order = <<>> /\ parse = "running"

(* No pattern is being parsed. *)
FmtIdle ==
  pattern = <<>> /\ fmt_pos = 0 /\ val = <<>> /\ fmt_order = <<>> /\ parse = "true"

Size == Len(pattern)
At(i) == pattern[i + 1]
Percent == parse = "running" /\ fmt_pos < Size /\ At(fmt_pos) = "%"
Escape  == fmt_pos + 1 < Size /\ At(fmt_pos + 1) = "%"

RawChar ==
  /\ parse = "running" /\ fmt_pos < Size /\ At(fmt_pos) # "%"
  /\ val' = Append(val, At(fmt_pos))
  /\ fmt_pos' = fmt_pos + 1
  /\ UNCHANGED <<pattern, fmt_order, parse>>

(* Variant with a fault: the second percent sign is looked at again. *)
StepOverOne ==
  /\ Percent /\ Escape
  /\ val' = Append(val, "%")
  /\ fmt_pos' = fmt_pos + 1
  /\ UNCHANGED <<pattern, fmt_order, parse>>

EscapedPercent ==
  /\ Percent /\ Escape
  /\ val' = Append(val, "%")
  /\ fmt_pos' = fmt_pos + 2
  /\ UNCHANGED <<pattern, fmt_order, parse>>

Pair(k, v) == [key |-> k, text |-> v]

(* The raw text so far goes before the item. *)
RawDone == IF val = <<>> THEN fmt_order ELSE Append(fmt_order, Pair("", val))

(* Nothing follows the percent sign. *)
NoFormatChar ==
  /\ Percent /\ ~Escape
  /\ fmt_pos + 1 = Size
  /\ parse' = "false"
  /\ UNCHANGED <<pattern, fmt_pos, val, fmt_order>>

Braced == fmt_pos + 2 < Size /\ At(fmt_pos + 2) = LBrace
Closing == {i \in (fmt_pos + 3)..(Size - 1) : At(i) = RBrace}

PlainItem ==
  /\ Percent /\ ~Escape
  /\ fmt_pos + 1 < Size /\ ~Braced
  /\ fmt_order' = Append(RawDone, Pair(At(fmt_pos + 1), <<>>))
  /\ val' = <<>>
  /\ fmt_pos' = fmt_pos + 2
  /\ UNCHANGED <<pattern, parse>>

(* Variant with a fault: the braces may stay open. *)
OpenBraceIsItem ==
  /\ Percent /\ ~Escape /\ Braced
  /\ Closing = {}
  /\ fmt_order' = Append(RawDone, Pair(At(fmt_pos + 1), SubSeq(pattern, fmt_pos + 4, Size)))
  /\ val' = <<>>
  /\ fmt_pos' = Size
  /\ UNCHANGED <<pattern, parse>>

(* The braces are never closed. *)
OpenBrace ==
  /\ Percent /\ ~Escape /\ Braced
  /\ Closing = {}
  /\ parse' = "false"
  /\ UNCHANGED <<pattern, fmt_pos, val, fmt_order>>

(* The text up to the first closing brace belongs to the item. *)
BracedItem ==
  /\ Percent /\ ~Escape /\ Braced
  /\ \E i \in Closing :
       /\ \A j \in Closing : i <= j
       /\ fmt_order' = Append(RawDone, Pair(At(fmt_pos + 1), SubSeq(pattern, fmt_pos + 4, i)))
       /\ fmt_pos' = i + 1
  /\ val' = <<>>
  /\ UNCHANGED <<pattern, parse>>

(* The items are made; creatItem aborts at a character it does not know.   *)
CreatItems ==
  /\ parse = "running" /\ fmt_pos = Size
  /\ parse' = IF \A i \in DOMAIN fmt_order : fmt_order[i].key \in Key \cup {""}
              THEN "true" ELSE "abort"
  /\ UNCHANGED <<pattern, fmt_pos, val, fmt_order>>

FmtNext == \/ RawChar \/ EscapedPercent \/ NoFormatChar \/ PlainItem
           \/ OpenBrace \/ BracedItem \/ CreatItems
FmtSpec == FmtInit /\ [][FmtNext]_fmtVars

-----------------------------------------------------------------------------
(* Properties *)

(* The text of a pair as it is written in a pattern; whether an item       *)
(* without text had braces cannot be told.                                 *)
Escaped(text) == FlattenSeq([i \in DOMAIN text |-> IF text[i] = "%" THEN <<"%", "%">>
                                                   ELSE <<text[i]>>])
Spelling(p, braces) ==
  IF p.key = "" THEN Escaped(p.text)
  ELSE <<"%", p.key>> \o IF braces THEN <<LBrace>> \o p.text \o <<RBrace>> ELSE <<>>
Spells(pairs, tail, s) ==
  \E B \in SUBSET {i \in DOMAIN pairs : pairs[i].text = <<>>} :
    FlattenSeq([i \in DOMAIN pairs |->
                  Spelling(pairs[i], pairs[i].text # <<>> \/ i \in B)])
    \o Escaped(tail) = s

(* At every moment what has been collected, written out again, is what has *)
(* been consumed: no character is lost, taken twice or moved to another    *)
(* item.                                                                   *)
SpellsConsumed == Spells(fmt_order, val, SubSeq(pattern, 1, fmt_pos))

(* The parts a pattern s is made of, from i up to j: a raw character, a     *)
(* doubled percent sign, an item without braces, which is not followed by  *)
(* an opening one, and an item with braces, up to the first closing one.   *)
Raw(s, i, j)   == j = i + 1 /\ s[j] # "%"
Twice(s, i, j) == j = i + 2 /\ s[i + 1] = "%" /\ s[j] = "%"
Bare(s, i, j)  == /\ j = i + 2 /\ s[i + 1] = "%" /\ s[j] # "%"
                  /\ ~(j < Len(s) /\ s[j + 1] = LBrace)
Held(s, i, j)  == /\ j >= i + 4 /\ s[i + 1] = "%" /\ s[i + 2] # "%"
                  /\ s[i + 3] = LBrace /\ s[j] = RBrace
                  /\ \A k \in (i + 4)..(j - 1) : s[k] # RBrace
IsPart(s, i, j) == Raw(s, i, j) \/ Twice(s, i, j) \/ Bare(s, i, j) \/ Held(s, i, j)

(* C is a way to cut the first n characters of s into parts. *)
Cuts(s, n, C) ==
  /\ {0, n} \subseteq C
  /\ \A i, j \in C : i < j /\ C \cap (i + 1)..(j - 1) = {} => IsPart(s, i, j)
InLanguage(s) == \E C \in SUBSET (0..Len(s)) : Cuts(s, Len(s), C)

(* The patterns that are refused are those that cannot be cut into parts.  *)
ParsesLanguage ==
  parse # "running" => (parse = "false" <=> ~InLanguage(pattern))

FmtTypeOK ==
  /\ pattern \in Seq(PatternChar) /\ fmt_pos \in 0..Size
  /\ val \in Seq(PatternChar)
  /\ fmt_order \in Seq([key : PatternChar \cup {""}, text : Seq(PatternChar)])
  /\ parse \in {"running", "true", "false", "abort"}

(* There is one way to cut a pattern, and the parser is on it: what has    *)
(* been consumed is cut into parts, and all cuts of the whole pattern have *)
(* one where the parser is.                                                *)
OnTheCut ==
  /\ \E C \in SUBSET (0..fmt_pos) : Cuts(pattern, fmt_pos, C)
  /\ \A C \in SUBSET (0..Size) :
       Cuts(pattern, Size, C) => fmt_pos \in C /\ parse # "false"
  /\ parse \in {"true", "abort"} => fmt_pos = Size

(* The inductive invariant of the parser. *)
FmtIInv == FmtTypeOK /\ SpellsConsumed /\ OnTheCut
=============================================================================
