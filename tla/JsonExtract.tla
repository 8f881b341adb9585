------------------------------ MODULE JsonExtract -----------------------------
(***************************************************************************)
(* extract_json of crates/tirds-agents: find JSON in what a claude process *)
(* printed, by three strategies in turn.                                   *)
(*                                                                         *)
(* A text is a sequence of pieces: the brace that opens an object or       *)
(* closes it, a quote, a backslash, a fence of three backticks alone or    *)
(* with the "json" and the line end that the code looks for, "plain" for   *)
(* what JSON has between those (a literal, a name inside a string), and    *)
(* "prose" for what is no JSON outside strings.  Keys, colons, commas and  *)
(* white space are left out.                                               *)
(***************************************************************************)
EXTENDS Integers, Sequences

CONSTANTS
  Alphabet,  \* the pieces texts are made of
  MaxLength  \* bound on the length of a text

Markers == <<"fence_json", "fence_line">>
Fences == {"fence_json", "fence_line", "fence"}

ASSUME AlphabetAssumption ==
  /\ Alphabet \subseteq {"open", "close", "quote", "backslash", "plain", "prose"} \cup Fences
  /\ MaxLength \in Nat

VARIABLES
  text,   \* the output, trimmed
  pc,     \* the strategy to try next
  result  \* the JSON returned, empty for none

vars == <<text, pc, result>>

(* A trimmed text does not end in a line end. *)
Trimmed(t) == t # <<>> => t[Len(t)] \notin {"fence_json", "fence_line"}

-------------------------------------------------------------------------------
(* What serde_json accepts.  A line end is not allowed in a string. *)
InString ==
  {<<p>> : p \in {"open", "close", "plain", "prose", "fence"} \cap Alphabet}
    \cup {<<"backslash", p>> : p \in {"quote", "backslash", "plain"} \cap Alphabet}

(* The insides of strings of n pieces, made from shorter ones. *)
BodiesFrom(shorter, n) ==
  IF n = 0 THEN {<<>>}
  ELSE UNION {{u \o b : b \in shorter[n - Len(u)]} : u \in {v \in InString : Len(v) <= n}}

Bodies[n \in Nat] == BodiesFrom(Bodies, n)

Strings(n) == IF n < 2 THEN {} ELSE {<<"quote">> \o b \o <<"quote">> : b \in Bodies[n - 2]}

(* The insides of objects: literals, strings and objects one after another. *)
MembersFrom(shorter, n) ==
  IF n = 0 THEN {<<>>}
  ELSE UNION {{v \o rest : v \in
                 (IF k = 1 THEN {<<"plain">>}
                  ELSE Strings(k)
                         \cup {<<"open">> \o inner \o <<"close">> : inner \in shorter[k - 2]}),
               rest \in shorter[n - k]} : k \in 1..n}

Members[n \in Nat] == MembersFrom(Members, n)

Objects ==
  UNION {{<<"open">> \o inner \o <<"close">> : inner \in Members[n - 2]} : n \in 2..MaxLength}

Values == Objects \cup {<<"plain">>} \cup UNION {Strings(n) : n \in 2..MaxLength}

-------------------------------------------------------------------------------
(* extract_first_object: one pass over the characters. *)
ScanBegins == [depth |-> 0, start |-> 0, end |-> 0, inString |-> FALSE, escapeNext |-> FALSE]

(* Variant of Escapes: a backslash is a character like any other. *)
NothingEscapes(s, i) == FALSE

Escapes(s, i) == text[i] = "backslash" /\ s.inString

OpenBrace(s, i) == [s EXCEPT !.depth = @ + 1, !.start = IF s.depth = 0 THEN i ELSE @]
CloseBrace(s, i) ==
  [s EXCEPT !.depth = @ - 1, !.end = IF s.depth = 1 /\ s.start > 0 THEN i ELSE 0]

MatchPiece(s, i) ==
  CASE Escapes(s, i) -> [s EXCEPT !.escapeNext = TRUE]
    [] text[i] = "quote" -> [s EXCEPT !.inString = ~@]
    [] text[i] = "open" /\ ~s.inString -> OpenBrace(s, i)
    [] text[i] = "close" /\ ~s.inString -> CloseBrace(s, i)
    [] OTHER -> s

ScanPiece(s, i) ==
  CASE s.end > 0 -> s
    [] s.end = 0 /\ s.escapeNext -> [s EXCEPT !.escapeNext = FALSE]
    [] s.end = 0 /\ ~s.escapeNext -> MatchPiece(s, i)

Scan[i \in Nat] == IF i = 0 THEN ScanBegins ELSE ScanPiece(Scan[i - 1], i)

FirstObject == LET s == Scan[Len(text)] IN IF s.end = 0 THEN <<>> ELSE SubSeq(text, s.start, s.end)

(* extract_from_markdown_block: what is between the first piece that is    *)
(* this marker and the next fence of any kind.                             *)
First(S) == CHOOSE i \in S : \A j \in S : i <= j
Places(pieces) == {i \in DOMAIN text : text[i] \in pieces}
Blocks(marker) ==
  {SubSeq(text, open + 1, First({i \in Places(Fences) : i > open}) - 1) :
     open \in {i \in Places({marker}) : /\ i = First(Places({marker}))
                                        /\ \E j \in Places(Fences) : j > i}}

(* The markers in their order; a block that does not parse is not followed *)
(* by another try.                                                         *)
MarkdownBlock == IF Blocks(Markers[1]) # {} THEN Blocks(Markers[1]) ELSE Blocks(Markers[2])

Init ==
  /\ \E n \in 0..MaxLength : text \in [1..n -> Alphabet]
  /\ Trimmed(text)
  /\ pc = "whole"
  /\ result = <<>>

Try(strategy, next, found) ==
  /\ pc = strategy
  /\ IF found # {} THEN pc' = "done" /\ result' \in found
     ELSE pc' = next /\ UNCHANGED result
  /\ UNCHANGED text

TryWhole == Try("whole", "markdown", {text} \cap Objects)

(* Variant of TryMarkdown: a block that does not parse is the end. *)
MarkdownOrNothing == Try("markdown", IF MarkdownBlock = {} THEN "scan" ELSE "done",
                         MarkdownBlock \cap Values)

TryMarkdown == Try("markdown", "scan", MarkdownBlock \cap Values)

TryScan == Try("scan", "done", {FirstObject} \cap Objects)

Next == TryWhole \/ TryMarkdown \/ TryScan

Spec == Init /\ [][Next]_vars

-------------------------------------------------------------------------------
Piece(i, j) == SubSeq(text, i, j)
IsProse(s) == \A n \in DOMAIN s : s[n] \in {"plain", "prose"}

(* After an introduction in words, the first JSON object is returned, with *)
(* whatever braces, quotes and escapes its strings hold and whatever comes *)
(* after it, unless a fence with a line end offers something else.         *)
ProseThenObject ==
  (pc = "done" /\ Places({"fence_json", "fence_line"}) = {}) =>
    \A i, j \in DOMAIN text :
      (IsProse(Piece(1, i - 1)) /\ Piece(i, j) \in Objects) => result = Piece(i, j)

(* An object in a json fence is returned, even if its strings hold fences, *)
(* at which the block seems to end.                                        *)
FencedObject ==
  pc = "done" =>
    \A i, j \in DOMAIN text :
      (/\ i > 1 /\ j < Len(text)
       /\ text[i - 1] = "fence_json" /\ text[j + 1] \in Fences
       /\ IsProse(Piece(1, i - 2)) /\ Piece(i, j) \in Objects) => result = Piece(i, j)
===============================================================================
