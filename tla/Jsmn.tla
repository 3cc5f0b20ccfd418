--------------------------------- MODULE Jsmn ---------------------------------
(***************************************************************************)
(* jsmn_parse of src/jsmn.h as src/parse.c uses it: non-strict, without    *)
(* parent links, with a token array.  The text arrives one character at a  *)
(* time, a step of the model is one iteration of the loop that reads it,   *)
(* and the text may end anywhere.                                          *)
(*                                                                         *)
(* A character is a class of characters: the punctuation stands for        *)
(* itself, " " for white space, "0" for a hexadecimal digit, "n" for a     *)
(* character that may follow a backslash, "b" for one that is both, "x"    *)
(* for any other printable one and "ctl" for what is not printable.        *)
(***************************************************************************)
EXTENDS Integers, SequencesExt

CONSTANTS Documents,  \* well formed texts, with the tokens meant
          MaxNoise,   \* the length of other texts,
          MaxMarks,   \* and of those that are all brackets and separators
          Rooms       \* the lengths of the token array

ASSUME RoomsAssumption == Rooms \subseteq Nat

ASSUME NoiseAssumption == MaxNoise \in Nat /\ MaxMarks \in Nat

Opening == {"{", "["}
Closing == {"}", "]"}
White   == {" "}
Marks   == Opening \cup Closing \cup {",", ":", "x"}
HexDigits  == {"0", "b"}
Escapable  == {"\"", "\\", "n", "b"}
Delimiters == White \cup Closing \cup {",", ":"}

Characters == Opening \cup Delimiters \cup HexDigits \cup Escapable \cup {"u", "x", "ctl"}

TypeOf(c) == IF c \in {"{", "}"} THEN "object" ELSE "array"

Containers == {"object", "array"}

VARIABLES document, \* what the server wrote, NoDocument when it is noise
          text,     \* what was read so far
          room,     \* num_tokens
          parser    \* the jsmn_parser, the tokens, and where the loops stand

vars == <<document, text, room, parser>>

Token(type, start, end) == [type |-> type, start |-> start, end |-> end, size |-> 0]

(* toksuper counts from 1 here, 0 is the -1 of the code; toknext is        *)
(* Len(toks).  mode says which loop reads the next character, begin where  *)
(* its token begins, digits how many digits of an escape are to come.      *)
NewParser == [toks |-> << >>, super |-> 0, mode |-> "value", begin |-> 0,
              digits |-> 0, outcome |-> "running"]

Running(p) == p.outcome = "running"

Refuse(p, error) == [p EXCEPT !.outcome = error]

(* Mutant: the test for room lets one token through.                       *)
FullLate(p) == Len(p.toks) > room

Full(p) == Len(p.toks) >= room

(* The enclosing token has one more child. *)
Counted(p) == IF p.super = 0 THEN p ELSE [p EXCEPT !.toks[p.super].size = @ + 1]

OpenTokens(p) == { i \in DOMAIN p.toks : p.toks[i].end = -1 }

LastOf(S) == IF S = {} THEN 0 ELSE Max(S)

-----------------------------------------------------------------------------
(* Mutant: a closed container stays the one that counts.                   *)
CloseKeepsSuper(p, type, at) ==
    LET last == LastOf(OpenTokens(p))
    IN  IF last = 0 \/ p.toks[last].type # type THEN Refuse(p, "INVAL")
        ELSE [p EXCEPT !.toks[last].end = at + 1]

(* Mutant: the closing brackets are not looked for at the end of the text. *)
FinishOpen(p) == IF Running(p) THEN Refuse(p, "ok") ELSE p

-----------------------------------------------------------------------------
(* jsmn_alloc_token and jsmn_fill_token for a string or a primitive. *)
Leaf(p, type, end) ==
    IF Full(p) THEN Refuse(p, "NOMEM")
    ELSE Counted([p EXCEPT !.toks = Append(@, Token(type, p.begin, end)),
                           !.mode = "value"])

Open(p, type, at) ==
    IF Full(p) THEN Refuse(p, "NOMEM")
    ELSE LET q == Counted(p)
         IN  [q EXCEPT !.toks = Append(@, Token(type, at, -1)),
                       !.super = Len(p.toks) + 1]

(* A bracket closes the last open token, which must be of its type, and    *)
(* makes the open one below it the one that counts.                        *)
Close(p, type, at) ==
    LET last == LastOf(OpenTokens(p))
    IN  IF last = 0 \/ p.toks[last].type # type THEN Refuse(p, "INVAL")
        ELSE [p EXCEPT !.toks[last].end = at + 1,
                       !.super = LastOf(OpenTokens(p) \ {last})]

Colon(p) == [p EXCEPT !.super = Len(p.toks)]

(* Mutant: a key that has its value stays the one that counts.             *)
CommaKeepsKey(p) == p

(* Behind a key's value the innermost open container counts again. *)
Comma(p) ==
    IF p.super = 0 \/ p.toks[p.super].type \in Containers \/ OpenTokens(p) = {}
    THEN p
    ELSE [p EXCEPT !.super = LastOf(OpenTokens(p))]

(* jsmn_parse_primitive's loop on a character that does not end it. *)
InPrimitive(p, c) == IF c = "ctl" THEN Refuse(p, "INVAL") ELSE p

(* The switch of jsmn_parse. *)
InValue(p, c, at) ==
    CASE c \in Opening -> Open(p, TypeOf(c), at)
      [] c \in Closing -> Close(p, TypeOf(c), at)
      [] c = "\""      -> [p EXCEPT !.mode = "string", !.begin = at + 1]
      [] c \in White   -> p
      [] c = ":"       -> Colon(p)
      [] c = ","       -> Comma(p)
      [] OTHER         -> InPrimitive([p EXCEPT !.mode = "primitive", !.begin = at], c)

(* The primitive ends before c, and c is then read by jsmn_parse. *)
EndPrimitive(p, c, at) ==
    LET q == Leaf(p, "primitive", at) IN IF Running(q) THEN InValue(q, c, at) ELSE q

(* jsmn_parse_string's loop. *)
InString(p, c, at) ==
    CASE c = "\"" -> Leaf(p, "string", at)
      [] c = "\\" -> [p EXCEPT !.mode = "escape"]
      [] OTHER    -> p

InEscape(p, c) ==
    CASE c \in Escapable -> [p EXCEPT !.mode = "string"]
      [] c = "u"         -> [p EXCEPT !.mode = "hex", !.digits = 4]
      [] OTHER           -> Refuse(p, "INVAL")

InHex(p, c) ==
    IF c \notin HexDigits THEN Refuse(p, "INVAL")
    ELSE [p EXCEPT !.digits = @ - 1, !.mode = IF p.digits = 1 THEN "string" ELSE "hex"]

(* The end of the text: a primitive ends with it, a string does not, and   *)
(* nothing may be left open.                                               *)
Finish(p) ==
    IF ~ Running(p) THEN p
    ELSE Refuse(p, IF OpenTokens(p) = {} THEN "ok" ELSE "PART")

AtEnd(p, at) ==
    CASE p.mode = "value"     -> Finish(p)
      [] p.mode = "primitive" -> Finish(Leaf(p, "primitive", at))
      [] OTHER                -> Refuse(p, "PART")

-----------------------------------------------------------------------------
(* How a text nests, told from its characters alone: how many brackets are *)
(* open in front of a place, and whether it is in a string, behind a       *)
(* backslash or in a bare word.                                            *)
Bracket(c) == IF c \in Opening THEN 1 ELSE IF c \in Closing THEN -1 ELSE 0

Nest(at, c) ==
    CASE at.in = "escape" -> [at EXCEPT !.in = "string"]
      [] at.in = "string" -> [at EXCEPT !.in = IF c = "\"" THEN "between"
                                               ELSE IF c = "\\" THEN "escape" ELSE "string"]
      [] at.in = "word" /\ c \notin Delimiters -> at
      [] OTHER -> [depth |-> at.depth + Bracket(c),
                   in |-> IF c = "\"" THEN "string"
                          ELSE IF c \in Opening \cup Delimiters THEN "between" ELSE "word"]

Nesting(t) ==
    LET at[n \in 0..Len(t)] ==
            IF n = 0 THEN [depth |-> 0, in |-> "between"] ELSE Nest(at[n - 1], t[n])
    IN  at

(* Where a character can begin something, and whether it does. *)
Outside(at, t, n) ==
    at[n].in = "between" \/ (at[n].in = "word" /\ t[n + 1] \in Delimiters)

TypeAt(c) == IF c \in Opening THEN TypeOf(c) ELSE IF c = "\"" THEN "string" ELSE "primitive"

(* The place of a token's first character. *)
First(tok) == IF tok.type = "string" THEN tok.start - 1 ELSE tok.start

IsKey(tok) == tok.type = "string" /\ tok.size = 1

(* The token a token is a child of, 0 for none: its key, or the innermost  *)
(* container around it.                                                    *)
Parent(toks, j) ==
    IF j > 1 /\ IsKey(toks[j - 1]) THEN j - 1
    ELSE LastOf({ i \in 1..(j - 1) : toks[i].type \in Containers /\ toks[i].end > First(toks[j]) })

Children(toks, n, i) == { j \in 1..n : Parent(toks, j) = i }

(* Each of the tokens begins behind the ones before, and ends before the   *)
(* next one or contains it; it has as many children as are its.            *)
Ordered(toks) ==
    /\ \A j \in 1..Len(toks) :
           /\ toks[j].size = Cardinality(Children(toks, Len(toks), j))
           /\ \A i \in 1..(j - 1) :
                  /\ First(toks[i]) < First(toks[j])
                  /\ \/ toks[i].end < First(toks[j])
                     \/ toks[i].type \in Containers /\ toks[j].end < toks[i].end

(* There is a token of its kind where a bracket opens and a string or a    *)
(* word begins, and nowhere else, and it ends where they do.               *)
BeginsTokens(t, at, toks, n) ==
    /\ Outside(at, t, n) /\ t[n + 1] \notin Delimiters =>
           /\ t[n + 1] # "ctl"
           /\ \E k \in 1..Len(toks) : First(toks[k]) = n /\ toks[k].type = TypeAt(t[n + 1])
    /\ \A k \in 1..Len(toks) :
           First(toks[k]) = n => Outside(at, t, n) /\ t[n + 1] \notin Delimiters

EndsTokens(t, at, toks, n) ==
    /\ Outside(at, t, n) /\ t[n + 1] \in Closing =>
           \E k \in 1..Len(toks) : toks[k].end = n + 1 /\ toks[k].type = TypeOf(t[n + 1])
    /\ \A k \in 1..Len(toks) :
           toks[k].type \in Containers /\ toks[k].end = n + 1
               => Outside(at, t, n) /\ t[n + 1] \in Closing
    /\ at[n].in = "string" /\ t[n + 1] = "\"" =>
           \E k \in 1..Len(toks) : toks[k].end = n /\ toks[k].type = "string"
    /\ at[n].in = "word" =>
           IF t[n + 1] \in Delimiters
           THEN \E k \in 1..Len(toks) : toks[k].end = n /\ toks[k].type = "primitive"
           ELSE t[n + 1] # "ctl"

(* An escape is one JSON has.                                              *)
Escapes(t, at, n) ==
    at[n].in = "escape" =>
        \/ t[n + 1] \in Escapable
        \/ t[n + 1] = "u" /\ n + 5 <= Len(t) /\ \A m \in (n + 2)..(n + 5) : t[m] \in HexDigits

(* A key and its value are in a container, between them there is a colon   *)
(* and no comma, and behind the value a comma or the end of a container.   *)
Pairing == {":"}
Parting == {","}
Ending  == Parting \cup Closing

Separates(t, at, marks, from, to) ==
    \E n \in from..(to - 1) : Outside(at, t, n) /\ t[n + 1] \in marks

Members(t, at, toks) ==
    \A k \in 1..Len(toks) : IsKey(toks[k]) =>
        /\ k < Len(toks) /\ ~ IsKey(toks[k + 1])
        /\ Separates(t, at, Pairing, toks[k].end, First(toks[k + 1]))
        /\ ~ Separates(t, at, Parting, toks[k].end, First(toks[k + 1]))
        /\ \E i \in 1..(k - 1) : toks[i].type \in Containers /\ toks[i].end > toks[k].end
        /\ \A i \in 1..(k - 1) : toks[i].end > toks[k].end => toks[i].end > toks[k + 1].end
        /\ k + 1 < Len(toks) /\ toks[k + 1].type \notin Containers =>
               Separates(t, at, Ending, toks[k + 1].end, First(toks[k + 2]))

Colons(t, at, toks, n) ==
    Outside(at, t, n) /\ t[n + 1] = ":" =>
        \E k \in 1..(Len(toks) - 1) :
            IsKey(toks[k]) /\ toks[k].end < n /\ n < First(toks[k + 1])

IsTokenized(t, at, toks) ==
    /\ Ordered(toks) /\ Members(t, at, toks)
    /\ \A k \in 1..Len(toks) :
           /\ First(toks[k]) \in 0..(Len(t) - 1) /\ toks[k].end <= Len(t)
           /\ IF toks[k].type \in Containers THEN toks[k].start < toks[k].end
              ELSE toks[k].start <= toks[k].end
    /\ \A n \in 0..(Len(t) - 1) :
           /\ BeginsTokens(t, at, toks, n) /\ EndsTokens(t, at, toks, n)
           /\ Escapes(t, at, n) /\ Colons(t, at, toks, n)
    /\ at[Len(t)].in \in {"between", "word"}
    /\ at[Len(t)].in = "word" =>
           \E k \in 1..Len(toks) : toks[k].end = Len(t) /\ toks[k].type = "primitive"

Tokens == [type : Containers \cup {"string", "primitive"}, start : Nat,
           end : Nat \cup {-1}, size : Nat]

(* What is meant by a well formed text and its tokens. An object or an     *)
(* array is inside its brackets before its last character.                 *)
ASSUME DocumentsAssumption ==
    \A d \in Documents :
        LET at == Nesting(d.text) IN
        /\ d.text \in Seq(Characters) /\ d.toks \in Seq(Tokens)
        /\ d.toks[1].type \in Containers =>
               \A n \in 1..(Len(d.text) - 1) : at[n].depth > 0
        /\ IsTokenized(d.text, at, d.toks)

-----------------------------------------------------------------------------
NoDocument == [text |-> << >>, toks |-> << >>]

Init ==
    /\ document \in Documents \cup {NoDocument}
    /\ text = << >>
    /\ room \in Rooms
    /\ parser = NewParser

Loop(p, c, at) ==
    CASE p.mode = "value"     -> InValue(p, c, at)
      [] p.mode = "primitive" -> IF c \in Delimiters THEN EndPrimitive(p, c, at)
                                 ELSE InPrimitive(p, c)
      [] p.mode = "string"    -> InString(p, c, at)
      [] p.mode = "escape"    -> InEscape(p, c)
      [] p.mode = "hex"       -> InHex(p, c)

AllMarks(t) == Len(t) <= MaxMarks /\ \A n \in DOMAIN t : t[n] \in Marks

Read(c) ==
    /\ Running(parser)
    /\ \/ IsPrefix(Append(text, c), document.text)
       \/ document = NoDocument /\ (Len(text) < MaxNoise \/ AllMarks(Append(text, c)))
    /\ text' = Append(text, c)
    /\ parser' = Loop(parser, c, Len(text))
    /\ UNCHANGED <<document, room>>

End ==
    /\ Running(parser)
    /\ parser' = AtEnd(parser, Len(text))
    /\ UNCHANGED <<document, text, room>>

Next == (\E c \in Characters : Read(c)) \/ End

Spec == Init /\ [][Next]_vars

-----------------------------------------------------------------------------
(* Every document that has one token of the array for each of its values   *)
(* and keys is tokenized as it was written, the child counts the scanner   *)
(* of parse.c strides by included, and no part of it is refused earlier.   *)
DocumentsTokenized ==
    document # NoDocument /\ Len(document.toks) <= room =>
        /\ parser.outcome \notin {"NOMEM", "INVAL"}
        /\ text = document.text /\ ~ Running(parser) =>
               parser.outcome = "ok" /\ parser.toks = document.toks

(* Where a token of a document is about to begin, toksuper is the token it *)
(* is a child of: its key, or the innermost container that holds it, after *)
(* whatever was opened, closed and parted before (jsmn.h:384, 428, 432).   *)
SuperiorIsParent ==
    LET next == Len(parser.toks) + 1
    IN  /\ document # NoDocument /\ Len(document.toks) <= room
        /\ Running(parser) /\ next <= Len(document.toks)
        /\ First(document.toks[next]) = Len(text)
        => parser.super = Parent(document.toks, next)

(* A response cut off on the way is refused, wherever it was cut: no       *)
(* proper part of an object or array leaves tokens that are accepted.      *)
CutOffRefused ==
    /\ document # NoDocument /\ document.toks[1].type \in Containers
    /\ parser.outcome = "ok" /\ parser.toks # << >>
    => text = document.text

(* Whatever the text is, no token is written behind the room for them, and *)
(* those of an accepted text are pieces of it, of which two are one behind *)
(* the other or one inside a container.                                    *)
TokensInPlace ==
    /\ Len(parser.toks) <= room
    /\ parser.outcome = "ok" =>
        \A i, j \in DOMAIN parser.toks :
            LET a == parser.toks[i]
                b == parser.toks[j]
            IN  /\ 0 <= a.start /\ a.start <= a.end /\ a.end <= Len(text)
                /\ i < j => \/ a.end <= b.start
                            \/ /\ a.type \in Containers
                               /\ a.start < b.start /\ b.end < a.end

===============================================================================
