------------------------------- MODULE JsonText -------------------------------
(***************************************************************************)
(* JSON documents as they are written and as jsmn is to tokenize them.  A  *)
(* piece of a document has its text, a sequence of the characters of Jsmn, *)
(* and the tokens of that text, counted from its first character.          *)
(***************************************************************************)
EXTENDS Integers, SequencesExt

Piece(text, toks) == [text |-> text, toks |-> toks]

Tok(type, start, end, size) ==
    [type |-> type, start |-> start, end |-> end, size |-> size]

Shift(toks, by) ==
    [i \in DOMAIN toks |-> [toks[i] EXCEPT !.start = @ + by, !.end = @ + by]]

Join(p, q) == Piece(p.text \o q.text, p.toks \o Shift(q.toks, Len(p.text)))

(* Punctuation with white space around it: no token. *)
Mark(c, space) == Piece(space \o <<c>> \o space, << >>)

Primitive(chars) == Piece(chars, << Tok("primitive", 0, Len(chars), 0) >>)

(* A string is inside its quotes; a key has its value as a child. *)
Quoted(chars, size) ==
    Piece(<<"\"">> \o chars \o <<"\"">>, << Tok("string", 1, Len(chars) + 1, size) >>)

String(chars) == Quoted(chars, 0)

Member(chars, space, value) ==
    Join(Join(Quoted(chars, 1), Mark(":", space)), value)

(* The items with commas between them. *)
Listed(items, space) ==
    IF items = << >> THEN Piece(space, << >>)
    ELSE FoldLeft(LAMBDA all, item : Join(Join(all, Mark(",", space)), item),
                  Head(items), Tail(items))

Container(type, opening, closing, items, space) ==
    LET body == Join(Join(Piece(<<opening>>, << >>), Listed(items, space)),
                     Piece(<<closing>>, << >>))
    IN  Piece(body.text,
              << Tok(type, 0, Len(body.text), Len(items)) >> \o body.toks)

Arr(items, space) == Container("array", "[", "]", items, space)
Obj(items, space) == Container("object", "{", "}", items, space)

-----------------------------------------------------------------------------
(* Strings with punctuation, quotes and escapes in them. *)
Scalars == { Primitive(<<"x">>), Primitive(<<"0", "n">>), String(<< >>),
             String(<<"\\", "\"", ",">>), String(<<"\\", "\\">>),
             String(<<"{", "]", ":">>), String(<<"\\", "u", "0", "b", "0", "0", "x">>) }

FewScalars == { Primitive(<<"0">>), String(<<"\\", "n">>), String(<<"}">>) }

(* Containers of at most two of the values, with and without white space. *)
Over(values, spaces) ==
    UNION { LET items == UNION { [1..n -> values] : n \in 0..2 }
                members == { [i \in DOMAIN l |-> Member(<<"x">>, space, l[i])] : l \in items }
            IN  { Arr(l, space) : l \in items } \cup { Obj(l, space) : l \in members }
          : space \in spaces }

Flat   == Over(Scalars, {<< >>, <<" ">>})
Nested == Over(FewScalars \cup Over(FewScalars, {<< >>}), {<< >>})
             \* two levels, every pair of one-level containers side by side

(* The document a token array is the tokens of, put together from its end: *)
(* a stack of pieces not yet part of another one, the first in the text on *)
(* its top.                                                                *)
Put(tok, stack) ==
    LET inside == Reverse(SubSeq(stack, Len(stack) - tok.size + 1, Len(stack)))
    IN  SubSeq(stack, 1, Len(stack) - tok.size)
        \o << CASE tok.type = "primitive" -> Primitive(<<"x">>)
                [] tok.type = "array"     -> Arr(inside, << >>)
                [] tok.type = "object"    -> Obj(inside, << >>)
                [] tok.type = "string" /\ tok.size = 0 -> String(<<"x">>)
                [] OTHER -> Member(<<"x">>, << >>, inside[1]) >>

DocumentOf(toks) == FoldLeft(LAMBDA stack, tok : Put(tok, stack), << >>, Reverse(toks))[1]

===============================================================================
