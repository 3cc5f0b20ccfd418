-------------------------------- MODULE JsmnMC --------------------------------
(***************************************************************************)
(* The tokenizer on small documents of every shape, on the responses the   *)
(* scanner is checked with, and on every short text.                       *)
(***************************************************************************)
EXTENDS Jsmn, JsonText

LOCAL D == INSTANCE JsonDocs

Layouts == { d.toks : d \in D!ActionsDocs \cup D!ValidatorsDocs \cup D!EmptyListDocs
                            \cup D!RaggedActionsDocs \cup D!FlatDocs }

Written(toks) == DocumentOf(toks)

Shape(toks) == [i \in DOMAIN toks |-> <<toks[i].type, toks[i].size>>]

(* The token arrays the scanner is checked with are arrays jsmn makes.     *)
ASSUME LayoutsAreTokenArrays == \A l \in Layouts : Shape(Written(l).toks) = Shape(l)

MCDocuments == Scalars \cup Flat \cup Nested \cup { Written(l) : l \in Layouts }

===============================================================================
