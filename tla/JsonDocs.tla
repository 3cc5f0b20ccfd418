------------------------------- MODULE JsonDocs -------------------------------
(***************************************************************************)
(* The documents the scanner is run on, as jsmn tokenizes them: families   *)
(* of responses to the API's requests, in every order of their members.    *)
(***************************************************************************)
EXTENDS Integers, JsonRules, SequencesExt

LOCAL NoHome == << >>

Token(type, text, size, home) ==
    [type |-> type, text |-> text, size |-> size, home |-> home]

Object(n) == Token("object", "", n, NoHome)
Array(n)  == Token("array", "", n, NoHome)

TypeOfKey(l, k) ==
    LET hits == { n \in 1..Len(Rules[l]) : Rules[l][n].key = k }
    IN  IF hits = {} THEN "NUMBER" ELSE Rules[l][CHOOSE n \in hits : TRUE].type

(* A scalar member of element e's object l: its key and a value of the     *)
(* type the server gives it.                                               *)
Member(e, l, k) ==
    << Token("string", k, 1, <<e, l, k>>),
       Token(IF TypeOfKey(l, k) \in {"DOUBLE", "BOOLEAN", "NUMBER64"}
             THEN "primitive" ELSE "string", "value", 0, NoHome) >>

(* A member that is an object of n members. *)
Nested(k, n, body) == << Token("string", k, 1, NoHome), Object(n) >> \o body

(* Every order of every subset of S. *)
Orders(S) == UNION { SetToSeqs(T) : T \in SUBSET S }

(* The body of an object: body(k) for each of its keys, in the order ks. *)
Body(ks, body(_)) == FlattenSeq([n \in 1..Len(ks) |-> body(ks[n])])

Doc(api, toks) == [api |-> api, toks |-> toks]

(* A key has its quotes and a colon, a container its brackets and commas.  *)
IsValue(tok) == tok.type = "primitive" \/ (tok.type = "string" /\ tok.size = 0)

Chars(tok) ==
    CASE tok.type = "primitive"             -> 1
      [] tok.type = "string" /\ IsValue(tok) -> 2
      [] tok.type = "string"                -> Len(tok.text) + 3
      [] OTHER                              -> 2 + (IF tok.size > 0 THEN tok.size - 1 ELSE 0)

(* strlen of the shortest response with these tokens: its values are empty *)
(* strings and single digits, and it has no white space.                   *)
Shortest(toks) == FoldLeft(LAMBDA sum, tok : sum + Chars(tok), 0, toks)

(* The token arrays such responses are given, strlen / 4 tokens: one for   *)
(* the shortest, and those around the number of its tokens that a response *)
(* with longer values is given.                                            *)
TokenSizes(toks) ==
    LET least == Shortest(toks) \div 4
    IN  {least} \cup { room \in (Len(toks) - 1)..(Len(toks) + 1) :
                          room >= least /\ \E n \in 1..Len(toks) : IsValue(toks[n]) }

Received(docs) ==
    UNION { { [api |-> d.api, toks |-> d.toks, cap |-> room] : room \in TokenSizes(d.toks) }
          : d \in docs }

-----------------------------------------------------------------------------
(* GET chainmeta: every subset of the members in every order. *)
EpochKeys == {"num", "height", "gravityChainStartHeight"}
ChainKeys == {"height", "numActions", "tps", "tpsFloat", "epoch"}

ChainToks(outer, inner) ==
    << Object(Len(outer)) >> \o
    Body(outer, LAMBDA k :
        IF k = "epoch"
        THEN Nested(k, Len(inner), Body(inner, LAMBDA j : Member(0, "epoch", j)))
        ELSE Member(0, "chain_meta", k))

ChainDoc(outer, inner) == Doc("chain_meta", ChainToks(outer, inner))

HeightBeforeEpoch(outer) ==
    \A a, b \in 1..Len(outer) : outer[a] = "epoch" /\ outer[b] = "height" => b < a

EndsInEmptyEpoch(outer, inner) ==
    inner = << >> /\ outer # << >> /\ Last(outer) = "epoch"

(* The layouts the scan is sound for. *)
ChainDocs ==
    Received({ ChainDoc(oi[1], oi[2]) : oi \in
        { oi \in Orders(ChainKeys) \X Orders(EpochKeys) :
            HeightBeforeEpoch(oi[1]) /\ ~ EndsInEmptyEpoch(oi[1], oi[2]) } })

(* An empty object behind everything else. *)
EmptyEpochDocs ==
    Received({ ChainDoc(outer, << >>) : outer \in
        { o \in Orders({"height", "tps", "epoch"}) : EndsInEmptyEpoch(o, << >>) } })

(* Any JSON object with those members. *)
AnyChainDocs ==
    Received({ ChainDoc(outer, <<"num", "height", "gravityChainStartHeight">>) :
        outer \in SetToSeqs(ChainKeys) })

-----------------------------------------------------------------------------
(* GET accounts: one nested object, a member no rule knows, and an address *)
(* that is a string or something else.                                     *)
AccountMember(k, addressType) ==
    IF k = "address" THEN << Member(0, "account_meta", k)[1],
                             Token(addressType, "value", 0, NoHome) >>
    ELSE Member(0, "account_meta", k)

AccountKeys == {"address", "balance", "nonce", "pendingNonce", "unknown"}

AccountDocs ==
    Received({ Doc("account",
                   << Object(1) >> \o Nested("accountMeta", Len(ks),
                                             Body(ks, LAMBDA k : AccountMember(k, ty)))) :
        ks \in Orders(AccountKeys) \ {<< >>}, ty \in {"string", "primitive"} })

-----------------------------------------------------------------------------
(* GET actions: a list of action objects. *)
Action(e, act, core) ==
    Nested("action", Len(act),
        Body(act, LAMBDA k :
            IF k = "core"
            THEN Nested(k, Len(core),
                    Body(core, LAMBDA j :
                        IF j = "transfer"
                        THEN Nested(j, 2, Member(e, "core_transfer", "amount") \o
                                          Member(e, "core_transfer", "recipient"))
                        ELSE Member(e, "action_core", j)))
            ELSE Member(e, "action", k)))

ActionInfo(e, info, act, core) ==
    << Object(Len(info)) >> \o
    Body(info, LAMBDA k : IF k = "action" THEN Action(e, act, core)
                          ELSE Member(e, "action_info", k))

ActionsDoc(top, elements) ==
    Doc("actions",
        << Object(Len(top)) >> \o
        Body(top, LAMBDA k :
            IF k = "total" THEN Member(0, "actions", k)
            ELSE << Token("string", k, 1, NoHome), Array(Len(elements)) >>
                 \o FlattenSeq(elements)))

AllInfo == <<"action", "actHash", "blkHash", "blkHeight", "sender", "gasFee", "timestamp">>
AllAct  == <<"core", "senderPubKey", "signature">>
AllCore == <<"version", "nonce", "gasLimit", "gasPrice", "transfer">>

(* Elements with the same members, each in an order of its own. *)
ActionsDocs == Received(
    { ActionsDoc(top, [e \in 1..n |-> ActionInfo(e, AllInfo, AllAct, AllCore)]) :
        top \in {<<"total", "actionInfo">>, <<"actionInfo", "total">>}, n \in 1..3 }
    \cup
    { ActionsDoc(<<"total", "actionInfo">>,
                 << ActionInfo(1, i, a, c),
                    ActionInfo(2, <<"sender", "action", "actHash">>,
                               <<"core", "signature">>, <<"transfer", "nonce">>) >>) :
        i \in SetToSeqs({"action", "actHash", "sender"}),
        a \in SetToSeqs({"core", "signature"}), c \in SetToSeqs({"transfer", "nonce"}) })

(* Elements that leave members out, as protobuf's JSON does with defaults. *)
RaggedActionsDocs == Received(
    { ActionsDoc(<<"total", "actionInfo">>,
                 << << Object(Len(x)) >> \o Body(x, LAMBDA k : Member(1, "action_info", k)),
                    << Object(Len(y)) >> \o Body(y, LAMBDA k : Member(2, "action_info", k)) >>) :
        x \in Orders({"actHash", "sender", "gasFee"}) \ {<< >>},
        y \in Orders({"actHash", "sender", "gasFee"}) \ {<< >>} })

-----------------------------------------------------------------------------
(* GET validators: the root is the array. *)
Validator(e, ks, ds) ==
    << Object(Len(ks)) >> \o
    Body(ks, LAMBDA k :
        IF k = "details"
        THEN Nested(k, Len(ds),
                Body(ds, LAMBDA d :
                    IF d = "reward" THEN Nested(d, 1, Member(e, "reward", "annual"))
                    ELSE Member(e, "details", d)))
        ELSE Member(e, "validator", k))

ValidatorsDoc(elements) ==
    Doc("validators", << Array(Len(elements)) >> \o FlattenSeq(elements))

ValidatorsDocs == Received(
    { ValidatorsDoc([e \in 1..n |-> Validator(e, ks, ds)]) :
        n \in 1..3, ks \in SetToSeqs({"id", "status", "details"}),
        ds \in SetToSeqs({"locktime", "minimum_amount", "reward"}) })

-----------------------------------------------------------------------------
(* A read_contract and a post response, and the empty object. *)
FlatDocs ==
    Received({ Doc("contract", << Object(1) >> \o Member(0, "contract", "data")),
               Doc("hash", << Object(1) >> \o Member(0, "hash", "actionHash")),
               Doc("hash", << Object(1) >> \o Member(0, "hash", "error")) })

(* Lists without elements.  The array alone, [], is given no token at all. *)
EmptyListDocs ==
    Received({ ActionsDoc(<<"actionInfo">>, << >>),
               ActionsDoc(<<"total", "actionInfo">>, << >>), ValidatorsDoc(<< >>) })

=============================================================================
