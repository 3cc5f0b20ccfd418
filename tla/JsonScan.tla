------------------------------- MODULE JsonScan -------------------------------
(***************************************************************************)
(* json_parse_response of src/parse.c: a recursive scan of the token array *)
(* that jsmn_parse filled, driven by the rule tables of JsonRules.  The    *)
(* activation records of json_parse_object and json_parse_array are kept   *)
(* in the stack frames (the running one first), and one action is one      *)
(* iteration, call or return of the C code.                                *)
(*                                                                         *)
(* A document is its token array: toks, the room jsmn_parse was given for  *)
(* it (strlen / 4 tokens), and the request it answers.  A token has jsmn's *)
(* type and size and, when it is a string, its text.  home is not in the   *)
(* program: it says, for the key of a member, which field of the caller's  *)
(* data the member is meant for, and sound whether the document keeps to   *)
(* the layouts the scan is right about; only properties mention these two. *)
(***************************************************************************)
EXTENDS Integers, Sequences, JsonRules

CONSTANTS Docs,      \* the responses the server may send
          MaxSizes   \* the array sizes callers pass as max_size

ASSUME MaxSizesAssumption == MaxSizes \subseteq Nat

(* The rule lists the API functions start a scan with. *)
Requests == {"chain_meta", "account", "actions", "validators", "hash", "contract"}

ASSUME DocsAssumption ==
    \A d \in Docs :
        /\ d.api \in Requests
        /\ d.cap \in Nat
        /\ Len(d.toks) \in Nat
        /\ \A k \in 1..Len(d.toks) : d.toks[k].size \in Nat

NoHome == << >>
Unset  == -1

Undefined == [type |-> "undefined", text |-> "", size |-> 0, home |-> NoHome]

VARIABLES doc, max_size,
          pc,            \* where json_parse_response stands
          frames,        \* its activation records, the innermost first
          bound,         \* the array element the rules point into, 0 for none
          store,         \* destination field -> index of the token stored there
          actual_size    \* *array_actual_size

vars == <<doc, max_size, pc, frames, bound, store, actual_size>>

Total == Len(doc.toks)

(* The token array is calloc'ed: behind the parsed tokens it holds zeroes. *)
Tok(k) == IF k < Total THEN doc.toks[k + 1] ELSE Undefined

Readable(k) == k \in 0..(doc.cap - 1)

ObjectFrame(l, base, count) ==
    [kind |-> "object", list |-> l, base |-> base, count |-> count,
     i |-> 0, rule |-> 1, processed |-> 0]

ArrayFrame(l, base, size, window) ==
    [kind |-> "array", list |-> l, base |-> base, size |-> size,
     window |-> window, i |-> 0, processed |-> 0]

-----------------------------------------------------------------------------
Init ==
    /\ doc \in Docs
    /\ max_size \in MaxSizes
    /\ pc = "tokenize"
    /\ frames = << >>
    /\ bound = 0
    /\ store = << >>
    /\ actual_size = Unset

Stop(status) ==
    /\ pc' = status
    /\ UNCHANGED <<doc, max_size, frames, bound, store, actual_size>>

(* int division truncates toward zero. *)
Quotient(a, b) == IF a >= 0 THEN a \div b ELSE -((-a) \div b)

(* The entry of json_parse_array: an empty array divides by zero, an array *)
(* whose first element is not an object, or a rule that is not an array of *)
(* objects, is refused.                                                    *)
CallArray(rule, base, count, size, stack) ==
    IF size = 0 THEN Stop("crashed")
    ELSE IF ~ Readable(base) THEN Stop("wild")
    ELSE IF Tok(base).type # "object" \/ rule.type # "ARRAY" THEN Stop("failed")
    ELSE /\ frames' = << ArrayFrame(rule.sub, base, size, Quotient(count, size)) >> \o stack
         /\ pc' = "scan"
         /\ UNCHANGED <<doc, max_size, bound, store, actual_size>>

(* Mutant: a document that needs every token of the array is refused.      *)
TokenizeStrict ==
    /\ pc = "tokenize"
    /\ IF Total >= doc.cap \/ Total < 1 THEN Stop("failed")
       ELSE CASE Tok(0).type = "object" ->
                     /\ frames' = << ObjectFrame(doc.api, 0, Total - 1) >>
                     /\ pc' = "scan"
                     /\ UNCHANGED <<doc, max_size, bound, store, actual_size>>
              [] Tok(0).type = "array" ->
                     CallArray(Rules[doc.api][1], 1, Total - 1, Tok(0).size, << >>)
              [] OTHER -> Stop("failed")

(* jsmn_parse fails without room for every token; the root must be an      *)
(* object or an array.                                                     *)
Tokenize ==
    /\ pc = "tokenize"
    /\ IF Total > doc.cap \/ Total < 1 THEN Stop("failed")
       ELSE CASE Tok(0).type = "object" ->
                     /\ frames' = << ObjectFrame(doc.api, 0, Total - 1) >>
                     /\ pc' = "scan"
                     /\ UNCHANGED <<doc, max_size, bound, store, actual_size>>
              [] Tok(0).type = "array" ->
                     CallArray(Rules[doc.api][1], 1, Total - 1, Tok(0).size, << >>)
              [] OTHER -> Stop("failed")

-----------------------------------------------------------------------------
Frame == Head(frames)

Scanning(kind) == pc = "scan" /\ frames # << >> /\ Frame.kind = kind

(* i < tok_count compares a size_t with an int: a negative count is huge.  *)
InWindow == Frame.count < 0 \/ Frame.i < Frame.count

At == Frame.base + Frame.i

KeyRules == Keyed(Frame.list)

Matches(n) == Tok(At).type = "string" /\ Tok(At).text = KeyRules[n].key

(* The rule loop reads a token behind the token array: the one it compares *)
(* with the keys, or the value that follows a key it found.                *)
RunsWild ==
    /\ Scanning("object") /\ InWindow
    /\ Frame.rule <= Len(KeyRules)
    /\ \/ ~ Readable(At)
       \/ ~ Readable(At + 1) /\ \E n \in Frame.rule..Len(KeyRules) : Matches(n)
    /\ Stop("wild")

(* Mutant: the loop forgets to advance.                                    *)
SkipTokenStuck ==
    /\ Scanning("object") /\ InWindow
    /\ Frame.rule <= Len(KeyRules) => Readable(At)
    /\ \A n \in Frame.rule..Len(KeyRules) : ~ Matches(n)
    /\ frames' = [frames EXCEPT ![1].rule = 1]
    /\ UNCHANGED <<doc, max_size, pc, bound, store, actual_size>>

(* No further rule has the token's text: go to the next token. *)
SkipToken ==
    /\ Scanning("object") /\ InWindow
    /\ Frame.rule <= Len(KeyRules) => Readable(At)
    /\ \A n \in Frame.rule..Len(KeyRules) : ~ Matches(n)
    /\ frames' = [frames EXCEPT ![1].i = @ + 1, ![1].rule = 1]
    /\ UNCHANGED <<doc, max_size, pc, bound, store, actual_size>>

(* The next rule that has the token's text, and the token after the key.   *)
Hit(n) ==
    /\ Scanning("object") /\ InWindow /\ Readable(At) /\ Readable(At + 1)
    /\ n \in Frame.rule..Len(KeyRules) /\ Matches(n)
    /\ \A m \in Frame.rule..(n - 1) : ~ Matches(m)

Value == Tok(At + 1)

(* rule->value and rule->value_len of rule n of the running list. *)
Binding(n) ==
    LET r == KeyRules[n] IN
    IF r.fixed THEN [key |-> r.key, sized |-> r.type # "ARRAY" \/ max_size # 0]
    ELSE IF bound = 0 THEN NotBound
    ELSE LET b == array_element_bind(IF Frame.list \in DOMAIN ActionInfoBindings
                                     THEN "action_info" ELSE "validator")
         IN  b[Frame.list][n]

Destination(n) ==
    <<IF KeyRules[n].fixed THEN 0 ELSE bound, Frame.list, Binding(n).key>>

(* The guards of the cases of the switch: the type of the value, and a     *)
(* pointer to store it at, with a length where the case copies or loops.   *)
ValueTypes ==
    [ STR |-> {"string"}, DOUBLE |-> {"primitive"}, ARRAY |-> {"array"}, OBJECT |-> {"object"},
      NUMBER   |-> {"string", "primitive"}, NUMBER32 |-> {"string", "primitive"},
      NUMBER64 |-> {"string", "primitive"}, BOOLEAN  |-> {"string", "primitive"} ]

HasRoom(binding, type) ==
    binding # NotBound /\ (type \in {"STR", "ARRAY"} => binding.sized)

Accepts(n) ==
    /\ Value.type \in ValueTypes[KeyRules[n].type]
    /\ IF KeyRules[n].type = "OBJECT" THEN KeyRules[n].sub # NoList
       ELSE HasRoom(Binding(n), KeyRules[n].type)

Scalar(n) == KeyRules[n].type \notin {"ARRAY", "OBJECT"}

Put(f, d, v) == [x \in DOMAIN f \cup {d} |-> IF x = d THEN v ELSE f[x]]

StoreScalar ==
    Scanning("object") /\ \E n \in 1..Len(KeyRules) :
        /\ Hit(n) /\ Scalar(n) /\ Accepts(n)
        /\ store' = Put(store, Destination(n), At + 1)
        /\ frames' = [frames EXCEPT ![1].processed = @ + 2, ![1].rule = n + 1]
        /\ UNCHANGED <<doc, max_size, pc, bound, actual_size>>

(* The value has another type than the rule: the member is passed over.    *)
IgnoreMember ==
    Scanning("object") /\ \E n \in 1..Len(KeyRules) :
        /\ Hit(n) /\ ~ Accepts(n)
        /\ frames' = [frames EXCEPT ![1].rule = n + 1]
        /\ UNCHANGED <<doc, max_size, pc, bound, store, actual_size>>

(* Mutant: the key and the container's own token are not taken off.        *)
CountLeftUncut == Frame.count - Frame.i

(* The tokens the callee may read: all that the caller's window has left.  *)
CountLeft == Frame.count - Frame.i - 2

EnterObject ==
    Scanning("object") /\ \E n \in 1..Len(KeyRules) :
        /\ Hit(n) /\ KeyRules[n].type = "OBJECT" /\ Accepts(n)
        /\ frames' = << ObjectFrame(KeyRules[n].sub, At + 2, CountLeft) >>
                     \o [frames EXCEPT ![1].rule = n]
        /\ UNCHANGED <<doc, max_size, pc, bound, store, actual_size>>

EnterArray ==
    Scanning("object") /\ \E n \in 1..Len(KeyRules) :
        /\ Hit(n) /\ KeyRules[n].type = "ARRAY" /\ Accepts(n)
        /\ CallArray(KeyRules[n], At + 2, CountLeft, Value.size,
                     [frames EXCEPT ![1].rule = n])

(* Mutants: every element is bound to the first slot of the caller's       *)
(* array; the size of that array is not looked at.                         *)
EnterElementSameSlot ==
    /\ Scanning("array")
    /\ Frame.i < Frame.size /\ Frame.i < max_size
    /\ bound' = 1
    /\ frames' = << ObjectFrame(Frame.list, Frame.base + 1, Frame.window) >> \o frames
    /\ UNCHANGED <<doc, max_size, pc, store, actual_size>>

EnterElementUnbounded ==
    /\ Scanning("array")
    /\ Frame.i < Frame.size
    /\ bound' = Frame.i + 1
    /\ frames' = << ObjectFrame(Frame.list, Frame.base + 1, Frame.window) >> \o frames
    /\ UNCHANGED <<doc, max_size, pc, store, actual_size>>

(* Bind the next element and scan it with the average element's window.    *)
EnterElement ==
    /\ Scanning("array")
    /\ Frame.i < Frame.size /\ Frame.i < max_size
    /\ IF array_element_bind(Frame.list) = BindFailed THEN Stop("failed")
       ELSE /\ bound' = Frame.i + 1
            /\ frames' = << ObjectFrame(Frame.list, Frame.base + 1, Frame.window) >> \o frames
            /\ UNCHANGED <<doc, max_size, pc, store, actual_size>>

-----------------------------------------------------------------------------
(* A call returns the number of tokens it processed; its caller goes on    *)
(* behind them, and the outermost caller compares them with the total.     *)
ReturnToObject(ret, rest) ==
    /\ rest # << >> /\ Head(rest).kind = "object"
    /\ frames' = [rest EXCEPT ![1].i = @ + ret + 1, ![1].rule = @ + 1,
                              ![1].processed = @ + ret + 2]
    /\ pc' = pc

ReturnToArray(ret, rest) ==
    /\ rest # << >> /\ Head(rest).kind = "array"
    /\ frames' = [rest EXCEPT ![1].base = @ + ret + 1, ![1].i = @ + 1,
                              ![1].processed = @ + ret + 1]
    /\ pc' = pc

(* Mutant: whatever was processed counts as success.                       *)
ReturnToCallerUnchecked(ret, rest) ==
    /\ rest = << >>
    /\ frames' = << >>
    /\ pc' = "ok"

ReturnToCaller(ret, rest) ==
    /\ rest = << >>
    /\ frames' = << >>
    /\ pc' = IF ret = Total - 1 THEN "ok" ELSE "failed"

Return(ret) ==
    \/ ReturnToObject(ret, Tail(frames))
    \/ ReturnToArray(ret, Tail(frames))
    \/ ReturnToCaller(ret, Tail(frames))

LeaveObject ==
    /\ Scanning("object") /\ ~ InWindow
    /\ Return(Frame.processed)
    /\ UNCHANGED <<doc, max_size, bound, store, actual_size>>

(* Only the validators rule has an array_actual_size to update. *)
LeaveArray ==
    /\ Scanning("array")
    /\ Frame.i >= Frame.size \/ Frame.i >= max_size
    /\ actual_size' = IF Frame.list = "validator" THEN Frame.size ELSE actual_size
    /\ Return(Frame.processed)
    /\ UNCHANGED <<doc, max_size, bound, store>>

Done == pc \in {"ok", "failed", "crashed", "wild"}

Finished == Done /\ UNCHANGED vars

Next ==
    \/ Tokenize \/ RunsWild \/ SkipToken \/ StoreScalar \/ IgnoreMember
    \/ EnterObject \/ EnterArray \/ EnterElement \/ LeaveObject \/ LeaveArray
    \/ Finished

Spec == Init /\ [][Next]_vars /\ WF_vars(Next)

-----------------------------------------------------------------------------
(* What the rules say of every document: a field of the caller's data only *)
(* receives the value that follows its own key, in its own object and its  *)
(* own array element (parse.c:15 binds by the key's name alone).           *)
StoredAtHome == \A d \in DOMAIN store : Tok(store[d] - 1).home = d

(* In a sound layout neither a sibling of a nested object nor a            *)
(* neighbouring element leaks into a field: the windows of parse.c:101,    *)
(* 130, 223 and the binding of rule.c:55 keep them apart.                  *)
SoundStoredAtHome == doc.sound => StoredAtHome

(* Whatever the layout of the document: the value a field receives follows *)
(* a key of the field's name (parse.c:15 and the binding of rule.c:21),    *)
(* and the field is in an element of the caller's array (parse.c:243).     *)
StoredUnderKey == \A d \in DOMAIN store : Tok(store[d] - 1).text = d[3] /\ d[1] <= max_size

Homes == { Tok(k).home : k \in 0..(Total - 1) } \ {NoHome}

(* A parse that reports success has filled the field of every member of    *)
(* the document: the processed-token count of parse.c:320, 329 leaves no   *)
(* member out, known or unknown.                                           *)
SuccessIsComplete == doc.sound /\ pc = "ok" => Homes = DOMAIN store

(* json_parse_response returns (0 or -1, parse.c:279): it neither divides  *)
(* by zero nor scans past the token array.                                 *)
Returns == pc \notin {"crashed", "wild"}

(* In a sound layout it does return. *)
SoundReturns == doc.sound => Returns

(* The member whose key is token k has a rule, a value of the rule's type  *)
(* and, in a list, an element of the caller's array to go to.              *)
MemberFits(k) ==
    LET h == Tok(k).home IN
    /\ h[1] <= max_size
    /\ \E n \in 1..Len(Keyed(h[2])) :
          LET r == Keyed(h[2])[n] IN
          /\ r.key = h[3]
          /\ r.type \in {"STR"} => Tok(k + 1).type = "string"
          /\ r.type \in {"DOUBLE"} => Tok(k + 1).type = "primitive"

Fits == /\ Total <= doc.cap
        /\ \A k \in 0..(Total - 1) : Tok(k).home # NoHome => MemberFits(k)

(* Exactly the documents that hold known members only, fit the caller's    *)
(* array and fit the token array are accepted.                             *)
AcceptsExactlyFitting == doc.sound /\ Done => (pc = "ok" <=> Fits)

(* Every scan comes to an end (the window loops of parse.c:72, 243).       *)
Terminates == <>Done

=============================================================================
