--------------------------- MODULE JsonScan_proofs ---------------------------
(***************************************************************************)
(* What the scan of a response promises of every document, sound or not:   *)
(* the types of its activation records, how deep it calls itself, which    *)
(* element of the caller's array the rules point into, and that a field    *)
(* only receives a value that follows a key of its name.                   *)
(***************************************************************************)
EXTENDS JsonScan, WellFoundedInduction, SequenceTheorems, TLAPS

(* The lists whose rules point into an element of the caller's array. *)
ElementLists == DOMAIN ActionInfoBindings \cup DOMAIN ValidatorBindings

(* How many objects and arrays deep the rules of a list reach. *)
Rank ==
    [ chain_meta    |-> 2, epoch     |-> 1, account     |-> 2, account_meta |-> 1,
      actions       |-> 6, action_info |-> 4, action    |-> 3, action_core  |-> 2,
      core_transfer |-> 1, validators  |-> 1, validator |-> 3, details      |-> 2,
      reward        |-> 1, hash        |-> 1, contract  |-> 1 ]

MaxDepth == 6

ObjectFrames == [kind : {"object"}, list : Lists, base : Nat, count : Int,
                 i : Nat, rule : Nat \ {0}, processed : Nat]

ArrayFrames == [kind : {"array"}, list : {"action_info", "validator"}, base : Nat,
                size : Nat, window : Int, i : Nat, processed : Nat]

Frames == ObjectFrames \cup ArrayFrames

TypeOK ==
    /\ doc \in Docs
    /\ max_size \in MaxSizes
    /\ pc \in {"tokenize", "scan", "ok", "failed", "crashed", "wild"}
    /\ frames \in Seq(Frames)
    /\ pc = "tokenize" => frames = << >>
    /\ bound \in 0..max_size
    /\ \A d \in DOMAIN store : store[d] \in Nat
    /\ actual_size \in Nat \cup {Unset}

Level(f) == IF f.kind = "array" THEN Rank[f.list] + 1 ELSE Rank[f.list]

(* The stack fs of activation records, with the rules bound to element b:  *)
(* each record is of a lower level than its caller; there is one array     *)
(* scan at most, the rules point into the element it is at, and the lists  *)
(* of element rules are only scanned inside it.                            *)
StackOK(fs, b) ==
    /\ \A k \in 1..Len(fs) : Level(fs[k]) + Len(fs) - k <= MaxDepth
    /\ \A j, k \in 1..Len(fs) : fs[j].kind = "array" /\ fs[k].kind = "array" => j = k
    /\ \A k \in 2..Len(fs) : fs[k].kind = "array" => b = fs[k].i + 1
    /\ \A k \in 1..Len(fs) : fs[k].kind = "object" /\ fs[k].list \in ElementLists =>
            \E j \in (k + 1)..Len(fs) : fs[j].kind = "array"

(* Every call of the scan is of a lower level than its caller, so the      *)
(* recursion of parse.c:130, 148, 253 is bounded by the rule tables,       *)
(* however deep the response is nested.                                    *)
RecursionBounded == Len(frames) <= MaxDepth

(* While an element of an array is scanned, the rules point into the       *)
(* caller's element of the same index (parse.c:247).                       *)
BoundIsElement ==
    \A k \in 2..Len(frames) : frames[k].kind = "array" => bound = frames[k].i + 1

(* A field of an element is only written while the array is scanned and is *)
(* at this element: no other element's member reaches it.                  *)
WrittenInElement ==
    [][ \A d \in DOMAIN store' :
            \/ d \in DOMAIN store /\ store'[d] = store[d]
            \/ d[1] = 0
            \/ \E k \in 2..Len(frames) : frames[k].kind = "array" /\ d[1] = frames[k].i + 1 ]_vars

-----------------------------------------------------------------------------
(* The rule tables.                                                        *)
LEMMA ListNames ==
    /\ Lists = { "chain_meta", "epoch", "account", "account_meta", "actions", "action_info",
                 "action", "action_core", "core_transfer", "validators", "validator",
                 "details", "reward", "hash", "contract" }
    /\ ElementLists = { "action_info", "action", "action_core", "core_transfer",
                        "validator", "details", "reward" }
    /\ DOMAIN ActionInfoBindings = { "action_info", "action", "action_core", "core_transfer" }
    /\ DOMAIN ValidatorBindings = { "validator", "details", "reward" }
    /\ \A l \in Lists : Rank[l] \in 1..MaxDepth
  BY DEF Lists, Rules, ElementLists, ActionInfoBindings, ValidatorBindings, Rank, MaxDepth

(* What the proofs need of rule n of list l. *)
RuleFits(l, n) ==
    LET r == Keyed(l)[n] IN
    /\ r.type = "OBJECT" /\ r.sub # NoList =>
            /\ r.sub \in Lists /\ Rank[r.sub] < Rank[l]
            /\ r.sub \in ElementLists => l \in ElementLists
    /\ r.type = "ARRAY" => l = "actions" /\ r.sub = "action_info"
    /\ ~ r.fixed /\ r.type \notin {"OBJECT", "ARRAY"} => l \in ElementLists

LEMMA RulesFit ==
    ASSUME NEW l \in Lists
    PROVE  /\ Len(Keyed(l)) \in Nat
           /\ \A n \in 1..Len(Keyed(l)) : RuleFits(l, n)
  <1> USE DEF Keyed, Rules, RuleFits, Rule, Fixed, Unbound, Sub, NoList, Rank
  <1>1. CASE l = "chain_meta"    BY <1>1, ListNames DEF ChainMetaRules
  <1>2. CASE l = "epoch"         BY <1>2, ListNames DEF EpochRules
  <1>3. CASE l = "account"       BY <1>3, ListNames DEF AccountRules
  <1>4. CASE l = "account_meta"  BY <1>4, ListNames DEF AccountMetaRules
  <1>5. CASE l = "actions"       BY <1>5, ListNames DEF ActionsTopRules
  <1>6. CASE l = "action_info"   BY <1>6, ListNames DEF ActionInfoRules
  <1>7. CASE l = "action"        BY <1>7, ListNames DEF ActionRules
  <1>8. CASE l = "action_core"   BY <1>8, ListNames DEF ActionCoreRules
  <1>9. CASE l = "core_transfer" BY <1>9, ListNames DEF CoreTransferRules
  <1>10. CASE l = "validators"   BY <1>10, ListNames
  <1>11. CASE l = "validator"    BY <1>11, ListNames DEF ValidatorRules
  <1>12. CASE l = "details"      BY <1>12, ListNames DEF DetailsRules
  <1>13. CASE l = "reward"       BY <1>13, ListNames DEF RewardRules
  <1>14. CASE l = "hash"         BY <1>14, ListNames DEF HashRules
  <1>15. CASE l = "contract"     BY <1>15, ListNames DEF ContractRules
  <1> QED
    BY <1>1, <1>2, <1>3, <1>4, <1>5, <1>6, <1>7, <1>8, <1>9, <1>10, <1>11, <1>12, <1>13,
       <1>14, <1>15, ListNames

-----------------------------------------------------------------------------
(* The first and the last index of a set of indices are in it.             *)
LEMMA FirstIsIn ==
    ASSUME NEW S, S \subseteq Nat, S # {}
    PROVE  /\ FirstOf(S) \in S
           /\ \A m \in S : FirstOf(S) <= m
  <1> DEFINE less == OpToRel(<, Nat)
  <1>1. less = { ss \in Nat \X Nat : ss[1] < ss[2] }
    BY Zenon DEF OpToRel
  <1>2. IsWellFoundedOn(less, Nat)
    BY NatLessThanWellFounded
  <1> HIDE DEF less
  <1>3. PICK n \in S : \A m \in S : ~ (<<m, n>> \in less)
    BY <1>2, WFMin
  <1>4. \A m \in S : n <= m
    <2> TAKE m \in S
    <2>1. m \in Nat /\ n \in Nat
      OBVIOUS
    <2>2. <<m, n>> \in Nat \X Nat /\ ~ (m < n)
      <3>1. <<m, n>> \in Nat \X Nat
        BY <2>1
      <3>2. <<m, n>> \notin less
        BY <1>3
      <3> QED BY <1>1, <3>1, <3>2
    <2> QED BY <2>1, <2>2
  <1> QED BY <1>3, <1>4 DEF FirstOf

LEMMA LastIsIn ==
    ASSUME NEW k \in Nat, NEW S, S \subseteq 1..k, S # {}
    PROVE  LastOf(S) \in S
  <1> DEFINE T == { k - n : n \in S }
  <1>1. T \subseteq Nat /\ T # {}
    OBVIOUS
  <1>2. PICK t \in T : \A m \in T : t <= m
    BY <1>1, FirstIsIn
  <1>3. PICK n \in S : t = k - n
    BY <1>2
  <1>4. \A m \in S : m <= n
    <2> TAKE m \in S
    <2>1. k - m \in T OBVIOUS
    <2>2. t <= k - m BY <2>1, <1>2
    <2>3. n \in Nat /\ m \in Nat OBVIOUS
    <2> QED BY <2>2, <2>3, <1>3
  <1>5. \E j \in S : \A m \in S : m <= j
    BY <1>4
  <1> QED BY <1>5 DEF LastOf

-----------------------------------------------------------------------------
(* The bindings (rule.c).  find_rule_by_key finds by prefix: the rule with *)
(* the key itself when no rule before it has a longer key.                 *)
LEMMA FoundIn ==
    ASSUME NEW l \in Lists, NEW key
    PROVE  /\ \/ find_rule_by_key(l, key) = 0
              \/ /\ find_rule_by_key(l, key) \in 1..Len(Keyed(l))
                 /\ IsKeyPrefix(key, Keyed(l)[find_rule_by_key(l, key)].key)
           /\ \A m \in 1..Len(Keyed(l)) : IsKeyPrefix(key, Keyed(l)[m].key) =>
                /\ find_rule_by_key(l, key) # 0
                /\ find_rule_by_key(l, key) <= m
  <1> DEFINE hits == { n \in 1..Len(Keyed(l)) : IsKeyPrefix(key, Keyed(l)[n].key) }
  <1>1. find_rule_by_key(l, key) = FirstOf(hits)
    BY DEF find_rule_by_key
  <1>2. CASE hits = {}
    <2>1. FirstOf(hits) = 0
      BY <1>2 DEF FirstOf
    <2>2. \A m \in 1..Len(Keyed(l)) : ~ IsKeyPrefix(key, Keyed(l)[m].key)
      BY <1>2
    <2> HIDE DEF hits
    <2> QED BY <1>1, <2>1, <2>2
  <1>3. CASE hits # {}
    <2>1. hits \subseteq Nat
      BY RulesFit
    <2>2. FirstOf(hits) \in hits /\ \A m \in hits : FirstOf(hits) <= m
      BY <1>3, <2>1, FirstIsIn
    <2>3. hits \subseteq 1..Len(Keyed(l)) /\ \A n \in hits : IsKeyPrefix(key, Keyed(l)[n].key)
      OBVIOUS
    <2>4. \A m \in 1..Len(Keyed(l)) : IsKeyPrefix(key, Keyed(l)[m].key) => m \in hits
      OBVIOUS
    <2> HIDE DEF hits
    <2>5. FirstOf(hits) # 0
      <3>1. Len(Keyed(l)) \in Nat BY RulesFit
      <3>2. FirstOf(hits) \in 1..Len(Keyed(l)) BY <2>2, <2>3
      <3> QED BY <3>1, <3>2
    <2> QED BY <1>1, <2>2, <2>3, <2>4, <2>5
  <1> QED BY <1>2, <1>3

LEMMA FoundFirst ==
    ASSUME NEW l \in Lists, NEW key, NEW n \in 1..Len(Keyed(l)),
           IsKeyPrefix(key, Keyed(l)[n].key),
           \A m \in 1..Len(Keyed(l)) : m < n => ~ IsKeyPrefix(key, Keyed(l)[m].key)
    PROVE  find_rule_by_key(l, key) = n
  <1>1. Len(Keyed(l)) \in Nat
    BY RulesFit
  <1> QED BY <1>1, FoundIn

(* The callbacks find the sub lists they go through.                       *)
LEMMA BindSucceeds ==
    /\ rule_action_info_bind = bind_rule_and_data(ActionInfoBindings)
    /\ rule_validator_bind = bind_rule_and_data(ValidatorBindings)
  <1>1. find_sub_rule_by_key("action_info", "action") = "action"
    <2>1. /\ Len(Keyed("action_info")) = 7
          /\ Keyed("action_info")[1].key = "action"
          /\ Keyed("action_info")[1].sub = "action"
      BY DEF Keyed, Rules, Rule, Fixed, Unbound, Sub, NoList, ActionInfoRules
    <2>2. find_rule_by_key("action_info", "action") = 1
      BY <2>1, FoundFirst, ListNames DEF IsKeyPrefix, ProperPrefix
    <2> QED BY <2>1, <2>2 DEF find_sub_rule_by_key
  <1>2. find_sub_rule_by_key("action", "core") = "action_core"
    <2>1. /\ Len(Keyed("action")) = 3
          /\ Keyed("action")[1].key = "signature"
          /\ Keyed("action")[2].key = "senderPubKey"
          /\ Keyed("action")[3].key = "core"
          /\ Keyed("action")[3].sub = "action_core"
      BY DEF Keyed, Rules, Rule, Fixed, Unbound, Sub, NoList, ActionRules
    <2>2. \A m \in 1..Len(Keyed("action")) : m < 3 => ~ IsKeyPrefix("core", Keyed("action")[m].key)
      <3> TAKE m \in 1..Len(Keyed("action"))
      <3> HAVE m < 3
      <3>1. m = 1 \/ m = 2
        BY <2>1
      <3> QED BY <2>1, <3>1 DEF IsKeyPrefix, ProperPrefix
    <2>3. IsKeyPrefix("core", Keyed("action")[3].key) /\ 3 \in 1..Len(Keyed("action"))
      BY <2>1 DEF IsKeyPrefix
    <2>4. find_rule_by_key("action", "core") = 3
      BY <2>2, <2>3, FoundFirst, ListNames
    <2> QED BY <2>1, <2>4 DEF find_sub_rule_by_key
  <1>3. find_sub_rule_by_key("action_core", "transfer") = "core_transfer"
    <2>1. /\ Len(Keyed("action_core")) = 5
          /\ Keyed("action_core")[1].key = "nonce"
          /\ Keyed("action_core")[2].key = "version"
          /\ Keyed("action_core")[3].key = "gasLimit"
          /\ Keyed("action_core")[4].key = "gasPrice"
          /\ Keyed("action_core")[5].key = "transfer"
          /\ Keyed("action_core")[5].sub = "core_transfer"
      BY DEF Keyed, Rules, Rule, Fixed, Unbound, Sub, NoList, ActionCoreRules
    <2>2. \A m \in 1..Len(Keyed("action_core")) : m < 5 => ~ IsKeyPrefix("transfer", Keyed("action_core")[m].key)
      <3> TAKE m \in 1..Len(Keyed("action_core"))
      <3> HAVE m < 5
      <3>1. m = 1 \/ m = 2 \/ m = 3 \/ m = 4
        BY <2>1
      <3> QED BY <2>1, <3>1 DEF IsKeyPrefix, ProperPrefix
    <2>3. IsKeyPrefix("transfer", Keyed("action_core")[5].key) /\ 5 \in 1..Len(Keyed("action_core"))
      BY <2>1 DEF IsKeyPrefix
    <2>4. find_rule_by_key("action_core", "transfer") = 5
      BY <2>2, <2>3, FoundFirst, ListNames
    <2> QED BY <2>1, <2>4 DEF find_sub_rule_by_key
  <1>4. find_sub_rule_by_key("validator", "details") = "details"
    <2>1. /\ Len(Keyed("validator")) = 3
          /\ Keyed("validator")[1].key = "id"
          /\ Keyed("validator")[2].key = "status"
          /\ Keyed("validator")[3].key = "details"
          /\ Keyed("validator")[3].sub = "details"
      BY DEF Keyed, Rules, Rule, Fixed, Unbound, Sub, NoList, ValidatorRules
    <2>2. \A m \in 1..Len(Keyed("validator")) : m < 3 => ~ IsKeyPrefix("details", Keyed("validator")[m].key)
      <3> TAKE m \in 1..Len(Keyed("validator"))
      <3> HAVE m < 3
      <3>1. m = 1 \/ m = 2
        BY <2>1
      <3> QED BY <2>1, <3>1 DEF IsKeyPrefix, ProperPrefix
    <2>3. IsKeyPrefix("details", Keyed("validator")[3].key) /\ 3 \in 1..Len(Keyed("validator"))
      BY <2>1 DEF IsKeyPrefix
    <2>4. find_rule_by_key("validator", "details") = 3
      BY <2>2, <2>3, FoundFirst, ListNames
    <2> QED BY <2>1, <2>4 DEF find_sub_rule_by_key
  <1>5. find_sub_rule_by_key("details", "reward") = "reward"
    <2>1. /\ Len(Keyed("details")) = 3
          /\ Keyed("details")[1].key = "locktime"
          /\ Keyed("details")[2].key = "minimum_amount"
          /\ Keyed("details")[3].key = "reward"
          /\ Keyed("details")[3].sub = "reward"
      BY DEF Keyed, Rules, Rule, Fixed, Unbound, Sub, NoList, DetailsRules
    <2>2. \A m \in 1..Len(Keyed("details")) : m < 3 => ~ IsKeyPrefix("reward", Keyed("details")[m].key)
      <3> TAKE m \in 1..Len(Keyed("details"))
      <3> HAVE m < 3
      <3>1. m = 1 \/ m = 2
        BY <2>1
      <3> QED BY <2>1, <3>1 DEF IsKeyPrefix, ProperPrefix
    <2>3. IsKeyPrefix("reward", Keyed("details")[3].key) /\ 3 \in 1..Len(Keyed("details"))
      BY <2>1 DEF IsKeyPrefix
    <2>4. find_rule_by_key("details", "reward") = 3
      BY <2>2, <2>3, FoundFirst, ListNames
    <2> QED BY <2>1, <2>4 DEF find_sub_rule_by_key
  <1>6. rule_action_info_bind = bind_rule_and_data(ActionInfoBindings)
    BY <1>1, <1>2, <1>3, ListNames DEF rule_action_info_bind, NoList
  <1>7. rule_validator_bind = bind_rule_and_data(ValidatorBindings)
    BY <1>4, <1>5, ListNames DEF rule_validator_bind, NoList
  <1> QED BY <1>6, <1>7

LEMMA TuplesAreSeqs ==
    /\ \A a : \E S : <<a>> \in Seq(S)
    /\ \A a, b : \E S : <<a, b>> \in Seq(S)
    /\ \A a, b, c, d : \E S : <<a, b, c, d>> \in Seq(S)
    /\ \A a, b, c, d, e, f : \E S : <<a, b, c, d, e, f>> \in Seq(S)
  <1>1. \A a : <<a>> \in Seq({a})
    OBVIOUS
  <1>2. \A a, b : <<a, b>> \in Seq({a, b})
    OBVIOUS
  <1>3. \A a, b, c, d : <<a, b, c, d>> \in Seq({a, b, c, d})
    OBVIOUS
  <1>4. \A a, b, c, d, e, f : <<a, b, c, d, e, f>> \in Seq({a, b, c, d, e, f})
    OBVIOUS
  <1> QED BY <1>1, <1>2, <1>3, <1>4

(* No key a callback binds is a proper prefix of a key of the same list.   *)
Exact(bindings, l) ==
    /\ \E S : bindings[l] \in Seq(S)
    /\ \A b \in 1..Len(bindings[l]), n \in 1..Len(Keyed(l)) :
          <<bindings[l][b].key, Keyed(l)[n].key>> \notin ProperPrefix

LEMMA BoundKeysAreExact ==
    /\ \A l \in DOMAIN ActionInfoBindings : Exact(ActionInfoBindings, l)
    /\ \A l \in DOMAIN ValidatorBindings : Exact(ValidatorBindings, l)
  <1> USE DEF ActionInfoBindings, ValidatorBindings
  <1>1. Exact(ActionInfoBindings, "action_info")
    <2>1. \E S : ActionInfoBindings["action_info"] \in Seq(S)
      BY TuplesAreSeqs, Zenon
    <2>2. \A b \in 1..Len(ActionInfoBindings["action_info"]), n \in 1..Len(Keyed("action_info")) :
            <<ActionInfoBindings["action_info"][b].key, Keyed("action_info")[n].key>> \notin ProperPrefix
      BY DEF Bind, Keyed, Rules, Rule, Fixed, Unbound, Sub, ProperPrefix, NoList, ActionInfoRules
    <2> QED BY <2>1, <2>2 DEF Exact
  <1>2. Exact(ActionInfoBindings, "action")
    <2>1. \E S : ActionInfoBindings["action"] \in Seq(S)
      BY TuplesAreSeqs, Zenon
    <2>2. \A b \in 1..Len(ActionInfoBindings["action"]), n \in 1..Len(Keyed("action")) :
            <<ActionInfoBindings["action"][b].key, Keyed("action")[n].key>> \notin ProperPrefix
      BY DEF Bind, Keyed, Rules, Rule, Fixed, Unbound, Sub, ProperPrefix, NoList, ActionRules
    <2> QED BY <2>1, <2>2 DEF Exact
  <1>3. Exact(ActionInfoBindings, "action_core")
    <2>1. \E S : ActionInfoBindings["action_core"] \in Seq(S)
      BY TuplesAreSeqs, Zenon
    <2>2. \A b \in 1..Len(ActionInfoBindings["action_core"]), n \in 1..Len(Keyed("action_core")) :
            <<ActionInfoBindings["action_core"][b].key, Keyed("action_core")[n].key>> \notin ProperPrefix
      BY DEF Bind, Keyed, Rules, Rule, Fixed, Unbound, Sub, ProperPrefix, NoList, ActionCoreRules
    <2> QED BY <2>1, <2>2 DEF Exact
  <1>4. Exact(ActionInfoBindings, "core_transfer")
    <2>1. \E S : ActionInfoBindings["core_transfer"] \in Seq(S)
      BY TuplesAreSeqs, Zenon
    <2>2. \A b \in 1..Len(ActionInfoBindings["core_transfer"]), n \in 1..Len(Keyed("core_transfer")) :
            <<ActionInfoBindings["core_transfer"][b].key, Keyed("core_transfer")[n].key>> \notin ProperPrefix
      BY DEF Bind, Keyed, Rules, Rule, Fixed, Unbound, Sub, ProperPrefix, NoList, CoreTransferRules
    <2> QED BY <2>1, <2>2 DEF Exact
  <1>5. Exact(ValidatorBindings, "validator")
    <2>1. \E S : ValidatorBindings["validator"] \in Seq(S)
      BY TuplesAreSeqs, Zenon
    <2>2. \A b \in 1..Len(ValidatorBindings["validator"]), n \in 1..Len(Keyed("validator")) :
            <<ValidatorBindings["validator"][b].key, Keyed("validator")[n].key>> \notin ProperPrefix
      BY DEF Bind, Keyed, Rules, Rule, Fixed, Unbound, Sub, ProperPrefix, NoList, ValidatorRules
    <2> QED BY <2>1, <2>2 DEF Exact
  <1>6. Exact(ValidatorBindings, "details")
    <2>1. \E S : ValidatorBindings["details"] \in Seq(S)
      BY TuplesAreSeqs, Zenon
    <2>2. \A b \in 1..Len(ValidatorBindings["details"]), n \in 1..Len(Keyed("details")) :
            <<ValidatorBindings["details"][b].key, Keyed("details")[n].key>> \notin ProperPrefix
      BY DEF Bind, Keyed, Rules, Rule, Fixed, Unbound, Sub, ProperPrefix, NoList, DetailsRules
    <2> QED BY <2>1, <2>2 DEF Exact
  <1>7. Exact(ValidatorBindings, "reward")
    <2>1. \E S : ValidatorBindings["reward"] \in Seq(S)
      BY TuplesAreSeqs, Zenon
    <2>2. \A b \in 1..Len(ValidatorBindings["reward"]), n \in 1..Len(Keyed("reward")) :
            <<ValidatorBindings["reward"][b].key, Keyed("reward")[n].key>> \notin ProperPrefix
      BY DEF Bind, Keyed, Rules, Rule, Fixed, Unbound, Sub, ProperPrefix, NoList, RewardRules
    <2> QED BY <2>1, <2>2 DEF Exact
  <1> QED BY <1>1, <1>2, <1>3, <1>4, <1>5, <1>6, <1>7, ListNames

(* So a rule is bound to the field of its own key, or to none.             *)
LEMMA BoundToOwnKey ==
    ASSUME NEW bindings, NEW l \in DOMAIN bindings, l \in Lists, Exact(bindings, l),
           NEW n \in 1..Len(Keyed(l))
    PROVE  LET b == bind_rule_and_data(bindings)[l][n]
           IN  b = NotBound \/ b.key = Keyed(l)[n].key
  <1> DEFINE S == { b \in 1..Len(bindings[l]) : find_rule_by_key(l, bindings[l][b].key) = n }
             s == <<NotBound>> \o bindings[l]
  <1>1. bind_rule_and_data(bindings)[l][n] = s[1 + LastOf(S)]
    BY DEF bind_rule_and_data
  <1>2. CASE S = {}
    <2>1. LastOf(S) = 0 BY <1>2 DEF LastOf
    <2> QED BY <1>1, <2>1
  <1>3. CASE S # {}
    <2>0. PICK Z : bindings[l] \in Seq(Z)
      BY DEF Exact
    <2>1. bindings[l] \in Seq(Z \cup {NotBound}) /\ Len(bindings[l]) \in Nat
      BY <2>0, SeqMonotonic, LenProperties
    <2>2. LastOf(S) \in S
      BY <1>3, <2>1, LastIsIn
    <2> DEFINE b == LastOf(S)
    <2>3. b \in 1..Len(bindings[l]) /\ find_rule_by_key(l, bindings[l][b].key) = n
      BY <2>2
    <2>4. IsKeyPrefix(bindings[l][b].key, Keyed(l)[n].key)
      BY <2>3, FoundIn, RulesFit
    <2>5. bindings[l][b].key = Keyed(l)[n].key
      BY <2>3, <2>4 DEF Exact, IsKeyPrefix
    <2>6. s[1 + b] = bindings[l][b]
      BY <2>1, <2>3
    <2> QED BY <1>1, <2>5, <2>6
  <1> QED BY <1>2, <1>3

-----------------------------------------------------------------------------
(* The stack of activation records.                                        *)
LEMMA Pushed ==
    ASSUME NEW S, NEW s \in Seq(S), NEW f \in S
    PROVE  LET t == <<f>> \o s
           IN  /\ t \in Seq(S) /\ Len(t) = Len(s) + 1
               /\ t[1] = f /\ \A k \in 1..Len(s) : t[k + 1] = s[k]
  <1>1. <<f>> \in Seq(S) /\ Len(<<f>>) = 1 /\ <<f>>[1] = f /\ Len(s) \in Nat
    BY LenProperties
  <1> QED BY <1>1, ConcatProperties

LEMMA Retopped ==
    ASSUME NEW S, NEW s \in Seq(S), s # << >>, NEW f \in S
    PROVE  LET t == [s EXCEPT ![1] = f]
           IN  /\ t \in Seq(S) /\ Len(t) = Len(s)
               /\ t[1] = f /\ \A k \in 2..Len(s) : t[k] = s[k]
  <1>1. Len(s) \in Nat \ {0}
    BY EmptySeq
  <1> QED BY <1>1, ExceptSeq

LEMMA Popped ==
    ASSUME NEW S, NEW s \in Seq(S), s # << >>
    PROVE  /\ Tail(s) \in Seq(S) /\ Len(Tail(s)) = Len(s) - 1
           /\ Head(s) = s[1] /\ Head(s) \in S /\ Len(s) \in Nat \ {0}
           /\ \A k \in 1..(Len(s) - 1) : Tail(s)[k] = s[k + 1]
  BY EmptySeq, HeadTailProperties

LEMMA Updates ==
    ASSUME NEW s \in Seq(Frames), s # << >>, s[1] \in ObjectFrames
    PROVE  /\ \A n \in Nat : [s EXCEPT ![1].rule = n] = [s EXCEPT ![1] = [s[1] EXCEPT !.rule = n]]
           /\ [s EXCEPT ![1].i = @ + 1, ![1].rule = 1]
                = [s EXCEPT ![1] = [s[1] EXCEPT !.i = @ + 1, !.rule = 1]]
           /\ \A n \in Nat : [s EXCEPT ![1].processed = @ + 2, ![1].rule = n + 1]
                = [s EXCEPT ![1] = [s[1] EXCEPT !.processed = @ + 2, !.rule = n + 1]]
  <1>1. Len(s) \in Nat \ {0} /\ DOMAIN s = 1..Len(s)
    BY EmptySeq, LenProperties
  <1> QED BY <1>1

LEMMA Resumes ==
    ASSUME NEW s \in Seq(Frames), s # << >>, NEW ret \in Nat
    PROVE  /\ s[1].kind = "object" =>
                [s EXCEPT ![1].i = @ + ret + 1, ![1].rule = @ + 1, ![1].processed = @ + ret + 2]
                = [s EXCEPT ![1] = [s[1] EXCEPT !.i = @ + ret + 1, !.rule = @ + 1,
                                                !.processed = @ + ret + 2]]
           /\ s[1].kind = "array" =>
                [s EXCEPT ![1].base = @ + ret + 1, ![1].i = @ + 1, ![1].processed = @ + ret + 1]
                = [s EXCEPT ![1] = [s[1] EXCEPT !.base = @ + ret + 1, !.i = @ + 1,
                                                !.processed = @ + ret + 1]]
  <1>1. Len(s) \in Nat \ {0} /\ DOMAIN s = 1..Len(s) /\ s[1] \in Frames
    BY EmptySeq, LenProperties, ElementOfSeq
  <1> QED BY <1>1 DEF Frames, ObjectFrames, ArrayFrames

-----------------------------------------------------------------------------
(* Types.                                                                  *)
LEMMA ObjectUpdated ==
    ASSUME NEW f \in ObjectFrames, NEW i \in Nat, NEW n \in Nat \ {0}, NEW p \in Nat
    PROVE  /\ [f EXCEPT !.i = i, !.rule = n] \in ObjectFrames
           /\ [f EXCEPT !.processed = p, !.rule = n] \in ObjectFrames
           /\ [f EXCEPT !.i = i, !.rule = n, !.processed = p] \in ObjectFrames
  <1> USE DEF ObjectFrames
  <1>1. \A g \in ObjectFrames : [g EXCEPT !.i = i] \in ObjectFrames OBVIOUS
  <1>2. \A g \in ObjectFrames : [g EXCEPT !.rule = n] \in ObjectFrames OBVIOUS
  <1>3. \A g \in ObjectFrames : [g EXCEPT !.processed = p] \in ObjectFrames OBVIOUS
  <1>4. [f EXCEPT !.i = i, !.rule = n] = [[f EXCEPT !.i = i] EXCEPT !.rule = n]
    OBVIOUS
  <1>5. [f EXCEPT !.processed = p, !.rule = n] = [[f EXCEPT !.processed = p] EXCEPT !.rule = n]
    OBVIOUS
  <1>6. [f EXCEPT !.i = i, !.rule = n, !.processed = p]
            = [[[f EXCEPT !.i = i] EXCEPT !.rule = n] EXCEPT !.processed = p]
    OBVIOUS
  <1> HIDE DEF ObjectFrames
  <1> QED BY <1>1, <1>2, <1>3, <1>4, <1>5, <1>6

LEMMA ArrayUpdated ==
    ASSUME NEW f \in ArrayFrames, NEW b \in Nat, NEW i \in Nat, NEW p \in Nat
    PROVE  [f EXCEPT !.base = b, !.i = i, !.processed = p] \in ArrayFrames
  <1> USE DEF ArrayFrames
  <1>1. \A g \in ArrayFrames : [g EXCEPT !.base = b] \in ArrayFrames OBVIOUS
  <1>2. \A g \in ArrayFrames : [g EXCEPT !.i = i] \in ArrayFrames OBVIOUS
  <1>3. \A g \in ArrayFrames : [g EXCEPT !.processed = p] \in ArrayFrames OBVIOUS
  <1>4. [f EXCEPT !.base = b, !.i = i, !.processed = p]
            = [[[f EXCEPT !.base = b] EXCEPT !.i = i] EXCEPT !.processed = p]
    OBVIOUS
  <1> HIDE DEF ArrayFrames
  <1> QED BY <1>1, <1>2, <1>3, <1>4

LEMMA TokenSize ==
    ASSUME doc \in Docs, NEW k \in Nat
    PROVE  Tok(k).size \in Nat
  BY DocsAssumption DEF Tok, Total, Undefined

LEMMA TopFrame ==
    ASSUME TypeOK, NEW kind, Scanning(kind)
    PROVE  /\ frames # << >> /\ Frame = frames[1] /\ Len(frames) \in Nat \ {0}
           /\ kind = "object" => Frame \in ObjectFrames
           /\ kind = "array" => Frame \in ArrayFrames
  <1>1. frames # << >> /\ Frame = frames[1] /\ Frame \in Frames /\ Len(frames) \in Nat \ {0}
    BY Popped DEF TypeOK, Scanning, Frame
  <1> QED BY <1>1 DEF Scanning, Frames, ObjectFrames, ArrayFrames

LEMMA ObjectTop ==
    ASSUME TypeOK, Scanning("object")
    PROVE  /\ frames \in Seq(Frames) /\ frames # << >> /\ Frame = frames[1]
           /\ Frame \in ObjectFrames /\ Frame.list \in Lists
           /\ At \in Nat /\ Len(KeyRules) \in Nat
           /\ \A n : Hit(n) => n \in Nat \ {0} /\ n \in 1..Len(KeyRules) /\ RuleFits(Frame.list, n)
  <1>1. frames # << >> /\ Frame = frames[1] /\ Frame \in ObjectFrames
    BY TopFrame
  <1>2. Frame.list \in Lists /\ At \in Nat /\ Frame.rule \in Nat \ {0}
    BY <1>1 DEF ObjectFrames, At
  <1>3. Len(KeyRules) \in Nat /\ \A n \in 1..Len(KeyRules) : RuleFits(Frame.list, n)
    BY <1>2, RulesFit DEF KeyRules
  <1>4. \A n : Hit(n) => n \in Frame.rule..Len(KeyRules)
    BY DEF Hit
  <1> QED BY <1>1, <1>2, <1>3, <1>4 DEF TypeOK

LEMMA StopTyped ==
    ASSUME TypeOK, NEW status \in {"ok", "failed", "crashed", "wild"}, Stop(status)
    PROVE  TypeOK'
  BY DEF TypeOK, Stop

LEMMA QuotientTyped ==
    ASSUME NEW a \in Int, NEW b \in Nat \ {0}
    PROVE  Quotient(a, b) \in Int
  BY DEF Quotient

LEMMA CallArrayTyped ==
    ASSUME TypeOK, NEW rule, rule.type = "ARRAY" => rule.sub \in {"action_info", "validator"},
           NEW base \in Nat, NEW count \in Int, NEW size \in Nat, NEW stack \in Seq(Frames),
           CallArray(rule, base, count, size, stack)
    PROVE  TypeOK'
  <1>1. CASE size = 0
    BY <1>1, StopTyped DEF CallArray
  <1>2. CASE size # 0 /\ (~ Readable(base) \/ Tok(base).type # "object" \/ rule.type # "ARRAY")
    BY <1>2, StopTyped DEF CallArray
  <1>3. CASE size # 0 /\ Readable(base) /\ Tok(base).type = "object" /\ rule.type = "ARRAY"
    <2> DEFINE f == ArrayFrame(rule.sub, base, size, Quotient(count, size))
    <2>1. Quotient(count, size) \in Int
      BY <1>3, QuotientTyped
    <2>2. f \in Frames
      BY <1>3, <2>1 DEF ArrayFrame, Frames, ArrayFrames
    <2>3. /\ frames' = <<f>> \o stack /\ pc' = "scan"
          /\ UNCHANGED <<doc, max_size, bound, store, actual_size>>
      BY <1>3 DEF CallArray
    <2>4. frames' \in Seq(Frames)
      <3> HIDE DEF f
      <3> QED BY <2>2, <2>3, Pushed
    <2> QED BY <2>3, <2>4 DEF TypeOK
  <1> QED BY <1>1, <1>2, <1>3

LEMMA FirstRule ==
    ASSUME NEW api \in Requests
    PROVE  /\ api \in Lists
           /\ api \notin ElementLists
           /\ Rules[api][1].type = "ARRAY" => Rules[api][1].sub = "validator"
  <1> USE ListNames DEF Rules, Rule, Fixed, Unbound, Sub
  <1>1. CASE api = "chain_meta" BY <1>1 DEF ChainMetaRules
  <1>2. CASE api = "account" BY <1>2 DEF AccountRules
  <1>3. CASE api = "actions" BY <1>3 DEF ActionsTopRules
  <1>4. CASE api = "validators" BY <1>4 DEF ValidatorsTopRules
  <1>5. CASE api = "hash" BY <1>5 DEF HashRules
  <1>6. CASE api = "contract" BY <1>6 DEF ContractRules
  <1> QED BY <1>1, <1>2, <1>3, <1>4, <1>5, <1>6 DEF Requests

LEMMA TokenizeTyped == ASSUME TypeOK, Tokenize PROVE TypeOK'
  <1>0. doc \in Docs /\ doc.api \in Requests /\ frames = << >> /\ Total \in Nat
    BY DocsAssumption DEF TypeOK, Tokenize, Total
  <1>1. CASE Total > doc.cap \/ Total < 1
    BY <1>1, StopTyped DEF Tokenize
  <1>2. CASE ~ (Total > doc.cap \/ Total < 1) /\ Tok(0).type = "object"
    <2> DEFINE f == ObjectFrame(doc.api, 0, Total - 1)
    <2>1. f \in Frames
      BY <1>0, FirstRule DEF ObjectFrame, Frames, ObjectFrames
    <2>2. /\ frames' = <<f>> /\ pc' = "scan"
          /\ UNCHANGED <<doc, max_size, bound, store, actual_size>>
      BY <1>2 DEF Tokenize
    <2>3. frames' \in Seq(Frames)
      <3> HIDE DEF f
      <3> QED BY <2>1, <2>2
    <2> QED BY <2>2, <2>3 DEF TypeOK
  <1>3. CASE ~ (Total > doc.cap \/ Total < 1) /\ Tok(0).type = "array"
    <2>1. CallArray(Rules[doc.api][1], 1, Total - 1, Tok(0).size, << >>)
      BY <1>3 DEF Tokenize
    <2>2. Rules[doc.api][1].type = "ARRAY" => Rules[doc.api][1].sub = "validator"
      BY <1>0, FirstRule
    <2>3. Tok(0).size \in Nat
      BY <1>0, TokenSize
    <2>4. << >> \in Seq(Frames)
      BY EmptySeq
    <2>5. 1 \in Nat /\ Total - 1 \in Int
      BY <1>0
    <2>6. Rules[doc.api][1].type = "ARRAY" =>
              Rules[doc.api][1].sub \in {"action_info", "validator"}
      BY <2>2
    <2> QED BY <2>1, <2>3, <2>4, <2>5, <2>6, CallArrayTyped
  <1>4. CASE ~ (Total > doc.cap \/ Total < 1) /\ Tok(0).type # "object" /\ Tok(0).type # "array"
    <2>1. Stop("failed")
      BY <1>4 DEF Tokenize
    <2> QED BY <2>1, StopTyped
  <1> QED BY <1>1, <1>2, <1>3, <1>4

LEMMA SkipTokenTyped == ASSUME TypeOK, SkipToken PROVE TypeOK'
  <1> DEFINE f == [Frame EXCEPT !.i = @ + 1, !.rule = 1]
  <1>1. Scanning("object")
    BY DEF SkipToken
  <1>2. f \in Frames
    <2>1. Frame \in ObjectFrames
      BY <1>1, ObjectTop
    <2>2. Frame.i + 1 \in Nat /\ Frame.processed \in Nat /\ 1 \in Nat \ {0}
      BY <2>1 DEF ObjectFrames
    <2>3. f \in ObjectFrames
      BY <2>1, <2>2, ObjectUpdated, Zenon
    <2> QED BY <2>3 DEF Frames
  <1>3. frames' = [frames EXCEPT ![1] = f]
    BY <1>1, ObjectTop, Updates DEF SkipToken
  <1>4. frames' \in Seq(Frames)
    <2> HIDE DEF f
    <2> QED BY <1>1, <1>2, <1>3, ObjectTop, Retopped
  <1>5. pc = "scan" /\ UNCHANGED <<doc, max_size, pc, bound, store, actual_size>>
    BY DEF SkipToken, Scanning
  <1> QED BY <1>4, <1>5 DEF TypeOK

LEMMA StoreScalarTyped == ASSUME TypeOK, StoreScalar PROVE TypeOK'
  <1>1. Scanning("object")
    BY DEF StoreScalar
  <1>2. PICK n \in 1..Len(KeyRules) :
            /\ Hit(n)
            /\ store' = Put(store, Destination(n), At + 1)
            /\ frames' = [frames EXCEPT ![1].processed = @ + 2, ![1].rule = n + 1]
            /\ UNCHANGED <<doc, max_size, pc, bound, actual_size>>
    BY DEF StoreScalar
  <1> DEFINE f == [Frame EXCEPT !.processed = @ + 2, !.rule = n + 1]
  <1>3. n \in Nat \ {0} /\ At \in Nat
    BY <1>1, <1>2, ObjectTop
  <1>4. f \in Frames
    <2>1. Frame \in ObjectFrames
      BY <1>1, ObjectTop
    <2>2. Frame.processed + 2 \in Nat /\ Frame.i \in Nat /\ n + 1 \in Nat \ {0}
      BY <1>3, <2>1 DEF ObjectFrames
    <2>3. f \in ObjectFrames
      BY <2>1, <2>2, ObjectUpdated, Zenon
    <2> QED BY <2>3 DEF Frames
  <1>5. frames' = [frames EXCEPT ![1] = f]
    BY <1>1, <1>2, <1>3, ObjectTop, Updates
  <1>6. frames' \in Seq(Frames)
    <2> HIDE DEF f
    <2> QED BY <1>1, <1>4, <1>5, ObjectTop, Retopped
  <1>7. \A d \in DOMAIN store' : store'[d] \in Nat
    BY <1>2, <1>3 DEF Put, TypeOK
  <1>8. pc = "scan"
    BY <1>1 DEF Scanning
  <1> QED BY <1>2, <1>6, <1>7, <1>8 DEF TypeOK

LEMMA RuleUpdated ==
    ASSUME TypeOK, Scanning("object"), NEW n \in Nat \ {0}
    PROVE  LET t == [frames EXCEPT ![1].rule = n]
           IN  /\ t \in Seq(Frames) /\ Len(t) = Len(frames)
               /\ t[1].kind = Frame.kind /\ t[1].list = Frame.list
               /\ \A k \in 2..Len(frames) : t[k] = frames[k]
  <1> DEFINE f == [Frame EXCEPT !.rule = n]
  <1>1. f \in Frames /\ f.kind = Frame.kind /\ f.list = Frame.list
    BY ObjectTop DEF ObjectFrames, Frames
  <1>2. [frames EXCEPT ![1].rule = n] = [frames EXCEPT ![1] = f]
    BY ObjectTop, Updates
  <1> HIDE DEF f
  <1> QED BY <1>1, <1>2, ObjectTop, Retopped

LEMMA IgnoreMemberTyped == ASSUME TypeOK, IgnoreMember PROVE TypeOK'
  <1>1. Scanning("object") /\ pc = "scan"
    BY DEF IgnoreMember, Scanning
  <1>2. PICK n \in 1..Len(KeyRules) :
            /\ Hit(n)
            /\ frames' = [frames EXCEPT ![1].rule = n + 1]
            /\ UNCHANGED <<doc, max_size, pc, bound, store, actual_size>>
    BY DEF IgnoreMember
  <1>3. n + 1 \in Nat \ {0}
    BY <1>1, <1>2, ObjectTop
  <1>4. frames' \in Seq(Frames)
    BY <1>1, <1>2, <1>3, RuleUpdated
  <1> QED BY <1>1, <1>2, <1>4 DEF TypeOK

LEMMA EnterObjectTyped == ASSUME TypeOK, EnterObject PROVE TypeOK'
  <1>1. Scanning("object") /\ pc = "scan"
    BY DEF EnterObject, Scanning
  <1>2. PICK n \in 1..Len(KeyRules) :
            /\ Hit(n) /\ KeyRules[n].type = "OBJECT" /\ Accepts(n)
            /\ frames' = << ObjectFrame(KeyRules[n].sub, At + 2, CountLeft) >>
                          \o [frames EXCEPT ![1].rule = n]
            /\ UNCHANGED <<doc, max_size, pc, bound, store, actual_size>>
    BY DEF EnterObject
  <1> DEFINE f == ObjectFrame(KeyRules[n].sub, At + 2, CountLeft)
             s == [frames EXCEPT ![1].rule = n]
  <1>3. /\ n \in Nat \ {0} /\ RuleFits(Frame.list, n)
        /\ At \in Nat /\ Frame \in ObjectFrames
    BY <1>1, <1>2, ObjectTop
  <1>4. KeyRules[n].sub \in Lists
    BY <1>2, <1>3 DEF Accepts, RuleFits, KeyRules
  <1>5. CountLeft \in Int
    BY <1>3 DEF CountLeft, ObjectFrames
  <1>6. f \in Frames
    BY <1>3, <1>4, <1>5 DEF ObjectFrame, ObjectFrames, Frames
  <1>7. s \in Seq(Frames)
    BY <1>1, <1>3, RuleUpdated
  <1>8. frames' = <<f>> \o s
    BY <1>2
  <1>9. frames' \in Seq(Frames)
    <2> HIDE DEF f, s
    <2> QED BY <1>6, <1>7, <1>8, Pushed
  <1> QED BY <1>1, <1>2, <1>9 DEF TypeOK

LEMMA EnterArrayTyped == ASSUME TypeOK, EnterArray PROVE TypeOK'
  <1>1. Scanning("object")
    BY DEF EnterArray
  <1>2. PICK n \in 1..Len(KeyRules) :
            /\ Hit(n) /\ KeyRules[n].type = "ARRAY"
            /\ CallArray(KeyRules[n], At + 2, CountLeft, Value.size, [frames EXCEPT ![1].rule = n])
    BY DEF EnterArray
  <1>3. /\ n \in Nat \ {0} /\ RuleFits(Frame.list, n)
        /\ At \in Nat /\ Frame \in ObjectFrames /\ At + 2 \in Nat /\ At + 1 \in Nat
    BY <1>1, <1>2, ObjectTop
  <1>4. KeyRules[n].type = "ARRAY" => KeyRules[n].sub \in {"action_info", "validator"}
    BY <1>3 DEF RuleFits, KeyRules
  <1>5. CountLeft \in Int
    BY <1>3 DEF CountLeft, ObjectFrames
  <1>6. Value.size \in Nat
    BY <1>3, TokenSize DEF Value, TypeOK
  <1>7. [frames EXCEPT ![1].rule = n] \in Seq(Frames)
    BY <1>1, <1>3, RuleUpdated
  <1> QED BY <1>2, <1>3, <1>4, <1>5, <1>6, <1>7, CallArrayTyped

LEMMA EnterElementTyped == ASSUME TypeOK, EnterElement PROVE TypeOK'
  <1>1. Scanning("array") /\ pc = "scan" /\ frames \in Seq(Frames)
    BY DEF EnterElement, Scanning, TypeOK
  <1>2. frames # << >> /\ Frame \in ArrayFrames
    BY <1>1, TopFrame
  <1>3. CASE Stop("failed")
    BY <1>3, StopTyped
  <1>4. CASE /\ Frame.i < max_size
             /\ bound' = Frame.i + 1
             /\ frames' = << ObjectFrame(Frame.list, Frame.base + 1, Frame.window) >> \o frames
             /\ UNCHANGED <<doc, max_size, pc, store, actual_size>>
    <2> DEFINE f == ObjectFrame(Frame.list, Frame.base + 1, Frame.window)
    <2>0. Frame.list \in Lists /\ Frame.base + 1 \in Nat /\ Frame.window \in Int
      <3>1. {"action_info", "validator"} \subseteq Lists
        BY ListNames
      <3>2. /\ Frame.list \in {"action_info", "validator"}
            /\ Frame.base \in Nat /\ Frame.window \in Int
        BY <1>2 DEF ArrayFrames
      <3> QED BY <3>1, <3>2
    <2>1. f \in Frames
      BY <2>0 DEF ObjectFrame, ObjectFrames, Frames
    <2>2. frames' \in Seq(Frames)
      <3> HIDE DEF f
      <3> QED BY <1>1, <1>4, <2>1, Pushed DEF f
    <2>3. max_size \in Nat /\ Frame.i \in Nat
      BY <1>2, MaxSizesAssumption DEF TypeOK, ArrayFrames
    <2>4. bound' \in 0..max_size
      BY <1>4, <2>3
    <2> QED BY <1>1, <1>4, <2>2, <2>4 DEF TypeOK
  <1> QED BY <1>3, <1>4 DEF EnterElement

LEMMA ReturnTyped ==
    ASSUME TypeOK, pc = "scan", frames # << >>, NEW ret \in Nat, Return(ret)
    PROVE  LET rest == Tail(frames)
           IN  /\ frames' \in Seq(Frames) /\ pc' \in {"scan", "ok", "failed"}
               /\ \/ frames' = << >>
                  \/ /\ Len(frames') = Len(rest)
                     /\ frames'[1].kind = rest[1].kind /\ frames'[1].list = rest[1].list
                     /\ \A k \in 2..Len(rest) : frames'[k] = rest[k]
  <1> DEFINE rest == Tail(frames)
  <1>1. rest \in Seq(Frames)
    BY Popped DEF TypeOK
  <1>2. CASE ReturnToObject(ret, rest)
    <2> DEFINE f == [rest[1] EXCEPT !.i = @ + ret + 1, !.rule = @ + 1, !.processed = @ + ret + 2]
    <2>1. rest # << >> /\ Head(rest) = rest[1] /\ rest[1] \in Frames /\ rest[1].kind = "object"
      BY <1>1, <1>2, Popped DEF ReturnToObject
    <2>2. rest[1] \in ObjectFrames
      BY <2>1 DEF Frames, ArrayFrames
    <2>3. /\ rest[1].i + ret + 1 \in Nat /\ rest[1].rule + 1 \in Nat \ {0}
          /\ rest[1].processed + ret + 2 \in Nat
      <3> HIDE DEF rest
      <3>1. rest[1].i \in Nat /\ rest[1].rule \in Nat /\ rest[1].processed \in Nat
        BY <2>2 DEF ObjectFrames
      <3> QED BY <3>1
    <2>4. f \in Frames
      BY <2>2, <2>3, ObjectUpdated DEF Frames
    <2>5. frames' = [rest EXCEPT ![1] = f] /\ pc' = pc
      BY <1>1, <1>2, <2>1, Resumes DEF ReturnToObject
    <2>6. f.kind = rest[1].kind /\ f.list = rest[1].list
      <3> HIDE DEF rest
      <3> QED BY <2>2 DEF ObjectFrames
    <2> HIDE DEF f, rest
    <2>7. /\ frames' \in Seq(Frames) /\ Len(frames') = Len(rest) /\ frames'[1] = f
          /\ \A k \in 2..Len(rest) : frames'[k] = rest[k]
      BY <1>1, <2>1, <2>4, <2>5, Retopped
    <2> QED BY <2>5, <2>6, <2>7 DEF rest
  <1>3. CASE ReturnToArray(ret, rest)
    <2> DEFINE f == [rest[1] EXCEPT !.base = @ + ret + 1, !.i = @ + 1, !.processed = @ + ret + 1]
    <2>1. rest # << >> /\ Head(rest) = rest[1] /\ rest[1] \in Frames /\ rest[1].kind = "array"
      BY <1>1, <1>3, Popped DEF ReturnToArray
    <2>2. rest[1] \in ArrayFrames
      BY <2>1 DEF Frames, ObjectFrames
    <2>3. /\ rest[1].base + ret + 1 \in Nat /\ rest[1].i + 1 \in Nat
          /\ rest[1].processed + ret + 1 \in Nat
      <3> HIDE DEF rest
      <3>1. rest[1].base \in Nat /\ rest[1].i \in Nat /\ rest[1].processed \in Nat
        BY <2>2 DEF ArrayFrames
      <3> QED BY <3>1
    <2>4. f \in Frames
      BY <2>2, <2>3, ArrayUpdated DEF Frames
    <2>5. frames' = [rest EXCEPT ![1] = f] /\ pc' = pc
      BY <1>1, <1>3, <2>1, Resumes DEF ReturnToArray
    <2>6. f.kind = rest[1].kind /\ f.list = rest[1].list
      <3> HIDE DEF rest
      <3> QED BY <2>2 DEF ArrayFrames
    <2> HIDE DEF f, rest
    <2>7. /\ frames' \in Seq(Frames) /\ Len(frames') = Len(rest) /\ frames'[1] = f
          /\ \A k \in 2..Len(rest) : frames'[k] = rest[k]
      BY <1>1, <2>1, <2>4, <2>5, Retopped
    <2> QED BY <2>5, <2>6, <2>7 DEF rest
  <1>4. CASE ReturnToCaller(ret, rest)
    BY <1>4, EmptySeq DEF ReturnToCaller
  <1> QED BY <1>2, <1>3, <1>4 DEF Return

LEMMA LeaveTyped == ASSUME TypeOK, LeaveObject \/ LeaveArray PROVE TypeOK'
  <1>1. CASE LeaveObject
    <2>1. frames # << >> /\ Frame \in ObjectFrames /\ pc = "scan"
      BY <1>1, TopFrame DEF LeaveObject, Scanning
    <2>2. Frame.processed \in Nat
      BY <2>1 DEF ObjectFrames
    <2>3. frames' \in Seq(Frames) /\ pc' \in {"scan", "ok", "failed"}
      BY <1>1, <2>1, <2>2, ReturnTyped DEF LeaveObject
    <2>4. UNCHANGED <<doc, max_size, bound, store, actual_size>>
      BY <1>1 DEF LeaveObject
    <2> QED BY <2>3, <2>4 DEF TypeOK
  <1>2. CASE LeaveArray
    <2>1. frames # << >> /\ Frame \in ArrayFrames /\ pc = "scan"
      BY <1>2, TopFrame DEF LeaveArray, Scanning
    <2>2. Frame.processed \in Nat /\ Frame.size \in Nat
      BY <2>1 DEF ArrayFrames
    <2>3. frames' \in Seq(Frames) /\ pc' \in {"scan", "ok", "failed"}
      BY <1>2, <2>1, <2>2, ReturnTyped DEF LeaveArray
    <2>4. /\ UNCHANGED <<doc, max_size, bound, store>>
          /\ actual_size' = Frame.size \/ actual_size' = actual_size
      BY <1>2 DEF LeaveArray
    <2> QED BY <2>2, <2>3, <2>4 DEF TypeOK
  <1> QED BY <1>1, <1>2

LEMMA StepTyped == TypeOK /\ [Next]_vars => TypeOK'
  <1> SUFFICES ASSUME TypeOK, [Next]_vars PROVE TypeOK'
    OBVIOUS
  <1>1. CASE RunsWild
    BY <1>1, StopTyped DEF RunsWild
  <1>2. CASE UNCHANGED vars
    BY <1>2 DEF vars, TypeOK
  <1> QED
    BY <1>1, <1>2, TokenizeTyped, SkipTokenTyped, StoreScalarTyped, IgnoreMemberTyped,
       EnterObjectTyped, EnterArrayTyped, EnterElementTyped, LeaveTyped DEF Next, Finished

(* Type correctness, for every set of responses and every array size.      *)
THEOREM ScanTyped == Spec => []TypeOK
  <1>1. Init => TypeOK
    <2> SUFFICES ASSUME Init PROVE TypeOK OBVIOUS
    <2>1. max_size \in Nat
      BY MaxSizesAssumption DEF Init
    <2> QED BY <2>1, EmptySeq DEF Init, TypeOK, Unset
  <1> QED BY <1>1, StepTyped, PTL DEF Spec

-----------------------------------------------------------------------------
(* What any step leaves alone: only StoreScalar stores.                    *)
LEMMA StepKeeps ==
    ASSUME Next
    PROVE  doc' = doc /\ max_size' = max_size /\ (store' = store \/ StoreScalar)
  <1> USE DEF Stop, CallArray
  <1>1. CASE Tokenize BY <1>1 DEF Tokenize
  <1>2. CASE RunsWild \/ SkipToken \/ IgnoreMember \/ StoreScalar
    BY <1>2 DEF RunsWild, SkipToken, IgnoreMember, StoreScalar
  <1>3. CASE EnterObject \/ EnterArray \/ EnterElement
    BY <1>3 DEF EnterObject, EnterArray, EnterElement
  <1>4. CASE LeaveObject \/ LeaveArray \/ Finished
    BY <1>4 DEF LeaveObject, LeaveArray, Finished, vars
  <1> QED BY <1>1, <1>2, <1>3, <1>4 DEF Next

(* A scalar rule that stores has the key of the field it points to.        *)
LEMMA StoresUnderKey ==
    ASSUME TypeOK, Scanning("object"), NEW n, Hit(n), Scalar(n), Accepts(n)
    PROVE  Binding(n).key = KeyRules[n].key
  <1>1. /\ Frame.list \in Lists /\ n \in 1..Len(KeyRules) /\ RuleFits(Frame.list, n)
    BY ObjectTop
  <1>2. Binding(n) # NotBound
    BY DEF Accepts, Scalar, HasRoom
  <1>3. CASE KeyRules[n].fixed
    BY <1>3 DEF Binding
  <1>4. CASE ~ KeyRules[n].fixed
    <2>1. Frame.list \in ElementLists
      BY <1>1, <1>4 DEF RuleFits, KeyRules, Scalar
    <2>2. CASE Frame.list \in DOMAIN ActionInfoBindings
      <3>1. Binding(n) = bind_rule_and_data(ActionInfoBindings)[Frame.list][n]
        BY <1>2, <1>4, <2>2, BindSucceeds DEF Binding, array_element_bind
      <3> QED BY <1>1, <1>2, <2>2, <3>1, BoundToOwnKey, BoundKeysAreExact DEF KeyRules
    <2>3. CASE Frame.list \notin DOMAIN ActionInfoBindings
      <3>1. Binding(n) = bind_rule_and_data(ValidatorBindings)[Frame.list][n]
        BY <1>2, <1>4, <2>3, BindSucceeds DEF Binding, array_element_bind
      <3>2. Frame.list \in DOMAIN ValidatorBindings
        BY <2>1, <2>3 DEF ElementLists
      <3> QED BY <1>1, <1>2, <3>1, <3>2, BoundToOwnKey, BoundKeysAreExact DEF KeyRules
    <2> QED BY <2>2, <2>3
  <1> QED BY <1>3, <1>4

(* Whatever the response, also one no document family holds: the value a   *)
(* field receives follows a key of the field's name (parse.c:15, the       *)
(* bindings of rule.c:55, 119), and the field belongs to the request or to *)
(* one of the max_size elements of the caller's array (parse.c:243).       *)
THEOREM ScanStoresUnderKey == Spec => []StoredUnderKey
  <1>1. Init => StoredUnderKey
    <2> SUFFICES ASSUME Init PROVE StoredUnderKey OBVIOUS
    <2>1. DOMAIN store = {}
      BY DEF Init
    <2> QED BY <2>1 DEF StoredUnderKey
  <1>2. TypeOK /\ StoredUnderKey /\ [Next]_vars => StoredUnderKey'
    <2> SUFFICES ASSUME TypeOK, StoredUnderKey, [Next]_vars PROVE StoredUnderKey'
      OBVIOUS
    <2>1. CASE store' = store /\ doc' = doc /\ max_size' = max_size
      BY <2>1 DEF StoredUnderKey, Tok, Total
    <2>2. CASE StoreScalar
      <3>1. Scanning("object")
        BY <2>2 DEF StoreScalar
      <3>2. PICK n \in 1..Len(KeyRules) :
                /\ Hit(n) /\ Scalar(n) /\ Accepts(n)
                /\ store' = Put(store, Destination(n), At + 1)
                /\ UNCHANGED <<doc, max_size>>
        BY <2>2 DEF StoreScalar
      <3> DEFINE e == Destination(n)
      <3>3. Tok(At).text = KeyRules[n].key
        BY <3>2 DEF Hit, Matches
      <3>4. e[3] = KeyRules[n].key
        BY <3>1, <3>2, StoresUnderKey DEF Destination
      <3>5. e[1] <= max_size
        <4>1. max_size \in Nat /\ bound \in 0..max_size
          BY MaxSizesAssumption DEF TypeOK
        <4>2. e[1] = 0 \/ e[1] = bound
          BY DEF Destination
        <4> QED BY <4>1, <4>2
      <3>6. At \in Nat
        BY <3>1, ObjectTop
      <3> HIDE DEF e
      <3> SUFFICES ASSUME NEW d \in DOMAIN store'
                   PROVE  Tok(store'[d] - 1).text = d[3] /\ d[1] <= max_size
        BY <3>2 DEF StoredUnderKey, Tok, Total
      <3>7. DOMAIN store' = DOMAIN store \cup {e} /\ store'[d] = IF d = e THEN At + 1 ELSE store[d]
        BY <3>2 DEF Put, e
      <3>8. CASE d = e
        <4>1. store'[d] = At + 1
          BY <3>7, <3>8
        <4>2. store'[d] - 1 = At
          BY <3>6, <4>1
        <4> QED BY <3>3, <3>4, <3>5, <3>8, <4>2
      <3>9. CASE d # e
        <4>1. d \in DOMAIN store /\ store'[d] = store[d]
          BY <3>7, <3>9
        <4> QED BY <4>1 DEF StoredUnderKey
      <3> QED BY <3>8, <3>9
    <2> QED BY <2>1, <2>2, StepKeeps DEF vars
  <1> QED BY <1>1, <1>2, ScanTyped, PTL DEF Spec

-----------------------------------------------------------------------------
(* The shape of the stack.                                                 *)
LEMMA Levels ==
    ASSUME NEW f \in Frames
    PROVE  Level(f) \in 1..MaxDepth
  <1>1. CASE f \in ObjectFrames
    BY <1>1, ListNames DEF Level, ObjectFrames
  <1>2. CASE f \in ArrayFrames
    BY <1>2 DEF Level, ArrayFrames, Rank, MaxDepth
  <1> QED BY <1>1, <1>2 DEF Frames

LEMMA StackEmpty == \A b : StackOK(<< >>, b)
  BY EmptySeq DEF StackOK

LEMMA StackRetopped ==
    ASSUME NEW s \in Seq(Frames), NEW t, NEW b, StackOK(s, b), Len(t) = Len(s),
           t[1].kind = s[1].kind, t[1].list = s[1].list, \A k \in 2..Len(s) : t[k] = s[k]
    PROVE  StackOK(t, b)
  <1>1. Len(s) \in Nat
    BY LenProperties
  <1>2. \A k \in 1..Len(s) : t[k].kind = s[k].kind /\ t[k].list = s[k].list
    <2> TAKE k \in 1..Len(s)
    <2>1. CASE k = 1 BY <2>1
    <2>2. CASE k # 1 BY <1>1, <2>2
    <2> QED BY <2>1, <2>2
  <1>3. \A k \in 1..Len(s) : Level(t[k]) = Level(s[k])
    BY <1>2 DEF Level
  <1>4. \A k \in 1..Len(t) : Level(t[k]) + Len(t) - k <= MaxDepth
    BY <1>3 DEF StackOK
  <1>5. \A j, k \in 1..Len(t) : t[j].kind = "array" /\ t[k].kind = "array" => j = k
    BY <1>2 DEF StackOK
  <1>6. \A k \in 2..Len(t) : t[k].kind = "array" => b = t[k].i + 1
    BY DEF StackOK
  <1>7. \A k \in 1..Len(t) : t[k].kind = "object" /\ t[k].list \in ElementLists =>
            \E j \in (k + 1)..Len(t) : t[j].kind = "array"
    <2> SUFFICES ASSUME NEW k \in 1..Len(t), t[k].kind = "object", t[k].list \in ElementLists
                 PROVE  \E j \in (k + 1)..Len(t) : t[j].kind = "array"
      OBVIOUS
    <2>1. PICK j \in (k + 1)..Len(s) : s[j].kind = "array"
      BY <1>2 DEF StackOK
    <2> QED BY <1>1, <1>2, <2>1
  <1> QED BY <1>4, <1>5, <1>6, <1>7 DEF StackOK

LEMMA StackPopped ==
    ASSUME NEW s \in Seq(Frames), s # << >>, NEW b, StackOK(s, b)
    PROVE  StackOK(Tail(s), b)
  <1> DEFINE t == Tail(s)
  <1>1. /\ Len(s) \in Nat \ {0} /\ Len(t) = Len(s) - 1
        /\ \A k \in 1..Len(t) : k + 1 \in 2..Len(s) /\ t[k] = s[k + 1]
    BY Popped
  <1> HIDE DEF t
  <1>2. \A k \in 1..Len(t) : Level(t[k]) + Len(t) - k <= MaxDepth
    <2> TAKE k \in 1..Len(t)
    <2>1. Level(s[k + 1]) + Len(s) - (k + 1) <= MaxDepth
      BY <1>1 DEF StackOK
    <2>2. Level(s[k + 1]) \in Nat
      BY <1>1, Levels, ElementOfSeq DEF MaxDepth
    <2> QED BY <1>1, <2>1, <2>2 DEF MaxDepth
  <1>3. \A j, k \in 1..Len(t) : t[j].kind = "array" /\ t[k].kind = "array" => j = k
    <2> SUFFICES ASSUME NEW j \in 1..Len(t), NEW k \in 1..Len(t),
                        t[j].kind = "array", t[k].kind = "array"
                 PROVE  j = k
      OBVIOUS
    <2>0. /\ j + 1 \in 1..Len(s) /\ s[j + 1].kind = "array"
          /\ k + 1 \in 1..Len(s) /\ s[k + 1].kind = "array"
      BY <1>1
    <2>1. j + 1 = k + 1
      BY <2>0 DEF StackOK
    <2> QED BY <1>1, <2>1
  <1>4. \A k \in 2..Len(t) : t[k].kind = "array" => b = t[k].i + 1
    <2> TAKE k \in 2..Len(t)
    <2>1. k \in 1..Len(t) /\ k + 1 \in 2..Len(s)
      BY <1>1
    <2> QED BY <1>1, <2>1 DEF StackOK
  <1>5. \A k \in 1..Len(t) : t[k].kind = "object" /\ t[k].list \in ElementLists =>
            \E j \in (k + 1)..Len(t) : t[j].kind = "array"
    <2> SUFFICES ASSUME NEW k \in 1..Len(t), t[k].kind = "object", t[k].list \in ElementLists
                 PROVE  \E j \in (k + 1)..Len(t) : t[j].kind = "array"
      OBVIOUS
    <2>1. PICK j \in (k + 1 + 1)..Len(s) : s[j].kind = "array"
      BY <1>1, SMTT(30) DEF StackOK
    <2>2. j - 1 \in (k + 1)..Len(t) /\ t[j - 1] = s[j]
      <3>1. j \in Int /\ k \in Nat
        BY <1>1, <2>1
      <3>2. j - 1 \in 1..Len(t) /\ j - 1 >= k + 1 /\ (j - 1) + 1 = j
        BY <1>1, <2>1, <3>1
      <3> QED BY <1>1, <3>1, <3>2
    <2> QED BY <2>1, <2>2
  <1> QED BY <1>2, <1>3, <1>4, <1>5 DEF StackOK, t

LEMMA StackPushed ==
    ASSUME NEW s \in Seq(Frames), NEW b, StackOK(s, b), NEW f \in Frames, NEW c,
           Level(f) + Len(s) <= MaxDepth,
           f.kind = "array" => \A k \in 1..Len(s) : s[k].kind # "array",
           f.kind = "object" /\ f.list \in ElementLists => \E k \in 1..Len(s) : s[k].kind = "array",
           \A k \in 1..Len(s) : s[k].kind = "array" => c = s[k].i + 1
    PROVE  StackOK(<<f>> \o s, c)
  <1> DEFINE t == <<f>> \o s
  <1>1. /\ Len(s) \in Nat /\ Len(t) = Len(s) + 1 /\ t[1] = f
        /\ \A k \in 1..Len(s) : t[k + 1] = s[k]
    BY Pushed, LenProperties
  <1> HIDE DEF t
  <1>2. \A k \in 2..Len(t) : k - 1 \in 1..Len(s) /\ t[k] = s[k - 1]
    <2> TAKE k \in 2..Len(t)
    <2>1. k - 1 \in 1..Len(s) /\ (k - 1) + 1 = k
      BY <1>1
    <2> QED BY <1>1, <2>1
  <1>3. \A k \in 1..Len(t) : Level(t[k]) + Len(t) - k <= MaxDepth
    <2> TAKE k \in 1..Len(t)
    <2>1. CASE k = 1
      <3>1. Level(f) \in Nat BY Levels DEF MaxDepth
      <3> QED BY <1>1, <2>1, <3>1
    <2>2. CASE k # 1
      <3>1. k \in 2..Len(t) BY <1>1, <2>2
      <3>2. Level(s[k - 1]) + Len(s) - (k - 1) <= MaxDepth
        BY <1>2, <3>1 DEF StackOK
      <3>3. Level(s[k - 1]) \in Nat
        BY <1>2, <3>1, Levels, ElementOfSeq, SMTT(30) DEF MaxDepth
      <3> QED BY <1>1, <1>2, <3>1, <3>2, <3>3 DEF MaxDepth
    <2> QED BY <2>1, <2>2
  <1>4. \A j, k \in 1..Len(t) : t[j].kind = "array" /\ t[k].kind = "array" => j = k
    <2> SUFFICES ASSUME NEW j \in 1..Len(t), NEW k \in 1..Len(t),
                        t[j].kind = "array", t[k].kind = "array"
                 PROVE  j = k
      OBVIOUS
    <2>1. CASE f.kind = "array"
      <3>1. \A m \in 2..Len(t) : t[m].kind # "array"
        BY <1>2, <2>1
      <3>2. j = 1 /\ k = 1
        BY <1>1, <3>1
      <3> QED BY <3>2
    <2>2. CASE f.kind # "array"
      <3>1. j \in 2..Len(t) /\ k \in 2..Len(t)
        BY <1>1, <2>2
      <3>2. j - 1 = k - 1
        BY <1>2, <3>1 DEF StackOK
      <3> QED BY <1>1, <3>2
    <2> QED BY <2>1, <2>2
  <1>5. \A k \in 2..Len(t) : t[k].kind = "array" => c = t[k].i + 1
    BY <1>2
  <1>6. \A k \in 1..Len(t) : t[k].kind = "object" /\ t[k].list \in ElementLists =>
            \E j \in (k + 1)..Len(t) : t[j].kind = "array"
    <2> SUFFICES ASSUME NEW k \in 1..Len(t), t[k].kind = "object", t[k].list \in ElementLists
                 PROVE  \E j \in (k + 1)..Len(t) : t[j].kind = "array"
      OBVIOUS
    <2>1. PICK j \in k..Len(s) : s[j].kind = "array"
      <3>1. CASE k = 1
        BY <1>1, <3>1
      <3>2. CASE k # 1
        <4>1. k \in 2..Len(t) BY <1>1, <3>2
        <4>2. \E j \in (k - 1 + 1)..Len(s) : s[j].kind = "array"
          BY <1>2, <4>1 DEF StackOK
        <4>3. k - 1 + 1 = k
          BY <1>1
        <4> QED BY <4>2, <4>3
      <3> QED BY <3>1, <3>2
    <2>2. j \in 1..Len(s) /\ j + 1 \in (k + 1)..Len(t)
      BY <1>1
    <2> QED BY <1>1, <2>1, <2>2
  <1> QED BY <1>3, <1>4, <1>5, <1>6 DEF StackOK, t

Inv == TypeOK /\ StackOK(frames, bound)

(* Calling an array scan: there is none yet on the stack.                  *)
LEMMA CallArrayStack ==
    ASSUME TypeOK, StackOK(frames, bound), NEW rule,
           rule.type = "ARRAY" => rule.sub \in {"action_info", "validator"},
           NEW base \in Nat, NEW count \in Int, NEW size \in Nat,
           NEW stack \in Seq(Frames), StackOK(stack, bound),
           \A k \in 1..Len(stack) : stack[k].kind # "array",
           rule.type = "ARRAY" => Rank[rule.sub] + 1 + Len(stack) <= MaxDepth,
           CallArray(rule, base, count, size, stack)
    PROVE  StackOK(frames', bound')
  <1>1. CASE frames' = frames /\ bound' = bound
    BY <1>1
  <1>2. CASE ~ (frames' = frames /\ bound' = bound)
    <2> DEFINE f == ArrayFrame(rule.sub, base, size, Quotient(count, size))
    <2>1. /\ size # 0 /\ rule.type = "ARRAY"
          /\ frames' = <<f>> \o stack /\ bound' = bound
      BY <1>2 DEF CallArray, Stop
    <2>2. Quotient(count, size) \in Int
      BY <2>1, QuotientTyped
    <2>3. f \in Frames
      BY <2>1, <2>2 DEF ArrayFrame, Frames, ArrayFrames
    <2>4. f.kind = "array" /\ Level(f) = Rank[rule.sub] + 1
      BY DEF ArrayFrame, Level
    <2> HIDE DEF f
    <2> QED BY <2>1, <2>3, <2>4, StackPushed
  <1> QED BY <1>1, <1>2

LEMMA TokenizeStack == ASSUME Inv, Tokenize PROVE StackOK(frames', bound')
  <1>0. /\ doc \in Docs /\ doc.api \in Requests /\ frames = << >> /\ Total \in Nat
        /\ TypeOK /\ StackOK(frames, bound) /\ << >> \in Seq(Frames) /\ Len(<< >>) = 0
    BY DocsAssumption, EmptySeq DEF Inv, TypeOK, Tokenize, Total
  <1>1. CASE frames' = frames /\ bound' = bound
    BY <1>0, <1>1
  <1>2. CASE frames' = << ObjectFrame(doc.api, 0, Total - 1) >> /\ bound' = bound
    <2> DEFINE f == ObjectFrame(doc.api, 0, Total - 1)
    <2>1. f \in Frames /\ f.kind = "object" /\ f.list = doc.api
      BY <1>0, FirstRule DEF ObjectFrame, Frames, ObjectFrames
    <2>2. Level(f) + 0 <= MaxDepth
      BY <2>1, Levels DEF MaxDepth
    <2>3. frames' = <<f>> \o << >>
      BY <1>2
    <2> HIDE DEF f
    <2>4. f.list \notin ElementLists
      BY <1>0, <2>1, FirstRule
    <2>5. \A k \in 1..Len(<< >>) : FALSE
      BY <1>0
    <2> QED BY <1>0, <1>2, <2>1, <2>2, <2>3, <2>4, <2>5, StackPushed, StackEmpty
  <1>3. CASE CallArray(Rules[doc.api][1], 1, Total - 1, Tok(0).size, << >>)
    <2> DEFINE rule == Rules[doc.api][1]
    <2>1. rule.type = "ARRAY" => rule.sub = "validator"
      BY <1>0, FirstRule
    <2>2. Tok(0).size \in Nat /\ 1 \in Nat /\ Total - 1 \in Int
      BY <1>0, TokenSize
    <2>3. rule.type = "ARRAY" => Rank[rule.sub] + 1 + Len(<< >>) <= MaxDepth
      BY <1>0, <2>1 DEF Rank, MaxDepth
    <2>4. \A k \in 1..Len(<< >>) : << >>[k].kind # "array"
      BY <1>0
    <2>5. rule.type = "ARRAY" => rule.sub \in {"action_info", "validator"}
      BY <2>1
    <2>6. StackOK(<< >>, bound)
      BY StackEmpty
    <2> HIDE DEF rule
    <2> QED BY <1>0, <1>3, <2>2, <2>3, <2>4, <2>5, <2>6, CallArrayStack DEF rule
  <1> QED BY <1>1, <1>2, <1>3 DEF Tokenize, Stop

(* The steps of an object scan that stay in it.                            *)
LEMMA StayStack ==
    ASSUME Inv, SkipToken \/ StoreScalar \/ IgnoreMember
    PROVE  StackOK(frames', bound')
  <1>0. Scanning("object") /\ TypeOK /\ StackOK(frames, bound) /\ bound' = bound
    BY DEF Inv, SkipToken, StoreScalar, IgnoreMember
  <1>1. /\ frames \in Seq(Frames) /\ frames # << >> /\ Frame = frames[1] /\ Frame \in ObjectFrames
    BY <1>0, ObjectTop
  <1>2. ASSUME NEW f \in Frames, f.kind = Frame.kind, f.list = Frame.list,
               frames' = [frames EXCEPT ![1] = f]
        PROVE  StackOK(frames', bound')
    <2>1. /\ Len(frames') = Len(frames) /\ frames'[1] = f
          /\ \A k \in 2..Len(frames) : frames'[k] = frames[k]
      BY <1>1, <1>2, Retopped
    <2> QED BY <1>0, <1>1, <1>2, <2>1, StackRetopped
  <1>3. CASE SkipToken
    <2> DEFINE f == [Frame EXCEPT !.i = @ + 1, !.rule = 1]
    <2>1. Frame.i + 1 \in Nat /\ Frame.processed \in Nat /\ 1 \in Nat \ {0}
      BY <1>1 DEF ObjectFrames
    <2>2. f \in ObjectFrames
      BY <1>1, <2>1, ObjectUpdated, Zenon
    <2>3. f.kind = Frame.kind /\ f.list = Frame.list
      BY <1>1 DEF ObjectFrames
    <2>4. frames' = [frames EXCEPT ![1] = f]
      BY <1>1, <1>3, Updates DEF SkipToken
    <2> HIDE DEF f
    <2> QED BY <1>2, <2>2, <2>3, <2>4 DEF Frames
  <1>4. CASE StoreScalar
    <2>1. PICK n \in 1..Len(KeyRules) :
              Hit(n) /\ frames' = [frames EXCEPT ![1].processed = @ + 2, ![1].rule = n + 1]
      BY <1>4 DEF StoreScalar
    <2> DEFINE f == [Frame EXCEPT !.processed = @ + 2, !.rule = n + 1]
    <2>2. n \in Nat
      BY <1>0, <2>1, ObjectTop
    <2>3. Frame.processed + 2 \in Nat /\ Frame.i \in Nat /\ n + 1 \in Nat \ {0}
      BY <1>1, <2>2 DEF ObjectFrames
    <2>4. f \in ObjectFrames
      BY <1>1, <2>3, ObjectUpdated, Zenon
    <2>5. f.kind = Frame.kind /\ f.list = Frame.list
      BY <1>1 DEF ObjectFrames
    <2>6. frames' = [frames EXCEPT ![1] = f]
      BY <1>1, <2>1, <2>2, Updates
    <2> HIDE DEF f
    <2> QED BY <1>2, <2>4, <2>5, <2>6 DEF Frames
  <1>5. CASE IgnoreMember
    <2>1. PICK n \in 1..Len(KeyRules) : Hit(n) /\ frames' = [frames EXCEPT ![1].rule = n + 1]
      BY <1>5 DEF IgnoreMember
    <2>2. n + 1 \in Nat \ {0}
      BY <1>0, <2>1, ObjectTop
    <2>3. /\ Len(frames') = Len(frames) /\ frames'[1].kind = Frame.kind
          /\ frames'[1].list = Frame.list /\ \A k \in 2..Len(frames) : frames'[k] = frames[k]
      BY <1>0, <2>1, <2>2, RuleUpdated
    <2> QED BY <1>0, <1>1, <2>3, StackRetopped
  <1> QED BY <1>3, <1>4, <1>5

LEMMA EnterObjectStack == ASSUME Inv, EnterObject PROVE StackOK(frames', bound')
  <1>0. Scanning("object") /\ TypeOK /\ StackOK(frames, bound)
    BY DEF Inv, EnterObject
  <1>1. /\ frames \in Seq(Frames) /\ frames # << >> /\ Frame = frames[1]
        /\ Frame \in ObjectFrames /\ At \in Nat /\ Len(frames) \in Nat \ {0}
    BY <1>0, ObjectTop, TopFrame
  <1>2. PICK n \in 1..Len(KeyRules) :
            /\ Hit(n) /\ KeyRules[n].type = "OBJECT" /\ Accepts(n)
            /\ frames' = << ObjectFrame(KeyRules[n].sub, At + 2, CountLeft) >>
                          \o [frames EXCEPT ![1].rule = n]
            /\ bound' = bound
    BY DEF EnterObject
  <1> DEFINE l == KeyRules[n].sub
             f == ObjectFrame(l, At + 2, CountLeft)
             s == [frames EXCEPT ![1].rule = n]
  <1>3. n \in Nat \ {0} /\ RuleFits(Frame.list, n) /\ Frame.list \in Lists
    BY <1>0, <1>2, ObjectTop
  <1>4. l \in Lists /\ Rank[l] < Rank[Frame.list] /\ (l \in ElementLists => Frame.list \in ElementLists)
    BY <1>2, <1>3 DEF Accepts, RuleFits, KeyRules
  <1>5. CountLeft \in Int
    BY <1>1 DEF CountLeft, ObjectFrames
  <1>6. f \in Frames /\ f.kind = "object" /\ f.list = l /\ Level(f) = Rank[l]
    BY <1>1, <1>4, <1>5 DEF ObjectFrame, ObjectFrames, Frames, Level
  <1>7. /\ s \in Seq(Frames) /\ Len(s) = Len(frames) /\ s[1].kind = Frame.kind
        /\ s[1].list = Frame.list /\ \A k \in 2..Len(frames) : s[k] = frames[k]
    BY <1>0, <1>3, RuleUpdated
  <1>8. frames' = <<f>> \o s
    BY <1>2
  <1> HIDE DEF f, s, l
  <1>9. StackOK(s, bound)
    BY <1>0, <1>1, <1>7, StackRetopped
  <1>10. Frame.kind = "object" /\ Level(frames[1]) = Rank[Frame.list]
    BY <1>1 DEF ObjectFrames, Level
  <1>11. Level(f) + Len(s) <= MaxDepth
    <2>1. Level(frames[1]) + Len(frames) - 1 <= MaxDepth
      BY <1>0, <1>1 DEF StackOK
    <2>2. Rank[l] \in Nat /\ Rank[Frame.list] \in Nat
      BY <1>3, <1>4, ListNames DEF MaxDepth
    <2> QED BY <1>1, <1>4, <1>6, <1>7, <1>10, <2>1, <2>2 DEF MaxDepth
  <1>12. l \in ElementLists => \E k \in 1..Len(s) : s[k].kind = "array"
    <2> SUFFICES ASSUME l \in ElementLists PROVE \E k \in 1..Len(s) : s[k].kind = "array"
      OBVIOUS
    <2>1. PICK k \in (1 + 1)..Len(s) : s[k].kind = "array"
      BY <1>1, <1>4, <1>7, <1>9, <1>10 DEF StackOK
    <2> QED BY <1>1, <1>7, <2>1
  <1>13. \A k \in 1..Len(s) : s[k].kind = "array" => bound = s[k].i + 1
    <2> SUFFICES ASSUME NEW k \in 1..Len(s), s[k].kind = "array" PROVE bound = s[k].i + 1
      OBVIOUS
    <2>1. k # 1
      BY <1>7, <1>10
    <2>2. k \in 2..Len(s)
      BY <1>1, <1>7, <2>1
    <2> QED BY <1>9, <2>2 DEF StackOK
  <1> QED BY <1>2, <1>6, <1>7, <1>8, <1>9, <1>11, <1>12, <1>13, StackPushed

LEMMA EnterArrayStack == ASSUME Inv, EnterArray PROVE StackOK(frames', bound')
  <1>0. Scanning("object") /\ TypeOK /\ StackOK(frames, bound)
    BY DEF Inv, EnterArray
  <1>1. /\ frames \in Seq(Frames) /\ frames # << >> /\ Frame = frames[1]
        /\ Frame \in ObjectFrames /\ Len(frames) \in Nat \ {0}
    BY <1>0, ObjectTop, TopFrame
  <1>2. PICK n \in 1..Len(KeyRules) :
            /\ Hit(n) /\ KeyRules[n].type = "ARRAY"
            /\ CallArray(KeyRules[n], At + 2, CountLeft, Value.size, [frames EXCEPT ![1].rule = n])
    BY DEF EnterArray
  <1> DEFINE s == [frames EXCEPT ![1].rule = n]
             rule == KeyRules[n]
  <1>3. /\ n \in Nat \ {0} /\ RuleFits(Frame.list, n)
        /\ At \in Nat /\ At + 2 \in Nat /\ At + 1 \in Nat
    BY <1>0, <1>2, ObjectTop
  <1>4. Frame.list = "actions" /\ rule.sub = "action_info" /\ rule.sub \in {"action_info", "validator"}
    BY <1>2, <1>3 DEF RuleFits, KeyRules
  <1>5. CountLeft \in Int
    BY <1>1, <1>3 DEF CountLeft, ObjectFrames
  <1>6. Value.size \in Nat
    BY <1>0, <1>3, TokenSize DEF Value, TypeOK
  <1>7. /\ s \in Seq(Frames) /\ Len(s) = Len(frames) /\ s[1].kind = Frame.kind
        /\ s[1].list = Frame.list /\ \A k \in 2..Len(frames) : s[k] = frames[k]
    BY <1>0, <1>3, RuleUpdated
  <1>8. CallArray(rule, At + 2, CountLeft, Value.size, s)
    BY <1>2
  <1> HIDE DEF s, rule
  <1>9. StackOK(s, bound)
    BY <1>0, <1>1, <1>7, StackRetopped
  <1>10. Len(s) = 1
    <2>1. Level(frames[1]) = 6
      BY <1>1, <1>4 DEF Level, ObjectFrames, Rank
    <2>2. Level(frames[1]) + Len(frames) - 1 <= MaxDepth
      BY <1>0, <1>1 DEF StackOK
    <2> QED BY <1>1, <1>7, <2>1, <2>2 DEF MaxDepth
  <1>11. \A k \in 1..Len(s) : s[k].kind # "array"
    BY <1>1, <1>7, <1>10 DEF ObjectFrames
  <1>12. Rank[rule.sub] + 1 + Len(s) <= MaxDepth
    BY <1>4, <1>10 DEF Rank, MaxDepth
  <1> QED
    BY <1>0, <1>3, <1>4, <1>5, <1>6, <1>7, <1>8, <1>9, <1>11, <1>12, CallArrayStack

LEMMA EnterElementStack == ASSUME Inv, EnterElement PROVE StackOK(frames', bound')
  <1>0. Scanning("array") /\ TypeOK /\ StackOK(frames, bound) /\ frames \in Seq(Frames)
    BY DEF Inv, EnterElement, TypeOK
  <1>1. frames # << >> /\ Frame = frames[1] /\ Frame \in ArrayFrames /\ Len(frames) \in Nat \ {0}
    BY <1>0, TopFrame
  <1>2. CASE frames' = frames /\ bound' = bound
    BY <1>0, <1>2
  <1>3. CASE /\ bound' = Frame.i + 1
             /\ frames' = << ObjectFrame(Frame.list, Frame.base + 1, Frame.window) >> \o frames
    <2> DEFINE f == ObjectFrame(Frame.list, Frame.base + 1, Frame.window)
    <2>0. Frame.list \in Lists /\ Frame.base + 1 \in Nat /\ Frame.window \in Int
      <3>1. {"action_info", "validator"} \subseteq Lists
        BY ListNames
      <3>2. /\ Frame.list \in {"action_info", "validator"}
            /\ Frame.base \in Nat /\ Frame.window \in Int
        BY <1>1 DEF ArrayFrames
      <3> QED BY <3>1, <3>2
    <2>1. f \in Frames /\ f.kind = "object" /\ Level(f) = Rank[Frame.list]
      BY <2>0 DEF ObjectFrame, ObjectFrames, Frames, Level
    <2>2. frames' = <<f>> \o frames
      BY <1>3
    <2> HIDE DEF f
    <2>3. Frame.kind = "array" /\ Level(frames[1]) = Rank[Frame.list] + 1
      BY <1>1 DEF ArrayFrames, Level
    <2>4. Rank[Frame.list] \in Nat
      BY <1>1 DEF ArrayFrames, Rank
    <2>5. Level(f) + Len(frames) <= MaxDepth
      <3>1. Level(frames[1]) + Len(frames) - 1 <= MaxDepth
        BY <1>0, <1>1 DEF StackOK
      <3> QED BY <1>1, <2>1, <2>3, <2>4, <3>1 DEF MaxDepth
    <2>6. 1 \in 1..Len(frames) /\ frames[1].kind = "array"
      BY <1>1, <2>3
    <2>7. \A k \in 1..Len(frames) : frames[k].kind = "array" => bound' = frames[k].i + 1
      <3> SUFFICES ASSUME NEW k \in 1..Len(frames), frames[k].kind = "array"
                   PROVE  bound' = frames[k].i + 1
        OBVIOUS
      <3>1. k = 1
        BY <1>0, <2>6 DEF StackOK
      <3> QED BY <1>1, <1>3, <3>1
    <2> QED BY <1>0, <2>1, <2>2, <2>5, <2>6, <2>7, StackPushed
  <1> QED BY <1>2, <1>3 DEF EnterElement, Stop

LEMMA LeaveStack == ASSUME Inv, LeaveObject \/ LeaveArray PROVE StackOK(frames', bound')
  <1>0. /\ TypeOK /\ StackOK(frames, bound) /\ frames \in Seq(Frames) /\ frames # << >>
        /\ bound' = bound
    BY DEF Inv, LeaveObject, LeaveArray, TypeOK, Scanning
  <1>1. PICK ret \in Nat : Return(ret)
    <2>1. CASE LeaveObject
      <3>1. Frame \in ObjectFrames BY <1>0, <2>1, TopFrame DEF LeaveObject
      <3> QED BY <2>1, <3>1 DEF LeaveObject, ObjectFrames
    <2>2. CASE LeaveArray
      <3>1. Frame \in ArrayFrames BY <1>0, <2>2, TopFrame DEF LeaveArray
      <3> QED BY <2>2, <3>1 DEF LeaveArray, ArrayFrames
    <2> QED BY <2>1, <2>2
  <1> DEFINE rest == Tail(frames)
  <1>2. rest \in Seq(Frames) /\ StackOK(rest, bound)
    BY <1>0, Popped, StackPopped
  <1>3. CASE frames' = << >>
    BY <1>3, StackEmpty
  <1>4. CASE /\ Len(frames') = Len(rest)
             /\ frames'[1].kind = rest[1].kind /\ frames'[1].list = rest[1].list
             /\ \A k \in 2..Len(rest) : frames'[k] = rest[k]
    <2> HIDE DEF rest
    <2> QED BY <1>0, <1>2, <1>4, StackRetopped
  <1>5. pc = "scan"
    BY DEF LeaveObject, LeaveArray, Scanning
  <1> QED BY <1>0, <1>1, <1>3, <1>4, <1>5, ReturnTyped

LEMMA ScanInv == Spec => []Inv
  <1>1. Init => StackOK(frames, bound)
    BY StackEmpty DEF Init
  <1>2. Inv /\ [Next]_vars => StackOK(frames, bound)'
    <2> SUFFICES ASSUME Inv, [Next]_vars PROVE StackOK(frames', bound')
      OBVIOUS
    <2>1. CASE UNCHANGED vars
      BY <2>1 DEF vars, Inv
    <2>2. CASE RunsWild
      BY <2>2 DEF RunsWild, Stop, Inv
    <2> QED
      BY <2>1, <2>2, TokenizeStack, StayStack, EnterObjectStack, EnterArrayStack,
         EnterElementStack, LeaveStack DEF Next, Finished
  <1> QED BY <1>1, <1>2, ScanTyped, PTL DEF Spec, Inv

(* json_parse_response never has more than six activation records: five    *)
(* below json_parse_object of the actions rules, whatever the nesting of   *)
(* the response (parse.c:101, 130, 251 follow the rules, not the tokens).  *)
THEOREM ScanDepth == Spec => []RecursionBounded
  <1>1. Inv => RecursionBounded
    <2> SUFFICES ASSUME Inv PROVE Len(frames) <= MaxDepth
      BY DEF RecursionBounded
    <2>1. frames \in Seq(Frames) /\ Len(frames) \in Nat
      BY LenProperties DEF Inv, TypeOK
    <2>2. CASE Len(frames) = 0
      BY <2>2 DEF MaxDepth
    <2>3. CASE Len(frames) # 0
      <3>1. 1 \in 1..Len(frames)
        BY <2>1, <2>3
      <3>2. Level(frames[1]) + Len(frames) - 1 <= MaxDepth
        BY <3>1 DEF Inv, StackOK
      <3>3. Level(frames[1]) \in 1..MaxDepth
        BY <2>1, <3>1, ElementOfSeq, Levels
      <3> QED BY <2>1, <3>2, <3>3 DEF MaxDepth
    <2> QED BY <2>2, <2>3
  <1> QED BY <1>1, ScanInv, PTL

(* During the scan of element i the rules point into element i of the      *)
(* caller's array (array_element_bind of parse.c:247).                     *)
THEOREM ScanBindsElement == Spec => []BoundIsElement
  <1>1. Inv => BoundIsElement
    BY DEF Inv, StackOK, BoundIsElement
  <1> QED BY <1>1, ScanInv, PTL

(* And a field of an element is written only while the scan is in that     *)
(* element: what was stored for another one stays as it is.                *)
THEOREM ScanWritesInElement == Spec => WrittenInElement
  <1>1. Inv /\ [Next]_vars =>
          [ \A d \in DOMAIN store' :
              \/ d \in DOMAIN store /\ store'[d] = store[d]
              \/ d[1] = 0
              \/ \E k \in 2..Len(frames) : frames[k].kind = "array" /\ d[1] = frames[k].i + 1 ]_vars
    <2> SUFFICES ASSUME Inv, [Next]_vars, NEW d \in DOMAIN store',
                        ~ (d \in DOMAIN store /\ store'[d] = store[d]), d[1] # 0
                 PROVE  \E k \in 2..Len(frames) : frames[k].kind = "array" /\ d[1] = frames[k].i + 1
      OBVIOUS
    <2>1. StoreScalar
      BY StepKeeps DEF vars
    <2>2. Scanning("object") /\ TypeOK /\ StackOK(frames, bound)
      BY <2>1 DEF StoreScalar, Inv
    <2>3. PICK n \in 1..Len(KeyRules) :
              Hit(n) /\ Scalar(n) /\ store' = Put(store, Destination(n), At + 1)
      BY <2>1 DEF StoreScalar
    <2>4. d = Destination(n)
      BY <2>3 DEF Put
    <2>5. ~ KeyRules[n].fixed /\ d[1] = bound
      BY <2>4 DEF Destination
    <2>6. /\ Frame = frames[1] /\ Frame \in ObjectFrames /\ RuleFits(Frame.list, n)
          /\ Len(frames) \in Nat \ {0}
      BY <2>2, <2>3, ObjectTop, TopFrame
    <2>7. frames[1].kind = "object" /\ frames[1].list \in ElementLists
      BY <2>3, <2>5, <2>6 DEF RuleFits, KeyRules, Scalar, ObjectFrames
    <2>8. PICK j \in (1 + 1)..Len(frames) : frames[j].kind = "array"
      BY <2>2, <2>6, <2>7 DEF StackOK
    <2>9. j \in 2..Len(frames)
      BY <2>8
    <2>10. bound = frames[j].i + 1
      BY <2>2, <2>8, <2>9 DEF StackOK
    <2> QED BY <2>5, <2>8, <2>9, <2>10
  <1> QED BY <1>1, ScanInv, PTL DEF Spec, WrittenInElement

=============================================================================
