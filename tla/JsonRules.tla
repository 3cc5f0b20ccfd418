------------------------------ MODULE JsonRules ------------------------------
(***************************************************************************)
(* The rule tables the API functions hand to json_parse_response           *)
(* (src/iotex_emb.c, src/response.c) and the binding of their rules to one *)
(* element of the caller's array (src/rule.c).                             *)
(*                                                                         *)
(* A rule list is named, and a rule names the list of its sub-object, so   *)
(* the tables are a finite graph of names.  A rule's destination is the    *)
(* pair <<list, key>>: every rule of a list writes a field of its own.     *)
(***************************************************************************)
EXTENDS Naturals, Sequences

NoList == "no_list"

(* A json_parse_rule.  fixed: the table itself gives it a value pointer.   *)
Rule(key, type, sub, fixed) ==
    [key |-> key, type |-> type, sub |-> sub, fixed |-> fixed]

Fixed(key, type)   == Rule(key, type, NoList, TRUE)
Unbound(key, type) == Rule(key, type, NoList, FALSE)
Sub(key, list)     == Rule(key, "OBJECT", list, FALSE)

ChainMetaRules == <<
    Fixed("height", "NUMBER64"), Fixed("numActions", "NUMBER64"),
    Fixed("tps", "NUMBER64"), Sub("epoch", "epoch"),
    Fixed("tpsFloat", "DOUBLE") >>

EpochRules == <<
    Fixed("num", "NUMBER64"), Fixed("height", "NUMBER64"),
    Fixed("gravityChainStartHeight", "NUMBER64") >>

AccountRules == << Sub("accountMeta", "account_meta") >>

AccountMetaRules == <<
    Fixed("address", "STR"), Fixed("balance", "NUMBER"),
    Fixed("nonce", "NUMBER"), Fixed("pendingNonce", "NUMBER"),
    Fixed("numActions", "NUMBER") >>

ActionsTopRules == <<
    Fixed("total", "NUMBER32"),
    Rule("actionInfo", "ARRAY", "action_info", TRUE) >>

ActionInfoRules == <<
    Sub("action", "action"), Unbound("actHash", "STR"),
    Unbound("blkHash", "STR"), Unbound("blkHeight", "NUMBER"),
    Unbound("sender", "STR"), Unbound("gasFee", "NUMBER"),
    Unbound("timestamp", "STR") >>

ActionRules == <<
    Unbound("signature", "STR"), Unbound("senderPubKey", "STR"),
    Sub("core", "action_core") >>

ActionCoreRules == <<
    Unbound("nonce", "NUMBER"), Unbound("version", "NUMBER"),
    Unbound("gasLimit", "NUMBER"), Unbound("gasPrice", "NUMBER"),
    Sub("transfer", "core_transfer") >>

CoreTransferRules == << Unbound("amount", "NUMBER"), Unbound("recipient", "STR") >>

(* The rule of the validators request has no key: it is the array itself,  *)
(* and no list of keys can be read from it.                                *)
ValidatorsTopRules == << Rule("", "ARRAY", "validator", TRUE) >>

ValidatorRules == <<
    Unbound("id", "STR"), Unbound("status", "BOOLEAN"), Sub("details", "details") >>

DetailsRules == <<
    Unbound("locktime", "NUMBER"), Unbound("minimum_amount", "NUMBER"),
    Sub("reward", "reward") >>

RewardRules == << Unbound("annual", "NUMBER") >>

HashRules == << Fixed("actionHash", "STR") >>

ContractRules == << Fixed("data", "STR") >>

Rules ==
    [ chain_meta    |-> ChainMetaRules,     epoch         |-> EpochRules,
      account       |-> AccountRules,       account_meta  |-> AccountMetaRules,
      actions       |-> ActionsTopRules,    action_info   |-> ActionInfoRules,
      action        |-> ActionRules,        action_core   |-> ActionCoreRules,
      core_transfer |-> CoreTransferRules,  validators    |-> ValidatorsTopRules,
      validator     |-> ValidatorRules,     details       |-> DetailsRules,
      reward        |-> RewardRules,        hash          |-> HashRules,
      contract      |-> ContractRules ]

Lists == DOMAIN Rules

(* The rules of a list that the loop "rule && rule->key" visits: none of   *)
(* the NULL list.                                                          *)
Keyed(l) == IF l \in {"validators", NoList} THEN << >> ELSE Rules[l]

-----------------------------------------------------------------------------
(* Binding: the keys each callback binds, list by list, and whether it     *)
(* gives the rule a buffer size.                                           *)
Bind(key, sized) == [key |-> key, sized |-> sized]

ActionInfoBindings ==
    [ action_info   |-> << Bind("actHash", TRUE), Bind("blkHash", TRUE),
                           Bind("blkHeight", FALSE), Bind("sender", TRUE),
                           Bind("gasFee", FALSE), Bind("timestamp", TRUE) >>,
      action        |-> << Bind("senderPubKey", TRUE), Bind("signature", TRUE) >>,
      action_core   |-> << Bind("nonce", FALSE), Bind("version", FALSE),
                           Bind("gasLimit", FALSE), Bind("gasPrice", FALSE) >>,
      core_transfer |-> << Bind("amount", FALSE), Bind("recipient", TRUE) >> ]

ValidatorBindings ==
    [ validator |-> << Bind("id", TRUE), Bind("status", FALSE) >>,
      details   |-> << Bind("locktime", FALSE), Bind("minimum_amount", FALSE) >>,
      reward    |-> << Bind("annual", FALSE) >> ]

(* strncmp(rule->key, key, strlen(key)) = 0: key is a prefix of rule->key. *)
ProperPrefix == { <<"action", "actionInfo">>, <<"num", "numActions">>,
                  <<"tps", "tpsFloat">>, <<"sender", "senderPubKey">>,
                  <<"action", "actionHash">> }

IsKeyPrefix(key, ruleKey) == key = ruleKey \/ <<key, ruleKey>> \in ProperPrefix

FirstOf(S) == IF S = {} THEN 0 ELSE CHOOSE n \in S : \A m \in S : n <= m
LastOf(S)  == IF S = {} THEN 0 ELSE CHOOSE n \in S : \A m \in S : m <= n

(* The index find_rule_by_key answers, 0 when no rule has the prefix.      *)
find_rule_by_key(l, key) ==
    FirstOf({ n \in 1..Len(Keyed(l)) : IsKeyPrefix(key, Keyed(l)[n].key) })

find_sub_rule_by_key(l, key) ==
    LET n == find_rule_by_key(l, key)
    IN  IF n = 0 THEN NoList ELSE Keyed(l)[n].sub

(* bind_rule_and_data over every list of a callback: what each rule of the *)
(* list points at afterwards, the last binding that finds it winning.      *)
NotBound == [key |-> "", sized |-> FALSE]

bind_rule_and_data(bindings) ==
    [ l \in DOMAIN bindings |->
        [ n \in 1..Len(Keyed(l)) |->
            (<<NotBound>> \o bindings[l])
                [1 + LastOf({ b \in 1..Len(bindings[l]) :
                                find_rule_by_key(l, bindings[l][b].key) = n })] ] ]

(* The callbacks find their sub lists by key, and bind nothing (answer -1) *)
(* when one is missing.                                                    *)
BindFailed == << >>

rule_action_info_bind ==
    IF \E act, core \in Lists :
           /\ act = find_sub_rule_by_key("action_info", "action")
           /\ core = find_sub_rule_by_key(act, "core")
           /\ find_sub_rule_by_key(core, "transfer") # NoList
    THEN bind_rule_and_data(ActionInfoBindings) ELSE BindFailed

rule_validator_bind ==
    IF \E details \in Lists :
           /\ details = find_sub_rule_by_key("validator", "details")
           /\ find_sub_rule_by_key(details, "reward") # NoList
    THEN bind_rule_and_data(ValidatorBindings) ELSE BindFailed

(* array_element_bind of the array rule whose elements have the list l.    *)
array_element_bind(l) ==
    IF l = "action_info" THEN rule_action_info_bind ELSE rule_validator_bind

=============================================================================
