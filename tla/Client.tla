-------------------------------- MODULE Client --------------------------------
(***************************************************************************)
(* One application thread that uses the API of src/iotex_emb.c: it         *)
(* configures the library (Config) and makes blocking calls, each of which *)
(* composes a URL from the configuration, allocates a response buffer,     *)
(* runs one HTTP exchange (Request), parses the reply and turns what it    *)
(* got into a return code (src/response.c).                                *)
(*                                                                         *)
(* What json_parse_response makes of a reply is nondeterministic here,     *)
(* within what JsonScan shows of it: an empty body never parses, a parse   *)
(* may fill any part of the output before it fails, and a parse that       *)
(* succeeds fills at most the caller's array.                              *)
(***************************************************************************)
EXTENDS Config, Request

CONSTANTS ArgLens,     \* lengths of the formatted arguments of a GET URL
          PackedLens,  \* what proto_gen_*_action may answer
          Totals,      \* values of the "total" member of an action list
          MaxActions   \* max_size of iotex_emb_get_action_by_addr

ASSUME ClientAssumption ==
    /\ ArgLens \subseteq Nat /\ PackedLens \subseteq Int
    /\ Totals \subseteq Int /\ MaxActions \in Nat
    /\ \A n \in PackedLens : n < 1024

VARIABLES cpc,          \* where the running call stands, idle between calls
          api,          \* the running call, or the last one
          url,          \* the composed URL
          buffer,       \* response buffers allocated and not freed
          reached,      \* the server has the running request
          posts,        \* how often it has received this call's POST
          ret,          \* what the last call returned
          filled,       \* array elements, or structures, the parse has filled
          actual_size,  \* *actual_size of the list requests
          error_desc    \* *error_desc of the POST requests

callVars == <<cpc, api, url, buffer, reached, posts, ret, filled, actual_size, error_desc>>
vars == <<configVars, requestVars, callVars>>

-----------------------------------------------------------------------------
IOTEX_EMB_MAX_URL_LEN == 256
IOTEX_EMB_MAX_ACB_LEN == 1024
BaseLen == 27   \* strlen("https://pharos.iotex.io/v1/")

(* The lengths of each request's one or two path parts.*)
PathParts(req) ==
    CASE req = "GET_ACCOUNT"            -> <<8>>
      [] req = "GET_CHAINMETA"          -> <<9>>
      [] req = "GET_ACTIONS_BY_ADDR"    -> <<7, 4>>
      [] req = "GET_ACTIONS_BY_HASH"    -> <<7, 4>>
      [] req = "READ_CONTRACT_BY_ADDR"  -> <<8, 4>>
      [] req = "GET_TRANSFERS_BY_BLOCK" -> <<9, 5>>
      [] req = "GET_MEMBER_VALIDATORS"  -> <<7, 10>>
      [] req = "SEND_SIGNED_ACTION_BYTES" -> <<11>>

NoArgs == {"GET_CHAINMETA", "GET_MEMBER_VALIDATORS"}

(* The NULL that req_compose_url returns when the buffer is too short.     *)
NoUrl == [ver |-> -1, whole |-> FALSE]

(* Where the URL ends behind its k-th path part, a slash after each.       *)
UrlTail(parts, k) ==
    BaseLen + (IF k >= 1 THEN parts[1] + 1 ELSE 0) + (IF k >= 2 THEN parts[2] + 1 ELSE 0)

(* The path parts must fit; the arguments are cut where the buffer ends.   *)
req_compose_url(max, req, argLen) ==
    LET parts == PathParts(req)
    IN  IF \E k \in 1..Len(parts) : ~ (UrlTail(parts, k) < max) THEN NoUrl
        ELSE [ver   |-> config.ver,
              whole |-> req \in NoArgs \/ argLen < max - UrlTail(parts, Len(parts))]

GetRequest ==
    [ chain_meta     |-> "GET_CHAINMETA",         account_meta   |-> "GET_ACCOUNT",
      transfer_block |-> "GET_TRANSFERS_BY_BLOCK", action_by_hash |-> "GET_ACTIONS_BY_HASH",
      action_by_addr |-> "GET_ACTIONS_BY_ADDR",   read_contract  |-> "READ_CONTRACT_BY_ADDR",
      validators     |-> "GET_MEMBER_VALIDATORS" ]

GetApis   == DOMAIN GetRequest
PostApis  == {"transfer", "execution"}
OneAction == {"transfer_block", "action_by_hash"}

Unset == -1

Init ==
    /\ ConfigInit /\ RequestInit
    /\ cpc = "idle" /\ api = "none" /\ url = NoUrl
    /\ buffer = 0 /\ reached = FALSE /\ posts = 0
    /\ ret = 0 /\ filled = 0 /\ actual_size = Unset /\ error_desc = "callers"

-----------------------------------------------------------------------------
(* Between calls the application configures the library.                   *)
iotex_emb_init ==
    /\ cpc = "idle"
    /\ \E arg \in Configs \cup {NoConfig} : init_config(arg)
    /\ UNCHANGED <<requestVars, callVars>>

iotex_emb_exit ==
    /\ cpc = "idle"
    /\ clear_config
    /\ UNCHANGED <<requestVars, callVars>>

CertificateChanges ==
    /\ cpc = "idle"
    /\ FileChanges
    /\ UNCHANGED <<requestVars, callVars>>

(* A call begins with the caller's output untouched; it ends at once with  *)
(* a code, or goes on with its URL.                                        *)
Begin(a) ==
    /\ cpc = "idle" /\ api' = a
    /\ filled' = 0 /\ actual_size' = Unset /\ error_desc' = "callers"
    /\ reached' = FALSE /\ posts' = 0
    /\ UNCHANGED <<configVars, requestVars, buffer>>

Refuse(code)   == cpc' = "idle" /\ ret' = code /\ url' = NoUrl
Proceed(u)     == cpc' = "malloc" /\ ret' = 0 /\ url' = u

ProceedOrRefuse(u) == IF u = NoUrl THEN Refuse(-IOTEX_E_URL) ELSE Proceed(u)

CallGet(a, argLen) ==
    /\ Begin(a)
    /\ ProceedOrRefuse(req_compose_url(IOTEX_EMB_MAX_URL_LEN, GetRequest[a], argLen))

(* Mutant: the POST's buffer has room for the action's bytes, not its hex. *)
CallPostShort(a, hasKey, packed) ==
    /\ Begin(a)
    /\ IF ~ hasKey THEN Refuse(-IOTEX_E_PRVKEY)
       ELSE IF packed <= 0 THEN Refuse(-IOTEX_E_PBPACK)
       ELSE ProceedOrRefuse(req_compose_url(IOTEX_EMB_MAX_URL_LEN + IOTEX_EMB_MAX_ACB_LEN,
                                            "SEND_SIGNED_ACTION_BYTES", 2 * packed))

(* iotex_emb_transfer, iotex_emb_execution and res_get_hash up to malloc.  *)
CallPost(a, hasKey, packed) ==
    /\ Begin(a)
    /\ IF ~ hasKey THEN Refuse(-IOTEX_E_PRVKEY)
       ELSE IF packed <= 0 THEN Refuse(-IOTEX_E_PBPACK)
       ELSE IF 2 * IOTEX_EMB_MAX_ACB_LEN < 2 * packed THEN Refuse(-IOTEX_E_HEX2STR)
       ELSE ProceedOrRefuse(req_compose_url(IOTEX_EMB_MAX_URL_LEN + 2 * IOTEX_EMB_MAX_ACB_LEN,
                                            "SEND_SIGNED_ACTION_BYTES", 2 * packed))

MallocFails ==
    /\ cpc = "malloc"
    /\ cpc' = "idle" /\ ret' = -IOTEX_E_MEM
    /\ UNCHANGED <<configVars, requestVars, api, url, buffer, reached, posts, filled,
                   actual_size, error_desc>>

MallocBuffer ==
    /\ cpc = "malloc"
    /\ cpc' = "http" /\ buffer' = buffer + 1
    /\ UNCHANGED <<configVars, requestVars, api, url, reached, posts, ret, filled,
                   actual_size, error_desc>>

-----------------------------------------------------------------------------
(* The HTTP exchange: the request reaches the server before any byte of    *)
(* the reply can come back, and may be lost before or after that.          *)
StartRequest ==
    /\ cpc = "http"
    /\ \/ Perform(api \in PostApis)
       \/ CurlInitFails(api \in PostApis)
    /\ UNCHANGED <<configVars, callVars>>

ReachServer ==
    /\ cpc = "http" /\ rpc = "perform" /\ ~ reached
    /\ reached' = TRUE
    /\ posts' = IF is_post THEN posts + 1 ELSE posts
    /\ UNCHANGED <<configVars, requestVars, cpc, api, url, buffer, ret, filled,
                   actual_size, error_desc>>

Transfer ==
    /\ cpc = "http"
    /\ IF reached THEN RequestStep ELSE PerformFails
    /\ UNCHANGED <<configVars, callVars>>

(* Each exit of res_get_data and res_get_hash frees the buffer itself.     *)
FreeBuffer == buffer' = buffer - 1

(* The call returns and the request's frame is gone.                       *)
End(code) ==
    /\ cpc' = "idle" /\ ret' = code
    /\ RequestReset
    /\ UNCHANGED <<configVars, api, url, reached, posts>>

(* Mutants: a failed exchange is tried again, always or when curl never    *)
(* reached the server.                                                     *)
Retry ==
    /\ RequestReset /\ reached' = FALSE
    /\ UNCHANGED <<configVars, cpc, api, url, buffer, ret, posts, filled,
                   actual_size, error_desc>>

HttpFailedRetried == cpc = "http" /\ rpc = "returned" /\ rret # 0 /\ Retry

HttpFailedRetriedUnsent ==
    /\ cpc = "http" /\ rpc = "returned" /\ rret # 0
    /\ \/ ~ reached /\ Retry
       \/ /\ reached /\ FreeBuffer /\ End(-IOTEX_E_REQUEST)
          /\ UNCHANGED <<filled, actual_size, error_desc>>

HttpFailed ==
    /\ cpc = "http" /\ rpc = "returned" /\ rret # 0
    /\ FreeBuffer
    /\ End(-IOTEX_E_REQUEST)
    /\ UNCHANGED <<filled, actual_size, error_desc>>

HasReply == cpc = "http" /\ rpc = "returned" /\ rret = 0

Slots == IF api = "action_by_addr" THEN MaxActions
         ELSE IF api = "validators" THEN MaxActions ELSE 1

(* A POST clears error_desc before it looks at the reply. *)
ClearErrorDesc == error_desc' = IF is_post THEN "null" ELSE error_desc

(* Mutant: the exit of a reply that does not parse keeps the buffer.       *)
ParseFailsHolding ==
    /\ HasReply
    /\ filled' \in 0..Slots
    /\ ClearErrorDesc
    /\ UNCHANGED <<actual_size, buffer>>
    /\ End(IF is_post THEN -IOTEX_E_RESPONSE ELSE -IOTEX_E_PARSE)

ParseFails ==
    /\ HasReply
    /\ FreeBuffer
    /\ filled' \in 0..Slots
    /\ ClearErrorDesc
    /\ UNCHANGED actual_size
    /\ End(IF is_post THEN -IOTEX_E_RESPONSE ELSE -IOTEX_E_PARSE)

Parsed ==
    /\ HasReply /\ Len(response) > 1
    /\ FreeBuffer
    /\ filled' \in 0..Slots
    /\ ClearErrorDesc

(* The requests that return what res_get_data or res_get_hash returns.     *)
ParsedPlain ==
    /\ api \in {"chain_meta", "account_meta"} \cup PostApis
    /\ Parsed
    /\ UNCHANGED actual_size
    /\ End(0)

(* actual_size is the array's size, and the whole array was processed.     *)
ParsedValidators ==
    /\ api = "validators"
    /\ Parsed
    /\ actual_size' = filled'
    /\ End(0)

(* res_get_actions returns total, which is 0 when the reply has none.      *)
ParsedOneAction(total) ==
    /\ api \in OneAction
    /\ Parsed
    /\ UNCHANGED actual_size
    /\ End(IF total # 1 THEN total ELSE 0)

ParsedActions(total) ==
    /\ api = "action_by_addr"
    /\ Parsed
    /\ actual_size' = IF total < 0 THEN actual_size ELSE total
    /\ End(IF total < 0 THEN total ELSE 0)

(* The data is converted from hex in place; signer_str2hex answers -1 when *)
(* it is no even number of hex digits.                                     *)
ParsedContract(isHex) ==
    /\ api = "read_contract"
    /\ Parsed
    /\ UNCHANGED actual_size
    /\ End(IF isHex THEN 0 ELSE -1)

-----------------------------------------------------------------------------
Answer ==
    \/ HttpFailed \/ ParseFails \/ ParsedPlain \/ ParsedValidators
    \/ \E total \in Totals : ParsedOneAction(total) \/ ParsedActions(total)
    \/ \E isHex \in BOOLEAN : ParsedContract(isHex)

(* The steps that wait for nobody: curl returns at once from a transfer    *)
(* its callback gave up.                                                   *)
OwnStep ==
    \/ MallocFails \/ MallocBuffer \/ StartRequest \/ Answer
    \/ rpc # "perform" /\ Transfer

Next ==
    \/ iotex_emb_init \/ iotex_emb_exit \/ CertificateChanges
    \/ \E a \in GetApis, n \in ArgLens : CallGet(a, n)
    \/ \E a \in PostApis, k \in BOOLEAN, n \in PackedLens : CallPost(a, k, n)
    \/ MallocFails \/ MallocBuffer
    \/ StartRequest \/ ReachServer \/ Transfer
    \/ Answer

Spec == Init /\ [][Next]_vars /\ WF_vars(OwnStep)

-----------------------------------------------------------------------------
(* The shape of the client's state. *)
TypeOK ==
    /\ ConfigTypeOK /\ RequestTypeOK
    /\ cpc \in {"idle", "malloc", "http"}
    /\ api \in GetApis \cup PostApis \cup {"none"}
    /\ url \in [ver : Nat \cup {-1}, whole : BOOLEAN]
    /\ buffer \in Int /\ reached \in BOOLEAN
    /\ posts \in Nat /\ ret \in Int /\ filled \in Nat
    /\ actual_size \in Int /\ error_desc \in {"callers", "null"}

(* A call hands its signed action to the server at most once: nothing in   *)
(* res_get_hash or req_basic_request sends a POST again (response.c:106).  *)
PostsOnce == posts <= 1

(* The codes of a POST call that was not sent.                             *)
Refusals == {-IOTEX_E_PRVKEY, -IOTEX_E_PBPACK, -IOTEX_E_HEX2STR, -IOTEX_E_URL, -IOTEX_E_MEM}

(* A POST call that reports an error of its own arguments or of memory     *)
(* left no trace on the chain, and one that reports anything but them and  *)
(* -IOTEX_E_REQUEST, success or a reply it cannot read, reached the server *)
(* (response.c:82-119).  Only that code leaves the application in doubt.   *)
PostOutcomeKnown ==
    cpc = "idle" /\ api \in PostApis =>
        /\ ret \in Refusals => posts = 0
        /\ ret \notin Refusals \cup {-IOTEX_E_REQUEST} => posts = 1

(* The hex of a packed action always fits the URL it is posted with: no    *)
(* POST carries a truncated action (response.c:56, 59, request.c:205).     *)
PostsWhole == cpc = "http" /\ api \in PostApis => url.whole

(* Every exit of a call frees what the call allocated, and nothing twice:  *)
(* the response buffer (response.c:36-49, 107-122), the curl handle and    *)
(* the block the body was collected in, however many chunks came and       *)
(* whichever allocation failed (request.c:123-127, 263-278).  The one      *)
(* exception is the block of a transfer that broke (request.c:261).        *)
ReleasedBetweenCalls ==
    /\ cpc = "idle" => buffer = 0 /\ handle = 0
    /\ rpc = "aborted" => blocks = 0
    /\ rpc = "returned" /\ blocks # 0 => blocks = 1 /\ rret = -1 /\ reached

(* A successful POST leaves no stale error description with the caller     *)
(* (response.c:116, iotex_emb.h:222).                                      *)
SuccessClearsErrorDesc ==
    cpc = "idle" /\ api \in PostApis /\ ret = 0 => error_desc = "null"

Learnt ==
    IF ret = -IOTEX_E_REQUEST THEN "doubt"
    ELSE IF ret \in Refusals THEN "refused" ELSE "confirmed"

(* The calls that submit an action, read from the client's state. *)
S == INSTANCE Submission WITH
        stage     <- IF api \in PostApis /\ cpc # "idle" THEN "open" ELSE "idle",
        delivered <- posts,
        outcome   <- IF api \in PostApis /\ cpc = "idle" THEN Learnt ELSE "none"

(* A call of res_get_hash submits its action as Submission promises: sent  *)
(* at most once, and its code tells a refusal, a delivery or doubt, over   *)
(* every chunking, failure and loss (response.c:53-124).                   *)
SubmitsOnce == S!Spec

(* The URL of a call made after a successful init has the version of a     *)
(* supported API (request.c:175 takes it from the configuration).          *)
InitialisedCallsSupported ==
    cpc # "idle" /\ initialised => url.ver \in SupportVersions

(* A call never hangs on its own: it comes back to the application or is   *)
(* in curl_easy_perform, which has no time limit (request.c:261).          *)
CallsReturnOrWait == cpc # "idle" ~> (cpc = "idle" \/ rpc = "perform")

=============================================================================
