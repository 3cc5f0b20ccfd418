----------------------------- MODULE Client_proofs -----------------------------
(***************************************************************************)
(* What a call of the API leaves behind, for every configuration, every    *)
(* network behaviour and every size: at most one POST, a known outcome for *)
(* every code but -IOTEX_E_REQUEST, and nothing allocated.                 *)
(***************************************************************************)
EXTENDS Client, WellFoundedInduction, TLAPS

-----------------------------------------------------------------------------
(* The configuration is cleared or complete after any sequence of inits,   *)
(* exits and changes of the file system, for every search list.            *)

(* A search that has hits has a first one.                                 *)
LEMMA LeastIndex ==
    ASSUME NEW T, T \subseteq Nat, T # {}
    PROVE  \E n \in T : \A m \in T : n <= m
  <1> DEFINE R == { rr \in Nat \X Nat : rr[1] < rr[2] }
  <1>1. IsWellFoundedOn(R, Nat)
    BY NatLessThanWellFounded DEF OpToRel
  <1>2. PICK n \in T : \A m \in T : ~ (<<m, n>> \in R)
    <2> HIDE DEF R
    <2> QED BY <1>1, WFMin
  <1>3. \A m \in T : ~ (m < n)
    BY <1>2
  <1> QED BY <1>3

(* A search answers a path of its list or the null pointer.                *)
LEMMA SearchType ==
    ASSUME NEW list \in Seq(Paths), NEW t
    PROVE  Search(list, t) \in Paths \cup {NoPath}
  <1> DEFINE hits == { n \in 1..Len(list) : fs[list[n]] = t }
  <1>1. CASE hits = {}
    BY <1>1 DEF Search
  <1>2. CASE hits # {}
    <2>1. \E n \in hits : \A m \in hits : n <= m
      <3>1. hits \subseteq Nat
        OBVIOUS
      <3> HIDE DEF hits
      <3> QED BY <1>2, <3>1, LeastIndex
    <2>2. (CHOOSE n \in hits : \A m \in hits : n <= m) \in hits
      BY <2>1
    <2> QED BY <1>2, <2>2 DEF Search
  <1> QED BY <1>1, <1>2

AnyConfig == [ver : Nat, verify : BOOLEAN,
              cert_dir : Paths \cup {NoPath}, cert_file : Paths \cup {NoPath}]

(* What init_config assembles is a configuration.                          *)
LEMMA PreparedType ==
    ASSUME ConfigTypeOK, NEW arg \in Configs \cup {NoConfig}
    PROVE  Prepared(arg) \in AnyConfig
  <1>1. /\ config_search_cert_dir \in Paths \cup {NoPath}
        /\ config_search_cert_file \in Paths \cup {NoPath}
    BY PathsAssumption, SearchType DEF config_search_cert_dir, config_search_cert_file
  <1>2. CASE arg # NoConfig
    <2>1. arg \in AnyConfig
      BY <1>2, PathsAssumption DEF Configs, AnyConfig
    <2> QED BY <1>1, <1>2, <2>1 DEF Prepared, AnyConfig
  <1>3. CASE arg = NoConfig
    BY <1>1, <1>3 DEF Prepared, AnyConfig, ConfigTypeOK
  <1> QED BY <1>2, <1>3

(* So is the cleared one.                                                  *)
LEMMA ClearedType == Cleared \in AnyConfig
  BY DEF Cleared, AnyConfig

ConfigInv == ConfigTypeOK /\ ClearedOrComplete

(* The zeroed global of config.c:11 satisfies the invariant.               *)
THEOREM ConfigInitially == ConfigInit => ConfigInv
  BY ClearedType DEF ConfigInit, ConfigInv, ConfigTypeOK, ClearedOrComplete, AnyConfig

(* init_config installs a complete configuration or clears it.             *)
LEMMA InitPreserves ==
    ASSUME ConfigInv, NEW arg \in Configs \cup {NoConfig}, init_config(arg)
    PROVE  ConfigInv'
  <1>1. ConfigTypeOK'
    <2>1. config' \in AnyConfig
      BY PreparedType, ClearedType DEF ConfigInv, init_config
    <2> QED BY <2>1 DEF ConfigInv, ConfigTypeOK, init_config, AnyConfig
  <1>2. CertFound(Prepared(arg)) =>
            Prepared(arg).cert_dir # NoPath \/ Prepared(arg).cert_file # NoPath
    BY DEF CertFound, get_file_type
  <1>3. ClearedOrComplete'
    BY <1>2 DEF init_config, ClearedOrComplete, VersionSupported
  <1> QED BY <1>1, <1>3 DEF ConfigInv

(* Nothing else sets the configuration.                                    *)
LEMMA OtherPreserves ==
    ASSUME ConfigInv, clear_config \/ FileChanges \/ UNCHANGED configVars
    PROVE  ConfigInv'
  <1>1. CASE clear_config
    BY <1>1, ClearedType DEF ConfigInv, ConfigTypeOK, ClearedOrComplete, clear_config, AnyConfig
  <1>2. CASE FileChanges
    BY <1>2 DEF ConfigInv, ConfigTypeOK, ClearedOrComplete, VersionSupported, FileChanges
  <1>3. CASE UNCHANGED configVars
    BY <1>3 DEF ConfigInv, ConfigTypeOK, ClearedOrComplete, VersionSupported, configVars
  <1> QED BY <1>1, <1>2, <1>3

(* Every step of config.c and of the file system keeps the invariant.      *)
THEOREM ConfigInductive == ConfigInv /\ [ConfigNext]_configVars => ConfigInv'
  BY InitPreserves, OtherPreserves DEF ConfigNext

(* The configuration is never half set (config.c:138, 145).                *)
THEOREM ConfigCorrect == ConfigSpec => [](ConfigTypeOK /\ ClearedOrComplete)
  <1>1. ConfigInv => ConfigTypeOK /\ ClearedOrComplete
    BY DEF ConfigInv
  <1> QED BY ConfigInitially, ConfigInductive, <1>1, PTL DEF ConfigSpec

-----------------------------------------------------------------------------
(* The memory of one HTTP exchange is handled correctly for every buffer   *)
(* size, every cutting of the body into chunks and every bound of it.      *)

USE DEF EasyInit, EasyCleanup

(* While the body arrives, the block holds the bytes sent so far.          *)
Collecting ==
    /\ handle = 1 /\ blocks = (IF res_data = NULL THEN 0 ELSE 1)
    /\ response = NULL
    /\ res_len = sent
    /\ \A p \in 1..sent : res_data # NULL => res_data[p] = p

(* The strengthening: what is true at each place of the function.          *)
RequestInv ==
    /\ RequestTypeOK
    /\ res_data = NULL => res_len = 0
    /\ res_data # NULL => Len(res_data) = res_len /\ sent > 0
    /\ rpc = "idle" => res_data = NULL /\ sent = 0 /\ response = NULL /\ handle = 0 /\ blocks = 0
    /\ rpc \in {"perform", "check"} => Collecting
    /\ rpc = "aborted" => res_data = NULL /\ response = NULL /\ handle = 1 /\ blocks = 0
    /\ ResponseIsBody
    /\ ReleasedUnlessBroken

(* A function on 1..k with naturals as values is a sequence of length k.   *)
LEMMA BytesOfLength ==
    ASSUME NEW k \in Nat, NEW f, f \in [1..k -> Nat]
    PROVE  f \in Bytes /\ Len(f) = k
  BY DEF Bytes

(* memcpy behind the collected bytes: the block grows by the chunk, and    *)
(* holds the body in order if it did before.                               *)
LEMMA AppendedIsBody ==
    ASSUME RequestInv, rpc = "perform", NEW n \in Nat \ {0}
    PROVE  /\ Appended(n) \in Bytes
           /\ Len(Appended(n)) = res_len + n
           /\ \A p \in 1..(sent + n) : Appended(n)[p] = p
  <1>1. res_len \in Nat /\ sent \in Nat /\ res_len = sent
    BY DEF RequestInv, RequestTypeOK, Collecting
  <1>2. \A p \in 1..(res_len + n) : Appended(n)[p] = p
    <2> SUFFICES ASSUME NEW p \in 1..(res_len + n) PROVE Appended(n)[p] = p
      OBVIOUS
    <2>1. CASE p <= res_len
      <3>1. res_data # NULL
        BY <1>1, <2>1 DEF RequestInv
      <3>2. res_data[p] = p
        BY <1>1, <2>1, <3>1 DEF RequestInv, Collecting
      <3> QED BY <2>1, <3>2 DEF Appended
    <2>2. CASE ~ (p <= res_len)
      BY <1>1, <2>2 DEF Appended
    <2> QED BY <2>1, <2>2
  <1>3. Appended(n) \in [1..(res_len + n) -> Nat]
    <2>1. \A p \in 1..(res_len + n) : Appended(n)[p] \in Nat
      BY <1>1, <1>2
    <2> QED BY <2>1 DEF Appended
  <1>4. res_len + n \in Nat
    BY <1>1
  <1> QED BY <1>1, <1>2, <1>3, <1>4, BytesOfLength

(* The invariant holds before the first request.                           *)
THEOREM RequestInitially == RequestInit => RequestInv
  <1> SUFFICES ASSUME RequestInit PROVE RequestInv
    OBVIOUS
  <1>1. RequestTypeOK
    <2>1. handle \in Int /\ blocks \in Int
      BY DEF RequestInit
    <2> QED BY <2>1 DEF RequestInit, RequestTypeOK
  <1>2. ResponseIsBody /\ ReleasedUnlessBroken
    BY DEF RequestInit, ResponseIsBody, ReleasedUnlessBroken
  <1> QED BY <1>1, <1>2 DEF RequestInit, RequestInv

(* Every action of the exchange preserves the strengthening.               *)
LEMMA CallPreserves ==
    ASSUME RequestInv, NEW post \in BOOLEAN, CurlInitFails(post) \/ Perform(post)
    PROVE  RequestInv'
  <1>1. CASE CurlInitFails(post)
    <2>1. RequestTypeOK'
      BY <1>1 DEF RequestInv, RequestTypeOK, CurlInitFails, Return
    <2>2. ResponseIsBody' /\ ReleasedUnlessBroken'
      BY <1>1 DEF RequestInv, CurlInitFails, Return, ResponseIsBody, ReleasedUnlessBroken
    <2> QED BY <1>1, <2>1, <2>2 DEF RequestInv, CurlInitFails, Return
  <1>2. CASE Perform(post)
    <2>1. RequestTypeOK'
      BY <1>2 DEF RequestInv, RequestTypeOK, Perform
    <2>2. Collecting'
      BY <1>2 DEF RequestInv, Perform, Collecting
    <2>3. ResponseIsBody' /\ ReleasedUnlessBroken'
      BY <1>2 DEF Perform, ResponseIsBody, ReleasedUnlessBroken
    <2> QED BY <1>2, <2>1, <2>2, <2>3 DEF RequestInv, Perform
  <1> QED BY <1>1, <1>2

(* A chunk is appended, or its allocation fails (request.c:105-136).       *)
LEMMA ChunkPreserves ==
    ASSUME RequestInv, NEW n \in ChunkSizes, Chunk(n) \/ ChunkAllocFails(n)
    PROVE  RequestInv'
  <1>n. n \in Nat \ {0}
    BY RequestAssumption
  <1>t. sent \in Nat /\ res_len \in Nat
    BY DEF RequestInv, RequestTypeOK
  <1>1. CASE Chunk(n)
    <2>a. /\ Appended(n) \in Bytes
          /\ Len(Appended(n)) = res_len + n
          /\ \A p \in 1..(sent + n) : Appended(n)[p] = p
      BY <1>1, <1>n, AppendedIsBody DEF Chunk
    <2>b. blocks' \in Int
      BY <1>1 DEF RequestInv, RequestTypeOK, Chunk
    <2>1. RequestTypeOK'
      BY <1>1, <1>n, <1>t, <2>a, <2>b DEF RequestInv, RequestTypeOK, Chunk
    <2>2. Collecting'
      BY <1>1, <1>n, <1>t, <2>a, RequestAssumption DEF RequestInv, Bytes, Chunk, Collecting
    <2>3. ResponseIsBody' /\ ReleasedUnlessBroken'
      BY <1>1 DEF Chunk, ResponseIsBody, ReleasedUnlessBroken
    <2>4. res_data' # NULL
      BY <1>1, <2>a, RequestAssumption DEF Chunk, Bytes
    <2> QED BY <1>1, <1>n, <1>t, <2>a, <2>1, <2>2, <2>3, <2>4 DEF RequestInv, Chunk
  <1>2. CASE ChunkAllocFails(n)
    <2>1. RequestTypeOK'
      BY <1>2, <1>n, <1>t DEF RequestInv, RequestTypeOK, ChunkAllocFails, FreeResponseData
    <2>2. ResponseIsBody' /\ ReleasedUnlessBroken'
      BY <1>2 DEF RequestInv, Collecting, ChunkAllocFails, FreeResponseData, ResponseIsBody, ReleasedUnlessBroken
    <2> QED BY <1>2, <2>1, <2>2 DEF RequestInv, ChunkAllocFails, FreeResponseData, Collecting
  <1> QED BY <1>1, <1>2

(* The transfer ends, breaks, or has brought too much (request.c:261-271). *)
LEMMA EndPreserves ==
    ASSUME RequestInv, PerformFails \/ PerformEnds \/ TooLong
    PROVE  RequestInv'
  <1>1. CASE PerformFails
    <2>1. RequestTypeOK'
      BY <1>1 DEF RequestInv, RequestTypeOK, PerformFails, Return
    <2>2. ResponseIsBody'
      BY <1>1 DEF RequestInv, Collecting, PerformFails, Return, ResponseIsBody
    <2>3. ReleasedUnlessBroken'
      <3>1. handle = 1 /\ blocks = IF res_data = NULL THEN 0 ELSE 1
        BY <1>1 DEF RequestInv, Collecting, PerformFails
      <3>2. handle' = 0 /\ blocks' \in {0, 1} /\ rret' = -1 /\ rpc' = "returned" /\ sent' = sent
        BY <1>1, <3>1 DEF PerformFails, Return
      <3>3. blocks' # 0 => sent > 0
        BY <1>1, <3>1 DEF RequestInv, Collecting, PerformFails, Return
      <3> QED BY <3>2, <3>3 DEF ReleasedUnlessBroken
    <2> QED BY <1>1, <2>1, <2>2, <2>3 DEF RequestInv, PerformFails, Return
  <1>2. CASE PerformEnds
    <2>1. RequestTypeOK'
      BY <1>2 DEF RequestInv, RequestTypeOK, PerformEnds
    <2>2. Collecting'
      BY <1>2 DEF RequestInv, PerformEnds, Collecting
    <2>3. ResponseIsBody' /\ ReleasedUnlessBroken'
      BY <1>2 DEF PerformEnds, ResponseIsBody, ReleasedUnlessBroken
    <2> QED BY <1>2, <2>1, <2>2, <2>3 DEF RequestInv, PerformEnds
  <1>3. CASE TooLong
    <2>1. RequestTypeOK'
      BY <1>3 DEF RequestInv, RequestTypeOK, TooLong, FreeResponseData, Return
    <2>2. ResponseIsBody' /\ ReleasedUnlessBroken'
      BY <1>3 DEF RequestInv, Collecting, TooLong, FreeResponseData, Return,
                  ResponseIsBody, ReleasedUnlessBroken
    <2> QED BY <1>3, <2>1, <2>2 DEF RequestInv, TooLong, FreeResponseData, Return
  <1> QED BY <1>1, <1>2, <1>3

(* The copy to the caller's buffer: the collected body and a zero.         *)
LEMMA CopyOutPreserves ==
    ASSUME RequestInv, CopyOut
    PROVE  RequestInv'
  <1>t. sent \in Nat /\ res_len = sent /\ Collecting
    BY DEF RequestInv, RequestTypeOK, CopyOut, Collecting
  <1>f. res_len + 1 <= MaxRes
    BY <1>t, RequestAssumption DEF CopyOut
  <1>1. /\ response' \in [1..(sent + 1) -> Nat]
        /\ \A p \in 1..sent : response'[p] = p
        /\ response'[sent + 1] = 0
    <2>1. \A p \in 1..sent : res_data[p] = p
      BY <1>t DEF RequestInv, Collecting
    <2> QED BY <1>t, <2>1 DEF CopyOut
  <1>2. response' \in Bytes /\ Len(response') = sent + 1
    BY <1>t, <1>1, BytesOfLength
  <1>3. RequestTypeOK'
    BY <1>2 DEF RequestInv, RequestTypeOK, CopyOut, FreeResponseData, Return
  <1>4. ResponseIsBody'
    BY <1>t, <1>f, <1>1, <1>2 DEF CopyOut, Return, ResponseIsBody
  <1>5. ReleasedUnlessBroken'
    BY <1>t DEF Collecting, CopyOut, FreeResponseData, Return, ReleasedUnlessBroken
  <1> QED BY <1>3, <1>4, <1>5 DEF RequestInv, CopyOut, FreeResponseData, Return

(* A fresh request satisfies the invariant because the last one has left   *)
(* no handle open.                                                         *)
LEMMA ResetEstablishes ==
    ASSUME RequestInv, rpc = "returned", RequestReset PROVE RequestInv'
  <1>h. handle = 0
    BY DEF RequestInv, ReleasedUnlessBroken
  <1>1. RequestTypeOK'
    <2>1. handle' \in Int /\ blocks' \in Int
      BY <1>h DEF RequestReset
    <2> QED BY <2>1 DEF RequestReset, RequestTypeOK
  <1>2. ResponseIsBody' /\ ReleasedUnlessBroken'
    BY DEF RequestReset, ResponseIsBody, ReleasedUnlessBroken
  <1> QED BY <1>h, <1>1, <1>2 DEF RequestReset, RequestInv

(* Every step between the call of curl and the return keeps it.            *)
LEMMA StepPreserves ==
    ASSUME RequestInv, RequestStep PROVE RequestInv'
  BY ChunkPreserves, EndPreserves, CopyOutPreserves DEF RequestStep

(* So does a step that leaves the request alone.                           *)
LEMMA StutterPreserves ==
    ASSUME RequestInv, UNCHANGED requestVars PROVE RequestInv'
  BY DEF requestVars, RequestInv, RequestTypeOK, Collecting, ResponseIsBody,
         ReleasedUnlessBroken

(* Every step of req_basic_request keeps the strengthening.                *)
THEOREM RequestInductive == RequestInv /\ [RequestNext]_requestVars => RequestInv'
  <1> SUFFICES ASSUME RequestInv, [RequestNext]_requestVars PROVE RequestInv'
    OBVIOUS
  <1>1. CASE \E post \in BOOLEAN : CurlInitFails(post) \/ Perform(post)
    BY <1>1, CallPreserves
  <1>2. CASE RequestStep
    BY <1>2, StepPreserves
  <1>3. CASE rpc = "returned" /\ RequestReset
    BY <1>3, ResetEstablishes
  <1>4. CASE UNCHANGED requestVars
    BY <1>4, StutterPreserves
  <1> QED BY <1>1, <1>2, <1>3, <1>4 DEF RequestNext

(* Every behaviour of req_basic_request, for every MaxRes, every set of    *)
(* chunk sizes and every MaxBody, has the three properties the TLC run     *)
(* checks on a small instance.                                             *)
THEOREM RequestCorrect ==
    RequestSpec => [](RequestTypeOK /\ ResponseIsBody /\ ReleasedUnlessBroken)
  <1>1. RequestInv => RequestTypeOK /\ ResponseIsBody /\ ReleasedUnlessBroken
    BY DEF RequestInv
  <1> QED BY RequestInitially, RequestInductive, <1>1, PTL DEF RequestSpec

-----------------------------------------------------------------------------
(* The calls.                                                              *)

ControlTypeOK ==
    /\ cpc \in {"idle", "malloc", "http"}
    /\ api \in GetApis \cup PostApis \cup {"none"}
    /\ reached \in BOOLEAN

UrlRecords == [ver : Nat \cup {-1}, whole : BOOLEAN]

UrlTypeOK == url \in UrlRecords

ResultTypeOK ==
    /\ buffer \in Int /\ posts \in Nat /\ ret \in Int /\ filled \in Nat
    /\ actual_size \in Int /\ error_desc \in {"callers", "null"}

CallTypeOK == ControlTypeOK /\ UrlTypeOK /\ ResultTypeOK

(* The request's frame and the response buffer exist only inside http.     *)
OutsideHttp ==
    /\ cpc # "http" => rpc = "idle" /\ buffer = 0
    /\ cpc = "http" => buffer = 1

NotYetReached == cpc = "malloc" \/ (cpc = "http" /\ rpc = "idle") => ~ reached

(* The server has this call's POST exactly when it has its request.        *)
PostCount == posts = IF reached /\ api \in PostApis THEN 1 ELSE 0

KindKnown == cpc = "http" /\ rpc # "idle" => is_post = (api \in PostApis)

(* No reply without a request.                                             *)
ReplyReached ==
    cpc = "http" /\ (rpc = "check" \/ (rpc = "returned" /\ rret = 0)) => reached

(* Nor a part of one.                                                      *)
PartReached == sent > 0 => reached

PostUrlWhole == cpc # "idle" /\ api \in PostApis => url.whole

CallInv ==
    /\ OutsideHttp /\ NotYetReached /\ PostCount /\ KindKnown /\ ReplyReached
    /\ PartReached /\ PostUrlWhole /\ PostOutcomeKnown /\ SuccessClearsErrorDesc

ClientInv == ConfigInv /\ RequestInv /\ CallTypeOK /\ CallInv

USE DEF IOTEX_E_NOERR, IOTEX_E_VER, IOTEX_E_CERT, IOTEX_E_URL, IOTEX_E_PRVKEY,
        IOTEX_E_MEM, IOTEX_E_REQUEST, IOTEX_E_PARSE, IOTEX_E_RESPONSE,
        IOTEX_E_UNSUPPORT, IOTEX_E_PBPACK, IOTEX_E_HEX2STR

(* The requests are GETs or POSTs, and neither before the first call.      *)
LEMMA ApisDisjoint ==
    /\ GetApis \cap PostApis = {}
    /\ "none" \notin PostApis
  BY DEF GetApis, GetRequest, PostApis

(* The NULL of req_compose_url is a URL record too.                        *)
LEMMA NoUrlType == NoUrl \in UrlRecords
  BY DEF NoUrl, UrlRecords

(* The strengthening holds before the first call (config.c:11).            *)
THEOREM ClientInitially == Init => ClientInv
  <1> SUFFICES ASSUME Init PROVE ClientInv
    OBVIOUS
  <1>1. ConfigInv /\ RequestInv
    BY ConfigInitially, RequestInitially DEF Init
  <1>2. CallTypeOK
    <2>1. ControlTypeOK
      BY DEF Init, ControlTypeOK
    <2>2. UrlTypeOK
      BY NoUrlType DEF Init, UrlTypeOK
    <2>3. ResultTypeOK
      BY DEF Init, ResultTypeOK, Unset
    <2> QED BY <2>1, <2>2, <2>3 DEF CallTypeOK
  <1>3. OutsideHttp /\ NotYetReached /\ PostCount /\ KindKnown /\ ReplyReached /\ PostUrlWhole
    BY DEF Init, RequestInit, OutsideHttp, NotYetReached, PostCount, KindKnown,
           ReplyReached, PostUrlWhole
  <1>4. PostOutcomeKnown /\ SuccessClearsErrorDesc
    BY ApisDisjoint DEF Init, PostOutcomeKnown, Refusals, SuccessClearsErrorDesc
  <1>5. PartReached
    BY DEF Init, RequestInit, PartReached
  <1> QED BY <1>1, <1>2, <1>3, <1>4, <1>5 DEF ClientInv, CallInv

(* A step that leaves the call and its request alone leaves CallInv alone. *)
LEMMA CallUnchanged ==
    ASSUME ClientInv, UNCHANGED <<requestVars, callVars>>
    PROVE  RequestInv' /\ CallTypeOK' /\ CallInv'
  <1>1. RequestInv'
    BY StutterPreserves DEF ClientInv
  <1>2. CallTypeOK'
    BY DEF ClientInv, callVars, CallTypeOK, ControlTypeOK, UrlTypeOK, ResultTypeOK
  <1>p. PartReached'
    BY DEF ClientInv, CallInv, PartReached, callVars, requestVars
  <1>3. CallInv'
    BY <1>p DEF ClientInv, callVars, requestVars, CallInv, OutsideHttp, NotYetReached,
           PostCount, KindKnown, ReplyReached, PostUrlWhole, PostOutcomeKnown,
           SuccessClearsErrorDesc
  <1> QED BY <1>1, <1>2, <1>3

(* Configuring between calls touches no call.                              *)
LEMMA ConfigureStep ==
    ASSUME ClientInv, iotex_emb_init \/ iotex_emb_exit \/ CertificateChanges
    PROVE  ClientInv'
  <1>1. ConfigInv'
    BY InitPreserves, OtherPreserves
       DEF ClientInv, iotex_emb_init, iotex_emb_exit, CertificateChanges
  <1>2. UNCHANGED <<requestVars, callVars>>
    BY DEF iotex_emb_init, iotex_emb_exit, CertificateChanges
  <1> QED BY <1>1, <1>2, CallUnchanged DEF ClientInv

(* The URL a call proceeds with is a URL record.                           *)
LEMMA UrlType ==
    ASSUME ClientInv, NEW max, NEW req, NEW n
    PROVE  req_compose_url(max, req, n) \in UrlRecords
  BY DEF ClientInv, ConfigInv, ConfigTypeOK, req_compose_url, NoUrl, UrlRecords

(* The POST buffer of res_get_hash holds the hex of any packed action.     *)
LEMMA PostUrlFits ==
    ASSUME NEW packed \in Int, packed < 1024
    PROVE  req_compose_url(IOTEX_EMB_MAX_URL_LEN + 2 * IOTEX_EMB_MAX_ACB_LEN,
                           "SEND_SIGNED_ACTION_BYTES", 2 * packed).whole
  <1> DEFINE max == IOTEX_EMB_MAX_URL_LEN + 2 * IOTEX_EMB_MAX_ACB_LEN
             req == "SEND_SIGNED_ACTION_BYTES"
             fits == req \in NoArgs
                       \/ 2 * packed < max - UrlTail(PathParts(req), Len(PathParts(req)))
  <1>1. PathParts(req) = <<11>>
    BY DEF PathParts
  <1>2. Len(<<11>>) = 1 /\ UrlTail(<<11>>, 1) = 39
    BY DEF UrlTail, BaseLen
  <1>3. max = 2304
    BY DEF IOTEX_EMB_MAX_URL_LEN, IOTEX_EMB_MAX_ACB_LEN
  <1> HIDE DEF max, req
  <1>p. Len(PathParts(req)) = 1 /\ UrlTail(PathParts(req), 1) = 39
    BY <1>1, <1>2
  <1>4. ~ \E k \in 1..Len(PathParts(req)) : ~ (UrlTail(PathParts(req), k) < max)
    BY <1>p, <1>3
  <1>5. 2 * packed < max - UrlTail(PathParts(req), Len(PathParts(req)))
    BY <1>p, <1>3
  <1>6. req_compose_url(max, req, 2 * packed) = [ver |-> config.ver, whole |-> fits]
    BY <1>4, Zenon DEF req_compose_url
  <1>7. fits
    BY <1>5
  <1> HIDE DEF fits
  <1>8. [ver |-> config.ver, whole |-> fits].whole
    BY <1>7, Zenon
  <1> QED BY <1>6, <1>8, Zenon DEF max, req

(* A GET that begins, or is refused for its URL, keeps the invariant.      *)
LEMMA BeginGet ==
    ASSUME ClientInv, NEW a \in GetApis, NEW n \in ArgLens, CallGet(a, n)
    PROVE  ClientInv'
  <1> DEFINE u == req_compose_url(IOTEX_EMB_MAX_URL_LEN, GetRequest[a], n)
  <1>u. u \in UrlRecords
    BY UrlType
  <1>0. Begin(a) /\ ProceedOrRefuse(u)
    BY DEF CallGet
  <1> HIDE DEF u
  <1>a. a \notin PostApis
    BY ApisDisjoint
  <1>1. ConfigInv' /\ RequestInv'
    BY <1>0, OtherPreserves, StutterPreserves DEF ClientInv, Begin
  <1>2. CallTypeOK'
    <2>1. ControlTypeOK'
      BY <1>0 DEF ClientInv, CallTypeOK, ControlTypeOK, Begin, ProceedOrRefuse, Refuse, Proceed
    <2>2. UrlTypeOK'
      BY <1>0, <1>u, NoUrlType DEF UrlTypeOK, ProceedOrRefuse, Refuse, Proceed
    <2>3. ResultTypeOK'
      BY <1>0 DEF ClientInv, CallTypeOK, ResultTypeOK, Begin, ProceedOrRefuse, Refuse, Proceed, Unset
    <2> QED BY <2>1, <2>2, <2>3 DEF CallTypeOK
  <1>p. PartReached'
    <2>1. rpc = "idle" /\ sent' = sent
      BY <1>0 DEF ClientInv, CallInv, OutsideHttp, Begin, requestVars
    <2>2. sent = 0
      BY <2>1 DEF ClientInv, RequestInv
    <2> QED BY <2>1, <2>2 DEF PartReached
  <1>3. CallInv'
    BY <1>p, <1>0, <1>a DEF ClientInv, Begin, ProceedOrRefuse, Refuse, Proceed, requestVars,
       CallInv, OutsideHttp, NotYetReached, PostCount, KindKnown, ReplyReached,
       PostUrlWhole, PostOutcomeKnown, Refusals, SuccessClearsErrorDesc
  <1> QED BY <1>1, <1>2, <1>3 DEF ClientInv

(* A POST that begins has a whole URL; one that is refused sent nothing.   *)
LEMMA BeginPost ==
    ASSUME ClientInv, NEW a \in PostApis, NEW k \in BOOLEAN, NEW n \in PackedLens,
           CallPost(a, k, n)
    PROVE  ClientInv'
  <1> DEFINE u == req_compose_url(IOTEX_EMB_MAX_URL_LEN + 2 * IOTEX_EMB_MAX_ACB_LEN,
                                  "SEND_SIGNED_ACTION_BYTES", 2 * n)
  <1>n. n \in Int /\ n < 1024
    BY ClientAssumption
  <1>u. u \in UrlRecords /\ u.whole
    BY <1>n, UrlType, PostUrlFits
  <1> HIDE DEF u
  <1>0. /\ Begin(a)
        /\ \/ \E code \in {-IOTEX_E_PRVKEY, -IOTEX_E_PBPACK, -IOTEX_E_HEX2STR, -IOTEX_E_URL} :
                Refuse(code)
           \/ Proceed(u)
    BY DEF CallPost, ProceedOrRefuse, u
  <1>1. ConfigInv' /\ RequestInv'
    BY <1>0, OtherPreserves, StutterPreserves DEF ClientInv, Begin
  <1>2. CallTypeOK'
    <2>1. ControlTypeOK'
      BY <1>0 DEF ClientInv, CallTypeOK, ControlTypeOK, Begin, Refuse, Proceed
    <2>2. UrlTypeOK'
      BY <1>0, <1>u, NoUrlType DEF UrlTypeOK, Refuse, Proceed
    <2>3. ResultTypeOK'
      BY <1>0 DEF ClientInv, CallTypeOK, ResultTypeOK, Begin, Refuse, Proceed, Unset
    <2> QED BY <2>1, <2>2, <2>3 DEF CallTypeOK
  <1>p. PartReached'
    <2>1. rpc = "idle" /\ sent' = sent
      BY <1>0 DEF ClientInv, CallInv, OutsideHttp, Begin, requestVars
    <2>2. sent = 0
      BY <2>1 DEF ClientInv, RequestInv
    <2> QED BY <2>1, <2>2 DEF PartReached
  <1>3. CallInv'
    BY <1>p, <1>0, <1>u DEF ClientInv, Begin, Refuse, Proceed, requestVars,
       CallInv, OutsideHttp, NotYetReached, PostCount, KindKnown, ReplyReached,
       PostUrlWhole, PostOutcomeKnown, Refusals, SuccessClearsErrorDesc
  <1> QED BY <1>1, <1>2, <1>3 DEF ClientInv

(* Without a buffer the call ends before anything was sent.                *)
LEMMA MallocStep ==
    ASSUME ClientInv, MallocFails \/ MallocBuffer PROVE ClientInv'
  <1>1. ConfigInv' /\ RequestInv'
    BY OtherPreserves, StutterPreserves DEF ClientInv, MallocFails, MallocBuffer
  <1>2. CallTypeOK'
    <2>1. ControlTypeOK'
      BY DEF ClientInv, CallTypeOK, ControlTypeOK, MallocFails, MallocBuffer
    <2>2. UrlTypeOK'
      BY DEF ClientInv, CallTypeOK, UrlTypeOK, MallocFails, MallocBuffer
    <2>3. ResultTypeOK'
      BY DEF ClientInv, CallTypeOK, ResultTypeOK, MallocFails, MallocBuffer
    <2> QED BY <2>1, <2>2, <2>3 DEF CallTypeOK
  <1>p. PartReached'
    BY DEF ClientInv, CallInv, PartReached, MallocFails, MallocBuffer, requestVars
  <1>3. CallInv'
    <2>1. CASE MallocFails
      BY <1>p, <2>1 DEF ClientInv, CallTypeOK, ControlTypeOK, MallocFails, requestVars, CallInv,
         OutsideHttp, NotYetReached, PostCount, KindKnown, ReplyReached,
         PostUrlWhole, PostOutcomeKnown, Refusals, SuccessClearsErrorDesc
    <2>2. CASE MallocBuffer
      BY <1>p, <2>2 DEF ClientInv, CallTypeOK, ControlTypeOK, MallocBuffer, requestVars, CallInv,
         OutsideHttp, NotYetReached, PostCount, KindKnown, ReplyReached,
         PostUrlWhole, PostOutcomeKnown, Refusals, SuccessClearsErrorDesc
    <2> QED BY <2>1, <2>2
  <1> QED BY <1>1, <1>2, <1>3 DEF ClientInv

(* The three steps inside the exchange leave the call's own variables, but *)
(* for the server's side of it, alone.                                     *)
LEMMA StartStep ==
    ASSUME ClientInv, StartRequest PROVE ClientInv'
  <1> DEFINE post == api \in PostApis
  <1>0. CurlInitFails(post) \/ Perform(post)
    BY DEF StartRequest
  <1>c. cpc = "http" /\ rpc = "idle" /\ UNCHANGED <<configVars, callVars>>
    BY DEF StartRequest, Perform, CurlInitFails
  <1>1. ConfigInv' /\ RequestInv'
    <2>1. post \in BOOLEAN
      OBVIOUS
    <2> HIDE DEF post
    <2> QED BY <1>0, <1>c, <2>1, OtherPreserves, CallPreserves DEF ClientInv
  <1>2. CallTypeOK'
    BY <1>c DEF ClientInv, CallTypeOK, ControlTypeOK, UrlTypeOK, ResultTypeOK, callVars
  <1>3. /\ rpc' \in {"perform", "returned"} /\ is_post' = post
        /\ rpc' = "returned" => rret' = -1
    BY <1>0 DEF CurlInitFails, Perform, Return
  <1>p. PartReached'
    BY <1>0, <1>c DEF ClientInv, CallInv, PartReached, CurlInitFails, Perform, callVars
  <1>4. CallInv'
    BY <1>c, <1>3, <1>p DEF ClientInv, callVars, CallInv, OutsideHttp, NotYetReached, PostCount,
       KindKnown, ReplyReached, PostUrlWhole, PostOutcomeKnown, Refusals, SuccessClearsErrorDesc
  <1> QED BY <1>1, <1>2, <1>4 DEF ClientInv

(* The server receives the one request of the call.                        *)
LEMMA ReachStep ==
    ASSUME ClientInv, ReachServer PROVE ClientInv'
  <1>1. ConfigInv' /\ RequestInv'
    BY OtherPreserves, StutterPreserves DEF ClientInv, ReachServer
  <1>2. CallTypeOK'
    BY DEF ClientInv, CallTypeOK, ControlTypeOK, UrlTypeOK, ResultTypeOK, ReachServer
  <1>3. PostCount'
    <2>1. posts = 0
      BY DEF ClientInv, CallInv, PostCount, ReachServer
    <2>2. is_post = (api \in PostApis)
      BY Zenon DEF ClientInv, CallInv, KindKnown, ReachServer
    <2>3. reached' /\ api' = api /\ posts' = IF is_post THEN 1 ELSE 0
      BY <2>1 DEF ReachServer
    <2>4. posts' = IF api' \in PostApis THEN 1 ELSE 0
      BY <2>2, <2>3, Zenon
    <2> QED BY <2>3, <2>4 DEF PostCount
  <1>p. PartReached'
    BY DEF PartReached, ReachServer
  <1>4. CallInv'
    BY <1>3, <1>p DEF ClientInv, ReachServer, requestVars, CallInv, OutsideHttp, NotYetReached,
       KindKnown, ReplyReached, PostUrlWhole, PostOutcomeKnown, Refusals, SuccessClearsErrorDesc
  <1> QED BY <1>1, <1>2, <1>4 DEF ClientInv

(* The exchange goes on; without the server it can only fail.              *)
LEMMA TransferStep ==
    ASSUME ClientInv, Transfer PROVE ClientInv'
  <1>c. cpc = "http" /\ UNCHANGED <<configVars, callVars>>
    BY DEF Transfer
  <1>s. RequestStep
    BY DEF Transfer, RequestStep
  <1>1. ConfigInv' /\ RequestInv'
    BY <1>c, <1>s, OtherPreserves, StepPreserves DEF ClientInv
  <1>2. CallTypeOK'
    BY <1>c DEF ClientInv, CallTypeOK, ControlTypeOK, UrlTypeOK, ResultTypeOK, callVars
  <1>3. rpc # "idle" /\ rpc' # "idle" /\ is_post' = is_post
    BY <1>s DEF RequestStep, Chunk, ChunkAllocFails, PerformFails, PerformEnds, TooLong,
                CopyOut, Return
  <1>4. ~ reached => rpc' = "returned" /\ rret' = -1
    BY DEF Transfer, PerformFails, Return
  <1>p. PartReached'
    <2>1. CASE reached
      BY <1>c, <2>1 DEF PartReached, callVars
    <2>2. CASE ~ reached
      BY <1>c, <2>2 DEF ClientInv, CallInv, PartReached, Transfer, PerformFails, callVars
    <2> QED BY <2>1, <2>2
  <1>5. CallInv'
    BY <1>c, <1>3, <1>4, <1>p DEF ClientInv, callVars, CallInv, OutsideHttp, NotYetReached,
       PostCount, KindKnown, ReplyReached, PostUrlWhole, PostOutcomeKnown,
       SuccessClearsErrorDesc
  <1> QED BY <1>1, <1>2, <1>5 DEF ClientInv

(* A call may return any code as long as a POST's tells what happened to   *)
(* it: 0 and -IOTEX_E_RESPONSE only after a reply, 0 only with error_desc  *)
(* cleared, and no code that says that nothing was sent.                   *)
LEMMA Ending ==
    ASSUME ClientInv, cpc = "http", rpc = "returned",
           NEW code \in Int, FreeBuffer, End(code),
           filled' \in Nat, actual_size' \in Int, error_desc' \in {"callers", "null"},
           api \in PostApis =>
               /\ code \in {-IOTEX_E_REQUEST, -IOTEX_E_RESPONSE, 0}
               /\ code \in {-IOTEX_E_RESPONSE, 0} => rret = 0
               /\ code = 0 => error_desc' = "null"
    PROVE  ClientInv'
  <1>1. ConfigInv' /\ RequestInv'
    BY OtherPreserves, ResetEstablishes DEF ClientInv, End
  <1>2. CallTypeOK'
    <2>1. buffer' \in Int
      BY DEF ClientInv, CallTypeOK, ResultTypeOK, FreeBuffer
    <2> QED BY <2>1 DEF ClientInv, CallTypeOK, ControlTypeOK, UrlTypeOK, ResultTypeOK, End
  <1>r. rpc' = "idle"
    BY DEF End, RequestReset
  <1>3. OutsideHttp' /\ NotYetReached' /\ PostCount' /\ KindKnown' /\ ReplyReached' /\ PostUrlWhole'
    <2>1. OutsideHttp'
      BY <1>r DEF ClientInv, CallInv, End, FreeBuffer, OutsideHttp
    <2> QED BY <1>r, <2>1 DEF ClientInv, CallInv, End, NotYetReached, PostCount,
              KindKnown, ReplyReached, PostUrlWhole
  <1>4. PostOutcomeKnown'
    BY DEF ClientInv, CallInv, End, PostOutcomeKnown, Refusals, PostCount, ReplyReached
  <1>5. SuccessClearsErrorDesc'
    BY DEF End, SuccessClearsErrorDesc
  <1>6. PartReached'
    BY DEF End, RequestReset, PartReached
  <1> QED BY <1>1, <1>2, <1>3, <1>4, <1>5, <1>6 DEF ClientInv, CallInv

(* The number of elements or structures a parse may fill is a natural.     *)
LEMMA SlotsNat == Slots \in Nat
  BY ClientAssumption DEF Slots

(* Every way a call turns the end of its exchange into a code.             *)
LEMMA AnswerStep ==
    ASSUME ClientInv, Answer PROVE ClientInv'
  <1>t. /\ api \in GetApis \cup PostApis \cup {"none"}
        /\ filled \in Nat /\ actual_size \in Int /\ error_desc \in {"callers", "null"}
    BY DEF ClientInv, CallTypeOK, ControlTypeOK, ResultTypeOK
  <1>k. cpc = "http" /\ rpc = "returned" => is_post = (api \in PostApis)
    BY DEF ClientInv, CallInv, KindKnown
  <1>1. CASE HttpFailed
    <2>1. FreeBuffer /\ End(-IOTEX_E_REQUEST) /\ -IOTEX_E_REQUEST \in Int
      BY <1>1 DEF HttpFailed
    <2>2. cpc = "http" /\ rpc = "returned" /\ UNCHANGED <<filled, actual_size, error_desc>>
      BY <1>1 DEF HttpFailed
    <2> QED BY <2>1, <2>2, <1>t, Ending
  <1>2. CASE ParseFails
    <2> DEFINE code == IF is_post THEN -IOTEX_E_RESPONSE ELSE -IOTEX_E_PARSE
    <2>1. HasReply /\ FreeBuffer /\ End(code) /\ UNCHANGED actual_size /\ filled' \in Nat
          /\ error_desc' \in {"callers", "null"}
      BY <1>2, <1>t, SlotsNat DEF ParseFails, ClearErrorDesc
    <2>2. cpc = "http" /\ rpc = "returned" /\ rret = 0
      BY <2>1 DEF HasReply
    <2>3. code \in Int
      OBVIOUS
    <2>4. api \in PostApis => code = -IOTEX_E_RESPONSE
      <3>1. api \in PostApis => is_post
        BY <1>k, <2>2, Zenon
      <3> QED BY <3>1
    <2> HIDE DEF code
    <2> QED BY <2>1, <2>2, <2>3, <2>4, <1>t, Ending
  <1>p. ASSUME Parsed
        PROVE  /\ cpc = "http" /\ rpc = "returned" /\ rret = 0 /\ filled' \in Nat /\ FreeBuffer
               /\ error_desc' \in {"callers", "null"}
               /\ api \in PostApis => error_desc' = "null"
    <2>1. cpc = "http" /\ rpc = "returned" /\ rret = 0 /\ FreeBuffer
      BY <1>p DEF Parsed, HasReply
    <2>2. filled' \in Nat
      BY <1>p, SlotsNat DEF Parsed
    <2>3. error_desc' = IF is_post THEN "null" ELSE error_desc
      BY <1>p DEF Parsed, ClearErrorDesc
    <2>4. error_desc' \in {"callers", "null"}
      BY <2>3, <1>t
    <2>5. api \in PostApis => error_desc' = "null"
      <3>1. api \in PostApis => is_post
        BY <1>k, <2>1, Zenon
      <3> QED BY <2>3, <3>1
    <2> QED BY <2>1, <2>2, <2>4, <2>5
  <1>3. CASE ParsedPlain
    <2>1. Parsed /\ End(0) /\ UNCHANGED actual_size
      BY <1>3 DEF ParsedPlain
    <2> QED BY <2>1, <1>p, <1>t, Ending
  <1>4. CASE ParsedValidators
    <2>1. Parsed /\ End(0) /\ actual_size' = filled' /\ api \notin PostApis
      BY <1>4 DEF ParsedValidators, PostApis
    <2> QED BY <2>1, <1>p, Ending
  <1>5. ASSUME NEW total \in Totals, ParsedOneAction(total)
        PROVE  ClientInv'
    <2> DEFINE code == IF total # 1 THEN total ELSE 0
    <2>1. Parsed /\ End(code) /\ UNCHANGED actual_size /\ api \notin PostApis
      BY <1>5 DEF ParsedOneAction, PostApis, OneAction
    <2>2. code \in Int
      BY ClientAssumption
    <2> HIDE DEF code
    <2> QED BY <2>1, <2>2, <1>p, <1>t, Ending
  <1>6. ASSUME NEW total \in Totals, ParsedActions(total)
        PROVE  ClientInv'
    <2> DEFINE code == IF total < 0 THEN total ELSE 0
    <2>1. Parsed /\ End(code) /\ api \notin PostApis
      BY <1>6 DEF ParsedActions, PostApis
    <2>2. code \in Int /\ actual_size' \in Int
      BY <1>6, <1>t, ClientAssumption DEF ParsedActions
    <2> HIDE DEF code
    <2> QED BY <2>1, <2>2, <1>p, Ending
  <1>7. ASSUME NEW isHex \in BOOLEAN, ParsedContract(isHex)
        PROVE  ClientInv'
    <2> DEFINE code == IF isHex THEN 0 ELSE -1
    <2>1. Parsed /\ End(code) /\ UNCHANGED actual_size /\ api \notin PostApis
      BY <1>7 DEF ParsedContract, PostApis
    <2>2. code \in Int
      OBVIOUS
    <2> HIDE DEF code
    <2> QED BY <2>1, <2>2, <1>p, <1>t, Ending
  <1> QED BY <1>1, <1>2, <1>3, <1>4, <1>5, <1>6, <1>7 DEF Answer

(* Every step of the client keeps the strengthening.                       *)
THEOREM ClientInductive == ClientInv /\ [Next]_vars => ClientInv'
  <1> SUFFICES ASSUME ClientInv, [Next]_vars PROVE ClientInv'
    OBVIOUS
  <1>1. CASE iotex_emb_init \/ iotex_emb_exit \/ CertificateChanges
    BY <1>1, ConfigureStep
  <1>2. CASE \E a \in GetApis, n \in ArgLens : CallGet(a, n)
    BY <1>2, BeginGet
  <1>3. CASE \E a \in PostApis, k \in BOOLEAN, n \in PackedLens : CallPost(a, k, n)
    BY <1>3, BeginPost
  <1>4. CASE MallocFails \/ MallocBuffer
    BY <1>4, MallocStep
  <1>5. CASE StartRequest \/ ReachServer \/ Transfer
    BY <1>5, StartStep, ReachStep, TransferStep
  <1>6. CASE Answer
    BY <1>6, AnswerStep
  <1>7. CASE UNCHANGED vars
    <2>1. UNCHANGED configVars /\ UNCHANGED <<requestVars, callVars>>
      BY <1>7 DEF vars
    <2> QED BY <2>1, OtherPreserves, CallUnchanged DEF ClientInv
  <1> QED BY <1>1, <1>2, <1>3, <1>4, <1>5, <1>6, <1>7 DEF Next

(* What the strengthening says of the client's own properties.             *)
LEMMA ClientInvImplies ==
    ClientInv => /\ TypeOK /\ PostsOnce /\ PostOutcomeKnown /\ PostsWhole
                 /\ ReleasedBetweenCalls /\ SuccessClearsErrorDesc
  <1> SUFFICES ASSUME ClientInv
               PROVE  /\ TypeOK /\ PostsOnce /\ PostOutcomeKnown /\ PostsWhole
                      /\ ReleasedBetweenCalls /\ SuccessClearsErrorDesc
    OBVIOUS
  <1>1. TypeOK
    BY DEF ClientInv, ConfigInv, RequestInv, CallTypeOK, ControlTypeOK, UrlTypeOK,
           UrlRecords, ResultTypeOK, TypeOK
  <1>2. PostsOnce
    BY DEF ClientInv, CallInv, PostCount, PostsOnce
  <1>3. PostOutcomeKnown /\ SuccessClearsErrorDesc
    BY DEF ClientInv, CallInv
  <1>4. PostsWhole
    BY DEF ClientInv, CallInv, PostUrlWhole, PostsWhole
  <1>5. ReleasedBetweenCalls
    <2>1. cpc = "idle" => buffer = 0 /\ handle = 0
      BY DEF ClientInv, CallInv, OutsideHttp, RequestInv
    <2>2. rpc = "aborted" => blocks = 0
      BY DEF ClientInv, RequestInv
    <2>3. rpc = "returned" /\ blocks # 0 => blocks = 1 /\ rret = -1 /\ reached
      <3> SUFFICES ASSUME rpc = "returned", blocks # 0
                   PROVE  blocks = 1 /\ rret = -1 /\ reached
        OBVIOUS
      <3>1. blocks = 1 /\ rret = -1 /\ sent > 0
        BY DEF ClientInv, RequestInv, ReleasedUnlessBroken
      <3> QED BY <3>1 DEF ClientInv, CallInv, PartReached
    <2> QED BY <2>1, <2>2, <2>3 DEF ReleasedBetweenCalls
  <1> QED BY <1>1, <1>2, <1>3, <1>4, <1>5

(* The strengthening is an invariant of the client.                        *)
THEOREM ClientInvariant == Spec => []ClientInv
  BY ClientInitially, ClientInductive, PTL DEF Spec

(* Type correctness of the composed client.                                *)
THEOREM ClientTypes == Spec => []TypeOK
  BY ClientInvariant, ClientInvImplies, PTL

(* A POST is sent at most once, is sent whole, and every code but          *)
(* -IOTEX_E_REQUEST tells whether the server has it (response.c:53-124).   *)
THEOREM ClientPosts == Spec => [](PostsOnce /\ PostOutcomeKnown /\ PostsWhole)
  BY ClientInvariant, ClientInvImplies, PTL

(* No POST is ever sent to a URL that was cut off.                         *)
THEOREM ClientPostsWhole == Spec => []PostsWhole
  BY ClientPosts, PTL

(* Every exit of a call frees the response buffer, the curl handle and the *)
(* collected body exactly once, but for the one block of a transfer that   *)
(* broke; and a successful POST has cleared the caller's error             *)
(* description.                                                            *)
THEOREM ClientReleases == Spec => [](ReleasedBetweenCalls /\ SuccessClearsErrorDesc)
  BY ClientInvariant, ClientInvImplies, PTL

(* The client drives its two parts within their own specifications: each   *)
(* step of it is a step of the configuration, a step of the request, or    *)
(* leaves that part alone, so all that is proved of a part holds in it.    *)
THEOREM ClientUsesConfig == Spec => ConfigSpec
  <1>1. Init => ConfigInit
    BY DEF Init
  <1>2. [Next]_vars => [ConfigNext]_configVars
    <2> SUFFICES ASSUME [Next]_vars PROVE [ConfigNext]_configVars
      OBVIOUS
    <2>1. CASE iotex_emb_init \/ iotex_emb_exit \/ CertificateChanges
      BY <2>1 DEF iotex_emb_init, iotex_emb_exit, CertificateChanges, ConfigNext
    <2>2. CASE \/ \E a \in GetApis, n \in ArgLens : CallGet(a, n)
               \/ \E a \in PostApis, k \in BOOLEAN, n \in PackedLens : CallPost(a, k, n)
      BY <2>2 DEF CallGet, CallPost, Begin
    <2>3. CASE MallocFails \/ MallocBuffer \/ StartRequest \/ ReachServer \/ Transfer
      BY <2>3 DEF MallocFails, MallocBuffer, StartRequest, ReachServer, Transfer
    <2>4. CASE Answer
      BY <2>4 DEF Answer, HttpFailed, ParseFails, ParsedPlain, ParsedValidators,
                  ParsedOneAction, ParsedActions, ParsedContract, End
    <2>5. CASE UNCHANGED vars
      BY <2>5 DEF vars
    <2> QED BY <2>1, <2>2, <2>3, <2>4, <2>5 DEF Next
  <1> QED BY <1>1, <1>2, PTL DEF Spec, ConfigSpec

(* The same for the request: one exchange after the other (request.c:225). *)
THEOREM ClientUsesRequest == Spec => RequestSpec
  <1>1. Init => RequestInit
    BY DEF Init
  <1>2. [Next]_vars => [RequestNext]_requestVars
    <2> SUFFICES ASSUME [Next]_vars PROVE [RequestNext]_requestVars
      OBVIOUS
    <2>1. CASE iotex_emb_init \/ iotex_emb_exit \/ CertificateChanges
      BY <2>1 DEF iotex_emb_init, iotex_emb_exit, CertificateChanges
    <2>2. CASE \/ \E a \in GetApis, n \in ArgLens : CallGet(a, n)
               \/ \E a \in PostApis, k \in BOOLEAN, n \in PackedLens : CallPost(a, k, n)
      BY <2>2 DEF CallGet, CallPost, Begin
    <2>3. CASE MallocFails \/ MallocBuffer \/ ReachServer
      BY <2>3 DEF MallocFails, MallocBuffer, ReachServer
    <2>4. CASE StartRequest
      <3> DEFINE post == api \in PostApis
      <3>1. Perform(post) \/ CurlInitFails(post)
        BY <2>4 DEF StartRequest
      <3>2. post \in BOOLEAN
        OBVIOUS
      <3> HIDE DEF post
      <3> QED BY <3>1, <3>2 DEF RequestNext
    <2>5. CASE Transfer
      BY <2>5 DEF Transfer, RequestStep, RequestNext
    <2>6. CASE Answer
      <3>1. rpc = "returned" /\ RequestReset
        BY <2>6 DEF Answer, HttpFailed, ParseFails, ParsedPlain, ParsedValidators,
           ParsedOneAction, ParsedActions, ParsedContract, Parsed, HasReply, End
      <3> QED BY <3>1 DEF RequestNext
    <2>7. CASE UNCHANGED vars
      BY <2>7 DEF vars
    <2> QED BY <2>1, <2>2, <2>3, <2>4, <2>5, <2>6, <2>7 DEF Next
  <1> QED BY <1>1, <1>2, PTL DEF Spec, RequestSpec

(* A GET submits nothing. *)
LEMMA OtherCallsForget ==
    ASSUME ClientInv, NEW a \in GetApis, Begin(a)
    PROVE  [S!Next]_S!submission
  <1>1. api' \notin PostApis
    BY ApisDisjoint DEF Begin
  <1>2. cpc = "idle" /\ posts' = 0
    BY DEF Begin
  <1> QED BY <1>1, <1>2 DEF S!Next, S!Forget, S!None

(* A POST call is refused at once, or asked for. *)
LEMMA PostAsks ==
    ASSUME ClientInv, NEW a \in PostApis, NEW k \in BOOLEAN, NEW n \in PackedLens,
           CallPost(a, k, n)
    PROVE  [S!Next]_S!submission
  <1> DEFINE u == req_compose_url(IOTEX_EMB_MAX_URL_LEN + 2 * IOTEX_EMB_MAX_ACB_LEN,
                                  "SEND_SIGNED_ACTION_BYTES", 2 * n)
  <1>1. cpc = "idle" /\ api' \in PostApis /\ posts' = 0
    BY DEF CallPost, Begin
  <1>2. \/ \E code \in Refusals : Refuse(code)
        \/ Proceed(u)
    <2> HIDE DEF u
    <2>1. \/ Refuse(-IOTEX_E_PRVKEY) \/ Refuse(-IOTEX_E_PBPACK) \/ Refuse(-IOTEX_E_HEX2STR)
          \/ ProceedOrRefuse(u)
      BY DEF CallPost, u
    <2>2. ProceedOrRefuse(u) => Refuse(-IOTEX_E_URL) \/ Proceed(u)
      BY DEF ProceedOrRefuse
    <2> QED BY <2>1, <2>2 DEF Refusals
  <1> HIDE DEF u
  <1>3. CASE \E code \in Refusals : Refuse(code)
    <2>1. cpc' = "idle" /\ ret' \in Refusals
      BY <1>3 DEF Refuse
    <2>2. ret' # -IOTEX_E_REQUEST
      BY <2>1 DEF Refusals
    <2> QED BY <1>1, <2>1, <2>2 DEF S!Next, S!RefuseAtOnce, Learnt
  <1>4. CASE Proceed(u)
    BY <1>1, <1>4 DEF Proceed, S!Next, S!Ask
  <1> QED BY <1>2, <1>3, <1>4

(* While the call runs nothing is decided, and the server is reached once. *)
LEMMA CallGoesOn ==
    ASSUME ClientInv, cpc # "idle", cpc' # "idle", UNCHANGED api,
           posts' = posts \/ ReachServer
    PROVE  [S!Next]_S!submission
  <1>1. CASE posts' = posts
    BY <1>1 DEF S!submission
  <1>2. CASE ReachServer
    <2>1. ~ reached /\ rpc = "perform" /\ cpc = "http"
          /\ posts' = IF is_post THEN posts + 1 ELSE posts
      BY <1>2 DEF ReachServer
    <2>2. posts = 0
      BY <2>1 DEF ClientInv, CallInv, PostCount
    <2>3. is_post = (api \in PostApis)
      BY <2>1 DEF ClientInv, CallInv, KindKnown
    <2>4. CASE is_post
      <3>1. api \in PostApis /\ api' \in PostApis
        BY <2>3, <2>4, Zenon
      <3> QED BY <2>1, <2>2, <2>4, <3>1 DEF S!Next, S!Deliver
    <2>5. CASE ~ is_post
      BY <2>1, <2>5 DEF S!submission
    <2> QED BY <2>4, <2>5
  <1> QED BY <1>1, <1>2

(* The code a POST call ends with tells what became of its action.         *)
LEMMA CallEnds ==
    ASSUME ClientInv, ClientInv', cpc # "idle", cpc' = "idle", UNCHANGED <<api, posts>>
    PROVE  [S!Next]_S!submission
  <1>1. CASE api \notin PostApis
    BY <1>1 DEF S!submission
  <1>2. CASE api \in PostApis
    <2>1. CASE ret' = -IOTEX_E_REQUEST
      BY <1>2, <2>1 DEF S!Next, S!Doubt, S!End, Learnt
    <2>2. CASE ret' # -IOTEX_E_REQUEST /\ ret' \in Refusals
      <3>1. posts' = 0
        BY <1>2, <2>2 DEF ClientInv, CallInv, PostOutcomeKnown
      <3> QED BY <1>2, <2>2, <3>1 DEF S!Next, S!Refuse, S!End, Learnt
    <2>3. CASE ret' # -IOTEX_E_REQUEST /\ ret' \notin Refusals /\ posts' = 1
      BY <1>2, <2>3 DEF S!Next, S!Confirm, S!End, Learnt
    <2>4. ret' \in Refusals \cup {-IOTEX_E_REQUEST} \/ posts' = 1
      BY <1>2 DEF ClientInv, CallInv, PostOutcomeKnown
    <2> QED BY <2>1, <2>2, <2>3, <2>4
  <1> QED BY <1>1, <1>2

(* Refinement: a call of the client that submits an action does what       *)
(* Submission promises, on every network (response.c:53-124).              *)
THEOREM ClientSubmitsOnce == Spec => SubmitsOnce
  <1>1. Init => S!None
    BY ApisDisjoint DEF Init, S!None
  <1>2. ClientInv /\ ClientInv' /\ [Next]_vars => [S!Next]_S!submission
    <2> SUFFICES ASSUME ClientInv, ClientInv', [Next]_vars PROVE [S!Next]_S!submission
      OBVIOUS
    <2>1. CASE iotex_emb_init \/ iotex_emb_exit \/ CertificateChanges
      BY <2>1 DEF iotex_emb_init, iotex_emb_exit, CertificateChanges, callVars,
                  S!submission, Learnt
    <2>2. ASSUME NEW a \in GetApis, NEW n \in ArgLens, CallGet(a, n)
          PROVE  [S!Next]_S!submission
      BY <2>2, OtherCallsForget DEF CallGet
    <2>3. ASSUME NEW a \in PostApis, NEW k \in BOOLEAN, NEW n \in PackedLens,
                 CallPost(a, k, n)
          PROVE  [S!Next]_S!submission
      BY <2>3, PostAsks
    <2>4. CASE MallocBuffer \/ StartRequest \/ ReachServer \/ Transfer
      <3>1. cpc # "idle" /\ cpc' # "idle" /\ UNCHANGED api /\ (posts' = posts \/ ReachServer)
        BY <2>4 DEF MallocBuffer, StartRequest, ReachServer, Transfer, callVars
      <3> QED BY <3>1, CallGoesOn
    <2>5. CASE MallocFails \/ Answer
      <3>1. cpc # "idle" /\ cpc' = "idle" /\ UNCHANGED <<api, posts>>
        BY <2>5 DEF MallocFails, Answer, HttpFailed, ParseFails, ParsedPlain, ParsedValidators,
                    ParsedOneAction, ParsedActions, ParsedContract, Parsed, HasReply, End
      <3> QED BY <3>1, CallEnds
    <2>6. CASE UNCHANGED vars
      BY <2>6 DEF vars, callVars, S!submission, Learnt
    <2> QED BY <2>1, <2>2, <2>3, <2>4, <2>5, <2>6 DEF Next
  <1> QED BY <1>1, <1>2, ClientInvariant, PTL DEF Spec, SubmitsOnce, S!Spec

(* In the client, whatever it is called for: a reply handed on is the      *)
(* server's body, and nothing is lost but a broken transfer's part.        *)
THEOREM ClientReplies == Spec => [](ResponseIsBody /\ ReleasedUnlessBroken)
  BY ClientUsesRequest, RequestCorrect, PTL

(* The configuration is cleared or complete while calls come and go.       *)
THEOREM ClientConfigured == Spec => []ClearedOrComplete
  BY ClientUsesConfig, ConfigCorrect, PTL

=============================================================================
