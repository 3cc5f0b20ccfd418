-------------------------------- MODULE Request --------------------------------
(***************************************************************************)
(* req_basic_request of src/request.c: one HTTP exchange through a curl    *)
(* handle, whose body arrives in chunks in _curl_write_callback, is        *)
(* collected in a heap block that grows with realloc, and is copied with a *)
(* terminating zero to the caller's buffer if it fits.                     *)
(*                                                                         *)
(* curl and the server are the environment: the transfer may end or break  *)
(* between any two chunks, and an allocation may fail.  The server's body  *)
(* is the bytes 1, 2, 3, ..., so that memory shows what was copied where.  *)
(***************************************************************************)
EXTENDS Integers, Sequences

CONSTANTS NULL,        \* the null pointer
          MaxRes,      \* response_max_size
          ChunkSizes,  \* the sizes of the chunks curl hands over
          MaxBody      \* bound: the server sends at most so many bytes

ASSUME RequestAssumption ==
    /\ MaxRes \in Nat \ {0}
    /\ ChunkSizes \subseteq Nat \ {0}
    /\ MaxBody \in Nat
    /\ NULL \notin Seq(Nat)

VARIABLES rpc,       \* where req_basic_request stands
          is_post,
          handle,    \* curl handles opened and not cleaned up
          res_data,  \* res.data: NULL, or the bytes of the block it points to
          res_len,   \* res.len
          sent,      \* bytes of the body the server has sent so far
          response,  \* the caller's buffer: NULL while nothing is written
          rret,      \* the value returned
          blocks     \* blocks allocated for res.data in this exchange and not freed

requestVars == <<rpc, is_post, handle, res_data, res_len, sent, response, rret, blocks>>

RequestInit ==
    /\ rpc = "idle" /\ is_post = FALSE /\ handle = 0
    /\ res_data = NULL /\ res_len = 0 /\ sent = 0
    /\ response = NULL /\ rret = 0 /\ blocks = 0

(* The locals of a new call, whose blocks are counted anew.  A handle that *)
(* was not cleaned up stays open.                                          *)
RequestReset ==
    /\ rpc' = "idle" /\ is_post' = FALSE
    /\ res_data' = NULL /\ res_len' = 0 /\ sent' = 0
    /\ response' = NULL /\ rret' = 0 /\ blocks' = 0
    /\ UNCHANGED handle

Return(code) == rpc' = "returned" /\ rret' = code

EasyInit    == handle' = handle + 1
EasyCleanup == handle' = handle - 1

-----------------------------------------------------------------------------
CurlInitFails(post) ==
    /\ rpc = "idle"
    /\ is_post' = post
    /\ Return(-1)
    /\ UNCHANGED <<handle, res_data, res_len, sent, response, blocks>>

(* curl_easy_init, the options, and the call of curl_easy_perform. *)
Perform(post) ==
    /\ rpc = "idle"
    /\ rpc' = "perform" /\ is_post' = post
    /\ EasyInit
    /\ UNCHANGED <<res_data, res_len, sent, response, rret, blocks>>

(* memcpy(block + res.len, chunk, n) into a block of res.len + n bytes.    *)
Appended(n) ==
    [p \in 1..(res_len + n) |-> IF p <= res_len THEN res_data[p] ELSE sent + p - res_len]

(* malloc for the first chunk, realloc of the same block for the others.   *)
Chunk(n) ==
    /\ rpc = "perform" /\ sent + n <= MaxBody
    /\ blocks' = IF res_data = NULL THEN blocks + 1 ELSE blocks
    /\ res_data' = Appended(n)
    /\ res_len' = res_len + n
    /\ sent' = sent + n
    /\ UNCHANGED <<rpc, is_post, handle, response, rret>>

(* _free_response_data *)
FreeResponseData ==
    /\ res_data' = NULL
    /\ IF res_data = NULL THEN UNCHANGED <<res_len, blocks>>
       ELSE res_len' = 0 /\ blocks' = blocks - 1

(* malloc or realloc fails: the callback frees what it has and answers 0,  *)
(* on which curl gives up the transfer.                                    *)
ChunkAllocFails(n) ==
    /\ rpc = "perform" /\ sent + n <= MaxBody
    /\ rpc' = "aborted"
    /\ sent' = sent + n
    /\ FreeResponseData
    /\ UNCHANGED <<is_post, handle, response, rret>>

(* Mutant: curl's own (positive) code is returned.                         *)
PerformFailsWithCode ==
    /\ rpc \in {"perform", "aborted"}
    /\ EasyCleanup
    /\ Return(7)
    /\ UNCHANGED <<is_post, res_data, res_len, sent, response, blocks>>

(* curl_easy_perform returns an error: the handle is cleaned up, res is    *)
(* left as it is and goes out of scope.                                    *)
PerformFails ==
    /\ rpc \in {"perform", "aborted"}
    /\ EasyCleanup
    /\ Return(-1)
    /\ UNCHANGED <<is_post, res_data, res_len, sent, response, blocks>>

PerformEnds ==
    /\ rpc = "perform"
    /\ rpc' = "check"
    /\ UNCHANGED <<is_post, handle, res_data, res_len, sent, response, rret, blocks>>

TooLong ==
    /\ rpc = "check" /\ res_len + 1 > MaxRes
    /\ FreeResponseData
    /\ EasyCleanup
    /\ Return(-1)
    /\ UNCHANGED <<is_post, sent, response>>

(* Mutant: no room is kept for the terminating zero.                       *)
CopyOutTight ==
    /\ rpc = "check" /\ ~ (res_len > MaxRes)
    /\ response' = [p \in 1..(res_len + 1) |-> IF p <= res_len THEN res_data[p] ELSE 0]
    /\ FreeResponseData
    /\ EasyCleanup
    /\ Return(0)
    /\ UNCHANGED <<is_post, sent>>

CopyOut ==
    /\ rpc = "check" /\ ~ (res_len + 1 > MaxRes)
    /\ response' = [p \in 1..(res_len + 1) |-> IF p <= res_len THEN res_data[p] ELSE 0]
    /\ FreeResponseData
    /\ EasyCleanup
    /\ Return(0)
    /\ UNCHANGED <<is_post, sent>>

RequestStep ==
    \/ \E n \in ChunkSizes : Chunk(n) \/ ChunkAllocFails(n)
    \/ PerformFails \/ PerformEnds \/ TooLong \/ CopyOut

RequestNext ==
    \/ \E post \in BOOLEAN : CurlInitFails(post) \/ Perform(post)
    \/ RequestStep
    \/ rpc = "returned" /\ RequestReset

RequestSpec == RequestInit /\ [][RequestNext]_requestVars

-----------------------------------------------------------------------------
Bytes == Seq(Nat)

RequestTypeOK ==
    /\ rpc \in {"idle", "perform", "aborted", "check", "returned"}
    /\ is_post \in BOOLEAN /\ handle \in Int /\ blocks \in Int
    /\ res_len \in Nat /\ sent \in Nat /\ rret \in {0, -1}
    /\ res_data = NULL \/ res_data \in Bytes
    /\ response = NULL \/ response \in Bytes

(* A response handed to the caller is the server's whole body, in order    *)
(* and once, terminated inside the caller's buffer (request.c:133, 267,    *)
(* 274); a failed request hands over nothing.                              *)
ResponseIsBody ==
    rpc = "returned" =>
        IF rret = 0
        THEN /\ Len(response) = sent + 1 /\ Len(response) <= MaxRes
             /\ \A p \in 1..sent : response[p] = p
             /\ response[sent + 1] = 0
        ELSE response = NULL

(* Every exit cleans the handle up once and frees the collected body once, *)
(* a failing realloc in mid-body too (request.c:123-127), except the one   *)
(* after a transfer that broke with part of the body received              *)
(* (request.c:261): what is lost there is only ever that part's one block. *)
ReleasedUnlessBroken ==
    /\ rpc = "returned" =>
        /\ handle = 0
        /\ blocks # 0 => blocks = 1 /\ rret = -1 /\ sent > 0
    /\ rpc = "aborted" => blocks = 0

=============================================================================
