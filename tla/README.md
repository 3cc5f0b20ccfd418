# TLA+ verification of iotex-antenna-embedded

A C library that lets an embedded device talk to the IoTeX blockchain through
the pharos HTTP gateway: it reads metadata, actions, validators and contract
data as JSON, and sends signed transfers and executions. These modules model
it, TLC checks them on small instances, and TLAPS proves part of what TLC
checks for every instance. Paths below are relative to `src/src/`.

## The system

| Component | State it keeps | Operations | Talks to |
|---|---|---|---|
| configuration, `config.c` | one global `__g_config` | `init_config`, `clear_config`, search for certificates | file system (`stat`) |
| HTTP request, `request.c` | one curl handle and one growing heap block per exchange | `req_compose_url`, `req_get_request`, `req_post_request`, `_curl_write_callback` | curl, which calls back with chunks; the server |
| API, `iotex_emb.c`, `response.c` | per call: URL, response buffer, the caller's outputs | nine blocking calls, init, exit | all others |
| JSON scanner, `parse.c` | recursion over a token array, a count of processed tokens | `json_parse_response`, `_object`, `_array` | tokenizer, rules |
| JSON rules, `rule.c` | static tables whose destinations are rebound for every list element | `find_rule_by_key`, the two binding callbacks | scanner |
| tokenizer, `jsmn.h` | a parser that has read part of a text, a token pool | `jsmn_parse` | scanner |
| amounts, `u128.c`, `utils.c` | none | text to 128-bit number and back, rau to iotx | applications, JSON values |
| hexadecimal, `signer.c` | none | `signer_hex2str`, `signer_str2hex` | API (contract data in place; POST body), keys |
| ABI, `abi_pack.c`, `abi_read_contract.c`, `endian_conv.c` | none | packing of published data, reading of an order | applications |
| protobuf, `pb_pack.c`, `pb_proto.c` | none; packs into the caller's buffer, recursively | `pb_pack`, `proto_gen_tx_action`, `proto_gen_ex_action` | signer |
| signing, `signer.c`, `crypto/` | hash context, deterministic nonce generator, sums of points | `keccak_256`, `ecdsa_sign_digest`, public key | protobuf |
| arithmetic, `crypto/bignum.c`, `crypto/ecdsa.c` | numbers of nine digits, reduced more or less | `bn_*`, `bn_inverse`, `scalar_multiply` | signing |
| nonces, `crypto/rfc6979.c`, `hmac_drbg.c`, `sha2.c` | an HMAC key as two hash states, V with its padding | seed, generate | signing |

Nothing in the library runs concurrently by itself. What makes it hard to test:

- the network: chunks of any size, a transfer that ends or breaks between any
  two, before or after the server has the request; curl is given no time limit;
- failing allocations at each of several exits of a call;
- one global configuration under a file system that changes between init and use;
- a recursive scan of an untyped token array whose windows are computed, over
  rule tables that are rebound while it runs;
- digit and byte conversions at their boundaries, one of them in place;
- an action that is packed twice, signed in between, with length bytes that
  grow after what they measure has been written;
- numbers that stay unreduced from call to call, by comments that say how far,
  and registers that two numbers share while one shrinks and one grows;
- hashes whose padding is kept in place or filled in by hand.

## Modules

| Module | Models | State and actions |
|---|---|---|
| `ErrorCodes` | `iotex_em_error` | constants |
| `Config` | `config.c` | `config`, `fs`, `initialised`; `init_config`, `clear_config`, `FileChanges` |
| `Request` | `req_basic_request` and its callback | the C locals; one action per callback, per result of `curl_easy_perform` and per exit |
| `Client` | `iotex_emb.c`, `response.c`; EXTENDS `Config` and `Request` | `cpc` walks a call: refused or composed, buffer, exchange, reply, return |
| `Submission` | what a call that submits an action promises | `stage`, `delivered`, `outcome`; abstract, implemented by `Client` |
| `JsonRules` | `rule.c` and the rules inside `response.c` | constant tables and `find_rule_by_key` |
| `JsonScan` | `parse.c` | a stack of activation records; one action per loop iteration, call and return |
| `JsonDocs` | the token arrays of replies | families of documents in many orders |
| `Jsmn` | `jsmn.h` | `text` read so far, `parser`; one action per character and one for the end |
| `JsonText` | JSON documents as texts, with the tokens meant | operators |
| `Amounts`, `HexCodec`, `Abi` | `u128.c`, `utils.c`; hex of `signer.c`; `abi_*.c`, `endian_conv.c` | operators |
| `Conversions` | the callers of those | one call with any input, its result in `out` |
| `PbPack` | `pb_pack.c` | operators |
| `Keccak` | contexts of `crypto/sha3.c` | operators |
| `Sponge` | one Keccak context and its caller | `ctx`, `fed`; `Update`, `Final` |
| `Ecdsa` | `ecdsa_sign_digest` | `signing`, `tries`, `sig`; one action per round of the loop |
| `SignedAction` | `pb_proto.c` and `signer_get_signature`; EXTENDS `HexCodec`, `PbPack`, `Keccak`, `Ecdsa` | key, core packed, hashed, signed, packed again |
| `Bignum` | `crypto/bignum.c`, digit by digit | operators |
| `Arithmetic` | callers of `Bignum` | `acc`, what it stands for (`value`) and how far it is reduced (`bound`); one action per function |
| `Inverse` | `bn_inverse` | the registers `regs`, `k`; half a round of its loop, then one division, per step |
| `ScalarMultiply` | `scalar_multiply` and the Jacobian operations of `crypto/ecdsa.c`; EXTENDS `Inverse` | `a`, `i`, `jres`; one action per digit |
| `Sha256` | the buffering of `crypto/sha2.c` | operators |
| `Nonce` | `crypto/hmac_drbg.c`, `crypto/rfc6979.c`; EXTENDS `Sha256` | `drbg`; `Seed`, `Generate` |
| `*MC` | small instances | |
| `Client_proofs` | theorems about `Config`, `Request` and `Client` | |
| `JsonScan_proofs`, `Jsmn_proofs`, `Sponge_proofs` | theorems about these modules | |
| `SignedAction_proofs` | theorems about `PbPack`, `Ecdsa` and `SignedAction` | |
| `Conversions_proofs` | theorems about `Conversions` | |
| `Foundations` | lemmas: induction, that recursive functions exist, sequences | |
| `Keccak_proofs` | lemmas about `Keccak`, for the last two that hash | |

`Client` is the composition of `Config` and `Request` with the API, by EXTENDS
and by conjunction of their actions with its own. What it assumes of the
parser is what `JsonScan` shows: an empty body never parses, a parse that fails
may have filled any part, one that succeeds fills at most the caller's array.
What it assumes of packing (`PackedLens` below 1024) is what `pb_pack` ensures,
which never fills a buffer to its last byte (`RefusedOnlyForRoom`).

Where one module takes the result of another as an input, a run or an
assumption ties the two: the token arrays `JsonScan` is run on are arrays that
`Jsmn` makes (`LayoutsAreTokenArrays`, and the same documents are among those
`tokenizer` reads); `Ecdsa` computes with numbers and affine points, which
`ScalarMultiply` shows the limbs to compute; its nonces are any numbers, those
of `Nonce` among them.

Where the models abstract: a body is the bytes 1, 2, 3, ... so that memory
shows what was copied where; a JSON token is its type, size and, for a key,
its text; a URL is its version and whether it is whole; the Keccak state is
the sequence of bytes absorbed, which determines it. In `SignedAction` bignums
are their values, a nonce and a digest any 32-byte number; in `Bignum` they are
their digits. `sha256_Transform` is a table of what it was asked: a question
asked before has its old answer, another one a state that is like no other.
`Jsmn` reads classes of characters instead of characters.

## Runs

Every property has a mutant: a definition changed the way a plausible bug would
change it, under which TLC finds the property violated.

**`client`** (Client.cfg). A device with one certificate directory and one
file, versions 0 to 2, bodies of up to three bytes in chunks of one or two into
buffers of three, arguments that fit the URL and that do not, packed lengths
refused, smallest and largest, totals -1 to 2.
- a reply is the server's body, once, in order, terminated, in room: `ResponseIsBody`
- every exit of a call has freed its buffer, its handle and the body's block, each
  counted and freed once; only the block of a transfer that broke is lost
  (`request.c:261` returns without freeing it): `ReleasedBetweenCalls`
- the configuration is never half set: `ClearedOrComplete`
- a POST is never cut: `PostsWhole`
- a call that posts implements `Submission`: delivered at most once, and it ends refused, confirmed or in doubt: `SubmitsOnce`
- a call returns or waits in curl: `CallsReturnOrWait`

The bounds are enough because the code compares the body's length with the
buffer's only once (bodies shorter, exact and longer by one), appends chunks
alike, and keeps nothing from one call to the next but the configuration.

*Fairness.* `WF_vars(OwnStep)`: the steps of the calling thread that wait for
nobody. Nothing is assumed of curl while it transfers: `curl_easy_perform` is
given no time limit, so a silent server keeps the call there for ever, and
`CallsReturnOrWait` says that this is the only place.

**`json`** (Json.cfg). Every order of every subset of the chain and account
members, with unknown and mistyped ones, lists of one to three elements into
arrays of zero to three, empty lists and objects. The token arrays are those a
reply of these tokens can get, a quarter of its length (`TokenSizes`): the one for
the shortest text, and, if its values may be longer, those one short, exact and
one larger; the text `[]` alone gets none. Of the layouts the scan can read,
fields receive their own values (`SoundStoredAtHome`), success means complete
(`SuccessIsComplete`), exactly the documents that fit are accepted
(`AcceptsExactlyFitting`), and the scan neither divides by zero nor leaves the
token array (`SoundReturns`). Those layouts keep three conditions: no nested
object is followed by a sibling with the name of one of its members, list
elements have equally many tokens, and neither a list nor an object at the end
is empty. Of all layouts, values go below their own keys' names and no element
behind the caller's array (`StoredUnderKey`), and the scan ends (`Terminates`,
under weak fairness of `Next`: the scan is sequential code that does not wait).

**`tokenizer`** (Jsmn.cfg). Documents: every array and object of up to two of
seven scalars, with and without white space; every one of up to two of three
scalars or of such containers; and the texts of all the layouts of `json` with
lists. Token arrays of 0, 2, 3, 5 and 100 tokens, so that each kind of token is
the one without room. Besides, every text of up to five characters of any class,
and of up to seven brackets, separators and primitives: depths, order and kinds
of brackets are what the code distinguishes, and three open at once are enough
to close the wrong one. Each text may end anywhere. What
is well formed gets the tokens meant, with the child counts that `parse.c`
strides by (`DocumentsTokenized`), whenever a token of it begins the parser's
superior token is its parent (`SuperiorIsParent`), a container cut off is refused
(`CutOffRefused`), and no text puts a token behind the pool or makes tokens
overlap (`TokensInPlace`).

**`conversions`** (Conversions.cfg). All texts of up to three to five digits or
letters, byte strings of up to three, published inputs of every length through
two words and around 256, every prefix of encoded orders, and replies with
offsets and lengths at and beyond the end. Widths are scaled so that all sides
of a boundary are reached by short texts: numbers modulo 256 instead of 2^128,
three places behind the point instead of 18, and buffers accordingly; the code
does not depend on the width but through these constants. Amounts keep their
value and their buffer (`RauKept`, but for exactly as many digits as places),
numbers survive (`NumberKept`), both builds agree (`BuildsAgree`), hex survives
in place (`InPlaceAgrees`), contract data is the reply's whatever an earlier
reply has left in the buffer, up to a text that fills it (`ContractBytesWhole`:
four characters instead of 2048), and contract arguments are what the ABI says,
on little and big endian machines (`PublishReadable`, `OrderReadBack`,
`ReadsInsideReply`).

**`sponge`** (Sponge.cfg). Blocks of three bytes, chunks of up to seven, inputs
of up to nine: chunks end before, on and behind every block boundary, aligned
or not. `DigestOfInput`.

**`signed_action`** (SignedAction.cfg). Cores around the 136 bytes of a Keccak
block, lengths 0, 1, around 127 and 255, fields that are NULL, empty and zero,
rooms around what the core and what the whole action needs, keys that are no
keys. The curve is y^2 = x^3 + 14 over the field of 19 elements; its group has
order 13, and among its points are some whose x is 0 modulo the order (r = 0,
retried) and some whose x exceeds it (second recovery bit). All nonces
including zero and too large ones, digests beyond the order, two tries.
The bytes signed are the bytes sent (`SignatureIsOfSentCore`), the signature
verifies with the key sent (`SentActionVerifies`), the key can be recovered
from it (`SenderRecovered`), every field reads back
(`SentActionWhole`), and a buffer is refused exactly when the action would fill
it (`RefusedOnlyForRoom`).

**`arithmetic`** (Arithmetic.cfg). Digits of eight bits in words of ten, three
of them, where the code has nine digits of 30 bits in words of 32: like there a
number has two bits more in its words than in its digits, and what is read from
data leaves bits of the last digit free. All masks, shifts and offsets follow
from these two numbers. The moduli are at the two ends of what the comments
allow, the operands are words of zeros, ones and single bits, and the moduli and
their predecessors. Any two calls in a row on a number read, each with arguments
the comments allow, so that each meets what any other leaves unreduced: the
number is what was computed, its digits are normalized, and it is reduced as far
as the comments promise the next call (`ResultKept`), no assertion of a
multiplication fails (`AssertionsHold`), and a reduced number is written as it
is read (`WrittenReadBack`).

**`scalar_multiply`** (ScalarMultiply.cfg). The curve y^2 = x^3 + 6 over a field
of twenty bits, of prime order 1046701, on the same digits, with a table of five
rows where the code has 64; `TableAssumption` checks that it holds the multiples
it should. Scalars at both ends of the range, at and beside powers of sixteen,
the two whose last addition is a doubling, and a hundred between; denominators
1, 2, in the middle and largest. The sum so far is what the comment in the loop
says (`SumOfDigits`), and the result is the multiple (`ResultIsMultiple`).
`bn_inverse` is run inside these, and by itself on numbers at the ends of the
range, beside powers of two and all over it, modulo four primes; every step
keeps what the comment in its loop promises, it never looks for the word of
zero, and its result is the inverse, reduced (`InverseRight`). Comments at
`bignum.c:682` say max(u,v) <= 2^k, which does not hold when the loop begins and
means r and s.

**`nonce`** (Nonce.cfg). Bytes are symbols, blocks and words as long as in the
code. Two signings in a row with any of two keys and two digests of 32 bytes,
each with up to three candidates; and single ones with lengths at which the
first hash of `update_k` ends a block or needs one more, and answers of none, one
and several rounds. What is generated is what HMAC_DRBG over SHA-256 generates,
both defined from their standards on whole messages (`GeneratesByTheStandard`),
and no nonce comes twice but for the same key and digest (`NoncesDiffer`).

### What does not hold

| Run | Property | What the code does |
|---|---|---|
| `json_any_order` | `StoredAtHome` | `parse.c:130` scans a nested object with all tokens left: with `epoch` before `height` the chain's height lands in `epoch.height`, and the call succeeds |
| `json_empty` | `Returns` | `parse.c:223` divides by the size of an empty list: `{"actionInfo":[]}` has room for four tokens and needs three |
| `client_init_result` | `InitialisedCallsSupported` | `config.c:146` returns `-IOTEX_E_NOERR`, which is 0, when no certificate is found; the next URL has version 0 |

Known from the models and stated by no run, the properties being limited to
where they hold:
- `parse.c:223` gives each list element the average window: elements of unequal
  length are mixed up, and the call succeeds (`SuccessIsComplete` keeps to equal
  lengths).
- `iotex_emb.c:96` returns the reply's total when it is not 1, a positive number
  where `iotex_emb.h:173` promises zero or a negative one.
- `utils.c:28` writes an amount of exactly 18 digits without its point: 0.1 iotx
  reads as 1 iotx (`RauKept` leaves that length out).
- A contract's text that fills its buffer has no terminating zero, and
  `iotex_emb.c:170` measures on into `size` (`ContractBytesWhole` needs a zero
  there).
- The length of a protobuf item is a `uint8_t` (`pb_pack.h:55`): payloads of 256
  bytes or more are cut to their length modulo 256 before they are signed, and
  `SentActionWhole` is checked and proved below that.

Met while reading: `iotex_emb.h:222` promises an error description on failure,
which no reachable path sets; upper-case hex digits all read as the same value
(`signer.c:22`); RFC 6979 reduces the digest modulo the order before it seeds
the generator, `rfc6979.c:29` passes it as it is, which differs for digests that
are not below the order; and `hmac_drbg_reseed` with additional input but no
entropy does one round only (no caller does that).

## Proofs

| Theorem | Says | Module |
|---|---|---|
| `ConfigCorrect` | type, `ClearedOrComplete` | `Client_proofs` |
| `RequestInductive`, `RequestCorrect` | the invariant; `ResponseIsBody`, `ReleasedUnlessBroken` | `Client_proofs` |
| `ClientInductive`, `ClientTypes`, `ClientPosts`, `ClientPostsWhole`, `ClientReleases` | the invariant; `TypeOK`; a POST is sent once, whole, and its code tells whether the server has it; `PostsWhole`; `ReleasedBetweenCalls`, `SuccessClearsErrorDesc` | `Client_proofs` |
| `ClientSubmitsOnce` | the calls that post implement `Submission` | `Client_proofs` |
| `ClientUsesConfig`, `ClientUsesRequest` | every behaviour of the client is one of `ConfigSpec`, and of `RequestSpec` | `Client_proofs` |
| `ClientReplies`, `ClientConfigured` | by these refinements, what is proved of the parts holds of the client | `Client_proofs` |
| `ScanTyped`, `ScanStoresUnderKey` | `TypeOK`, `StoredUnderKey` | `JsonScan_proofs` |
| `ScanDepth`, `ScanBindsElement`, `ScanWritesInElement` | the scan nests six deep at most; its rules point into the element it scans; it writes no other (an action property) | `JsonScan_proofs` |
| `JsmnTokensInPlace`, `JsmnChildCountsFit` | `TokensInPlace`; no token claims more children than follow it | `Jsmn_proofs` |
| `JsmnCutOffRefused`, `JsmnDocumentsTokenized`, `JsmnSuperior` | `CutOffRefused`, `DocumentsTokenized`, `SuperiorIsParent` | `Jsmn_proofs` |
| `ConversionsRauKept`, `ConversionsReadInside`, `ConversionsPublishReadable`, `ConversionsOrderReadBack` | `RauKept`, `ReadsInsideReply`, `PublishReadable`, `OrderReadBack` | `Conversions_proofs` |
| `TextsInPlace`, `ContractDataWhole`, `NumbersKept`, `BothBuildsAgree` | `InPlaceAgrees`, `ContractBytesWhole`, `NumberKept`, `BuildsAgree` | `Conversions_proofs` |
| `EcdsaInv`, `EcdsaVerifies`, `EcdsaRecovers` | the invariant of the retry loop; every signature verifies, and its signer is recovered from it | `SignedAction_proofs` |
| `ActionInvariant` | what key, digest, signature and buffer are while an action is made | `SignedAction_proofs` |
| `SignatureOfSentCore`, `ActionVerifies`, `SenderIsRecovered` | `SignatureIsOfSentCore`, `SentActionVerifies`, `SenderRecovered` | `SignedAction_proofs` |
| `ActionWhole`, `RefusedForRoom` | `SentActionWhole`, `RefusedOnlyForRoom` | `SignedAction_proofs` |
| `ContextTypeCorrect`, `NothingIsLost`, `DigestIsOfInput` | `SpongeTypeOK`, `NothingLost`, `DigestOfInput` | `Sponge_proofs` |

With these, every property of the runs `client` (but for liveness), `tokenizer`,
`conversions`, `sponge` and `signed_action` is proved for all values of the
constants.

*Assumptions*, all of them evaluated by the runs:

| Assumption | Why the code justifies it |
|---|---|
| `PathsAssumption`, `RequestAssumption`, `ClientAssumption` | NULL is no path and no memory, lists are lists, sizes are positive; packed lengths are below the 1024 of the buffer |
| `MaxSizesAssumption`, `DocsAssumption` | a caller's array has a size; a response is asked for by one of the six rule tables, and its tokens have numbers of children |
| `RoomsAssumption`, `NoiseAssumption` | the token array has a size |
| `DocumentsAssumption` | what makes a text one object or array (its brackets are not all closed before its last character) and what its tokens are (`IsTokenized`), both told from its characters without the parser; used by `JsmnCutOffRefused`, `JsmnDocumentsTokenized` and `JsmnSuperior` only |
| `AmountsAssumption`, `RoomAssumption` | widths are positive, and `UINT128_RAW_MAX_LEN` has room for every number below the modulus (39 digits and a zero in 40) |
| `CallsAssumption` of `Conversions`, `TextsAssumption`, `InputsAssumption`, `OrdersAssumption`, `RepliesAssumption` | arguments are what their C types hold: bytes, characters other than the zero at the end, sizes; an amount is not the empty text |
| `CallsAssumption` of `SignedAction`, `NullAssumption` | a request's numbers have 64 bits, its data are bytes or NULL, which is neither; a private key of 32 bytes is a scalar below the order; coordinates, scalars and digests fit 32 bytes |
| `LengthsAssumption` | payloads have at most 255 bytes, beyond which `pb_pack.h:55` cuts them; used by `ActionWhole` only |
| `EcdsaAssumption`, `CurveAssumption` | facts of secp256k1: the order is prime, field prime below twice the order, two points to an x, none with y = 0, scalar multiples symmetric |
| `KeccakAssumption`, `SpongeAssumption` | blocks are not empty, chunks are bytes |

*Configuration.* `ClearedOrComplete` is inductive once the type is known: every
path of `init_config` either clears or has passed both checks.

*Request.* `ResponseIsBody` speaks of returned requests only, so the invariant
adds what holds while bytes are collected: until the transfer is given up the
block holds exactly the bytes the server has sent, in order, and NULL means
none; before the return nothing is in the caller's buffer, one handle is held, and
as many blocks as the C locals point to. The counts go below zero where
something is freed twice and stay above where an exit forgets it.

*Client.* The refinements come first: each client action is, on the variables
of `Config`, a step of it or a stutter, and the same for `Request`. The
invariant then adds what ties the call to the exchange: how often the server
has the POST equals whether it was reached, a reply implies that it was, the
request's kind is the call's, nothing of the request is open outside the
exchange, and nothing was reached before it. A POST's URL is whole because the
packed bytes it carries are bounded, which is where `ClientAssumption` is used.

*Submission.* The refinement mapping reads `stage` from where the call stands,
`delivered` from the server's count and `outcome` from the code returned. Every
client action maps to one step of `Submission` or a stutter: a call that begins
asks or is refused at once, `ReachServer` delivers, and what ends a call refuses,
confirms or leaves in doubt, for which the invariant supplies that a reply, and
so a confirmation, is possible only once the server has the action, and a refusal
only before. Calls that post nothing forget the last outcome or stutter.

*JSON scanner.* Nothing is assumed of the tokens, well formed or not.
`StoredUnderKey` follows from the shape of the rule tables, since a value is
stored where a rule found under its key points, and that is inside the request
or one of its elements. The other three need `StackOK`, an invariant of the
activation records: each scans a list of a lower level than its caller's, so
that levels and depth together never exceed six; there is one array scan at
most; element rules are scanned inside it only; and the rules are bound to the
element it is at. The last part is not inductive alone: that an inner call may
rebind the rules is excluded only by there being no second array.

*Tokenizer.* `TokensInPlace` speaks of accepted texts. The invariant says of every
prefix that any two tokens lie behind each other or the later one inside the
earlier, open or closed, that everything begins before the character being
read, and while a string or primitive is read, before its beginning. It also
counts children: a token has at most as many as there are tokens behind it,
which nothing in `jsmn.h` says and `parse.c` relies on in its strides. Stating
it showed that the definition of `Finish` had overlapping cases, of which TLC
takes the first; it is a decision now.

That a cut is noticed needs to know what is open in a text without asking the
parser: `Nesting` tells it from the characters alone, strings, escapes and bare
words included. `CutInv` says that the parser follows it (`Follows`): its loop is
the one for the place the text has reached, and its open tokens are as many as
the brackets open there. Only an end with none open is accepted, and a container
has none open only behind its last character.

What the tokens of a document are is told from its characters as well
(`IsTokenized`): one begins where a bracket opens and where a string or word
begins, and nowhere else; each ends where its bracket, string or word does; a
token's parent is the key in front of it or the innermost container around it,
and its size is the number of its children. That is a condition on the finished
array. The parser builds it from the left, so `TokInv` says what is there after
n characters (`Between`, `InLeaf`): the tokens that begin in front of n and no
others; ends of -1 exactly for the containers around n; sizes that count the
children begun so far; and `toksuper` (`Counts`) as the key from its colon on,
the innermost open container otherwise, with one exception: behind a bare value it
is still the key, until a comma or a bracket. That exception is what the comma
case of `jsmn_parse` mends, and it is harmless since no token may begin before
one of the two (`Members`). When the next token begins, `toksuper` is therefore
its parent (`CountsParent`, stated for the run as `SuperiorIsParent`), the one
fact on which the child counts rest.

*Conversions.* Every call is a function of its arguments, so each theorem rests
on a lemma about the operator called. For the ABI, predicates (`Joins`, `Holds`,
`StringAt`) say where in a sequence a part lies, and are carried through
concatenation and prefixes; a reader is then shown to find the part, or to
refuse because the prefix ends before it. For amounts, digits keep their weight
under padding, insertion of the point and trimming.

*Texts.* The loops of `signer.c` and `u128.c` are recursive functions, by number
of rounds. A recursive definition says nothing before there is a function that
satisfies it; `FixedPoint` and `LoopExists` of `Foundations` show there is one whenever
a round looks at earlier rounds only, and `UpFromZero` is induction, stated of a
set instead of a predicate. In place, n rounds have written n bytes and read at
least 2n digits (`Alike`), so no digit is overwritten before it is read. A number
below the modulus has only such prefixes, so no round wraps (`NeverWraps`), and
dividing by ten takes back the last round (`TextIsNumeral`). A text that is
shorter, or differs first in a lesser digit, stays less whatever digits follow
(`StaysLess`), which is why comparing texts compares numbers.

*Signature.* What is answered was made from a nonce of one round, r from the x
of its point and the smaller of s and order - s; the recovery byte says whether
x exceeded the order and, negated with s, whether y is odd. Verification and
recovery are then calculations modulo the order, in which inverses are those
that `CurveAssumption` supplies.

*Signed action.* The core is packed twice, and the second time in a smaller room
behind a length byte that may have to grow. `PacksTo` says what `pb_pack` makes
of items: the message, if the room exceeds it, and a refusal otherwise
(`Limited`). It is shown item by item, so that a message inside a message packs to the same
bytes wherever it lies, and a move of what is behind a growing length byte only
shifts them. Reading is defined on bytes alone: `IsMessage` says that a message
is a sequence of fields, some left out, and `MessageRead` that a reader who looks
for a key finds the value of the first field with it, or the default. `ActionInv`
ties the steps together: the core is the packed one until it is hashed, the
digest's input is the padded core, and the result is that of a refused key, of a
room too small, of a signer who gave up, or the whole action. The five
properties follow from what is read in the whole action; a number is read back
from its 32 bytes by the two loops of `bn_write_be` and `bn_read_be`, one from each end.

*Sponge.* `NothingLost` uses a remainder; the invariant says instead that the
bytes processed are a whole number of blocks, and that input is processed bytes
followed by the begun block. The lemmas say what copying into a block, taking
whole blocks and finishing a begun one do to the bytes held; that a message
may be absorbed in place or by copying only changes bytes behind the fill, which
padding overwrites. The digest theorem then rests on associativity of
concatenation and on the padding filling the block.

*Only model-checked:*
- the liveness properties `Terminates` and `CallsReturnOrWait`, which need
  fairness and ENABLED, beyond the prover;
- `SoundStoredAtHome`, `SuccessIsComplete`, `AcceptsExactlyFitting` and
  `SoundReturns`: they speak of the documents `JsonDocs` builds, with the places
  meant for their values; for other token arrays they say nothing;
- `ResultKept`, `AssertionsHold`, `WrittenReadBack`, `InverseRight`,
  `SumOfDigits`, `ResultIsMultiple`: a number is a sum of its digits times powers
  of the base, and the provers know no law of `^`, not even that `Base^(i + 1)` is
  `Base * Base^i`; the last two need the associativity of the curve's group
  besides;
- `GeneratesByTheStandard` and `NoncesDiffer`: the paddings are combined with
  Bitwise, which the prover does not know.

## Not modelled

- The characters of URLs and of scalar JSON values, logging, `print_config`,
  `u128_print`.
- What the Keccak permutation and `sha256_Transform` compute; SHA-1, SHA-384,
  SHA-512 and the functions of `bignum.c` and `ecdsa.c` that nothing in the
  library calls; `rand.c` (a blinding factor is any allowed one) and `memzero.c`.
- Counting tokens without a token array (`jsmn.h`), which nothing calls.
- Private keys that are zero or not below the order, for which
  `scalar_multiply` has an assertion (`ecdsa.c:559`).
- What a packer has already written when it refuses. `pb_pack` compares the room
  behind each field, so four fields of 255 bytes have written some 1078 bytes
  into the 1024 of `response.c` before they are refused; the model keeps what is
  packed, not the memory behind it.
- Examples, unit tests and build files, which keep no state.

## Plan

Done, in this order: configuration, request, client; the JSON scanner; the
conversions; packing, hashing and signing; the tokenizer; numbers, inverses and
multiples of the generator; the nonce generator; the abstract submission.

Proofs of: configuration, request, client and submission; sponge; scanner and
tokenizer; conversions; the signature; packing and the signed action.

Next:
1. Weights of the digits in `Bignum` as a recursive function in place of `^`;
   then what one pass of the carrying loop keeps, by `LoopExists`, and with it
   `ResultKept`.
2. A composition in which `JsonScan` runs on the tokens `Jsmn` has just made,
   with its room; what `IsTokenized` says of them is what the scan would need
   for a proof of `SoundStoredAtHome`.
