---------------------------- MODULE SignedActionMC ----------------------------
(***************************************************************************)
(* Signed actions on the curve y^2 = x^3 + 14 over the field of 19, whose  *)
(* group has the prime order 13 and among its points some with x = 0 mod   *)
(* 13 (no signature) and some with x beyond 13 (a second recovery bit).    *)
(***************************************************************************)
EXTENDS SignedAction

MCG == <<5, 5>>

Text(n)  == [i \in 1..n |-> 48 + (i % 10)]
Key(lo)  == [i \in 1..63 |-> CodeOf.zero] \o <<lo>>

Request(id, nonce, gasPrice, amount, data, key) ==
    [ id |-> id, version |-> 1, nonce |-> nonce, gasLimit |-> 20000, gasPrice |-> gasPrice,
      chainID |-> NULL, amount |-> amount, to |-> Text(41), data |-> data, privateKey |-> key ]

(* Fields left out, empty and zero; a core of one and of two blocks; a     *)
(* length of one byte and of two in the action, and in the core.           *)
Requests ==
    { Request(ACT_TRANSFER, 0, NULL, NULL, NULL, Key(CodeOf.a + 1)),
      Request(ACT_EXECUTION, NULL, <<>>, Text(1), Text(255), Key(CodeOf.nine)) }
    \cup { Request(ACT_TRANSFER, 300, Text(1), Text(2), Text(n), Key(CodeOf.zero + 3)) :
               n \in (62..78) \cup {127, 128} }

BadKeys == { <<>>, Key(CodeOf.z)\o<<CodeOf.zero>>, Tail(Tail(Key(CodeOf.nine))),
             <<CodeOf.zero, CodeOf.x>> \o Key(CodeOf.nine), [Key(CodeOf.nine) EXCEPT ![7] = 32] }

Call(req, max_size) == [req |-> req, max_size |-> max_size]

(* Rooms around what the signed action takes, and around what its core     *)
(* takes, which is 134 to 137 bytes less.                                  *)
Rooms(req) ==
    {0, 1024} \cup { NeededRoom(req) + d : d \in {-137, -136, -135, -134, -2, -1, 0, 1} }

MCCalls ==
    { Call(Request(ACT_TRANSFER, 1, NULL, NULL, NULL, key), 1024) : key \in BadKeys }
    \cup UNION { { Call(req, room) : room \in Rooms(req) } : req \in Requests }

=============================================================================
