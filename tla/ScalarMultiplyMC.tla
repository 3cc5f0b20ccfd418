--------------------------- MODULE ScalarMultiplyMC ---------------------------
(***************************************************************************)
(* The curve y^2 = x^3 + 6 over a field of twenty bits: of prime order,    *)
(* like secp256k1, and with the same headroom in the last digit.           *)
(***************************************************************************)
EXTENDS ScalarMultiply

MCTable == <<
    <<<<1, 997607>>, <<899503, 947570>>, <<310974, 396268>>, <<579417, 1029327>>, 
    <<882022, 490807>>, <<517864, 570189>>, <<806640, 1048355>>, <<572938, 535000>>>>,
    <<<<513869, 324372>>, <<588184, 60769>>, <<91616, 360450>>, <<960891, 1021596>>, 
    <<919064, 551604>>, <<834522, 1034895>>, <<838494, 977313>>, <<13543, 481018>>>>,
    <<<<978045, 276685>>, <<324599, 321535>>, <<644526, 169841>>, <<42181, 437900>>, 
    <<46263, 787085>>, <<790381, 188741>>, <<193687, 712071>>, <<70425, 845737>>>>,
    <<<<377625, 367014>>, <<440837, 933102>>, <<603940, 189845>>, <<17755, 449630>>, 
    <<572224, 478532>>, <<177049, 290789>>, <<266535, 639706>>, <<805697, 851423>>>>,
    <<<<620817, 173579>>, <<351636, 315465>>, <<133284, 672483>>, <<375502, 531459>>, 
    <<173720, 290588>>, <<181870, 448020>>, <<266529, 894791>>, <<307201, 160752>>>> >>

ASSUME TableAssumption == TableOfMultiples

(* The ends of the range, scalars around the powers of sixteen, and the    *)
(* two whose last addition is a doubling.                                  *)
MCScalars ==
    {0, 1, 2, 3, Order - 2, Order - 1, Order} \cup {919379, 127322}
    \cup UNION { {16^n - 1, 16^n, 16^n + 1, Order - 16^n} : n \in 1..4 }
    \cup { 10463 * n : n \in 1..100 }

MCBlinds == {1, 2, 524287, Prime - 1}

MCInverses ==
    ({1, 2, 3, 524288, 1048422, 1048424, 2 * 1048423 - 1}
        \cup { 2^n - 1 : n \in 2..19 } \cup { 2^n + 1 : n \in 2..19 } \cup { 3079 * n : n \in 1..340 })
        \X {1048423, 1046701, 1048573, 1047589}

===============================================================================
