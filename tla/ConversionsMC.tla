---------------------------- MODULE ConversionsMC ----------------------------
(***************************************************************************)
(* Conversions on every short text over a few digits and letters, and on   *)
(* orders and replies whose parts end at, before and behind a word.        *)
(***************************************************************************)
EXTENDS Conversions

MCRaus     == BoundedSeq({0, 1, 9}, 5) \ {<<>>}
MCNumbers  == BoundedSeq({0, 2, 5, 6, Other}, 3)
MCCompared == BoundedSeq({0, 1, 2, 9}, 3)
MCRooms    == 0..8

MCHexTexts == BoundedSeq({CodeOf.zero, CodeOf.nine, CodeOf.a, CodeOf.a + 5, CodeOf.A, CodeOf.x, 32}, 4)
MCContracts ==
    { [data |-> [i \in 1..4 |-> CodeOf.a + 5], size |-> n] : n \in {0, 2, CodeOf.nine} }

MCBinaries == BoundedSeq({0, 1, 10, 31, 160, 255}, 3)

Filled(n) == [i \in 1..n |-> (i % 255) + 1]

MCInputs == { Filled(n) : n \in (0..65) \cup {255, 256, 257} }

MCOrders ==
    [ start : {6256632}, duration : {4, 70000},
      endpoint : { Filled(n) : n \in {0, 1, 33} }, token : { Filled(n) : n \in {0, 32} } ]

MCReplies ==
    [ offset : {0, 1, 96, 128, 129, 160, 65535}, length : {0, 1, 32, 33, 256, 65535},
      tail : {0, 1, 31, 32, 33} ]

=============================================================================
