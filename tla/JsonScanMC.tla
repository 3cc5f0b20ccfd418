------------------------------ MODULE JsonScanMC ------------------------------
(***************************************************************************)
(* The scanner on the document families of JsonDocs.                       *)
(***************************************************************************)
EXTENDS JsonScan

LOCAL D == INSTANCE JsonDocs

(* The layouts for which the scan is sound: no nested object is followed   *)
(* by a sibling with the name of one of its members, no list has elements  *)
(* of different lengths, no list and no trailing object is empty.          *)
SoundObjects == D!ChainDocs \cup D!AccountDocs \cup D!FlatDocs
SoundLists   == D!ActionsDocs \cup D!ValidatorsDocs

SoundLayouts == SoundObjects \cup SoundLists

(* The layouts that each drop one of those conditions. *)
AnyOrder    == D!AnyChainDocs
RaggedLists == D!RaggedActionsDocs
EmptyLists  == D!EmptyListDocs

OtherLayouts == AnyOrder \cup RaggedLists \cup EmptyLists \cup D!EmptyEpochDocs

Marked(layouts, sound) ==
    { [api |-> d.api, toks |-> d.toks, cap |-> d.cap, sound |-> sound] : d \in layouts }

AllLayouts == Marked(SoundLayouts, TRUE) \cup Marked(OtherLayouts, FALSE)

MCAnyOrder   == Marked(AnyOrder, FALSE)
MCEmptyLists == Marked(EmptyLists, FALSE)

=============================================================================
