------------------------------ MODULE ErrorCodes ------------------------------
(***************************************************************************)
(* iotex_em_error of src/iotex_emb.h: the API returns them negated.        *)
(***************************************************************************)
EXTENDS Integers

IOTEX_E_NOERR     == 0
IOTEX_E_VER       == 1
IOTEX_E_CERT      == 2
IOTEX_E_URL       == 3
IOTEX_E_PRVKEY    == 4
IOTEX_E_MEM       == 5
IOTEX_E_REQUEST   == 6
IOTEX_E_PARSE     == 7
IOTEX_E_RESPONSE  == 8
IOTEX_E_UNSUPPORT == 9
IOTEX_E_PBPACK    == 10
IOTEX_E_HEX2STR   == 11

Failures == { -e : e \in IOTEX_E_VER..IOTEX_E_HEX2STR }

=============================================================================
