------------------------------- MODULE ClientMC -------------------------------
(***************************************************************************)
(* The client on a device with one certificate directory and one file.     *)
(***************************************************************************)
EXTENDS Client

CONSTANTS etc_ssl, ca_bundle

MCPaths     == {etc_ssl, ca_bundle}
MCCertDirs  == <<etc_ssl>>
MCCertFiles == <<ca_bundle>>

MCTotals == -1..2

=============================================================================
