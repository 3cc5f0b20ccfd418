-------------------------------- MODULE Config --------------------------------
(***************************************************************************)
(* The library's one piece of lasting state, __g_config of src/config.c,   *)
(* and the two operations on it, init_config and clear_config, on a device *)
(* whose certificate files come and go.                                    *)
(*                                                                         *)
(* verify stands for the pair verify_cert, verify_host: both are copied    *)
(* and cleared together and never looked at here.                          *)
(***************************************************************************)
EXTENDS ErrorCodes, Sequences

CONSTANTS Paths,      \* the paths a certificate may be looked for at
          NoPath,     \* the NULL pointer of cert_dir and cert_file
          NoConfig,   \* iotex_emb_init(NULL)
          CertDirs, CertFiles,   \* the search lists, in order
          Versions    \* the values of the ver field applications pass

ASSUME PathsAssumption ==
    /\ NoPath \notin Paths
    /\ CertDirs \in Seq(Paths) /\ CertFiles \in Seq(Paths)
    /\ Versions \subseteq Nat

VARIABLES config,      \* __g_config
          fs,          \* what stat() finds at each path
          initialised  \* the last init returned success, and no exit since

configVars == <<config, fs, initialised>>

SupportVersions == {1}

Configs == [ver : Versions, verify : BOOLEAN,
            cert_dir : Paths \cup {NoPath}, cert_file : Paths \cup {NoPath}]

(* memset(&__g_config, 0, ...) *)
Cleared == [ver |-> 0, verify |-> FALSE, cert_dir |-> NoPath, cert_file |-> NoPath]

FileTypes == {"none", "dir", "file"}

(* A missing path, and the NULL pointer, answer -1: neither kind of file.  *)
get_file_type(p) == IF p = NoPath THEN "none" ELSE fs[p]

(* The first path of the list that is a file of type t. *)
Search(list, t) ==
    LET hits == { n \in 1..Len(list) : fs[list[n]] = t }
    IN  IF hits = {} THEN NoPath
        ELSE list[CHOOSE n \in hits : \A m \in hits : n <= m]

config_search_cert_dir  == Search(CertDirs, "dir")
config_search_cert_file == Search(CertFiles, "file")

ConfigInit ==
    /\ config = Cleared
    /\ fs \in [Paths -> FileTypes]
    /\ initialised = FALSE

-----------------------------------------------------------------------------
(* What init_config has assigned to __g_config before its checks.          *)
Prepared(arg) ==
    IF arg # NoConfig
    THEN [arg EXCEPT !.ver       = IF @ = 0 THEN 1 ELSE @,
                     !.cert_dir  = IF @ = NoPath THEN config_search_cert_dir ELSE @,
                     !.cert_file = IF @ = NoPath THEN config_search_cert_file ELSE @]
    ELSE [config EXCEPT !.ver = 1,
                        !.cert_dir = config_search_cert_dir,
                        !.cert_file = config_search_cert_file]

VersionSupported(c) == c.ver \in SupportVersions

CertFound(c) == get_file_type(c.cert_dir) = "dir" \/ get_file_type(c.cert_file) = "file"

(* The code it returns: no certificate is -IOTEX_E_NOERR, which is 0.      *)
init_result(arg) ==
    IF ~ VersionSupported(Prepared(arg)) THEN -IOTEX_E_VER
    ELSE IF ~ CertFound(Prepared(arg)) THEN -IOTEX_E_NOERR
    ELSE 0

(* Mutant: a failed init leaves its half of the configuration behind.      *)
init_config_unwound(arg) ==
    /\ config' = Prepared(arg)
    /\ initialised' = (init_result(arg) = 0)
    /\ fs' = fs

init_config(arg) ==
    /\ config' = IF VersionSupported(Prepared(arg)) /\ CertFound(Prepared(arg))
                 THEN Prepared(arg) ELSE Cleared
    /\ initialised' = (init_result(arg) = 0)
    /\ fs' = fs

clear_config ==
    /\ config' = Cleared
    /\ initialised' = FALSE
    /\ fs' = fs

(* Something else than the library installs or removes a certificate. *)
FileChanges ==
    /\ \E p \in Paths, t \in FileTypes : fs' = [fs EXCEPT ![p] = t]
    /\ UNCHANGED <<config, initialised>>

ConfigNext ==
    \/ \E arg \in Configs \cup {NoConfig} : init_config(arg)
    \/ clear_config
    \/ FileChanges

ConfigSpec == ConfigInit /\ [][ConfigNext]_configVars

-----------------------------------------------------------------------------
ConfigTypeOK ==
    /\ config \in [ver : Nat, verify : BOOLEAN,
                   cert_dir : Paths \cup {NoPath}, cert_file : Paths \cup {NoPath}]
    /\ fs \in [Paths -> FileTypes]
    /\ initialised \in BOOLEAN

(* The configuration is never half set: it is cleared or has a supported   *)
(* version and names a certificate (the clear_config calls of              *)
(* config.c:138, 145 on the failure paths).                                *)
ClearedOrComplete ==
    \/ config = Cleared
    \/ /\ VersionSupported(config)
       /\ config.cert_dir # NoPath \/ config.cert_file # NoPath

=============================================================================
