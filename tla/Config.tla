------------------------------- MODULE Config -------------------------------
(***************************************************************************)
(* The configuration of the server (config.rs): built-in defaults, the     *)
(* TOML file over them, the command line over both; and the translation of *)
(* a Node PCCS configuration into the TOML file.                           *)
(*                                                                         *)
(* A layer is a record of options, each a value or Unset.  The options     *)
(* that are simply replaced by the next layer are in `plain'; the others   *)
(* have a rule of their own.  A token hash is "" (none), "malformed" or    *)
(* the SHA-512 of a token.  A body size is the number and the unit of its  *)
(* text.                                                                   *)
(***************************************************************************)
EXTENDS Integers, Sequences

CONSTANTS
    Unset,       \* Option::None
    UsizeMax,    \* usize::MAX
    DevUser, DevAdmin   \* the built-in dev token hashes

ASSUME UsizeAssumption == UsizeMax \in Nat \ {0}

CacheModes == {"LAZY", "OFFLINE", "REQ"}

\* Options the next layer replaces whenever it gives them.
Plain == {"uri", "headers_timeout", "metrics_listen"}

DEFAULT_MAX_BODY_SIZE == 2 * 1024 * 1024

\* Default for Config: no token hash is built in.
DefaultConfig ==
    [https |-> FALSE, http |-> TRUE, user |-> "", admin |-> "", max_age |-> Unset,
     mode |-> "LAZY", body_size |-> DEFAULT_MAX_BODY_SIZE, seed |-> Unset, no_seed |-> FALSE,
     plain |-> [p \in Plain |-> CASE p = "uri" -> "v4" [] p = "headers_timeout" -> 30
                                  [] OTHER -> FALSE]]

-----------------------------------------------------------------------------
(* Values *)

Given(option, current) == IF option = Unset THEN current ELSE option

Replaced(cfg, layer) == [p \in Plain |-> Given(layer.plain[p], cfg.plain[p])]

\* try_parse_body_size: a number that fits, times its unit, and not 0.
Multiplier(unit) == CASE unit = "MB" -> 1024 * 1024 [] unit = "KB" -> 1024 [] OTHER -> 1

BodySizeOk(text) == text.number # Unset /\ text.number \in 1 .. UsizeMax \div Multiplier(text.unit)

\* parse_body_size_reporting: anything else is the default, and a warning.
parse_body_size(text) ==
    IF BodySizeOk(text) THEN text.number * Multiplier(text.unit) ELSE DEFAULT_MAX_BODY_SIZE

BodySize(option, current) == IF option = Unset THEN current ELSE parse_body_size(option)

\* set_collateral_cache_max_age: 0 means no header, whatever an earlier layer said.
set_collateral_cache_max_age(option, current) ==
    IF option = 0 THEN Unset ELSE Given(option, current)

\* is_sha512_hex
IsSha512(hash) == hash \notin {"", "malformed"}

\* pcs_version: what the upstream's address says, or 4.
pcs_version(cfg) == IF cfg.plain["uri"] = "v3" THEN 3 ELSE 4

-----------------------------------------------------------------------------
(* Layers *)

\* An empty hash and an unknown mode in the file count as not given.
apply_toml(cfg, file) ==
    [cfg EXCEPT
        !.plain = Replaced(cfg, file),
        !.https = Given(file.https, @),
        !.http = IF file.https = Unset THEN @ ELSE ~file.https,
        !.user = IF file.user \in {Unset, ""} THEN @ ELSE file.user,
        !.admin = IF file.admin \in {Unset, ""} THEN @ ELSE file.admin,
        !.mode = IF file.mode \in CacheModes THEN file.mode ELSE @,
        !.body_size = BodySize(file.body_size, @),
        !.max_age = set_collateral_cache_max_age(file.max_age, @)]

\* Variant: --dev-tokens takes the place of a configured hash.
DevAlways(hash, dev, wanted) == IF wanted THEN dev ELSE hash

\* --dev-tokens, after everything else: only where there is no hash.
DevFills(hash, dev, wanted) == IF wanted /\ hash = "" THEN dev ELSE hash

\* A hash on the command line counts also when it is empty; --https wins over --http;
\* the seed is named on the command line only.
apply_cli(cfg, args) ==
    [cfg EXCEPT
        !.plain = Replaced(cfg, args),
        !.https = args.https \/ (@ /\ ~args.http),
        !.http = ~args.https /\ (@ \/ args.http),
        !.user = DevFills(Given(args.user, @), DevUser, args.dev_tokens),
        !.admin = DevFills(Given(args.admin, @), DevAdmin, args.dev_tokens),
        !.mode = Given(args.mode, @),
        !.body_size = BodySize(args.body_size, @),
        !.max_age = set_collateral_cache_max_age(args.max_age, @),
        !.seed = args.seed, !.no_seed = args.no_seed]

\* from_serve_args, with the file that was found.
ConfigOf(file, args) == apply_cli(apply_toml(DefaultConfig, file), args)

-----------------------------------------------------------------------------
(* The file *)

\* A file without a key.
EmptyToml ==
    [https |-> Unset, user |-> Unset, admin |-> Unset, max_age |-> Unset, mode |-> Unset,
     body_size |-> Unset, plain |-> [p \in Plain |-> Unset]]

\* apply_json_to_toml: the keys the JSON mentions; it knows no transport, no metrics
\* listener and no max-age, and keeps a mode it does not know.
apply_json_to_toml(doc, src) ==
    [doc EXCEPT
        !.plain = [p \in Plain |-> IF p = "metrics_listen" THEN @[p] ELSE Given(src.plain[p], @[p])],
        !.user = Given(src.user, @), !.admin = Given(src.admin, @),
        !.mode = Given(src.mode, @), !.body_size = Given(src.body_size, @)]

\* The first n keys of a document, in the order of the packaged template.
FirstKeys(doc, n) ==
    LET Kept(i, option) == IF i <= n THEN option ELSE Unset
    IN  [https |-> Kept(1, doc.https), plain |-> [p \in Plain |-> Kept(2, doc.plain[p])],
         user |-> Kept(3, doc.user), admin |-> Kept(4, doc.admin), mode |-> Kept(5, doc.mode),
         body_size |-> Kept(6, doc.body_size), max_age |-> Kept(7, doc.max_age)]
=============================================================================
