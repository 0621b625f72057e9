------------------------------ MODULE Requests ------------------------------
(***************************************************************************)
(* What the service makes of a request before and after its handler: the   *)
(* routes (routes/mod.rs, lib.rs), the layers around them (lib.rs,         *)
(* routes/handlers.rs), the tokens (auth.rs) and the headers of answers.   *)
(*                                                                         *)
(* A request is [method, mount, leaf, slash, size, content, valid, user,   *)
(* admin]: `mount' is the prefix of its path and `leaf' the rest, `slash'  *)
(* says that the path ends in one, `size' is the size of the body it       *)
(* announces, `content' is "good" or says what is wrong with it: the       *)
(* "head" (a query that cannot be decoded, no JSON media type) or the      *)
(* "body" (no JSON, or no OCSP media type, which is looked at after the    *)
(* body is read); `valid' says that its parameters pass validate.rs,       *)
(* `user' and `admin' are its tokens, or Unset.                            *)
(***************************************************************************)
EXTENDS Config

CONSTANT Sha512   \* Sha512[t]: the hash of token t

Sgx == {"v3", "v4"}
Intel == {"v3", "v4", "tdx"}

-----------------------------------------------------------------------------
(* Routes *)

\* sgx_router
AdminRoutes == {<<"GET", "platforms">>, <<"PUT", "platformcollateral">>, <<"GET", "refresh">>,
                <<"POST", "refresh">>, <<"PUT", "appraisalpolicy">>}
UserRoutes == {<<"POST", "platforms">>}
PublicLeaves == {"pckcert", "pckcrl", "tcb", "qe/identity", "qve/identity", "rootcacrl", "crl",
                 "appraisalpolicy"}
SgxRoutes == AdminRoutes \cup UserRoutes \cup ({"GET"} \X PublicLeaves)

Routes(mount) ==
    CASE mount \in Sgx -> SgxRoutes
      [] mount = "tdx" -> {"GET"} \X {"tcb", "qe/identity"}
      [] mount = "healthz" -> {"GET"} \X {"live", "ready", "startup"}
      [] mount \in {"amd", "rim"} -> {<<"GET", "rest">>}
      [] mount = "ocsp" -> {<<"POST", "">>}
      [] mount = "nras" -> {<<"POST", "attest/gpu">>}
      [] OTHER -> {}

\* create_app: version 4 is mounted for an upstream of version 4 only.
Mounted(cfg) ==
    {"v3", "amd", "rim", "ocsp", "nras", "healthz"}
        \cup IF pcs_version(cfg) = 4 THEN {"v4", "tdx"} ELSE {}

\* A GET route answers HEAD too.
Method(r) == IF r.method = "HEAD" THEN "GET" ELSE r.method

PathKnown(cfg, r) == r.mount \in Mounted(cfg) /\ \E x \in Routes(r.mount) : x[2] = r.leaf
RouteKnown(cfg, r) == r.mount \in Mounted(cfg) /\ <<Method(r), r.leaf>> \in Routes(r.mount)

-----------------------------------------------------------------------------
(* Tokens *)

Guard(r) ==
    CASE r.mount \in Sgx /\ <<Method(r), r.leaf>> \in AdminRoutes -> "admin"
      [] r.mount \in Sgx /\ <<Method(r), r.leaf>> \in UserRoutes -> "user"
      [] OTHER -> "none"

\* verify_token: a hash that is none matches nothing, and neither does an empty token.
verify_token(token, hash) ==
    /\ IsSha512(hash)
    /\ token \notin {Unset, ""}
    /\ Sha512[token] = hash

\* require_user, require_admin
Authorized(cfg, r) ==
    CASE Guard(r) = "admin" -> verify_token(r.admin, cfg.admin)
      [] Guard(r) = "user" -> verify_token(r.user, cfg.user)
      [] OTHER -> TRUE

-----------------------------------------------------------------------------
(* Layers, from the outside in *)

\* is_collateral_path: the paths that browsers may read.
CollateralPath(r) ==
    \/ r.mount \in {"amd", "rim", "nras"}
    \/ ~r.slash /\ (r.mount = "ocsp" \/ (r.mount \in Intel /\ r.leaf \in PublicLeaves))

\* cors answers the preflight itself.
Preflight(r) == CollateralPath(r) /\ r.method = "OPTIONS"

\* route_expects_body goes by the method and the path, whatever is mounted.
ExpectsBody(r) ==
    \/ r.mount \in Sgx /\ <<r.method, r.leaf>> \in
           {<<"POST", "platforms">>, <<"PUT", "platformcollateral">>, <<"PUT", "appraisalpolicy">>}
    \/ r.mount = "ocsp" /\ r.method = "POST"
    \/ r.mount = "nras" /\ r.method = "POST" /\ r.leaf = "attest/gpu"

UnexpectedBody(r) == r.size > 0 /\ ~ExpectsBody(r)

\* The answer was given outside collateral_cache_control.
AnsweredOutside(r) == Preflight(r) \/ r.slash \/ UnexpectedBody(r)

\* The statuses of a request that does not reach its handler; {} if it does.  Of a
\* path with guarded routes, axum guards the answer to other methods too, or not.
Rejections(cfg, r) ==
    CASE Preflight(r) -> {204}
      [] r.slash -> {404}
      [] UnexpectedBody(r) -> {413}
      [] ~PathKnown(cfg, r) -> {404}
      [] ~RouteKnown(cfg, r) -> {405} \cup IF r.mount \in Sgx THEN {401} ELSE {}
      [] ~Authorized(cfg, r) -> {401}
      [] OTHER -> {}

-----------------------------------------------------------------------------
(* Handlers *)

ReadsBody(r) == ExpectsBody(r)

\* PccsQuery and PccsJson refuse the head before they read the body; then PccsJson,
\* PccsBytes on a body that arrived: 413, 400, or 0 if it is taken.
BodyStatus(cfg, r) ==
    CASE r.content = "head" -> 400
      [] r.size > cfg.body_size -> 413
      [] r.content = "body" \/ r.size = 0 -> 400
      [] OTHER -> 0

\* The errors of error.rs that a handler passes on; where they come from is in the
\* other modules.
Errors == {400, 404, 410, 460, 461, 462, 500, 502, 503}

\* amd_response relays any other status of the upstream as well.
Relayed(r) == IF r.mount \in {"amd", "rim", "ocsp", "nras"} THEN {204, 403, 429} ELSE {}

\* What the handlers answer.
Outcomes(r, started) ==
    CASE ~r.valid -> {400}
      [] r.mount = "healthz" /\ r.leaf = "live" -> {200}
      [] r.mount = "healthz" /\ r.leaf = "ready" -> {200, 503}
      [] r.mount = "healthz" -> IF started THEN {200} ELSE {503}
      [] OTHER -> {200} \cup Errors \cup Relayed(r)

-----------------------------------------------------------------------------
(* Answers *)

\* CACHEABLE_COLLATERAL, by method and matched path.
Cacheable(cfg, r) ==
    /\ r.method \in {"GET", "HEAD"}
    /\ PathKnown(cfg, r)
    /\ \/ r.mount \in Sgx /\ r.leaf \in {"pckcrl", "tcb", "qe/identity", "qve/identity", "rootcacrl"}
       \/ r.mount = "tdx"

\* collateral_cache_control: there only if a max-age is configured.
CollateralCacheControl(cfg, r, status) ==
    IF cfg.max_age = Unset \/ AnsweredOutside(r) \/ ~Cacheable(cfg, r) THEN "none"
    ELSE IF status = 200 THEN "public" ELSE "no-store"

\* Variant: the header of NRAS answers is set inside the layers that reject requests.
NoStoreInside(r, header) == IF r.mount = "nras" /\ ~AnsweredOutside(r) THEN "no-store" ELSE header

\* cors, outside of all the layers that reject: nonce-bound answers are never kept.
NoStore(r, header) == IF r.mount = "nras" THEN "no-store" ELSE header

Answer(cfg, r, status) ==
    [status |-> status, cors |-> CollateralPath(r),
     cache |-> NoStore(r, CollateralCacheControl(cfg, r, status))]
=============================================================================
