----------------------------- MODULE MCService -----------------------------
(***************************************************************************)
(* Service with two clients: one sends one request of every kind, the      *)
(* other registers a platform.                                             *)
(***************************************************************************)
EXTENDS Service

CONSTANTS c1, c2

MCSha512 == [t \in {"user", "admin", "other", "devuser", "devadmin"} |->
                CASE t = "user" -> "hu" [] t = "admin" -> "ha" [] t = "other" -> "ho"
                  [] t = "devuser" -> "du" [] OTHER -> "da"]

R(method, mount, leaf) ==
    [method |-> method, mount |-> mount, leaf |-> leaf, slash |-> FALSE, size |-> 0,
     content |-> "good", valid |-> TRUE, user |-> Unset, admin |-> Unset]

Refresh == R("POST", "v4", "refresh")
Register1 == [R("POST", "v4", "platforms") EXCEPT !.size = 2000, !.user = "user"]
Policy == [R("PUT", "v3", "appraisalpolicy") EXCEPT !.size = 2000, !.admin = "admin"]
Attest == [R("POST", "nras", "attest/gpu") EXCEPT !.size = 2000]
Tcb == R("GET", "v4", "tcb")

MCMayAsk ==
    [c \in {c1, c2} |->
        IF c = c2 THEN {Register1}
        ELSE {[Refresh EXCEPT !.admin = a] : a \in {Unset, "", "admin", "other", "devadmin"}}
             \cup {[Register1 EXCEPT !.user = u] : u \in {"user", "devuser"}}
             \cup {[Register1 EXCEPT !.content = part] : part \in {"head", "body"}}
             \cup {[R("HEAD", "v3", "platforms") EXCEPT !.admin = "admin"]}
             \cup {Policy, [Policy EXCEPT !.admin = "user"]}
             \cup {Attest, [Attest EXCEPT !.slash = TRUE], [Attest EXCEPT !.method = "OPTIONS"],
                   [Attest EXCEPT !.leaf = "attest"], [Attest EXCEPT !.method = "PUT"]}
             \cup {Tcb, [Tcb EXCEPT !.valid = FALSE], [Tcb EXCEPT !.size = 1], [Tcb EXCEPT !.method = "HEAD"],
                   [Tcb EXCEPT !.method = "PUT"], [Tcb EXCEPT !.mount = "tdx"], [Tcb EXCEPT !.slash = TRUE]}
             \cup {R("GET", "v3", leaf) : leaf \in {"pckcert", "pckcrl", "appraisalpolicy", "odd"}}
             \cup {R("GET", "amd", "rest"), R("GET", "rim", "rest"), R("POST", "ocsp", ""),
                   [R("POST", "ocsp", "") EXCEPT !.size = 100],
                   R("GET", "healthz", "live"), R("GET", "healthz", "ready"), R("GET", "healthz", "startup"),
                   R("GET", "other", "")}]

Some(option, value) == [EmptyToml.plain EXCEPT ![option] = value]

Full == [EmptyToml EXCEPT !.user = "hu", !.admin = "ha", !.max_age = 60]
Odd == [EmptyToml EXCEPT !.https = TRUE, !.user = "", !.admin = "malformed", !.mode = "odd",
                         !.body_size = [number |-> 1, unit |-> "KB"],
                         !.plain = Some("headers_timeout", 0)]
MCFiles == {Full, Odd}

Json == [EmptyToml EXCEPT !.user = "ho", !.admin = "", !.mode = "REQ", !.plain = Some("uri", "v3"),
                          !.body_size = [number |-> Unset, unit |-> "MB"]]
MCJsons == {Json}

Line == [named |-> FALSE, https |-> FALSE, http |-> FALSE, user |-> Unset, admin |-> Unset,
         mode |-> Unset, body_size |-> Unset, max_age |-> Unset, seed |-> Unset, no_seed |-> FALSE,
         dev_tokens |-> FALSE, plain |-> EmptyToml.plain]
MCLines == {
    Line,
    [Line EXCEPT !.named = TRUE, !.dev_tokens = TRUE, !.max_age = 60],
    [Line EXCEPT !.named = TRUE, !.http = TRUE, !.admin = "", !.dev_tokens = TRUE, !.max_age = 0],
    [Line EXCEPT !.https = TRUE, !.http = TRUE, !.admin = "ho", !.plain = Some("metrics_listen", TRUE),
                 !.mode = "OFFLINE", !.body_size = [number |-> 4096, unit |-> "MB"]]}
=============================================================================
