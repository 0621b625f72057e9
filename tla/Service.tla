------------------------------ MODULE Service ------------------------------
(***************************************************************************)
(* One life of the server process: its configuration (config.rs), the      *)
(* start (main.rs run, lib.rs), connections and requests (server.rs,       *)
(* lib.rs, routes), and the shutdown.  `pccs-rs config import' may write   *)
(* the configuration file while the server starts.                         *)
(*                                                                         *)
(* What a handler does to the cache is in the other modules; here it takes *)
(* as long as it likes and answers with any of its statuses.               *)
(***************************************************************************)
EXTENDS Requests

CONSTANTS
    Clients,
    MayAsk,     \* MayAsk[c]: the requests client c may send
    Files,      \* contents of the configuration file before the start
    Jsons,      \* Node configurations that may be imported into it
    Lines,      \* command lines
    None

VARIABLES
    file,      \* the configuration file: absent, unusable, or a document
    import,    \* the document `config import' is about to write, or None
    args,      \* the command line
    loaded,    \* history: the document the server read
    cfg,       \* its Config
    phase,     \* where run() is
    tasks,     \* the background tasks that run
    started,   \* StartupState
    conn,      \* where the connection of a client is
    req, ans,  \* its request, and the answer
    graceOver, \* the grace period ended with connections open
    lost       \* history: clients whose request was cut off

config == <<file, import, args, loaded, cfg>>
life == <<phase, tasks, started, graceOver, lost>>
net == <<conn, req, ans>>
vars == <<config, life, net>>

Absent == [state |-> "absent", doc |-> EmptyToml]
Unusable == [state |-> "unusable", doc |-> EmptyToml]
Toml(doc) == [state |-> "toml", doc |-> doc]

Handling == {"body", "work"}

Init ==
    /\ file \in {Absent, Unusable} \cup {Toml(d) : d \in Files}
    /\ args \in Lines
    /\ import = None /\ loaded = None /\ cfg = None
    /\ phase = "down" /\ tasks = {} /\ started = FALSE
    /\ graceOver = FALSE /\ lost = {}
    /\ conn = [c \in Clients |-> "closed"]
    /\ req = [c \in Clients |-> None] /\ ans = req

-----------------------------------------------------------------------------
(* import_pccs_json *)

\* The file is read and merged; fs::write begins by emptying it.
ImportBegins ==
    /\ phase = "down" /\ import = None /\ file.state # "unusable"
    /\ \E src \in Jsons : import' = apply_json_to_toml(file.doc, src)
    /\ file' = Toml(EmptyToml)
    /\ UNCHANGED <<args, loaded, cfg, life, net>>

ImportWrites ==
    /\ phase = "down" /\ import # None
    /\ file' = Toml(import) /\ import' = None
    /\ UNCHANGED <<args, loaded, cfg, life, net>>

\* Killed in between: some of the keys are there, or a line is cut in two.
ImportDies ==
    /\ phase = "down" /\ import # None
    /\ file' \in {Toml(FirstKeys(import, n)) : n \in 0 .. 6} \cup {Unusable}
    /\ import' = None
    /\ UNCHANGED <<args, loaded, cfg, life, net>>

-----------------------------------------------------------------------------
(* The start *)

Exit(p) == phase' = p /\ UNCHANGED <<config, tasks, started, graceOver, lost, net>>

\* from_serve_args, load_toml: a file that is named must be there, one that is there
\* must be readable.
ReadConfig ==
    /\ phase = "down"
    /\ IF file.state = "unusable" \/ (file.state = "absent" /\ args.named)
       THEN Exit("failed")
       ELSE /\ loaded' = file.doc
            /\ cfg' = ConfigOf(file.doc, args)
            /\ phase' = "configured"
            /\ UNCHANGED <<file, import, args, tasks, started, graceOver, lost, net>>

\* app_state: the database is opened and the seed loaded, or the process panics.
BuildCache == phase = "configured" /\ (Exit("cached") \/ Exit("failed"))

\* start_metrics_listener, if there is to be one; then the scheduler is spawned.
StartTasks ==
    /\ phase = "cached"
    /\ \/ /\ tasks' = {"scheduler"} \cup IF cfg.plain["metrics_listen"] THEN {"metrics"} ELSE {}
          /\ phase' = "scheduled"
          /\ UNCHANGED <<config, started, graceOver, lost, net>>
       \/ cfg.plain["metrics_listen"] /\ Exit("failed")

\* The listener is bound and mark_started called.
Listen ==
    /\ phase = "scheduled"
    /\ \/ /\ phase' = "serving" /\ started' = TRUE
          /\ UNCHANGED <<config, tasks, graceOver, lost, net>>
       \/ Exit("failed")

\* With HTTPS the address is bound after mark_started: an error there ends serve.
ServeFails ==
    /\ phase = "serving" /\ cfg.https /\ \A c \in Clients : conn[c] = "closed"
    /\ phase' = "stopping"
    /\ UNCHANGED <<config, tasks, started, graceOver, lost, net>>

-----------------------------------------------------------------------------
(* Connections: serve_http, or axum_server with TLS *)

Move(c, stage) == conn' = [conn EXCEPT ![c] = stage]
Waits(c) == req' = [req EXCEPT ![c] = None] /\ ans' = [ans EXCEPT ![c] = None]

Close(c) == Move(c, "closed") /\ Waits(c) /\ UNCHANGED <<config, life>>

Accept(c) ==
    /\ phase = "serving" /\ conn[c] = "closed"
    /\ Move(c, "waiting")
    /\ UNCHANGED <<config, life, req, ans>>

\* await_first_byte returns true: the stream goes into the channel.  With TLS the
\* handshake is done, and the connection is served at once.
FirstByte(c) ==
    /\ conn[c] = "waiting" /\ phase # "exited"
    /\ Move(c, IF cfg.https THEN "open" ELSE "ready")
    /\ UNCHANGED <<config, life, req, ans>>

\* The first byte, or the handshake, does not come in time.
FirstByteLate(c) ==
    /\ conn[c] = "waiting" /\ phase # "exited"
    /\ cfg.https \/ cfg.plain["headers_timeout"] # 0
    /\ Close(c)

\* The accept loop takes the stream from the channel and watches it.
Register(c) ==
    /\ phase = "serving" /\ conn[c] = "ready"
    /\ Move(c, "open")
    /\ UNCHANGED <<config, life, req, ans>>

\* The client goes, or header_read_timeout closes an idle connection.
HangUp(c) ==
    /\ conn[c] \notin {"closed", "waiting"} /\ phase # "exited"
    /\ Close(c)

-----------------------------------------------------------------------------
(* Requests *)

\* The answer goes out; a connection that is shutting down is closed after it.
Respond(c, r, status) ==
    /\ req' = [req EXCEPT ![c] = r]
    /\ ans' = [ans EXCEPT ![c] = Answer(cfg, r, status)]
    /\ Move(c, "open")
    /\ UNCHANGED <<config, life>>

\* The layers, up to the extractors of the handler.  After the signal a connection
\* takes no second request.
Ask(c, r) ==
    /\ conn[c] = "open" /\ (phase = "serving" \/ ans[c] = None)
    /\ \/ \E status \in Rejections(cfg, r) : Respond(c, r, status)
       \/ /\ Rejections(cfg, r) = {}
          /\ req' = [req EXCEPT ![c] = r] /\ ans' = [ans EXCEPT ![c] = None]
          /\ Move(c, IF ReadsBody(r) THEN "body" ELSE "work")
          /\ UNCHANGED <<config, life>>

ReadBody(c) ==
    /\ conn[c] = "body" /\ phase # "exited"
    /\ LET status == BodyStatus(cfg, req[c])
       IN  IF status # 0 THEN Respond(c, req[c], status)
           ELSE Move(c, "work") /\ UNCHANGED <<config, life, req, ans>>

\* RequestTimeoutSeconds bounds the body; 400 if the client stops in the middle.
BodyLate(c) ==
    /\ conn[c] = "body" /\ req[c].content # "head" /\ phase # "exited"
    /\ \E status \in {408, 400} : Respond(c, req[c], status)

Work(c) ==
    /\ conn[c] = "work" /\ phase # "exited"
    /\ \E status \in Outcomes(req[c], started) : Respond(c, req[c], status)

-----------------------------------------------------------------------------
(* The shutdown *)

\* shutdown_signal: the accept loop ends, and with it what it has not registered.
Signal ==
    /\ phase = "serving"
    /\ phase' = "draining"
    /\ conn' = [c \in Clients |->
                   IF ~cfg.https /\ conn[c] \in {"waiting", "ready"} THEN "closed" ELSE conn[c]]
    /\ UNCHANGED <<config, tasks, started, graceOver, lost, req, ans>>

\* graceful.shutdown closes the connections that are idle or have had their answer.
CloseIdle(c) == phase \in {"draining", "stopping"} /\ conn[c] = "open" /\ Close(c)

\* Variant: the loop ends without a look at the connections.
DrainedAtOnce == TRUE

Drained == \A c \in Clients : conn[c] = "closed"

DrainEnds ==
    /\ phase = "draining" /\ Drained
    /\ phase' = "stopping"
    /\ UNCHANGED <<config, tasks, started, graceOver, lost, net>>

\* Variant: the connections get all the time they want.
NoGrace == FALSE

\* SHUTDOWN_GRACE has passed.
GraceEnds == phase = "draining"

GraceRunsOut ==
    /\ GraceEnds
    /\ phase' = "stopping" /\ graceOver' = TRUE
    /\ UNCHANGED <<config, tasks, started, lost, net>>

\* scheduler.abort, then MetricsListener::stop, bounded by the grace period as well.
StopTasks ==
    /\ phase = "stopping" /\ tasks # {}
    /\ tasks' = IF "scheduler" \in tasks THEN tasks \ {"scheduler"} ELSE {}
    /\ UNCHANGED <<config, phase, started, graceOver, lost, net>>

\* main returns and the runtime is dropped with what still runs in it.
MainReturns ==
    /\ phase = "stopping" /\ tasks = {}
    /\ phase' = "exited"
    /\ lost' = {c \in Clients : conn[c] \in Handling}
    /\ conn' = [c \in Clients |-> "closed"]
    /\ req' = [c \in Clients |-> None] /\ ans' = [c \in Clients |-> None]
    /\ UNCHANGED <<config, tasks, started, graceOver>>

Start == ReadConfig \/ BuildCache \/ StartTasks \/ Listen
Stop == DrainEnds \/ GraceRunsOut \/ StopTasks \/ MainReturns

Next ==
    \/ ImportBegins \/ ImportWrites \/ ImportDies
    \/ Start \/ ServeFails \/ Signal \/ Stop
    \/ \E c \in Clients :
           \/ Accept(c) \/ FirstByte(c) \/ FirstByteLate(c) \/ Register(c) \/ HangUp(c)
           \/ \E r \in MayAsk[c] : Ask(c, r)
           \/ ReadBody(c) \/ BodyLate(c) \/ Work(c) \/ CloseIdle(c)

(***************************************************************************)
(* The grace period is a timer and the steps of main after it wait for     *)
(* nothing without one.  Handlers, clients and the operator may do nothing *)
(* for ever.                                                               *)
(***************************************************************************)
Fairness == WF_vars(Stop)

Spec == Init /\ [][Next]_vars /\ Fairness

-----------------------------------------------------------------------------
(***************************************************************************)
(* What an operator means by the options he gives: the token of a guard is *)
(* the one the command line names, or else the one of the file the server  *)
(* read, and the dev token only if asked for and no other is set.          *)
(***************************************************************************)
Named(guard) == IF guard = "admin" THEN <<args.admin, loaded.admin>> ELSE <<args.user, loaded.user>>

Grants(guard, token) ==
    LET line == Named(guard)[1]
        doc == Named(guard)[2]
        dev == IF guard = "admin" THEN DevAdmin ELSE DevUser
    IN  \/ line # Unset /\ Sha512[token] = line
        \/ line = Unset /\ Sha512[token] = doc
        \/ /\ args.dev_tokens /\ Sha512[token] = dev
           /\ line = "" \/ (line = Unset /\ doc \in {Unset, ""})

(***************************************************************************)
(* A guarded handler works only for a request with the token the options   *)
(* grant, also when the configuration file was only half written or empty  *)
(* at the start (auth.rs, apply_toml, apply_cli): the service fails closed.*)
(***************************************************************************)
FailsClosed ==
    \A c \in Clients : conn[c] \in Handling /\ Guard(req[c]) # "none" =>
        LET token == IF Guard(req[c]) = "admin" THEN req[c].admin ELSE req[c].user
        IN  token \notin {Unset, ""} /\ Grants(Guard(req[c]), token)

(***************************************************************************)
(* An answer that anybody on the way may keep is the 200 of an unguarded   *)
(* read of signed collateral, readable from any origin, and an answer of   *)
(* the nonce-bound proxy says no-store whichever layer gave it (cors,      *)
(* collateral_cache_control).                                              *)
(***************************************************************************)
KeptOnlyIfPublic ==
    \A c \in Clients : ans[c] # None =>
        /\ ans[c].cache = "public" =>
               /\ ans[c].status = 200 /\ ans[c].cors
               /\ req[c].method \in {"GET", "HEAD"} /\ Guard(req[c]) = "none"
               /\ req[c].leaf \notin {"pckcert", "appraisalpolicy", "crl"}
        /\ req[c].mount = "nras" => ans[c].cache = "no-store"

(***************************************************************************)
(* A request that has reached its handler, or is sending its body, is cut  *)
(* off by a shutdown only if the grace period has passed (serve_http).     *)
(***************************************************************************)
CutOffOnlyByGrace == lost # {} => graceOver

(***************************************************************************)
(* After a signal the process ends, whatever handlers and clients do       *)
(* (SHUTDOWN_GRACE).                                                       *)
(***************************************************************************)
ShutdownEnds == phase = "draining" ~> phase = "exited"
=============================================================================
