--------------------------- MODULE ServiceProofs ---------------------------
(***************************************************************************)
(* Theorems about Service, for any clients, requests, configuration files  *)
(* and command lines: what the options mean for a guarded handler, which   *)
(* answers may be kept, and whom a shutdown cuts off.                      *)
(***************************************************************************)
EXTENDS Service, TLAPS

-----------------------------------------------------------------------------
(* The configuration *)

\* The hash of a guard after the three layers.
LEMMA HashOf ==
  ASSUME NEW doc, NEW line
  PROVE  LET final == ConfigOf(doc, line)
         IN  /\ final.admin = DevFills(Given(line.admin, IF doc.admin \in {Unset, ""} THEN "" ELSE doc.admin),
                                       DevAdmin, line.dev_tokens)
             /\ final.user = DevFills(Given(line.user, IF doc.user \in {Unset, ""} THEN "" ELSE doc.user),
                                      DevUser, line.dev_tokens)
<1> DEFINE middle == apply_toml(DefaultConfig, doc)
<1>1. /\ DefaultConfig.admin = "" /\ DefaultConfig.user = ""
      /\ DOMAIN DefaultConfig = {"https", "http", "user", "admin", "max_age", "mode",
                                 "body_size", "seed", "no_seed", "plain"}
  BY DEF DefaultConfig
<1>2. /\ middle.admin = IF doc.admin \in {Unset, ""} THEN "" ELSE doc.admin
      /\ middle.user = IF doc.user \in {Unset, ""} THEN "" ELSE doc.user
      /\ DOMAIN middle = DOMAIN DefaultConfig
  BY <1>1 DEF apply_toml
<1> HIDE DEF middle
<1>3. /\ apply_cli(middle, line).admin = DevFills(Given(line.admin, middle.admin), DevAdmin, line.dev_tokens)
      /\ apply_cli(middle, line).user = DevFills(Given(line.user, middle.user), DevUser, line.dev_tokens)
  BY <1>1, <1>2 DEF apply_cli
<1> QED
  BY <1>2, <1>3 DEF ConfigOf, middle

\* A token that verifies against the final hash is one the options grant.
Granted(line, doc, dev, wanted, token) ==
    \/ line # Unset /\ Sha512[token] = line
    \/ line = Unset /\ Sha512[token] = doc
    \/ wanted /\ Sha512[token] = dev /\ (line = "" \/ (line = Unset /\ doc \in {Unset, ""}))

LEMMA VerifiedIsGranted ==
  ASSUME NEW line, NEW doc, NEW dev, NEW wanted, NEW token,
         verify_token(token, DevFills(Given(line, IF doc \in {Unset, ""} THEN "" ELSE doc), dev, wanted))
  PROVE  token \notin {Unset, ""} /\ Granted(line, doc, dev, wanted, token)
BY DEF verify_token, DevFills, Given, IsSha512, Granted

-----------------------------------------------------------------------------
(* Requests and answers *)

\* Who is not rejected has shown the token.
LEMMA NotRejected ==
  ASSUME NEW config_, NEW r, Rejections(config_, r) = {}
  PROVE  Authorized(config_, r)
BY DEF Rejections

\* The answers that may be kept.
LEMMA PublicAnswer ==
  ASSUME NEW config_, NEW r, NEW status, NoStore(r, CollateralCacheControl(config_, r, status)) = "public"
  PROVE  /\ status = 200 /\ CollateralPath(r)
         /\ r.method \in {"GET", "HEAD"} /\ Guard(r) = "none"
         /\ r.leaf \notin {"pckcert", "appraisalpolicy", "crl"}
<1>1. /\ status = 200 /\ ~AnsweredOutside(r) /\ Cacheable(config_, r)
  BY DEF NoStore, CollateralCacheControl
<1>2. ~r.slash
  BY <1>1 DEF AnsweredOutside
<1>3. r.method \in {"GET", "HEAD"}
  BY <1>1 DEF Cacheable
<1>4. CASE r.mount \in Sgx /\ r.leaf \in {"pckcrl", "tcb", "qe/identity", "qve/identity", "rootcacrl"}
  <2>1. CollateralPath(r)
    BY <1>2, <1>4 DEF CollateralPath, PublicLeaves, Sgx, Intel
  <2>2. Guard(r) = "none"
    BY <1>4 DEF Guard, AdminRoutes, UserRoutes
  <2> QED
    BY <1>1, <1>3, <1>4, <2>1, <2>2
<1>5. CASE r.mount = "tdx"
  <2>1. r.leaf \in {"tcb", "qe/identity"}
    BY <1>1, <1>5 DEF Cacheable, PathKnown, Routes, Sgx
  <2>2. CollateralPath(r)
    BY <1>2, <1>5, <2>1 DEF CollateralPath, PublicLeaves, Intel
  <2>3. Guard(r) = "none"
    BY <1>5 DEF Guard, Sgx
  <2> QED
    BY <1>1, <1>3, <2>1, <2>2, <2>3
<1> QED
  BY <1>1, <1>4, <1>5 DEF Cacheable

LEMMA NrasAnswer ==
  ASSUME NEW r, NEW header, r.mount = "nras"
  PROVE  NoStore(r, header) = "no-store"
BY DEF NoStore

-----------------------------------------------------------------------------
(* The inductive invariant *)

Stages == {"closed", "waiting", "ready", "open", "body", "work"}
Starting == {"down", "configured", "cached", "scheduled", "failed"}
Phases == Starting \cup {"serving", "draining", "stopping", "exited"}

\* The connections.
NetTypes ==
    /\ phase \in Phases /\ graceOver \in BOOLEAN
    /\ conn \in [Clients -> Stages]
    /\ req = [c \in Clients |-> req[c]] /\ ans = [c \in Clients |-> ans[c]]

\* Once it is read, the configuration is what file and command line say.
ConfigOK == phase \in Phases \ {"down", "failed"} => cfg = ConfigOf(loaded, args)

\* No connection before the server listens, none after the process has gone, and
\* none after the loop has ended by itself.
QuietOK ==
    /\ phase \in Starting \cup {"exited"} \/ (phase = "stopping" /\ ~graceOver) =>
           \A c \in Clients : conn[c] = "closed"
    /\ phase \in Starting => \A c \in Clients : ans[c] = None

\* A request at its handler has passed the layers, an answer is one they leave as it is.
HandledOK(c) == conn[c] \in Handling => Rejections(cfg, req[c]) = {}
AnsweredOK(c) == ans[c] # None => \E status : ans[c] = Answer(cfg, req[c], status)

Inv ==
    /\ NetTypes /\ ConfigOK /\ QuietOK
    /\ \A c \in Clients : HandledOK(c) /\ AnsweredOK(c)
    /\ CutOffOnlyByGrace

LEMMA InitInv == Init => Inv
<1> SUFFICES ASSUME Init PROVE Inv
  OBVIOUS
<1>1. NetTypes
  BY DEF Init, NetTypes, Phases, Starting, Stages
<1>2. ConfigOK /\ QuietOK /\ CutOffOnlyByGrace
  BY DEF Init, ConfigOK, QuietOK, CutOffOnlyByGrace, Starting
<1>3. \A c \in Clients : HandledOK(c) /\ AnsweredOK(c)
  BY DEF Init, HandledOK, AnsweredOK, Handling
<1> QED
  BY <1>1, <1>2, <1>3 DEF Inv

\* Nothing but the file changes.
LEMMA ImportInv ==
  ASSUME Inv, UNCHANGED <<args, loaded, cfg, life, net>>
  PROVE  Inv'
<1>1. /\ args' = args /\ loaded' = loaded /\ cfg' = cfg /\ phase' = phase
      /\ graceOver' = graceOver /\ lost' = lost /\ conn' = conn /\ req' = req /\ ans' = ans
  BY DEF life, net
<1>2. NetTypes' /\ ConfigOK' /\ QuietOK' /\ CutOffOnlyByGrace'
  BY <1>1 DEF Inv, NetTypes, ConfigOK, QuietOK, CutOffOnlyByGrace
<1>3. \A c \in Clients : HandledOK(c)' /\ AnsweredOK(c)'
  BY <1>1 DEF Inv, HandledOK, AnsweredOK
<1> QED
  BY <1>2, <1>3 DEF Inv

\* The process goes from one phase to the next, and no connection moves.
LEMMA PhaseInv ==
  ASSUME Inv, UNCHANGED <<args, loaded, cfg, net>>, lost' = lost,
         phase' \in Phases, graceOver' \in BOOLEAN, graceOver => graceOver',
         phase' \notin {"down", "failed"} => phase \notin {"down", "failed"},
         phase' \in Starting => phase \in Starting,
         phase' \in Starting \cup {"exited"} \/ (phase' = "stopping" /\ ~graceOver') =>
             \A c \in Clients : conn[c] = "closed"
  PROVE  Inv'
<1>1. /\ args' = args /\ loaded' = loaded /\ cfg' = cfg
      /\ conn' = conn /\ req' = req /\ ans' = ans
  BY DEF net
<1>2. NetTypes'
  BY <1>1 DEF Inv, NetTypes
<1>3. ConfigOK' /\ QuietOK'
  BY <1>1 DEF Inv, NetTypes, ConfigOK, QuietOK
<1>4. CutOffOnlyByGrace'
  BY DEF Inv, CutOffOnlyByGrace
<1>5. \A c \in Clients : HandledOK(c)' /\ AnsweredOK(c)'
  BY <1>1 DEF Inv, HandledOK, AnsweredOK
<1> QED
  BY <1>2, <1>3, <1>4, <1>5 DEF Inv

\* One connection moves.
LEMMA ConnInv ==
  ASSUME Inv, NEW c \in Clients, NEW stage \in Stages, UNCHANGED <<config, life>>,
         conn' = [conn EXCEPT ![c] = stage],
         phase = "serving" \/ conn[c] # "closed",
         req' = [u \in Clients |-> req'[u]], ans' = [u \in Clients |-> ans'[u]],
         \A u \in Clients : u # c => req'[u] = req[u] /\ ans'[u] = ans[u],
         stage \in Handling => Rejections(cfg, req'[c]) = {},
         ans'[c] # None => \E status : ans'[c] = Answer(cfg, req'[c], status)
  PROVE  Inv'
<1>1. /\ args' = args /\ loaded' = loaded /\ cfg' = cfg /\ phase' = phase
      /\ graceOver' = graceOver /\ lost' = lost
  BY DEF config, life
<1>2. conn' \in [Clients -> Stages] /\ conn'[c] = stage
      /\ \A u \in Clients : u # c => conn'[u] = conn[u]
  BY DEF Inv, NetTypes
<1>3. NetTypes' /\ ConfigOK' /\ CutOffOnlyByGrace'
  BY <1>1, <1>2 DEF Inv, NetTypes, ConfigOK, CutOffOnlyByGrace
<1>4. QuietOK'
  <2>1. phase = "serving" \/ phase = "draining" \/ (phase = "stopping" /\ graceOver)
    BY DEF Inv, NetTypes, QuietOK, Phases
  <2> QED
    BY <1>1, <2>1 DEF QuietOK, Starting
<1>5. ASSUME NEW u \in Clients PROVE HandledOK(u)' /\ AnsweredOK(u)'
  <2>1. CASE u = c
    BY <1>1, <1>2, <2>1 DEF HandledOK, AnsweredOK
  <2>2. CASE u # c
    <3>1. conn'[u] = conn[u] /\ req'[u] = req[u] /\ ans'[u] = ans[u]
      BY <1>2, <2>2
    <3> QED
      BY <1>1, <3>1 DEF Inv, HandledOK, AnsweredOK
  <2> QED
    BY <2>1, <2>2
<1> QED
  BY <1>3, <1>4, <1>5 DEF Inv

-----------------------------------------------------------------------------
(* The steps of the process *)

LEMMA ExitInv ==
  ASSUME Inv, NEW p \in Starting \ {"down"}, Exit(p), phase \in Starting,
         p # "failed" => phase \notin {"down", "failed"}
  PROVE  Inv'
<1>1. /\ UNCHANGED <<args, loaded, cfg, net>> /\ lost' = lost /\ graceOver' = graceOver
      /\ phase' = p
  BY DEF Exit, config
<1>2. \A c \in Clients : conn[c] = "closed"
  BY DEF Inv, QuietOK
<1> QED
  BY <1>1, <1>2, PhaseInv DEF Inv, NetTypes, Starting, Phases

LEMMA ReadConfigInv ==
  ASSUME Inv, ReadConfig
  PROVE  Inv'
<1>1. phase = "down"
  BY DEF ReadConfig
<1>2. CASE Exit("failed")
  BY <1>1, <1>2, ExitInv DEF Starting
<1>3. CASE /\ loaded' = file.doc
           /\ cfg' = ConfigOf(file.doc, args)
           /\ phase' = "configured"
           /\ UNCHANGED <<file, import, args, tasks, started, graceOver, lost, net>>
  <2>1. /\ args' = args /\ graceOver' = graceOver /\ lost' = lost
        /\ conn' = conn /\ req' = req /\ ans' = ans
    BY <1>3 DEF net
  <2>2. \A c \in Clients : conn[c] = "closed" /\ ans[c] = None
    BY <1>1 DEF Inv, QuietOK, Starting
  <2>3. NetTypes'
    BY <1>3, <2>1 DEF Inv, NetTypes, Phases, Starting
  <2>4. ConfigOK'
    BY <1>3, <2>1 DEF ConfigOK
  <2>5. QuietOK'
    BY <2>1, <2>2 DEF QuietOK
  <2>6. \A c \in Clients : HandledOK(c)' /\ AnsweredOK(c)'
    BY <2>1, <2>2 DEF HandledOK, AnsweredOK, Handling
  <2>7. CutOffOnlyByGrace'
    BY <2>1 DEF Inv, CutOffOnlyByGrace
  <2> QED
    BY <2>3, <2>4, <2>5, <2>6, <2>7 DEF Inv
<1> QED
  BY <1>2, <1>3 DEF ReadConfig

LEMMA StartInv ==
  ASSUME Inv, Start
  PROVE  Inv'
<1>1. CASE ReadConfig
  BY <1>1, ReadConfigInv
<1>2. CASE BuildCache
  BY <1>2, ExitInv DEF BuildCache, Starting
<1>3. CASE StartTasks
  <2>1. phase = "cached"
    BY <1>3 DEF StartTasks
  <2>2. CASE Exit("failed")
    BY <2>1, <2>2, ExitInv DEF Starting
  <2>3. CASE phase' = "scheduled" /\ UNCHANGED <<config, started, graceOver, lost, net>>
    <3>1. UNCHANGED <<args, loaded, cfg, net>> /\ lost' = lost /\ graceOver' = graceOver
      BY <2>3 DEF config
    <3>2. \A c \in Clients : conn[c] = "closed"
      BY <2>1 DEF Inv, QuietOK, Starting
    <3> QED
      BY <2>1, <2>3, <3>1, <3>2, PhaseInv DEF Inv, NetTypes, Starting, Phases
  <2> QED
    BY <1>3, <2>2, <2>3 DEF StartTasks
<1>4. CASE Listen
  <2>1. phase = "scheduled"
    BY <1>4 DEF Listen
  <2>2. CASE Exit("failed")
    BY <2>1, <2>2, ExitInv DEF Starting
  <2>3. CASE phase' = "serving" /\ UNCHANGED <<config, tasks, graceOver, lost, net>>
    <3>1. UNCHANGED <<args, loaded, cfg, net>> /\ lost' = lost /\ graceOver' = graceOver
      BY <2>3 DEF config
    <3> QED
      BY <2>1, <2>3, <3>1, PhaseInv DEF Inv, NetTypes, Starting, Phases
  <2> QED
    BY <1>4, <2>2, <2>3 DEF Listen
<1> QED
  BY <1>1, <1>2, <1>3, <1>4 DEF Start

LEMMA ServeFailsInv ==
  ASSUME Inv, ServeFails
  PROVE  Inv'
<1>1. /\ phase = "serving" /\ phase' = "stopping" /\ \A c \in Clients : conn[c] = "closed"
      /\ UNCHANGED <<args, loaded, cfg, net>> /\ lost' = lost /\ graceOver' = graceOver
  BY DEF ServeFails, config
<1> QED
  BY <1>1, PhaseInv DEF Inv, NetTypes, Starting, Phases

\* The signal closes what is not registered; who is at his handler stays.
LEMMA SignalInv ==
  ASSUME Inv, Signal
  PROVE  Inv'
<1>1. /\ phase = "serving" /\ phase' = "draining" /\ args' = args /\ loaded' = loaded
      /\ cfg' = cfg /\ graceOver' = graceOver /\ lost' = lost /\ req' = req /\ ans' = ans
  BY DEF Signal, config
<1>2. \A c \in Clients : conn'[c] \in {"closed", conn[c]}
  BY DEF Signal
<1>3. conn' \in [Clients -> Stages]
  <2>1. conn \in [Clients -> Stages] /\ "closed" \in Stages
    BY DEF Inv, NetTypes, Stages
  <2> QED
    BY <2>1 DEF Signal
<1>4. NetTypes' /\ ConfigOK' /\ QuietOK' /\ CutOffOnlyByGrace'
  BY <1>1, <1>3 DEF Inv, NetTypes, ConfigOK, QuietOK, CutOffOnlyByGrace, Phases, Starting
<1>5. \A c \in Clients : HandledOK(c)' /\ AnsweredOK(c)'
  BY <1>1, <1>2 DEF Inv, HandledOK, AnsweredOK, Handling
<1> QED
  BY <1>4, <1>5 DEF Inv

LEMMA StopInv ==
  ASSUME Inv, Stop
  PROVE  Inv'
<1>1. CASE DrainEnds
  <2>1. /\ phase = "draining" /\ phase' = "stopping" /\ \A c \in Clients : conn[c] = "closed"
        /\ UNCHANGED <<args, loaded, cfg, net>> /\ lost' = lost /\ graceOver' = graceOver
    BY <1>1 DEF DrainEnds, Drained, config
  <2> QED
    BY <2>1, PhaseInv DEF Inv, NetTypes, Starting, Phases
<1>2. CASE GraceRunsOut
  <2>1. /\ phase = "draining" /\ phase' = "stopping" /\ graceOver' = TRUE
        /\ UNCHANGED <<args, loaded, cfg, net>> /\ lost' = lost
    BY <1>2 DEF GraceRunsOut, GraceEnds, config
  <2> QED
    BY <2>1, PhaseInv DEF Inv, NetTypes, Starting, Phases
<1>3. CASE StopTasks
  <2>1. /\ phase = "stopping" /\ phase' = phase /\ graceOver' = graceOver
        /\ UNCHANGED <<args, loaded, cfg, net>> /\ lost' = lost
    BY <1>3 DEF StopTasks, config
  <2>2. ~graceOver => \A c \in Clients : conn[c] = "closed"
    BY <2>1 DEF Inv, QuietOK
  <2> QED
    BY <2>1, <2>2, PhaseInv DEF Inv, NetTypes, Starting, Phases
<1>4. CASE MainReturns
  <2>1. /\ phase = "stopping" /\ phase' = "exited" /\ args' = args /\ loaded' = loaded
        /\ cfg' = cfg /\ graceOver' = graceOver
        /\ lost' = {c \in Clients : conn[c] \in Handling}
        /\ conn' = [c \in Clients |-> "closed"]
        /\ req' = [c \in Clients |-> None] /\ ans' = [c \in Clients |-> None]
    BY <1>4 DEF MainReturns, config
  <2>2. NetTypes'
    BY <2>1 DEF Inv, NetTypes, Phases, Stages
  <2>3. ConfigOK' /\ QuietOK'
    BY <2>1 DEF Inv, ConfigOK, QuietOK, Phases, Starting
  <2>4. \A c \in Clients : HandledOK(c)' /\ AnsweredOK(c)'
    BY <2>1 DEF HandledOK, AnsweredOK, Handling
  <2>5. CutOffOnlyByGrace'
    BY <2>1 DEF Inv, QuietOK, CutOffOnlyByGrace, Handling
  <2> QED
    BY <2>2, <2>3, <2>4, <2>5 DEF Inv
<1> QED
  BY <1>1, <1>2, <1>3, <1>4 DEF Stop

-----------------------------------------------------------------------------
(* The steps of the connections *)

\* A connection moves and its request and answer stay.
LEMMA MoveInv ==
  ASSUME Inv, NEW c \in Clients, NEW stage \in Stages, Move(c, stage),
         UNCHANGED <<config, life, req, ans>>, phase = "serving" \/ conn[c] # "closed",
         stage \in Handling => conn[c] \in Handling
  PROVE  Inv'
<1>1. conn' = [conn EXCEPT ![c] = stage] /\ req' = req /\ ans' = ans
  BY DEF Move
<1>2. /\ req' = [u \in Clients |-> req'[u]] /\ ans' = [u \in Clients |-> ans'[u]]
      /\ stage \in Handling => Rejections(cfg, req'[c]) = {}
      /\ ans'[c] # None => \E status : ans'[c] = Answer(cfg, req'[c], status)
  BY <1>1 DEF Inv, NetTypes, HandledOK, AnsweredOK
<1> QED
  BY <1>1, <1>2, ConnInv

LEMMA CloseInv ==
  ASSUME Inv, NEW c \in Clients, Close(c), conn[c] # "closed"
  PROVE  Inv'
<1>1. /\ conn' = [conn EXCEPT ![c] = "closed"] /\ UNCHANGED <<config, life>>
      /\ req' = [req EXCEPT ![c] = None] /\ ans' = [ans EXCEPT ![c] = None]
  BY DEF Close, Move, Waits
<1>2. DOMAIN req = Clients /\ DOMAIN ans = Clients
  BY DEF Inv, NetTypes
<1>3. /\ req' = [u \in Clients |-> req'[u]] /\ ans' = [u \in Clients |-> ans'[u]]
      /\ \A u \in Clients : u # c => req'[u] = req[u] /\ ans'[u] = ans[u]
      /\ ans'[c] = None
  BY <1>1, <1>2
<1>4. "closed" \in Stages /\ "closed" \notin Handling
  BY DEF Stages, Handling
<1> QED
  BY <1>1, <1>3, <1>4, ConnInv

LEMMA RespondInv ==
  ASSUME Inv, NEW c \in Clients, NEW r, NEW status, Respond(c, r, status), conn[c] # "closed"
  PROVE  Inv'
<1> DEFINE answer == Answer(cfg, r, status)
<1>1. /\ conn' = [conn EXCEPT ![c] = "open"] /\ UNCHANGED <<config, life>>
      /\ req' = [req EXCEPT ![c] = r] /\ ans' = [ans EXCEPT ![c] = answer]
  BY DEF Respond, Move
<1>2. DOMAIN req = Clients /\ DOMAIN ans = Clients
  BY DEF Inv, NetTypes
<1> HIDE DEF answer
<1>3. /\ req' = [u \in Clients |-> req'[u]] /\ ans' = [u \in Clients |-> ans'[u]]
      /\ \A u \in Clients : u # c => req'[u] = req[u] /\ ans'[u] = ans[u]
      /\ req'[c] = r /\ ans'[c] = answer
  BY <1>1, <1>2
<1>4. \E s : ans'[c] = Answer(cfg, req'[c], s)
  BY <1>3 DEF answer
<1>5. "open" \in Stages /\ "open" \notin Handling
  BY DEF Stages, Handling
<1> QED
  BY <1>1, <1>3, <1>4, <1>5, ConnInv

LEMMA AskInv ==
  ASSUME Inv, NEW c \in Clients, NEW r, Ask(c, r)
  PROVE  Inv'
<1>1. conn[c] = "open"
  BY DEF Ask
<1>2. CASE \E status \in Rejections(cfg, r) : Respond(c, r, status)
  BY <1>1, <1>2, RespondInv
<1>3. CASE /\ Rejections(cfg, r) = {}
           /\ req' = [req EXCEPT ![c] = r] /\ ans' = [ans EXCEPT ![c] = None]
           /\ Move(c, IF ReadsBody(r) THEN "body" ELSE "work")
           /\ UNCHANGED <<config, life>>
  <2>1. PICK stage \in Handling : conn' = [conn EXCEPT ![c] = stage]
    BY <1>3 DEF Move, Handling
  <2>2. DOMAIN req = Clients /\ DOMAIN ans = Clients
    BY DEF Inv, NetTypes
  <2>3. /\ req' = [u \in Clients |-> req'[u]] /\ ans' = [u \in Clients |-> ans'[u]]
        /\ \A u \in Clients : u # c => req'[u] = req[u] /\ ans'[u] = ans[u]
        /\ req'[c] = r /\ ans'[c] = None
    BY <1>3, <2>2
  <2>4. stage \in Stages
    BY DEF Handling, Stages
  <2> QED
    BY <1>1, <1>3, <2>1, <2>3, <2>4, ConnInv
<1> QED
  BY <1>2, <1>3 DEF Ask

LEMMA ClientInv ==
  ASSUME Inv, NEW c \in Clients,
         \/ Accept(c) \/ FirstByte(c) \/ FirstByteLate(c) \/ Register(c) \/ HangUp(c)
         \/ \E r \in MayAsk[c] : Ask(c, r)
         \/ ReadBody(c) \/ BodyLate(c) \/ Work(c) \/ CloseIdle(c)
  PROVE  Inv'
<1>1. CASE Accept(c)
  BY <1>1, MoveInv DEF Accept, Stages, Handling
<1>2. CASE FirstByte(c)
  BY <1>2, MoveInv DEF FirstByte, Stages, Handling
<1>3. CASE FirstByteLate(c)
  BY <1>3, CloseInv DEF FirstByteLate
<1>4. CASE Register(c)
  BY <1>4, MoveInv DEF Register, Stages, Handling
<1>5. CASE HangUp(c)
  BY <1>5, CloseInv DEF HangUp
<1>6. CASE \E r \in MayAsk[c] : Ask(c, r)
  BY <1>6, AskInv
<1>7. CASE ReadBody(c)
  <2>1. conn[c] = "body"
    BY <1>7 DEF ReadBody
  <2>2. CASE Respond(c, req[c], BodyStatus(cfg, req[c]))
    BY <2>1, <2>2, RespondInv
  <2>3. CASE Move(c, "work") /\ UNCHANGED <<config, life, req, ans>>
    BY <2>1, <2>3, MoveInv DEF Stages, Handling
  <2> QED
    BY <1>7, <2>2, <2>3 DEF ReadBody
<1>8. CASE BodyLate(c)
  BY <1>8, RespondInv DEF BodyLate
<1>9. CASE Work(c)
  BY <1>9, RespondInv DEF Work
<1>10. CASE CloseIdle(c)
  BY <1>10, CloseInv DEF CloseIdle
<1> QED
  BY <1>1, <1>2, <1>3, <1>4, <1>5, <1>6, <1>7, <1>8, <1>9, <1>10

LEMMA NextInv == Inv /\ [Next]_vars => Inv'
<1> SUFFICES ASSUME Inv, [Next]_vars PROVE Inv'
  OBVIOUS
<1>1. CASE ImportBegins \/ ImportWrites \/ ImportDies
  BY <1>1, ImportInv DEF ImportBegins, ImportWrites, ImportDies
<1>2. CASE Start
  BY <1>2, StartInv
<1>3. CASE ServeFails \/ Signal
  BY <1>3, ServeFailsInv, SignalInv
<1>4. CASE Stop
  BY <1>4, StopInv
<1>5. CASE \E c \in Clients :
               \/ Accept(c) \/ FirstByte(c) \/ FirstByteLate(c) \/ Register(c) \/ HangUp(c)
               \/ \E r \in MayAsk[c] : Ask(c, r)
               \/ ReadBody(c) \/ BodyLate(c) \/ Work(c) \/ CloseIdle(c)
  BY <1>5, ClientInv
<1>6. CASE UNCHANGED vars
  BY <1>6, ImportInv DEF vars, config
<1> QED
  BY <1>1, <1>2, <1>3, <1>4, <1>5, <1>6 DEF Next

LEMMA Invariant == Spec => []Inv
BY InitInv, NextInv, PTL DEF Spec

-----------------------------------------------------------------------------
(* What is proved of the service *)

LEMMA InvFailsClosed ==
  ASSUME Inv, NEW c \in Clients, conn[c] \in Handling, Guard(req[c]) # "none"
  PROVE  LET token == IF Guard(req[c]) = "admin" THEN req[c].admin ELSE req[c].user
         IN  token \notin {Unset, ""} /\ Grants(Guard(req[c]), token)
<1> DEFINE r == req[c]
<1>1. Authorized(cfg, r)
  BY NotRejected DEF Inv, HandledOK
<1>2. cfg = ConfigOf(loaded, args)
  BY DEF Inv, NetTypes, QuietOK, ConfigOK, Handling, Phases, Starting
<1>3. /\ cfg.admin = DevFills(Given(args.admin, IF loaded.admin \in {Unset, ""} THEN "" ELSE loaded.admin),
                             DevAdmin, args.dev_tokens)
      /\ cfg.user = DevFills(Given(args.user, IF loaded.user \in {Unset, ""} THEN "" ELSE loaded.user),
                            DevUser, args.dev_tokens)
  BY <1>2, HashOf
<1>4. Guard(r) \in {"admin", "user"}
  BY DEF Guard
<1> HIDE DEF r
<1>5. CASE Guard(r) = "admin"
  <2>1. verify_token(r.admin, cfg.admin)
    BY <1>1, <1>5 DEF Authorized
  <2>2. r.admin \notin {Unset, ""}
        /\ Granted(args.admin, loaded.admin, DevAdmin, args.dev_tokens, r.admin)
    BY <1>3, <2>1, VerifiedIsGranted
  <2> QED
    BY <1>5, <2>2 DEF Granted, Grants, Named, r
<1>6. CASE Guard(r) = "user"
  <2>1. verify_token(r.user, cfg.user)
    BY <1>1, <1>6 DEF Authorized
  <2>2. r.user \notin {Unset, ""}
        /\ Granted(args.user, loaded.user, DevUser, args.dev_tokens, r.user)
    BY <1>3, <2>1, VerifiedIsGranted
  <2> QED
    BY <1>6, <2>2 DEF Granted, Grants, Named, r
<1> QED
  BY <1>4, <1>5, <1>6

(***************************************************************************)
(* A guarded handler works only for a request with the token the options   *)
(* grant: for every file, whole or half written, every command line and    *)
(* every request (auth.rs require_admin and require_user, config.rs        *)
(* apply_toml and apply_cli).                                              *)
(***************************************************************************)
THEOREM AlwaysFailsClosed == Spec => []FailsClosed
<1>1. Inv => FailsClosed
  BY InvFailsClosed DEF FailsClosed
<1> QED
  BY <1>1, Invariant, PTL

LEMMA InvKept ==
  ASSUME Inv, NEW c \in Clients, ans[c] # None
  PROVE  /\ ans[c].cache = "public" =>
               /\ ans[c].status = 200 /\ ans[c].cors
               /\ req[c].method \in {"GET", "HEAD"} /\ Guard(req[c]) = "none"
               /\ req[c].leaf \notin {"pckcert", "appraisalpolicy", "crl"}
         /\ req[c].mount = "nras" => ans[c].cache = "no-store"
<1> DEFINE r == req[c]
<1>1. PICK status : ans[c] = Answer(cfg, r, status)
  BY DEF Inv, AnsweredOK
<1> HIDE DEF r
<1> DEFINE readable == CollateralPath(r)
           header == NoStore(r, CollateralCacheControl(cfg, r, status))
<1>2. ans[c] = [status |-> status, cors |-> readable, cache |-> header]
  BY <1>1 DEF Answer
<1> HIDE DEF readable, header
<1>3. ans[c].status = status /\ ans[c].cors = readable /\ ans[c].cache = header
  BY <1>2
<1>4. ASSUME header = "public"
      PROVE  /\ status = 200 /\ readable
             /\ r.method \in {"GET", "HEAD"} /\ Guard(r) = "none"
             /\ r.leaf \notin {"pckcert", "appraisalpolicy", "crl"}
  BY <1>4, PublicAnswer DEF header, readable
<1>5. r.mount = "nras" => header = "no-store"
  BY NrasAnswer DEF header
<1> QED
  BY <1>3, <1>4, <1>5 DEF r

(***************************************************************************)
(* An answer anybody may keep is the 200 of an unguarded read of signed    *)
(* collateral, readable from any origin, and every answer of the nonce-    *)
(* bound proxy says no-store, whichever layer gave it (cors,               *)
(* collateral_cache_control).                                              *)
(***************************************************************************)
THEOREM OnlyPublicIsKept == Spec => []KeptOnlyIfPublic
<1>1. Inv => KeptOnlyIfPublic
  BY InvKept DEF KeptOnlyIfPublic
<1> QED
  BY <1>1, Invariant, PTL

(***************************************************************************)
(* A shutdown cuts a request off only when the grace period has passed     *)
(* (serve_http, SHUTDOWN_GRACE): the loop that ends by itself has seen     *)
(* every connection closed, and none is opened after it.                   *)
(***************************************************************************)
THEOREM OnlyGraceCutsOff == Spec => []CutOffOnlyByGrace
<1>1. Inv => CutOffOnlyByGrace
  BY DEF Inv
<1> QED
  BY <1>1, Invariant, PTL

(***************************************************************************)
(* The connections and the phase of the process stay in their types, and   *)
(* from the moment the process has read its options until it is gone its   *)
(* configuration is the one they mean: no import that runs meanwhile and   *)
(* no restart of a connection changes it (from_serve_args).                *)
(***************************************************************************)
THEOREM ConfigurationStands == Spec => [](NetTypes /\ ConfigOK)
<1>1. Inv => NetTypes /\ ConfigOK
  BY DEF Inv
<1> QED
  BY <1>1, Invariant, PTL
=============================================================================
