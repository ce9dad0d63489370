---------------------------- MODULE EvmProviders ----------------------------
(***************************************************************************)
(* The connections a watcher keeps to one chain, and the probe that asks   *)
(* after them.  Providers are pooled: the JSON-RPC one for good, the web   *)
(* socket until the check that runs every 30 seconds finds it closed.  The *)
(* endpoints and the confirmations come from the EVM row of the pod's      *)
(* configuration, or are defaults, and the row may change while the pod    *)
(* runs: what was made from the old row stays what it is.                  *)
(*                                                                         *)
(* No step below waits for the network between the look at the pool and    *)
(* the change of it, so that each is one action; the probe does wait for   *)
(* the RPC endpoint, after it has looked at the socket.                    *)
(***************************************************************************)
EXTENDS Integers

CONSTANTS
  Url, NoUrl,
  DefaultRpc, DefaultWss,  \* getRPCUrl, getWssUrl: no socket is known for Mumbai
  DefaultConf,             \* 12 in the code
  Conf,                    \* the confirmations that may be configured
  MaxConf,                 \* bound: the greatest of them
  MaxHead, MaxClose, MaxChange  \* bounds: heads, closed sockets, changes of the row or of an endpoint

Unset == 0
FirstHead == MaxConf + 1

ASSUME UrlAssumption == NoUrl \notin Url /\ DefaultRpc \in Url /\ DefaultWss \in Url \cup {NoUrl}
ASSUME ConfAssumption == MaxConf \in Nat /\ Conf \cup {DefaultConf} \subseteq 1..MaxConf
ASSUME BoundAssumption == {MaxHead, MaxClose, MaxChange} \subseteq Nat /\ FirstHead <= MaxHead

VARIABLES
  row,        \* the chain's item of EVM in the pod's store
  up,         \* the endpoints that answer
  deps,       \* the database and the token-job and event queues answer
  rpc,        \* jsonRpcProvidersPool
  ws,         \* webSocketProvidersPool
  subscribed, \* subscribeChainId
  hears,      \* the confirmations the listener of the pooled socket was made with
  boot,       \* has onModuleInit of the watcher subscribed
  probe,      \* idle, or waiting for the RPC endpoint with the socket's verdict
  alive,      \* what the last probe said
  head,
  asked,      \* blocks the listener asked for; whether queue.add went through is BlockSync's
  missed,     \* blocks of heads nobody heard, or passed when the confirmations sank
  last,       \* the confirmations of the last listener
  mute,       \* the chain was subscribed when it had no socket
  closes, changes

net == <<row, up, deps>>
link == <<ws, subscribed, hears, boot, last, mute>>
health == <<rpc, probe, alive>>
blocks == <<head, asked, missed>>
evmVars == <<net, link, health, blocks, closes, changes>>

Row == [rpc : Url \cup {NoUrl}, wss : Url \cup {NoUrl}, conf : Conf \cup {Unset}]
NoSocket == [url |-> NoUrl, state |-> "none"]

EvmTypeOK ==
  /\ row \in Row /\ up \subseteq Url /\ rpc \in Url \cup {NoUrl}
  /\ ws \in {NoSocket} \cup [url : Url, state : {"connecting", "open", "closed", "destroyed"}]
  /\ {deps, subscribed, mute, boot} \subseteq BOOLEAN
  /\ {hears, last} \subseteq Conf \cup {DefaultConf, Unset}
  /\ probe \in {"idle", "ready", "unready"} /\ alive \in {"unknown", "yes", "no"}
  /\ head \in FirstHead..MaxHead /\ asked \cup missed \subseteq 1..MaxHead
  /\ hears # Unset => subscribed /\ hears = last
  /\ closes \in 0..MaxClose /\ changes \in 0..MaxChange

EvmInit ==
  /\ row = [rpc |-> NoUrl, wss |-> NoUrl, conf |-> Unset] /\ up = Url /\ deps = TRUE
  /\ rpc = NoUrl /\ ws = NoSocket /\ subscribed = FALSE /\ hears = Unset /\ boot = FALSE
  /\ probe = "idle" /\ alive = "unknown"
  /\ head = FirstHead /\ asked = {} /\ missed = {} /\ last = Unset /\ mute = FALSE
  /\ closes = 0 /\ changes = 0

-----------------------------------------------------------------------------
(* The row of the configuration, or the defaults: an empty value counts as none. *)

RpcUrl == IF row.rpc # NoUrl THEN row.rpc ELSE DefaultRpc
WssUrl == IF row.wss # NoUrl THEN row.wss ELSE DefaultWss
Confirmations == IF row.conf # Unset THEN row.conf ELSE DefaultConf

Live(s) == s.state \in {"connecting", "open"}
New(url) == [url |-> url, state |-> "connecting"]

\* getWebSocketProviderByChainId: the pooled provider, whatever its state, or a new one.
Provider == IF ws # NoSocket THEN ws ELSE IF WssUrl = NoUrl THEN NoSocket ELSE New(WssUrl)

\* Mutant: the pooled provider is returned whether it is forced or not.
ReplacedByItself == ws

\* The same with `force`: the old one is destroyed before the URL is asked for, and
\* stays in the pool when there is none.
Replaced == IF WssUrl = NoUrl THEN [ws EXCEPT !.state = "destroyed"] ELSE New(WssUrl)

-----------------------------------------------------------------------------
(* The chain, the endpoints and the configuration.                         *)

\* Mutant: the confirmations are asked for with every block.
BlockOfPresent == head + 1 - Confirmations

\* enqueueBlockSync with the confirmations of the subscription.
BlockOf == head + 1 - hears

Hearing == ws.state = "open" /\ hears # Unset

Mine ==
  /\ head < MaxHead /\ head' = head + 1
  /\ IF Hearing THEN asked' = asked \cup {BlockOf} /\ UNCHANGED missed
                ELSE missed' = missed \cup (IF last = Unset THEN {} ELSE {head + 1 - last}) /\ UNCHANGED asked
  /\ UNCHANGED <<net, link, health, closes, changes>>

\* A new socket opens, or is refused.
Connect ==
  /\ ws.state = "connecting"
  /\ ws' = [ws EXCEPT !.state = IF ws.url \in up THEN "open" ELSE "closed"]
  /\ UNCHANGED <<net, subscribed, hears, boot, last, mute, health, blocks, closes, changes>>

Close ==
  /\ ws.state = "open" /\ (closes < MaxClose \/ ws.url \notin up)
  /\ closes' = IF ws.url \in up THEN closes + 1 ELSE closes
  /\ ws' = [ws EXCEPT !.state = "closed"]
  /\ UNCHANGED <<net, subscribed, hears, boot, last, mute, health, blocks, changes>>

Change ==
  /\ changes < MaxChange /\ changes' = changes + 1
  /\ \/ \E r \in Row : row' = r /\ UNCHANGED <<up, deps>>
     \/ \E u \in Url : up' = (up \ {u}) \cup ({u} \ up) /\ UNCHANGED <<row, deps>>
     \/ deps' = ~deps /\ UNCHANGED <<row, up>>
  /\ UNCHANGED <<link, health, blocks, closes>>

-----------------------------------------------------------------------------
(* The watcher.                                                            *)

\* subscribeBlockNumberByChainId on a chain that is not subscribed, with the provider
\* it gets: the flag stays set when there is none.  A destroyed one takes the
\* listener and never calls it.
Listen(provider) ==
  /\ subscribed' = TRUE
  /\ ws' = provider
  /\ mute' = ~Live(provider)
  /\ IF provider = NoSocket
       THEN hears' = Unset /\ UNCHANGED <<last, missed>>
       ELSE /\ hears' = Confirmations /\ last' = Confirmations
            /\ missed' = IF last = Unset THEN missed
                         ELSE missed \cup ((head - last + 1)..(head - Confirmations))

\* onModuleInit of the watcher, unless the check was quicker.  The blocks before are
\* BlockSync's subject.
Subscribe ==
  /\ ~boot /\ boot' = TRUE
  /\ IF subscribed THEN UNCHANGED <<ws, subscribed, hears, last, mute, missed>> ELSE Listen(Provider)
  /\ UNCHANGED <<net, health, head, asked, closes, changes>>

\* It threw (the configuration could not be read): the chain is not subscribed.
SubscribeFails ==
  /\ ~boot /\ boot' = TRUE /\ ~subscribed /\ changes < MaxChange /\ changes' = changes + 1
  /\ UNCHANGED <<net, ws, subscribed, hears, last, mute, health, blocks, closes>>

\* Mutant: a socket that is closed is replaced, and the chain still counts as subscribed.
CheckSocketStillSubscribed ==
  /\ ws.state # "destroyed"
  /\ ws' = IF ws.state = "closed" THEN Replaced ELSE Provider
  /\ hears' = IF ws.state = "closed" THEN Unset ELSE hears
  /\ UNCHANGED <<net, subscribed, boot, last, mute, health, blocks, closes, changes>>

\* checkingIfSocketConnectionIsStillOpen: a closed socket is replaced and listened to;
\* a missing one is made, and nobody listens.  A destroyed one makes it throw.
CheckSocket ==
  /\ ws.state # "destroyed"
  /\ IF ws.state = "closed"
       THEN Listen(Replaced)
       ELSE ws' = Provider /\ UNCHANGED <<subscribed, hears, last, mute, missed>>
  /\ UNCHANGED <<net, boot, health, head, asked, closes, changes>>

-----------------------------------------------------------------------------
(* GET /health/liveness, and the metrics every ten seconds.                *)

\* getJsonRpcProviderByChainId: the endpoint of the first use stays.
RpcPool == IF rpc = NoUrl THEN RpcUrl ELSE rpc

\* BlockchainHealthIndicator.isHealthy: both kinds of provider are ready.
Blockchain == probe = "ready" /\ rpc \in up

LivenessIndicators == Blockchain /\ deps

\* checkAllWsProviders: ready when there is a socket and it is open or connecting.  The
\* RPC provider is got next, but not when a destroyed socket has made this throw.
ProbeSocket ==
  /\ probe = "idle"
  /\ ws' = Provider
  /\ probe' = IF Live(Provider) THEN "ready" ELSE "unready"
  /\ rpc' = IF ws.state = "destroyed" THEN rpc ELSE RpcPool
  /\ UNCHANGED <<net, subscribed, hears, boot, last, mute, alive, blocks, closes, changes>>

\* getLiveness: one indicator that is down makes it a 503.
GetLiveness == IF LivenessIndicators THEN "yes" ELSE "no"

\* checkAllJsonRpcProviders, and the verdict.
ProbeRpc ==
  /\ probe # "idle" /\ probe' = "idle"
  /\ alive' = GetLiveness
  /\ UNCHANGED <<net, link, rpc, blocks, closes, changes>>

EvmNext ==
  \/ Mine \/ Connect \/ Close \/ Change
  \/ Subscribe \/ SubscribeFails \/ CheckSocket
  \/ ProbeSocket \/ ProbeRpc

EvmSpec == EvmInit /\ [][EvmNext]_evmVars

(* The pod starts, its crons tick, the probe comes and sockets answer.     *)
EvmFairness ==
  /\ WF_evmVars(Connect) /\ WF_evmVars(ws.state = "open" /\ ws.url \notin up /\ Close)
  /\ WF_evmVars(Subscribe) /\ WF_evmVars(CheckSocket) /\ WF_evmVars(ProbeSocket) /\ WF_evmVars(ProbeRpc)

EvmFairSpec == EvmSpec /\ EvmFairness

-----------------------------------------------------------------------------
(* Properties.                                                             *)

\* A live socket that nobody listens to belongs to a chain whose subscription is
\* still to come or failed, or that was subscribed when it had no socket: a socket
\* that is replaced always gets its listener.
DeafExplained == Live(ws) /\ hears = Unset => ~subscribed \/ mute

\* The last block the present listener, or the last one, has come to.
Front == head - last

\* From the first block asked for up to where the last listener has come, every block
\* was asked for, or its head came while the socket was closed, or the confirmations
\* sank between two subscriptions; a change of the row alone, while the socket is
\* open, passes no block.
GapExplained == \A b \in asked : b..Front \subseteq asked \cup missed

\* When everything answers for good, the probe ends up saying so, whatever was
\* closed or refused before, unless a socket was destroyed and had no successor.
AlarmEnds ==
  <>[](up = Url /\ deps /\ WssUrl # NoUrl) => <>[](alive # "no") \/ <>(ws.state = "destroyed")
=============================================================================
