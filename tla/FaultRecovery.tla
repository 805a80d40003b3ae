---------------------------- MODULE FaultRecovery ----------------------------
(***************************************************************************)
(* validation/wss-fault-recovery.mjs: a script that starts a reactor and a *)
(* gateway, keeps one client session while the reactor is stopped and      *)
(* started again, kills the gateway, starts it again and logs in again,    *)
(* and at the end checks that every incarnation of the gateway announced   *)
(* the user under a conn_token of its own.                                 *)
(*                                                                         *)
(* The script is one async function; at is where it stands.  A deadline    *)
(* may pass whenever the script waits.  The other scripts use the same     *)
(* client in any order of calls: script = "any" stands for them.           *)
(*                                                                         *)
(* External: the two processes.  SIGKILL takes effect before the script's  *)
(* own timers do; SIGINT may be ignored.                                   *)
(***************************************************************************)
EXTENDS ValidationClient

CONSTANTS
    ReactorCycles, GatewayCycles,  \* how often each is taken down
    Tokens,                        \* conn_tokens
    AnyExchanges,                  \* bound: exchanges of another script
    AnyFrames                      \* bound: frames the gateway sends to it

ASSUME FaultRecoveryAssumption ==
    /\ {ReactorCycles, GatewayCycles, AnyExchanges, AnyFrames} \subseteq Nat
    /\ AnyExchanges <= MaxExchanges /\ AnyFrames <= MaxFrames

VARIABLES
    script,         \* "fault", or "any" for the other scripts
    at,             \* where the script stands
    current,        \* the exchange it waits for
    reactor,        \* the two child processes: how far each is, whether its
    gateway,        \* marker is in the log, and the signal it was sent
    tokens,         \* the conn_token of each incarnation of the gateway
    granted,        \* incarnations that let the user in
    log,            \* the tokens in reactorLog
    reactorCycles,  \* cycles done
    gatewayCycles,
    verdict

children   == <<reactor, gateway, tokens>>
scriptVars == <<script, at, current, children, granted, log, reactorCycles, gatewayCycles, verdict>>
vars == <<clientVars, scriptVars>>

Absent  == [life |-> "none", marked |-> FALSE, signal |-> "none"]
Spawned == [life |-> "starting", marked |-> FALSE, signal |-> "none"]
Gone(child) == child.life \in {"none", "gone"}

Init ==
    /\ ClientInit
    /\ script \in {"fault", "any"}
    /\ at = IF script = "fault" THEN "startReactor" ELSE "over"
    /\ current = 0
    /\ reactor = Absent /\ gateway = Absent /\ tokens = <<>> /\ granted = {} /\ log = {}
    /\ reactorCycles = 0 /\ gatewayCycles = 0 /\ verdict = "none"

(***************************************************************************)
(* Steps of the script                                                     *)
(***************************************************************************)
(* from one place to the next, or to the finally block when it throws *)
From(here, next) == at = here /\ at' = next /\ UNCHANGED verdict
Throws(here) == at = here /\ at' = "finally" /\ verdict' = "failed"

cycles == <<reactorCycles, gatewayCycles>>
rest   == <<script, granted, log>>  \* left alone by the script

(* startReactor, also after a stop, and startGateway *)
startReactor ==
    /\ From("startReactor", "reactorMarker")
    /\ reactor' = Spawned
    /\ UNCHANGED <<clientVars, rest, current, gateway, tokens, cycles>>

startGateway ==
    /\ From("startGateway", "gatewayMarkers")
    /\ gateway' = Spawned
    /\ \E t \in Tokens : tokens' = Append(tokens, t)
    /\ UNCHANGED <<clientVars, rest, current, reactor, cycles>>

(* a marker that is in the log counts even if its process is gone          *)
waitForMarker(child, here, next) ==
    /\ \/ child.marked /\ From(here, next)
       \/ ~child.marked /\ Throws(here)
    /\ UNCHANGED <<clientVars, rest, current, children, cycles>>

waitForMarkers ==
    \/ waitForMarker(reactor, "reactorMarker", IF tokens = <<>> THEN "startGateway" ELSE "recover")
    \/ waitForMarker(gateway, "gatewayMarkers", "connect")

connectClient ==
    /\ From("connect", "connecting")
    /\ connect
    /\ UNCHANGED <<rest, current, children, cycles>>

connected ==
    /\ \/ opening.state = "ok" /\ From("connecting", "login")
       \/ opening.state = "failed" /\ Throws("connecting")
    /\ UNCHANGED <<clientVars, rest, current, children, cycles>>

(* the exchanges: authenticate and a first command, the command that must  *)
(* fail while the reactor is stopped, and the one retried once it is back  *)
ask(here, op, next) ==
    /\ From(here, next)
    /\ exchange(op)
    /\ current' = nextStream
    /\ UNCHANGED <<rest, children, cycles>>

asks ==
    \/ ask("login", "auth", "loggingIn")
    \/ ask("command", "command", "commanding")
    \/ ask("mustFail", "command", "mustFailing")
    \/ ask("recover", "command", "recovering")

Ok     == call[current].state = "ok"
Failed == call[current].state = "failed"

NextGatewayCycle(done) == IF done < GatewayCycles THEN "stopGateway" ELSE "tokens"
NextReactorCycle(done) == IF done < ReactorCycles THEN "stopReactor" ELSE NextGatewayCycle(0)

(* a gateway cycle is done with its command, a reactor cycle once the      *)
(* retried command succeeds; a command that succeeds while the reactor is  *)
(* stopped fails the script                                                *)
answered ==
    /\ \/ Ok /\ From("loggingIn", "command") /\ UNCHANGED cycles
       \/ Ok /\ Len(tokens) = 1 /\ From("commanding", "firstToken") /\ UNCHANGED cycles
       \/ /\ Ok /\ Len(tokens) > 1 /\ From("commanding", NextGatewayCycle(gatewayCycles + 1))
          /\ gatewayCycles' = gatewayCycles + 1 /\ UNCHANGED reactorCycles
       \/ Failed /\ (Throws("loggingIn") \/ Throws("commanding")) /\ UNCHANGED cycles
       \/ /\ Ok \/ Failed
          /\ IF Failed THEN From("mustFailing", "startReactor") ELSE Throws("mustFailing")
          /\ UNCHANGED cycles
       \/ /\ Ok /\ From("recovering", NextReactorCycle(reactorCycles + 1))
          /\ reactorCycles' = reactorCycles + 1 /\ UNCHANGED gatewayCycles
       \/ Failed /\ Throws("recovering") /\ UNCHANGED cycles
       \/ /\ Failed /\ nextStream \in ClientStreams  \* bound: retries
          /\ From("recovering", "recover") /\ UNCHANGED cycles
    /\ UNCHANGED <<clientVars, rest, current, children>>

(* retry, until the token of the first incarnation is in the log *)
firstToken ==
    /\ \/ log # {} /\ From("firstToken", NextReactorCycle(0))
       \/ log = {} /\ Throws("firstToken")
    /\ UNCHANGED <<clientVars, rest, current, children, cycles>>

(* stop sends a signal to a child that is not gone, waits for its exit,    *)
(* and turns to SIGKILL after a SIGINT that did not help                   *)
Signalled(child, signal) == IF Gone(child) THEN child ELSE [child EXCEPT !.signal = signal]

stopReactor ==
    /\ From("stopReactor", "reactorStopping")
    /\ reactor' = Signalled(reactor, "SIGINT")
    /\ UNCHANGED <<clientVars, rest, current, gateway, tokens, cycles>>

(* waitForClose is called before the gateway is killed *)
stopGateway ==
    /\ From("stopGateway", "gatewayStopping")
    /\ waitForClose
    /\ gateway' = Signalled(gateway, "SIGKILL")
    /\ UNCHANGED <<rest, current, reactor, tokens, cycles>>

stopped ==
    /\ \/ Gone(reactor) /\ From("reactorStopping", "mustFail")
       \/ Gone(gateway) /\ From("gatewayStopping", "closing")
       \/ Gone(gateway) /\ From("finalGateway", "finalReactor")
       \/ Gone(reactor) /\ From("finalReactor", "kill")
    /\ reactor' = IF at' = "finalReactor" THEN Signalled(reactor, "SIGINT") ELSE reactor
    /\ UNCHANGED <<clientVars, rest, current, gateway, tokens, cycles>>

escalate ==
    /\ \/ /\ at \in {"reactorStopping", "finalReactor"} /\ ~Gone(reactor)
          /\ reactor' = Signalled(reactor, "SIGKILL") /\ UNCHANGED gateway
       \/ /\ at = "finalGateway" /\ ~Gone(gateway)
          /\ gateway' = Signalled(gateway, "SIGKILL") /\ UNCHANGED reactor
    /\ UNCHANGED <<clientVars, rest, current, at, verdict, tokens, cycles>>

gatewayClosed ==
    /\ \/ closing = "ok" /\ From("closing", "startGateway")
       \/ closing = "failed" /\ Throws("closing")
    /\ UNCHANGED <<clientVars, rest, current, children, cycles>>

(* the verdict: as many tokens in the log as incarnations *)
Mut_WithoutFirst == gatewayCycles
expectedIncarnations == gatewayCycles + 1

checkTokens ==
    /\ \/ /\ Cardinality(log) >= expectedIncarnations
          /\ at = "tokens" /\ at' = "finally" /\ verdict' = "ok"
       \/ Cardinality(log) < expectedIncarnations /\ Throws("tokens")
    /\ UNCHANGED <<clientVars, rest, current, children, cycles>>

(* the finally block: close the client, stop both, kill whoever is left *)
finally ==
    /\ From("finally", "finalGateway")
    /\ close
    /\ gateway' = Signalled(gateway, "SIGINT")
    /\ UNCHANGED <<rest, current, reactor, tokens, cycles>>

killChildren ==
    /\ From("kill", "over")
    /\ reactor' = Signalled(reactor, "SIGKILL") /\ gateway' = Signalled(gateway, "SIGKILL")
    /\ UNCHANGED <<clientVars, rest, current, tokens, cycles>>

ScriptStep ==
    /\ script = "fault" /\ Idle
    /\ \/ startReactor \/ startGateway \/ waitForMarkers \/ connectClient \/ connected
       \/ asks \/ answered \/ firstToken \/ stopReactor \/ stopGateway \/ stopped \/ escalate
       \/ gatewayClosed \/ checkTokens \/ finally \/ killChildren

(* any other script *)
AnyScript ==
    /\ script = "any" /\ Idle
    /\ \/ socket = "none" /\ connect
       \/ /\ opening.state = "ok" /\ nextStream < 4 * AnyExchanges
          /\ \E op \in {"auth", "command", "typing", "raw"} : exchange(op)
       \/ /\ opening.state = "ok"
          /\ \E w \in Waiters, kind \in {"other", "error"} : waitForPush(w, kind)
       \/ opening.state = "ok" /\ closing = "none" /\ waitForClose
       \/ opening.state # "none" /\ socket \in {"connecting", "open"} /\ close
    /\ UNCHANGED scriptVars

(***************************************************************************)
(* The processes (external)                                                *)
(***************************************************************************)
Others == UNCHANGED <<clientVars, script, at, current, tokens, granted, reactorCycles,
                      gatewayCycles, verdict>>

(* a child is ready, and says so *)
Ready ==
    /\ \/ reactor.life = "starting" /\ UNCHANGED gateway
          /\ reactor' = [reactor EXCEPT !.life = "up", !.marked = TRUE]
       \/ gateway.life = "starting" /\ UNCHANGED reactor
          /\ gateway' = [gateway EXCEPT !.life = "up", !.marked = TRUE]
    /\ UNCHANGED log /\ Others

(* a child exits: on a signal, or by itself *)
ReactorExits ==
    /\ ~Gone(reactor) /\ reactor' = [reactor EXCEPT !.life = "gone"]
    /\ UNCHANGED <<gateway, log>> /\ Others
GatewayExits ==
    /\ ~Gone(gateway) /\ gateway' = [gateway EXCEPT !.life = "gone"]
    /\ UNCHANGED <<reactor, log>> /\ Others

(* the reactor hears of a user an incarnation let in *)
Lifecycle ==
    /\ reactor.life = "up"
    /\ log' = log \cup {tokens[n] : n \in granted}
    /\ log' # log
    /\ UNCHANGED <<reactor, gateway>> /\ Others

Answer(type, dest, route, body) ==
    Bytes([type |-> type, dest |-> dest, route |-> route, eof |-> TRUE, body |-> body])

(* the gateway accepts the socket, and answers: what the reactor says, or  *)
(* that it cannot be reached                                               *)
GatewayAnswers ==
    /\ script = "fault" /\ gateway.life = "up"
    /\ \/ GatewaySends(FrameOf("accept")) /\ UNCHANGED granted
       \/ /\ current \in pending /\ reactor.life = "up"
          /\ \/ /\ call[current].op = "auth"
                /\ GatewaySends(RecordOf("stream", current, Answer("open", "gateway", "grant", "good"), TRUE))
                /\ granted' = granted \cup {Len(tokens)}
             \/ /\ call[current].op = "command" /\ UNCHANGED granted
                /\ GatewaySends(RecordOf("stream", current, Answer("open", "service", "other", "good"), TRUE))
       \/ /\ current \in pending /\ UNCHANGED granted
          /\ GatewaySends(RecordOf("stream", current, Answer("open", "gateway", "error", "refused"), TRUE))
    /\ \A i \in DOMAIN sent : sent[i].id # current \/ sent[i].kind # "record"
    /\ UNCHANGED <<script, at, current, children, log, reactorCycles, gatewayCycles, verdict>>

Next ==
    \/ ScriptStep
    \/ AnyScript
    \/ Idle /\ ClientEvent /\ UNCHANGED scriptVars
    \/ drainWebSocket /\ UNCHANGED scriptVars
    \/ script = "any" /\ Len(sent) < AnyFrames /\ AnyGateway /\ UNCHANGED scriptVars
    \/ Ready
    \/ ReactorExits
    \/ GatewayExits
    \/ Lifecycle
    \/ GatewayAnswers

(* code that has begun runs to its end, timers fire, the script goes on    *)
(* when what it waits for is there, and SIGKILL takes effect               *)
Fairness ==
    /\ WF_vars(drainWebSocket /\ UNCHANGED scriptVars)
    /\ WF_vars(Idle /\ connectTimeout /\ UNCHANGED scriptVars)
    /\ \A c \in ClientStreams : WF_vars(Idle /\ exchangeTimeout(c) /\ UNCHANGED scriptVars)
    /\ \A w \in Waiters : WF_vars(Idle /\ pushTimeout(w) /\ UNCHANGED scriptVars)
    /\ WF_vars(Idle /\ closeTimeout /\ UNCHANGED scriptVars)
    /\ WF_vars(ScriptStep)
    /\ WF_vars(reactor.signal = "SIGKILL" /\ ReactorExits)
    /\ WF_vars(gateway.signal = "SIGKILL" /\ GatewayExits)

Spec == Init /\ [][Next]_vars /\ Fairness

(***************************************************************************)
(* Properties                                                              *)
(***************************************************************************)
TypeOK ==
    /\ ClientTypeOK
    /\ reactor.life \in {"none", "starting", "up", "gone"}
    /\ gateway.life \in {"none", "starting", "up", "gone"}
    /\ log \subseteq Tokens /\ verdict \in {"none", "ok", "failed"}

(* The script says ok only when no two incarnations of the gateway used    *)
(* the same conn_token, after all its cycles; and when it is over, no      *)
(* child process is left.                                                  *)
HonestVerdict ==
    /\ verdict = "ok" =>
           /\ reactorCycles = ReactorCycles /\ gatewayCycles = GatewayCycles
           /\ \A m, n \in DOMAIN tokens : m # n => tokens[m] # tokens[n]
    /\ (script = "fault" /\ at = "over") => Gone(reactor) /\ Gone(gateway)

(* A script calls finitely often.  In the end nobody waits on the client,  *)
(* unless an error has ended the process: connect, every exchange, also    *)
(* one begun on a socket that is gone, every wait for a push or for the    *)
(* close is told.  So the fault script comes to its end, whatever becomes  *)
(* of the two processes.                                                   *)
NobodyWaits ==
    /\ "waiting" \notin {opening.state, closing}
    /\ \A c \in ClientStreams : call[c].state # "waiting"
    /\ \A w \in Waiters : waiting[w].state # "waiting"
EveryWaitEnds == <>[](crashed \/ (NobodyWaits /\ at = "over"))

===============================================================================
