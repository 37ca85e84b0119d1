----------------------------- MODULE WsTransport -----------------------------
(***************************************************************************)
(* NativeWsTransport of crates/qconnect-transport-ws/src/transport.rs: one *)
(* caller that connects, sends and disconnects, and the task that keeps a  *)
(* WebSocket up with bounded reconnects, an idle retry and a keepalive.    *)
(*                                                                         *)
(* Time passes in quarters of the keepalive interval.  A send that the     *)
(* network does not take holds the task: no other branch of its select     *)
(* runs meanwhile and missed ticks are skipped.                            *)
(***************************************************************************)
EXTENDS Naturals

CONSTANTS
    MaxAttempts,  \* config.reconnect_max_attempts; 0 is no cap
    MaxBackoff,   \* the longest backoff, in units of the shortest
    IdleRetry,    \* config.reconnect_idle_retry_ms > 0
    Capacity,     \* the outbound channel's capacity
    MaxStall      \* bound: quarters that pass during one send

ASSUME ConfigAssumption ==
    /\ MaxAttempts \in Nat /\ MaxBackoff \in Nat \ {0}
    /\ IdleRetry \in BOOLEAN
    /\ Capacity \in Nat \ {0} /\ MaxStall \in Nat

VARIABLES
    runtime,      \* the NativeRuntime is in its slot
    caller,       \* "idle", or "joining" the task in disconnect
    shutdown,     \* the shutdown watch
    outbound,     \* envelopes in the outbound channel
    connected,    \* NativeState.connected, and what the last link event said
    pc,           \* where the task is
    attempt,      \* reconnect_attempt
    backoff,      \* the next backoff, in units of the shortest
    established,  \* session_established of this connection
    silence,      \* quarters since the last pong
    pings,        \* outstanding_pings
    phase,        \* quarter of the keepalive interval
    due,          \* the keepalive tick is ready
    stalled,      \* quarters the current send has taken
    tries         \* history: connections tried since a session was accepted

link == <<established, silence, pings, phase, due, stalled>>
retry == <<attempt, backoff, tries>>
transportVars == <<runtime, caller, shutdown, outbound, connected, pc, retry, link>>

Interval == 4
Deadline == 10  \* 2.5 intervals
LongestSilence == 5 * Interval + MaxStall

FlagsOK ==
    /\ runtime \in BOOLEAN /\ shutdown \in BOOLEAN /\ connected \in BOOLEAN
    /\ established \in BOOLEAN /\ due \in BOOLEAN

CountersOK ==
    /\ outbound \in 0..Capacity
    /\ attempt \in Nat /\ backoff \in 1..MaxBackoff /\ tries \in Nat
    /\ silence \in Nat /\ pings \in Nat /\ phase \in 0..Interval - 1
    /\ stalled \in 0..MaxStall

TransportTypeOK ==
    /\ FlagsOK /\ CountersOK
    /\ caller \in {"idle", "joining"}
    /\ pc \in {"off", "top", "connecting", "handshake", "up", "sending", "waiting",
               "idling", "ended"}

TransportInit ==
    /\ runtime = FALSE /\ caller = "idle" /\ shutdown = FALSE /\ outbound = 0
    /\ connected = FALSE /\ pc = "off"
    /\ attempt = 0 /\ backoff = 1 /\ tries = 0
    /\ established = FALSE /\ silence = 0 /\ pings = 0 /\ phase = 0 /\ due = FALSE
    /\ stalled = 0

Lower(m, n) == IF m < n THEN m ELSE n
------------------------------------------------------------------------------
(* The caller *)

Connect ==
    /\ caller = "idle" /\ ~runtime /\ pc = "off"
    /\ runtime' = TRUE /\ shutdown' = FALSE /\ outbound' = 0
    /\ pc' = "top" /\ attempt' = 0 /\ backoff' = 1 /\ tries' = 0
    /\ UNCHANGED <<caller, connected, link>>

\* The channel outlives the connections, and its receiver ends with the task.
Send ==
    /\ runtime /\ pc # "ended" /\ outbound < Capacity
    /\ outbound' = outbound + 1
    /\ UNCHANGED <<runtime, caller, shutdown, connected, pc, retry, link>>

DisconnectStarts ==
    /\ caller = "idle" /\ runtime
    /\ runtime' = FALSE /\ shutdown' = TRUE /\ caller' = "joining"
    /\ UNCHANGED <<outbound, connected, pc, retry, link>>

DisconnectEnds ==
    /\ caller = "joining" /\ pc = "ended"
    /\ caller' = "idle" /\ connected' = FALSE /\ pc' = "off"
    /\ UNCHANGED <<runtime, shutdown, outbound, retry, link>>
------------------------------------------------------------------------------
(* Reconnecting: handle_reconnect_delay and idle_retry_after_exhausted *)

Exhausted(n) == MaxAttempts > 0 /\ n > MaxAttempts

\* Schedule a reconnect, or give up and idle if the configuration says so.
Retry ==
    /\ attempt' = attempt + 1
    /\ pc' = IF ~Exhausted(attempt') THEN "waiting" ELSE IF IdleRetry THEN "idling" ELSE "ended"
    /\ UNCHANGED <<backoff, tries>>

\* The end of a connection; only the select loop looks at the shutdown first.
Dropped ==
    /\ connected' = FALSE
    /\ IF shutdown /\ pc # "handshake" THEN pc' = "ended" /\ UNCHANGED retry ELSE Retry

\* Faulty variant: the doubling is not capped.
DoubledUncapped == 2 * backoff

Doubled == Lower(2 * backoff, MaxBackoff)

WaitEnds ==
    /\ pc = "waiting" /\ pc' = "top"
    /\ backoff' = Doubled
    /\ UNCHANGED <<runtime, caller, shutdown, outbound, connected, attempt, tries, link>>

Reset == attempt' = 0 /\ backoff' = 1

IdleEnds ==
    /\ pc = "idling" /\ pc' = "top"
    /\ Reset /\ tries' = 0
    /\ UNCHANGED <<runtime, caller, shutdown, outbound, connected, link>>

\* Faulty variant: the wait for a reconnect does not look at the shutdown.
ShutdownInSelect == shutdown /\ pc = "up"

\* Where the task looks at the shutdown watch: in the select, while it waits,
\* and before it connects.
SeesShutdown == shutdown /\ pc \in {"up", "waiting", "idling", "top"}

ShutDown ==
    /\ SeesShutdown
    /\ pc' = "ended" /\ connected' = FALSE
    /\ UNCHANGED <<runtime, caller, shutdown, outbound, retry, link>>
------------------------------------------------------------------------------
(* Connecting *)

MayConnect == ~shutdown

Dial ==
    /\ pc = "top" /\ MayConnect
    /\ pc' = "connecting" /\ tries' = tries + 1
    /\ UNCHANGED <<runtime, caller, shutdown, outbound, connected, attempt, backoff, link>>

\* An error or the connect timeout
DialFails ==
    /\ pc = "connecting" /\ Retry
    /\ UNCHANGED <<runtime, caller, shutdown, outbound, connected, link>>

\* Faulty variant: a connected WebSocket counts as an accepted session.
CountersResetOnConnect == attempt' = 0 /\ backoff' = 1

\* Reaching a connected WebSocket proves nothing: the counters stay (#358).
CountersOnConnect == UNCHANGED <<attempt, backoff>>

DialSucceeds ==
    /\ pc = "connecting" /\ pc' = "handshake"
    /\ connected' = TRUE
    /\ CountersOnConnect
    /\ UNCHANGED <<runtime, caller, shutdown, outbound, tries, link>>

\* Authenticating or subscribing failed, or the JWT is missing.
HandshakeFails ==
    /\ pc = "handshake" /\ Dropped
    /\ UNCHANGED <<runtime, caller, shutdown, outbound, link>>

HandshakeSucceeds ==
    /\ pc = "handshake" /\ pc' = "up"
    /\ established' = FALSE /\ silence' = 0 /\ pings' = 0 /\ phase' = 0 /\ due' = TRUE
    /\ UNCHANGED <<runtime, caller, shutdown, outbound, connected, retry, stalled>>
------------------------------------------------------------------------------
(* The select loop *)

SendStarts ==
    /\ pc = "up" /\ outbound > 0
    /\ pc' = "sending" /\ outbound' = outbound - 1 /\ stalled' = 0
    /\ UNCHANGED <<runtime, caller, shutdown, connected, retry, established, silence, pings,
                   phase, due>>

SendEnds ==
    /\ pc = "sending"
    /\ \/ pc' = "up" /\ UNCHANGED <<connected, retry>>
       \/ Dropped
    /\ UNCHANGED <<runtime, caller, shutdown, outbound, link>>

\* Faulty variant: silence alone never makes a connection stale.
StaleNever == FALSE

\* keepalive_is_stale
Stale == pings >= 2 /\ silence >= Deadline

KeepaliveTick ==
    /\ pc = "up" /\ due /\ due' = FALSE
    /\ \/ Stale /\ Dropped /\ UNCHANGED pings
       \/ ~Stale /\ Dropped /\ UNCHANGED pings  \* the ping could not be sent
       \/ ~Stale /\ pings' = pings + 1 /\ UNCHANGED <<connected, pc, retry>>
    /\ UNCHANGED <<runtime, caller, shutdown, outbound, established, silence, phase, stalled>>

Pong ==
    /\ pc = "up" /\ pings > 0
    /\ pings' = 0 /\ silence' = 0
    /\ UNCHANGED <<runtime, caller, shutdown, outbound, connected, pc, retry, established,
                   phase, due, stalled>>

\* The first SESSION_STATE or SET_ACTIVE=true of a connection
SessionEstablished ==
    /\ pc = "up" /\ ~established /\ established' = TRUE
    /\ Reset /\ tries' = 0
    /\ UNCHANGED <<runtime, caller, shutdown, outbound, connected, pc, silence, pings, phase,
                   due, stalled>>

\* A close frame, a read error or the end of the stream
LinkLost ==
    /\ pc = "up" /\ Dropped
    /\ UNCHANGED <<runtime, caller, shutdown, outbound, link>>

\* A ready tick is taken before time passes, unless a send holds the task.
TimePasses ==
    /\ \/ pc = "up" /\ ~due /\ UNCHANGED stalled
       \/ pc = "sending" /\ stalled < MaxStall /\ stalled' = stalled + 1
    /\ silence' = Lower(silence + 1, LongestSilence)
    /\ phase' = (phase + 1) % Interval
    /\ due' = (due \/ phase' = 0)
    /\ UNCHANGED <<runtime, caller, shutdown, outbound, connected, pc, retry, established,
                   pings>>
------------------------------------------------------------------------------
Caller == Connect \/ Send \/ DisconnectStarts \/ DisconnectEnds

TransportSteps ==
    \/ ShutDown \/ WaitEnds \/ IdleEnds \/ Dial \/ DialFails \/ DialSucceeds
    \/ HandshakeFails \/ HandshakeSucceeds \/ SendStarts \/ SendEnds

Network == KeepaliveTick \/ Pong \/ SessionEstablished \/ LinkLost \/ TimePasses

TransportNext == Caller \/ TransportSteps \/ Network

TransportSpec == TransportInit /\ [][TransportNext]_transportVars

\* The task is scheduled, a dial and a handshake end (the dial has a timeout),
\* a send is taken or refused in the end, and the join returns.
TransportFairSpec ==
    /\ TransportSpec
    /\ WF_transportVars(ShutDown) /\ WF_transportVars(Dial)
    /\ WF_transportVars(DialFails \/ DialSucceeds)
    /\ WF_transportVars(HandshakeFails \/ HandshakeSucceeds)
    /\ WF_transportVars(SendEnds) /\ WF_transportVars(DisconnectEnds)
------------------------------------------------------------------------------
(* Properties *)

\* A server that accepts the WebSocket and then rejects the session is not
\* dialled more often than the cap allows, however the connections fail
\* (the session_established latch, issue #358).
NoReconnectStorm == MaxAttempts > 0 => tries <= MaxAttempts + 1

\* The flag and the last link event never outlive the link, whichever of the
\* exits tears it down.
FlagFollowsLink == connected <=> pc \in {"handshake", "up", "sending"}

\* A peer that stopped answering is noticed: at most four pings are ever
\* outstanding, also when sends delay the ticks (keepalive_is_stale, with
\* MissedTickBehavior::Skip).
DeadPeerIsNoticed == pings <= 4

\* Once disconnect has asked for the shutdown, no new connection is dialled.
ShutdownIsFinal == [][shutdown /\ pc' = "connecting" => pc = "connecting"]_transportVars

\* disconnect returns: the task ends from wherever the shutdown finds it.
DisconnectReturns == caller = "joining" ~> caller = "idle"
==============================================================================
