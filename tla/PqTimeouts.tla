----------------------------- MODULE PqTimeouts -----------------------------
(***************************************************************************)
(* The timeouts of a PostgreSQL connection: from the builder of the        *)
(* connection string in pkg/collector/postgres_collector.go, through the   *)
(* driver and dialer of fork/pq-timeouts, to the deadlines its connection  *)
(* sets around every read and write, with a network that may not answer.   *)
(*                                                                         *)
(* The caller is lib/pq: it dials, sets a deadline for the whole of the    *)
(* handshake when there is a connect_timeout, exchanges some messages,     *)
(* clears the deadline, and from then on exchanges messages for queries.   *)
(* One goroutine at a time uses a connection. Time is in milliseconds.     *)
(***************************************************************************)
EXTENDS Integers

CONSTANTS
    Builders,     \* the builders used: timeouts in seconds
    Exchanges,    \* messages sent and answered in a handshake
    Steps,        \* steps of the clock
    MaxTime       \* bound of the clock

ASSUME TimeAssumption ==
    /\ Exchanges \in Nat \ {0} /\ Steps \subseteq Nat \ {0} /\ MaxTime \in Nat
    /\ \A b \in Builders :
          /\ b.ConnectionTimeout \in Nat
          /\ b.ReadTimeout \in Nat /\ b.WriteTimeout \in Nat

NoDeadline == -1

VARIABLES
    builder,      \* postgresConnectionStringBuilder
    now,
    stage,        \* what the caller does: "closed", "dial", "handshake",
                  \* "pool", "query"
    opened,       \* when it started to connect
    left,         \* exchanges left of the handshake or query
    conn,         \* "nil", a "plain" connection or a "timeout" one
    deadline,     \* read and write deadline of the network connection
    call,         \* the call in progress: "none", "read", "write"
    turn,         \* the call that is next
    since         \* when the call in progress started

vars == <<builder, now, stage, opened, left, conn, deadline, call, turn, since>>

-----------------------------------------------------------------------------
(* From seconds in the builder to milliseconds in the connection *)

\* Mutant of ConnectionString: one timeout for everything.
ConnectionString_Same(b) ==
    [connect |-> b.ConnectionTimeout,
     read |-> b.ConnectionTimeout * 1000, write |-> b.ConnectionTimeout * 1000]

\* The settings of the URL, as numbers.
ConnectionString(b) ==
    [connect |-> b.ConnectionTimeout,
     read |-> b.ReadTimeout * 1000, write |-> b.WriteTimeout * 1000]

\* timeoutDriver.Open takes the timeouts of the two calls, in milliseconds,
\* out of the settings.
CallTimeout(b) == [c \in {"read", "write"} |-> ConnectionString(b)[c]]

\* lib/pq gets the other settings, where connect_timeout is in seconds, and no
\* connect_timeout or one of 0 is none.
ConnectDeadline ==
    IF ConnectionString(builder).connect = 0 THEN NoDeadline
    ELSE opened + ConnectionString(builder).connect * 1000

\* timeoutDialer: a normal connection if no timeouts are set.
DialedConn ==
    IF \A c \in {"read", "write"} : CallTimeout(builder)[c] = 0
    THEN "plain" ELSE "timeout"

\* The connection handles the deadline of this call.
Handles(c) == conn = "timeout" /\ CallTimeout(builder)[c] # 0

NotAfter(t, d) == d = NoDeadline \/ t <= d

Passed(d) == d # NoDeadline /\ d <= now

-----------------------------------------------------------------------------
(* Connections and calls *)

Init ==
    /\ builder \in Builders
    /\ now = 0 /\ stage = "closed" /\ opened = 0 /\ left = 0 /\ conn = "nil"
    /\ deadline = [c \in {"read", "write"} |-> NoDeadline]
    /\ call = "none" /\ turn = "write" /\ since = 0

Open ==
    /\ stage = "closed"
    /\ stage' = "dial" /\ opened' = now
    /\ UNCHANGED <<builder, now, left, conn, deadline, call, turn, since>>

\* Dial or DialTimeout returns, and the caller sets the deadline for the whole
\* handshake.
DialReturns ==
    /\ stage = "dial"
    /\ stage' = "handshake" /\ left' = Exchanges /\ turn' = "write"
    /\ conn' = DialedConn
    /\ deadline' = [c \in {"read", "write"} |-> ConnectDeadline]
    /\ UNCHANGED <<builder, now, opened, call, since>>

\* The caller closes what it has and drops it, whether or not closing
\* succeeded.
Closed ==
    /\ stage' = "closed" /\ left' = 0 /\ turn' = "write" /\ conn' = "nil"
    /\ deadline' = [c \in {"read", "write"} |-> NoDeadline]
    /\ call' = "none"
    /\ UNCHANGED <<builder, now, opened, since>>

\* The network refuses, or the connect timeout passes.
DialFails == stage = "dial" /\ Closed

\* Mutant of CallBegins: Read sets no deadline.
CallBegins_WriteOnly(c) ==
    /\ stage \in {"handshake", "query"} /\ left > 0 /\ call = "none" /\ turn = c
    /\ call' = c /\ since' = now
    /\ deadline' = IF Handles(c) /\ c = "write"
                   THEN [deadline EXCEPT ![c] = now + CallTimeout(builder)[c]]
                   ELSE deadline
    /\ UNCHANGED <<builder, now, stage, opened, left, conn, turn>>

\* timeoutConn.Read or Write, until the network call blocks.
CallBegins(c) ==
    /\ stage \in {"handshake", "query"} /\ left > 0 /\ call = "none" /\ turn = c
    /\ call' = c /\ since' = now
    /\ deadline' = IF Handles(c)
                   THEN [deadline EXCEPT ![c] = now + CallTimeout(builder)[c]]
                   ELSE deadline
    /\ UNCHANGED <<builder, now, stage, opened, left, conn, turn>>

\* Mutant of CallReturns: the deadline is not cleared.
CallReturns_Keeps(c) ==
    /\ call = c
    /\ call' = "none"
    /\ turn' = IF c = "write" THEN "read" ELSE "write"
    /\ left' = IF c = "write" THEN left ELSE left - 1
    /\ UNCHANGED <<builder, now, stage, opened, conn, deadline, since>>

\* The network call returns, and the deadline is cleared if the connection
\* handles it.
CallReturns(c) ==
    /\ call = c
    /\ call' = "none"
    /\ turn' = IF c = "write" THEN "read" ELSE "write"
    /\ left' = IF c = "write" THEN left ELSE left - 1
    /\ deadline' = IF Handles(c) THEN [deadline EXCEPT ![c] = NoDeadline] ELSE deadline
    /\ UNCHANGED <<builder, now, stage, opened, conn, since>>

\* The deadline of the call passes: an error, and the caller gives up the
\* connection.
CallTimesOut(c) == call = c /\ Passed(deadline[c]) /\ Closed

\* The same for any other error of the network.
CallBreaks(c) == call = c /\ Closed

\* The handshake is over, and the caller clears its deadline with SetDeadline.
HandshakeEnds ==
    /\ stage = "handshake" /\ left = 0
    /\ stage' = "pool"
    /\ deadline' = [c \in {"read", "write"} |-> NoDeadline]
    /\ UNCHANGED <<builder, now, opened, left, conn, call, turn, since>>

QueryBegins ==
    /\ stage = "pool"
    /\ stage' = "query" /\ left' = 1
    /\ UNCHANGED <<builder, now, opened, conn, deadline, call, turn, since>>

QueryEnds ==
    /\ stage = "query" /\ left = 0
    /\ stage' = "pool"
    /\ UNCHANGED <<builder, now, opened, left, conn, deadline, call, turn, since>>

CloseIdle == stage = "pool" /\ Closed

\* Time passes while the caller waits for the network or has nothing to do (its
\* own steps take none), but not over a deadline that it waits for.
Tick ==
    /\ stage \in {"handshake", "query"} => call # "none"
    /\ \E d \in Steps :
          /\ now + d <= MaxTime
          /\ stage = "dial" => NotAfter(now + d, ConnectDeadline)
          /\ call # "none" => NotAfter(now + d, deadline[call])
          /\ now' = now + d
    /\ UNCHANGED <<builder, stage, opened, left, conn, deadline, call, turn, since>>

Next ==
    \/ Open \/ DialReturns \/ DialFails \/ HandshakeEnds
    \/ QueryBegins \/ QueryEnds \/ CloseIdle \/ Tick
    \/ \E c \in {"read", "write"} :
          CallBegins(c) \/ CallReturns(c) \/ CallTimesOut(c) \/ CallBreaks(c)

Spec == Init /\ [][Next]_vars

-----------------------------------------------------------------------------
(* Properties *)

\* The seconds the builder was given for this call, in milliseconds.
Asked(c) == 1000 * (IF c = "read" THEN builder.ReadTimeout ELSE builder.WriteTimeout)

\* The types of the variables, and that there is a connection exactly from the
\* end of the dial to its close.
TypeOK ==
    /\ builder \in Builders /\ now \in 0..MaxTime
    /\ stage \in {"closed", "dial", "handshake", "pool", "query"}
    /\ opened \in 0..now /\ since \in 0..now /\ left \in 0..Exchanges
    /\ conn \in {"nil", "plain", "timeout"}
    /\ conn = "nil" <=> stage \in {"closed", "dial"}
    /\ deadline \in [{"read", "write"} -> Int]
    /\ call \in {"none", "read", "write"} /\ turn \in {"read", "write"}

\* A read or write of a server that does not answer ends after the seconds the
\* builder was given for it, in the handshake and on every later use of the
\* connection.
CallsBounded ==
    call # "none" /\ Asked(call) # 0 => now - since <= Asked(call)

\* A call runs into a deadline only after it waited all of its own timeout, or
\* after the connect timeout in the handshake: never because of what an
\* earlier call left behind.
NoEarlyTimeout ==
    [][\A c \in {"read", "write"} : CallTimesOut(c) =>
          \/ Asked(c) # 0 /\ now - since >= Asked(c)
          \/ stage = "handshake" /\ now - opened >= 1000 * builder.ConnectionTimeout]_vars

\* A connection that waits in the pool has no deadline, which would fail its
\* next use however late that is.
PoolHasNoDeadline ==
    stage = "pool" => \A c \in {"read", "write"} : deadline[c] = NoDeadline

ConnectingBounded ==
    stage \in {"dial", "handshake"} /\ builder.ConnectionTimeout # 0
        => now - opened <= 1000 * builder.ConnectionTimeout

\* Without read and write timeouts the driver is the standard one: connecting,
\* the handshake included, ends within the connection timeout.
StandardConnectBounded ==
    builder.ReadTimeout = 0 /\ builder.WriteTimeout = 0 => ConnectingBounded

\* connect_timeout bounds the initial connection, whatever the read and write
\* timeouts.
ConnectBounded == ConnectingBounded

\* The inductive invariant behind the properties above: whose deadline is on
\* the network connection at any moment.
DeadlineInv ==
    /\ TypeOK
    /\ call # "none" => stage \in {"handshake", "query"} /\ left > 0
    /\ conn # "nil" => conn = DialedConn
    /\ call # "none" /\ Handles(call) =>
          /\ deadline[call] = since + CallTimeout(builder)[call]
          /\ now <= deadline[call]
    /\ \A c \in {"read", "write"} : c # call \/ ~Handles(c) =>
          \/ deadline[c] = NoDeadline
          \/ stage = "handshake" /\ deadline[c] = ConnectDeadline
    /\ stage = "handshake" /\ conn = "plain" =>
          \A c \in {"read", "write"} : deadline[c] = ConnectDeadline
    /\ stage = "dial" \/ (stage = "handshake" /\ conn = "plain") =>
          NotAfter(now, ConnectDeadline)
=============================================================================
