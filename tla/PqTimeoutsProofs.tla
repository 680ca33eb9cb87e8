-------------------------- MODULE PqTimeoutsProofs --------------------------
(***************************************************************************)
(* Proofs of the properties of PqTimeouts, for every builder, number of    *)
(* exchanges in the handshake and step of the clock.                       *)
(***************************************************************************)
EXTENDS PqTimeouts, TLAPS

\* The milliseconds that reach the connection are the seconds of the builder:
\* ConnectionString multiplies and timeoutDriver.Open reads them back.
LEMMA TimeoutsArrive ==
    ASSUME builder \in Builders
    PROVE  /\ CallTimeout(builder) \in [{"read", "write"} -> Nat]
           /\ \A c \in {"read", "write"} : CallTimeout(builder)[c] = Asked(c)
           /\ ConnectDeadline = IF builder.ConnectionTimeout = 0 THEN NoDeadline
                                ELSE opened + 1000 * builder.ConnectionTimeout
BY TimeAssumption DEF CallTimeout, ConnectionString, Asked, ConnectDeadline

\* Closing the connection, on whatever error or none, keeps the invariant.
LEMMA ClosedKeeps == DeadlineInv /\ Closed => DeadlineInv'
<1> SUFFICES ASSUME DeadlineInv, Closed PROVE DeadlineInv'
  OBVIOUS
<1>1. TypeOK'
  BY TimeAssumption DEF DeadlineInv, Closed, TypeOK, NoDeadline
<1> QED
  BY <1>1 DEF DeadlineInv, Closed, TypeOK

\* Connecting, and the steps of the caller between calls, keep it.
LEMMA CallerKeeps ==
    DeadlineInv /\ (Open \/ DialReturns \/ HandshakeEnds \/ QueryBegins \/ QueryEnds)
        => DeadlineInv'
<1> SUFFICES ASSUME DeadlineInv PROVE
      (Open \/ DialReturns \/ HandshakeEnds \/ QueryBegins \/ QueryEnds) => DeadlineInv'
  OBVIOUS
<1> USE TimeAssumption
<1>0. builder \in Builders /\ TypeOK
  BY DEF DeadlineInv, TypeOK
<1>1. CASE Open
  <2>1. TypeOK'
    BY <1>1 DEF DeadlineInv, Open, TypeOK
  <2>2. NotAfter(now', ConnectDeadline')
    BY <1>0, <1>1 DEF Open, TypeOK, NotAfter, ConnectDeadline, ConnectionString
  <2> QED
    BY <1>1, <2>1, <2>2
    DEF DeadlineInv, Open, TypeOK, Handles, DialedConn
<1>2. CASE DialReturns
  <2>1. ConnectDeadline \in Int
    BY <1>0 DEF TypeOK, ConnectDeadline, ConnectionString, NoDeadline
  <2>2. DialedConn \in {"plain", "timeout"} /\ DialedConn' = DialedConn
    BY <1>2 DEF DialReturns, DialedConn
  <2>3. ConnectDeadline' = ConnectDeadline
    BY <1>2 DEF DialReturns, ConnectDeadline
  <2>4. TypeOK'
    BY <1>2, <2>1, <2>2 DEF DeadlineInv, DialReturns, TypeOK
  <2>5. call = "none"
    BY <1>2 DEF DeadlineInv, DialReturns
  <2> QED
    BY <1>2, <2>2, <2>3, <2>4, <2>5 DEF DeadlineInv, DialReturns, NotAfter
<1>3. CASE HandshakeEnds \/ QueryBegins \/ QueryEnds
  <2>1. TypeOK'
    BY <1>3 DEF DeadlineInv, HandshakeEnds, QueryBegins, QueryEnds, TypeOK, NoDeadline
  <2>2. call = "none"
    BY <1>0, <1>3 DEF DeadlineInv, HandshakeEnds, QueryBegins, QueryEnds, TypeOK
  <2>3. DialedConn' = DialedConn
    BY <1>3 DEF HandshakeEnds, QueryBegins, QueryEnds, DialedConn
  <2>4. \A c \in {"read", "write"} : deadline'[c] = NoDeadline
    BY <1>3, <2>2 DEF DeadlineInv, HandshakeEnds, QueryBegins, QueryEnds
  <2> QED
    BY <1>3, <2>1, <2>2, <2>3, <2>4
    DEF DeadlineInv, HandshakeEnds, QueryBegins, QueryEnds
<1> QED
  BY <1>1, <1>2, <1>3

\* A call that begins or returns keeps it.
LEMMA CallKeeps ==
    ASSUME DeadlineInv, NEW c \in {"read", "write"}, CallBegins(c) \/ CallReturns(c)
    PROVE  DeadlineInv'
<1> USE TimeAssumption
<1>0. builder \in Builders /\ TypeOK
  BY DEF DeadlineInv, TypeOK
<1>1. /\ DialedConn' = DialedConn /\ ConnectDeadline' = ConnectDeadline
      /\ CallTimeout(builder)' = CallTimeout(builder)
      /\ \A d \in {"read", "write"} : Handles(d)' = Handles(d)
      /\ NotAfter(now, ConnectDeadline)' = NotAfter(now, ConnectDeadline)
  BY DEF CallBegins, CallReturns, DialedConn, ConnectDeadline, CallTimeout, Handles, NotAfter
<1>2. conn = "plain" => \A d \in {"read", "write"} : ~Handles(d)
  BY DEF Handles
<1>3. CASE CallBegins(c)
  <2>1. CallTimeout(builder) \in [{"read", "write"} -> Nat]
    BY <1>0, TimeoutsArrive
  <2>2. TypeOK'
    BY <1>0, <1>3, <2>1 DEF TypeOK, CallBegins
  <2>3. Handles(c) => /\ deadline'[c] = since' + CallTimeout(builder)[c]
                      /\ now' <= deadline'[c]
    BY <1>0, <1>3, <2>1 DEF TypeOK, CallBegins
  <2>4. \A d \in {"read", "write"} : d # c \/ ~Handles(d) => deadline'[d] = deadline[d]
    BY <1>0, <1>3 DEF TypeOK, CallBegins
  <2> QED
    BY <1>1, <1>2, <1>3, <2>2, <2>3, <2>4 DEF DeadlineInv, CallBegins
<1>4. CASE CallReturns(c)
  <2>1. TypeOK'
    BY <1>0, <1>4 DEF DeadlineInv, TypeOK, CallReturns, NoDeadline
  <2>2. \A d \in {"read", "write"} :
            deadline'[d] = IF d = c /\ Handles(c) THEN NoDeadline ELSE deadline[d]
    BY <1>0, <1>4 DEF TypeOK, CallReturns
  <2> QED
    BY <1>1, <1>2, <1>4, <2>1, <2>2 DEF DeadlineInv, CallReturns
<1> QED
  BY <1>3, <1>4

\* Time keeps it: it never passes over the deadline somebody waits for.
LEMMA TickKeeps == DeadlineInv /\ Tick => DeadlineInv'
<1> SUFFICES ASSUME DeadlineInv, Tick PROVE DeadlineInv'
  OBVIOUS
<1>0. builder \in Builders /\ TypeOK
  BY DEF DeadlineInv, TypeOK
<1>1. PICK d \in Steps :
         /\ now + d <= MaxTime
         /\ stage = "dial" => NotAfter(now + d, ConnectDeadline)
         /\ call # "none" => NotAfter(now + d, deadline[call])
         /\ now' = now + d
  BY DEF Tick
<1>2. TypeOK'
  BY <1>0, <1>1, TimeAssumption DEF TypeOK, Tick
<1>3. /\ DialedConn' = DialedConn /\ ConnectDeadline' = ConnectDeadline
      /\ CallTimeout(builder)' = CallTimeout(builder)
      /\ \A c \in {"read", "write"} : Handles(c)' = Handles(c)
  BY DEF Tick, DialedConn, ConnectDeadline, CallTimeout, Handles
<1>4. call # "none" /\ Handles(call) => now' <= deadline[call]
  <2> SUFFICES ASSUME call # "none", Handles(call) PROVE now' <= deadline[call]
    OBVIOUS
  <2>1. deadline[call] = since + CallTimeout(builder)[call]
    BY DEF DeadlineInv
  <2>2. CallTimeout(builder)[call] \in Nat
    BY <1>0, TimeoutsArrive DEF TypeOK
  <2>3. deadline[call] # NoDeadline
    BY <1>0, <2>1, <2>2 DEF TypeOK, NoDeadline
  <2> QED
    BY <1>1, <2>3 DEF NotAfter
<1>5. stage = "dial" \/ (stage = "handshake" /\ conn = "plain") =>
          NotAfter(now', ConnectDeadline)
  <2>1. stage = "handshake" /\ conn = "plain" => NotAfter(now', ConnectDeadline)
    BY <1>0, <1>1 DEF DeadlineInv, TypeOK, Tick
  <2> QED
    BY <1>1, <2>1
<1>6. NotAfter(now, ConnectDeadline)' = NotAfter(now', ConnectDeadline)
  BY <1>3 DEF NotAfter
<1> QED
  BY <1>0, <1>2, <1>3, <1>4, <1>5, <1>6 DEF DeadlineInv, Tick, TypeOK

\* Whose deadline is on the connection, in every reachable state of a caller,
\* its connection and the clock.
THEOREM DeadlineInvariance == Spec => []DeadlineInv
<1>1. Init => DeadlineInv
  BY TimeAssumption DEF Init, DeadlineInv, TypeOK, NoDeadline, NotAfter
<1>2. DeadlineInv /\ [Next]_vars => DeadlineInv'
  <2> SUFFICES ASSUME DeadlineInv, [Next]_vars PROVE DeadlineInv'
    OBVIOUS
  <2>1. CASE UNCHANGED vars
    BY <2>1 DEF vars, DeadlineInv, TypeOK, Handles, DialedConn, CallTimeout,
                ConnectDeadline, NotAfter
  <2>2. CASE \E c \in {"read", "write"} : CallBegins(c) \/ CallReturns(c)
    BY <2>2, CallKeeps
  <2>3. CASE Next /\ ~\E c \in {"read", "write"} : CallBegins(c) \/ CallReturns(c)
    BY <2>3, ClosedKeeps, CallerKeeps, TickKeeps
    DEF Next, DialFails, CloseIdle, CallTimesOut, CallBreaks
  <2> QED
    BY <2>1, <2>2, <2>3
<1> QED
  BY <1>1, <1>2, PTL DEF Spec

\* A read or write never blocks longer than the builder's seconds for it.
THEOREM CallsBoundedHolds == Spec => []CallsBounded
<1>1. DeadlineInv => CallsBounded
  <2> SUFFICES ASSUME DeadlineInv, call # "none", Asked(call) # 0
               PROVE  now - since <= Asked(call)
    BY DEF CallsBounded
  <2>1. /\ builder \in Builders /\ call \in {"read", "write"}
        /\ now \in Int /\ since \in Int
    BY TimeAssumption DEF DeadlineInv, TypeOK
  <2>2. CallTimeout(builder)[call] = Asked(call) /\ Asked(call) \in Nat
    BY <2>1, TimeoutsArrive
  <2>3. Handles(call)
    BY <2>1, <2>2 DEF DeadlineInv, TypeOK, Handles, DialedConn
  <2> QED
    BY <2>1, <2>2, <2>3 DEF DeadlineInv
<1> QED
  BY <1>1, DeadlineInvariance, PTL

\* A connection in the pool carries no deadline of an earlier call.
THEOREM PoolHasNoDeadlineHolds == Spec => []PoolHasNoDeadline
<1>1. DeadlineInv => PoolHasNoDeadline
  BY DEF DeadlineInv, TypeOK, PoolHasNoDeadline
<1> QED
  BY <1>1, DeadlineInvariance, PTL

\* Without read and write timeouts, connecting ends within the connection
\* timeout.
THEOREM StandardConnectBoundedHolds == Spec => []StandardConnectBounded
<1>1. DeadlineInv => StandardConnectBounded
  <2> SUFFICES ASSUME DeadlineInv, builder.ReadTimeout = 0, builder.WriteTimeout = 0,
                      stage \in {"dial", "handshake"}, builder.ConnectionTimeout # 0
               PROVE  now - opened <= 1000 * builder.ConnectionTimeout
    BY DEF StandardConnectBounded, ConnectingBounded
  <2>1. builder \in Builders /\ now \in Int /\ opened \in Nat
    BY TimeAssumption DEF DeadlineInv, TypeOK
  <2>2. DialedConn = "plain"
    BY DEF DialedConn, CallTimeout, ConnectionString
  <2>3. NotAfter(now, ConnectDeadline)
    BY <2>2 DEF DeadlineInv, TypeOK
  <2>4. ConnectDeadline = opened + 1000 * builder.ConnectionTimeout
    BY <2>1, TimeoutsArrive
  <2> QED
    BY <2>1, <2>3, <2>4, TimeAssumption DEF NotAfter, NoDeadline
<1> QED
  BY <1>1, DeadlineInvariance, PTL

\* A call times out only after all of its own timeout, or of the connect
\* timeout in the handshake.
THEOREM NoEarlyTimeoutHolds == Spec => NoEarlyTimeout
<1>1. DeadlineInv /\ [Next]_vars =>
        [\A c \in {"read", "write"} : CallTimesOut(c) =>
          \/ Asked(c) # 0 /\ now - since >= Asked(c)
          \/ stage = "handshake" /\ now - opened >= 1000 * builder.ConnectionTimeout]_vars
  <2> SUFFICES ASSUME DeadlineInv, NEW c \in {"read", "write"}, CallTimesOut(c)
               PROVE
          \/ Asked(c) # 0 /\ now - since >= Asked(c)
          \/ stage = "handshake" /\ now - opened >= 1000 * builder.ConnectionTimeout
    OBVIOUS
  <2>1. builder \in Builders /\ now \in Int /\ since \in Int /\ opened \in Int
    BY TimeAssumption DEF DeadlineInv, TypeOK
  <2>2. call = c /\ deadline[c] # NoDeadline /\ deadline[c] <= now
    BY DEF CallTimesOut, Passed
  <2>3. CallTimeout(builder)[c] = Asked(c) /\ Asked(c) \in Nat
    BY <2>1, TimeoutsArrive
  <2>4. CASE Handles(c)
    BY <2>1, <2>2, <2>3, <2>4 DEF DeadlineInv, Handles
  <2>5. CASE ~Handles(c)
    <3>1. stage = "handshake" /\ deadline[c] = ConnectDeadline
      BY <2>2, <2>5 DEF DeadlineInv
    <3>2. ConnectDeadline = opened + 1000 * builder.ConnectionTimeout
      BY <2>1, <2>2, <3>1, TimeoutsArrive
    <3> QED
      BY <2>1, <2>2, <3>1, <3>2, TimeAssumption
  <2> QED
    BY <2>4, <2>5
<1> QED
  BY <1>1, DeadlineInvariance, PTL DEF Spec, NoEarlyTimeout
=============================================================================
