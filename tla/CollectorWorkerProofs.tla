------------------------ MODULE CollectorWorkerProofs ------------------------
(***************************************************************************)
(* Proofs about the identifiers of rdsbrokerinfo.go, for every prefix and  *)
(* GUID, that a worker therefore connects to its own database, and that    *)
(* its retries end within their budget of time.                            *)
(***************************************************************************)
EXTENDS CollectorWorker, SequenceTheorems, FiniteSetTheorems, SetInduction, TLAPS

\* What strings.Replace makes of a name.
LEMMA DashedProperties ==
    ASSUME NEW s \in Seq(Char)
    PROVE  /\ Dashed(s) \in Seq(Char) /\ Len(Dashed(s)) = Len(s)
           /\ \A i \in 1..Len(s) : Dashed(s)[i] = IF s[i] = "_" THEN "-" ELSE s[i]
<1>1. Len(s) \in Nat /\ \A i \in 1..Len(s) : s[i] \in Char
  BY LenProperties, ElementOfSeq
<1>2. \A i \in 1..Len(s) : (IF s[i] = "_" THEN "-" ELSE s[i]) \in Char
  BY <1>1, DatabaseAssumption, Zenon
<1>3. Dashed(s) \in [1..Len(s) -> Char]
  BY <1>2, Zenon DEF Dashed
<1>4. Dashed(s) \in Seq(Char) /\ Len(Dashed(s)) = Len(s)
  BY <1>1, <1>3
<1> QED
  BY <1>4, Zenon DEF Dashed

\* The prefix of all identifiers is a name.
LEMMA PrefixType == Dashed(DBPrefix) \o <<"-">> \in Seq(Char)
<1>1. Dashed(DBPrefix) \in Seq(Char)
  BY DatabaseAssumption, DashedProperties, Zenon
<1>2. \A c \in Char : <<c>> \in Seq(Char)
  OBVIOUS
<1>3. <<"-">> \in Seq(Char)
  BY <1>2, DatabaseAssumption, Zenon
<1> QED
  BY <1>1, <1>3, ConcatProperties

\* The first and the last characters of a name.
LEMMA PartsOfName ==
    ASSUME NEW s \in Seq(Char), NEW n \in Nat, n <= Len(s)
    PROVE  /\ SubSeq(s, 1, n) \in Seq(Char) /\ Len(SubSeq(s, 1, n)) = n
           /\ \A i \in 1..n : SubSeq(s, 1, n)[i] = s[i]
           /\ SubSeq(s, n + 1, Len(s)) \in Seq(Char)
           /\ Len(SubSeq(s, n + 1, Len(s))) = Len(s) - n
           /\ \A i \in 1..(Len(s) - n) : SubSeq(s, n + 1, Len(s))[i] = s[n + i]
<1>1. Len(s) \in Nat /\ \A i \in 1..Len(s) : s[i] \in Char
  BY LenProperties, ElementOfSeq
<1>2. /\ SubSeq(s, 1, n) \in Seq(Char)
      /\ Len(SubSeq(s, 1, n)) = IF 1 <= n THEN n - 1 + 1 ELSE 0
      /\ \A i \in 1..(n - 1 + 1) : SubSeq(s, 1, n)[i] = s[1 + i - 1]
  <2>1. \A i \in 1..n : s[i] \in Char
    BY <1>1
  <2> QED
    BY <2>1, SubSeqProperties
<1>3. /\ SubSeq(s, n + 1, Len(s)) \in Seq(Char)
      /\ Len(SubSeq(s, n + 1, Len(s))) =
            IF n + 1 <= Len(s) THEN Len(s) - (n + 1) + 1 ELSE 0
      /\ \A i \in 1..(Len(s) - (n + 1) + 1) :
            SubSeq(s, n + 1, Len(s))[i] = s[(n + 1) + i - 1]
  <2>1. \A i \in (n + 1)..Len(s) : s[i] \in Char
    BY <1>1
  <2>2. n + 1 \in Int /\ Len(s) \in Int
    BY <1>1
  <2> HIDE <1>1
  <2> QED
    BY <2>1, <2>2, SubSeqProperties
<1>4. Len(s) - (n + 1) + 1 = Len(s) - n /\ n - 1 + 1 = n
  BY <1>1
<1>5. \A i \in 1..(Len(s) - n) : (n + 1) + i - 1 = n + i
  BY <1>1
<1>6. \A i \in 1..n : 1 + i - 1 = i
  OBVIOUS
<1>7. (IF 1 <= n THEN n - 1 + 1 ELSE 0) = n
  OBVIOUS
<1>8. (IF n + 1 <= Len(s) THEN Len(s) - (n + 1) + 1 ELSE 0) = Len(s) - n
  BY <1>1
<1> QED
  BY <1>2, <1>3, <1>4, <1>5, <1>6, <1>7, <1>8, Zenon

\* A name without underscores is not changed.
LEMMA DashedSame ==
    ASSUME NEW s \in Seq(Char), \A i \in 1..Len(s) : s[i] # "_"
    PROVE  Dashed(s) = s
<1>1. /\ Dashed(s) \in Seq(Char) /\ Len(Dashed(s)) = Len(s)
      /\ \A i \in 1..Len(s) : Dashed(s)[i] = s[i]
  BY DashedProperties, Zenon
<1> QED
  BY <1>1, SeqEqual, Zenon

\* strings.TrimPrefix takes off a prefix that was put on.
LEMMA TrimUndoes ==
    ASSUME NEW p \in Seq(Char), NEW s \in Seq(Char)
    PROVE  TrimPrefix(p \o s, p) = s
<1> DEFINE t == p \o s
<1>1. /\ t \in Seq(Char) /\ Len(t) = Len(p) + Len(s)
      /\ \A i \in 1..Len(t) : t[i] = IF i <= Len(p) THEN p[i] ELSE s[i - Len(p)]
  OBVIOUS
<1> HIDE DEF t
<1>2. Len(p) \in Nat /\ Len(s) \in Nat
  OBVIOUS
<1>3. SubSeq(t, 1, Len(p)) = p
  <2>1. /\ SubSeq(t, 1, Len(p)) \in Seq(Char) /\ Len(SubSeq(t, 1, Len(p))) = Len(p)
        /\ \A i \in 1..Len(p) : SubSeq(t, 1, Len(p))[i] = p[i]
    BY <1>1, <1>2, PartsOfName
  <2> QED
    BY <2>1, SeqEqual
<1>4. SubSeq(t, Len(p) + 1, Len(t)) = s
  <2>1. /\ SubSeq(t, Len(p) + 1, Len(t)) \in Seq(Char)
        /\ Len(SubSeq(t, Len(p) + 1, Len(t))) = Len(s)
        /\ \A i \in 1..Len(s) : SubSeq(t, Len(p) + 1, Len(t))[i] = s[i]
    <3>1. /\ SubSeq(t, Len(p) + 1, Len(t)) \in Seq(Char)
          /\ Len(SubSeq(t, Len(p) + 1, Len(t))) = Len(t) - Len(p)
          /\ \A i \in 1..(Len(t) - Len(p)) :
                SubSeq(t, Len(p) + 1, Len(t))[i] = t[Len(p) + i]
      BY <1>1, <1>2, PartsOfName
    <3>2. \A i \in 1..Len(s) : t[Len(p) + i] = s[i]
      BY <1>1, <1>2
    <3> QED
      BY <1>1, <1>2, <3>1, <3>2
  <2> QED
    BY <2>1, SeqEqual, Zenon
<1> QED
  BY <1>1, <1>2, <1>3, <1>4 DEF TrimPrefix, HasPrefix, t

\* A name with a prefix is the prefix and what strings.TrimPrefix leaves.
LEMMA TrimSplits ==
    ASSUME NEW p \in Seq(Char), NEW s \in Seq(Char), HasPrefix(s, p)
    PROVE  /\ TrimPrefix(s, p) \in Seq(Char)
           /\ \A i \in 1..Len(TrimPrefix(s, p)) :
                 Len(p) + i \in 1..Len(s) /\ TrimPrefix(s, p)[i] = s[Len(p) + i]
           /\ p \o TrimPrefix(s, p) = s
<1> DEFINE g == TrimPrefix(s, p)
<1>1. Len(p) \in Nat /\ Len(s) \in Nat
  BY LenProperties
<1>2. /\ Len(p) <= Len(s) /\ SubSeq(s, 1, Len(p)) = p
      /\ g = SubSeq(s, Len(p) + 1, Len(s))
  BY DEF HasPrefix, TrimPrefix
<1>3. /\ \A i \in 1..Len(p) : p[i] = s[i]
      /\ g \in Seq(Char) /\ Len(g) = Len(s) - Len(p)
      /\ \A i \in 1..(Len(s) - Len(p)) : g[i] = s[Len(p) + i]
  <2>1. /\ \A i \in 1..Len(p) : SubSeq(s, 1, Len(p))[i] = s[i]
        /\ SubSeq(s, Len(p) + 1, Len(s)) \in Seq(Char)
        /\ Len(SubSeq(s, Len(p) + 1, Len(s))) = Len(s) - Len(p)
        /\ \A i \in 1..(Len(s) - Len(p)) :
              SubSeq(s, Len(p) + 1, Len(s))[i] = s[Len(p) + i]
    BY <1>1, <1>2, PartsOfName
  <2> HIDE DEF g
  <2> QED
    BY <1>2, <2>1, Zenon
<1> HIDE DEF g
<1>4. \A i \in 1..Len(g) : Len(p) + i \in 1..Len(s) /\ g[i] = s[Len(p) + i]
  BY <1>1, <1>2, <1>3
<1>5. /\ p \o g \in Seq(Char) /\ Len(p \o g) = Len(s)
      /\ \A i \in 1..Len(s) :
            (p \o g)[i] = IF i <= Len(p) THEN p[i] ELSE g[i - Len(p)]
  BY <1>1, <1>2, <1>3
<1>6. \A i \in 1..Len(s) : (p \o g)[i] = s[i]
  <2> TAKE i \in 1..Len(s)
  <2>1. CASE i <= Len(p)
    BY <1>1, <1>3, <1>5, <2>1
  <2>2. CASE i > Len(p)
    <3>1. i - Len(p) \in 1..(Len(s) - Len(p)) /\ Len(p) + (i - Len(p)) = i
      BY <1>1, <2>2
    <3>2. g[i - Len(p)] = s[Len(p) + (i - Len(p))]
      BY <1>3, <3>1
    <3>3. (p \o g)[i] = g[i - Len(p)]
      BY <1>1, <1>5, <2>2
    <3> QED
      BY <3>1, <3>2, <3>3
  <2>3. i <= Len(p) \/ i > Len(p)
    BY <1>1
  <2> QED
    BY <2>1, <2>2, <2>3, Zenon
<1>7. p \o g = s
  BY <1>5, <1>6, SeqEqual, Zenon
<1> QED
  BY <1>3, <1>4, <1>7 DEF g

\* The GUID of a service instance comes back from the identifier of its
\* database, if it has no underscore.
THEOREM GUIDRoundTrip ==
    ASSUME NEW guid \in Seq(Char), \A i \in 1..Len(guid) : guid[i] # "_"
    PROVE  DbInstanceIdentifierToServiceInstanceID(DbInstanceIdentifier(guid)) = guid
<1>1. Dashed(DBPrefix) \o <<"-">> \in Seq(Char)
  BY PrefixType, Zenon
<1>2. Dashed(guid) = guid
  BY DashedSame, Zenon
<1>3. TrimPrefix((Dashed(DBPrefix) \o <<"-">>) \o guid, Dashed(DBPrefix) \o <<"-">>) = guid
  BY <1>1, TrimUndoes, Zenon
<1> QED
  BY <1>2, <1>3, Zenon DEF DbInstanceIdentifierToServiceInstanceID, DbInstanceIdentifier

\* The identifier of a database comes back from the GUID that ListInstances
\* makes of it: what is described later is what was listed.
THEOREM IdentifierRoundTrip ==
    ASSUME NEW id \in Seq(Char), \A i \in 1..Len(id) : id[i] # "_",
           HasPrefix(id, Dashed(DBPrefix) \o <<"-">>)
    PROVE  DbInstanceIdentifier(DbInstanceIdentifierToServiceInstanceID(id)) = id
<1> DEFINE p == Dashed(DBPrefix) \o <<"-">>
           g == TrimPrefix(id, p)
<1>1. /\ g \in Seq(Char) /\ p \o g = id
      /\ \A i \in 1..Len(g) : Len(p) + i \in 1..Len(id) /\ g[i] = id[Len(p) + i]
  BY PrefixType, TrimSplits, Zenon
<1>2. \A i \in 1..Len(g) : g[i] # "_"
  BY <1>1, Zenon
<1>3. Dashed(g) = g
  BY <1>1, <1>2, DashedSame, Zenon
<1>4. /\ DbInstanceIdentifierToServiceInstanceID(id) = g
      /\ DbInstanceIdentifier(g) = p \o Dashed(g)
  BY Zenon DEF DbInstanceIdentifierToServiceInstanceID, DbInstanceIdentifier
<1> QED
  BY <1>1, <1>3, <1>4, Zenon

-----------------------------------------------------------------------------

\* What a worker relies on, to be its own database's: names that can be
\* converted, endpoints that name their database, and an instance that was made
\* from the identifier.
OwnInv ==
    /\ \A db \in dbs :
          /\ db = [DBInstanceIdentifier |-> db.DBInstanceIdentifier,
                   Engine |-> db.Engine, Endpoint |-> db.Endpoint]
          /\ db.Endpoint = Nil \/ \E h \in Hosts :
                db.Endpoint = Endpoint(db.DBInstanceIdentifier, h)
    /\ info.GUID = DbInstanceIdentifierToServiceInstanceID(own)
    /\ \E db \in Databases : own = db.DBInstanceIdentifier
    /\ DetailsAreOwn

\* What is described for the worker's instance is its own database.
LEMMA DescribesOwn ==
    ASSUME OwnInv, NEW d \in GetInstanceConnectionDetails(dbs, info), d.DBAddress # Nil
    PROVE  \E h \in Hosts : d.DBAddress = Endpoint(own, h)
<1>1. DbInstanceIdentifier(info.GUID) = own
  <2>1. PICK db \in Databases : own = db.DBInstanceIdentifier
    BY DEF OwnInv
  <2>2. /\ own \in Seq(Char) /\ HasPrefix(own, Dashed(DBPrefix) \o <<"-">>)
        /\ \A i \in 1..Len(own) : own[i] # "_"
    BY <2>1, DatabaseAssumption, Zenon
  <2> QED
    BY <2>2, IdentifierRoundTrip, Zenon DEF OwnInv
<1>2. PICK db \in dbs : db.DBInstanceIdentifier = own /\ d = [DBAddress |-> db.Endpoint]
  BY <1>1 DEF GetInstanceConnectionDetails, Describe
<1>3. d.DBAddress = db.Endpoint
  BY <1>2
<1> QED
  BY <1>2, <1>3 DEF OwnInv

\* A worker only ever connects to the database it was listed for: for every
\* prefix, databases of the broker and hosts.
THEOREM DetailsAreOwnHolds == Spec => []DetailsAreOwn
<1>1. Init => OwnInv
  <2> SUFFICES ASSUME Init PROVE OwnInv
    OBVIOUS
  <2>1. PICK db \in Databases : own = db.DBInstanceIdentifier /\ info \in ListInstances({db})
    BY DEF Init
  <2>2. info.GUID = DbInstanceIdentifierToServiceInstanceID(own)
    BY <2>1 DEF ListInstances
  <2> QED
    BY <2>1, <2>2, DatabaseAssumption, Zenon DEF Init, OwnInv, DetailsAreOwn
<1>2. OwnInv /\ [Next]_vars => OwnInv'
  <2> SUFFICES ASSUME OwnInv, [Next]_vars PROVE OwnInv'
    OBVIOUS
  <2>1. CASE EndpointChanges
    <3>1. PICK h \in Hosts :
             dbs' = (dbs \ {Own}) \cup {[Own EXCEPT !.Endpoint = Endpoint(own, h)]}
      BY <2>1 DEF EndpointChanges
    <3>2. Own \in dbs /\ Own.DBInstanceIdentifier = own
      BY <2>1 DEF EndpointChanges, Exists, Describe, Own
    <3> DEFINE new == [Own EXCEPT !.Endpoint = Endpoint(own, h)]
    <3>3. new = [DBInstanceIdentifier |-> own, Engine |-> Own.Engine,
                 Endpoint |-> Endpoint(own, h)]
      BY <3>2 DEF OwnInv
    <3>4. \A db \in dbs' : db \in dbs \/ db = new
      BY <3>1
    <3> HIDE DEF new
    <3>5. /\ new = [DBInstanceIdentifier |-> new.DBInstanceIdentifier,
                    Engine |-> new.Engine, Endpoint |-> new.Endpoint]
          /\ new.Endpoint = Endpoint(new.DBInstanceIdentifier, h)
      BY <3>3
    <3> QED
      BY <2>1, <3>4, <3>5 DEF EndpointChanges, OwnInv, DetailsAreOwn
  <2>2. CASE NewCollectorReturns
    <3>1. \A d \in details' : d.DBAddress # Nil =>
              \E h \in Hosts : d.DBAddress = Endpoint(own, h)
      BY <2>2, DescribesOwn DEF NewCollectorReturns
    <3> QED
      BY <2>2, <3>1 DEF NewCollectorReturns, OwnInv, DetailsAreOwn
  <2>3. CASE details' \in {details, {}} /\ dbs' \subseteq dbs /\ UNCHANGED <<own, info>>
    BY <2>3 DEF OwnInv, DetailsAreOwn
  <2>4. EndpointChanges \/ NewCollectorReturns
          \/ (details' \in {details, {}} /\ dbs' \subseteq dbs /\ UNCHANGED <<own, info>>)
    BY DEF Next, vars, Deleted, RefreshFails, Refresh, NewCollectorFails, Ends,
           SelectCollect, SelectDone, CollectReturns, CollectFails, Retry, GiveUp, Tick
  <2> QED
    BY <2>1, <2>2, <2>3, <2>4
<1>3. OwnInv => DetailsAreOwn
  BY DEF OwnInv
<1> QED
  BY <1>1, <1>2, <1>3, PTL DEF Spec

-----------------------------------------------------------------------------
(* How long a worker fails *)

\* The power has its recursive equation.
LEMMA Power4Equation ==
    /\ Power4 \in [Nat -> Nat] /\ Power4[0] = 1
    /\ \A n \in Nat : Power4[n + 1] = 4 * Power4[n]
<1> DEFINE g == [p \in Nat \X Nat |-> 4 * p[2]]
<1>1. 1 \in Nat /\ g \in [Nat \X Nat -> Nat] /\ \A n, x \in Nat : g[<<n, x>>] = 4 * x
  OBVIOUS
<1> HIDE DEF g
<1>2. PICK f : Recursion(f, Nat, 1, g)
  BY <1>1, NatSetRecursion, Zenon
<1>3. /\ f \in [Nat -> Nat] /\ f[0] = 1
      /\ \A n \in Nat : f[n + 1] = g[<<n + 1, f[n]>>]
  BY <1>2 DEF Recursion
<1>4. ASSUME NEW n \in Nat PROVE f[n] = IF n = 0 THEN 1 ELSE 4 * f[n - 1]
  <2>1. CASE n = 0
    BY <1>3, <2>1
  <2>2. CASE n # 0
    <3>1. n - 1 \in Nat /\ (n - 1) + 1 = n
      BY <2>2
    <3>2. f[n] = g[<<n, f[n - 1]>>] /\ f[n - 1] \in Nat
      BY <1>3, <3>1
    <3> QED
      BY <1>1, <2>2, <3>2
  <2> QED
    BY <2>1, <2>2
<1>5. f = [n \in Nat |-> IF n = 0 THEN 1 ELSE 4 * f[n - 1]]
  BY <1>3, <1>4
<1>6. Power4 = [n \in Nat |-> IF n = 0 THEN 1 ELSE 4 * Power4[n - 1]]
  BY <1>5, Zenon DEF Power4
<1>7. \A n \in Nat : Power4[n] = IF n = 0 THEN 1 ELSE 4 * Power4[n - 1]
  BY <1>6
<1>8. Power4[0] = 1 /\ \A n \in Nat : Power4[n + 1] = 4 * Power4[n]
  BY <1>7
<1> DEFINE T == {n \in Nat : Power4[n] \in Nat}
<1>9. 0 \in T /\ \A n \in Nat : n \in T => n + 1 \in T
  BY <1>8
<1> HIDE DEF T
<1>10. Nat \subseteq T
  BY <1>9, NatSetInduction
<1>11. \A n \in Nat : Power4[n] \in Nat
  BY <1>10 DEF T
<1> QED
  BY <1>6, <1>8, <1>11

\* 4 + 16 + ... + 4 ^ n is the closed form of GiveUpTime.
LEMMA SumOfPowers ==
    ASSUME NEW n \in Nat
    PROVE  /\ (Power4[n + 1] - 4) \div 3 \in Nat
           /\ (Power4[n + 2] - 4) \div 3 = (Power4[n + 1] - 4) \div 3 + Power4[n + 1]
<1> DEFINE T == {k \in Nat : \E q \in Nat : Power4[k + 1] = 3 * q + 4}
<1>1. 0 \in T
  <2>1. Power4[0 + 1] = 3 * 0 + 4
    BY Power4Equation
  <2> QED
    BY <2>1
<1>2. ASSUME NEW k \in Nat, k \in T PROVE k + 1 \in T
  <2>1. PICK q \in Nat : Power4[k + 1] = 3 * q + 4
    BY <1>2
  <2>2. Power4[(k + 1) + 1] = 4 * Power4[k + 1]
    BY Power4Equation
  <2>3. PICK r \in Nat : r = 4 * q + 4
    OBVIOUS
  <2>4. Power4[(k + 1) + 1] = 3 * r + 4
    BY <2>1, <2>2, <2>3
  <2> QED
    BY <2>4
<1> HIDE DEF T
<1>3. Nat \subseteq T
  BY <1>1, <1>2, NatSetInduction
<1>4. PICK q \in Nat : Power4[n + 1] = 3 * q + 4
  BY <1>3 DEF T
<1>5. Power4[n + 2] = 4 * Power4[n + 1]
  <2>1. n + 1 \in Nat /\ (n + 1) + 1 = n + 2
    OBVIOUS
  <2> QED
    BY <2>1, Power4Equation
<1>6. Power4[n + 2] = 3 * (4 * q + 4) + 4
  BY <1>4, <1>5
<1>7. (Power4[n + 1] - 4) \div 3 = q
  BY <1>4
<1>8. (Power4[n + 2] - 4) \div 3 = 4 * q + 4
  BY <1>6
<1> QED
  BY <1>4, <1>7, <1>8

\* How long a worker may have failed when it has waited for its e-th retry: the
\* waits before it, and a timeout for each attempt.
Budget(e) ==
    ((Power4[e + 1] - 4) \div 3) * RetryInterval + e * (CollectorTimeout + Overrun)

\* An error adds its timeout and the wait that follows it.
LEMMA BudgetGrows ==
    /\ Budget(0) = 0
    /\ \A e \in Nat :
          /\ Budget(e) \in Nat /\ Power4[e + 1] * RetryInterval \in Nat
          /\ Budget(e + 1) = Budget(e) + Power4[e + 1] * RetryInterval
                                + (CollectorTimeout + Overrun)
<1>1. /\ RetryInterval \in Nat /\ CollectorTimeout + Overrun \in Nat
  BY WorkerAssumption
<1>2. Budget(0) = 0
  <2>1. Power4[0 + 1] = 4
    BY Power4Equation
  <2>2. (4 - 4) \div 3 = 0
    OBVIOUS
  <2> QED
    BY <1>1, <2>1, <2>2 DEF Budget
<1>3. ASSUME NEW e \in Nat
      PROVE  /\ Budget(e) \in Nat /\ Power4[e + 1] * RetryInterval \in Nat
             /\ Budget(e + 1) = Budget(e) + Power4[e + 1] * RetryInterval
                                    + (CollectorTimeout + Overrun)
  <2> DEFINE q == (Power4[e + 1] - 4) \div 3
             p == Power4[e + 1]
             r == (Power4[e + 2] - 4) \div 3
             c == CollectorTimeout + Overrun
  <2>1. q \in Nat /\ p \in Nat /\ r = q + p
    BY SumOfPowers, Power4Equation
  <2>2. (e + 1) + 1 = e + 2
    OBVIOUS
  <2>3. Budget(e) = q * RetryInterval + e * c
    BY DEF Budget
  <2>4. Budget(e + 1) = r * RetryInterval + (e + 1) * c
    BY <2>2 DEF Budget
  <2>5. p = Power4[e + 1] /\ c = CollectorTimeout + Overrun /\ c \in Nat
    BY <1>1
  <2> HIDE DEF q, p, r, c
  <2>6. /\ q * RetryInterval \in Nat /\ p * RetryInterval \in Nat /\ e * c \in Nat
    BY <1>1, <2>1, <2>5
  <2>7. (q + p) * RetryInterval = q * RetryInterval + p * RetryInterval
    BY <1>1, <2>1
  <2>8. (e + 1) * c = e * c + c
    BY <2>5
  <2> QED
    BY <2>1, <2>3, <2>4, <2>5, <2>6, <2>7, <2>8
<1> QED
  BY <1>2, <1>3

\* More errors never leave less time.
LEMMA BudgetMonotone ==
    ASSUME NEW e \in Nat, NEW m \in Nat, e <= m
    PROVE  Budget(e) <= Budget(m)
<1> DEFINE T == {k \in Nat : Budget(e) <= Budget(e + k)}
<1>1. 0 \in T
  <2>1. e + 0 = e
    OBVIOUS
  <2> QED
    BY <2>1, BudgetGrows
<1>2. ASSUME NEW k \in Nat, k \in T PROVE k + 1 \in T
  <2>1. e + k \in Nat /\ e + (k + 1) = (e + k) + 1
    OBVIOUS
  <2>2. Budget(e) <= Budget(e + k)
    BY <1>2
  <2>3. CollectorTimeout + Overrun \in Nat
    BY WorkerAssumption
  <2>4. Budget(e + k) <= Budget((e + k) + 1) /\ Budget((e + k) + 1) \in Nat
    BY <2>1, <2>3, BudgetGrows
  <2>5. Budget(e) <= Budget((e + k) + 1)
    BY <2>1, <2>2, <2>4, BudgetGrows
  <2> QED
    BY <2>1, <2>5
<1> HIDE DEF T
<1>3. Nat \subseteq T
  BY <1>1, <1>2, NatSetInduction
<1>4. m - e \in Nat /\ e + (m - e) = m
  OBVIOUS
<1> QED
  BY <1>3, <1>4 DEF T

\* A worker that fails has spent no more than its waits and attempts so far, what
\* is left on its timer included; a worker that does not fail has spent nothing.
BudgetInv ==
    /\ pc \in {"none", "starting", "waiting", "collecting"}
    /\ errorCount \in 0..MaxRetries /\ timer \in Nat /\ spent \in Nat
    /\ \/ errorCount = 0 /\ failing = FALSE
       \/ errorCount > 0 /\ failing = TRUE
    /\ pc \in {"none", "starting"} => errorCount = 0 /\ spent = 0
    /\ pc = "waiting" /\ errorCount = 0 => spent = 0
    /\ pc = "waiting" /\ errorCount > 0 => spent + timer <= Budget(errorCount)
    /\ pc = "collecting" =>
          spent + timer <= Budget(errorCount) + CollectorTimeout + Overrun

\* run ends with nothing spent.
LEMMA EndsKeepsBudget ==
    ASSUME BudgetInv, Ends
    PROVE  BudgetInv'
<1>1. /\ pc' = "none" /\ errorCount' = 0 /\ timer' = 0 /\ failing' = FALSE /\ spent' = 0
      /\ MaxRetries \in Nat
  BY WorkerAssumption DEF Ends
<1> QED
  BY <1>1 DEF BudgetInv

\* Time moves from the timer to what is spent.
LEMMA TickKeepsBudget ==
    ASSUME BudgetInv, Tick
    PROVE  BudgetInv'
<1>1. /\ pc' = pc /\ errorCount' = errorCount /\ failing' = failing /\ Step \in Nat
      /\ spent' = spent \/ spent' = spent + Step
      /\ CollectorTimeout \in Nat /\ Overrun \in Nat /\ MaxRetries \in Nat
  BY WorkerAssumption DEF Tick
<1>2. Budget(errorCount) \in Nat
  BY BudgetGrows DEF BudgetInv
<1>3. CASE pc \in {"none", "starting"}
  <2>1. timer' = timer /\ spent' = spent
    BY <1>3 DEF Tick, BudgetInv
  <2> QED
    BY <1>1, <1>3, <2>1 DEF BudgetInv
<1>4. CASE pc \in {"waiting", "collecting"}
  <2>1. Step <= timer /\ timer' = timer - Step
    BY <1>4 DEF Tick
  <2>2. timer' \in Nat /\ spent' \in Nat /\ spent' + timer' <= spent + timer
    <3>1. timer \in Nat /\ spent \in Nat
      BY DEF BudgetInv
    <3> QED
      BY <1>1, <2>1, <3>1
  <2>3. pc = "waiting" /\ errorCount = 0 => spent' = spent
    BY <1>1 DEF Tick, BudgetInv
  <2>4. \A b \in Nat : spent + timer <= b => spent' + timer' <= b
    <3>1. timer \in Nat /\ spent \in Nat
      BY DEF BudgetInv
    <3>2. PICK u \in Nat : u = spent'
      BY <2>2
    <3>3. PICK v \in Nat : v = timer'
      BY <2>2
    <3>4. u + v <= spent + timer
      BY <2>2, <3>2, <3>3
    <3>5. \A b \in Nat : spent + timer <= b => u + v <= b
      BY <3>1, <3>4
    <3> QED
      BY <3>2, <3>3, <3>5, Zenon
  <2>5. Budget(errorCount') = Budget(errorCount)
    BY <1>1
  <2>6. ASSUME pc' = "waiting", errorCount' > 0
        PROVE  spent' + timer' <= Budget(errorCount')
    <3>1. spent + timer <= Budget(errorCount)
      BY <1>1, <2>6 DEF BudgetInv
    <3> QED
      BY <1>2, <2>4, <2>5, <3>1
  <2>7. ASSUME pc' = "collecting"
        PROVE  spent' + timer' <= Budget(errorCount') + CollectorTimeout + Overrun
    <3>1. spent + timer <= Budget(errorCount) + CollectorTimeout + Overrun
      BY <1>1, <2>7 DEF BudgetInv
    <3>2. Budget(errorCount) + CollectorTimeout + Overrun \in Nat
      BY <1>1, <1>2
    <3> QED
      BY <2>4, <2>5, <3>1, <3>2
  <2> QED
    BY <1>1, <1>4, <2>2, <2>3, <2>6, <2>7 DEF BudgetInv
<1> QED
  BY <1>3, <1>4 DEF BudgetInv

\* An error uses its timeout up, and adds the wait before the next attempt.
LEMMA RetryKeepsBudget ==
    ASSUME BudgetInv, pc = "collecting", Retry
    PROVE  BudgetInv'
<1>1. /\ pc' = "waiting" /\ errorCount' = errorCount + 1 /\ failing' = TRUE /\ spent' = spent
      /\ timer' = Power4[errorCount + 1] * RetryInterval
      /\ errorCount + 1 <= MaxRetries
  BY DEF Retry
<1>2. /\ errorCount \in Nat /\ timer \in Nat /\ spent \in Nat
      /\ spent + timer <= Budget(errorCount) + CollectorTimeout + Overrun
      /\ CollectorTimeout \in Nat /\ Overrun \in Nat /\ MaxRetries \in Nat
  BY WorkerAssumption DEF BudgetInv
<1>3. /\ Budget(errorCount) \in Nat /\ timer' \in Nat
      /\ Budget(errorCount + 1) = Budget(errorCount) + timer' + (CollectorTimeout + Overrun)
  BY <1>1, <1>2, BudgetGrows
<1>4. spent' + timer' <= Budget(errorCount + 1)
  BY <1>1, <1>2, <1>3
<1>5. Budget(errorCount') = Budget(errorCount + 1)
  BY <1>1
<1>6. errorCount' \in 0..MaxRetries /\ errorCount' > 0
  BY <1>1, <1>2
<1> QED
  BY <1>1, <1>2, <1>3, <1>4, <1>5, <1>6 DEF BudgetInv

\* No step of the worker breaks its budget.
LEMMA StepKeepsBudget == BudgetInv /\ [Next]_vars => BudgetInv'
<1> SUFFICES ASSUME BudgetInv, [Next]_vars PROVE BudgetInv'
  OBVIOUS
<1>1. ASSUME UNCHANGED <<pc, errorCount, timer, failing, spent>> PROVE BudgetInv'
  <2>1. Budget(errorCount') = Budget(errorCount)
    BY <1>1
  <2> QED
    BY <1>1, <2>1 DEF BudgetInv
<1>2. CASE EndpointChanges \/ Deleted \/ RefreshFails \/ UNCHANGED vars
  BY <1>1, <1>2 DEF EndpointChanges, Deleted, RefreshFails, vars
<1>3. CASE Refresh
  <2>1. UNCHANGED <<errorCount, timer, failing, spent>>
        /\ (pc' = pc \/ (pc = "none" /\ pc' = "starting"))
    BY <1>3 DEF Refresh
  <2>2. CASE pc' = pc
    BY <1>1, <2>1, <2>2
  <2>3. CASE pc = "none" /\ pc' = "starting"
    BY <2>1, <2>3 DEF BudgetInv
  <2> QED
    BY <2>1, <2>2, <2>3
<1>4. CASE NewCollectorReturns
  <2>1. pc = "starting" /\ pc' = "waiting" /\ timer' = 0 /\ errorCount' = 0
        /\ failing' = failing /\ spent' = spent
    BY <1>4 DEF NewCollectorReturns
  <2> QED
    BY <2>1 DEF BudgetInv
<1>5. CASE NewCollectorFails \/ SelectDone
  BY <1>5, EndsKeepsBudget DEF NewCollectorFails, SelectDone
<1>6. CASE SelectCollect
  <2>1. /\ pc = "waiting" /\ timer = 0 /\ pc' = "collecting"
        /\ timer' = CollectorTimeout + Overrun /\ UNCHANGED <<errorCount, failing, spent>>
    BY <1>6 DEF SelectCollect
  <2>2. /\ CollectorTimeout \in Nat /\ Overrun \in Nat /\ spent \in Nat
        /\ Budget(errorCount) \in Nat
    BY WorkerAssumption, BudgetGrows DEF BudgetInv
  <2>3. spent <= Budget(errorCount)
    <3>1. CASE errorCount = 0
      BY <2>1, <2>2, <3>1 DEF BudgetInv
    <3>2. CASE errorCount > 0
      BY <2>1, <2>2, <3>2 DEF BudgetInv
    <3> QED
      BY <3>1, <3>2 DEF BudgetInv
  <2>4. Budget(errorCount') = Budget(errorCount)
    BY <2>1
  <2>5. spent' + timer' <= Budget(errorCount') + CollectorTimeout + Overrun
    BY <2>1, <2>2, <2>3, <2>4
  <2> QED
    BY <2>1, <2>2, <2>5 DEF BudgetInv
<1>7. CASE CollectReturns
  <2>1. /\ pc' = "waiting" /\ errorCount' = 0 /\ failing' = FALSE /\ spent' = 0
        /\ timer' = CollectInterval * 1000 /\ MaxRetries \in Nat /\ CollectInterval \in Nat
    BY <1>7, WorkerAssumption DEF CollectReturns
  <2>2. timer' \in Nat
    BY <2>1
  <2> QED
    BY <2>1, <2>2 DEF BudgetInv
<1>8. CASE CollectFails
  BY <1>8, RetryKeepsBudget, EndsKeepsBudget DEF CollectFails, GiveUp
<1>9. CASE Tick
  BY <1>9, TickKeepsBudget
<1> QED
  BY <1>2, <1>3, <1>4, <1>5, <1>6, <1>7, <1>8, <1>9 DEF Next

\* A worker within its budget has not failed for longer than it may.
LEMMA BudgetInTime == BudgetInv => GivesUpInTime
<1> SUFFICES ASSUME BudgetInv PROVE spent <= GiveUpTime
  BY DEF GivesUpInTime
<1>1. /\ MaxRetries \in Nat /\ CollectorTimeout \in Nat /\ Overrun \in Nat
      /\ errorCount \in Nat /\ errorCount <= MaxRetries /\ spent \in Nat /\ timer \in Nat
  BY WorkerAssumption DEF BudgetInv
<1>2. /\ Budget(errorCount) <= Budget(MaxRetries)
      /\ Budget(errorCount) \in Nat /\ Budget(MaxRetries) \in Nat
  BY <1>1, BudgetMonotone, BudgetGrows
<1>3. GiveUpTime = Budget(MaxRetries) + (CollectorTimeout + Overrun)
  <2> DEFINE q == ((Power4[MaxRetries + 1] - 4) \div 3) * RetryInterval
             c == CollectorTimeout + Overrun
  <2>1. c \in Nat /\ MaxRetries * c \in Nat /\ (MaxRetries + 1) * c = MaxRetries * c + c
    BY <1>1
  <2>2. q \in Nat
    BY <1>1, SumOfPowers, WorkerAssumption
  <2>3. Budget(MaxRetries) = q + MaxRetries * c /\ GiveUpTime = q + (MaxRetries + 1) * c
    BY DEF Budget, GiveUpTime, RetryTime
  <2> HIDE DEF q
  <2> QED
    BY <2>1, <2>2, <2>3
<1>4. spent <= Budget(errorCount) + CollectorTimeout + Overrun
  <2>1. CASE spent = 0
    BY <1>1, <1>2, <2>1
  <2>2. CASE spent # 0
    <3>1. (pc = "waiting" /\ errorCount > 0) \/ pc = "collecting"
      BY <1>1, <2>2 DEF BudgetInv
    <3> QED
      BY <3>1, <1>1, <1>2 DEF BudgetInv
  <2> QED
    BY <2>1, <2>2
<1> QED
  BY <1>1, <1>2, <1>3, <1>4

\* A worker that only fails ends in time: for every retry and timeout setting,
\* and every number of retries.
THEOREM GivesUpInTimeHolds == Spec => []GivesUpInTime
<1>1. Init => BudgetInv
  <2> SUFFICES ASSUME Init PROVE BudgetInv
    OBVIOUS
  <2>1. pc = "none" /\ errorCount = 0 /\ timer = 0 /\ failing = FALSE /\ spent = 0
        /\ MaxRetries \in Nat
    BY WorkerAssumption DEF Init
  <2> QED
    BY <2>1 DEF BudgetInv
<1> QED
  BY <1>1, BudgetInTime, StepKeepsBudget, PTL DEF Spec

-----------------------------------------------------------------------------
(* How long a worker does not give up *)

\* The waits before the first e retries together.
Waits(e) == ((Power4[e + 1] - 4) \div 3) * RetryInterval

\* An error adds the wait that follows it.
LEMMA WaitsGrow ==
    /\ Waits(0) = 0
    /\ \A e \in Nat :
          /\ Waits(e) \in Nat /\ Power4[e + 1] * RetryInterval \in Nat
          /\ Waits(e + 1) = Waits(e) + Power4[e + 1] * RetryInterval
<1>1. RetryInterval \in Nat
  BY WorkerAssumption
<1>2. Waits(0) = 0
  <2>1. Power4[0 + 1] = 4
    BY Power4Equation
  <2>2. (4 - 4) \div 3 = 0
    OBVIOUS
  <2> QED
    BY <1>1, <2>1, <2>2 DEF Waits
<1>3. ASSUME NEW e \in Nat
      PROVE  /\ Waits(e) \in Nat /\ Power4[e + 1] * RetryInterval \in Nat
             /\ Waits(e + 1) = Waits(e) + Power4[e + 1] * RetryInterval
  <2> DEFINE q == (Power4[e + 1] - 4) \div 3
             p == Power4[e + 1]
             r == (Power4[e + 2] - 4) \div 3
  <2>1. q \in Nat /\ p \in Nat /\ r = q + p
    BY SumOfPowers, Power4Equation
  <2>2. (e + 1) + 1 = e + 2
    OBVIOUS
  <2>3. Waits(e) = q * RetryInterval
    BY DEF Waits
  <2>4. Waits(e + 1) = r * RetryInterval
    BY <2>2 DEF Waits
  <2>5. p = Power4[e + 1]
    OBVIOUS
  <2> HIDE DEF q, p, r
  <2>6. q * RetryInterval \in Nat /\ p * RetryInterval \in Nat
    BY <1>1, <2>1
  <2>7. (q + p) * RetryInterval = q * RetryInterval + p * RetryInterval
    BY <1>1, <2>1
  <2> QED
    BY <2>1, <2>3, <2>4, <2>5, <2>6, <2>7
<1> QED
  BY <1>2, <1>3

\* A worker that fails has spent its waits so far, but for what is left on its
\* timer. BudgetInv has no such bound from below.
PatienceInv ==
    /\ pc = "waiting" /\ errorCount > 0 => Waits(errorCount) <= spent + timer
    /\ pc = "collecting" => Waits(errorCount) <= spent

\* No time gets lost between the timer and what is spent.
LEMMA TickKeepsPatience ==
    ASSUME BudgetInv, PatienceInv, Tick
    PROVE  PatienceInv'
<1>1. pc' = pc /\ errorCount' = errorCount /\ Step \in Nat
  BY WorkerAssumption DEF Tick
<1>2. /\ errorCount \in Nat /\ timer \in Nat /\ spent \in Nat
      /\ Waits(errorCount) \in Nat /\ Waits(errorCount') = Waits(errorCount)
  BY <1>1, WorkerAssumption, WaitsGrow DEF BudgetInv
<1>3. ASSUME pc = "collecting" \/ (pc = "waiting" /\ errorCount > 0)
      PROVE  timer' = timer - Step /\ spent' = spent + Step
  <2>1. spent <= GiveUpTime
    BY <1>3, BudgetInTime DEF GivesUpInTime
  <2>2. pc = "collecting" \/ failing
    BY <1>3, <1>2 DEF BudgetInv
  <2> QED
    BY <1>3, <2>1, <2>2 DEF Tick
<1>4. ASSUME pc = "waiting", errorCount > 0
      PROVE  Waits(errorCount) <= spent' + timer'
  <2>1. Waits(errorCount) <= spent + timer
    BY <1>4 DEF PatienceInv
  <2> QED
    BY <1>1, <1>2, <1>3, <1>4, <2>1
<1>5. ASSUME pc = "collecting" PROVE Waits(errorCount) <= spent'
  <2>1. Waits(errorCount) <= spent
    BY <1>5 DEF PatienceInv
  <2> QED
    BY <1>1, <1>2, <1>3, <1>5, <2>1
<1> QED
  BY <1>1, <1>2, <1>4, <1>5 DEF PatienceInv

\* No step of the worker shortens its waits, and a success starts them anew.
LEMMA StepKeepsPatience == BudgetInv /\ PatienceInv /\ [Next]_vars => PatienceInv'
<1> SUFFICES ASSUME BudgetInv, PatienceInv, [Next]_vars PROVE PatienceInv'
  OBVIOUS
<1>1. /\ errorCount \in Nat /\ timer \in Nat /\ spent \in Nat
      /\ Waits(errorCount) \in Nat /\ Waits(0) = 0
  BY WorkerAssumption, WaitsGrow DEF BudgetInv
<1>2. CASE UNCHANGED <<pc, errorCount, timer, spent>>
  <2>1. Waits(errorCount') = Waits(errorCount)
    BY <1>2
  <2> QED
    BY <1>2, <2>1 DEF PatienceInv
<1>3. CASE pc' \in {"none", "starting"}
  BY <1>3 DEF PatienceInv
<1>4. CASE pc' = "waiting" /\ errorCount' = 0
  BY <1>4 DEF PatienceInv
<1>5. CASE SelectCollect
  <2>1. /\ pc = "waiting" /\ timer = 0 /\ pc' = "collecting"
        /\ UNCHANGED <<errorCount, spent>>
    BY <1>5 DEF SelectCollect
  <2>2. Waits(errorCount) <= spent
    <3>1. CASE errorCount = 0
      BY <1>1, <3>1
    <3>2. CASE errorCount > 0
      BY <1>1, <2>1, <3>2 DEF PatienceInv
    <3> QED
      BY <1>1, <3>1, <3>2
  <2>3. Waits(errorCount') = Waits(errorCount)
    BY <2>1
  <2> QED
    BY <2>1, <2>2, <2>3 DEF PatienceInv
<1>6. CASE pc = "collecting" /\ Retry
  <2>1. /\ pc' = "waiting" /\ errorCount' = errorCount + 1 /\ spent' = spent
        /\ timer' = Power4[errorCount + 1] * RetryInterval
    BY <1>6 DEF Retry
  <2>2. timer' \in Nat /\ Waits(errorCount + 1) = Waits(errorCount) + timer'
    BY <1>1, <2>1, WaitsGrow
  <2>3. Waits(errorCount) <= spent
    BY <1>6 DEF PatienceInv
  <2>4. Waits(errorCount') <= spent' + timer'
    <3>1. Waits(errorCount') = Waits(errorCount + 1)
      BY <2>1
    <3> QED
      BY <1>1, <2>1, <2>2, <2>3, <3>1
  <2> QED
    BY <2>1, <2>4 DEF PatienceInv
<1>7. CASE Tick
  BY <1>7, TickKeepsPatience
<1>8. \/ UNCHANGED <<pc, errorCount, timer, spent>> \/ pc' \in {"none", "starting"}
      \/ pc' = "waiting" /\ errorCount' = 0
      \/ SelectCollect \/ (pc = "collecting" /\ Retry) \/ Tick
  BY DEF Next, vars, EndpointChanges, Deleted, RefreshFails, Refresh, Ends,
         NewCollectorReturns, NewCollectorFails, SelectDone, CollectReturns,
         CollectFails, GiveUp
<1> QED
  BY <1>2, <1>3, <1>4, <1>5, <1>6, <1>7, <1>8

\* A worker never gives up before it has failed for all its waits since its last
\* success: for every retry setting, and every number of retries.
THEOREM NoEarlyGiveUpHolds == Spec => NoEarlyGiveUp
<1>1. Init => BudgetInv /\ PatienceInv
  <2> SUFFICES ASSUME Init PROVE BudgetInv /\ PatienceInv
    OBVIOUS
  <2>1. pc = "none" /\ errorCount = 0 /\ timer = 0 /\ failing = FALSE /\ spent = 0
        /\ MaxRetries \in Nat
    BY WorkerAssumption DEF Init
  <2> QED
    BY <2>1 DEF BudgetInv, PatienceInv
<1>2. BudgetInv /\ PatienceInv /\ [Next]_vars
        => [pc = "collecting" /\ pc' = "none" => spent >= RetryTime]_vars
  <2> SUFFICES ASSUME BudgetInv, PatienceInv, Next, pc = "collecting", pc' = "none"
               PROVE  spent >= RetryTime
    OBVIOUS
  <2>1. errorCount + 1 > MaxRetries
    BY DEF Next, EndpointChanges, Deleted, RefreshFails, Refresh, NewCollectorReturns,
           NewCollectorFails, SelectCollect, SelectDone, CollectReturns, CollectFails,
           Retry, GiveUp, Tick
  <2>2. errorCount = MaxRetries
    BY <2>1, WorkerAssumption DEF BudgetInv
  <2>3. Waits(MaxRetries) <= spent
    BY <2>2 DEF PatienceInv
  <2>4. RetryTime = Waits(MaxRetries)
    BY DEF RetryTime, Waits
  <2>5. spent \in Nat /\ Waits(MaxRetries) \in Nat
    BY WorkerAssumption, WaitsGrow DEF BudgetInv
  <2> QED
    BY <2>3, <2>4, <2>5
<1> QED
  BY <1>1, <1>2, StepKeepsBudget, StepKeepsPatience, PTL DEF Spec, NoEarlyGiveUp

-----------------------------------------------------------------------------
(* Types *)

\* What RDS keeps true of the databases: their shape, and that an identifier is
\* of one of them only.
DatabasesInv ==
    /\ \A db \in dbs :
          /\ db = [DBInstanceIdentifier |-> db.DBInstanceIdentifier,
                   Engine |-> db.Engine, Endpoint |-> db.Endpoint]
          /\ db.Engine \in {"postgres", "mysql", "other"}
    /\ \A db, other \in dbs :
          other.DBInstanceIdentifier = db.DBInstanceIdentifier => other = db

\* The details are those of one database.
DetailsInv ==
    IF pc \in {"waiting", "collecting"} THEN \E d : details = {d} ELSE details = {}

\* The timer of the refresh and the worker's context.
RefreshInv ==
    refresh \in 0..(InstanceRefreshInterval * 1000) /\ cancelled \in BOOLEAN

\* A database that moves keeps its identifier and its engine.
LEMMA DatabasesKept == DatabasesInv /\ [Next]_vars => DatabasesInv'
<1> SUFFICES ASSUME DatabasesInv, [Next]_vars PROVE DatabasesInv'
  OBVIOUS
<1>1. CASE dbs' \subseteq dbs
  BY <1>1 DEF DatabasesInv
<1>2. CASE EndpointChanges
  <2>1. PICK h \in Hosts :
           dbs' = (dbs \ {Own}) \cup {[Own EXCEPT !.Endpoint = Endpoint(own, h)]}
    BY <1>2 DEF EndpointChanges
  <2>2. Own \in dbs /\ Own.DBInstanceIdentifier = own
    BY <1>2 DEF EndpointChanges, Exists, Describe, Own
  <2> DEFINE new == [Own EXCEPT !.Endpoint = Endpoint(own, h)]
  <2>3. /\ new = [DBInstanceIdentifier |-> own, Engine |-> Own.Engine,
                  Endpoint |-> Endpoint(own, h)]
        /\ Own.Engine \in {"postgres", "mysql", "other"}
    BY <2>2 DEF DatabasesInv
  <2>4. \A db \in dbs' : (db \in dbs /\ db # Own) \/ db = new
    BY <2>1
  <2> HIDE DEF new
  <2>5. /\ new = [DBInstanceIdentifier |-> new.DBInstanceIdentifier,
                  Engine |-> new.Engine, Endpoint |-> new.Endpoint]
        /\ new.Engine \in {"postgres", "mysql", "other"}
        /\ new.DBInstanceIdentifier = own
    BY <2>3
  <2>6. \A db \in dbs : db # Own => db.DBInstanceIdentifier # own
    BY <2>2 DEF DatabasesInv
  <2>7. \A db, other \in dbs' :
           other.DBInstanceIdentifier = db.DBInstanceIdentifier => other = db
    BY <2>4, <2>5, <2>6 DEF DatabasesInv
  <2> QED
    BY <2>4, <2>5, <2>7 DEF DatabasesInv
<1>3. dbs' \subseteq dbs \/ EndpointChanges
  BY DEF Next, vars, Deleted, RefreshFails, Refresh, NewCollectorReturns,
         NewCollectorFails, Ends, SelectCollect, SelectDone, CollectReturns,
         CollectFails, Retry, GiveUp, Tick
<1> QED
  BY <1>1, <1>2, <1>3

\* A worker gets its details with its collector, and loses them with it.
LEMMA DetailsKept == DatabasesInv /\ DetailsInv /\ [Next]_vars => DetailsInv'
<1> SUFFICES ASSUME DatabasesInv, DetailsInv, [Next]_vars PROVE DetailsInv'
  OBVIOUS
<1>1. ASSUME Ends PROVE DetailsInv'
  BY <1>1 DEF Ends, DetailsInv
<1>2. ASSUME details' = details,
             pc' \in {"waiting", "collecting"} <=> pc \in {"waiting", "collecting"}
      PROVE  DetailsInv'
  BY <1>2 DEF DetailsInv
<1>3. CASE EndpointChanges \/ Deleted \/ RefreshFails \/ Tick \/ UNCHANGED vars
  BY <1>2, <1>3 DEF EndpointChanges, Deleted, RefreshFails, Tick, vars
<1>4. CASE Refresh
  BY <1>2, <1>4 DEF Refresh
<1>5. CASE NewCollectorReturns
  <2>1. /\ details' = GetInstanceConnectionDetails(dbs, info) /\ details' # {}
        /\ pc' = "waiting"
    BY <1>5 DEF NewCollectorReturns
  <2>2. PICK d : d \in details'
    BY <2>1
  <2>3. \A e \in details' : \E db \in dbs :
           /\ db.DBInstanceIdentifier = DbInstanceIdentifier(info.GUID)
           /\ e = [DBAddress |-> db.Endpoint]
    BY <2>1 DEF GetInstanceConnectionDetails, Describe
  <2>4. \A e \in details' : e = d
    BY <2>2, <2>3 DEF DatabasesInv
  <2>5. details' = {d}
    BY <2>2, <2>4
  <2> QED
    BY <2>1, <2>5 DEF DetailsInv
<1>6. CASE NewCollectorFails \/ SelectDone
  BY <1>1, <1>6 DEF NewCollectorFails, SelectDone
<1>7. CASE SelectCollect \/ CollectReturns
  BY <1>2, <1>7 DEF SelectCollect, CollectReturns
<1>8. CASE CollectFails
  BY <1>1, <1>2, <1>8 DEF CollectFails, Retry, GiveUp
<1> QED
  BY <1>3, <1>4, <1>5, <1>6, <1>7, <1>8 DEF Next

\* The refresh is never later than its interval.
LEMMA RefreshKept == RefreshInv /\ [Next]_vars => RefreshInv'
<1> SUFFICES ASSUME RefreshInv, [Next]_vars PROVE RefreshInv'
  OBVIOUS
<1>1. InstanceRefreshInterval * 1000 \in Nat
  BY WorkerAssumption
<1>2. CASE UNCHANGED <<refresh, cancelled>>
  BY <1>2 DEF RefreshInv
<1>3. CASE RefreshFails
  BY <1>1, <1>3 DEF RefreshFails, RefreshInv
<1>4. CASE Refresh
  <2>1. cancelled' \in BOOLEAN
    BY <1>4 DEF Refresh
  <2> QED
    BY <1>1, <1>4, <2>1 DEF Refresh, RefreshInv
<1>5. CASE Ends
  BY <1>5, Zenon DEF Ends, RefreshInv
<1>6. CASE Tick
  <2>1. /\ refresh' = IF Step <= refresh THEN refresh - Step ELSE 0
        /\ cancelled' = cancelled /\ Step \in Nat
    BY <1>6, WorkerAssumption DEF Tick
  <2>2. refresh' \in 0..(InstanceRefreshInterval * 1000)
    BY <1>1, <2>1 DEF RefreshInv
  <2> QED
    BY <2>1, <2>2 DEF RefreshInv
<1>7. UNCHANGED <<refresh, cancelled>> \/ RefreshFails \/ Refresh \/ Ends \/ Tick
  BY DEF Next, vars, EndpointChanges, Deleted, NewCollectorReturns, NewCollectorFails,
         SelectCollect, SelectDone, CollectReturns, CollectFails, Retry, GiveUp
<1> QED
  BY <1>2, <1>3, <1>4, <1>5, <1>6, <1>7

\* The types hold: above all, a worker never has more errors than retries, and
\* has the details of exactly one database while it has a collector.
THEOREM WorkerTypes == Spec => []TypeOK
<1> DEFINE Inv == BudgetInv /\ DatabasesInv /\ DetailsInv /\ RefreshInv
<1>1. Init => Inv
  <2> SUFFICES ASSUME Init PROVE Inv
    OBVIOUS
  <2>1. BudgetInv
    <3>1. pc = "none" /\ errorCount = 0 /\ timer = 0 /\ failing = FALSE /\ spent = 0
        /\ MaxRetries \in Nat
      BY WorkerAssumption DEF Init
    <3> QED
      BY <3>1 DEF BudgetInv
  <2>2. DatabasesInv
    BY DatabaseAssumption, Zenon DEF Init, DatabasesInv
  <2>3. DetailsInv
    BY DEF Init, DetailsInv
  <2>4. RefreshInv
    <3>1. InstanceRefreshInterval * 1000 \in Nat
      BY WorkerAssumption
    <3>2. 0 \in 0..(InstanceRefreshInterval * 1000)
      BY <3>1
    <3>3. refresh = 0 /\ cancelled \in BOOLEAN
      BY Zenon DEF Init
    <3> QED
      BY <3>2, <3>3 DEF RefreshInv
  <2> QED
    BY <2>1, <2>2, <2>3, <2>4
<1>2. Inv /\ [Next]_vars => Inv'
  BY StepKeepsBudget, DatabasesKept, DetailsKept, RefreshKept
<1>3. Inv => TypeOK
  <2> SUFFICES ASSUME Inv PROVE TypeOK
    OBVIOUS
  <2>1. Cardinality(details) = IF pc \in {"waiting", "collecting"} THEN 1 ELSE 0
    BY FS_EmptySet, FS_Singleton DEF DetailsInv
  <2> QED
    BY <2>1 DEF TypeOK, BudgetInv, DatabasesInv, RefreshInv
<1> QED
  BY <1>1, <1>2, <1>3, PTL DEF Spec
-----------------------------------------------------------------------------
(* What is listed *)

\* The GUIDs that ListInstances makes tell the databases apart, although the
\* conversion trims and replaces.
LEMMA GUIDsDiffer ==
    ASSUME NEW d \in Databases, NEW e \in Databases,
           DbInstanceIdentifierToServiceInstanceID(d.DBInstanceIdentifier)
               = DbInstanceIdentifierToServiceInstanceID(e.DBInstanceIdentifier)
    PROVE  d = e
<1>1. ASSUME NEW db \in Databases
      PROVE  DbInstanceIdentifier(DbInstanceIdentifierToServiceInstanceID(
                 db.DBInstanceIdentifier)) = db.DBInstanceIdentifier
  <2>1. /\ db.DBInstanceIdentifier \in Seq(Char)
        /\ HasPrefix(db.DBInstanceIdentifier, Dashed(DBPrefix) \o <<"-">>)
        /\ \A i \in 1..Len(db.DBInstanceIdentifier) : db.DBInstanceIdentifier[i] # "_"
    BY DatabaseAssumption, Zenon
  <2> QED
    BY <2>1, IdentifierRoundTrip, Zenon
<1>2. d.DBInstanceIdentifier = e.DBInstanceIdentifier
  BY <1>1, Zenon
<1> QED
  BY <1>2, DatabaseAssumption, Zenon

\* Databases come and go with the identifier and the engine they were created
\* with, and the instance of the worker was made from one that has metrics.
NamesInv ==
    /\ \A db \in dbs : \E d \in Databases :
          d.DBInstanceIdentifier = db.DBInstanceIdentifier /\ d.Engine = db.Engine
    /\ \E d \in Databases :
          /\ d.DBInstanceIdentifier = own /\ d.Engine \in {"postgres", "mysql"}
          /\ info = [GUID |-> DbInstanceIdentifierToServiceInstanceID(own),
                     Type |-> d.Engine]

\* Only the endpoint of a database changes.
LEMMA NamesKept == DatabasesInv /\ NamesInv /\ [Next]_vars => NamesInv'
<1> SUFFICES ASSUME DatabasesInv, NamesInv, [Next]_vars PROVE NamesInv'
  OBVIOUS
<1>1. UNCHANGED <<own, info>>
  BY DEF Next, vars, EndpointChanges, Deleted, RefreshFails, Refresh,
         NewCollectorReturns, NewCollectorFails, Ends, SelectCollect, SelectDone,
         CollectReturns, CollectFails, Retry, GiveUp, Tick
<1>2. \A db \in dbs' : \E e \in dbs :
         e.DBInstanceIdentifier = db.DBInstanceIdentifier /\ e.Engine = db.Engine
  <2>1. CASE EndpointChanges
    <3>1. PICK h \in Hosts :
             dbs' = (dbs \ {Own}) \cup {[Own EXCEPT !.Endpoint = Endpoint(own, h)]}
      BY <2>1 DEF EndpointChanges
    <3>2. Own \in dbs
      BY <2>1 DEF EndpointChanges, Exists, Describe, Own
    <3> DEFINE new == [Own EXCEPT !.Endpoint = Endpoint(own, h)]
    <3>3. new.DBInstanceIdentifier = Own.DBInstanceIdentifier /\ new.Engine = Own.Engine
      BY <3>2 DEF DatabasesInv
    <3>4. \A db \in dbs' : db \in dbs \/ db = new
      BY <3>1
    <3> HIDE DEF new
    <3> QED
      BY <3>2, <3>3, <3>4
  <2>2. CASE dbs' \subseteq dbs
    BY <2>2
  <2>3. dbs' \subseteq dbs \/ EndpointChanges
    BY DEF Next, vars, Deleted, RefreshFails, Refresh, NewCollectorReturns,
           NewCollectorFails, Ends, SelectCollect, SelectDone, CollectReturns,
           CollectFails, Retry, GiveUp, Tick
  <2> QED
    BY <2>1, <2>2, <2>3
<1>3. \A db \in dbs' : \E d \in Databases :
         d.DBInstanceIdentifier = db.DBInstanceIdentifier /\ d.Engine = db.Engine
  BY <1>2 DEF NamesInv
<1> QED
  BY <1>1, <1>3 DEF NamesInv

\* A refresh finds the instance of the worker among those listed exactly while
\* its database exists: no other database of the broker can stand in for it,
\* and none can hide it.
ListedWhileItExists == info \in ListInstances(dbs) <=> Exists

\* The listing and the existence of the database agree in every state that
\* satisfies the invariants on names.
LEMMA NamesAreListed == DatabasesInv /\ NamesInv => ListedWhileItExists
<1> SUFFICES ASSUME DatabasesInv, NamesInv PROVE ListedWhileItExists
  OBVIOUS
<1>1. PICK d \in Databases :
         /\ d.DBInstanceIdentifier = own /\ d.Engine \in {"postgres", "mysql"}
         /\ info = [GUID |-> DbInstanceIdentifierToServiceInstanceID(own),
                    Type |-> d.Engine]
  BY DEF NamesInv
<1>2. ASSUME NEW db \in dbs,
             info.GUID = DbInstanceIdentifierToServiceInstanceID(db.DBInstanceIdentifier)
      PROVE  db.DBInstanceIdentifier = own
  <2>1. PICK e \in Databases : e.DBInstanceIdentifier = db.DBInstanceIdentifier
    BY <1>2 DEF NamesInv
  <2>2. DbInstanceIdentifierToServiceInstanceID(d.DBInstanceIdentifier)
          = DbInstanceIdentifierToServiceInstanceID(e.DBInstanceIdentifier)
    BY <1>1, <1>2, <2>1
  <2>3. d = e
    BY <2>2, GUIDsDiffer, Zenon
  <2> QED
    BY <1>1, <2>1, <2>3
<1>3. ASSUME info \in ListInstances(dbs) PROVE Exists
  <2>1. PICK db \in dbs :
           info = [GUID |-> DbInstanceIdentifierToServiceInstanceID(db.DBInstanceIdentifier),
                   Type |-> db.Engine]
    BY <1>3 DEF ListInstances
  <2>2. info.GUID = DbInstanceIdentifierToServiceInstanceID(db.DBInstanceIdentifier)
    BY <2>1
  <2> QED
    BY <1>2, <2>2 DEF Exists, Describe
<1>4. ASSUME Exists PROVE info \in ListInstances(dbs)
  <2>1. PICK db \in dbs : db.DBInstanceIdentifier = own
    BY <1>4 DEF Exists, Describe
  <2>2. PICK e \in Databases :
           e.DBInstanceIdentifier = db.DBInstanceIdentifier /\ e.Engine = db.Engine
    BY <2>1 DEF NamesInv
  <2>3. d = e
    BY <1>1, <2>1, <2>2, DatabaseAssumption, Zenon
  <2> QED
    BY <1>1, <2>1, <2>2, <2>3 DEF ListInstances
<1> QED
  BY <1>3, <1>4 DEF ListedWhileItExists

\* The refresh sees a worker's instance exactly while its database exists, for
\* every prefix and every set of databases.
THEOREM ListedWhileItExistsHolds == Spec => []ListedWhileItExists
<1>1. Init => DatabasesInv /\ NamesInv
  <2> SUFFICES ASSUME Init PROVE DatabasesInv /\ NamesInv
    OBVIOUS
  <2>1. DatabasesInv
    BY DatabaseAssumption, Zenon DEF Init, DatabasesInv
  <2>2. PICK db \in Databases : own = db.DBInstanceIdentifier /\ info \in ListInstances({db})
    BY DEF Init
  <2>3. /\ db.Engine \in {"postgres", "mysql"}
        /\ info = [GUID |-> DbInstanceIdentifierToServiceInstanceID(own), Type |-> db.Engine]
    BY <2>2 DEF ListInstances
  <2>4. dbs = Databases
    BY DEF Init
  <2> QED
    BY <2>1, <2>2, <2>3, <2>4, Zenon DEF NamesInv
<1> QED
  BY <1>1, DatabasesKept, NamesKept, NamesAreListed, PTL DEF Spec

\* A database that is deleted stays deleted, and a worker that has ended is not
\* started for it again by any refresh.
DeletedStaysAway ==
    [][~Exists => ~Exists' /\ (pc = "none" => pc' = "none")]_vars

\* The safety half of DeletedLosesWorker, for every set of databases.
THEOREM DeletedStaysAwayHolds == Spec => DeletedStaysAway
<1>1. ListedWhileItExists /\ [Next]_vars
        => [~Exists => ~Exists' /\ (pc = "none" => pc' = "none")]_vars
  <2> SUFFICES ASSUME ListedWhileItExists, Next, ~Exists
               PROVE  ~Exists' /\ (pc = "none" => pc' = "none")
    OBVIOUS
  <2>1. ~EndpointChanges
    BY DEF EndpointChanges
  <2>2. dbs' \subseteq dbs /\ own' = own
    BY <2>1 DEF Next, Deleted, RefreshFails, Refresh, NewCollectorReturns,
           NewCollectorFails, Ends, SelectCollect, SelectDone, CollectReturns,
           CollectFails, Retry, GiveUp, Tick
  <2>3. ~Exists'
    BY <2>2 DEF Exists, Describe
  <2>4. CASE Refresh
    BY <2>3, <2>4 DEF Refresh, ListedWhileItExists
  <2>5. CASE ~Refresh
    BY <2>1, <2>3, <2>5 DEF Next, Deleted, RefreshFails, NewCollectorReturns,
           NewCollectorFails, Ends, SelectCollect, SelectDone, CollectReturns,
           CollectFails, Retry, GiveUp, Tick
  <2> QED
    BY <2>4, <2>5
<1> QED
  BY <1>1, ListedWhileItExistsHolds, PTL DEF Spec, DeletedStaysAway
=============================================================================
