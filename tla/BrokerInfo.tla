----------------------------- MODULE BrokerInfo -----------------------------
(***************************************************************************)
(* pkg/brokerinfo/rdsbrokerinfo.go: the service instances among the        *)
(* databases of a broker, the conversion between the GUID of a service     *)
(* instance and the identifier of its database, and connection details.    *)
(*                                                                         *)
(* Names are sequences of characters, because the conversion works on      *)
(* them. A database of RDS is a record with its identifier, its engine and *)
(* its endpoint, which is Nil until the database was created.              *)
(***************************************************************************)
EXTENDS Integers, Sequences

CONSTANTS
    Char,         \* the characters of names
    DBPrefix

\* A nil pointer in an answer of RDS, and the empty value that stringValue and
\* getEndpointAddress make of it.
Nil == << >>

\* strings.Replace(s, "_", "-", -1)
Dashed(s) == [i \in 1..Len(s) |-> IF s[i] = "_" THEN "-" ELSE s[i]]

DbInstanceIdentifier(guid) == Dashed(DBPrefix) \o <<"-">> \o Dashed(guid)

HasPrefix(s, prefix) ==
    Len(prefix) <= Len(s) /\ SubSeq(s, 1, Len(prefix)) = prefix

TrimPrefix(s, prefix) ==
    IF HasPrefix(s, prefix) THEN SubSeq(s, Len(prefix) + 1, Len(s)) ELSE s

\* Mutant of DbInstanceIdentifierToServiceInstanceID: the prefix is taken as it
\* is configured.
DbInstanceIdentifierToServiceInstanceID_Raw(id) ==
    TrimPrefix(id, DBPrefix \o <<"-">>)

DbInstanceIdentifierToServiceInstanceID(id) ==
    TrimPrefix(id, Dashed(DBPrefix) \o <<"-">>)

\* What ListInstances makes of the databases with the tag of the broker.
ListInstances(dbs) ==
    {[GUID |-> DbInstanceIdentifierToServiceInstanceID(db.DBInstanceIdentifier),
      Type |-> db.Engine] : db \in {d \in dbs : d.Engine \in {"postgres", "mysql"}}}

\* The databases that RDS describes for an identifier: one, or an error.
Describe(dbs, id) == {db \in dbs : db.DBInstanceIdentifier = id}

\* The connection details of an instance, of which the address is kept. The
\* result is a set: empty for an error. A database without an endpoint gives an
\* empty address and no error.
GetInstanceConnectionDetails(dbs, info) ==
    IF info.Type \in {"postgres", "mysql"}
    THEN {[DBAddress |-> db.Endpoint] : db \in Describe(dbs, DbInstanceIdentifier(info.GUID))}
    ELSE {}
=============================================================================
