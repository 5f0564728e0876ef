---------------------------- MODULE Tenancy_proofs ----------------------------
(***************************************************************************)
(* Proofs about Tenancy for any pool, any requests and any number of       *)
(* sessions.  The inductive invariant says of each session, by how far it  *)
(* is, whether it has a connection, what is set on that connection and     *)
(* what is known of its key.                                               *)
(***************************************************************************)
EXTENDS Tenancy, TLAPS

Status == {0, 200, 401, 404}
Place == {"idle", "auth", "lookup", "begin", "set", "query", "commit", "health",
          "ping", "answered"}

Types ==
    /\ idle \subseteq Conn
    /\ conn \in [Session -> Conn \cup {NoConn}]
    /\ setting \in [Conn -> [customer : Customer \cup {NoCustomer}, ops : BOOLEAN]]
    /\ revoked \subseteq Key
    /\ pc \in [Session -> Place]
    /\ req \in [Session -> Request \cup {NoRequest}]
    /\ late \in [Session -> BOOLEAN]
    /\ answer \in [Session -> [status : Status, rows : SUBSET Row]]

\* Who has a connection has it alone.
Exclusive ==
    /\ \A p \in Session :
          conn[p] \in Conn <=> pc[p] \in {"lookup", "set", "query", "commit", "ping"}
    /\ \A p \in Session : conn[p] \notin idle
    /\ \A p, q \in Session : conn[p] = conn[q] /\ conn[p] \in Conn => p = q

SettingFor(r) == IF r.route = "customer"
                 THEN [customer |-> OwnerOf[r.token], ops |-> FALSE]
                 ELSE [customer |-> NoCustomer, ops |-> TRUE]

\* A setting is there from SetConfig to the end of the transaction.
Settings ==
    /\ \A c \in idle : setting[c] = NoSetting
    /\ \A p \in Session : pc[p] \in {"lookup", "set", "ping"} => setting[conn[p]] = NoSetting
    /\ \A p \in Session : pc[p] \in {"query", "commit"} => setting[conn[p]] = SettingFor(req[p])

Right(a, r) == /\ a.rows = Entitled(r) \cap Wanted(r)
               /\ a.status = 404 <=> a.rows = {} /\ r.want # All

Authorised(p) == /\ req[p].route \in {"customer", "ops"}
                 /\ req[p].route = "customer" => req[p].token \in Key
                 /\ ~late[p]

Serving ==
    \A p \in Session :
        /\ pc[p] \notin {"idle", "health", "ping"} => req[p] \in Request
        /\ pc[p] \in {"auth", "lookup"} =>
              /\ req[p].route = "customer"
              /\ late[p] => req[p].token \in revoked
        /\ pc[p] \in {"begin", "set", "query", "commit"} => Authorised(p)
        /\ pc[p] = "commit" => Right(answer[p], req[p])
        /\ pc[p] = "answered" =>
              answer[p] = Unauthorized \/ (Right(answer[p], req[p]) /\ ~late[p])

IInv == Types /\ Exclusive /\ Settings /\ Serving

(* The invariant holds initially. *)
LEMMA InitInv == Init => IInv
  BY NoneAssumption
     DEF Init, IInv, Types, Exclusive, Settings, Serving, Place, Status, NoSetting,
         NoRequest, NoAnswer

(* A request arrives with the key it was sent with. *)
LEMMA ArriveInv ==
    ASSUME IInv, NEW p \in Session, NEW r \in Request, Arrive(p, r)
    PROVE  IInv'
<1> USE NoneAssumption, KeyAssumption, RequestAssumption, OpsTokenAssumption
    DEF IInv, Arrive, poolVars
<1>1. Types'
  BY DEF Types, Place, Status, NoSetting, NoRequest, NoAnswer, Unauthorized
<1>2. Exclusive'
  BY DEF Types, Exclusive
<1>3. Settings'
  BY DEF Types, Exclusive, Settings, SettingFor, NoSetting
<1>4. Serving'
  <2>1. \A q \in Session : q # p => /\ answer'[q] = answer[q] /\ pc'[q] = pc[q]
                                    /\ req'[q] = req[q] /\ late'[q] = late[q]
    BY DEF Types
  <2>2. req'[p] = r /\ (late'[p] => r.token \in revoked)
    BY DEF Types
  <2>3. /\ pc'[p] \in {"answered", "auth", "health", "begin"}
        /\ pc'[p] = "answered" => answer'[p] = Unauthorized
        /\ pc'[p] = "auth" => r.route = "customer"
        /\ pc'[p] = "begin" => r.route = "ops" /\ r.token = OpsToken
    BY DEF Types
  <2>4. r.token = OpsToken => r.token \notin revoked
    BY DEF Types
  <2>5. revoked' = revoked /\ Serving
    OBVIOUS
  <2> HIDE DEF Arrive, IInv
  <2> SUFFICES ASSUME NEW q \in Session
               PROVE  Serving!(q)'
    BY DEF Serving
  <2>6. CASE q = p
    BY <2>2, <2>3, <2>4, <2>5, <2>6 DEF Authorised
  <2>7. CASE q # p
    BY <2>1, <2>5, <2>7 DEF Serving, Authorised
  <2>8. QED
    BY <2>6, <2>7
<1>5. QED
  BY <1>1, <1>2, <1>3, <1>4

(* The key lookup takes a connection that carries no customer. *)
LEMMA StartLookupInv ==
    ASSUME IInv, NEW p \in Session, StartLookup(p)
    PROVE  IInv'
<1> USE NoneAssumption, KeyAssumption, RequestAssumption, OpsTokenAssumption
    DEF IInv, StartLookup, Acquire, poolVars
<1>1. Types'
  BY DEF Types, Place, Status, NoSetting, NoRequest, NoAnswer, Unauthorized
<1>2. Exclusive'
  BY DEF Types, Exclusive
<1>3. Settings'
  <2>1. PICK c \in idle : idle' = idle \ {c} /\ conn' = [conn EXCEPT ![p] = c]
    OBVIOUS
  <2>2. \A q \in Session : q # p => conn'[q] = conn[q] /\ pc'[q] = pc[q]
    BY <2>1 DEF Types
  <2>3. conn'[p] = c /\ pc'[p] = "lookup" /\ setting[c] = NoSetting
    BY <2>1 DEF Types, Settings
  <2>4. setting' = setting /\ req' = req /\ Settings
    OBVIOUS
  <2> HIDE DEF StartLookup, IInv
  <2>5. QED
    BY <2>4, <2>1, <2>2, <2>3 DEF Settings
<1>4. Serving'
  BY DEF Types, Serving, Authorised, Right, Entitled, Wanted, Unauthorized, NoAnswer
<1>5. QED
  BY <1>1, <1>2, <1>3, <1>4

(* The lookup learns the customer of a live key. *)
LEMMA LookupInv ==
    ASSUME IInv, NEW p \in Session, Lookup(p)
    PROVE  IInv'
<1> USE NoneAssumption, KeyAssumption, RequestAssumption, OpsTokenAssumption
    DEF IInv, Lookup, Release, Accepted, poolVars
<1>1. Types'
  BY DEF Types, Place, Status, NoSetting, NoRequest, NoAnswer, Unauthorized
<1>2. Exclusive'
  BY DEF Types, Exclusive
<1>3. Settings'
  BY DEF Types, Exclusive, Settings, SettingFor, NoSetting
<1>4. Serving'
  <2>1. /\ \A q \in Session : q # p => answer'[q] = answer[q] /\ pc'[q] = pc[q]
        /\ pc'[p] = (IF Accepted(req[p].token) THEN "begin" ELSE "answered")
        /\ ~Accepted(req[p].token) => answer'[p] = Unauthorized
    BY DEF Types
  <2>2. req[p] \in Request /\ req[p].route = "customer" /\ late[p] => req[p].token \in revoked
    BY DEF Serving
  <2>3. req[p] \in Request /\ req[p].route = "customer"
    BY DEF Serving
  <2>4. Accepted(req[p].token) => Authorised(p)
    BY <2>2, <2>3 DEF Authorised
  <2>5. QED
    BY <2>1, <2>3, <2>4 DEF Serving, Authorised
<1>5. QED
  BY <1>1, <1>2, <1>3, <1>4

(* The transaction takes a connection of the pool. *)
LEMMA BeginTxInv ==
    ASSUME IInv, NEW p \in Session, BeginTx(p)
    PROVE  IInv'
<1> USE NoneAssumption, KeyAssumption, RequestAssumption, OpsTokenAssumption
    DEF IInv, BeginTx, Acquire, poolVars
<1>1. Types'
  BY DEF Types, Place, Status, NoSetting, NoRequest, NoAnswer, Unauthorized
<1>2. Exclusive'
  BY DEF Types, Exclusive
<1>3. Settings'
  <2>1. PICK c \in idle : idle' = idle \ {c} /\ conn' = [conn EXCEPT ![p] = c]
    OBVIOUS
  <2>2. \A q \in Session : q # p => conn'[q] = conn[q] /\ pc'[q] = pc[q]
    BY <2>1 DEF Types
  <2>3. conn'[p] = c /\ pc'[p] = "set" /\ setting[c] = NoSetting
    BY <2>1 DEF Types, Settings
  <2>4. setting' = setting /\ req' = req /\ Settings
    OBVIOUS
  <2> HIDE DEF BeginTx, IInv
  <2>5. QED
    BY <2>4, <2>1, <2>2, <2>3 DEF Settings
<1>4. Serving'
  BY DEF Types, Serving, Authorised, Right, Entitled, Wanted, Unauthorized, NoAnswer
<1>5. QED
  BY <1>1, <1>2, <1>3, <1>4

(* The customer is set for the transaction only. *)
LEMMA SetConfigInv ==
    ASSUME IInv, NEW p \in Session, SetConfig(p)
    PROVE  IInv'
<1> USE NoneAssumption, KeyAssumption, RequestAssumption, OpsTokenAssumption
    DEF IInv, SetConfig, poolVars
<1>a. conn[p] \in Conn /\ setting[conn[p]] = NoSetting
  BY DEF Types, Exclusive, Settings
<1>b. req[p].route = "customer" => OwnerOf[req[p].token] \in Customer
  BY DEF Serving, Authorised
<1>c. setting' = [setting EXCEPT ![conn[p]] = SettingFor(req[p])]
  <2>1. (IF req[p].route = "customer"
         THEN [customer |-> OwnerOf[req[p].token], ops |-> setting[conn[p]].ops]
         ELSE [customer |-> setting[conn[p]].customer, ops |-> TRUE]) = SettingFor(req[p])
    BY <1>a DEF SettingFor, NoSetting
  <2>2. QED
    BY <2>1
<1>1. Types'
  <2>1. SettingFor(req[p]) \in [customer : Customer \cup {NoCustomer}, ops : BOOLEAN]
    BY <1>b DEF SettingFor
  <2>2. setting' \in [Conn -> [customer : Customer \cup {NoCustomer}, ops : BOOLEAN]]
    BY <1>c, <2>1 DEF Types
  <2>3. QED
    BY <2>2 DEF Types, Place
<1>2. Exclusive'
  BY DEF Types, Exclusive
<1>3. Settings'
  <2>1. \A c \in Conn : setting'[c] = IF c = conn[p] THEN SettingFor(req[p]) ELSE setting[c]
    BY <1>c DEF Types
  <2>2. \A q \in Session : q # p => pc'[q] = pc[q] /\ (conn[q] \in Conn => conn[q] # conn[p])
    BY DEF Types, Exclusive
  <2>3. pc'[p] = "query"
    BY DEF Types
  <2>4. \A q \in Session : pc[q] \in {"lookup", "set", "query", "commit", "ping"} => conn[q] \in Conn
    BY DEF Exclusive
  <2>5. conn[p] \notin idle
    BY DEF Exclusive
  <2>6. QED
    BY <1>a, <2>1, <2>2, <2>3, <2>4, <2>5 DEF Types, Settings, SettingFor
<1>4. Serving'
  BY DEF Types, Serving, Authorised, Right, Entitled, Wanted, Unauthorized, NoAnswer
<1>5. QED
  BY <1>1, <1>2, <1>3, <1>4

(* The query sees the rows of the customer the transaction has set. *)
LEMMA QueryInv ==
    ASSUME IInv, NEW p \in Session, Query(p)
    PROVE  IInv'
<1> USE NoneAssumption, KeyAssumption, RequestAssumption, OpsTokenAssumption
    DEF IInv, Query, poolVars
<1>1. Types'
  <2>1. Visible(conn[p]) \cap Wanted(req[p]) \subseteq Row
    BY DEF Visible
  <2>2. QED
    BY <2>1 DEF Types, Place, Status
<1>2. Exclusive'
  BY DEF Types, Exclusive
<1>3. Settings'
  BY DEF Types, Exclusive, Settings, SettingFor, NoSetting
<1>4. Serving'
  <2>1. /\ \A q \in Session : q # p => answer'[q] = answer[q] /\ pc'[q] = pc[q]
        /\ pc'[p] = "commit" /\ req[p] \in Request /\ Authorised(p)
    BY DEF Types, Serving
  <2>2. Right(answer'[p], req[p])
    <3>1. conn[p] \in Conn /\ setting[conn[p]] = SettingFor(req[p])
      BY DEF Types, Exclusive, Settings
    <3>2. Visible(conn[p]) = Entitled(req[p])
      BY <2>1, <3>1 DEF Visible, Entitled, SettingFor, Authorised
    <3>3. answer'[p].rows = Visible(conn[p]) \cap Wanted(req[p])
      BY DEF Types
    <3>4. answer'[p].status = IF answer'[p].rows # {} \/ req[p].want = All THEN 200 ELSE 404
      BY <3>3 DEF Types
    <3>5. QED
      BY <3>2, <3>3, <3>4 DEF Right
  <2>3. QED
    BY <2>1, <2>2 DEF Serving, Authorised
<1>5. QED
  BY <1>1, <1>2, <1>3, <1>4

(* The commit clears the customer and returns the connection. *)
LEMMA CommitTxInv ==
    ASSUME IInv, NEW p \in Session, CommitTx(p)
    PROVE  IInv'
<1> USE NoneAssumption, KeyAssumption, RequestAssumption, OpsTokenAssumption
    DEF IInv, CommitTx, Release, EndTx, poolVars
<1>1. Types'
  BY DEF Types, Place, Status, NoSetting, NoRequest, NoAnswer, Unauthorized
<1>2. Exclusive'
  BY DEF Types, Exclusive
<1>3. Settings'
  BY DEF Types, Exclusive, Settings, SettingFor, NoSetting
<1>4. Serving'
  BY DEF Types, Serving, Authorised, Right, Entitled, Wanted, Unauthorized, NoAnswer
<1>5. QED
  BY <1>1, <1>2, <1>3, <1>4

(* A ping takes a connection and sets no customer. *)
LEMMA StartPingInv ==
    ASSUME IInv, NEW p \in Session, StartPing(p)
    PROVE  IInv'
<1> USE NoneAssumption, KeyAssumption, RequestAssumption, OpsTokenAssumption
    DEF IInv, StartPing, Acquire, poolVars
<1>1. Types'
  BY DEF Types, Place, Status, NoSetting, NoRequest, NoAnswer, Unauthorized
<1>2. Exclusive'
  BY DEF Types, Exclusive
<1>3. Settings'
  BY DEF Types, Exclusive, Settings, SettingFor, NoSetting
<1>4. Serving'
  BY DEF Types, Serving, Authorised, Right, Entitled, Wanted, Unauthorized, NoAnswer
<1>5. QED
  BY <1>1, <1>2, <1>3, <1>4

(* A ping gives its connection back. *)
LEMMA PingInv ==
    ASSUME IInv, NEW p \in Session, Ping(p)
    PROVE  IInv'
<1> USE NoneAssumption, KeyAssumption, RequestAssumption, OpsTokenAssumption
    DEF IInv, Ping, Release, poolVars
<1>1. Types'
  BY DEF Types, Place, Status, NoSetting, NoRequest, NoAnswer, Unauthorized
<1>2. Exclusive'
  BY DEF Types, Exclusive
<1>3. Settings'
  BY DEF Types, Exclusive, Settings, SettingFor, NoSetting
<1>4. Serving'
  BY DEF Types, Serving, Authorised, Right, Entitled, Wanted, Unauthorized, NoAnswer
<1>5. QED
  BY <1>1, <1>2, <1>3, <1>4

(* A finished request holds no connection. *)
LEMMA LeaveInv ==
    ASSUME IInv, NEW p \in Session, Leave(p)
    PROVE  IInv'
<1> USE NoneAssumption, KeyAssumption, RequestAssumption, OpsTokenAssumption
    DEF IInv, Leave, poolVars
<1>1. Types'
  BY DEF Types, Place, Status, NoSetting, NoRequest, NoAnswer, Unauthorized
<1>2. Exclusive'
  BY DEF Types, Exclusive
<1>3. Settings'
  BY DEF Types, Exclusive, Settings, SettingFor, NoSetting
<1>4. Serving'
  BY DEF Types, Serving, Authorised, Right, Entitled, Wanted, Unauthorized, NoAnswer
<1>5. QED
  BY <1>1, <1>2, <1>3, <1>4

(* A rollback clears the customer as the commit does. *)
LEMMA AbortInv ==
    ASSUME IInv, NEW p \in Session, Abort(p)
    PROVE  IInv'
<1> USE NoneAssumption, KeyAssumption, RequestAssumption, OpsTokenAssumption
    DEF IInv, Abort, Release, EndTx, poolVars
<1>1. Types'
  BY DEF Types, Place, Status, NoSetting, NoRequest, NoAnswer, Unauthorized
<1>2. Exclusive'
  BY DEF Types, Exclusive
<1>3. Settings'
  BY DEF Types, Exclusive, Settings, SettingFor, NoSetting
<1>4. Serving'
  BY DEF Types, Serving, Authorised, Right, Entitled, Wanted, Unauthorized, NoAnswer
<1>5. QED
  BY <1>1, <1>2, <1>3, <1>4

(* Revoking a key changes no request under way. *)
LEMMA RevokeInv ==
    ASSUME IInv, NEW k \in Key, Revoke(k)
    PROVE  IInv'
<1> USE NoneAssumption, KeyAssumption, RequestAssumption, OpsTokenAssumption
    DEF IInv, Revoke, poolVars
<1>1. Types'
  BY DEF Types, Place, Status, NoSetting, NoRequest, NoAnswer, Unauthorized
<1>2. Exclusive'
  BY DEF Types, Exclusive
<1>3. Settings'
  BY DEF Types, Exclusive, Settings, SettingFor, NoSetting
<1>4. Serving'
  BY DEF Types, Serving, Authorised, Right, Entitled, Wanted, Unauthorized, NoAnswer
<1>5. QED
  BY <1>1, <1>2, <1>3, <1>4

(* A step that changes nothing preserves the invariant. *)
LEMMA StutterInv == ASSUME IInv, UNCHANGED vars PROVE IInv'
  BY DEF IInv, Types, Exclusive, Settings, Serving, Authorised, vars, poolVars

(* One case per action of Next. *)
LEMMA NextInv == IInv /\ [Next]_vars => IInv'
<1> SUFFICES ASSUME IInv, [Next]_vars
             PROVE  IInv'
  OBVIOUS
<1>1. CASE UNCHANGED vars
  BY <1>1, StutterInv
<1>2. ASSUME NEW p \in Session, NEW r \in Request, Arrive(p, r)
      PROVE  IInv'
  BY <1>2, ArriveInv
<1>3. ASSUME NEW p \in Session, Progress(p)
      PROVE  IInv'
  BY <1>3, StartLookupInv, LookupInv, BeginTxInv, SetConfigInv, QueryInv, CommitTxInv,
     StartPingInv, PingInv, LeaveInv DEF Progress
<1>4. ASSUME NEW p \in Session, Abort(p)
      PROVE  IInv'
  BY <1>4, AbortInv
<1>5. ASSUME NEW k \in Key, Revoke(k)
      PROVE  IInv'
  BY <1>5, RevokeInv
<1>6. QED
  BY <1>1, <1>2, <1>3, <1>4, <1>5 DEF Next

\* The invariant holds in every reachable state.
THEOREM Invariant == Spec => []IInv
  BY InitInv, NextInv, PTL DEF Spec

\* Every answer is what the request asked for of the rows it may see, for any
\* number of sessions that take turns on any number of connections.
THEOREM AnswersAreOwn == Spec => []AnsweredAsIfAlone
<1>1. IInv => AnsweredAsIfAlone
  BY DEF IInv, Serving, AnsweredAsIfAlone, Right
<1>2. QED
  BY <1>1, Invariant, PTL

\* A request that comes after its key was revoked is refused.
THEOREM RevokedRefused == Spec => []RevokedIsRefused
<1>1. IInv => RevokedIsRefused
  BY DEF IInv, Serving, RevokedIsRefused
<1>2. QED
  BY <1>1, Invariant, PTL

\* A connection in the pool carries nothing of the request that had it.
THEOREM IdleClean == Spec => []IdleConnectionsAreClean
<1>1. IInv => IdleConnectionsAreClean
  BY DEF IInv, Exclusive, Settings, IdleConnectionsAreClean
<1>2. QED
  BY <1>1, Invariant, PTL
==============================================================================
