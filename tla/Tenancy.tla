------------------------------- MODULE Tenancy -------------------------------
(***************************************************************************)
(* Whose rows a request sees.  Requests share a few database connections;  *)
(* each looks up its key, then runs a transaction that says who it is for  *)
(* in a setting of the connection, which the row policies read             *)
(* (internal/controllers/middleware.go, internal/services/auth.go,         *)
(* internal/postgres, migrations).  Queries such as ListInvoices name no   *)
(* customer: the policies are all that keeps tenants apart.                *)
(***************************************************************************)
EXTENDS Integers

CONSTANTS Session,     \* requests that can be in progress at once
          Conn,        \* the connections of the pool
          NoConn,
          Customer, NoCustomer,
          Key,         \* API keys in api_keys
          OwnerOf,     \* key -> its customer
          OpsToken,    \* OPS_TOKEN, or a valid signature of a webhook
          Row,         \* rows of a table with a policy
          RowOwner,    \* row -> its customer
          All,         \* what a list asks for
          Request      \* [route, token, want]: want is a row or All

ASSUME KeyAssumption == OwnerOf \in [Key -> Customer] /\ RowOwner \in [Row -> Customer]
ASSUME RequestAssumption ==
    \A r \in Request : r.route \in {"customer", "ops", "health"} /\ r.want \in Row \cup {All}
ASSUME NoneAssumption == NoConn \notin Conn /\ NoCustomer \notin Customer /\ All \notin Row
\* NewPlaintext draws a key's text at random.
ASSUME OpsTokenAssumption == OpsToken \notin Key

VARIABLES
    idle,     \* connections in the pool that nobody has
    conn,     \* the connection a session has, or NoConn
    setting,  \* app.customer_id and app.is_ops of each connection
    revoked,  \* keys with a revoked_at
    pc,       \* "idle" or what the session does next
    req,      \* the request it serves
    late,     \* the key had been revoked before the request came
    answer    \* [status, rows]

poolVars == <<idle, conn, setting>>
vars == <<poolVars, revoked, pc, req, late, answer>>

NoSetting == [customer |-> NoCustomer, ops |-> FALSE]
NoRequest == [route |-> "none"]
NoAnswer == [status |-> 0, rows |-> {}]
Unauthorized == [status |-> 401, rows |-> {}]

Init == /\ idle = Conn
        /\ conn = [p \in Session |-> NoConn]
        /\ setting = [c \in Conn |-> NoSetting]
        /\ revoked = {}
        /\ pc = [p \in Session |-> "idle"]
        /\ req = [p \in Session |-> NoRequest]
        /\ late = [p \in Session |-> FALSE]
        /\ answer = [p \in Session |-> NoAnswer]

-----------------------------------------------------------------------------
(* The pool *)

\* Pool.Begin and Pool.QueryRow wait for a connection.
Acquire(p) == \E c \in idle : /\ idle' = idle \ {c}
                              /\ conn' = [conn EXCEPT ![p] = c]

Release(p) == /\ idle' = idle \cup ({conn[p]} \ {NoConn})
              /\ conn' = [conn EXCEPT ![p] = NoConn]

\* Mutated form: set_config(..., false), a setting of the session.
EndTxKeeping(p) == UNCHANGED setting

\* COMMIT and ROLLBACK, or the end of a connection that could not roll back:
\* what set_config(..., true) set is gone.
EndTx(p) == setting' = [c \in Conn |-> IF c = conn[p] THEN NoSetting ELSE setting[c]]

-----------------------------------------------------------------------------
(* Requests *)

\* The routes: customers' go by requireCustomer, operators' by requireOps, and
\* the health check by neither.
Arrive(p, r) ==
    /\ pc[p] = "idle"
    /\ req' = [req EXCEPT ![p] = r]
    /\ late' = [late EXCEPT ![p] = r.token \in revoked]
    /\ LET refused == r.route = "ops" /\ r.token # OpsToken IN
       /\ pc' = [pc EXCEPT ![p] = CASE refused -> "answered"
                                    [] r.route = "customer" -> "auth"
                                    [] r.route = "health" -> "health"
                                    [] OTHER -> "begin"]
       /\ answer' = [answer EXCEPT ![p] = IF refused THEN Unauthorized ELSE NoAnswer]
    /\ UNCHANGED <<poolVars, revoked>>

\* LookupByHash has a connection of its own.
StartLookup(p) ==
    /\ pc[p] = "auth"
    /\ Acquire(p)
    /\ pc' = [pc EXCEPT ![p] = "lookup"]
    /\ UNCHANGED <<setting, revoked, req, late, answer>>

\* Mutated form: revoked_at is not looked at.
AcceptedRevoked(token) == token \in Key

\* FromToken: a key with this hash, not revoked.
Accepted(token) == token \in Key /\ token \notin revoked

\* Mutated form: the row is not read to its end, and the connection stays out.
LookupHolding(p) ==
    /\ pc[p] = "lookup"
    /\ pc' = [pc EXCEPT ![p] = IF Accepted(req[p].token) THEN "begin" ELSE "answered"]
    /\ answer' = [answer EXCEPT ![p] = IF Accepted(req[p].token) THEN @ ELSE Unauthorized]
    /\ UNCHANGED <<poolVars, revoked, req, late>>

\* lookup_api_key runs as its owner, whom no policy binds.  Its row is read and
\* the connection goes back before the transaction asks for one.
Lookup(p) ==
    /\ pc[p] = "lookup"
    /\ pc' = [pc EXCEPT ![p] = IF Accepted(req[p].token) THEN "begin" ELSE "answered"]
    /\ answer' = [answer EXCEPT ![p] = IF Accepted(req[p].token) THEN @ ELSE Unauthorized]
    /\ Release(p)
    /\ UNCHANGED <<setting, revoked, req, late>>

BeginTx(p) ==
    /\ pc[p] = "begin"
    /\ Acquire(p)
    /\ pc' = [pc EXCEPT ![p] = "set"]
    /\ UNCHANGED <<setting, revoked, req, late, answer>>

\* withCustomer sets the key's customer, withOps the operators' flag.
SetConfig(p) ==
    /\ pc[p] = "set"
    /\ setting' = [setting EXCEPT ![conn[p]] =
                      IF req[p].route = "customer"
                      THEN [customer |-> OwnerOf[req[p].token], ops |-> @.ops]
                      ELSE [customer |-> @.customer, ops |-> TRUE]]
    /\ pc' = [pc EXCEPT ![p] = "query"]
    /\ UNCHANGED <<idle, conn, revoked, req, late, answer>>

\* USING (is_ops() OR customer_id = current_customer_id())
Visible(c) == {row \in Row : setting[c].ops \/ RowOwner[row] = setting[c].customer}

Wanted(r) == IF r.want = All THEN Row ELSE {r.want}

\* The query, and what the handler makes of no row: a list is empty, a single
\* one is not found.
Query(p) ==
    /\ pc[p] = "query"
    /\ LET rows == Visible(conn[p]) \cap Wanted(req[p])
           found == rows # {} \/ req[p].want = All
       IN  answer' = [answer EXCEPT ![p] = [status |-> IF found THEN 200 ELSE 404,
                                            rows   |-> rows]]
    /\ pc' = [pc EXCEPT ![p] = "commit"]
    /\ UNCHANGED <<poolVars, revoked, req, late>>

\* The transaction of a row not found is rolled back: the same here.
CommitTx(p) ==
    /\ pc[p] = "commit"
    /\ EndTx(p)
    /\ Release(p)
    /\ pc' = [pc EXCEPT ![p] = "answered"]
    /\ UNCHANGED <<revoked, req, late, answer>>

StartPing(p) ==
    /\ pc[p] = "health"
    /\ Acquire(p)
    /\ pc' = [pc EXCEPT ![p] = "ping"]
    /\ UNCHANGED <<setting, revoked, req, late, answer>>

Ping(p) ==
    /\ pc[p] = "ping"
    /\ Release(p)
    /\ pc' = [pc EXCEPT ![p] = "idle"]
    /\ UNCHANGED <<setting, revoked, req, late, answer>>

\* The client has its answer.
Leave(p) ==
    /\ pc[p] = "answered"
    /\ pc' = [pc EXCEPT ![p] = "idle"]
    /\ req' = [req EXCEPT ![p] = NoRequest]
    /\ late' = [late EXCEPT ![p] = FALSE]
    /\ answer' = [answer EXCEPT ![p] = NoAnswer]
    /\ UNCHANGED <<poolVars, revoked>>

\* An error of the database, or a client that goes away: what the session has
\* is given back, by Scan or by the deferred Rollback.
Abort(p) ==
    /\ pc[p] \notin {"idle", "answered"}
    /\ EndTx(p)
    /\ Release(p)
    /\ pc' = [pc EXCEPT ![p] = "idle"]
    /\ req' = [req EXCEPT ![p] = NoRequest]
    /\ late' = [late EXCEPT ![p] = FALSE]
    /\ answer' = [answer EXCEPT ![p] = NoAnswer]
    /\ UNCHANGED revoked

-----------------------------------------------------------------------------

\* Nothing in the repository revokes a key: its operator does, in the table.
Revoke(k) == /\ k \notin revoked
             /\ revoked' = revoked \cup {k}
             /\ UNCHANGED <<poolVars, pc, req, late, answer>>

Progress(p) == \/ StartLookup(p) \/ Lookup(p)
               \/ BeginTx(p) \/ SetConfig(p) \/ Query(p) \/ CommitTx(p)
               \/ StartPing(p) \/ Ping(p)
               \/ Leave(p)

Next == \/ \E p \in Session : \/ \E r \in Request : Arrive(p, r)
                              \/ Progress(p)
                              \/ Abort(p)
        \/ \E k \in Key : Revoke(k)

Spec == Init /\ [][Next]_vars

\* Statements end, and who waits for a connection is in a queue that is served
\* in turn: strong fairness.  Nothing makes a request give up.
FairSpec == Spec /\ \A p \in Session : SF_vars(Progress(p))

-----------------------------------------------------------------------------
(* Properties *)

\* What a request may see: its customer's rows, or all with the operators' token.
Entitled(r) == IF r.route = "customer" THEN {row \in Row : RowOwner[row] = OwnerOf[r.token]}
               ELSE Row

\* DESIGN.md, "you only see your rows unless ops", and "Guessing another
\* customer's invoice id is 404": every answer is what the request asked for of
\* the rows it may see, neither less nor more, whoever used its connection before.
AnsweredAsIfAlone ==
    \A p \in Session :
        pc[p] = "answered" /\ answer[p] # Unauthorized =>
            /\ answer[p].rows = Entitled(req[p]) \cap Wanted(req[p])
            /\ answer[p].status = 404 <=> answer[p].rows = {} /\ req[p].want # All

\* A request that comes after its key was revoked is refused, also while older
\* requests of that key are still served.
RevokedIsRefused ==
    \A p \in Session : pc[p] = "answered" /\ late[p] => answer[p] = Unauthorized

\* A connection in the pool carries nothing of the request that had it, however
\* that request ended, and no one has it.
IdleConnectionsAreClean ==
    \A c \in idle : /\ setting[c] = NoSetting
                    /\ \A p \in Session : conn[p] # c

\* Every request ends, however few connections there are: no session keeps one
\* while it waits for another.
RequestsEnd == \A p \in Session : (pc[p] # "idle") ~> (pc[p] = "idle")
==============================================================================
