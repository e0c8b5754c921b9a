-------------------------------- MODULE Tenancy --------------------------------
(* services/api tenant/, modules/events, modules/members and modules/household:  *)
(* each request carries the household it is for; lists are filtered by it, new   *)
(* rows are stamped with it, and a row looked up by id is handed on only if it   *)
(* belongs to it.  "Row" is an event or a member, which are kept the same way.   *)
(* The body of a member's or a household's update goes to the database as it     *)
(* came; of the household's own row nothing here depends.                        *)
EXTENDS ApiCall

CONSTANTS
    Households, \* households with a row
    Ids,        \* ids that rows can have; the database gives none out twice
    Requests,   \* requests in flight at once
    Values      \* what a row can hold

VARIABLES
    rows,       \* the rows there are: [id, household, value]
    fresh,      \* ids no row has had
    handed,     \* history: ids that a body chose or whose household a body changed
    requests    \* per request, what it is, how far it has come and its answer

tenancyVars == <<rows, fresh, handed, requests>>

Ops == {"list", "get", "create", "update", "remove", "connect"}
ByIdOps == {"get", "update", "remove"}
TenantRow == [id : Ids, household : Households, value : Values]
NoRequest == [step |-> "none", household |-> Null, op |-> "list", id |-> Null, answer |-> {}]
Refused == [NoRequest EXCEPT !.step = "refused"]

TenancyTypeOK ==
    /\ rows \subseteq TenantRow /\ fresh \subseteq Ids /\ handed \subseteq Ids
    /\ requests \in [Requests -> [step : {"none", "call", "write", "answered", "refused"},
                                  household : Households \cup {Null}, op : Ops,
                                  id : Ids \cup {Null}, answer : SUBSET TenantRow]]

TenancyInit ==
    /\ rows = {} /\ fresh = Ids /\ handed = {}
    /\ requests = [q \in Requests |-> NoRequest]

\* HouseholdGuard: without the header the request is refused; its household is
\* set once, before any service is asked.
Guard(q) ==
    /\ requests[q].step = "none"
    /\ \E household \in Households \cup {Null}, op \in Ops, id \in Ids \cup {Null} :
          /\ id # Null <=> op \in ByIdOps
          /\ requests' = [requests EXCEPT ![q] =
                IF household = Null THEN Refused
                ELSE [step |-> "call", household |-> household, op |-> op, id |-> id, answer |-> {}]]
    /\ Works
    /\ UNCHANGED <<rows, fresh, handed>>

\* A broken form of the next definition: any row will do.
AssertOwnedAny(q, row) == TRUE

\* assertOwned, and the filter that where() adds.
AssertOwned(q, row) == row.household = requests[q].household

\* What the request sees of the table, and the row it asks for by id.
Where(q) == {row \in rows : row.household = requests[q].household}
Found(q) == {row \in rows : row.id = requests[q].id /\ AssertOwned(q, row)}

\* A broken form of the next definition: the row is not stamped.
DataUnstamped(q, id, value) == [id |-> id, household |-> Null, value |-> value]

\* data(): a new row belongs to the request's household.
Data(q, id, value) == [id |-> id, household |-> requests[q].household, value |-> value]

Respond(q, answer) == requests' = [requests EXCEPT ![q].step = "answered", ![q].answer = answer]
Refuse(q) == requests' = [requests EXCEPT ![q] = Refused]

List(q) ==
    /\ requests[q].step = "call" /\ requests[q].op = "list"
    /\ Respond(q, Where(q))
    /\ Works
    /\ UNCHANGED <<rows, fresh, handed>>

Get(q) ==
    /\ requests[q].step = "call" /\ requests[q].op = "get"
    /\ IF Found(q) # {} THEN Respond(q, Found(q)) ELSE Refuse(q)
    /\ Works
    /\ UNCHANGED <<rows, fresh, handed>>

\* Ids that no row has.
Free == Ids \ {row.id : row \in rows}

\* The database gives the row a new id, or the body of a member names one.
Create(q) ==
    /\ requests[q].step = "call" /\ requests[q].op = "create"
    /\ \E id \in Free, value \in Values :
          /\ \/ id \in fresh /\ UNCHANGED handed
             \/ handed' = handed \cup {id}
          /\ rows' = rows \cup {Data(q, id, value)}
          /\ fresh' = fresh \ {id}
          /\ Respond(q, {Data(q, id, value)})
    /\ Works

\* update and remove look the row up first, and write by id alone.
Lookup(q) ==
    /\ requests[q].step = "call" /\ requests[q].op \in {"update", "remove"}
    /\ IF Found(q) = {} THEN Refuse(q) ELSE requests' = [requests EXCEPT ![q].step = "write"]
    /\ Works
    /\ UNCHANGED <<rows, fresh, handed>>

\* The write fails if the row has been removed meanwhile.  The body of an update may
\* name any household and any id; it fails if there is no such household or another
\* row has the id.
Write(q) ==
    LET target == {row \in rows : row.id = requests[q].id}
    IN  /\ requests[q].step = "write"
        /\ \/ /\ target = {} \/ requests[q].op = "update"
              /\ Refuse(q)
              /\ UNCHANGED <<rows, fresh, handed>>
           \/ /\ requests[q].op = "update"
              /\ \E old \in target, new \in TenantRow :
                    /\ new.id \in Free \cup {old.id}
                    /\ rows' = (rows \ target) \cup {new}
                    /\ fresh' = fresh \ {new.id}
                    /\ handed' = IF new.id = old.id /\ new.household = old.household
                                 THEN handed ELSE handed \cup {old.id, new.id}
                    /\ Respond(q, {new})
           \/ /\ target # {} /\ requests[q].op = "remove"
              /\ rows' = rows \ target /\ Respond(q, {})
              /\ UNCHANGED <<fresh, handed>>
        /\ Works

\* PATCH /household: the body may connect rows to the request's household, whosever
\* they are.
UpdateHousehold(q) ==
    LET own == requests[q].household
    IN  /\ requests[q].step = "call" /\ requests[q].op = "connect"
        /\ \E connected \in SUBSET {row \in rows : row.household # own} :
              /\ rows' = (rows \ connected) \cup {[row EXCEPT !.household = own] : row \in connected}
              /\ handed' = handed \cup {row.id : row \in connected}
        /\ Respond(q, {})
        /\ Works
        /\ UNCHANGED fresh

\* The context ends with the request; the next one has its own.
EndRequest(q) ==
    /\ requests[q].step \in {"answered", "refused"}
    /\ requests' = [requests EXCEPT ![q] = NoRequest]
    /\ Works
    /\ UNCHANGED <<rows, fresh, handed>>

TenancyNext == \E q \in Requests :
    \/ Guard(q) \/ EndRequest(q) \/ List(q) \/ Get(q) \/ Create(q) \/ Lookup(q) \/ Write(q) \/ UpdateHousehold(q)

-----------------------------------------------------------------------------
\* A request changes only rows of its own household, although its write
\* names an id alone, and reads no other rows, except for what a body has done: a row
\* of another household is changed only if a body had chosen its id or its household
\* before or connects it now, and a row comes to another household only by a body.
OthersChangeByBodiesOnly ==
    [][\A q \in Requests : requests'[q] # requests[q] =>
          LET own == requests'[q].household
              op == requests'[q].op
          IN  /\ \A row \in requests'[q].answer :
                    row.household = own \/ (op = "update" /\ row.id \in handed')
              /\ \A row \in rows \ rows' : row.household = own \/ row.id \in handed \/ op = "connect"
              /\ \A row \in rows' \ rows : row.household = own \/ row.id \in handed'
      ]_tenancyVars

\* tenant-prisma.ts: "a household can never read or mutate another household's
\* rows": a row changes only in a step of a request for its household, and a list or
\* a row that is asked for holds nothing of another.
HouseholdsAreIsolated ==
    [][\A q \in Requests : requests'[q] # requests[q] =>
          LET own == requests'[q].household
          IN  /\ \A row \in rows \ rows' : row.household = own
              /\ requests'[q].op \in {"list", "get"} =>
                    \A row \in requests'[q].answer : row.household = own
      ]_tenancyVars
=============================================================================
