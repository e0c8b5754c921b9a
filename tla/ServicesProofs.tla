----------------------------- MODULE ServicesProofs -----------------------------
(***************************************************************************)
(* What is proved of the services around the core: of their tables, their  *)
(* overlapping calls and their failures, for any number of each.           *)
(***************************************************************************)
EXTENDS Services, EngineTheorems

-----------------------------------------------------------------------------
(* The rows of a household, for any number of households, of rows and of        *)
(* requests in flight: although an update or a removal names the row by its id  *)
(* alone, and other requests run between the look-up and the write, a row of    *)
(* another household changes only if a body had its hand in the row's id or     *)
(* household, because the database gives no id out twice.                       *)

RequestRow ==
    [step : {"none", "call", "write", "answered", "refused"}, household : Households \cup {Null},
     op : Ops, id : Ids \cup {Null}, answer : SUBSET TenantRow]

\* A request that has passed the guard has a household, and no answer yet.
TenancyTyped ==
    /\ rows \subseteq TenantRow /\ fresh \subseteq Ids /\ handed \subseteq Ids
    /\ requests \in [Requests -> RequestRow]
    /\ \A q \in Requests : requests[q].step \in {"call", "write"} =>
          requests[q].household \in Households /\ requests[q].answer = {}

\* An id names one row, and none before it is given out.
IdsNameOneRow ==
    /\ \A r1, r2 \in rows : r1.id = r2.id => r1 = r2
    /\ \A row \in rows : row.id \notin fresh

\* The row a request is about to write was the request's own when it was looked
\* up; its id has been given out, so what bears it now is that row, or one that a
\* body has moved or has given this id.
WritesOwnRow ==
    \A q \in Requests : requests[q].step = "write" =>
        /\ requests[q].id \notin fresh
        /\ \A row \in rows : row.id = requests[q].id =>
              row.household = requests[q].household \/ row.id \in handed

TenancyInv == TenancyTyped /\ IdsNameOneRow /\ WritesOwnRow

\* What the property says of one request.
Isolated(q) ==
    LET own == requests'[q].household
        op == requests'[q].op
    IN  /\ \A row \in requests'[q].answer :
              row.household = own \/ (op = "update" /\ row.id \in handed')
        /\ \A row \in rows \ rows' : row.household = own \/ row.id \in handed \/ op = "connect"
        /\ \A row \in rows' \ rows : row.household = own \/ row.id \in handed'

Isolation == \A q \in Requests : requests'[q] # requests[q] => Isolated(q)

-----------------------------------------------------------------------------
LEMMA TenancyInitHolds == TenancyInit => TenancyInv
<1> SUFFICES ASSUME TenancyInit PROVE TenancyInv
    OBVIOUS
<1>1. NoRequest \in RequestRow
      BY DEF NoRequest, RequestRow, Ops
<1>2. \A q \in Requests : requests[q].step = "none"
      BY DEF TenancyInit, NoRequest
<1> QED BY <1>1, <1>2 DEF TenancyInit, TenancyInv, TenancyTyped, IdsNameOneRow, WritesOwnRow

LEMMA RefusedIsARequest ==
    /\ Refused \in RequestRow /\ Refused.step = "refused"
    /\ Refused.household = Null /\ Refused.answer = {}
BY DEF Refused, NoRequest, RequestRow, Ops

\* A request that moves leaves the others alone.
LEMMA RequestMoved ==
    ASSUME TenancyTyped, NEW q \in Requests, NEW x \in RequestRow,
           requests' = [requests EXCEPT ![q] = x]
    PROVE  /\ requests' \in [Requests -> RequestRow]
           /\ requests'[q] = x
           /\ \A p \in Requests \ {q} : requests'[p] = requests[p]
BY DEF TenancyTyped

\* A step that writes no row, and whose request does not come to write unless it has
\* found its row, keeps the invariant and isolates the request if its answer is its
\* own.
LEMMA OnlyRequestMoves ==
    ASSUME TenancyInv, UNCHANGED <<rows, fresh, handed>>,
           NEW q \in Requests, NEW x \in RequestRow,
           requests' = [requests EXCEPT ![q] = x],
           x.step \in {"call", "write"} => x.household \in Households /\ x.answer = {},
           x.step = "write" => /\ x.id \notin fresh
                               /\ \A row \in rows : row.id = x.id => row.household = x.household,
           \A row \in x.answer : row.household = x.household
    PROVE  TenancyInv' /\ Isolation
<1>1. /\ requests' \in [Requests -> RequestRow]
      /\ requests'[q] = x
      /\ \A p \in Requests \ {q} : requests'[p] = requests[p]
      BY RequestMoved DEF TenancyInv
<1>2. TenancyTyped'
      BY <1>1 DEF TenancyInv, TenancyTyped
<1>3. IdsNameOneRow'
      BY DEF TenancyInv, IdsNameOneRow
<1>4. WritesOwnRow'
      BY <1>1 DEF TenancyInv, WritesOwnRow
<1>5. Isolation
      BY <1>1 DEF Isolation, Isolated
<1> QED BY <1>2, <1>3, <1>4, <1>5 DEF TenancyInv

\* The requests in flight survive a step of another that changes rows, if ids are
\* given out but not taken back, and what changes is of ids that no body has touched
\* only where it keeps its household.
LEMMA OthersStillWriteTheirOwn ==
    ASSUME TenancyInv, NEW q \in Requests,
           \A p \in Requests \ {q} : requests'[p] = requests[p],
           requests'[q].step # "write",
           fresh' \subseteq fresh, handed \subseteq handed',
           \A row \in rows' \ rows :
              \/ row.id \in handed'
              \/ row.id \in fresh
              \/ \E old \in rows : old.id = row.id /\ old.household = row.household
    PROVE  WritesOwnRow'
<1> SUFFICES ASSUME NEW p \in Requests, requests'[p].step = "write"
             PROVE  /\ requests'[p].id \notin fresh'
                    /\ \A row \in rows' : row.id = requests'[p].id =>
                          row.household = requests'[p].household \/ row.id \in handed'
    BY DEF WritesOwnRow
<1>1. p # q /\ requests'[p] = requests[p]
      OBVIOUS
<1>2. /\ requests[p].id \notin fresh
      /\ \A row \in rows : row.id = requests[p].id => row.household = requests[p].household \/ row.id \in handed
      BY <1>1 DEF TenancyInv, WritesOwnRow
<1> QED BY <1>1, <1>2

LEMMA TenancyStepHolds == TenancyInv /\ TenancyNext => TenancyInv' /\ Isolation
<1> SUFFICES ASSUME TenancyInv, TenancyNext PROVE TenancyInv' /\ Isolation
    OBVIOUS
<1>0. TenancyTyped /\ IdsNameOneRow /\ WritesOwnRow
      BY DEF TenancyInv
<1>1. ASSUME NEW q \in Requests, UNCHANGED <<rows, fresh, handed>>, Refuse(q)
      PROVE  TenancyInv' /\ Isolation
      BY <1>0, <1>1, RefusedIsARequest, OnlyRequestMoves DEF Refuse
<1>2. ASSUME NEW q \in Requests, Guard(q) PROVE TenancyInv' /\ Isolation
  <2>1. PICK household \in Households \cup {Null}, op \in Ops, id \in Ids \cup {Null} :
            requests' = [requests EXCEPT ![q] =
                IF household = Null THEN Refused
                ELSE [step |-> "call", household |-> household, op |-> op, id |-> id, answer |-> {}]]
        BY <1>2, Zenon DEF Guard
  <2>2. UNCHANGED <<rows, fresh, handed>>
        BY <1>2 DEF Guard
  <2>3. CASE household = Null
        BY <1>1, <2>1, <2>2, <2>3 DEF Refuse
  <2>4. CASE household # Null
    <3> DEFINE x == [step |-> "call", household |-> household, op |-> op, id |-> id, answer |-> {}]
    <3>1. x \in RequestRow /\ x.step = "call" /\ x.answer = {} /\ x.household \in Households
          BY <2>4 DEF RequestRow
    <3>2. requests' = [requests EXCEPT ![q] = x]
          BY <2>1, <2>4
    <3> HIDE DEF x
    <3> QED BY <2>2, <3>1, <3>2, OnlyRequestMoves
  <2> QED BY <2>3, <2>4
<1>3. ASSUME NEW q \in Requests, EndRequest(q) PROVE TenancyInv' /\ Isolation
  <2>1. NoRequest \in RequestRow /\ NoRequest.step = "none" /\ NoRequest.answer = {}
        BY DEF NoRequest, RequestRow, Ops
  <2> QED BY <1>3, <2>1, OnlyRequestMoves DEF EndRequest
<1>4. ASSUME NEW q \in Requests, NEW answer \in SUBSET TenantRow, UNCHANGED <<rows, fresh, handed>>,
             \A row \in answer : row.household = requests[q].household, Respond(q, answer)
      PROVE  TenancyInv' /\ Isolation
  <2>0. requests[q] \in RequestRow
        BY <1>0 DEF TenancyTyped
  <2> DEFINE x == [requests[q] EXCEPT !.step = "answered", !.answer = answer]
  <2>1. x \in RequestRow /\ x.step = "answered" /\ x.answer = answer /\ x.household = requests[q].household
        BY <2>0 DEF RequestRow
  <2>2. requests' = [requests EXCEPT ![q] = x]
        BY <1>0, <1>4 DEF Respond, TenancyTyped
  <2> HIDE DEF x
  <2> QED BY <1>4, <2>1, <2>2, OnlyRequestMoves
<1>5. ASSUME NEW q \in Requests, List(q) PROVE TenancyInv' /\ Isolation
  <2>1. Where(q) \in SUBSET TenantRow /\ \A row \in Where(q) : row.household = requests[q].household
        BY <1>0 DEF Where, TenancyTyped
  <2> QED BY <1>4, <1>5, <2>1 DEF List
<1>6. ASSUME NEW q \in Requests, Get(q) PROVE TenancyInv' /\ Isolation
  <2>1. Found(q) \in SUBSET TenantRow /\ \A row \in Found(q) : row.household = requests[q].household
        BY <1>0 DEF Found, AssertOwned, TenancyTyped
  <2> QED BY <1>1, <1>4, <1>6, <2>1 DEF Get
<1>7. ASSUME NEW q \in Requests, Lookup(q) PROVE TenancyInv' /\ Isolation
  <2>0. requests[q] \in RequestRow /\ requests[q].household \in Households /\ requests[q].answer = {}
        BY <1>0, <1>7 DEF TenancyTyped, Lookup
  <2>1. UNCHANGED <<rows, fresh, handed>>
        BY <1>7 DEF Lookup
  <2>2. CASE Found(q) = {}
        BY <1>1, <1>7, <2>1, <2>2 DEF Lookup
  <2>3. CASE Found(q) # {}
    <3> DEFINE x == [requests[q] EXCEPT !.step = "write"]
    <3>1. x \in RequestRow /\ x.step = "write" /\ x.household = requests[q].household /\ x.answer = {}
          /\ x.id = requests[q].id
          BY <2>0 DEF RequestRow
    <3>2. requests' = [requests EXCEPT ![q] = x]
          BY <1>0, <1>7, <2>3 DEF Lookup, TenancyTyped
    <3>3. PICK row \in rows : row.id = requests[q].id /\ row.household = requests[q].household
          BY <2>3 DEF Found, AssertOwned
    <3>4. /\ x.id \notin fresh
          /\ \A other \in rows : other.id = x.id => other.household = x.household
          BY <1>0, <3>1, <3>3 DEF IdsNameOneRow
    <3> HIDE DEF x
    <3> QED BY <2>0, <2>1, <3>1, <3>2, <3>4, OnlyRequestMoves
  <2> QED BY <2>2, <2>3
<1>8. ASSUME NEW q \in Requests, Create(q) PROVE TenancyInv' /\ Isolation
  <2>0. requests[q] \in RequestRow /\ requests[q].household \in Households
        BY <1>0, <1>8 DEF TenancyTyped, Create
  <2>1. PICK id \in Free, value \in Values :
            /\ (id \in fresh /\ UNCHANGED handed) \/ handed' = handed \cup {id}
            /\ rows' = rows \cup {Data(q, id, value)}
            /\ fresh' = fresh \ {id}
            /\ Respond(q, {Data(q, id, value)})
        BY <1>8 DEF Create
  <2> DEFINE new == Data(q, id, value)
             x == [requests[q] EXCEPT !.step = "answered", !.answer = {new}]
  <2>2. id \in Ids /\ \A row \in rows : row.id # id
        BY <2>1 DEF Free
  <2>3. new \in TenantRow /\ new.id = id /\ new.household = requests[q].household
        BY <2>0, <2>1, <2>2 DEF Data, TenantRow
  <2>4. rows' = rows \cup {new}
        BY <2>1
  <2> HIDE DEF new
  <2>5. x \in RequestRow /\ x.step = "answered" /\ x.answer = {new} /\ x.household = requests[q].household
        BY <2>0, <2>3 DEF RequestRow
  <2>6. requests' = [requests EXCEPT ![q] = x]
        BY <1>0, <2>1 DEF Respond, TenancyTyped, new
  <2> HIDE DEF x
  <2>7. /\ requests' \in [Requests -> RequestRow] /\ requests'[q] = x
        /\ \A p \in Requests \ {q} : requests'[p] = requests[p]
        BY <1>0, <2>5, <2>6, RequestMoved
  <2>8. handed \subseteq handed' /\ handed' \subseteq Ids /\ fresh' \subseteq fresh /\ (id \in fresh \/ id \in handed')
        BY <1>0, <2>1, <2>2 DEF TenancyTyped
  <2>9. TenancyTyped'
        BY <1>0, <2>3, <2>4, <2>5, <2>7, <2>8 DEF TenancyTyped
  <2>10. IdsNameOneRow'
         BY <1>0, <2>1, <2>2, <2>3, <2>4 DEF IdsNameOneRow
  <2>11. WritesOwnRow'
    <3>1. requests'[q].step # "write"
          BY <2>5, <2>7
    <3>2. \A row \in rows' \ rows : row.id \in handed' \/ row.id \in fresh
          BY <2>3, <2>4, <2>8
    <3> QED BY <2>7, <2>8, <3>1, <3>2, OthersStillWriteTheirOwn
  <2>12. Isolation
         BY <2>3, <2>4, <2>5, <2>7 DEF Isolation, Isolated
  <2> QED BY <2>9, <2>10, <2>11, <2>12 DEF TenancyInv
<1>9. ASSUME NEW q \in Requests, UpdateHousehold(q) PROVE TenancyInv' /\ Isolation
  <2> DEFINE own == requests[q].household
             x == [requests[q] EXCEPT !.step = "answered", !.answer = {}]
  <2>0. /\ requests[q] \in RequestRow /\ own \in Households /\ requests[q].op = "connect"
        /\ UNCHANGED fresh /\ Respond(q, {})
        BY <1>0, <1>9 DEF TenancyTyped, UpdateHousehold
  <2>1. PICK connected \in SUBSET {row \in rows : row.household # own} :
            /\ rows' = (rows \ connected) \cup {[row EXCEPT !.household = own] : row \in connected}
            /\ handed' = handed \cup {row.id : row \in connected}
        BY <1>9 DEF UpdateHousehold
  <2> DEFINE moved == {[row EXCEPT !.household = own] : row \in connected}
  <2>2. \A row \in connected : row \in rows /\ row \in TenantRow
        BY <1>0 DEF TenancyTyped
  <2>3. \A row \in moved : /\ row \in TenantRow /\ row.household = own
                           /\ \E old \in connected : old.id = row.id /\ row = [old EXCEPT !.household = own]
        BY <2>0, <2>2 DEF TenantRow
  <2>4. rows' = (rows \ connected) \cup moved
        BY <2>1
  <2> HIDE DEF moved
  <2>5. x \in RequestRow /\ x.step = "answered" /\ x.answer = {} /\ x.household = own /\ x.op = "connect"
        BY <2>0 DEF RequestRow
  <2>6. requests' = [requests EXCEPT ![q] = x]
        BY <1>0, <2>0 DEF Respond, TenancyTyped
  <2> HIDE DEF x, own
  <2>7. /\ requests' \in [Requests -> RequestRow] /\ requests'[q] = x
        /\ \A p \in Requests \ {q} : requests'[p] = requests[p]
        BY <1>0, <2>5, <2>6, RequestMoved
  <2>8. handed \subseteq handed' /\ handed' \subseteq Ids /\ \A row \in moved : row.id \in handed'
        BY <1>0, <2>1, <2>2, <2>3 DEF TenancyTyped, TenantRow
  <2>9. TenancyTyped'
        BY <1>0, <2>0, <2>3, <2>4, <2>5, <2>7, <2>8 DEF TenancyTyped
  <2>10. IdsNameOneRow'
    <3>1. \A r1, r2 \in rows' : r1.id = r2.id => r1 = r2
      <4> SUFFICES ASSUME NEW r1 \in rows', NEW r2 \in rows', r1.id = r2.id PROVE r1 = r2
          OBVIOUS
      <4>1. \A r \in rows' \ moved : r \in rows /\ r \notin connected
            BY <2>4
      <4>2. \A r \in moved : \E old \in connected : old \in rows /\ old.id = r.id /\ r = [old EXCEPT !.household = own]
            BY <2>2, <2>3
      <4>3. CASE r1 \notin moved /\ r2 \notin moved
            BY <1>0, <4>1, <4>3 DEF IdsNameOneRow
      <4>4. CASE r1 \in moved /\ r2 \notin moved
            BY <1>0, <4>1, <4>2, <4>4 DEF IdsNameOneRow
      <4>5. CASE r1 \notin moved /\ r2 \in moved
            BY <1>0, <4>1, <4>2, <4>5 DEF IdsNameOneRow
      <4>6. CASE r1 \in moved /\ r2 \in moved
            BY <1>0, <4>2, <4>6 DEF IdsNameOneRow
      <4> QED BY <4>3, <4>4, <4>5, <4>6
    <3>2. \A row \in rows' : row.id \notin fresh'
          BY <1>0, <2>0, <2>2, <2>3, <2>4 DEF IdsNameOneRow
    <3> QED BY <3>1, <3>2 DEF IdsNameOneRow
  <2>11. WritesOwnRow'
    <3>1. requests'[q].step # "write"
          BY <2>5, <2>7
    <3>2. \A row \in rows' \ rows : row.id \in handed'
          BY <2>4, <2>8
    <3> QED BY <2>0, <2>7, <2>8, <3>1, <3>2, OthersStillWriteTheirOwn
  <2>12. Isolation
    <3>1. requests'[q].op = "connect" /\ requests'[q].answer = {}
          BY <2>5, <2>7
    <3>2. \A row \in rows' \ rows : row.id \in handed'
          BY <2>4, <2>8
    <3> QED BY <2>7, <3>1, <3>2 DEF Isolation, Isolated
  <2> QED BY <2>9, <2>10, <2>11, <2>12 DEF TenancyInv
<1>10. ASSUME NEW q \in Requests, Write(q) PROVE TenancyInv' /\ Isolation
  <2> DEFINE target == {row \in rows : row.id = requests[q].id}
  <2>0. requests[q] \in RequestRow /\ requests[q].household \in Households /\ requests[q].step = "write"
        BY <1>0, <1>10 DEF TenancyTyped, Write
  <2>1. /\ target \subseteq rows
        /\ \A row \in target : row.household = requests[q].household \/ row.id \in handed
        BY <1>0, <2>0 DEF WritesOwnRow
  <2>2. CASE UNCHANGED <<rows, fresh, handed>> /\ Refuse(q)
        BY <1>1, <2>2
  <2>3. CASE /\ requests[q].op = "update"
             /\ \E old \in target, new \in TenantRow :
                   /\ new.id \in Free \cup {old.id}
                   /\ rows' = (rows \ target) \cup {new}
                   /\ fresh' = fresh \ {new.id}
                   /\ handed' = IF new.id = old.id /\ new.household = old.household
                                THEN handed ELSE handed \cup {old.id, new.id}
                   /\ Respond(q, {new})
    <3>1. PICK old \in target, new \in TenantRow :
                   /\ new.id \in Free \cup {old.id}
                   /\ rows' = (rows \ target) \cup {new}
                   /\ fresh' = fresh \ {new.id}
                   /\ handed' = IF new.id = old.id /\ new.household = old.household
                                THEN handed ELSE handed \cup {old.id, new.id}
                   /\ Respond(q, {new})
          BY <2>3
    <3> DEFINE x == [requests[q] EXCEPT !.step = "answered", !.answer = {new}]
    <3>2. old \in rows /\ old \in TenantRow /\ old.id \in Ids /\ new.id \in Ids /\ old.id = requests[q].id
          BY <1>0, <2>1 DEF TenancyTyped, TenantRow
    <3>3. x \in RequestRow /\ x.step = "answered" /\ x.answer = {new} /\ x.household = requests[q].household
          /\ x.op = "update"
          BY <2>0, <2>3 DEF RequestRow
    <3>4. requests' = [requests EXCEPT ![q] = x]
          BY <1>0, <3>1 DEF Respond, TenancyTyped
    <3> HIDE DEF x
    <3>5. /\ requests' \in [Requests -> RequestRow] /\ requests'[q] = x
          /\ \A p \in Requests \ {q} : requests'[p] = requests[p]
          BY <1>0, <3>3, <3>4, RequestMoved
    <3>6. /\ handed \subseteq handed' /\ handed' \subseteq Ids /\ fresh' \subseteq fresh /\ new.id \notin fresh'
          /\ new.id \in handed' \/ (new.id = old.id /\ new.household = old.household)
          BY <1>0, <3>1, <3>2 DEF TenancyTyped
    <3>7. \A row \in rows \ target : row.id # new.id
      <4>1. CASE new.id = old.id
            BY <3>2, <4>1
      <4>2. CASE new.id \in Free
            BY <4>2 DEF Free
      <4> QED BY <3>1, <4>1, <4>2
    <3>8. TenancyTyped'
          BY <1>0, <2>1, <3>1, <3>3, <3>5, <3>6 DEF TenancyTyped
    <3>9. IdsNameOneRow'
      <4> HIDE DEF target
      <4> QED BY <1>0, <2>1, <3>1, <3>6, <3>7 DEF IdsNameOneRow
    <3>10. WritesOwnRow'
      <4>1. requests'[q].step # "write"
            BY <3>3, <3>5
      <4>2. \A row \in rows' \ rows : row.id \in handed' \/ \E was \in rows : was.id = row.id /\ was.household = row.household
            BY <3>1, <3>2, <3>6
      <4> QED BY <3>5, <3>6, <4>1, <4>2, OthersStillWriteTheirOwn
    <3>11. Isolation
      <4> DEFINE own == requests'[q].household
      <4>1. own = requests[q].household /\ requests'[q].op = "update" /\ requests'[q].answer = {new}
            BY <3>3, <3>5
      <4>2. \A row \in rows \ rows' : row.household = own \/ row.id \in handed
            BY <2>1, <3>1, <4>1
      <4>3. new.household = own \/ new.id \in handed'
            BY <2>1, <3>6, <4>1
      <4>4. \A row \in rows' \ rows : row = new
            BY <3>1
      <4> QED BY <3>5, <4>1, <4>2, <4>3, <4>4 DEF Isolation, Isolated
    <3> QED BY <3>8, <3>9, <3>10, <3>11 DEF TenancyInv
  <2>4. CASE rows' = rows \ target /\ Respond(q, {}) /\ UNCHANGED <<fresh, handed>>
    <3> DEFINE x == [requests[q] EXCEPT !.step = "answered", !.answer = {}]
    <3>1. x \in RequestRow /\ x.step = "answered" /\ x.answer = {} /\ x.household = requests[q].household
          BY <2>0 DEF RequestRow
    <3>2. requests' = [requests EXCEPT ![q] = x]
          BY <1>0, <2>4 DEF Respond, TenancyTyped
    <3> HIDE DEF x
    <3>3. /\ requests' \in [Requests -> RequestRow] /\ requests'[q] = x
          /\ \A p \in Requests \ {q} : requests'[p] = requests[p]
          BY <1>0, <3>1, <3>2, RequestMoved
    <3>4. rows' \subseteq rows /\ \A row \in rows \ rows' : row \in target
          BY <2>4
    <3> HIDE DEF target
    <3>5. TenancyTyped'
          BY <1>0, <2>4, <3>1, <3>3, <3>4 DEF TenancyTyped
    <3>6. IdsNameOneRow'
          BY <1>0, <2>4, <3>4 DEF IdsNameOneRow
    <3>7. WritesOwnRow'
          BY <2>4, <3>1, <3>3, <3>4, OthersStillWriteTheirOwn
    <3>8. Isolation
          BY <2>1, <3>1, <3>3, <3>4 DEF Isolation, Isolated
    <3> QED BY <3>5, <3>6, <3>7, <3>8 DEF TenancyInv
  <2> QED BY <1>10, <2>2, <2>3, <2>4, Zenon DEF Write
<1> QED BY <1>2, <1>3, <1>5, <1>6, <1>7, <1>8, <1>9, <1>10 DEF TenancyNext

\* The other services leave the tables of this one alone.
LEMMA TenancyInvNext == TenancyInv /\ [Next]_servicesVars => TenancyInv' /\ [Isolation]_tenancyVars
<1> SUFFICES ASSUME TenancyInv, [Next]_servicesVars PROVE TenancyInv' /\ [Isolation]_tenancyVars
    OBVIOUS
<1>1. CASE TenancyStep
      BY <1>1, TenancyStepHolds DEF TenancyStep
<1>2. CASE UNCHANGED tenancyVars
      BY <1>2 DEF tenancyVars, TenancyInv, TenancyTyped, IdsNameOneRow, WritesOwnRow
<1>3. TenancyStep \/ UNCHANGED tenancyVars
      BY DEF Next, MilestonesStep, SchoolStep, DigestsStep, PlannerStep, servicesVars
<1> QED BY <1>1, <1>2, <1>3

-----------------------------------------------------------------------------
\* tenant-prisma.ts says that a household never reads or mutates another's rows.  Of
\* the helpers this is true: every answer and every change is of the request's own
\* household, unless the body of an update or a creation named the household or the
\* id of the row, or connects it.
THEOREM OthersAreLeftAlone == Spec => OthersChangeByBodiesOnly
<1>1. Init => TenancyInv
      BY TenancyInitHolds DEF Init
<1>2. TenancyInv /\ [Next]_servicesVars => TenancyInv' /\ [Isolation]_tenancyVars
      BY TenancyInvNext
<1>3. Spec => [][Isolation]_tenancyVars
      BY <1>1, <1>2, PTL DEF Spec
<1> QED BY <1>3 DEF OthersChangeByBodiesOnly, Isolation, Isolated
-----------------------------------------------------------------------------
(* The gates of uploaded documents, for any number of documents, of heads and   *)
(* of decisions in flight: an answered call has left one gate per reason, and a *)
(* gate moves by a decision on that gate only.                                  *)

LEMMA TheReasons ==
    /\ Range(Reasons) = {"PERMISSION_SLIP", "FEE"} /\ Len(Reasons) = 2
    /\ Reasons[1] = "PERMISSION_SLIP" /\ Reasons[2] = "FEE"
BY DEF Reasons, Range

\* The first head is a head.
LEMMA RequesterIsHead ==
    ASSUME NEW named \in Heads \cup {Null}, people \subseteq Heads
    PROVE  Requester(named) \in Heads \cup {Null}
<1>1. CASE people = {} \/ named # Null
      BY <1>1 DEF Requester
<1>2. CASE people # {} /\ named = Null
  <2>1. PICK h \in people : \A k \in people : h <= k
        BY <1>2, SchoolAssumption
  <2>2. Min(people) \in people
        BY <2>1 DEF Min
  <2> QED BY <1>2, <2>2 DEF Requester
<1> QED BY <1>1, <1>2

LEMMA GatesCounted ==
    ASSUME NEW gates, \A a \in gates : a.reason \in Range(Reasons),
           \A a, b \in gates : a.reason = b.reason => a = b
    PROVE  Cardinality(gates) = Cardinality({a.reason : a \in gates})
<1> DEFINE R == {a.reason : a \in gates}
           f == [a \in gates |-> a.reason]
<1>1. IsFiniteSet({"PERMISSION_SLIP", "FEE"})
  <2>1. IsFiniteSet({"PERMISSION_SLIP"})
        BY FS_Singleton
  <2>2. {"PERMISSION_SLIP", "FEE"} = {"PERMISSION_SLIP"} \cup {"FEE"}
        OBVIOUS
  <2> QED BY <2>1, <2>2, FS_AddElement
<1>2. R \in SUBSET {"PERMISSION_SLIP", "FEE"}
      BY TheReasons
<1>3. IsFiniteSet(R)
      BY <1>1, <1>2, FS_Subset
<1>4. f \in Injection(gates, R) /\ f \in Surjection(gates, R)
  <2>1. f \in [gates -> R]
        OBVIOUS
  <2>2. \A a, b \in gates : f[a] = f[b] => a = b
        OBVIOUS
  <2>3. \A r \in R : \E a \in gates : f[a] = r
        OBVIOUS
  <2> HIDE DEF R, f
  <2> QED BY <2>1, <2>2, <2>3 DEF Injection, Surjection, IsInjective
<1> HIDE DEF R, f
<1>5. Cardinality(gates) = Cardinality(R)
      BY <1>3, <1>4, FS_Injection
<1> QED BY <1>5 DEF R

-----------------------------------------------------------------------------
(* The invariant.                                                           *)

UploadRow ==
    [step : {"none", "requester", "task", "gates", "done", "failed"}, flags : SUBSET Range(Reasons),
     by : Heads \cup {Null}, gate : 1 .. 3]

DecisionRow ==
    {Null} \cup [task : Uploads, reason : Range(Reasons), decision : Decisions, who : Heads]

SchoolTyped ==
    /\ people \subseteq Heads
    /\ uploads \in [Uploads -> UploadRow]
    /\ approvals \subseteq ApprovalRow
    /\ deciding \in [Deciders -> DecisionRow]

\* The call comes to its gates after its task, and to its answer after its gates.
StepsInOrder ==
    \A u \in Uploads :
        /\ uploads[u].step \in {"none", "requester", "task"} => uploads[u].gate = 1
        /\ uploads[u].step \in {"gates", "done"} =>
              [upload |-> u, needsApproval |-> uploads[u].flags # {}] \in tasks
        /\ uploads[u].step = "done" => uploads[u].gate = 3

\* A gate is one the call has come past, asked for by the one the call found, who
\* is still there; its task was marked, and its reason is in the document.
GateIsSound(a) ==
    LET c == uploads[a.task]
    IN  /\ \E k \in 1 .. 2 : k < c.gate /\ a.reason = Reasons[k]
        /\ a.reason \in c.flags
        /\ a.by = c.by /\ a.by \in people
        /\ [upload |-> a.task, needsApproval |-> TRUE] \in tasks

\* No two gates of a document are for the same reason.
OnePerReason == \A a, b \in approvals : a.task = b.task /\ a.reason = b.reason => a = b

\* What the call has come past has its gate, as long as the one who asks is there.
NoneForgotten ==
    \A u \in Uploads, k \in 1 .. 2 :
        /\ uploads[u].step \in {"gates", "done"} /\ k < uploads[u].gate
        /\ Reasons[k] \in uploads[u].flags /\ uploads[u].by \in people
        => \E a \in approvals : a.task = u /\ a.reason = Reasons[k]

SchoolInv ==
    /\ SchoolTyped /\ StepsInOrder /\ OnePerReason /\ NoneForgotten
    /\ \A a \in approvals : GateIsSound(a)

\* What the property says of one step.
Moves ==
    \A a \in approvals : \A b \in approvals' :
        /\ a.task = b.task /\ a.reason = b.reason /\ a.status # b.status
        => \E d \in Deciders : /\ deciding[d] # Null /\ deciding'[d] = Null
                               /\ deciding[d].task = a.task /\ deciding[d].reason = a.reason
                               /\ b.status = deciding[d].decision /\ b.decidedBy = deciding[d].who

LEMMA InvGivesFlags == SchoolInv => GatesMatchFlags
<1> SUFFICES ASSUME SchoolInv PROVE GatesMatchFlags
    OBVIOUS
<1>1. ASSUME NEW u \in Uploads
      PROVE  LET gates == {a \in approvals : a.task = u}
             IN  /\ Cardinality(gates) = Cardinality({a.reason : a \in gates})
                 /\ uploads[u].step = "done" =>
                       {a.reason : a \in gates} = IF uploads[u].by \in people THEN uploads[u].flags ELSE {}
  <2> DEFINE gates == {a \in approvals : a.task = u}
  <2>1. \A a \in gates : a.reason \in Range(Reasons)
        BY DEF SchoolInv, SchoolTyped, ApprovalRow
  <2>2. \A a, b \in gates : a.reason = b.reason => a = b
        BY DEF SchoolInv, OnePerReason
  <2>3. Cardinality(gates) = Cardinality({a.reason : a \in gates})
        BY <2>1, <2>2, GatesCounted
  <2>4. ASSUME uploads[u].step = "done"
        PROVE  {a.reason : a \in gates} = IF uploads[u].by \in people THEN uploads[u].flags ELSE {}
    <3>1. uploads[u].flags \subseteq Range(Reasons) /\ uploads[u].gate = 3
          BY <2>4 DEF SchoolInv, SchoolTyped, UploadRow, StepsInOrder
    <3>2. \A a \in gates : a.reason \in uploads[u].flags /\ uploads[u].by \in people
          BY DEF SchoolInv, GateIsSound
    <3>3. ASSUME uploads[u].by \in people, NEW r \in uploads[u].flags
          PROVE  \E a \in gates : a.reason = r
      <4>1. PICK k \in 1 .. 2 : r = Reasons[k]
            BY <3>1, TheReasons
      <4>2. k < uploads[u].gate
            BY <3>1
      <4> QED BY <2>4, <3>3, <4>1, <4>2 DEF SchoolInv, NoneForgotten
    <3> HIDE DEF gates
    <3> QED BY <3>2, <3>3
  <2> QED BY <2>3, <2>4
<1>2. \A a \in approvals : /\ [upload |-> a.task, needsApproval |-> TRUE] \in tasks
                           /\ a.reason \in uploads[a.task].flags
      BY DEF SchoolInv, GateIsSound
<1> QED BY <1>1, <1>2 DEF GatesMatchFlags

LEMMA SchoolInitHolds == SchoolInit => SchoolInv
<1> SUFFICES ASSUME SchoolInit PROVE SchoolInv
    OBVIOUS
<1>1. Unread \in UploadRow
      BY DEF Unread, UploadRow
<1>2. SchoolTyped
      BY <1>1 DEF SchoolInit, SchoolTyped, DecisionRow
<1>3. \A u \in Uploads : uploads[u].step = "none" /\ uploads[u].gate = 1
      BY DEF SchoolInit, Unread
<1>4. StepsInOrder /\ OnePerReason /\ NoneForgotten
      BY <1>3 DEF SchoolInit, StepsInOrder, OnePerReason, NoneForgotten
<1> QED BY <1>2, <1>4 DEF SchoolInit, SchoolInv

-----------------------------------------------------------------------------
(* The steps.                                                               *)

\* A call may come to x without opening a gate.
MayComeTo(u, x) ==
    /\ deciding' = deciding
    /\ tasks \subseteq tasks'
    /\ x.gate >= uploads[u].gate
    /\ uploads[u].gate = 1 \/ (x.flags = uploads[u].flags /\ x.by = uploads[u].by)
    /\ x.step \in {"none", "requester", "task"} => x.gate = 1
    /\ x.step \in {"gates", "done"} => [upload |-> u, needsApproval |-> x.flags # {}] \in tasks'
    /\ x.step = "done" => x.gate = 3
    /\ \A k \in 1 .. 2 :
           x.step \in {"gates", "done"} /\ k < x.gate /\ Reasons[k] \in x.flags /\ x.by \in people
           => \E a \in approvals : a.task = u /\ a.reason = Reasons[k]

LEMMA SchoolCallMoves ==
    ASSUME SchoolInv, NEW u \in Uploads, NEW x, x \in UploadRow, MayComeTo(u, x),
           uploads' = [uploads EXCEPT ![u] = x],
           people' = people, approvals' = approvals
    PROVE  SchoolInv' /\ Moves
<1> USE DEF MayComeTo
<1>1. uploads' \in [Uploads -> UploadRow] /\ uploads'[u] = x
      /\ \A v \in Uploads \ {u} : uploads'[v] = uploads[v]
      BY DEF SchoolInv, SchoolTyped
<1>2. SchoolTyped'
      BY <1>1 DEF SchoolInv, SchoolTyped
<1>3. StepsInOrder'
      BY <1>1 DEF SchoolInv, StepsInOrder
<1>4. OnePerReason' /\ Moves
      BY DEF SchoolInv, OnePerReason, Moves
<1>5. NoneForgotten'
  <2> SUFFICES ASSUME NEW v \in Uploads, NEW k \in 1 .. 2,
                      uploads'[v].step \in {"gates", "done"}, k < uploads'[v].gate,
                      Reasons[k] \in uploads'[v].flags, uploads'[v].by \in people
               PROVE  \E a \in approvals : a.task = v /\ a.reason = Reasons[k]
      BY DEF NoneForgotten
  <2>1. CASE v = u
        BY <1>1, <2>1
  <2>2. CASE v # u
        BY <1>1, <2>2 DEF SchoolInv, NoneForgotten
  <2> QED BY <2>1, <2>2
<1>6. ASSUME NEW a \in approvals PROVE GateIsSound(a)'
  <2>1. a.task \in Uploads /\ GateIsSound(a)
        BY DEF SchoolInv, SchoolTyped, ApprovalRow
  <2>2. CASE a.task # u
        BY <1>1, <2>1, <2>2 DEF GateIsSound
  <2>3. CASE a.task = u
    <3>1. PICK k \in 1 .. 2 : k < uploads[u].gate /\ a.reason = Reasons[k]
          BY <2>1, <2>3 DEF GateIsSound
    <3>2. uploads[u].gate \in 1 .. 3 /\ x.gate \in 1 .. 3
          BY DEF SchoolInv, SchoolTyped, UploadRow
    <3>3. k < x.gate /\ uploads[u].gate # 1
          BY <3>1, <3>2
    <3> QED BY <1>1, <2>1, <2>3, <3>1, <3>3 DEF GateIsSound
  <2> QED BY <2>2, <2>3
<1> QED BY <1>2, <1>3, <1>4, <1>5, <1>6 DEF SchoolInv

LEMMA SchoolStepHolds == SchoolInv /\ SchoolNext => SchoolInv' /\ Moves
<1> SUFFICES ASSUME SchoolInv, SchoolNext PROVE SchoolInv' /\ Moves
    OBVIOUS
<1>0. SchoolTyped /\ StepsInOrder /\ OnePerReason /\ NoneForgotten /\ \A a \in approvals : GateIsSound(a)
      BY DEF SchoolInv
<1>1. ASSUME NEW u \in Uploads, Upload(u) PROVE SchoolInv' /\ Moves
  <2>0. uploads[u] \in UploadRow /\ uploads[u].step = "none" /\ uploads[u].gate = 1
        /\ people' = people /\ deciding' = deciding /\ tasks' = tasks /\ approvals' = approvals
        BY <1>0, <1>1 DEF SchoolTyped, StepsInOrder, Upload
  <2>1. CASE \E flags \in SUBSET Range(Reasons), by \in people \cup {Null} :
                uploads' = [uploads EXCEPT ![u] =
                    [step |-> "requester", flags |-> flags, by |-> by, gate |-> 1]]
    <3>1. PICK flags \in SUBSET Range(Reasons), by \in people \cup {Null} :
                uploads' = [uploads EXCEPT ![u] =
                    [step |-> "requester", flags |-> flags, by |-> by, gate |-> 1]]
          BY <2>1, Zenon
    <3> DEFINE x == [step |-> "requester", flags |-> flags, by |-> by, gate |-> 1]
    <3>2. x \in UploadRow /\ x.step = "requester" /\ x.gate = 1 /\ uploads' = [uploads EXCEPT ![u] = x]
          BY <1>0, <3>1 DEF UploadRow, SchoolTyped
    <3> HIDE DEF x
    <3>m. MayComeTo(u, x)
          BY <2>0, <3>2 DEF MayComeTo
    <3> QED BY <2>0, <3>2, <3>m, SchoolCallMoves
  <2>2. CASE uploads' = [uploads EXCEPT ![u].step = "failed"]
    <3> DEFINE x == [uploads[u] EXCEPT !.step = "failed"]
    <3>1. x \in UploadRow /\ x.step = "failed" /\ x.gate = 1
          BY <2>0 DEF UploadRow
    <3>2. uploads' = [uploads EXCEPT ![u] = x]
          BY <1>0, <2>2 DEF SchoolTyped
    <3> HIDE DEF x
    <3>m. MayComeTo(u, x)
          BY <2>0, <3>1, <3>2 DEF MayComeTo
    <3> QED BY <2>0, <3>1, <3>2, <3>m, SchoolCallMoves
  <2> QED BY <1>1, <2>1, <2>2 DEF Upload
<1>2. ASSUME NEW u \in Uploads, ResolveRequester(u) PROVE SchoolInv' /\ Moves
  <2>0. uploads[u] \in UploadRow /\ uploads[u].step = "requester" /\ uploads[u].gate = 1
        /\ people' = people /\ deciding' = deciding /\ tasks' = tasks /\ approvals' = approvals
        BY <1>0, <1>2 DEF SchoolTyped, StepsInOrder, ResolveRequester
  <2> DEFINE x == [uploads[u] EXCEPT !.step = "task", !.by = Requester(uploads[u].by)]
  <2>1. Requester(uploads[u].by) \in Heads \cup {Null}
        BY <1>0, <2>0, RequesterIsHead DEF SchoolTyped, UploadRow
  <2>2. x \in UploadRow /\ x.step = "task" /\ x.gate = 1
        BY <2>0, <2>1 DEF UploadRow
  <2>3. uploads' = [uploads EXCEPT ![u] = x]
        BY <1>0, <1>2 DEF SchoolTyped, ResolveRequester
  <2> HIDE DEF x
  <2>m. MayComeTo(u, x)
        BY <2>0, <2>2, <2>3 DEF MayComeTo
  <2> QED BY <2>0, <2>2, <2>3, <2>m, SchoolCallMoves
<1>3. ASSUME NEW u \in Uploads, CreateTask(u) PROVE SchoolInv' /\ Moves
  <2>0. uploads[u] \in UploadRow /\ uploads[u].step = "task" /\ uploads[u].gate = 1
        /\ people' = people /\ deciding' = deciding /\ approvals' = approvals /\ tasks \subseteq tasks'
        BY <1>0, <1>3 DEF SchoolTyped, StepsInOrder, CreateTask
  <2>1. CASE /\ uploads' = [uploads EXCEPT ![u].step = "gates"]
             /\ tasks' = tasks \cup {[upload |-> u, needsApproval |-> uploads[u].flags # {}]}
    <3> DEFINE x == [uploads[u] EXCEPT !.step = "gates"]
    <3>1. x \in UploadRow /\ x.step = "gates" /\ x.gate = 1 /\ x.flags = uploads[u].flags
          BY <2>0 DEF UploadRow
    <3>2. uploads' = [uploads EXCEPT ![u] = x]
          BY <1>0, <2>1 DEF SchoolTyped
    <3>3. [upload |-> u, needsApproval |-> x.flags # {}] \in tasks'
          BY <2>1, <3>1
    <3> HIDE DEF x
    <3>m. MayComeTo(u, x)
          BY <2>0, <3>1, <3>2, <3>3 DEF MayComeTo
    <3> QED BY <2>0, <3>1, <3>2, <3>3, <3>m, SchoolCallMoves
  <2>2. CASE uploads' = [uploads EXCEPT ![u].step = "failed"]
    <3> DEFINE x == [uploads[u] EXCEPT !.step = "failed"]
    <3>1. x \in UploadRow /\ x.step = "failed" /\ x.gate = 1
          BY <2>0 DEF UploadRow
    <3>2. uploads' = [uploads EXCEPT ![u] = x]
          BY <1>0, <2>2 DEF SchoolTyped
    <3> HIDE DEF x
    <3>m. MayComeTo(u, x)
          BY <2>0, <3>1, <3>2 DEF MayComeTo
    <3> QED BY <2>0, <3>1, <3>2, <3>m, SchoolCallMoves
  <2> QED BY <1>3, <2>1, <2>2 DEF CreateTask
<1>4. ASSUME NEW u \in Uploads, Answer(u) PROVE SchoolInv' /\ Moves
  <2>0. uploads[u] \in UploadRow /\ uploads[u].step = "gates" /\ uploads[u].gate = 3
        /\ people' = people /\ deciding' = deciding /\ tasks' = tasks /\ approvals' = approvals
        BY <1>0, <1>4, TheReasons DEF SchoolTyped, Answer, UploadRow
  <2> DEFINE x == [uploads[u] EXCEPT !.step = "done"]
  <2>1. x \in UploadRow /\ x.step = "done" /\ x.gate = 3 /\ x.flags = uploads[u].flags /\ x.by = uploads[u].by
        BY <2>0 DEF UploadRow
  <2>2. uploads' = [uploads EXCEPT ![u] = x]
        BY <1>0, <1>4 DEF SchoolTyped, Answer
  <2>3. [upload |-> u, needsApproval |-> x.flags # {}] \in tasks'
        BY <1>0, <2>0, <2>1 DEF StepsInOrder
  <2>4. \A k \in 1 .. 2 : Reasons[k] \in x.flags /\ x.by \in people
            => \E a \in approvals : a.task = u /\ a.reason = Reasons[k]
        BY <1>0, <2>0, <2>1 DEF NoneForgotten
  <2> HIDE DEF x
  <2>m. MayComeTo(u, x)
        BY <2>0, <2>1, <2>2, <2>3, <2>4 DEF MayComeTo
  <2> QED BY <2>0, <2>1, <2>2, <2>3, <2>4, <2>m, SchoolCallMoves
<1>5. ASSUME NEW u \in Uploads, OpenGate(u) PROVE SchoolInv' /\ Moves
  <2> DEFINE k == uploads[u].gate
             reason == Reasons[k]
             row == [task |-> u, reason |-> reason, by |-> uploads[u].by,
                     status |-> "PENDING", decidedBy |-> Null]
             next == [uploads[u] EXCEPT !.gate = k + 1]
  <2>0. /\ uploads[u] \in UploadRow /\ uploads[u].step = "gates" /\ k \in 1 .. 2
        /\ people' = people /\ deciding' = deciding /\ tasks' = tasks
        BY <1>0, <1>5, TheReasons DEF SchoolTyped, OpenGate, UploadRow
  <2>1. \/ ~Wanted(uploads[u], reason) /\ uploads' = [uploads EXCEPT ![u].gate = @ + 1] /\ approvals' = approvals
        \/ /\ Wanted(uploads[u], reason) /\ uploads[u].by \in people
           /\ uploads' = [uploads EXCEPT ![u].gate = @ + 1] /\ approvals' = approvals \cup {row}
        \/ uploads' = [uploads EXCEPT ![u].step = "failed"] /\ approvals' = approvals
        BY <1>5 DEF OpenGate
  <2>2. /\ next \in UploadRow /\ next.step = "gates" /\ next.gate = k + 1
        /\ next.flags = uploads[u].flags /\ next.by = uploads[u].by
        BY <2>0 DEF UploadRow
  <2>3. uploads' = [uploads EXCEPT ![u].gate = @ + 1] => uploads' = [uploads EXCEPT ![u] = next]
        BY <1>0 DEF SchoolTyped
  <2>4. [upload |-> u, needsApproval |-> uploads[u].flags # {}] \in tasks
        BY <1>0, <2>0 DEF StepsInOrder
  <2>5. \A j \in 1 .. 2 : j < k /\ Reasons[j] \in uploads[u].flags /\ uploads[u].by \in people
            => \E a \in approvals : a.task = u /\ a.reason = Reasons[j]
        BY <1>0, <2>0 DEF NoneForgotten
  <2>6. \A a \in approvals : a.task = u => \E j \in 1 .. 2 : j < k /\ a.reason = Reasons[j]
        BY <1>0 DEF GateIsSound
  <2>7. CASE ~Wanted(uploads[u], reason) /\ uploads' = [uploads EXCEPT ![u].gate = @ + 1] /\ approvals' = approvals
    <3>1. ~(Reasons[k] \in uploads[u].flags /\ uploads[u].by \in people)
          BY <1>0, <2>7, SchoolAssumption DEF Wanted, SchoolTyped
    <3>2. MayComeTo(u, next)
      <4> HIDE DEF next
      <4> QED BY <2>0, <2>2, <2>4, <2>5, <3>1 DEF MayComeTo
    <3> HIDE DEF next
    <3> QED BY <2>0, <2>2, <2>3, <2>7, <3>2, SchoolCallMoves
  <2>8. CASE uploads' = [uploads EXCEPT ![u].step = "failed"] /\ approvals' = approvals
    <3> DEFINE x == [uploads[u] EXCEPT !.step = "failed"]
    <3>1. /\ x \in UploadRow /\ x.step = "failed" /\ x.gate = uploads[u].gate
          /\ x.flags = uploads[u].flags /\ x.by = uploads[u].by
          BY <2>0 DEF UploadRow
    <3>2. uploads' = [uploads EXCEPT ![u] = x]
          BY <1>0, <2>8 DEF SchoolTyped
    <3> HIDE DEF x
    <3>3. MayComeTo(u, x)
          BY <2>0, <3>1 DEF MayComeTo
    <3> QED BY <2>0, <2>8, <3>1, <3>2, <3>3, SchoolCallMoves
  <2>9. CASE /\ Wanted(uploads[u], reason) /\ uploads[u].by \in people
             /\ uploads' = [uploads EXCEPT ![u].gate = @ + 1] /\ approvals' = approvals \cup {row}
    <3>1. reason \in uploads[u].flags /\ reason \in Range(Reasons)
          BY <2>0, <2>9, TheReasons DEF Wanted
    <3>2. /\ row \in ApprovalRow /\ row.task = u /\ row.reason = reason /\ row.by = uploads[u].by
          /\ row.status = "PENDING"
          BY <1>0, <2>9, <3>1 DEF ApprovalRow, SchoolTyped
    <3>3. \A a \in approvals : a.task = u => a.reason # reason
          BY <2>0, <2>6, TheReasons
    <3>4. approvals' = approvals \cup {row} /\ uploads[u].by \in people
          BY <2>9
    <3> HIDE DEF row, next
    <3>5. /\ uploads' \in [Uploads -> UploadRow] /\ uploads'[u] = next
          /\ \A v \in Uploads \ {u} : uploads'[v] = uploads[v]
          BY <1>0, <2>2, <2>3, <2>9 DEF SchoolTyped
    <3>6. SchoolTyped'
          BY <1>0, <2>0, <3>2, <3>4, <3>5 DEF SchoolTyped
    <3>7. StepsInOrder'
          BY <1>0, <2>0, <2>2, <2>4, <3>5 DEF StepsInOrder
    <3>8. OnePerReason'
          BY <1>0, <3>2, <3>3, <3>4 DEF OnePerReason
    <3>9. Moves
          BY <1>0, <3>2, <3>3, <3>4 DEF OnePerReason, Moves
    <3>10. NoneForgotten'
      <4> SUFFICES ASSUME NEW v \in Uploads, NEW j \in 1 .. 2,
                          uploads'[v].step \in {"gates", "done"}, j < uploads'[v].gate,
                          Reasons[j] \in uploads'[v].flags, uploads'[v].by \in people'
                   PROVE  \E a \in approvals' : a.task = v /\ a.reason = Reasons[j]
          BY DEF NoneForgotten
      <4>1. CASE v # u
            BY <1>0, <2>0, <3>4, <3>5, <4>1 DEF NoneForgotten
      <4>2. CASE v = u /\ j = k
            BY <3>2, <3>4, <4>2
      <4>3. CASE v = u /\ j # k
        <5>1. j < k /\ Reasons[j] \in uploads[u].flags /\ uploads[u].by \in people
              BY <2>0, <2>2, <3>5, <4>3
        <5> QED BY <2>5, <3>4, <4>3, <5>1
      <4> QED BY <4>1, <4>2, <4>3
    <3>11. ASSUME NEW a \in approvals' PROVE GateIsSound(a)'
      <4>1. CASE a \in approvals
        <5>1. GateIsSound(a) /\ a.task \in Uploads
              BY <1>0, <4>1 DEF SchoolTyped, ApprovalRow
        <5>2. /\ uploads'[a.task].flags = uploads[a.task].flags
              /\ uploads'[a.task].by = uploads[a.task].by
              /\ \A j \in 1 .. 2 : j < uploads[a.task].gate => j < uploads'[a.task].gate
              BY <2>0, <2>2, <3>5, <5>1
        <5> QED BY <2>0, <5>1, <5>2 DEF GateIsSound
      <4>2. CASE a = row
        <5>1. k < uploads'[a.task].gate /\ a.reason = Reasons[k]
              BY <2>0, <2>2, <3>2, <3>5, <4>2
        <5>2. [upload |-> u, needsApproval |-> TRUE] \in tasks
              BY <2>4, <3>1
        <5> QED BY <2>0, <2>2, <3>1, <3>2, <3>4, <3>5, <4>2, <5>1, <5>2 DEF GateIsSound
      <4> QED BY <3>4, <4>1, <4>2
    <3> QED BY <3>6, <3>7, <3>8, <3>9, <3>10, <3>11 DEF SchoolInv
  <2> QED BY <2>1, <2>7, <2>8, <2>9
<1>6. ASSUME NEW d \in Deciders, ReadGate(d) PROVE SchoolInv' /\ Moves
  <2>1. UNCHANGED <<people, uploads, tasks, approvals>>
        BY <1>6 DEF ReadGate
  <2>2. PICK a \in approvals, decision \in Decisions, who \in people :
            deciding' = [deciding EXCEPT ![d] =
                [task |-> a.task, reason |-> a.reason, decision |-> decision, who |-> who]]
        BY <1>6, Zenon DEF ReadGate
  <2>3. [task |-> a.task, reason |-> a.reason, decision |-> decision, who |-> who] \in DecisionRow
        BY <1>0 DEF DecisionRow, SchoolTyped, ApprovalRow
  <2>4. deciding' \in [Deciders -> DecisionRow]
        BY <1>0, <2>2, <2>3 DEF SchoolTyped
  <2> QED BY <1>0, <2>1, <2>4 DEF SchoolInv, SchoolTyped, StepsInOrder, OnePerReason, NoneForgotten, GateIsSound, Moves
<1>7. ASSUME NEW d \in Deciders, WriteDecision(d) PROVE SchoolInv' /\ Moves
  <2>0. /\ deciding[d] # Null /\ deciding' = [deciding EXCEPT ![d] = Null]
        /\ people' = people /\ uploads' = uploads /\ tasks' = tasks
        BY <1>7 DEF WriteDecision
  <2>1. deciding'[d] = Null /\ deciding' \in [Deciders -> DecisionRow]
        BY <1>0, <2>0 DEF SchoolTyped, DecisionRow
  <2>2. deciding[d].decision \in Decisions
        BY <1>0, <2>0 DEF SchoolTyped, DecisionRow
  <2> DEFINE Decided(a) == IF IsGate(a, d)
                           THEN [a EXCEPT !.status = deciding[d].decision, !.decidedBy = deciding[d].who]
                           ELSE a
  <2>3. CASE approvals' = approvals
        BY <1>0, <2>0, <2>1, <2>3
        DEF SchoolInv, SchoolTyped, StepsInOrder, OnePerReason, NoneForgotten, GateIsSound, Moves
  <2>4. CASE deciding[d].who \in people /\ approvals' = {Decided(a) : a \in approvals}
    <3>1. ASSUME NEW a \in approvals
          PROVE  /\ Decided(a) \in ApprovalRow
                 /\ Decided(a).task = a.task /\ Decided(a).reason = a.reason /\ Decided(a).by = a.by
                 /\ Decided(a).status # a.status =>
                       /\ IsGate(a, d) /\ Decided(a).status = deciding[d].decision
                       /\ Decided(a).decidedBy = deciding[d].who
          BY <1>0, <2>2, <2>4 DEF SchoolTyped, ApprovalRow
    <3>2. \A b \in approvals' : \E a \in approvals : b = Decided(a)
          BY <2>4
    <3>3. \A a \in approvals : Decided(a) \in approvals'
          BY <2>4
    <3> HIDE DEF Decided
    <3>4. SchoolTyped'
          BY <1>0, <2>0, <2>1, <3>1, <3>2 DEF SchoolTyped
    <3>5. StepsInOrder'
          BY <1>0, <2>0 DEF StepsInOrder
    <3>6. OnePerReason'
          BY <1>0, <3>1, <3>2 DEF OnePerReason
    <3>7. NoneForgotten'
          BY <1>0, <2>0, <3>1, <3>3 DEF NoneForgotten
    <3>8. ASSUME NEW b \in approvals' PROVE GateIsSound(b)'
      <4>1. PICK a \in approvals : b = Decided(a)
            BY <3>2
      <4> QED BY <1>0, <2>0, <3>1, <4>1 DEF GateIsSound
    <3>9. Moves
      <4> SUFFICES ASSUME NEW a \in approvals, NEW b \in approvals',
                          a.task = b.task, a.reason = b.reason, a.status # b.status
                   PROVE  /\ deciding[d].task = a.task /\ deciding[d].reason = a.reason
                          /\ b.status = deciding[d].decision /\ b.decidedBy = deciding[d].who
          BY <2>0, <2>1 DEF Moves
      <4>1. PICK c \in approvals : b = Decided(c)
            BY <3>2
      <4>2. c = a
            BY <1>0, <3>1, <4>1 DEF OnePerReason
      <4> QED BY <3>1, <4>1, <4>2 DEF IsGate
    <3> QED BY <3>4, <3>5, <3>6, <3>7, <3>8, <3>9 DEF SchoolInv
  <2> QED BY <1>7, <2>3, <2>4 DEF WriteDecision
<1>8. ASSUME NEW h \in Heads, RemoveHead(h) PROVE SchoolInv' /\ Moves
  <2> DEFINE Orphaned(a) == [a EXCEPT !.decidedBy = IF @ = h THEN Null ELSE @]
  <2>0. /\ people' = people \ {h} /\ uploads' = uploads /\ tasks' = tasks /\ deciding' = deciding
        /\ approvals' = {Orphaned(a) : a \in {b \in approvals : b.by # h}}
        BY <1>8 DEF RemoveHead
  <2>1. ASSUME NEW a \in approvals
        PROVE  /\ Orphaned(a) \in ApprovalRow
               /\ Orphaned(a).task = a.task /\ Orphaned(a).reason = a.reason
               /\ Orphaned(a).by = a.by /\ Orphaned(a).status = a.status
        BY <1>0 DEF SchoolTyped, ApprovalRow
  <2>2. \A b \in approvals' : \E a \in approvals : a.by # h /\ b = Orphaned(a)
        BY <2>0
  <2>3. \A a \in approvals : a.by # h => Orphaned(a) \in approvals'
        BY <2>0
  <2> HIDE DEF Orphaned
  <2>4. SchoolTyped'
        BY <1>0, <2>0, <2>1, <2>2 DEF SchoolTyped
  <2>5. StepsInOrder'
        BY <1>0, <2>0 DEF StepsInOrder
  <2>6. OnePerReason'
        BY <1>0, <2>1, <2>2 DEF OnePerReason
  <2>7. NoneForgotten'
    <3> SUFFICES ASSUME NEW u \in Uploads, NEW k \in 1 .. 2,
                        uploads[u].step \in {"gates", "done"}, k < uploads[u].gate,
                        Reasons[k] \in uploads[u].flags, uploads[u].by \in people \ {h}
                 PROVE  \E b \in approvals' : b.task = u /\ b.reason = Reasons[k]
        BY <2>0 DEF NoneForgotten
    <3>1. PICK a \in approvals : a.task = u /\ a.reason = Reasons[k]
          BY <1>0 DEF NoneForgotten
    <3>2. a.by # h
          BY <1>0, <3>1 DEF GateIsSound
    <3> QED BY <2>1, <2>3, <3>1, <3>2
  <2>8. ASSUME NEW b \in approvals' PROVE GateIsSound(b)'
    <3>1. PICK a \in approvals : a.by # h /\ b = Orphaned(a)
          BY <2>2
    <3> QED BY <1>0, <2>0, <2>1, <3>1 DEF GateIsSound
  <2>9. Moves
    <3> SUFFICES ASSUME NEW a \in approvals, NEW b \in approvals', a.task = b.task, a.reason = b.reason
                 PROVE  a.status = b.status
        BY DEF Moves
    <3>1. PICK c \in approvals : b = Orphaned(c)
          BY <2>2
    <3>2. c = a
          BY <1>0, <2>1, <3>1 DEF OnePerReason
    <3> QED BY <2>1, <3>1, <3>2
  <2> QED BY <2>4, <2>5, <2>6, <2>7, <2>8, <2>9 DEF SchoolInv
<1> QED BY <1>1, <1>2, <1>3, <1>4, <1>5, <1>6, <1>7, <1>8 DEF SchoolNext

\* The other services leave the tables of this one alone.
LEMMA SchoolInvNext == SchoolInv /\ [Next]_servicesVars => SchoolInv' /\ [Moves]_schoolVars
<1> SUFFICES ASSUME SchoolInv, [Next]_servicesVars PROVE SchoolInv' /\ [Moves]_schoolVars
    OBVIOUS
<1>1. CASE SchoolStep
      BY <1>1, SchoolStepHolds DEF SchoolStep
<1>2. CASE UNCHANGED schoolVars
      BY <1>2 DEF schoolVars, SchoolInv, SchoolTyped, StepsInOrder, OnePerReason, NoneForgotten, GateIsSound
<1>3. SchoolStep \/ UNCHANGED schoolVars
      BY DEF Next, MilestonesStep, DigestsStep, PlannerStep, TenancyStep, servicesVars
<1> QED BY <1>1, <1>2, <1>3

-----------------------------------------------------------------------------
\* school.service.ts processDocument: an answered call has left one gate for each
\* reason it found, at a task that is marked, whatever fails, is decided or leaves.
THEOREM GatesAreWhole == Spec => []GatesMatchFlags
<1>1. Init => SchoolInv
      BY SchoolInitHolds DEF Init
<1>2. SchoolInv /\ [Next]_servicesVars => SchoolInv'
      BY SchoolInvNext
<1> QED BY <1>1, <1>2, InvGivesFlags, PTL DEF Spec

\* approvals.service.ts decide: a gate changes by a decision on that very gate, with
\* the decider's name on it, although decisions overlap and heads leave.
THEOREM DecisionsMoveGates == Spec => GateMovesByDecision
<1>1. Init => SchoolInv
      BY SchoolInitHolds DEF Init
<1>2. Spec => [][Moves]_schoolVars
      BY <1>1, SchoolInvNext, PTL DEF Spec
<1> QED BY <1>2 DEF GateMovesByDecision, Moves
-----------------------------------------------------------------------------
(* The milestones of seasonal projects, for any number of projects, of          *)
(* overlapping runs of the job and of failures: four or none, never fired       *)
(* early, never fired before those that lead up to them.                        *)

StageNames == {"PREP_30D", "ASSET_CHECK_14D", "FINAL_48H", "JIT_15M"}

LEMMA TheStages ==
    /\ Range(Stages) = StageNames /\ Len(Stages) = 4 /\ DOMAIN Stages = 1 .. 4
    /\ Stages[1] = "PREP_30D" /\ Stages[2] = "ASSET_CHECK_14D"
    /\ Stages[3] = "FINAL_48H" /\ Stages[4] = "JIT_15M"
BY DEF Stages, StageNames, Range

LEMMA StagesCounted == IsFiniteSet(StageNames) /\ Cardinality(StageNames) = 4
<1>1. IsFiniteSet({"PREP_30D"}) /\ Cardinality({"PREP_30D"}) = 1
      BY FS_Singleton
<1>2. /\ IsFiniteSet({"PREP_30D"} \cup {"ASSET_CHECK_14D"})
      /\ Cardinality({"PREP_30D"} \cup {"ASSET_CHECK_14D"}) = 2
      BY <1>1, FS_AddElement
<1>3. /\ IsFiniteSet(({"PREP_30D"} \cup {"ASSET_CHECK_14D"}) \cup {"FINAL_48H"})
      /\ Cardinality(({"PREP_30D"} \cup {"ASSET_CHECK_14D"}) \cup {"FINAL_48H"}) = 3
      BY <1>2, FS_AddElement
<1>4. /\ IsFiniteSet((({"PREP_30D"} \cup {"ASSET_CHECK_14D"}) \cup {"FINAL_48H"}) \cup {"JIT_15M"})
      /\ Cardinality((({"PREP_30D"} \cup {"ASSET_CHECK_14D"}) \cup {"FINAL_48H"}) \cup {"JIT_15M"}) = 4
      BY <1>3, FS_AddElement
<1>5. StageNames = (({"PREP_30D"} \cup {"ASSET_CHECK_14D"}) \cup {"FINAL_48H"}) \cup {"JIT_15M"}
      BY DEF StageNames
<1> QED BY <1>4, <1>5

\* A project that has one row for each stage has four.
LEMMA RowsCounted ==
    ASSUME NEW mine, \A m \in mine : m.stage \in StageNames,
           \A m, k \in mine : m.stage = k.stage => m = k,
           \A s \in StageNames : \E m \in mine : m.stage = s
    PROVE  Cardinality(mine) = 4
<1> DEFINE f == [m \in mine |-> m.stage]
<1>1. f \in [mine -> StageNames]
      OBVIOUS
<1>2. \A m, k \in mine : f[m] = f[k] => m = k
      OBVIOUS
<1>3. \A s \in StageNames : \E m \in mine : f[m] = s
      OBVIOUS
<1> HIDE DEF f
<1>4. f \in Injection(mine, StageNames) /\ f \in Surjection(mine, StageNames)
      BY <1>1, <1>2, <1>3 DEF Injection, Surjection, IsInjective
<1> QED BY <1>4, StagesCounted, FS_Injection

\* A goal is an instant, and there is none only when no date was given.
LEMMA GoalIsInstant ==
    ASSUME NEW goalDate \in GoalDates, NEW rule \in Timelines, NEW target \in GoalDates, now \in Int
    PROVE  LET goal == ResolveGoalDate(goalDate, rule, target, now)
           IN  /\ goal # Null => goal \in Int
               /\ goalDate = Null /\ rule = Null /\ target = Null => goal = Null
<1>1. ASSUME NEW day \in Int PROVE NextOn(day, now) \in Int
  <2>1. Year \in Nat \ {0}
        BY MilestonesAssumption DEF Year
  <2>2. now \div Year \in Int
        BY <2>1
  <2>3. (now \div Year) * Year \in Int /\ day * DayLength \in Int
        BY <2>1, <2>2, MilestonesAssumption
  <2> QED BY <2>1, <2>3 DEF NextOn
<1>2. rule # Null => ParseOpensRule(rule, now) \in Int \cup {Null}
      BY <1>1, MilestonesAssumption DEF ParseOpensRule
<1> QED BY <1>2, MilestonesAssumption DEF ResolveGoalDate

LEMMA ComputedRows ==
    ASSUME NEW goalDate \in GoalDates, NEW rule \in Timelines, NEW target \in GoalDates, now \in Int
    PROVE  LET computed == ComputeMilestones(goalDate, rule, target, now)
           IN  /\ ToSet(computed) = {} \/
                     /\ \A m \in ToSet(computed) : m.stage \in StageNames /\ m.fireAt \in Int
                     /\ \A s \in StageNames : \E m \in ToSet(computed) : m.stage = s
                     /\ \A m, k \in ToSet(computed) : m.stage = k.stage => m = k
               /\ goalDate = Null /\ rule = Null /\ target = Null => ToSet(computed) = {}
<1> DEFINE goal == ResolveGoalDate(goalDate, rule, target, now)
           computed == ComputeMilestones(goalDate, rule, target, now)
<1>1. CASE goal = Null
  <2>1. computed = <<>>
        BY <1>1 DEF ComputeMilestones
  <2> QED BY <2>1 DEF ToSet
<1>2. CASE goal # Null
  <2>1. goal \in Int /\ ~(goalDate = Null /\ rule = Null /\ target = Null)
        BY <1>2, GoalIsInstant
  <2>2. computed = [i \in 1 .. 4 |->
            [stage |-> Stages[i], fireAt |-> AddMinutes(goal, -Lead[Stages[i]]), fired |-> FALSE]]
        BY <1>2, TheStages DEF ComputeMilestones
  <2>3. \A i \in 1 .. 4 : Stages[i] \in StageNames
        BY TheStages DEF StageNames
  <2>4. \A s \in StageNames : \E i \in 1 .. 4 : s = Stages[i]
        BY TheStages DEF StageNames
  <2>5. \A i, j \in 1 .. 4 : Stages[i] = Stages[j] => i = j
        BY TheStages
  <2>6. \A s \in StageNames : Lead[s] \in Int
        BY DEF Lead, StageNames
  <2> HIDE DEF goal, computed
  <2>7. \A i \in 1 .. 4 : /\ computed[i].stage = Stages[i] /\ computed[i].fireAt \in Int
    <3>1. \A i \in 1 .. 4 : AddMinutes(goal, -Lead[Stages[i]]) \in Int
      <4>1. \A i \in 1 .. 4 : -Lead[Stages[i]] \in Int
            BY <2>3, <2>6
      <4> QED BY <2>1, <4>1, MinutesAdded
    <3> QED BY <2>2, <3>1
  <2>8. ToSet(computed) = {computed[i] : i \in 1 .. 4}
        BY <2>2 DEF ToSet
  <2> QED BY <2>1, <2>3, <2>4, <2>5, <2>7, <2>8 DEF computed
<1> QED BY <1>1, <1>2

-----------------------------------------------------------------------------
(* The invariant.                                                           *)

CallRow ==
    [step : {"none", "timeline", "milestones", "returned", "failed"},
     goalDate : GoalDates, target : GoalDates, timeline : Timelines]

Row == [project : Projects, stage : StageNames, fireAt : Int, fired : BOOLEAN]

MilestonesTyped ==
    /\ now \in Int
    /\ creating \in [Projects -> CallRow]
    /\ milestones \subseteq Row
    /\ due \in [FireRuns -> SUBSET (Projects \X StageNames)]

\* Rows, and what the runs have read of them, come after the call's last step.
RowsCameLast ==
    /\ \A m \in milestones : creating[m.project].step = "returned"
    /\ \A r \in FireRuns : \A d \in due[r] : creating[d[1]].step = "returned"

DateKnown ==
    \A p \in Projects :
        creating[p].goalDate = Null /\ creating[p].timeline = Null /\ creating[p].target = Null
        => \A m \in milestones : m.project # p

\* A project with a row has a row for each stage, and no two for one.
AllStages ==
    \A m \in milestones, s \in StageNames : \E k \in milestones : k.project = m.project /\ k.stage = s

OnePerStage == \A m, k \in milestones : m.project = k.project /\ m.stage = k.stage => m = k

FiredInOrder ==
    \A m \in milestones : m.fired =>
        /\ m.fireAt <= now
        /\ \A k \in milestones : k.project = m.project /\ k.fireAt < m.fireAt => k.fired

\* What a run has read is in order too: what leads up to it has fired since, or
\* was read with it.
ReadInOrder ==
    \A r \in FireRuns, m \in milestones : Marked(r, m) =>
        /\ m.fireAt <= now
        /\ \A k \in milestones : k.project = m.project /\ k.fireAt < m.fireAt => k.fired \/ Marked(r, k)

MilestonesInv ==
    /\ MilestonesTyped /\ RowsCameLast /\ DateKnown /\ AllStages /\ OnePerStage /\ FiredInOrder /\ ReadInOrder

LEMMA InvGivesOrder == MilestonesInv => MilestonesFireInOrder
<1> SUFFICES ASSUME MilestonesInv PROVE MilestonesFireInOrder
    OBVIOUS
<1>1. ASSUME NEW p \in Projects
      PROVE  LET mine == {m \in milestones : m.project = p}
             IN  /\ Cardinality(mine) \in {0, Len(Stages)}
                 /\ creating[p].goalDate = Null /\ creating[p].timeline = Null /\ creating[p].target = Null
                       => mine = {}
  <2> DEFINE mine == {m \in milestones : m.project = p}
  <2>1. CASE mine = {}
        BY <2>1, FS_EmptySet
  <2>2. CASE mine # {}
    <3>1. \A m \in mine : m.stage \in StageNames
          BY DEF MilestonesInv, MilestonesTyped, Row
    <3>2. \A m, k \in mine : m.stage = k.stage => m = k
          BY DEF MilestonesInv, OnePerStage
    <3>3. \A s \in StageNames : \E m \in mine : m.stage = s
          BY <2>2 DEF MilestonesInv, AllStages
    <3>4. Cardinality(mine) = 4
          BY <3>1, <3>2, <3>3, RowsCounted
    <3> QED BY <3>4, TheStages DEF MilestonesInv, DateKnown
  <2> QED BY <2>1, <2>2
<1> QED BY <1>1 DEF MilestonesInv, FiredInOrder, MilestonesFireInOrder

LEMMA MilestonesInitHolds == MilestonesInit => MilestonesInv
<1> SUFFICES ASSUME MilestonesInit PROVE MilestonesInv
    OBVIOUS
<1>1. Untouched \in CallRow
      BY MilestonesAssumption DEF Untouched, CallRow
<1>2. MilestonesTyped
      BY <1>1, MilestonesAssumption DEF MilestonesInit, MilestonesTyped
<1> QED BY <1>2 DEF MilestonesInit, MilestonesInv, RowsCameLast, DateKnown, AllStages,
                    OnePerStage, FiredInOrder, ReadInOrder, Marked

-----------------------------------------------------------------------------
(* The steps.                                                               *)

\* A call that has not answered has no rows, so what it is given may change.
LEMMA CallMoves ==
    ASSUME MilestonesInv, NEW p \in Projects, NEW x \in CallRow,
           creating[p].step # "returned", creating' = [creating EXCEPT ![p] = x],
           now' = now, milestones' = milestones, due' = due
    PROVE  MilestonesInv'
<1>1. /\ creating' \in [Projects -> CallRow]
      /\ \A q \in Projects \ {p} : creating'[q] = creating[q]
      BY DEF MilestonesInv, MilestonesTyped
<1>2. MilestonesTyped'
      BY <1>1 DEF MilestonesInv, MilestonesTyped
<1>3. \A m \in milestones : m.project \in Projects /\ m.project # p
      BY DEF MilestonesInv, MilestonesTyped, RowsCameLast, Row
<1>4. \A r \in FireRuns : \A d \in due[r] : d[1] \in Projects /\ d[1] # p
      BY DEF MilestonesInv, MilestonesTyped, RowsCameLast
<1>5. RowsCameLast'
      BY <1>1, <1>3, <1>4 DEF MilestonesInv, RowsCameLast
<1>6. DateKnown'
      BY <1>1, <1>3 DEF MilestonesInv, DateKnown
<1>7. AllStages' /\ OnePerStage' /\ FiredInOrder' /\ ReadInOrder'
      BY DEF MilestonesInv, AllStages, OnePerStage, FiredInOrder, ReadInOrder, Marked
<1> QED BY <1>2, <1>5, <1>6, <1>7 DEF MilestonesInv

LEMMA StoreMilestonesHolds ==
    ASSUME MilestonesInv, NEW p \in Projects, StoreMilestones(p)
    PROVE  MilestonesInv'
<1> DEFINE c == creating[p]
           computed == ComputeMilestones(c.goalDate, c.timeline, c.target, now)
           added == {[project |-> p, stage |-> m.stage, fireAt |-> m.fireAt, fired |-> FALSE] :
                       m \in ToSet(computed)}
           x == [creating[p] EXCEPT !.step = "returned"]
<1>1. /\ c \in CallRow /\ c.step = "milestones" /\ now' = now /\ due' = due
      /\ x \in CallRow /\ x.step = "returned" /\ x.goalDate = c.goalDate
      /\ x.timeline = c.timeline /\ x.target = c.target
      /\ creating' = [creating EXCEPT ![p] = x]
      BY DEF StoreMilestones, MilestonesInv, MilestonesTyped, CallRow
<1>2. milestones' = milestones \cup added \/ milestones' = milestones
      BY DEF StoreMilestones, StagesOf
<1>3. CASE milestones' = milestones
      BY <1>1, <1>3, CallMoves
<1>4. CASE milestones' = milestones \cup added
  <2>1. /\ ToSet(computed) = {} \/
             /\ \A m \in ToSet(computed) : m.stage \in StageNames /\ m.fireAt \in Int
             /\ \A s \in StageNames : \E m \in ToSet(computed) : m.stage = s
             /\ \A m, k \in ToSet(computed) : m.stage = k.stage => m = k
        /\ c.goalDate = Null /\ c.timeline = Null /\ c.target = Null => ToSet(computed) = {}
    <3>1. c.goalDate \in GoalDates /\ c.timeline \in Timelines /\ c.target \in GoalDates /\ now \in Int
          BY <1>1 DEF CallRow, MilestonesInv, MilestonesTyped
    <3> HIDE DEF c
    <3> QED BY <3>1, ComputedRows
  <2> DEFINE stored == ToSet(computed)
  <2>2. added = {[project |-> p, stage |-> m.stage, fireAt |-> m.fireAt, fired |-> FALSE] : m \in stored}
        OBVIOUS
  <2>3. /\ stored = {} \/
             /\ \A m \in stored : m.stage \in StageNames /\ m.fireAt \in Int
             /\ \A s \in StageNames : \E m \in stored : m.stage = s
             /\ \A m, k \in stored : m.stage = k.stage => m = k
        /\ c.goalDate = Null /\ c.timeline = Null /\ c.target = Null => stored = {}
        BY <2>1
  <2> HIDE DEF stored, computed, added, c, x
  <2>4. /\ added \subseteq Row
        /\ \A m \in added : m.project = p /\ m.fired = FALSE
        /\ \A m, k \in added : m.stage = k.stage => m = k
        /\ \A m \in added, s \in StageNames : \E k \in added : k.stage = s
        /\ c.goalDate = Null /\ c.timeline = Null /\ c.target = Null => added = {}
    <3>1. ASSUME NEW m \in added PROVE m \in Row /\ m.project = p /\ m.fired = FALSE
      <4>1. PICK a \in stored : m = [project |-> p, stage |-> a.stage, fireAt |-> a.fireAt, fired |-> FALSE]
            BY <2>2
      <4>2. a.stage \in StageNames /\ a.fireAt \in Int
            BY <2>3
      <4> QED BY <4>1, <4>2 DEF Row
    <3>2. ASSUME NEW m \in added, NEW k \in added, m.stage = k.stage PROVE m = k
      <4>1. PICK a \in stored : m = [project |-> p, stage |-> a.stage, fireAt |-> a.fireAt, fired |-> FALSE]
            BY <2>2
      <4>2. PICK b \in stored : k = [project |-> p, stage |-> b.stage, fireAt |-> b.fireAt, fired |-> FALSE]
            BY <2>2
      <4>3. a.stage = b.stage
            BY <3>2, <4>1, <4>2
      <4>4. a = b
            BY <2>3, <4>3
      <4> QED BY <4>1, <4>2, <4>4
    <3>3. ASSUME NEW m \in added, NEW s \in StageNames PROVE \E k \in added : k.stage = s
      <4>1. stored # {}
            BY <2>2
      <4>2. PICK a \in stored : a.stage = s
            BY <2>3, <4>1
      <4> DEFINE k == [project |-> p, stage |-> a.stage, fireAt |-> a.fireAt, fired |-> FALSE]
      <4>3. k \in added
            BY <2>2
      <4>4. k.stage = s
            BY <4>2
      <4> QED BY <4>3, <4>4
    <3>4. ASSUME c.goalDate = Null, c.timeline = Null, c.target = Null PROVE added = {}
      <4>1. stored = {}
            BY <2>3, <3>4
      <4> QED BY <2>2, <4>1
    <3> QED BY <3>1, <3>2, <3>3, <3>4
  <2>5. \A m \in milestones : m.project \in Projects /\ m.project # p
        BY <1>1 DEF MilestonesInv, MilestonesTyped, RowsCameLast, Row, c
  <2>6. \A r \in FireRuns : \A d \in due[r] : d[1] \in Projects /\ d[1] # p
        BY <1>1 DEF MilestonesInv, MilestonesTyped, RowsCameLast, c
  <2>7. /\ creating' \in [Projects -> CallRow] /\ creating'[p] = x
        /\ \A q \in Projects \ {p} : creating'[q] = creating[q]
        BY <1>1 DEF MilestonesInv, MilestonesTyped
  <2>8. MilestonesTyped'
        BY <1>1, <1>4, <2>4, <2>7 DEF MilestonesInv, MilestonesTyped
  <2>9. RowsCameLast'
        BY <1>1, <1>4, <2>4, <2>5, <2>6, <2>7 DEF MilestonesInv, RowsCameLast
  <2>10. DateKnown'
    <3> SUFFICES ASSUME NEW q \in Projects, creating'[q].goalDate = Null,
                        creating'[q].timeline = Null, creating'[q].target = Null
                 PROVE  \A m \in milestones' : m.project # q
        BY DEF DateKnown
    <3>1. CASE q = p
          BY <1>1, <1>4, <2>4, <2>5, <2>7, <3>1
    <3>2. CASE q # p
          BY <1>4, <2>4, <2>7, <3>2 DEF MilestonesInv, DateKnown
    <3> QED BY <3>1, <3>2
  <2>11. AllStages' /\ OnePerStage'
        BY <1>4, <2>4, <2>5 DEF MilestonesInv, AllStages, OnePerStage
  <2>12. FiredInOrder'
        BY <1>1, <1>4, <2>4, <2>5 DEF MilestonesInv, FiredInOrder
  <2>13. ReadInOrder'
    <3>1. \A r \in FireRuns, m \in added : ~Marked(r, m)
          BY <2>4, <2>6 DEF Marked
    <3> QED BY <1>1, <1>4, <2>4, <2>5, <3>1 DEF MilestonesInv, ReadInOrder, Marked
  <2> QED BY <2>8, <2>9, <2>10, <2>11, <2>12, <2>13 DEF MilestonesInv
<1> QED BY <1>2, <1>3, <1>4

\* Marking changes nothing of a row but whether it has fired.
LEMMA MarkedRow ==
    ASSUME NEW r, NEW m \in Row, NEW k,
           k = IF Marked(r, m) THEN [m EXCEPT !.fired = TRUE] ELSE m
    PROVE  /\ k \in Row /\ k.project = m.project /\ k.stage = m.stage /\ k.fireAt = m.fireAt
           /\ k.fired <=> m.fired \/ Marked(r, m)
BY DEF Row

LEMMA MarkFiredHolds ==
    ASSUME MilestonesInv, NEW r \in FireRuns, MarkFired(r)
    PROVE  MilestonesInv'
<1>1. /\ now' = now /\ creating' = creating /\ due' = [due EXCEPT ![r] = {}]
      /\ \/ milestones' = {IF Marked(r, m) THEN [m EXCEPT !.fired = TRUE] ELSE m : m \in milestones}
         \/ milestones' = milestones
      BY DEF MarkFired
<1>2. /\ due' \in [FireRuns -> SUBSET (Projects \X StageNames)] /\ due'[r] = {}
      /\ \A s \in FireRuns \ {r} : due'[s] = due[s]
      BY <1>1 DEF MilestonesInv, MilestonesTyped
<1>3. CASE milestones' = milestones
  <2>1. MilestonesTyped' /\ RowsCameLast'
        BY <1>1, <1>2, <1>3 DEF MilestonesInv, MilestonesTyped, RowsCameLast
  <2>2. DateKnown' /\ AllStages' /\ OnePerStage' /\ FiredInOrder'
        BY <1>1, <1>3 DEF MilestonesInv, DateKnown, AllStages, OnePerStage, FiredInOrder
  <2>3. ReadInOrder'
        BY <1>1, <1>2, <1>3 DEF MilestonesInv, ReadInOrder, Marked
  <2> QED BY <2>1, <2>2, <2>3 DEF MilestonesInv
<1>4. CASE milestones' = {IF Marked(r, m) THEN [m EXCEPT !.fired = TRUE] ELSE m : m \in milestones}
  <2> DEFINE Mark(m) == IF Marked(r, m) THEN [m EXCEPT !.fired = TRUE] ELSE m
  <2>1. \A m \in milestones :
            /\ Mark(m) \in Row /\ Mark(m).project = m.project /\ Mark(m).stage = m.stage
            /\ Mark(m).fireAt = m.fireAt
            /\ Mark(m).fired <=> m.fired \/ Marked(r, m)
    <3> TAKE m \in milestones
    <3> DEFINE k == Mark(m)
    <3>1. m \in Row /\ k = IF Marked(r, m) THEN [m EXCEPT !.fired = TRUE] ELSE m
          BY DEF MilestonesInv, MilestonesTyped
    <3> HIDE DEF k
    <3>2. /\ k \in Row /\ k.project = m.project /\ k.stage = m.stage /\ k.fireAt = m.fireAt
          /\ k.fired <=> m.fired \/ Marked(r, m)
          BY <3>1, MarkedRow
    <3> QED BY <3>2 DEF k
  <2>2. milestones' = {Mark(m) : m \in milestones}
        BY <1>4
  <2> HIDE DEF Mark
  <2>3. \A k \in milestones' : \E m \in milestones : k = Mark(m)
        BY <2>2
  <2>4. \A m \in milestones : Mark(m) \in milestones'
        BY <2>2
  <2>5. MilestonesTyped'
        BY <1>1, <1>2, <2>1, <2>3 DEF MilestonesInv, MilestonesTyped
  <2>6. RowsCameLast' /\ DateKnown'
        BY <1>1, <1>2, <2>1, <2>3 DEF MilestonesInv, RowsCameLast, DateKnown
  <2>7. AllStages'
        BY <2>1, <2>3, <2>4 DEF MilestonesInv, AllStages
  <2>8. OnePerStage'
        BY <2>1, <2>3 DEF MilestonesInv, OnePerStage
  <2>9. FiredInOrder'
    <3> SUFFICES ASSUME NEW k \in milestones', k.fired
                 PROVE  /\ k.fireAt <= now
                        /\ \A j \in milestones' : j.project = k.project /\ j.fireAt < k.fireAt => j.fired
        BY <1>1 DEF FiredInOrder
    <3>1. PICK m \in milestones : k = Mark(m)
          BY <2>3
    <3>2. m.fired \/ Marked(r, m)
          BY <2>1, <3>1
    <3>3. /\ m.fireAt <= now
          /\ \A j \in milestones : j.project = m.project /\ j.fireAt < m.fireAt => j.fired \/ Marked(r, j)
          BY <3>2 DEF MilestonesInv, FiredInOrder, ReadInOrder
    <3> QED BY <2>1, <2>3, <3>1, <3>3
  <2>10. ReadInOrder'
    <3> SUFFICES ASSUME NEW s \in FireRuns, NEW k \in milestones', Marked(s, k)'
                 PROVE  /\ k.fireAt <= now
                        /\ \A j \in milestones' : j.project = k.project /\ j.fireAt < k.fireAt
                              => j.fired \/ <<j.project, j.stage>> \in due'[s]
        BY <1>1 DEF ReadInOrder, Marked
    <3>1. PICK m \in milestones : k = Mark(m)
          BY <2>3
    <3>2. s # r /\ due'[s] = due[s] /\ <<k.project, k.stage>> \in due[s]
          BY <1>2 DEF Marked
    <3>3. Marked(s, m)
          BY <2>1, <3>1, <3>2 DEF Marked
    <3>4. /\ m.fireAt <= now
          /\ \A j \in milestones : j.project = m.project /\ j.fireAt < m.fireAt
                => j.fired \/ <<j.project, j.stage>> \in due[s]
          BY <3>3 DEF MilestonesInv, ReadInOrder, Marked
    <3> QED BY <2>1, <2>3, <3>1, <3>2, <3>4
  <2> QED BY <2>5, <2>6, <2>7, <2>8, <2>9, <2>10 DEF MilestonesInv
<1> QED BY <1>1, <1>3, <1>4

LEMMA MilestonesStepHolds == MilestonesInv /\ MilestonesNext => MilestonesInv'
<1> SUFFICES ASSUME MilestonesInv, MilestonesNext PROVE MilestonesInv'
    OBVIOUS
<1>1. ASSUME NEW p \in Projects, CreateProject(p) PROVE MilestonesInv'
  <2>1. PICK goalDate \in GoalDates, target \in GoalDates :
            creating' = [creating EXCEPT ![p] = [step |-> "timeline", goalDate |-> goalDate,
                                                 target |-> target, timeline |-> Null]]
        BY <1>1, Zenon DEF CreateProject
  <2> DEFINE x == [step |-> "timeline", goalDate |-> goalDate, target |-> target, timeline |-> Null]
  <2>2. x \in CallRow /\ creating' = [creating EXCEPT ![p] = x]
        BY <2>1, MilestonesAssumption DEF CallRow
  <2> HIDE DEF x
  <2> QED BY <1>1, <2>2, CallMoves DEF CreateProject
<1>2. ASSUME NEW p \in Projects, FindTimeline(p) PROVE MilestonesInv'
  <2>0. creating[p] \in CallRow /\ creating \in [Projects -> CallRow]
        BY DEF MilestonesInv, MilestonesTyped
  <2>1. CASE \E timeline \in Timelines :
                creating' = [creating EXCEPT ![p].step = "milestones", ![p].timeline = timeline]
    <3>1. PICK timeline \in Timelines :
              creating' = [creating EXCEPT ![p].step = "milestones", ![p].timeline = timeline]
          BY <2>1, Zenon
    <3> DEFINE x == [[creating[p] EXCEPT !.step = "milestones"] EXCEPT !.timeline = timeline]
    <3>2. x \in CallRow
          BY <2>0 DEF CallRow
    <3>3. creating' = [creating EXCEPT ![p] = x]
          BY <2>0, <3>1
    <3> HIDE DEF x
    <3> QED BY <1>2, <3>2, <3>3, CallMoves DEF FindTimeline
  <2>2. CASE creating' = [creating EXCEPT ![p].step = "failed"]
    <3> DEFINE x == [creating[p] EXCEPT !.step = "failed"]
    <3>1. x \in CallRow /\ creating' = [creating EXCEPT ![p] = x]
          BY <2>0, <2>2 DEF CallRow
    <3> HIDE DEF x
    <3> QED BY <1>2, <3>1, CallMoves DEF FindTimeline
  <2> QED BY <1>2, <2>1, <2>2 DEF FindTimeline
<1>3. ASSUME NEW p \in Projects, StoreMilestones(p) PROVE MilestonesInv'
      BY <1>3, StoreMilestonesHolds
<1>4. ASSUME NEW r \in FireRuns, ReadDue(r) PROVE MilestonesInv'
  <2>1. /\ now' = now /\ creating' = creating /\ milestones' = milestones
        /\ due' = [due EXCEPT ![r] = {<<m.project, m.stage>> : m \in {k \in milestones : IsDue(k)}}]
        BY <1>4 DEF ReadDue
  <2> DEFINE read == {<<m.project, m.stage>> : m \in {k \in milestones : IsDue(k)}}
  <2>2. read \in SUBSET (Projects \X StageNames)
        BY DEF MilestonesInv, MilestonesTyped, Row
  <2>3. \A d \in read : creating[d[1]].step = "returned"
        BY DEF MilestonesInv, RowsCameLast
  <2>4. \A m \in milestones : <<m.project, m.stage>> \in read <=> IsDue(m)
        BY DEF MilestonesInv, OnePerStage
  <2>5. due' = [due EXCEPT ![r] = read]
        BY <2>1
  <2> HIDE DEF read
  <2>6. /\ due' \in [FireRuns -> SUBSET (Projects \X StageNames)] /\ due'[r] = read
        /\ \A s \in FireRuns \ {r} : due'[s] = due[s]
        BY <2>2, <2>5 DEF MilestonesInv, MilestonesTyped
  <2>7. MilestonesTyped' /\ RowsCameLast'
        BY <2>1, <2>3, <2>6 DEF MilestonesInv, MilestonesTyped, RowsCameLast
  <2>8. DateKnown' /\ AllStages' /\ OnePerStage' /\ FiredInOrder'
        BY <2>1 DEF MilestonesInv, DateKnown, AllStages, OnePerStage, FiredInOrder
  <2>9. ReadInOrder'
    <3> SUFFICES ASSUME NEW s \in FireRuns, NEW m \in milestones, <<m.project, m.stage>> \in due'[s]
                 PROVE  /\ m.fireAt <= now
                        /\ \A k \in milestones : k.project = m.project /\ k.fireAt < m.fireAt
                              => k.fired \/ <<k.project, k.stage>> \in due'[s]
        BY <2>1 DEF ReadInOrder, Marked
    <3>1. CASE s = r
      <4>1. m.fireAt <= now
            BY <2>4, <2>6, <3>1 DEF IsDue
      <4>2. ASSUME NEW k \in milestones, k.fireAt < m.fireAt PROVE k.fired \/ IsDue(k)
            BY <4>1, <4>2 DEF IsDue, MilestonesInv, MilestonesTyped, Row
      <4> QED BY <2>4, <2>6, <3>1, <4>1, <4>2
    <3>2. CASE s # r
          BY <2>6, <3>2 DEF MilestonesInv, ReadInOrder, Marked
    <3> QED BY <3>1, <3>2
  <2> QED BY <2>7, <2>8, <2>9 DEF MilestonesInv
<1>5. ASSUME NEW r \in FireRuns, MarkFired(r) PROVE MilestonesInv'
      BY <1>5, MarkFiredHolds
<1>6. ASSUME TimePasses PROVE MilestonesInv'
  <2>1. now' \in Int /\ now' > now /\ creating' = creating /\ milestones' = milestones /\ due' = due
        BY <1>6, MilestonesAssumption DEF TimePasses
  <2>2. now \in Int /\ \A m \in milestones : m.fireAt \in Int
        BY DEF MilestonesInv, MilestonesTyped, Row
  <2>3. \A m \in milestones : m.fireAt <= now => m.fireAt <= now'
        BY <2>1, <2>2
  <2>4. MilestonesTyped' /\ RowsCameLast' /\ DateKnown' /\ AllStages' /\ OnePerStage'
        BY <2>1 DEF MilestonesInv, MilestonesTyped, RowsCameLast, DateKnown, AllStages, OnePerStage
  <2>5. FiredInOrder' /\ ReadInOrder'
        BY <2>1, <2>3 DEF MilestonesInv, FiredInOrder, ReadInOrder, Marked
  <2> QED BY <2>4, <2>5 DEF MilestonesInv
<1> QED BY <1>1, <1>2, <1>3, <1>4, <1>5, <1>6 DEF MilestonesNext

LEMMA StepHolds == MilestonesInv /\ [Next]_servicesVars => MilestonesInv'
<1> SUFFICES ASSUME MilestonesInv, [Next]_servicesVars PROVE MilestonesInv'
    OBVIOUS
<1>1. CASE MilestonesStep
      BY <1>1, MilestonesStepHolds DEF MilestonesStep
<1>2. ASSUME UNCHANGED milestoneVars PROVE MilestonesInv'
      BY <1>2 DEF milestoneVars, MilestonesInv, MilestonesTyped, RowsCameLast, DateKnown, AllStages, OnePerStage,
                  FiredInOrder, ReadInOrder, Marked
<1> QED BY <1>1, <1>2 DEF Next, SchoolStep, DigestsStep, PlannerStep, TenancyStep, servicesVars

\* A project has the four stages or none, and none when no date is known; no
\* stage fires early, and none before those that lead up to it, whatever fails
\* and however many runs of the job overlap.
THEOREM MilestonesInOrder == Spec => []MilestonesFireInOrder
<1>1. Init => MilestonesInv
      BY MilestonesInitHolds DEF Init
<1>2. MilestonesInv /\ [Next]_servicesVars => MilestonesInv'
      BY StepHolds
<1> QED BY <1>1, <1>2, InvGivesOrder, PTL DEF Spec
-----------------------------------------------------------------------------
(* Local time.  A tick is the minute of the local day it falls on, under the    *)
(* offset in force; offsets are whole quarters, so a tick keeps its place in    *)
(* the quarter.  The minutes of one hour within a cadence of the one chosen     *)
(* hold one or two of the ticks, whatever their phase; a day on which the       *)
(* clocks change has those of one offset and those of the other.                *)

ServedAt(x, hour, minute) == x \div 60 = hour /\ Distance(x % 60, minute) < Cadence

HourNumbers == 0 .. 23
DayNumbers == 0 .. 6
MinuteNumbers == 0 .. 59
PhaseNumbers == 0 .. 14
MinutesOfDay == 0 .. 1439
Quarters == {o \in -720 .. 840 : o % 15 = 0}
Homes ==
    {hh \in [hour : HourNumbers, minute : MinuteNumbers,
             zone : [before : Quarters, after : Quarters, changeAt : Int], midnight : {0, 24}] :
        hh.zone.changeAt % 15 = 0}

TicksOfDay(r) == {x \in MinutesOfDay : x % 15 = r}

LEMMA HomeFields ==
    ASSUME NEW hh \in Homes
    PROVE  /\ hh.hour \in 0 .. 23 /\ hh.minute \in 0 .. 59 /\ hh.midnight \in {0, 24}
           /\ hh.hour \in HourNumbers /\ hh.minute \in MinuteNumbers
           /\ hh.zone.before \in Quarters /\ hh.zone.after \in Quarters
           /\ hh.zone.before \in Int /\ hh.zone.after \in Int
           /\ hh.zone.before >= -720 /\ hh.zone.before <= 840 /\ hh.zone.before % 15 = 0
           /\ hh.zone.after >= -720 /\ hh.zone.after <= 840 /\ hh.zone.after % 15 = 0
           /\ hh.zone.changeAt \in Int /\ hh.zone.changeAt % 15 = 0
<1> DEFINE z == hh.zone
<1>1. /\ hh \in [hour : HourNumbers, minute : MinuteNumbers,
                  zone : [before : Quarters, after : Quarters, changeAt : Int], midnight : {0, 24}]
      /\ z.changeAt % 15 = 0
      BY DEF Homes
<1>2. /\ hh.hour \in HourNumbers /\ hh.minute \in MinuteNumbers /\ hh.midnight \in {0, 24}
      /\ z \in [before : Quarters, after : Quarters, changeAt : Int]
      BY <1>1
<1> HIDE DEF z
<1>3. z.before \in Quarters /\ z.after \in Quarters /\ z.changeAt \in Int
      BY <1>2
<1>4. \A o \in Quarters : o \in Int /\ o >= -720 /\ o <= 840 /\ o % 15 = 0
      BY DEF Quarters
<1> QED BY <1>1, <1>2, <1>3, <1>4 DEF z, HourNumbers, MinuteNumbers

Served(hour, minute, r) == {x \in TicksOfDay(r) : ServedAt(x, hour, minute)}

LEMMA MatchIsServed ==
    ASSUME NEW hh \in Homes, Reachable(hh), NEW t, NEW x \in MinutesOfDay, LocalMinute(hh, t) = x
    PROVE  MatchesLocalTime(hh, t) <=> ServedAt(x, hh.hour, hh.minute)
<1> DEFINE h == x \div 60
<1>1. h \in 0 .. 23
      BY DEF MinutesOfDay
<1>2. LocalHour(hh, t) = IF h = 0 THEN hh.midnight ELSE h
      BY DEF LocalHour
<1>3. hh.midnight \in {0, 24} /\ hh.hour \in 0 .. 23
      BY HomeFields
<1>4. LocalHour(hh, t) = hh.hour <=> h = hh.hour
  <2> HIDE DEF h
  <2> QED BY <1>1, <1>2, <1>3 DEF Reachable
<1> QED BY <1>4 DEF MatchesLocalTime, ServedAt, WithinCadence

\* A set of one element or two.
OneOrTwo(S) == \E p, q : p \in S /\ S \subseteq {p, q}

LEMMA OneOrTwoServed ==
    ASSUME NEW hour \in HourNumbers, NEW minute \in MinuteNumbers, NEW r \in PhaseNumbers
    PROVE  OneOrTwo(Served(hour, minute, r))
<1> DEFINE near == minute \div 15
           p == 60 * hour + 15 * near + r
           q == IF r < minute % 15 /\ near < 3 THEN p + 15
                ELSE IF r > minute % 15 /\ near > 0 THEN p - 15 ELSE p
<1>0. hour \in 0 .. 23 /\ minute \in 0 .. 59 /\ r \in 0 .. 14
      BY DEF HourNumbers, MinuteNumbers, PhaseNumbers
<1>1. near \in 0 .. 3 /\ minute = 15 * near + (minute % 15) /\ minute % 15 \in 0 .. 14
      BY <1>0
<1>2. p \in 0 .. 1439 /\ p % 15 = r /\ p \div 60 = hour /\ p % 60 = 15 * near + r
      BY <1>0, <1>1
<1>3. q \in 0 .. 1439
      BY <1>0, <1>1
<1>4. ServedAt(p, hour, minute)
      BY <1>0, <1>1, <1>2 DEF ServedAt, Distance, Cadence
<1>5. ASSUME NEW x \in MinutesOfDay, x % 15 = r, ServedAt(x, hour, minute)
      PROVE  x \in {p, q}
  <2>0. x \in 0 .. 1439
        BY DEF MinutesOfDay
  <2> DEFINE y == x % 60
             j == y \div 15
             m == minute % 15
  <2>1. x = 60 * hour + y /\ y \in 0 .. 59
        BY <1>0, <1>5, <2>0 DEF ServedAt
  <2>2. y % 15 = r
        BY <1>0, <1>5, <2>0
  <2>3. Distance(y, minute) < 15
        BY <1>0, <1>5, <2>0 DEF ServedAt, Cadence
  <2> HIDE DEF y
  <2>4. j \in 0 .. 3 /\ y = 15 * j + r
        BY <1>0, <2>1, <2>2
  <2>5. minute = 15 * near + m /\ m \in 0 .. 14 /\ near \in 0 .. 3
        BY <1>0, <1>1
  <2>6. p = 60 * hour + 15 * near + r
        OBVIOUS
  <2>7. q = IF r < m /\ near < 3 THEN p + 15 ELSE IF r > m /\ near > 0 THEN p - 15 ELSE p
        OBVIOUS
  <2> HIDE DEF j, near, m, p, q
  <2>8. \/ j = near
        \/ j = near + 1 /\ r < m
        \/ j = near - 1 /\ r > m
    <3>1. y - minute < 15 /\ minute - y < 15
          BY <1>0, <2>1, <2>3 DEF Distance
    <3>2. 15 * (j - near) + (r - m) < 15 /\ 15 * (near - j) + (m - r) < 15
          BY <1>0, <2>4, <2>5, <3>1
    <3> QED BY <1>0, <2>4, <2>5, <3>2
  <2>9. x = 60 * hour + 15 * j + r
        BY <1>0, <2>1, <2>4
  <2> QED BY <1>0, <2>4, <2>5, <2>6, <2>7, <2>8, <2>9
<1> HIDE DEF p, q
<1>6. p \in Served(hour, minute, r)
      BY <1>2, <1>4 DEF Served, TicksOfDay, MinutesOfDay
<1>7. ASSUME NEW x \in Served(hour, minute, r) PROVE x \in {p, q}
  <2>1. x \in MinutesOfDay /\ x % 15 = r /\ ServedAt(x, hour, minute)
        BY DEF Served, TicksOfDay
  <2> QED BY <1>5, <2>1
<1> QED BY <1>6, <1>7 DEF OneOrTwo

LEMMA OneOrTwoCount ==
    ASSUME NEW S, NEW a, NEW b, a \in S, S \subseteq {a, b}
    PROVE  Cardinality(S) \in 1 .. 2
<1>1. CASE S = {a}
  <2>1. Cardinality({a}) = 1
        BY FS_Singleton
  <2> QED BY <1>1, <2>1
<1>2. CASE S # {a}
  <2>1. S = {a} \cup {b} /\ b \notin {a}
        BY <1>2
  <2>2. IsFiniteSet({a}) /\ Cardinality({a}) = 1
        BY FS_Singleton
  <2>3. Cardinality({a} \cup {b}) = 2
        BY <2>1, <2>2, FS_AddElement
  <2> QED BY <2>1, <2>3
<1> QED BY <1>1, <1>2

LEMMA OneOrTwoImage ==
    ASSUME NEW S, OneOrTwo(S), NEW f
    PROVE  Cardinality({f[x] : x \in S}) \in 1 .. 2
<1>0. PICK p, q : p \in S /\ S \subseteq {p, q}
      BY DEF OneOrTwo
<1> DEFINE T == {f[x] : x \in S}
<1>1. f[p] \in T /\ T \subseteq {f[p], f[q]}
      BY <1>0
<1> HIDE DEF T
<1> QED BY <1>1, OneOrTwoCount DEF T

LEMMA AtMostFour ==
    ASSUME NEW S, NEW A, NEW B, S \subseteq A \cup B, IsFiniteSet(A), IsFiniteSet(B),
           Cardinality(A) \in 1 .. 2, Cardinality(B) \in 1 .. 2
    PROVE  Cardinality(S) \in 0 .. 4
<1>1. IsFiniteSet(A \cup B) /\ IsFiniteSet(A \cap B)
      BY FS_Union, FS_Intersection
<1>2. Cardinality(A \cup B) = Cardinality(A) + Cardinality(B) - Cardinality(A \cap B)
      BY FS_Union
<1>3. Cardinality(A \cap B) \in Nat
      BY <1>1, FS_CardinalityType
<1>4. IsFiniteSet(S) /\ Cardinality(S) <= Cardinality(A \cup B)
      BY <1>1, FS_Subset
<1>5. Cardinality(S) \in Nat
      BY <1>4, FS_CardinalityType
<1> QED BY <1>2, <1>3, <1>4, <1>5

LEMMA OneOrTwoImageFinite ==
    ASSUME NEW S, OneOrTwo(S), NEW f
    PROVE  IsFiniteSet({f[x] : x \in S})
<1>0. PICK p, q : p \in S /\ S \subseteq {p, q}
      BY DEF OneOrTwo
<1>1. IsFiniteSet({f[p], f[q]})
  <2>1. IsFiniteSet({f[p]}) /\ IsFiniteSet({f[q]})
        BY FS_Singleton
  <2>2. {f[p], f[q]} = {f[p]} \cup {f[q]}
        OBVIOUS
  <2> QED BY <2>1, <2>2, FS_Union
<1>2. {f[x] : x \in S} \subseteq {f[p], f[q]}
      BY <1>0
<1> QED BY <1>1, <1>2, FS_Subset

\* A set of instants that are one or two of the ticks.
Few(S) == IsFiniteSet(S) /\ Cardinality(S) \in 1 .. 2

TickSpan == -1440 .. 11519

LEMMA QuarterShift ==
    ASSUME NEW n \in Int, NEW k \in Int
    PROVE  (n + 15 * k) % 15 = n % 15
OBVIOUS

LEMMA QuarterAdd ==
    ASSUME NEW n \in Int, NEW o \in Int, o % 15 = 0
    PROVE  (n + o) % 15 = n % 15 /\ (n - o) % 15 = n % 15
<1> DEFINE k == o \div 15
<1>1. k \in Int /\ -k \in Int /\ o = 15 * k
      OBVIOUS
<1> HIDE DEF k
<1>2. n + o = n + 15 * k /\ n - o = n + 15 * (-k)
      BY <1>1
<1> QED BY <1>1, <1>2, QuarterShift

LEMMA QuarterOfDay ==
    ASSUME NEW n \in Int
    PROVE  (n % 1440) % 15 = n % 15
<1> DEFINE e == 0 - 96 * (n \div 1440)
<1>1. e \in Int /\ n % 1440 = n + 15 * e
  <2>1. n = 1440 * (n \div 1440) + (n % 1440) /\ n \div 1440 \in Int
        OBVIOUS
  <2> QED BY <2>1
<1> HIDE DEF e
<1> QED BY <1>1, QuarterShift

LEMMA TicksAre ==
    ASSUME phase \in PhaseNumbers
    PROVE  Ticks = {t \in TickSpan : t % 15 = phase}
<1> DEFINE K == -96 .. 767
<1>0. phase \in 0 .. 14
      BY DEF PhaseNumbers
<1>1. Ticks = {phase + 15 * k : k \in K}
      BY DEF Ticks, PerDay, Cadence, Day
<1>2. ASSUME NEW k \in K PROVE phase + 15 * k \in TickSpan /\ (phase + 15 * k) % 15 = phase
  <2>1. k \in Int /\ phase \in Int
        BY <1>0
  <2>2. (phase + 15 * k) % 15 = phase % 15
        BY <2>1, QuarterShift
  <2>3. phase % 15 = phase
        BY <1>0
  <2>4. phase + 15 * k \in TickSpan
        BY <1>0 DEF TickSpan
  <2> QED BY <2>2, <2>3, <2>4
<1>3. ASSUME NEW t \in TickSpan, t % 15 = phase PROVE \E k \in K : t = phase + 15 * k
  <2>1. t \div 15 \in -96 .. 767 /\ t = (t % 15) + 15 * (t \div 15)
        BY DEF TickSpan
  <2> QED BY <1>3, <2>1
<1> HIDE DEF K
<1> QED BY <1>1, <1>2, <1>3

\* The ticks of a local day under an offset that count.
Part(o, d, hour, minute) ==
    {t \in Ticks : (t + o) \div Day = d /\ ServedAt((t + o) % Day, hour, minute)}

LEMMA PartIsFew ==
    ASSUME NEW o \in Quarters, NEW d \in DayNumbers, NEW hour \in HourNumbers, NEW minute \in MinuteNumbers,
           phase \in PhaseNumbers
    PROVE  Few(Part(o, d, hour, minute))
<1> DEFINE S == Served(hour, minute, phase)
           f == [x \in MinutesOfDay |-> d * 1440 - o + x]
<1>0. o \in -720 .. 840 /\ o % 15 = 0 /\ d \in 0 .. 6 /\ phase \in 0 .. 14
      BY DEF Quarters, DayNumbers, PhaseNumbers
<1>1. OneOrTwo(S)
      BY OneOrTwoServed
<1>2. ASSUME NEW x \in S PROVE f[x] \in Part(o, d, hour, minute)
  <2>1. x \in 0 .. 1439 /\ x % 15 = phase /\ ServedAt(x, hour, minute)
        BY DEF Served, TicksOfDay, MinutesOfDay
  <2> DEFINE t == d * 1440 - o + x
  <2>2. t \in TickSpan /\ t % 15 = phase
    <3>1. t \in TickSpan
          BY <1>0, <2>1 DEF TickSpan
    <3> DEFINE y == x - o
    <3>0. x \in Int /\ o \in Int /\ o % 15 = 0 /\ x % 15 = phase
          BY <1>0, <2>1
    <3>2. y \in Int /\ y % 15 = phase
          BY <3>0, QuarterAdd
    <3> HIDE DEF y
    <3>3. t = y + 15 * (96 * d) /\ 96 * d \in Int
          BY <1>0, <2>1 DEF y
    <3> QED BY <3>1, <3>2, <3>3, QuarterShift
  <2>3. t + o = d * 1440 + x
        BY <1>0, <2>1
  <2>4. (d * 1440 + x) \div 1440 = d /\ (d * 1440 + x) % 1440 = x
        BY <1>0, <2>1
  <2>5. f[x] = t
        BY <2>1 DEF MinutesOfDay
  <2> HIDE DEF t, f
  <2>6. (t + o) \div Day = d /\ (t + o) % Day = x
        BY <2>3, <2>4 DEF Day
  <2> QED BY <2>1, <2>2, <2>5, <2>6, TicksAre DEF Part
<1>3. ASSUME NEW t \in Part(o, d, hour, minute) PROVE \E x \in S : t = f[x]
  <2>1. t \in TickSpan /\ t % 15 = phase /\ (t + o) \div Day = d /\ ServedAt((t + o) % Day, hour, minute)
        BY TicksAre DEF Part
  <2> DEFINE x == (t + o) % 1440
  <2>2. t + o = 1440 * ((t + o) \div 1440) + x /\ x \in 0 .. 1439
        BY <1>0, <2>1 DEF TickSpan
  <2>3. t \in Int /\ t = d * 1440 - o + x
        BY <1>0, <2>1, <2>2 DEF TickSpan, Day
  <2>5. ServedAt(x, hour, minute)
        BY <2>1 DEF Day
  <2> HIDE DEF x
  <2>4. x % 15 = phase
    <3> DEFINE y == t + o
    <3> DEFINE e == 0 - 96 * d
    <3>0. t \in Int /\ o \in Int /\ o % 15 = 0 /\ t % 15 = phase
          BY <1>0, <2>1, <2>3
    <3>1. y \in Int /\ y % 15 = phase
          BY <3>0, QuarterAdd
    <3>3. e \in Int /\ d \in Int /\ 15 * e = 0 - 1440 * d
          BY <1>0
    <3>4. x = t + o - d * 1440
          BY <1>0, <2>2, <2>3
    <3> HIDE DEF e
    <3>2. x = y + 15 * e
          BY <3>0, <3>3, <3>4
    <3> HIDE DEF y
    <3>5. (y + 15 * e) % 15 = y % 15
          BY <3>1, <3>3, QuarterShift
    <3>6. x % 15 = (y + 15 * e) % 15
          BY <3>2
    <3> QED BY <3>1, <3>5, <3>6
  <2>6. x \in S
        BY <2>2, <2>4, <2>5 DEF Served, TicksOfDay, MinutesOfDay
  <2>7. t = f[x]
        BY <2>2, <2>3 DEF MinutesOfDay
  <2> HIDE DEF S, f
  <2> QED BY <2>6, <2>7
<1> HIDE DEF S, f
<1>4. Part(o, d, hour, minute) = {f[x] : x \in S}
      BY <1>2, <1>3
<1>5. Cardinality({f[x] : x \in S}) \in 1 .. 2 /\ IsFiniteSet({f[x] : x \in S})
      BY <1>1, OneOrTwoImage, OneOrTwoImageFinite
<1> QED BY <1>4, <1>5 DEF Few

\* A tick that counts the household is served under the offset in force.
LEMMA CountingIsServed ==
    ASSUME NEW hh \in Homes, Reachable(hh), NEW t \in Ticks, phase \in PhaseNumbers
    PROVE  /\ t \in Int
           /\ OffsetAt(hh, t) \in {hh.zone.before, hh.zone.after}
           /\ MatchesLocalTime(hh, t) <=> ServedAt((t + OffsetAt(hh, t)) % Day, hh.hour, hh.minute)
<1> DEFINE o == OffsetAt(hh, t)
           x == (t + o) % 1440
<1>1. t \in Int
  <2>1. t \in TickSpan
        BY TicksAre
  <2> QED BY <2>1 DEF TickSpan
<1>2. o \in {hh.zone.before, hh.zone.after} /\ o \in Int
  <2>1. hh.zone.before \in Int /\ hh.zone.after \in Int
        BY HomeFields
  <2> QED BY <2>1 DEF OffsetAt
<1>3. x \in MinutesOfDay /\ LocalMinute(hh, t) = x
  <2>1. LocalMinute(hh, t) = x
        BY DEF LocalMinute, Day
  <2> HIDE DEF o
  <2>2. x \in MinutesOfDay
        BY <1>1, <1>2 DEF MinutesOfDay
  <2> QED BY <2>1, <2>2
<1> HIDE DEF x
<1>4. MatchesLocalTime(hh, t) <=> ServedAt(x, hh.hour, hh.minute)
      BY <1>3, MatchIsServed
<1> QED BY <1>1, <1>2, <1>4 DEF x, Day

LEMMA EveryDayServed ==
    ASSUME NEW hh \in Homes, Reachable(hh), phase \in PhaseNumbers, NEW d \in DayNumbers
    PROVE  /\ ~ChangesOn(hh, d) => Cardinality(DailyDigest(hh, d)) \in 1 .. 2
           /\ Cardinality(DailyDigest(hh, d)) \in 0 .. 4
<1> DEFINE b == hh.zone.before
           a == hh.zone.after
           c == hh.zone.changeAt
           hour == hh.hour
           minute == hh.minute
           A == Part(b, d, hour, minute)
           B == Part(a, d, hour, minute)
           S == DailyDigest(hh, d)
<1>0. /\ b \in Quarters /\ a \in Quarters /\ b \in Int /\ a \in Int /\ c \in Int
      /\ hour \in HourNumbers /\ minute \in MinuteNumbers /\ d \in Int
      BY HomeFields DEF DayNumbers
<1>1. Few(A) /\ Few(B)
      BY <1>0, PartIsFew
<1>2. ASSUME NEW t \in Ticks
      PROVE  /\ t \in Int
             /\ t < c => (t \in S <=> t \in A)
             /\ ~(t < c) => (t \in S <=> t \in B)
  <2>1. /\ t \in Int
        /\ OffsetAt(hh, t) \in {b, a}
        /\ MatchesLocalTime(hh, t) <=> ServedAt((t + OffsetAt(hh, t)) % Day, hour, minute)
        BY CountingIsServed
  <2>2. t \in S <=> /\ ServedAt((t + OffsetAt(hh, t)) % Day, hour, minute)
                    /\ (t + OffsetAt(hh, t)) \div Day = d
        BY <2>1 DEF DailyDigest, Counting, LocalDay
  <2>3. OffsetAt(hh, t) = IF t < c THEN b ELSE a
        BY DEF OffsetAt
  <2> QED BY <2>1, <2>2, <2>3 DEF Part
<1>3. S \subseteq Ticks /\ A \subseteq Ticks /\ B \subseteq Ticks
      BY DEF DailyDigest, Counting, Part
<1>4. Cardinality(S) \in 0 .. 4
  <2>1. S \subseteq A \cup B
        BY <1>2, <1>3
  <2> QED BY <1>1, <2>1, AtMostFour DEF Few
<1>5. ASSUME ~ChangesOn(hh, d) PROVE S = A \/ S = B
  <2>1. CASE b = a
        BY <1>2, <1>3, <2>1
  <2>2. CASE b # a
    <3> DEFINE last == (c - 1 + b) \div 1440
               first == (c + a) \div 1440
    <3>1. (last > d /\ first > d) \/ (last < d /\ first < d)
          BY <1>0, <1>5, <2>2 DEF ChangesOn, Day
    <3>2. ASSUME NEW t \in A PROVE t \in Ticks /\ t \in Int /\ (t + b) \div 1440 = d
          BY <1>2, <1>3 DEF Part, Day
    <3>3. ASSUME NEW t \in B PROVE t \in Ticks /\ t \in Int /\ (t + a) \div 1440 = d
          BY <1>2, <1>3 DEF Part, Day
    <3> HIDE DEF A, B, S, a, b, c
    <3>4. CASE last > d /\ first > d
      <4>1. ASSUME NEW t \in A PROVE t < c
            BY <1>0, <3>2, <3>4
      <4>2. ASSUME NEW t \in B PROVE t < c
            BY <1>0, <3>3, <3>4
      <4> QED BY <1>2, <1>3, <4>1, <4>2
    <3>5. CASE last < d /\ first < d
      <4>1. ASSUME NEW t \in A PROVE ~(t < c)
            BY <1>0, <3>2, <3>5
      <4>2. ASSUME NEW t \in B PROVE ~(t < c)
            BY <1>0, <3>3, <3>5
      <4> QED BY <1>2, <1>3, <4>1, <4>2
    <3> QED BY <3>1, <3>4, <3>5
  <2> QED BY <2>1, <2>2
<1> QED BY <1>1, <1>4, <1>5 DEF Few

\* When the clocks show the chosen time, the tick of that quarter of an hour counts.
LEMMA ShownIsServed ==
    ASSUME NEW hh \in Homes, Reachable(hh), phase \in PhaseNumbers, NEW d \in DayNumbers,
           NEW t \in Shown(hh, d)
    PROVE  \E tick \in Counting(hh) : Distance(tick, t) < Cadence
<1> DEFINE hour == hh.hour
           minute == hh.minute
           chosen == 60 * hour + minute
           c == hh.zone.changeAt
           o == OffsetAt(hh, t)
           tick == t - (t % 15) + phase
           x == chosen - (chosen % 15) + phase
<1>0. /\ hour \in 0 .. 23 /\ minute \in 0 .. 59 /\ c \in Int /\ c % 15 = 0 /\ d \in 0 .. 6 /\ phase \in 0 .. 14
      BY HomeFields DEF DayNumbers, PhaseNumbers
<1>1. \A z \in {hh.zone.before, hh.zone.after} : z \in Int /\ z >= -720 /\ z <= 840 /\ z % 15 = 0
      BY HomeFields
<1>2. PICK z \in {hh.zone.before, hh.zone.after} : t = d * Day + chosen - z
      BY DEF Shown
<1>3. chosen \in 0 .. 1439 /\ chosen = 60 * hour + minute
      BY <1>0
<1> HIDE DEF chosen, c, hour, minute
<1>4. t \in -840 .. 10799
  <2>1. z \in Int /\ z >= -720 /\ z <= 840
        BY <1>1
  <2>2. t = d * 1440 + chosen - z
        BY <1>2 DEF Day
  <2>3. d \in Int /\ d >= 0 /\ d <= 6
        BY <1>0
  <2>4. chosen \in Int /\ chosen >= 0 /\ chosen <= 1439
        BY <1>3
  <2>5. t \in Int /\ t >= -840 /\ t <= 10799
        BY <2>1, <2>2, <2>3, <2>4
  <2> QED BY <2>5
<1>5. (t + o) % 1440 = chosen /\ o \in Int /\ o % 15 = 0
  <2>1. LocalMinute(hh, t) = chosen
        BY DEF Shown, chosen, hour, minute
  <2>2. o \in {hh.zone.before, hh.zone.after}
        BY DEF OffsetAt
  <2> QED BY <1>1, <2>1, <2>2 DEF LocalMinute, Day
<1>6. OffsetAt(hh, tick) = o
  <2>1. t < c <=> tick < c
        BY <1>0, <1>4
  <2> QED BY <2>1 DEF OffsetAt, c
<1> HIDE DEF o
<1> DEFINE n == (t + o) \div 1440
<1>t. t \in Int /\ t + o = 1440 * n + chosen /\ n \in Int
      BY <1>3, <1>4, <1>5
<1> HIDE DEF n
<1>7. t % 15 = chosen % 15
  <2> DEFINE k == o \div 15
  <2>1. k \in Int /\ o = 15 * k
        BY <1>5
  <2> HIDE DEF k
  <2> DEFINE e == 96 * n - k
  <2>2. t = chosen + 15 * e /\ e \in Int /\ chosen \in Int
        BY <1>3, <1>t, <2>1
  <2> HIDE DEF e
  <2> QED BY <2>2, QuarterShift
<1>8. tick \in TickSpan /\ tick % 15 = phase
  <2> DEFINE k == t \div 15
  <2>1. k \in Int /\ t = 15 * k + (t % 15) /\ t % 15 \in 0 .. 14
        BY <1>4
  <2>2. phase \in Int /\ phase % 15 = phase
        BY <1>0
  <2>3. tick \in TickSpan
    <3> DEFINE m == t % 15
    <3>1. m \in 0 .. 14 /\ tick = t - m + phase
          BY <2>1
    <3> HIDE DEF m, tick
    <3>2. phase \in 0 .. 14
          BY <1>0
    <3> QED BY <1>4, <3>1, <3>2 DEF TickSpan
  <2> HIDE DEF k
  <2>4. tick = phase + 15 * k
        BY <1>0, <2>1
  <2> QED BY <2>1, <2>2, <2>3, <2>4, QuarterShift
<1> DEFINE near == minute \div 15
<1>y. near \in 0 .. 3 /\ minute = 15 * near + (minute % 15) /\ minute % 15 \in 0 .. 14
      BY <1>0
<1>x. x = 60 * hour + 15 * near + phase
  <2>1. chosen % 15 = minute % 15
    <3> DEFINE k == 4 * hour
    <3>1. k \in Int /\ minute \in Int /\ chosen = minute + 15 * k
          BY <1>0, <1>3
    <3> HIDE DEF k
    <3> QED BY <3>1, QuarterShift
  <2> HIDE DEF near
  <2> QED BY <1>0, <1>3, <1>y, <2>1
<1> HIDE DEF near
<1>9. x \in 0 .. 1439 /\ x \div 60 = hour /\ x % 60 = 15 * near + phase
  <2> HIDE DEF x
  <2> QED BY <1>0, <1>x, <1>y
<1>10. (tick + o) % 1440 = x
  <2>1. tick + o = (t + o) - (chosen % 15) + phase
        BY <1>0, <1>3, <1>4, <1>5, <1>7
  <2>4. tick + o = 1440 * n + x
        BY <1>0, <1>3, <1>t, <2>1
  <2> HIDE DEF tick, x
  <2> QED BY <1>t, <1>9, <2>4
<1>11. ServedAt(x, hour, minute)
  <2> HIDE DEF x
  <2>1. Distance(15 * near + phase, minute) < 15
        BY <1>0, <1>y DEF Distance
  <2> QED BY <1>9, <2>1 DEF ServedAt, Cadence
<1>12. Distance(tick, t) < Cadence
       BY <1>0, <1>4 DEF Distance, Cadence
<1> HIDE DEF tick, x
<1>13. tick \in Ticks
       BY <1>8, TicksAre
<1>14. x \in MinutesOfDay /\ LocalMinute(hh, tick) = x
       BY <1>6, <1>9, <1>10 DEF MinutesOfDay, LocalMinute, Day
<1>15. MatchesLocalTime(hh, tick)
       BY <1>11, <1>14, MatchIsServed DEF hour, minute
<1> QED BY <1>12, <1>13, <1>15 DEF Counting

\* The ticks of the Sunday in UTC that count under an offset.
SundayPart(o, hour, minute) ==
    {t \in TicksOfDay(phase) : ServedAt((t + o) % Day, hour, minute)}

LEMMA SundayPartIsFew ==
    ASSUME NEW o \in Quarters, NEW hour \in HourNumbers, NEW minute \in MinuteNumbers, phase \in PhaseNumbers
    PROVE  Few(SundayPart(o, hour, minute))
<1> DEFINE S == Served(hour, minute, phase)
           f == [x \in MinutesOfDay |-> (x - o) % 1440]
<1>0. o \in -720 .. 840 /\ o % 15 = 0 /\ phase \in 0 .. 14
      BY DEF Quarters, PhaseNumbers
<1>1. OneOrTwo(S)
      BY OneOrTwoServed
<1>2. ASSUME NEW x \in S PROVE f[x] \in SundayPart(o, hour, minute)
  <2>1. x \in 0 .. 1439 /\ x % 15 = phase /\ ServedAt(x, hour, minute)
        BY DEF Served, TicksOfDay, MinutesOfDay
  <2> DEFINE t == (x - o) % 1440
  <2>2. t \in 0 .. 1439
        BY <1>0, <2>1
  <2>3. t % 15 = phase
    <3> DEFINE y == x - o
    <3>1. x \in Int /\ o \in Int /\ o % 15 = 0 /\ x % 15 = phase
          BY <1>0, <2>1
    <3>2. y \in Int /\ y % 15 = phase
          BY <3>1, QuarterAdd
    <3> HIDE DEF y
    <3>3. (y % 1440) % 15 = phase
          BY <3>2, QuarterOfDay
    <3> QED BY <3>3 DEF y
  <2>4. (t + o) % 1440 = x
        BY <1>0, <2>1
  <2>5. f[x] = t
        BY <2>1 DEF MinutesOfDay
  <2> HIDE DEF t, f
  <2> QED BY <2>1, <2>2, <2>3, <2>4, <2>5 DEF SundayPart, TicksOfDay, MinutesOfDay, Day
<1>3. ASSUME NEW t \in SundayPart(o, hour, minute) PROVE \E x \in S : t = f[x]
  <2>1. t \in 0 .. 1439 /\ t % 15 = phase /\ ServedAt((t + o) % 1440, hour, minute)
        BY DEF SundayPart, TicksOfDay, MinutesOfDay, Day
  <2> DEFINE x == (t + o) % 1440
  <2>2. x \in 0 .. 1439 /\ x % 15 = phase
    <3> DEFINE y == t + o
    <3>1. t \in Int /\ o \in Int /\ o % 15 = 0 /\ t % 15 = phase
          BY <1>0, <2>1
    <3>2. y \in Int /\ y % 15 = phase
          BY <3>1, QuarterAdd
    <3> HIDE DEF y
    <3>3. (y % 1440) % 15 = phase /\ y % 1440 \in 0 .. 1439
          BY <3>2, QuarterOfDay
    <3> QED BY <3>3 DEF y
  <2>3. (x - o) % 1440 = t
        BY <1>0, <2>1
  <2>4. ServedAt(x, hour, minute)
        BY <2>1
  <2> HIDE DEF x
  <2>5. x \in S
        BY <2>2, <2>4 DEF Served, TicksOfDay, MinutesOfDay
  <2>6. t = f[x]
        BY <2>2, <2>3 DEF MinutesOfDay
  <2> HIDE DEF S, f
  <2> QED BY <2>5, <2>6
<1> HIDE DEF S, f
<1>4. SundayPart(o, hour, minute) = {f[x] : x \in S}
      BY <1>2, <1>3
<1>5. Cardinality({f[x] : x \in S}) \in 1 .. 2 /\ IsFiniteSet({f[x] : x \in S})
      BY <1>1, OneOrTwoImage, OneOrTwoImageFinite
<1> QED BY <1>4, <1>5 DEF Few

LEMMA EveryWeekServed ==
    ASSUME NEW hh \in Homes, Reachable(hh), phase \in PhaseNumbers
    PROVE  /\ ~ChangesOnSunday(hh) => Cardinality(SundayCheckin(hh)) \in 1 .. 2
           /\ Cardinality(SundayCheckin(hh)) \in 0 .. 4
<1> DEFINE b == hh.zone.before
           a == hh.zone.after
           c == hh.zone.changeAt
           hour == hh.hour
           minute == hh.minute
           A == SundayPart(b, hour, minute)
           B == SundayPart(a, hour, minute)
           S == SundayCheckin(hh)
           T == TicksOfDay(phase)
<1>0. /\ b \in Quarters /\ a \in Quarters /\ c \in Int
      /\ hour \in HourNumbers /\ minute \in MinuteNumbers
      BY HomeFields
<1>1. Few(A) /\ Few(B)
      BY <1>0, SundayPartIsFew
<1>2. \A t : t \in T <=> t \in Ticks /\ 0 <= t /\ t < 7 * Day /\ IsSunday(t)
  <2>1. ASSUME NEW t \in Ticks, 0 <= t, t < 7 * Day, IsSunday(t) PROVE t \in T
    <3>1. t \in TickSpan /\ t % 15 = phase
          BY TicksAre
    <3>2. t \in 0 .. 1439
          BY <2>1, <3>1 DEF TickSpan, IsSunday, Day
    <3> QED BY <3>1, <3>2 DEF TicksOfDay, MinutesOfDay
  <2>2. ASSUME NEW t \in T PROVE t \in Ticks /\ 0 <= t /\ t < 7 * Day /\ IsSunday(t)
    <3>1. t \in 0 .. 1439 /\ t % 15 = phase
          BY DEF TicksOfDay, MinutesOfDay
    <3>2. t \in TickSpan
          BY <3>1 DEF TickSpan
    <3>3. t \in Ticks
          BY <3>1, <3>2, TicksAre
    <3>4. 0 <= t /\ t < 7 * 1440 /\ (t \div 1440) % 7 = 0
          BY <3>1
    <3> QED BY <3>3, <3>4 DEF IsSunday, Day
  <2> QED BY <2>1, <2>2
<1>3. ASSUME NEW t \in T
      PROVE  /\ t \in 0 .. 1439
             /\ t < c => (t \in S <=> t \in A)
             /\ ~(t < c) => (t \in S <=> t \in B)
  <2>0. t \in Ticks
        BY <1>2
  <2>1. MatchesLocalTime(hh, t) <=> ServedAt((t + OffsetAt(hh, t)) % Day, hour, minute)
        BY <2>0, CountingIsServed
  <2>2. t \in S <=> ServedAt((t + OffsetAt(hh, t)) % Day, hour, minute)
        BY <1>2, <2>0, <2>1 DEF SundayCheckin, Counting
  <2>3. OffsetAt(hh, t) = IF t < c THEN b ELSE a
        BY DEF OffsetAt
  <2>4. t \in 0 .. 1439
        BY DEF TicksOfDay, MinutesOfDay
  <2> QED BY <2>2, <2>3, <2>4 DEF SundayPart
<1>4. S \subseteq T /\ A \subseteq T /\ B \subseteq T
      BY <1>2 DEF SundayCheckin, Counting, SundayPart
<1>5. Cardinality(S) \in 0 .. 4
  <2>1. S \subseteq A \cup B
        BY <1>3, <1>4
  <2> QED BY <1>1, <2>1, AtMostFour DEF Few
<1>6. ASSUME ~ChangesOnSunday(hh) PROVE S = A \/ S = B
  <2>1. b = a \/ c <= 0 \/ 1440 <= c
        BY <1>0, <1>6 DEF ChangesOnSunday, Day
  <2> HIDE DEF S, A, B, T, a, b, c
  <2>2. CASE b = a
    <3>1. A = B
          BY <2>2 DEF A, B
    <3> QED BY <1>3, <1>4, <3>1
  <2>3. CASE c <= 0
    <3>1. \A t \in T : ~(t < c)
          BY <1>0, <1>3, <2>3
    <3> QED BY <1>3, <1>4, <3>1
  <2>4. CASE 1440 <= c
    <3>1. \A t \in T : t < c
          BY <1>0, <1>3, <2>4
    <3> QED BY <1>3, <1>4, <3>1
  <2> QED BY <2>1, <2>2, <2>3, <2>4
<1> QED BY <1>1, <1>5, <1>6 DEF Few

\* The household and the phase of the jobs are given once.
HomeKnown == home # Null => home \in Homes /\ phase \in PhaseNumbers

\* Wherever the ticks of the jobs fall, whenever the clocks of a household show the
\* time it chose a tick counts it, for any time, in any zone whose offsets are whole
\* quarters: once or twice on a day, and once or twice a week for its check-in, where
\* the clocks do not change, and never more than four times.
THEOREM HouseholdsAreServed == Spec => []DigestsComeOnTime
<1>1. Init => HomeKnown
  <2> SUFFICES ASSUME Init, home # Null PROVE home \in Homes /\ phase \in PhaseNumbers
      BY DEF HomeKnown
  <2>1. home \in [hour : Hours, minute : Minutes, zone : Zones, midnight : {0, 24}] /\ phase \in Phases
        BY DEF Init, LocalTimeInit
  <2>2. Hours \subseteq HourNumbers /\ Minutes \subseteq MinuteNumbers /\ Phases \subseteq PhaseNumbers
        BY LocalTimeAssumption DEF HourNumbers, MinuteNumbers, PhaseNumbers
  <2>3. /\ home.hour \in Hours /\ home.minute \in Minutes /\ home.zone \in Zones /\ home.midnight \in {0, 24}
        /\ home = [hour |-> home.hour, minute |-> home.minute, zone |-> home.zone, midnight |-> home.midnight]
        BY <2>1
  <2> DEFINE z == home.zone
  <2>4. /\ z \in [before : -720 .. 840, after : -720 .. 840, changeAt : Int]
        /\ z.before % 15 = 0 /\ z.after % 15 = 0 /\ z.changeAt % 15 = 0
        BY <2>3, LocalTimeAssumption
  <2> HIDE DEF z
  <2>5. z \in [before : Quarters, after : Quarters, changeAt : Int]
        BY <2>4 DEF Quarters
  <2> QED BY <2>1, <2>2, <2>3, <2>4, <2>5 DEF Homes, z
<1>2. HomeKnown /\ [Next]_servicesVars => HomeKnown'
      BY DEF HomeKnown, Next, MilestonesStep, SchoolStep, DigestsStep, PlannerStep, TenancyStep,
             servicesVars, timeVars
<1>3. HomeKnown => DigestsComeOnTime
  <2> SUFFICES ASSUME HomeKnown, home # Null, Reachable(home) PROVE DigestsComeOnTime
      BY DEF DigestsComeOnTime, DigestEveryDay, CheckinEveryWeek
  <2>1. home \in Homes /\ phase \in PhaseNumbers
        BY DEF HomeKnown
  <2>2. ASSUME NEW d \in DayNumbers
        PROVE  /\ \A t \in Shown(home, d) : \E tick \in Counting(home) : Distance(tick, t) < Cadence
               /\ ~ChangesOn(home, d) => Cardinality(DailyDigest(home, d)) \in 1 .. 2
               /\ Cardinality(DailyDigest(home, d)) \in 0 .. 4
        BY <2>1, EveryDayServed, ShownIsServed
  <2>3. /\ ~ChangesOnSunday(home) => Cardinality(SundayCheckin(home)) \in 1 .. 2
        /\ Cardinality(SundayCheckin(home)) \in 0 .. 4
        BY <2>1, EveryWeekServed
  <2> QED BY <2>2, <2>3 DEF DigestsComeOnTime, DigestEveryDay, CheckinEveryWeek, DayNumbers
<1> QED BY <1>1, <1>2, <1>3, PTL DEF Spec

-----------------------------------------------------------------------------
(* Digests: what was recorded was mailed, and the shares a household's members  *)
(* are told are shares of one whole, for any members, tasks and calls.          *)

ChoreTable == [DigestTasks -> [holder : DigestMembers \cup {Null}, done : BOOLEAN]]

\* The tasks as the load sees them, and the load of every member.
LoadTasks(ch) == [t \in DigestTasks |-> [category |-> "ERRAND", urgency |-> "MED", assignee |-> ch[t].holder]]
EquityOf(ch) == ComputeLoadEquity(LoadTasks(ch), DigestMembers)

SendRow ==
    [step : {"none", "items", "share", "mail", "record", "done", "failed"},
     member : DigestMembers \cup {1}, items : SUBSET DigestTasks, share : 0 .. 1000, ref : Nat]

DigestsTyped ==
    /\ chores \in ChoreTable
    /\ sends \in [Sends -> SendRow]
    /\ moves \in 0 .. MaxMoves
    /\ IsFiniteSet(mails)

\* Between mailing and recording the mail is there, under its ref.
MailedBeforeRecord ==
    /\ records \subseteq mails
    /\ \A s \in Sends : /\ sends[s].step = "record" => MailOf(s, sends[s].ref) \in mails
                        /\ sends[s].step = "done" => MailOf(s, sends[s].ref) \in records

\* The shares read so far are those of one state of the tasks, which is the state
\* they are in while the digests are being built.
Shares(ch) ==
    /\ house.shares \in Seq(0 .. 1000) /\ Len(house.shares) = house.member - 1
    /\ \A i \in 1 .. house.member - 1 : house.shares[i] = EquityOf(ch)[i].share

HouseReadOnce ==
    /\ house.step \in {"none", "build", "done", "failed"}
    /\ house.step = "none" => house = Idle
    /\ house.member \in Nat \ {0} /\ house.steady \in BOOLEAN
    /\ house.member - 1 \in DigestMembers \cup {0}
    /\ house.step = "done" => house.member \notin DigestMembers
    /\ house.step \in {"build", "done"} /\ house.steady =>
          \E ch \in ChoreTable : /\ Shares(ch)
                                 /\ house.step = "build" \/ moves = 0 => ch = chores

DigestsInv == DigestsTyped /\ MailedBeforeRecord /\ HouseReadOnce

LEMMA LoadTasksKnown ==
    ASSUME NEW ch \in ChoreTable
    PROVE  /\ LoadKnown(LoadTasks(ch)) /\ DOMAIN LoadTasks(ch) = DigestTasks
           /\ \A t \in DigestTasks : ~Counted(LoadTasks(ch)[t], DigestMembers) => ch[t].holder = Null
BY DigestsAssumption DEF LoadTasks, ChoreTable, Urgencies, Counted, LoadKnown

LEMMA MembersFinite == IsFiniteSet(DigestMembers) /\ \E n \in Nat : DigestMembers = 1 .. n /\ Cardinality(DigestMembers) = n
<1>1. IsFiniteSet(DigestMembers) /\ Cardinality(DigestMembers) \in Nat
      BY DigestsAssumption, FS_CardinalityType
<1> QED BY <1>1, DigestsAssumption

\* The share of a member is one of its household.
LEMMA SharesTyped ==
    ASSUME NEW ch \in ChoreTable, NEW m \in DigestMembers
    PROVE  EquityOf(ch)[m].share \in 0 .. 1000
<1> DEFINE table == LoadTasks(ch)
           share == [k \in DigestMembers |-> EquityOf(ch)[k].share]
<1>1. LoadKnown(table)
      BY LoadTasksKnown
<1>2. SharesOf(share, table, DigestMembers)
      BY DEF EquityOf, SharesOf
<1>3. share[m] = EquityOf(ch)[m].share
      OBVIOUS
<1> HIDE DEF table, share
<1>4. OneWhole(share, table, DigestMembers)
      BY <1>1, <1>2, MembersFinite, SharesMakeTheWhole
<1> QED BY <1>3, <1>4 DEF OneWhole

\* The share that is read is the one of the tasks as they are.
LEMMA ShareOfNow ==
    ASSUME chores \in ChoreTable, NEW m \in DigestMembers
    PROVE  ShareOf(m) = EquityOf(chores)[m].share /\ ShareOf(m) \in 0 .. 1000
<1>1. ShareOf(m) = EquityOf(chores)[m].share
      BY DEF ShareOf, Equity, EquityOf, LoadTasks
<1>2. EquityOf(chores)[m].share \in 0 .. 1000
      BY SharesTyped
<1> QED BY <1>1, <1>2

\* Told by one state of the tasks, the shares add up.
LEMMA OneWholeTold ==
    ASSUME NEW ch \in ChoreTable, HouseReadOnce, house.step = "done", Shares(ch)
    PROVE  LET told == MapThenSumSet(LAMBDA i : house.shares[i], DOMAIN house.shares)
           IN  \/ told = 0 /\ \A t \in DigestTasks : ch[t].holder = Null
               \/ told \in 1000 - Len(house.shares) .. 1000 + Len(house.shares)
<1> DEFINE table == LoadTasks(ch)
           share == house.shares
           S == DOMAIN share
<1>1. PICK n \in Nat : DigestMembers = 1 .. n /\ Cardinality(DigestMembers) = n
      BY MembersFinite
<1>2. house.member = n + 1
      BY <1>1 DEF HouseReadOnce
<1>3. Len(share) = n /\ share \in Seq(0 .. 1000)
      BY <1>1, <1>2 DEF Shares
<1>4. S = DigestMembers /\ \A i \in S : share[i] \in Int
  <2> DEFINE X == 0 .. 1000
  <2>1. share \in Seq(X) /\ X \subseteq Int
        BY <1>3
  <2> HIDE DEF share, X
  <2>2. DOMAIN share = 1 .. Len(share) /\ \A i \in 1 .. Len(share) : share[i] \in X
        BY <2>1
  <2>3. DOMAIN share = DigestMembers
        BY <1>1, <1>3, <2>2
  <2> QED BY <1>1, <1>3, <2>1, <2>2, <2>3
<1>5. LoadKnown(table)
      BY LoadTasksKnown
<1>6. SharesOf(share, table, DigestMembers)
      BY <1>1, <1>2 DEF EquityOf, Shares, SharesOf
<1>7. IsFiniteSet(S)
      BY <1>4, MembersFinite
<1> HIDE DEF table, share, S
<1>8. MapThenSumSet(LAMBDA i : share[i], S) = SumOf(share, S)
      BY DEF SumOf
<1>9. OneWhole(share, table, DigestMembers)
      BY <1>5, <1>6, MembersFinite, SharesMakeTheWhole
<1> DEFINE told == SumOf(share, DigestMembers)
           N == Cardinality(DigestMembers)
<1>10. \/ told = 0 /\ \A i \in DOMAIN table : ~Counted(table[i], DigestMembers)
       \/ told \in Int /\ 2 * told \in 2000 - N .. 2000 + N
       BY <1>9 DEF OneWhole
<1>11. MapThenSumSet(LAMBDA i : house.shares[i], DOMAIN house.shares) = told
       BY <1>4, <1>8 DEF share, S
<1>12. CASE told = 0 /\ \A i \in DOMAIN table : ~Counted(table[i], DigestMembers)
  <2>1. \A t \in DigestTasks : ch[t].holder = Null
        BY <1>12, LoadTasksKnown DEF table
  <2> QED BY <1>11, <1>12, <2>1
<1>13. CASE told \in Int /\ 2 * told \in 2000 - N .. 2000 + N
  <2>1. Len(share) = n /\ N = n
        BY <1>1, <1>3
  <2> HIDE DEF told, N
  <2>2. told \in 1000 - n .. 1000 + n
        BY <1>13, <2>1
  <2> QED BY <1>11, <2>1, <2>2 DEF share
<1> QED BY <1>10, <1>12, <1>13

LEMMA DigestsInitHolds == DigestsInit => DigestsInv
<1> SUFFICES ASSUME DigestsInit PROVE DigestsInv
    OBVIOUS
<1>1. DigestsTyped
  <2>1. chores \in ChoreTable /\ moves \in 0 .. MaxMoves /\ IsFiniteSet(mails)
    <3>1. chores \in ChoreTable
      <4> DEFINE Fresh_ == [holder : DigestMembers \cup {Null}, done : {FALSE}]
                 After_ == [holder : DigestMembers \cup {Null}, done : BOOLEAN]
      <4>1. Fresh_ \subseteq After_ /\ chores \in [DigestTasks -> Fresh_]
            BY DEF DigestsInit
      <4> HIDE DEF Fresh_, After_
      <4>2. chores \in [DigestTasks -> After_]
            BY <4>1
      <4> QED BY <4>2 DEF After_, ChoreTable
    <3>2. moves \in 0 .. MaxMoves
          BY DigestsAssumption DEF DigestsInit
    <3>3. IsFiniteSet(mails)
          BY FS_EmptySet DEF DigestsInit
    <3> QED BY <3>1, <3>2, <3>3
  <2>2. Unsent \in SendRow
        BY DEF SendRow, Unsent
  <2> QED BY <2>1, <2>2 DEF DigestsInit, DigestsTyped
<1>2. MailedBeforeRecord
      BY DEF DigestsInit, MailedBeforeRecord, Unsent
<1>3. HouseReadOnce
      BY DEF DigestsInit, HouseReadOnce, Idle
<1> QED BY <1>1, <1>2, <1>3 DEF DigestsInv

\* A step of the calls that mail: the tasks and the household's digests stay.
LEMMA SendHolds ==
    ASSUME DigestsInv, NEW s \in Sends,
           StartSend(s) \/ ReadItems(s) \/ ReadShare(s) \/ SendMail(s) \/ RecordMail(s)
    PROVE  DigestsInv'
<1> USE DEF DigestsInv
<1>0. UNCHANGED <<chores, house, moves>>
      BY DEF StartSend, ReadItems, ReadShare, SendMail, RecordMail
<1>1. HouseReadOnce'
      BY <1>0 DEF HouseReadOnce, Shares, EquityOf, LoadTasks, ChoreTable
<1>2. CASE StartSend(s)
  <2>0. PICK m \in DigestMembers : sends' = [sends EXCEPT ![s].step = "items", ![s].member = m]
        BY <1>2 DEF StartSend
  <2>1. DigestsTyped'
    <3>1. UNCHANGED mails
          BY <1>2 DEF StartSend
    <3>2. sends' \in [Sends -> SendRow]
      <4> DEFINE row == [sends[s] EXCEPT !.step = "items", !.member = m]
      <4>1. row \in SendRow
        <5> DEFINE r == sends[s]
                   ms == DigestMembers \cup {1}
        <5>1. r \in SendRow /\ m \in ms
              BY DEF DigestsTyped
        <5> HIDE DEF r, ms
        <5>2. [r EXCEPT !.step = "items", !.member = m] \in SendRow
              BY <5>1 DEF SendRow, ms
        <5> QED BY <5>2 DEF r
      <4>2. sends' = [sends EXCEPT ![s] = row]
            BY <2>0 DEF DigestsTyped
      <4> HIDE DEF row
      <4> QED BY <4>1, <4>2 DEF DigestsTyped
    <3> QED BY <1>0, <3>1, <3>2 DEF DigestsTyped
  <2>2. MailedBeforeRecord'
    <3>1. UNCHANGED <<mails, records>>
          BY <1>2 DEF StartSend
    <3>2. ASSUME NEW z \in Sends, sends'[z].step \in {"record", "done"} PROVE sends'[z] = sends[z]
          BY <2>0, <3>2 DEF DigestsTyped, SendRow
    <3> QED BY <3>1, <3>2 DEF MailedBeforeRecord, MailOf
  <2> QED BY <1>1, <2>1, <2>2
<1>3. CASE ReadItems(s)
  <2>1. DigestsTyped'
    <3>1. Listed(sends[s].member) \in SUBSET DigestTasks
          BY DEF Listed
    <3>2. UNCHANGED mails
          BY <1>3 DEF ReadItems
    <3>3. sends' \in [Sends -> SendRow]
      <4> DEFINE items_ == Listed(sends[s].member)
                 row == [sends[s] EXCEPT !.step = "share", !.items = items_]
      <4>1. sends' = [sends EXCEPT ![s] = row]
            BY <1>3 DEF DigestsTyped, ReadItems
      <4> HIDE DEF items_
      <4>2. row \in SendRow
        <5> DEFINE r == sends[s]
        <5>1. r \in SendRow /\ items_ \in SUBSET DigestTasks
              BY <3>1 DEF DigestsTyped, items_
        <5> HIDE DEF r
        <5>2. [r EXCEPT !.step = "share", !.items = items_] \in SendRow
              BY <5>1 DEF SendRow
        <5> QED BY <5>2 DEF r
      <4> HIDE DEF row
      <4> QED BY <4>1, <4>2 DEF DigestsTyped
    <3> QED BY <1>0, <3>2, <3>3 DEF DigestsTyped
  <2>2. MailedBeforeRecord'
        BY <1>3 DEF ReadItems, MailedBeforeRecord, MailOf, DigestsTyped, SendRow
  <2> QED BY <1>1, <2>1, <2>2
<1>4. CASE ReadShare(s)
  <2>1. sends[s].member \in DigestMembers => ShareOf(sends[s].member) \in 0 .. 1000
        BY ShareOfNow DEF DigestsTyped
  <2>2. DigestsTyped'
        BY <1>0, <1>4, <2>1 DEF ReadShare, DigestsTyped, SendRow
  <2>3. MailedBeforeRecord'
        BY <1>4 DEF ReadShare, MailedBeforeRecord, MailOf, DigestsTyped, SendRow
  <2> QED BY <1>1, <2>2, <2>3
<1>5. CASE SendMail(s)
  <2> DEFINE ref_ == Cardinality(mails) + 1
  <2>1. ref_ \in Nat
        BY FS_CardinalityType DEF DigestsTyped
  <2>2. IsFiniteSet(mails')
    <3>1. mails' = mails \/ mails' = mails \cup {MailOf(s, ref_)}
          BY <1>5 DEF SendMail
    <3> QED BY <3>1, FS_AddElement DEF DigestsTyped
  <2>3. sends' = [sends EXCEPT ![s].step = "record", ![s].ref = ref_] \/ sends' = [sends EXCEPT ![s].step = "failed"]
        BY <1>5 DEF SendMail
  <2> HIDE DEF ref_
  <2>4. DigestsTyped'
        BY <1>0, <2>1, <2>2, <2>3 DEF DigestsTyped, SendRow
  <2>5. MailedBeforeRecord'
        BY <1>5, <2>1 DEF SendMail, MailedBeforeRecord, MailOf, DigestsTyped, SendRow, ref_
  <2> QED BY <1>1, <2>4, <2>5
<1>6. CASE RecordMail(s)
  <2>1. DigestsTyped'
        BY <1>0, <1>6 DEF RecordMail, DigestsTyped, SendRow
  <2>2. MailedBeforeRecord'
        BY <1>6 DEF RecordMail, MailedBeforeRecord, MailOf, RecordOf, DigestsTyped, SendRow
  <2> QED BY <1>1, <2>1, <2>2
<1> QED BY <1>2, <1>3, <1>4, <1>5, <1>6

LEMMA StartHouseHolds == DigestsInv /\ StartHouse => DigestsInv'
<1> SUFFICES ASSUME DigestsInv, StartHouse PROVE DigestsInv'
    OBVIOUS
<1>1. DigestsTyped' /\ MailedBeforeRecord'
      BY DEF DigestsInv, DigestsTyped, MailedBeforeRecord, StartHouse, MailOf
<1>2. house' = [step |-> "build", member |-> 1, shares |-> <<>>, steady |-> TRUE]
      BY DEF StartHouse, Idle
<1>3. Shares(chores)'
      BY <1>2 DEF Shares
<1>4. HouseReadOnce'
      BY <1>2, <1>3 DEF HouseReadOnce, StartHouse, DigestsInv, DigestsTyped
<1> QED BY <1>1, <1>4 DEF DigestsInv

LEMMA BuildHolds == DigestsInv /\ BuildNext => DigestsInv'
<1> SUFFICES ASSUME DigestsInv, BuildNext PROVE DigestsInv'
    OBVIOUS
<1>1. DigestsTyped' /\ MailedBeforeRecord'
      BY DEF DigestsInv, DigestsTyped, MailedBeforeRecord, BuildNext, MailOf
<1>2. PICK n \in Nat : DigestMembers = 1 .. n
      BY MembersFinite
<1>3. HouseReadOnce /\ chores \in ChoreTable
      BY DEF DigestsInv, DigestsTyped
<1>4. CASE house.member \in DigestMembers /\ house' = [house EXCEPT !.member = @ + 1, !.shares = Append(@, ShareOf(house.member))]
  <2> DEFINE m == house.member
  <2>1. ShareOf(m) = EquityOf(chores)[m].share /\ ShareOf(m) \in 0 .. 1000
        BY <1>3, <1>4, ShareOfNow
  <2>2. ASSUME Shares(chores) PROVE Shares(chores)'
    <3>1. house.shares \in Seq(0 .. 1000) /\ Len(house.shares) = m - 1 /\ m \in Nat \ {0}
          BY <1>3, <2>2 DEF Shares, HouseReadOnce
    <3> DEFINE s == house.shares
               x == ShareOf(m)
    <3>2. house'.shares = Append(s, x) /\ house'.member = m + 1
          BY <1>4
    <3> HIDE DEF s, x
    <3>3. Append(s, x) \in Seq(0 .. 1000) /\ Len(Append(s, x)) = m
      <4> DEFINE X == 0 .. 1000
      <4>1. s \in Seq(X) /\ x \in X
            BY <2>1, <3>1 DEF s, x
      <4> HIDE DEF X
      <4>2. Append(s, x) \in Seq(X) /\ Len(Append(s, x)) = Len(s) + 1
            BY <4>1
      <4>3. Len(s) + 1 = m
            BY <3>1 DEF s
      <4> QED BY <4>2, <4>3 DEF X
    <3>4. \A i \in 1 .. m : Append(s, x)[i] = EquityOf(chores)[i].share
          BY <2>1, <2>2, <3>1 DEF s, x, Shares
    <3>5. UNCHANGED chores
          BY DEF BuildNext
    <3> QED BY <3>1, <3>2, <3>3, <3>4, <3>5 DEF Shares, EquityOf, LoadTasks
  <2>3. HouseReadOnce'
        BY <1>2, <1>3, <1>4, <2>2 DEF HouseReadOnce, BuildNext
  <2> QED BY <1>1, <2>3 DEF DigestsInv
<1>5. CASE house.member \notin DigestMembers /\ house' = [house EXCEPT !.step = "done"]
      BY <1>1, <1>3, <1>5 DEF HouseReadOnce, BuildNext, DigestsInv, Shares, EquityOf, LoadTasks
<1>6. CASE house' = [house EXCEPT !.step = "failed"]
      BY <1>1, <1>3, <1>6 DEF HouseReadOnce, BuildNext, DigestsInv
<1> QED BY <1>4, <1>5, <1>6 DEF BuildNext

LEMMA TaskMovesHolds == ASSUME DigestsInv, NEW t \in DigestTasks, TaskMoves(t) PROVE DigestsInv'
<1>1. chores' \in ChoreTable /\ moves' = moves + 1 /\ moves < MaxMoves /\ moves \in Nat
  <2>1. chores \in ChoreTable /\ moves \in 0 .. MaxMoves /\ moves < MaxMoves /\ moves' = moves + 1
        BY DEF TaskMoves, DigestsInv, DigestsTyped
  <2>2. chores' \in ChoreTable
    <3>1. CASE \E m \in DigestMembers \ {chores[t].holder} : chores' = [chores EXCEPT ![t].holder = m]
          BY <2>1, <3>1 DEF ChoreTable
    <3>2. CASE chores' = [chores EXCEPT ![t].done = TRUE]
          BY <2>1, <3>2 DEF ChoreTable
    <3> QED BY <3>1, <3>2 DEF TaskMoves
  <2> QED BY <2>1, <2>2, DigestsAssumption
<1>2. DigestsTyped' /\ MailedBeforeRecord'
      BY <1>1, DigestsAssumption DEF DigestsInv, DigestsTyped, MailedBeforeRecord, TaskMoves, MailOf, ChoreTable, SendRow
<1>3. CASE house.step = "build"
  <2>1. house' = [house EXCEPT !.steady = FALSE]
        BY <1>3 DEF TaskMoves
  <2> QED BY <1>2, <1>3, <2>1 DEF DigestsInv, HouseReadOnce
<1>4. CASE house.step # "build"
  <2>1. house' = house /\ moves' # 0
        BY <1>1, <1>4 DEF TaskMoves
  <2> QED BY <1>2, <1>4, <2>1 DEF DigestsInv, HouseReadOnce, Shares, EquityOf, LoadTasks, ChoreTable
<1> QED BY <1>3, <1>4

LEMMA DigestsInvNext == DigestsInv /\ [Next]_servicesVars => DigestsInv'
<1> SUFFICES ASSUME DigestsInv, [Next]_servicesVars PROVE DigestsInv'
    OBVIOUS
<1>1. CASE DigestsNext
      BY <1>1, SendHolds, StartHouseHolds, BuildHolds, TaskMovesHolds DEF DigestsNext
<1>2. CASE UNCHANGED digestVars
      BY <1>2 DEF digestVars, DigestsInv, DigestsTyped, MailedBeforeRecord, HouseReadOnce, MailOf,
                  Shares, EquityOf, LoadTasks, ChoreTable, SendRow
<1> QED BY <1>1, <1>2 DEF Next, MilestonesStep, SchoolStep, DigestsStep, PlannerStep, TenancyStep, servicesVars

LEMMA InvGivesTruth == DigestsInv => DigestsAreTrue
<1> SUFFICES ASSUME DigestsInv PROVE DigestsAreTrue
    OBVIOUS
<1>1. RecordedWasMailed
      BY DEF DigestsInv, MailedBeforeRecord, RecordedWasMailed
<1>2. HouseholdSharesAddUp
  <2> SUFFICES ASSUME house.step = "done", house.steady PROVE HouseholdSharesAddUp
      BY DEF HouseholdSharesAddUp
  <2>1. PICK ch \in ChoreTable : Shares(ch) /\ (moves = 0 => ch = chores)
        BY DEF DigestsInv, HouseReadOnce
  <2> DEFINE told == MapThenSumSet(LAMBDA i : house.shares[i], DOMAIN house.shares)
  <2>2. \/ told = 0 /\ \A t \in DigestTasks : ch[t].holder = Null
        \/ told \in 1000 - Len(house.shares) .. 1000 + Len(house.shares)
        BY <2>1, OneWholeTold DEF DigestsInv
  <2>3. moves = 0 \/ moves > 0
        BY DEF DigestsInv, DigestsTyped
  <2>4. \/ told = 0 /\ \A t \in DigestTasks : chores[t].holder = Null \/ moves > 0
        \/ told \in 1000 - Len(house.shares) .. 1000 + Len(house.shares)
        BY <2>1, <2>2, <2>3
  <2> QED BY <2>4 DEF HouseholdSharesAddUp
<1> QED BY <1>1, <1>2 DEF DigestsAreTrue

\* However sending overlaps with the tasks that move: what is recorded as sent
\* was mailed word for word, and the shares told to the members of a household
\* are shares of one whole, if no task moved between them.
THEOREM DigestsTellTheTruth == Spec => []DigestsAreTrue
<1>1. Init => DigestsInv
      BY DigestsInitHolds DEF Init
<1> QED BY <1>1, DigestsInvNext, InvGivesTruth, PTL DEF Spec
-----------------------------------------------------------------------------
(* The radar: what a finished run stored is what it found in the blocks it      *)
(* read.  Whatever else is stored or read meanwhile, the rows it has stored and *)
(* those it has yet to store are what the radar reported, for any number of     *)
(* runs and blocks.                                                             *)

ReportOf(seen) == DetectConflicts(Commitments(seen), <<>>, DefaultBuffer)

FoundReports == UNION {Reports(Commitments(s)) : s \in Seq(BlockKinds)}

RadarRow == [step : Steps, seen : Seq(BlockKinds), found : Seq(FoundReports)]

ConflictRow == [call : Radars, conflict : FoundReports]

RadarTyped ==
    /\ blocks \in Seq(BlockKinds)
    /\ conflicts \in Seq(ConflictRow)
    /\ radars \in [Radars -> RadarRow]

StoredBy(r) == {conflicts[i].conflict : i \in {k \in DOMAIN conflicts : conflicts[k].call = r}}

\* What a run has stored, and what it has yet to store, is what it found.
StoresItsReport(r) ==
    IF radars[r].step = "none" THEN StoredBy(r) = {}
    ELSE StoredBy(r) \cup Range(radars[r].found) = Range(ReportOf(radars[r].seen))

StoresReports ==
    /\ \A r \in Radars : StoresItsReport(r)
    /\ \A r \in Radars : radars[r].step = "done" => radars[r].found = <<>>

RadarInv == RadarTyped /\ StoresReports

\* The commitments of a list of blocks are those of its blocks that take time.
LEMMA CommitmentsMatch ==
    ASSUME NEW seen \in Seq(BlockKinds)
    PROVE  /\ Timed(Commitments(seen))
           /\ \E o : /\ \A k \in DOMAIN Commitments(seen) :
                           /\ o[k] \in DOMAIN seen /\ seen[o[k]].kind # "AVAILABLE"
                           /\ Commitments(seen)[k].member = seen[o[k]].member
                           /\ Commitments(seen)[k].from = seen[o[k]].from
                           /\ Commitments(seen)[k].to = seen[o[k]].to
                     /\ \A i \in DOMAIN seen : seen[i].kind # "AVAILABLE" =>
                           \E k \in DOMAIN Commitments(seen) : o[k] = i
                     /\ \A j, k \in DOMAIN Commitments(seen) : o[j] = o[k] => j = k
<1> DEFINE I == {i \in DOMAIN seen : IsCommitment(seen[i])}
           kept == Kept(seen, I)
           n == Cardinality(I)
           cs == Commitments(seen)
<1>1. /\ Len(seen) \in Nat /\ DOMAIN seen = 1 .. Len(seen)
      /\ \A i \in DOMAIN seen : seen[i] \in BlockKinds
      OBVIOUS
<1>2. \A i \in DOMAIN seen : seen[i].from \in Int /\ seen[i].to \in Int
      BY <1>1, PlannerAssumption
<1>3. IsFiniteSet(I) /\ I \subseteq Int
  <2>1. IsFiniteSet(DOMAIN seen) /\ I \subseteq DOMAIN seen /\ DOMAIN seen \subseteq Int
        BY <1>1, Prefixes1N
  <2> QED BY <2>1, FS_Subset
<1>4. /\ \A i \in I : i \in DOMAIN seen /\ seen[i].kind # "AVAILABLE"
      /\ \A i \in DOMAIN seen : seen[i].kind # "AVAILABLE" => i \in I
      BY DEF IsCommitment
<1>5. cs = [i \in DOMAIN kept |-> [member |-> kept[i].member, from |-> kept[i].from, to |-> kept[i].to,
                                   task |-> Null, driver |-> FALSE]]
      BY DEF Commitments
<1> HIDE DEF I, cs
<1>6. PICK o : Arranges(kept, o, seen, I)
  <2>1. \E o : /\ Arranges(Kept(seen, I), o, seen, I)
               /\ \A j, k \in 1 .. Cardinality(I) : j < k => o[j] < o[k]
        BY <1>3, KeptFacts
  <2> QED BY <2>1
<1> HIDE DEF kept
<1>7. /\ n \in Nat /\ DOMAIN kept = 1 .. n
      /\ \A k \in 1 .. n : o[k] \in I /\ kept[k] = seen[o[k]]
      /\ \A i \in I : \E k \in 1 .. n : o[k] = i
      /\ \A j, k \in 1 .. n : o[j] = o[k] => j = k
  <2>1. /\ n \in Nat /\ kept = [k \in 1 .. n |-> seen[o[k]]]
        /\ \A k \in 1 .. n : o[k] \in I
        /\ \A i \in I : \E k \in 1 .. n : o[k] = i
        /\ \A j, k \in 1 .. n : o[j] = o[k] => j = k
        BY <1>6 DEF Arranges
  <2> HIDE DEF n
  <2> QED BY <2>1
<1> HIDE DEF n
<1>8. DOMAIN cs = 1 .. n /\ Len(cs) = n
  <2>1. DOMAIN cs = 1 .. n
        BY <1>5, <1>7
  <2>2. cs = [k \in 1 .. n |-> cs[k]]
        BY <1>5, <2>1
  <2> QED BY <1>7, <2>1, <2>2
<1>9. ASSUME NEW k \in DOMAIN cs
      PROVE  /\ o[k] \in DOMAIN seen /\ seen[o[k]].kind # "AVAILABLE"
             /\ cs[k].member = seen[o[k]].member
             /\ cs[k].from = seen[o[k]].from /\ cs[k].to = seen[o[k]].to
      BY <1>4, <1>5, <1>7, <1>8
<1>10. Timed(cs)
       BY <1>2, <1>7, <1>8, <1>9 DEF Timed
<1>11. \A i \in DOMAIN seen : seen[i].kind # "AVAILABLE" => \E k \in DOMAIN cs : o[k] = i
       BY <1>4, <1>7, <1>8
<1>12. \A j, k \in DOMAIN cs : o[j] = o[k] => j = k
       BY <1>7, <1>8
<1>13. /\ Timed(cs)
       /\ \E p : /\ \A k \in DOMAIN cs : /\ p[k] \in DOMAIN seen /\ seen[p[k]].kind # "AVAILABLE"
                                        /\ cs[k].member = seen[p[k]].member
                                        /\ cs[k].from = seen[p[k]].from
                                        /\ cs[k].to = seen[p[k]].to
                 /\ \A i \in DOMAIN seen : seen[i].kind # "AVAILABLE" => \E k \in DOMAIN cs : p[k] = i
                 /\ \A j, k \in DOMAIN cs : p[j] = p[k] => j = k
       BY <1>9, <1>10, <1>11, <1>12
<1> QED BY <1>13 DEF cs

\* What the radar reports of the blocks it read.
ReportIsRight(report, seen) ==
    LET ripples == {c \in Range(report) : c.type = "RIPPLE_SHIFT"}
        squeezes == {c \in Range(report) : c.type = "BUFFER_SQUEEZE"}
    IN  /\ (\E i, j \in DOMAIN seen : i # j /\ Clashing(seen[i], seen[j])) => ripples # {}
        /\ (\A k \in DOMAIN seen : seen[k].from < seen[k].to) =>
              \A c \in ripples : \E i, j \in DOMAIN seen :
                 i # j /\ Clashing(seen[i], seen[j]) /\ c.from = Max({seen[i].from, seen[j].from})
        /\ \A c \in squeezes : \E i, j \in DOMAIN seen :
              /\ i # j /\ c.from = seen[i].to /\ c.to = seen[j].from
              /\ Squeezed(seen[i], seen[j], 15)
              /\ c.severity = "MEDIUM" <=> Squeezed(seen[i], seen[j], 6)

LEMMA ReportFinds ==
    ASSUME NEW seen \in Seq(BlockKinds)
    PROVE  /\ ReportOf(seen) \in Seq(FoundReports)
           /\ ReportIsRight(ReportOf(seen), seen)
<1> DEFINE cs == Commitments(seen)
           found == ReportOf(seen)
<1>1. Timed(cs)
      BY CommitmentsMatch
<1>2. PICK o : /\ \A k \in DOMAIN cs : /\ o[k] \in DOMAIN seen /\ seen[o[k]].kind # "AVAILABLE"
                                      /\ cs[k].member = seen[o[k]].member
                                      /\ cs[k].from = seen[o[k]].from
                                      /\ cs[k].to = seen[o[k]].to
               /\ \A i \in DOMAIN seen : seen[i].kind # "AVAILABLE" => \E k \in DOMAIN cs : o[k] = i
               /\ \A j, k \in DOMAIN cs : o[j] = o[k] => j = k
      BY CommitmentsMatch
<1>3. Reports(cs) \subseteq FoundReports
      BY DEF FoundReports
<1> HIDE DEF cs
<1>4. RadarFound(found, cs, 15)
  <2> DEFINE buffer == 15
             members == <<>>
  <2>1. found = DetectConflicts(cs, members, buffer) /\ buffer \in Int
        BY DEF ReportOf, DefaultBuffer, cs
  <2> HIDE DEF buffer, members, found
  <2>2. RadarFound(found, cs, buffer)
        BY <1>1, <2>1, RadarFinds
  <2> QED BY <2>2 DEF buffer
<1> HIDE DEF found
<1>5. found \in Seq(FoundReports)
  <2>1. found \in Seq(Reports(cs))
        BY <1>4 DEF RadarFound
  <2> DEFINE X == Reports(cs)
             F == FoundReports
  <2>2. X \subseteq F /\ found \in Seq(X)
        BY <1>3, <2>1
  <2> HIDE DEF X, F
  <2>3. found \in Seq(F)
        BY <2>2
  <2> QED BY <2>3 DEF F
<1>6. RippleIsReal(cs, found)
      BY <1>1, <1>4, RadarIsRight
<1>7. ASSUME NEW k \in DOMAIN cs, NEW l \in DOMAIN cs
      PROVE  DoubleBooked(cs[k], cs[l]) <=> Clashing(seen[o[k]], seen[o[l]])
      BY <1>2 DEF DoubleBooked, Clashing
<1> DEFINE ripples == {c \in Range(found) : c.type = "RIPPLE_SHIFT"}
<1>8. ASSUME NEW i \in DOMAIN seen, NEW j \in DOMAIN seen, i # j, Clashing(seen[i], seen[j])
      PROVE  ripples # {}
  <2>1. seen[i].kind # "AVAILABLE" /\ seen[j].kind # "AVAILABLE"
        BY <1>8 DEF Clashing
  <2>2. PICK k \in DOMAIN cs : o[k] = i
        BY <1>2, <2>1
  <2>3. PICK l \in DOMAIN cs : o[l] = j
        BY <1>2, <2>1
  <2>4. k # l /\ DoubleBooked(cs[k], cs[l])
        BY <1>7, <1>8, <2>2, <2>3
  <2>5. PICK e \in DOMAIN found : found[e].type = "RIPPLE_SHIFT"
        BY <1>4, <2>4 DEF RadarFound
  <2> QED BY <2>5 DEF Range
<1>9. ASSUME \A k \in DOMAIN seen : seen[k].from < seen[k].to, NEW c \in ripples
      PROVE  \E i, j \in DOMAIN seen :
                i # j /\ Clashing(seen[i], seen[j]) /\ c.from = Max({seen[i].from, seen[j].from})
  <2>1. PICK e \in DOMAIN found : found[e] = c /\ found[e].type = "RIPPLE_SHIFT"
        BY DEF Range
  <2>2. \A d \in ToSet(cs) : d.from < d.to
        BY <1>2, <1>9 DEF ToSet
  <2>3. PICK k \in DOMAIN cs, l \in DOMAIN cs :
           k # l /\ DoubleBooked(cs[k], cs[l]) /\ found[e].from = Max({cs[k].from, cs[l].from})
    <3>1. \A r \in {i \in DOMAIN found : found[i].type = "RIPPLE_SHIFT"} : \E k, l \in DOMAIN cs :
             k # l /\ DoubleBooked(cs[k], cs[l]) /\ found[r].from = Max({cs[k].from, cs[l].from})
          BY <1>6, <2>2 DEF RippleIsReal
    <3>2. e \in {i \in DOMAIN found : found[i].type = "RIPPLE_SHIFT"}
          BY <2>1
    <3> QED BY <3>1, <3>2
  <2>4. o[k] \in DOMAIN seen /\ o[l] \in DOMAIN seen /\ o[k] # o[l]
        BY <1>2, <2>3
  <2>5. Clashing(seen[o[k]], seen[o[l]])
        BY <1>7, <2>3
  <2>6. c.from = Max({seen[o[k]].from, seen[o[l]].from})
        BY <1>2, <2>1, <2>3
  <2> QED BY <2>4, <2>5, <2>6
<1> DEFINE squeezes == {c \in Range(found) : c.type = "BUFFER_SQUEEZE"}
           Between(c, i, j) ==
              /\ i # j /\ c.from = seen[i].to /\ c.to = seen[j].from
              /\ Squeezed(seen[i], seen[j], 15)
              /\ c.severity = "MEDIUM" <=> Squeezed(seen[i], seen[j], 6)
<1>10. ASSUME NEW c \in squeezes
       PROVE  \E i, j \in DOMAIN seen : Between(c, i, j)
  <2>1. PICK e \in DOMAIN found : found[e] = c /\ found[e].type = "BUFFER_SQUEEZE"
        BY DEF Range
  <2>2. PICK k \in DOMAIN cs, l \in DOMAIN cs : Squeezes(found[e], cs, 15, k, l)
        BY <1>4, <2>1 DEF RadarFound, IsReal
  <2>3. o[k] \in DOMAIN seen /\ o[l] \in DOMAIN seen /\ o[k] # o[l]
        BY <1>2, <2>2 DEF Squeezes
  <2>4. /\ cs[k].member = seen[o[k]].member /\ cs[k].to = seen[o[k]].to
        /\ cs[l].member = seen[o[l]].member /\ cs[l].from = seen[o[l]].from
        /\ seen[o[k]].kind # "AVAILABLE" /\ seen[o[l]].kind # "AVAILABLE"
        BY <1>2
  <2>5. /\ cs[k].member = cs[l].member /\ c.from = cs[k].to /\ c.to = cs[l].from
        /\ c.from <= c.to /\ c.to < AddMinutes(c.from, 15)
        /\ c.severity = "MEDIUM" <=> c.to < AddMinutes(c.from, 6)
        BY <2>1, <2>2 DEF Squeezes
  <2>6. Between(c, o[k], o[l])
        BY <2>3, <2>4, <2>5 DEF Squeezed
  <2> HIDE DEF Between
  <2> QED BY <2>3, <2>6
<1>11. ReportIsRight(found, seen)
  <2> HIDE DEF Between
  <2>1. \A c \in squeezes : \E i, j \in DOMAIN seen : Between(c, i, j)
        BY <1>10
  <2> USE DEF Between
  <2> QED BY <1>8, <1>9, <2>1 DEF ReportIsRight
<1> QED BY <1>5, <1>11 DEF found

LEMMA RadarInitHolds == PlannerInit => RadarInv
<1> SUFFICES ASSUME PlannerInit PROVE RadarInv
    OBVIOUS
<1>1. NotRun \in RadarRow
      BY DEF NotRun, RadarRow, Steps
<1>2. conflicts = <<>> /\ blocks = <<>> /\ DOMAIN conflicts = {}
      BY DEF PlannerInit
<1>3. ASSUME NEW r \in Radars PROVE radars[r].step = "none" /\ StoredBy(r) = {}
      BY <1>2 DEF PlannerInit, NotRun, StoredBy
<1>4. RadarTyped
      BY <1>1, <1>2 DEF PlannerInit, RadarTyped
<1> QED BY <1>3, <1>4 DEF RadarInv, StoresReports, StoresItsReport

LEMMA HeadAndTail ==
    ASSUME NEW X, NEW s \in Seq(X), s # <<>>
    PROVE  /\ Head(s) \in X /\ Tail(s) \in Seq(X)
           /\ Range(s) = {Head(s)} \cup Range(Tail(s))
           /\ DOMAIN Tail(s) = 1 .. Len(s) - 1 /\ DOMAIN s = 1 .. Len(s) /\ Len(s) \in Nat \ {0}
           /\ Head(s) = s[1] /\ \A i \in DOMAIN Tail(s) : Tail(s)[i] = s[i + 1]
<1>1. /\ Head(s) \in X /\ Tail(s) \in Seq(X)
      /\ DOMAIN Tail(s) = 1 .. Len(s) - 1 /\ DOMAIN s = 1 .. Len(s) /\ Len(s) \in Nat \ {0}
      /\ Head(s) = s[1] /\ \A i \in DOMAIN Tail(s) : Tail(s)[i] = s[i + 1]
      OBVIOUS
<1> DEFINE t == Tail(s)
           n == Len(s)
<1>2. Range(s) = {s[1]} \cup Range(t)
  <2>1. /\ DOMAIN t = 1 .. n - 1 /\ DOMAIN s = 1 .. n /\ n \in Nat \ {0}
        /\ \A i \in DOMAIN t : t[i] = s[i + 1]
        BY <1>1
  <2> HIDE DEF t, n
  <2>2. ASSUME NEW x \in Range(s) PROVE x \in {s[1]} \cup Range(t)
    <3>1. PICK i \in DOMAIN s : x = s[i]
          BY DEF Range
    <3>2. CASE i = 1
          BY <3>1, <3>2
    <3>3. CASE i # 1
      <4>1. i - 1 \in DOMAIN t /\ t[i - 1] = s[i]
            BY <2>1, <3>3
      <4> QED BY <3>1, <4>1 DEF Range
    <3> QED BY <3>2, <3>3
  <2>3. ASSUME NEW x \in Range(t) PROVE x \in Range(s)
    <3>1. PICK i \in DOMAIN t : x = t[i]
          BY DEF Range
    <3>2. i + 1 \in DOMAIN s /\ t[i] = s[i + 1]
          BY <2>1
    <3> QED BY <3>1, <3>2 DEF Range
  <2>4. s[1] \in Range(s)
        BY <2>1 DEF Range
  <2> QED BY <2>2, <2>3, <2>4
<1> QED BY <1>1, <1>2

\* A step of the radar moves one run; the others keep their place.
LEMMA RunRadarHolds ==
    ASSUME RadarInv, NEW r \in Radars, RunRadar(r)
    PROVE  RadarInv'
<1> DEFINE new == [step |-> "store", seen |-> blocks, found |-> ReportOf(blocks)]
<1>1. /\ radars[r].step = "none" /\ radars' = [radars EXCEPT ![r] = new]
      /\ blocks' = blocks /\ conflicts' = conflicts
      BY DEF RunRadar, ReportOf
<1>2. blocks \in Seq(BlockKinds) /\ radars \in [Radars -> RadarRow] /\ conflicts \in Seq(ConflictRow)
      BY DEF RadarInv, RadarTyped
<1>3. new \in RadarRow
  <2>1. ReportOf(blocks) \in Seq(FoundReports)
        BY <1>2, ReportFinds
  <2> QED BY <1>2, <2>1 DEF RadarRow, Steps
<1>4. new.step = "store" /\ new.seen = blocks /\ new.found = ReportOf(blocks)
      OBVIOUS
<1> HIDE DEF new
<1>5. radars' \in [Radars -> RadarRow] /\ radars'[r] = new /\ \A q \in Radars \ {r} : radars'[q] = radars[q]
      BY <1>1, <1>2, <1>3
<1>6. \A q \in Radars : StoredBy(q)' = StoredBy(q)
      BY <1>1 DEF StoredBy
<1>7. ASSUME NEW q \in Radars PROVE StoresItsReport(q)'
  <2>1. CASE q = r
    <3>1. StoredBy(r) = {}
          BY <1>1 DEF RadarInv, StoresReports, StoresItsReport
    <3> QED BY <1>4, <1>5, <1>6, <2>1, <3>1 DEF StoresItsReport
  <2>2. CASE q # r
    <3>1. StoresItsReport(q) /\ radars'[q] = radars[q] /\ StoredBy(q)' = StoredBy(q)
          BY <1>5, <1>6, <2>2 DEF RadarInv, StoresReports
    <3> QED BY <3>1 DEF StoresItsReport
  <2> QED BY <2>1, <2>2
<1>8. ASSUME NEW q \in Radars, radars'[q].step = "done" PROVE radars'[q].found = <<>>
      BY <1>4, <1>5, <1>8 DEF RadarInv, StoresReports
<1> QED BY <1>1, <1>2, <1>5, <1>7, <1>8 DEF RadarInv, RadarTyped, StoresReports

LEMMA ConflictAdded ==
    ASSUME NEW r \in Radars, NEW c \in FoundReports, conflicts \in Seq(ConflictRow),
           conflicts' = Append(conflicts, [call |-> r, conflict |-> c])
    PROVE  /\ conflicts' \in Seq(ConflictRow)
           /\ StoredBy(r)' = StoredBy(r) \cup {c}
           /\ \A q \in Radars \ {r} : StoredBy(q)' = StoredBy(q)
<1> DEFINE row == [call |-> r, conflict |-> c]
           n == Len(conflicts)
<1>1. row \in ConflictRow /\ row.call = r /\ row.conflict = c
      BY DEF ConflictRow
<1> HIDE DEF row
<1>2. /\ DOMAIN conflicts' = (DOMAIN conflicts) \cup {n + 1}
      /\ conflicts'[n + 1] = row
      /\ \A e \in DOMAIN conflicts : conflicts'[e] = conflicts[e] /\ e < n + 1
      BY <1>1, Grows DEF row
<1>3. conflicts' \in Seq(ConflictRow)
      BY <1>1 DEF row
<1> HIDE DEF n
<1>4. \A q \in Radars : \A x : x \in StoredBy(q) <=> \E i \in DOMAIN conflicts : conflicts[i].call = q /\ conflicts[i].conflict = x
      BY DEF StoredBy
<1>5. \A q \in Radars : \A x : x \in StoredBy(q)' <=> \E i \in DOMAIN conflicts' : conflicts'[i].call = q /\ conflicts'[i].conflict = x
      BY DEF StoredBy
<1>6. ASSUME NEW q \in Radars, NEW x
      PROVE  x \in StoredBy(q)' <=> x \in StoredBy(q) \/ (q = r /\ x = c)
  <2>1. ASSUME x \in StoredBy(q)' PROVE x \in StoredBy(q) \/ (q = r /\ x = c)
        BY <1>1, <1>2, <1>4, <1>5, <2>1
  <2>2. ASSUME x \in StoredBy(q) PROVE x \in StoredBy(q)'
        BY <1>2, <1>4, <1>5, <2>2
  <2>3. r \in Radars /\ c \in StoredBy(r)'
        BY <1>1, <1>2, <1>5
  <2> QED BY <2>1, <2>2, <2>3
<1>7. StoredBy(r)' = StoredBy(r) \cup {c}
      BY <1>6
<1>8. \A q \in Radars \ {r} : StoredBy(q)' = StoredBy(q)
      BY <1>6
<1> QED BY <1>3, <1>7, <1>8

LEMMA StoreConflictHolds ==
    ASSUME RadarInv, NEW r \in Radars, StoreConflict(r)
    PROVE  RadarInv'
<1> DEFINE row == radars[r]
<1>1. blocks \in Seq(BlockKinds) /\ radars \in [Radars -> RadarRow] /\ conflicts \in Seq(ConflictRow)
      BY DEF RadarInv, RadarTyped
<1>2. row \in RadarRow /\ row.step = "store" /\ blocks' = blocks
      BY <1>1 DEF StoreConflict
<1>3. StoredBy(r) \cup Range(row.found) = Range(ReportOf(row.seen))
      BY <1>2 DEF RadarInv, StoresReports, StoresItsReport
<1>4. CASE row.found # <<>> /\ conflicts' = Append(conflicts, [call |-> r, conflict |-> Head(row.found)])
           /\ radars' = [radars EXCEPT ![r].found = Tail(@)]
  <2> DEFINE c == Head(row.found)
             rest == Tail(row.found)
             new == [row EXCEPT !.found = rest]
  <2>0. row.found \in Seq(FoundReports)
        BY <1>2 DEF RadarRow
  <2>1. c \in FoundReports /\ rest \in Seq(FoundReports) /\ Range(row.found) = {c} \cup Range(rest)
        BY <1>4, <2>0, HeadAndTail
  <2>2. new \in RadarRow /\ new.step = "store" /\ new.seen = row.seen /\ new.found = rest
        BY <1>2, <2>1 DEF RadarRow
  <2>3. radars' = [radars EXCEPT ![r] = new]
        BY <1>1, <1>4
  <2>4. conflicts' = Append(conflicts, [call |-> r, conflict |-> c])
        BY <1>4
  <2> HIDE DEF c, rest, new, row
  <2>5. radars' \in [Radars -> RadarRow] /\ radars'[r] = new /\ \A q \in Radars \ {r} : radars'[q] = radars[q]
        BY <1>1, <2>2, <2>3
  <2>6. /\ conflicts' \in Seq(ConflictRow)
        /\ StoredBy(r)' = StoredBy(r) \cup {c}
        /\ \A q \in Radars \ {r} : StoredBy(q)' = StoredBy(q)
        BY <1>1, <2>1, <2>4, ConflictAdded
  <2>7. ASSUME NEW q \in Radars PROVE StoresItsReport(q)'
    <3>1. CASE q = r
      <4>1. StoredBy(r)' \cup Range(rest) = Range(ReportOf(row.seen))
            BY <1>3, <2>1, <2>6
      <4> QED BY <2>2, <2>5, <3>1, <4>1 DEF StoresItsReport
    <3>2. CASE q # r
      <4>1. StoresItsReport(q) /\ radars'[q] = radars[q] /\ StoredBy(q)' = StoredBy(q)
            BY <2>5, <2>6, <3>2 DEF RadarInv, StoresReports
      <4> QED BY <4>1 DEF StoresItsReport
    <3> QED BY <3>1, <3>2
  <2>8. ASSUME NEW q \in Radars, radars'[q].step = "done" PROVE radars'[q].found = <<>>
        BY <2>2, <2>5, <2>8 DEF RadarInv, StoresReports
  <2> QED BY <1>1, <1>2, <2>5, <2>6, <2>7, <2>8 DEF RadarInv, RadarTyped, StoresReports
<1>5. ASSUME NEW step \in Steps \ {"none"}, step = "done" => row.found = <<>>,
             radars' = [radars EXCEPT ![r].step = step], conflicts' = conflicts
      PROVE  RadarInv'
  <2> DEFINE new == [row EXCEPT !.step = step]
  <2>1. new \in RadarRow /\ new.step = step /\ new.seen = row.seen /\ new.found = row.found
        BY <1>2 DEF RadarRow
  <2>2. radars' = [radars EXCEPT ![r] = new]
        BY <1>1, <1>5
  <2> HIDE DEF new, row
  <2>3. radars' \in [Radars -> RadarRow] /\ radars'[r] = new /\ \A q \in Radars \ {r} : radars'[q] = radars[q]
        BY <1>1, <2>1, <2>2
  <2>4. \A q \in Radars : StoredBy(q)' = StoredBy(q)
        BY <1>5 DEF StoredBy
  <2>5. ASSUME NEW q \in Radars PROVE StoresItsReport(q)'
    <3>1. CASE q = r
          BY <1>3, <1>5, <2>1, <2>3, <2>4, <3>1 DEF StoresItsReport
    <3>2. CASE q # r
      <4>1. StoresItsReport(q) /\ radars'[q] = radars[q] /\ StoredBy(q)' = StoredBy(q)
            BY <2>3, <2>4, <3>2 DEF RadarInv, StoresReports
      <4> QED BY <4>1 DEF StoresItsReport
    <3> QED BY <3>1, <3>2
  <2>6. ASSUME NEW q \in Radars, radars'[q].step = "done" PROVE radars'[q].found = <<>>
        BY <1>5, <2>1, <2>3, <2>6 DEF RadarInv, StoresReports
  <2> QED BY <1>1, <1>2, <1>5, <2>3, <2>5, <2>6 DEF RadarInv, RadarTyped, StoresReports
<1>6. CASE radars' = [radars EXCEPT ![r].step = "failed"] /\ UNCHANGED conflicts
      BY <1>5, <1>6 DEF Steps
<1>7. CASE row.found = <<>> /\ radars' = [radars EXCEPT ![r].step = "done"] /\ UNCHANGED conflicts
      BY <1>5, <1>7 DEF Steps
<1> QED BY <1>4, <1>6, <1>7 DEF StoreConflict

\* Blocks come and go, whoever reads them.
LEMMA BlocksMoved ==
    ASSUME blocks \in Seq(BlockKinds), AddBlock \/ PurgeBlock
    PROVE  blocks' \in Seq(BlockKinds)
<1>1. CASE AddBlock
      BY <1>1 DEF AddBlock
<1>2. CASE PurgeBlock
  <2>1. PICK i \in DOMAIN blocks : blocks' = RemoveAt(blocks, i)
        BY <1>2 DEF PurgeBlock
  <2>2. i \in Int /\ 1 <= i /\ i <= Len(blocks) /\ Len(blocks) \in Nat
        OBVIOUS
  <2>3. SubSeq(blocks, 1, i - 1) \in Seq(BlockKinds)
        BY <2>2
  <2>4. SubSeq(blocks, i + 1, Len(blocks)) \in Seq(BlockKinds)
        BY <2>2
  <2> QED BY <2>1, <2>3, <2>4 DEF RemoveAt
<1> QED BY <1>1, <1>2

LEMMA RadarInvNext == RadarInv /\ [Next]_servicesVars => RadarInv'
<1> SUFFICES ASSUME RadarInv, [Next]_servicesVars PROVE RadarInv'
    OBVIOUS
<1>1. ASSUME blocks' \in Seq(BlockKinds), UNCHANGED <<conflicts, radars>> PROVE RadarInv'
  <2>1. \A q \in Radars : StoredBy(q)' = StoredBy(q)
        BY <1>1 DEF StoredBy
  <2>2. \A q \in Radars : StoresItsReport(q)'
        BY <1>1, <2>1 DEF RadarInv, StoresReports, StoresItsReport
  <2> QED BY <1>1, <2>2 DEF RadarInv, RadarTyped, StoresReports
<1>2. CASE AddBlock \/ PurgeBlock
  <2>1. blocks' \in Seq(BlockKinds)
        BY <1>2, BlocksMoved DEF RadarInv, RadarTyped
  <2> QED BY <1>1, <1>2, <2>1 DEF AddBlock, PurgeBlock
<1>3. CASE \E r \in Radars : RunRadar(r) \/ StoreConflict(r)
      BY <1>3, RunRadarHolds, StoreConflictHolds
<1>4. CASE SetGoal \/ \E s \in Searches : ReadGoals(s) \/ Search(s) \/ StoreWindow(s)
  <2>1. UNCHANGED <<blocks, conflicts, radars>>
        BY <1>4 DEF SetGoal, ReadGoals, Search, StoreWindow
  <2> QED BY <1>1, <2>1 DEF RadarInv, RadarTyped
<1>5. CASE UNCHANGED plannerVars
      BY <1>1, <1>5 DEF plannerVars, RadarInv, RadarTyped
<1> QED BY <1>2, <1>3, <1>4, <1>5 DEF Next, MilestonesStep, SchoolStep, DigestsStep, PlannerStep,
           RadarNext, SearchNext, TenancyStep, servicesVars

\* The property speaks of the report, when that is what was stored.
LEMMA StoredIsReported ==
    ASSUME \A r \in Radars : radars[r].step = "done" =>
              \E report : ReportIsRight(report, radars[r].seen) /\ StoredBy(r) = Range(report)
    PROVE  RadarStoresWhatItSaw
<1> DEFINE seen(r) == radars[r].seen
           Ripples3(S) == {c \in S : c.type = "RIPPLE_SHIFT"}
           Squeezes3(S) == {c \in S : c.type = "BUFFER_SQUEEZE"}
           Right(S, r) ==
              /\ (\E i, j \in DOMAIN seen(r) : i # j /\ Clashing(seen(r)[i], seen(r)[j])) => Ripples3(S) # {}
              /\ (\A k \in DOMAIN seen(r) : seen(r)[k].from < seen(r)[k].to) =>
                    \A c \in Ripples3(S) : \E i, j \in DOMAIN seen(r) :
                       /\ i # j /\ Clashing(seen(r)[i], seen(r)[j])
                       /\ c.from = Max({seen(r)[i].from, seen(r)[j].from})
              /\ \A c \in Squeezes3(S) : \E i, j \in DOMAIN seen(r) :
                    /\ i # j /\ c.from = seen(r)[i].to /\ c.to = seen(r)[j].from
                    /\ Squeezed(seen(r)[i], seen(r)[j], 15)
                    /\ c.severity = "MEDIUM" <=> Squeezed(seen(r)[i], seen(r)[j], 6)
<1>1. ASSUME NEW r \in Radars, NEW report, ReportIsRight(report, radars[r].seen)
      PROVE  Right(Range(report), r)
      BY <1>1, Zenon DEF ReportIsRight
<1> HIDE DEF Right
<1>2. ASSUME NEW r \in Radars, radars[r].step = "done" PROVE Right(StoredBy(r), r)
      BY <1>1, <1>2
<1> USE DEF Right
<1> QED BY <1>2, Zenon DEF RadarStoresWhatItSaw, StoredBy

LEMMA InvGivesReports == RadarInv => RadarStoresWhatItSaw
<1> SUFFICES ASSUME RadarInv, NEW r \in Radars, radars[r].step = "done"
             PROVE  ReportIsRight(ReportOf(radars[r].seen), radars[r].seen)
                    /\ StoredBy(r) = Range(ReportOf(radars[r].seen))
    BY StoredIsReported
<1>1. radars[r].seen \in Seq(BlockKinds)
      BY DEF RadarInv, RadarTyped, RadarRow
<1>2. ReportIsRight(ReportOf(radars[r].seen), radars[r].seen)
      BY <1>1, ReportFinds
<1>3. radars[r].found = <<>>
      BY DEF RadarInv, StoresReports
<1>4. Range(radars[r].found) = {}
      BY <1>3 DEF Range
<1>5. StoredBy(r) \cup Range(radars[r].found) = Range(ReportOf(radars[r].seen))
      BY DEF RadarInv, StoresReports, StoresItsReport
<1> QED BY <1>2, <1>4, <1>5

\* A finished run of the radar has stored a conflict for the double bookings of the
\* blocks it read, and, where they last, every such conflict points at one, whatever
\* rows and runs came in between (availability.service.ts detectAndStoreConflicts).
THEOREM RadarStoresItsReport == Spec => []RadarStoresWhatItSaw
<1>1. Init => RadarInv
      BY RadarInitHolds DEF Init
<1> QED BY <1>1, RadarInvNext, InvGivesReports, PTL DEF Spec

-----------------------------------------------------------------------------
(* The search for free windows: whatever goals are set and blocks come and go   *)
(* between its reads and its writes, what a call has stored and what it has yet *)
(* to store fits the blocks it read and serves a goal its member has.           *)

GoalIds == {g.id : g \in GoalRows}
Window == [goal : GoalIds, from : Int, to : Int]

SearchRow ==
    [step : Steps, member : Range(Planned) \cup {Null}, goals : Seq(GoalRows),
     seen : Seq(BlockKinds), found : Seq(Window)]

StoredWindow == [call : Searches, window : Window, status : {"SUGGESTED"}]

SearchTyped ==
    /\ blocks \in Seq(BlockKinds)
    /\ goals \in Seq(GoalRows)
    /\ windows \in Seq(StoredWindow)
    /\ searches \in [Searches -> SearchRow]

\* A window that fits the blocks a call read and serves a goal it read, and two
\* that do not overlap.
Suits(w, c) ==
    /\ \A k \in DOMAIN c.seen : c.seen[k].member = c.member /\ c.seen[k].kind # "AVAILABLE" =>
          ~WindowsOverlap(w.from, w.to, c.seen[k].from, c.seen[k].to)
    /\ \E k \in DOMAIN c.goals : c.goals[k].id = w.goal

Clear(v, w) ==
    ~WindowsOverlap(v.from, v.to, w.from, w.to) /\ ~WindowsOverlap(w.from, w.to, v.from, v.to)

\* The goals a call read are still set.
GoalsAreSet(c) ==
    \A k \in DOMAIN c.goals : \E j \in DOMAIN goals :
        goals[j] = c.goals[k] /\ goals[j].member = c.member

NothingStored(s) == \A i \in DOMAIN windows : windows[i].call # s

\* What a call has found, and what it has stored, given where it is.
FoundSuits(s) ==
    LET c == searches[s]
    IN  /\ \A k \in DOMAIN c.found : Suits(c.found[k], c)
        /\ \A j, k \in DOMAIN c.found : j # k => Clear(c.found[j], c.found[k])

StoredSuits(s) ==
    \A i \in DOMAIN windows : windows[i].call = s =>
        /\ Suits(windows[i].window, searches[s])
        /\ \A k \in DOMAIN searches[s].found : Clear(windows[i].window, searches[s].found[k])
        /\ \A j \in DOMAIN windows : j # i /\ windows[j].call = s =>
              Clear(windows[i].window, windows[j].window)

SearchSound(s) ==
    /\ searches[s].step \in {"none", "blocks"} => NothingStored(s) /\ searches[s].found = <<>>
    /\ searches[s].step # "none" => GoalsAreSet(searches[s])
    /\ FoundSuits(s) /\ StoredSuits(s)

SearchInv ==
    /\ SearchTyped
    /\ \A s \in Searches : SearchSound(s)
    /\ \A s \in Searches : searches[s].step = "none" => searches[s].goals = <<>>

\* The busy time of a member is that of the member's blocks that take time.
LEMMA BusyMatches ==
    ASSUME NEW seen \in Seq(BlockKinds), NEW member
    PROVE  /\ Timed(BusyBlocks(seen, member))
           /\ \A i \in DOMAIN seen : seen[i].member = member /\ seen[i].kind # "AVAILABLE" =>
                 \E b \in ToSet(BusyBlocks(seen, member)) : b.from = seen[i].from /\ b.to = seen[i].to
<1> DEFINE I == {i \in DOMAIN seen : seen[i].member = member /\ IsCommitment(seen[i])}
           kept == Kept(seen, I)
           n == Cardinality(I)
           busy == BusyBlocks(seen, member)
<1>1. /\ Len(seen) \in Nat /\ DOMAIN seen = 1 .. Len(seen)
      /\ \A i \in DOMAIN seen : seen[i] \in BlockKinds
      OBVIOUS
<1>2. \A i \in DOMAIN seen : seen[i].from \in Int /\ seen[i].to \in Int
      BY <1>1, PlannerAssumption
<1>3. IsFiniteSet(I) /\ I \subseteq Int
  <2>1. IsFiniteSet(DOMAIN seen) /\ I \subseteq DOMAIN seen /\ DOMAIN seen \subseteq Int
        BY <1>1, Prefixes1N
  <2> QED BY <2>1, FS_Subset
<1>4. /\ \A i \in I : i \in DOMAIN seen
      /\ \A i \in DOMAIN seen : seen[i].member = member /\ seen[i].kind # "AVAILABLE" => i \in I
      BY DEF IsCommitment
<1>5. busy = [i \in DOMAIN kept |-> [from |-> kept[i].from, to |-> kept[i].to, label |-> kept[i].kind]]
      BY DEF BusyBlocks
<1> HIDE DEF I, busy
<1>6. PICK o : Arranges(kept, o, seen, I)
  <2>1. \E o : /\ Arranges(Kept(seen, I), o, seen, I)
               /\ \A j, k \in 1 .. Cardinality(I) : j < k => o[j] < o[k]
        BY <1>3, KeptFacts
  <2> QED BY <2>1
<1> HIDE DEF kept
<1>7. /\ n \in Nat /\ DOMAIN kept = 1 .. n
      /\ \A k \in 1 .. n : o[k] \in I /\ kept[k] = seen[o[k]]
      /\ \A i \in I : \E k \in 1 .. n : o[k] = i
  <2>1. /\ n \in Nat /\ kept = [k \in 1 .. n |-> seen[o[k]]]
        /\ \A k \in 1 .. n : o[k] \in I
        /\ \A i \in I : \E k \in 1 .. n : o[k] = i
        BY <1>6 DEF Arranges
  <2> HIDE DEF n
  <2> QED BY <2>1
<1> HIDE DEF n
<1>8. DOMAIN busy = 1 .. n /\ Len(busy) = n
  <2>1. DOMAIN busy = 1 .. n
        BY <1>5, <1>7
  <2>2. busy = [k \in 1 .. n |-> busy[k]]
        BY <1>5, <2>1
  <2> QED BY <1>7, <2>1, <2>2
<1>9. \A k \in DOMAIN busy :
         o[k] \in I /\ busy[k].from = seen[o[k]].from /\ busy[k].to = seen[o[k]].to
      BY <1>5, <1>7, <1>8
<1>10. Timed(busy)
       BY <1>2, <1>4, <1>7, <1>8, <1>9 DEF Timed
<1>11. ASSUME NEW i \in DOMAIN seen, seen[i].member = member, seen[i].kind # "AVAILABLE"
       PROVE  \E b \in ToSet(busy) : b.from = seen[i].from /\ b.to = seen[i].to
  <2>1. PICK k \in DOMAIN busy : o[k] = i
        BY <1>4, <1>7, <1>8, <1>11
  <2> QED BY <1>9, <2>1 DEF ToSet
<1> QED BY <1>10, <1>11 DEF busy

FoundFor(c, found) ==
    found = FindMicroWindows(c.member, c.goals, BusyBlocks(c.seen, c.member), PlanRange, 0)

LEMMA SearchFinds ==
    ASSUME NEW c, c.goals \in Seq(GoalRows), c.seen \in Seq(BlockKinds), NEW found, FoundFor(c, found)
    PROVE  /\ found \in Seq(Window)
           /\ \A k \in DOMAIN found : Suits(found[k], c)
           /\ \A j, k \in DOMAIN found : j # k => Clear(found[j], found[k])
<1> DEFINE gs == c.goals
           seen == c.seen
           member == c.member
           busy == BusyBlocks(seen, member)
           range == PlanRange
           buffer == 0
<1>1. Timed(busy) /\ \A i \in DOMAIN seen : seen[i].member = member /\ seen[i].kind # "AVAILABLE" =>
         \E b \in ToSet(busy) : b.from = seen[i].from /\ b.to = seen[i].to
      BY BusyMatches
<1>2. range.from \in Int /\ range.to \in Int /\ buffer \in Nat /\ buffer = 0
      BY PlannerAssumption
<1>3. GoalsTimed(gs)
  <2>1. Len(gs) \in Nat /\ DOMAIN gs = 1 .. Len(gs) /\ \A i \in DOMAIN gs : gs[i] \in GoalRows
        OBVIOUS
  <2> QED BY <2>1, PlannerAssumption DEF GoalsTimed
<1> HIDE DEF busy, range, buffer
<1>4. WindowsAreUsable(gs, busy, range, buffer, found) /\ found \in Seq(WindowSet(gs))
  <2>1. found = FindMicroWindows(member, gs, busy, range, buffer)
        BY DEF FoundFor, busy, range, buffer
  <2> HIDE DEF gs, seen, member
  <2> QED BY <1>1, <1>2, <1>3, <2>1, WindowsAreRight
<1>5. found \in Seq(Window)
  <2>1. \A i \in DOMAIN gs : gs[i] \in GoalRows
        OBVIOUS
  <2>2. {gs[i].id : i \in DOMAIN gs} \subseteq GoalIds
        BY <2>1 DEF GoalIds
  <2> DEFINE W == WindowSet(gs)
             V == Window
  <2>3. W \subseteq V /\ found \in Seq(W)
        BY <1>4, <2>2 DEF WindowSet, Window
  <2> HIDE DEF W, V
  <2>4. found \in Seq(V)
        BY <2>3
  <2> QED BY <2>4 DEF V
<1>6. \A k \in DOMAIN found : found[k] \in ToSet(found) /\ found[k].from \in Int /\ found[k].to \in Int
  <2>1. \A w \in Window : w.from \in Int /\ w.to \in Int
        BY DEF Window
  <2>2. \A k \in DOMAIN found : found[k] \in Window
        BY <1>5
  <2> QED BY <2>1, <2>2 DEF ToSet
<1>7. ASSUME NEW k \in DOMAIN found PROVE Suits(found[k], c)
  <2> DEFINE w == found[k]
  <2>1. /\ range.from <= w.from /\ w.to <= range.to
        /\ \E g \in ToSet(gs) : g.id = w.goal
        /\ \A b \in ToSet(busy) : b.to > range.from /\ b.from < range.to =>
              ~WindowsOverlap(w.from, w.to, AddMinutes(b.from, -buffer), AddMinutes(b.to, buffer))
        BY <1>4, <1>6 DEF WindowsAreUsable
  <2>2. w.from \in Int /\ w.to \in Int
        BY <1>6
  <2> HIDE DEF w
  <2>3. ASSUME NEW i \in DOMAIN seen, seen[i].member = member, seen[i].kind # "AVAILABLE"
        PROVE  ~WindowsOverlap(w.from, w.to, seen[i].from, seen[i].to)
    <3>1. PICK b \in ToSet(busy) : b.from = seen[i].from /\ b.to = seen[i].to
          BY <1>1, <2>3
    <3>2. b.from \in Int /\ b.to \in Int
          BY <1>1 DEF Timed, ToSet
    <3>5. AddMinutes(b.from, -buffer) = b.from /\ AddMinutes(b.to, buffer) = b.to
      <4>1. AddMinutes(0, buffer) = 0
            BY <1>2, MinutesAdded
      <4>2. ASSUME NEW t \in Int
            PROVE  AddMinutes(t, -buffer) = t - AddMinutes(0, buffer)
                   /\ AddMinutes(t, buffer) = t + AddMinutes(0, buffer)
        <5>1. \A n \in Int : AddMinutes(t, -n) = t - AddMinutes(0, n)
                               /\ AddMinutes(t, n) = t + AddMinutes(0, n)
              BY MinutesAdded
        <5>2. buffer \in Int
              BY <1>2
        <5> QED BY <5>1, <5>2, Zenon
      <4>3. ASSUME NEW t \in Int PROVE AddMinutes(t, -buffer) = t /\ AddMinutes(t, buffer) = t
            BY <4>1, <4>2
      <4> QED BY <3>2, <4>3
    <3>3. CASE b.to > range.from /\ b.from < range.to
          BY <2>1, <3>1, <3>5, <3>3
    <3>4. CASE ~(b.to > range.from /\ b.from < range.to)
          BY <1>2, <2>1, <2>2, <3>1, <3>2, <3>4 DEF WindowsOverlap
    <3> QED BY <3>3, <3>4
  <2>4. \E i \in DOMAIN gs : gs[i].id = w.goal
        BY <2>1 DEF ToSet
  <2> QED BY <2>3, <2>4 DEF Suits, w
<1>8. \A j, k \in DOMAIN found : j # k => Clear(found[j], found[k])
      BY <1>4 DEF WindowsAreUsable, Clear
<1> QED BY <1>5, <1>7, <1>8

LEMMA SearchInitHolds == PlannerInit => SearchInv
<1> SUFFICES ASSUME PlannerInit PROVE SearchInv
    OBVIOUS
<1>1. NotSearched \in SearchRow
      BY DEF NotSearched, SearchRow, Steps
<1>2. windows = <<>> /\ blocks = <<>> /\ goals = <<>> /\ DOMAIN windows = {}
      BY DEF PlannerInit
<1>3. SearchTyped
      BY <1>1, <1>2 DEF PlannerInit, SearchTyped
<1>4. \A s \in Searches : searches[s].step = "none" /\ searches[s].found = <<>> /\ searches[s].goals = <<>>
      BY DEF PlannerInit, NotSearched
<1>5. ASSUME NEW s \in Searches PROVE SearchSound(s)
      BY <1>2, <1>4 DEF SearchSound, NothingStored, FoundSuits, StoredSuits
<1> QED BY <1>3, <1>4, <1>5 DEF SearchInv

\* What a call has stored and found stays sound while it stands still: the goals
\* stay set and the rows of others are not its own.
LEMMA CallStands ==
    ASSUME NEW q \in Searches, SearchSound(q), searches'[q] = searches[q],
           \A j \in DOMAIN goals : j \in DOMAIN goals' /\ goals'[j] = goals[j],
           \A i \in DOMAIN windows' : windows'[i].call = q =>
              i \in DOMAIN windows /\ windows'[i] = windows[i]
    PROVE  SearchSound(q)'
<1>1. searches[q].step # "none" => GoalsAreSet(searches[q])'
  <2> SUFFICES ASSUME searches[q].step # "none", NEW k \in DOMAIN searches[q].goals
               PROVE  \E j \in DOMAIN goals' : goals'[j] = searches[q].goals[k]
                                               /\ goals'[j].member = searches[q].member
      BY DEF GoalsAreSet
  <2>1. PICK j \in DOMAIN goals : goals[j] = searches[q].goals[k] /\ goals[j].member = searches[q].member
        BY DEF SearchSound, GoalsAreSet
  <2> QED BY <2>1
<1>2. FoundSuits(q)'
      BY DEF SearchSound, FoundSuits, Suits, Clear
<1>3. StoredSuits(q)'
      BY DEF SearchSound, StoredSuits, Suits, Clear
<1>4. NothingStored(q) => NothingStored(q)'
      BY DEF NothingStored
<1> QED BY <1>1, <1>2, <1>3, <1>4 DEF SearchSound, GoalsAreSet

\* A call that moves without storing, and the others.
LEMMA OneMoves ==
    ASSUME SearchInv, NEW s \in Searches, NEW new \in SearchRow, searches' = [searches EXCEPT ![s] = new],
           UNCHANGED <<blocks, goals, windows>>, SearchSound(s)', new.step = "none" => new.goals = <<>>
    PROVE  SearchInv'
<1>1. searches \in [Searches -> SearchRow]
      BY DEF SearchInv, SearchTyped
<1>2. searches' \in [Searches -> SearchRow] /\ searches'[s] = new
      /\ \A q \in Searches \ {s} : searches'[q] = searches[q]
      BY <1>1
<1>3. ASSUME NEW q \in Searches PROVE SearchSound(q)'
  <2>1. CASE q # s
    <3>1. SearchSound(q) /\ searches'[q] = searches[q]
          BY <1>2, <2>1 DEF SearchInv
    <3> QED BY <3>1, CallStands
  <2> QED BY <2>1
<1>4. \A q \in Searches : searches'[q].step = "none" => searches'[q].goals = <<>>
      BY <1>2 DEF SearchInv
<1>5. SearchTyped'
      BY <1>2 DEF SearchInv, SearchTyped
<1> QED BY <1>3, <1>4, <1>5 DEF SearchInv

\* The goals a call reads are set when it reads them.
ReadFor(m, read) == read = Kept(goals, {i \in DOMAIN goals : goals[i].member = m})

LEMMA GoalsRead ==
    ASSUME goals \in Seq(GoalRows), NEW m, NEW read, ReadFor(m, read)
    PROVE  /\ read \in Seq(GoalRows)
           /\ \A k \in DOMAIN read : \E j \in DOMAIN goals : goals[j] = read[k] /\ goals[j].member = m
<1> DEFINE I == {i \in DOMAIN goals : goals[i].member = m}
           n == Cardinality(I)
<1>1. IsFiniteSet(I) /\ I \subseteq Int
  <2>1. Len(goals) \in Nat /\ DOMAIN goals = 1 .. Len(goals)
        OBVIOUS
  <2>2. IsFiniteSet(DOMAIN goals) /\ I \subseteq DOMAIN goals /\ DOMAIN goals \subseteq Int
        BY <2>1, Prefixes1N
  <2> QED BY <2>2, FS_Subset
<1>2. \A i \in I : i \in DOMAIN goals /\ goals[i].member = m
      OBVIOUS
<1>3. \A i \in I : goals[i] \in GoalRows
      OBVIOUS
<1>4. read = Kept(goals, I)
      BY DEF ReadFor
<1> HIDE DEF I
<1>5. PICK o : Arranges(read, o, goals, I)
  <2>1. \E o : /\ Arranges(Kept(goals, I), o, goals, I)
               /\ \A j, k \in 1 .. Cardinality(I) : j < k => o[j] < o[k]
        BY <1>1, KeptFacts
  <2> QED BY <1>4, <2>1
<1>6. /\ n \in Nat /\ read = [k \in 1 .. n |-> goals[o[k]]]
      /\ \A k \in 1 .. n : o[k] \in I
      BY <1>5 DEF Arranges
<1> HIDE DEF n
<1>7. read \in Seq(GoalRows)
      BY <1>3, <1>6
<1>8. \A k \in DOMAIN read : \E j \in DOMAIN goals : goals[j] = read[k] /\ goals[j].member = m
      BY <1>2, <1>6
<1> QED BY <1>7, <1>8

LEMMA ReadGoalsHolds ==
    ASSUME SearchInv, NEW s \in Searches, ReadGoals(s)
    PROVE  SearchInv'
<1> DEFINE row == searches[s]
<1>1. /\ goals \in Seq(GoalRows) /\ searches \in [Searches -> SearchRow] /\ row \in SearchRow
      /\ row.step = "none" /\ UNCHANGED <<blocks, goals, windows>>
      BY DEF SearchInv, SearchTyped, ReadGoals
<1>2. PICK m \in Range(Planned) :
         searches' = [searches EXCEPT ![s].step = "blocks", ![s].member = m,
                                      ![s].goals = Kept(goals, {i \in DOMAIN goals : goals[i].member = m})]
      BY DEF ReadGoals
<1> DEFINE read == Kept(goals, {i \in DOMAIN goals : goals[i].member = m})
           new == [row EXCEPT !.step = "blocks", !.member = m, !.goals = read]
<1>3. searches' = [searches EXCEPT ![s] = new]
      BY <1>1, <1>2
<1>9. goals \in Seq(GoalRows) /\ ReadFor(m, read)
      BY <1>1 DEF ReadFor
<1> HIDE DEF read
<1>4. /\ read \in Seq(GoalRows)
      /\ \A k \in DOMAIN read : \E j \in DOMAIN goals : goals[j] = read[k] /\ goals[j].member = m
      BY <1>9, GoalsRead
<1>5. /\ new \in SearchRow /\ new.step = "blocks" /\ new.member = m /\ new.goals = read
      /\ new.found = row.found
      BY <1>1, <1>4 DEF SearchRow, Steps
<1>6. NothingStored(s) /\ row.found = <<>>
      BY <1>1 DEF SearchInv, SearchSound
<1> HIDE DEF new, row
<1>7. searches'[s] = new
      BY <1>1, <1>3, <1>5
<1>8. SearchSound(s)'
  <2>1. NothingStored(s)'
        BY <1>1, <1>6 DEF NothingStored
  <2>2. GoalsAreSet(searches[s])'
        BY <1>1, <1>4, <1>5, <1>7 DEF GoalsAreSet
  <2>3. FoundSuits(s)'
        BY <1>5, <1>6, <1>7 DEF FoundSuits
  <2>4. StoredSuits(s)'
        BY <2>1 DEF StoredSuits, NothingStored
  <2> QED BY <1>5, <1>6, <1>7, <2>1, <2>2, <2>3, <2>4 DEF SearchSound
<1> QED BY <1>1, <1>3, <1>5, <1>8, OneMoves

LEMMA SearchHolds ==
    ASSUME SearchInv, NEW s \in Searches, Search(s)
    PROVE  SearchInv'
<1> DEFINE row == searches[s]
           found == FindMicroWindows(row.member, row.goals, BusyBlocks(blocks, row.member), PlanRange, 0)
           new == [row EXCEPT !.step = "store", !.seen = blocks, !.found = found]
<1>1. /\ searches \in [Searches -> SearchRow] /\ row \in SearchRow /\ blocks \in Seq(BlockKinds)
      /\ row.step = "blocks" /\ UNCHANGED <<blocks, goals, windows>>
      BY DEF SearchInv, SearchTyped, Search
<1>2. searches' = [searches EXCEPT ![s].step = "store", ![s].seen = blocks, ![s].found = found]
      BY DEF Search
<1>3. searches' = [searches EXCEPT ![s] = new]
      BY <1>1, <1>2
<1>4. row.goals \in Seq(GoalRows)
      BY <1>1 DEF SearchRow
<1>5. NothingStored(s) /\ GoalsAreSet(row)
      BY <1>1 DEF SearchInv, SearchSound
<1>6. /\ new.step = "store" /\ new.seen = blocks /\ new.found = found
      /\ new.goals = row.goals /\ new.member = row.member
      BY <1>1 DEF SearchRow
<1> DEFINE gs == row.goals
           member == row.member
<1>7. found = FindMicroWindows(member, gs, BusyBlocks(blocks, member), PlanRange, 0)
      OBVIOUS
<1>8. gs \in Seq(GoalRows) /\ new.goals = gs /\ new.seen = blocks /\ new.member = member
      BY <1>4, <1>6
<1>9. new \in SearchRow <=> found \in Seq(Window)
      BY <1>1 DEF SearchRow, Steps
<1> HIDE DEF found, new, row, gs, member
<1>10. /\ found \in Seq(Window)
       /\ \A k \in DOMAIN found : Suits(found[k], new)
       /\ \A j, k \in DOMAIN found : j # k => Clear(found[j], found[k])
  <2>1. new.goals \in Seq(GoalRows) /\ new.seen \in Seq(BlockKinds)
        BY <1>1, <1>8
  <2>2. FoundFor(new, found)
        BY <1>7, <1>8 DEF FoundFor
  <2> QED BY <2>1, <2>2, SearchFinds
<1>11. searches'[s] = new
       BY <1>1, <1>3
<1>12. SearchSound(s)'
  <2>1. NothingStored(s)'
        BY <1>1, <1>5 DEF NothingStored
  <2>2. GoalsAreSet(searches[s])'
        BY <1>1, <1>5, <1>6, <1>11 DEF GoalsAreSet
  <2>3. FoundSuits(s)'
        BY <1>6, <1>10, <1>11 DEF FoundSuits, Suits, Clear
  <2>4. StoredSuits(s)'
        BY <2>1 DEF StoredSuits, NothingStored
  <2> QED BY <1>6, <1>11, <2>2, <2>3, <2>4 DEF SearchSound
<1> QED BY <1>1, <1>3, <1>6, <1>9, <1>10, <1>12, OneMoves

\* A window moves from what is found to what is stored.
LEMMA WindowStored ==
    ASSUME SearchInv, NEW s \in Searches, searches[s].step = "store", searches[s].found # <<>>,
           windows' = Append(windows, [call |-> s, window |-> Head(searches[s].found),
                                       status |-> "SUGGESTED"]),
           searches' = [searches EXCEPT ![s].found = Tail(@)],
           UNCHANGED <<blocks, goals>>
    PROVE  SearchInv'
<1> DEFINE row == searches[s]
           found == row.found
           w == Head(found)
           rest == Tail(found)
           n == Len(windows)
           stored == [call |-> s, window |-> w, status |-> "SUGGESTED"]
           new == [row EXCEPT !.found = rest]
<1>1. /\ searches \in [Searches -> SearchRow] /\ row \in SearchRow /\ found \in Seq(Window) /\ found # <<>>
      /\ windows \in Seq(StoredWindow) /\ goals \in Seq(GoalRows) /\ blocks \in Seq(BlockKinds)
      /\ goals' = goals /\ blocks' = blocks
      BY DEF SearchInv, SearchTyped, SearchRow
<1>2. /\ w \in Window /\ rest \in Seq(Window) /\ 1 \in DOMAIN found /\ found[1] = w
      /\ \A k \in DOMAIN rest : /\ k \in Nat /\ k # 0 /\ k + 1 # 1 /\ k + 1 \in DOMAIN found
                               /\ rest[k] = found[k + 1]
  <2> HIDE DEF found
  <2>1. /\ Head(found) \in Window /\ Tail(found) \in Seq(Window)
        /\ DOMAIN Tail(found) = 1 .. Len(found) - 1 /\ DOMAIN found = 1 .. Len(found) /\ Len(found) \in Nat \ {0}
        /\ Head(found) = found[1] /\ \A i \in DOMAIN Tail(found) : Tail(found)[i] = found[i + 1]
        BY <1>1, HeadAndTail
  <2> QED BY <2>1
<1>3. searches' = [searches EXCEPT ![s] = new]
      BY <1>1
<1>4. /\ new \in SearchRow /\ new.step = "store" /\ new.found = rest /\ new.seen = row.seen
      /\ new.goals = row.goals /\ new.member = row.member
      BY <1>1, <1>2 DEF SearchRow
<1>5. stored \in StoredWindow /\ stored.call = s /\ stored.window = w /\ windows' = Append(windows, stored)
      BY <1>2 DEF StoredWindow
<1>6. GoalsAreSet(row) /\ FoundSuits(s) /\ StoredSuits(s)
      BY DEF SearchInv, SearchSound
<1>7. /\ \A k \in DOMAIN found : Suits(found[k], row)
      /\ \A j, k \in DOMAIN found : j # k => Clear(found[j], found[k])
      BY <1>6 DEF FoundSuits
<1>8. \A i \in DOMAIN windows : windows[i].call = s =>
         /\ Suits(windows[i].window, row)
         /\ \A k \in DOMAIN found : Clear(windows[i].window, found[k])
         /\ \A j \in DOMAIN windows : j # i /\ windows[j].call = s =>
               Clear(windows[i].window, windows[j].window)
      BY <1>6 DEF StoredSuits
<1>9. \A v : Suits(v, row) => Suits(v, new)
      BY <1>4 DEF Suits
<1>10. \A u, v : Clear(u, v) => Clear(v, u)
       BY DEF Clear
<1> HIDE DEF row, found, w, rest, stored, new
<1>11. /\ windows' \in Seq(StoredWindow)
       /\ DOMAIN windows' = (DOMAIN windows) \cup {n + 1}
       /\ windows'[n + 1] = stored
       /\ \A e \in DOMAIN windows : windows'[e] = windows[e] /\ e < n + 1
       BY <1>1, <1>5, Grows
<1> HIDE DEF n
<1>12. searches' \in [Searches -> SearchRow] /\ searches'[s] = new
       /\ \A q \in Searches \ {s} : searches'[q] = searches[q]
       BY <1>1, <1>3, <1>4
<1>13. GoalsAreSet(searches[s])'
  <2>1. searches'[s] = new /\ goals' = goals /\ new.goals = row.goals /\ new.member = row.member
        BY <1>1, <1>4, <1>12
  <2>2. \A k \in DOMAIN row.goals : \E j \in DOMAIN goals : goals[j] = row.goals[k] /\ goals[j].member = row.member
        BY <1>6 DEF GoalsAreSet
  <2>3. \A k \in DOMAIN searches'[s].goals : \E j \in DOMAIN goals' :
           goals'[j] = searches'[s].goals[k] /\ goals'[j].member = searches'[s].member
    <3> DEFINE b == searches'[s]
               gs == row.goals
               m == row.member
    <3>1. b.goals = gs /\ b.member = m /\ goals' = goals
          BY <2>1
    <3>2. \A k \in DOMAIN gs : \E j \in DOMAIN goals : goals[j] = gs[k] /\ goals[j].member = m
          BY <2>2
    <3> HIDE DEF b, gs, m
    <3>3. \A k \in DOMAIN b.goals : \E j \in DOMAIN goals' : goals'[j] = b.goals[k] /\ goals'[j].member = b.member
          BY <3>1, <3>2
    <3> QED BY <3>3 DEF b
  <2> QED BY <2>3 DEF GoalsAreSet
<1>14. FoundSuits(s)'
  <2>1. \A k \in DOMAIN rest : Suits(rest[k], new)
        BY <1>2, <1>7, <1>9
  <2>2. ASSUME NEW j \in DOMAIN rest, NEW k \in DOMAIN rest, j # k PROVE Clear(rest[j], rest[k])
    <3>1. j + 1 # k + 1
          BY <1>2, <2>2
    <3> QED BY <1>2, <1>7, <3>1
  <2> QED BY <1>4, <1>12, <2>1, <2>2 DEF FoundSuits
<1>15. StoredSuits(s)'
  <2> SUFFICES ASSUME NEW i \in DOMAIN windows', windows'[i].call = s
               PROVE  /\ Suits(windows'[i].window, new)
                      /\ \A k \in DOMAIN rest : Clear(windows'[i].window, rest[k])
                      /\ \A j \in DOMAIN windows' : j # i /\ windows'[j].call = s =>
                            Clear(windows'[i].window, windows'[j].window)
      BY <1>4, <1>12 DEF StoredSuits
  <2>1. CASE i \in DOMAIN windows
    <3>1. windows'[i] = windows[i]
          BY <1>11, <2>1
    <3>2. Suits(windows[i].window, new) /\ \A k \in DOMAIN rest : Clear(windows[i].window, rest[k])
          BY <1>2, <1>8, <1>9, <2>1, <3>1
    <3>3. ASSUME NEW j \in DOMAIN windows', j # i, windows'[j].call = s
          PROVE  Clear(windows[i].window, windows'[j].window)
      <4>1. CASE j \in DOMAIN windows
            BY <1>8, <1>11, <2>1, <3>1, <3>3, <4>1
      <4>2. CASE j = n + 1
            BY <1>2, <1>5, <1>8, <1>11, <2>1, <3>1, <4>2
      <4> QED BY <1>11, <4>1, <4>2
    <3> QED BY <3>1, <3>2, <3>3
  <2>2. CASE i = n + 1
    <3>1. windows'[i].window = w
          BY <1>5, <1>11, <2>2
    <3>2. Suits(w, new) /\ \A k \in DOMAIN rest : Clear(w, rest[k])
          BY <1>2, <1>7, <1>9
    <3>3. ASSUME NEW j \in DOMAIN windows', j # i, windows'[j].call = s
          PROVE  Clear(w, windows'[j].window)
      <4>1. j \in DOMAIN windows /\ windows'[j] = windows[j]
            BY <1>11, <2>2, <3>3
      <4>2. Clear(windows[j].window, w)
            BY <1>2, <1>8, <3>3, <4>1
      <4> QED BY <1>10, <4>1, <4>2
    <3> QED BY <3>1, <3>2, <3>3
  <2> QED BY <1>11, <2>1, <2>2
<1>16. SearchSound(s)'
       BY <1>4, <1>12, <1>13, <1>14, <1>15 DEF SearchSound
<1>17. ASSUME NEW q \in Searches, q # s PROVE SearchSound(q)'
  <2>1. SearchSound(q) /\ searches'[q] = searches[q]
        BY <1>12, <1>17 DEF SearchInv
  <2>2. \A i \in DOMAIN windows' : windows'[i].call = q => i \in DOMAIN windows /\ windows'[i] = windows[i]
        BY <1>5, <1>11, <1>17
  <2> QED BY <2>1, <2>2, CallStands
<1>18. \A q \in Searches : searches'[q].step = "none" => searches'[q].goals = <<>>
       BY <1>4, <1>12 DEF SearchInv
<1> QED BY <1>1, <1>11, <1>12, <1>16, <1>17, <1>18 DEF SearchInv, SearchTyped

LEMMA StoreWindowHolds ==
    ASSUME SearchInv, NEW s \in Searches, StoreWindow(s)
    PROVE  SearchInv'
<1>1. searches[s].step = "store" /\ UNCHANGED <<blocks, goals>>
      BY DEF StoreWindow
<1>2. CASE /\ searches[s].found # <<>>
           /\ windows' = Append(windows, [call |-> s, window |-> Head(searches[s].found),
                                          status |-> "SUGGESTED"])
           /\ searches' = [searches EXCEPT ![s].found = Tail(@)]
      BY <1>1, <1>2, WindowStored
<1>3. ASSUME NEW step \in {"failed", "done"}, searches' = [searches EXCEPT ![s].step = step], windows' = windows
      PROVE  SearchInv'
  <2> DEFINE row == searches[s]
             new == [row EXCEPT !.step = step]
  <2>1. searches \in [Searches -> SearchRow] /\ row \in SearchRow /\ row.step = "store" /\ SearchSound(s)
        BY <1>1 DEF SearchInv, SearchTyped
  <2>2. searches' = [searches EXCEPT ![s] = new]
        BY <1>3, <2>1
  <2>3. /\ new \in SearchRow /\ new.step = step /\ new.found = row.found /\ new.seen = row.seen
        /\ new.goals = row.goals /\ new.member = row.member
        BY <2>1 DEF SearchRow, Steps
  <2>4. searches'[s] = new
        BY <2>1, <2>2
  <2>5. GoalsAreSet(row) /\ FoundSuits(s) /\ StoredSuits(s)
        BY <2>1 DEF SearchSound
  <2>9. step # "none" /\ step # "blocks"
        OBVIOUS
  <2> HIDE DEF new
  <2>6. GoalsAreSet(searches[s])'
        BY <1>1, <2>3, <2>4, <2>5 DEF GoalsAreSet
  <2>7. FoundSuits(s)' /\ StoredSuits(s)'
        BY <1>3, <2>3, <2>4, <2>5 DEF FoundSuits, StoredSuits, Suits, Clear
  <2>8. SearchSound(s)'
        BY <2>3, <2>4, <2>6, <2>7, <2>9 DEF SearchSound
  <2> QED BY <1>1, <1>3, <2>2, <2>3, <2>8, <2>9, OneMoves
<1> QED BY <1>2, <1>3 DEF StoreWindow

LEMMA SearchInvNext == SearchInv /\ [Next]_servicesVars => SearchInv'
<1> SUFFICES ASSUME SearchInv, [Next]_servicesVars PROVE SearchInv'
    OBVIOUS
<1>1. ASSUME blocks' \in Seq(BlockKinds), goals' \in Seq(GoalRows),
             \A j \in DOMAIN goals : j \in DOMAIN goals' /\ goals'[j] = goals[j],
             UNCHANGED <<windows, searches>>
      PROVE  SearchInv'
  <2>1. ASSUME NEW q \in Searches PROVE SearchSound(q)'
    <3>1. SearchSound(q) /\ searches'[q] = searches[q]
          BY <1>1 DEF SearchInv
    <3> QED BY <1>1, <3>1, CallStands
  <2> QED BY <1>1, <2>1 DEF SearchInv, SearchTyped
<1>2. CASE AddBlock \/ PurgeBlock
  <2>1. blocks' \in Seq(BlockKinds)
        BY <1>2, BlocksMoved DEF SearchInv, SearchTyped
  <2>2. UNCHANGED <<goals, windows, searches>>
        BY <1>2 DEF AddBlock, PurgeBlock
  <2> QED BY <1>1, <2>1, <2>2 DEF SearchInv, SearchTyped
<1>3. CASE SetGoal
  <2>1. PICK g \in GoalRows : goals' = Append(goals, g)
        BY <1>3 DEF SetGoal
  <2>2. goals \in Seq(GoalRows) /\ UNCHANGED <<blocks, windows, searches>>
        BY <1>3 DEF SetGoal, SearchInv, SearchTyped
  <2>3. goals' \in Seq(GoalRows) /\ \A j \in DOMAIN goals : j \in DOMAIN goals' /\ goals'[j] = goals[j]
        BY <2>1, <2>2
  <2> QED BY <1>1, <2>2, <2>3 DEF SearchInv, SearchTyped
<1>4. CASE \E s \in Searches : ReadGoals(s) \/ Search(s) \/ StoreWindow(s)
      BY <1>4, ReadGoalsHolds, SearchHolds, StoreWindowHolds
<1>5. CASE \/ \E r \in Radars : RunRadar(r) \/ StoreConflict(r)
           \/ UNCHANGED plannerVars
  <2>1. UNCHANGED <<blocks, goals, windows, searches>>
        BY <1>5 DEF RunRadar, StoreConflict, plannerVars
  <2> QED BY <1>1, <2>1 DEF SearchInv, SearchTyped
<1> QED BY <1>2, <1>3, <1>4, <1>5 DEF Next, MilestonesStep, SchoolStep, DigestsStep, PlannerStep,
           RadarNext, SearchNext, TenancyStep, servicesVars

LEMMA InvGivesWindows == SearchInv => WindowsFitTheBlocks
<1> SUFFICES ASSUME SearchInv, NEW i \in DOMAIN windows
             PROVE  LET w == windows[i].window
                        c == searches[windows[i].call]
                    IN  /\ \A k \in DOMAIN c.seen : c.seen[k].member = c.member /\ c.seen[k].kind # "AVAILABLE" =>
                              ~WindowsOverlap(w.from, w.to, c.seen[k].from, c.seen[k].to)
                        /\ \E k \in DOMAIN goals : goals[k].id = w.goal /\ goals[k].member = c.member
                        /\ \A j \in DOMAIN windows : j # i /\ windows[j].call = windows[i].call =>
                              ~WindowsOverlap(w.from, w.to, windows[j].window.from, windows[j].window.to)
    BY DEF WindowsFitTheBlocks
<1> DEFINE w == windows[i].window
           s == windows[i].call
           c == searches[s]
<1>1. s \in Searches
  <2>1. windows[i] \in StoredWindow
        BY DEF SearchInv, SearchTyped
  <2> QED BY <2>1 DEF StoredWindow
<1>2. SearchSound(s)
      BY <1>1 DEF SearchInv
<1>3. c.step # "none"
      BY <1>2 DEF SearchSound, NothingStored
<1>4. /\ Suits(w, c)
      /\ \A j \in DOMAIN windows : j # i /\ windows[j].call = s => Clear(w, windows[j].window)
      BY <1>2 DEF SearchSound, StoredSuits
<1>5. \E k \in DOMAIN goals : goals[k].id = w.goal /\ goals[k].member = c.member
  <2>1. PICK k \in DOMAIN c.goals : c.goals[k].id = w.goal
        BY <1>4 DEF Suits
  <2>2. PICK j \in DOMAIN goals : goals[j] = c.goals[k] /\ goals[j].member = c.member
        BY <1>2, <1>3 DEF SearchSound, GoalsAreSet
  <2> QED BY <2>1, <2>2
<1> QED BY <1>4, <1>5 DEF Suits, Clear

\* Whatever is stored for a member fits the blocks its call read, BUSY and TRAVEL
\* alike, and serves a goal the member has; a call never stores two that overlap,
\* whatever is set, added or purged between its reads and its writes
\* (wellbeing.service.ts suggestWindows).
THEOREM StoredWindowsFit == Spec => []WindowsFitTheBlocks
<1>1. Init => SearchInv
      BY SearchInitHolds DEF Init
<1> QED BY <1>1, SearchInvNext, InvGivesWindows, PTL DEF Spec

-----------------------------------------------------------------------------
(* The types of all services at once: what the invariants above say of each,    *)
(* and a few tables and counters that none of them needed.                      *)

FailuresCounted == failures \in 0 .. MaxFailures
DocumentTasks == tasks \subseteq [upload : Uploads, needsApproval : BOOLEAN]
InstantKnown == now \in Instants
BlocksBounded == blocks \in Seq(BlockKinds) /\ Len(blocks) <= MaxBlocks

LEMMA StatementEnds ==
    ASSUME Next
    PROVE  Works \/ Fails
<1>1. CASE MilestonesNext
      BY <1>1 DEF MilestonesNext, CreateProject, FindTimeline, StoreMilestones, ReadDue, MarkFired, TimePasses
<1>2. CASE SchoolNext
  <2>1. ASSUME NEW u \in Uploads, Upload(u) \/ ResolveRequester(u) \/ CreateTask(u) \/ Answer(u)
        PROVE  Works \/ Fails
        BY <2>1 DEF Upload, ResolveRequester, CreateTask, Answer
  <2>2. ASSUME NEW u \in Uploads, OpenGate(u) PROVE Works \/ Fails
        BY <2>2 DEF OpenGate
  <2>3. ASSUME NEW d \in Deciders, ReadGate(d) \/ WriteDecision(d) PROVE Works \/ Fails
        BY <2>3 DEF ReadGate, WriteDecision
  <2>4. ASSUME NEW h \in Heads, RemoveHead(h) PROVE Works \/ Fails
        BY <2>4 DEF RemoveHead
  <2> QED BY <1>2, <2>1, <2>2, <2>3, <2>4 DEF SchoolNext
<1>3. CASE DigestsNext
  <2>1. ASSUME NEW s \in Sends, StartSend(s) \/ ReadItems(s) \/ ReadShare(s) \/ SendMail(s) \/ RecordMail(s)
        PROVE  Works \/ Fails
        BY <2>1 DEF StartSend, ReadItems, ReadShare, SendMail, RecordMail
  <2>2. StartHouse \/ BuildNext => Works \/ Fails
        BY DEF StartHouse, BuildNext
  <2>3. ASSUME NEW t \in DigestTasks, TaskMoves(t) PROVE Works
        BY <2>3 DEF TaskMoves
  <2> QED BY <1>3, <2>1, <2>2, <2>3 DEF DigestsNext
<1>4. CASE RadarNext \/ SearchNext
  <2>1. AddBlock \/ PurgeBlock \/ SetGoal => Works
        BY DEF AddBlock, PurgeBlock, SetGoal
  <2>2. ASSUME NEW r \in Radars, RunRadar(r) \/ StoreConflict(r) PROVE Works \/ Fails
        BY <2>2 DEF RunRadar, StoreConflict
  <2>3. ASSUME NEW s \in Searches, ReadGoals(s) \/ Search(s) \/ StoreWindow(s) PROVE Works \/ Fails
        BY <2>3 DEF ReadGoals, Search, StoreWindow
  <2> QED BY <1>4, <2>1, <2>2, <2>3 DEF RadarNext, SearchNext
<1>5. CASE TenancyNext
      BY <1>5 DEF TenancyNext, Guard, EndRequest, List, Get, Create, Lookup, Write, UpdateHousehold
<1> QED BY <1>1, <1>2, <1>3, <1>4, <1>5 DEF Next, MilestonesStep, SchoolStep, DigestsStep, PlannerStep, TenancyStep

LEMMA FailuresNext == FailuresCounted /\ [Next]_servicesVars => FailuresCounted'
<1> SUFFICES ASSUME FailuresCounted, [Next]_servicesVars PROVE FailuresCounted'
    OBVIOUS
<1>1. CASE Works \/ UNCHANGED servicesVars
      BY <1>1 DEF FailuresCounted, Works, servicesVars
<1>2. CASE Fails
      BY <1>2, FailureAssumption DEF FailuresCounted, Fails
<1> QED BY <1>1, <1>2, StatementEnds

LEMMA DocumentTasksNext == DocumentTasks /\ [Next]_servicesVars => DocumentTasks'
<1> SUFFICES ASSUME DocumentTasks, [Next]_servicesVars PROVE DocumentTasks'
    OBVIOUS
<1>1. CASE UNCHANGED tasks
      BY <1>1 DEF DocumentTasks
<1>2. ASSUME NEW u \in Uploads, CreateTask(u) PROVE DocumentTasks'
  <2> DEFINE row == [upload |-> u, needsApproval |-> uploads[u].flags # {}]
  <2>1. row \in [upload : Uploads, needsApproval : BOOLEAN]
        OBVIOUS
  <2>2. tasks' = tasks \/ tasks' = tasks \cup {row}
        BY <1>2 DEF CreateTask
  <2> QED BY <2>1, <2>2 DEF DocumentTasks
<1>3. CASE SchoolNext
  <2>1. ASSUME NEW u \in Uploads, Upload(u) \/ ResolveRequester(u) \/ OpenGate(u) \/ Answer(u)
        PROVE  UNCHANGED tasks
        BY <2>1 DEF Upload, ResolveRequester, OpenGate, Answer
  <2>2. ASSUME NEW d \in Deciders, ReadGate(d) \/ WriteDecision(d) PROVE UNCHANGED tasks
        BY <2>2 DEF ReadGate, WriteDecision
  <2>3. ASSUME NEW h \in Heads, RemoveHead(h) PROVE UNCHANGED tasks
        BY <2>3 DEF RemoveHead
  <2> QED BY <1>1, <1>2, <1>3, <2>1, <2>2, <2>3 DEF SchoolNext
<1> QED BY <1>1, <1>3 DEF Next, MilestonesStep, SchoolStep, DigestsStep, PlannerStep, TenancyStep,
                          servicesVars, schoolVars

LEMMA InstantNext == InstantKnown /\ [Next]_servicesVars => InstantKnown'
<1> SUFFICES ASSUME InstantKnown, [Next]_servicesVars PROVE InstantKnown'
    OBVIOUS
<1>1. CASE UNCHANGED now
      BY <1>1 DEF InstantKnown
<1>2. CASE MilestonesNext
      BY <1>1, <1>2 DEF MilestonesNext, CreateProject, FindTimeline, StoreMilestones, ReadDue, MarkFired,
                        TimePasses, InstantKnown
<1> QED BY <1>1, <1>2 DEF Next, MilestonesStep, SchoolStep, DigestsStep, PlannerStep, TenancyStep,
                          servicesVars, milestoneVars

LEMMA BlocksNext == BlocksBounded /\ [Next]_servicesVars => BlocksBounded'
<1> SUFFICES ASSUME BlocksBounded, [Next]_servicesVars PROVE BlocksBounded'
    OBVIOUS
<1>1. CASE UNCHANGED blocks
      BY <1>1 DEF BlocksBounded
<1>2. CASE AddBlock
  <2>1. PICK b \in BlockKinds : blocks' = Append(blocks, b)
        BY <1>2 DEF AddBlock
  <2>2. Len(blocks) < MaxBlocks
        BY <1>2 DEF AddBlock
  <2> QED BY <2>1, <2>2, PlannerAssumption DEF BlocksBounded
<1>3. CASE PurgeBlock
  <2>1. PICK i \in DOMAIN blocks : blocks' = RemoveAt(blocks, i)
        BY <1>3 DEF PurgeBlock
  <2>2. i \in 1 .. Len(blocks) /\ Len(blocks) \in Nat /\ Len(blocks) <= MaxBlocks
        BY DEF BlocksBounded
  <2>3. SubSeq(blocks, 1, i - 1) \in Seq(BlockKinds) /\ Len(SubSeq(blocks, 1, i - 1)) = i - 1
        BY <2>2 DEF BlocksBounded
  <2>4. /\ SubSeq(blocks, i + 1, Len(blocks)) \in Seq(BlockKinds)
        /\ Len(SubSeq(blocks, i + 1, Len(blocks))) = Len(blocks) - i
        BY <2>2 DEF BlocksBounded
  <2>5. blocks' \in Seq(BlockKinds) /\ Len(blocks') = (i - 1) + (Len(blocks) - i)
        BY <2>1, <2>3, <2>4 DEF RemoveAt
  <2> QED BY <2>2, <2>5, PlannerAssumption DEF BlocksBounded
<1>4. CASE RadarNext \/ SearchNext
  <2>1. ASSUME NEW r \in Radars, RunRadar(r) \/ StoreConflict(r) PROVE UNCHANGED blocks
        BY <2>1 DEF RunRadar, StoreConflict
  <2>2. ASSUME NEW s \in Searches, ReadGoals(s) \/ Search(s) \/ StoreWindow(s) PROVE UNCHANGED blocks
        BY <2>2 DEF ReadGoals, Search, StoreWindow
  <2>3. SetGoal => UNCHANGED blocks
        BY DEF SetGoal
  <2> QED BY <1>1, <1>2, <1>3, <1>4, <2>1, <2>2, <2>3 DEF RadarNext, SearchNext
<1> QED BY <1>1, <1>4 DEF Next, MilestonesStep, SchoolStep, DigestsStep, PlannerStep, TenancyStep,
                          servicesVars, plannerVars

LEMMA InvGivesTypes ==
    ASSUME FailuresCounted, DocumentTasks, InstantKnown, BlocksBounded,
           MilestonesInv, SchoolInv, DigestsInv, RadarInv, SearchInv, TenancyInv
    PROVE  TypeOK
<1>1. MilestonesTypeOK
      BY TheStages DEF MilestonesTypeOK, MilestonesInv, MilestonesTyped, InstantKnown, CallRow, Row, MilestoneRow
<1>2. SchoolTypeOK
      BY TheReasons DEF SchoolTypeOK, SchoolInv, SchoolTyped, DocumentTasks, UploadRow, DecisionRow
<1>3. DigestsTypeOK
      BY DEF DigestsTypeOK, DigestsInv, DigestsTyped, HouseReadOnce, ChoreTable, SendRow
<1>4. PlannerTypeOK
  <2>1. Range(blocks) \subseteq BlockKinds /\ Len(blocks) <= MaxBlocks
        BY DEF BlocksBounded, Range
  <2>2. Range(goals) \subseteq GoalRows
        BY DEF SearchInv, SearchTyped, Range
  <2>3. ASSUME NEW i \in DOMAIN conflicts PROVE conflicts[i].call \in Radars
    <3>1. conflicts[i] \in ConflictRow
          BY DEF RadarInv, RadarTyped
    <3> QED BY <3>1 DEF ConflictRow
  <2>4. ASSUME NEW i \in DOMAIN windows PROVE windows[i].call \in Searches
    <3>1. windows[i] \in StoredWindow
          BY DEF SearchInv, SearchTyped
    <3> QED BY <3>1 DEF StoredWindow
  <2>5. \A r \in Radars : radars[r].step \in Steps
        BY DEF RadarInv, RadarTyped, RadarRow
  <2>6. \A s \in Searches : searches[s].step \in Steps
        BY DEF SearchInv, SearchTyped, SearchRow
  <2> QED BY <2>1, <2>2, <2>3, <2>4, <2>5, <2>6 DEF PlannerTypeOK
<1>5. TenancyTypeOK
      BY DEF TenancyTypeOK, TenancyInv, TenancyTyped, RequestRow
<1> QED BY <1>1, <1>2, <1>3, <1>4, <1>5 DEF TypeOK, FailuresCounted

\* Whatever calls of the services overlap and whatever fails: each row they store
\* names what there is, no call is at a step it does not have, and the bounds hold.
THEOREM ServicesTyped == Spec => []TypeOK
<1>1. Init => FailuresCounted /\ DocumentTasks /\ InstantKnown /\ BlocksBounded
  <2> SUFFICES ASSUME Init PROVE FailuresCounted /\ DocumentTasks /\ InstantKnown /\ BlocksBounded
      OBVIOUS
  <2>1. FailuresCounted
        BY FailureAssumption DEF Init, FailuresCounted
  <2>2. DocumentTasks /\ InstantKnown
        BY DEF Init, SchoolInit, MilestonesInit, DocumentTasks, InstantKnown
  <2>3. BlocksBounded
        BY PlannerAssumption DEF Init, PlannerInit, BlocksBounded
  <2> QED BY <2>1, <2>2, <2>3
<1>2. Init => MilestonesInv /\ SchoolInv /\ DigestsInv /\ RadarInv /\ SearchInv /\ TenancyInv
      BY MilestonesInitHolds, SchoolInitHolds, DigestsInitHolds, RadarInitHolds, SearchInitHolds,
         TenancyInitHolds DEF Init
<1>3. FailuresCounted /\ DocumentTasks /\ InstantKnown /\ BlocksBounded /\ [Next]_servicesVars
      => FailuresCounted' /\ DocumentTasks' /\ InstantKnown' /\ BlocksBounded'
      BY FailuresNext, DocumentTasksNext, InstantNext, BlocksNext
<1>4. /\ MilestonesInv /\ SchoolInv /\ DigestsInv /\ RadarInv /\ SearchInv /\ TenancyInv
      /\ [Next]_servicesVars
      => MilestonesInv' /\ SchoolInv' /\ DigestsInv' /\ RadarInv' /\ SearchInv' /\ TenancyInv'
      BY StepHolds, SchoolInvNext, DigestsInvNext, RadarInvNext, SearchInvNext, TenancyInvNext
<1>5. /\ FailuresCounted /\ DocumentTasks /\ InstantKnown /\ BlocksBounded
      /\ MilestonesInv /\ SchoolInv /\ DigestsInv /\ RadarInv /\ SearchInv /\ TenancyInv
      => TypeOK
      BY InvGivesTypes
<1> QED BY <1>1, <1>2, <1>3, <1>4, <1>5, PTL DEF Spec
=============================================================================
