----------------------- MODULE MessageRetentionProofs -----------------------
(***************************************************************************)
(* What TLAPS proves of MessageRetention for every set of messages, blocks *)
(* and ingestions in flight, every retention and interval, and every bound.*)
(***************************************************************************)
EXTENDS MessageRetention, TLAPS

USE NoneIsNoMessage, HoursAreNumbers

-----------------------------------------------------------------------------
(* Rows and locals that the actions write have the types of their columns. *)

LEMMA IdleTyped == Idle \in InFlight
BY DEF Idle, InFlight, Steps, NoPayload, Payload

LEMMA GotoTyped ==
    ASSUME TypeOK, NEW i \in Ingests, NEW x \in InFlight, Goto(i, x)
    PROVE  ingest' \in [Ingests -> InFlight]
BY DEF TypeOK, Goto

LEMMA InFlightFields ==
    ASSUME TypeOK, NEW i \in Ingests
    PROVE  /\ ingest[i] \in InFlight
           /\ ingest[i].pc \in Steps /\ ingest[i].body \in Payload
           /\ ingest[i].id \in Messages \cup {None}
           /\ ingest[i].left \in 0..MaxDrafts /\ ingest[i].bad \in 0..MaxDrafts
BY DEF TypeOK, InFlight

LEMMA RowFields ==
    ASSUME TypeOK, NEW m \in Messages
    PROVE  /\ msg[m] \in MessageRow
           /\ msg[m].text \in BOOLEAN /\ msg[m].scrubbed \in BOOLEAN
           /\ msg[m].media \in BOOLEAN /\ msg[m].purgeAfter \in Int
           /\ msg[m].createdAt \in Int
           /\ sent[m] \in Payload /\ sent[m].words \in BOOLEAN
           /\ drafts[m] \in Nat /\ made[m] \in Nat
BY DEF TypeOK, MessageRow, Payload, Times

LEMMA BlockFields ==
    ASSUME TypeOK, NEW b \in Blocks
    PROVE  block[b] \in BlockRow /\ block[b].purgeRawAfter \in Int
BY DEF TypeOK, BlockRow

-----------------------------------------------------------------------------
(* Locals: an ingestion that has stored its message owns it until the      *)
(* message is PROCESSED, and counts the drafts it still has to create.     *)

Owns(x) ==
    /\ x.pc \in {"idle", "store"} => x.id = None
    /\ x.pc \in {"extract", "create", "finish"} =>
           x.id \in Messages /\ msg[x.id].status = "PROCESSING"
Counts(x) ==
    /\ x.pc = "extract" => made[x.id] = 0
    /\ x.pc = "create" => x.left # 0 /\ made[x.id] + x.left = drafts[x.id]
    /\ x.pc = "finish" => made[x.id] = drafts[x.id]
LocalsOK == \A i \in Ingests : Owns(ingest[i]) /\ Counts(ingest[i])
Apart == \A i, j \in Ingests : i # j /\ ingest[i].id # None => ingest[i].id # ingest[j].id
FreshRows == \A m \in Messages : ~Stored(m) => made[m] = 0

TypeInv ==
    /\ TypeOK /\ LocalsOK /\ Apart /\ FreshRows
    /\ ProcessedIsComplete

LEMMA TypeInit == Init => TypeInv
<1> SUFFICES ASSUME Init PROVE TypeInv
    OBVIOUS
<1>1. NoMessage \in MessageRow
      BY DEF NoMessage, MessageRow, Times
<1>2. NoBlock \in BlockRow
      BY DEF NoBlock, BlockRow, Times, Never
<1>3. NoPayload \in Payload
      BY DEF NoPayload, Payload
<1>4. TypeOK
      BY <1>1, <1>2, <1>3, IdleTyped DEF Init, TypeOK, Times
<1>5. LocalsOK /\ Apart
      BY DEF Init, LocalsOK, Apart, Owns, Counts, Idle
<1>6. FreshRows /\ ProcessedIsComplete
      BY DEF Init, FreshRows, ProcessedIsComplete, NoMessage, Stored
<1> QED BY <1>4, <1>5, <1>6 DEF TypeInv

-----------------------------------------------------------------------------
(* Ingestion.                                                              *)

\* An ingestion that changes its own locals, and its own row if it has one,
\* leaves the others as they are.
LEMMA OneMoves ==
    ASSUME TypeInv, NEW i \in Ingests, NEW x \in InFlight, Goto(i, x),
           x.id = None \/ x.id = ingest[i].id \/ (x.id \in Messages /\ ~Stored(x.id)),
           \A m \in Messages \ {x.id} :
               /\ msg'[m].status = msg[m].status
               /\ drafts'[m] = drafts[m] /\ made'[m] = made[m]
    PROVE  /\ Apart'
           /\ \A j \in Ingests \ {i} : Owns(ingest[j])' /\ Counts(ingest[j])'
<1>1. ingest'[i] = x /\ \A j \in Ingests \ {i} : ingest'[j] = ingest[j]
      BY DEF Goto, TypeInv, TypeOK
<1>2. \A j \in Ingests \ {i} :
          /\ ingest[j].id # None => ingest[j].id # x.id
          /\ ingest[j].id \in Messages \cup {None}
      <2> TAKE j \in Ingests \ {i}
      <2>1. ingest[j].id # None => Stored(ingest[j].id)
            BY InFlightFields DEF TypeInv, LocalsOK, Owns, Stored, Steps
      <2> QED BY <2>1, InFlightFields DEF TypeInv, Apart
<1>3. Apart'
      BY <1>1, <1>2 DEF Apart, TypeInv
<1>4. ASSUME NEW j \in Ingests \ {i}
      PROVE  Owns(ingest[j])' /\ Counts(ingest[j])'
      <2>1. Owns(ingest[j]) /\ Counts(ingest[j]) /\ ingest[j].pc \in Steps
            BY InFlightFields DEF TypeInv, LocalsOK
      <2>2. CASE ingest[j].pc \in {"idle", "store"}
            BY <1>1, <2>1, <2>2 DEF Owns, Counts
      <2>3. CASE ingest[j].pc \in {"extract", "create", "finish"}
            <3>1. ingest[j].id \in Messages \ {x.id}
                  BY <2>1, <2>3, <1>2 DEF Owns
            <3> QED BY <1>1, <2>1, <2>3, <3>1 DEF Owns, Counts
      <2> QED BY <2>1, <2>2, <2>3 DEF Steps
<1> QED BY <1>3, <1>4

\* The locals of all ingestions, once the moving one is known to be good.
LEMMA LocalsAfter ==
    ASSUME TypeInv, NEW i \in Ingests, NEW x \in InFlight, Goto(i, x),
           x.id = None \/ x.id = ingest[i].id \/ (x.id \in Messages /\ ~Stored(x.id)),
           \A m \in Messages \ {x.id} :
               /\ msg'[m].status = msg[m].status
               /\ drafts'[m] = drafts[m] /\ made'[m] = made[m],
           Owns(x)', Counts(x)'
    PROVE  LocalsOK' /\ Apart'
<1>1. Apart' /\ \A j \in Ingests \ {i} : Owns(ingest[j])' /\ Counts(ingest[j])'
      BY OneMoves
<1>2. ingest'[i] = x
      BY DEF Goto, TypeInv, TypeOK
<1>3. Owns(ingest[i])' /\ Counts(ingest[i])'
      BY <1>2 DEF Owns, Counts
<1> QED BY <1>1, <1>3 DEF LocalsOK

\* An ingestion that ends, for whatever reason, without writing a row.
LEMMA EndsQuietly ==
    ASSUME TypeInv, NEW i \in Ingests, Goto(i, Idle),
           UNCHANGED <<now, child, msg, block, sweep, since, history>>,
           faults' \in 0..MaxFaults
    PROVE  TypeInv'
<1>1. TypeOK'
      BY GotoTyped, IdleTyped DEF TypeInv, TypeOK, history, Stored
<1>2. Owns(Idle)' /\ Counts(Idle)'
      BY DEF Owns, Counts, Idle
<1>3. Idle.id = None
      BY DEF Idle
<1>4. LocalsOK' /\ Apart'
      BY <1>2, <1>3, IdleTyped, LocalsAfter DEF history
<1>5. FreshRows' /\ ProcessedIsComplete'
      BY DEF TypeInv, FreshRows, ProcessedIsComplete, Stored, history
<1> QED BY <1>1, <1>4, <1>5 DEF TypeInv

LEMMA CheckTyped ==
    ASSUME TypeInv, NEW i \in Ingests, IngestCheck(i)
    PROVE  TypeInv'
<1>1. PICK p \in Payload :
          Goto(i, [Idle EXCEPT !.pc = "store", !.body = p, !.strip = child /\ p.minor])
      BY DEF IngestCheck
<1> DEFINE next == [Idle EXCEPT !.pc = "store", !.body = p, !.strip = child /\ p.minor]
<1>2. next \in InFlight /\ next.pc = "store" /\ next.id = None
      <2>1. next \in InFlight
            BY IdleTyped DEF InFlight, Steps, Payload, TypeInv, TypeOK
      <2>2. next.pc = "store" /\ next.id = None
            BY DEF Idle
      <2> QED BY <2>1, <2>2
<1>3. PICK x \in InFlight : x.pc = "store" /\ x.id = None /\ Goto(i, x)
      BY <1>1, <1>2
<1>4. UNCHANGED <<now, child, msg, block, sweep, since, faults, history>>
      BY DEF IngestCheck
<1> HIDE DEF next
<1>6. TypeOK'
      BY <1>3, <1>4, GotoTyped DEF TypeInv, TypeOK, history
<1>7. Owns(x)' /\ Counts(x)'
      BY <1>3 DEF Owns, Counts
<1>8. LocalsOK' /\ Apart'
      BY <1>3, <1>4, <1>7, LocalsAfter DEF history
<1>9. FreshRows' /\ ProcessedIsComplete'
      BY <1>4 DEF TypeInv, FreshRows, ProcessedIsComplete, Stored, history
<1> QED BY <1>6, <1>8, <1>9 DEF TypeInv

LEMMA StoreTyped ==
    ASSUME TypeInv, NEW i \in Ingests, IngestStore(i)
    PROVE  TypeInv'
<1> DEFINE p == ingest[i].body
<1>1. PICK m \in Messages, skew \in Skews :
          /\ ~Stored(m)
          /\ msg' = [msg EXCEPT ![m] =
               [status |-> "PROCESSING",
                text |-> p.words, scrubbed |-> p.words, tokens |-> p.pii,
                media |-> p.photo /\ ~ingest[i].strip,
                receivedAt |-> now + skew,
                purgeAfter |-> now + skew + PurgeAfter,
                createdAt |-> now]]
          /\ sent' = [sent EXCEPT ![m] = p]
          /\ Goto(i, [ingest[i] EXCEPT !.pc = "extract", !.id = m])
      BY DEF IngestStore
<1> DEFINE next == [ingest[i] EXCEPT !.pc = "extract", !.id = m]
<1>8. next \in InFlight /\ next.pc = "extract" /\ next.id = m
      BY InFlightFields DEF InFlight, Steps, TypeInv
<1>2. PICK x \in InFlight : x.pc = "extract" /\ x.id = m /\ Goto(i, x)
      BY <1>1, <1>8
<1>3. UNCHANGED <<now, child, block, sweep, since, faults, drafts, made>>
      BY DEF IngestStore
<1>4. p \in Payload
      BY InFlightFields DEF TypeInv
<1>5. msg'[m] \in MessageRow /\ msg'[m].status = "PROCESSING"
      BY <1>1, <1>4 DEF MessageRow, Payload, TypeInv, TypeOK, Times
<1>6. /\ msg' \in [Messages -> MessageRow]
      /\ \A n \in Messages \ {m} : msg'[n] = msg[n]
      BY <1>1, <1>5 DEF TypeInv, TypeOK
<1>7. sent' \in [Messages -> Payload]
      BY <1>1, <1>4 DEF TypeInv, TypeOK
<1>9. made[m] = 0
      BY <1>1 DEF TypeInv, FreshRows
<1> HIDE DEF next, p
<1>10. TypeOK'
      BY <1>2, <1>3, <1>6, <1>7, GotoTyped DEF TypeInv, TypeOK
<1>11. Owns(x)' /\ Counts(x)'
      BY <1>2, <1>3, <1>5, <1>9 DEF Owns, Counts
<1>12. LocalsOK' /\ Apart'
      BY <1>1, <1>2, <1>3, <1>6, <1>11, LocalsAfter
<1>13. FreshRows' /\ ProcessedIsComplete'
      BY <1>3, <1>5, <1>6 DEF TypeInv, FreshRows, ProcessedIsComplete, Stored
<1> QED BY <1>10, <1>12, <1>13 DEF TypeInv

\* The message of an ingestion that has stored it.
LEMMA Owned ==
    ASSUME TypeInv, NEW i \in Ingests, ingest[i].pc \in {"extract", "create", "finish"}
    PROVE  /\ ingest[i].id \in Messages
           /\ msg[ingest[i].id].status = "PROCESSING"
           /\ ingest[i].left \in 0..MaxDrafts
           /\ ingest[i] \in InFlight
           /\ Counts(ingest[i])
BY InFlightFields DEF TypeInv, LocalsOK, Owns

LEMMA ExtractTyped ==
    ASSUME TypeInv, NEW i \in Ingests, IngestExtract(i)
    PROVE  TypeInv'
<1>1. PICK n \in 0..MaxDrafts : \E bad \in 0..n :
          /\ drafts' = [drafts EXCEPT ![ingest[i].id] = n]
          /\ Goto(i, [ingest[i] EXCEPT !.pc = IF n = 0 THEN "finish" ELSE "create",
                                       !.left = n, !.bad = bad])
      BY DEF IngestExtract
<1>2. PICK bad \in 0..n :
          /\ drafts' = [drafts EXCEPT ![ingest[i].id] = n]
          /\ Goto(i, [ingest[i] EXCEPT !.pc = IF n = 0 THEN "finish" ELSE "create",
                                       !.left = n, !.bad = bad])
      BY <1>1
<1>3. bad \in 0..MaxDrafts
      BY <1>2
<1>4. UNCHANGED <<now, child, msg, block, sweep, since, faults, sent, made>>
      BY DEF IngestExtract
<1>5. PICK m \in Messages : m = ingest[i].id
      BY Owned DEF IngestExtract
<1>6. /\ msg[m].status = "PROCESSING" /\ made[m] = 0
      /\ ingest[i] \in InFlight
      BY <1>5, Owned DEF IngestExtract, Counts
<1> DEFINE next == [ingest[i] EXCEPT !.pc = IF n = 0 THEN "finish" ELSE "create",
                                     !.left = n, !.bad = bad]
<1>7. /\ next \in InFlight /\ next.left = n /\ next.id = m
      /\ next.pc = IF n = 0 THEN "finish" ELSE "create"
      BY <1>5, <1>6, <1>3 DEF InFlight, Steps
<1>8. PICK x \in InFlight :
          /\ Goto(i, x) /\ x.left = n /\ x.id = m
          /\ x.pc = IF n = 0 THEN "finish" ELSE "create"
      BY <1>2, <1>7
<1> HIDE DEF next
<1>9. /\ drafts' \in [Messages -> 0..MaxDrafts] /\ drafts'[m] = n
      /\ \A k \in Messages \ {m} : drafts'[k] = drafts[k]
      BY <1>2, <1>5 DEF TypeInv, TypeOK
<1>10. TypeOK'
      BY <1>4, <1>8, <1>9, GotoTyped DEF TypeInv, TypeOK
<1>11. Owns(x)' /\ Counts(x)'
      BY <1>4, <1>6, <1>8, <1>9 DEF Owns, Counts
<1>12. LocalsOK' /\ Apart'
      BY <1>4, <1>5, <1>8, <1>9, <1>11, LocalsAfter
<1>13. FreshRows' /\ ProcessedIsComplete'
      BY <1>4, <1>6, <1>9 DEF TypeInv, FreshRows, ProcessedIsComplete, Stored
<1> QED BY <1>10, <1>12, <1>13 DEF TypeInv

LEMMA CreateTyped ==
    ASSUME TypeInv, NEW i \in Ingests, IngestCreate(i)
    PROVE  TypeInv'
<1>1. PICK m \in Messages, n \in 1..MaxDrafts : m = ingest[i].id /\ n = ingest[i].left
      BY Owned DEF IngestCreate, Counts
<1>2. /\ made' = [made EXCEPT ![m] = @ + 1]
      /\ UNCHANGED <<now, child, msg, block, sweep, since, faults, sent, drafts>>
      BY <1>1 DEF IngestCreate
<1>3. /\ msg[m].status = "PROCESSING" /\ made[m] + n = drafts[m]
      /\ ingest[i] \in InFlight
      BY <1>1, Owned DEF IngestCreate, Counts
<1> DEFINE next == [ingest[i] EXCEPT
                       !.left = @ - 1,
                       !.pc = IF ingest[i].left = 1 THEN "finish" ELSE "create"]
<1>4. /\ next \in InFlight /\ next.left = n - 1 /\ next.id = m
      /\ next.pc = IF n = 1 THEN "finish" ELSE "create"
      <2>1. n - 1 \in 0..MaxDrafts /\ ingest[i].left - 1 = n - 1
            BY <1>1
      <2>2. (IF ingest[i].left = 1 THEN "finish" ELSE "create") \in Steps
            BY DEF Steps
      <2>3. next = [ingest[i] EXCEPT
                       !.left = n - 1,
                       !.pc = IF n = 1 THEN "finish" ELSE "create"]
            BY <1>1, <1>3 DEF InFlight
      <2> QED BY <1>1, <1>3, <2>1, <2>2, <2>3 DEF InFlight
<1>5. PICK x \in InFlight :
          /\ Goto(i, x) /\ x.left = n - 1 /\ x.id = m
          /\ x.pc = IF n = 1 THEN "finish" ELSE "create"
      BY <1>4 DEF IngestCreate
<1> HIDE DEF next
<1>6. made[m] \in 0..MaxDrafts /\ drafts[m] \in 0..MaxDrafts
      BY DEF TypeInv, TypeOK
<1>7. /\ made' \in [Messages -> 0..MaxDrafts] /\ made'[m] = made[m] + 1
      /\ \A k \in Messages \ {m} : made'[k] = made[k]
      BY <1>2, <1>3, <1>6 DEF TypeInv, TypeOK
<1>8. TypeOK'
      BY <1>2, <1>5, <1>7, GotoTyped DEF TypeInv, TypeOK
<1>9. Owns(x)' /\ Counts(x)'
      BY <1>2, <1>3, <1>5, <1>6, <1>7 DEF Owns, Counts
<1>10. LocalsOK' /\ Apart'
      BY <1>1, <1>2, <1>5, <1>7, <1>9, LocalsAfter
<1>11. FreshRows' /\ ProcessedIsComplete'
      BY <1>2, <1>3, <1>7 DEF TypeInv, FreshRows, ProcessedIsComplete, Stored
<1> QED BY <1>8, <1>10, <1>11 DEF TypeInv

LEMMA FinishTyped ==
    ASSUME TypeInv, NEW i \in Ingests, IngestFinish(i)
    PROVE  TypeInv'
<1>1. PICK m \in Messages : m = ingest[i].id
      BY Owned DEF IngestFinish
<1>2. /\ UNCHANGED <<now, child, block, sweep, since, faults, sent, drafts, made>>
      /\ Goto(i, Idle) /\ msg' = [msg EXCEPT ![m] = [@ EXCEPT !.status = "PROCESSED"]]
      BY <1>1 DEF IngestFinish, history
<1>3. made[m] = drafts[m]
      BY <1>1, Owned DEF IngestFinish, Counts
<1>4. [msg[m] EXCEPT !.status = "PROCESSED"] \in MessageRow
      BY DEF TypeInv, TypeOK, MessageRow
<1>5. /\ msg' \in [Messages -> MessageRow] /\ msg'[m].status = "PROCESSED"
      /\ \A k \in Messages \ {m} : msg'[k] = msg[k]
      BY <1>2, <1>4 DEF TypeInv, TypeOK, MessageRow
<1>6. TypeOK'
      BY <1>2, <1>5, IdleTyped, GotoTyped DEF TypeInv, TypeOK
<1>7. ingest'[i] = Idle /\ \A j \in Ingests \ {i} : ingest'[j] = ingest[j]
      BY <1>2 DEF Goto, TypeInv, TypeOK
<1>8. ASSUME NEW j \in Ingests \ {i}
      PROVE  Owns(ingest[j])' /\ Counts(ingest[j])'
      <2>1. Owns(ingest[j]) /\ Counts(ingest[j]) /\ ingest[j].id # m
            BY <1>1, NoneIsNoMessage DEF TypeInv, LocalsOK, Apart
      <2> QED BY <2>1, <1>2, <1>5, <1>7 DEF Owns, Counts
<1>9. Owns(ingest[i])' /\ Counts(ingest[i])'
      BY <1>7 DEF Owns, Counts, Idle
<1>10. LocalsOK'
      BY <1>8, <1>9 DEF LocalsOK
<1>11. Apart'
      BY <1>7 DEF Apart, TypeInv, Idle
<1>12. FreshRows' /\ ProcessedIsComplete'
      BY <1>2, <1>3, <1>5 DEF TypeInv, FreshRows, ProcessedIsComplete, Stored
<1> QED BY <1>6, <1>10, <1>11, <1>12 DEF TypeInv

-----------------------------------------------------------------------------
(* The sweep, blocks, members, restarts and the clock.                     *)

\* Steps that touch no ingestion and no counter, and keep the status of rows.
LEMMA RowsApart ==
    ASSUME TypeInv, TypeOK', UNCHANGED <<ingest, history>>,
           \A m \in Messages : msg'[m].status = msg[m].status
    PROVE  TypeInv'
<1>1. ASSUME NEW i \in Ingests
      PROVE  Owns(ingest[i])' /\ Counts(ingest[i])'
      <2>1. Owns(ingest[i]) /\ Counts(ingest[i])
            BY DEF TypeInv, LocalsOK
      <2> QED BY <2>1 DEF Owns, Counts, history
<1>2. Apart' /\ FreshRows' /\ ProcessedIsComplete'
      BY DEF TypeInv, Apart, FreshRows, ProcessedIsComplete, Stored, history
<1> QED BY <1>1, <1>2 DEF TypeInv, LocalsOK

LEMMA AddBlockTyped ==
    ASSUME TypeInv, NEW b \in Blocks, AddBlock(b)
    PROVE  TypeInv'
<1>1. PICK raw \in BOOLEAN :
          block' = [block EXCEPT ![b] =
              [state |-> "stored", purgeRawAfter |-> IF raw THEN now + PurgeAfter ELSE Never]]
      BY DEF AddBlock
<1>2. (IF raw THEN now + PurgeAfter ELSE Never) \in Int
      BY DEF TypeInv, TypeOK, Times, Never
<1>3. block' \in [Blocks -> BlockRow]
      BY <1>1, <1>2 DEF TypeInv, TypeOK, BlockRow
<1>4. UNCHANGED <<now, child, msg, ingest, sweep, since, faults, history>>
      BY DEF AddBlock
<1>5. TypeOK'
      BY <1>3, <1>4 DEF TypeInv, TypeOK, history
<1> QED BY <1>4, <1>5, RowsApart

LEMMA BlankedTyped ==
    ASSUME NEW row \in MessageRow
    PROVE  /\ Blanked(row) \in MessageRow /\ Blanked(row).status = row.status
           /\ ~Content(Blanked(row))
BY DEF Blanked, MessageRow, Content

LEMMA SweepMessagesTyped == TypeInv /\ SweepMessages => TypeInv'
<1> SUFFICES ASSUME TypeInv, SweepMessages PROVE TypeInv'
    OBVIOUS
<1>1. \A m \in Messages : msg[m] \in MessageRow
      BY DEF TypeInv, TypeOK
<1>2. /\ msg' \in [Messages -> MessageRow]
      /\ \A m \in Messages : msg'[m].status = msg[m].status
      BY <1>1, BlankedTyped DEF SweepMessages
<1>3. TypeOK'
      BY <1>2 DEF TypeInv, TypeOK, SweepMessages, history
<1> QED BY <1>2, <1>3, RowsApart DEF SweepMessages

LEMMA SweepBlocksTyped == TypeInv /\ SweepBlocks => TypeInv'
<1> SUFFICES ASSUME TypeInv, SweepBlocks PROVE TypeInv'
    OBVIOUS
<1>1. \A b \in Blocks : [block[b] EXCEPT !.state = "deleted"] \in BlockRow
      BY DEF TypeInv, TypeOK, BlockRow
<1>2. block' \in [Blocks -> BlockRow]
      BY <1>1 DEF SweepBlocks, TypeInv, TypeOK
<1>3. TypeOK'
      BY <1>2 DEF TypeInv, TypeOK, SweepBlocks, history
<1> QED BY <1>3, RowsApart DEF SweepBlocks

LEMMA OthersTyped ==
    ASSUME TypeInv, ChangeChild \/ SweepStart \/ SweepFails \/ Tick
    PROVE  TypeInv'
<1>1. UNCHANGED <<ingest, history, msg>>
      BY DEF ChangeChild, SweepStart, SweepFails, Tick
<1>2. CASE ChangeChild
      BY <1>1, <1>2, RowsApart DEF ChangeChild, TypeInv, TypeOK, history
<1>3. CASE SweepStart
      <2>1. since' \in 0..SweepEvery
            BY <1>3 DEF SweepStart
      <2> QED BY <1>1, <1>3, <2>1, RowsApart DEF SweepStart, TypeInv, TypeOK, history
<1>4. CASE SweepFails
      <2>1. faults' \in 0..MaxFaults
            BY <1>4 DEF SweepFails, TypeInv, TypeOK
      <2> QED BY <1>1, <1>4, <2>1, RowsApart DEF SweepFails, TypeInv, TypeOK, history
<1>5. CASE Tick
      <2>1. now' \in Times /\ since' \in 0..SweepEvery
            BY <1>5 DEF Tick, TypeInv, TypeOK, Times
      <2> QED BY <1>1, <1>5, <2>1, RowsApart DEF Tick, TypeInv, TypeOK, history
<1> QED BY <1>2, <1>3, <1>4, <1>5

LEMMA RestartTyped == TypeInv /\ Restart => TypeInv'
<1> SUFFICES ASSUME TypeInv, Restart PROVE TypeInv'
    OBVIOUS
<1>1. ingest' \in [Ingests -> InFlight] /\ \A i \in Ingests : ingest'[i] = Idle
      BY IdleTyped DEF Restart
<1>2. faults' \in 0..MaxFaults /\ since' \in 0..SweepEvery
      BY DEF Restart, TypeInv, TypeOK
<1>3. TypeOK'
      BY <1>1, <1>2 DEF Restart, TypeInv, TypeOK, history
<1>4. LocalsOK' /\ Apart'
      BY <1>1 DEF LocalsOK, Apart, Owns, Counts, Idle
<1>5. FreshRows' /\ ProcessedIsComplete'
      BY DEF Restart, TypeInv, FreshRows, ProcessedIsComplete, Stored, history
<1> QED BY <1>3, <1>4, <1>5 DEF TypeInv

LEMMA TypeStep == TypeInv /\ [Next]_vars => TypeInv'
<1> SUFFICES ASSUME TypeInv, [Next]_vars PROVE TypeInv'
    OBVIOUS
<1>1. ASSUME NEW i \in Ingests, Ingest(i) \/ IngestFails(i)
      PROVE  TypeInv'
      <2>1. CASE IngestCheck(i)
            BY <2>1, CheckTyped
      <2>2. CASE IngestStore(i)
            BY <2>2, StoreTyped
      <2>3. CASE IngestExtract(i)
            BY <2>3, ExtractTyped
      <2>4. CASE IngestCreate(i)
            BY <2>4, CreateTyped
      <2>5. CASE IngestReject(i)
            <3>1. faults' \in 0..MaxFaults
                  BY <2>5 DEF IngestReject, TypeInv, TypeOK
            <3> QED BY <2>5, <3>1, EndsQuietly DEF IngestReject
      <2>6. CASE IngestFinish(i)
            BY <2>6, FinishTyped
      <2>7. CASE IngestFails(i)
            <3>1. faults' \in 0..MaxFaults
                  BY <2>7 DEF IngestFails, TypeInv, TypeOK
            <3> QED BY <2>7, <3>1, EndsQuietly DEF IngestFails
      <2> QED BY <1>1, <2>1, <2>2, <2>3, <2>4, <2>5, <2>6, <2>7 DEF Ingest
<1>2. ASSUME NEW b \in Blocks, AddBlock(b)
      PROVE  TypeInv'
      BY <1>2, AddBlockTyped
<1>3. CASE UNCHANGED vars
      <2>1. TypeOK'
            BY <1>3 DEF vars, history, TypeInv, TypeOK
      <2> QED BY <1>3, <2>1, RowsApart DEF vars
<1> QED BY <1>1, <1>2, <1>3, SweepMessagesTyped, SweepBlocksTyped, OthersTyped,
           RestartTyped DEF Next

-----------------------------------------------------------------------------
(* Retention.  Every failure and restart costs at most one interval.  A    *)
(* time that is due is overdue only by what the interval has run for, or   *)
(* the sweep that will take the row has started.                           *)

Debt == SweepEvery * faults
InTime(at, taking) ==
    \/ now - since <= at + Debt
    \/ taking /\ now <= at + Debt + SweepEvery

MessageInTime(at) == InTime(at, sweep = "messages")
BlockInTime(at) == InTime(at, sweep # "idle")

MessagesInTime ==
    \A m \in Messages :
        sent[m].words /\ Content(msg[m]) =>
            /\ Stored(m) /\ msg[m].text
            /\ MessageInTime(msg[m].purgeAfter) \/ MessageInTime(msg[m].createdAt)
BlocksInTime ==
    \A b \in Blocks :
        /\ block[b].state = "stored" /\ block[b].purgeRawAfter # Never =>
               BlockInTime(block[b].purgeRawAfter)
        /\ block[b].state = "deleted" => block[b].purgeRawAfter # Never

IInv == TypeInv /\ MessagesInTime /\ BlocksInTime

LEMMA DebtGrows ==
    ASSUME NEW f \in Nat
    PROVE  /\ SweepEvery * f \in Nat
           /\ SweepEvery * (f + 1) = SweepEvery * f + SweepEvery
OBVIOUS

LEMMA DebtFacts ==
    ASSUME TypeOK
    PROVE  /\ Debt \in Nat /\ Grace = Debt + SweepEvery
           /\ now \in Nat /\ since \in Nat /\ since <= SweepEvery
           /\ faults' = faults => Debt' = Debt
           /\ faults' = faults + 1 => Debt' = Debt + SweepEvery
<1>1. faults \in Nat
      BY DEF TypeOK
<1> QED BY <1>1, DebtGrows DEF Debt, Grace, TypeOK, Times

\* What any step that is not the end of the taking sweep does to the clock,
\* the interval and the faults.
ClockMoves ==
    \/ UNCHANGED <<now, since, sweep>> /\ faults' \in {faults, faults + 1}
    \/ SweepStart \/ SweepFails \/ Restart \/ Tick

LEMMA StillInTime ==
    ASSUME TypeOK, ClockMoves, NEW at \in Int, NEW taking \in BOOLEAN,
           NEW taking2 \in BOOLEAN, InTime(at, taking),
           taking => sweep # "idle",
           UNCHANGED sweep => taking2 = taking,
           SweepStart => taking2
    PROVE  \/ now' - since' <= at + Debt'
           \/ taking2 /\ now' <= at + Debt' + SweepEvery
<1>1. CASE UNCHANGED <<now, since, sweep>> /\ faults' \in {faults, faults + 1}
      BY <1>1, DebtFacts DEF InTime
<1>2. CASE SweepStart
      <2>1. ~taking /\ since = SweepEvery /\ UNCHANGED <<now, faults>> /\ taking2
            BY <1>2 DEF SweepStart
      <2> QED BY <2>1, DebtFacts DEF InTime
<1>3. CASE SweepFails
      <2>1. UNCHANGED <<now, since>> /\ faults' = faults + 1
            BY <1>3 DEF SweepFails
      <2> QED BY <2>1, DebtFacts DEF InTime
<1>4. CASE Restart
      <2>1. UNCHANGED now /\ since' = 0 /\ faults' = faults + 1
            BY <1>4 DEF Restart
      <2> QED BY <2>1, DebtFacts DEF InTime
<1>5. CASE Tick
      <2>1. ~taking /\ now' = now + 1 /\ since' = since + 1 /\ UNCHANGED faults
            BY <1>5 DEF Tick
      <2> QED BY <2>1, DebtFacts DEF InTime
<1> QED BY <1>1, <1>2, <1>3, <1>4, <1>5 DEF ClockMoves

LEMMA MessageClock ==
    ASSUME TypeOK, ClockMoves \/ SweepBlocks, NEW at \in Int, MessageInTime(at)
    PROVE  MessageInTime(at)'
<1>1. CASE SweepBlocks
      <2>1. sweep # "messages" /\ UNCHANGED <<now, since, faults>>
            BY <1>1 DEF SweepBlocks
      <2> QED BY <2>1, DebtFacts DEF MessageInTime, InTime
<1>2. CASE ClockMoves
      <2>1. SweepStart => sweep' = "messages"
            BY DEF SweepStart
      <2>2. PICK a \in BOOLEAN, b \in BOOLEAN :
                a = (sweep = "messages") /\ b = (sweep' = "messages")
            OBVIOUS
      <2>3. InTime(at, a) /\ (a => sweep # "idle")
            BY <2>2 DEF MessageInTime, InTime
      <2>4. UNCHANGED sweep => b = a
            BY <2>2
      <2>5. \/ now' - since' <= at + Debt'
            \/ b /\ now' <= at + Debt' + SweepEvery
            BY <1>2, <2>1, <2>2, <2>3, <2>4, StillInTime
      <2> QED BY <2>2, <2>5 DEF MessageInTime, InTime
<1> QED BY <1>1, <1>2

LEMMA BlockClock ==
    ASSUME TypeOK, ClockMoves \/ SweepMessages, NEW at \in Int, BlockInTime(at)
    PROVE  BlockInTime(at)'
<1>1. CASE SweepMessages
      <2>1. sweep' # "idle" /\ UNCHANGED <<now, since, faults>>
            BY <1>1 DEF SweepMessages
      <2> QED BY <2>1, DebtFacts DEF BlockInTime, InTime
<1>2. CASE ClockMoves
      <2>1. SweepStart => sweep' # "idle"
            BY DEF SweepStart
      <2>2. PICK a \in BOOLEAN, b \in BOOLEAN :
                a = (sweep # "idle") /\ b = (sweep' # "idle")
            OBVIOUS
      <2>3. InTime(at, a) /\ (a => sweep # "idle")
            BY <2>2 DEF BlockInTime, InTime
      <2>4. UNCHANGED sweep => b = a
            BY <2>2
      <2>5. \/ now' - since' <= at + Debt'
            \/ b /\ now' <= at + Debt' + SweepEvery
            BY <1>2, <2>1, <2>2, <2>3, <2>4, StillInTime
      <2> QED BY <2>2, <2>5 DEF BlockInTime, InTime
<1> QED BY <1>1, <1>2

\* Messages that keep their content and their times.
LEMMA MessagesKept ==
    ASSUME TypeOK, MessagesInTime, ClockMoves \/ SweepBlocks,
           \A m \in Messages :
               /\ sent'[m] = sent[m] /\ (Stored(m) => Stored(m)')
               /\ Content(msg'[m]) = Content(msg[m]) /\ msg'[m].text = msg[m].text
               /\ msg'[m].purgeAfter = msg[m].purgeAfter
               /\ msg'[m].createdAt = msg[m].createdAt
    PROVE  MessagesInTime'
<1> SUFFICES ASSUME NEW m \in Messages, sent'[m].words, Content(msg'[m])
             PROVE  /\ Stored(m)' /\ msg'[m].text
                    /\ \/ MessageInTime(msg[m].purgeAfter)'
                       \/ MessageInTime(msg[m].createdAt)'
    BY DEF MessagesInTime, Content
<1>1. Stored(m) /\ msg[m].text /\ (MessageInTime(msg[m].purgeAfter) \/ MessageInTime(msg[m].createdAt))
      BY DEF MessagesInTime
<1>2. PICK p \in Int, c \in Int : /\ p = msg[m].purgeAfter /\ p = msg'[m].purgeAfter
                                  /\ c = msg[m].createdAt /\ c = msg'[m].createdAt
      BY RowFields
<1>3. MessageInTime(p) \/ MessageInTime(c)
      BY <1>1, <1>2
<1>4. MessageInTime(p)' \/ MessageInTime(c)'
      BY <1>3, MessageClock
<1> QED BY <1>1, <1>2, <1>4

LEMMA StoreInTime ==
    ASSUME TypeOK, MessagesInTime, NEW i \in Ingests, IngestStore(i)
    PROVE  MessagesInTime'
<1>1. PICK m \in Messages, skew \in Skews :
          /\ msg' = [msg EXCEPT ![m] =
               [status |-> "PROCESSING",
                text |-> ingest[i].body.words, scrubbed |-> ingest[i].body.words,
                tokens |-> ingest[i].body.pii,
                media |-> ingest[i].body.photo /\ ~ingest[i].strip,
                receivedAt |-> now + skew,
                purgeAfter |-> now + skew + PurgeAfter,
                createdAt |-> now]]
          /\ sent' = [sent EXCEPT ![m] = ingest[i].body]
      BY DEF IngestStore
<1>2. UNCHANGED <<now, since, sweep, faults>>
      BY DEF IngestStore
<1>3. /\ Stored(m)' /\ msg'[m].text = ingest[i].body.words /\ sent'[m].words = ingest[i].body.words
      /\ msg'[m].createdAt = now
      /\ \A n \in Messages \ {m} : msg'[n] = msg[n] /\ sent'[n] = sent[n]
      BY <1>1 DEF TypeOK, Stored
<1>4. PICK c \in Int : c = now
      BY DebtFacts
<1>5. MessageInTime(c)'
      BY <1>2, <1>4, DebtFacts DEF MessageInTime, InTime
<1>6. ASSUME NEW n \in Messages \ {m}, sent'[n].words, Content(msg'[n])
      PROVE  /\ Stored(n)' /\ msg'[n].text
             /\ MessageInTime(msg[n].purgeAfter)' \/ MessageInTime(msg[n].createdAt)'
      <2>1. Stored(n) /\ msg[n].text /\ (MessageInTime(msg[n].purgeAfter) \/ MessageInTime(msg[n].createdAt))
            BY <1>3, <1>6 DEF MessagesInTime
      <2>2. PICK p \in Int, q \in Int : /\ p = msg[n].purgeAfter /\ p = msg'[n].purgeAfter
                                        /\ q = msg[n].createdAt /\ q = msg'[n].createdAt
            BY <1>3, RowFields
      <2>3. MessageInTime(p) \/ MessageInTime(q)
            BY <2>1, <2>2
      <2>4. MessageInTime(p)' \/ MessageInTime(q)'
            BY <1>2, <2>3, MessageClock DEF ClockMoves
      <2> QED BY <2>1, <2>2, <2>4, <1>3 DEF Stored
<1>7. sent'[m].words =>
          Stored(m)' /\ msg'[m].text /\ MessageInTime(msg[m].createdAt)'
      BY <1>3, <1>4, <1>5
<1> QED BY <1>6, <1>7 DEF MessagesInTime, Content

LEMMA SweepMessagesInTime ==
    ASSUME TypeOK, MessagesInTime, SweepMessages
    PROVE  MessagesInTime'
<1> SUFFICES ASSUME NEW m \in Messages, sent'[m].words, Content(msg'[m])
             PROVE  Stored(m)' /\ msg'[m].text /\ MessageInTime(msg[m].purgeAfter)'
    BY DEF MessagesInTime, Content
<1>1. UNCHANGED <<now, since, faults, sent>>
      BY DEF SweepMessages, history
<1>2. ~Due(msg[m]) /\ msg'[m] = msg[m]
      <2>1. CASE Due(msg[m])
            <3>1. msg'[m] = Blanked(msg[m])
                  BY <2>1 DEF SweepMessages
            <3> QED BY <3>1, BlankedTyped, RowFields
      <2>2. CASE ~Due(msg[m])
            BY <2>2 DEF SweepMessages
      <2> QED BY <2>1, <2>2
<1>3. Stored(m) /\ msg[m].text
      BY <1>1, <1>2 DEF MessagesInTime
<1>4. ~(msg[m].purgeAfter <= now)
      BY <1>2, <1>3 DEF Due, Stored
<1>5. PICK p \in Int : p = msg[m].purgeAfter /\ p = msg'[m].purgeAfter
      BY <1>2, RowFields
<1>6. MessageInTime(p)'
      BY <1>1, <1>4, <1>5, DebtFacts DEF MessageInTime, InTime
<1> QED BY <1>2, <1>3, <1>5, <1>6 DEF Stored

LEMMA BlocksKept ==
    ASSUME TypeOK, BlocksInTime, ClockMoves \/ SweepMessages, UNCHANGED block
    PROVE  BlocksInTime'
<1>1. ASSUME NEW b \in Blocks, block[b].state = "stored", block[b].purgeRawAfter # Never
      PROVE  BlockInTime(block[b].purgeRawAfter)'
      <2>1. BlockInTime(block[b].purgeRawAfter)
            BY <1>1 DEF BlocksInTime
      <2>2. PICK p \in Int : p = block[b].purgeRawAfter /\ p = block'[b].purgeRawAfter
            BY BlockFields
      <2>3. BlockInTime(p)'
            BY <2>1, <2>2, BlockClock
      <2> QED BY <2>2, <2>3
<1> QED BY <1>1 DEF BlocksInTime

LEMMA AddBlockInTime ==
    ASSUME TypeOK, BlocksInTime, NEW b \in Blocks, AddBlock(b)
    PROVE  BlocksInTime'
<1>1. PICK raw \in BOOLEAN :
          block' = [block EXCEPT ![b] =
              [state |-> "stored", purgeRawAfter |-> IF raw THEN now + PurgeAfter ELSE Never]]
      BY DEF AddBlock
<1>2. UNCHANGED <<now, since, sweep, faults>>
      BY DEF AddBlock
<1>3. /\ block'[b].state = "stored"
      /\ block'[b].purgeRawAfter # Never => block'[b].purgeRawAfter = now + PurgeAfter
      /\ \A c \in Blocks \ {b} : block'[c] = block[c]
      BY <1>1 DEF TypeOK
<1>4. PICK at \in Int : at = now + PurgeAfter
      BY DebtFacts
<1>5. BlockInTime(at)'
      BY <1>2, <1>4, DebtFacts DEF BlockInTime, InTime
<1>6. ASSUME NEW c \in Blocks \ {b}, block[c].state = "stored",
             block[c].purgeRawAfter # Never
      PROVE  BlockInTime(block[c].purgeRawAfter)'
      <2>1. PICK p \in Int : p = block[c].purgeRawAfter /\ p = block'[c].purgeRawAfter
            BY <1>3, BlockFields
      <2>2. BlockInTime(p)
            BY <1>6, <2>1 DEF BlocksInTime
      <2>3. BlockInTime(p)'
            BY <1>2, <2>2, BlockClock DEF ClockMoves
      <2> QED BY <2>1, <2>3
<1>7. block'[b].purgeRawAfter # Never => BlockInTime(block[b].purgeRawAfter)'
      BY <1>3, <1>4, <1>5
<1> QED BY <1>3, <1>6, <1>7 DEF BlocksInTime

LEMMA SweepBlocksInTime ==
    ASSUME TypeOK, BlocksInTime, SweepBlocks
    PROVE  BlocksInTime'
<1>1. UNCHANGED <<now, since, faults>>
      BY DEF SweepBlocks
<1>2. ASSUME NEW b \in Blocks
      PROVE  /\ block'[b].purgeRawAfter = block[b].purgeRawAfter
             /\ IF Expired(block[b]) THEN block'[b].state = "deleted"
                                     ELSE block'[b].state = block[b].state
      BY DEF SweepBlocks, TypeOK, BlockRow
<1>3. ASSUME NEW b \in Blocks, block'[b].state = "stored", block[b].purgeRawAfter # Never
      PROVE  BlockInTime(block[b].purgeRawAfter)'
      <2>1. ~(block[b].purgeRawAfter <= now)
            BY <1>2, <1>3 DEF Expired
      <2>2. PICK p \in Int : p = block[b].purgeRawAfter /\ p = block'[b].purgeRawAfter
            BY <1>2, BlockFields
      <2>3. BlockInTime(p)'
            BY <1>1, <2>1, <2>2, DebtFacts DEF BlockInTime, InTime
      <2> QED BY <2>2, <2>3
<1>4. ASSUME NEW b \in Blocks, block'[b].state = "deleted"
      PROVE  block'[b].purgeRawAfter # Never
      BY <1>2, <1>4 DEF Expired, BlocksInTime
<1> QED BY <1>2, <1>3, <1>4 DEF BlocksInTime

LEMMA FinishInTime ==
    ASSUME TypeInv, MessagesInTime, NEW i \in Ingests, IngestFinish(i)
    PROVE  MessagesInTime'
<1>1. PICK m \in Messages : m = ingest[i].id
      BY Owned DEF IngestFinish
<1>2. msg' = [msg EXCEPT ![m] = [@ EXCEPT !.status = "PROCESSED"]]
      BY <1>1 DEF IngestFinish
<1>3. UNCHANGED <<now, since, sweep, faults, sent>>
      BY DEF IngestFinish, history
<1>4. \A k \in Messages :
          /\ msg'[k].text = msg[k].text /\ msg'[k].scrubbed = msg[k].scrubbed
          /\ msg'[k].media = msg[k].media /\ msg'[k].purgeAfter = msg[k].purgeAfter
          /\ msg'[k].createdAt = msg[k].createdAt
          /\ Stored(k) => Stored(k)'
      <2>1. msg'[m] = [msg[m] EXCEPT !.status = "PROCESSED"]
            BY <1>2 DEF TypeInv, TypeOK
      <2>2. \A k \in Messages \ {m} : msg'[k] = msg[k]
            BY <1>2 DEF TypeInv, TypeOK
      <2>3. msg[m] \in MessageRow
            BY DEF TypeInv, TypeOK
      <2> QED BY <2>1, <2>2, <2>3 DEF MessageRow, Stored
<1> QED BY <1>3, <1>4, MessagesKept DEF TypeInv, ClockMoves, Content

LEMMA RetentionStep == IInv /\ [Next]_vars => MessagesInTime' /\ BlocksInTime'
<1> SUFFICES ASSUME IInv, [Next]_vars PROVE MessagesInTime' /\ BlocksInTime'
    OBVIOUS
<1>1. TypeInv /\ TypeOK /\ MessagesInTime /\ BlocksInTime
      BY DEF IInv, TypeInv
<1>2. ASSUME UNCHANGED <<msg, sent>>, ClockMoves \/ SweepBlocks
      PROVE  MessagesInTime'
      BY <1>1, <1>2, MessagesKept DEF Stored
<1>3. ASSUME NEW i \in Ingests, Ingest(i) \/ IngestFails(i)
      PROVE  MessagesInTime' /\ BlocksInTime'
      <2>1. CASE IngestStore(i)
            <3>1. ClockMoves /\ UNCHANGED block
                  BY <2>1 DEF IngestStore, ClockMoves
            <3> QED BY <1>1, <2>1, <3>1, StoreInTime, BlocksKept
      <2>2. CASE IngestFinish(i)
            <3>1. ClockMoves /\ UNCHANGED block
                  BY <2>2 DEF IngestFinish, ClockMoves
            <3> QED BY <1>1, <2>2, <3>1, FinishInTime, BlocksKept
      <2>3. CASE ~IngestStore(i) /\ ~IngestFinish(i)
            <3>1. UNCHANGED <<msg, sent, block>> /\ ClockMoves
                  BY <1>3, <2>3 DEF Ingest, IngestCheck, IngestExtract, IngestCreate,
                     IngestReject, IngestFails, ClockMoves, history
            <3> QED BY <1>1, <1>2, <3>1, BlocksKept
      <2> QED BY <2>1, <2>2, <2>3
<1>4. ASSUME NEW b \in Blocks, AddBlock(b)
      PROVE  MessagesInTime' /\ BlocksInTime'
      <2>1. UNCHANGED <<msg, sent>> /\ ClockMoves
            BY <1>4 DEF AddBlock, ClockMoves, history
      <2> QED BY <1>1, <1>2, <1>4, <2>1, AddBlockInTime
<1>5. CASE SweepMessages
      <2>1. UNCHANGED block
            BY <1>5 DEF SweepMessages
      <2> QED BY <1>1, <1>5, <2>1, SweepMessagesInTime, BlocksKept
<1>6. CASE SweepBlocks
      <2>1. UNCHANGED <<msg, sent>>
            BY <1>6 DEF SweepBlocks, history
      <2> QED BY <1>1, <1>2, <1>6, <2>1, SweepBlocksInTime
<1>7. CASE SweepStart \/ SweepFails \/ Restart \/ Tick
      <2>1. UNCHANGED <<msg, sent, block>> /\ ClockMoves
            BY <1>7 DEF SweepStart, SweepFails, Restart, Tick, ClockMoves, history
      <2> QED BY <1>1, <1>2, <2>1, BlocksKept
<1>8. CASE ChangeChild \/ UNCHANGED vars
      <2>1. UNCHANGED <<msg, sent, block>> /\ ClockMoves
            BY <1>8 DEF ChangeChild, vars, ClockMoves, history
      <2> QED BY <1>1, <1>2, <2>1, BlocksKept
<1> QED BY <1>3, <1>4, <1>5, <1>6, <1>7, <1>8 DEF Next

LEMMA RetentionInit == Init => MessagesInTime /\ BlocksInTime
BY DEF Init, MessagesInTime, BlocksInTime, NoMessage, NoBlock, Content

LEMMA Invariance == Spec => []IInv
<1>1. Init => IInv
      BY TypeInit, RetentionInit DEF IInv
<1>2. IInv /\ [Next]_vars => IInv'
      BY TypeStep, RetentionStep DEF IInv
<1> QED BY <1>1, <1>2, PTL DEF Spec

LEMMA InTimeIsNotOverdue ==
    ASSUME TypeOK, NEW at \in Int, NEW taking, InTime(at, taking)
    PROVE  ~Overdue(at)
BY DebtFacts DEF InTime, Overdue

-----------------------------------------------------------------------------
(* Theorems.                                                               *)

\* Every reachable state is well typed: no message gets more tasks and events
\* than were extracted, no counter runs away.
THEOREM RetentionTypes == Spec => []TypeOK
<1>1. IInv => TypeOK
      BY DEF IInv, TypeInv
<1> QED BY <1>1, Invariance, PTL

\* However many ingestions overlap, fail and are cut off by restarts, a
\* message marked PROCESSED has all its tasks and events.
THEOREM ProcessedComplete == Spec => []ProcessedIsComplete
<1>1. IInv => ProcessedIsComplete
      BY DEF IInv, TypeInv
<1> QED BY <1>1, Invariance, PTL

\* Words and photo of a message that came with words are gone at the latest
\* one interval after they are due, and one more per failure and restart.
THEOREM MessagesArePurged == Spec => []RetentionBound
<1>1. IInv => RetentionBound
      <2> SUFFICES ASSUME IInv, NEW m \in Messages, sent[m].words, Content(msg[m])
                   PROVE  ~Overdue(msg[m].purgeAfter) \/ ~Overdue(msg[m].createdAt)
          BY DEF RetentionBound
      <2>1. MessageInTime(msg[m].purgeAfter) \/ MessageInTime(msg[m].createdAt)
            BY DEF IInv, MessagesInTime
      <2> QED BY <2>1, RowFields, InTimeIsNotOverdue DEF IInv, TypeInv, MessageInTime
<1> QED BY <1>1, Invariance, PTL

\* The same bound for availability blocks with a raw source; blocks without
\* one are never taken.
THEOREM BlocksArePurged == Spec => []BlockRetention
<1>1. IInv => BlockRetention
      <2> SUFFICES ASSUME IInv, NEW b \in Blocks
                   PROVE  /\ block[b].state = "stored" /\ block[b].purgeRawAfter # Never =>
                                 ~Overdue(block[b].purgeRawAfter)
                          /\ block[b].state = "deleted" => block[b].purgeRawAfter # Never
          BY DEF BlockRetention
      <2>1. block[b].state = "deleted" => block[b].purgeRawAfter # Never
            BY DEF IInv, BlocksInTime
      <2>2. block[b].state = "stored" /\ block[b].purgeRawAfter # Never =>
                BlockInTime(block[b].purgeRawAfter)
            BY DEF IInv, BlocksInTime
      <2> QED BY <2>1, <2>2, BlockFields, InTimeIsNotOverdue DEF IInv, TypeInv, BlockInTime
<1> QED BY <1>1, Invariance, PTL
=============================================================================
