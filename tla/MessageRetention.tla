-------------------------- MODULE MessageRetention --------------------------
(***************************************************************************)
(* Inbound messages and their raw content: the ingestion pipeline of       *)
(* IngestionService, one action per awaited statement; availability blocks *)
(* entered from text or screenshots; and the purge sweep that SchedulerService *)
(* starts every hour, counted from the start of the process (the in-memory *)
(* queue is a setInterval).  Statements fail, and the process restarts.    *)
(***************************************************************************)
EXTENDS Integers

CONSTANTS
    Messages,     \* ids a RawMessage row may get
    Blocks,       \* ids an AvailabilityBlock row may get
    Ingests,      \* slots for ingestions in flight
    None,         \* no message
    Skews,        \* receivedAt - now, as callers send it
    PurgeAfter,   \* hours raw content is kept (24 in the code)
    SweepEvery,   \* hours between two sweeps (1 in the code)
    MaxDrafts,    \* bound: tasks and events extracted from one message
    MaxTime,      \* bound: the clock, in hours
    MaxFaults     \* bound: failing statements and restarts

Never == -1       \* purgeRawAfter NULL
Times == 0..MaxTime

ASSUME NoneIsNoMessage == None \notin Messages
ASSUME HoursAreNumbers ==
    /\ PurgeAfter \in Nat \ {0} /\ SweepEvery \in Nat \ {0}
    /\ MaxDrafts \in Nat /\ MaxTime \in Nat /\ MaxFaults \in Nat
    /\ Skews \subseteq Int

VARIABLES
    now,       \* the clock
    child,     \* a DEPENDENT member whose name messages mention exists
    msg,       \* RawMessage rows
    block,     \* AvailabilityBlock rows
    ingest,    \* ingestions in flight: the next statement (pc) and the locals
    sweep,     \* the next statement of the purge sweep, or "idle"
    since,     \* hours since the interval last fired, or since the start
    faults,    \* failures so far
    \* History, read by no handler:
    sent,      \* what arrived, per row
    drafts,    \* tasks and events the model extracted from the message
    made       \* tasks and events created for it

history == <<sent, drafts, made>>
vars == <<now, child, msg, block, ingest, sweep, since, faults, history>>

\* A payload: does it have words, words the scrubber masks, a photo, the
\* child's name?
Payload == {p \in [words : BOOLEAN, pii : BOOLEAN, photo : BOOLEAN, minor : BOOLEAN] :
              p.pii \/ p.minor => p.words}
NoPayload == [words |-> FALSE, pii |-> FALSE, photo |-> FALSE, minor |-> FALSE]

\* rawText # '', scrubbedText holds words, tokenMap holds originals, mediaUrl set.
MessageRow == [status : {"absent", "PROCESSING", "PROCESSED"},
               text : BOOLEAN, scrubbed : BOOLEAN, tokens : BOOLEAN, media : BOOLEAN,
               receivedAt : Int, purgeAfter : Int, createdAt : Times]
BlockRow == [state : {"absent", "stored", "deleted"}, purgeRawAfter : Int]
Steps == {"idle", "store", "extract", "create", "finish"}
InFlight == [pc : Steps, body : Payload, strip : BOOLEAN,
             id : Messages \cup {None}, left : 0..MaxDrafts, bad : 0..MaxDrafts]

NoMessage == [status |-> "absent", text |-> FALSE, scrubbed |-> FALSE, tokens |-> FALSE,
              media |-> FALSE, receivedAt |-> 0, purgeAfter |-> 0, createdAt |-> 0]
NoBlock == [state |-> "absent", purgeRawAfter |-> Never]
Idle == [pc |-> "idle", body |-> NoPayload, strip |-> FALSE,
         id |-> None, left |-> 0, bad |-> 0]

Stored(m) == msg[m].status # "absent"

TypeOK ==
    /\ now \in Times
    /\ child \in BOOLEAN
    /\ msg \in [Messages -> MessageRow]
    /\ block \in [Blocks -> BlockRow]
    /\ ingest \in [Ingests -> InFlight]
    /\ sweep \in {"idle", "messages", "blocks"}
    /\ since \in 0..SweepEvery
    /\ faults \in 0..MaxFaults
    /\ sent \in [Messages -> Payload]
    /\ drafts \in [Messages -> 0..MaxDrafts]
    /\ made \in [Messages -> 0..MaxDrafts]

Init ==
    /\ now = 0
    /\ child \in BOOLEAN
    /\ msg = [m \in Messages |-> NoMessage]
    /\ block = [b \in Blocks |-> NoBlock]
    /\ ingest = [i \in Ingests |-> Idle]
    /\ sweep = "idle"
    /\ since = 0
    /\ faults = 0
    /\ sent = [m \in Messages |-> NoPayload]
    /\ drafts = [m \in Messages |-> 0]
    /\ made = [m \in Messages |-> 0]

-----------------------------------------------------------------------------
(* POST /ingestion/message and /ingestion/webhook.                         *)

Goto(i, next) == ingest' = [ingest EXCEPT ![i] = next]

\* mentionsMinor: the DEPENDENT rows are read before anything is written.
\* Bound: a message arrives while a row is left for it.
IngestCheck(i) ==
    /\ ingest[i].pc = "idle"
    /\ \E m \in Messages : ~Stored(m)
    /\ \E p \in Payload :
        Goto(i, [Idle EXCEPT !.pc = "store", !.body = p, !.strip = child /\ p.minor])
    /\ UNCHANGED <<now, child, msg, block, sweep, since, faults, history>>

\* rawMessage.create with everything that arrived, and what scrub made of it.
IngestStore(i) ==
    LET p == ingest[i].body
    IN  /\ ingest[i].pc = "store"
        /\ \E m \in Messages, skew \in Skews :
            /\ ~Stored(m)
            /\ msg' = [msg EXCEPT ![m] =
                 [status |-> "PROCESSING",
                  text |-> p.words, scrubbed |-> p.words, tokens |-> p.pii,
                  media |-> p.photo /\ ~ingest[i].strip,
                  receivedAt |-> now + skew,
                  purgeAfter |-> now + skew + PurgeAfter,
                  createdAt |-> now]]
            /\ sent' = [sent EXCEPT ![m] = p]
            /\ Goto(i, [ingest[i] EXCEPT !.pc = "extract", !.id = m])
        /\ UNCHANGED <<now, child, block, sweep, since, faults, drafts, made>>

\* The model answers; one draft may have a date that is no date (bad counts
\* drafts from the last one, 0: all are usable).
IngestExtract(i) ==
    /\ ingest[i].pc = "extract"
    /\ \E n \in 0..MaxDrafts : \E bad \in 0..n :
        /\ drafts' = [drafts EXCEPT ![ingest[i].id] = n]
        /\ Goto(i, [ingest[i] EXCEPT !.pc = IF n = 0 THEN "finish" ELSE "create",
                                     !.left = n, !.bad = bad])
    /\ UNCHANGED <<now, child, msg, block, sweep, since, faults, sent, made>>

\* Mutant: a draft that was created is created again.
IngestCreateAgain(i) ==
    /\ ingest[i].pc = "create"
    /\ ingest[i].left # ingest[i].bad
    /\ made' = [made EXCEPT ![ingest[i].id] = @ + 1]
    /\ UNCHANGED <<now, child, msg, block, ingest, sweep, since, faults, sent, drafts>>

\* tasks.create or event.create for the next draft.
IngestCreate(i) ==
    /\ ingest[i].pc = "create"
    /\ ingest[i].left # ingest[i].bad
    /\ made' = [made EXCEPT ![ingest[i].id] = @ + 1]
    /\ Goto(i, [ingest[i] EXCEPT !.left = @ - 1,
                                 !.pc = IF ingest[i].left = 1 THEN "finish" ELSE "create"])
    /\ UNCHANGED <<now, child, msg, block, sweep, since, faults, sent, drafts>>

\* Mutant: an unusable draft ends the loop and the message is finished.
IngestRejectSkips(i) ==
    /\ ingest[i].pc = "create"
    /\ ingest[i].left = ingest[i].bad
    /\ Goto(i, [ingest[i] EXCEPT !.left = 0, !.pc = "finish"])
    /\ UNCHANGED <<now, child, msg, block, sweep, since, faults, history>>

\* The insert of a draft with an unusable date throws; nobody catches it.
IngestReject(i) ==
    /\ ingest[i].pc = "create"
    /\ ingest[i].left = ingest[i].bad
    /\ Goto(i, Idle)
    /\ UNCHANGED <<now, child, msg, block, sweep, since, faults, history>>

\* Mutant: the last update saves the whole row the handler still holds.
IngestFinishSavesRow(i) ==
    LET p == ingest[i].body
    IN  /\ ingest[i].pc = "finish"
        /\ msg' = [msg EXCEPT ![ingest[i].id].status = "PROCESSED",
                              ![ingest[i].id].text = p.words,
                              ![ingest[i].id].scrubbed = p.words]
        /\ Goto(i, Idle)
        /\ UNCHANGED <<now, child, block, sweep, since, faults, history>>

IngestFinish(i) ==
    /\ ingest[i].pc = "finish"
    /\ msg' = [msg EXCEPT ![ingest[i].id].status = "PROCESSED"]
    /\ Goto(i, Idle)
    /\ UNCHANGED <<now, child, block, sweep, since, faults, history>>

IngestFails(i) ==
    /\ ingest[i].pc # "idle"
    /\ faults < MaxFaults
    /\ faults' = faults + 1
    /\ Goto(i, Idle)
    /\ UNCHANGED <<now, child, msg, block, sweep, since, history>>

-----------------------------------------------------------------------------
(* Availability blocks and members.                                        *)

\* addBlocks: NL_TEXT and SCREENSHOT_OCR sources get a purge time, a Sunday
\* check-in none.  The blocks of one call do not depend on each other.
AddBlock(b) ==
    /\ block[b].state = "absent"
    /\ \E raw \in BOOLEAN :
        block' = [block EXCEPT ![b] =
            [state |-> "stored", purgeRawAfter |-> IF raw THEN now + PurgeAfter ELSE Never]]
    /\ UNCHANGED <<now, child, msg, ingest, sweep, since, faults, history>>

\* A dependent joins the household, or leaves it.
ChangeChild ==
    /\ child' = ~child
    /\ UNCHANGED <<now, msg, block, ingest, sweep, since, faults, history>>

-----------------------------------------------------------------------------
(* The purge sweep and the interval that starts it.                        *)

SweepStart ==
    /\ sweep = "idle"
    /\ since = SweepEvery
    /\ sweep' = "messages"
    /\ since' = 0
    /\ UNCHANGED <<now, child, msg, block, ingest, faults, history>>

Blanked(row) == [row EXCEPT !.text = FALSE, !.scrubbed = FALSE, !.media = FALSE]

\* where: {purgeAfter: {lte: now}, rawText: {not: ''}}
Due(row) == row.status # "absent" /\ row.text /\ row.purgeAfter <= now

\* tokenMap: undefined leaves the column as it is.
SweepMessages ==
    /\ sweep = "messages"
    /\ msg' = [m \in Messages |-> IF Due(msg[m]) THEN Blanked(msg[m]) ELSE msg[m]]
    /\ sweep' = "blocks"
    /\ UNCHANGED <<now, child, block, ingest, since, faults, history>>

\* Mutant: Sunday check-in blocks, with no purge time, are deleted too.
ExpiredOrNull(row) == row.state = "stored" /\ row.purgeRawAfter <= now

Expired(row) ==
    row.state = "stored" /\ row.purgeRawAfter # Never /\ row.purgeRawAfter <= now

SweepBlocks ==
    /\ sweep = "blocks"
    /\ block' = [b \in Blocks |-> IF Expired(block[b])
                                  THEN [block[b] EXCEPT !.state = "deleted"] ELSE block[b]]
    /\ sweep' = "idle"
    /\ UNCHANGED <<now, child, msg, ingest, since, faults, history>>

\* A statement of the sweep throws; the queue logs it and waits an hour.
SweepFails ==
    /\ sweep # "idle"
    /\ faults < MaxFaults
    /\ faults' = faults + 1
    /\ sweep' = "idle"
    /\ UNCHANGED <<now, child, msg, block, ingest, since, history>>

\* The process stops and starts: handlers die, the interval begins anew.
Restart ==
    /\ faults < MaxFaults
    /\ faults' = faults + 1
    /\ ingest' = [i \in Ingests |-> Idle]
    /\ sweep' = "idle"
    /\ since' = 0
    /\ UNCHANGED <<now, child, msg, block, history>>

\* An hour passes.  The interval fires on time and a sweep takes less than
\* an hour; an ingestion may take any time.
Tick ==
    /\ now < MaxTime
    /\ since < SweepEvery /\ sweep = "idle"
    /\ now' = now + 1
    /\ since' = since + 1
    /\ UNCHANGED <<child, msg, block, ingest, sweep, faults, history>>

-----------------------------------------------------------------------------
Ingest(i) ==
    \/ IngestCheck(i) \/ IngestStore(i) \/ IngestExtract(i)
    \/ IngestCreate(i) \/ IngestReject(i) \/ IngestFinish(i)

Next ==
    \/ \E i \in Ingests : Ingest(i) \/ IngestFails(i)
    \/ \E b \in Blocks : AddBlock(b)
    \/ SweepStart \/ SweepMessages \/ SweepBlocks \/ SweepFails
    \/ ChangeChild \/ Restart \/ Tick

Spec == Init /\ [][Next]_vars
-----------------------------------------------------------------------------
(* Properties.                                                             *)

\* Hours a row may outlive its retention: one interval, and one more for
\* every sweep that failed and every restart that set the interval back.
Grace == SweepEvery * (faults + 1)
Overdue(at) == now > at + Grace

Content(row) == row.text \/ row.scrubbed \/ row.media

\* "A 24h purge sweep blanks raw message text/media" (README 37), with its
\* real bound: words and photo of a message that came with words are gone at
\* the latest one grace after purgeAfter, or after the row was inserted if it
\* came with an old receivedAt, whether or not its ingestion ever finished
\* and whatever that ingestion writes after the sweep.
RetentionBound ==
    \A m \in Messages :
        sent[m].words /\ Content(msg[m]) =>
            ~Overdue(msg[m].purgeAfter) \/ ~Overdue(msg[m].createdAt)

\* "... and deletes raw availability source" (README 37-38): the same bound
\* for the blocks, and no sweep takes a block that has no raw source.
BlockRetention ==
    \A b \in Blocks :
        /\ block[b].state = "stored" /\ block[b].purgeRawAfter # Never =>
               ~Overdue(block[b].purgeRawAfter)
        /\ block[b].state = "deleted" => block[b].purgeRawAfter # Never

\* A message is PROCESSED only when every task and event extracted from it
\* exists, whatever failed and whenever the process restarted (78-113).
ProcessedIsComplete ==
    \A m \in Messages : msg[m].status = "PROCESSED" => made[m] = drafts[m]

\* "Original value (kept only where retention policy allows)" (entities.ts
\* 171): the originals in tokenMap are gone after the retention.
OriginalsArePurged ==
    \A m \in Messages :
        msg[m].tokens => ~Overdue(msg[m].purgeAfter) \/ ~Overdue(msg[m].createdAt)

=============================================================================
