------------------------------- MODULE Extraction -------------------------------
(* packages/core/src/extraction/extractor.ts: the model's reply made fit to     *)
(* store.  A raw draft is a record whose fields hold a usable value, Null (also *)
(* for one of a wrong type) or something out of range; confidence is in percent. *)
(* Events go through the same steps with startsAt in the place of dueAt and no  *)
(* category: tasks stand for both.                                              *)
EXTENDS CoreTime, SequencesExt

CONSTANTS Titles,      \* trimmed titles as written, "" among them
          Lower(_)     \* the title in lower case

Categories == {"LOGISTICS", "SCHOOL", "ERRAND", "ADMIN",
               "EVENT", "MAINTENANCE", "SEASONAL", "WELLNESS"}
ExtractUrgencies == {"LOW", "MED", "HIGH", "CRITICAL"}

NormalizeUrgency(value) == IF value \in ExtractUrgencies THEN value ELSE "MED"
NormalizeCategory(value) == IF value \in Categories THEN value ELSE "ADMIN"
NormalizeConfidence(value) == IF value = Null THEN 0 ELSE Clamp(value, 0, 100)
NormalizeTitle(value) == IF value = Null THEN "" ELSE value
NormalizeAge(value) == IF value # Null /\ value >= 0 THEN value ELSE Null

NormalizeTask(raw) ==
    [title |-> NormalizeTitle(raw.title), urgency |-> NormalizeUrgency(raw.urgency),
     category |-> NormalizeCategory(raw.category), dueAt |-> raw.dueAt,
     minAge |-> NormalizeAge(raw.minAge), confidence |-> NormalizeConfidence(raw.confidence)]

\* Two drafts with one key are the same task.
TaskKey(t) == <<Lower(t.title), t.dueAt, t.category>>

\* A broken form of the next definition: the last one wins.
SupersedesAlways(t, u) == TRUE

\* A later draft replaces an earlier one of its key only with more confidence.
Supersedes(t, u) == t.confidence > u.confidence

\* What one more draft makes of those kept so far.
KeepDraft(kept, raw, minConfidence, dropEmpty) ==
    LET t == NormalizeTask(raw)
        same == {i \in DOMAIN kept : TaskKey(kept[i]) = TaskKey(t)}
        first == CHOOSE j \in same : TRUE
    IN  IF (dropEmpty /\ t.title = "") \/ t.confidence < minConfidence THEN kept
        ELSE IF same = {} THEN Append(kept, t)
        ELSE IF Supersedes(t, kept[first]) THEN [kept EXCEPT ![first] = t] ELSE kept

\* The kept drafts in the order their keys first appear.
PostProcess(drafts, minConfidence, dropEmpty) ==
    FoldLeft(LAMBDA kept, raw : KeepDraft(kept, raw, minConfidence, dropEmpty), <<>>, drafts)

-----------------------------------------------------------------------------
\* What is stored is well formed whatever the model wrote; every task the model
\* named with enough confidence is kept exactly once, at the best confidence it
\* was given; a second pass changes nothing.
KeepsTheBest(drafts, minConfidence, kept) ==
    LET named == {NormalizeTask(drafts[i]) : i \in DOMAIN drafts}
        good == {t \in named : t.title # "" /\ t.confidence >= minConfidence}
    IN  /\ \A t \in good : \E i \in DOMAIN kept :
              TaskKey(kept[i]) = TaskKey(t) /\ kept[i].confidence >= t.confidence
        /\ \A i, j \in DOMAIN kept : i # j => TaskKey(kept[i]) # TaskKey(kept[j])
        /\ ToSet(kept) \subseteq good
        /\ PostProcess(kept, minConfidence, TRUE) = kept
=============================================================================
