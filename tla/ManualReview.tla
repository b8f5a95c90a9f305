---------------------------- MODULE ManualReview ----------------------------
(* The review of remembered atoms against the documents the user keeps by   *)
(* hand (operations/retention.py).  A review reads the stored record, asks   *)
(* the model about a batch of atoms, checks that the documents are still the *)
(* ones it read, and commits with a compare-and-swap on the record; chat     *)
(* turns, the bridge and the dashboard may run several at once, while atoms   *)
(* come and go and the user edits the documents.                             *)
(* An atom's id stands for its assertion, its evidence and its entity; the    *)
(* documents stand for their revision.  Named bounds: MaxEdits, and a model   *)
(* that is right whenever it is certain.                                      *)
EXTENDS Integers, FiniteSets, FiniteSetsExt

CONSTANTS Atoms, Docs, Blank, Reviewers,
          Contradicts,   \* [Docs -> SUBSET Atoms]: mutually exclusive facts
          Repeats,       \* [Docs -> SUBSET Atoms]: the same line, word for word
          MaxAtoms, BatchSize, MaxAttempts, MaxEdits

ReviewAssumption ==
    /\ Blank \in Docs => Contradicts[Blank] \cup Repeats[Blank] = {}
    /\ \A d \in Docs : Contradicts[d] \cap Repeats[d] = {}
    /\ {MaxAtoms, BatchSize, MaxAttempts} \subseteq Nat \ {0} /\ MaxEdits \in Nat

VARIABLES live, known,      \* active atoms, and every atom there ever was
          doc, edits,       \* the documents on disk
          record,           \* both meta rows: the record and the recall policy
          cand,             \* conflict candidates there are: <<revision, atom>>
          review,           \* what each running review holds in memory
          waiting           \* atoms whose deferral has not expired

reviewVars == <<live, known, doc, edits, record, cand, review, waiting>>
Idle == [at |-> "idle"]
NoRecord == [revision |-> "none", checked |-> {}, attempts |-> [a \in Atoms |-> 0], uncertain |-> {},
             duplicates |-> {}, blocked |-> {}, status |-> "not_checked"]

Init == /\ live = {} /\ known = {} /\ doc \in Docs /\ edits = 0 /\ record = NoRecord
        /\ cand = {} /\ review = [r \in Reviewers |-> Idle] /\ waiting = {}
----------------------------------------------------------------------------
(* The rest of the system. *)
Promote(a) == /\ a \notin known /\ known' = known \cup {a} /\ live' = live \cup {a}
              /\ UNCHANGED <<doc, edits, record, cand, review, waiting>>
Deprecate(a) == /\ a \in live /\ live' = live \ {a}
                /\ UNCHANGED <<known, doc, edits, record, cand, review, waiting>>
EditDocuments(d) == /\ d # doc /\ edits < MaxEdits /\ doc' = d /\ edits' = edits + 1
                    /\ UNCHANGED <<live, known, record, cand, review, waiting>>
(* A deferred comparison may be tried again after an hour.                  *)
Expire(a) == /\ a \in waiting /\ waiting' = waiting \ {a}
             /\ UNCHANGED <<live, known, doc, edits, record, cand, review>>
----------------------------------------------------------------------------
(* What a review takes over from the record: the comparisons only from the  *)
(* same revision, the recall policy always.                                 *)
CarriedAlways(d) == record
Carried(d) == IF record.revision = d THEN record ELSE [NoRecord EXCEPT !.blocked = record.blocked]

(* list_atoms, minus what was checked or is deferred, up to max_atoms; an    *)
(* empty document contradicts nothing and asks nobody.                       *)
Asked(selected) == IF doc = Blank THEN {} ELSE selected \ Repeats[doc]

Start(r) ==
    /\ review[r].at = "idle"
    /\ LET unseen == {a \in live \ Carried(doc).checked : Carried(doc).attempts[a] = 0 \/ a \notin waiting}
           size == Min({MaxAtoms, Cardinality(unseen)})
       IN \E selected \in kSubset(size, unseen) :
            review' = [review EXCEPT ![r] =
                [at |-> IF Asked(selected) = {} THEN "check" ELSE "compare", rev |-> doc, observed |-> record, prior |-> Carried(doc), atoms |-> live,
                 selected |-> selected, failed |-> {}, status |-> "complete",
                 matched |-> [a \in selected \ Asked(selected) |-> IF doc = Blank THEN "unrelated" ELSE "duplicate"]]]
    /\ UNCHANGED <<live, known, doc, edits, record, cand, waiting>>

Verdicts(d, a) == {"uncertain", IF a \in Contradicts[d] THEN "conflict"
                                ELSE IF a \in Repeats[d] THEN "duplicate" ELSE "unrelated"}
Matched(v, a) == IF a \in DOMAIN v.matched THEN v.matched[a] ELSE "none"
With(v, batch, verdict) == [a \in DOMAIN v.matched \cup batch |-> IF a \in batch THEN verdict[a] ELSE v.matched[a]]
Pending(v) == v.selected \ DOMAIN v.matched
Batches(v) == kSubset(Min({BatchSize, Cardinality(Pending(v))}), Pending(v))

(* The model answers for one batch.                                         *)
Compare(r) ==
    LET v == review[r] IN
    /\ v.at = "compare"
    /\ \E batch \in Batches(v) :
         \E verdict \in [batch -> {"uncertain", "conflict", "duplicate", "unrelated"}] :
           /\ \A a \in batch : verdict[a] \in Verdicts(v.rev, a)
           /\ review' = [review EXCEPT ![r].matched = With(v, batch, verdict),
                                       ![r].at = IF batch = Pending(v) THEN "check" ELSE @]
    /\ UNCHANGED <<live, known, doc, edits, record, cand, waiting>>

(* A call that fails, or an answer that does not verify, ends the comparing: *)
(* its atoms are deferred, the third time given up as uncertain.             *)
DeferredAnew(v, batch) == [a \in Atoms |-> IF a \in batch THEN 1 ELSE v.prior.attempts[a]]
DeferredBatch(v, batch) == [a \in Atoms |-> IF a \in batch THEN v.prior.attempts[a] + 1 ELSE v.prior.attempts[a]]

CompareFails(r) ==
    LET v == review[r] IN
    /\ v.at = "compare"
    /\ \E batch \in Batches(v) :
         LET attempts == DeferredBatch(v, batch)
             hopeless == {a \in batch : attempts[a] >= MaxAttempts}
         IN review' = [review EXCEPT ![r] =
                [v EXCEPT !.at = "check", !.matched = With(v, hopeless, [a \in hopeless |-> "uncertain"]),
                          !.prior.attempts = [a \in Atoms |-> IF a \in hopeless THEN 0 ELSE attempts[a]],
                          !.failed = batch, !.status = IF hopeless = batch THEN "uncertain" ELSE "failed"]]
    /\ UNCHANGED <<live, known, doc, edits, record, cand, waiting>>

(* is_current, before the transaction.                                      *)
CheckCurrent(r) == /\ review[r].at = "check"
                   /\ review' = [review EXCEPT ![r] = IF doc = @.rev THEN [@ EXCEPT !.at = "commit"] ELSE Idle]
                   /\ UNCHANGED <<live, known, doc, edits, record, cand, waiting>>
----------------------------------------------------------------------------
(* The transaction. *)
Unswapped(v) == TRUE
Swaps(v) == record = v.observed

ReRead(v) == {a \in DOMAIN v.matched : a \in live}
Refuted(v) == {a \in ReRead(v) : v.matched[a] = "conflict" /\ <<v.rev, a>> \notin cand}

Report(v, checked, uncertain) ==
    IF v.status = "complete" /\ uncertain # {} THEN "uncertain"
    ELSE IF v.status = "complete" /\ v.atoms \ checked # {} THEN "partial" ELSE v.status

NewRecord(v) ==
    LET checked == v.prior.checked \cup ReRead(v)
        uncertain == {a \in v.prior.uncertain : a \notin DOMAIN v.matched /\ a \in checked \cap v.atoms}
                     \cup {a \in DOMAIN v.matched : v.matched[a] = "uncertain" /\ a \in checked}
    IN [revision |-> v.rev, checked |-> checked, uncertain |-> uncertain,
        attempts |-> [a \in Atoms |-> IF a \in checked THEN 0 ELSE v.prior.attempts[a]],
        duplicates |-> v.prior.duplicates \cup {a \in ReRead(v) : v.matched[a] = "duplicate"},
        blocked |-> v.prior.blocked \cup Refuted(v),
        status |-> Report(v, checked, uncertain)]

Commit(r) ==
    LET v == review[r] IN
    /\ v.at = "commit"
    /\ review' = [review EXCEPT ![r] = Idle]
    /\ IF Swaps(v)
       THEN /\ live' = live \ Refuted(v)
            /\ cand' = cand \cup {<<v.rev, a>> : a \in Refuted(v)}
            /\ record' = NewRecord(v)
            /\ waiting' = {a \in waiting \cup v.failed : NewRecord(v).attempts[a] > 0}
       ELSE UNCHANGED <<live, cand, record, waiting>>
    /\ UNCHANGED <<known, doc, edits>>

ReviewStep(r) == Start(r) \/ Compare(r) \/ CompareFails(r) \/ CheckCurrent(r) \/ Commit(r)
Next == \/ \E a \in Atoms : Promote(a) \/ Deprecate(a) \/ Expire(a)
        \/ \E d \in Docs : EditDocuments(d)
        \/ \E r \in Reviewers : ReviewStep(r)

(* The host drains a batch after every save, and deferrals expire.          *)
Fairness == /\ \A r \in Reviewers : WF_reviewVars(ReviewStep(r))
            /\ \A a \in Atoms : WF_reviewVars(Expire(a))
Spec == Init /\ [][Next]_reviewVars /\ Fairness
----------------------------------------------------------------------------
(* manual_document_review_status: the report, corrected by what is live now. *)
ReviewStatus ==
    LET unchecked == live \ record.checked
        unverified == live \cap record.uncertain \cap record.checked
        status == IF unchecked # {} /\ record.status = "complete" THEN "partial" ELSE record.status
    IN IF record.revision = "none" THEN "not_checked"
       ELSE IF record.revision # doc THEN "stale"
       ELSE IF unverified # {} THEN (IF status = "complete" THEN "uncertain" ELSE status)
       ELSE IF status = "uncertain" THEN (IF unchecked # {} THEN "partial" ELSE "complete")
       ELSE status

(* The evidence of every atom a review retired stays out of recall, however *)
(* many reviews ran at once and whatever the documents say since.           *)
RefutedStaysBlocked == \A c \in cand : c[2] \in record.blocked

(* When the user is told that the review of the documents is complete, no   *)
(* active atom contradicts them.                                            *)
CompleteIsTrue == ReviewStatus = "complete" => live \cap Contradicts[doc] = {}

(* However often the model fails, a review that keeps being run comes to an *)
(* end: everything is compared, or reported as uncertain.                   *)
ReviewEnds == []<>(ReviewStatus \in {"complete", "uncertain"})
============================================================================
