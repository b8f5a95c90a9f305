----------------------------- MODULE DirtyQueue -----------------------------
(***************************************************************************)
(* Which dirty pages get a turn.  regenerate_dirty is called again and     *)
(* again by the host (after an extraction, by `memory page regen --dirty', *)
(* from a cron): each call lists at most `limit' dirty pages and works     *)
(* through all of them, whatever happens to each.  The list puts pages     *)
(* that were never regenerated first, then the oldest last_regen_at, and   *)
(* orders the former by updated_at, which every write of the row refreshes.*)
(*                                                                         *)
(* Timestamps are abstracted to their order: byUpdate and byRegen list the *)
(* pages from the oldest to the newest updated_at and last_regen_at.       *)
(***************************************************************************)
EXTENDS Naturals, Sequences, SequencesExt

CONSTANTS
    Pages,     \* entities that have a page
    Hopeless,  \* pages whose generation fails every time (refused, unparsable)
    Limit,     \* the limit of list_dirty_entity_pages
    MaxMarks   \* bound: how many times writers mark a page

QueueAssumption ==
    /\ Hopeless \subseteq Pages /\ IsFiniteSet(Pages)
    /\ Limit \in Nat \ {0} /\ MaxMarks \in Nat

VARIABLES
    dirty,     \* dirty[p]: the dirty column
    byRegen,   \* the pages with a last_regen_at, oldest first
    byUpdate,  \* all pages by updated_at, oldest first
    batch,     \* what the running regenerate_dirty has still to process
    working,   \* its head is being generated, from a snapshot taken before
    stale,     \* the head was marked since that snapshot
    marks      \* marks made so far

vars == <<dirty, byRegen, byUpdate, batch, working, stale, marks>>

FirstN(s, n) == SubSeq(s, 1, IF Len(s) < n THEN Len(s) ELSE n)

ToEnd(s, p) == Append(SelectSeq(s, LAMBDA x : x # p), p)

NeverRegenerated(p) == \A i \in DOMAIN byRegen : byRegen[i] # p

(* ORDER BY (last_regen_at IS NULL) DESC, last_regen_at ASC, updated_at    *)
DirtyPages ==
    SelectSeq(byUpdate, LAMBDA p : dirty[p] /\ NeverRegenerated(p))
    \o SelectSeq(byRegen, LAMBDA p : dirty[p])

Init ==
    /\ dirty \in [Pages -> BOOLEAN]
    /\ \E R \in SUBSET Pages :
          /\ \A p \in Pages \ R : dirty[p]
          /\ byRegen \in SetToSeqs(R)
    /\ byUpdate \in SetToSeqs(Pages)
    /\ batch = <<>>
    /\ working = FALSE
    /\ stale = FALSE
    /\ marks = 0

(* A writer marks a page while it is queued, being generated, or idle.     *)
Mark(p) ==
    /\ marks < MaxMarks
    /\ marks' = marks + 1
    /\ dirty' = [dirty EXCEPT ![p] = TRUE]
    /\ byUpdate' = ToEnd(byUpdate, p)
    /\ stale' = (stale \/ (working /\ Head(batch) = p))
    /\ UNCHANGED <<byRegen, batch, working>>

(* A tick: regenerate_dirty lists its batch.                               *)
Tick ==
    /\ batch = <<>>
    /\ batch' = FirstN(DirtyPages, Limit)
    /\ UNCHANGED <<dirty, byRegen, byUpdate, working, stale, marks>>

(* The next page of the batch is read and sent to the model, even if it    *)
(* became clean meanwhile.                                                 *)
Begin ==
    /\ batch # <<>> /\ ~working
    /\ working' = TRUE
    /\ stale' = FALSE
    /\ UNCHANGED <<dirty, byRegen, byUpdate, batch, marks>>

Done ==
    /\ working' = FALSE
    /\ batch' = Tail(batch)

Succeed ==
    /\ working /\ Head(batch) \notin Hopeless
    /\ Done
    /\ IF stale
       THEN UNCHANGED <<dirty, byRegen, byUpdate>>
       ELSE /\ dirty' = [dirty EXCEPT ![Head(batch)] = FALSE]
            /\ byRegen' = ToEnd(byRegen, Head(batch))
            /\ byUpdate' = ToEnd(byUpdate, Head(batch))
    /\ UNCHANGED <<stale, marks>>

(* Mutant: the first failure ends the batch.                               *)
FailEndsBatch ==
    /\ working /\ Head(batch) \in Hopeless
    /\ working' = FALSE
    /\ batch' = <<>>
    /\ byUpdate' = IF stale THEN byUpdate ELSE ToEnd(byUpdate, Head(batch))
    /\ UNCHANGED <<dirty, byRegen, stale, marks>>

(* Mutant: the error escapes before the failure is recorded.               *)
FailEscapes ==
    /\ working /\ Head(batch) \in Hopeless
    /\ working' = FALSE
    /\ batch' = <<>>
    /\ UNCHANGED <<dirty, byRegen, byUpdate, stale, marks>>

(* A recorded failure keeps the page dirty and refreshes updated_at; the   *)
(* batch goes on.                                                          *)
Fail ==
    /\ working /\ Head(batch) \in Hopeless
    /\ Done
    /\ IF stale
       THEN UNCHANGED <<dirty, byUpdate>>
       ELSE /\ dirty' = [dirty EXCEPT ![Head(batch)] = TRUE]
            /\ byUpdate' = ToEnd(byUpdate, Head(batch))
    /\ UNCHANGED <<byRegen, stale, marks>>

Next == (\E p \in Pages : Mark(p)) \/ Tick \/ Begin \/ Succeed \/ Fail

(* Hosts keep calling regenerate_dirty, and each call runs to its end;     *)
(* nothing obliges a writer to mark.                                       *)
Fairness == WF_vars(Tick) /\ WF_vars(Begin) /\ WF_vars(Succeed) /\ WF_vars(Fail)

Spec == Init /\ [][Next]_vars /\ Fairness

-----------------------------------------------------------------------------

(* A page that was never regenerated gets an attempt, though others fail   *)
(* every time and are listed again: each failure sends a page to the end.  *)
NewPageIsAttempted ==
    \A p \in Pages :
        dirty[p] /\ NeverRegenerated(p) ~> working /\ Head(batch) = p

(* A page that can be generated is clean at last, also when as many        *)
(* hopeless pages as a batch has places come before it.  A page that was   *)
(* regenerated once and fails ever since keeps its old last_regen_at, is   *)
(* listed first each time, and breaks this.                                *)
HealthyPageGetsClean ==
    \A p \in Pages \ Hopeless : dirty[p] ~> ~dirty[p]

=============================================================================
