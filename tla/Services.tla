------------------------------ MODULE Services ------------------------------
(* Five models of what hosts and users ask of a namespace, one of which runs *)
(* in each behaviour: `part' says which.  They share no variable and no step. *)
(* AtomStore is there twice, for merges and for the curation of one entity,   *)
(* each with the sessions that take part in it.                               *)
EXTENDS Integers, FiniteSets, Sequences

CONSTANTS
    Atoms, Entities, Events, Queries, Entity, Evidence, Named, Pronoun, Found,
    Current, Vector, Similar(_, _), Cost, Total, Limit, PerEntity, Keep, Ttl,
    MaxEntries, RawPolicies, MaxTime,                        \* Recall
    Names, PackedEntities, PackedAtoms, PackedPages, Owner,
    MaxPacks,                                                \* BundleTransfer
    MergedEntities, CuratedEntities, Texts, Near, Opposite, MergedRanks,
    CuratedRanks, MaxMerged, MaxCurated, MaxCount, Creators, Approvers,
    Replacers, Retirers, Consolidators, Mergers, Fallbacks,  \* AtomStore
    Paths, Pollers, Requests, Kinds, MaxFileEdits, MaxStops  \* HostFiles

VARIABLES
    part,
    live, gone, dirty, vec, demoted, active, now, cache, rawPolicy, reader, shown,
    store, journal, main, packs, packer, adopter, purged,
    atoms, leaf, count, sess,
    files, row, scan, clock, stops

recallVars == <<live, gone, dirty, vec, demoted, active, now, cache, rawPolicy, reader, shown>>
moveVars == <<store, journal, main, packs, packer, adopter, purged>>
atomVars == <<atoms, leaf, count, sess>>
fileVars == <<files, row, scan, clock, stops>>

Find == INSTANCE Recall
Bundle == INSTANCE BundleTransfer WITH gone <- purged, Entities <- PackedEntities,
              Atoms <- PackedAtoms, Pages <- PackedPages
Merge == INSTANCE AtomStore WITH Entities <- MergedEntities, Ranks <- MergedRanks,
             MaxAtoms <- MaxMerged, Creators <- {}, Workers <- {}, Approvers <- {},
             Retirers <- {}, Consolidators <- {}
Curate == INSTANCE AtomStore WITH Entities <- CuratedEntities, Ranks <- CuratedRanks,
              MaxAtoms <- MaxCurated, Workers <- {}, Replacers <- {}, Mergers <- {},
              Fallbacks <- {}
Files == INSTANCE HostFiles WITH disk <- files, MaxEdits <- MaxFileEdits

ASSUME RecallAssumed == Find!RecallAssumption
ASSUME TransferAssumed == Bundle!TransferAssumption
ASSUME MergeAssumed == Merge!AtomStoreAssumption
ASSUME CurateAssumed == Curate!AtomStoreAssumption
ASSUME FilesAssumed == Files!FilesAssumption

Parts == {"recall", "bundle", "merge", "curate", "files"}

Init ==
    /\ part \in Parts
    /\ Find!Init /\ Bundle!Init /\ Files!Init
    /\ IF part = "merge" THEN Merge!Init ELSE Curate!Init

Next ==
    /\ UNCHANGED part
    /\ \/ part = "recall" /\ Find!Next   /\ UNCHANGED <<moveVars, atomVars, fileVars>>
       \/ part = "bundle" /\ Bundle!Next /\ UNCHANGED <<recallVars, atomVars, fileVars>>
       \/ part = "merge"  /\ Merge!Next  /\ UNCHANGED <<recallVars, moveVars, fileVars>>
       \/ part = "curate" /\ Curate!Next /\ UNCHANGED <<recallVars, moveVars, fileVars>>
       \/ part = "files"  /\ Files!Next  /\ UNCHANGED <<recallVars, moveVars, atomVars>>

serviceVars == <<part, recallVars, moveVars, atomVars, fileVars>>

Spec == Init /\ [][Next]_serviceVars
-----------------------------------------------------------------------------
(* Evidence that a manual document refuted is not shown, neither from the    *)
(* store nor from the cache (pipeline/recall/suppress.py,                     *)
(* manual_recall_policy; pipeline/recall/cache.py).                           *)
RefutedStaysOut == Find!DemotedStaysOut

(* An answer shows nothing retracted for longer than the cache keeps an      *)
(* entry, and costs no more than the prompt has room for                      *)
(* (pipeline/recall/cache.py, pipeline/recall/budget.py).                     *)
AnswerIsFit == Find!StaleIsBrief /\ Find!BudgetHolds

(* A package on record as adopted was imported but for the rows reported,    *)
(* and no restored backup takes its rows and leaves the record                *)
(* (operations/migration/portable/adopter.py).                                *)
AdoptedMeansImported == Bundle!AdoptedMeansImported

(* Following successors ends, under merges that race with corrections and    *)
(* the fallback pass, and under consolidation that races with approvals and   *)
(* deprecations (core.py, merge_entity; pipeline/lifecycle/consolidate.py).   *)
SupersessionEnds == IF part = "merge" THEN Merge!SupersessionEnds ELSE Curate!SupersessionEnds

(* No old text of a file stays in the index under the size and time of the    *)
(* new one, in whatever order edits and scans overlap                         *)
(* (application/host_files.py, scan_once).                                    *)
UnchangedIsCurrent == Files!UnchangedIsCurrent
=============================================================================
