------------------------------- MODULE RowGc -------------------------------
(***************************************************************************)
(* The garbage collector of rows, against the programs that write them.    *)
(* A pass lists rejected candidates and deleted atoms whose window is over *)
(* and deletes them one by one, then reads all references to raw events,   *)
(* and deletes old events that had none.  Nothing holds the passes         *)
(* together: rows change between their steps.                              *)
(*                                                                         *)
(* A holder is a candidate or an atom, whose citations of raw events a     *)
(* pass counts.  Episodes cite raw events too, are never deleted, and a    *)
(* pass does not count them.                                               *)
(***************************************************************************)
EXTENDS Naturals, Sequences, SequencesExt, FiniteSets

CONSTANTS
    Atoms, Candidates,
    Events,
    MaxRows     \* rows that a pass lists (max_rows_per_pass)

VARIABLES
    state,      \* state[h]: "none", "live", "ended" (rejected or deprecated),
                \* "expired" (for longer than the window) or "gone"
    cites,      \* cites[h]: raw events
    order,      \* holders by created_at
    told,       \* raw events that episodes cite
    event,      \* event[e]: "none", "fresh", "old" or "gone"
    gc,         \* pc: "rest", "candidates", "atoms" or "raw"; victims
    raced       \* history: what changed after the pass had looked at it

gcVars == <<state, cites, order, told, event, gc, raced>>

Holders == Atoms \cup Candidates
AtRest == [pc |-> "rest", victims |-> {}]

Init ==
    /\ state = [h \in Holders |-> "none"]
    /\ cites = [h \in Holders |-> {}]
    /\ order = <<>> /\ told = {}
    /\ event = [e \in Events |-> "none"]
    /\ gc = AtRest
    /\ raced = {}

Stored(e) == event[e] \in {"fresh", "old"}
Exists(h) == state[h] \notin {"none", "gone"}

-----------------------------------------------------------------------------
(* Programs and time.                                                      *)

Capture(e) ==
    /\ event[e] = "none" /\ event' = [event EXCEPT ![e] = "fresh"]
    /\ UNCHANGED <<state, cites, order, gc, raced, told>>

EventAges(e) ==
    /\ event[e] = "fresh" /\ event' = [event EXCEPT ![e] = "old"]
    /\ UNCHANGED <<state, cites, order, gc, raced, told>>

(* A candidate is extracted from events, an atom has those of a candidate. *)
Create(h, es) ==
    /\ state[h] = "none" /\ es # {} /\ \A e \in es : Stored(e)
    /\ state' = [state EXCEPT ![h] = "live"]
    /\ cites' = [cites EXCEPT ![h] = es]
    /\ order' = Append(order, h)
    /\ raced' = IF gc.pc = "raw" THEN raced \cup (es \cap gc.victims) ELSE raced
    /\ UNCHANGED <<told, event, gc>>

(* An episode is extracted from the events of a session.                   *)
Tell(es) ==
    /\ es # {} /\ \A e \in es : Stored(e)
    /\ told' = told \cup es
    /\ UNCHANGED <<state, cites, order, event, gc, raced>>

End(h) ==
    /\ state[h] = "live" /\ state' = [state EXCEPT ![h] = "ended"]
    /\ UNCHANGED <<cites, order, told, event, gc, raced>>

Expire(h) ==
    /\ state[h] = "ended" /\ state' = [state EXCEPT ![h] = "expired"]
    /\ UNCHANGED <<cites, order, told, event, gc, raced>>

(* A program that listed the candidate before it was rejected decides it   *)
(* after: the status is written by id alone.                               *)
Reopen(c) ==
    /\ c \in Candidates /\ state[c] \in {"ended", "expired"}
    /\ state' = [state EXCEPT ![c] = "live"]
    /\ raced' = raced \cup (gc.victims \cap {c})
    /\ UNCHANGED <<cites, order, told, event, gc>>

-----------------------------------------------------------------------------
(* One pass.                                                               *)

(* The newest rows of a listing, at most MaxRows.                          *)
Newest(rows) ==
    LET listed == SelectSeq(order, LAMBDA h : h \in rows)
    IN  {listed[i] : i \in {j \in DOMAIN listed : j > Len(listed) - MaxRows}}

Rejected == {c \in Candidates : state[c] \in {"ended", "expired"}}
AnyAtom == {a \in Atoms : Exists(a)}

(* Defect: rows whose window is not over.                                  *)
PickAny(rows) == {h \in Newest(rows) : state[h] # "expired"}

Pick(rows) == {h \in Newest(rows) : state[h] = "expired"}

ListCandidates ==
    /\ gc = AtRest
    /\ gc' = [pc |-> "candidates", victims |-> Pick(Rejected)]
    /\ UNCHANGED <<state, cites, order, told, event, raced>>

ListAtoms ==
    /\ gc.pc = "candidates" /\ gc.victims = {}
    /\ gc' = [pc |-> "atoms", victims |-> Pick(AnyAtom)]
    /\ UNCHANGED <<state, cites, order, told, event, raced>>

DeleteRow(h) ==
    /\ gc.pc \in {"candidates", "atoms"} /\ h \in gc.victims
    /\ state' = [state EXCEPT ![h] = "gone"]
    /\ gc' = [gc EXCEPT !.victims = @ \ {h}]
    /\ UNCHANGED <<cites, order, told, event, raced>>

(* Defect: what candidates cite does not count.                            *)
ReferencedByAtoms == UNION {cites[a] : a \in {b \in Atoms : Exists(b)}}

Referenced == UNION {cites[h] : h \in {g \in Holders : Exists(g)}}

(* References and victims are read on one connection in one go; a pass may *)
(* leave raw events out (include_orphan_raw).                              *)
ListRaw(include, es) ==
    /\ gc.pc = "atoms" /\ gc.victims = {}
    /\ LET orphans == {e \in Events : event[e] = "old"} \ Referenced
       IN  IF include
           THEN /\ es \subseteq orphans
                /\ Cardinality(es) <= MaxRows /\ (es = {} => orphans = {})
                /\ gc' = [pc |-> "raw", victims |-> es]
           ELSE es = {} /\ gc' = AtRest
    /\ UNCHANGED <<state, cites, order, told, event, raced>>

DeleteRaw(e) ==
    /\ gc.pc = "raw" /\ e \in gc.victims
    /\ event' = [event EXCEPT ![e] = "gone"]
    /\ gc' = [gc EXCEPT !.victims = @ \ {e}]
    /\ UNCHANGED <<state, cites, order, raced, told>>

EndPass ==
    /\ gc.pc = "raw" /\ gc.victims = {} /\ gc' = AtRest
    /\ UNCHANGED <<state, cites, order, told, event, raced>>

(* The process ends in the middle; what was deleted stays deleted.         *)
Crash ==
    /\ gc # AtRest /\ gc' = AtRest
    /\ UNCHANGED <<state, cites, order, told, event, raced>>

PassStep ==
    \/ ListCandidates \/ ListAtoms \/ EndPass
    \/ \E h \in Holders : DeleteRow(h)
    \/ \E include \in BOOLEAN, es \in SUBSET Events : ListRaw(include, es)
    \/ \E e \in Events : DeleteRaw(e)

Next ==
    \/ \E e \in Events : Capture(e) \/ EventAges(e)
    \/ \E h \in Holders, es \in SUBSET Events : Create(h, es)
    \/ \E es \in SUBSET Events : Tell(es)
    \/ \E h \in Holders : End(h) \/ Expire(h) \/ Reopen(h)
    \/ PassStep \/ Crash

(* Hosts run passes again and again; each goes on while its process lives, *)
(* and not all of them crash between the same two steps.                   *)
Fairness ==
    /\ WF_gcVars(PassStep) /\ SF_gcVars(ListAtoms)
    /\ \A h \in Holders : SF_gcVars(DeleteRow(h))

Spec == Init /\ [][Next]_gcVars /\ Fairness

-----------------------------------------------------------------------------
(* Properties.                                                             *)

(* A pass deletes no candidate or atom in use: a live one stays, and so    *)
(* does every raw event that a stored candidate or atom cites, whatever    *)
(* the two sides interleave -- save what was reopened, or newly cited,     *)
(* after the pass had looked.  Of what episodes cite it says nothing.      *)
NothingUsedIsCollected ==
    [][/\ \A h \in Holders \ raced : state[h] = "live" => state'[h] # "gone"
       /\ \A h \in Holders : Exists(h) => \A e \in cites[h] \ raced : event'[e] # "gone"]_gcVars

(* An episode keeps the events it was made from, for traceability          *)
(* (types.py:391).                                                         *)
EpisodesKeepTheirEvents == \A e \in told : event[e] # "gone"

Listing(h) == IF h \in Candidates THEN Rejected ELSE AnyAtom

(* A row whose window is over, and that the passes list, is deleted at     *)
(* last, whichever passes crash.                                           *)
ExpiredIsCollected ==
    \A h \in Holders : ~<>[](state[h] = "expired" /\ h \in Newest(Listing(h)))

(* The same of every row, also one behind MaxRows newer rows that stay.    *)
EveryExpiredIsCollected == \A h \in Holders : ~<>[](state[h] = "expired")

=============================================================================
