---------------------------- MODULE PageContract ----------------------------
(***************************************************************************)
(* What entity pages promise, with no revisions, snapshots or attempts: a  *)
(* page is a cache of the newest facts of its entity plus the notes of its *)
(* user.  It may be out of date only while it is known to be due, and a    *)
(* refresh is as if the facts were read, and the page written, at once.    *)
(* EntityPage implements this with the mapping given at its end.           *)
(***************************************************************************)
CONSTANTS Entities, Facts, Notes, LlmNotes, NoNotes,
          Newest(_)  \* the facts a page is written from, of those there are

VARIABLES
    facts,  \* facts[e]: the live atoms of e
    basis,  \* basis[e]: the facts the page of e was written from
    notes,  \* notes[e]: its "## My Notes" block
    due     \* due[e]: the page is owed a regeneration

vars == <<facts, basis, notes, due>>

Init ==
    /\ facts = [e \in Entities |-> {}]
    /\ basis = [e \in Entities |-> Newest({})]
    /\ notes = [e \in Entities |-> NoNotes]
    /\ due = [e \in Entities |-> FALSE]

ChangeFacts(e, S) ==
    /\ facts' = [facts EXCEPT ![e] = S]
    /\ due' = [due EXCEPT ![e] = TRUE]
    /\ UNCHANGED <<basis, notes>>

Demand(e) ==
    /\ due' = [due EXCEPT ![e] = TRUE]
    /\ UNCHANGED <<facts, basis, notes>>

(* A regeneration keeps the user's notes, whatever the model makes up.     *)
KeepsNotes(e, n) ==
    /\ notes' = [notes EXCEPT ![e] = n]
    /\ notes[e] \in Notes => n = notes[e]

Refresh(e, n) ==
    /\ basis' = [basis EXCEPT ![e] = Newest(facts[e])]
    /\ due' = [due EXCEPT ![e] = FALSE]
    /\ KeepsNotes(e, n)
    /\ UNCHANGED facts

(* A body that may be older than the facts: the page is due before and     *)
(* after.                                                                  *)
RefreshLate(e, B, n) ==
    /\ due[e]
    /\ basis' = [basis EXCEPT ![e] = B]
    /\ KeepsNotes(e, n)
    /\ UNCHANGED <<facts, due>>

UserEdit(e, n) ==
    /\ notes' = [notes EXCEPT ![e] = n]
    /\ UNCHANGED <<facts, basis, due>>

(* An edit begun on an older body brings that body back.                   *)
UserEditOfOld(e, B, n) ==
    /\ notes' = [notes EXCEPT ![e] = n]
    /\ basis' = [basis EXCEPT ![e] = B]
    /\ due' = [due EXCEPT ![e] = TRUE]
    /\ UNCHANGED facts

Next ==
    \E e \in Entities :
        \/ Demand(e)
        \/ \E S \in SUBSET Facts : ChangeFacts(e, S)
        \/ \E n \in Notes \cup {NoNotes, LlmNotes} :
              \/ Refresh(e, n)
              \/ UserEdit(e, n)
              \/ \E B \in SUBSET Facts : RefreshLate(e, B, n) \/ UserEditOfOld(e, B, n)

Spec == Init /\ [][Next]_vars

(* A page that is not due holds exactly the newest facts.                  *)
FreshUnlessDue ==
    \A e \in Entities : ~due[e] => basis[e] = Newest(facts[e])

=============================================================================
