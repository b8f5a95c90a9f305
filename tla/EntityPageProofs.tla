-------------------------- MODULE EntityPageProofs --------------------------
(* Proofs about EntityPage, for any entities, facts, actors and bounds.    *)
EXTENDS EntityPage, FiniteSetTheorems, TLAPS

(***************************************************************************)
(* Rows keep their shape.                                                  *)
(***************************************************************************)

LEMMA PageRows ==
    ASSUME NEW p \in Page, NEW b \in Body
    PROVE  /\ Marked(p) \in Page
           /\ Regenerated(p, b) \in Page
           /\ Failed(p) \in Page
           /\ Edited(p, b) \in Page
<1>1. NoPage \in Page
  BY DEF NoPage, Page, EmptyBody, Body, AnyNotes
<1>2. /\ p.regen_attempt_count + 1 \in Nat
      /\ p.summary_version + 1 \in Nat
      /\ p.mutation_version + 1 \in Nat
  BY DEF Page
<1>3. Marked(p) \in Page
  BY <1>1, <1>2 DEF Marked, Page
<1>4. Regenerated(p, b) \in Page
  BY <1>2 DEF Regenerated, Page
<1>5. Failed(p) \in Page
  BY <1>2 DEF Failed, Page
<1>6. Edited(p, b) \in Page
  BY <1>2 DEF Edited, Page
<1> QED
  BY <1>3, <1>4, <1>5, <1>6

LEMMA NewestIsSubset ==
    ASSUME NEW S \in SUBSET Facts
    PROVE  Newest(S) \in SUBSET Facts
BY DEF Newest

(* MarkDirty and Overtake, the two helpers shared by the actions.          *)
LEMMA MarkDirtyType ==
    ASSUME TypeOK, NEW e \in Entities, NEW X, MarkDirty(e, X)
    PROVE  /\ page' \in [Entities -> Page]
           /\ owed' \in [Entities -> BOOLEAN]
           /\ overtaken' \in [Regenerators -> BOOLEAN]
<1>1. EmptyBody \in Body
  BY DEF EmptyBody, Body, AnyNotes
<1>2. Marked(page[e]) \in Page
  BY <1>1, PageRows DEF TypeOK
<1>3. page' \in [Entities -> Page] /\ owed' \in [Entities -> BOOLEAN]
  BY <1>2 DEF MarkDirty, TypeOK
<1>4. overtaken' \in [Regenerators -> BOOLEAN]
  BY DEF MarkDirty, Overtake
<1> QED
  BY <1>3, <1>4

(* Every variable keeps its type.                                          *)
THEOREM TypeCorrect == Spec => []TypeOK
<1>1. Init => TypeOK
  BY DEF Init, TypeOK, Idle, NoPage, Page, EmptyBody, Body, AnyNotes,
         RegenState, WriterState, EditorState
<1>2. TypeOK /\ [Next]_vars => TypeOK'
  <2> SUFFICES ASSUME TypeOK, [Next]_vars PROVE TypeOK'
    OBVIOUS
  <2>1. ASSUME NEW e \in Entities, NEW S \in SUBSET Facts,
               CommitFacts(e, S) \/ ChangeFactsUnmarked(e, S)
        PROVE  TypeOK'
    <3>1. CASE CommitFacts(e, S)
      <4>1. MarkDirty(e, {})
        BY <3>1 DEF CommitFacts, MarkDirty
      <4> QED
        BY <3>1, <4>1, MarkDirtyType DEF CommitFacts, TypeOK
    <3>2. CASE ChangeFactsUnmarked(e, S)
      BY <3>2 DEF ChangeFactsUnmarked, TypeOK
    <3> QED
      BY <2>1, <3>1, <3>2
  <2>2. ASSUME NEW w \in Writers, NEW e \in Entities, NEW S \in SUBSET Facts,
               ChangeFacts(w, e, S)
        PROVE  TypeOK'
    BY <2>2 DEF ChangeFacts, TypeOK, WriterState
  <2>3. ASSUME NEW w \in Writers, MarkChanged(w)
        PROVE  TypeOK'
    <3>1. writer[w].ent \in Entities
      BY <2>3 DEF MarkChanged, TypeOK, WriterState
    <3> QED
      BY <2>3, <3>1, MarkDirtyType DEF MarkChanged, TypeOK, WriterState, Idle
  <2>4. ASSUME NEW w \in Writers, WriterCrash(w)
        PROVE  TypeOK'
    BY <2>4 DEF WriterCrash, TypeOK, WriterState, Idle
  <2>5. ASSUME NEW u \in Editors, NEW e \in Entities, OpenEditor(u, e)
        PROVE  TypeOK'
    <3>1. page[e].body \in Body
      BY DEF TypeOK, Page
    <3> QED
      BY <2>5, <3>1 DEF OpenEditor, TypeOK, EditorState
  <2>6. ASSUME NEW u \in Editors, NEW n \in Notes \cup {NoNotes}, SaveEdit(u, n)
        PROVE  TypeOK'
    <3> DEFINE e == editor[u].ent
               b == [editor[u].body EXCEPT !.notes = n]
    <3>1. e \in Entities /\ b \in Body
      BY <2>6 DEF SaveEdit, TypeOK, EditorState, Body, AnyNotes
    <3>2. Edited(page[e], b) \in Page
      BY <3>1, PageRows DEF TypeOK
    <3>3. page' \in [Entities -> Page] /\ forked' \in [Entities -> BOOLEAN]
      BY <2>6, <3>1, <3>2 DEF SaveEdit, TypeOK
    <3>4. editor' \in [Editors -> EditorState]
      BY <2>6, <3>1 DEF SaveEdit, TypeOK, EditorState
    <3> QED
      BY <2>6, <3>3, <3>4 DEF SaveEdit, TypeOK, Overtake
  <2>7. ASSUME NEW u \in Editors, JournalEdit(u) \/ EditorQuits(u)
        PROVE  TypeOK'
    <3>1. CASE JournalEdit(u)
      BY <3>1 DEF JournalEdit, TypeOK, EditorState, Idle
    <3>2. CASE EditorQuits(u)
      BY <3>2 DEF EditorQuits, TypeOK, EditorState, Idle
    <3> QED
      BY <2>7, <3>1, <3>2
  <2>8. ASSUME NEW r \in Regenerators, NEW e \in Entities, StartRegen(r, e)
        PROVE  TypeOK'
    BY <2>8 DEF StartRegen, TypeOK, RegenState
  <2>9. ASSUME NEW r \in Regenerators, ReadPage(r)
        PROVE  TypeOK'
    <3>1. regen[r].ent \in Entities
      BY <2>9 DEF ReadPage, TypeOK, RegenState
    <3>2. page[regen[r].ent] \in Page
      BY <3>1 DEF TypeOK
    <3>3. regen'[r] \in RegenState
      BY <2>9, <3>1, <3>2 DEF ReadPage, TypeOK, RegenState, Page, Body
    <3> QED
      BY <2>9, <3>3 DEF ReadPage, TypeOK
  <2>10. ASSUME NEW r \in Regenerators, MakeStub(r)
         PROVE  TypeOK'
    <3>1. regen[r].ent \in Entities
      BY <2>10 DEF MakeStub, TypeOK, RegenState
    <3> QED
      BY <2>10, <3>1, MarkDirtyType DEF MakeStub, TypeOK, RegenState
  <2>11. ASSUME NEW r \in Regenerators, ReadAtoms(r)
         PROVE  TypeOK'
    <3>1. /\ regen[r].ent \in Entities
          /\ regen[r].ver \in Nat
          /\ regen[r].kept \in AnyNotes
      BY <2>11 DEF ReadAtoms, TypeOK, RegenState
    <3>2. Newest(facts[regen[r].ent]) \in SUBSET Facts
      BY <3>1, NewestIsSubset DEF TypeOK
    <3>3. regen'[r] \in RegenState
      BY <2>11, <3>1, <3>2 DEF ReadAtoms, TypeOK, RegenState, Body, MergedNotes, AnyNotes
    <3> QED
      BY <2>11, <3>3 DEF ReadAtoms, TypeOK
  <2>12. ASSUME NEW r \in Regenerators, NEW n \in {NoNotes, LlmNotes}, LlmAnswers(r, n)
         PROVE  TypeOK'
    <3>1. regen[r] \in [pc : {"llm"}, ent : Entities, ver : Nat, body : Body]
      BY <2>12 DEF LlmAnswers, TypeOK, RegenState
    <3>2. regen'[r] \in RegenState
      BY <2>12, <3>1 DEF LlmAnswers, TypeOK, RegenState, Body, MergedNotes, AnyNotes
    <3> QED
      BY <2>12, <3>2 DEF LlmAnswers, TypeOK
  <2>13. ASSUME NEW r \in Regenerators, LlmFails(r)
         PROVE  TypeOK'
    <3>1. regen[r] \in [pc : {"llm"}, ent : Entities, ver : Nat, body : Body]
      BY <2>13 DEF LlmFails, TypeOK, RegenState
    <3>2. regen'[r] \in RegenState
      BY <2>13, <3>1 DEF LlmFails, TypeOK, RegenState
    <3> QED
      BY <2>13, <3>2 DEF LlmFails, TypeOK
  <2>14. ASSUME NEW r \in Regenerators, WriteBack(r)
         PROVE  TypeOK'
    <3> DEFINE e == regen[r].ent
    <3>1. e \in Entities /\ regen[r].body \in Body
      BY <2>14 DEF WriteBack, TypeOK, RegenState
    <3>2. Regenerated(page[e], regen[r].body) \in Page
      BY <3>1, PageRows DEF TypeOK
    <3>3. CASE Current(r)
      <4>1. /\ page' = [page EXCEPT ![e] = Regenerated(@, regen[r].body)]
            /\ forked' = [forked EXCEPT ![e] = FALSE]
            /\ regen' = [regen EXCEPT ![r] = [pc |-> "journal", ent |-> e]]
            /\ Overtake(e, {r})
            /\ UNCHANGED <<facts, journal, writer, editor, owed>>
        BY <2>14, <3>3 DEF WriteBack
      <4>2. page' \in [Entities -> Page] /\ forked' \in [Entities -> BOOLEAN]
        BY <4>1, <3>2 DEF TypeOK
      <4>3. regen' \in [Regenerators -> RegenState]
        BY <4>1, <3>1 DEF TypeOK, RegenState
      <4>4. overtaken' \in [Regenerators -> BOOLEAN]
        BY <4>1 DEF Overtake
      <4> QED
        BY <4>1, <4>2, <4>3, <4>4 DEF TypeOK
    <3>4. CASE ~Current(r)
      BY <2>14, <3>4 DEF WriteBack, TypeOK, RegenState, Idle
    <3> QED
      BY <3>3, <3>4
  <2>15. ASSUME NEW r \in Regenerators, JournalRegen(r) \/ RegenCrash(r)
         PROVE  TypeOK'
    <3>1. CASE JournalRegen(r)
      BY <3>1 DEF JournalRegen, TypeOK, RegenState, Idle
    <3>2. CASE RegenCrash(r)
      BY <3>2 DEF RegenCrash, TypeOK, RegenState, Idle
    <3> QED
      BY <2>15, <3>1, <3>2
  <2>16. ASSUME NEW r \in Regenerators, RecordFailure(r)
         PROVE  TypeOK'
    <3> DEFINE e == regen[r].ent
    <3>1. e \in Entities /\ regen[r].body \in Body
      BY <2>16 DEF RecordFailure, TypeOK, RegenState
    <3>2. Failed(page[e]) \in Page
      BY <3>1, PageRows DEF TypeOK
    <3> QED
      BY <2>16, <3>1, <3>2 DEF RecordFailure, TypeOK, RegenState, Idle
  <2>17. CASE UNCHANGED vars
    BY <2>17 DEF vars, TypeOK
  <2> QED
    BY <2>1, <2>2, <2>3, <2>4, <2>5, <2>6, <2>7, <2>8, <2>9, <2>10, <2>11,
       <2>12, <2>13, <2>14, <2>15, <2>16, <2>17
       DEF Next, WriterStep, EditorStep, RegenStep
<1> QED
  BY <1>1, <1>2, PTL DEF Spec

-----------------------------------------------------------------------------

(***************************************************************************)
(* Snapshots: two lemmas say what the steps of others do to the snapshot   *)
(* of r.  Either they advance the revision of the page, and the snapshot   *)
(* is no longer current, or they leave alone all the snapshot speaks of,   *)
(* except that a mark may become owed.                                     *)
(***************************************************************************)

LEMMA AdvancedPage ==
    ASSUME TypeOK, NEW r \in Regenerators, SnapshotValid(r), regen'[r] = regen[r],
           NEW e \in Entities, NEW q \in Page, NEW X,
           page' = [page EXCEPT ![e] = q], q.exists,
           page[e].exists => q.mutation_version = page[e].mutation_version + 1,
           Overtake(e, X),
           \A x \in Entities \ {e} : facts'[x] = facts[x] /\ owed'[x] = owed[x]
    PROVE  SnapshotValid(r)'
<1> SUFFICES ASSUME Holding(r)
             PROVE  SnapshotValid(r)'
  BY DEF SnapshotValid, Holding
<1>1. regen[r].ent \in Entities /\ regen[r].ver \in Nat
  BY DEF Holding, TypeOK, RegenState
<1>2. CASE regen[r].ent = e
  <2>1. /\ page[e].exists
        /\ regen[r].ver <= page[e].mutation_version
        /\ page[e].mutation_version \in Nat
    BY <1>2 DEF SnapshotValid, TypeOK, Page
  <2>2. page'[e] = q /\ q.mutation_version = page[e].mutation_version + 1
    BY <2>1 DEF TypeOK
  <2>3. /\ regen[r].ver < page'[e].mutation_version
        /\ regen[r].ver <= page'[e].mutation_version
        /\ page'[e].exists
    BY <2>1, <2>2, <1>1
  <2>4. ~Current(r)'
    BY <1>1, <1>2, <2>1, <2>2 DEF Current
  <2> QED
    BY <1>2, <2>2, <2>3, <2>4, <1>1 DEF SnapshotValid
<1>3. CASE regen[r].ent # e
  <2>1. /\ page'[regen[r].ent] = page[regen[r].ent]
        /\ facts'[regen[r].ent] = facts[regen[r].ent]
        /\ owed'[regen[r].ent] = owed[regen[r].ent]
    BY <1>1, <1>3 DEF TypeOK
  <2>2. overtaken'[r] = overtaken[r]
    BY <1>3 DEF Overtake, TypeOK
  <2> QED
    BY <2>1, <2>2 DEF SnapshotValid, Holding, Current
<1> QED
  BY <1>2, <1>3

LEMMA UntouchedPage ==
    ASSUME TypeOK, NEW r \in Regenerators, SnapshotValid(r), regen'[r] = regen[r],
           overtaken'[r] = overtaken[r],
           \A x \in Entities :
              /\ page'[x].exists = page[x].exists
              /\ page'[x].mutation_version = page[x].mutation_version
              /\ page'[x].body = page[x].body
              /\ owed'[x] \/ (facts'[x] = facts[x] /\ owed'[x] = owed[x])
    PROVE  SnapshotValid(r)'
<1> SUFFICES ASSUME Holding(r)
             PROVE  SnapshotValid(r)'
  BY DEF SnapshotValid, Holding
<1>1. regen[r].ent \in Entities
  BY DEF Holding, TypeOK, RegenState
<1>2. Current(r)' <=> Current(r)
  BY <1>1 DEF Current
<1> QED
  BY <1>1, <1>2 DEF SnapshotValid, Holding

(* A mark, with or without a fact change in the same transaction.          *)
LEMMA MarkKeepsSnapshots ==
    ASSUME TypeOK, SnapshotsValid, NEW e \in Entities, NEW X, MarkDirty(e, X),
           \A x \in Entities \ {e} : facts'[x] = facts[x],
           UNCHANGED forked
    PROVE  /\ \A r \in Regenerators : regen'[r] = regen[r] => SnapshotValid(r)'
           /\ \A x \in Entities : AbsentPage(x)'
<1>1. Marked(page[e]) \in Page
  <2>1. EmptyBody \in Body
    BY DEF EmptyBody, Body, AnyNotes
  <2> QED
    BY <2>1, PageRows DEF TypeOK
<1>2. /\ page' = [page EXCEPT ![e] = Marked(page[e])]
      /\ owed' = [owed EXCEPT ![e] = FALSE]
      /\ Overtake(e, X)
  BY DEF MarkDirty
<1>3. /\ Marked(page[e]).exists
      /\ page[e].exists =>
            Marked(page[e]).mutation_version = page[e].mutation_version + 1
  BY DEF Marked, NoPage, TypeOK, Page
<1>4. \A x \in Entities \ {e} : facts'[x] = facts[x] /\ owed'[x] = owed[x]
  BY <1>2 DEF TypeOK
<1>5. ASSUME NEW r \in Regenerators, regen'[r] = regen[r]
      PROVE  SnapshotValid(r)'
  BY <1>1, <1>2, <1>3, <1>4, <1>5, AdvancedPage DEF SnapshotsValid
<1>6. ASSUME NEW x \in Entities
      PROVE  AbsentPage(x)'
  BY <1>2, <1>3, <1>4 DEF SnapshotsValid, AbsentPage, TypeOK
<1> QED
  BY <1>5, <1>6

LEMMA SnapshotsStep == TypeOK /\ TypeOK' /\ SnapshotsValid /\ [Next]_vars => SnapshotsValid'
<1> SUFFICES ASSUME TypeOK, TypeOK', SnapshotsValid, [Next]_vars
             PROVE  SnapshotsValid'
  OBVIOUS
<1>0. \A r \in Regenerators : SnapshotValid(r)
  BY DEF SnapshotsValid
<1>1. ASSUME NEW e \in Entities, NEW S \in SUBSET Facts, CommitFacts(e, S)
      PROVE  SnapshotsValid'
  <2>1. MarkDirty(e, {}) /\ UNCHANGED <<regen, forked>>
    BY <1>1 DEF CommitFacts, MarkDirty
  <2>2. \A x \in Entities \ {e} : facts'[x] = facts[x]
    BY <1>1 DEF CommitFacts, TypeOK
  <2> QED
    BY <2>1, <2>2, MarkKeepsSnapshots DEF SnapshotsValid
<1>2. ASSUME NEW e \in Entities, NEW S \in SUBSET Facts,
             owed' = [owed EXCEPT ![e] = TRUE], facts' = [facts EXCEPT ![e] = S],
             UNCHANGED <<page, regen, forked, overtaken>>
      PROVE  SnapshotsValid'
  <2>1. ASSUME NEW r \in Regenerators
        PROVE  SnapshotValid(r)'
    <3>1. \A x \in Entities : owed'[x] \/ (facts'[x] = facts[x] /\ owed'[x] = owed[x])
      BY <1>2 DEF TypeOK
    <3> QED
      BY <1>0, <1>2, <3>1, UntouchedPage
  <2>2. ASSUME NEW x \in Entities
        PROVE  AbsentPage(x)'
    BY <1>2 DEF SnapshotsValid, AbsentPage, TypeOK
  <2> QED
    BY <2>1, <2>2 DEF SnapshotsValid
<1>3. ASSUME NEW w \in Writers, MarkChanged(w)
      PROVE  SnapshotsValid'
  <2>1. writer[w].ent \in Entities
    BY <1>3 DEF MarkChanged, TypeOK, WriterState
  <2> QED
    BY <1>3, <2>1, MarkKeepsSnapshots DEF MarkChanged, SnapshotsValid
<1>4. ASSUME UNCHANGED <<facts, page, regen, owed, forked, overtaken>>
      PROVE  SnapshotsValid'
  BY <1>4 DEF SnapshotsValid, SnapshotValid, AbsentPage, Holding, Current
<1>5. ASSUME NEW u \in Editors, NEW n \in Notes \cup {NoNotes}, SaveEdit(u, n)
      PROVE  SnapshotsValid'
  <2> DEFINE e == editor[u].ent
             b == [editor[u].body EXCEPT !.notes = n]
             q == Edited(page[e], b)
  <2>1. e \in Entities /\ b \in Body
    BY <1>5 DEF SaveEdit, TypeOK, EditorState, Body, AnyNotes
  <2>2. q \in Page
    BY <2>1, PageRows DEF TypeOK
  <2>3. /\ page[e].exists /\ q.exists
        /\ q.mutation_version = page[e].mutation_version + 1
    BY <1>5, <2>1 DEF SaveEdit, Edited, TypeOK, Page
  <2>4. /\ page' = [page EXCEPT ![e] = q]
        /\ Overtake(e, {})
        /\ UNCHANGED <<facts, regen, owed>>
        /\ forked' = [forked EXCEPT ![e] = @ \/ b.basis # page[e].body.basis]
    BY <1>5 DEF SaveEdit
  <2> HIDE DEF e, b, q
  <2>5. ASSUME NEW r \in Regenerators
        PROVE  SnapshotValid(r)'
    BY <1>0, <2>1, <2>2, <2>3, <2>4, AdvancedPage
  <2>6. ASSUME NEW x \in Entities
        PROVE  AbsentPage(x)'
    BY <2>1, <2>3, <2>4 DEF SnapshotsValid, AbsentPage, TypeOK
  <2> QED
    BY <2>5, <2>6 DEF SnapshotsValid
<1>6. ASSUME NEW r \in Regenerators, UNCHANGED <<facts, page, owed, forked>>,
             \A x \in Regenerators \ {r} :
                 regen'[x] = regen[x] /\ overtaken'[x] = overtaken[x],
             SnapshotValid(r)'
      PROVE  SnapshotsValid'
  <2>1. ASSUME NEW x \in Regenerators
        PROVE  SnapshotValid(x)'
    <3>1. CASE x = r
      BY <1>6, <3>1
    <3>2. CASE x # r
      BY <1>0, <1>6, <3>2, UntouchedPage
    <3> QED
      BY <3>1, <3>2
  <2> QED
    BY <1>6, <2>1 DEF SnapshotsValid, AbsentPage
<1>7. ASSUME NEW r \in Regenerators, NEW e \in Entities, StartRegen(r, e)
      PROVE  SnapshotsValid'
  <2>1. SnapshotValid(r)'
    BY <1>7 DEF StartRegen, SnapshotValid, Holding, TypeOK
  <2> QED
    BY <1>6, <1>7, <2>1 DEF StartRegen, TypeOK
<1>8. ASSUME NEW r \in Regenerators, ReadPage(r)
      PROVE  SnapshotsValid'
  <2>1. SnapshotValid(r)'
    <3>1. regen[r].ent \in Entities
      BY <1>8 DEF ReadPage, TypeOK, RegenState
    <3>2. page[regen[r].ent].mutation_version \in Nat
      BY <3>1 DEF TypeOK, Page
    <3>3. CASE page[regen[r].ent].exists
      BY <1>8, <3>1, <3>2, <3>3 DEF ReadPage, SnapshotValid, Holding, Current, TypeOK
    <3>4. CASE ~page[regen[r].ent].exists
      BY <1>8, <3>4 DEF ReadPage, SnapshotValid, Holding, TypeOK
    <3> QED
      BY <3>3, <3>4
  <2> QED
    BY <1>6, <1>8, <2>1 DEF ReadPage, TypeOK
<1>9. ASSUME NEW r \in Regenerators, MakeStub(r)
      PROVE  SnapshotsValid'
  <2>1. regen[r].ent \in Entities
    BY <1>9 DEF MakeStub, TypeOK, RegenState
  <2>2. SnapshotValid(r)'
    BY <1>9 DEF MakeStub, SnapshotValid, Holding, TypeOK
  <2>3. /\ MarkDirty(regen[r].ent, {r})
        /\ UNCHANGED <<facts, forked>>
        /\ \A x \in Regenerators \ {r} : regen'[x] = regen[x]
    BY <1>9 DEF MakeStub, TypeOK
  <2> QED
    BY <2>1, <2>2, <2>3, MarkKeepsSnapshots DEF SnapshotsValid
<1>10. ASSUME NEW r \in Regenerators, ReadAtoms(r)
       PROVE  SnapshotsValid'
  <2>1. SnapshotValid(r)'
    BY <1>0, <1>10 DEF ReadAtoms, SnapshotValid, Holding, Current, MergedNotes, TypeOK
  <2> QED
    BY <1>6, <1>10, <2>1 DEF ReadAtoms, TypeOK
<1>11. ASSUME NEW r \in Regenerators, NEW n \in {NoNotes, LlmNotes}, LlmAnswers(r, n)
       PROVE  SnapshotsValid'
  <2>1. regen[r] \in [pc : {"llm"}, ent : Entities, ver : Nat, body : Body]
    BY <1>11 DEF LlmAnswers, TypeOK, RegenState
  <2>2. /\ regen'[r].pc = "write"
        /\ regen'[r].ent = regen[r].ent
        /\ regen'[r].ver = regen[r].ver
        /\ regen'[r].body.basis = regen[r].body.basis
        /\ regen'[r].body.notes = MergedNotes(n, regen[r].body.notes)
    BY <1>11, <2>1 DEF LlmAnswers, TypeOK, Body
  <2>3. SnapshotValid(r)'
    BY <1>0, <1>11, <2>2, NotesAssumption
       DEF LlmAnswers, SnapshotValid, Holding, Current, MergedNotes
  <2> QED
    BY <1>6, <1>11, <2>3 DEF LlmAnswers, TypeOK
<1>12. ASSUME NEW r \in Regenerators, LlmFails(r)
       PROVE  SnapshotsValid'
  <2>1. regen[r] \in [pc : {"llm"}, ent : Entities, ver : Nat, body : Body]
    BY <1>12 DEF LlmFails, TypeOK, RegenState
  <2>2. /\ regen'[r].pc = "fail"
        /\ regen'[r].ent = regen[r].ent
        /\ regen'[r].ver = regen[r].ver
    BY <1>12, <2>1 DEF LlmFails, TypeOK
  <2>3. SnapshotValid(r)'
    BY <1>0, <1>12, <2>2 DEF LlmFails, SnapshotValid, Holding, Current
  <2> QED
    BY <1>6, <1>12, <2>3 DEF LlmFails, TypeOK
<1>13. ASSUME NEW r \in Regenerators, WriteBack(r)
       PROVE  SnapshotsValid'
  <2> DEFINE e == regen[r].ent
             q == Regenerated(page[e], regen[r].body)
  <2>1. SnapshotValid(r)'
    BY <1>13 DEF WriteBack, SnapshotValid, Holding, TypeOK, Idle
  <2>2. /\ e \in Entities /\ regen[r].body \in Body
        /\ page[e].exists
    BY <1>0, <1>13 DEF WriteBack, TypeOK, RegenState, SnapshotValid, Holding
  <2>3. CASE Current(r)
    <3>1. /\ q \in Page
          /\ q.exists
          /\ q.mutation_version = page[e].mutation_version + 1
      <4>1. page[e] \in Page
        BY <2>2 DEF TypeOK
      <4>2. q \in Page
        BY <2>2, <4>1, PageRows
      <4>3. q.exists = page[e].exists
        BY <4>1 DEF Regenerated, Page
      <4>4. q.mutation_version = page[e].mutation_version + 1
        BY <4>1 DEF Regenerated, Page
      <4> QED
        BY <2>2, <4>2, <4>3, <4>4
    <3>2. /\ page' = [page EXCEPT ![e] = q]
          /\ forked' = [forked EXCEPT ![e] = FALSE]
          /\ Overtake(e, {r})
          /\ UNCHANGED <<facts, owed>>
          /\ \A x \in Regenerators \ {r} : regen'[x] = regen[x]
      BY <1>13, <2>3 DEF WriteBack, TypeOK
    <3> HIDE DEF e, q
    <3>3. ASSUME NEW x \in Regenerators \ {r}
          PROVE  SnapshotValid(x)'
      BY <1>0, <2>2, <3>1, <3>2, AdvancedPage
    <3>4. ASSUME NEW x \in Entities
          PROVE  AbsentPage(x)'
      BY <2>2, <3>1, <3>2 DEF SnapshotsValid, AbsentPage, TypeOK
    <3> QED
      BY <2>1, <3>3, <3>4 DEF SnapshotsValid
  <2>4. CASE ~Current(r)
    BY <1>6, <1>13, <2>1, <2>4 DEF WriteBack, TypeOK
  <2> QED
    BY <2>3, <2>4
<1>14. ASSUME NEW r \in Regenerators, RecordFailure(r)
       PROVE  SnapshotsValid'
  <2> DEFINE e == regen[r].ent
  <2>1. SnapshotValid(r)'
    BY <1>14 DEF RecordFailure, SnapshotValid, Holding, TypeOK, Idle
  <2>2. /\ e \in Entities
        /\ page[e].exists
    BY <1>0, <1>14 DEF RecordFailure, TypeOK, RegenState, SnapshotValid, Holding
  <2>3. \A x \in Entities :
          /\ page'[x].exists = page[x].exists
          /\ page'[x].mutation_version = page[x].mutation_version
          /\ page'[x].body = page[x].body
          /\ ~page[x].exists => page'[x] = page[x]
    BY <1>14, <2>2 DEF RecordFailure, Failed, TypeOK, Page
  <2>4. ASSUME NEW x \in Regenerators \ {r}
        PROVE  SnapshotValid(x)'
    BY <1>0, <1>14, <2>3, UntouchedPage DEF RecordFailure, TypeOK
  <2>5. ASSUME NEW x \in Entities
        PROVE  AbsentPage(x)'
    BY <1>14, <2>3 DEF RecordFailure, SnapshotsValid, AbsentPage
  <2> QED
    BY <2>1, <2>4, <2>5 DEF SnapshotsValid
<1>15. ASSUME NEW r \in Regenerators, JournalRegen(r) \/ RegenCrash(r)
       PROVE  SnapshotsValid'
  <2>1. /\ regen' = [regen EXCEPT ![r] = Idle]
        /\ UNCHANGED <<facts, page, owed, forked, overtaken>>
    BY <1>15 DEF JournalRegen, RegenCrash
  <2>2. SnapshotValid(r)'
    BY <2>1 DEF SnapshotValid, Holding, TypeOK, Idle
  <2> QED
    BY <1>6, <2>1, <2>2 DEF TypeOK
<1>16. CASE WriterStep
  BY <1>16, <1>1, <1>2, <1>3, <1>4
     DEF WriterStep, ChangeFactsUnmarked, ChangeFacts, WriterCrash
<1>17. CASE EditorStep
  BY <1>17, <1>4, <1>5 DEF EditorStep, OpenEditor, JournalEdit, EditorQuits
<1>18. CASE RegenStep
  BY <1>18, <1>7, <1>8, <1>9, <1>10, <1>11, <1>12, <1>13, <1>14, <1>15 DEF RegenStep
<1>19. CASE UNCHANGED vars
  BY <1>4, <1>19 DEF vars
<1> QED
  BY <1>16, <1>17, <1>18, <1>19 DEF Next

(* What an attempt holds is true of its page while the page still has the  *)
(* revision the attempt read, whoever marks, edits or regenerates it.      *)
THEOREM SnapshotsCorrect == Spec => []SnapshotsValid
<1>1. Init => SnapshotsValid
  BY DEF Init, SnapshotsValid, SnapshotValid, AbsentPage, Holding, Idle, NoPage
<1> QED
  BY <1>1, SnapshotsStep, TypeCorrect, PTL DEF Spec

-----------------------------------------------------------------------------

(***************************************************************************)
(* The properties.                                                         *)
(***************************************************************************)

LEMMA CleanStep ==
    TypeOK /\ SnapshotsValid /\ CleanPageIsCurrent /\ [Next]_vars => CleanPageIsCurrent'
<1> SUFFICES ASSUME TypeOK, SnapshotsValid, CleanPageIsCurrent, [Next]_vars
             PROVE  CleanPageIsCurrent'
  OBVIOUS
<1>1. ASSUME NEW e \in Entities, NEW X, MarkDirty(e, X), UNCHANGED forked,
             \A x \in Entities \ {e} : facts'[x] = facts[x]
      PROVE  CleanPageIsCurrent'
  <2>1. Marked(page[e]).dirty
    BY DEF Marked, NoPage, TypeOK, Page
  <2> QED
    BY <1>1, <2>1 DEF MarkDirty, CleanPageIsCurrent, TypeOK
<1>2. ASSUME NEW e \in Entities, NEW S \in SUBSET Facts,
             owed' = [owed EXCEPT ![e] = TRUE], facts' = [facts EXCEPT ![e] = S],
             UNCHANGED <<page, forked>>
      PROVE  CleanPageIsCurrent'
  BY <1>2 DEF CleanPageIsCurrent, TypeOK
<1>3. ASSUME UNCHANGED <<facts, page, owed, forked>>
      PROVE  CleanPageIsCurrent'
  BY <1>3 DEF CleanPageIsCurrent
<1>4. ASSUME NEW e \in Entities, NEW S \in SUBSET Facts, CommitFacts(e, S)
      PROVE  CleanPageIsCurrent'
  BY <1>1, <1>4 DEF CommitFacts, MarkDirty, TypeOK
<1>5. ASSUME NEW w \in Writers, MarkChanged(w)
      PROVE  CleanPageIsCurrent'
  <2>1. writer[w].ent \in Entities
    BY <1>5 DEF MarkChanged, TypeOK, WriterState
  <2> QED
    BY <1>1, <1>5, <2>1 DEF MarkChanged
<1>6. ASSUME NEW u \in Editors, NEW n \in Notes \cup {NoNotes}, SaveEdit(u, n)
      PROVE  CleanPageIsCurrent'
  <2> DEFINE e == editor[u].ent
             b == [editor[u].body EXCEPT !.notes = n]
             q == Edited(page[e], b)
  <2>1. e \in Entities /\ b \in Body
    BY <1>6 DEF SaveEdit, TypeOK, EditorState, Body, AnyNotes
  <2>2. page[e] \in Page
    BY <2>1 DEF TypeOK
  <2>3. q.exists = page[e].exists /\ q.dirty = page[e].dirty /\ q.body = b
    BY <2>1, <2>2 DEF Edited, Page
  <2>4. /\ page' = [page EXCEPT ![e] = q]
        /\ UNCHANGED <<facts, owed>>
        /\ forked' = [forked EXCEPT ![e] = @ \/ b.basis # page[e].body.basis]
    BY <1>6 DEF SaveEdit
  <2> HIDE DEF e, b, q
  <2> QED
    BY <2>1, <2>3, <2>4 DEF CleanPageIsCurrent, TypeOK
<1>7. ASSUME NEW r \in Regenerators, MakeStub(r)
      PROVE  CleanPageIsCurrent'
  <2>1. regen[r].ent \in Entities
    BY <1>7 DEF MakeStub, TypeOK, RegenState
  <2> QED
    BY <1>1, <1>7, <2>1 DEF MakeStub
<1>8. ASSUME NEW r \in Regenerators, WriteBack(r), Current(r)
      PROVE  CleanPageIsCurrent'
  <2> DEFINE e == regen[r].ent
             q == Regenerated(page[e], regen[r].body)
  <2>1. e \in Entities
    BY <1>8 DEF WriteBack, TypeOK, RegenState
  <2>2. page[e] \in Page
    BY <2>1 DEF TypeOK
  <2>3. q.body = regen[r].body
    BY <2>2 DEF Regenerated, Page
  <2>4. owed[e] \/ regen[r].body.basis = Newest(facts[e])
    BY <1>8 DEF WriteBack, SnapshotsValid, SnapshotValid, Holding
  <2>5. /\ page' = [page EXCEPT ![e] = q]
        /\ forked' = [forked EXCEPT ![e] = FALSE]
        /\ UNCHANGED <<facts, owed>>
    BY <1>8 DEF WriteBack
  <2> HIDE DEF e, q
  <2> QED
    BY <2>1, <2>3, <2>4, <2>5 DEF CleanPageIsCurrent, TypeOK
<1>9. ASSUME NEW r \in Regenerators, RecordFailure(r), Current(r)
      PROVE  CleanPageIsCurrent'
  <2> DEFINE e == regen[r].ent
             q == Failed(page[e])
  <2>1. e \in Entities
    BY <1>9 DEF RecordFailure, TypeOK, RegenState
  <2>2. page[e] \in Page
    BY <2>1 DEF TypeOK
  <2>3. q.dirty
    BY <2>2 DEF Failed, Page
  <2>4. page' = [page EXCEPT ![e] = q] /\ UNCHANGED <<facts, owed, forked>>
    BY <1>9 DEF RecordFailure
  <2> HIDE DEF e, q
  <2> QED
    BY <2>1, <2>3, <2>4 DEF CleanPageIsCurrent, TypeOK
<1>10. CASE WriterStep
  BY <1>10, <1>2, <1>3, <1>4, <1>5
     DEF WriterStep, ChangeFactsUnmarked, ChangeFacts, WriterCrash
<1>11. CASE EditorStep
  BY <1>11, <1>3, <1>6 DEF EditorStep, OpenEditor, JournalEdit, EditorQuits
<1>12. CASE RegenStep
  <2>1. ASSUME NEW r \in Regenerators,
               \/ WriteBack(r) /\ ~Current(r)
               \/ RecordFailure(r) /\ ~Current(r)
        PROVE  CleanPageIsCurrent'
    BY <1>3, <2>1 DEF WriteBack, RecordFailure
  <2>2. ASSUME NEW r \in Regenerators,
               \/ \E e \in Entities : StartRegen(r, e)
               \/ ReadPage(r) \/ ReadAtoms(r)
               \/ \E n \in {NoNotes, LlmNotes} : LlmAnswers(r, n)
               \/ LlmFails(r) \/ JournalRegen(r) \/ RegenCrash(r)
        PROVE  CleanPageIsCurrent'
    BY <1>3, <2>2
       DEF StartRegen, ReadPage, ReadAtoms, LlmAnswers, LlmFails, JournalRegen, RegenCrash
  <2> QED
    BY <1>12, <1>7, <1>8, <1>9, <2>1, <2>2 DEF RegenStep
<1>13. CASE UNCHANGED vars
  BY <1>3, <1>13 DEF vars
<1> QED
  BY <1>10, <1>11, <1>12, <1>13 DEF Next

(* A page that is not dirty was written from the newest live atoms, for    *)
(* any number of regenerators, writers and editors: no write-back clears a *)
(* mark made after its snapshot.                                           *)
THEOREM CleanPageCorrect == Spec => []CleanPageIsCurrent
<1>1. Init => CleanPageIsCurrent
  BY DEF Init, CleanPageIsCurrent, NoPage
<1> QED
  BY <1>1, CleanStep, TypeCorrect, SnapshotsCorrect, PTL DEF Spec

(* What each kind of step does to the body of a page and to the revision:  *)
(* the three ways a body changes, reused below.                            *)
LEMMA BodyStep ==
    ASSUME TypeOK, SnapshotsValid, [Next]_vars, NEW e \in Entities,
           page'[e].body # page[e].body
    PROVE  \/ \E u \in Editors, n \in Notes \cup {NoNotes} :
                 editor[u].ent = e /\ SaveEdit(u, n)
           \/ \E r \in Regenerators :
                 regen[r].ent = e /\ Current(r) /\ WriteBack(r)
<1>1. ASSUME NEW x \in Entities, NEW X, MarkDirty(x, X)
      PROVE  FALSE
  <2>1. Marked(page[x]).body = page[x].body
    BY DEF Marked, NoPage, SnapshotsValid, AbsentPage, TypeOK, Page
  <2>2. page' = [page EXCEPT ![x] = Marked(page[x])]
    BY <1>1 DEF MarkDirty
  <2> QED
    BY <2>1, <2>2 DEF TypeOK
<1>2. page' # page
  OBVIOUS
<1>3. ASSUME NEW x \in Entities, NEW S \in SUBSET Facts,
             CommitFacts(x, S) \/ ChangeFactsUnmarked(x, S)
      PROVE  FALSE
  <2>1. CASE CommitFacts(x, S)
    BY <1>1, <2>1 DEF CommitFacts, MarkDirty
  <2> QED
    BY <1>2, <1>3, <2>1 DEF ChangeFactsUnmarked
<1>4. ASSUME NEW w \in Writers, MarkChanged(w)
      PROVE  FALSE
  <2>1. writer[w].ent \in Entities
    BY <1>4 DEF MarkChanged, TypeOK, WriterState
  <2> QED
    BY <1>1, <1>4, <2>1 DEF MarkChanged
<1>5. ASSUME NEW r \in Regenerators, MakeStub(r)
      PROVE  FALSE
  <2>1. regen[r].ent \in Entities
    BY <1>5 DEF MakeStub, TypeOK, RegenState
  <2> QED
    BY <1>1, <1>5, <2>1 DEF MakeStub
<1>6. ASSUME NEW r \in Regenerators, RecordFailure(r)
      PROVE  FALSE
  <2> DEFINE x == regen[r].ent
  <2>1. x \in Entities
    BY <1>6 DEF RecordFailure, TypeOK, RegenState
  <2>2. Failed(page[x]).body = page[x].body
    BY <2>1 DEF Failed, TypeOK, Page
  <2>3. page' = [page EXCEPT ![x] = Failed(page[x])]
    BY <1>2, <1>6 DEF RecordFailure
  <2> HIDE DEF x
  <2> QED
    BY <2>1, <2>2, <2>3 DEF TypeOK
<1>7. ASSUME NEW u \in Editors, NEW n \in Notes \cup {NoNotes}, SaveEdit(u, n)
      PROVE  editor[u].ent = e
  BY <1>7 DEF SaveEdit, TypeOK
<1>8. ASSUME NEW r \in Regenerators, WriteBack(r)
      PROVE  regen[r].ent = e /\ Current(r)
  BY <1>2, <1>8 DEF WriteBack, TypeOK
<1>9. CASE WriterStep
  BY <1>2, <1>3, <1>4, <1>9 DEF WriterStep, ChangeFacts, WriterCrash
<1>10. CASE EditorStep
  BY <1>2, <1>7, <1>10 DEF EditorStep, OpenEditor, JournalEdit, EditorQuits
<1>11. CASE RegenStep
  <2>1. ASSUME NEW r \in Regenerators,
               \/ \E x \in Entities : StartRegen(r, x)
               \/ ReadPage(r) \/ ReadAtoms(r)
               \/ \E n \in {NoNotes, LlmNotes} : LlmAnswers(r, n)
               \/ LlmFails(r) \/ JournalRegen(r) \/ RegenCrash(r)
        PROVE  FALSE
    BY <1>2, <2>1
       DEF StartRegen, ReadPage, ReadAtoms, LlmAnswers, LlmFails, JournalRegen, RegenCrash
  <2> QED
    BY <1>5, <1>6, <1>8, <1>11, <2>1 DEF RegenStep
<1>12. CASE UNCHANGED vars
  BY <1>2, <1>12 DEF vars
<1> QED
  BY <1>9, <1>10, <1>11, <1>12 DEF Next

(* A block the user wrote changes only when an editor saves: a write-back  *)
(* that passes the revision check carries the block the page still has.    *)
THEOREM UserNotesCorrect == Spec => UserNotesSurvive
<1>1. ASSUME TypeOK, SnapshotsValid, [Next]_vars, NEW e \in Entities,
             page[e].body.notes \in Notes, page'[e].body.notes # page[e].body.notes
      PROVE  \E u \in Editors : /\ editor[u].pc = "open"
                                /\ editor[u].ent = e
                                /\ editor'[u].pc = "journal"
  <2>1. CASE \E u \in Editors, n \in Notes \cup {NoNotes} :
                editor[u].ent = e /\ SaveEdit(u, n)
    <3>1. PICK u \in Editors, n \in Notes \cup {NoNotes} :
                editor[u].ent = e /\ SaveEdit(u, n)
      BY <2>1
    <3>2. editor[u].pc = "open" /\ editor'[u].pc = "journal"
      BY <1>1, <3>1 DEF SaveEdit, TypeOK
    <3> QED
      BY <3>1, <3>2
  <2>2. ASSUME NEW r \in Regenerators, regen[r].ent = e, Current(r), WriteBack(r)
        PROVE  FALSE
    <3>1. regen[r].body.notes = page[e].body.notes
      BY <1>1, <2>2 DEF WriteBack, SnapshotsValid, SnapshotValid, Holding
    <3>2. page'[e] = Regenerated(page[e], regen[r].body)
      BY <1>1, <2>2 DEF WriteBack, TypeOK
    <3>3. page[e] \in Page
      BY <1>1 DEF TypeOK
    <3>4. Regenerated(page[e], regen[r].body).body = regen[r].body
      BY <3>3 DEF Regenerated, Page
    <3> QED
      BY <1>1, <3>1, <3>2, <3>4
  <2> QED
    BY <1>1, <2>1, <2>2, BodyStep
<1>2. TypeOK /\ SnapshotsValid /\ [Next]_vars =>
        (\A e \in Entities :
          page[e].body.notes \in Notes /\ page'[e].body.notes # page[e].body.notes
              => \E u \in Editors :
                    /\ editor[u].pc = "open"
                    /\ editor[u].ent = e
                    /\ editor'[u].pc = "journal")
  BY <1>1
<1> QED
  BY <1>2, TypeCorrect, SnapshotsCorrect, PTL DEF Spec, UserNotesSurvive

(* An attempt that was overtaken cannot match the revision it read, so     *)
(* neither its success nor its failure reaches the page.                   *)
THEOREM LateResultCorrect == Spec => LateResultIsInert
<1>1. ASSUME TypeOK, SnapshotsValid, [Next]_vars, NEW r \in Regenerators,
             overtaken[r], regen[r].pc \in {"write", "fail"}, regen'[r] # regen[r]
      PROVE  page' = page
  <2>1. ~Current(r)
    <3>1. regen[r].ent \in Entities /\ regen[r].ver \in Nat
      BY <1>1 DEF TypeOK, RegenState
    <3>2. page[regen[r].ent].mutation_version \in Nat
      BY <1>1, <3>1 DEF TypeOK, Page
    <3>3. regen[r].ver < page[regen[r].ent].mutation_version
      BY <1>1 DEF SnapshotsValid, SnapshotValid, Holding
    <3> QED
      BY <3>1, <3>2, <3>3 DEF Current
  <2>2. CASE WriterStep
    BY <1>1, <2>2 DEF WriterStep, CommitFacts, ChangeFactsUnmarked, ChangeFacts,
                      MarkChanged, WriterCrash
  <2>3. CASE EditorStep
    BY <1>1, <2>3 DEF EditorStep, OpenEditor, SaveEdit, JournalEdit, EditorQuits
  <2>4. CASE RegenStep
    <3>1. PICK x \in Regenerators :
             \/ \E e \in Entities : StartRegen(x, e)
             \/ ReadPage(x) \/ MakeStub(x) \/ ReadAtoms(x)
             \/ \E n \in {NoNotes, LlmNotes} : LlmAnswers(x, n)
             \/ LlmFails(x) \/ WriteBack(x) \/ JournalRegen(x)
             \/ RecordFailure(x) \/ RegenCrash(x)
      BY <2>4 DEF RegenStep
    <3>2. x = r
      BY <1>1, <3>1
         DEF StartRegen, ReadPage, MakeStub, ReadAtoms, LlmAnswers, LlmFails,
             WriteBack, JournalRegen, RecordFailure, RegenCrash, TypeOK
    <3> QED
      BY <1>1, <2>1, <3>1, <3>2
         DEF StartRegen, ReadPage, MakeStub, ReadAtoms, LlmAnswers, LlmFails,
             WriteBack, JournalRegen, RecordFailure, RegenCrash
  <2>5. CASE UNCHANGED vars
    BY <2>5 DEF vars
  <2> QED
    BY <1>1, <2>2, <2>3, <2>4, <2>5 DEF Next
<1>2. TypeOK /\ SnapshotsValid /\ [Next]_vars =>
        (\A r \in Regenerators :
          overtaken[r] /\ regen[r].pc \in {"write", "fail"} /\ regen'[r] # regen[r]
              => page' = page)
  BY <1>1
<1> QED
  BY <1>2, TypeCorrect, SnapshotsCorrect, PTL DEF Spec, LateResultIsInert

-----------------------------------------------------------------------------

(***************************************************************************)
(* The refinement.                                                         *)
(***************************************************************************)

(* Marking a page, with the facts of that entity changed or not.           *)
LEMMA MarkIsDemand ==
    ASSUME TypeOK, SnapshotsValid, NEW e \in Entities, NEW X, MarkDirty(e, X),
           UNCHANGED forked
    PROVE  /\ Contract!Demand(e) \/ facts' # facts
           /\ \A S : facts' = [facts EXCEPT ![e] = S] => Contract!ChangeFacts(e, S)
<1>1. page[e] \in Page
  BY DEF TypeOK
<1>2. /\ Marked(page[e]).dirty
      /\ Marked(page[e]).body = page[e].body
  BY <1>1 DEF Marked, NoPage, SnapshotsValid, AbsentPage, Page
<1>3. /\ page' = [page EXCEPT ![e] = Marked(page[e])]
      /\ owed' = [owed EXCEPT ![e] = FALSE]
  BY DEF MarkDirty
<1>4. \A x \in Entities : page'[x].body = page[x].body
  BY <1>2, <1>3 DEF TypeOK
<1>5. \A x \in Entities : (page[x].dirty \/ owed[x] \/ forked[x])'
         = IF x = e THEN TRUE ELSE page[x].dirty \/ owed[x] \/ forked[x]
  BY <1>2, <1>3 DEF TypeOK, Page
<1> QED
  BY <1>4, <1>5 DEF Contract!Demand, Contract!ChangeFacts

LEMMA RefinementStep ==
    TypeOK /\ SnapshotsValid /\ [Next]_vars => [Contract!Next]_Contract!vars
<1> SUFFICES ASSUME TypeOK, SnapshotsValid, [Next]_vars
             PROVE  Contract!Next \/ UNCHANGED Contract!vars
  OBVIOUS
<1>1. ASSUME UNCHANGED <<facts, page, owed, forked>>
      PROVE  UNCHANGED Contract!vars
  BY <1>1 DEF Contract!vars
<1>2. ASSUME NEW e \in Entities, NEW S \in SUBSET Facts, CommitFacts(e, S)
      PROVE  Contract!Next
  <2>1. Contract!ChangeFacts(e, S)
    BY <1>2, MarkIsDemand DEF CommitFacts, MarkDirty
  <2> QED
    BY <2>1 DEF Contract!Next
<1>3. ASSUME NEW e \in Entities, NEW S \in SUBSET Facts,
             owed' = [owed EXCEPT ![e] = TRUE], facts' = [facts EXCEPT ![e] = S],
             UNCHANGED <<page, forked>>
      PROVE  Contract!Next
  <2>1. \A x \in Entities : (page[x].dirty \/ owed[x] \/ forked[x])'
           = IF x = e THEN TRUE ELSE page[x].dirty \/ owed[x] \/ forked[x]
    BY <1>3 DEF TypeOK, Page
  <2>2. Contract!ChangeFacts(e, S)
    BY <1>3, <2>1 DEF Contract!ChangeFacts
  <2> QED
    BY <2>2 DEF Contract!Next
<1>4. ASSUME NEW e \in Entities, NEW X, MarkDirty(e, X), UNCHANGED <<facts, forked>>
      PROVE  Contract!Next
  BY <1>4, MarkIsDemand DEF Contract!Next
<1>5. ASSUME NEW u \in Editors, NEW n \in Notes \cup {NoNotes}, SaveEdit(u, n)
      PROVE  Contract!Next
  <2>1. PICK e \in Entities, b \in Body :
           /\ e = editor[u].ent
           /\ b = [editor[u].body EXCEPT !.notes = n]
           /\ b.notes = n
    <3> DEFINE old == editor[u].body
    <3>1. editor[u].ent \in Entities /\ old \in Body
      BY <1>5 DEF SaveEdit, TypeOK, EditorState
    <3>2. n \in AnyNotes
      BY DEF AnyNotes
    <3>3. [old EXCEPT !.notes = n] \in Body /\ [old EXCEPT !.notes = n].notes = n
      BY <3>1, <3>2 DEF Body
    <3> QED
      BY <3>1, <3>3
  <2>2. b.basis \in SUBSET Facts
    BY <2>1 DEF Body
  <2>3. page[e] \in Page
    BY DEF TypeOK
  <2>4. PICK q \in Page :
           q = Edited(page[e], b) /\ q.dirty = page[e].dirty /\ q.body = b
    <3>1. Edited(page[e], b) \in Page
      BY <2>3, PageRows
    <3>2. /\ Edited(page[e], b).dirty = page[e].dirty
          /\ Edited(page[e], b).body = b
      BY <2>3 DEF Edited, Page
    <3> QED
      BY <3>1, <3>2
  <2>5. /\ page' = [page EXCEPT ![e] = q]
        /\ UNCHANGED <<facts, owed>>
        /\ forked' = [forked EXCEPT ![e] = @ \/ b.basis # page[e].body.basis]
    BY <1>5, <2>1, <2>4 DEF SaveEdit
  <2>6. /\ page'[e].body = b /\ page'[e].dirty = page[e].dirty
        /\ \A x \in Entities \ {e} : page'[x] = page[x] /\ forked'[x] = forked[x]
    BY <2>1, <2>4, <2>5 DEF TypeOK
  <2>7. CASE b.basis = page[e].body.basis
    <3>1. forked' = forked
      BY <2>5, <2>7 DEF TypeOK
    <3>2. \A x \in Entities :
             /\ page'[x].body.basis = page[x].body.basis
             /\ page'[x].body.notes = IF x = e THEN n ELSE page[x].body.notes
             /\ page'[x].dirty = page[x].dirty
      BY <2>1, <2>6, <2>7
    <3>3. Contract!UserEdit(e, n)
      BY <2>5, <3>1, <3>2 DEF Contract!UserEdit
    <3> QED
      BY <3>3 DEF Contract!Next
  <2>8. CASE b.basis # page[e].body.basis
    <3>1. forked'[e]
      BY <2>1, <2>5, <2>8 DEF TypeOK
    <3>2. \A x \in Entities : (page[x].dirty \/ owed[x] \/ forked[x])'
             = IF x = e THEN TRUE ELSE page[x].dirty \/ owed[x] \/ forked[x]
      BY <2>1, <2>5, <2>6, <3>1 DEF TypeOK, Page
    <3>3. \A x \in Entities :
             /\ page'[x].body.basis = IF x = e THEN b.basis ELSE page[x].body.basis
             /\ page'[x].body.notes = IF x = e THEN n ELSE page[x].body.notes
      BY <2>1, <2>6
    <3>4. Contract!UserEditOfOld(e, b.basis, n)
      BY <2>5, <3>2, <3>3 DEF Contract!UserEditOfOld
    <3> QED
      BY <2>2, <3>4 DEF Contract!Next
  <2> QED
    BY <2>7, <2>8
<1>6. ASSUME NEW r \in Regenerators, WriteBack(r), Current(r)
      PROVE  Contract!Next
  <2>1. PICK e \in Entities, b \in Body : e = regen[r].ent /\ b = regen[r].body
    BY <1>6 DEF WriteBack, TypeOK, RegenState
  <2>2. b.basis \in SUBSET Facts /\ b.notes \in Notes \cup {NoNotes, LlmNotes}
    BY <2>1 DEF Body, AnyNotes
  <2>3. page[e] \in Page
    BY DEF TypeOK
  <2>4. PICK q \in Page :
           q = Regenerated(page[e], b) /\ q.dirty = FALSE /\ q.body = b
    BY <2>3, PageRows DEF Regenerated, Page
  <2>5. /\ page[e].body.notes \in Notes => b.notes = page[e].body.notes
        /\ owed[e] \/ b.basis = Newest(facts[e])
    BY <1>6, <2>1 DEF WriteBack, SnapshotsValid, SnapshotValid, Holding
  <2>6. /\ page' = [page EXCEPT ![e] = q]
        /\ forked' = [forked EXCEPT ![e] = FALSE]
        /\ UNCHANGED <<facts, owed>>
    BY <1>6, <2>1, <2>4 DEF WriteBack
  <2>7. /\ page'[e].body = b /\ page'[e].dirty = FALSE /\ forked'[e] = FALSE
        /\ \A x \in Entities \ {e} : page'[x] = page[x] /\ forked'[x] = forked[x]
    BY <2>1, <2>4, <2>6 DEF TypeOK
  <2>8. Contract!KeepsNotes(e, b.notes)
    BY <2>1, <2>5, <2>7 DEF Contract!KeepsNotes
  <2>11. \A x \in Entities :
           page'[x].body.basis = IF x = e THEN b.basis ELSE page[x].body.basis
    BY <2>7
  <2>9. CASE owed[e]
    <3>1. \A x \in Entities : (page[x].dirty \/ owed[x] \/ forked[x])'
             = (page[x].dirty \/ owed[x] \/ forked[x])
      BY <2>1, <2>6, <2>7, <2>9
    <3>2. Contract!RefreshLate(e, b.basis, b.notes)
      BY <2>6, <2>8, <2>9, <2>11, <3>1 DEF Contract!RefreshLate
    <3> QED
      BY <2>1, <2>2, <3>2 DEF Contract!Next
  <2>10. CASE ~owed[e]
    <3>1. \A x \in Entities : (page[x].dirty \/ owed[x] \/ forked[x])'
             = IF x = e THEN FALSE ELSE page[x].dirty \/ owed[x] \/ forked[x]
      BY <2>1, <2>6, <2>7, <2>10
    <3>2. b.basis = Newest(facts[e])
      BY <2>5, <2>10
    <3>3. Contract!Refresh(e, b.notes)
      BY <2>6, <2>8, <2>11, <3>1, <3>2 DEF Contract!Refresh
    <3> QED
      BY <2>1, <2>2, <3>3 DEF Contract!Next
  <2> QED
    BY <2>9, <2>10
<1>7. ASSUME NEW r \in Regenerators, RecordFailure(r), Current(r)
      PROVE  Contract!Next
  <2>1. PICK e \in Entities : e = regen[r].ent
    BY <1>7 DEF RecordFailure, TypeOK, RegenState
  <2>2. page[e] \in Page
    BY DEF TypeOK
  <2>3. PICK q : q = Failed(page[e]) /\ q.dirty = TRUE /\ q.body = page[e].body
    <3>1. Failed(page[e]).dirty = TRUE /\ Failed(page[e]).body = page[e].body
      BY <2>2 DEF Failed, Page
    <3> QED
      BY <3>1
  <2>4. page' = [page EXCEPT ![e] = q] /\ UNCHANGED <<facts, owed, forked>>
    BY <1>7, <2>1, <2>3 DEF RecordFailure
  <2>5. \A x \in Entities :
           /\ page'[x].body.basis = page[x].body.basis
           /\ page'[x].body.notes = page[x].body.notes
    BY <2>3, <2>4 DEF TypeOK
  <2>6. \A x \in Entities : (page[x].dirty \/ owed[x] \/ forked[x])'
           = IF x = e THEN TRUE ELSE page[x].dirty \/ owed[x] \/ forked[x]
    BY <2>3, <2>4 DEF TypeOK, Page
  <2>7. Contract!Demand(e)
    BY <2>4, <2>5, <2>6 DEF Contract!Demand
  <2> QED
    BY <2>7 DEF Contract!Next
<1>8. CASE WriterStep
  <2>1. ASSUME NEW w \in Writers, MarkChanged(w)
        PROVE  Contract!Next
    <3>1. writer[w].ent \in Entities
      BY <2>1 DEF MarkChanged, TypeOK, WriterState
    <3> QED
      BY <1>4, <2>1, <3>1 DEF MarkChanged
  <2> QED
    BY <1>8, <1>1, <1>2, <1>3, <2>1
       DEF WriterStep, ChangeFactsUnmarked, ChangeFacts, WriterCrash
<1>9. CASE EditorStep
  BY <1>9, <1>1, <1>5 DEF EditorStep, OpenEditor, JournalEdit, EditorQuits
<1>10. CASE RegenStep
  <2>1. ASSUME NEW r \in Regenerators, MakeStub(r)
        PROVE  Contract!Next
    <3>1. regen[r].ent \in Entities
      BY <2>1 DEF MakeStub, TypeOK, RegenState
    <3> QED
      BY <1>4, <2>1, <3>1 DEF MakeStub
  <2>2. ASSUME NEW r \in Regenerators,
               \/ WriteBack(r) /\ ~Current(r)
               \/ RecordFailure(r) /\ ~Current(r)
        PROVE  UNCHANGED Contract!vars
    BY <1>1, <2>2 DEF WriteBack, RecordFailure
  <2>3. ASSUME NEW r \in Regenerators,
               \/ \E e \in Entities : StartRegen(r, e)
               \/ ReadPage(r) \/ ReadAtoms(r)
               \/ \E n \in {NoNotes, LlmNotes} : LlmAnswers(r, n)
               \/ LlmFails(r) \/ JournalRegen(r) \/ RegenCrash(r)
        PROVE  UNCHANGED Contract!vars
    BY <1>1, <2>3
       DEF StartRegen, ReadPage, ReadAtoms, LlmAnswers, LlmFails, JournalRegen, RegenCrash
  <2> QED
    BY <1>10, <1>6, <1>7, <2>1, <2>2, <2>3 DEF RegenStep
<1>11. CASE UNCHANGED vars
  BY <1>1, <1>11 DEF vars
<1> QED
  BY <1>8, <1>9, <1>10, <1>11 DEF Next

(* To whoever reads the pages, interleaved regenerations behave as atomic  *)
(* refreshes.                                                              *)
THEOREM RefinementCorrect == Spec => ImplementsContract
<1>1. Init => Contract!Init
  <2> SUFFICES ASSUME Init PROVE Contract!Init
    OBVIOUS
  <2>1. \A e \in Entities :
          /\ page[e].body.basis = {} /\ page[e].body.notes = NoNotes
          /\ (page[e].dirty \/ owed[e] \/ forked[e]) = FALSE
    BY DEF Init, NoPage, EmptyBody
  <2>2. Newest({}) = {}
    BY DEF Newest
  <2> QED
    BY <2>1, <2>2 DEF Init, Contract!Init
<1> QED
  BY <1>1, RefinementStep, TypeCorrect, SnapshotsCorrect, PTL
     DEF Spec, ImplementsContract, Contract!Spec

ContractShape == facts \in [Entities -> SUBSET Facts] /\ Contract!FreshUnlessDue

LEMMA ContractStep == ContractShape /\ [Contract!Next]_Contract!vars => ContractShape'
<1> SUFFICES ASSUME ContractShape, [Contract!Next]_Contract!vars PROVE ContractShape'
  OBVIOUS
<1> USE DEF ContractShape, Contract!FreshUnlessDue
<1>1. ASSUME NEW e \in Entities, NEW S \in SUBSET Facts, Contract!ChangeFacts(e, S)
      PROVE  ContractShape'
  BY <1>1 DEF Contract!ChangeFacts
<1>2. ASSUME NEW e \in Entities, Contract!Demand(e)
      PROVE  ContractShape'
  BY <1>2 DEF Contract!Demand
<1>3. ASSUME NEW e \in Entities, NEW n, Contract!Refresh(e, n) \/ Contract!UserEdit(e, n)
      PROVE  ContractShape'
  BY <1>3 DEF Contract!Refresh, Contract!UserEdit
<1>4. ASSUME NEW e \in Entities, NEW B, NEW n,
             Contract!RefreshLate(e, B, n) \/ Contract!UserEditOfOld(e, B, n)
      PROVE  ContractShape'
  BY <1>4 DEF Contract!RefreshLate, Contract!UserEditOfOld
<1>5. CASE UNCHANGED Contract!vars
  BY <1>5 DEF Contract!vars
<1> QED
  BY <1>1, <1>2, <1>3, <1>4, <1>5 DEF Contract!Next

(* What the contract gives its readers: it makes a page that is not due     *)
(* hold exactly the newest facts (pipeline/page/regenerator.py).            *)
THEOREM ContractKeepsPagesFresh == ImplementsContract => []Contract!FreshUnlessDue
<1>1. Contract!Init => ContractShape
  BY DEF Contract!Init, ContractShape, Contract!FreshUnlessDue
<1>2. ContractShape => Contract!FreshUnlessDue
  BY DEF ContractShape
<1> QED
  BY <1>1, <1>2, ContractStep, PTL DEF ImplementsContract, Contract!Spec

(* And EntityPage is such an implementation: a page may be out of date only *)
(* while it is dirty or in one of the two gaps that its mapping names.       *)
COROLLARY PagesAreFresh == Spec => []Contract!FreshUnlessDue
<1> QED
  BY RefinementCorrect, ContractKeepsPagesFresh, PTL

-----------------------------------------------------------------------------

(***************************************************************************)
(* The journal.  JournalNeverAhead alone is not inductive: it compares     *)
(* cardinalities, which are numbers only while the sets are finite.  They  *)
(* are, with any number of actors: one step adds at most one of them.      *)
(***************************************************************************)

RegenRowsDue(e) == {r \in Regenerators : regen[r].pc = "journal" /\ regen[r].ent = e}

EditRowsDue(e) == {u \in Editors : editor[u].pc = "journal" /\ editor[u].ent = e}

RowsDueAreFinite ==
    \A e \in Entities : IsFiniteSet(RegenRowsDue(e)) /\ IsFiniteSet(EditRowsDue(e))

JournalInv == RowsDueAreFinite /\ JournalNeverAhead

LEMMA CountWithin ==
    ASSUME NEW S, IsFiniteSet(S), NEW T \in SUBSET S
    PROVE  /\ IsFiniteSet(T)
           /\ Cardinality(T) \in Nat /\ Cardinality(S) \in Nat
           /\ Cardinality(T) <= Cardinality(S)
BY FS_Subset, FS_CardinalityType

LEMMA CountOneMore ==
    ASSUME NEW S, IsFiniteSet(S), NEW x, NEW T \in SUBSET (S \cup {x})
    PROVE  /\ IsFiniteSet(T)
           /\ Cardinality(T) \in Nat /\ Cardinality(S) \in Nat
           /\ Cardinality(T) <= Cardinality(S) + 1
<1>1. Cardinality(S) \in Nat
  BY FS_CardinalityType
<1>2. /\ IsFiniteSet(S \cup {x})
      /\ Cardinality(S \cup {x}) <= Cardinality(S) + 1
      /\ Cardinality(S \cup {x}) \in Nat
  <2>1. /\ IsFiniteSet(S \cup {x})
        /\ \/ Cardinality(S \cup {x}) = Cardinality(S)
           \/ Cardinality(S \cup {x}) = Cardinality(S) + 1
    BY FS_AddElement
  <2> QED
    BY <1>1, <2>1
<1>3. IsFiniteSet(T) /\ Cardinality(T) \in Nat
  BY <1>2, CountWithin
<1>4. Cardinality(T) <= Cardinality(S \cup {x})
  BY <1>2, CountWithin
<1> QED
  BY <1>1, <1>2, <1>3, <1>4

LEMMA CountOneLess ==
    ASSUME NEW S, IsFiniteSet(S), NEW x \in S, NEW T \in SUBSET (S \ {x})
    PROVE  /\ IsFiniteSet(T)
           /\ Cardinality(T) \in Nat /\ Cardinality(S) \in Nat
           /\ Cardinality(T) + 1 <= Cardinality(S)
<1>1. Cardinality(S) \in Nat
  BY FS_CardinalityType
<1>2. IsFiniteSet(S \ {x}) /\ Cardinality(S \ {x}) = Cardinality(S) - 1
  BY FS_RemoveElement
<1>3. IsFiniteSet(T) /\ Cardinality(T) \in Nat
  BY <1>2, CountWithin
<1>4. Cardinality(T) <= Cardinality(S \ {x})
  BY <1>2, CountWithin
<1> QED
  BY <1>1, <1>2, <1>3, <1>4

(* The three ways a step changes the account of one page: nothing new is   *)
(* due, a body and its row come to be due together, or a due row is        *)
(* written.                                                                *)
Balanced(j, R, E, s, j2, R2, E2, s2) ==
    \/ j2 = j /\ R2 \subseteq R /\ E2 \subseteq E /\ s2 >= s
    \/ /\ j2 = j /\ s2 = s + 1 /\ E2 \subseteq E
       /\ \E r : R2 \subseteq R \cup {r}
    \/ /\ j2 = j /\ s2 = s + 1 /\ R2 \subseteq R
       /\ \E u : E2 \subseteq E \cup {u}
    \/ /\ j2 = j + 1 /\ s2 = s /\ E2 \subseteq E
       /\ \E r \in R : R2 \subseteq R \ {r}
    \/ /\ j2 = j + 1 /\ s2 = s /\ R2 \subseteq R
       /\ \E u \in E : E2 \subseteq E \ {u}

LEMMA AccountKept ==
    ASSUME NEW j \in Nat, NEW R, IsFiniteSet(R), NEW E, IsFiniteSet(E), NEW s \in Nat,
           j + Cardinality(R) + Cardinality(E) <= s,
           NEW j2 \in Nat, NEW R2, NEW E2, NEW s2 \in Nat,
           Balanced(j, R, E, s, j2, R2, E2, s2)
    PROVE  /\ IsFiniteSet(R2) /\ IsFiniteSet(E2)
           /\ j2 + Cardinality(R2) + Cardinality(E2) <= s2
<1>0. Cardinality(R) \in Nat /\ Cardinality(E) \in Nat
  BY FS_CardinalityType
<1>1. CASE j2 = j /\ R2 \subseteq R /\ E2 \subseteq E /\ s2 >= s
  <2>1. /\ IsFiniteSet(R2) /\ Cardinality(R2) \in Nat
        /\ Cardinality(R2) <= Cardinality(R)
    BY <1>1, CountWithin
  <2>2. /\ IsFiniteSet(E2) /\ Cardinality(E2) \in Nat
        /\ Cardinality(E2) <= Cardinality(E)
    BY <1>1, CountWithin
  <2> QED
    BY <1>0, <1>1, <2>1, <2>2
<1>2. CASE j2 = j /\ s2 = s + 1 /\ E2 \subseteq E /\ \E r : R2 \subseteq R \cup {r}
  <2>1. /\ IsFiniteSet(R2) /\ Cardinality(R2) \in Nat
        /\ Cardinality(R2) <= Cardinality(R) + 1
    BY <1>2, CountOneMore
  <2>2. /\ IsFiniteSet(E2) /\ Cardinality(E2) \in Nat
        /\ Cardinality(E2) <= Cardinality(E)
    BY <1>2, CountWithin
  <2> QED
    BY <1>0, <1>2, <2>1, <2>2
<1>3. CASE j2 = j /\ s2 = s + 1 /\ R2 \subseteq R /\ \E u : E2 \subseteq E \cup {u}
  <2>1. /\ IsFiniteSet(R2) /\ Cardinality(R2) \in Nat
        /\ Cardinality(R2) <= Cardinality(R)
    BY <1>3, CountWithin
  <2>2. /\ IsFiniteSet(E2) /\ Cardinality(E2) \in Nat
        /\ Cardinality(E2) <= Cardinality(E) + 1
    BY <1>3, CountOneMore
  <2> QED
    BY <1>0, <1>3, <2>1, <2>2
<1>4. CASE j2 = j + 1 /\ s2 = s /\ E2 \subseteq E /\ \E r \in R : R2 \subseteq R \ {r}
  <2>1. /\ IsFiniteSet(R2) /\ Cardinality(R2) \in Nat
        /\ Cardinality(R2) + 1 <= Cardinality(R)
    BY <1>4, CountOneLess
  <2>2. /\ IsFiniteSet(E2) /\ Cardinality(E2) \in Nat
        /\ Cardinality(E2) <= Cardinality(E)
    BY <1>4, CountWithin
  <2> QED
    BY <1>0, <1>4, <2>1, <2>2
<1>5. CASE j2 = j + 1 /\ s2 = s /\ R2 \subseteq R /\ \E u \in E : E2 \subseteq E \ {u}
  <2>1. /\ IsFiniteSet(R2) /\ Cardinality(R2) \in Nat
        /\ Cardinality(R2) <= Cardinality(R)
    BY <1>5, CountWithin
  <2>2. /\ IsFiniteSet(E2) /\ Cardinality(E2) \in Nat
        /\ Cardinality(E2) + 1 <= Cardinality(E)
    BY <1>5, CountOneLess
  <2> QED
    BY <1>0, <1>5, <2>1, <2>2
<1> QED
  BY <1>1, <1>2, <1>3, <1>4, <1>5 DEF Balanced

(* A mark never takes a counted body away: a row that was absent had none. *)
LEMMA MarkKeepsVersion ==
    ASSUME TypeOK, SnapshotsValid, NEW e \in Entities, NEW X, MarkDirty(e, X),
           NEW x \in Entities
    PROVE  page'[x].summary_version = page[x].summary_version
<1>1. page[e] \in Page
  BY DEF TypeOK
<1>2. Marked(page[e]).summary_version = page[e].summary_version
  BY <1>1 DEF Marked, NoPage, SnapshotsValid, AbsentPage, Page
<1> QED
  BY <1>2 DEF MarkDirty, TypeOK

Account(e) ==
    Balanced(journal[e], RegenRowsDue(e), EditRowsDue(e), page[e].summary_version,
             journal'[e], RegenRowsDue(e)', EditRowsDue(e)',
             page'[e].summary_version)

LEMMA AccountStep ==
    ASSUME TypeOK, SnapshotsValid, [Next]_vars, NEW e \in Entities
    PROVE  Account(e)
<1>0. page[e] \in Page /\ page[e].summary_version \in Nat
  BY DEF TypeOK, Page
<1>1. ASSUME journal' = journal,
             page'[e].summary_version = page[e].summary_version,
             RegenRowsDue(e)' \subseteq RegenRowsDue(e),
             EditRowsDue(e)' \subseteq EditRowsDue(e)
      PROVE  Account(e)
  BY <1>0, <1>1 DEF Account, Balanced
<1>2. ASSUME UNCHANGED regen
      PROVE  RegenRowsDue(e)' \subseteq RegenRowsDue(e)
  BY <1>2 DEF RegenRowsDue
<1>3. ASSUME UNCHANGED editor
      PROVE  EditRowsDue(e)' \subseteq EditRowsDue(e)
  BY <1>3 DEF EditRowsDue
<1>4. ASSUME NEW r \in Regenerators, regen' = [regen EXCEPT ![r] = regen'[r]],
             regen'[r].pc # "journal"
      PROVE  RegenRowsDue(e)' \subseteq RegenRowsDue(e)
  BY <1>4 DEF RegenRowsDue, TypeOK
<1>5. ASSUME NEW u \in Editors, editor' = [editor EXCEPT ![u] = editor'[u]],
             editor'[u].pc # "journal"
      PROVE  EditRowsDue(e)' \subseteq EditRowsDue(e)
  BY <1>5 DEF EditRowsDue, TypeOK
<1>6. CASE WriterStep
  <2>1. UNCHANGED <<journal, regen, editor>>
    BY <1>6 DEF WriterStep, CommitFacts, ChangeFactsUnmarked, ChangeFacts,
                MarkChanged, WriterCrash
  <2>2. ASSUME NEW x \in Entities, NEW X, MarkDirty(x, X)
        PROVE  Account(e)
    BY <1>1, <1>2, <1>3, <2>1, <2>2, MarkKeepsVersion
  <2>3. ASSUME UNCHANGED page
        PROVE  Account(e)
    BY <1>1, <1>2, <1>3, <2>1, <2>3
  <2>4. ASSUME NEW w \in Writers, MarkChanged(w)
        PROVE  Account(e)
    <3>1. writer[w].ent \in Entities
      BY <2>4 DEF MarkChanged, TypeOK, WriterState
    <3> QED
      BY <2>2, <2>4, <3>1 DEF MarkChanged
  <2>5. ASSUME NEW x \in Entities, NEW S \in SUBSET Facts, CommitFacts(x, S)
        PROVE  Account(e)
    <3>1. MarkDirty(x, {})
      BY <2>5 DEF CommitFacts, MarkDirty
    <3> QED
      BY <2>2, <3>1
  <2> QED
    BY <1>6, <2>3, <2>4, <2>5
       DEF WriterStep, ChangeFactsUnmarked, ChangeFacts, WriterCrash
<1>7. CASE EditorStep
  <2>1. ASSUME NEW u \in Editors, NEW x \in Entities, OpenEditor(u, x)
        PROVE  Account(e)
    <3>1. /\ UNCHANGED <<journal, regen, page>>
          /\ editor' = [editor EXCEPT ![u] = editor'[u]]
          /\ editor'[u].pc # "journal"
      BY <2>1 DEF OpenEditor, TypeOK
    <3> QED
      BY <1>1, <1>2, <1>5, <3>1
  <2>2. ASSUME NEW u \in Editors, EditorQuits(u)
        PROVE  Account(e)
    <3>1. /\ UNCHANGED <<journal, regen, page>>
          /\ editor' = [editor EXCEPT ![u] = editor'[u]]
          /\ editor'[u].pc # "journal"
      BY <2>2 DEF EditorQuits, TypeOK, Idle
    <3> QED
      BY <1>1, <1>2, <1>5, <3>1
  <2>3. ASSUME NEW u \in Editors, JournalEdit(u)
        PROVE  Account(e)
    <3>1. /\ UNCHANGED <<page, regen>>
          /\ editor' = [editor EXCEPT ![u] = Idle]
          /\ journal' = [journal EXCEPT ![editor[u].ent] = @ + 1]
          /\ editor[u].pc = "journal"
      BY <2>3 DEF JournalEdit
    <3>2. RegenRowsDue(e)' \subseteq RegenRowsDue(e)
      BY <1>2, <3>1
    <3>3. CASE editor[u].ent = e
      <4>1. journal'[e] = journal[e] + 1
        BY <3>1, <3>3 DEF TypeOK
      <4>2. u \in EditRowsDue(e) /\ EditRowsDue(e)' \subseteq EditRowsDue(e) \ {u}
        BY <3>1, <3>3 DEF EditRowsDue, TypeOK, Idle
      <4> QED
        BY <3>1, <3>2, <4>1, <4>2 DEF Account, Balanced
    <3>4. CASE editor[u].ent # e
      <4>1. journal'[e] = journal[e]
        BY <3>1, <3>4 DEF TypeOK
      <4>2. EditRowsDue(e)' \subseteq EditRowsDue(e)
        BY <3>1 DEF EditRowsDue, TypeOK, Idle
      <4> QED
        BY <1>0, <3>1, <3>2, <4>1, <4>2 DEF Account, Balanced
    <3> QED
      BY <3>3, <3>4
  <2>4. ASSUME NEW u \in Editors, NEW n \in Notes \cup {NoNotes}, SaveEdit(u, n)
        PROVE  Account(e)
    <3>1. PICK x, b : /\ x = editor[u].ent
                      /\ b = [editor[u].body EXCEPT !.notes = n]
      OBVIOUS
    <3>2. /\ UNCHANGED <<journal, regen>>
          /\ page' = [page EXCEPT ![x] = Edited(page[x], b)]
          /\ editor' = [editor EXCEPT ![u] = [pc |-> "journal", ent |-> x]]
      BY <2>4, <3>1 DEF SaveEdit
    <3>3. RegenRowsDue(e)' \subseteq RegenRowsDue(e)
      BY <1>2, <3>2
    <3>4. CASE x = e
      <4>1. page'[e].summary_version = page[e].summary_version + 1
        BY <1>0, <3>2, <3>4 DEF Edited, TypeOK, Page
      <4>2. EditRowsDue(e)' \subseteq EditRowsDue(e) \cup {u}
        BY <3>2 DEF EditRowsDue, TypeOK
      <4> QED
        BY <3>2, <3>3, <4>1, <4>2 DEF Account, Balanced
    <3>5. CASE x # e
      <4>1. page'[e] = page[e]
        BY <3>2, <3>5 DEF TypeOK
      <4>2. EditRowsDue(e)' \subseteq EditRowsDue(e)
        BY <3>2, <3>5 DEF EditRowsDue, TypeOK
      <4> QED
        BY <1>1, <3>2, <3>3, <4>1, <4>2
    <3> QED
      BY <3>4, <3>5
  <2> QED
    BY <1>7, <2>1, <2>2, <2>3, <2>4 DEF EditorStep
<1>8. CASE RegenStep
  <2>1. UNCHANGED editor
    BY <1>8 DEF RegenStep, StartRegen, ReadPage, MakeStub, ReadAtoms, LlmAnswers,
                LlmFails, WriteBack, JournalRegen, RecordFailure, RegenCrash
  <2>2. EditRowsDue(e)' \subseteq EditRowsDue(e)
    BY <1>3, <2>1
  <2>3. ASSUME NEW r \in Regenerators,
               \/ \E x \in Entities : StartRegen(r, x)
               \/ ReadPage(r) \/ ReadAtoms(r)
               \/ \E n \in {NoNotes, LlmNotes} : LlmAnswers(r, n)
               \/ LlmFails(r) \/ RegenCrash(r)
        PROVE  Account(e)
    <3>1. /\ UNCHANGED <<journal, page>>
          /\ regen' = [regen EXCEPT ![r] = regen'[r]]
      BY <2>3 DEF StartRegen, ReadPage, ReadAtoms, LlmAnswers, LlmFails,
                  RegenCrash, TypeOK
    <3>2. regen'[r].pc # "journal"
      BY <2>3 DEF StartRegen, ReadPage, ReadAtoms, LlmAnswers, LlmFails,
                  RegenCrash, TypeOK, Idle, RegenState
    <3> QED
      BY <1>1, <1>4, <2>2, <3>1, <3>2
  <2>4. ASSUME NEW r \in Regenerators, MakeStub(r)
        PROVE  Account(e)
    <3>1. regen[r].ent \in Entities
      BY <2>4 DEF MakeStub, TypeOK, RegenState
    <3>2. /\ UNCHANGED journal
          /\ regen' = [regen EXCEPT ![r] = regen'[r]]
          /\ regen'[r].pc # "journal"
      BY <2>4 DEF MakeStub, TypeOK
    <3>3. page'[e].summary_version = page[e].summary_version
      BY <2>4, <3>1, MarkKeepsVersion DEF MakeStub
    <3> QED
      BY <1>1, <1>4, <2>2, <3>2, <3>3
  <2>5. ASSUME NEW r \in Regenerators, WriteBack(r), Current(r)
        PROVE  Account(e)
    <3>1. PICK x, b : x = regen[r].ent /\ b = regen[r].body
      OBVIOUS
    <3>2. /\ UNCHANGED journal
          /\ page' = [page EXCEPT ![x] = Regenerated(page[x], b)]
          /\ regen' = [regen EXCEPT ![r] = [pc |-> "journal", ent |-> x]]
      BY <2>5, <3>1 DEF WriteBack
    <3>3. CASE x = e
      <4>1. page'[e].summary_version = page[e].summary_version + 1
        BY <1>0, <3>2, <3>3 DEF Regenerated, TypeOK, Page
      <4>2. RegenRowsDue(e)' \subseteq RegenRowsDue(e) \cup {r}
        BY <3>2 DEF RegenRowsDue, TypeOK
      <4> QED
        BY <2>2, <3>2, <4>1, <4>2 DEF Account, Balanced
    <3>4. CASE x # e
      <4>1. page'[e] = page[e]
        BY <3>2, <3>4 DEF TypeOK
      <4>2. RegenRowsDue(e)' \subseteq RegenRowsDue(e)
        BY <3>2, <3>4 DEF RegenRowsDue, TypeOK
      <4> QED
        BY <1>1, <2>2, <3>2, <4>1, <4>2
    <3> QED
      BY <3>3, <3>4
  <2>6. ASSUME NEW r \in Regenerators, WriteBack(r), ~Current(r)
        PROVE  Account(e)
    <3>1. /\ UNCHANGED <<journal, page>>
          /\ regen' = [regen EXCEPT ![r] = regen'[r]]
          /\ regen'[r].pc # "journal"
      BY <2>6 DEF WriteBack, TypeOK, Idle
    <3> QED
      BY <1>1, <1>4, <2>2, <3>1
  <2>7. ASSUME NEW r \in Regenerators, JournalRegen(r)
        PROVE  Account(e)
    <3>1. /\ UNCHANGED page
          /\ regen' = [regen EXCEPT ![r] = Idle]
          /\ journal' = [journal EXCEPT ![regen[r].ent] = @ + 1]
          /\ regen[r].pc = "journal"
      BY <2>7 DEF JournalRegen
    <3>2. CASE regen[r].ent = e
      <4>1. journal'[e] = journal[e] + 1
        BY <3>1, <3>2 DEF TypeOK
      <4>2. r \in RegenRowsDue(e) /\ RegenRowsDue(e)' \subseteq RegenRowsDue(e) \ {r}
        BY <3>1, <3>2 DEF RegenRowsDue, TypeOK, Idle
      <4> QED
        BY <2>2, <3>1, <4>1, <4>2 DEF Account, Balanced
    <3>3. CASE regen[r].ent # e
      <4>1. journal'[e] = journal[e]
        BY <3>1, <3>3 DEF TypeOK
      <4>2. RegenRowsDue(e)' \subseteq RegenRowsDue(e)
        BY <3>1 DEF RegenRowsDue, TypeOK, Idle
      <4> QED
        BY <1>0, <2>2, <3>1, <4>1, <4>2 DEF Account, Balanced
    <3> QED
      BY <3>2, <3>3
  <2>8. ASSUME NEW r \in Regenerators, RecordFailure(r)
        PROVE  Account(e)
    <3>1. PICK x : x = regen[r].ent
      OBVIOUS
    <3>2. /\ UNCHANGED journal
          /\ regen' = [regen EXCEPT ![r] = regen'[r]]
          /\ regen'[r].pc # "journal"
          /\ page' = page \/ page' = [page EXCEPT ![x] = Failed(page[x])]
      BY <2>8, <3>1 DEF RecordFailure, TypeOK, Idle
    <3>4. Failed(page[e]).summary_version = page[e].summary_version
      BY <1>0 DEF Failed, Page
    <3>3. page'[e].summary_version = page[e].summary_version
      BY <3>2, <3>4 DEF TypeOK
    <3> QED
      BY <1>1, <1>4, <2>2, <3>2, <3>3
  <2> QED
    BY <1>8, <2>3, <2>4, <2>5, <2>6, <2>7, <2>8 DEF RegenStep
<1>9. CASE UNCHANGED vars
  BY <1>1, <1>2, <1>3, <1>9 DEF vars
<1> QED
  BY <1>6, <1>7, <1>8, <1>9 DEF Next

(* The journal never reports a body that did not reach the page, with any  *)
(* number of regenerators and users between the write and its row.         *)
THEOREM JournalCorrect == Spec => []JournalNeverAhead
<1>1. Init => JournalInv
  <2> SUFFICES ASSUME Init, NEW e \in Entities
               PROVE  /\ IsFiniteSet(RegenRowsDue(e)) /\ IsFiniteSet(EditRowsDue(e))
                      /\ journal[e] + Cardinality(RegenRowsDue(e))
                           + Cardinality(EditRowsDue(e)) <= page[e].summary_version
    BY DEF JournalInv, RowsDueAreFinite, JournalNeverAhead, RegenRowsDue, EditRowsDue
  <2>1. RegenRowsDue(e) = {} /\ EditRowsDue(e) = {}
    BY DEF Init, Idle, RegenRowsDue, EditRowsDue
  <2>2. journal[e] = 0 /\ page[e].summary_version = 0
    BY DEF Init, NoPage
  <2> QED
    BY <2>1, <2>2, FS_EmptySet
<1>2. TypeOK /\ TypeOK' /\ SnapshotsValid /\ JournalInv /\ [Next]_vars => JournalInv'
  <2> SUFFICES ASSUME TypeOK, TypeOK', SnapshotsValid, JournalInv, [Next]_vars,
                      NEW e \in Entities
               PROVE  /\ IsFiniteSet(RegenRowsDue(e)') /\ IsFiniteSet(EditRowsDue(e)')
                      /\ journal'[e] + Cardinality(RegenRowsDue(e)')
                           + Cardinality(EditRowsDue(e)') <= page'[e].summary_version
    BY DEF JournalInv, RowsDueAreFinite, JournalNeverAhead, RegenRowsDue, EditRowsDue
  <2>1. Account(e)
    BY AccountStep
  <2>2. /\ journal[e] \in Nat /\ journal'[e] \in Nat
        /\ page[e].summary_version \in Nat /\ page'[e].summary_version \in Nat
    BY DEF TypeOK, Page
  <2>3. /\ IsFiniteSet(RegenRowsDue(e)) /\ IsFiniteSet(EditRowsDue(e))
        /\ journal[e] + Cardinality(RegenRowsDue(e))
             + Cardinality(EditRowsDue(e)) <= page[e].summary_version
    BY DEF JournalInv, RowsDueAreFinite, JournalNeverAhead, RegenRowsDue, EditRowsDue
  <2>4. PICK R, E, R2, E2 : /\ R = RegenRowsDue(e) /\ E = EditRowsDue(e)
                            /\ R2 = RegenRowsDue(e)' /\ E2 = EditRowsDue(e)'
    OBVIOUS
  <2>5. PICK j \in Nat, j2 \in Nat, s \in Nat, s2 \in Nat :
           /\ j = journal[e] /\ j2 = journal'[e]
           /\ s = page[e].summary_version /\ s2 = page'[e].summary_version
    BY <2>2
  <2>6. Balanced(j, R, E, s, j2, R2, E2, s2)
    BY <2>1, <2>4, <2>5 DEF Account
  <2>7. /\ IsFiniteSet(R) /\ IsFiniteSet(E)
        /\ j + Cardinality(R) + Cardinality(E) <= s
    BY <2>3, <2>4, <2>5
  <2>8. /\ IsFiniteSet(R2) /\ IsFiniteSet(E2)
        /\ j2 + Cardinality(R2) + Cardinality(E2) <= s2
    BY <2>6, <2>7, AccountKept
  <2> QED
    BY <2>4, <2>5, <2>8
<1>3. JournalInv => JournalNeverAhead
  BY DEF JournalInv
<1> QED
  BY <1>1, <1>2, <1>3, TypeCorrect, SnapshotsCorrect, PTL DEF Spec

=============================================================================
