----------------------------- MODULE EntityPage -----------------------------
(***************************************************************************)
(* The long-form page of an entity and everybody who touches it: the       *)
(* regenerators (pipeline/page/regenerator.py), which read the page, read  *)
(* the facts, call the LLM outside any transaction and write back much     *)
(* later; the writers that change the facts an entity has and mark its     *)
(* page dirty, in one transaction or in two; and the users who edit the    *)
(* page in $EDITOR (adapters/cli/page_cmd.py).  Each backend call is one   *)
(* atomic step (locked_sqlite_operation); every actor may be a thread or a *)
(* process of its own.                                                     *)
(*                                                                         *)
(* A page body is abstracted to what the properties tell apart: `basis',   *)
(* the facts its generated part was written from, and `notes', the block   *)
(* under "## My Notes".  Facts are numbered by creation time.              *)
(***************************************************************************)
EXTENDS Integers, FiniteSets

CONSTANTS
    Entities,      \* entities that own a page
    Facts,         \* atoms, numbered by created_at
    MaxAtoms,      \* DEFAULT_MAX_ATOMS_PER_REGEN
    Regenerators,  \* threads or processes inside regenerate_page
    Writers,       \* threads or processes that mark a page after the fact
    Editors,       \* users inside `memory page edit'
    Notes,         \* texts a user may leave under "## My Notes"
    LlmNotes,      \* a "## My Notes" block the model made up
    NoNotes,       \* no such block in the body
    MaxVersion,    \* bound: no new mark, edit or attempt past this revision
    MaxAttempts    \* bound: no new attempt after this many failures

ASSUME FactsAssumption == Facts \subseteq Nat /\ IsFiniteSet(Facts)
ASSUME BoundsAssumption ==
    MaxAtoms \in Nat /\ MaxVersion \in Nat /\ MaxAttempts \in Nat
ASSUME NotesAssumption ==
    /\ NoNotes \notin Notes
    /\ LlmNotes \notin Notes
    /\ NoNotes # LlmNotes

VARIABLES
    facts,    \* facts[e]: the live (not deprecated) atoms of e
    page,     \* page[e]: the row of e in entity_pages
    journal,  \* journal[e]: how many page_regen and page_user_edit rows e has
    regen,    \* regen[r]: where regenerate_page of r is, and what it holds
    writer,   \* writer[w]: the entity whose page w still has to mark
    editor,   \* editor[u]: the body u has open in $EDITOR
    owed,     \* history: facts of e changed since the last mark of its page
    forked,   \* history: e was saved from a body older than the one it replaced
    overtaken \* history: somebody changed r's page since r read it

vars == <<facts, page, journal, regen, writer, editor, owed, forked, overtaken>>

AnyNotes == Notes \cup {NoNotes, LlmNotes}

Body == [basis : SUBSET Facts, notes : AnyNotes]

EmptyBody == [basis |-> {}, notes |-> NoNotes]

Page == [exists : BOOLEAN, body : Body, dirty : BOOLEAN,
         regen_attempt_count : Nat, summary_version : Nat,
         mutation_version : Nat]

NoPage == [exists |-> FALSE, body |-> EmptyBody, dirty |-> FALSE,
           regen_attempt_count |-> 0, summary_version |-> 0,
           mutation_version |-> 0]

Idle == [pc |-> "idle"]

(* What list_atoms(entity_id, include_deprecated=False, limit=max_atoms)   *)
(* returns: the newest live atoms.                                         *)
Newest(S) == {f \in S : Cardinality({g \in S : g > f}) < MaxAtoms}

(* merge_user_notes: a preserved block replaces the model's own, and with  *)
(* none preserved the generated body is returned as it is.                 *)
MergedNotes(generated, preserved) ==
    IF preserved = NoNotes THEN generated ELSE preserved

(***************************************************************************)
(* The rows of entity_pages, one operator per statement.                   *)
(***************************************************************************)

(* Mutant: marking a page that is already there forgets to advance it.     *)
MarkedInPlace(p) == [p EXCEPT !.exists = TRUE, !.dirty = TRUE]

(* mark_entity_page_dirty: insert a dirty stub, or mark and advance.       *)
Marked(p) ==
    IF p.exists THEN [p EXCEPT !.dirty = TRUE, !.mutation_version = @ + 1]
                ELSE [NoPage EXCEPT !.exists = TRUE, !.dirty = TRUE]

(* Mutant: the statement that replaces the body loses its counter.         *)
RegeneratedUncounted(p, body) ==
    [p EXCEPT !.body = body, !.dirty = FALSE, !.regen_attempt_count = 0,
              !.mutation_version = @ + 1]

(* apply_entity_page_regen, when its WHERE clause matches.                 *)
Regenerated(p, body) ==
    [p EXCEPT !.body = body, !.dirty = FALSE, !.regen_attempt_count = 0,
              !.summary_version = @ + 1, !.mutation_version = @ + 1]

(* Mutant: the failures left are counted down instead of counted up.       *)
FailedCountdown(p) == [p EXCEPT !.regen_attempt_count = @ - 1, !.dirty = TRUE]

(* record_entity_page_regen_failure, when its WHERE clause matches.        *)
Failed(p) == [p EXCEPT !.regen_attempt_count = @ + 1, !.dirty = TRUE]

(* Mutant: a user edit does not invalidate generations in flight.          *)
EditedInPlace(p, body) == [p EXCEPT !.body = body, !.summary_version = @ + 1]

(* apply_entity_page_user_edit: no revision is compared, dirty is left.    *)
Edited(p, body) ==
    [p EXCEPT !.body = body, !.summary_version = @ + 1,
              !.mutation_version = @ + 1]

(* Mutant: an attempt writes whatever the row holds by now.                *)
CurrentUnchecked(r) == regen[r].pc # "idle"

(* The clause `mutation_version = expected_mutation_version'.              *)
Current(r) == page[regen[r].ent].mutation_version = regen[r].ver

-----------------------------------------------------------------------------

Init ==
    /\ facts = [e \in Entities |-> {}]
    /\ page = [e \in Entities |-> NoPage]
    /\ journal = [e \in Entities |-> 0]
    /\ regen = [r \in Regenerators |-> Idle]
    /\ writer = [w \in Writers |-> Idle]
    /\ editor = [u \in Editors |-> Idle]
    /\ owed = [e \in Entities |-> FALSE]
    /\ forked = [e \in Entities |-> FALSE]
    /\ overtaken = [r \in Regenerators |-> FALSE]

(* Everybody else who holds a snapshot of e has been overtaken.            *)
Overtake(e, except) ==
    overtaken' = [r \in Regenerators |->
        overtaken[r] \/ (/\ r \notin except
                         /\ regen[r].pc # "idle"
                         /\ regen[r].ent = e)]

MarkDirty(e, except) ==
    /\ page' = [page EXCEPT ![e] = Marked(@)]
    /\ owed' = [owed EXCEPT ![e] = FALSE]
    /\ Overtake(e, except)

(***************************************************************************)
(* Writers.                                                                *)
(***************************************************************************)

(* One transaction changes the atoms and marks the page: create_atom,      *)
(* replace_atom, _store_manual_atom, and PromotionWorker._apply_promote.   *)
CommitFacts(e, S) ==
    /\ page[e].mutation_version < MaxVersion
    /\ S # facts[e]
    /\ facts' = [facts EXCEPT ![e] = S]
    /\ page' = [page EXCEPT ![e] = Marked(@)]
    /\ owed' = [owed EXCEPT ![e] = FALSE]
    /\ Overtake(e, {})
    /\ UNCHANGED <<journal, regen, writer, editor, forked>>

(* deprecate_atom, delete, merge_entity (for the target) and consolidation *)
(* change the atoms first and mark the page in a later statement.          *)
ChangeFacts(w, e, S) ==
    /\ writer[w].pc = "idle"
    /\ page[e].mutation_version < MaxVersion
    /\ S # facts[e]
    /\ facts' = [facts EXCEPT ![e] = S]
    /\ writer' = [writer EXCEPT ![w] = [pc |-> "mark", ent |-> e]]
    /\ owed' = [owed EXCEPT ![e] = TRUE]
    /\ UNCHANGED <<page, journal, regen, editor, forked, overtaken>>

MarkChanged(w) ==
    /\ writer[w].pc = "mark"
    /\ writer' = [writer EXCEPT ![w] = Idle]
    /\ MarkDirty(writer[w].ent, {})
    /\ UNCHANGED <<facts, journal, regen, editor, forked>>

(* The fallback pass adds an atom, and merge_entity takes the atoms of the *)
(* source away, without marking that page at all.                          *)
ChangeFactsUnmarked(e, S) ==
    /\ page[e].mutation_version < MaxVersion
    /\ S # facts[e]
    /\ facts' = [facts EXCEPT ![e] = S]
    /\ owed' = [owed EXCEPT ![e] = TRUE]
    /\ UNCHANGED <<page, journal, regen, writer, editor, forked, overtaken>>

(* The process dies between the two statements.                            *)
WriterCrash(w) ==
    /\ writer[w].pc = "mark"
    /\ writer' = [writer EXCEPT ![w] = Idle]
    /\ UNCHANGED <<facts, page, journal, regen, editor, owed, forked, overtaken>>

(***************************************************************************)
(* `memory page edit': read the page, leave it in $EDITOR for as long as   *)
(* the user likes, save the whole body over whatever the row holds now.    *)
(***************************************************************************)

OpenEditor(u, e) ==
    /\ editor[u].pc = "idle"
    /\ page[e].exists
    /\ page[e].mutation_version < MaxVersion
    /\ editor' = [editor EXCEPT
                    ![u] = [pc |-> "open", ent |-> e, body |-> page[e].body]]
    /\ UNCHANGED <<facts, page, journal, regen, writer, owed, forked, overtaken>>

SaveEdit(u, n) ==
    LET e == editor[u].ent
        b == [editor[u].body EXCEPT !.notes = n]
    IN  /\ editor[u].pc = "open"
        /\ n # editor[u].body.notes
        /\ page[e].exists
        /\ page' = [page EXCEPT ![e] = Edited(@, b)]
        /\ forked' = [forked EXCEPT ![e] = @ \/ b.basis # page[e].body.basis]
        /\ editor' = [editor EXCEPT ![u] = [pc |-> "journal", ent |-> e]]
        /\ Overtake(e, {})
        /\ UNCHANGED <<facts, journal, regen, writer, owed>>

JournalEdit(u) ==
    /\ editor[u].pc = "journal"
    /\ journal' = [journal EXCEPT ![editor[u].ent] = @ + 1]
    /\ editor' = [editor EXCEPT ![u] = Idle]
    /\ UNCHANGED <<facts, page, regen, writer, owed, forked, overtaken>>

(* "No changes.", a non-zero exit of the editor, or a kill at any point.   *)
EditorQuits(u) ==
    /\ editor[u].pc # "idle"
    /\ editor' = [editor EXCEPT ![u] = Idle]
    /\ UNCHANGED <<facts, page, journal, regen, writer, owed, forked, overtaken>>

(***************************************************************************)
(* regenerate_page, one action per backend call or LLM answer.             *)
(***************************************************************************)

StartRegen(r, e) ==
    /\ regen[r].pc = "idle"
    /\ page[e].mutation_version < MaxVersion
    /\ page[e].regen_attempt_count < MaxAttempts
    /\ regen' = [regen EXCEPT ![r] = [pc |-> "page", ent |-> e]]
    /\ overtaken' = [overtaken EXCEPT ![r] = FALSE]
    /\ UNCHANGED <<facts, page, journal, writer, editor, owed, forked>>

(* get_entity_page: the revision and the user's notes, or no row yet.      *)
ReadPage(r) ==
    LET e == regen[r].ent
    IN  /\ regen[r].pc = "page"
        /\ regen' = [regen EXCEPT ![r] =
             IF page[e].exists
             THEN [pc |-> "atoms", ent |-> e, ver |-> page[e].mutation_version,
                   kept |-> page[e].body.notes]
             ELSE [pc |-> "stub", ent |-> e]]
        /\ overtaken' = [overtaken EXCEPT ![r] = FALSE]
        /\ UNCHANGED <<facts, page, journal, writer, editor, owed, forked>>

(* Materialize a stub before taking the snapshot, then read it.            *)
MakeStub(r) ==
    /\ regen[r].pc = "stub"
    /\ regen' = [regen EXCEPT ![r] = [pc |-> "page", ent |-> regen[r].ent]]
    /\ MarkDirty(regen[r].ent, {r})
    /\ UNCHANGED <<facts, journal, writer, editor, forked>>

(* list_atoms; an entity without atoms gets an empty page and no LLM call. *)
ReadAtoms(r) ==
    LET basis == Newest(facts[regen[r].ent])
    IN  /\ regen[r].pc = "atoms"
        /\ regen' = [regen EXCEPT ![r] =
             [pc |-> IF basis = {} THEN "write" ELSE "llm",
              ent |-> @.ent, ver |-> @.ver,
              body |-> [basis |-> basis,
                        notes |-> MergedNotes(NoNotes, @.kept)]]]
        /\ UNCHANGED <<facts, page, journal, writer, editor, owed, forked, overtaken>>

(* The model answers, with or without a notes block of its own.            *)
LlmAnswers(r, generated) ==
    /\ regen[r].pc = "llm"
    /\ regen' = [regen EXCEPT ![r].pc = "write",
                              ![r].body.notes = MergedNotes(generated, @)]
    /\ UNCHANGED <<facts, page, journal, writer, editor, owed, forked, overtaken>>

(* LLMClientError, or output that is not a JSON object.                    *)
LlmFails(r) ==
    /\ regen[r].pc = "llm"
    /\ regen' = [regen EXCEPT ![r].pc = "fail"]
    /\ UNCHANGED <<facts, page, journal, writer, editor, owed, forked, overtaken>>

(* _apply_success: the conditional update, then a page_regen row only if   *)
(* it matched (a stale_snapshot row otherwise, which is not counted).      *)
WriteBack(r) ==
    LET e == regen[r].ent
    IN  /\ regen[r].pc = "write"
        /\ IF Current(r)
           THEN /\ page' = [page EXCEPT ![e] = Regenerated(@, regen[r].body)]
                /\ forked' = [forked EXCEPT ![e] = FALSE]
                /\ regen' = [regen EXCEPT ![r] = [pc |-> "journal", ent |-> e]]
                /\ Overtake(e, {r})
           ELSE /\ regen' = [regen EXCEPT ![r] = Idle]
                /\ UNCHANGED <<page, forked, overtaken>>
        /\ UNCHANGED <<facts, journal, writer, editor, owed>>

JournalRegen(r) ==
    /\ regen[r].pc = "journal"
    /\ journal' = [journal EXCEPT ![regen[r].ent] = @ + 1]
    /\ regen' = [regen EXCEPT ![r] = Idle]
    /\ UNCHANGED <<facts, page, writer, editor, owed, forked, overtaken>>

(* _apply_failure: the conditional update, and a page_regen_failed row.    *)
RecordFailure(r) ==
    LET e == regen[r].ent
    IN  /\ regen[r].pc = "fail"
        /\ page' = IF Current(r) THEN [page EXCEPT ![e] = Failed(@)] ELSE page
        /\ regen' = [regen EXCEPT ![r] = Idle]
        /\ UNCHANGED <<facts, journal, writer, editor, owed, forked, overtaken>>

(* The process dies anywhere inside regenerate_page.                       *)
RegenCrash(r) ==
    /\ regen[r].pc # "idle"
    /\ regen' = [regen EXCEPT ![r] = Idle]
    /\ UNCHANGED <<facts, page, journal, writer, editor, owed, forked, overtaken>>

-----------------------------------------------------------------------------

WriterStep ==
    \/ \E e \in Entities, S \in SUBSET Facts :
          CommitFacts(e, S) \/ ChangeFactsUnmarked(e, S)
    \/ \E w \in Writers :
          \/ \E e \in Entities, S \in SUBSET Facts : ChangeFacts(w, e, S)
          \/ MarkChanged(w)
          \/ WriterCrash(w)

EditorStep ==
    \E u \in Editors :
       \/ \E e \in Entities : OpenEditor(u, e)
       \/ \E n \in Notes \cup {NoNotes} : SaveEdit(u, n)
       \/ JournalEdit(u)
       \/ EditorQuits(u)

RegenStep ==
    \E r \in Regenerators :
       \/ \E e \in Entities : StartRegen(r, e)
       \/ ReadPage(r) \/ MakeStub(r) \/ ReadAtoms(r)
       \/ \E n \in {NoNotes, LlmNotes} : LlmAnswers(r, n)
       \/ LlmFails(r) \/ WriteBack(r) \/ JournalRegen(r)
       \/ RecordFailure(r) \/ RegenCrash(r)

Next == WriterStep \/ EditorStep \/ RegenStep

Spec == Init /\ [][Next]_vars

-----------------------------------------------------------------------------

RegenState ==
    [pc : {"idle"}]
    \cup [pc : {"page", "stub", "journal"}, ent : Entities]
    \cup [pc : {"atoms"}, ent : Entities, ver : Nat, kept : AnyNotes]
    \cup [pc : {"llm", "write", "fail"}, ent : Entities, ver : Nat, body : Body]

WriterState == [pc : {"idle"}] \cup [pc : {"mark"}, ent : Entities]

EditorState ==
    [pc : {"idle"}] \cup [pc : {"open"}, ent : Entities, body : Body]
    \cup [pc : {"journal"}, ent : Entities]

(* The variables hold rows and local states of the right shape.            *)
TypeOK ==
    /\ facts \in [Entities -> SUBSET Facts]
    /\ page \in [Entities -> Page]
    /\ journal \in [Entities -> Nat]
    /\ regen \in [Regenerators -> RegenState]
    /\ writer \in [Writers -> WriterState]
    /\ editor \in [Editors -> EditorState]
    /\ owed \in [Entities -> BOOLEAN]
    /\ forked \in [Entities -> BOOLEAN]
    /\ overtaken \in [Regenerators -> BOOLEAN]

(* A page that is not dirty was written from the newest live atoms of its  *)
(* entity, however many regenerations were in flight while they changed:   *)
(* no write-back clears a mark made after its snapshot.  Two gaps of the   *)
(* code are named, not hidden: a fact change whose mark has not been made  *)
(* (owed), and an editor saved over a body newer than the one it opened    *)
(* (forked).                                                               *)
CleanPageIsCurrent ==
    \A e \in Entities :
        page[e].exists /\ ~page[e].dirty /\ ~owed[e] /\ ~forked[e]
            => page[e].body.basis = Newest(facts[e])

(* A block the user wrote under "## My Notes" is changed by an editor that *)
(* saves and by nothing else: not by a regeneration that read the page     *)
(* before the block was written, nor by a model that emits its own.        *)
UserNotesSurvive ==
    [][\A e \in Entities :
          page[e].body.notes \in Notes /\ page'[e].body.notes # page[e].body.notes
              => \E u \in Editors :
                    /\ editor[u].pc = "open"
                    /\ editor[u].ent = e
                    /\ editor'[u].pc = "journal"]_vars

(* The result of an attempt, good or bad, whose page somebody else marked, *)
(* edited or regenerated since it read it leaves the page as it is: a late *)
(* failure cannot make a newer page dirty again, a late success cannot     *)
(* replace it.                                                             *)
LateResultIsInert ==
    [][\A r \in Regenerators :
          overtaken[r] /\ regen[r].pc \in {"write", "fail"} /\ regen'[r] # regen[r]
              => page' = page]_vars

(* The journal never reports a regeneration or an edit that did not reach  *)
(* the page: rows written, plus those about to be, never outnumber the     *)
(* bodies that summary_version counts.                                     *)
JournalNeverAhead ==
    \A e \in Entities :
        journal[e]
          + Cardinality({r \in Regenerators : regen[r].pc = "journal" /\ regen[r].ent = e})
          + Cardinality({u \in Editors : editor[u].pc = "journal" /\ editor[u].ent = e})
        <= page[e].summary_version

-----------------------------------------------------------------------------

(* What makes the revision check enough, and the two properties above      *)
(* inductive: what an attempt holds is still true of its page as long as   *)
(* the page has the revision the attempt read.                             *)
Holding(r) == regen[r].pc \in {"atoms", "llm", "write", "fail"}

SnapshotValid(r) ==
    Holding(r) =>
        LET e == regen[r].ent
        IN  /\ page[e].exists
            /\ regen[r].ver <= page[e].mutation_version
            /\ overtaken[r] => regen[r].ver < page[e].mutation_version
            /\ Current(r) /\ regen[r].pc = "atoms"
                  => regen[r].kept = page[e].body.notes
            /\ Current(r) /\ regen[r].pc \in {"llm", "write"}
                  => /\ page[e].body.notes \in Notes
                           => regen[r].body.notes = page[e].body.notes
                     /\ owed[e] \/ regen[r].body.basis = Newest(facts[e])

(* A page without a row: nobody marked it, so no fact was ever committed   *)
(* with a mark.                                                            *)
AbsentPage(e) ==
    ~page[e].exists =>
        /\ page[e] = NoPage
        /\ ~forked[e]
        /\ owed[e] \/ facts[e] = {}

(* An attempt whose revision is still the page's holds the page's notes    *)
(* and the newest facts, and a page never made has nothing to show.        *)
SnapshotsValid ==
    /\ \A r \in Regenerators : SnapshotValid(r)
    /\ \A e \in Entities : AbsentPage(e)

-----------------------------------------------------------------------------

(* The refinement: a page is due while it is dirty, and also in the two    *)
(* gaps above, in which the code does not know it is.                      *)
Contract == INSTANCE PageContract WITH
    basis <- [e \in Entities |-> page[e].body.basis],
    notes <- [e \in Entities |-> page[e].body.notes],
    due <- [e \in Entities |-> page[e].dirty \/ owed[e] \/ forked[e]]

(* Regenerations that read, think and write in separate steps behave, to   *)
(* whoever looks at the pages, as if each were one atomic refresh.         *)
ImplementsContract == Contract!Spec

=============================================================================
