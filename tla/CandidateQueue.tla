--------------------------- MODULE CandidateQueue ---------------------------
(***************************************************************************)
(* From a candidate to an atom, or not: the promotion worker with its five *)
(* checks, the user who approves, rejects or merges (dashboard and review  *)
(* command), and the fallback pass.  All of them read a list of candidates,*)
(* or one, and then decide on the objects they read; the status is written *)
(* by id alone.  Only the worker writes an atom, the status and the journal*)
(* in one transaction.                                                     *)
(*                                                                         *)
(* A process is a promotion pass, a review session or a fallback run; it   *)
(* may crash between any two of its calls.  The counts, leaves and pages   *)
(* that go with an atom are in AtomStore and EntityPage.                   *)
(***************************************************************************)
EXTENDS Naturals, Sequences, FiniteSets

CONSTANTS
    MaxCands,     \* bound: candidates 1..MaxCands, in order of creation
    Scenes,       \* drafts: what each candidate says; and the bounds: the
                  \* processes, the requests of users (asks) and the crashes
    Procs,
    Batch,        \* the limit of a list
    StaleDays,
    Threshold,    \* rejections after which an assertion is escalated
    Placeholder,  \* the generic name of the user
    Nobody        \* an empty subject name

Cands == 1..MaxCands

ASSUME QueueAssumption ==
    /\ MaxCands \in Nat /\ Batch \in Nat \ {0} /\ StaleDays \in Nat
    /\ \A s \in Scenes : s.asks \in Nat /\ s.crashes \in Nat /\ s.procs \subseteq Procs
    /\ \A s \in Scenes, c \in Cands :
          /\ s.drafts[c].user \in BOOLEAN /\ s.drafts[c].neg \in BOOLEAN
          /\ s.drafts[c].worth \in {"fine", "trivial", "unproven"}

VARIABLES
    draft,      \* draft[c]: subject, says, neg, user, worth (never changes)
    row,        \* row[c]: status, days since it was decided, target entity
    ents,       \* ents[e]: name, user
    aliases,    \* pairs of a name and an entity
    atoms,      \* atoms[i]: from (candidate), ent, how, live
    journal,    \* rows: action, candidate, atom
    proc,       \* proc[p]: what a process does
    asks,       \* requests users may still make
    crashes,    \* crashes still to come
    into,       \* history: the atom a user merged c into
    contested   \* history: candidates two processes held at once, or a crash
                \* left between two writes

vars == <<draft, row, ents, aliases, atoms, journal, proc, asks, crashes,
          into, contested>>

Open == {"pending", "needs_review", "conflict"}
Idle == [pc |-> "idle", mode |-> "auto", todo |-> {}, c |-> 0, ent |-> 0,
         hit |-> 0, act |-> "promote"]

Init ==
    /\ \E s \in Scenes : /\ draft = s.drafts
                        /\ asks = s.asks /\ crashes = s.crashes
                        /\ proc = [p \in s.procs |-> Idle]
    /\ row = [c \in Cands |-> [status |-> "none", age |-> 0, ent |-> 0]]
    /\ ents = <<>> /\ aliases = {} /\ atoms = <<>> /\ journal = {}
    /\ into = [c \in Cands |-> 0]
    /\ contested = {}

-----------------------------------------------------------------------------
(* Rows.                                                                   *)

Listed(s) ==
    LET all == {c \in Cands : row[c].status = s}
    IN  {c \in all : Cardinality({d \in all : d > c}) < Batch}

Stored(c) == row[c].status \notin {"none", "skipped"}

(* UPDATE ... WHERE id: nothing happens when there is no such row.         *)
Decided(c, s, e) ==
    IF Stored(c) THEN [row EXCEPT ![c] = [status |-> s, age |-> 0, ent |-> e]]
                 ELSE row

Same(c, d) == draft[c] = draft[d]
Tells(i, c) == /\ draft[atoms[i].from].says = draft[c].says
               /\ draft[atoms[i].from].neg = draft[c].neg
Denies(i, c) == /\ draft[atoms[i].from].says = draft[c].says
                /\ draft[atoms[i].from].neg # draft[c].neg
Live == {i \in 1..Len(atoms) : atoms[i].live}

(* Checks 1 and 2: whether the assertion is worth keeping, and whether it  *)
(* has the evidence its kind needs.                                        *)
Trivial(c) == draft[c].worth = "trivial"
Unproven(c) == draft[c].worth = "unproven"

(* The alias of the subject, unless there is none.                         *)
WithAlias(c, e) ==
    aliases \cup IF draft[c].subject = Nobody THEN {} ELSE {<<draft[c].subject, e>>}

(* check_entity: the entities it may return; none when it proposes a new   *)
(* one.  The model, if there is one, may pick any entity of the type.  The *)
(* review command does not know that there is one user.                    *)
ByType(c) == {e \in 1..Len(ents) : ents[e].user = draft[c].user}
ByName(c) == {e \in ByType(c) : ents[e].name = draft[c].subject}
ByAlias(c) == {e \in 1..Len(ents) : <<draft[c].subject, e>> \in aliases}

Found(c, mode, model) ==
    IF draft[c].user /\ ByType(c) # {} /\ mode # "review" THEN ByType(c)
    ELSE IF draft[c].subject = Nobody THEN {}
    ELSE IF ByAlias(c) # {} THEN ByAlias(c)
    ELSE IF ByName(c) # {} THEN ByName(c)
    ELSE IF model THEN ByType(c) ELSE {}

(* check_duplicate and check_conflict on the live atoms of e.              *)
Duplicates(c, e) ==
    LET own == {i \in Live : atoms[i].ent = e /\ Tells(i, c)}
    IN  IF own = {} /\ draft[c].user THEN {i \in Live : Tells(i, c)} ELSE own
Conflicts(c, e) == {i \in Live : atoms[i].ent = e /\ Denies(i, c)}

NewAtom(p, how) == [from |-> proc[p].c, ent |-> proc[p].ent, how |-> how,
                    live |-> TRUE]

-----------------------------------------------------------------------------
(* Starting: a process reads candidates and keeps the objects.             *)

Held(p) == {x.c : x \in proc[p].todo} \cup
           IF proc[p].pc \in {"idle", "next"} THEN {} ELSE {proc[p].c}
Takes(p, cs, mode) ==
    /\ proc[p].pc = "idle"
    /\ proc' = [proc EXCEPT ![p] =
         [Idle EXCEPT !.pc = "next", !.mode = mode,
                      !.todo = {[c |-> c, ent |-> row[c].ent] : c \in cs}]]
    /\ contested' = contested \cup
         {c \in cs : \E q \in DOMAIN proc \ {p} : c \in Held(q)}

(* The extracted candidate is stored unless a promoted one says the same   *)
(* of the same events; the worker gets it either way.                      *)
Extract(p, c, promote) ==
    /\ row[c].status = "none"
    /\ \A d \in Cands : d < c => row[d].status # "none"
    /\ row' = [row EXCEPT ![c].status =
                 IF \E d \in Cands : Same(c, d) /\ row[d].status = "promoted"
                 THEN "skipped" ELSE "pending"]
    /\ IF promote THEN Takes(p, {c}, "auto")
                  ELSE UNCHANGED <<proc, contested>>
    /\ UNCHANGED <<draft, ents, aliases, atoms, journal, asks, crashes, into>>

PromotePending(p) ==
    /\ Listed("pending") # {}
    /\ Takes(p, Listed("pending"), "auto")
    /\ UNCHANGED <<draft, row, ents, aliases, atoms, journal, asks, crashes, into>>

(* promote --candidate-id, and the dashboard's button.                     *)
PromoteOne(p, c) ==
    /\ asks > 0 /\ asks' = asks - 1
    /\ row[c].status \in Open
    /\ \/ Takes(p, {c}, "auto")
       \/ row[c].status # "pending" /\ Takes(p, {c}, "approve")
    /\ UNCHANGED <<draft, row, ents, aliases, atoms, journal, crashes, into>>

(* Defect: any candidate may be rejected, also a promoted one.             *)
RejectOneAnyway(p, c) ==
    /\ asks > 0 /\ asks' = asks - 1
    /\ Stored(c)
    /\ Takes(p, {c}, "reject")
    /\ UNCHANGED <<draft, row, ents, aliases, atoms, journal, crashes, into>>

RejectOne(p, c) ==
    /\ asks > 0 /\ asks' = asks - 1
    /\ row[c].status \in Open
    /\ Takes(p, {c}, "reject")
    /\ UNCHANGED <<draft, row, ents, aliases, atoms, journal, crashes, into>>

Review(p, s) ==
    /\ asks > 0 /\ asks' = asks - 1
    /\ Listed(s) # {}
    /\ Takes(p, Listed(s), "review")
    /\ UNCHANGED <<draft, row, ents, aliases, atoms, journal, crashes, into>>

Fallback(p) ==
    /\ Takes(p, {c \in Listed("needs_review") : row[c].age >= StaleDays}, "stale")
    /\ UNCHANGED <<draft, row, ents, aliases, atoms, journal, asks, crashes, into>>

-----------------------------------------------------------------------------
(* Deciding.                                                               *)

Goes(p, pc, ent, hit, act) ==
    proc' = [proc EXCEPT ![p].pc = pc, ![p].ent = ent, ![p].hit = hit,
                         ![p].act = act]

(* The pass goes on with x: out of the list, with a first verdict.         *)
Begins(p, x, pc, ent, hit, act) ==
    /\ proc[p].pc = "next"
    /\ proc' = [proc EXCEPT ![p].todo = @ \ {x}, ![p].c = x.c, ![p].pc = pc,
                            ![p].ent = ent, ![p].hit = hit, ![p].act = act]

(* The pass is done with its candidate.                                    *)
GoesOn(p, left) ==
    proc' = [proc EXCEPT ![p] = [Idle EXCEPT !.pc = "next", !.mode = proc[p].mode,
                                             !.todo = left]]

(* Checks 1 and 2, and a user's rejection.                                 *)
Drop(p, x) ==
    /\ \/ proc[p].mode = "auto" /\ Trivial(x.c)
       \/ proc[p].mode \in {"reject", "review"}
    /\ Begins(p, x, "journal", 0, 0, "reject")
    /\ row' = Decided(x.c, "rejected", row[x.c].ent)
    /\ UNCHANGED <<draft, ents, aliases, atoms, journal, asks, crashes, into, contested>>

Park(p, x) ==
    /\ \/ /\ proc[p].mode = "auto" /\ ~Trivial(x.c)
          /\ Unproven(x.c) \/ draft[x.c].subject = Nobody
       \/ proc[p].mode = "approve" /\ draft[x.c].subject = Nobody /\ x.ent = 0
    /\ proc[p].pc = "next" /\ GoesOn(p, proc[p].todo \ {x})
    /\ row' = Decided(x.c, "needs_review", row[x.c].ent)
    /\ UNCHANGED <<draft, ents, aliases, atoms, journal, asks, crashes, into, contested>>

(* Check 3.  When the subject is the name of another entity, the worker    *)
(* folds that one into the one it found.                                   *)
Folded(p, c, e) ==
    LET twin == ByName(c) \ {e}
        told(i) == \E j \in Live : atoms[j].ent = e /\ Tells(j, atoms[i].from)
    IN  IF proc[p].mode = "auto" /\ twin # {}
        THEN [i \in DOMAIN atoms |->
                IF i \in Live /\ atoms[i].ent = (CHOOSE t \in twin : TRUE)
                THEN IF told(i) THEN [atoms[i] EXCEPT !.live = FALSE]
                                ELSE [atoms[i] EXCEPT !.ent = e]
                ELSE atoms[i]]
        ELSE atoms

Resolve(p, x) ==
    LET mode == proc[p].mode
        checked == mode \in {"auto", "approve"}
        c == x.c
        given == IF mode = "review" \/ (mode = "approve" /\ draft[c].subject = Nobody)
                 THEN {x.ent} \ {0} ELSE {}
    IN  /\ mode \in {"auto", "approve", "review", "stale"}
        /\ mode = "auto" => ~Trivial(c) /\ ~Unproven(c) /\ draft[c].subject # Nobody
        /\ \/ \E e \in IF given # {} THEN given ELSE Found(c, mode, checked) :
                /\ Begins(p, x, IF checked THEN "check"
                                ELSE IF mode = "review" /\ given = {} THEN "alias"
                                ELSE "write", e, 0, "promote")
                /\ atoms' = Folded(p, c, e)
           \/ /\ given = {} /\ Found(c, mode, FALSE) = {}
              /\ checked => draft[c].subject # Nobody
              /\ Begins(p, x, "create", 0, 0, "promote")
              /\ UNCHANGED atoms
        /\ UNCHANGED <<draft, row, ents, aliases, journal, asks, crashes, into,
                       contested>>

Create(p) ==
    LET c == proc[p].c
        e == Len(ents) + 1
        checked == proc[p].mode \in {"auto", "approve"}
    IN  /\ proc[p].pc = "create"
        /\ ents' = Append(ents, [name |-> draft[c].subject, user |-> draft[c].user])
        /\ Goes(p, IF checked THEN "check" ELSE "alias", e, 0, "promote")
        /\ UNCHANGED <<draft, row, aliases, atoms, journal, asks, crashes, into, contested>>

(* Without the worker: the name leads to the entity that was made, and in  *)
(* a review also to the one that was found.                                *)
Alias(p) ==
    /\ proc[p].pc = "alias"
    /\ aliases' = WithAlias(proc[p].c, proc[p].ent)
    /\ Goes(p, "write", proc[p].ent, 0, "promote")
    /\ UNCHANGED <<draft, row, ents, atoms, journal, asks, crashes, into, contested>>

(* Checks 4 and 5 read one after the other; what they found is used in the *)
(* next step.                                                              *)
Check(p) ==
    LET c == proc[p].c
        e == proc[p].ent
    IN  /\ proc[p].pc = "check"
        /\ \/ \E i \in Duplicates(c, e) : Goes(p, "verdict", atoms[i].ent, i, "merge")
           \/ Duplicates(c, e) = {} /\ Goes(p, "compare", e, 0, "promote")
        /\ UNCHANGED <<draft, row, ents, aliases, atoms, journal, asks, crashes,
                       into, contested>>

Compare(p) ==
    LET found == Conflicts(proc[p].c, proc[p].ent)
        approve == proc[p].mode = "approve"
    IN  /\ proc[p].pc = "compare"
        /\ \/ \E i \in found :
                IF approve THEN Goes(p, "write", proc[p].ent, i, "promote")
                           ELSE Goes(p, "verdict", proc[p].ent, i, "conflict")
           \/ found = {} /\ Goes(p, "write", proc[p].ent, 0, "promote")
        /\ UNCHANGED <<draft, row, ents, aliases, atoms, journal, asks, crashes,
                       into, contested>>

(* _apply_merge and _apply_conflict.                                       *)
Verdict(p) ==
    /\ proc[p].pc = "verdict"
    /\ row' = Decided(proc[p].c,
                      IF proc[p].act = "merge" THEN "promoted" ELSE "conflict",
                      proc[p].ent)
    /\ proc' = [proc EXCEPT ![p].pc = "journal"]
    /\ UNCHANGED <<draft, ents, aliases, atoms, journal, asks, crashes, into, contested>>

Entry(p, i) == [act |-> proc[p].act, c |-> proc[p].c, atom |-> i]

(* _apply_promote: one transaction, rolled back when the atom to supersede *)
(* is no longer live.                                                      *)
RealName(e, c) ==
    IF draft[c].user /\ ents[e].name = Placeholder
    THEN [ents EXCEPT ![e].name = draft[c].subject] ELSE ents

(* Defect: the atom is kept when the one to supersede is gone.             *)
PromoteUnguarded(p) ==
    /\ proc[p].pc = "write" /\ proc[p].mode \in {"auto", "approve"}
    /\ atoms' = Append([i \in DOMAIN atoms |->
                          [atoms[i] EXCEPT !.live = @ /\ i # proc[p].hit]],
                       NewAtom(p, proc[p].mode))
    /\ IF proc[p].hit # 0 /\ proc[p].hit \notin Live
       THEN proc' = [proc EXCEPT ![p] = Idle] /\ UNCHANGED <<row, journal>>
       ELSE /\ row' = Decided(proc[p].c, "promoted", proc[p].ent)
            /\ journal' = journal \cup {Entry(p, Len(atoms) + 1)}
            /\ GoesOn(p, proc[p].todo)
    /\ UNCHANGED <<draft, ents, aliases, asks, crashes, into, contested>>

Promote(p) ==
    LET c == proc[p].c
        e == proc[p].ent
        old == proc[p].hit
    IN  /\ proc[p].pc = "write" /\ proc[p].mode \in {"auto", "approve"}
        /\ IF old # 0 /\ old \notin Live
           THEN /\ proc' = [proc EXCEPT ![p] = Idle]
                /\ UNCHANGED <<row, ents, aliases, atoms, journal>>
           ELSE /\ atoms' = Append([i \in DOMAIN atoms |->
                               [atoms[i] EXCEPT !.live = @ /\ i # old]],
                               NewAtom(p, proc[p].mode))
                /\ aliases' = WithAlias(c, e)
                /\ ents' = RealName(e, c)
                /\ row' = Decided(c, "promoted", e)
                /\ journal' = journal \cup {Entry(p, Len(atoms) + 1)}
                /\ GoesOn(p, proc[p].todo)
        /\ UNCHANGED <<draft, asks, crashes, into, contested>>

(* Defect: the status is written before the atom.                          *)
AddAtomLast(p) ==
    /\ proc[p].pc = "write" /\ proc[p].mode \in {"review", "stale"}
    /\ row' = Decided(proc[p].c, "promoted", proc[p].ent)
    /\ IF row[proc[p].c].status = "promoted"
       THEN /\ atoms' = Append(atoms, NewAtom(p, proc[p].mode))
            /\ Goes(p, "status", proc[p].ent, Len(atoms) + 1, "promote")
       ELSE UNCHANGED <<atoms, proc>>
    /\ UNCHANGED <<draft, ents, aliases, journal, asks, crashes, into, contested>>

(* The review command and the fallback pass: one call after the other.     *)
AddAtom(p) ==
    /\ proc[p].pc = "write" /\ proc[p].mode \in {"review", "stale"}
    /\ atoms' = Append(atoms, NewAtom(p, proc[p].mode))
    /\ Goes(p, "status", proc[p].ent, Len(atoms) + 1, "promote")
    /\ UNCHANGED <<draft, row, ents, aliases, journal, asks, crashes, into, contested>>

SetPromoted(p) ==
    /\ proc[p].pc = "status"
    /\ row' = Decided(proc[p].c, "promoted", proc[p].ent)
    /\ proc' = [proc EXCEPT ![p].pc = "journal"]
    /\ UNCHANGED <<draft, ents, aliases, atoms, journal, asks, crashes, into, contested>>

(* [m] and [s] at the prompt.                                              *)
MergeInto(p, x, i) ==
    /\ proc[p].mode = "review"
    /\ Begins(p, x, "journal", atoms[i].ent, i, "merge")
    /\ row' = Decided(x.c, "promoted", atoms[i].ent)
    /\ into' = [into EXCEPT ![x.c] = i]
    /\ UNCHANGED <<draft, ents, aliases, atoms, journal, asks, crashes, contested>>

Skip(p, x) ==
    /\ proc[p].mode = "review"
    /\ proc[p].pc = "next" /\ GoesOn(p, proc[p].todo \ {x})
    /\ UNCHANGED <<draft, row, ents, aliases, atoms, journal, asks, crashes, into,
                   contested>>

Journal(p) ==
    /\ proc[p].pc = "journal"
    /\ journal' = journal \cup {Entry(p, proc[p].hit)}
    /\ GoesOn(p, proc[p].todo)
    /\ UNCHANGED <<draft, row, ents, aliases, atoms, asks, crashes, into, contested>>

(* The second task of the fallback pass; then, or after the last           *)
(* candidate, the process is done.                                         *)
Rejections(c) ==
    Cardinality({d \in Cands : row[d].status = "rejected"
                               /\ draft[d].says = draft[c].says
                               /\ draft[d].neg = draft[c].neg})
(* Defect: candidates in review are escalated again.                       *)
EscalatedAgain ==
    {c \in Listed("pending") \cup Listed("needs_review") :
        Rejections(c) >= Threshold}
Escalated == {c \in Listed("pending") : Rejections(c) >= Threshold}

Finish(p) ==
    /\ proc[p].pc = "next"
    /\ proc[p].todo = {} \/ proc[p].mode = "review"
    /\ proc' = [proc EXCEPT ![p] = Idle]
    /\ IF proc[p].mode = "stale"
       THEN /\ row' = [c \in Cands |-> IF c \in Escalated
                         THEN [row[c] EXCEPT !.status = "needs_review", !.age = 0]
                         ELSE row[c]]
            /\ journal' = journal \cup
                 {[act |-> "conflict", c |-> c, atom |-> 0] : c \in Escalated}
       ELSE UNCHANGED <<row, journal>>
    /\ UNCHANGED <<draft, ents, aliases, atoms, asks, crashes, into, contested>>

-----------------------------------------------------------------------------
(* The world around.                                                       *)

Retire(i) ==
    /\ asks > 0 /\ asks' = asks - 1
    /\ i \in Live
    /\ atoms' = [atoms EXCEPT ![i].live = FALSE]
    /\ UNCHANGED <<draft, row, ents, aliases, journal, proc, crashes, into, contested>>

Day ==
    /\ \E c \in Cands : row[c].status = "needs_review" /\ row[c].age < StaleDays
    /\ row' = [c \in Cands |-> IF row[c].status = "needs_review" /\ row[c].age < StaleDays
                               THEN [row[c] EXCEPT !.age = @ + 1] ELSE row[c]]
    /\ UNCHANGED <<draft, ents, aliases, atoms, journal, proc, asks, crashes, into,
                   contested>>

Crash(p) ==
    /\ crashes > 0 /\ crashes' = crashes - 1
    /\ proc[p].pc # "idle"
    /\ proc' = [proc EXCEPT ![p] = Idle]
    /\ contested' = contested \cup IF proc[p].pc = "status" THEN {proc[p].c} ELSE {}
    /\ UNCHANGED <<draft, row, ents, aliases, atoms, journal, asks, into>>

Step(p) ==
    \/ \E x \in proc[p].todo :
          \/ Drop(p, x) \/ Park(p, x) \/ Resolve(p, x) \/ Skip(p, x)
          \/ \E i \in 1..Len(atoms) : MergeInto(p, x, i)
    \/ Create(p) \/ Alias(p) \/ Check(p) \/ Compare(p) \/ Verdict(p) \/ Promote(p)
    \/ AddAtom(p) \/ SetPromoted(p) \/ Journal(p) \/ Finish(p)

Start(p) ==
    \/ \E c \in Cands, promote \in BOOLEAN : Extract(p, c, promote)
    \/ PromotePending(p) \/ Fallback(p)
    \/ \E c \in Cands : PromoteOne(p, c) \/ RejectOne(p, c)
    \/ \E s \in Open : Review(p, s)

Next ==
    \/ \E p \in DOMAIN proc : Start(p) \/ Step(p) \/ Crash(p)
    \/ \E i \in 1..Len(atoms) : Retire(i)
    \/ Day

(* A pass, once begun, goes on; the host asks for promotion passes and     *)
(* fallback runs for ever, and days pass.                                  *)
Fairness ==
    /\ \A p \in Procs : WF_vars(p \in DOMAIN proc /\ Step(p))
    /\ SF_vars(\E p \in DOMAIN proc : PromotePending(p))
    /\ SF_vars(\E p \in DOMAIN proc : Fallback(p))
    /\ WF_vars(Day)

Spec == Init /\ [][Next]_vars /\ Fairness

-----------------------------------------------------------------------------
(* Properties.                                                             *)

(* A candidate marked promoted has its atom: one that says the same, or    *)
(* one the user named, whatever crashed on the way.                        *)
PromotedIsKept ==
    \A c \in Cands : row[c].status = "promoted" =>
        \/ into[c] # 0
        \/ \E i \in 1..Len(atoms) : Tells(i, c)

(* An atom of the worker comes with its journal row, and no journal row    *)
(* names an atom that was rolled back.                                     *)
PromotionIsWhole ==
    /\ \A i \in 1..Len(atoms) : atoms[i].how \in {"auto", "approve"} =>
          [act |-> "promote", c |-> atoms[i].from, atom |-> i] \in journal
    /\ \A r \in journal : r.act = "promote" =>
          r.atom \in 1..Len(atoms) /\ atoms[r.atom].from = r.c

(* A candidate marked promoted has its atom, and an atom of the worker its *)
(* journal row, whatever crashed on the way                                *)
(* (PromotionWorker._apply_promote, pipeline/promotion/fallback.py).       *)
PromotionHolds == PromotedIsKept /\ PromotionIsWhole

(* A candidate that no two processes held at once, and whose decision no   *)
(* crash cut in two, becomes one atom at most, and none when rejected.     *)
DecidedOnce ==
    \A c \in Cands \ contested :
        LET own == {i \in 1..Len(atoms) : atoms[i].from = c}
        IN  /\ Cardinality(own) <= 1
            /\ row[c].status = "rejected" => own = {}

(* What the worker leaves pending or parks for review is decided at last:  *)
(* by a later pass, by the user, or by the fallback pass.                  *)
OpenIsDecided ==
    \A c \in Cands : row[c].status \in {"pending", "needs_review"} ~>
                     row[c].status \in {"promoted", "rejected", "conflict"}

(* A user is one entity.                                                   *)
OneUser == Cardinality({e \in 1..Len(ents) : ents[e].user}) <= 1

=============================================================================
