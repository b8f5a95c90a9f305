------------------------ MODULE CandidateQueueProofs ------------------------
(***************************************************************************)
(* However many candidates, promotion passes, review sessions and fallback *)
(* runs there are, and whatever crashes between two of their calls: what   *)
(* is marked promoted has its atom, and no candidate is decided twice.     *)
(***************************************************************************)
EXTENDS CandidateQueue, FiniteSetTheorems, SequenceTheorems, TLAPS

Subjects == {draft[c].subject : c \in Cands}
Statuses == {"none", "skipped", "pending", "needs_review", "conflict", "promoted", "rejected"}
Row == [status : Statuses, age : Nat, ent : Nat]
Entity == [name : Subjects \cup {Placeholder}, user : BOOLEAN]
AtomRow == [from : Cands, ent : Nat, how : {"auto", "approve", "review", "stale"}, live : BOOLEAN]
Working == {"create", "alias", "check", "compare", "verdict", "write", "status", "journal"}
Item == [c : Cands, ent : Nat]
ProcState ==
    [pc : Working \cup {"idle", "next"}, mode : {"auto", "approve", "reject", "review", "stale"},
     todo : SUBSET Item, c : Cands \cup {0}, ent : Nat, hit : Nat,
     act : {"promote", "merge", "conflict", "reject"}]

QueueType ==
    /\ \E s \in Scenes : draft = s.drafts
    /\ row \in [Cands -> Row]
    /\ ents \in Seq(Entity)
    /\ atoms \in Seq(AtomRow)
    /\ proc \in [DOMAIN proc -> ProcState]
    /\ \A p \in DOMAIN proc : proc[p].pc \in Working => proc[p].c \in Cands
    /\ into \in [Cands -> Nat]

-----------------------------------------------------------------------------
(* What the operators of the model do to rows, atoms and processes.        *)

LEMMA TypeFacts ==
  ASSUME QueueType
  PROVE  /\ Len(atoms) \in Nat /\ DOMAIN atoms = 1..Len(atoms)
         /\ \A i \in 1..Len(atoms) : atoms[i] \in AtomRow
         /\ Len(ents) \in Nat
         /\ \A e \in 1..Len(ents) : ents[e] \in Entity
         /\ \A c \in Cands : row[c] \in Row /\ draft[c].user \in BOOLEAN
         /\ \A p \in DOMAIN proc : proc[p] \in ProcState
         /\ Live \subseteq 1..Len(atoms)
BY LenProperties, ElementOfSeq, QueueAssumption DEF QueueType, Live

LEMMA DecidedType ==
  ASSUME QueueType, NEW c \in Cands, NEW s \in Statuses, NEW e \in Nat
  PROVE  /\ Decided(c, s, e) \in [Cands -> Row]
         /\ \A d \in Cands : Decided(c, s, e)[d].status =
                IF d = c /\ row[c].status \notin {"none", "skipped"} THEN s ELSE row[d].status
BY DEF QueueType, Decided, Stored, Row

(* A process that changes leaves the others.                               *)
Changes(p) ==
    /\ proc' \in [DOMAIN proc -> ProcState]
    /\ \A q \in DOMAIN proc \ {p} : proc'[q] = proc[q]

ProcKept ==
    /\ proc' \in [DOMAIN proc -> ProcState]
    /\ \A q \in DOMAIN proc : proc'[q].pc \in Working => proc'[q].c \in Cands

LEMMA ChangesKept ==
  ASSUME QueueType, NEW p \in DOMAIN proc, Changes(p), proc'[p].pc \in Working => proc'[p].c \in Cands
  PROVE  ProcKept
BY DEF QueueType, Changes, ProcKept

LEMMA Moves ==
  ASSUME QueueType, NEW p \in DOMAIN proc, NEW s \in ProcState,
         proc' = [proc EXCEPT ![p] = s]
  PROVE  Changes(p) /\ proc'[p] = s
BY DEF QueueType, Changes

LEMMA GoesMoves ==
  ASSUME QueueType, NEW p \in DOMAIN proc, NEW pc \in Working, NEW ent \in Nat, NEW hit \in Nat,
         NEW act \in {"promote", "merge", "conflict", "reject"}, Goes(p, pc, ent, hit, act)
  PROVE  /\ Changes(p) /\ proc'[p].pc = pc /\ proc'[p].mode = proc[p].mode
         /\ proc'[p].todo = proc[p].todo /\ proc'[p].c = proc[p].c
         /\ proc'[p].ent = ent /\ proc'[p].hit = hit /\ proc'[p].act = act
<1> DEFINE t == [proc[p] EXCEPT !.pc = pc, !.ent = ent, !.hit = hit, !.act = act]
<1>1. proc[p] \in ProcState
  BY TypeFacts
<1>2. proc' = [proc EXCEPT ![p] = t]
  BY DEF Goes, QueueType
<1>3. /\ t \in ProcState /\ t.pc = pc /\ t.mode = proc[p].mode /\ t.todo = proc[p].todo
      /\ t.c = proc[p].c /\ t.ent = ent /\ t.hit = hit /\ t.act = act
  BY <1>1 DEF ProcState
<1> HIDE DEF t
<1> QED
  BY <1>2, <1>3, Moves

LEMMA BeginsMoves ==
  ASSUME QueueType, NEW p \in DOMAIN proc, NEW x \in proc[p].todo, NEW pc \in Working,
         NEW ent \in Nat, NEW hit \in Nat,
         NEW act \in {"promote", "merge", "conflict", "reject"}, Begins(p, x, pc, ent, hit, act)
  PROVE  /\ Changes(p) /\ proc[p].pc = "next" /\ proc'[p].pc = pc /\ proc'[p].mode = proc[p].mode
         /\ proc'[p].todo = proc[p].todo \ {x} /\ proc'[p].c = x.c
         /\ proc'[p].ent = ent /\ proc'[p].hit = hit /\ proc'[p].act = act
<1> DEFINE t == [proc[p] EXCEPT !.todo = proc[p].todo \ {x}, !.c = x.c, !.pc = pc, !.ent = ent,
                                !.hit = hit, !.act = act]
<1>1. proc[p] \in ProcState
  BY TypeFacts
<1>2. proc' = [proc EXCEPT ![p] = t]
  BY DEF Begins, QueueType
<1>3. /\ t \in ProcState /\ t.pc = pc /\ t.mode = proc[p].mode /\ t.todo = proc[p].todo \ {x}
      /\ t.c = x.c /\ t.ent = ent /\ t.hit = hit /\ t.act = act
  BY <1>1 DEF ProcState, Item
<1> HIDE DEF t
<1> QED
  BY <1>2, <1>3, Moves DEF Begins

LEMMA GoesOnMoves ==
  ASSUME QueueType, NEW p \in DOMAIN proc, NEW left \in SUBSET Item, GoesOn(p, left)
  PROVE  /\ Changes(p) /\ proc'[p].pc = "next" /\ proc'[p].mode = proc[p].mode
         /\ proc'[p].todo = left
<1> DEFINE t == [Idle EXCEPT !.pc = "next", !.mode = proc[p].mode, !.todo = left]
<1>1. proc[p] \in ProcState
  BY TypeFacts
<1>2. proc' = [proc EXCEPT ![p] = t]
  BY DEF GoesOn
<1>3. t \in ProcState /\ t.pc = "next" /\ t.mode = proc[p].mode /\ t.todo = left
  BY <1>1 DEF ProcState, Idle
<1> HIDE DEF t
<1> QED
  BY <1>2, <1>3, Moves

(* The step of a process from one call to the next.                        *)
LEMMA PcMoves ==
  ASSUME QueueType, NEW p \in DOMAIN proc, NEW pc \in Working,
         proc' = [proc EXCEPT ![p].pc = pc]
  PROVE  /\ Changes(p) /\ proc'[p].pc = pc /\ proc'[p].mode = proc[p].mode
         /\ proc'[p].todo = proc[p].todo /\ proc'[p].c = proc[p].c /\ proc'[p].ent = proc[p].ent
         /\ proc'[p].hit = proc[p].hit /\ proc'[p].act = proc[p].act
<1> DEFINE t == [proc[p] EXCEPT !.pc = pc]
<1>1. proc[p] \in ProcState
  BY TypeFacts
<1>2. proc' = [proc EXCEPT ![p] = t]
  BY DEF QueueType
<1>3. /\ t \in ProcState /\ t.pc = pc /\ t.todo = proc[p].todo /\ t.c = proc[p].c
      /\ t.ent = proc[p].ent /\ t.hit = proc[p].hit /\ t.act = proc[p].act /\ t.mode = proc[p].mode
  BY <1>1 DEF ProcState
<1> HIDE DEF t
<1> QED
  BY <1>2, <1>3, Moves

(* A process that starts takes what it read.                               *)
LEMMA TakesMoves ==
  ASSUME QueueType, NEW p \in DOMAIN proc, NEW cs \in SUBSET Cands,
         NEW mode \in {"auto", "approve", "reject", "review", "stale"}, Takes(p, cs, mode)
  PROVE  /\ Changes(p) /\ proc[p].pc = "idle" /\ proc'[p].pc = "next" /\ proc'[p].mode = mode
         /\ proc'[p].todo = {[c |-> c, ent |-> row[c].ent] : c \in cs}
<1> DEFINE todo == {[c |-> c, ent |-> row[c].ent] : c \in cs}
           t == [Idle EXCEPT !.pc = "next", !.mode = mode, !.todo = todo]
<1>1. todo \in SUBSET Item
  BY TypeFacts DEF Row, Item
<1>2. proc' = [proc EXCEPT ![p] = t] /\ proc[p].pc = "idle"
  BY DEF Takes
<1> HIDE DEF todo
<1>3. t \in ProcState /\ t.pc = "next" /\ t.mode = mode /\ t.todo = todo
  BY <1>1 DEF ProcState, Idle
<1> HIDE DEF t
<1>4. Changes(p) /\ proc'[p].pc = "next" /\ proc'[p].mode = mode /\ proc'[p].todo = todo
  BY <1>2, <1>3, Moves
<1> QED
  BY <1>2, <1>4 DEF todo

(* Nothing is left of a process that stops.                                *)
LEMMA StopsMoves ==
  ASSUME QueueType, NEW p \in DOMAIN proc, proc' = [proc EXCEPT ![p] = Idle]
  PROVE  Changes(p) /\ proc'[p].pc = "idle" /\ proc'[p].todo = {}
<1>1. Idle \in ProcState /\ Idle.pc = "idle" /\ Idle.todo = {}
  BY DEF Idle, ProcState
<1> QED
  BY <1>1, Moves

(* Rows of atoms keep what they are from and how they came.                *)
Keeps(new) ==
    /\ new \in Seq(AtomRow) /\ Len(new) \in Nat /\ Len(atoms) <= Len(new)
    /\ \A i \in 1..Len(atoms) : new[i].from = atoms[i].from /\ new[i].how = atoms[i].how

LEMMA KeepsSame ==
  ASSUME QueueType, NEW new, DOMAIN new = 1..Len(atoms),
         new = [i \in 1..Len(atoms) |-> new[i]],
         \A i \in 1..Len(atoms) : /\ new[i] \in AtomRow
                                  /\ new[i].from = atoms[i].from /\ new[i].how = atoms[i].how
  PROVE  Keeps(new) /\ Len(new) = Len(atoms)
<1>1. Len(atoms) \in Nat
  BY TypeFacts
<1>2. new \in [1..Len(atoms) -> AtomRow]
  OBVIOUS
<1>3. new \in Seq(AtomRow)
  BY <1>1, <1>2, SeqDef
<1>4. Len(new) \in Nat /\ DOMAIN new = 1..Len(new)
  BY <1>3, LenProperties
<1>5. Len(new) = Len(atoms)
  BY <1>1, <1>4
<1> QED
  BY <1>1, <1>3, <1>4, <1>5 DEF Keeps

LEMMA KeepsAppend ==
  ASSUME QueueType, NEW new, Keeps(new), Len(new) = Len(atoms), NEW a \in AtomRow
  PROVE  /\ Keeps(Append(new, a)) /\ Len(Append(new, a)) = Len(atoms) + 1
         /\ Append(new, a)[Len(atoms) + 1] = a
BY AppendProperties, TypeFacts DEF Keeps

LEMMA FoldedKeeps ==
  ASSUME QueueType, NEW p \in DOMAIN proc, NEW c \in Cands, NEW e \in Nat
  PROVE  Keeps(Folded(p, c, e)) /\ Len(Folded(p, c, e)) = Len(atoms)
<1> DEFINE new == Folded(p, c, e)
<1>1. /\ DOMAIN atoms = 1..Len(atoms) /\ Len(atoms) \in Nat
      /\ \A i \in 1..Len(atoms) : atoms[i] \in AtomRow
  BY TypeFacts
<1>2. ASSUME new = atoms PROVE Keeps(new) /\ Len(new) = Len(atoms)
  <2> HIDE DEF new
  <2> QED
    BY <1>1, <1>2 DEF QueueType, Keeps
<1>3. ASSUME new # atoms PROVE Keeps(new) /\ Len(new) = Len(atoms)
  <2>1. DOMAIN new = 1..Len(atoms) /\ new = [i \in 1..Len(atoms) |-> new[i]]
    BY <1>1, <1>3 DEF Folded
  <2>2. ASSUME NEW i \in 1..Len(atoms)
        PROVE  new[i] \in {atoms[i], [atoms[i] EXCEPT !.live = FALSE], [atoms[i] EXCEPT !.ent = e]}
    BY <1>1, <1>3 DEF Folded
  <2>3. ASSUME NEW i \in 1..Len(atoms)
        PROVE  new[i] \in AtomRow /\ new[i].from = atoms[i].from /\ new[i].how = atoms[i].how
    <3>1. atoms[i] \in AtomRow
      BY <1>1
    <3> HIDE DEF new
    <3> QED
      BY <2>2, <3>1 DEF AtomRow
  <2> HIDE DEF new
  <2> QED
    BY <2>1, <2>3, KeepsSame
<1> QED
  BY <1>2, <1>3

LEMMA MovesKept ==
  ASSUME QueueType, NEW p \in DOMAIN proc
  PROVE  /\ proc' = [proc EXCEPT ![p] = Idle] => ProcKept
         /\ \A left \in SUBSET Item : GoesOn(p, left) => ProcKept
         /\ \A pc \in Working : proc[p].c \in Cands /\ proc' = [proc EXCEPT ![p].pc = pc] => ProcKept
         /\ \A pc \in Working, ent \in Nat, hit \in Nat, act \in {"promote", "merge", "conflict", "reject"} :
               /\ proc[p].c \in Cands /\ Goes(p, pc, ent, hit, act) => ProcKept
               /\ \A x \in proc[p].todo : Begins(p, x, pc, ent, hit, act) => ProcKept
<1>1. ASSUME proc' = [proc EXCEPT ![p] = Idle] PROVE ProcKept
  BY <1>1, StopsMoves, ChangesKept DEF Working
<1>2. ASSUME NEW left \in SUBSET Item, GoesOn(p, left) PROVE ProcKept
  BY <1>2, GoesOnMoves, ChangesKept DEF Working
<1>3. ASSUME NEW pc \in Working, proc[p].c \in Cands, proc' = [proc EXCEPT ![p].pc = pc] PROVE ProcKept
  BY <1>3, PcMoves, ChangesKept
<1>4. ASSUME NEW pc \in Working, NEW ent \in Nat, NEW hit \in Nat,
             NEW act \in {"promote", "merge", "conflict", "reject"}
      PROVE  /\ proc[p].c \in Cands /\ Goes(p, pc, ent, hit, act) => ProcKept
             /\ \A x \in proc[p].todo : Begins(p, x, pc, ent, hit, act) => ProcKept
  <2>1. \A x \in proc[p].todo : x.c \in Cands
    BY TypeFacts DEF ProcState, Item
  <2>2. ASSUME proc[p].c \in Cands, Goes(p, pc, ent, hit, act) PROVE ProcKept
    BY <2>2, GoesMoves, ChangesKept
  <2>3. ASSUME NEW x \in proc[p].todo, Begins(p, x, pc, ent, hit, act) PROVE ProcKept
    BY <2>1, <2>3, BeginsMoves, ChangesKept
  <2> QED
    BY <2>2, <2>3
<1> QED
  BY <1>1, <1>2, <1>3, <1>4

LEMMA FoundType ==
  ASSUME QueueType, NEW c \in Cands, NEW mode, NEW model
  PROVE  Found(c, mode, model) \subseteq 1..Len(ents)
BY DEF Found, ByType, ByAlias, ByName

LEMMA RealNameType ==
  ASSUME QueueType, NEW c \in Cands, NEW e
  PROVE  RealName(e, c) \in Seq(Entity)
<1>1. CASE e \in 1..Len(ents)
  <2>1. [ents[e] EXCEPT !.name = draft[c].subject] \in Entity
    BY <1>1, TypeFacts DEF Entity, Subjects
  <2>2. [ents EXCEPT ![e] = [ents[e] EXCEPT !.name = draft[c].subject]] \in Seq(Entity)
    BY <1>1, <2>1, ExceptSeq DEF QueueType
  <2> QED
    BY <2>2 DEF RealName, QueueType
<1>2. CASE e \notin 1..Len(ents)
  <2>1. [ents EXCEPT ![e].name = draft[c].subject] = ents
    BY <1>2, LenProperties DEF QueueType
  <2> QED
    BY <2>1 DEF RealName, QueueType
<1> QED
  BY <1>1, <1>2

(* The atom that a promotion adds, after the one it supersedes.            *)
LEMMA PromotedKeeps ==
  ASSUME QueueType, NEW p \in DOMAIN proc, Promote(p),
         ~(proc[p].hit # 0 /\ proc[p].hit \notin Live)
  PROVE  /\ Keeps(atoms') /\ Len(atoms') = Len(atoms) + 1
         /\ atoms'[Len(atoms) + 1] = NewAtom(p, proc[p].mode)
<1> DEFINE rest == [i \in DOMAIN atoms |-> [atoms[i] EXCEPT !.live = @ /\ i # proc[p].hit]]
<1>1. atoms' = Append(rest, NewAtom(p, proc[p].mode))
  BY DEF Promote
<1>2. NewAtom(p, proc[p].mode) \in AtomRow
  BY TypeFacts DEF Promote, NewAtom, AtomRow, ProcState, QueueType, Working
<1>3. \A i \in 1..Len(atoms) : /\ rest[i] \in AtomRow
                               /\ rest[i].from = atoms[i].from /\ rest[i].how = atoms[i].how
  BY TypeFacts DEF AtomRow
<1>4. rest = [i \in 1..Len(atoms) |-> rest[i]] /\ DOMAIN rest = 1..Len(atoms)
  BY TypeFacts
<1> HIDE DEF rest
<1>5. Keeps(rest) /\ Len(rest) = Len(atoms)
  BY <1>3, <1>4, KeepsSame
<1> QED
  BY <1>1, <1>2, <1>5, KeepsAppend

-----------------------------------------------------------------------------
(* Every step keeps the types, and what the atoms are from.                *)

LEMMA TypeKept ==
  ASSUME QueueType, draft' = draft, row' \in [Cands -> Row], ents' \in Seq(Entity),
         Keeps(atoms'), into' \in [Cands -> Nat], proc' = proc \/ ProcKept
  PROVE  QueueType'
<1>1. /\ Row' = Row /\ Entity' = Entity /\ AtomRow' = AtomRow /\ ProcState' = ProcState
      /\ Working' = Working
  BY DEF Row, Entity, Subjects, AtomRow, ProcState, Item, Working
<1>2. DOMAIN proc' = DOMAIN proc
  BY DEF QueueType, ProcKept
<1> QED
  BY <1>1, <1>2 DEF QueueType, ProcKept, Keeps

LEMMA UnchangedKeeps ==
  ASSUME QueueType PROVE Keeps(atoms)
BY TypeFacts DEF QueueType, Keeps

LEMMA StartKept ==
  ASSUME QueueType, NEW p \in DOMAIN proc, Start(p)
  PROVE  QueueType' /\ Keeps(atoms')
<1> USE DEF QueueType
<1>1. ASSUME NEW c \in Cands, NEW promote \in BOOLEAN, Extract(p, c, promote)
      PROVE  row' \in [Cands -> Row] /\ (proc' = proc \/ ProcKept)
  <2>1. row' \in [Cands -> Row]
    <3> DEFINE s == IF \E d \in Cands : Same(c, d) /\ row[d].status = "promoted"
                    THEN "skipped" ELSE "pending"
    <3>1. row' = [row EXCEPT ![c].status = s] /\ s \in Statuses
      BY <1>1 DEF Extract, Statuses
    <3> HIDE DEF s
    <3>2. [row[c] EXCEPT !.status = s] \in Row
      BY <3>1 DEF Row
    <3> QED
      BY <3>1, <3>2
  <2>2. CASE promote
    <3>1. Takes(p, {c}, "auto")
      BY <1>1, <2>2 DEF Extract
    <3> QED
      BY <2>1, <3>1, TakesMoves, ChangesKept DEF Working
  <2>3. CASE ~promote
    BY <1>1, <2>1, <2>3 DEF Extract
  <2> QED
    BY <2>2, <2>3
<1>2. ASSUME NEW cs \in SUBSET Cands, NEW mode \in {"auto", "approve", "reject", "review", "stale"},
             Takes(p, cs, mode)
      PROVE  ProcKept
  BY <1>2, TakesMoves, ChangesKept DEF Working
<1>3. \A s : Listed(s) \subseteq Cands
  BY DEF Listed
<1>4. CASE \E c \in Cands, promote \in BOOLEAN : Extract(p, c, promote)
  <2>1. draft' = draft /\ ents' = ents /\ atoms' = atoms /\ into' = into
    BY <1>4 DEF Extract
  <2> QED
    BY <1>1, <1>4, <2>1, TypeKept, UnchangedKeeps
<1>5. CASE \/ PromotePending(p) \/ Fallback(p) \/ \E c \in Cands : PromoteOne(p, c) \/ RejectOne(p, c)
           \/ \E s \in Open : Review(p, s)
  <2>1. draft' = draft /\ row' = row /\ ents' = ents /\ atoms' = atoms /\ into' = into
    BY <1>5 DEF PromotePending, Fallback, PromoteOne, RejectOne, Review
  <2>2. ProcKept
    <3>1. \/ Takes(p, Listed("pending"), "auto")
          \/ Takes(p, {c \in Listed("needs_review") : row[c].age >= StaleDays}, "stale")
          \/ \E c \in Cands : Takes(p, {c}, "auto") \/ Takes(p, {c}, "approve") \/ Takes(p, {c}, "reject")
          \/ \E s \in Open : Takes(p, Listed(s), "review")
      BY <1>5 DEF PromotePending, Fallback, PromoteOne, RejectOne, Review
    <3> QED
      BY <1>2, <1>3, <3>1
  <2> QED
    BY <2>1, <2>2, TypeKept, UnchangedKeeps
<1> QED
  BY <1>4, <1>5 DEF Start

LEMMA StepKept ==
  ASSUME QueueType, NEW p \in DOMAIN proc, Step(p)
  PROVE  QueueType' /\ Keeps(atoms')
<1> USE TypeFacts DEF QueueType
<1>1. proc[p] \in ProcState /\ proc[p].todo \subseteq Item /\ proc[p].ent \in Nat /\ proc[p].hit \in Nat
      /\ proc[p].mode \in {"auto", "approve", "reject", "review", "stale"}
  BY DEF ProcState
<1>2. \A x \in proc[p].todo : x.c \in Cands /\ x.ent \in Nat /\ row[x.c].ent \in Nat
  BY <1>1 DEF Item, Row
<1>3. ASSUME NEW x \in proc[p].todo, Drop(p, x) PROVE QueueType' /\ Keeps(atoms')
  <2>1. row' \in [Cands -> Row]
    BY <1>2, <1>3, DecidedType DEF Drop, Statuses
  <2>2. ProcKept
    BY <1>2, <1>3, MovesKept DEF Drop, Working
  <2> QED
    BY <1>3, <2>1, <2>2, TypeKept, UnchangedKeeps DEF Drop
<1>4. ASSUME NEW x \in proc[p].todo, Park(p, x) PROVE QueueType' /\ Keeps(atoms')
  <2>1. row' \in [Cands -> Row]
    BY <1>2, <1>4, DecidedType DEF Park, Statuses
  <2>2. ProcKept
    BY <1>1, <1>4, MovesKept DEF Park, Working
  <2> QED
    BY <1>4, <2>1, <2>2, TypeKept, UnchangedKeeps DEF Park
<1>5. ASSUME NEW x \in proc[p].todo, Resolve(p, x) PROVE QueueType' /\ Keeps(atoms')
  <2>1. \/ \E e \in Nat, pc \in {"check", "alias", "write"} :
             Begins(p, x, pc, e, 0, "promote") /\ atoms' = Folded(p, x.c, e)
        \/ Begins(p, x, "create", 0, 0, "promote") /\ atoms' = atoms
    <3>1. CASE \E e \in Nat : /\ \E pc \in {"check", "alias", "write"} : Begins(p, x, pc, e, 0, "promote")
                               /\ atoms' = Folded(p, x.c, e)
      BY <3>1
    <3>2. CASE Begins(p, x, "create", 0, 0, "promote") /\ UNCHANGED atoms
      BY <3>2
    <3>3. \A mode, model : Found(x.c, mode, model) \subseteq Nat
      BY <1>2, FoundType
    <3>4. \/ \E e \in Nat : /\ \E pc \in {"check", "alias", "write"} : Begins(p, x, pc, e, 0, "promote")
                           /\ atoms' = Folded(p, x.c, e)
          \/ Begins(p, x, "create", 0, 0, "promote") /\ UNCHANGED atoms
      BY <1>2, <1>5, <3>3 DEF Resolve
    <3> QED
      BY <3>1, <3>2, <3>4
  <2>2. Keeps(atoms')
    BY <1>2, <2>1, FoldedKeeps, UnchangedKeeps
  <2>3. ProcKept
    <3>1. PICK e \in Nat, pc \in Working : Begins(p, x, pc, e, 0, "promote")
      BY <2>1 DEF Working
    <3> QED
      BY <1>2, <3>1, MovesKept
  <2> QED
    BY <1>5, <2>2, <2>3, TypeKept DEF Resolve
<1>6. ASSUME NEW x \in proc[p].todo, Skip(p, x) PROVE QueueType' /\ Keeps(atoms')
  <2>1. ProcKept
    BY <1>1, <1>6, MovesKept DEF Skip, Working
  <2> QED
    BY <1>6, <2>1, TypeKept, UnchangedKeeps DEF Skip
<1>7. ASSUME NEW x \in proc[p].todo, NEW i \in 1..Len(atoms), MergeInto(p, x, i)
      PROVE  QueueType' /\ Keeps(atoms')
  <2>1. atoms[i].ent \in Nat /\ i \in Nat
    BY DEF AtomRow
  <2>2. row' \in [Cands -> Row]
    BY <1>2, <1>7, <2>1, DecidedType DEF MergeInto, Statuses
  <2>3. ProcKept
    BY <1>2, <1>7, <2>1, MovesKept DEF MergeInto, Working
  <2>4. into' \in [Cands -> Nat]
    BY <1>2, <1>7, <2>1 DEF MergeInto
  <2> QED
    BY <1>7, <2>2, <2>3, <2>4, TypeKept, UnchangedKeeps DEF MergeInto
<1>8. ASSUME Create(p) PROVE QueueType' /\ Keeps(atoms')
  <2>1. proc[p].c \in Cands
    BY <1>8 DEF Create, Working
  <2>2. [name |-> draft[proc[p].c].subject, user |-> draft[proc[p].c].user] \in Entity
    BY <2>1 DEF Entity, Subjects
  <2>3. ents' \in Seq(Entity)
    BY <1>8, <2>2, AppendProperties DEF Create
  <2>4. \E pc \in {"check", "alias"} : Goes(p, pc, Len(ents) + 1, 0, "promote")
    BY <1>8 DEF Create
  <2>5. ProcKept
    <3>1. PICK pc \in Working : Goes(p, pc, Len(ents) + 1, 0, "promote")
      BY <2>4 DEF Working
    <3>2. Len(ents) + 1 \in Nat
      OBVIOUS
    <3> QED
      BY <2>1, <3>1, <3>2, MovesKept
  <2> QED
    BY <1>8, <2>3, <2>5, TypeKept, UnchangedKeeps DEF Create
<1>20. ASSUME Alias(p) PROVE QueueType' /\ Keeps(atoms')
  <2>1. proc[p].c \in Cands
    BY <1>20 DEF Alias, Working
  <2>2. Goes(p, "write", proc[p].ent, 0, "promote") /\ "write" \in Working
    BY <1>20 DEF Alias, Working
  <2>3. ProcKept
    BY <1>1, <2>1, <2>2, MovesKept
  <2> QED
    BY <1>20, <2>3, TypeKept, UnchangedKeeps DEF Alias
<1>9. ASSUME Check(p) \/ Compare(p) PROVE QueueType' /\ Keeps(atoms')
  <2>1. proc[p].c \in Cands
    BY <1>9 DEF Check, Compare, Working
  <2>2. \A i \in Live : i \in Nat /\ atoms[i].ent \in Nat
    BY DEF AtomRow
  <2>3. \A c, e : Duplicates(c, e) \subseteq Live /\ Conflicts(c, e) \subseteq Live
    BY DEF Duplicates, Conflicts
  <2>4. PICK pc \in Working, e \in Nat, i \in Nat, act \in {"promote", "merge", "conflict"} :
           Goes(p, pc, e, i, act)
    BY <1>1, <1>9, <2>2, <2>3 DEF Check, Compare, Working
  <2>5. ProcKept
    BY <2>1, <2>4, MovesKept
  <2> QED
    BY <1>9, <2>5, TypeKept, UnchangedKeeps DEF Check, Compare
<1>10. ASSUME Verdict(p) \/ SetPromoted(p) PROVE QueueType' /\ Keeps(atoms')
  <2>1. proc[p].c \in Cands
    BY <1>10 DEF Verdict, SetPromoted, Working
  <2>2. row' \in [Cands -> Row]
    BY <1>1, <1>10, <2>1, DecidedType DEF Verdict, SetPromoted, Statuses
  <2>3. ProcKept
    BY <1>10, <2>1, MovesKept DEF Verdict, SetPromoted, Working
  <2> QED
    BY <1>10, <2>2, <2>3, TypeKept, UnchangedKeeps DEF Verdict, SetPromoted
<1>11. ASSUME Promote(p) PROVE QueueType' /\ Keeps(atoms')
  <2>1. proc[p].c \in Cands
    BY <1>11 DEF Promote, Working
  <2>2. CASE proc[p].hit # 0 /\ proc[p].hit \notin Live
    <3>1. ProcKept
      BY <1>11, <2>2, MovesKept DEF Promote, Idle, Working
    <3> QED
      BY <1>11, <2>2, <3>1, TypeKept, UnchangedKeeps DEF Promote
  <2>3. CASE ~(proc[p].hit # 0 /\ proc[p].hit \notin Live)
    <3>1. ProcKept
      BY <1>1, <1>11, <2>3, MovesKept DEF Promote, Working
    <3>2. row' \in [Cands -> Row]
      BY <1>1, <1>11, <2>1, <2>3, DecidedType DEF Promote, Statuses
    <3>3. Keeps(atoms')
      BY <1>11, <2>3, PromotedKeeps
    <3>4. ents' \in Seq(Entity)
      BY <1>11, <2>1, <2>3, RealNameType DEF Promote
    <3> QED
      BY <1>11, <3>1, <3>2, <3>3, <3>4, TypeKept DEF Promote
  <2> QED
    BY <2>2, <2>3
<1>12. ASSUME AddAtom(p) PROVE QueueType' /\ Keeps(atoms')
  <2>1. proc[p].c \in Cands
    BY <1>12 DEF AddAtom, Working
  <2>2. NewAtom(p, proc[p].mode) \in AtomRow
    BY <1>1, <1>12, <2>1 DEF AddAtom, NewAtom, AtomRow
  <2>3. Keeps(atoms')
    BY <1>12, <2>2, KeepsAppend, UnchangedKeeps DEF AddAtom
  <2>4. Goes(p, "status", proc[p].ent, Len(atoms) + 1, "promote") /\ Len(atoms) + 1 \in Nat
    BY <1>12 DEF AddAtom
  <2>5. ProcKept
    BY <1>1, <2>1, <2>4, MovesKept DEF Working
  <2> QED
    BY <1>12, <2>3, <2>5, TypeKept DEF AddAtom
<1>13. ASSUME Journal(p) PROVE QueueType' /\ Keeps(atoms')
  <2>1. ProcKept
    BY <1>1, <1>13, MovesKept DEF Journal, Working
  <2> QED
    BY <1>13, <2>1, TypeKept, UnchangedKeeps DEF Journal
<1>14. ASSUME Finish(p) PROVE QueueType' /\ Keeps(atoms')
  <2>1. ProcKept
    BY <1>14, MovesKept DEF Finish, Idle, Working
  <2>2. row' \in [Cands -> Row]
    <3>1. \A c \in Cands : [row[c] EXCEPT !.status = "needs_review", !.age = 0] \in Row
      BY DEF Row, Statuses
    <3> QED
      BY <1>14, <3>1 DEF Finish
  <2> QED
    BY <1>14, <2>1, <2>2, TypeKept, UnchangedKeeps DEF Finish
<1> QED
  BY <1>3, <1>4, <1>5, <1>6, <1>7, <1>8, <1>9, <1>10, <1>11, <1>12, <1>13, <1>14, <1>20 DEF Step

LEMMA WorldKept ==
  ASSUME QueueType, Day \/ (\E i \in 1..Len(atoms) : Retire(i)) \/ (\E p \in DOMAIN proc : Crash(p))
  PROVE  QueueType' /\ Keeps(atoms')
<1> USE TypeFacts DEF QueueType
<1>1. CASE Day
  <2>1. ASSUME NEW c \in Cands PROVE [row[c] EXCEPT !.age = @ + 1] \in Row
    <3>1. row[c].age + 1 \in Nat /\ row[c] \in Row
      BY DEF Row
    <3>2. \A age \in Nat : [row[c] EXCEPT !.age = age] \in Row
      BY DEF Row
    <3> QED
      BY <3>1, <3>2
  <2>2. row' \in [Cands -> Row]
    BY <1>1, <2>1 DEF Day
  <2> QED
    BY <1>1, <2>2, TypeKept, UnchangedKeeps DEF Day
<1>2. ASSUME NEW i \in 1..Len(atoms), Retire(i) PROVE QueueType' /\ Keeps(atoms')
  <2>1. [atoms[i] EXCEPT !.live = FALSE] \in AtomRow /\ [atoms[i] EXCEPT !.live = FALSE].from = atoms[i].from
        /\ [atoms[i] EXCEPT !.live = FALSE].how = atoms[i].how
    BY DEF AtomRow
  <2>2. atoms' = [atoms EXCEPT ![i] = [atoms[i] EXCEPT !.live = FALSE]]
    BY <1>2 DEF Retire
  <2>3. Keeps(atoms')
    BY <2>1, <2>2, KeepsSame
  <2> QED
    BY <1>2, <2>3, TypeKept DEF Retire
<1>3. ASSUME NEW p \in DOMAIN proc, Crash(p) PROVE QueueType' /\ Keeps(atoms')
  <2>1. ProcKept
    BY <1>3, MovesKept DEF Crash, Idle, Working
  <2> QED
    BY <1>3, <2>1, TypeKept, UnchangedKeeps DEF Crash
<1> QED
  BY <1>1, <1>2, <1>3

LEMMA TypeInit == Init => QueueType
<1> SUFFICES ASSUME Init PROVE QueueType
  OBVIOUS
<1>1. PICK s \in Scenes : draft = s.drafts /\ proc = [p \in s.procs |-> Idle]
  BY DEF Init
<1>2. proc \in [DOMAIN proc -> ProcState] /\ \A p \in DOMAIN proc : proc[p].pc = "idle"
  BY <1>1 DEF Idle, ProcState
<1>3. row \in [Cands -> Row]
  BY DEF Init, Row, Statuses
<1> QED
  BY <1>1, <1>2, <1>3, EmptySeq DEF Init, QueueType, Working

LEMMA NextKept ==
  ASSUME QueueType, [Next]_vars
  PROVE  QueueType' /\ Keeps(atoms')
<1>1. CASE UNCHANGED vars
  BY <1>1, TypeKept, UnchangedKeeps DEF vars, QueueType
<1> QED
  BY <1>1, StartKept, StepKept, WorldKept DEF Next

(* Rows, atoms and processes keep their types (pipeline/promotion).        *)
THEOREM TypeCorrect == Spec => []QueueType
<1>1. QueueType /\ [Next]_vars => QueueType'
  BY NextKept
<1> QED
  BY <1>1, TypeInit, PTL DEF Spec

-----------------------------------------------------------------------------
(* What is marked promoted has its atom.                                   *)

(* What a process is about to write down is so.                            *)
Handled(p) ==
    /\ proc[p].pc = "verdict" =>
          /\ proc[p].act \in {"merge", "conflict"}
          /\ proc[p].act = "merge" =>
                proc[p].hit \in 1..Len(atoms) /\ Tells(proc[p].hit, proc[p].c)
    /\ proc[p].pc \in {"create", "alias", "check", "compare", "write", "status"} => proc[p].act = "promote"
    /\ proc[p].pc = "status" \/ (proc[p].pc = "journal" /\ proc[p].act = "promote") =>
          proc[p].hit \in 1..Len(atoms) /\ atoms[proc[p].hit].from = proc[p].c

PromInv ==
    QueueType /\ PromotedIsKept /\ PromotionIsWhole /\ \A p \in DOMAIN proc : Handled(p)

LEMMA HandledKept ==
  ASSUME PromInv, Keeps(atoms'), draft' = draft, NEW p \in DOMAIN proc, Changes(p), Handled(p)'
  PROVE  \A q \in DOMAIN proc' : Handled(q)'
<1>1. \A i \in 1..Len(atoms) : i \in 1..Len(atoms') /\ atoms'[i].from = atoms[i].from
  BY TypeFacts DEF Keeps, PromInv
<1>2. DOMAIN proc' = DOMAIN proc /\ \A q \in DOMAIN proc \ {p} : proc'[q] = proc[q]
  BY DEF Changes
<1>3. ASSUME NEW q \in DOMAIN proc \ {p} PROVE Handled(q)'
  BY <1>1, <1>2, <1>3 DEF PromInv, Handled, Tells
<1> QED
  BY <1>2, <1>3

LEMMA PromotedKept ==
  ASSUME PromInv, Keeps(atoms'), draft' = draft, row' \in [Cands -> Row],
         \A c \in Cands : into[c] # 0 => into'[c] # 0,
         \A c \in Cands : row'[c].status = "promoted" /\ row[c].status # "promoted" =>
                            into'[c] # 0 \/ \E i \in 1..Len(atoms') : Tells(i, c)'
  PROVE  PromotedIsKept'
<1>1. \A i \in 1..Len(atoms) : i \in 1..Len(atoms') /\ atoms'[i].from = atoms[i].from
  BY TypeFacts DEF Keeps, PromInv
<1> QED
  BY <1>1 DEF PromInv, PromotedIsKept, Tells

LEMMA WholeKept ==
  ASSUME PromInv, Keeps(atoms'), journal \subseteq journal',
         \A i \in 1..Len(atoms') : \/ i \in 1..Len(atoms)
                                   \/ atoms'[i].how \notin {"auto", "approve"}
                                   \/ [act |-> "promote", c |-> atoms'[i].from, atom |-> i] \in journal',
         \A r \in journal' \ journal : r.act = "promote" =>
                r.atom \in 1..Len(atoms') /\ atoms'[r.atom].from = r.c
  PROVE  PromotionIsWhole'
<1>1. \A i \in 1..Len(atoms) : /\ i \in 1..Len(atoms') /\ atoms'[i].from = atoms[i].from
                               /\ atoms'[i].how = atoms[i].how
  BY TypeFacts DEF Keeps, PromInv
<1> QED
  BY <1>1 DEF PromInv, PromotionIsWhole

(* A step that adds no atom and no row of the journal.                     *)
LEMMA QuietKept ==
  ASSUME PromInv, Keeps(atoms'), Len(atoms') = Len(atoms), journal' = journal
  PROVE  PromotionIsWhole'
BY WholeKept

LEMMA StartPromotes ==
  ASSUME PromInv, NEW p \in DOMAIN proc, Start(p)
  PROVE  PromInv'
<1>1. QueueType' /\ Keeps(atoms') /\ row' \in [Cands -> Row]
  BY StartKept DEF PromInv, QueueType, Row, Statuses
<1>2. draft' = draft /\ atoms' = atoms /\ journal' = journal /\ into' = into
  BY DEF Start, Extract, PromotePending, Fallback, PromoteOne, RejectOne, Review
<1>3. \A c \in Cands : row'[c].status = "promoted" => row[c].status = "promoted"
  BY DEF Start, Extract, PromotePending, Fallback, PromoteOne, RejectOne, Review, PromInv, QueueType, Row
<1>4. PromotedIsKept' /\ PromotionIsWhole'
  BY <1>1, <1>2, <1>3, PromotedKept, QuietKept
<1>5. CASE proc' = proc
  BY <1>1, <1>2, <1>4, <1>5 DEF PromInv, Handled, Tells
<1>6. CASE \E cs \in SUBSET Cands, mode \in {"auto", "approve", "reject", "review", "stale"} :
              Takes(p, cs, mode)
  <2>1. Changes(p) /\ proc'[p].pc = "next"
    BY <1>6, TakesMoves DEF PromInv
  <2> QED
    BY <1>1, <1>2, <1>4, <2>1, HandledKept DEF PromInv, Handled
<1>7. \A s : Listed(s) \subseteq Cands
  BY DEF Listed
<1>8. \/ proc' = proc
      \/ \E cs \in SUBSET Cands, mode \in {"auto", "approve", "reject", "review", "stale"} :
              Takes(p, cs, mode)
  BY <1>7 DEF Start, Extract, PromotePending, Fallback, PromoteOne, RejectOne, Review
<1> QED
  BY <1>5, <1>6, <1>8

LEMMA StepPromotes ==
  ASSUME PromInv, NEW p \in DOMAIN proc, Step(p)
  PROVE  PromInv'
<1>1. QueueType /\ QueueType' /\ Keeps(atoms') /\ row' \in [Cands -> Row] /\ Len(atoms) \in Nat
  BY StepKept, TypeFacts DEF PromInv, QueueType, Row, Statuses
<1>2. draft' = draft
  BY DEF Step, Drop, Park, Resolve, Skip, MergeInto, Create, Alias, Check,
     Compare, Verdict, Promote, AddAtom,
     SetPromoted, Journal, Finish
<1>3. proc[p] \in ProcState /\ proc[p].todo \subseteq Item
  BY <1>1, TypeFacts DEF ProcState
<1>4. \A x \in proc[p].todo : x.c \in Cands /\ x.ent \in Nat /\ row[x.c].ent \in Nat
  BY <1>1, <1>3, TypeFacts DEF Item, Row
<1> DEFINE Fine == (\A q \in DOMAIN proc' : Handled(q)') /\ PromotedIsKept' /\ PromotionIsWhole'
<1>5. ASSUME NEW x \in proc[p].todo, Drop(p, x) PROVE Fine
  <2>1. Changes(p) /\ proc'[p].pc = "journal" /\ proc'[p].act = "reject"
    BY <1>1, <1>5, BeginsMoves DEF Drop, Working
  <2>2. \A c \in Cands : row'[c].status = "promoted" => row[c].status = "promoted"
    <3>1. row' = Decided(x.c, "rejected", row[x.c].ent) /\ "rejected" \in Statuses
      BY <1>5 DEF Drop, Statuses
    <3>2. \A d \in Cands : row'[d].status =
             IF d = x.c /\ row[x.c].status \notin {"none", "skipped"} THEN "rejected" ELSE row[d].status
      BY <1>1, <1>4, <3>1, DecidedType
    <3> QED
      BY <3>2
  <2> QED
    BY <1>1, <1>2, <1>5, <2>1, <2>2, HandledKept, PromotedKept, QuietKept DEF Drop, Handled
<1>6. ASSUME NEW x \in proc[p].todo, Park(p, x) PROVE Fine
  <2>1. Changes(p) /\ proc'[p].pc = "next"
    BY <1>1, <1>3, <1>6, GoesOnMoves DEF Park
  <2>2. \A c \in Cands : row'[c].status = "promoted" => row[c].status = "promoted"
    <3>1. row' = Decided(x.c, "needs_review", row[x.c].ent) /\ "needs_review" \in Statuses
      BY <1>6 DEF Park, Statuses
    <3>2. \A d \in Cands : row'[d].status =
             IF d = x.c /\ row[x.c].status \notin {"none", "skipped"} THEN "needs_review" ELSE row[d].status
      BY <1>1, <1>4, <3>1, DecidedType
    <3> QED
      BY <3>2
  <2> QED
    BY <1>1, <1>2, <1>6, <2>1, <2>2, HandledKept, PromotedKept, QuietKept DEF Park, Handled
<1>7. ASSUME NEW x \in proc[p].todo, Resolve(p, x) PROVE Fine
  <2>1. /\ Changes(p) /\ proc'[p].pc \in {"check", "alias", "write", "create"} /\ proc'[p].act = "promote"
        /\ Len(atoms') = Len(atoms)
    <3>1. \A mode, model : Found(x.c, mode, model) \subseteq Nat
      BY <1>1, <1>4, FoundType, TypeFacts
    <3>2. \/ \E e \in Nat : /\ \E pc \in {"check", "alias", "write"} : Begins(p, x, pc, e, 0, "promote")
                           /\ atoms' = Folded(p, x.c, e)
          \/ Begins(p, x, "create", 0, 0, "promote") /\ UNCHANGED atoms
      BY <1>4, <1>7, <3>1 DEF Resolve
    <3>3. Len(atoms') = Len(atoms)
      BY <1>1, <1>4, <3>2, FoldedKeeps
    <3>4. PICK e \in Nat, pc \in {"check", "alias", "write", "create"} : Begins(p, x, pc, e, 0, "promote")
      BY <3>2
    <3>5. pc \in Working
      BY DEF Working
    <3> QED
      BY <1>1, <3>3, <3>4, <3>5, BeginsMoves
  <2> QED
    BY <1>1, <1>2, <1>7, <2>1, HandledKept, PromotedKept, QuietKept DEF Resolve, Handled
<1>8. ASSUME NEW x \in proc[p].todo, Skip(p, x) PROVE Fine
  <2>1. Changes(p) /\ proc'[p].pc = "next"
    BY <1>1, <1>3, <1>8, GoesOnMoves DEF Skip
  <2> QED
    BY <1>1, <1>2, <1>8, <2>1, HandledKept, PromotedKept, QuietKept DEF Skip, Handled
<1>9. ASSUME NEW x \in proc[p].todo, NEW i \in 1..Len(atoms), MergeInto(p, x, i) PROVE Fine
  <2>1. atoms[i].ent \in Nat /\ i \in Nat
    BY <1>1, TypeFacts DEF AtomRow
  <2>2. Changes(p) /\ proc'[p].pc = "journal" /\ proc'[p].act = "merge"
    BY <1>1, <1>9, <2>1, BeginsMoves DEF MergeInto, Working
  <2>3. into' = [into EXCEPT ![x.c] = i] /\ i # 0 /\ into \in [Cands -> Nat]
    BY <1>1, <1>9 DEF MergeInto, QueueType
  <2>4. \A c \in Cands : row'[c].status = "promoted" => c = x.c \/ row[c].status = "promoted"
    BY <1>1, <1>4, <1>9, <2>1, DecidedType DEF MergeInto, Statuses
  <2> QED
    BY <1>1, <1>2, <1>4, <1>9, <2>2, <2>3, <2>4, HandledKept, PromotedKept, QuietKept
    DEF MergeInto, Handled
<1>10. ASSUME Create(p) PROVE Fine
  <2>1. Changes(p) /\ proc'[p].pc \in {"check", "alias"} /\ proc'[p].act = "promote"
    <3>1. Len(ents) + 1 \in Nat
      BY <1>1, TypeFacts
    <3>2. PICK pc \in {"check", "alias"} : Goes(p, pc, Len(ents) + 1, 0, "promote")
      BY <1>10 DEF Create
    <3>3. pc \in Working
      BY DEF Working
    <3> QED
      BY <1>1, <3>1, <3>2, <3>3, GoesMoves
  <2> QED
    BY <1>1, <1>2, <1>10, <2>1, HandledKept, PromotedKept, QuietKept DEF Create, Handled
<1>20. ASSUME Alias(p) PROVE Fine
  <2>1. Changes(p) /\ proc'[p].pc = "write" /\ proc'[p].act = "promote"
    BY <1>1, <1>3, <1>20, GoesMoves DEF Alias, Working, ProcState
  <2> QED
    BY <1>1, <1>2, <1>20, <2>1, HandledKept, PromotedKept, QuietKept DEF Alias, Handled
<1>11. ASSUME Check(p) \/ Compare(p) PROVE Fine
  <2> DEFINE c == proc[p].c
             e == proc[p].ent
  <2>1. \A i \in Live : i \in 1..Len(atoms) /\ i \in Nat /\ atoms[i].ent \in Nat
    BY <1>1, TypeFacts DEF AtomRow
  <2>2. \A i \in Duplicates(c, e) : i \in Live /\ Tells(i, c)
    BY DEF Duplicates
  <2>3. \A i \in Conflicts(c, e) : i \in Live
    BY DEF Conflicts
  <2>4. PICK pc \in {"compare", "verdict", "write"}, ent \in Nat, i \in Nat,
             act \in {"promote", "merge", "conflict"} :
           /\ Goes(p, pc, ent, i, act)
           /\ IF pc = "verdict" THEN act \in {"merge", "conflict"} ELSE act = "promote"
           /\ act = "merge" => i \in 1..Len(atoms) /\ Tells(i, c)
    BY <1>3, <1>11, <2>1, <2>2, <2>3 DEF Check, Compare, ProcState
  <2>5. /\ Changes(p) /\ proc'[p].pc = pc /\ proc'[p].c = c /\ proc'[p].hit = i /\ proc'[p].act = act
    BY <1>1, <2>4, GoesMoves DEF Working
  <2>6. atoms' = atoms
    BY <1>11 DEF Check, Compare
  <2>7. Handled(p)'
    BY <1>2, <2>4, <2>5, <2>6 DEF Handled, Tells
  <2> QED
    BY <1>1, <1>2, <1>11, <2>5, <2>7, HandledKept, PromotedKept, QuietKept DEF Check, Compare
<1>12. ASSUME Verdict(p) PROVE Fine
  <2>1. proc[p].c \in Cands /\ proc[p].ent \in Nat
    BY <1>1, <1>3, <1>12 DEF Verdict, Working, QueueType, ProcState
  <2>2. Changes(p) /\ proc'[p].pc = "journal" /\ proc'[p].act = proc[p].act
    BY <1>1, <1>12, PcMoves DEF Verdict, Working
  <2>3. proc[p].act \in {"merge", "conflict"} /\ (proc[p].act = "merge" =>
           proc[p].hit \in 1..Len(atoms) /\ Tells(proc[p].hit, proc[p].c))
    BY <1>12 DEF Verdict, PromInv, Handled
  <2>4. atoms' = atoms /\ into' = into /\ journal' = journal
    BY <1>12 DEF Verdict
  <2>5. \A c \in Cands : row'[c].status = "promoted" /\ row[c].status # "promoted" =>
           proc[p].act = "merge" /\ c = proc[p].c
    BY <1>1, <1>12, <2>1, DecidedType DEF Verdict, Statuses
  <2>6. \A i, c : Tells(i, c)' <=> Tells(i, c)
    BY <1>2, <2>4 DEF Tells
  <2> QED
    BY <1>1, <1>2, <2>2, <2>3, <2>4, <2>5, <2>6, HandledKept, PromotedKept, QuietKept DEF Handled
<1>13. ASSUME Promote(p) PROVE Fine
  <2>1. proc[p].c \in Cands /\ proc[p].ent \in Nat
    BY <1>1, <1>3, <1>13 DEF Promote, Working, QueueType, ProcState
  <2>2. CASE proc[p].hit # 0 /\ proc[p].hit \notin Live
    <3>1. Changes(p) /\ proc'[p].pc = "idle"
      BY <1>1, <1>13, <2>2, StopsMoves DEF Promote
    <3> QED
      BY <1>1, <1>2, <1>13, <2>2, <3>1, HandledKept, PromotedKept, QuietKept DEF Promote, Handled
  <2>3. CASE ~(proc[p].hit # 0 /\ proc[p].hit \notin Live)
    <3>1. Changes(p) /\ proc'[p].pc = "next"
      BY <1>1, <1>3, <1>13, <2>3, GoesOnMoves DEF Promote
    <3>2. /\ Len(atoms') = Len(atoms) + 1 /\ atoms'[Len(atoms) + 1].from = proc[p].c
      <4>1. /\ Len(atoms') = Len(atoms) + 1
            /\ atoms'[Len(atoms) + 1] = NewAtom(p, proc[p].mode)
        BY <1>1, <1>13, <2>3, PromotedKeeps
      <4> QED
        BY <4>1 DEF NewAtom
    <3>3. \A c \in Cands : row'[c].status = "promoted" => c = proc[p].c \/ row[c].status = "promoted"
      BY <1>1, <1>13, <2>1, <2>3, DecidedType DEF Promote, Statuses
    <3>4. /\ Len(atoms) + 1 \in 1..Len(atoms')
          /\ draft'[atoms'[Len(atoms) + 1].from] = draft[proc[p].c]
      BY <1>1, <1>2, <3>2
    <3>5. journal' = journal \cup {[act |-> proc[p].act, c |-> proc[p].c, atom |-> Len(atoms) + 1]}
      BY <1>13, <2>3 DEF Promote, Entry
    <3>6. \A c \in Cands : row'[c].status = "promoted" /\ row[c].status # "promoted" =>
             \E i \in 1..Len(atoms') : Tells(i, c)'
      BY <1>2, <3>2, <3>3, <3>4 DEF Tells
    <3>7. PromotedIsKept'
      BY <1>1, <1>2, <1>13, <3>6, PromotedKept DEF Promote
    <3>8. proc[p].act = "promote"
      BY <1>13 DEF PromInv, Handled, Promote
    <3>9. PromotionIsWhole'
      BY <1>1, <3>2, <3>4, <3>5, <3>8, WholeKept
    <3> QED
      BY <1>1, <1>2, <3>1, <3>7, <3>9, HandledKept DEF Handled
  <2> QED
    BY <2>2, <2>3
<1>14. ASSUME AddAtom(p) PROVE Fine
  <2>1. proc[p].c \in Cands /\ proc[p].ent \in Nat /\ proc[p].mode \in {"review", "stale"}
    BY <1>1, <1>3, <1>14 DEF AddAtom, Working, QueueType, ProcState
  <2>2. /\ Changes(p) /\ proc'[p].pc = "status" /\ proc'[p].c = proc[p].c
        /\ proc'[p].hit = Len(atoms) + 1 /\ proc'[p].act = "promote"
    <3>1. Len(atoms) + 1 \in Nat /\ Goes(p, "status", proc[p].ent, Len(atoms) + 1, "promote")
      BY <1>1, <1>14 DEF AddAtom
    <3> QED
      BY <1>1, <2>1, <3>1, GoesMoves DEF Working
  <2>3. /\ Len(atoms') = Len(atoms) + 1 /\ atoms'[Len(atoms) + 1] = NewAtom(p, proc[p].mode)
    <3>1. NewAtom(p, proc[p].mode) \in AtomRow
      BY <2>1 DEF NewAtom, AtomRow
    <3> QED
      BY <1>1, <1>14, <3>1, KeepsAppend, UnchangedKeeps DEF AddAtom
  <2>4. Handled(p)'
    BY <1>1, <2>2, <2>3 DEF Handled, NewAtom
  <2>5. PromotionIsWhole'
    <3>1. atoms'[Len(atoms) + 1].how \in {"review", "stale"}
      BY <2>1, <2>3 DEF NewAtom
    <3> QED
      BY <1>1, <1>14, <2>3, <3>1, WholeKept DEF AddAtom
  <2> QED
    BY <1>1, <1>2, <1>14, <2>2, <2>4, <2>5, HandledKept, PromotedKept DEF AddAtom
<1>15. ASSUME SetPromoted(p) PROVE Fine
  <2>1. proc[p].c \in Cands /\ proc[p].ent \in Nat
    BY <1>1, <1>3, <1>15 DEF SetPromoted, Working, QueueType, ProcState
  <2>2. /\ Changes(p) /\ proc'[p].pc = "journal" /\ proc'[p].c = proc[p].c
        /\ proc'[p].hit = proc[p].hit /\ proc'[p].act = proc[p].act
    BY <1>1, <1>15, PcMoves DEF SetPromoted, Working
  <2>3. proc[p].hit \in 1..Len(atoms) /\ atoms[proc[p].hit].from = proc[p].c
    BY <1>15 DEF SetPromoted, PromInv, Handled
  <2>4. atoms' = atoms /\ into' = into /\ journal' = journal
    BY <1>15 DEF SetPromoted
  <2>5. \A c \in Cands : row'[c].status = "promoted" /\ row[c].status # "promoted" => c = proc[p].c
    BY <1>1, <1>15, <2>1, DecidedType DEF SetPromoted, Statuses
  <2>6. Tells(proc[p].hit, proc[p].c)' /\ Handled(p)'
    BY <1>2, <2>2, <2>3, <2>4 DEF Tells, Handled
  <2>7. PromotedIsKept'
    BY <1>1, <1>2, <2>3, <2>4, <2>5, <2>6, PromotedKept DEF Tells
  <2> QED
    BY <1>1, <1>2, <2>2, <2>4, <2>6, <2>7, HandledKept, QuietKept
<1>16. ASSUME Journal(p) PROVE Fine
  <2>1. Changes(p) /\ proc'[p].pc = "next"
    BY <1>1, <1>3, <1>16, GoesOnMoves DEF Journal
  <2>2. journal' = journal \cup {[act |-> proc[p].act, c |-> proc[p].c, atom |-> proc[p].hit]}
        /\ atoms' = atoms /\ row' = row /\ into' = into
    BY <1>16 DEF Journal, Entry
  <2>3. proc[p].act = "promote" => proc[p].hit \in 1..Len(atoms) /\ atoms[proc[p].hit].from = proc[p].c
    BY <1>16 DEF Journal, PromInv, Handled
  <2> QED
    BY <1>1, <1>2, <2>1, <2>2, <2>3, HandledKept, PromotedKept, WholeKept DEF Handled
<1>17. ASSUME Finish(p) PROVE Fine
  <2>1. Changes(p) /\ proc'[p].pc = "idle"
    BY <1>1, <1>17, StopsMoves DEF Finish
  <2>2. atoms' = atoms /\ into' = into
    BY <1>17 DEF Finish
  <2>3. \A c \in Cands : row'[c].status = "promoted" => row[c].status = "promoted"
    <3>1. \A c \in Cands : row'[c] \in {row[c], [row[c] EXCEPT !.status = "needs_review", !.age = 0]}
      BY <1>17 DEF Finish
    <3>2. \A c \in Cands : [row[c] EXCEPT !.status = "needs_review", !.age = 0].status = "needs_review"
      BY <1>1, TypeFacts DEF Row
    <3> QED
      BY <3>1, <3>2
  <2>4. journal \subseteq journal' /\ \A r \in journal' \ journal : r.act # "promote"
    <3>1. \/ journal' = journal
          \/ journal' = journal \cup {[act |-> "conflict", c |-> c, atom |-> 0] : c \in Escalated}
      BY <1>17 DEF Finish
    <3> QED
      BY <3>1
  <2> QED
    BY <1>1, <1>2, <2>1, <2>2, <2>3, <2>4, HandledKept, PromotedKept, WholeKept DEF Handled
<1> QED
  <2>1. Fine
    BY <1>5, <1>6, <1>7, <1>8, <1>9, <1>10, <1>11, <1>12, <1>13, <1>14, <1>15, <1>16, <1>17, <1>20 DEF Step
  <2> QED
    BY <1>1, <2>1 DEF PromInv

LEMMA WorldPromotes ==
  ASSUME PromInv, Day \/ (\E i \in 1..Len(atoms) : Retire(i)) \/ (\E p \in DOMAIN proc : Crash(p))
  PROVE  PromInv'
<1>1. QueueType /\ QueueType' /\ Keeps(atoms') /\ row' \in [Cands -> Row]
  BY WorldKept DEF PromInv, QueueType, Row, Statuses
<1>2. draft' = draft /\ journal' = journal /\ into' = into
  BY DEF Day, Retire, Crash
<1>3. Len(atoms') = Len(atoms)
  <2>1. ASSUME NEW i \in 1..Len(atoms), Retire(i) PROVE Len(atoms') = Len(atoms)
    BY <1>1, <2>1, TypeFacts, LenProperties DEF Retire, QueueType
  <2> QED
    BY <2>1 DEF Day, Crash
<1>4. \A c \in Cands : row'[c].status = "promoted" => row[c].status = "promoted"
  BY <1>1, TypeFacts DEF Day, Retire, Crash, Row
<1>5. PromotedIsKept' /\ PromotionIsWhole'
  BY <1>1, <1>2, <1>3, <1>4, PromotedKept, QuietKept
<1>6. CASE proc' = proc
  <2>1. \A i \in 1..Len(atoms) : i \in 1..Len(atoms') /\ atoms'[i].from = atoms[i].from
    BY <1>1, <1>3 DEF Keeps
  <2> QED
    BY <1>1, <1>2, <1>5, <1>6, <2>1 DEF PromInv, Handled, Tells
<1>7. ASSUME NEW p \in DOMAIN proc, Crash(p) PROVE PromInv'
  <2>1. Changes(p) /\ proc'[p].pc = "idle"
    BY <1>1, <1>7, StopsMoves DEF Crash
  <2> QED
    BY <1>1, <1>2, <1>5, <2>1, HandledKept DEF Handled, PromInv
<1> QED
  BY <1>6, <1>7 DEF Day, Retire

(* Whatever crashes, a candidate marked promoted has its atom, and an atom *)
(* of the worker its row of the journal (PromotionWorker._apply_promote,   *)
(* pipeline/promotion/fallback.py).                                        *)
THEOREM PromotionCorrect == Spec => []PromotionHolds
<1>1. Init => PromInv
  <2> SUFFICES ASSUME Init PROVE PromInv
    OBVIOUS
  <2>1. (\A p \in DOMAIN proc : proc[p].pc = "idle") /\ atoms = <<>> /\ journal = {}
        /\ \A c \in Cands : row[c].status = "none"
    BY DEF Init, Idle
  <2> QED
    BY <2>1, TypeInit DEF PromInv, PromotedIsKept, PromotionIsWhole, Handled
<1>2. PromInv /\ [Next]_vars => PromInv'
  <2> SUFFICES ASSUME PromInv, [Next]_vars PROVE PromInv'
    OBVIOUS
  <2>1. CASE UNCHANGED vars
    <3>1. QueueType'
      BY <2>1, NextKept DEF PromInv
    <3> QED
      BY <2>1, <3>1 DEF vars, PromInv, PromotedIsKept, PromotionIsWhole, Handled, Tells
  <2> QED
    BY <2>1, StartPromotes, StepPromotes, WorldPromotes DEF Next
<1>3. PromInv => PromotionHolds
  BY DEF PromInv, PromotionHolds
<1> QED
  BY <1>1, <1>2, <1>3, PTL DEF Spec

-----------------------------------------------------------------------------
(* No candidate is decided twice.                                          *)

InTodo(p, c) == \E x \in proc[p].todo : x.c = c
Holds(p, c) == InTodo(p, c) \/ (proc[p].pc \in Working /\ proc[p].c = c)
Deciding == {"create", "alias", "check", "compare", "verdict", "write"}
Undecided(p, c) ==
    InTodo(p, c) \/ (proc[p].pc \in Deciding /\ proc[p].c = c)
Written(p, c) == proc[p].pc = "status" /\ proc[p].c = c

Bare(c) == \A i \in 1..Len(atoms) : atoms[i].from # c

(* A list has a candidate once, and not the one that is at work.           *)
Tidy(p) ==
    /\ \A x, y \in proc[p].todo : x.c = y.c => x = y
    /\ proc[p].pc \in Working => ~InTodo(p, proc[p].c)

(* One process at most has a candidate.  While it has yet to decide, and   *)
(* while nobody has, the candidate is open and there is no atom of it.     *)
Once(c) ==
    /\ \A p, q \in DOMAIN proc : Holds(p, c) /\ Holds(q, c) => p = q
    /\ \A p \in DOMAIN proc : Undecided(p, c) => Bare(c)
    /\ \A p \in DOMAIN proc : Undecided(p, c) \/ Written(p, c) =>
          row[c].status \in Open \cup {"skipped"}
    /\ row[c].status \in Open \cup {"none"} =>
          Bare(c) \/ \E p \in DOMAIN proc : Written(p, c)
    /\ row[c].status = "rejected" => Bare(c)
    /\ \A i, j \in 1..Len(atoms) : atoms[i].from = c /\ atoms[j].from = c => i = j

OnceInv ==
    /\ QueueType
    /\ \A p \in DOMAIN proc : Tidy(p)
    /\ \A c \in Cands \ contested : Once(c)

(* What a step of p does to what p has.                                    *)
LEMMA HoldsCases ==
  ASSUME NEW p, NEW c
  PROVE  /\ Undecided(p, c) \/ Written(p, c) => Holds(p, c)
         /\ Holds(p, c) <=> Undecided(p, c) \/ Written(p, c) \/ (proc[p].pc = "journal" /\ proc[p].c = c)
         /\ proc[p].pc \notin {"idle", "next"} /\ QueueType /\ p \in DOMAIN proc => proc[p].pc \in Working
BY TypeFacts DEF Holds, Undecided, Deciding, Written, Working, QueueType, ProcState

LEMMA HeldIs ==
  ASSUME QueueType, NEW p \in DOMAIN proc, NEW c
  PROVE  c \in Held(p) <=> Holds(p, c)
BY TypeFacts DEF Held, Holds, InTodo, Working, ProcState

LEMMA BeginsHolds ==
  ASSUME QueueType, NEW p \in DOMAIN proc, Tidy(p), NEW x \in proc[p].todo, NEW pc \in Working,
         proc[p].pc = "next", proc'[p].pc = pc, proc'[p].c = x.c, proc'[p].todo = proc[p].todo \ {x}
  PROVE  /\ Tidy(p)' /\ Undecided(p, x.c)
         /\ \A c : /\ Holds(p, c)' <=> Holds(p, c)
                   /\ ~Written(p, c)
                   /\ c # x.c => (Undecided(p, c)' <=> Undecided(p, c)) /\ ~Written(p, c)'
         /\ pc = "journal" => ~Undecided(p, x.c)' /\ ~Written(p, x.c)'
         /\ pc # "status" => ~Written(p, x.c)'
<1>1. ~InTodo(p, x.c)'
  BY DEF Tidy, InTodo
<1>2. \A c : c # x.c => (InTodo(p, c)' <=> InTodo(p, c))
  BY DEF InTodo
<1>3. InTodo(p, x.c)
  BY DEF InTodo
<1> QED
  BY <1>1, <1>2, <1>3 DEF Tidy, Holds, Undecided, Deciding, Written, Working

LEMMA PcHolds ==
  ASSUME QueueType, NEW p \in DOMAIN proc, Tidy(p), proc[p].pc \in Working, proc'[p].pc \in Working,
         proc'[p].c = proc[p].c, proc'[p].todo = proc[p].todo
  PROVE  /\ Tidy(p)'
         /\ \A c : /\ Holds(p, c)' <=> Holds(p, c)
                   /\ InTodo(p, c)' <=> InTodo(p, c)
                   /\ c # proc[p].c => /\ Undecided(p, c)' <=> Undecided(p, c)
                                       /\ Written(p, c)' <=> Written(p, c)
         /\ ~InTodo(p, proc[p].c)
BY DEF Tidy, Holds, Undecided, Deciding, Written, InTodo

LEMMA GoesOnHolds ==
  ASSUME QueueType, NEW p \in DOMAIN proc, Tidy(p),
         proc'[p].pc \in {"idle", "next"}, proc'[p].todo \subseteq proc[p].todo
  PROVE  /\ Tidy(p)'
         /\ \A c : /\ Holds(p, c)' => Holds(p, c)
                   /\ Undecided(p, c)' => Undecided(p, c)
                   /\ ~Written(p, c)'
                   /\ Written(p, c) => proc[p].pc = "status" /\ c = proc[p].c
         /\ proc[p].pc \in Working => \A c : c = proc[p].c => ~Undecided(p, c)'
<1>1. \A c : InTodo(p, c)' => InTodo(p, c)
  BY DEF InTodo
<1>2. "idle" \notin Working /\ "next" \notin Working
  BY DEF Working
<1>3. Tidy(p)'
  BY <1>2 DEF Tidy
<1>4. ASSUME NEW c
      PROVE  /\ Holds(p, c)' => Holds(p, c)
             /\ Undecided(p, c)' => Undecided(p, c)
             /\ ~Written(p, c)'
             /\ Written(p, c) => proc[p].pc = "status" /\ c = proc[p].c
  BY <1>1, <1>2 DEF Holds, Undecided, Deciding, Written
<1>5. ASSUME proc[p].pc \in Working, NEW c, c = proc[p].c PROVE ~Undecided(p, c)'
  BY <1>1, <1>5 DEF Tidy, Undecided, Deciding
<1> QED
  BY <1>3, <1>4, <1>5

(* The ways of a candidate.  Nothing comes to hold it that did not, and    *)
(* the atoms of it are the same.                                           *)
SameAtoms(c) == Keeps(atoms') /\ \A i \in 1..Len(atoms') : atoms'[i].from = c => i \in 1..Len(atoms)

LEMMA SameBare ==
  ASSUME QueueType, NEW c \in Cands, SameAtoms(c)
  PROVE  /\ Bare(c)' <=> Bare(c)
         /\ \A i \in 1..Len(atoms') : atoms'[i].from = c => i \in 1..Len(atoms) /\ atoms[i].from = c
BY TypeFacts DEF SameAtoms, Keeps, Bare

LEMMA OnceStays ==
  ASSUME QueueType, NEW p \in DOMAIN proc, Changes(p), NEW c \in Cands, Once(c), SameAtoms(c),
         \/ row'[c].status = row[c].status
         \/ row[c].status \in Open /\ row'[c].status \in Open,
         Holds(p, c)' => Holds(p, c), Undecided(p, c)' => Undecided(p, c),
         Written(p, c)' <=> Written(p, c)
  PROVE  Once(c)'
<1>1. DOMAIN proc' = DOMAIN proc
  BY DEF Changes
<1>2. \A q \in DOMAIN proc : /\ Holds(q, c)' => Holds(q, c)
                             /\ Undecided(q, c)' => Undecided(q, c)
                             /\ Written(q, c)' <=> Written(q, c)
  BY DEF Changes, Holds, Undecided, Deciding, Written, InTodo
<1>3. "none" \notin Open /\ "skipped" \notin Open /\ "rejected" \notin Open
  BY DEF Open
<1> HIDE DEF Open, Holds, Undecided, Deciding, Written, Bare
<1> QED
  BY <1>1, <1>2, <1>3, SameBare DEF Once

(* p decides it, and writes no atom; whatever its status was.              *)
LEMMA OnceDecided ==
  ASSUME QueueType, NEW p \in DOMAIN proc, Changes(p), NEW c \in Cands, Once(c), SameAtoms(c),
         Undecided(p, c), ~Undecided(p, c)', ~Written(p, c)'
  PROVE  Once(c)'
<1>1. DOMAIN proc' = DOMAIN proc
  BY DEF Changes
<1>2. \A q \in DOMAIN proc \ {p} : /\ ~Holds(q, c) /\ ~Holds(q, c)'
  BY HoldsCases DEF Changes, Once, Holds, InTodo
<1>3. \A q \in DOMAIN proc : ~Undecided(q, c)' /\ ~Written(q, c)'
  BY <1>2 DEF Holds, Undecided, Deciding, Written, Working
<1>4. Bare(c)'
  BY SameBare DEF Once
<1>5. \A i, j \in 1..Len(atoms') : atoms'[i].from = c /\ atoms'[j].from = c => i = j
  BY <1>4 DEF Bare
<1> QED
  BY <1>1, <1>2, <1>3, <1>4, <1>5 DEF Once

(* p writes the atom, with its status or without.                          *)
OneAtom(c) ==
    /\ Keeps(atoms') /\ Len(atoms') = Len(atoms) + 1 /\ atoms'[Len(atoms) + 1].from = c

LEMMA OneIsOne ==
  ASSUME QueueType, NEW c \in Cands, Bare(c), OneAtom(c)
  PROVE  \A i, j \in 1..Len(atoms') : atoms'[i].from = c /\ atoms'[j].from = c => i = j
<1>1. \A i \in 1..Len(atoms') : i \in 1..Len(atoms) \/ i = Len(atoms) + 1
  BY TypeFacts DEF OneAtom
<1> QED
  BY <1>1 DEF OneAtom, Keeps, Bare

LEMMA OncePromoted ==
  ASSUME QueueType, NEW p \in DOMAIN proc, Changes(p), NEW c \in Cands, Once(c), OneAtom(c),
         Undecided(p, c), ~Undecided(p, c)', ~Written(p, c)',
         row'[c].status = IF row[c].status \in {"none", "skipped"} THEN row[c].status ELSE "promoted"
  PROVE  Once(c)'
<1>1. DOMAIN proc' = DOMAIN proc
  BY DEF Changes
<1>2. \A q \in DOMAIN proc \ {p} : /\ ~Holds(q, c) /\ ~Holds(q, c)'
  BY HoldsCases DEF Changes, Once, Holds, InTodo
<1>3. \A q \in DOMAIN proc : ~Undecided(q, c)' /\ ~Written(q, c)'
  BY <1>2 DEF Holds, Undecided, Deciding, Written, Working
<1>4. row'[c].status \in {"skipped", "promoted"}
  BY DEF Once, Open
<1>5. Bare(c)
  BY DEF Once
<1>6. \A i, j \in 1..Len(atoms') : atoms'[i].from = c /\ atoms'[j].from = c => i = j
  BY <1>5, OneIsOne
<1> QED
  BY <1>1, <1>2, <1>3, <1>4, <1>6 DEF Once, Open

LEMMA OnceWritten ==
  ASSUME QueueType, NEW p \in DOMAIN proc, Changes(p), NEW c \in Cands, Once(c), OneAtom(c),
         Undecided(p, c), ~Undecided(p, c)', Written(p, c)', row'[c].status = row[c].status
  PROVE  Once(c)'
<1>1. DOMAIN proc' = DOMAIN proc
  BY DEF Changes
<1>2. \A q \in DOMAIN proc \ {p} : /\ ~Holds(q, c) /\ ~Holds(q, c)'
  BY HoldsCases DEF Changes, Once, Holds, InTodo
<1>3. \A q \in DOMAIN proc : ~Undecided(q, c)'
  BY <1>2 DEF Holds, Undecided, Deciding, Written, Working
<1>4. row'[c].status \in Open \cup {"skipped"}
  BY DEF Once
<1>5. Bare(c)
  BY DEF Once
<1>6. \A i, j \in 1..Len(atoms') : atoms'[i].from = c /\ atoms'[j].from = c => i = j
  BY <1>5, OneIsOne
<1> QED
  BY <1>1, <1>2, <1>3, <1>4, <1>6 DEF Once, Open

(* p writes the status of the atom it wrote.                               *)
LEMMA OnceMarked ==
  ASSUME QueueType, NEW p \in DOMAIN proc, Changes(p), NEW c \in Cands, Once(c), SameAtoms(c),
         Written(p, c), ~Undecided(p, c)', ~Written(p, c)',
         row'[c].status = IF row[c].status \in {"none", "skipped"} THEN row[c].status ELSE "promoted"
  PROVE  Once(c)'
<1>1. DOMAIN proc' = DOMAIN proc
  BY DEF Changes
<1>2. \A q \in DOMAIN proc \ {p} : /\ ~Holds(q, c) /\ ~Holds(q, c)'
  BY HoldsCases DEF Changes, Once, Holds, InTodo
<1>3. \A q \in DOMAIN proc : ~Undecided(q, c)' /\ ~Written(q, c)'
  BY <1>2 DEF Holds, Undecided, Deciding, Written, Working
<1>4. row'[c].status \in {"skipped", "promoted"}
  BY DEF Once, Open
<1>5. \A i, j \in 1..Len(atoms') : atoms'[i].from = c /\ atoms'[j].from = c => i = j
  BY SameBare DEF Once
<1> QED
  BY <1>1, <1>2, <1>3, <1>4, <1>5 DEF Once, Open

(* p takes it, and nobody had it.                                          *)
LEMMA OnceTaken ==
  ASSUME QueueType, NEW p \in DOMAIN proc, Changes(p), NEW c \in Cands, Once(c), SameAtoms(c),
         \A q \in DOMAIN proc \ {p} : ~Holds(q, c), ~Written(p, c), ~Written(p, c)',
         row[c].status \in Open \cup {"none"}, row'[c].status \in Open \cup {"skipped"}
  PROVE  Once(c)'
<1>1. DOMAIN proc' = DOMAIN proc
  BY DEF Changes
<1>2. \A q \in DOMAIN proc \ {p} : ~Holds(q, c) /\ ~Holds(q, c)'
  BY DEF Changes, Holds, InTodo
<1>3. \A q \in DOMAIN proc : ~Written(q, c)' /\ ~Written(q, c)
  BY <1>2 DEF Holds, Written, Working
<1>4. Bare(c) /\ Bare(c)'
  BY <1>3, SameBare DEF Once
<1>5. \A i, j \in 1..Len(atoms') : atoms'[i].from = c /\ atoms'[j].from = c => i = j
  BY <1>4 DEF Bare
<1>6. \A q \in DOMAIN proc : Undecided(q, c)' => q = p
  BY <1>2 DEF Holds, Undecided, Deciding, Working
<1> QED
  BY <1>1, <1>2, <1>3, <1>4, <1>5, <1>6 DEF Once, Open

LEMMA TakesOnce ==
  ASSUME OnceInv, NEW p \in DOMAIN proc, NEW cs \in SUBSET Cands,
         NEW mode \in {"auto", "approve", "reject", "review", "stale"}, Takes(p, cs, mode),
         atoms' = atoms,
         \A c \in Cands \ cs : row'[c].status = row[c].status,
         \A c \in cs : row[c].status \in Open \cup {"none"} /\ row'[c].status \in Open \cup {"skipped"}
  PROVE  (\A q \in DOMAIN proc' : Tidy(q)') /\ \A c \in Cands \ contested' : Once(c)'
<1>1. /\ QueueType /\ Changes(p) /\ proc[p].pc = "idle" /\ proc'[p].pc = "next"
      /\ proc'[p].todo = {[c |-> c, ent |-> row[c].ent] : c \in cs}
  BY TakesMoves DEF OnceInv
<1>2. \A q \in DOMAIN proc' : Tidy(q)'
  <2>1. Tidy(p)'
    BY <1>1 DEF Tidy, Working
  <2>2. \A q \in DOMAIN proc \ {p} : Tidy(q)'
    BY <1>1 DEF OnceInv, Changes, Tidy, InTodo
  <2> QED
    BY <1>1, <2>1, <2>2 DEF Changes
<1>3. \A c : InTodo(p, c)' => c \in cs
  BY <1>1 DEF InTodo
<1>4. ASSUME NEW c \in Cands \ contested' PROVE Once(c)'
  <2>1. c \notin contested /\ (c \in cs => \A q \in DOMAIN proc \ {p} : ~Holds(q, c))
    BY <1>1, <1>4, HeldIs DEF Takes
  <2>2. Once(c)
    BY <2>1 DEF OnceInv
  <2>3. SameAtoms(c)
    BY <1>1, UnchangedKeeps DEF SameAtoms
  <2>4. ~Written(p, c) /\ ~Written(p, c)'
    BY <1>1 DEF Written
  <2>5. CASE c \in cs
    BY <1>1, <2>1, <2>2, <2>3, <2>4, <2>5, OnceTaken
  <2>6. CASE c \notin cs
    <3>1. ~Holds(p, c)' /\ ~Undecided(p, c)'
      BY <1>1, <1>3, <2>6 DEF Holds, Undecided, Deciding, Working
    <3> QED
      BY <1>1, <2>2, <2>3, <2>4, <2>6, <3>1, OnceStays
  <2> QED
    BY <2>5, <2>6
<1> QED
  BY <1>2, <1>4

LEMMA StartOnce ==
  ASSUME OnceInv, NEW p \in DOMAIN proc, Start(p)
  PROVE  OnceInv'
<1>1. QueueType /\ QueueType'
  BY StartKept DEF OnceInv
<1>2. CASE \/ PromotePending(p) \/ Fallback(p) \/ \E c \in Cands : PromoteOne(p, c) \/ RejectOne(p, c)
           \/ \E s \in Open : Review(p, s)
  <2>1. row' = row /\ atoms' = atoms
    BY <1>2 DEF PromotePending, Fallback, PromoteOne, RejectOne, Review
  <2>2. \A s : Listed(s) \subseteq {c \in Cands : row[c].status = s}
    BY DEF Listed
  <2>3. \E cs \in SUBSET {c \in Cands : row[c].status \in Open},
           mode \in {"auto", "approve", "reject", "review", "stale"} : Takes(p, cs, mode)
    <3>1. \/ Takes(p, Listed("pending"), "auto")
          \/ Takes(p, {c \in Listed("needs_review") : row[c].age >= StaleDays}, "stale")
          \/ \E c \in Cands : /\ row[c].status \in Open
                              /\ Takes(p, {c}, "auto") \/ Takes(p, {c}, "approve") \/ Takes(p, {c}, "reject")
          \/ \E s \in Open : Takes(p, Listed(s), "review")
      BY <1>2 DEF PromotePending, Fallback, PromoteOne, RejectOne, Review
    <3>2. "pending" \in Open /\ "needs_review" \in Open
      BY DEF Open
    <3> HIDE DEF Open
    <3> QED
      BY <2>2, <3>1, <3>2
  <2>4. PICK cs \in SUBSET {c \in Cands : row[c].status \in Open},
             mode \in {"auto", "approve", "reject", "review", "stale"} : Takes(p, cs, mode)
    BY <2>3
  <2> QED
    BY <1>1, <2>1, <2>4, TakesOnce DEF OnceInv
<1>3. ASSUME NEW c \in Cands, NEW promote \in BOOLEAN, Extract(p, c, promote)
      PROVE  OnceInv'
  <2>1. /\ row[c].status = "none" /\ row'[c].status \in {"skipped", "pending"}
        /\ \A d \in Cands \ {c} : row'[d].status = row[d].status
    <3> DEFINE s == IF \E d \in Cands : Same(c, d) /\ row[d].status = "promoted"
                    THEN "skipped" ELSE "pending"
    <3>1. row' = [row EXCEPT ![c].status = s] /\ row[c].status = "none" /\ s \in {"skipped", "pending"}
      BY <1>3 DEF Extract
    <3> HIDE DEF s
    <3> QED
      BY <1>1, <3>1 DEF QueueType, Row
  <2>2. atoms' = atoms
    BY <1>3 DEF Extract
  <2>3. CASE promote
    <3>1. Takes(p, {c}, "auto")
      BY <1>3, <2>3 DEF Extract
    <3> QED
      BY <1>1, <2>1, <2>2, <3>1, TakesOnce DEF OnceInv, Open
  <2>4. CASE ~promote
    <3>1. proc' = proc /\ contested' = contested
      BY <1>3, <2>4 DEF Extract
    <3>2. ASSUME NEW d \in Cands \ contested PROVE Once(d)'
      <4>1. /\ Once(d)
            /\ \A q : /\ Holds(q, d)' <=> Holds(q, d)
                      /\ Undecided(q, d)' <=> Undecided(q, d)
                      /\ Written(q, d)' <=> Written(q, d)
            /\ Bare(d)' <=> Bare(d)
        BY <2>2, <3>1, <3>2 DEF OnceInv, Holds, Undecided, Deciding, Written, InTodo, Bare
      <4>2. d = c => Bare(d) /\ \A q \in DOMAIN proc : ~Undecided(q, d) /\ ~Written(q, d)
        BY <2>1, <4>1 DEF Once, Open
      <4> HIDE DEF Holds, Undecided, Deciding, Written, Bare
      <4>3. CASE d = c
        BY <2>1, <2>2, <3>1, <4>1, <4>2, <4>3 DEF Once, Open
      <4>4. CASE d # c
        BY <2>1, <2>2, <3>1, <4>1, <4>4 DEF Once, Open
      <4> QED
        BY <4>3, <4>4
    <3> QED
      BY <1>1, <3>1, <3>2 DEF OnceInv, Tidy, InTodo
  <2> QED
    BY <2>3, <2>4
<1> QED
  BY <1>2, <1>3 DEF Start

(* The others are tidy when p is.                                          *)
LEMMA TidyKept ==
  ASSUME OnceInv, NEW p \in DOMAIN proc, Changes(p), Tidy(p)'
  PROVE  \A q \in DOMAIN proc' : Tidy(q)'
BY DEF OnceInv, Changes, Tidy, InTodo

(* A step that decides nothing and writes nothing.                         *)
LEMMA SameRow ==
  ASSUME QueueType, Keeps(atoms'), Len(atoms') = Len(atoms)
  PROVE  \A c : SameAtoms(c)
BY DEF SameAtoms

LEMMA StepOnce ==
  ASSUME OnceInv, NEW p \in DOMAIN proc, Step(p)
  PROVE  OnceInv'
<1>1. /\ QueueType /\ QueueType' /\ Keeps(atoms') /\ Len(atoms) \in Nat /\ Tidy(p)
      /\ \A c \in Cands \ contested : Once(c)
  BY StepKept, TypeFacts DEF OnceInv
<1>2. contested' = contested
  BY DEF Step, Drop, Park, Resolve, Skip, MergeInto, Create, Alias, Check,
     Compare, Verdict, Promote, AddAtom,
     SetPromoted, Journal, Finish
<1>3. proc[p] \in ProcState /\ proc[p].todo \subseteq Item
  BY <1>1, TypeFacts DEF ProcState
<1>4. \A x \in proc[p].todo : x.c \in Cands /\ x.ent \in Nat /\ row[x.c].ent \in Nat
  BY <1>1, <1>3, TypeFacts DEF Item, Row
<1> DEFINE Fine == (\A q \in DOMAIN proc' : Tidy(q)') /\ \A c \in Cands \ contested : Once(c)'
(* The list goes on with x, to a call or to the journal.                   *)
<1>5. ASSUME NEW x \in proc[p].todo, NEW pc \in Working \ {"status"}, NEW ent \in Nat, NEW hit \in Nat,
             NEW act \in {"promote", "merge", "conflict", "reject"}, Begins(p, x, pc, ent, hit, act),
             Len(atoms') = Len(atoms), \A d \in Cands \ {x.c} : row'[d].status = row[d].status,
             pc = "journal" \/ (pc # "verdict" /\ row' = row)
      PROVE  Fine
  <2>1. /\ Changes(p) /\ proc[p].pc = "next" /\ proc'[p].pc = pc
        /\ proc'[p].todo = proc[p].todo \ {x} /\ proc'[p].c = x.c
    BY <1>1, <1>5, BeginsMoves
  <2>2. /\ Tidy(p)' /\ Undecided(p, x.c)
        /\ \A c : /\ Holds(p, c)' <=> Holds(p, c)
                  /\ ~Written(p, c)
                  /\ c # x.c => (Undecided(p, c)' <=> Undecided(p, c)) /\ ~Written(p, c)'
        /\ pc = "journal" => ~Undecided(p, x.c)' /\ ~Written(p, x.c)'
        /\ ~Written(p, x.c)'
    BY <1>1, <2>1, BeginsHolds
  <2>3. ASSUME NEW c \in Cands \ contested PROVE Once(c)'
    <3>1. Once(c) /\ SameAtoms(c)
      BY <1>1, <1>5, SameRow
    <3>2. CASE c = x.c /\ pc = "journal"
      BY <1>1, <2>1, <2>2, <3>1, <3>2, OnceDecided
    <3>3. CASE ~(c = x.c /\ pc = "journal")
      BY <1>1, <1>5, <2>1, <2>2, <3>1, <3>3, OnceStays
    <3> QED
      BY <3>2, <3>3
  <2> QED
    BY <2>1, <2>2, <2>3, TidyKept
(* The list goes on without x.                                             *)
<1>6. ASSUME NEW x \in proc[p].todo, proc[p].pc = "next", GoesOn(p, proc[p].todo \ {x}),
             Len(atoms') = Len(atoms), \A d \in Cands \ {x.c} : row'[d].status = row[d].status
      PROVE  Fine
  <2>1. /\ Changes(p) /\ proc'[p].pc = "next" /\ proc'[p].todo = proc[p].todo \ {x}
    BY <1>1, <1>3, <1>6, GoesOnMoves
  <2>2. /\ Tidy(p)'
        /\ \A c : /\ Holds(p, c)' => Holds(p, c)
                  /\ Undecided(p, c)' => Undecided(p, c)
                  /\ ~Written(p, c)'
                  /\ ~Written(p, c)
    BY <1>1, <1>6, <2>1, GoesOnHolds
  <2>3. Undecided(p, x.c) /\ ~Undecided(p, x.c)'
    BY <1>1, <2>1 DEF Undecided, Deciding, InTodo, Tidy
  <2>4. ASSUME NEW c \in Cands \ contested PROVE Once(c)'
    <3>1. Once(c) /\ SameAtoms(c)
      BY <1>1, <1>6, SameRow
    <3>2. CASE c = x.c
      BY <1>1, <2>1, <2>2, <2>3, <3>1, <3>2, OnceDecided
    <3>3. CASE c # x.c
      BY <1>1, <1>6, <2>1, <2>2, <3>1, <3>3, OnceStays
    <3> QED
      BY <3>2, <3>3
  <2> QED
    BY <2>1, <2>2, <2>4, TidyKept
(* The process goes on to the next call, and is to decide still.           *)
<1>7. ASSUME NEW pc \in Deciding, proc[p].pc \in Deciding,
             Changes(p), proc'[p].pc = pc, proc'[p].c = proc[p].c, proc'[p].todo = proc[p].todo,
             Len(atoms') = Len(atoms), row' = row
      PROVE  Fine
  <2>0. proc[p].pc \in Working /\ proc'[p].pc \in Working
    BY <1>7 DEF Working, Deciding
  <2>1. /\ Tidy(p)'
        /\ \A c : /\ Holds(p, c)' <=> Holds(p, c)
                  /\ InTodo(p, c)' <=> InTodo(p, c)
    BY <1>1, <1>7, <2>0, PcHolds
  <2>2. \A c : /\ Undecided(p, c)' <=> Undecided(p, c)
               /\ ~Written(p, c)' /\ ~Written(p, c)
    BY <1>7, <2>1 DEF Undecided, Deciding, Written
  <2>3. ASSUME NEW c \in Cands \ contested PROVE Once(c)'
    BY <1>1, <1>7, <2>1, <2>2, OnceStays, SameRow
  <2> QED
    BY <1>7, <2>1, <2>3, TidyKept
(* The process is done with its candidate.                                 *)
<1>8. ASSUME proc[p].pc \in {"next", "journal", "write"}, Changes(p), proc'[p].pc \in {"idle", "next"},
             proc'[p].todo \subseteq proc[p].todo, Len(atoms') = Len(atoms),
             \A c \in Cands : \/ row'[c].status = row[c].status
                              \/ row[c].status \in Open /\ row'[c].status \in Open
      PROVE  Fine
  <2>1. /\ Tidy(p)'
        /\ \A c : /\ Holds(p, c)' => Holds(p, c)
                  /\ Undecided(p, c)' => Undecided(p, c)
                  /\ ~Written(p, c)' /\ ~Written(p, c)
    BY <1>1, <1>8, GoesOnHolds
  <2>2. ASSUME NEW c \in Cands \ contested PROVE Once(c)'
    BY <1>1, <1>8, <2>1, OnceStays, SameRow
  <2> QED
    BY <1>8, <2>1, <2>2, TidyKept
<1>9. ASSUME NEW c \in Cands, NEW s \in Statuses, NEW e \in Nat, row' = Decided(c, s, e)
      PROVE  \A d \in Cands : row'[d].status =
                IF d = c /\ row[c].status \notin {"none", "skipped"} THEN s ELSE row[d].status
  BY <1>1, <1>9, DecidedType
<1>10. ASSUME NEW x \in proc[p].todo, Drop(p, x) \/ Park(p, x) \/ Skip(p, x) PROVE Fine
  <2>1. Len(atoms') = Len(atoms) /\ \A d \in Cands \ {x.c} : row'[d].status = row[d].status
    <3>1. \/ row' = row
          \/ \E s \in Statuses : row' = Decided(x.c, s, row[x.c].ent)
      BY <1>10 DEF Drop, Park, Skip, Statuses
    <3> QED
      BY <1>4, <1>9, <1>10, <3>1 DEF Drop, Park, Skip
  <2>2. CASE Drop(p, x)
    BY <1>5, <2>1, <2>2 DEF Drop, Working
  <2>3. CASE Park(p, x) \/ Skip(p, x)
    BY <1>6, <2>1, <2>3 DEF Park, Skip
  <2> QED
    BY <1>10, <2>2, <2>3
<1>11. ASSUME NEW x \in proc[p].todo, Resolve(p, x) PROVE Fine
  <2>1. \A mode, model : Found(x.c, mode, model) \subseteq Nat
    BY <1>1, <1>4, FoundType, TypeFacts
  <2>2. \/ \E e \in Nat : /\ \E pc \in {"check", "alias", "write"} : Begins(p, x, pc, e, 0, "promote")
                         /\ atoms' = Folded(p, x.c, e)
        \/ Begins(p, x, "create", 0, 0, "promote") /\ UNCHANGED atoms
    BY <1>4, <1>11, <2>1 DEF Resolve
  <2>3. Len(atoms') = Len(atoms) /\ row' = row
    BY <1>1, <1>4, <1>11, <2>2, FoldedKeeps DEF Resolve
  <2>4. PICK e \in Nat, pc \in {"check", "alias", "write", "create"} : Begins(p, x, pc, e, 0, "promote")
    BY <2>2
  <2>5. pc \in Working \ {"status"} /\ pc # "verdict"
    BY DEF Working
  <2> QED
    BY <1>5, <2>3, <2>4, <2>5
<1>12. ASSUME NEW x \in proc[p].todo, NEW i \in 1..Len(atoms), MergeInto(p, x, i) PROVE Fine
  <2>1. atoms[i].ent \in Nat /\ i \in Nat
    BY <1>1, TypeFacts DEF AtomRow
  <2>2. \A d \in Cands \ {x.c} : row'[d].status = row[d].status
    BY <1>4, <1>9, <1>12, <2>1 DEF MergeInto, Statuses
  <2> QED
    BY <1>5, <1>12, <2>1, <2>2 DEF MergeInto, Working
<1>13. ASSUME Create(p) PROVE Fine
  <2>1. Len(ents) + 1 \in Nat
    BY <1>1, TypeFacts
  <2>2. PICK pc \in {"check", "alias"} : Goes(p, pc, Len(ents) + 1, 0, "promote")
    BY <1>13 DEF Create
  <2>3. pc \in Working
    BY DEF Working
  <2>4. /\ Changes(p) /\ proc'[p].pc = pc /\ proc'[p].c = proc[p].c /\ proc'[p].todo = proc[p].todo
    BY <1>1, <2>1, <2>2, <2>3, GoesMoves
  <2> QED
    BY <1>7, <1>13, <2>4 DEF Create, Deciding
<1>22. ASSUME Alias(p) PROVE Fine
  <2>1. /\ Changes(p) /\ proc'[p].pc = "write" /\ proc'[p].c = proc[p].c
        /\ proc'[p].todo = proc[p].todo
    BY <1>1, <1>3, <1>22, GoesMoves DEF Alias, Working, ProcState
  <2> QED
    BY <1>7, <1>22, <2>1 DEF Alias, Deciding
<1>14. ASSUME Check(p) \/ Compare(p) PROVE Fine
  <2>1. \A i \in Live : i \in Nat /\ atoms[i].ent \in Nat
    BY <1>1, TypeFacts DEF AtomRow
  <2>2. \A c, e : Duplicates(c, e) \subseteq Live /\ Conflicts(c, e) \subseteq Live
    BY DEF Duplicates, Conflicts
  <2>3. PICK pc \in {"compare", "verdict", "write"}, ent \in Nat, i \in Nat,
             act \in {"promote", "merge", "conflict"} : Goes(p, pc, ent, i, act)
    BY <1>3, <1>14, <2>1, <2>2 DEF Check, Compare, ProcState
  <2>4. QueueType /\ pc \in Working /\ act \in {"promote", "merge", "conflict", "reject"}
    BY <1>1 DEF Working
  <2>5. /\ Changes(p) /\ proc'[p].pc = pc /\ proc'[p].c = proc[p].c /\ proc'[p].todo = proc[p].todo
    BY ONLY <2>3, <2>4, GoesMoves, p \in DOMAIN proc, ent \in Nat, i \in Nat
  <2> QED
    BY <1>7, <1>14, <2>5 DEF Check, Compare, Deciding
(* The process decides, and goes on to the journal.                        *)
<1>15. ASSUME Verdict(p) PROVE Fine
  <2>1. proc[p].c \in Cands /\ proc[p].ent \in Nat
    BY <1>1, <1>3, <1>15 DEF Verdict, Working, QueueType, ProcState
  <2>2. /\ Changes(p) /\ proc[p].pc = "verdict" /\ proc'[p].pc = "journal" /\ proc'[p].c = proc[p].c
        /\ proc'[p].todo = proc[p].todo
    BY <1>1, <1>15, PcMoves DEF Verdict, Working
  <2>3. /\ Tidy(p)' /\ ~InTodo(p, proc[p].c)
        /\ \A c : /\ Holds(p, c)' <=> Holds(p, c)
                  /\ InTodo(p, c)' <=> InTodo(p, c)
    BY <1>1, <2>2, PcHolds DEF Working
  <2>4. \A c : /\ ~Written(p, c)' /\ ~Written(p, c)
               /\ IF c = proc[p].c THEN Undecided(p, c) /\ ~Undecided(p, c)'
                                   ELSE Undecided(p, c)' <=> Undecided(p, c)
    BY <2>2, <2>3 DEF Undecided, Deciding, Written
  <2>5. \A d \in Cands \ {proc[p].c} : row'[d].status = row[d].status
    BY <1>9, <1>15, <2>1 DEF Verdict, Statuses
  <2>6. \A c : SameAtoms(c)
    BY <1>1, <1>15, SameRow DEF Verdict
  <2>7. ASSUME NEW c \in Cands \ contested PROVE Once(c)'
    <3>1. CASE c = proc[p].c
      BY <1>1, <2>2, <2>4, <2>6, <3>1, OnceDecided
    <3>2. CASE c # proc[p].c
      BY <1>1, <2>2, <2>3, <2>4, <2>5, <2>6, <3>2, OnceStays
    <3> QED
      BY <3>1, <3>2
  <2> QED
    BY <2>2, <2>3, <2>7, TidyKept
<1>16. ASSUME Promote(p) PROVE Fine
  <2>1. proc[p].c \in Cands /\ proc[p].ent \in Nat /\ proc[p].pc = "write"
    BY <1>1, <1>3, <1>16 DEF Promote, Working, QueueType, ProcState
  <2>2. CASE proc[p].hit # 0 /\ proc[p].hit \notin Live
    <3>1. Changes(p) /\ proc'[p].pc = "idle" /\ proc'[p].todo = {}
      BY <1>1, <1>16, <2>2, StopsMoves DEF Promote
    <3> QED
      BY <1>8, <1>16, <2>1, <2>2, <3>1 DEF Promote
  <2>3. CASE ~(proc[p].hit # 0 /\ proc[p].hit \notin Live)
    <3>1. Changes(p) /\ proc'[p].pc = "next" /\ proc'[p].todo = proc[p].todo
      BY <1>1, <1>3, <1>16, <2>3, GoesOnMoves DEF Promote
    <3>2. Len(atoms') = Len(atoms) + 1 /\ atoms'[Len(atoms) + 1].from = proc[p].c
      <4>1. /\ Len(atoms') = Len(atoms) + 1
            /\ atoms'[Len(atoms) + 1] = NewAtom(p, proc[p].mode)
        BY <1>1, <1>16, <2>3, PromotedKeeps
      <4> QED
        BY <4>1 DEF NewAtom
    <3>3. row' = Decided(proc[p].c, "promoted", proc[p].ent)
      BY <1>16, <2>3 DEF Promote
    <3>4. \A d \in Cands : row'[d].status =
             IF d = proc[p].c /\ row[proc[p].c].status \notin {"none", "skipped"} THEN "promoted"
             ELSE row[d].status
      BY <1>9, <2>1, <3>3 DEF Statuses
    <3>5. /\ Tidy(p)'
          /\ \A c : /\ Holds(p, c)' => Holds(p, c)
                    /\ Undecided(p, c)' => Undecided(p, c)
                    /\ ~Written(p, c)' /\ ~Written(p, c)
                    /\ c = proc[p].c => ~Undecided(p, c)'
      BY <1>1, <2>1, <3>1, GoesOnHolds DEF Working
    <3>6. ASSUME NEW c \in Cands \ contested PROVE Once(c)'
      <4>1. CASE c = proc[p].c
        <5>1. OneAtom(c) /\ Undecided(p, c)
          BY <1>1, <2>1, <3>2, <4>1 DEF OneAtom, Undecided, Deciding
        <5> QED
          BY <1>1, <3>1, <3>4, <3>5, <4>1, <5>1, OncePromoted
      <4>2. CASE c # proc[p].c
        <5>1. SameAtoms(c)
          BY <1>1, <3>2, <4>2 DEF SameAtoms
        <5> QED
          BY <1>1, <3>1, <3>4, <3>5, <4>2, <5>1, OnceStays
      <4> QED
        BY <4>1, <4>2
    <3> QED
      BY <3>1, <3>5, <3>6, TidyKept
  <2> QED
    BY <2>2, <2>3
<1>17. ASSUME AddAtom(p) PROVE Fine
  <2>1. /\ proc[p].c \in Cands /\ proc[p].ent \in Nat /\ proc[p].pc = "write"
        /\ proc[p].mode \in {"review", "stale"}
    BY <1>1, <1>3, <1>17 DEF AddAtom, Working, QueueType, ProcState
  <2>2. /\ Changes(p) /\ proc'[p].pc = "status" /\ proc'[p].c = proc[p].c
        /\ proc'[p].todo = proc[p].todo
    <3>1. Len(atoms) + 1 \in Nat /\ Goes(p, "status", proc[p].ent, Len(atoms) + 1, "promote")
      BY <1>1, <1>17 DEF AddAtom
    <3> QED
      BY <1>1, <2>1, <3>1, GoesMoves DEF Working
  <2>3. Len(atoms') = Len(atoms) + 1 /\ atoms'[Len(atoms) + 1].from = proc[p].c
    <3>1. NewAtom(p, proc[p].mode) \in AtomRow /\ NewAtom(p, proc[p].mode).from = proc[p].c
      BY <2>1 DEF NewAtom, AtomRow
    <3> QED
      BY <1>1, <1>17, <3>1, KeepsAppend, UnchangedKeeps DEF AddAtom
  <2>4. /\ Tidy(p)' /\ ~InTodo(p, proc[p].c)
        /\ \A c : /\ Holds(p, c)' <=> Holds(p, c)
                  /\ InTodo(p, c)' <=> InTodo(p, c)
    BY <1>1, <2>1, <2>2, PcHolds DEF Working
  <2>5. \A c : /\ ~Written(p, c)
               /\ IF c = proc[p].c THEN Undecided(p, c) /\ ~Undecided(p, c)' /\ Written(p, c)'
                                   ELSE (Undecided(p, c)' <=> Undecided(p, c)) /\ ~Written(p, c)'
    BY <2>1, <2>2, <2>4 DEF Undecided, Deciding, Written
  <2>6. row' = row
    BY <1>17 DEF AddAtom
  <2>7. ASSUME NEW c \in Cands \ contested PROVE Once(c)'
    <3>1. CASE c = proc[p].c
      <4>1. OneAtom(c)
        BY <1>1, <2>3, <3>1 DEF OneAtom
      <4> QED
        BY <1>1, <2>2, <2>5, <2>6, <3>1, <4>1, OnceWritten
    <3>2. CASE c # proc[p].c
      <4>1. SameAtoms(c)
        BY <1>1, <2>3, <3>2 DEF SameAtoms
      <4> QED
        BY <1>1, <2>2, <2>4, <2>5, <2>6, <3>2, <4>1, OnceStays
    <3> QED
      BY <3>1, <3>2
  <2> QED
    BY <2>2, <2>4, <2>7, TidyKept
<1>18. ASSUME SetPromoted(p) PROVE Fine
  <2>1. proc[p].c \in Cands /\ proc[p].ent \in Nat /\ proc[p].pc = "status"
    BY <1>1, <1>3, <1>18 DEF SetPromoted, Working, QueueType, ProcState
  <2>2. /\ Changes(p) /\ proc'[p].pc = "journal" /\ proc'[p].c = proc[p].c
        /\ proc'[p].todo = proc[p].todo
    BY <1>1, <1>18, PcMoves DEF SetPromoted, Working
  <2>3. /\ Tidy(p)' /\ ~InTodo(p, proc[p].c)
        /\ \A c : /\ Holds(p, c)' <=> Holds(p, c)
                  /\ InTodo(p, c)' <=> InTodo(p, c)
    BY <1>1, <2>1, <2>2, PcHolds DEF Working
  <2>4. \A c : /\ ~Written(p, c)' /\ (Written(p, c) <=> c = proc[p].c)
               /\ Undecided(p, c)' <=> Undecided(p, c)
               /\ c = proc[p].c => ~Undecided(p, c)'
    BY <2>1, <2>2, <2>3 DEF Undecided, Deciding, Written
  <2>5. \A d \in Cands : row'[d].status =
           IF d = proc[p].c /\ row[proc[p].c].status \notin {"none", "skipped"} THEN "promoted"
           ELSE row[d].status
    BY <1>9, <1>18, <2>1 DEF SetPromoted, Statuses
  <2>6. \A c : SameAtoms(c)
    BY <1>1, <1>18, SameRow DEF SetPromoted
  <2>7. ASSUME NEW c \in Cands \ contested PROVE Once(c)'
    <3>1. CASE c = proc[p].c
      BY <1>1, <2>2, <2>4, <2>5, <2>6, <3>1, OnceMarked
    <3>2. CASE c # proc[p].c
      BY <1>1, <2>2, <2>3, <2>4, <2>5, <2>6, <3>2, OnceStays
    <3> QED
      BY <3>1, <3>2
  <2> QED
    BY <2>2, <2>3, <2>7, TidyKept
<1>19. ASSUME Journal(p) PROVE Fine
  <2>1. Changes(p) /\ proc'[p].pc = "next" /\ proc'[p].todo = proc[p].todo
    BY <1>1, <1>3, <1>19, GoesOnMoves DEF Journal
  <2> QED
    BY <1>8, <1>19, <2>1 DEF Journal
<1>20. ASSUME Finish(p) PROVE Fine
  <2>1. Changes(p) /\ proc'[p].pc = "idle" /\ proc'[p].todo = {}
    BY <1>1, <1>20, StopsMoves DEF Finish
  <2>2. \A c \in Cands : \/ row'[c].status = row[c].status
                         \/ row[c].status \in Open /\ row'[c].status \in Open
    <3>1. \A c \in Cands : \/ row'[c] = row[c]
                           \/ c \in Escalated /\ row'[c] = [row[c] EXCEPT !.status = "needs_review", !.age = 0]
      BY <1>20 DEF Finish
    <3>2. \A c \in Cands : [row[c] EXCEPT !.status = "needs_review", !.age = 0].status = "needs_review"
      BY <1>1, TypeFacts DEF Row
    <3>3. \A c \in Escalated : row[c].status = "pending"
      BY DEF Escalated, Listed
    <3> QED
      BY <3>1, <3>2, <3>3 DEF Open
  <2> QED
    BY <1>8, <1>20, <2>1, <2>2 DEF Finish
<1>21. Fine
  <2> HIDE DEF Fine
  <2> QED
    BY <1>10, <1>11, <1>12, <1>13, <1>14, <1>15, <1>16, <1>17, <1>18, <1>19, <1>20, <1>22 DEF Step
<1> QED
  BY <1>1, <1>2, <1>21 DEF OnceInv

LEMMA WorldOnce ==
  ASSUME OnceInv, Day \/ (\E i \in 1..Len(atoms) : Retire(i)) \/ (\E p \in DOMAIN proc : Crash(p))
  PROVE  OnceInv'
<1>1. /\ QueueType /\ QueueType' /\ Keeps(atoms')
      /\ \A c \in Cands \ contested : Once(c)
  BY WorldKept DEF OnceInv
<1>2. Len(atoms') = Len(atoms)
  <2>1. ASSUME NEW i \in 1..Len(atoms), Retire(i) PROVE Len(atoms') = Len(atoms)
    BY <1>1, <2>1, TypeFacts, LenProperties DEF Retire, QueueType
  <2> QED
    BY <2>1 DEF Day, Crash
<1>3. \A c \in Cands : row'[c].status = row[c].status
  BY <1>1, TypeFacts DEF Day, Retire, Crash, Row
<1>4. \A c : SameAtoms(c)
  BY <1>1, <1>2, SameRow
<1>5. CASE proc' = proc /\ contested' = contested
  <2>1. ASSUME NEW c \in Cands \ contested PROVE Once(c)'
    <3>1. \A q : /\ Holds(q, c)' <=> Holds(q, c)
                 /\ Undecided(q, c)' <=> Undecided(q, c)
                 /\ Written(q, c)' <=> Written(q, c)
      BY <1>5 DEF Holds, Undecided, Deciding, Written, InTodo
    <3>2. Once(c) /\ SameAtoms(c)
      BY <1>1, <1>4
    <3> HIDE DEF Holds, Undecided, Deciding, Written, Bare
    <3> QED
      BY <1>1, <1>3, <1>5, <3>1, <3>2, SameBare DEF Once
  <2> QED
    BY <1>1, <1>5, <2>1 DEF OnceInv, Tidy, InTodo
<1>6. ASSUME NEW p \in DOMAIN proc, Crash(p) PROVE OnceInv'
  <2>1. Changes(p) /\ proc'[p].pc = "idle" /\ proc'[p].todo = {}
    BY <1>1, <1>6, StopsMoves DEF Crash
  <2>2. Tidy(p)' /\ \A c : ~Holds(p, c)' /\ ~Undecided(p, c)' /\ ~Written(p, c)'
    BY <2>1 DEF Tidy, Holds, Undecided, Deciding, Written, InTodo, Working
  <2>3. ASSUME NEW c \in Cands \ contested' PROVE Once(c)'
    <3>1. c \notin contested /\ ~Written(p, c)
      BY <1>6, <2>3 DEF Crash, Written
    <3> QED
      BY <1>1, <1>3, <1>4, <2>1, <2>2, <3>1, OnceStays
  <2> QED
    BY <1>1, <2>1, <2>2, <2>3, TidyKept DEF OnceInv
<1> QED
  BY <1>5, <1>6 DEF Day, Retire

(* A candidate that no two processes held at once, and whose decision no   *)
(* crash cut in two, becomes one atom at most, and none when rejected      *)
(* (pipeline/promotion/__init__.py, review.py, fallback.py).               *)
THEOREM DecisionCorrect == Spec => []DecidedOnce
<1>1. Init => OnceInv
  <2> SUFFICES ASSUME Init PROVE OnceInv
    OBVIOUS
  <2>1. /\ \A p \in DOMAIN proc : proc[p].pc = "idle" /\ proc[p].todo = {}
        /\ Len(atoms) = 0 /\ \A c \in Cands : row[c].status = "none"
    BY EmptySeq DEF Init, Idle
  <2>2. \A c \in Cands : Bare(c)
    BY <2>1 DEF Bare
  <2> QED
    BY <2>1, <2>2, TypeInit DEF OnceInv, Tidy, Once, Holds, Undecided, Deciding, Written, InTodo, Working
<1>2. OnceInv /\ [Next]_vars => OnceInv'
  <2> SUFFICES ASSUME OnceInv, [Next]_vars PROVE OnceInv'
    OBVIOUS
  <2>1. CASE UNCHANGED vars
    <3>1. QueueType'
      BY <2>1, NextKept DEF OnceInv
    <3> QED
      BY <2>1, <3>1 DEF vars, OnceInv, Tidy, Once, Holds, Undecided, Deciding, Written, InTodo, Bare
  <2> QED
    BY <2>1, StartOnce, StepOnce, WorldOnce DEF Next
<1>3. OnceInv => DecidedOnce
  <2> SUFFICES ASSUME OnceInv, NEW c \in Cands \ contested
               PROVE  LET own == {i \in 1..Len(atoms) : atoms[i].from = c}
                      IN  Cardinality(own) <= 1 /\ (row[c].status = "rejected" => own = {})
    BY DEF DecidedOnce
  <2> DEFINE own == {i \in 1..Len(atoms) : atoms[i].from = c}
  <2>1. Once(c)
    BY DEF OnceInv
  <2>2. own = {} \/ \E i : own = {i}
    BY <2>1 DEF Once
  <2>3. Cardinality(own) <= 1
    <3> HIDE DEF own
    <3>1. CASE own = {}
      BY <3>1, FS_EmptySet
    <3>2. ASSUME NEW i, own = {i} PROVE Cardinality(own) <= 1
      <4>1. Cardinality({i}) = 1
        BY FS_Singleton
      <4> QED
        BY <3>2, <4>1
    <3> QED
      BY <2>2, <3>1, <3>2
  <2>4. row[c].status = "rejected" => own = {}
    BY <2>1 DEF Once, Bare
  <2> QED
    BY <2>3, <2>4
<1> QED
  BY <1>1, <1>2, <1>3, PTL DEF Spec

=============================================================================
